----------------------------- MODULE MCFieldParser -----------------------------
EXTENDS FieldParser

Number(negative, integer, width, fraction, places) ==
  <<"number", [negative |-> negative, integer |-> integer, width |-> width, fraction |-> fraction, places |-> places]>>
MCLimits == [members |-> 3, innerListItems |-> 2, parameters |-> 2, occurrences |-> 4]
MCKeys == {"a", "b"}
MCLexemes ==
  {<<"sp">>, <<";">>, <<"=">>, <<",">>, <<"(">>, <<")">>, <<"word", "a">>, <<"word", "b">>, <<"boolean", TRUE>>}
MCRare ==
  {<<"tab">>, <<"junk">>, <<"word", "T">>, <<"string", "s">>, <<"bytes", <<1>>>>, <<"boolean", FALSE>>,
   <<"display-string", "d">>, <<"date", Number(TRUE, 7, 1, 0, 0)[2]>>, <<"date", Number(FALSE, 7, 1, 5, 1)[2]>>,
   Number(FALSE, 0, 1, 0, 0), Number(TRUE, 0, 2, 0, 0), Number(FALSE, 9999, 4, 0, 0), Number(FALSE, 10000, 5, 0, 0),
   Number(FALSE, 3, 5, 0, 0), Number(TRUE, 0, 1, 0, 1), Number(FALSE, 9, 1, 50, 2), Number(FALSE, 9, 2, 5, 1),
   Number(FALSE, 12, 2, 5, 1), Number(TRUE, 1, 1, 105, 3), Number(FALSE, 0, 1, 5, 3),
   Number(FALSE, 1, 1, 25, 4), Number(TRUE, 1, 1, 35, 4), Number(FALSE, 1, 1, 2501, 5), Number(TRUE, 9, 1, 99949, 5),
   Number(FALSE, 9, 1, 9995, 4), Number(FALSE, 0, 3, 19999, 5), Number(FALSE, 0, 1, 20500, 5)}
================================================================================
