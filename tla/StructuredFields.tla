--------------------------- MODULE StructuredFields ---------------------------
(***************************************************************************)
(* packages/structured-fields: the parser (parser.ts), the semantic model   *)
(* (parse.ts), the canonical serializer (serializer.ts) and decimals.       *)
(*                                                                         *)
(* A field value is a sequence of lexemes, <<kind>> or <<kind, value>>, and  *)
(* <<"end">>; a word is a key or a token by where it stands.  What makes a    *)
(* lexeme well-formed is left out, but for numbers; so are sizes in bytes.   *)
(* The parser reads a lexeme at a time: Read is one move of its position.    *)
(***************************************************************************)
EXTENDS Integers, SequencesExt

CONSTANTS
  FieldLimits,  \* [members, innerListItems, parameters, occurrences]
  Keys,         \* the words that are keys
  DecimalWidth  \* 12 digits before the point

ASSUME StructuredFieldsAssumption ==
  /\ {FieldLimits[name] : name \in DOMAIN FieldLimits} \subseteq Nat
  /\ DecimalWidth \in Nat \ {0}

Sp == <<"sp">>
Tab == <<"tab">>
End == <<"end">>
Invalid == <<"invalid">>
True == <<"boolean", TRUE>>
IsKey(lexeme) == lexeme[1] = "word" /\ lexeme[2] \in Keys

-----------------------------------------------------------------------------
(* Numbers.  A text is [negative, integer, width, fraction, places]: `width`  *)
(* digits, and `places` of them after the point, none if there is no point.   *)

IntegerWidth == DecimalWidth + 3
MaxInteger == 10^IntegerWidth - 1
Abs(n) == IF n < 0 THEN -n ELSE n
Signed(text, n) == IF text.negative THEN -n ELSE n

ReadNumber(text) ==
  IF text.places = 0
  THEN IF text.width <= IntegerWidth THEN <<"integer", Signed(text, text.integer)>> ELSE Invalid
  ELSE IF text.width <= DecimalWidth /\ text.places <= 3
       THEN <<"decimal", Signed(text, text.integer * 1000 + text.fraction * 10^(3 - text.places))>>
       ELSE Invalid

WidthOf(n) == CHOOSE w \in 1..(IntegerWidth + 1) : n < 10^w /\ (w > 1 => n >= 10^(w - 1))
WriteInteger(n) ==
  [negative |-> n < 0, integer |-> Abs(n), width |-> WidthOf(Abs(n)), fraction |-> 0, places |-> 0]
MutWriteDecimal(thousandths) ==
  LET whole == Abs(thousandths) \div 1000
      rest == Abs(thousandths) % 1000
      places == IF rest = 0 THEN 0 ELSE IF rest % 100 = 0 THEN 1 ELSE IF rest % 10 = 0 THEN 2 ELSE 3
  IN [negative |-> thousandths < 0, integer |-> whole, width |-> WidthOf(whole),
      fraction |-> rest \div 10^(3 - places), places |-> places]
\* No trailing zeros, but for one after the point.
WriteDecimal(thousandths) ==
  LET whole == Abs(thousandths) \div 1000
      rest == Abs(thousandths) % 1000
      places == IF rest % 100 = 0 THEN 1 ELSE IF rest % 10 = 0 THEN 2 ELSE 3
  IN [negative |-> thousandths < 0, integer |-> whole, width |-> WidthOf(whole),
      fraction |-> rest \div 10^(3 - places), places |-> places]

MutDecimalFromString(text) ==
  LET cut == IF text.places <= 3 THEN text.fraction * 10^(3 - text.places)
             ELSE text.fraction \div 10^(text.places - 3)
      up == text.places > 3 /\ (text.fraction \div 10^(text.places - 4)) % 10 >= 5
      magnitude == text.integer * 1000 + cut + (IF up THEN 1 ELSE 0)
  IN IF text.integer >= 10^DecimalWidth \/ magnitude > MaxInteger THEN Invalid
     ELSE <<"decimal", Signed(text, magnitude)>>
\* decimalFromString(): leading zeros do not count, halves go to the even
\* thousandth, and the range is checked after rounding.
DecimalFromString(text) ==
  LET long == text.places > 3
      unit == IF long THEN 10^(text.places - 3) ELSE 1
      cut == IF long THEN text.fraction \div unit ELSE text.fraction * 10^(3 - text.places)
      tail == IF long THEN text.fraction % unit ELSE 0
      fourth == IF long THEN tail \div (unit \div 10) ELSE 0
      kept == text.integer * 1000 + cut
      up == fourth > 5 \/ (fourth = 5 /\ (tail % (unit \div 10) # 0 \/ kept % 2 # 0))
      magnitude == kept + (IF up THEN 1 ELSE 0)
  IN IF text.integer >= 10^DecimalWidth \/ magnitude > MaxInteger THEN Invalid
     ELSE <<"decimal", Signed(text, magnitude)>>

Bare(lexeme) ==
  CASE lexeme[1] = "number" -> ReadNumber(lexeme[2])
    [] lexeme[1] = "date" -> LET number == ReadNumber(lexeme[2])
                             IN IF number[1] = "integer" THEN <<"date", number[2]>> ELSE Invalid
    [] lexeme[1] = "word" -> <<"token", lexeme[2]>>
    [] lexeme[1] \in {"string", "bytes", "boolean", "display-string"} -> lexeme
    [] OTHER -> Invalid

-----------------------------------------------------------------------------
(* The parser.  Its entries are raw: every occurrence of a key is kept.       *)

NewParser(type) == [type |-> type, at |-> "start", inside |-> FALSE, entries |-> <<>>, occurrences |-> 0]
Failed(reason) == [at |-> "failed", reason |-> reason]
Exhausted(parser) == parser.occurrences + 1 > FieldLimits.occurrences
Item(bare) == [kind |-> "item", bare |-> bare, parameters |-> <<>>]
InnerList == [kind |-> "inner-list", items |-> <<>>, parameters |-> <<>>]

\* An item or inner list that is read, counted before it is made.
Attach(parser, member) ==
  LET n == Len(parser.entries)
  IN IF parser.inside THEN [parser EXCEPT !.occurrences = @ + 1, !.at = "parameters",
                                          !.entries[n].member.items = Append(@, member)]
     ELSE [parser EXCEPT !.occurrences = @ + 1, !.at = "parameters", !.entries[n].member = member]
ReadItem(parser, lexeme) ==
  IF Exhausted(parser) THEN Failed("limit")
  ELSE IF Bare(lexeme) = Invalid THEN Failed("syntax")
  ELSE Attach(parser, Item(Bare(lexeme)))
ReadMember(parser, lexeme) ==
  IF lexeme # <<"(">> \/ parser.type = "item" THEN ReadItem(parser, lexeme)
  ELSE IF Exhausted(parser) THEN Failed("limit")
  ELSE [Attach(parser, InnerList) EXCEPT !.inside = TRUE, !.at = "open"]

\* The head of the loops of list() and dictionary().
ReadEntry(parser, lexeme) ==
  LET started == [parser EXCEPT !.entries = Append(@, [key |-> lexeme, member |-> InnerList])]
  IN IF parser.type # "item" /\ Len(parser.entries) + 1 > FieldLimits.members THEN Failed("limit")
     ELSE IF parser.type # "dictionary" THEN ReadMember(started, lexeme)
     ELSE IF IsKey(lexeme) THEN [started EXCEPT !.at = "key"] ELSE Failed("syntax")

ReadStart(parser, lexeme) ==
  IF lexeme = Sp THEN parser
  ELSE IF lexeme = End /\ parser.type # "item" THEN [parser EXCEPT !.at = "end"]
  ELSE ReadEntry(parser, lexeme)

\* An item may be followed by spaces, a member of a list or dictionary by tabs too.
ReadSeparator(parser, lexeme) ==
  IF lexeme = Sp \/ (lexeme = Tab /\ parser.type # "item") THEN [parser EXCEPT !.at = "separator"]
  ELSE IF lexeme = End THEN [parser EXCEPT !.at = "end"]
  ELSE IF lexeme = <<",">> /\ parser.type # "item" THEN [parser EXCEPT !.at = "comma"]
  ELSE Failed("syntax")
ReadComma(parser, lexeme) ==
  IF lexeme \in {Sp, Tab} THEN parser ELSE IF lexeme = End THEN Failed("syntax") ELSE ReadEntry(parser, lexeme)

Close(parser) == [parser EXCEPT !.inside = FALSE, !.at = "parameters"]
ReadInner(parser, lexeme) ==
  IF lexeme = Sp THEN [parser EXCEPT !.at = "inner"]
  ELSE IF lexeme = <<")">> THEN Close(parser)
  ELSE IF parser.at = "open" /\ lexeme = End THEN Failed("syntax")
  ELSE IF Len(Last(parser.entries).member.items) + 1 > FieldLimits.innerListItems THEN Failed("limit")
  ELSE ReadItem(parser, lexeme)

\* What the parameters that are read belong to.
Target(parser) ==
  LET member == Last(parser.entries).member IN IF parser.inside THEN Last(member.items) ELSE member
SetParameters(parser, parameters) ==
  LET n == Len(parser.entries)
  IN IF parser.inside
     THEN [parser EXCEPT !.entries[n].member.items[Len(parser.entries[n].member.items)].parameters = parameters]
     ELSE [parser EXCEPT !.entries[n].member.parameters = parameters]

MutReadParameters(parser, lexeme) ==
  IF lexeme = <<";">>
  THEN IF Len(Target(parser).parameters) + 1 > FieldLimits.parameters \/ Exhausted(parser)
       THEN Failed("limit") ELSE [parser EXCEPT !.at = "parameter"]
  ELSE IF ~parser.inside THEN ReadSeparator(parser, lexeme)
  ELSE IF lexeme \in {Sp, <<")">>} THEN ReadInner(parser, lexeme) ELSE Failed("syntax")
\* A parameter is counted before it is read, also if its key has occurred.
ReadParameters(parser, lexeme) ==
  IF lexeme = <<";">>
  THEN IF Len(Target(parser).parameters) + 1 > FieldLimits.parameters \/ Exhausted(parser)
       THEN Failed("limit") ELSE [parser EXCEPT !.at = "parameter", !.occurrences = @ + 1]
  ELSE IF ~parser.inside THEN ReadSeparator(parser, lexeme)
  ELSE IF lexeme \in {Sp, <<")">>} THEN ReadInner(parser, lexeme) ELSE Failed("syntax")
ReadParameter(parser, lexeme) ==
  IF lexeme = Sp THEN parser
  ELSE IF ~IsKey(lexeme) THEN Failed("syntax")
  ELSE [SetParameters(parser, Append(Target(parser).parameters, <<lexeme[2], True>>)) EXCEPT !.at = "equals"]
ReadEquals(parser, lexeme) ==
  IF lexeme = <<"=">> THEN [parser EXCEPT !.at = "value"] ELSE ReadParameters(parser, lexeme)
ReadValue(parser, lexeme) ==
  LET parameters == Target(parser).parameters
  IN IF Bare(lexeme) = Invalid THEN Failed("syntax")
     ELSE [SetParameters(parser, [parameters EXCEPT ![Len(parameters)][2] = Bare(lexeme)])
             EXCEPT !.at = "parameters"]

\* A key of a dictionary without a value means true.
ReadKey(parser, lexeme) ==
  IF lexeme = <<"=">> THEN [parser EXCEPT !.at = "member"]
  ELSE IF Exhausted(parser) THEN Failed("limit")
  ELSE ReadParameters(Attach(parser, Item(True)), lexeme)

Read(parser, lexeme) ==
  CASE parser.at = "start" -> ReadStart(parser, lexeme)
    [] parser.at = "key" -> ReadKey(parser, lexeme)
    [] parser.at = "member" -> ReadMember(parser, lexeme)
    [] parser.at \in {"open", "inner"} -> ReadInner(parser, lexeme)
    [] parser.at = "parameters" -> ReadParameters(parser, lexeme)
    [] parser.at = "parameter" -> ReadParameter(parser, lexeme)
    [] parser.at = "equals" -> ReadEquals(parser, lexeme)
    [] parser.at = "value" -> ReadValue(parser, lexeme)
    [] parser.at = "separator" -> ReadSeparator(parser, lexeme)
    [] parser.at = "comma" -> ReadComma(parser, lexeme)
    [] OTHER -> parser
ParseRaw(wire, type) ==
  LET lexemes == Append(wire, End)
      read[i \in 0..Len(lexemes)] ==
        IF i = 0 THEN NewParser(type) ELSE Read(read[i - 1], lexemes[i])
  IN read[Len(lexemes)]

-----------------------------------------------------------------------------
(* The semantic model: [kind, entries], of pairs in either case.              *)

MutLastValues(pairs) ==
  FoldLeft(LAMBDA map, pair : Append(SelectSeq(map, LAMBDA p : p[1] # pair[1]), pair), <<>>, pairs)
\* A Map: the last value of a key, at the place of its first.
LastValues(pairs) ==
  FoldLeft(LAMBDA map, pair :
             IF \E i \in DOMAIN map : map[i][1] = pair[1]
             THEN [i \in DOMAIN map |-> IF map[i][1] = pair[1] THEN pair ELSE map[i]]
             ELSE Append(map, pair),
           <<>>, pairs)
SemanticItem(item) == [item EXCEPT !.parameters = LastValues(@)]
SemanticMember(member) ==
  IF member.kind = "item" THEN SemanticItem(member)
  ELSE [member EXCEPT !.parameters = LastValues(@), !.items = [i \in DOMAIN @ |-> SemanticItem(@[i])]]
Semantic(parser) ==
  LET pairs == [i \in DOMAIN parser.entries |->
                  <<parser.entries[i].key, SemanticMember(parser.entries[i].member)>>]
      named == [i \in DOMAIN pairs |-> <<pairs[i][1][2], pairs[i][2]>>]
  IN [kind |-> parser.type,
      entries |-> IF parser.type = "dictionary" THEN LastValues(named)
                  ELSE [i \in DOMAIN pairs |-> <<i, pairs[i][2]>>]]

\* A field, or Failed.
Parse(wire, type) ==
  LET parser == ParseRaw(wire, type) IN IF parser.at = "failed" THEN parser ELSE Semantic(parser)

-----------------------------------------------------------------------------
(* The serializer, and what it accepts.                                      *)

WriteBare(bare) ==
  CASE bare[1] = "integer" -> <<"number", WriteInteger(bare[2])>>
    [] bare[1] = "decimal" -> <<"number", WriteDecimal(bare[2])>>
    [] bare[1] = "date" -> <<"date", WriteInteger(bare[2])>>
    [] bare[1] = "token" -> <<"word", bare[2]>>
    [] OTHER -> bare
WriteParameter(pair) ==
  <<<<";">>, <<"word", pair[1]>>>> \o (IF pair[2] = True THEN <<>> ELSE <<<<"=">>, WriteBare(pair[2])>>)
WriteParameters(parameters) == FlattenSeq([i \in DOMAIN parameters |-> WriteParameter(parameters[i])])
WriteItem(item) == <<WriteBare(item.bare)>> \o WriteParameters(item.parameters)
Joined(texts, separator) ==
  FlattenSeq([i \in DOMAIN texts |-> IF i = 1 THEN texts[i] ELSE separator \o texts[i]])
WriteMember(member) ==
  IF member.kind = "item" THEN WriteItem(member)
  ELSE <<<<"(">>>> \o Joined([i \in DOMAIN member.items |-> WriteItem(member.items[i])], <<Sp>>)
         \o <<<<")">>>> \o WriteParameters(member.parameters)
WriteEntry(kind, entry) ==
  IF kind # "dictionary" THEN WriteMember(entry[2])
  ELSE <<<<"word", entry[1]>>>> \o
       (IF entry[2].kind = "item" /\ entry[2].bare = True THEN WriteParameters(entry[2].parameters)
        ELSE <<<<"=">>>> \o WriteMember(entry[2]))

NoDuplicates(pairs) == \A i, j \in DOMAIN pairs : pairs[i][1] = pairs[j][1] => i = j
ValidBare(bare) == bare[1] \in {"integer", "decimal", "date"} => Abs(bare[2]) <= MaxInteger
ValidParameters(parameters) ==
  /\ NoDuplicates(parameters)
  /\ \A i \in DOMAIN parameters : parameters[i][1] \in Keys /\ ValidBare(parameters[i][2])
ItemsOf(member) == IF member.kind = "item" THEN <<member>> ELSE member.items
ValidMember(member) ==
  /\ ValidParameters(member.parameters)
  /\ \A i \in DOMAIN ItemsOf(member) :
       ValidBare(ItemsOf(member)[i].bare) /\ ValidParameters(ItemsOf(member)[i].parameters)

Total(numbers) == FoldLeft(LAMBDA sum, n : sum + n, 0, numbers)
Occurrences(member) ==
  LET items == ItemsOf(member)
  IN Total([i \in DOMAIN items |-> 1 + Len(items[i].parameters)])
     + (IF member.kind = "item" THEN 0 ELSE 1 + Len(member.parameters))
Fits(field) ==
  LET members == [i \in DOMAIN field.entries |-> field.entries[i][2]]
      lists == {i \in DOMAIN members : members[i].kind = "inner-list"}
  IN /\ field.kind # "item" => Len(members) <= FieldLimits.members
     /\ Total([i \in DOMAIN members |-> Occurrences(members[i])]) <= FieldLimits.occurrences
     /\ \A i \in lists : Len(members[i].items) <= FieldLimits.innerListItems
     /\ \A i \in DOMAIN members :
          /\ Len(members[i].parameters) <= FieldLimits.parameters
          /\ \A j \in DOMAIN ItemsOf(members[i]) : Len(ItemsOf(members[i])[j].parameters) <= FieldLimits.parameters
ValidField(field) ==
  /\ field.kind = "dictionary" =>
       NoDuplicates(field.entries) /\ \A i \in DOMAIN field.entries : field.entries[i][1] \in Keys
  /\ \A i \in DOMAIN field.entries : ValidMember(field.entries[i][2])

\* Of a field that is valid and fits.
Serialize(field) ==
  Joined([i \in DOMAIN field.entries |-> WriteEntry(field.kind, field.entries[i])], <<<<",">>, Sp>>)

=============================================================================
