------------------------------ MODULE FieldParser ------------------------------
(***************************************************************************)
(* Every field value of up to MaxWire lexemes, as parseRaw() reads it: the   *)
(* parser's state after each of its prefixes.                                *)
(***************************************************************************)
EXTENDS StructuredFields

CONSTANTS Lexemes,   \* that a wire is made of
          Rare,      \* of which it has at most one
          MaxWire    \* bound

VARIABLES
  parser,
  last,      \* the lexeme that was read last, or End
  size,      \* how many have been read
  rare       \* whether one of them was rare

vars == <<parser, last, size, rare>>

Init ==
  /\ parser \in {NewParser(type) : type \in {"item", "list", "dictionary"}}
  /\ last = End /\ size = 0 /\ rare = FALSE

\* The characters of two lexemes that would be one.
Merges(a, b) ==
  \/ a[1] = "word" /\ b[1] \in {"word", "number", "bytes", "display-string"}
  \/ a[1] \in {"number", "date"} /\ b[1] = "number"

Next ==
  /\ parser.at # "failed" /\ size < MaxWire
  /\ \E lexeme \in Lexemes \cup Rare :
       /\ ~Merges(last, lexeme) /\ ~(rare /\ lexeme \in Rare)
       /\ parser' = Read(parser, lexeme)
       /\ last' = lexeme /\ size' = size + 1 /\ rare' = (rare \/ lexeme \in Rare)

Spec == Init /\ [][Next]_vars

-----------------------------------------------------------------------------

\* The whole value, if the wire ends here.
Ended == Read(parser, End)

\* What the parser accepts, duplicates included, the serializer accepts under the
\* same limits; its canonical form is parsed again to the same value, and is its
\* own canonical form.  A signature base rests on this.
CanonicalForm ==
  Ended.at = "end" =>
    LET field == Semantic(Ended)
        canonical == Serialize(field)
    IN /\ ValidField(field) /\ Fits(field)
       /\ Parse(canonical, field.kind) = field
       /\ Serialize(Parse(canonical, field.kind)) = canonical

\* Whatever the parser holds of a value, superseded occurrences included, is within
\* its limits, and has been counted.
RawBounded ==
  parser.at # "failed" =>
    LET members == {i \in DOMAIN parser.entries : parser.at \notin {"key", "member"} \/ i < Len(parser.entries)}
        held == FoldSet(LAMBDA i, sum : sum + Occurrences(parser.entries[i].member), 0, members)
    IN /\ parser.occurrences = held + (IF parser.at = "parameter" THEN 1 ELSE 0)
       /\ parser.occurrences <= FieldLimits.occurrences
       /\ Len(parser.entries) <= IF parser.type = "item" THEN 1 ELSE FieldLimits.members

\* A key of a dictionary has the value of its last occurrence; keys come in the
\* order of their first ones.
LastValueWins ==
  (Ended.at = "end" /\ Ended.type = "dictionary") =>
    LET raw == Ended.entries
        entries == Semantic(Ended).entries
        firstOf(k) == CHOOSE i \in DOMAIN raw : raw[i].key[2] = k /\ \A j \in 1..(i - 1) : raw[j].key[2] # k
        lastOf(k) == CHOOSE i \in DOMAIN raw : raw[i].key[2] = k /\ \A j \in (i + 1)..Len(raw) : raw[j].key[2] # k
    IN /\ {entries[i][1] : i \in DOMAIN entries} = {raw[i].key[2] : i \in DOMAIN raw}
       /\ \A i \in DOMAIN entries : entries[i][2] = SemanticMember(raw[lastOf(entries[i][1])].member)
       /\ \A i, j \in DOMAIN entries : i < j => firstOf(entries[i][1]) < firstOf(entries[j][1])

\* A decimal that is made of a text is the nearest thousandth, of two that are as
\* near the even one, if that is in range; the parser reads the same of a text that
\* needs no rounding, and nothing of another.
DecimalsRound ==
  last[1] = "number" =>
    LET text == last[2]
        made == DecimalFromString(text)
        read == ReadNumber(text)
        scale == 10^text.places
        exact == text.integer * scale + text.fraction
        distance(t) == Abs(1000 * exact - t * scale)
        near == {t \in (1000 * exact) \div scale .. (1000 * exact) \div scale + 1 : 2 * distance(t) <= scale}
        rounded == IF \E t \in near : 2 * distance(t) < scale THEN CHOOSE t \in near : 2 * distance(t) < scale
                   ELSE CHOOSE t \in near : t % 2 = 0
    IN /\ made # Invalid <=> text.integer < 10^DecimalWidth /\ rounded < 10^IntegerWidth
       /\ made # Invalid => made[2] = IF text.negative THEN -rounded ELSE rounded
       /\ read[1] = "decimal" => read = made
       /\ text.places > 3 => read = Invalid

=============================================================================
