------------------------------- MODULE Freshness -------------------------------
(***************************************************************************)
(* packages/core/src/discovery/freshness.ts: for how long the headers of a  *)
(* response let it be used.  A header is [name, value, directives], the value *)
(* a number for Age, Date and Expires, and the directives of Cache-Control    *)
(* and Pragma [name, seconds].  Unparsed is the value of a header, or an      *)
(* argument, that is missing, ill-formed or too large.                        *)
(***************************************************************************)
EXTENDS Integers, Sequences, FiniteSets

CONSTANTS Fallback, MaximumLifetime,  \* seconds, of the policy
          LongestLifetime,            \* seconds that any policy may allow: 300
          PerSecond,                  \* clock ticks
          MaxHeaderFields,
          Unparsed                    \* what does not parse

LeastOf(S) == CHOOSE x \in S : \A y \in S : x <= y
Greater(a, b) == IF a >= b THEN a ELSE b

Named(headers, name) == {i \in DOMAIN headers : headers[i].name = name}
\* <<header, directive>> positions.
Directives(headers, names) ==
  UNION {{<<i, j>> : j \in DOMAIN headers[i].directives} :
           i \in {h \in DOMAIN headers : headers[h].name \in names /\ headers[h].value # Unparsed}}
DirectiveAt(headers, at) == headers[at[1]].directives[at[2]]
Given(headers, names, directives) ==
  {at \in Directives(headers, names) : DirectiveAt(headers, at).name \in directives}

\* A list that does not parse may hide a no-store.
Persist(headers) ==
  /\ Len(headers) <= MaxHeaderFields
  /\ \A i \in Named(headers, "cache-control") : headers[i].value # Unparsed
  /\ Given(headers, {"cache-control"}, {"no-store", "private"}) = {}
Revalidate(headers) == Given(headers, {"cache-control", "pragma"}, {"no-cache"}) # {}

Lifetimes(headers) ==
  {DirectiveAt(headers, at).seconds : at \in Given(headers, {"cache-control"}, {"max-age", "s-maxage"})}

\* Freshness metadata comes once, and parses.
SingleMetadata(headers) ==
  /\ \A name \in {"date", "age", "expires"} : Cardinality(Named(headers, name)) <= 1
  /\ \A name \in {"max-age", "s-maxage"} : Cardinality(Given(headers, {"cache-control"}, {name})) <= 1
MetadataParses(headers) ==
  /\ \A i \in DOMAIN headers : headers[i].value # Unparsed
  /\ Unparsed \notin Lifetimes(headers)

Value(headers, name) == headers[CHOOSE i \in Named(headers, name) : TRUE].value

\* The least of the lifetimes that the headers give, or Expires after Date; Expires
\* without a Date gives none.
Lifetime(headers) ==
  LET has(name) == Named(headers, name) # {}
  IN IF Lifetimes(headers) # {} THEN LeastOf(Lifetimes(headers)) * PerSecond
     ELSE IF ~has("expires") THEN Fallback * PerSecond
     ELSE IF ~has("date") THEN 0
     ELSE Greater(0, Value(headers, "expires") - Value(headers, "date"))

MutInitialAge(headers, started, received, wall) ==
  IF Named(headers, "age") = {} THEN 0 ELSE Value(headers, "age") * PerSecond
\* The time the request took counts as age, for the response may have been
\* generated at its start; a Date that is earlier than the clock counts too.
InitialAge(headers, started, received, wall) ==
  LET age == IF Named(headers, "age") = {} THEN 0 ELSE Value(headers, "age") * PerSecond
      apparent == IF Named(headers, "date") = {} THEN 0 ELSE wall - Value(headers, "date")
  IN Greater(apparent, age + (received - started))

\* calculateDirectoryFreshness()
CalculateFreshness(headers, started, received, wall) ==
  LET usable == /\ Persist(headers) /\ ~Revalidate(headers)
                /\ SingleMetadata(headers) /\ MetadataParses(headers)
                /\ started >= 0 /\ received >= started
      capped == LeastOf({Lifetime(headers), MaximumLifetime * PerSecond})
  IN [persist |-> Persist(headers), received |-> received,
      remaining |-> IF usable THEN Greater(0, capped - InitialAge(headers, started, received, wall)) ELSE 0]

IsFresh(freshness, time) ==
  /\ freshness.persist /\ time >= freshness.received
  /\ freshness.remaining > 0 /\ freshness.remaining <= LongestLifetime * PerSecond
  /\ time - freshness.received < freshness.remaining

=============================================================================
