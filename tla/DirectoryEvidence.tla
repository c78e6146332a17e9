--------------------------- MODULE DirectoryEvidence ---------------------------
(***************************************************************************)
(* What a fetched response is evidence of: DirectoryFetch with the headers  *)
(* and the document that a server sends, as prepare() of                    *)
(* packages/core/src/discovery/directory-cache.ts reads them for the two    *)
(* formats.  DirectoryDiscovery starts from what this module yields.        *)
(***************************************************************************)
EXTENDS DirectoryFetch, Jwks, Freshness

CONSTANTS
  Responses,      \* [headers, bytes, json, keys]; Age, Date and Expires are to be filled in
  Ages,           \* bound: seconds in the caches before
  Skews,          \* of the server's clock and of the local wall clock
  ExpiresAfter    \* ticks from Date to Expires

\* What calculateDirectoryFreshness() is given: fields in their order.
HeaderFields == [name : STRING, value : Int \cup {Unparsed},
                 directives : Seq([name : STRING, seconds : Nat \cup {Unparsed}])]

ASSUME DirectoryEvidenceAssumption ==
  /\ {Fallback, MaximumLifetime, LongestLifetime, ExpiresAfter} \subseteq Nat
  /\ MaximumLifetime <= LongestLifetime /\ PerSecond \in Nat \ {0}
  /\ Skews \subseteq Int /\ Ages \subseteq Nat /\ Unparsed \notin Int
  /\ Responses \subseteq [headers : Seq(HeaderFields), bytes : Nat, json : BOOLEAN,
                         keys : {response.keys : response \in Responses}]

VARIABLES
  received,       \* the time and the skew of the wall clock when the headers came, or None
  evidence        \* [response, generated, sets, freshness], or None

allVars == <<vars, received, evidence>>

EvidenceInit == Init /\ received = None /\ evidence = None

\* A response was generated at some time and left the server or a cache after the
\* request began; without an Age it was generated for this request.
Filled(template, sent, generated, skew) ==
  [i \in DOMAIN template |->
     [template[i] EXCEPT !.value =
        IF @ = Unparsed THEN @
        ELSE CASE template[i].name = "age" -> (sent - generated) \div PerSecond
               [] template[i].name = "date" -> generated + skew
               [] template[i].name = "expires" -> generated + skew + ExpiresAfter
               [] OTHER -> @]]
Served(response) ==
  {[response |-> [response EXCEPT !.headers = Filled(@, sent, sent - age * PerSecond, skew)],
    generated |-> sent - age * PerSecond] :
      skew \in Skews, sent \in reader.started..received.time,
      age \in IF Named(response.headers, "age") = {} THEN {0} ELSE Ages}
Honest == UNION {Served(response) : response \in Responses}

Receives ==
  IF reader.stage = "headers" /\ reader'.stage = "body"
  THEN \E skew \in Skews : received' = [time |-> now, wall |-> now + skew]
  ELSE UNCHANGED received
Meanwhile(A) == A /\ Receives /\ UNCHANGED evidence

\* parseDirectoryDocument() for either format, and the freshness.
Prepare ==
  /\ phase = "done" /\ result = "response" /\ evidence = None
  /\ \E honest \in Honest :
       LET response == honest.response
       IN evidence' = [response |-> response, generated |-> honest.generated,
                       sets |-> [format \in Formats |-> LoadJwks(response, format)],
                       freshness |-> CalculateFreshness(response.headers, reader.started,
                                                        received.time, received.wall)]
  /\ UNCHANGED <<vars, received>>

EvidenceSpec ==
  /\ EvidenceInit /\ [][Meanwhile(Next) \/ Prepare]_allVars
  /\ WF_allVars(Meanwhile(Tick)) /\ WF_allVars(Meanwhile(Continues)) /\ WF_allVars(Meanwhile(TotalTimer))

-----------------------------------------------------------------------------

\* Whatever the headers and the clocks say, evidence is used only while the time
\* since the server generated the response is less than every lifetime that the
\* response states and than the program's own, and only if nothing in it forbids.
EvidenceNeverOverstays ==
  evidence # None =>
    \A time \in evidence.generated..(now + MaximumLifetime * PerSecond) :
      IsFresh(evidence.freshness, time) =>
        LET age == time - evidence.generated
            headers == evidence.response.headers
        IN /\ age < MaximumLifetime * PerSecond
           /\ \A i \in DOMAIN headers : headers[i].value # Unparsed
           /\ \A i \in DOMAIN headers : headers[i].name \in {"cache-control", "pragma"} =>
                \A j \in DOMAIN headers[i].directives :
                  LET directive == headers[i].directives[j]
                  IN /\ directive.name # "no-cache"
                     /\ headers[i].name = "cache-control" =>
                          /\ directive.name \notin {"no-store", "private"}
                          /\ directive.name \in {"max-age", "s-maxage"} => age < directive.seconds * PerSecond
           /\ Lifetimes(headers) = {} =>
                age < IF Named(headers, "expires") # {} THEN ExpiresAfter ELSE Fallback * PerSecond

\* A document with a secret in it is no source of keys; and a key that is found in
\* one is Ed25519's and meant, by every entry that has its thumbprint, for nothing
\* but verification.  The two formats find the same keys in what both accept.
SelectedKeysSound ==
  evidence # None =>
    LET keys == evidence.response.keys
        entries(thumbprint) == {i \in DOMAIN keys : Thumbprint(keys[i]) = thumbprint}
        thumbprints == {Thumbprint(keys[i]) : i \in DOMAIN keys}
        found(format) == {t \in thumbprints : LookupKey(evidence.sets[format], t) = "found"}
        loaded == {format \in Formats : evidence.sets[format].kind = "loaded"}
    IN /\ \A format \in loaded :
            /\ \A i \in DOMAIN keys : ~keys[i].secret
            /\ \A t \in found(format) : \A i \in entries(t) :
                 /\ <<keys[i].kty, keys[i].crv>> = <<"OKP", "Ed25519">>
                 /\ keys[i].use \in {Absent, "sig"}
                 /\ keys[i].ops # Absent =>
                      /\ \E j \in DOMAIN keys[i].ops : keys[i].ops[j] = "verify"
                      /\ \A j \in DOMAIN keys[i].ops : keys[i].ops[j] \notin EncryptionOperations
                 /\ keys[i].alg \in {Absent, IF format = "jwks" THEN "EdDSA" ELSE "ed25519"}
       /\ loaded = Formats => found("jwks") = found("wg-directory-00")

=============================================================================
