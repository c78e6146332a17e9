------------------------ MODULE MCDirectoryDiscovery ------------------------
(* Small instances of DirectoryDiscovery. *)
EXTENDS DirectoryDiscovery, TLC

CONSTANTS p1, p2, o1, o2, v1, v2, k1

Response(valid, status, persist, remaining, size) ==
  [valid |-> valid, status |-> [k \in Keys |-> status], persist |-> persist,
   remaining |-> remaining, size |-> size]

\* Sets that keep the key, drop it, are not to be stored, or are too large; the
\* last is valid for one profile only.
AllResponses ==
  {Response(Profiles, "found", TRUE, 3, 1), Response(Profiles, "unknown-key", TRUE, 3, 1),
   Response(Profiles, "found", FALSE, 3, 1), Response({p1}, "found", TRUE, 3, 3)}

\* Sets of different sizes, and a document that is not valid.
SizedResponses ==
  {Response(Profiles, "found", TRUE, 2, 1), Response(Profiles, "found", TRUE, 2, 2),
   Response({}, "found", TRUE, 2, 1)}

Candidate(p, o) == [profile |-> p, origin |-> o, key |-> k1]

TwoProfiles == v1 :> <<Candidate(p1, o1)>> @@ v2 :> <<Candidate(p2, o1)>>
TwoOrigins == v1 :> <<Candidate(p1, o1), Candidate(p1, o2)>>

=============================================================================
