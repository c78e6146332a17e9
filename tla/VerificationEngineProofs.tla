----------------------- MODULE VerificationEngineProofs -----------------------
(***************************************************************************)
(* What verify() spends and what it protects, for any number of calls, any *)
(* requests and any interleaving with resets, outages and lost keys.       *)
(***************************************************************************)
EXTENDS VerificationEngine, FiniteSetTheorems, WellFoundedInduction, TLAPS

\* The variables of the context, and the variables of calls as functions.
GlobalInv ==
  /\ time \in Nat /\ generation \in Nat \ {0} /\ faults \in Nat
  /\ {open, healthy} \subseteq BOOLEAN /\ trusted \subseteq Keys
  /\ \A r \in store : r.until \in Nat /\ r.by \in Calls
  /\ begun \in [Calls -> 0..generation]
  /\ request \in [Calls -> Requests] /\ mode \in [Calls -> Modes]
  /\ phase \in [Calls -> {"new", "evaluating", "crypto", "grouping", "consuming", "done"}]
  /\ DOMAIN evaluation = Calls /\ DOMAIN outcome = Calls /\ DOMAIN pending = Calls
  /\ DOMAIN answer = Calls /\ DOMAIN result = Calls

Typed(c) ==
  /\ evaluation[c] \in [Indices(c) -> {"pending", "rejected", "eligible"}]
  /\ outcome[c] \in [Indices(c) -> {"none", "optional", "accepted", "replayed",
                                    "unavailable", "late", "context"}]
  /\ answer[c] \in {"none", "accepted", "replayed", "unavailable"}
  /\ result[c] \in [Indices(c) -> {"none", "verified", "rejected"}]
  /\ pending[c] \in Consumptions \cup {None}
  /\ phase[c] = "consuming" <=> pending[c] # None

\* Where a call stands, and what it has so far.
Progress(c) ==
  /\ phase[c] \in {"new", "evaluating", "crypto"} =>
       \A i \in Indices(c) : outcome[c][i] = "none"
  /\ phase[c] \in {"grouping", "consuming"} =>
       ~Ambiguous(c) /\ \A i \in Indices(c) : evaluation[c][i] # "pending"
  /\ answer[c] # "none" => phase[c] = "consuming"
  /\ phase[c] = "consuming" => pending[c].now <= time
  /\ \A i \in Indices(c) :
       /\ outcome[c][i] = "optional" => request[c][i].nonce = None
       /\ result[c][i] = "verified" =>
            phase[c] = "done" /\ (outcome[c][i] = "accepted" \/ request[c][i].nonce = None)

\* The candidates with one nonce are one group: they share its answer, and none
\* is left for a second consume().
OneGroup(c) ==
  /\ \A i \in Unresolved(c), j \in Indices(c) :
       outcome[c][j] \in {"accepted", "replayed"} => Identity(c, i) # Identity(c, j)
  /\ \A i, j \in Indices(c) :
       outcome[c][i] = "replayed" /\ outcome[c][j] = "accepted" => Identity(c, i) # Identity(c, j)

\* What waits for the store's answer is retained long enough for every member.
End(c, i) == WindowEnd(request[c][i].created, request[c][i].expires)
RetentionCovers(c) ==
  phase[c] = "consuming" => \A i \in Group(c) : End(c, i) <= pending[c].until

\* What was accepted is in the store, unless its epoch is over or its time.
SameEpoch(c) == Forgets => open /\ generation = begun[c]
Holds(c, identity, until) ==
  \E r \in store : r.identity = identity /\ r.by = c /\ r.until >= until
Kept(c) ==
  SameEpoch(c) =>
    /\ answer[c] = "accepted" /\ time < pending[c].until =>
         Holds(c, pending[c].identity, pending[c].until)
    /\ \A i \in Indices(c) : outcome[c][i] = "accepted" /\ ~WindowOver(c, i) =>
         Holds(c, Identity(c, i), End(c, i))

CallInv(c) == Typed(c) /\ Progress(c) /\ OneGroup(c) /\ RetentionCovers(c) /\ Kept(c)
IInv == GlobalInv /\ (\A c \in Calls : CallInv(c)) /\ AmbiguitySpendsNothing

-----------------------------------------------------------------------------
\* A nonempty set of naturals has a least element.
LEMMA LeastNatural ==
  ASSUME NEW T, T \subseteq Nat, T # {}
  PROVE  \E x \in T : \A y \in T : x <= y
<1>1. IsWellFoundedOn(OpToRel(<, Nat), Nat)
  BY NatLessThanWellFounded
<1>2. PICK x \in T : \A y \in T : ~(<<y, x>> \in OpToRel(<, Nat))
  BY <1>1, WFMin
<1>3. ASSUME NEW y \in T PROVE x <= y
  <2>1. y < x => <<y, x>> \in OpToRel(<, Nat)
    BY DEF OpToRel
  <2>2. ~(y < x)
    BY <1>2, <2>1, Zenon
  <2> QED
    BY <2>2
<1> QED
  BY <1>3

\* A bounded nonempty set of naturals has a greatest element.
LEMMA GreatestNatural ==
  ASSUME NEW T, T \subseteq Nat, T # {}, NEW b \in Nat, \A x \in T : x <= b
  PROVE  Max(T) \in T /\ \A x \in T : x <= Max(T)
<1> DEFINE S == {b - x : x \in T}
<1>1. S \subseteq Nat /\ S # {}
  <2>1. \A x \in T : b - x \in Nat
    OBVIOUS
  <2>2. S \subseteq Nat
    BY <2>1
  <2>3. PICK x \in T : TRUE
    OBVIOUS
  <2>4. b - x \in S
    OBVIOUS
  <2> QED
    BY <2>2, <2>4
<1>2. PICK y \in S : \A z \in S : y <= z
  <2> HIDE DEF S
  <2> QED
    BY <1>1, LeastNatural
<1>3. PICK m \in T : y = b - m
  BY <1>2
<1>4. ASSUME NEW x \in T PROVE m >= x
  <2>1. b - x \in S
    OBVIOUS
  <2>2. y <= b - x
    BY <1>2, <2>1
  <2> QED
    BY <1>3, <2>2
<1> QED
  BY <1>4 DEF Max

\* The least of some candidates is one of them.
LEMMA MinIsIn ==
  ASSUME NEW T, T \subseteq Nat, T # {}
  PROVE  Min(T) \in T
BY LeastNatural DEF Min

\* What a request is: its candidates are numbered, and have keys and times.
LEMMA CandidateFacts ==
  ASSUME GlobalInv, NEW c \in Calls
  PROVE  /\ Indices(c) \subseteq Nat /\ IsFiniteSet(Indices(c)) /\ Cardinality(Indices(c)) # 0
         /\ Cardinality(Indices(c)) \in Nat
         /\ \A i \in Indices(c) :
              /\ request[c][i].created \in Nat /\ request[c][i].expires \in Nat
              /\ Identity(c, i) \in Identities
              /\ End(c, i) \in Nat
<1>1. request[c] \in Requests
  BY DEF GlobalInv
<1>2. /\ Len(request[c]) \in Nat \ {0} /\ Indices(c) = 1 .. Len(request[c])
      /\ \A i \in Indices(c) : request[c][i].created \in Nat /\ request[c][i].expires \in Nat
  BY <1>1, VerificationEngineAssumption DEF Indices
<1>3. IsFiniteSet(Indices(c)) /\ Cardinality(Indices(c)) = Len(request[c])
  BY <1>2, FS_Interval
<1>4. \A i \in Indices(c) : Identity(c, i) \in Identities
  BY <1>1 DEF Identity, Identities, Indices
<1>5. \A i \in Indices(c) : End(c, i) \in Nat
  BY <1>2, TimePolicyAssumption DEF End, WindowEnd, Smaller
<1> QED
  BY <1>2, <1>3, <1>4, <1>5

\* retainUntil of the group's ready members is no earlier than the end of any
\* of their windows (candidate-replay.ts takes the maximum).
LEMMA RetentionLemma ==
  ASSUME GlobalInv, NEW c \in Calls, NEW members, members \subseteq Ready(c), members # {}
  PROVE  /\ Retention(c, members) \in Nat
         /\ \A i \in members : End(c, i) <= Retention(c, members)
<1> DEFINE T == {RetainUntil(request[c][i].created, time) : i \in members}
<1>1. /\ \A i \in members : i \in Indices(c) /\ Representable(RetainUntil(request[c][i].created, time))
      /\ time \in Nat
  BY DEF Ready, Group, Unresolved, GlobalInv
<1>2. ASSUME NEW i \in members
      PROVE  /\ RetainUntil(request[c][i].created, time) \in Nat
             /\ RetainUntil(request[c][i].created, time) <= MaxSafeInteger
             /\ End(c, i) <= RetainUntil(request[c][i].created, time)
  <2>1. request[c][i].created \in Nat /\ request[c][i].expires \in Nat
    BY <1>1, CandidateFacts
  <2> QED
    BY <1>1, <2>1, TimePolicyAssumption
       DEF RetainUntil, Larger, Smaller, Representable, End, WindowEnd
<1>3. T \subseteq Nat /\ T # {} /\ \A x \in T : x <= MaxSafeInteger
  BY <1>2
<1>4. Max(T) \in T /\ \A x \in T : x <= Max(T)
  <2> HIDE DEF T
  <2> QED
    BY <1>3, GreatestNatural, TimePolicyAssumption
<1>5. Retention(c, members) = Max(T)
  BY DEF Retention
<1>6. ASSUME NEW i \in members PROVE End(c, i) <= Retention(c, members)
  <2>1. RetainUntil(request[c][i].created, time) \in T
    OBVIOUS
  <2>2. /\ RetainUntil(request[c][i].created, time) <= Max(T) /\ Max(T) \in Nat
    BY <1>3, <1>4, <2>1
  <2>3. End(c, i) \in Nat
    BY <1>1, CandidateFacts
  <2> HIDE DEF T
  <2> QED
    BY <1>2, <1>5, <2>2, <2>3
<1> HIDE DEF T
<1> QED
  BY <1>3, <1>4, <1>5, <1>6

-----------------------------------------------------------------------------
(* A step of one call, or of the environment, and the other calls.         *)

Untouched(c) ==
  /\ phase'[c] = phase[c] /\ begun'[c] = begun[c] /\ evaluation'[c] = evaluation[c]
  /\ outcome'[c] = outcome[c] /\ pending'[c] = pending[c] /\ answer'[c] = answer[c]
  /\ result'[c] = result[c]

\* A call is as well off as before after a step that leaves it alone: the store
\* keeps what has not expired, unless the call's epoch is over.
LEMMA Frame ==
  ASSUME GlobalInv, NEW c \in Calls, CallInv(c), Untouched(c),
         UNCHANGED inputVars, time' \in Nat, time <= time',
         SameEpoch(c)' => SameEpoch(c) /\ \A r \in store : r.until > time => r \in store'
  PROVE  CallInv(c)'
<1>1. /\ Indices(c)' = Indices(c) /\ (Ambiguous(c)' <=> Ambiguous(c))
      /\ \A i : Identity(c, i)' = Identity(c, i) /\ End(c, i)' = End(c, i)
      /\ \A i : request'[c][i] = request[c][i]
  BY DEF inputVars, Indices, Identity, End, Ambiguous
<1>2. Unresolved(c)' = Unresolved(c)
  BY <1>1 DEF Untouched, Unresolved
<1>3. Group(c)' = Group(c) \/ phase[c] # "consuming"
  <2>1. CASE phase[c] = "consuming"
    <3>1. pending[c] # None
      BY <2>1 DEF CallInv, Typed
    <3>2. Nonce(c)' = Nonce(c)
      BY <3>1 DEF Untouched, Nonce
    <3> QED
      BY <1>1, <1>2, <3>2 DEF Group
  <2> QED
    BY <2>1
<1>4. Typed(c)'
  BY <1>1 DEF CallInv, Typed, Untouched
<1>5. Progress(c)'
  <2>1. phase[c] = "consuming" => pending[c].now \in Nat /\ pending[c].now <= time
    BY DEF CallInv, Typed, Progress, Consumptions
  <2>2. phase[c] = "consuming" => pending[c].now <= time'
    BY <2>1 DEF GlobalInv
  <2> QED
    BY <1>1, <2>2 DEF CallInv, Progress, Untouched
<1>6. OneGroup(c)'
  BY <1>1, <1>2 DEF CallInv, OneGroup, Untouched
<1>7. RetentionCovers(c)'
  BY <1>1, <1>3 DEF CallInv, RetentionCovers, Untouched
<1>8. Kept(c)'
  <2> SUFFICES ASSUME SameEpoch(c)' PROVE
        /\ answer[c] = "accepted" /\ time' < pending[c].until =>
             Holds(c, pending[c].identity, pending[c].until)'
        /\ \A i \in Indices(c) : outcome[c][i] = "accepted" /\ ~(time' >= End(c, i)) =>
             Holds(c, Identity(c, i), End(c, i))'
    BY <1>1 DEF Kept, Untouched, Holds, WindowOver, End
  <2>1. SameEpoch(c) /\ \A r \in store : r.until > time => r \in store'
    OBVIOUS
  <2>2. time \in Nat /\ \A r \in store : r.until \in Nat
    BY DEF GlobalInv
  <2>3. ASSUME answer[c] = "accepted", time' < pending[c].until
        PROVE  Holds(c, pending[c].identity, pending[c].until)'
    <3>1. pending[c].until \in Nat
      BY <2>3 DEF CallInv, Typed, Progress, Consumptions
    <3>2. time < pending[c].until
      BY <2>2, <2>3, <3>1
    <3>3. Holds(c, pending[c].identity, pending[c].until)
      BY <2>1, <2>3, <3>2 DEF CallInv, Kept
    <3>4. PICK r \in store : r.identity = pending[c].identity /\ r.by = c /\ r.until >= pending[c].until
      BY <3>3 DEF Holds
    <3>5. r \in store'
      BY <2>1, <2>2, <3>1, <3>2, <3>4
    <3> QED
      BY <3>4, <3>5 DEF Holds, Untouched
  <2>4. ASSUME NEW i \in Indices(c), outcome[c][i] = "accepted", ~(time' >= End(c, i))
        PROVE  Holds(c, Identity(c, i), End(c, i))'
    <3>1. End(c, i) \in Nat
      BY CandidateFacts
    <3>2. time < End(c, i)
      BY <2>2, <2>4, <3>1
    <3>3. Holds(c, Identity(c, i), End(c, i))
      BY <2>1, <2>2, <2>4, <3>1, <3>2 DEF CallInv, Kept, WindowOver, End
    <3>4. PICK r \in store : r.identity = Identity(c, i) /\ r.by = c /\ r.until >= End(c, i)
      BY <3>3 DEF Holds
    <3>5. r \in store'
      BY <2>1, <2>2, <3>1, <3>2, <3>4
    <3> QED
      BY <1>1, <3>4, <3>5 DEF Holds
  <2> QED
    BY <2>3, <2>4
<1> QED
  BY <1>4, <1>5, <1>6, <1>7, <1>8 DEF CallInv

\* The steps of the environment: time, faults, resets and lost keys.
LEMMA EnvironmentStep ==
  ASSUME IInv, Tick \/ ClockFault \/ EvidenceLost \/ Invalidate \/ Activate
  PROVE  IInv'
<1>1. /\ UNCHANGED callVars
      /\ \A c \in Calls : Untouched(c)
  BY DEF Tick, ClockFault, EvidenceLost, Invalidate, Activate, callVars, Untouched
<1>2. GlobalInv /\ \A c \in Calls : CallInv(c)
  BY DEF IInv
<1>3. time \in Nat /\ faults \in Nat /\ generation \in Nat \ {0}
  BY <1>2 DEF GlobalInv
<1>4. time' \in Nat /\ time <= time'
  BY <1>3 DEF Tick, ClockFault, EvidenceLost, Invalidate, Activate
<1>5. {open', healthy'} \subseteq BOOLEAN
  BY <1>2, Zenon DEF GlobalInv, Tick, ClockFault, EvidenceLost, Invalidate, Activate
<1>6. /\ faults' \in Nat /\ trusted' \subseteq Keys
  BY <1>2, <1>3 DEF GlobalInv, Tick, ClockFault, EvidenceLost, Invalidate, Activate, Fault
<1>7. generation' \in Nat \ {0} /\ generation <= generation'
  BY <1>3 DEF Tick, ClockFault, EvidenceLost, Invalidate, Activate
<1>8. store' = store \/ store' = {}
  BY DEF Tick, ClockFault, EvidenceLost, Invalidate, Activate
<1>9. begun' \in [Calls -> 0..generation']
  BY <1>1, <1>2, <1>3, <1>7 DEF GlobalInv, callVars
<1>10. GlobalInv'
  BY <1>1, <1>2, <1>4, <1>5, <1>6, <1>7, <1>8, <1>9 DEF GlobalInv, callVars, inputVars
<1>11. ASSUME NEW c \in Calls, SameEpoch(c)'
       PROVE  SameEpoch(c) /\ \A r \in store : r \in store'
  <2>1. begun[c] \in Nat /\ begun[c] <= generation /\ begun'[c] = begun[c]
    BY <1>1, <1>2, <1>3 DEF GlobalInv, Untouched
  <2>2. CASE Activate
    <3>1. Forgets => FALSE
      BY <1>3, <1>11, <2>1, <2>2 DEF Activate, SameEpoch
    <3> QED
      BY <2>2, <3>1 DEF Activate, SameEpoch
  <2>3. CASE Invalidate
    BY <1>11, <2>1, <2>3 DEF Invalidate, SameEpoch
  <2>4. CASE Tick \/ ClockFault \/ EvidenceLost
    BY <1>11, <2>1, <2>4 DEF Tick, ClockFault, EvidenceLost, SameEpoch
  <2> QED
    BY <2>2, <2>3, <2>4
<1>12. \A c \in Calls : CallInv(c)'
  BY <1>1, <1>2, <1>4, <1>11, Frame DEF callVars, inputVars
<1>13. AmbiguitySpendsNothing'
  BY <1>1, <1>8 DEF IInv, AmbiguitySpendsNothing, Indices, callVars, inputVars
<1> QED
  BY <1>10, <1>12, <1>13 DEF IInv

-----------------------------------------------------------------------------
(* Steps of a call.                                                        *)

\* What is left to show of a step of c: its own part, and what it does to the
\* store.
LEMMA StepOf ==
  ASSUME IInv, NEW c \in Calls, UNCHANGED <<contextVars, inputVars>>,
         \A d \in Calls \ {c} : Untouched(d),
         \A r \in store : r.until > time => r \in store',
         GlobalInv', CallInv(c)', AmbiguitySpendsNothing'
  PROVE  IInv'
<1>1. ASSUME NEW d \in Calls, d # c PROVE CallInv(d)'
  <2>1. GlobalInv /\ CallInv(d) /\ Untouched(d)
    BY <1>1 DEF IInv
  <2>2. UNCHANGED inputVars /\ time' \in Nat /\ time <= time'
    BY <2>1 DEF contextVars, GlobalInv
  <2>3. SameEpoch(d)' => SameEpoch(d)
    BY <2>1 DEF SameEpoch, Untouched, contextVars
  <2> QED
    BY <2>1, <2>2, <2>3, Frame
<1> QED
  BY <1>1 DEF IInv

\* The end of a call, with a verdict that its groups justify.
LEMMA EndsStep ==
  ASSUME IInv, NEW c \in Calls, NEW verdict \in [Indices(c) -> {"verified", "rejected"}],
         phase[c] # "consuming",
         \A i \in Indices(c) : verdict[i] = "verified" =>
            outcome[c][i] = "accepted" \/ request[c][i].nonce = None,
         Ends(c, verdict)
  PROVE  IInv'
<1>1. /\ phase' = [phase EXCEPT ![c] = "done"] /\ result' = [result EXCEPT ![c] = verdict]
      /\ UNCHANGED <<contextVars, store, inputVars, begun, evaluation, outcome, pending, answer>>
  BY DEF Ends, Goes
<1>2. GlobalInv /\ CallInv(c)
  BY DEF IInv
<1>3. GlobalInv'
  BY <1>1, <1>2 DEF GlobalInv, contextVars, inputVars
<1>4. \A d \in Calls \ {c} : Untouched(d)
  BY <1>1, <1>2 DEF GlobalInv, Untouched
<1>5. /\ phase'[c] = "done" /\ result'[c] = verdict
      /\ evaluation'[c] = evaluation[c] /\ outcome'[c] = outcome[c]
      /\ pending'[c] = pending[c] /\ answer'[c] = answer[c]
      /\ Indices(c)' = Indices(c) /\ \A i : Identity(c, i)' = Identity(c, i)
      /\ \A i : request'[c][i] = request[c][i]
      /\ Unresolved(c)' = Unresolved(c)
  BY <1>1, <1>2 DEF GlobalInv, inputVars, Indices, Identity, Unresolved
<1>6. Typed(c)'
  BY <1>2, <1>5 DEF CallInv, Typed
<1>7. Progress(c)'
  BY <1>2, <1>5 DEF CallInv, Progress
<1>8. OneGroup(c)' /\ RetentionCovers(c)'
  BY <1>2, <1>5 DEF CallInv, OneGroup, RetentionCovers
<1>9. Kept(c)'
  BY <1>1, <1>2, <1>5
     DEF CallInv, Kept, SameEpoch, Holds, WindowOver, End, contextVars, inputVars
<1>10. AmbiguitySpendsNothing'
  BY <1>1, <1>5 DEF IInv, AmbiguitySpendsNothing, Indices, inputVars
<1> QED
  BY <1>1, <1>3, <1>4, <1>6, <1>7, <1>8, <1>9, <1>10, StepOf DEF CallInv

\* Steps that touch the evaluation and the phase of a call that has not come to
\* its groups: beginning, judging, and waiting for cryptography.
LEMMA EarlyStep ==
  ASSUME IInv, NEW c \in Calls,
         phase[c] \in {"new", "evaluating", "crypto"},
         \E to \in {"evaluating", "crypto"} : Goes(c, to),
         begun' = begun \/ begun' = [begun EXCEPT ![c] = generation],
         \/ evaluation' = evaluation
         \/ \E j : \E verdict \in {"rejected", "eligible"} :
               evaluation' = [evaluation EXCEPT ![c][j] = verdict],
         UNCHANGED <<contextVars, store, inputVars, outcome, pending, answer, result>>
  PROVE  IInv'
<1>1. GlobalInv /\ CallInv(c)
  BY DEF IInv
<1>2. PICK to \in {"evaluating", "crypto"} : phase' = [phase EXCEPT ![c] = to]
  BY DEF Goes
<1>3. phase'[c] = to /\ phase' \in [Calls -> {"new", "evaluating", "crypto", "grouping", "consuming", "done"}]
  BY <1>1, <1>2 DEF GlobalInv
<1>4. /\ evaluation'[c] \in [Indices(c) -> {"pending", "rejected", "eligible"}]
      /\ DOMAIN evaluation' = Calls
      /\ \A d \in Calls \ {c} : evaluation'[d] = evaluation[d]
  <2>1. CASE evaluation' = evaluation
    BY <1>1, <2>1 DEF GlobalInv, CallInv, Typed
  <2>2. CASE \E j : \E verdict \in {"rejected", "eligible"} :
               evaluation' = [evaluation EXCEPT ![c][j] = verdict]
    <3>1. PICK j : \E verdict \in {"rejected", "eligible"} :
            evaluation' = [evaluation EXCEPT ![c][j] = verdict]
      BY <2>2
    <3>2. PICK verdict \in {"rejected", "eligible"} :
            evaluation' = [evaluation EXCEPT ![c][j] = verdict]
      BY <3>1
    <3>3. evaluation'[c] = [evaluation[c] EXCEPT ![j] = verdict]
      BY <1>1, <3>2 DEF GlobalInv
    <3> QED
      BY <1>1, <3>2, <3>3 DEF GlobalInv, CallInv, Typed
  <2> QED
    BY <2>1, <2>2
<1>5. begun' \in [Calls -> 0..generation] /\ \A d \in Calls \ {c} : begun'[d] = begun[d]
  BY <1>1 DEF GlobalInv
<1>6. GlobalInv'
  BY <1>1, <1>3, <1>4, <1>5 DEF GlobalInv, contextVars, inputVars
<1>7. \A d \in Calls \ {c} : Untouched(d)
  BY <1>1, <1>2, <1>4, <1>5 DEF GlobalInv, Untouched
<1>8. /\ Indices(c)' = Indices(c) /\ \A i : request'[c][i] = request[c][i]
      /\ outcome'[c] = outcome[c] /\ pending'[c] = pending[c] /\ answer'[c] = answer[c]
      /\ result'[c] = result[c]
  BY DEF Indices, inputVars
<1>9. \A i \in Indices(c) : outcome[c][i] = "none"
  BY <1>1 DEF CallInv, Progress
<1>10. answer[c] = "none"
  BY <1>1 DEF CallInv, Progress
<1>11. Typed(c)'
  BY <1>1, <1>3, <1>4, <1>8 DEF CallInv, Typed
<1>12. Progress(c)'
  BY <1>1, <1>3, <1>8, <1>9, <1>10 DEF CallInv, Progress
<1>13. OneGroup(c)' /\ RetentionCovers(c)' /\ Kept(c)'
  BY <1>3, <1>8, <1>9, <1>10 DEF OneGroup, RetentionCovers, Kept
<1>14. AmbiguitySpendsNothing'
  BY DEF IInv, AmbiguitySpendsNothing, Indices, inputVars
<1> QED
  BY <1>6, <1>7, <1>11, <1>12, <1>13, <1>14, StepOf DEF CallInv

\* A call begins, or ends at once because it cannot.
LEMMA BeginStep ==
  ASSUME IInv, NEW c \in Calls, Begin(c)
  PROVE  IInv'
<1>1. CASE /\ begun' = [begun EXCEPT ![c] = generation] /\ Goes(c, "evaluating")
           /\ UNCHANGED <<contextVars, store, inputVars, evaluation, outcome, pending, answer, result>>
  <2>1. phase[c] = "new" /\ \E to \in {"evaluating", "crypto"} : Goes(c, to)
    BY <1>1 DEF Begin
  <2> QED
    BY <1>1, <2>1, EarlyStep
<1>2. CASE Ends(c, All(c, "rejected"))
  <2> DEFINE verdict == All(c, "rejected")
  <2>1. /\ verdict \in [Indices(c) -> {"verified", "rejected"}]
        /\ \A i \in Indices(c) : verdict[i] # "verified"
        /\ Ends(c, verdict) /\ phase[c] # "consuming"
    BY <1>2 DEF All, Begin
  <2> HIDE DEF verdict
  <2> QED
    BY <2>1, EndsStep
<1> QED
  BY <1>1, <1>2 DEF Begin

\* One candidate is judged, or waits for discovery and cryptography.
LEMMA EvaluationStep ==
  ASSUME IInv, NEW c \in Calls, Evaluate(c) \/ Evaluated(c)
  PROVE  IInv'
<1>1. phase[c] \in {"evaluating", "crypto"}
  BY DEF Evaluate, Evaluated
<1>2. ASSUME NEW verdict \in {"rejected", "eligible"}, Judges(c, verdict) PROVE IInv'
  <2>1. /\ \E j : \E v \in {"rejected", "eligible"} :
              evaluation' = [evaluation EXCEPT ![c][j] = v]
        /\ \E to \in {"evaluating", "crypto"} : Goes(c, to)
        /\ UNCHANGED <<contextVars, store, inputVars, begun, outcome, pending, answer, result>>
    BY <1>2 DEF Judges
  <2> QED
    BY <1>1, <2>1, EarlyStep
<1>3. CASE /\ Goes(c, "crypto")
           /\ UNCHANGED <<contextVars, store, inputVars, begun, evaluation, outcome, pending,
                          answer, result>>
  <2>1. \E to \in {"evaluating", "crypto"} : Goes(c, to)
    BY <1>3
  <2> QED
    BY <1>1, <1>3, <2>1, EarlyStep
<1> QED
  BY <1>2, <1>3 DEF Evaluate, Evaluated

\* The end of an ambiguous call, and of one whose groups are all resolved.
LEMMA EndingStep ==
  ASSUME IInv, NEW c \in Calls, EndsAmbiguous(c) \/ Finish(c)
  PROVE  IInv'
<1>1. CASE Ends(c, All(c, "rejected"))
  <2> DEFINE verdict == All(c, "rejected")
  <2>1. /\ verdict \in [Indices(c) -> {"verified", "rejected"}]
        /\ \A i \in Indices(c) : verdict[i] # "verified"
        /\ Ends(c, verdict) /\ phase[c] # "consuming"
    BY <1>1 DEF All, EndsAmbiguous, Judged, Finish
  <2> HIDE DEF verdict
  <2> QED
    BY <2>1, EndsStep
<1>2. CASE /\ phase[c] = "grouping"
           /\ Ends(c, [i \in Indices(c) |-> IF Verifies(c, i) THEN "verified" ELSE "rejected"])
  <2> DEFINE verdict == [i \in Indices(c) |-> IF Verifies(c, i) THEN "verified" ELSE "rejected"]
  <2>1. CallInv(c)
    BY DEF IInv
  <2>2. /\ verdict \in [Indices(c) -> {"verified", "rejected"}]
        /\ \A i \in Indices(c) : verdict[i] = "verified" =>
             outcome[c][i] \in {"optional", "accepted"}
        /\ Ends(c, verdict) /\ phase[c] # "consuming"
    BY <1>2 DEF Verifies
  <2>3. \A i \in Indices(c) : verdict[i] = "verified" =>
           outcome[c][i] = "accepted" \/ request[c][i].nonce = None
    <3> HIDE DEF verdict
    <3> QED
      BY <2>1, <2>2 DEF CallInv, Progress
  <2> HIDE DEF verdict
  <2> QED
    BY <2>2, <2>3, EndsStep
<1> QED
  BY <1>1, <1>2 DEF EndsAmbiguous, Finish

-----------------------------------------------------------------------------
(* Replay admission.                                                       *)

\* A step within the groups of c leaves the other calls alone, and adds records
\* to the store only for a call that is not ambiguous.
Within(c) ==
  /\ \E to \in {"grouping", "consuming"} : phase' = [phase EXCEPT ![c] = to]
  /\ DOMAIN evaluation' = Calls /\ \A d \in Calls \ {c} : evaluation'[d] = evaluation[d]
  /\ DOMAIN outcome' = Calls /\ \A d \in Calls \ {c} : outcome'[d] = outcome[d]
  /\ DOMAIN pending' = Calls /\ \A d \in Calls \ {c} : pending'[d] = pending[d]
  /\ DOMAIN answer' = Calls /\ \A d \in Calls \ {c} : answer'[d] = answer[d]
  /\ UNCHANGED <<contextVars, inputVars, begun, result>>
  /\ \A r \in store : r.until > time => r \in store'
  /\ \A r \in store' : r \in store \/ (r.until \in Nat /\ r.by = c /\ ~Ambiguous(c))

\* What such a step leaves to show: the invariant of its own call.
LEMMA GroupStep ==
  ASSUME IInv, NEW c \in Calls, Within(c), CallInv(c)'
  PROVE  IInv'
<1>1. GlobalInv
  BY DEF IInv
<1>2. UNCHANGED <<contextVars, inputVars, begun, result>>
  BY DEF Within
<1>3. phase' \in [Calls -> {"new", "evaluating", "crypto", "grouping", "consuming", "done"}]
  BY <1>1 DEF GlobalInv, Within
<1>4. \A r \in store' : r.until \in Nat /\ r.by \in Calls
  BY <1>1 DEF GlobalInv, Within
<1>5. GlobalInv'
  BY <1>1, <1>2, <1>3, <1>4 DEF GlobalInv, Within, contextVars, inputVars
<1>6. \A d \in Calls \ {c} : Untouched(d)
  BY <1>1 DEF GlobalInv, Untouched, Within
<1>7. mode[c] = "exactly-one" /\ ~Ambiguous(c) => Cardinality(Indices(c)) = 1
  BY <1>1, CandidateFacts DEF Ambiguous
<1>8. AmbiguitySpendsNothing'
  BY <1>2, <1>7 DEF IInv, AmbiguitySpendsNothing, Indices, inputVars, Within
<1>9. \A r \in store : r.until > time => r \in store'
  BY DEF Within
<1> QED
  BY <1>2, <1>5, <1>6, <1>8, <1>9, StepOf

\* The expressions over what a request is stay what they are.
LEMMA Fixed ==
  ASSUME UNCHANGED inputVars, NEW c
  PROVE  /\ Indices(c)' = Indices(c) /\ (Ambiguous(c)' <=> Ambiguous(c))
         /\ \A i : Identity(c, i)' = Identity(c, i) /\ End(c, i)' = End(c, i)
         /\ \A i : request'[c][i] = request[c][i]
BY DEF inputVars, Indices, Identity, End, Ambiguous

\* The candidates are grouped; nothing has an outcome from the store.
LEMMA GroupsStep ==
  ASSUME IInv, NEW c \in Calls, Groups(c)
  PROVE  IInv'
<1>1. GlobalInv /\ CallInv(c)
  BY DEF IInv
<1>2. /\ phase[c] = "evaluating" /\ Unjudged(c) = {} /\ ~Ambiguous(c)
      /\ UNCHANGED <<contextVars, store, inputVars, begun, pending, answer, result>>
      /\ phase' = [phase EXCEPT ![c] = "grouping"]
  BY DEF Groups, Judged, Goes
<1>3. /\ DOMAIN evaluation' = Calls /\ \A d \in Calls \ {c} : evaluation'[d] = evaluation[d]
      /\ DOMAIN outcome' = Calls /\ \A d \in Calls \ {c} : outcome'[d] = outcome[d]
      /\ evaluation'[c] = [i \in Indices(c) |->
           IF evaluation[c][i] = "eligible" /\ ~Trusts(c, i) THEN "rejected" ELSE evaluation[c][i]]
      /\ outcome'[c] = [i \in Indices(c) |->
           IF request[c][i].nonce = None THEN "optional" ELSE "none"]
  BY <1>1 DEF Groups, GlobalInv
<1>4. phase'[c] = "grouping" /\ answer'[c] = "none" /\ pending'[c] = None
  BY <1>1, <1>2 DEF GlobalInv, CallInv, Progress, Typed
<1>5. /\ Indices(c)' = Indices(c) /\ (Ambiguous(c)' <=> Ambiguous(c))
      /\ \A i : request'[c][i] = request[c][i]
  BY <1>2, Fixed
<1>6. /\ \A i \in Indices(c) : evaluation'[c][i] \in {"rejected", "eligible"}
      /\ evaluation'[c] \in [Indices(c) -> {"pending", "rejected", "eligible"}]
  BY <1>1, <1>2, <1>3 DEF CallInv, Typed, Unjudged
<1>7. \A i \in Indices(c) : /\ outcome'[c][i] \in {"optional", "none"}
                            /\ outcome'[c][i] = "optional" => request[c][i].nonce = None
  BY <1>3
<1>8. result'[c] = result[c] /\ \A i \in Indices(c) : result[c][i] # "verified"
  BY <1>1, <1>2 DEF CallInv, Progress
<1>9. outcome'[c] \in [Indices(c) -> {"none", "optional", "accepted", "replayed",
                                      "unavailable", "late", "context"}]
  BY <1>3
<1>10. Typed(c)'
  BY <1>1, <1>4, <1>5, <1>6, <1>8, <1>9 DEF CallInv, Typed
<1>11. Progress(c)'
  BY <1>2, <1>4, <1>5, <1>6, <1>7, <1>8 DEF Progress
<1>12. OneGroup(c)' /\ RetentionCovers(c)' /\ Kept(c)'
  BY <1>4, <1>5, <1>7 DEF OneGroup, RetentionCovers, Kept
<1>13. Within(c)
  BY <1>1, <1>2, <1>3 DEF GlobalInv, Within
<1>14. CallInv(c)'
  BY <1>10, <1>11, <1>12 DEF CallInv
<1> QED
  BY <1>13, <1>14, GroupStep

\* What a call within its groups is, and what resolving some candidates of the
\* group that is under way does to those that are left.
LEMMA ResolvesFacts ==
  ASSUME IInv, NEW c \in Calls, NEW members, members \subseteq Group(c), NEW value,
         value \in {"late", "context"}, Resolves(c, members, value),
         UNCHANGED <<inputVars, evaluation>>
  PROVE  /\ DOMAIN outcome' = Calls /\ \A d \in Calls \ {c} : outcome'[d] = outcome[d]
         /\ outcome'[c] \in [Indices(c) -> {"none", "optional", "accepted", "replayed",
                                            "unavailable", "late", "context"}]
         /\ Unresolved(c)' = Unresolved(c) \ members
         /\ \A i \in Indices(c) :
              /\ outcome'[c][i] = outcome[c][i] \/ outcome'[c][i] = value
              /\ outcome'[c][i] = "accepted" <=> outcome[c][i] = "accepted"
         /\ OneGroup(c)'
<1>1. GlobalInv /\ CallInv(c)
  BY DEF IInv
<1>2. /\ DOMAIN outcome' = Calls /\ \A d \in Calls \ {c} : outcome'[d] = outcome[d]
      /\ outcome'[c] = [i \in Indices(c) |-> IF i \in members THEN value ELSE outcome[c][i]]
  BY <1>1 DEF Resolves, GlobalInv
<1>3. /\ Indices(c)' = Indices(c) /\ \A i : Identity(c, i)' = Identity(c, i)
      /\ evaluation'[c] = evaluation[c]
  BY Fixed
<1>4. \A i \in members : outcome[c][i] = "none"
  BY DEF Group, Unresolved
<1>5. Unresolved(c)' = Unresolved(c) \ members
  BY <1>2, <1>3 DEF Unresolved
<1>6. outcome'[c] \in [Indices(c) -> {"none", "optional", "accepted", "replayed",
                                      "unavailable", "late", "context"}]
  BY <1>1, <1>2 DEF CallInv, Typed
<1>7. \A i \in Indices(c) :
        /\ outcome'[c][i] = outcome[c][i] \/ outcome'[c][i] = value
        /\ outcome'[c][i] = "accepted" <=> outcome[c][i] = "accepted"
        /\ outcome'[c][i] = "replayed" <=> outcome[c][i] = "replayed"
  BY <1>2, <1>4
<1>8. OneGroup(c)'
  BY <1>1, <1>3, <1>5, <1>7 DEF CallInv, OneGroup
<1> QED
  BY <1>2, <1>5, <1>6, <1>7, <1>8

\* What Kept says of the candidates that are accepted does not change while the
\* store does not.
LEMMA AcceptedStay ==
  ASSUME IInv, NEW c \in Calls, UNCHANGED <<contextVars, store, inputVars, begun>>,
         answer'[c] # "accepted",
         \A i \in Indices(c) : outcome'[c][i] = "accepted" => outcome[c][i] = "accepted"
  PROVE  Kept(c)'
BY Fixed DEF IInv, CallInv, Kept, SameEpoch, Holds, WindowOver, End, contextVars, inputVars

\* The gate is closed before a group, or when its answer comes.
LEMMA GroupFailsStep ==
  ASSUME IInv, NEW c \in Calls, GroupFails(c)
  PROVE  IInv'
<1>1. GlobalInv /\ CallInv(c)
  BY DEF IInv
<1>2. /\ Resolves(c, Group(c), "context") /\ phase[c] \in {"grouping", "consuming"}
      /\ pending' = [pending EXCEPT ![c] = None] /\ answer' = [answer EXCEPT ![c] = "none"]
      /\ phase' = [phase EXCEPT ![c] = "grouping"]
      /\ UNCHANGED <<contextVars, store, inputVars, begun, evaluation, result>>
  BY DEF GroupFails, Goes
<1>3. /\ DOMAIN outcome' = Calls /\ \A d \in Calls \ {c} : outcome'[d] = outcome[d]
      /\ outcome'[c] \in [Indices(c) -> {"none", "optional", "accepted", "replayed",
                                         "unavailable", "late", "context"}]
      /\ \A i \in Indices(c) :
           /\ outcome'[c][i] = outcome[c][i] \/ outcome'[c][i] = "context"
           /\ outcome'[c][i] = "accepted" <=> outcome[c][i] = "accepted"
      /\ OneGroup(c)'
  BY <1>2, ResolvesFacts
<1>4. Within(c)
  BY <1>1, <1>2, <1>3 DEF GlobalInv, Within
<1>5. /\ phase'[c] = "grouping" /\ pending'[c] = None /\ answer'[c] = "none"
      /\ evaluation'[c] = evaluation[c] /\ result'[c] = result[c]
      /\ Indices(c)' = Indices(c) /\ (Ambiguous(c)' <=> Ambiguous(c))
      /\ \A i : request'[c][i] = request[c][i]
  BY <1>1, <1>2, Fixed DEF GlobalInv
<1>6. Typed(c)'
  BY <1>1, <1>3, <1>5 DEF CallInv, Typed
<1>7. Progress(c)'
  BY <1>1, <1>2, <1>3, <1>5 DEF CallInv, Progress
<1>8. RetentionCovers(c)'
  BY <1>5 DEF RetentionCovers
<1>9. Kept(c)'
  BY <1>2, <1>3, <1>5, AcceptedStay
<1>10. CallInv(c)'
  BY <1>3, <1>6, <1>7, <1>8, <1>9 DEF CallInv
<1> QED
  BY <1>4, <1>10, GroupStep

\* A group goes to the store with what is ready of it, and no further.
LEMMA ConsumeStep ==
  ASSUME IInv, NEW c \in Calls, Consume(c)
  PROVE  IInv'
<1> DEFINE ready == Ready(c)
<1> DEFINE late == Group(c) \ ready
<1> DEFINE call == [identity |-> Identity(c, Min(ready)), now |-> time,
                    until |-> Retention(c, ready)]
<1>1. GlobalInv /\ CallInv(c)
  BY DEF IInv
<1>2. /\ phase[c] = "grouping" /\ Resolves(c, late, "late")
      /\ UNCHANGED <<contextVars, store, inputVars, begun, evaluation, answer, result>>
      /\ \/ ready = {} /\ UNCHANGED <<pending, phase>>
         \/ /\ ready # {} /\ pending' = [pending EXCEPT ![c] = call]
            /\ phase' = [phase EXCEPT ![c] = "consuming"]
  BY DEF Consume, Goes
<1>3. pending[c] = None /\ answer[c] = "none"
  BY <1>1, <1>2 DEF CallInv, Typed, Progress
<1>4. ready \subseteq Group(c) /\ ready \subseteq Indices(c)
  BY DEF Ready, Group, Unresolved
<1>5. ready # {} => /\ call \in Consumptions /\ call # None /\ call.identity = Nonce(c)
                    /\ \A i \in ready : End(c, i) <= call.until
  <2> SUFFICES ASSUME ready # {}
               PROVE  /\ call \in Consumptions /\ call # None /\ call.identity = Nonce(c)
                      /\ \A i \in ready : End(c, i) <= call.until
    OBVIOUS
  <2>1. ready \subseteq Nat
    BY <1>1, <1>4, CandidateFacts
  <2>2. Min(ready) \in ready
    BY <2>1, MinIsIn
  <2>3. Identity(c, Min(ready)) \in Identities /\ Identity(c, Min(ready)) = Nonce(c)
    BY <1>1, <1>4, <2>2, CandidateFacts DEF Group
  <2>4. Retention(c, ready) \in Nat /\ \A i \in ready : End(c, i) <= Retention(c, ready)
    BY <1>1, RetentionLemma
  <2>5. time \in Nat
    BY <1>1 DEF GlobalInv
  <2> HIDE DEF ready
  <2> QED
    BY <2>3, <2>4, <2>5, VerificationEngineAssumption DEF Consumptions
<1> HIDE DEF ready, call
<1>6. /\ DOMAIN outcome' = Calls /\ \A d \in Calls \ {c} : outcome'[d] = outcome[d]
      /\ outcome'[c] \in [Indices(c) -> {"none", "optional", "accepted", "replayed",
                                         "unavailable", "late", "context"}]
      /\ Unresolved(c)' = Unresolved(c) \ late
      /\ \A i \in Indices(c) :
           /\ outcome'[c][i] = outcome[c][i] \/ outcome'[c][i] = "late"
           /\ outcome'[c][i] = "accepted" <=> outcome[c][i] = "accepted"
      /\ OneGroup(c)'
  <2>1. late \subseteq Group(c)
    OBVIOUS
  <2> HIDE DEF late
  <2> QED
    BY <1>2, <2>1, ResolvesFacts
<1>7. Within(c)
  <2>1. \E to \in {"grouping", "consuming"} : phase' = [phase EXCEPT ![c] = to]
    <3>1. phase = [phase EXCEPT ![c] = "grouping"]
      BY <1>1, <1>2 DEF GlobalInv
    <3> QED
      BY <1>2, <3>1
  <2>2. DOMAIN pending' = Calls /\ \A d \in Calls \ {c} : pending'[d] = pending[d]
    BY <1>1, <1>2 DEF GlobalInv
  <2> QED
    BY <1>1, <1>2, <1>6, <2>1, <2>2 DEF GlobalInv, Within
<1>8. \/ ready = {} /\ phase'[c] = "grouping" /\ pending'[c] = None
      \/ ready # {} /\ phase'[c] = "consuming" /\ pending'[c] = call
  BY <1>1, <1>2, <1>3 DEF GlobalInv
<1>9. /\ answer'[c] = "none" /\ time' = time
      /\ evaluation'[c] = evaluation[c] /\ result'[c] = result[c]
      /\ Indices(c)' = Indices(c) /\ (Ambiguous(c)' <=> Ambiguous(c))
      /\ \A i : request'[c][i] = request[c][i]
      /\ \A i : Identity(c, i)' = Identity(c, i) /\ End(c, i)' = End(c, i)
  BY <1>2, <1>3, Fixed DEF contextVars
<1>10. Typed(c)'
  <2>1. pending'[c] \in Consumptions \cup {None} /\ (phase'[c] = "consuming" <=> pending'[c] # None)
    BY <1>5, <1>8
  <2> QED
    BY <1>1, <1>6, <1>9, <2>1 DEF CallInv, Typed
<1>11. Progress(c)'
  <2>1. phase'[c] = "consuming" => pending'[c].now <= time
    BY <1>1, <1>8 DEF call, GlobalInv
  <2> QED
    BY <1>1, <1>2, <1>6, <1>8, <1>9, <2>1 DEF CallInv, Progress
<1>12. RetentionCovers(c)'
  <2> SUFFICES ASSUME ready # {}, NEW i \in Group(c)'
               PROVE  End(c, i)' <= pending'[c].until
    BY <1>8 DEF RetentionCovers
  <2>1. pending'[c] = call /\ call # None
    BY <1>5, <1>8
  <2>2. i \in Unresolved(c) \ late /\ Identity(c, i) = Nonce(c)
    BY <1>5, <1>6, <1>9, <2>1 DEF Group, Nonce
  <2>3. i \in ready
    BY <2>2 DEF Group
  <2> QED
    BY <1>5, <1>9, <2>1, <2>3
<1>13. Kept(c)'
  BY <1>2, <1>6, <1>9, AcceptedStay
<1>14. CallInv(c)'
  BY <1>6, <1>10, <1>11, <1>12, <1>13 DEF CallInv
<1> QED
  BY <1>7, <1>14, GroupStep

\* The store's answer, and what is in the store because of it.
LEMMA StoreAnswersStep ==
  ASSUME IInv, NEW c \in Calls, StoreAnswers(c)
  PROVE  IInv'
<1> DEFINE call == pending[c]
<1> DEFINE kept == {r \in store : r.until > call.now}
<1> DEFINE record == [identity |-> call.identity, until |-> call.until, by |-> c]
<1>1. GlobalInv /\ CallInv(c)
  BY DEF IInv
<1>2. phase[c] = "consuming" /\ UNCHANGED <<contextVars, inputVars, begun, phase, evaluation,
                                            outcome, pending, result>>
  BY DEF StoreAnswers
<1>3. call \in Consumptions /\ call # None /\ call.now <= time /\ ~Ambiguous(c)
  BY <1>1, <1>2 DEF CallInv, Typed, Progress
<1>4. call.now \in Nat /\ call.until \in Nat /\ time \in Nat
  BY <1>1, <1>3 DEF Consumptions, GlobalInv
<1>5. \E known \in BOOLEAN :
        \/ /\ store' = IF known THEN kept ELSE kept \cup {record}
           /\ answer' = [answer EXCEPT ![c] = IF known THEN "replayed" ELSE "accepted"]
        \/ store' = store /\ answer' = [answer EXCEPT ![c] = "unavailable"]
  BY DEF StoreAnswers
<1>6. /\ DOMAIN answer' = Calls /\ \A d \in Calls \ {c} : answer'[d] = answer[d]
      /\ answer'[c] \in {"accepted", "replayed", "unavailable"}
      /\ answer'[c] = "accepted" => record \in store'
  BY <1>1, <1>5 DEF GlobalInv
<1>7. \A r \in store : r.until > time => r \in store'
  <2>1. ASSUME NEW r \in store, r.until > time PROVE r \in kept
    BY <1>1, <1>3, <1>4, <2>1 DEF GlobalInv
  <2> HIDE DEF kept
  <2> QED
    BY <1>5, <2>1
<1>8. \A r \in store' : r \in store \/ (r.until \in Nat /\ r.by = c /\ ~Ambiguous(c))
  <2>1. record.until \in Nat /\ record.by = c
    BY <1>4
  <2>2. \A r \in store' : r \in store \/ r = record
    <3> HIDE DEF record
    <3> QED
      BY <1>5
  <2> QED
    BY <1>3, <2>1, <2>2
<1>9. Within(c)
  <2>1. \E to \in {"grouping", "consuming"} : phase' = [phase EXCEPT ![c] = to]
    <3>1. phase = [phase EXCEPT ![c] = "consuming"]
      BY <1>1, <1>2 DEF GlobalInv
    <3> QED
      BY <1>2, <3>1
  <2> QED
    BY <1>1, <1>2, <1>6, <1>7, <1>8, <2>1 DEF GlobalInv, Within
<1>10. /\ Indices(c)' = Indices(c) /\ (Ambiguous(c)' <=> Ambiguous(c))
       /\ \A i : request'[c][i] = request[c][i]
       /\ \A i : Identity(c, i)' = Identity(c, i) /\ End(c, i)' = End(c, i)
  BY <1>2, Fixed
<1>11. Unresolved(c)' = Unresolved(c) /\ Group(c)' = Group(c)
  BY <1>2, <1>3, <1>10 DEF Unresolved, Group, Nonce
<1>12. Typed(c)'
  BY <1>1, <1>2, <1>6, <1>10 DEF CallInv, Typed
<1>13. Progress(c)'
  BY <1>1, <1>2, <1>3, <1>10 DEF CallInv, Progress, contextVars
<1>14. OneGroup(c)' /\ RetentionCovers(c)'
  BY <1>1, <1>2, <1>10, <1>11 DEF CallInv, OneGroup, RetentionCovers
<1>15. Kept(c)'
  <2> SUFFICES ASSUME SameEpoch(c)'
               PROVE  /\ answer'[c] = "accepted" => Holds(c, call.identity, call.until)'
                      /\ \A i \in Indices(c) : outcome[c][i] = "accepted" /\ ~(time >= End(c, i)) =>
                           Holds(c, Identity(c, i), End(c, i))'
    BY <1>2, <1>10 DEF Kept, Holds, WindowOver, End, contextVars
  <2>1. ASSUME answer'[c] = "accepted" PROVE Holds(c, call.identity, call.until)'
    <3>1. /\ record \in store' /\ record.identity = call.identity /\ record.by = c
          /\ record.until >= call.until
      BY <1>4, <1>6, <2>1
    <3> HIDE DEF record
    <3> QED
      BY <1>2, <3>1 DEF Holds
  <2>2. ASSUME NEW i \in Indices(c), outcome[c][i] = "accepted", ~(time >= End(c, i))
        PROVE  Holds(c, Identity(c, i), End(c, i))'
    <3>1. End(c, i) \in Nat
      BY <1>1, CandidateFacts
    <3>2. SameEpoch(c)
      BY <1>2 DEF SameEpoch, contextVars
    <3>3. Holds(c, Identity(c, i), End(c, i))
      BY <1>1, <2>2, <3>2 DEF CallInv, Kept, WindowOver, End
    <3>4. PICK r \in store : r.identity = Identity(c, i) /\ r.by = c /\ r.until >= End(c, i)
      BY <3>3 DEF Holds
    <3>5. r.until > time
      BY <1>1, <1>4, <2>2, <3>1, <3>4 DEF GlobalInv
    <3> QED
      BY <1>7, <1>10, <3>4, <3>5 DEF Holds
  <2> QED
    BY <2>1, <2>2
<1>16. CallInv(c)'
  BY <1>12, <1>13, <1>14, <1>15 DEF CallInv
<1> QED
  BY <1>9, <1>16, GroupStep

\* The members that are still in time share the answer; the others are late.
LEMMA SettleStep ==
  ASSUME IInv, NEW c \in Calls, Settle(c)
  PROVE  IInv'
<1>1. GlobalInv /\ CallInv(c)
  BY DEF IInv
<1>2. /\ phase[c] = "consuming" /\ answer[c] # "none"
      /\ pending' = [pending EXCEPT ![c] = None] /\ answer' = [answer EXCEPT ![c] = "none"]
      /\ phase' = [phase EXCEPT ![c] = "grouping"]
      /\ UNCHANGED <<contextVars, store, inputVars, begun, evaluation, result>>
  BY DEF Settle, Goes
<1>3. /\ DOMAIN outcome' = Calls /\ \A d \in Calls \ {c} : outcome'[d] = outcome[d]
      /\ outcome'[c] = [i \in Indices(c) |->
           IF i \notin Group(c) THEN outcome[c][i] ELSE IF InTime(c, i) THEN answer[c] ELSE "late"]
  BY <1>1 DEF Settle, GlobalInv
<1>4. Within(c)
  BY <1>1, <1>2, <1>3 DEF GlobalInv, Within
<1>5. /\ phase'[c] = "grouping" /\ pending'[c] = None /\ answer'[c] = "none" /\ time' = time
      /\ evaluation'[c] = evaluation[c] /\ result'[c] = result[c]
      /\ Indices(c)' = Indices(c) /\ (Ambiguous(c)' <=> Ambiguous(c))
      /\ \A i : request'[c][i] = request[c][i]
      /\ \A i : Identity(c, i)' = Identity(c, i) /\ End(c, i)' = End(c, i)
  BY <1>1, <1>2, Fixed DEF GlobalInv, contextVars
<1>6. answer[c] \in {"accepted", "replayed", "unavailable"}
  BY <1>1, <1>2 DEF CallInv, Typed
<1>7. /\ \A i \in Group(c) : /\ i \in Unresolved(c) /\ Identity(c, i) = Nonce(c)
                             /\ outcome[c][i] = "none"
                             /\ outcome'[c][i] = answer[c] \/ outcome'[c][i] = "late"
      /\ \A i \in Indices(c) : i \notin Group(c) => outcome'[c][i] = outcome[c][i]
  BY <1>3 DEF Group, Unresolved
<1>8. Unresolved(c)' = Unresolved(c) \ Group(c)
  BY <1>5, <1>6, <1>7 DEF Unresolved
<1>9. \A i \in Unresolved(c) \ Group(c) : Identity(c, i) # Nonce(c)
  BY DEF Group
<1>10. outcome'[c] \in [Indices(c) -> {"none", "optional", "accepted", "replayed",
                                       "unavailable", "late", "context"}]
  BY <1>1, <1>3, <1>6 DEF CallInv, Typed
<1>11. Typed(c)'
  BY <1>1, <1>5, <1>10 DEF CallInv, Typed
<1>12. Progress(c)'
  BY <1>1, <1>2, <1>5, <1>6, <1>7 DEF CallInv, Progress
<1>13. RetentionCovers(c)'
  BY <1>5 DEF RetentionCovers
<1>14. OneGroup(c)'
  <2>1. ASSUME NEW i \in Unresolved(c) \ Group(c), NEW j \in Indices(c),
               outcome'[c][j] \in {"accepted", "replayed"}
        PROVE  Identity(c, i) # Identity(c, j)
    <3>1. CASE j \in Group(c)
      BY <1>7, <1>9, <3>1
    <3>2. CASE j \notin Group(c)
      BY <1>1, <1>7, <2>1, <3>2 DEF CallInv, OneGroup
    <3> QED
      BY <3>1, <3>2
  <2>2. ASSUME NEW i \in Indices(c), NEW j \in Indices(c),
               outcome'[c][i] = "replayed", outcome'[c][j] = "accepted"
        PROVE  Identity(c, i) # Identity(c, j)
    <3>1. CASE i \in Group(c) /\ j \in Group(c)
      BY <1>7, <2>2, <3>1
    <3>2. CASE i \in Group(c) /\ j \notin Group(c)
      BY <1>1, <1>7, <2>2, <3>2 DEF CallInv, OneGroup
    <3>3. CASE i \notin Group(c) /\ j \in Group(c)
      BY <1>1, <1>7, <2>2, <3>3 DEF CallInv, OneGroup
    <3>4. CASE i \notin Group(c) /\ j \notin Group(c)
      BY <1>1, <1>7, <2>2, <3>4 DEF CallInv, OneGroup
    <3> QED
      BY <3>1, <3>2, <3>3, <3>4
  <2> QED
    BY <1>5, <1>8, <2>1, <2>2 DEF OneGroup
<1>15. Kept(c)'
  <2> SUFFICES ASSUME SameEpoch(c), NEW i \in Indices(c), outcome'[c][i] = "accepted",
                      ~(time >= End(c, i))
               PROVE  Holds(c, Identity(c, i), End(c, i))
    BY <1>2, <1>5 DEF Kept, SameEpoch, Holds, WindowOver, End, contextVars
  <2>1. CASE i \notin Group(c)
    BY <1>1, <1>7, <2>1 DEF CallInv, Kept, WindowOver, End
  <2>2. CASE i \in Group(c)
    <3>1. answer[c] = "accepted" /\ Identity(c, i) = pending[c].identity
      BY <1>1, <1>2, <1>7, <2>2 DEF CallInv, Typed, Nonce
    <3>2. End(c, i) <= pending[c].until /\ pending[c].until \in Nat /\ End(c, i) \in Nat /\ time \in Nat
      BY <1>1, <1>2, <2>2, CandidateFacts
         DEF CallInv, Typed, RetentionCovers, Consumptions, GlobalInv
    <3>3. Holds(c, pending[c].identity, pending[c].until)
      BY <1>1, <3>1, <3>2 DEF CallInv, Kept
    <3>4. PICK r \in store : r.identity = pending[c].identity /\ r.by = c /\ r.until >= pending[c].until
      BY <3>3 DEF Holds
    <3>5. r.until \in Nat
      BY <1>1, <3>4 DEF GlobalInv
    <3>6. r.until >= End(c, i)
      BY <3>2, <3>4, <3>5
    <3> QED
      BY <3>1, <3>4, <3>6 DEF Holds
  <2> QED
    BY <2>1, <2>2
<1>16. CallInv(c)'
  BY <1>11, <1>12, <1>13, <1>14, <1>15 DEF CallInv
<1> QED
  BY <1>4, <1>16, GroupStep

-----------------------------------------------------------------------------
\* Every call that has not begun satisfies the invariant.
LEMMA Initially == Init => IInv
<1> SUFFICES ASSUME Init PROVE IInv
  OBVIOUS
<1>1. /\ request \in [Calls -> Requests] /\ mode \in [Calls -> Modes]
      /\ phase = [c \in Calls |-> "new"] /\ pending = [c \in Calls |-> None]
      /\ answer = [c \in Calls |-> "none"] /\ store = {}
      /\ evaluation = [c \in Calls |-> All(c, "pending")]
      /\ outcome = [c \in Calls |-> All(c, "none")] /\ result = [c \in Calls |-> All(c, "none")]
  BY DEF Init
<1>2. GlobalInv
  BY <1>1 DEF Init, GlobalInv
<1>3. ASSUME NEW c \in Calls PROVE CallInv(c)
  <2>1. /\ phase[c] = "new" /\ pending[c] = None /\ answer[c] = "none"
        /\ evaluation[c] = [i \in Indices(c) |-> "pending"]
        /\ outcome[c] = [i \in Indices(c) |-> "none"] /\ result[c] = [i \in Indices(c) |-> "none"]
    BY <1>1 DEF All
  <2>2. Typed(c)
    BY <2>1 DEF Typed
  <2>3. Progress(c)
    BY <2>1 DEF Progress
  <2>4. OneGroup(c) /\ RetentionCovers(c) /\ Kept(c)
    BY <2>1 DEF OneGroup, RetentionCovers, Kept
  <2> QED
    BY <2>2, <2>3, <2>4 DEF CallInv
<1>4. AmbiguitySpendsNothing
  BY <1>1 DEF AmbiguitySpendsNothing
<1> QED
  BY <1>2, <1>3, <1>4 DEF IInv

\* No step of a call or of the environment breaks it.
LEMMA Inductive == IInv /\ [Next]_vars => IInv'
<1> SUFFICES ASSUME IInv, [Next]_vars PROVE IInv'
  OBVIOUS
<1>1. CASE Tick \/ ClockFault \/ EvidenceLost \/ Invalidate \/ Activate
  BY <1>1, EnvironmentStep
<1>2. ASSUME NEW c \in Calls, Begin(c) \/ Step(c) PROVE IInv'
  BY <1>2, BeginStep, EvaluationStep, EndingStep, GroupsStep, ConsumeStep, GroupFailsStep,
     StoreAnswersStep, SettleStep DEF Step
<1>3. CASE UNCHANGED vars
  <2>1. GlobalInv'
    BY <1>3 DEF IInv, GlobalInv, vars, contextVars, inputVars
  <2>2. \A c \in Calls : CallInv(c)'
    BY <1>3, Frame DEF IInv, GlobalInv, Untouched, SameEpoch, vars, contextVars, inputVars
  <2>3. AmbiguitySpendsNothing'
    BY <1>3 DEF IInv, AmbiguitySpendsNothing, Indices, vars, contextVars, inputVars
  <2> QED
    BY <2>1, <2>2, <2>3 DEF IInv
<1> QED
  BY <1>1, <1>2, <1>3 DEF Next

\* What the invariant is for: its own part of what every call is promised.
LEMMA Promised == IInv => CallsConsistent
<1> SUFFICES ASSUME IInv PROVE CallsConsistent
  OBVIOUS
<1>1. TypeOK
  BY DEF IInv, GlobalInv, CallInv, Typed, Progress, TypeOK
<1>2. NoSelfReplay
  BY DEF IInv, CallInv, OneGroup, NoSelfReplay
<1> QED
  BY <1>1, <1>2 DEF IInv, CallsConsistent

\* However calls, resets, outages and lost keys interleave, the members of a
\* request that share a nonce are never a replay of each other, and an
\* ambiguous request leaves nothing in the store
\* (verification-engine.ts and candidate-replay.ts).
THEOREM CallsCorrect == Spec => []CallsConsistent
<1>1. Spec => []IInv
  BY Initially, Inductive, PTL DEF Spec
<1> QED
  BY <1>1, Promised, PTL

\* A call keeps its request, and once it is done the epoch it began in.
LEMMA Steady ==
  ASSUME IInv, [Next]_vars, NEW c \in Calls
  PROVE  UNCHANGED inputVars /\ (phase'[c] = "done" => begun'[c] = begun[c])
<1>1. /\ DOMAIN phase = Calls /\ DOMAIN begun = Calls
  BY DEF IInv, GlobalInv
<1>2. CASE Tick \/ ClockFault \/ EvidenceLost \/ Invalidate \/ Activate
  BY <1>2 DEF Tick, ClockFault, EvidenceLost, Invalidate, Activate, callVars
<1>3. ASSUME NEW d \in Calls, Begin(d)
      PROVE  UNCHANGED inputVars /\ (phase'[c] = "done" => begun'[c] = begun[c])
  BY <1>1, <1>3 DEF Begin, Ends, Goes
<1>4. ASSUME NEW d \in Calls, Step(d)
      PROVE  UNCHANGED inputVars /\ (phase'[c] = "done" => begun'[c] = begun[c])
  BY <1>4 DEF Step, Evaluate, Evaluated, Judges, EndsAmbiguous, Groups, Consume, GroupFails,
              StoreAnswers, Settle, Finish, Ends
<1>5. CASE UNCHANGED vars
  BY <1>5 DEF vars
<1> QED
  BY <1>2, <1>3, <1>4, <1>5 DEF Next

\* A verified candidate with a nonce can pass no second time within its window:
\* its nonce is in the store on behalf of its own call, also when it shares the
\* nonce with other members, unless a reset has ended the epoch of the call
\* (retainUntil of candidate-replay.ts as the maximum of the ready members).
THEOREM GroupCovered == Spec => NonceCoversGroup
<1>1. ASSUME IInv, IInv', [Next]_vars, NEW c \in Calls, NEW i \in Indices(c),
             Guarded(c, i)', ~WindowOver(c, i)', Forgets => open' /\ generation' = begun[c]
      PROVE  \E r \in store' : r.identity = Identity(c, i) /\ r.by = c
  <2>1. UNCHANGED inputVars /\ (phase'[c] = "done" => begun'[c] = begun[c])
    BY <1>1, Steady
  <2>2. Indices(c)' = Indices(c) /\ Identity(c, i)' = Identity(c, i)
    BY <2>1, Fixed
  <2>3. Progress(c)' /\ Kept(c)'
    BY <1>1 DEF IInv, CallInv
  <2>4. phase'[c] = "done" /\ outcome'[c][i] = "accepted"
    BY <1>1, <2>2, <2>3 DEF Progress, Guarded
  <2>5. SameEpoch(c)'
    BY <1>1, <2>1, <2>4 DEF SameEpoch
  <2>6. Holds(c, Identity(c, i), End(c, i))'
    BY <1>1, <2>2, <2>3, <2>4, <2>5 DEF Kept
  <2> QED
    BY <2>2, <2>6 DEF Holds
<1>2. IInv /\ IInv' /\ [Next]_vars =>
        [\A c \in Calls : \A i \in Indices(c) :
          /\ Guarded(c, i)' /\ ~WindowOver(c, i)'
          /\ Forgets => open' /\ generation' = begun[c]
          => \E r \in store' : r.identity = Identity(c, i) /\ r.by = c]_vars
  BY <1>1
<1>3. Spec => []IInv
  BY Initially, Inductive, PTL DEF Spec
<1> QED
  BY <1>2, <1>3, PTL DEF Spec, NonceCoversGroup

=============================================================================
