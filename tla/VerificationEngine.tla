-------------------------- MODULE VerificationEngine --------------------------
(***************************************************************************)
(* verify() of packages/core/src/profiles/verification-engine.ts for        *)
(* requests that carry several candidates, with the grouping of their       *)
(* nonces in candidate-replay.ts.                                           *)
(*                                                                         *)
(* The context is a gate here: an operation passes while the epoch it began *)
(* in is open and the clock can be trusted.  SecurityContext models what is *)
(* behind it.  Evidence is a key's membership in the current set of a       *)
(* directory; the offline verifier never loses it.                          *)
(***************************************************************************)
EXTENDS TimePolicy, Sequences, FiniteSetsExt

CONSTANTS
  Calls,
  Keys,
  Requests,       \* sequences of candidates [key, nonce, created, expires]
  None,           \* the nonce of a candidate without one
  Modes,          \* of the verifiers: "exactly-one" or "multiple"
  Forgets,        \* TRUE for owned memory, which a reset clears
  MaxTime,        \* bound: the clock, in seconds
  MaxFaults       \* bound: outages, resets and lost keys together

Identities == UNION {{<<r[i].key, r[i].nonce>> : i \in DOMAIN r} : r \in Requests}
Consumptions == [identity : Identities, now : Nat, until : Nat]

ASSUME VerificationEngineAssumption ==
  /\ Modes \subseteq {"exactly-one", "multiple"} /\ Forgets \in BOOLEAN
  /\ \A r \in Requests :
       /\ Len(r) \in Nat \ {0} /\ DOMAIN r = 1 .. Len(r)
       /\ \A i \in DOMAIN r : r[i].key \in Keys /\ r[i].created \in Nat /\ r[i].expires \in Nat
  /\ None \notin Consumptions
  /\ MaxTime \in Nat /\ MaxFaults \in Nat

VARIABLES
  time, generation, open, healthy, faults,   \* the context
  trusted,        \* keys whose evidence is current
  store,          \* records [identity, until, by]
  request, mode,  \* of a call, and of the verifier it is made to
  begun,          \* the epoch it began in
  phase,
  evaluation,     \* of each candidate: "pending", "rejected" or "eligible"
  outcome,        \* of each candidate, from its nonce's group
  pending,        \* the consume() that is under way
  answer,         \* of the store to it
  result          \* of each candidate, at the end

contextVars == <<time, generation, open, healthy, faults, trusted>>
inputVars == <<request, mode>>
vars == <<contextVars, store, inputVars, begun, phase, evaluation, outcome, pending, answer, result>>

Indices(c) == DOMAIN request[c]
All(c, value) == [i \in Indices(c) |-> value]

TypeOK ==
  /\ time \in Nat /\ generation \in Nat \ {0} /\ faults \in Nat
  /\ {open, healthy} \subseteq BOOLEAN /\ trusted \subseteq Keys
  /\ \A r \in store : r.until \in Nat /\ r.by \in Calls
  /\ begun \in [Calls -> 0..generation]
  /\ phase \in [Calls -> {"new", "evaluating", "crypto", "grouping", "consuming", "done"}]
  /\ \A c \in Calls :
       /\ evaluation[c] \in [Indices(c) -> {"pending", "rejected", "eligible"}]
       /\ outcome[c] \in [Indices(c) -> {"none", "optional", "accepted", "replayed",
                                         "unavailable", "late", "context"}]
       /\ answer[c] \in {"none", "accepted", "replayed", "unavailable"}
       /\ result[c] \in [Indices(c) -> {"none", "verified", "rejected"}]
       /\ phase[c] = "grouping" => \A i \in Indices(c) : evaluation[c][i] # "pending"
       /\ phase[c] = "consuming" <=> pending[c] # None
       /\ pending[c] \in Consumptions \cup {None}

Init ==
  /\ time = 0 /\ generation = 1 /\ open = TRUE /\ healthy = TRUE /\ faults = 0
  /\ trusted = Keys /\ store = {}
  /\ request \in [Calls -> Requests] /\ mode \in [Calls -> Modes]
  /\ begun = [c \in Calls |-> 0] /\ phase = [c \in Calls |-> "new"]
  /\ evaluation = [c \in Calls |-> All(c, "pending")]
  /\ outcome = [c \in Calls |-> All(c, "none")]
  /\ pending = [c \in Calls |-> None] /\ answer = [c \in Calls |-> "none"]
  /\ result = [c \in Calls |-> All(c, "none")]

-----------------------------------------------------------------------------
(* The environment.                                                        *)

callVars == <<inputVars, begun, phase, evaluation, outcome, pending, answer, result>>

Tick ==
  /\ time < MaxTime /\ time' = time + 1
  /\ UNCHANGED <<generation, open, healthy, faults, trusted, store, callVars>>

Fault == faults < MaxFaults /\ faults' = faults + 1

ClockFault ==
  /\ healthy' = ~healthy /\ IF healthy THEN Fault ELSE UNCHANGED faults
  /\ UNCHANGED <<time, generation, open, trusted, store, callVars>>

\* A newer set of a directory is without the key.
EvidenceLost ==
  /\ Fault /\ \E k \in trusted : trusted' = trusted \ {k}
  /\ UNCHANGED <<time, generation, open, healthy, store, callVars>>

\* Owned memory answers within the task of the call, so that no reset comes in
\* between.
Invalidate ==
  /\ open /\ Fault /\ open' = FALSE
  /\ Forgets => \A c \in Calls : phase[c] = "consuming" => answer[c] # "none"
  /\ store' = IF Forgets THEN {} ELSE store
  /\ UNCHANGED <<time, generation, healthy, trusted, callVars>>

Activate ==
  /\ ~open /\ healthy /\ open' = TRUE /\ generation' = generation + 1
  /\ UNCHANGED <<time, healthy, faults, trusted, store, callVars>>

-----------------------------------------------------------------------------
(* Evaluation, one candidate after the other.                              *)

Gate(c) == open /\ begun[c] = generation /\ healthy
InTime(c, i) == InWindow(request[c][i].created, request[c][i].expires, time)
Trusts(c, i) == request[c][i].key \in trusted

Goes(c, to) == phase' = [phase EXCEPT ![c] = to]

\* The end of verify(), with a result for each candidate.
Ends(c, verdict) ==
  /\ Goes(c, "done") /\ result' = [result EXCEPT ![c] = verdict]
  /\ UNCHANGED <<contextVars, store, inputVars, begun, evaluation, outcome, pending, answer>>

\* Begins an operation unless the context is closed or the agent header is bad.
Begin(c) ==
  /\ phase[c] = "new"
  /\ \/ /\ open /\ begun' = [begun EXCEPT ![c] = generation] /\ Goes(c, "evaluating")
        /\ UNCHANGED <<contextVars, store, inputVars, evaluation, outcome, pending, answer, result>>
     \/ Ends(c, All(c, "rejected"))

Unjudged(c) == {i \in Indices(c) : evaluation[c][i] = "pending"}
Current(c) == Min(Unjudged(c))

Judges(c, verdict) ==
  /\ evaluation' = [evaluation EXCEPT ![c][Current(c)] = verdict]
  /\ Goes(c, "evaluating")
  /\ UNCHANGED <<contextVars, store, inputVars, begun, outcome, pending, answer, result>>

\* Up to the await of discovery or cryptography.
Evaluate(c) ==
  /\ phase[c] = "evaluating" /\ Unjudged(c) # {}
  /\ \/ Judges(c, "rejected")
     \/ /\ Gate(c) /\ InTime(c, Current(c)) /\ Goes(c, "crypto")
        /\ UNCHANGED <<contextVars, store, inputVars, begun, evaluation, outcome, pending,
                       answer, result>>

Evaluated(c) ==
  /\ phase[c] = "crypto"
  /\ \/ Judges(c, "rejected")
     \/ Gate(c) /\ InTime(c, Current(c)) /\ Trusts(c, Current(c)) /\ Judges(c, "eligible")

-----------------------------------------------------------------------------
(* Replay admission.                                                       *)

Judged(c) == phase[c] = "evaluating" /\ Unjudged(c) = {}
\* A wrong variant: the mode is applied to what is eligible.
MutAmbiguous(c) ==
  mode[c] = "exactly-one" /\ Cardinality({i \in Indices(c) : evaluation[c][i] = "eligible"}) > 1
Ambiguous(c) == mode[c] = "exactly-one" /\ Cardinality(Indices(c)) > 1

\* Ambiguity ends the call without a look at the store.
EndsAmbiguous(c) == Judged(c) /\ Ambiguous(c) /\ Ends(c, All(c, "rejected"))

\* Candidates whose evidence is gone are rejected before any nonce is consumed.
Groups(c) ==
  /\ Judged(c) /\ ~Ambiguous(c)
  /\ evaluation' = [evaluation EXCEPT ![c] = [i \in Indices(c) |->
       IF @[i] = "eligible" /\ ~Trusts(c, i) THEN "rejected" ELSE @[i]]]
  /\ outcome' = [outcome EXCEPT ![c] = [i \in Indices(c) |->
       IF request[c][i].nonce = None THEN "optional" ELSE "none"]]
  /\ Goes(c, "grouping")
  /\ UNCHANGED <<contextVars, store, inputVars, begun, pending, answer, result>>

Identity(c, i) == <<request[c][i].key, request[c][i].nonce>>
Unresolved(c) == {i \in Indices(c) : evaluation[c][i] = "eligible" /\ outcome[c][i] = "none"}

Resolves(c, members, value) ==
  outcome' = [outcome EXCEPT ![c] = [i \in Indices(c) |-> IF i \in members THEN value ELSE @[i]]]

\* The nonce that is under way, or the next in the order of the request.
Nonce(c) == IF pending[c] # None THEN pending[c].identity ELSE Identity(c, Min(Unresolved(c)))
Group(c) == {i \in Unresolved(c) : Identity(c, i) = Nonce(c)}

\* A wrong variant: the members' retention is that of the group's first.
MutRetention(c, members) == RetainUntil(request[c][Min(members)].created, time)
Retention(c, members) == Max({RetainUntil(request[c][i].created, time) : i \in members})

Ready(c) == {i \in Group(c) : /\ InTime(c, i)
                              /\ Representable(RetainUntil(request[c][i].created, time))}

\* A wrong variant: members that are late are left as they are.
MutConsume(c) ==
  /\ phase[c] = "grouping" /\ Unresolved(c) # {} /\ Gate(c)
  /\ LET ready == Ready(c) IN
       /\ ready # {}
       /\ pending' = [pending EXCEPT ![c] = [identity |-> Identity(c, Min(ready)),
                        now |-> time, until |-> Retention(c, ready)]]
       /\ Goes(c, "consuming") /\ UNCHANGED outcome
  /\ UNCHANGED <<contextVars, store, inputVars, begun, evaluation, answer, result>>

\* One group, up to the await of the store; a group without a member that is in
\* time does not reach it.
Consume(c) ==
  /\ phase[c] = "grouping" /\ Unresolved(c) # {} /\ Gate(c)
  /\ LET ready == Ready(c) IN
       /\ Resolves(c, Group(c) \ ready, "late")
       /\ IF ready = {} THEN UNCHANGED <<pending, phase>>
          ELSE /\ pending' = [pending EXCEPT ![c] = [identity |-> Identity(c, Min(ready)),
                                now |-> time, until |-> Retention(c, ready)]]
               /\ Goes(c, "consuming")
  /\ UNCHANGED <<contextVars, store, inputVars, begun, evaluation, answer, result>>

\* The gate before a group, or after its answer, is closed.
GroupFails(c) ==
  /\ ~Gate(c)
  /\ \/ phase[c] = "grouping" /\ Unresolved(c) # {}
     \/ phase[c] = "consuming" /\ answer[c] # "none"
  /\ Resolves(c, Group(c), "context")
  /\ pending' = [pending EXCEPT ![c] = None] /\ answer' = [answer EXCEPT ![c] = "none"]
  /\ Goes(c, "grouping")
  /\ UNCHANGED <<contextVars, store, inputVars, begun, evaluation, result>>

\* The store decides; it drops what has expired by the time of the call.
StoreAnswers(c) ==
  /\ phase[c] = "consuming" /\ answer[c] = "none"
  /\ LET call == pending[c]
         kept == {r \in store : r.until > call.now}
         known == \E r \in kept : r.identity = call.identity
     IN  \/ /\ store' = IF known THEN kept ELSE
                 kept \cup {[identity |-> call.identity, until |-> call.until, by |-> c]}
            /\ answer' = [answer EXCEPT ![c] = IF known THEN "replayed" ELSE "accepted"]
         \/ store' = store /\ answer' = [answer EXCEPT ![c] = "unavailable"]
  /\ UNCHANGED <<contextVars, inputVars, begun, phase, evaluation, outcome, pending, result>>

\* All members of the group that are still in time share the answer.
Settle(c) ==
  /\ phase[c] = "consuming" /\ answer[c] # "none" /\ Gate(c)
  /\ outcome' = [outcome EXCEPT ![c] = [i \in Indices(c) |->
       IF i \notin Group(c) THEN @[i] ELSE IF InTime(c, i) THEN answer[c] ELSE "late"]]
  /\ pending' = [pending EXCEPT ![c] = None] /\ answer' = [answer EXCEPT ![c] = "none"]
  /\ Goes(c, "grouping")
  /\ UNCHANGED <<contextVars, store, inputVars, begun, evaluation, result>>

Verifies(c, i) ==
  /\ evaluation[c][i] = "eligible" /\ outcome[c][i] \in {"optional", "accepted"}
  /\ Trusts(c, i) /\ InTime(c, i)

\* After the last group: evidence, gate and time once more.
Finish(c) ==
  /\ phase[c] = "grouping" /\ Unresolved(c) = {}
  /\ IF Gate(c)
     THEN Ends(c, [i \in Indices(c) |-> IF Verifies(c, i) THEN "verified" ELSE "rejected"])
     ELSE Ends(c, All(c, "rejected"))

-----------------------------------------------------------------------------
Step(c) ==
  \/ Evaluate(c) \/ Evaluated(c) \/ EndsAmbiguous(c) \/ Groups(c)
  \/ Consume(c) \/ GroupFails(c) \/ StoreAnswers(c) \/ Settle(c) \/ Finish(c)

Next ==
  \/ Tick \/ ClockFault \/ EvidenceLost \/ Invalidate \/ Activate
  \/ \E c \in Calls : Begin(c) \/ Step(c)

Spec == Init /\ [][Next]_vars

-----------------------------------------------------------------------------
(* Properties.                                                             *)

WindowOver(c, i) == time >= WindowEnd(request[c][i].created, request[c][i].expires)
Guarded(c, i) == result[c][i] = "verified" /\ request[c][i].nonce # None

\* The nonce of every verified candidate is in the store on behalf of its own
\* call for as long as the candidate would pass again, also when its group's
\* nonce was consumed with the retention of another member, and whatever the
\* members' creation times (retainUntil as the maximum of the ready members).
NonceCoversGroup ==
  [][\A c \in Calls : \A i \in Indices(c) :
       /\ Guarded(c, i)' /\ ~WindowOver(c, i)'
       /\ Forgets => open' /\ generation' = begun[c]
       => \E r \in store' : r.identity = Identity(c, i) /\ r.by = c]_vars

\* A candidate is called a replay only for what another call did: the members of
\* a request that share a nonce stand or fall together.
NoSelfReplay ==
  \A c \in Calls : \A i \in Indices(c) : outcome[c][i] = "replayed" =>
    \A j \in Indices(c) : outcome[c][j] = "accepted" => Identity(c, i) # Identity(c, j)

\* An ambiguous request spends no nonce, whichever of its candidates is eligible.
AmbiguitySpendsNothing ==
  \A r \in store : mode[r.by] = "exactly-one" => Cardinality(Indices(r.by)) = 1

\* No candidate suffers from its own request: not from a group it is a member
\* of, and not from candidates that make it ambiguous.
CallsConsistent == TypeOK /\ NoSelfReplay /\ AmbiguitySpendsNothing

\* A call that has begun can always go on: no group waits for ever for members
\* that are late, and none is left without an outcome.  Every step resolves or
\* judges a candidate or ends the call, so every verify() whose store answers
\* returns.
NeverStuck ==
  \A c \in Calls : phase[c] \notin {"new", "done"} => ENABLED Step(c)

=============================================================================
