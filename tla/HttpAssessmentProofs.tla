------------------------- MODULE HttpAssessmentProofs -------------------------
(***************************************************************************)
(* One decision for every request, for any number of requests, callers and  *)
(* instances, and any verifier's results.                                  *)
(***************************************************************************)
EXTENDS HttpAssessment, SequenceTheorems, FiniteSetTheorems, WellFoundedInduction, TLAPS

Early == {"none", "registered", "verifying"}
Settled == {"resolved", "rejected"}
Kinds == {"allow-verified", "allow-anonymous", "deny", "rate-limit"}

\* An entry of the registry.
Shape(s) ==
  /\ DOMAIN s = DOMAIN Unregistered
  /\ s.size \in Nat /\ s.started \in Nat
  /\ s.phase \in Early \cup {"deciding"} \cup Settled
  /\ s.phase = "none" <=> s.owner = None
  /\ s.owner # None => \E c \in Callers : s.owner = plan[c]

\* Verifier and policy are called once at most, and the race is on only while
\* the policy's decision is awaited.
Once(s) ==
  /\ s.verifications \in {0, 1} /\ s.policies \in {0, 1}
  /\ s.phase \in {"none", "registered"} => s.verifications = 0
  /\ s.phase \in Early =>
       s.policies = 0 /\ s.policy = "none" /\ s.race = None /\ ~s.aborted
  /\ s.phase # "deciding" => s.timer = Never
  /\ s.phase = "deciding" => s.owner.config.mode # "observe" /\ ~s.aborted

\* What the race has settled with, and what a policy is told that lost it.
Raced(s) ==
  /\ s.race \in Settlements \cup {None}
  /\ s.race # None /\ s.race.request \in Requests => s.race.kind \in Kinds
  /\ s.policy = "running" /\ s.race # None => s.race = Timeout
  /\ s.policy = "running" /\ s.phase # "deciding" => s.race # None
  /\ s.phase = "resolved" /\ s.policy = "running" => s.aborted
  /\ s.aborted => ~s.active /\ s.outcome.authorization = "denied"

\* What lets a request through.
Granted(s, r) ==
  s.phase = "resolved" /\ s.outcome.action = "continue" /\ s.owner.config.mode = "enforce" =>
    /\ s.race.request = r /\ s.race.kind \in {"allow-anonymous", "allow-verified"}
    /\ s.took < s.owner.config.timeout
    /\ s.assessment.mapped /\ (s.assessment.body => s.owner.config.bodyPolicy # "reject")
    /\ s.race.kind = "allow-verified" => s.assessment.verified

\* The outcome is kept before the first caller hears of it; the callers are
\* those of this request with the options of the first.
Reacts(s, r) ==
  s.owner # None =>
    /\ s.reactions \in Seq(Callers \cup {"record"})
    /\ \A i \in DOMAIN s.reactions : s.reactions[i] \in Callers =>
         plan[s.reactions[i]].request = r /\ plan[s.reactions[i]].config = s.owner.config
    /\ \A i \in DOMAIN s.reactions : i # 1 => s.reactions[i] # "record"
    /\ \/ s.reactions # <<>> /\ s.reactions[1] = "record"
       \/ /\ s.phase \in Settled /\ (s.phase = "resolved" => s.recorded)
          /\ \A i \in DOMAIN s.reactions : s.reactions[i] # "record"

Resolved(s) == s.phase = "resolved" => s.outcome.action \in {"respond", "continue"}

EntryInv(s, r) ==
  Shape(s) /\ Once(s) /\ Raced(s) /\ Resolved(s) /\ Granted(s, r) /\ Reacts(s, r)

\* A caller's answer is the outcome of its request.
AnswerInv(c) ==
  LET s == state[plan[c].request]
  IN /\ answer[c] \in {"converting", "proceeds"} =>
          /\ s.phase = "resolved" /\ s.outcome.action = "continue" /\ s.recorded
          /\ CopyFits(s, 3) /\ s.owner # None /\ s.owner.config = plan[c].config
     /\ answer[c] = "responded" => s.phase = "resolved" /\ s.outcome.action = "respond"

IInv ==
  /\ now \in Nat /\ instance \in Instances
  /\ DOMAIN state = Requests /\ DOMAIN answer = Callers
  /\ \A r \in Requests : EntryInv(state[r], r)
  /\ \A c \in Callers : AnswerInv(c)

-----------------------------------------------------------------------------
(* One entry of the registry.                                              *)

\* An outcome that callers may have been told stays what it is.
Stays(s, t) ==
  s.phase = "resolved" =>
    /\ t.phase = "resolved" /\ t.outcome = s.outcome /\ (s.recorded => t.recorded)
    /\ t.size = s.size /\ t.owner = s.owner

\* What a step does to the entry of one request, and to answers that fit it.
LEMMA Lift ==
  ASSUME IInv, UNCHANGED instance, now' \in Nat, NEW r \in Requests, NEW t,
         state' = [state EXCEPT ![r] = t], EntryInv(t, r), Stays(state[r], t),
         DOMAIN answer' = Callers,
         \A c \in Callers : answer'[c] = answer[c] \/ AnswerInv(c)'
  PROVE  IInv'
<1>1. state'[r] = t /\ DOMAIN state' = Requests /\ \A q \in Requests \ {r} : state'[q] = state[q]
  BY DEF IInv
<1>2. plan' = plan
  BY DEF plan
<1>3. EntryInv(state[r], r)'
  BY <1>1, <1>2 DEF EntryInv, Shape, Once, Raced, Resolved, Granted, Reacts
<1>4. ASSUME NEW q \in Requests, q # r PROVE EntryInv(state[q], q)'
  <2>1. state'[q] = state[q] /\ EntryInv(state[q], q)
    BY <1>1, <1>4 DEF IInv
  <2> QED
    BY <1>2, <2>1 DEF EntryInv, Shape, Once, Raced, Resolved, Granted, Reacts
<1>5. ASSUME NEW c \in Callers, answer'[c] = answer[c] PROVE AnswerInv(c)'
  <2>1. AnswerInv(c) /\ plan'[c] = plan[c]
    BY <1>2 DEF IInv
  <2>2. plan[c].request \in Requests
    BY HttpAssessmentAssumption DEF IInv, plan
  <2>3. CASE plan[c].request = r
    BY <1>1, <1>5, <2>1, <2>3 DEF AnswerInv, Stays, CopyFits
  <2>4. CASE plan[c].request # r
    BY <1>1, <1>5, <2>1, <2>2, <2>4 DEF AnswerInv, CopyFits
  <2> QED
    BY <2>3, <2>4
<1> QED
  BY <1>1, <1>3, <1>4, <1>5 DEF IInv

\* The options of a caller are those of an installation.
LEMMA OptionsValid ==
  ASSUME IInv, NEW s, Shape(s), s.owner # None
  PROVE  s.owner.config.timeout \in Nat
BY HttpAssessmentAssumption DEF IInv, Shape, plan, ValidOptions

\* What evaluate() has done to an entry before it judges.
Assessed(s, t) ==
  /\ DOMAIN t = DOMAIN Unregistered /\ t.size \in Nat /\ t.started \in Nat
  /\ t.owner = s.owner /\ t.reactions = s.reactions /\ t.recorded = s.recorded
  /\ t.verifications = s.verifications /\ t.policies = s.policies /\ t.policy = s.policy
  /\ t.race = s.race /\ t.timer = s.timer /\ t.aborted = s.aborted

\* A judged entry is resolved, or its race is on.
LEMMA JudgeEntry ==
  ASSUME IInv, NEW r, NEW s, EntryInv(s, r), s.phase \in {"registered", "verifying"},
         NEW t, Assessed(s, t)
  PROVE  EntryInv(Judge(t), r)
<1> DEFINE u == Judge(t)
<1>1. /\ s.owner # None /\ s.policies = 0 /\ s.policy = "none" /\ s.race = None
      /\ ~s.aborted /\ s.timer = Never /\ s.verifications \in {0, 1}
      /\ now \in Nat
  BY DEF EntryInv, Shape, Once, Early, IInv
<1>2. /\ DOMAIN u = DOMAIN Unregistered /\ u.size \in Nat /\ u.started \in Nat
      /\ u.owner = s.owner /\ u.reactions = s.reactions
      /\ u.verifications = s.verifications /\ u.race = None /\ u.aborted = s.aborted
  BY <1>1 DEF Assessed, Judge, Resolve, Unregistered
<1>3. \/ /\ u.phase = "resolved" /\ u.owner.config.mode = "observe" /\ u.policy = "none"
         /\ u.policies = 0 /\ u.timer = Never /\ u.outcome.action = "continue"
      \/ /\ u.phase = "deciding" /\ u.owner.config.mode # "observe" /\ u.policy = "running"
         /\ u.policies = 1
  BY <1>1 DEF Assessed, Judge, Resolve, Continue, Unregistered
<1>4. s.reactions # <<>> /\ s.reactions[1] = "record"
  BY <1>1 DEF EntryInv, Reacts, Settled
<1> HIDE DEF u
<1>5. Shape(u)
  BY <1>1, <1>2, <1>3 DEF EntryInv, Shape, Settled, Early
<1>6. Once(u)
  BY <1>1, <1>2, <1>3 DEF Once, Early
<1>7. Raced(u)
  BY <1>1, <1>2, <1>3 DEF Raced
<1>8. Granted(u, r) /\ Resolved(u)
  BY <1>3 DEF Granted, Resolved
<1>9. Reacts(u, r)
  BY <1>2, <1>4 DEF EntryInv, Reacts
<1> QED
  BY <1>5, <1>6, <1>7, <1>8, <1>9 DEF EntryInv, u

\* The policy's result, or its absence, is what the race settles with if it is
\* the first.
LEMMA PolicyEntry ==
  ASSUME IInv, NEW r, NEW s, EntryInv(s, r), s.policy = "running",
         NEW value \in Settlements, value.request \in Requests => value.kind \in Kinds
  PROVE  LET t == Races([s EXCEPT !.policy = "settled"], value)
         IN  EntryInv(t, r) /\ Stays(s, t)
<1> DEFINE t == Races([s EXCEPT !.policy = "settled"], value)
<1>1. /\ DOMAIN t = DOMAIN Unregistered
      /\ t.size = s.size /\ t.started = s.started /\ t.owner = s.owner /\ t.phase = s.phase
      /\ t.reactions = s.reactions /\ t.recorded = s.recorded /\ t.outcome = s.outcome
      /\ t.verifications = s.verifications /\ t.policies = s.policies /\ t.policy = "settled"
      /\ t.timer = s.timer /\ t.aborted = s.aborted /\ t.active = s.active
      /\ t.assessment = s.assessment /\ t.took = s.took
      /\ t.race = IF s.race = None THEN value ELSE s.race
  BY DEF EntryInv, Shape, Races, Unregistered
<1> HIDE DEF t
<1>2. Shape(t)
  BY <1>1 DEF EntryInv, Shape
<1>3. s.phase \notin Early
  BY DEF EntryInv, Once
<1>4. Once(t)
  BY <1>1, <1>3 DEF EntryInv, Once, Early
<1>5. Raced(t)
  BY <1>1 DEF EntryInv, Raced
<1>6. s.race = None => s.phase # "resolved" \/ s.owner.config.mode # "enforce" \/ s.outcome.action # "continue"
  <2>1. s.phase = "deciding" \/ s.race # None
    BY DEF EntryInv, Raced
  <2> QED
    BY <2>1
<1>7. Granted(t, r) /\ Resolved(t)
  BY <1>1, <1>6 DEF EntryInv, Granted, Resolved
<1>8. Reacts(t, r) /\ Stays(s, t)
  BY <1>1 DEF EntryInv, Reacts, Stays
<1> QED
  BY <1>2, <1>4, <1>5, <1>7, <1>8 DEF EntryInv, t

\* The timer is set while the policy's decision is awaited, and at no other time.
LEMMA TimerEntry ==
  ASSUME IInv, NEW r, NEW s, EntryInv(s, r), s.timer # Never
  PROVE  LET t == Races([s EXCEPT !.timer = Never], Timeout)
         IN  EntryInv(t, r) /\ Stays(s, t)
<1> DEFINE t == Races([s EXCEPT !.timer = Never], Timeout)
<1>1. s.phase = "deciding"
  BY DEF EntryInv, Once
<1>2. Timeout \in Settlements /\ Timeout.request \notin Requests
  BY HttpAssessmentAssumption DEF Timeout, Settlements
<1>3. /\ DOMAIN t = DOMAIN Unregistered
      /\ t.size = s.size /\ t.started = s.started /\ t.owner = s.owner /\ t.phase = s.phase
      /\ t.reactions = s.reactions /\ t.recorded = s.recorded /\ t.outcome = s.outcome
      /\ t.verifications = s.verifications /\ t.policies = s.policies /\ t.policy = s.policy
      /\ t.timer = Never /\ t.aborted = s.aborted /\ t.active = s.active
      /\ t.race = IF s.race = None THEN Timeout ELSE s.race
  BY DEF EntryInv, Shape, Races, Unregistered
<1> HIDE DEF t
<1>4. Shape(t)
  BY <1>3 DEF EntryInv, Shape
<1>5. Once(t)
  BY <1>1, <1>3 DEF EntryInv, Once, Early
<1>6. Raced(t)
  BY <1>1, <1>2, <1>3 DEF EntryInv, Raced
<1>7. Granted(t, r) /\ Resolved(t) /\ Reacts(t, r) /\ Stays(s, t)
  BY <1>1, <1>3 DEF EntryInv, Granted, Resolved, Reacts, Stays
<1> QED
  BY <1>4, <1>5, <1>6, <1>7 DEF EntryInv, t

\* Whatever the race has settled with, the decision is justified by it.
LEMMA DecidedEntry ==
  ASSUME IInv, NEW r \in Requests, NEW s, EntryInv(s, r), s.phase = "deciding", s.race # None
  PROVE  LET t == Decided([s EXCEPT !.active = FALSE, !.timer = Never, !.took = now - s.started], r)
         IN  EntryInv(t, r) /\ Stays(s, t)
<1> DEFINE u == [s EXCEPT !.active = FALSE, !.timer = Never, !.took = now - s.started]
<1> DEFINE t == Decided(u, r)
<1>1. DOMAIN s = DOMAIN Unregistered
  BY DEF EntryInv, Shape
<1>2. /\ DOMAIN u = DOMAIN Unregistered
      /\ u.size = s.size /\ u.started = s.started /\ u.owner = s.owner /\ u.phase = s.phase
      /\ u.reactions = s.reactions /\ u.recorded = s.recorded
      /\ u.verifications = s.verifications /\ u.policies = s.policies /\ u.policy = s.policy
      /\ u.timer = Never /\ u.aborted = s.aborted /\ u.active = FALSE
      /\ u.race = s.race /\ u.assessment = s.assessment /\ u.took = now - s.started
  BY <1>1 DEF Unregistered
<1> HIDE DEF u
<1>3. /\ s.race \in Settlements /\ (s.race.request = r => s.race.kind \in Kinds)
      /\ (s.policy = "running" => s.race = Timeout) /\ ~s.aborted
      /\ s.owner # None /\ s.started \in Nat /\ now \in Nat /\ s.owner.config.timeout \in Nat
  BY OptionsValid DEF EntryInv, Shape, Once, Raced, Early, IInv
<1>4. /\ DOMAIN t = DOMAIN Unregistered
      /\ t.size = s.size /\ t.started = s.started /\ t.owner = s.owner
      /\ t.reactions = s.reactions /\ t.recorded = s.recorded
      /\ t.verifications = s.verifications /\ t.policies = s.policies /\ t.policy = s.policy
      /\ t.timer = Never /\ t.active = FALSE
      /\ t.race = s.race /\ t.assessment = s.assessment /\ t.took = u.took
  BY <1>2, SMTT(30) DEF Decided, Denied, Resolve, Emit, Abort, Unregistered
<1>5. \/ t.phase = "rejected" /\ t.aborted = s.aborted /\ s.race # Timeout
      \/ /\ t.phase = "resolved" /\ t.outcome.action = "respond"
         /\ t.aborted => t.outcome.authorization = "denied"
         /\ s.race = Timeout => t.aborted
      \/ /\ t.phase = "resolved" /\ t.outcome.action = "continue" /\ t.aborted = s.aborted
         /\ s.race # Timeout /\ ~TimedOut(u) /\ ~BodyRejected(u) /\ u.assessment.mapped
         /\ Selected(u, r) \notin {"none", "rate-limit", "deny"}
         /\ Selected(u, r) = "allow-verified" => u.assessment.verified
  <2>1. ASSUME NEW w, DOMAIN w = DOMAIN Unregistered, NEW reason
        PROVE  /\ Denied(w, reason).phase = "resolved" /\ Denied(w, reason).aborted = w.aborted
               /\ Denied(w, reason).outcome = Respond("denied", DenyStatus(w))
    BY <2>1 DEF Denied, Emit, Resolve, Unregistered
  <2>2. ASSUME NEW o
        PROVE  /\ Resolve(u, o).phase = "resolved" /\ Resolve(u, o).outcome = o
               /\ Resolve(u, o).aborted = s.aborted
    BY <1>2 DEF Resolve, Unregistered
  <2>3. DOMAIN Abort(u) = DOMAIN Unregistered /\ Abort(u).aborted = TRUE
    BY <1>2 DEF Abort, Unregistered
  <2>4. [u EXCEPT !.phase = "rejected"].phase = "rejected"
        /\ [u EXCEPT !.phase = "rejected"].aborted = s.aborted
    BY <1>2 DEF Unregistered
  <2>5. /\ \A a, b : Respond(a, b).action = "respond" /\ Respond(a, b).authorization = a
        /\ \A a : Continue(a).action = "continue"
    BY DEF Respond, Continue
  <2>6. CASE TimedOut(u) \/ u.race = Timeout
    <3>1. t = Denied(Abort(u), "timeout")
      BY <2>6 DEF Decided
    <3>2. t.phase = "resolved" /\ t.outcome = Respond("denied", DenyStatus(Abort(u))) /\ t.aborted = TRUE
      BY <2>1, <2>3, <3>1
    <3> HIDE DEF t
    <3> QED
      BY <2>5, <3>2
  <2>7. CASE /\ ~TimedOut(u) /\ u.race # Timeout
             /\ \/ u.race = Error \/ BodyRejected(u) \/ ~u.assessment.mapped
                \/ Selected(u, r) \in {"none", "rate-limit", "deny"}
    <3>1. \/ \E reason : t = Denied(u, reason)
          \/ \E a, b : t = Resolve(u, Respond(a, b))
      BY <2>7 DEF Decided
    <3> HIDE DEF t
    <3>2. t.phase = "resolved" /\ (\E a, b : t.outcome = Respond(a, b)) /\ t.aborted = s.aborted
      BY <1>2, <2>1, <2>2, <3>1
    <3> QED
      BY <1>2, <1>3, <2>5, <2>7, <3>2
  <2>8. CASE /\ ~TimedOut(u) /\ u.race # Timeout /\ u.race # Error /\ ~BodyRejected(u)
             /\ u.assessment.mapped /\ Selected(u, r) \notin {"none", "rate-limit", "deny"}
    <3>1. \/ Selected(u, r) = "allow-verified" /\ ~u.assessment.verified /\ t = [u EXCEPT !.phase = "rejected"]
          \/ /\ Selected(u, r) # "allow-verified" \/ u.assessment.verified
             /\ t = Resolve(u, Continue(Selected(u, r)))
      BY <2>8 DEF Decided
    <3> HIDE DEF t
    <3>2. CASE t = [u EXCEPT !.phase = "rejected"]
      BY <1>2, <2>4, <2>8, <3>2
    <3>3. CASE /\ Selected(u, r) # "allow-verified" \/ u.assessment.verified
               /\ t = Resolve(u, Continue(Selected(u, r)))
      <4>1. t.phase = "resolved" /\ t.outcome.action = "continue" /\ t.aborted = s.aborted
        BY <2>2, <2>5, <3>3
      <4> QED
        BY <1>2, <2>8, <3>3, <4>1
    <3> QED
      BY <3>1, <3>2, <3>3
  <2> QED
    BY <2>6, <2>7, <2>8
<1> HIDE DEF t
<1>6. Shape(t)
  BY <1>3, <1>4, <1>5 DEF EntryInv, Shape, Settled
<1>7. Once(t)
  BY <1>3, <1>4, <1>5 DEF EntryInv, Once, Early
<1>8. Raced(t)
  BY <1>3, <1>4, <1>5 DEF EntryInv, Raced
<1>9. Granted(t, r)
  <2> SUFFICES ASSUME t.phase = "resolved", t.outcome.action = "continue"
               PROVE  /\ t.race.request = r /\ t.race.kind \in {"allow-anonymous", "allow-verified"}
                      /\ t.took < t.owner.config.timeout
                      /\ t.assessment.mapped /\ (t.assessment.body => t.owner.config.bodyPolicy # "reject")
                      /\ t.race.kind = "allow-verified" => t.assessment.verified
    BY DEF Granted
  <2>1. /\ ~TimedOut(u) /\ ~BodyRejected(u) /\ u.assessment.mapped
        /\ Selected(u, r) \notin {"none", "rate-limit", "deny"}
        /\ Selected(u, r) = "allow-verified" => u.assessment.verified
    BY <1>5
  <2>2. s.race.request = r /\ s.race.kind = Selected(u, r)
    BY <1>2, <2>1 DEF Selected
  <2>3. t.took < t.owner.config.timeout
    BY <1>2, <1>3, <1>4, <2>1 DEF TimedOut
  <2> QED
    BY <1>2, <1>3, <1>4, <2>1, <2>2, <2>3 DEF BodyRejected, Kinds
<1>10. Resolved(t) /\ Reacts(t, r) /\ Stays(s, t)
  BY <1>3, <1>4, <1>5 DEF EntryInv, Resolved, Reacts, Stays, Settled
<1> QED
  BY <1>6, <1>7, <1>8, <1>9, <1>10 DEF EntryInv, t, u

-----------------------------------------------------------------------------
(* The steps.                                                              *)

\* A step that leaves the registry as it is.
LEMMA RegistryKept ==
  ASSUME IInv, UNCHANGED <<instance, state>>, now' \in Nat, DOMAIN answer' = Callers,
         \A c \in Callers : answer'[c] = answer[c] \/ AnswerInv(c)'
  PROVE  IInv'
<1>1. plan' = plan
  BY DEF plan
<1>2. ASSUME NEW r \in Requests PROVE EntryInv(state[r], r)'
  BY <1>1 DEF IInv, EntryInv, Shape, Once, Raced, Resolved, Granted, Reacts
<1>3. ASSUME NEW c \in Callers, answer'[c] = answer[c] PROVE AnswerInv(c)'
  BY <1>1, <1>3 DEF IInv, AnswerInv, CopyFits
<1> QED
  BY <1>2, <1>3 DEF IInv

\* A step on one entry that answers nobody.
LEMMA EntryStep ==
  ASSUME IInv, NEW r \in Requests, NEW t, state' = [state EXCEPT ![r] = t],
         EntryInv(t, r), Stays(state[r], t), UNCHANGED <<now, instance, answer>>
  PROVE  IInv'
<1>1. now' \in Nat /\ DOMAIN answer' = Callers /\ \A c \in Callers : answer'[c] = answer[c]
  BY DEF IInv
<1> QED
  BY <1>1, Lift

\* The verifier is called, or an unmapped request is judged without it.
LEMMA EvaluateStep ==
  ASSUME IInv, NEW r \in Requests, Evaluate(r)
  PROVE  IInv'
<1> DEFINE s == state[r]
<1> DEFINE assessed == Emit([s EXCEPT !.assessment = [mapped |-> FALSE, verified |-> FALSE, body |-> FALSE]],
                            "mapping-rejected")
<1> DEFINE verifying == [s EXCEPT !.phase = "verifying", !.verifications = s.verifications + 1]
<1>1. EntryInv(s, r) /\ DOMAIN s = DOMAIN Unregistered
  BY DEF IInv, EntryInv, Shape
<1>2. s.phase = "registered" /\ UNCHANGED <<now, instance, answer>>
  BY DEF Evaluate
<1>3. state' = [state EXCEPT ![r] = Judge(assessed)] \/ state' = [state EXCEPT ![r] = verifying]
  BY DEF Evaluate
<1>4. Assessed(s, assessed)
  <2>1. s.size \in Nat /\ s.started \in Nat
    BY <1>1 DEF EntryInv, Shape
  <2> QED
    BY <1>1, <2>1 DEF Assessed, Emit, Unregistered
<1>5. EntryInv(Judge(assessed), r)
  <2> HIDE DEF s, assessed
  <2> QED
    BY <1>1, <1>2, <1>4, JudgeEntry
<1>6. EntryInv(verifying, r)
  <2>1. /\ DOMAIN verifying = DOMAIN Unregistered
        /\ verifying.size = s.size /\ verifying.started = s.started /\ verifying.owner = s.owner
        /\ verifying.phase = "verifying" /\ verifying.verifications = s.verifications + 1
        /\ verifying.policies = s.policies /\ verifying.policy = s.policy
        /\ verifying.race = s.race /\ verifying.aborted = s.aborted /\ verifying.timer = s.timer
        /\ verifying.reactions = s.reactions /\ verifying.recorded = s.recorded
    BY <1>1 DEF Unregistered
  <2> HIDE DEF s, verifying
  <2>2. Shape(verifying)
    BY <1>1, <1>2, <2>1 DEF EntryInv, Shape, Early
  <2>3. Once(verifying)
    BY <1>1, <1>2, <2>1 DEF EntryInv, Once, Early
  <2>4. Raced(verifying)
    BY <1>1, <1>2, <2>1 DEF EntryInv, Once, Raced, Early
  <2>5. Granted(verifying, r) /\ Resolved(verifying)
    BY <2>1 DEF Granted, Resolved
  <2>6. Reacts(verifying, r)
    BY <1>1, <1>2, <2>1 DEF EntryInv, Reacts, Settled
  <2> QED
    BY <2>2, <2>3, <2>4, <2>5, <2>6 DEF EntryInv
<1>7. \A t : Stays(state[r], t)
  BY <1>2 DEF Stays
<1> HIDE DEF s, assessed, verifying
<1> QED
  BY <1>2, <1>3, <1>5, <1>6, <1>7, EntryStep

\* The verifier's result is judged, or the assessment fails.
LEMMA VerifierAnswersStep ==
  ASSUME IInv, NEW r \in Requests, VerifierAnswers(r)
  PROVE  IInv'
<1> DEFINE s == state[r]
<1>1. EntryInv(s, r) /\ DOMAIN s = DOMAIN Unregistered
  BY DEF IInv, EntryInv, Shape
<1>2. s.phase = "verifying" /\ UNCHANGED <<now, instance, answer>>
  BY DEF VerifierAnswers
<1>3. PICK result, size :
        /\ size \in Sizes
        /\ state' = [state EXCEPT ![r] =
             IF result = "error" \/ ~CopyFits([s EXCEPT !.size = size], 0)
             THEN Emit([[s EXCEPT !.size = size] EXCEPT !.phase = "rejected"], "verification-error")
             ELSE IF ~CopyFits([s EXCEPT !.size = size], 1)
             THEN [[s EXCEPT !.size = size] EXCEPT !.phase = "rejected"]
             ELSE Judge([[s EXCEPT !.size = size] EXCEPT !.assessment =
                    [mapped |-> TRUE, verified |-> result = "verified", body |-> captured[r].body]])]
  BY DEF VerifierAnswers
<1> DEFINE sized == [s EXCEPT !.size = size]
<1> DEFINE failed == [sized EXCEPT !.phase = "rejected"]
<1> DEFINE assessed == [sized EXCEPT !.assessment =
                         [mapped |-> TRUE, verified |-> result = "verified", body |-> captured[r].body]]
<1>4. \/ state' = [state EXCEPT ![r] = Emit(failed, "verification-error")]
      \/ state' = [state EXCEPT ![r] = failed]
      \/ state' = [state EXCEPT ![r] = Judge(assessed)]
  BY <1>3
<1>5. size \in Nat /\ s.started \in Nat
  BY <1>1, <1>3, HttpAssessmentAssumption DEF EntryInv, Shape
<1>6. Assessed(s, assessed)
  BY <1>1, <1>5 DEF Assessed, Unregistered
<1>7. EntryInv(Judge(assessed), r)
  <2> HIDE DEF s, assessed
  <2> QED
    BY <1>1, <1>2, <1>6, JudgeEntry
<1>8. ASSUME NEW t \in {failed, Emit(failed, "verification-error")} PROVE EntryInv(t, r)
  <2>1. /\ DOMAIN t = DOMAIN Unregistered
        /\ t.size = size /\ t.started = s.started /\ t.owner = s.owner
        /\ t.phase = "rejected" /\ t.verifications = s.verifications
        /\ t.policies = s.policies /\ t.policy = s.policy
        /\ t.race = s.race /\ t.aborted = s.aborted /\ t.timer = s.timer
        /\ t.reactions = s.reactions /\ t.recorded = s.recorded
    BY <1>1 DEF Emit, Unregistered
  <2> HIDE DEF s, sized, failed
  <2>2. Shape(t)
    BY <1>1, <1>2, <1>5, <2>1 DEF EntryInv, Shape, Settled
  <2>3. Once(t)
    BY <1>1, <1>2, <2>1 DEF EntryInv, Once, Early
  <2>4. Raced(t)
    BY <1>1, <1>2, <2>1 DEF EntryInv, Once, Raced, Early
  <2>5. Granted(t, r) /\ Resolved(t)
    BY <2>1 DEF Granted, Resolved
  <2>6. Reacts(t, r)
    BY <1>1, <1>2, <2>1 DEF EntryInv, Reacts, Settled
  <2> QED
    BY <2>2, <2>3, <2>4, <2>5, <2>6 DEF EntryInv
<1>9. \A t : Stays(state[r], t)
  BY <1>2 DEF Stays
<1> HIDE DEF s, sized, failed, assessed
<1> QED
  BY <1>2, <1>4, <1>7, <1>8, <1>9, EntryStep

\* The policy returns, its timer fires, or its decision is taken up.
LEMMA PolicyStep ==
  ASSUME IInv, NEW r \in Requests, PolicyReturns(r) \/ TimerFires(r) \/ Decide(r)
  PROVE  IInv'
<1> DEFINE s == state[r]
<1>1. EntryInv(s, r) /\ UNCHANGED <<now, instance, answer>>
  BY DEF IInv, PolicyReturns, TimerFires, Decide
<1>2. CASE PolicyReturns(r)
  <2>1. PICK value :
          /\ value \in (UNION {Decisions(q) : q \in Requests}) \cup Foreign \cup {Error, Other}
          /\ state' = [state EXCEPT ![r] = Races([s EXCEPT !.policy = "settled"], value)]
    BY <1>2 DEF PolicyReturns
  <2>2. value \in Settlements /\ (value.request \in Requests => value.kind \in Kinds)
    <3>1. CASE value \in {Error, Other}
      BY <3>1, HttpAssessmentAssumption DEF Error, Other, Settlements
    <3>2. CASE value \in Foreign
      BY <3>2, HttpAssessmentAssumption DEF Foreign, Settlements
    <3>3. ASSUME NEW q \in Requests, value \in Decisions(q)
          PROVE  value \in Settlements /\ value.kind \in Kinds
      BY <3>3 DEF Decisions, Settlements, Kinds
    <3>4. \/ value \in {Error, Other} \/ value \in Foreign
          \/ \E q \in Requests : value \in Decisions(q)
      BY <2>1
    <3> QED
      BY <3>1, <3>2, <3>3, <3>4
  <2>3. s.policy = "running"
    BY <1>2 DEF PolicyReturns
  <2> DEFINE t == Races([s EXCEPT !.policy = "settled"], value)
  <2>4. EntryInv(t, r) /\ Stays(s, t)
    <3> HIDE DEF s
    <3> QED
      BY <1>1, <2>2, <2>3, PolicyEntry
  <2> HIDE DEF t
  <2> QED
    BY <1>1, <2>1, <2>4, EntryStep DEF t
<1>3. CASE TimerFires(r)
  <2> DEFINE t == Races([s EXCEPT !.timer = Never], Timeout)
  <2>1. s.timer # Never /\ state' = [state EXCEPT ![r] = t]
    BY <1>3 DEF TimerFires
  <2>2. EntryInv(t, r) /\ Stays(s, t)
    <3> HIDE DEF s
    <3> QED
      BY <1>1, <2>1, TimerEntry
  <2> HIDE DEF t
  <2> QED
    BY <1>1, <2>1, <2>2, EntryStep
<1>4. CASE Decide(r)
  <2> DEFINE t == Decided([s EXCEPT !.active = FALSE, !.timer = Never, !.took = now - s.started], r)
  <2>1. s.phase = "deciding" /\ s.race # None /\ state' = [state EXCEPT ![r] = t]
    BY <1>4 DEF Decide
  <2>2. EntryInv(t, r) /\ Stays(s, t)
    <3> HIDE DEF s
    <3> QED
      BY <1>1, <2>1, DecidedEntry
  <2> HIDE DEF t
  <2> QED
    BY <1>1, <2>1, <2>2, EntryStep
<1> QED
  BY <1>2, <1>3, <1>4

\* A settled promise tells the next of those who wait.
LEMMA ReactStep ==
  ASSUME IInv, NEW r \in Requests, React(r)
  PROVE  IInv'
<1> DEFINE s == state[r]
<1> DEFINE next == Head(s.reactions)
<1> DEFINE popped == [s EXCEPT !.reactions = Tail(s.reactions)]
<1> DEFINE recorded == [popped EXCEPT !.recorded = (s.phase = "resolved")]
<1>1. EntryInv(s, r) /\ DOMAIN s = DOMAIN Unregistered /\ instance' = instance /\ now' \in Nat
  BY DEF IInv, EntryInv, Shape, React
<1>2. s.phase \in Settled /\ s.reactions # <<>> /\ s.owner # None
  BY <1>1 DEF React, Settled, EntryInv, Shape, Early
<1>3. \/ next = "record" /\ state' = [state EXCEPT ![r] = recorded] /\ answer' = answer
      \/ /\ next # "record" /\ state' = [state EXCEPT ![r] = popped]
         /\ answer' = [answer EXCEPT ![next] = Answer(s, next)]
  BY DEF React
<1>4. /\ s.reactions \in Seq(Callers \cup {"record"}) /\ next = s.reactions[1]
      /\ next \in Callers \cup {"record"}
      /\ next \in Callers => plan[next].request = r /\ plan[next].config = s.owner.config
      /\ next # "record" /\ s.phase = "resolved" => s.recorded
      /\ \A i \in DOMAIN s.reactions : i # 1 => s.reactions[i] # "record"
      /\ \A i \in DOMAIN s.reactions : s.reactions[i] \in Callers =>
           plan[s.reactions[i]].request = r /\ plan[s.reactions[i]].config = s.owner.config
  BY <1>1, <1>2 DEF EntryInv, Reacts
<1>5. /\ Tail(s.reactions) \in Seq(Callers \cup {"record"})
      /\ \A i \in DOMAIN Tail(s.reactions) :
           i + 1 \in DOMAIN s.reactions /\ i + 1 # 1 /\ Tail(s.reactions)[i] = s.reactions[i + 1]
  BY <1>2, <1>4
<1>6. ASSUME NEW t \in {popped, recorded}, t = recorded \/ next # "record"
      PROVE  EntryInv(t, r) /\ Stays(s, t)
  <2>1. /\ DOMAIN t = DOMAIN Unregistered
        /\ t.size = s.size /\ t.started = s.started /\ t.owner = s.owner
        /\ t.phase = s.phase /\ t.verifications = s.verifications
        /\ t.policies = s.policies /\ t.policy = s.policy /\ t.outcome = s.outcome
        /\ t.race = s.race /\ t.aborted = s.aborted /\ t.timer = s.timer
        /\ t.active = s.active /\ t.took = s.took /\ t.assessment = s.assessment
        /\ t.reactions = Tail(s.reactions)
    BY <1>1 DEF Unregistered
  <2>2. s.phase = "resolved" => t.recorded
    BY <1>1, <1>4, <1>6 DEF Unregistered
  <2> HIDE DEF s, next, popped, recorded
  <2>3. Shape(t) /\ Once(t)
    BY <1>1, <2>1 DEF EntryInv, Shape, Once
  <2>4. Raced(t) /\ Granted(t, r) /\ Resolved(t)
    BY <1>1, <2>1 DEF EntryInv, Raced, Granted, Resolved
  <2>5. Reacts(t, r)
    BY <1>2, <1>4, <1>5, <2>1, <2>2 DEF Reacts
  <2>6. Stays(s, t)
    BY <2>1, <2>2 DEF Stays
  <2> QED
    BY <2>3, <2>4, <2>5, <2>6 DEF EntryInv
<1>7. CASE next = "record"
  <2>1. state' = [state EXCEPT ![r] = recorded] /\ answer' = answer
    BY <1>3, <1>7
  <2>2. DOMAIN answer' = Callers /\ \A c \in Callers : answer'[c] = answer[c]
    BY <2>1 DEF IInv
  <2> HIDE DEF recorded
  <2> QED
    BY <1>1, <1>6, <2>1, <2>2, Lift
<1>8. CASE next # "record"
  <2>1. PICK c \in Callers : c = next
    BY <1>4, <1>8
  <2>2. state' = [state EXCEPT ![r] = popped] /\ answer' = [answer EXCEPT ![c] = Answer(s, c)]
    BY <1>3, <1>8, <2>1
  <2>3. /\ DOMAIN answer' = Callers /\ answer'[c] = Answer(s, c)
        /\ \A d \in Callers \ {c} : answer'[d] = answer[d]
    BY <2>2 DEF IInv
  <2>4. /\ plan' = plan /\ plan[c].request = r /\ plan[c].config = s.owner.config
        /\ s.phase = "resolved" => s.recorded
    BY <1>1, <1>4, <1>8, <2>1 DEF plan
  <2>5. /\ state'[r] = popped /\ popped.phase = s.phase /\ popped.outcome = s.outcome
        /\ popped.recorded = s.recorded /\ popped.size = s.size /\ popped.owner = s.owner
    BY <1>1, <2>2 DEF IInv, Unregistered
  <2>6. s.phase = "resolved" => s.outcome.action \in {"respond", "continue"}
    BY <1>1 DEF EntryInv, Resolved
  <2> HIDE DEF next, popped
  <2>7. /\ answer'[c] \in {"converting", "proceeds"} =>
             s.phase = "resolved" /\ s.outcome.action = "continue" /\ CopyFits(s, 3)
        /\ answer'[c] = "responded" => s.phase = "resolved" /\ s.outcome.action = "respond"
    BY <1>2, <2>3, <2>6 DEF Answer, Settled
  <2>8. AnswerInv(c)'
    <3> HIDE DEF s
    <3>1. state'[plan'[c].request].phase = s.phase /\ state'[plan'[c].request].outcome = s.outcome
          /\ state'[plan'[c].request].recorded = s.recorded
          /\ state'[plan'[c].request].size = s.size /\ state'[plan'[c].request].owner = s.owner
      BY <2>4, <2>5
    <3> QED
      BY <1>2, <2>4, <2>7, <3>1 DEF AnswerInv, CopyFits
  <2>9. \A d \in Callers : answer'[d] = answer[d] \/ AnswerInv(d)'
    BY <2>3, <2>8
  <2> QED
    BY <1>1, <1>6, <1>8, <2>2, <2>3, <2>9, Lift
<1> QED
  BY <1>7, <1>8

\* A caller registers the assessment, shares it, or is refused.
LEMMA AssessStep ==
  ASSUME IInv, NEW c \in Callers, Assess(c)
  PROVE  IInv'
<1> DEFINE r == plan[c].request
<1> DEFINE s == state[r]
<1> DEFINE joined == [s EXCEPT !.reactions = Append(s.reactions, c)]
<1> DEFINE registered == Register(s, c)
<1>1. r \in Requests /\ plan[c] # None /\ c # "record"
  BY HttpAssessmentAssumption DEF IInv, plan
<1>2. /\ EntryInv(s, r) /\ DOMAIN s = DOMAIN Unregistered /\ instance' = instance
      /\ now' \in Nat
  BY <1>1 DEF IInv, EntryInv, Shape, Assess
<1>3. \/ answer' = [answer EXCEPT ![c] = "failed"] /\ UNCHANGED state
      \/ /\ answer' = [answer EXCEPT ![c] = "waiting"]
         /\ \/ /\ s.owner # None /\ s.owner.config = plan[c].config
               /\ state' = [state EXCEPT ![r] = joined]
            \/ s.owner = None /\ state' = [state EXCEPT ![r] = registered]
  BY DEF Assess, Registered, Compatible
<1>4. /\ DOMAIN answer' = Callers /\ answer'[c] \in {"failed", "waiting"}
      /\ \A d \in Callers \ {c} : answer'[d] = answer[d]
  BY <1>3 DEF IInv
<1>5. \A d \in Callers : answer'[d] = answer[d] \/ AnswerInv(d)'
  BY <1>4 DEF AnswerInv
<1>6. ASSUME s.owner # None, s.owner.config = plan[c].config
      PROVE  EntryInv(joined, r) /\ Stays(s, joined)
  <2>1. /\ DOMAIN joined = DOMAIN Unregistered
        /\ joined.size = s.size /\ joined.started = s.started /\ joined.owner = s.owner
        /\ joined.phase = s.phase /\ joined.verifications = s.verifications
        /\ joined.policies = s.policies /\ joined.policy = s.policy /\ joined.outcome = s.outcome
        /\ joined.race = s.race /\ joined.aborted = s.aborted /\ joined.timer = s.timer
        /\ joined.active = s.active /\ joined.took = s.took /\ joined.assessment = s.assessment
        /\ joined.reactions = Append(s.reactions, c) /\ joined.recorded = s.recorded
    BY <1>2 DEF Unregistered
  <2>2. s.reactions \in Seq(Callers \cup {"record"}) /\ plan[c].request = r
    BY <1>2, <1>6 DEF EntryInv, Reacts
  <2> HIDE DEF r, s, joined
  <2>3. /\ Append(s.reactions, c) \in Seq(Callers \cup {"record"})
        /\ \A i \in DOMAIN Append(s.reactions, c) :
             \/ i \in DOMAIN s.reactions /\ Append(s.reactions, c)[i] = s.reactions[i]
             \/ Append(s.reactions, c)[i] = c
        /\ Append(s.reactions, c) # <<>>
        /\ s.reactions # <<>> => Append(s.reactions, c)[1] = s.reactions[1]
    BY <2>2
  <2>4. Shape(joined) /\ Once(joined)
    BY <1>2, <2>1 DEF EntryInv, Shape, Once
  <2>5. Raced(joined) /\ Resolved(joined) /\ Granted(joined, r)
    BY <1>2, <2>1 DEF EntryInv, Raced, Resolved, Granted
  <2>6. Reacts(joined, r)
    BY <1>1, <1>2, <1>6, <2>1, <2>2, <2>3 DEF EntryInv, Reacts
  <2>7. Stays(s, joined)
    BY <2>1 DEF Stays
  <2> QED
    BY <2>4, <2>5, <2>6, <2>7 DEF EntryInv
<1>7. ASSUME s.owner = None
      PROVE  EntryInv(registered, r) /\ Stays(s, registered)
  <2>1. /\ DOMAIN registered = DOMAIN Unregistered
        /\ registered.size = s.size /\ registered.started = s.started
        /\ registered.owner = plan[c] /\ registered.phase = "registered"
        /\ registered.verifications = s.verifications /\ registered.policies = s.policies
        /\ registered.policy = s.policy /\ registered.race = s.race
        /\ registered.aborted = s.aborted /\ registered.timer = s.timer
        /\ registered.active = s.active /\ registered.reactions = <<"record", c>>
    BY <1>2 DEF Register, Unregistered
  <2>2. s.phase = "none" /\ plan[c].request = r
    BY <1>2, <1>7 DEF EntryInv, Shape
  <2> HIDE DEF r, s, registered
  <2>3. Shape(registered)
    BY <1>1, <1>2, <2>1 DEF EntryInv, Shape, Early
  <2>4. Once(registered)
    BY <1>2, <2>1, <2>2 DEF EntryInv, Once, Early
  <2>5. Raced(registered)
    BY <1>2, <2>1, <2>2 DEF EntryInv, Once, Raced, Early
  <2>6. Resolved(registered) /\ Granted(registered, r) /\ Stays(s, registered)
    BY <2>1, <2>2 DEF Resolved, Granted, Stays
  <2>7. Reacts(registered, r)
    <3>1. /\ <<"record", c>> \in Seq(Callers \cup {"record"}) /\ DOMAIN <<"record", c>> = {1, 2}
          /\ <<"record", c>>[1] = "record" /\ <<"record", c>>[2] = c /\ <<"record", c>> # <<>>
      OBVIOUS
    <3> QED
      BY <1>1, <2>1, <2>2, <3>1, HttpAssessmentAssumption DEF Reacts
  <2> QED
    BY <2>3, <2>4, <2>5, <2>6, <2>7 DEF EntryInv
<1> HIDE DEF s, joined, registered, r
<1>8. CASE UNCHANGED state
  BY <1>2, <1>4, <1>5, <1>8, RegistryKept
<1>9. CASE s.owner # None /\ s.owner.config = plan[c].config /\ state' = [state EXCEPT ![r] = joined]
  BY <1>1, <1>2, <1>4, <1>5, <1>6, <1>9, Lift DEF s
<1>10. CASE s.owner = None /\ state' = [state EXCEPT ![r] = registered]
  BY <1>1, <1>2, <1>4, <1>5, <1>7, <1>10, Lift DEF s
<1> QED
  BY <1>3, <1>8, <1>9, <1>10

\* Hono's conversion fails, or its middleware reads the context.
LEMMA HonoStep ==
  ASSUME IInv, NEW c \in Callers, ConversionFails(c) \/ \E config \in Configs : HonoMiddleware(c, config)
  PROVE  IInv'
<1> DEFINE r == plan[c].request
<1> DEFINE s == state[r]
<1> DEFINE emitted == Emit(s, "framework-conversion-failed")
<1>1. /\ r \in Requests /\ EntryInv(s, r) /\ DOMAIN s = DOMAIN Unregistered
      /\ instance' = instance /\ now' \in Nat /\ answer[c] = "converting"
  BY HttpAssessmentAssumption DEF IInv, plan, EntryInv, Shape, ConversionFails, HonoMiddleware
<1>2. /\ DOMAIN answer' = Callers /\ \A d \in Callers \ {c} : answer'[d] = answer[d]
      /\ answer'[c] \in {"bad-request", "proceeds", "failed"}
  BY DEF IInv, ConversionFails, HonoMiddleware
<1>3. CASE ConversionFails(c)
  <2>1. state' = [state EXCEPT ![r] = emitted] /\ answer'[c] = "bad-request"
    BY <1>3 DEF ConversionFails, IInv
  <2>2. EntryInv(emitted, r) /\ Stays(s, emitted)
    <3>1. /\ DOMAIN emitted = DOMAIN Unregistered
          /\ emitted.size = s.size /\ emitted.started = s.started /\ emitted.owner = s.owner
          /\ emitted.phase = s.phase /\ emitted.verifications = s.verifications
          /\ emitted.policies = s.policies /\ emitted.policy = s.policy /\ emitted.outcome = s.outcome
          /\ emitted.race = s.race /\ emitted.aborted = s.aborted /\ emitted.timer = s.timer
          /\ emitted.active = s.active /\ emitted.took = s.took /\ emitted.assessment = s.assessment
          /\ emitted.reactions = s.reactions /\ emitted.recorded = s.recorded
      BY <1>1 DEF Emit, Unregistered
    <3> HIDE DEF r, s, emitted
    <3>2. Shape(emitted) /\ Once(emitted)
      BY <1>1, <3>1 DEF EntryInv, Shape, Once
    <3>3. Raced(emitted) /\ Resolved(emitted) /\ Granted(emitted, r)
      BY <1>1, <3>1 DEF EntryInv, Raced, Resolved, Granted
    <3>4. Reacts(emitted, r) /\ Stays(s, emitted)
      BY <1>1, <3>1 DEF EntryInv, Reacts, Stays
    <3> QED
      BY <3>2, <3>3, <3>4 DEF EntryInv
  <2>3. \A d \in Callers : answer'[d] = answer[d] \/ AnswerInv(d)'
    BY <1>2, <2>1 DEF AnswerInv
  <2> HIDE DEF emitted, r
  <2> QED
    BY <1>1, <1>2, <2>1, <2>2, <2>3, Lift
<1>4. CASE \E config \in Configs : HonoMiddleware(c, config)
  <2>1. UNCHANGED state
    BY <1>4 DEF HonoMiddleware
  <2>2. plan' = plan
    BY <1>1 DEF plan
  <2>3. AnswerInv(c)'
    BY <1>1, <1>2, <2>1, <2>2 DEF IInv, AnswerInv, CopyFits
  <2>4. \A d \in Callers : answer'[d] = answer[d] \/ AnswerInv(d)'
    BY <1>2, <2>3
  <2> QED
    BY <1>1, <1>2, <2>1, <2>4, RegistryKept
<1> QED
  BY <1>3, <1>4

-----------------------------------------------------------------------------
\* Nothing is known of any request at first.
LEMMA Initially == Init => IInv
<1> SUFFICES ASSUME Init PROVE IInv
  OBVIOUS
<1>1. ASSUME NEW r \in Requests PROVE EntryInv(state[r], r)
  <2>1. state[r] = Unregistered
    BY <1>1 DEF Init
  <2>2. Shape(Unregistered) /\ Once(Unregistered) /\ Raced(Unregistered)
    BY DEF Unregistered, Shape, Once, Raced, Early
  <2>3. Resolved(Unregistered) /\ Granted(Unregistered, r) /\ Reacts(Unregistered, r)
    BY DEF Unregistered, Resolved, Granted, Reacts
  <2> QED
    BY <2>1, <2>2, <2>3 DEF EntryInv
<1>2. \A c \in Callers : AnswerInv(c)
  BY DEF Init, AnswerInv
<1>3. /\ now \in Nat /\ instance \in Instances
      /\ DOMAIN state = Requests /\ DOMAIN answer = Callers
  BY DEF Init
<1> QED
  BY <1>1, <1>2, <1>3 DEF IInv

\* No step breaks it.
LEMMA Inductive == IInv /\ [Next]_vars => IInv'
<1> SUFFICES ASSUME IInv, [Next]_vars PROVE IInv'
  OBVIOUS
<1>1. ASSUME UNCHANGED <<instance, state, answer>>, now' \in Nat PROVE IInv'
  <2>1. DOMAIN answer' = Callers /\ \A c \in Callers : answer'[c] = answer[c]
    BY <1>1 DEF IInv
  <2> QED
    BY <1>1, <2>1, RegistryKept
<1>2. now \in Nat
  BY DEF IInv
<1>3. CASE Tick \/ (\E r \in Requests : Dispatch(r)) \/ UNCHANGED vars
  BY <1>1, <1>2, <1>3 DEF Tick, Dispatch, vars
<1>4. ASSUME NEW r \in Requests, RequestStep(r) \/ VerifierAnswers(r) \/ PolicyReturns(r)
      PROVE  IInv'
  BY <1>4, EvaluateStep, VerifierAnswersStep, PolicyStep, ReactStep DEF RequestStep
<1>5. ASSUME NEW c \in Callers,
             Assess(c) \/ ConversionFails(c) \/ \E config \in Configs : HonoMiddleware(c, config)
      PROVE  IInv'
  BY <1>5, AssessStep, HonoStep
<1> QED
  BY <1>3, <1>4, <1>5 DEF Next

\* Every state of the assessment satisfies the invariant.
LEMMA Invariant == Spec => []IInv
BY Initially, Inductive, PTL DEF Spec

\* However many installations handle a request, at once or in turn, it is
\* verified once and judged once, and no installation lets it through that
\* another one has answered, or that has other options than the one that
\* assessed it (assessment.ts:300-309).
THEOREM OneDecisionHolds == Spec => []OneDecision
<1>1. IInv => OneDecision
  <2> SUFFICES ASSUME IInv, NEW r \in Requests
               PROVE  /\ state[r].verifications <= 1 /\ state[r].policies <= 1
                      /\ \A c, d \in CallersOf(r) : answer[c] = "proceeds" =>
                           answer[d] # "responded" /\ plan[c].config = state[r].owner.config
    BY DEF OneDecision
  <2>1. state[r].verifications <= 1 /\ state[r].policies <= 1
    BY DEF IInv, EntryInv, Once
  <2>2. ASSUME NEW c \in CallersOf(r), NEW d \in CallersOf(r), answer[c] = "proceeds"
        PROVE  answer[d] # "responded" /\ plan[c].config = state[r].owner.config
    BY <2>2 DEF IInv, AnswerInv, CallersOf
  <2> QED
    BY <2>1, <2>2
<1> QED
  BY <1>1, Invariant, PTL

\* What an enforcing installation lets through was allowed by its own policy for
\* this very request and in time, and a policy that was too late is told so
\* (assessment.ts:217-283).
THEOREM PolicyDecidesHolds == Spec => []PolicyDecides
<1>1. IInv => GrantJustified
  <2> SUFFICES ASSUME IInv, NEW r \in Requests, NEW c \in CallersOf(r), answer[c] = "proceeds",
                      state[r].owner.config.mode = "enforce"
               PROVE  /\ state[r].race.request = r
                      /\ state[r].race.kind \in {"allow-anonymous", "allow-verified"}
                      /\ state[r].took < state[r].owner.config.timeout
                      /\ state[r].assessment.mapped
                      /\ state[r].assessment.body => state[r].owner.config.bodyPolicy # "reject"
                      /\ state[r].race.kind = "allow-verified" => state[r].assessment.verified
    BY DEF GrantJustified
  <2>1. state[r].phase = "resolved" /\ state[r].outcome.action = "continue"
    BY DEF IInv, AnswerInv, CallersOf
  <2> QED
    BY <2>1 DEF IInv, EntryInv, Granted
<1>2. IInv => AbandonedPolicyTold
  BY DEF IInv, EntryInv, Raced, AbandonedPolicyTold
<1> QED
  BY <1>1, <1>2, Invariant, PTL DEF PolicyDecides

\* An application that a request reaches can read its context at once
\* (assessment.ts:307).
THEOREM ContextReadableHolds == Spec => []ContextReadable
<1>1. IInv => ContextReadable
  <2> SUFFICES ASSUME IInv, NEW c \in Callers, answer[c] = "proceeds"
               PROVE  Readable(state[plan[c].request], plan[c].config)
    BY DEF ContextReadable
  <2> DEFINE s == state[plan[c].request]
  <2>1. s.recorded /\ CopyFits(s, 3) /\ s.owner # None /\ s.owner.config = plan[c].config
    BY DEF IInv, AnswerInv
  <2>2. s.size \in Nat /\ MaxDepth \in Nat
    BY HttpAssessmentAssumption DEF IInv, plan, EntryInv, Shape
  <2> HIDE DEF s
  <2>3. Readable(s, plan[c].config)
    BY <2>1, <2>2 DEF Readable, Compatible, CopyFits
  <2> QED
    BY <2>3 DEF s
<1> QED
  BY <1>1, Invariant, PTL



-----------------------------------------------------------------------------
(* The target of a request.  What has been pushed for a name is known by an   *)
(* induction over the headers.                                               *)

\* A nonempty set of naturals has a least element.
LEMMA LeastNatural ==
  ASSUME NEW T, T \subseteq Nat, T # {}
  PROVE  \E x \in T : \A y \in T : x <= y
<1>1. IsWellFoundedOn(OpToRel(<, Nat), Nat)
  BY NatLessThanWellFounded
<1>2. PICK x \in T : \A y \in T : ~(<<y, x>> \in OpToRel(<, Nat))
  BY <1>1, WFMin
<1>3. ASSUME NEW y \in T PROVE x <= y
  <2>1. y < x => <<y, x>> \in OpToRel(<, Nat)
    BY DEF OpToRel
  <2>2. ~(y < x)
    BY <1>2, <2>1, Zenon
  <2> QED
    BY <2>2
<1> QED
  BY <1>3

\* A set that has zero, and with a number below n the next one, has all up to n.
LEMMA UpTo ==
  ASSUME NEW n \in Nat, NEW T, 0 \in T, \A i \in 0 .. (n - 1) : i \in T => (i + 1) \in T
  PROVE  \A i \in 0 .. n : i \in T
<1> DEFINE Missing == {i \in 0 .. n : i \notin T}
<1>1. SUFFICES ASSUME Missing # {} PROVE FALSE
  OBVIOUS
<1>2. PICK i \in Missing : \A j \in Missing : i <= j
  <2>1. Missing \subseteq Nat
    OBVIOUS
  <2> HIDE DEF Missing
  <2> QED
    BY <1>1, <2>1, LeastNatural
<1>3. i # 0 /\ i - 1 \in 0 .. (n - 1) /\ i - 1 \notin Missing
  BY <1>2
<1>4. i - 1 \in T
  BY <1>2, <1>3
<1> QED
  BY <1>2, <1>3, <1>4

\* s is what the first k headers have pushed for the name.
Pushed(s, headers, name, k) ==
  /\ s \in Seq({headers[i].value : i \in DOMAIN headers})
  /\ s = <<>> <=> \A i \in 1 .. k : headers[i].name # name
  /\ Len(s) = 1 => \E i \in 1 .. k :
       /\ headers[i].name = name /\ s[1] = headers[i].value
       /\ \A j \in 1 .. k : headers[j].name = name => j = i

\* One header more.
LEMMA PushOne ==
  ASSUME NEW headers, NEW n \in Nat, DOMAIN headers = 1 .. n, NEW k \in 0 .. (n - 1), NEW name,
         NEW s, Pushed(s, headers, name, k)
  PROVE  Pushed(IF headers[k + 1].name = name THEN Append(s, headers[k + 1].value) ELSE s,
                headers, name, k + 1)
<1> DEFINE V == {headers[i].value : i \in DOMAIN headers}
           v == headers[k + 1].value
<1>1. /\ k + 1 \in 1 .. n /\ k \in Nat
      /\ \A i \in 1 .. k + 1 : i = k + 1 \/ i \in 1 .. k
      /\ k + 1 \in 1 .. k + 1 /\ \A i \in 1 .. k : i \in 1 .. k + 1
  OBVIOUS
<1>2. v \in V
  BY <1>1
<1>3. s \in Seq(V) /\ Len(s) \in Nat
  BY LenProperties DEF Pushed
<1> HIDE DEF V
<1>4. CASE headers[k + 1].name # name
  BY <1>1, <1>4 DEF Pushed
<1>5. CASE headers[k + 1].name = name
  <2> DEFINE t == Append(s, v)
  <2> HIDE DEF v
  <2>1. t \in Seq(V) /\ Len(t) = Len(s) + 1 /\ t[Len(s) + 1] = v
    BY <1>2, <1>3, AppendProperties
  <2>2. t # <<>>
    BY <1>3, <2>1, EmptySeq
  <2>3. ASSUME Len(t) = 1
        PROVE  t[1] = v /\ \A j \in 1 .. k : headers[j].name # name
    <3>1. Len(s) = 0
      BY <1>3, <2>1, <2>3
    <3>2. s = <<>>
      BY <1>3, <3>1, EmptySeq
    <3> QED
      BY <2>1, <3>1, <3>2 DEF Pushed
  <2> HIDE DEF t
  <2>4. Pushed(t, headers, name, k + 1)
    <3>1. t \in Seq({headers[i].value : i \in DOMAIN headers})
      BY <2>1 DEF V
    <3>2. t = <<>> <=> \A i \in 1 .. k + 1 : headers[i].name # name
      BY <1>1, <1>5, <2>2
    <3>3. ASSUME Len(t) = 1
          PROVE  \E i \in 1 .. k + 1 :
                   /\ headers[i].name = name /\ t[1] = headers[i].value
                   /\ \A j \in 1 .. k + 1 : headers[j].name = name => j = i
      BY <1>1, <1>5, <2>3, <3>3 DEF v
    <3> QED
      BY <3>1, <3>2, <3>3 DEF Pushed
  <2> QED
    BY <1>5, <2>4 DEF t, v
<1> QED
  BY <1>4, <1>5

\* What has been pushed for a name at the end.
LEMMA ValuesPushed ==
  ASSUME NEW input, IsRow(input.headers), NEW name
  PROVE  Pushed(Values(input, name), input.headers, name, Len(input.headers))
<1> DEFINE headers == input.headers
           n == Len(headers)
           V == {headers[i].value : i \in DOMAIN headers}
           Next1(s, i) == IF headers[i].name = name THEN Append(s, headers[i].value) ELSE s
           Founds(k) == {f \in [0 .. k -> Seq(V)] :
                           f[0] = <<>> /\ \A i \in 1 .. k : f[i] = Next1(f[i - 1], i)}
           T == {k \in 0 .. n : Founds(k) # {}}
<1>1. n \in Nat /\ DOMAIN headers = 1 .. n
  BY LenProperties DEF IsRow
<1>2. <<>> \in Seq(V)
  BY EmptySeq
<1>3. ASSUME NEW i \in 1 .. n, NEW s \in Seq(V) PROVE Next1(s, i) \in Seq(V)
  <2>1. headers[i].value \in V
    BY <1>1
  <2> HIDE DEF V
  <2>2. Append(s, headers[i].value) \in Seq(V)
    BY <2>1, AppendProperties
  <2> QED
    BY <2>2
<1> HIDE DEF n, V, headers, Next1
<1>4. 0 \in T
  <2>1. [i \in 0 .. 0 |-> <<>>] \in Founds(0)
    BY <1>2
  <2> QED
    BY <2>1, <1>1
<1>5. ASSUME NEW k \in 0 .. (n - 1), k \in T PROVE (k + 1) \in T
  <2>1. PICK f \in Founds(k) : TRUE
    BY <1>5
  <2> DEFINE g == [i \in 0 .. k + 1 |-> IF i = k + 1 THEN Next1(f[k], k + 1) ELSE f[i]]
  <2>2. k + 1 \in 1 .. n /\ k \in 0 .. k /\ f[k] \in Seq(V)
    BY <1>1, <2>1
  <2>3. Next1(f[k], k + 1) \in Seq(V)
    BY <1>3, <2>2
  <2>4. g \in [0 .. k + 1 -> Seq(V)] /\ g[0] = <<>>
    BY <1>1, <2>1, <2>2, <2>3
  <2>5. ASSUME NEW i \in 1 .. k + 1 PROVE g[i] = Next1(g[i - 1], i)
    <3>1. CASE i = k + 1
      BY <2>2, <3>1
    <3>2. CASE i # k + 1
      BY <2>1, <2>2, <3>2
    <3> QED
      BY <3>1, <3>2
  <2>6. g \in Founds(k + 1)
    BY <2>4, <2>5
  <2>7. k + 1 \in 0 .. n
    BY <1>1, <2>2
  <2> HIDE DEF Founds, g
  <2> QED
    BY <2>6, <2>7
<1>6. n \in T
  <2>1. \A k \in 0 .. (n - 1) : k \in T => (k + 1) \in T
    BY <1>5
  <2> HIDE DEF T
  <2>2. \A k \in 0 .. n : k \in T
    BY <1>1, <1>4, <2>1, UpTo
  <2> QED
    BY <1>1, <2>2
<1>7. PICK f \in Founds(n) : TRUE
  BY <1>6
<1> DEFINE Step(g) == [i \in 0 .. n |-> IF i = 0 THEN <<>> ELSE Next1(g[i - 1], i)]
           found == CHOOSE g : g = Step(g)
<1>8. f = Step(f)
  BY <1>1, <1>7
<1>9. Values(input, name) = found[n]
  BY DEF Values, n, headers, Next1
<1>10. found = Step(found)
  <2> HIDE DEF Step
  <2> QED
    BY <1>8
<1> HIDE DEF found
<1>11. found[0] = <<>> /\ \A i \in 1 .. n : found[i] = Next1(found[i - 1], i)
  <2>1. found = [i \in 0 .. n |-> IF i = 0 THEN <<>> ELSE Next1(found[i - 1], i)]
    BY <1>10
  <2>2. 0 \in 0 .. n /\ \A i \in 1 .. n : i \in 0 .. n /\ i # 0
    BY <1>1
  <2> QED
    BY <2>1, <2>2
<1> DEFINE U == {k \in 0 .. n : Pushed(found[k], headers, name, k)}
<1>12. \A k \in 0 .. n : k \in U
  <2>1. 0 \in U
    <3>1. Len(<<>>) = 0 /\ 1 .. 0 = {}
      BY EmptySeq
    <3>2. <<>> \in Seq({headers[i].value : i \in DOMAIN headers})
      BY <1>2 DEF V
    <3>3. Pushed(<<>>, headers, name, 0)
      BY <3>1, <3>2 DEF Pushed
    <3> QED
      BY <1>1, <1>11, <3>3
  <2>2. ASSUME NEW k \in 0 .. (n - 1), k \in U PROVE (k + 1) \in U
    <3>1. k + 1 \in 1 .. n /\ (k + 1) - 1 = k /\ k + 1 \in 0 .. n
      BY <1>1
    <3>2. found[k + 1] = Next1(found[k], k + 1)
      BY <1>11, <3>1
    <3>3. Pushed(Next1(found[k], k + 1), headers, name, k + 1)
      BY <1>1, <2>2, PushOne DEF Next1
    <3> QED
      BY <3>1, <3>2, <3>3
  <2> HIDE DEF U
  <2> QED
    BY <1>1, <2>1, <2>2, UpTo
<1> QED
  BY <1>1, <1>9, <1>12 DEF n, headers

\* The same, as facts to cite: whether there is a header of the name, and which
\* it is when there is one.
LEMMA ValuesFacts ==
  ASSUME NEW input, IsRow(input.headers), NEW name
  PROVE  /\ Values(input, name) = <<>> <=> \A i \in DOMAIN input.headers : input.headers[i].name # name
         /\ Len(Values(input, name)) = 1 => \E i \in DOMAIN input.headers :
              /\ input.headers[i].name = name /\ Values(input, name)[1] = input.headers[i].value
              /\ \A j \in DOMAIN input.headers : input.headers[j].name = name => j = i
<1> DEFINE headers == input.headers
           values == Values(input, name)
           n == Len(headers)
<1>1. DOMAIN headers = 1 .. n
  BY LenProperties DEF IsRow
<1>2. Pushed(values, headers, name, n)
  BY ValuesPushed
<1> HIDE DEF headers, values, n
<1>3. values = <<>> <=> \A i \in DOMAIN headers : headers[i].name # name
  BY <1>1, <1>2 DEF Pushed
<1>4. Len(values) = 1 => \E i \in DOMAIN headers :
        /\ headers[i].name = name /\ values[1] = headers[i].value
        /\ \A j \in DOMAIN headers : headers[j].name = name => j = i
  BY <1>1, <1>2 DEF Pushed
<1> QED
  BY <1>3, <1>4 DEF headers, values

\* The first rejection is one if there is any.
LEMMA FirstRejectionFacts ==
  ASSUME NEW n \in Nat, NEW results, DOMAIN results = 1 .. n, ~Failed(FirstRejection(results))
  PROVE  \A i \in 1 .. n : ~Failed(results[i])
<1> DEFINE bad == {i \in DOMAIN results : Failed(results[i])}
<1>1. SUFFICES ASSUME bad # {} PROVE FALSE
  OBVIOUS
<1>2. bad \subseteq Nat
  OBVIOUS
<1> DEFINE first == CHOOSE i \in bad : \A j \in bad : i <= j
<1>3. FirstRejection(results) = results[first]
  BY <1>1 DEF FirstRejection
<1>4. \A i \in bad : Failed(results[i])
  OBVIOUS
<1> HIDE DEF bad
<1>5. first \in bad
  BY <1>1, <1>2, LeastNatural
<1> QED
  BY <1>3, <1>4, <1>5

\* The target is the one that the forwarding headers claim.
Agrees(input, target) ==
  /\ Claimed(input, "x-forwarded-host", "host") = {target.authority}
  /\ \E claim : claim.word = "https" /\ Claimed(input, "x-forwarded-proto", "proto") = {claim}
  /\ \A h \in Range(input.headers) : h.name = "x-forwarded-port" =>
       h.value.number = HttpOriginKey("https", target.authority)[3]
  /\ target.scheme = "https"

\* A target that is not refused is https, and its authority is that of the host.
LEMMA TargetFacts ==
  ASSUME NEW host, NEW protocol, NEW client, ~Failed(Target(host, protocol, client))
  PROVE  /\ Target(host, protocol, client).authority = host
         /\ Target(host, protocol, client).scheme = "https"
         /\ protocol.word = "https"
BY DEF Target, ParseHttpAuthority, Failed, Reject

\* A sequence has the elements of its range.
LEMMA RowFacts ==
  ASSUME NEW s, IsRow(s)
  PROVE  /\ Len(s) \in Nat /\ DOMAIN s = 1 .. Len(s)
         /\ \A i \in DOMAIN s : s[i] \in Range(s)
         /\ \A x \in Range(s) : \E i \in DOMAIN s : x = s[i]
<1>1. Len(s) \in Nat /\ DOMAIN s = 1 .. Len(s)
  BY LenProperties DEF IsRow
<1> QED
  BY <1>1 DEF Range

\* Pairs of Forwarded without a fault: one of each name, at an odd place.
LEMMA ForwardedFacts ==
  ASSUME NEW value, value.kind = "pairs" => IsRow(value.tokens), ~Failed(ParseForwarded(value)),
         NEW name \in {"host", "proto"}
  PROVE  /\ value.kind = "pairs"
         /\ ParseForwarded(value).pairs = {value.tokens[i] : i \in {j \in DOMAIN value.tokens : j % 2 = 1}}
         /\ \A i, j \in DOMAIN value.tokens :
              value.tokens[i].name = name /\ value.tokens[j].name = name => i = j
         /\ \A i \in DOMAIN value.tokens : value.tokens[i].name = name => i % 2 = 1
<1> DEFINE tokens == value.tokens
           bad == {i \in DOMAIN tokens : TokenFault(tokens, i) # "none"}
<1>1. /\ value.kind = "pairs" /\ bad = {}
      /\ ParseForwarded(value).pairs = {tokens[i] : i \in {j \in DOMAIN tokens : j % 2 = 1}}
  BY DEF ParseForwarded, Failed, Reject
<1>2. Len(tokens) \in Nat /\ DOMAIN tokens = 1 .. Len(tokens)
  BY <1>1, RowFacts
<1>3. ASSUME NEW i \in DOMAIN tokens, tokens[i].name = name PROVE i % 2 = 1
  <2>1. i \in Nat /\ (i % 2 = 0 \/ i % 2 = 1)
    BY <1>2
  <2>2. TokenFault(tokens, i) = "none"
    BY <1>1
  <2> QED
    BY <1>3, <2>1, <2>2 DEF TokenFault
<1>4. ASSUME NEW i \in DOMAIN tokens, NEW j \in DOMAIN tokens,
             tokens[i].name = name, tokens[j].name = name, i < j
      PROVE  FALSE
  <2>1. j % 2 = 1 /\ TokenFault(tokens, j) = "none"
    BY <1>1, <1>3, <1>4
  <2>2. i \in 1 .. (j - 1)
    BY <1>2, <1>4
  <2> QED
    BY <1>4, <2>1, <2>2 DEF TokenFault
<1>5. ASSUME NEW i \in DOMAIN tokens, NEW j \in DOMAIN tokens,
             tokens[i].name = name, tokens[j].name = name
      PROVE  i = j
  <2>1. i < j \/ j < i \/ i = j
    BY <1>2
  <2> QED
    BY <1>4, <1>5, <2>1
<1> QED
  BY <1>1, <1>3, <1>5

\* Where there is one Forwarded header and none of the other family, a pair of
\* its is the only claim of its kind.
LEMMA ForwardedClaims ==
  ASSUME NEW input, WellFormedInput(input), \A x \in XFields : ~Has(input, x),
         Len(Values(input, "forwarded")) = 1,
         NEW parsed, parsed = ParseForwarded(Values(input, "forwarded")[1]), ~Failed(parsed),
         NEW field \in XFields, NEW name \in {"host", "proto"},
         \E p \in parsed.pairs : p.name = name
  PROVE  Claimed(input, field, name) = {(CHOOSE p \in parsed.pairs : p.name = name).value}
<1> DEFINE headers == input.headers
           values == Values(input, "forwarded")
           found == (CHOOSE p \in parsed.pairs : p.name = name).value
<1>3. PICK k \in DOMAIN headers :
        /\ headers[k].name = "forwarded" /\ values[1] = headers[k].value
        /\ \A j \in DOMAIN headers : headers[j].name = "forwarded" => j = k
  BY ValuesFacts DEF WellFormedInput
<1>4. \A i \in DOMAIN headers : headers[i].name \notin XFields
  BY ValuesFacts DEF WellFormedInput, Has
<1>5. IsRow(headers) /\ headers[k] \in Range(headers)
  BY RowFacts DEF WellFormedInput
<1> DEFINE value == headers[k].value
           tokens == value.tokens
           mine == {tokens[i].value : i \in {j \in DOMAIN tokens : tokens[j].name = name}}
<1>6. /\ value.kind = "pairs"
      /\ parsed.pairs = {tokens[i] : i \in {j \in DOMAIN tokens : j % 2 = 1}}
      /\ \A i, j \in DOMAIN tokens : tokens[i].name = name /\ tokens[j].name = name => i = j
  <2>1. value.kind = "pairs" => IsRow(value.tokens)
    BY <1>5 DEF WellFormedInput
  <2>2. parsed = ParseForwarded(value)
    BY <1>3
  <2> HIDE DEF value
  <2> QED
    BY <2>1, <2>2, ForwardedFacts
<1>7. mine = {found}
  <2> DEFINE p == CHOOSE q \in parsed.pairs : q.name = name
  <2>1. p \in parsed.pairs /\ p.name = name
    OBVIOUS
  <2>2. PICK i \in DOMAIN tokens : p = tokens[i]
    BY <1>6, <2>1
  <2>3. found = tokens[i].value /\ tokens[i].name = name
    BY <2>1, <2>2
  <2> HIDE DEF p, found, tokens
  <2> QED
    BY <1>6, <2>3
<1>8. Claimed(input, field, name) = mine
  <2>1. Claims(headers[k], field, name) = mine
    BY <1>3, <1>6 DEF Claims, XFields
  <2>2. ASSUME NEW h \in Range(headers), h # headers[k] PROVE Claims(h, field, name) = {}
    <3>1. PICK i \in DOMAIN headers : h = headers[i]
      BY <1>5, RowFacts
    <3>2. h.name # field /\ h.name # "forwarded"
      BY <1>3, <1>4, <2>2, <3>1
    <3> QED
      BY <3>2 DEF Claims
  <2> HIDE DEF mine
  <2> QED
    BY <1>5, <2>1, <2>2 DEF Claimed
<1> QED
  BY <1>7, <1>8

\* Of Forwarded headers, only one that gives the target that is taken is accepted.
LEMMA ForwardedAgrees ==
  ASSUME NEW input, WellFormedInput(input), \A x \in XFields : ~Has(input, x),
         ~Failed(ForwardedTarget(input))
  PROVE  Agrees(input, ForwardedTarget(input))
<1> DEFINE values == Values(input, "forwarded")
           parsed == ParseForwarded(values[1])
           Get(name) == (CHOOSE p \in parsed.pairs : p.name = name).value
           target == ForwardedTarget(input)
<1>1. /\ Len(values) = 1 /\ ~Failed(parsed)
      /\ \E p \in parsed.pairs : p.name = "host"
      /\ \E p \in parsed.pairs : p.name = "proto"
  BY DEF ForwardedTarget, Failed, Reject
<1>2. target.authority = Get("host") /\ target.scheme = "https" /\ Get("proto").word = "https"
  <2>1. PICK client : target = Target(Get("host"), Get("proto"), client)
    BY DEF ForwardedTarget, Failed, Reject
  <2>2. ~Failed(target)
    OBVIOUS
  <2> HIDE DEF Get, target
  <2> QED
    BY <2>1, <2>2, TargetFacts
<1>3. "x-forwarded-host" \in XFields /\ "x-forwarded-proto" \in XFields
  BY DEF XFields
<1>4. /\ Claimed(input, "x-forwarded-host", "host") = {Get("host")}
      /\ Claimed(input, "x-forwarded-proto", "proto") = {Get("proto")}
  BY <1>1, <1>3, ForwardedClaims
<1>5. \A h \in Range(input.headers) : h.name # "x-forwarded-port"
  <2>1. \A i \in DOMAIN input.headers : input.headers[i].name \notin XFields
    BY ValuesFacts DEF WellFormedInput, Has
  <2> QED
    BY <2>1, RowFacts DEF XFields, WellFormedInput
<1> HIDE DEF Get, target
<1>6. Agrees(input, target)
  BY <1>2, <1>4, <1>5 DEF Agrees
<1> QED
  BY <1>6 DEF target

\* The value is that of the only header of its name.
Only(input, name, value) ==
  \E k \in DOMAIN input.headers :
    /\ input.headers[k].name = name /\ input.headers[k].value = value
    /\ \A j \in DOMAIN input.headers : input.headers[j].name = name => j = k

\* What single() takes is the only one, or there is none and none is required.
LEMMA SingleFacts ==
  ASSUME NEW input, WellFormedInput(input), NEW name
  PROVE  /\ ~Failed(Single(input, name, TRUE)) => Only(input, name, Single(input, name, TRUE))
         /\ ~Failed(Single(input, name, FALSE)) =>
              \/ Only(input, name, Single(input, name, FALSE))
              \/ \A i \in DOMAIN input.headers : input.headers[i].name # name
<1>1. IsRow(input.headers)
  BY DEF WellFormedInput
<1> DEFINE values == Values(input, name)
<1>2. CASE values = <<>>
  <2>1. Failed(Single(input, name, TRUE))
    BY <1>2 DEF Single, Failed, Reject
  <2>2. \A i \in DOMAIN input.headers : input.headers[i].name # name
    BY <1>1, <1>2, ValuesFacts
  <2> QED
    BY <2>1, <2>2
<1>3. CASE values # <<>> /\ Len(values) = 1
  <2>1. Only(input, name, values[1])
    BY <1>1, <1>3, ValuesFacts DEF Only
  <2>2. ~Failed(Single(input, name, TRUE)) => Single(input, name, TRUE) = values[1]
    BY <1>3 DEF Single, Failed, Reject
  <2>3. ~Failed(Single(input, name, FALSE)) => Single(input, name, FALSE) = values[1]
    BY <1>3 DEF Single, Failed, Reject
  <2> HIDE DEF values
  <2> QED
    BY <2>1, <2>2, <2>3
<1>4. CASE values # <<>> /\ Len(values) # 1
  BY <1>4 DEF Single, Failed, Reject
<1> QED
  BY <1>2, <1>3, <1>4

\* What the four headers agree on.
LEMMA ScreenedFacts ==
  ASSUME NEW host, NEW proto, NEW port, NEW from, ~Failed(ScreenedTarget(host, proto, port, from))
  PROVE  /\ ~Failed(host) /\ ~Failed(proto) /\ ~Failed(port)
         /\ ScreenedTarget(host, proto, port, from).authority = host
         /\ ScreenedTarget(host, proto, port, from).scheme = "https"
         /\ proto.word = "https"
         /\ port.kind # "absent" => port.number = HttpOriginKey("https", host)[3]
<1> DEFINE client == IF from.kind \in {"absent", "rejected"} THEN from ELSE XForwardedClient(from)
           parsed == IF Failed(host) THEN host ELSE ParseHttpAuthority(host)
           results == <<host, proto, port, client, parsed>>
           bad == FirstRejection(results)
           target == ScreenedTarget(host, proto, port, from)
           malformed == port.kind # "absent" /\ (port.kind # "number" \/ port.number \notin 1..MaxPort)
           other == port.kind # "absent" /\ port.number # HttpOriginKey("https", host)[3]
<1>1. target = IF Failed(bad) THEN bad
               ELSE IF malformed THEN Reject("forwarding-malformed")
               ELSE IF other THEN Reject("forwarding-port-inconsistent")
               ELSE Target(host, proto, client)
  BY DEF ScreenedTarget
<1>2. \A code : Failed(Reject(code))
  BY DEF Failed, Reject
<1>3. ~Failed(target)
  OBVIOUS
<1>4. DOMAIN results = 1 .. 5 /\ results[1] = host /\ results[2] = proto /\ results[3] = port
  OBVIOUS
<1>5. other <=> port.kind # "absent" /\ port.number # HttpOriginKey("https", host)[3]
  OBVIOUS
<1> HIDE DEF client, results, bad, target, malformed, other
<1>6. ~Failed(bad) /\ ~other /\ target = Target(host, proto, client)
  BY <1>1, <1>2, <1>3
<1>7. \A i \in 1 .. 5 : ~Failed(results[i])
  BY <1>4, <1>6, FirstRejectionFacts DEF bad
<1>8. target.authority = host /\ target.scheme = "https" /\ proto.word = "https"
  BY <1>3, <1>6, TargetFacts
<1>9. ~Failed(host) /\ ~Failed(proto) /\ ~Failed(port)
  BY <1>4, <1>7
<1> QED
  BY <1>5, <1>6, <1>8, <1>9 DEF target

\* Where there is one header of a name and none of the other family, its value
\* is the only claim of its kind.
LEMMA OnlyClaims ==
  ASSUME NEW input, WellFormedInput(input), ~Has(input, "forwarded"),
         NEW field, NEW name, NEW value, Only(input, field, value)
  PROVE  Claimed(input, field, name) = {value}
<1> DEFINE headers == input.headers
<1>1. PICK k \in DOMAIN headers :
        /\ headers[k].name = field /\ headers[k].value = value
        /\ \A j \in DOMAIN headers : headers[j].name = field => j = k
  BY DEF Only
<1>2. IsRow(headers) /\ headers[k] \in Range(headers)
  BY RowFacts DEF WellFormedInput
<1>3. \A i \in DOMAIN headers : headers[i].name # "forwarded"
  BY ValuesFacts DEF WellFormedInput, Has
<1>4. Claims(headers[k], field, name) = {value}
  BY <1>1 DEF Claims
<1>5. ASSUME NEW h \in Range(headers), h # headers[k] PROVE Claims(h, field, name) = {}
  <2>1. PICK i \in DOMAIN headers : h = headers[i]
    BY <1>2, RowFacts
  <2>2. h.name # field /\ h.name # "forwarded"
    BY <1>1, <1>3, <1>5, <2>1
  <2> QED
    BY <2>2 DEF Claims
<1> QED
  BY <1>2, <1>4, <1>5 DEF Claimed

\* Of X-Forwarded headers, only those that agree on the target are accepted.
LEMMA XForwardedAgrees ==
  ASSUME NEW input, WellFormedInput(input), ~Has(input, "forwarded"),
         ~Failed(XForwardedTarget(input))
  PROVE  Agrees(input, XForwardedTarget(input))
<1> DEFINE headers == input.headers
           host == Single(input, "x-forwarded-host", TRUE)
           proto == Single(input, "x-forwarded-proto", TRUE)
           port == Single(input, "x-forwarded-port", FALSE)
           from == Single(input, "x-forwarded-for", FALSE)
           target == XForwardedTarget(input)
<1>1. /\ ~Failed(host) /\ ~Failed(proto) /\ ~Failed(port)
      /\ target.authority = host /\ target.scheme = "https" /\ proto.word = "https"
      /\ port.kind # "absent" => port.number = HttpOriginKey("https", host)[3]
  <2>1. target = ScreenedTarget(host, proto, port, from)
    BY DEF XForwardedTarget
  <2>2. ~Failed(target)
    OBVIOUS
  <2> HIDE DEF host, proto, port, from, target
  <2> QED
    BY <2>1, <2>2, ScreenedFacts
<1>2. /\ Only(input, "x-forwarded-host", host)
      /\ Only(input, "x-forwarded-proto", proto)
  BY <1>1, SingleFacts
<1>3. \/ Only(input, "x-forwarded-port", port)
      \/ \A i \in DOMAIN headers : headers[i].name # "x-forwarded-port"
  BY <1>1, SingleFacts
<1> HIDE DEF host, proto, port, target
<1>4. /\ Claimed(input, "x-forwarded-host", "host") = {host}
      /\ Claimed(input, "x-forwarded-proto", "proto") = {proto}
  BY <1>2, OnlyClaims
<1>5. ASSUME NEW h \in Range(headers), h.name = "x-forwarded-port"
       PROVE  h.value.number = HttpOriginKey("https", host)[3]
  <2>1. PICK i \in DOMAIN headers : h = headers[i]
    BY RowFacts DEF WellFormedInput
  <2>2. h.value = port
    BY <1>3, <1>5, <2>1 DEF Only
  <2>3. port.kind # "absent"
    BY <1>5, <2>2 DEF WellFormedInput, ValueKinds
  <2> QED
    BY <1>1, <2>2, <2>3
<1>6. Agrees(input, target)
  BY <1>1, <1>4, <1>5 DEF Agrees
<1> QED
  BY <1>6 DEF target

\* What OneTarget says of one request, its result and the mapper.
Settles(input, config, result) ==
  LET hosts == {i \in DOMAIN input.headers : input.headers[i].name = "host"}
  IN /\ Cardinality(hosts) = 1
     /\ \A i \in hosts : input.headers[i].value = result.internal
     /\ IF config.mode = "direct"
        THEN /\ result.authority = result.internal
             /\ result.scheme = IF input.encrypted THEN "https" ELSE "http"
        ELSE /\ \E range \in config.trustedPeers :
                  input.peer.family = range.family /\ input.peer.address \in range.members
             /\ Agrees(input, result)

\* What is mapped has one host and one target.
LEMMA MappedSettles ==
  ASSUME NEW input, WellFormedInput(input), NEW config, ValidHttpConfiguration(config),
         ~Failed(MapHttpSnapshot(input, config))
  PROVE  Settles(input, config, MapHttpSnapshot(input, config))
<1> DEFINE snapshot == SnapshotHttpRequest(input, config.limits)
           hosts == Values(input, "host")
           internal == ParseHttpAuthority(hosts[1])
           target == IF config.mode = "trusted-ingress" THEN IngressTarget(input, config)
                     ELSE [kind |-> "target", authority |-> internal, client |-> Absent,
                           scheme |-> IF input.encrypted THEN "https" ELSE "http"]
           result == MapHttpSnapshot(input, config)
           places == {i \in DOMAIN input.headers : input.headers[i].name = "host"}
<1>1. /\ Len(hosts) = 1 /\ ~Failed(internal) /\ ~Failed(target)
      /\ result.authority = target.authority /\ result.internal = internal
      /\ result.scheme = target.scheme
      /\ HttpOriginKey(target.scheme, target.authority) \in config.origins
  <2>1. result = IF Failed(snapshot) THEN snapshot
                 ELSE IF hosts = <<>> THEN Reject("host-missing")
                 ELSE IF Len(hosts) # 1 THEN Reject("host-ambiguous")
                 ELSE IF Failed(internal) THEN internal
                 ELSE IF Failed(target) THEN target
                 ELSE IF HttpOriginKey(target.scheme, target.authority) \notin config.origins
                      THEN Reject("origin-disallowed")
                 ELSE IF TargetLength(target, input.url) > config.limits.maxTargetUriBytes
                      THEN Reject("resource-limit")
                 ELSE IF FramingAmbiguous(input) THEN Reject("headers-malformed")
                 ELSE [kind |-> "mapped", scheme |-> target.scheme, authority |-> target.authority,
                       internal |-> internal, client |-> target.client, body |-> BodyPresent(input)]
    BY DEF MapHttpSnapshot
  <2>2. ~Failed(result)
    OBVIOUS
  <2>3. \A code : Failed(Reject(code))
    BY DEF Failed, Reject
  <2> HIDE DEF snapshot, hosts, internal, target, result
  <2> QED
    BY <2>1, <2>2, <2>3
<1> HIDE DEF result
<1>2. IsRow(input.headers)
  BY DEF WellFormedInput
<1>3. PICK k \in DOMAIN input.headers :
        /\ input.headers[k].name = "host" /\ hosts[1] = input.headers[k].value
        /\ \A j \in DOMAIN input.headers : input.headers[j].name = "host" => j = k
  BY <1>1, <1>2, ValuesFacts
<1>4. internal = hosts[1]
  BY <1>1 DEF ParseHttpAuthority, Failed, Reject
<1>5. places = {k}
  BY <1>3
<1>6. Cardinality(places) = 1 /\ \A i \in places : input.headers[i].value = result.internal
  BY <1>1, <1>3, <1>4, <1>5, FS_Singleton
<1>7. CASE config.mode = "direct"
  <2>1. result.authority = result.internal /\ result.scheme = IF input.encrypted THEN "https" ELSE "http"
    BY <1>1, <1>7
  <2> QED
    BY <1>6, <1>7, <2>1 DEF Settles, result
<1>8. CASE config.mode = "trusted-ingress"
  <2>1. target = IngressTarget(input, config)
    BY <1>8
  <2> HIDE DEF target
  <2>2. \/ target = ForwardedTarget(input) /\ \A x \in XFields : ~Has(input, x)
        \/ target = XForwardedTarget(input) /\ ~Has(input, "forwarded")
    BY <1>1, <1>8, <2>1 DEF IngressTarget, ValidHttpConfiguration, Failed, Reject
  <2>3. Agrees(input, target)
    BY <1>1, <2>2, ForwardedAgrees, XForwardedAgrees
  <2>4. \E range \in config.trustedPeers :
          input.peer.family = range.family /\ input.peer.address \in range.members
    BY <1>1, <2>1 DEF IngressTarget, TrustsPeer, Failed, Reject
  <2>5. Agrees(input, result)
    BY <1>1, <2>3 DEF Agrees
  <2> QED
    BY <1>6, <1>8, <2>4, <2>5 DEF Settles, result
<1> QED
  BY <1>7, <1>8 DEF ValidHttpConfiguration

\* What has been captured of a request.
CapturedInv ==
  /\ instance \in Instances /\ DOMAIN captured = Requests
  /\ \A r \in Requests : captured[r] # None /\ ~Failed(captured[r]) =>
       captured[r] = MapHttpSnapshot(instance.input[r], instance.mapper)

\* Only dispatch() captures, and nothing changes the instance.
LEMMA CaptureKept ==
  ASSUME [Next]_vars
  PROVE  UNCHANGED instance /\ (UNCHANGED captured \/ \E r \in Requests : Dispatch(r))
<1>1. Tick \/ UNCHANGED vars => UNCHANGED <<instance, captured>>
  BY DEF Tick, vars
<1>2. \A r \in Requests : Dispatch(r) => UNCHANGED instance
  BY DEF Dispatch
<1>3. \A r \in Requests :
        RequestStep(r) \/ VerifierAnswers(r) \/ PolicyReturns(r) => UNCHANGED <<instance, captured>>
  BY DEF RequestStep, Evaluate, TimerFires, Decide, React, VerifierAnswers, PolicyReturns
<1>4. \A c \in Callers : Assess(c) \/ ConversionFails(c) => UNCHANGED <<instance, captured>>
  BY DEF Assess, ConversionFails
<1>5. \A c \in Callers : \A config : HonoMiddleware(c, config) => UNCHANGED <<instance, captured>>
  BY DEF HonoMiddleware
<1> QED
  BY <1>1, <1>2, <1>3, <1>4, <1>5 DEF Next



\* What was captured came from the mapper.
LEMMA Captured == Spec => []CapturedInv
<1>1. Init => CapturedInv
  BY DEF Init, CapturedInv
<1>2. CapturedInv /\ [Next]_vars => CapturedInv'
  <2> SUFFICES ASSUME CapturedInv, [Next]_vars PROVE CapturedInv'
    OBVIOUS
  <2>1. UNCHANGED instance
    BY CaptureKept
  <2>2. CASE UNCHANGED captured
    BY <2>1, <2>2 DEF CapturedInv
  <2>3. ASSUME NEW r \in Requests, Dispatch(r) PROVE CapturedInv'
    <3> DEFINE mapping == MapHttpSnapshot(instance.input[r], instance.mapper)
               version == instance.input[r].version
               new == CASE instance.delivery[r] = "foreign" -> Reject("capture-missing")
                        [] version = "2" -> Reject("http2-unsupported")
                        [] instance.delivery[r] = "tampered" /\ version # "2" -> Reject("capture-incomplete")
                        [] instance.delivery[r] = "owned" /\ version # "2" -> mapping
    <3>1. instance \in Instances /\ DOMAIN captured = Requests
      BY DEF CapturedInv
    <3>2. instance.delivery[r] \in {"owned", "tampered", "foreign"}
      BY <3>1, HttpAssessmentAssumption
    <3>3. captured' = [captured EXCEPT ![r] = new]
      BY <2>3 DEF Dispatch
    <3>4. \A code : Failed(Reject(code))
      BY DEF Failed, Reject
    <3> HIDE DEF mapping, version
    <3>5. Failed(new) \/ new = mapping
      BY <3>2, <3>4
    <3> HIDE DEF new
    <3>6. DOMAIN captured' = Requests /\ captured'[r] = new
      BY <3>1, <3>3
    <3>7. \A q \in Requests : q # r => captured'[q] = captured[q]
      BY <3>1, <3>3
    <3>8. ASSUME NEW q \in Requests, captured'[q] # None, ~Failed(captured'[q])
          PROVE  captured'[q] = MapHttpSnapshot(instance.input[q], instance.mapper)
      <4>1. CASE q = r
        BY <3>5, <3>6, <3>8, <4>1 DEF mapping
      <4>2. CASE q # r
        BY <3>7, <3>8, <4>2 DEF CapturedInv
      <4> QED
        BY <4>1, <4>2
    <3> QED
      BY <2>1, <3>1, <3>6, <3>8 DEF CapturedInv
  <2> QED
    BY <2>2, <2>3, CaptureKept
<1> QED
  BY <1>1, <1>2, PTL DEF Spec

\* A mapped request has one target that nothing in it contradicts: a single
\* Host; behind an ingress, a trusted peer, and every host, protocol and port
\* that a forwarding header of either family claims; otherwise the Host on the
\* connection as it is (mapping.ts:28-90, configuration.ts:54-84).
THEOREM OneTargetHolds == Spec => []OneTarget
<1>1. CapturedInv => OneTarget
  <2> SUFFICES ASSUME CapturedInv PROVE OneTarget
    OBVIOUS
  <2>1. ASSUME NEW r \in Requests, captured[r] # None, ~Failed(captured[r])
        PROVE  Settles(instance.input[r], instance.mapper, captured[r])
    <3>1. captured[r] = MapHttpSnapshot(instance.input[r], instance.mapper)
      BY <2>1 DEF CapturedInv
    <3>2. WellFormedInput(instance.input[r]) /\ ValidHttpConfiguration(instance.mapper)
      BY HttpAssessmentAssumption DEF CapturedInv
    <3> QED
      BY <2>1, <3>1, <3>2, MappedSettles
  <2>2. ASSUME NEW input, NEW result, Agrees(input, result)
        PROVE  /\ Claimed(input, "x-forwarded-host", "host") = {result.authority}
               /\ {claim.word : claim \in Claimed(input, "x-forwarded-proto", "proto")} = {result.scheme}
               /\ \A h \in Range(input.headers) : h.name = "x-forwarded-port" =>
                    h.value.number = HttpOriginKey(result.scheme, result.authority)[3]
    BY <2>2 DEF Agrees
  <2> QED
    BY <2>1, <2>2 DEF OneTarget, Settles
<1> QED
  BY <1>1, Captured, PTL

=============================================================================
