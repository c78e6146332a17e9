---------------------------- MODULE HttpAssessment ----------------------------
(***************************************************************************)
(* packages/core/src/http/assessment.ts and node-mapper.ts, with the        *)
(* adapters for Express, Fastify and Hono that call them.                   *)
(*                                                                         *)
(* A caller is one installation of the middleware that handles one request. *)
(* Several may handle the same request, one after the other or at once; the *)
(* first registers the assessment and the others share its promise.  An     *)
(* action is the code between two awaits.  The verifier, the policy and the *)
(* application are the environment, and may answer at any time or never.    *)
(***************************************************************************)
EXTENDS HttpMapping, FiniteSets

CONSTANTS
  Requests, Callers,
  Instances,      \* [plan, mapper, input, delivery, taken]: what each caller is, how
                  \* the mapper is configured, the requests and how they come
  Sizes,          \* depths of a verifier's result
  MaxDepth,       \* of a value that ownedCopy() copies
  Elsewhere,      \* a request outside the instance
  Never, None,
  MaxTime         \* bound: milliseconds

MaxTimeout == 2147483647   \* the longest delay of a timer

\* resolve(): only an enforcing installation has a policy, and its options.
ValidOptions(config) ==
  /\ config.mode \in {"observe", "enforce"} /\ config.bodyPolicy \in {"reject", "allow-unverified"}
  /\ config.timeout \in 1..MaxTimeout
  /\ config.mode = "observe" => config.bodyPolicy = "reject" /\ config.timeout = 1000

\* What a policy's race with its timer can settle with: a decision for some
\* request, or none.
Settlements ==
  [request : Requests \cup {Elsewhere, None},
   kind : {"allow-verified", "allow-anonymous", "deny", "rate-limit", "error", "timeout", "other"}]

ASSUME HttpAssessmentAssumption ==
  /\ "record" \notin Callers /\ Elsewhere \notin Requests /\ None \notin Requests \cup Settlements
  /\ \A i \in Instances :
       /\ i.delivery \in [Requests -> {"owned", "tampered", "foreign"}]
       /\ i.taken \subseteq Requests /\ ValidHttpConfiguration(i.mapper)
       /\ \A r \in Requests : WellFormedInput(i.input[r])
       /\ \A c \in Callers :
            /\ i.plan[c] # None /\ i.plan[c].request \in Requests
            /\ i.plan[c].adapter \in {"express", "fastify", "hono"}
            /\ ValidOptions(i.plan[c].config)
  /\ Sizes \subseteq Nat /\ MaxDepth \in Nat /\ MaxTime \in Nat

VARIABLES
  now,
  instance,   \* chosen once; taken: whose "agentsig" slot the application has used
  captured,   \* the mapper's results, by request
  state,      \* the registry: what is known of a request's assessment
  published,  \* requests whose context an adapter has published
  answer      \* what became of a caller

vars == <<now, instance, captured, state, published, answer>>

plan == instance.plan

Ended == {"proceeds", "responded", "failed", "bad-request"}
Configs == {plan[c].config : c \in Callers}

\* Before assess() has been called for a request.
Unregistered ==
  [owner |-> None, phase |-> "none", assessment |-> None, size |-> 0, policy |-> "none",
   active |-> FALSE, aborted |-> FALSE, started |-> 0, timer |-> Never, race |-> None,
   outcome |-> None, recorded |-> FALSE, reactions |-> <<>>,
   events |-> <<>>, verifications |-> 0, policies |-> 0, took |-> 0]

Init ==
  /\ now = 0
  /\ instance \in Instances
  /\ captured = [r \in Requests |-> None]
  /\ state = [r \in Requests |-> Unregistered]
  /\ published = {}
  /\ answer = [c \in Callers |-> "idle"]

-----------------------------------------------------------------------------
(* The mapper (node-mapper.ts).                                              *)

\* The server emits a request: dispatch() maps it and calls the listener.  When
\* the event is emitted again, dispatch() finds the result and does nothing.
Dispatch(r) ==
  /\ captured[r] = None
  /\ captured' = [captured EXCEPT ![r] =
       CASE instance.delivery[r] = "foreign" -> Reject("capture-missing")
         [] instance.input[r].version = "2" -> Reject("http2-unsupported")
         [] instance.delivery[r] = "tampered" /\ instance.input[r].version # "2" -> Reject("capture-incomplete")
         [] instance.delivery[r] = "owned" /\ instance.input[r].version # "2" -> MapHttpSnapshot(instance.input[r], instance.mapper)]
  /\ UNCHANGED <<now, instance, state, published, answer>>

\* map(): a request that did not come through a server of this mapper has no
\* capture, and only its version is looked at.
MapRequest(r) ==
  IF instance.delivery[r] = "foreign" /\ instance.input[r].version = "2" THEN Reject("http2-unsupported")
  ELSE captured[r]

-----------------------------------------------------------------------------
(* assess() and get().                                                       *)

\* existingState(): the same configuration, option by option; assess() wants
\* the same adapter too.
Compatible(s, config) == s.owner.config = config

CopyFits(s, nesting) == s.size + nesting <= MaxDepth

\* get() of an installation with this configuration.
Readable(s, config) ==
  /\ s.owner # None /\ Compatible(s, config)
  /\ s.recorded /\ CopyFits(s, 2)

MutRegister(s, c) ==
  [s EXCEPT !.owner = plan[c], !.phase = "registered", !.reactions = <<c, "record">>]

\* The promise's reactions run in the order in which they were added.  The one
\* that keeps the outcome is added before that of any caller.
Register(s, c) ==
  [s EXCEPT !.owner = plan[c], !.phase = "registered", !.reactions = <<"record", c>>]

MutRegistered(s) == s.recorded
Registered(s) == s.owner # None

Assess(c) ==
  LET r == plan[c].request
      s == state[r]
      conflict == /\ plan[c].adapter = "express" /\ r \in instance.taken /\ r \notin published
      mismatch == /\ Registered(s)
                  /\ ~Compatible(s, plan[c].config) \/ s.owner.adapter # plan[c].adapter
  IN /\ captured[r] # None /\ answer[c] = "idle"
     /\ IF conflict \/ mismatch
        THEN answer' = [answer EXCEPT ![c] = "failed"] /\ UNCHANGED state
        ELSE /\ answer' = [answer EXCEPT ![c] = "waiting"]
             /\ state' = [state EXCEPT ![r] =
                  IF Registered(s) THEN [s EXCEPT !.reactions = Append(@, c)] ELSE Register(s, c)]
     /\ UNCHANGED <<now, instance, captured, published>>

-----------------------------------------------------------------------------
(* evaluate().                                                               *)

Resolve(s, outcome) == [s EXCEPT !.phase = "resolved", !.outcome = outcome]
Emit(s, event) == [s EXCEPT !.events = Append(@, event)]

Continue(authorization) == [action |-> "continue", authorization |-> authorization, status |-> None]
Respond(authorization, status) ==
  [action |-> "respond", authorization |-> authorization, status |-> status]

MutJudge(s) ==
  IF s.owner.config.mode = "observe" THEN Resolve(s, Continue("not-evaluated"))
  ELSE [s EXCEPT !.phase = "deciding", !.policy = "running", !.policies = @ + 1,
                 !.active = TRUE, !.started = now]
\* After the assessment: the end in the mode "observe", or the policy's call,
\* which follows in a microtask, and its timer.
Judge(s) ==
  IF s.owner.config.mode = "observe" THEN Resolve(s, Continue("not-evaluated"))
  ELSE [s EXCEPT !.phase = "deciding", !.policy = "running", !.policies = @ + 1,
                 !.active = TRUE, !.started = now, !.timer = now + s.owner.config.timeout]

Evaluate(r) ==
  LET s == state[r]
      mapping == MapRequest(r)
      assessed == [s EXCEPT !.assessment = [mapped |-> FALSE, verified |-> FALSE, body |-> FALSE]]
  IN /\ s.phase = "registered"
     /\ state' = [state EXCEPT ![r] =
          IF Failed(mapping) THEN Judge(Emit(assessed, "mapping-rejected"))
          ELSE [s EXCEPT !.phase = "verifying", !.verifications = @ + 1]]
     /\ UNCHANGED <<now, instance, captured, published, answer>>

\* The verifier's answer is copied, and copied again within the assessment.
VerifierAnswers(r) ==
  LET s == state[r]
  IN /\ s.phase = "verifying"
     /\ \E result \in {"verified", "not-verified", "error"}, size \in Sizes :
          LET sized == [s EXCEPT !.size = size]
              failed == [sized EXCEPT !.phase = "rejected"]
          IN state' = [state EXCEPT ![r] =
               IF result = "error" \/ ~CopyFits(sized, 0) THEN Emit(failed, "verification-error")
               ELSE IF ~CopyFits(sized, 1) THEN failed
               ELSE Judge([sized EXCEPT !.assessment =
                      [mapped |-> TRUE, verified |-> result = "verified", body |-> captured[r].body]])]
     /\ UNCHANGED <<now, instance, captured, published, answer>>

BodyRejected(s) ==
  s.assessment.mapped /\ s.assessment.body /\ s.owner.config.bodyPolicy = "reject"

\* The decisions a policy can have got from its tools: allowVerified() refuses
\* any assessment but the verified one of this call.
Decisions(q) ==
  {[request |-> q, kind |-> k] : k \in
     IF state[q].policy = "none" THEN {}
     ELSE {"allow-anonymous", "deny", "rate-limit"} \cup
          IF state[q].assessment.verified /\ ~BodyRejected(state[q]) THEN {"allow-verified"} ELSE {}}
Error == [request |-> None, kind |-> "error"]
Timeout == [request |-> None, kind |-> "timeout"]
Other == [request |-> None, kind |-> "other"]

\* Promise.race: the first to settle counts.
Races(s, value) == IF s.race = None THEN [s EXCEPT !.race = value] ELSE s

\* The policy may also throw, return something else, or a decision it got in
\* the assessment of another request, here or elsewhere.
Foreign == {[request |-> Elsewhere, kind |-> k] : k \in {"allow-verified", "allow-anonymous"}}
PolicyReturns(r) ==
  /\ state[r].policy = "running"
  /\ \E value \in (UNION {Decisions(q) : q \in Requests}) \cup Foreign \cup {Error, Other} :
       state' = [state EXCEPT ![r] = Races([@ EXCEPT !.policy = "settled"], value)]
  /\ UNCHANGED <<now, instance, captured, published, answer>>

TimerFires(r) ==
  /\ state[r].timer # Never /\ now >= state[r].timer
  /\ state' = [state EXCEPT ![r] = Races([@ EXCEPT !.timer = Never], Timeout)]
  /\ UNCHANGED <<now, instance, captured, published, answer>>

DenyStatus(s) == IF s.assessment.mapped THEN "deny" ELSE "mapping"
Denied(s, reason) == Emit(Resolve(s, Respond("denied", DenyStatus(s))), <<"policy-denied", reason>>)

MutTimedOut(s) == FALSE
\* Synchronous work of the policy counts against its time too.
TimedOut(s) == now - s.started >= s.owner.config.timeout

Abort(s) == [s EXCEPT !.aborted = TRUE]

\* A decision counts for the request whose tools made it.
Selected(s, r) == IF s.race.request = r THEN s.race.kind ELSE "none"

Decided(s, r) ==
  LET kind == Selected(s, r)
  IN IF TimedOut(s) \/ s.race = Timeout THEN Denied(Abort(s), "timeout")
     ELSE IF s.race = Error THEN Denied(s, "error")
     ELSE IF kind = "none" THEN Denied(s, "invalid-decision")
     ELSE IF kind = "rate-limit" THEN Resolve(s, Respond("rate-limited", "rate"))
     ELSE IF BodyRejected(s) THEN Denied(s, "body-unverified")
     ELSE IF ~s.assessment.mapped \/ kind = "deny"
          THEN Resolve(s, Respond("denied", DenyStatus(s)))
     ELSE IF kind = "allow-verified" /\ ~s.assessment.verified THEN [s EXCEPT !.phase = "rejected"]
     ELSE Resolve(s, Continue(kind))
\* After the race.
Decide(r) ==
  LET s == state[r]
  IN /\ s.phase = "deciding" /\ s.race # None
     /\ state' = [state EXCEPT ![r] =
          Decided([s EXCEPT !.active = FALSE, !.timer = Never, !.took = now - s.started], r)]
     /\ UNCHANGED <<now, instance, captured, published, answer>>

-----------------------------------------------------------------------------
(* The adapters.                                                             *)

\* A caller gets its own copy of the outcome, two levels above the assessment.
Answer(s, c) ==
  IF s.phase = "rejected" \/ ~CopyFits(s, 3) THEN "failed"
  ELSE IF s.outcome.action = "respond" THEN "responded"
  ELSE IF plan[c].adapter = "hono" THEN "converting"
  ELSE "proceeds"

\* The first reaction to a settled promise.
React(r) ==
  LET s == state[r]
      next == Head(s.reactions)
      popped == [s EXCEPT !.reactions = Tail(@)]
  IN /\ s.phase \in {"resolved", "rejected"} /\ s.reactions # <<>>
     /\ IF next = "record"
        THEN /\ state' = [state EXCEPT ![r] = [popped EXCEPT !.recorded = s.phase = "resolved"]]
             /\ UNCHANGED <<answer, published>>
        ELSE /\ state' = [state EXCEPT ![r] = popped]
             /\ answer' = [answer EXCEPT ![next] = Answer(s, next)]
             /\ published' = published \cup
                  IF Answer(s, next) # "failed" /\ plan[next].adapter # "hono" THEN {r} ELSE {}
     /\ UNCHANGED <<now, instance, captured>>

\* Hono converts the request after its assessment.  It may be unable to; else
\* the application runs, and its middleware asks the installation it belongs to.
ConversionFails(c) ==
  /\ answer[c] = "converting"
  /\ answer' = [answer EXCEPT ![c] = "bad-request"]
  /\ state' = [state EXCEPT ![plan[c].request] = Emit(@, "framework-conversion-failed")]
  /\ UNCHANGED <<now, instance, captured, published>>

HonoMiddleware(c, config) ==
  /\ answer[c] = "converting"
  /\ answer' = [answer EXCEPT ![c] =
       IF plan[c].request \notin instance.taken /\ Readable(state[plan[c].request], config)
       THEN "proceeds" ELSE "failed"]
  /\ UNCHANGED <<now, instance, captured, state, published>>

\* Time goes on to the bound, or as far as a timer that is set needs it.
Tick ==
  /\ now < MaxTime \/ \E r \in Requests : state[r].timer # Never /\ now < state[r].timer
  /\ now' = now + 1
  /\ UNCHANGED <<instance, captured, state, published, answer>>

RequestStep(r) == Evaluate(r) \/ TimerFires(r) \/ Decide(r) \/ React(r)

Next ==
  \/ Tick
  \/ \E r \in Requests : Dispatch(r) \/ RequestStep(r) \/ VerifierAnswers(r) \/ PolicyReturns(r)
  \/ \E c \in Callers :
       Assess(c) \/ ConversionFails(c) \/ \E config \in Configs : HonoMiddleware(c, config)

Spec == Init /\ [][Next]_vars

\* The event loop runs what is ready, and time passes.  Neither the verifier
\* nor the policy is assumed to answer, nor a request to arrive.
FairSpec == Spec /\ WF_vars(Tick) /\ \A r \in Requests : WF_vars(RequestStep(r))

-----------------------------------------------------------------------------
(* Properties.                                                               *)

CallersOf(r) == {c \in Callers : plan[c].request = r}

\* However many installations handle a request, at once or in turn, it is
\* verified once and judged once (a second verification would find its own
\* nonce replayed), and no installation lets it through that another one has
\* answered, or that has other options than the one that assessed it
\* (assessment.ts:300-309).
OneDecision ==
  \A r \in Requests :
    /\ state[r].verifications <= 1 /\ state[r].policies <= 1
    /\ \A c, d \in CallersOf(r) : answer[c] = "proceeds" =>
         answer[d] # "responded" /\ plan[c].config = state[r].owner.config

\* What an enforcing installation lets through was allowed by its own policy
\* for this very request, within the policy's time, counted to the moment at
\* which the decision was taken up; as a verified one only if it was verified,
\* and with a body only if the options say so (assessment.ts:217-283).
GrantJustified ==
  \A r \in Requests : \A c \in CallersOf(r) :
    LET s == state[r]
    IN answer[c] = "proceeds" /\ s.owner.config.mode = "enforce" =>
         /\ s.race.request = r /\ s.race.kind \in {"allow-anonymous", "allow-verified"}
         /\ s.took < s.owner.config.timeout
         /\ s.assessment.mapped /\ (s.assessment.body => s.owner.config.bodyPolicy # "reject")
         /\ s.race.kind = "allow-verified" => s.assessment.verified

\* An application that a request reaches can read its context at once: the
\* outcome was kept before any caller was told of it (assessment.ts:307).
ContextReadable ==
  \A c \in Callers : answer[c] = "proceeds" => Readable(state[plan[c].request], plan[c].config)

\* A policy that is still at work when its request has been decided was told to
\* stop, has no tools left, and its request was denied; and a request whose
\* policy was told so is not let through (assessment.ts:251-259).
AbandonedPolicyTold ==
  \A r \in Requests :
    LET s == state[r]
    IN /\ s.phase = "resolved" /\ s.policy = "running" => s.aborted
       /\ s.aborted => ~s.active /\ s.outcome.authorization = "denied"

\* Only a policy that decided in time grants anything, and one that did not is
\* told so and grants nothing.
PolicyDecides == GrantJustified /\ AbandonedPolicyTold

\* A caller is answered, unless the verifier keeps its request waiting for ever;
\* a policy cannot (assessment.ts:244-251).
EveryCallerAnswered ==
  \A c \in Callers :
    answer[c] = "waiting" /\ state[plan[c].request].phase # "verifying"
      ~> answer[c] \in Ended \cup {"converting"} \/ state[plan[c].request].phase = "verifying"

\* What a header claims: itself if it has this name, and the pairs of this name
\* if it is Forwarded.
Claims(h, name, pair) ==
  IF h.name = name THEN {h.value}
  ELSE IF h.name = "forwarded" /\ h.value.kind = "pairs"
       THEN {h.value.tokens[i].value : i \in {j \in DOMAIN h.value.tokens : h.value.tokens[j].name = pair}}
  ELSE {}
Claimed(input, name, pair) == UNION {Claims(h, name, pair) : h \in Range(input.headers)}

\* A mapped request has one target that nothing in it contradicts.  It has a
\* single Host.  Behind an ingress, its peer is one of those that are trusted,
\* and every host, every protocol and every port that a forwarding header of
\* either family claims is that of the target.  Otherwise the target is the
\* Host on the connection as it is, whatever such headers say
\* (mapping.ts:28-90, configuration.ts:54-84).
OneTarget ==
  \A r \in Requests : captured[r] # None /\ ~Failed(captured[r]) =>
    LET input == instance.input[r]
        hosts == {i \in DOMAIN input.headers : input.headers[i].name = "host"}
        authority == captured[r].authority
    IN /\ Cardinality(hosts) = 1
       /\ \A i \in hosts : input.headers[i].value = captured[r].internal
       /\ IF instance.mapper.mode = "direct"
          THEN /\ authority = captured[r].internal
               /\ captured[r].scheme = IF input.encrypted THEN "https" ELSE "http"
          ELSE /\ \E range \in instance.mapper.trustedPeers :
                    input.peer.family = range.family /\ input.peer.address \in range.members
               /\ Claimed(input, "x-forwarded-host", "host") = {authority}
               /\ {claim.word : claim \in Claimed(input, "x-forwarded-proto", "proto")}
                    = {captured[r].scheme}
               /\ \A h \in Range(input.headers) : h.name = "x-forwarded-port" =>
                    h.value.number = HttpOriginKey(captured[r].scheme, authority)[3]

=============================================================================
