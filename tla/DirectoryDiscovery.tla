-------------------------- MODULE DirectoryDiscovery --------------------------
(***************************************************************************)
(* Directory discovery of one security context: the shared transport       *)
(* (directory-transport.ts), one service and cache per profile             *)
(* (directory-service.ts, directory-cache.ts), and verifications that      *)
(* resolve the keys of their candidates (network-candidate.ts under        *)
(* verification-engine.ts), in packages/core/src/discovery.                *)
(*                                                                         *)
(* The fetch scheduler is the environment here: a fetch it has admitted    *)
(* ends with a result inside its deadline or with an admission error, as   *)
(* FetchScheduler shows.  An action is the code between two awaits, except *)
(* that time may pass between a delivery's preparation and its commit.     *)
(***************************************************************************)
EXTENDS DirectoryCache

CONSTANTS
  Profiles,
  Allowed,         \* network.allowedOrigins, or all origins in mode "open"
  Responses,       \* [valid : SUBSET Profiles, status, persist, remaining, size]
  Deadline,        \* 3000 ms
  MaxPending,      \* 80 refreshes under way in a service
  Invocations,     \* verify() calls
  Candidates,      \* invocation |-> sequence of [profile, origin, key]
  None,
  MaxTime,         \* bound: the clock
  MaxFaults,       \* bound: changes of the clock provider
  MaxCalls         \* bound: refresh() calls of the application

\* A response as its preparation sees it, and the key set that a profile makes of it.
KeyStatus == [Keys -> {"found", "unknown-key", "unsupported-algorithm"}]
Prepared == [valid : SUBSET Profiles, status : KeyStatus, persist : BOOLEAN, remaining : Nat, size : Nat]
KeySets == [status : KeyStatus, persist : BOOLEAN, remaining : Nat, size : Nat, received : Nat]
Deliveries == [origin : Origins, response : Responses, received : Nat]
CandidateSet == [profile : Profiles, origin : Origins, key : Keys]

ASSUME DirectoryDiscoveryAssumption ==
  /\ Allowed \subseteq Origins
  /\ Deadline \in Nat \ {0} /\ MaxPending \in Nat
  /\ \A r \in Responses : r \in Prepared
  /\ \A v \in Invocations : Candidates[v] \in Seq(CandidateSet) /\ Candidates[v] # <<>>
  /\ None \notin Nat /\ None \notin KeySets /\ None \notin Deliveries
  /\ MaxTime \in Nat /\ MaxFaults \in Nat /\ MaxCalls \in Nat

VARIABLES
  now, broken, faults,
  transportHealthy,
  serviceHealthy,
  cache,
  flight,          \* the scheduler's job of each origin
  delivery,        \* a response that is prepared and not yet committed
  task,            \* #pending of each service
  calls,
  pc, index,       \* of each invocation, and the candidate it is at
  spent, fetches,  \* its budget, and the refreshes it asked for
  kept,            \* its candidates that are eligible so far
  verified,        \* its candidates that were verified, and when
  latest,          \* history: the last valid set delivered for each origin
  failedAt,        \* history: the last failure since
  untold           \* history: refreshes that ended without an event

clockVars == <<now, broken, faults>>
healthVars == <<transportHealthy, serviceHealthy>>
fetchVars == <<flight, delivery>>
callVars == <<pc, index, spent, fetches, kept, verified>>
historyVars == <<latest, failedAt, untold>>
vars == <<clockVars, healthVars, cache, fetchVars, task, calls, callVars, historyVars>>

NoFlight == [phase |-> "none", started |-> 0]
NoTask == [phase |-> "none", started |-> 0, answer |-> "none"]
Values == {"completed", "invalid-jwks", "address-denied", "transport-failed"}
AdmissionErrors == {"capacity", "origin-rate", "deadline", "clock"}

TypeOK ==
  /\ now \in Nat /\ broken \in BOOLEAN /\ faults \in Nat
  /\ transportHealthy \in BOOLEAN /\ serviceHealthy \in [Profiles -> BOOLEAN]
  /\ flight \in [Origins -> [phase : {"none", "running", "dead"}, started : Nat]]
  /\ delivery = None \/ delivery.origin \in Origins
  /\ task \in [Profiles -> [Origins ->
       [phase : {"none", "created", "waiting", "arrived"}, started : Nat,
        answer : Values \cup AdmissionErrors \cup {"none"}]]]
  /\ pc \in [Invocations ->
              {"resolving", "fetching", "fetched", "crypto", "consuming", "done"}]
  /\ \A v \in Invocations : index[v] \in DOMAIN Candidates[v]
  /\ spent \in [Invocations -> BOOLEAN] /\ fetches \in [Invocations -> Nat]
  /\ calls \in Nat

Init ==
  /\ now = 0 /\ broken = FALSE /\ faults = 0
  /\ transportHealthy = TRUE /\ serviceHealthy = [p \in Profiles |-> TRUE]
  /\ cache = [p \in Profiles |-> EmptyCache]
  /\ flight = [o \in Origins |-> NoFlight] /\ delivery = None
  /\ task = [p \in Profiles |-> [o \in Origins |-> NoTask]]
  /\ calls = 0
  /\ pc = [v \in Invocations |-> "resolving"] /\ index = [v \in Invocations |-> 1]
  /\ spent = [v \in Invocations |-> FALSE] /\ fetches = [v \in Invocations |-> 0]
  /\ kept = [v \in Invocations |-> {}]
  /\ verified = [v \in Invocations |-> {}]
  /\ latest = [p \in Profiles |-> [o \in Origins |-> None]]
  /\ failedAt = [p \in Profiles |-> [o \in Origins |-> None]]
  /\ untold = FALSE

\* The clock stops at its bound, unless a refresh still has its deadline ahead.
Tick ==
  /\ \/ now < MaxTime
     \/ \E p \in Profiles, o \in Origins :
          task[p][o].phase # "none" /\ now - task[p][o].started < Deadline
  /\ now' = now + 1
  /\ UNCHANGED <<broken, faults, healthVars, cache, fetchVars, task, calls, callVars, historyVars>>

ClockFault ==
  /\ faults < MaxFaults /\ faults' = faults + 1 /\ broken' = ~broken
  /\ UNCHANGED <<now, healthVars, cache, fetchVars, task, calls, callVars, historyVars>>

-----------------------------------------------------------------------------
(* The service of profile p.                                               *)

Idle == delivery = None

\* DirectoryService.#now.
Serves(p) == serviceHealthy[p] /\ ~broken
SampleService(p) == serviceHealthy' = [serviceHealthy EXCEPT ![p] = @ /\ ~broken]

SampledCache(p) == Sampled(cache[p], ~broken)
Pending(p) == {o \in Origins : task[p][o].phase # "none"}

\* What a refresh comes to before it has a task of its own: a reason to fail,
\* "join", or "create".
Admission(p, o) ==
  IF o \notin Allowed THEN "origin-denied"
  ELSE IF ~Serves(p) THEN "clock"
  ELSE IF o \in Pending(p) THEN "join"
  ELSE IF Blocked(SampledCache(p), o, now) THEN "backoff"
  ELSE IF Cardinality(Pending(p)) >= MaxPending THEN "capacity"
  ELSE "create"

\* fetchBlocked, which prunes what has expired.
AskCache(p) == cache' = [cache EXCEPT ![p] = Asked(SampledCache(p), now)]

\* The task that refresh(o) registers.
CreateTask(p, o) ==
  task' = IF Admission(p, o) = "create"
          THEN [task EXCEPT ![p][o] = [NoTask EXCEPT !.phase = "created", !.started = now]]
          ELSE task

\* The application asks for a refresh.
ApplicationRefreshes(p, o) ==
  /\ Idle /\ calls < MaxCalls /\ calls' = calls + 1
  /\ IF o \in Allowed THEN SampleService(p) ELSE UNCHANGED serviceHealthy
  /\ IF Admission(p, o) \in {"backoff", "capacity", "create"} THEN AskCache(p)
     ELSE UNCHANGED cache
  /\ CreateTask(p, o)
  /\ UNCHANGED <<clockVars, transportHealthy, fetchVars, callVars, historyVars>>

\* Invocations of profile p that await the refresh of o.
Awaiting(p, o) ==
  {v \in Invocations : pc[v] = "fetching" /\ LET c == Candidates[v][index[v]]
                                             IN  c.profile = p /\ c.origin = o}

\* The task of p and o ends, and those who await it are woken.
TaskEnds(p, o) ==
  /\ task' = [task EXCEPT ![p][o] = NoTask]
  /\ pc' = [v \in Invocations |-> IF v \in Awaiting(p, o) THEN "fetched" ELSE pc[v]]
  /\ UNCHANGED <<index, spent, fetches, kept, verified>>

\* #refresh up to its await, when the clock failed or the budget ran out since
\* the call: the task ends at once, without a backoff and without an event.
TaskGivesUp(p, o) ==
  /\ Idle /\ task[p][o].phase = "created"
  /\ SampleService(p)
  /\ ~Serves(p) \/ now - task[p][o].started >= Deadline
  /\ TaskEnds(p, o)
  /\ untold' = TRUE
  /\ UNCHANGED <<clockVars, transportHealthy, cache, fetchVars, calls, latest, failedAt>>

\* #refresh up to its await: the task joins the fetch of its origin, opens one,
\* or is refused by the scheduler.  A fetch that failed while its worker still
\* runs answers everybody with that failure.
TaskFetches(p, o) ==
  /\ Idle /\ task[p][o].phase = "created"
  /\ Serves(p) /\ now - task[p][o].started < Deadline
  /\ \/ /\ flight[o].phase = "none"
        /\ flight' = [flight EXCEPT ![o] = [phase |-> "running", started |-> task[p][o].started]]
        /\ task' = [task EXCEPT ![p][o].phase = "waiting"]
     \/ /\ flight[o].phase = "running"
        /\ task' = [task EXCEPT ![p][o].phase = "waiting"]
        /\ UNCHANGED flight
     \/ \E error \in (IF flight[o].phase = "dead" THEN {"deadline"}
                      ELSE IF flight[o].phase = "none" THEN {"capacity", "origin-rate"} ELSE {})
                     \cup (IF faults > 0 THEN {"clock"} ELSE {}) :
          /\ task' = [task EXCEPT ![p][o] = [@ EXCEPT !.phase = "arrived", !.answer = error]]
          /\ UNCHANGED flight
  /\ UNCHANGED <<clockVars, healthVars, cache, delivery, calls, callVars, historyVars>>

\* A wrong variant: only the profile that opened the fetch gets its answer.
MutAnswer(o, answers) ==
  task' = [p \in Profiles |->
            [task[p] EXCEPT ![o] =
              IF @.phase = "waiting" /\ @.started = flight[o].started
              THEN [@ EXCEPT !.phase = "arrived", !.answer = answers[p]] ELSE @]]

\* Everybody who waits for the fetch of o gets an answer.
Answer(o, answers) ==
  task' = [p \in Profiles |->
            [task[p] EXCEPT ![o] =
              IF @.phase = "waiting" THEN [@ EXCEPT !.phase = "arrived", !.answer = answers[p]]
              ELSE @]]

\* #refresh after its await: the service's own clock and deadline come first;
\* then the answer.  A failure that says something about the origin is recorded,
\* and the observer is told.
Result(p, o) ==
  LET answer == task[p][o].answer
  IN  IF answer \in AdmissionErrors THEN answer
      ELSE IF ~Serves(p) THEN "clock"
      ELSE IF now - task[p][o].started >= Deadline THEN "deadline"
      ELSE answer

Records(p, o) ==
  LET answer == task[p][o].answer
  IN  IF answer \in AdmissionErrors THEN answer = "deadline"
      ELSE Result(p, o) \in {"clock", "deadline", "address-denied", "transport-failed"}

Recorded(p, o) == Failure(SampledCache(p), o, now)

TaskFinishes(p, o) ==
  /\ Idle /\ task[p][o].phase = "arrived"
  /\ IF task[p][o].answer \in Values THEN SampleService(p) ELSE UNCHANGED serviceHealthy
  /\ IF Records(p, o)
     THEN /\ cache' = [cache EXCEPT ![p] = Recorded(p, o)]
          /\ failedAt' = [failedAt EXCEPT ![p][o] = now]
     ELSE UNCHANGED <<cache, failedAt>>
  /\ TaskEnds(p, o)
  /\ UNCHANGED <<clockVars, transportHealthy, fetchVars, calls, latest, untold>>

-----------------------------------------------------------------------------
(* The transport.  The scheduler answers before the deadline of the fetch   *)
(* or with an error.                                                        *)

Underway(o) == Idle /\ flight[o].phase = "running"
InTime(o) == now - flight[o].started < Deadline

\* A response arrives: first check of clock and deadline, and every profile
\* prepares its view.
Prepare(o) ==
  /\ Underway(o) /\ InTime(o)
  /\ transportHealthy /\ ~broken
  /\ \E r \in Responses : delivery' = [origin |-> o, response |-> r, received |-> now]
  /\ UNCHANGED <<clockVars, healthVars, cache, flight, task, calls, callVars, historyVars>>

\* The worker ends with a failure, or its result meets a clock that is lost.
FlightFails(o) ==
  /\ Underway(o) /\ InTime(o)
  /\ flight' = [flight EXCEPT ![o] = NoFlight]
  /\ IF transportHealthy /\ ~broken
     THEN \E reason \in {"address-denied", "transport-failed"} : Answer(o, [p \in Profiles |-> reason])
     ELSE Answer(o, [p \in Profiles |-> "clock"])
  /\ transportHealthy' = (transportHealthy /\ ~broken)
  /\ UNCHANGED <<clockVars, serviceHealthy, cache, delivery, calls, callVars, historyVars>>

\* The scheduler gives up, with or without a worker that is left behind.
FlightAborts(o) ==
  /\ Underway(o)
  /\ ~InTime(o) \/ broken
  /\ Answer(o, [p \in Profiles |-> IF broken THEN "clock" ELSE "deadline"])
  /\ \E left \in {"none", "dead"} : flight' = [flight EXCEPT ![o] = [NoFlight EXCEPT !.phase = left]]
  /\ UNCHANGED <<clockVars, healthVars, cache, delivery, calls, callVars, historyVars>>

WorkerGone(o) ==
  /\ Idle /\ flight[o].phase = "dead"
  /\ flight' = [flight EXCEPT ![o] = NoFlight]
  /\ UNCHANGED <<clockVars, healthVars, cache, delivery, task, calls, callVars, historyVars>>

Delivered ==
  LET r == delivery.response
  IN  [status |-> r.status, persist |-> r.persist, remaining |-> r.remaining, size |-> r.size,
       received |-> delivery.received]

\* A wrong variant: only profiles that asked for it take the response.
MutDistributed(p) ==
  LET o == delivery.origin IN
  IF task[p][o].phase # "waiting" THEN cache[p]
  ELSE IF p \in delivery.response.valid THEN Commit(SampledCache(p), o, Delivered, now)
  ELSE Failure(SampledCache(p), o, now)

\* What the response makes of the cache of p: a document invalid for its format
\* is a failure and takes nothing away.
Distributed(p) ==
  LET o == delivery.origin IN
  IF p \in delivery.response.valid THEN Commit(SampledCache(p), o, Delivered, now)
  ELSE Failure(SampledCache(p), o, now)

StillInTime == ~broken /\ InTime(delivery.origin)

\* The second check, after all preparations; then all profiles or none.
CommitDelivery ==
  /\ delivery # None /\ delivery' = None
  /\ LET o == delivery.origin
         valid == delivery.response.valid
     IN
     /\ flight' = [flight EXCEPT ![o] = NoFlight]
     /\ transportHealthy' = (transportHealthy /\ ~broken)
     /\ IF StillInTime
        THEN /\ cache' = [p \in Profiles |-> Distributed(p)]
             /\ latest' = [p \in Profiles |->
                             IF p \in valid THEN [latest[p] EXCEPT ![o] = Delivered] ELSE latest[p]]
             /\ failedAt' = [p \in Profiles |->
                  [failedAt[p] EXCEPT ![o] = IF p \in valid THEN None ELSE now]]
             /\ Answer(o, [p \in Profiles |-> IF p \in valid THEN "completed" ELSE "invalid-jwks"])
        ELSE /\ Answer(o, [p \in Profiles |-> IF broken THEN "clock" ELSE "deadline"])
             /\ UNCHANGED <<cache, latest, failedAt>>
  /\ UNCHANGED <<clockVars, serviceHealthy, calls, callVars, untold>>

-----------------------------------------------------------------------------
(* A verification.  Its candidates are evaluated in turn; any of them may    *)
(* be rejected at any step for reasons that are not discovery's (metadata,   *)
(* time, a reset, the signature itself).                                     *)

Current(v) == Candidates[v][index[v]]

\* recheck of a selection: the set held now still has the key.
Rechecked(c) ==
  Serves(c.profile) /\ c.origin \in Allowed
  /\ Lookup(SampledCache(c.profile), c.origin, c.key, now) = "found"

IsLast(v) == index[v] = Len(Candidates[v])

\* The next candidate, or after the last one the evidence of all that are kept
\* and the consumption of their nonces.
Advance(v, eligible) ==
  IF ~IsLast(v)
  THEN /\ index' = [index EXCEPT ![v] = @ + 1]
       /\ pc' = [pc EXCEPT ![v] = "resolving"]
       /\ kept' = [kept EXCEPT ![v] = eligible]
  ELSE /\ pc' = [pc EXCEPT ![v] = "consuming"]
       /\ kept' = [kept EXCEPT ![v] = {c \in eligible : Rechecked(c)}]
       /\ UNCHANGED index

\* The current candidate is rejected, with or without a reading of the clocks.
Rejects(v) ==
  LET p == Current(v).profile IN
  /\ Idle /\ pc[v] \in {"resolving", "fetched", "crypto"}
  /\ Advance(v, kept[v])
  /\ \/ SampleService(p)
     \/ (IsLast(v) => kept[v] = {}) /\ UNCHANGED serviceHealthy
  /\ cache' = IF pc[v] = "fetched" THEN [cache EXCEPT ![p] = SampledCache(p)] ELSE cache
  /\ UNCHANGED <<clockVars, transportHealthy, fetchVars, task, calls, spent, fetches,
                 verified, historyVars>>

Spends(v, admission) == spent' = [spent EXCEPT ![v] = TRUE]

\* resolve, up to its await.
Resolve(v) ==
  LET c == Current(v)
      found == Lookup(SampledCache(c.profile), c.origin, c.key, now)
      admission == Admission(c.profile, c.origin)
  IN
  /\ Idle /\ pc[v] = "resolving"
  /\ c.origin \in Allowed /\ Serves(c.profile)
  /\ \/ /\ found = "found"
        /\ pc' = [pc EXCEPT ![v] = "crypto"]
        /\ UNCHANGED <<cache, task, index, spent, fetches, kept>>
     \/ /\ found = "unknown-key"
        /\ Blocked(SampledCache(c.profile), c.origin, now) \/ spent[v]
        /\ AskCache(c.profile) /\ Advance(v, kept[v])
        /\ UNCHANGED <<task, spent, fetches>>
     \/ /\ found = "unknown-key"
        /\ ~Blocked(SampledCache(c.profile), c.origin, now) /\ ~spent[v]
        /\ Spends(v, admission) /\ fetches' = [fetches EXCEPT ![v] = @ + 1]
        /\ AskCache(c.profile) /\ CreateTask(c.profile, c.origin)
        /\ pc' = [pc EXCEPT ![v] = IF admission \in {"join", "create"} THEN "fetching" ELSE "fetched"]
        /\ UNCHANGED <<index, kept>>
  /\ UNCHANGED <<clockVars, healthVars, fetchVars, calls, verified, historyVars>>

\* resolve after its await, whatever the refresh came to: a set that another
\* response brought may have the key.
Resolved(v) ==
  /\ Idle /\ pc[v] = "fetched"
  /\ Rechecked(Current(v))
  /\ pc' = [pc EXCEPT ![v] = "crypto"]
  /\ UNCHANGED <<clockVars, healthVars, cache, fetchVars, task, calls, index, spent, fetches,
                 kept, verified, historyVars>>

\* The signature is good, and the key is still there.
Verifies(v) ==
  /\ Idle /\ pc[v] = "crypto"
  /\ Rechecked(Current(v))
  /\ Advance(v, kept[v] \cup {Current(v)})
  /\ UNCHANGED <<clockVars, healthVars, cache, fetchVars, task, calls, spent, fetches, verified,
                 historyVars>>

\* The last check of evidence, after all nonces are consumed, and the end.
Finish(v) ==
  /\ Idle /\ pc[v] = "consuming"
  /\ pc' = [pc EXCEPT ![v] = "done"]
  /\ verified' = [verified EXCEPT ![v] = {c \in kept[v] : Rechecked(c)}]
  /\ IF kept[v] # {} THEN SampleService(Current(v).profile) ELSE UNCHANGED serviceHealthy
  /\ UNCHANGED <<clockVars, transportHealthy, cache, fetchVars, task, calls, index, spent, fetches,
                 kept, historyVars>>

-----------------------------------------------------------------------------
RefreshStep(p, o) == TaskGivesUp(p, o) \/ TaskFetches(p, o) \/ TaskFinishes(p, o)
VerifyStep(v) == Rejects(v) \/ Resolve(v) \/ Resolved(v) \/ Verifies(v) \/ Finish(v)

Next ==
  \/ Tick \/ ClockFault
  \/ \E p \in Profiles, o \in Origins : ApplicationRefreshes(p, o) \/ RefreshStep(p, o)
  \/ \E o \in Origins : Prepare(o) \/ FlightFails(o) \/ FlightAborts(o) \/ WorkerGone(o)
  \/ CommitDelivery
  \/ \E v \in Invocations : VerifyStep(v)

\* Ready code runs, time passes, and the scheduler's deadline timer fires.  No
\* response ever has to come, and no worker ever has to end.
Fairness ==
  /\ WF_vars(Tick)
  /\ \A p \in Profiles, o \in Origins : WF_vars(RefreshStep(p, o))
  /\ \A o \in Origins : WF_vars(FlightAborts(o))
  /\ WF_vars(CommitDelivery)
  /\ \A v \in Invocations : WF_vars(VerifyStep(v))

Spec == Init /\ [][Next]_vars
FairSpec == Spec /\ Fairness

-----------------------------------------------------------------------------
(* Properties.                                                             *)

Supports(set, key) == set # None /\ set.status[key] = "found" /\ Fresh(set, now)

\* A candidate is verified only if the last valid set that its origin delivered,
\* to whatever profile asked for it, still has the key and is still fresh at
\* that moment.  A set that drops the key, that is not to be stored, or that the
\* cache has no room for ends the evidence of an older one although it is not
\* kept itself, and it may come between any two steps of a verification.
EvidenceCurrent ==
  [][\A v \in Invocations : \A c \in verified'[v] \ verified[v] :
       Supports(latest[c.profile][c.origin], c.key)]_vars

\* The accounted bytes are those of the entries, both limits hold, and an origin
\* has one entry, through replacement, removal and eviction.
CacheExact ==
  \A p \in Profiles :
    LET entries == cache[p].entries
    IN  /\ cache[p].bytes = Sizes(entries)[Len(entries)] /\ cache[p].bytes <= MaxBytes
        /\ Len(entries) <= MaxEntries
        /\ \A i, j \in DOMAIN entries : entries[i].origin = entries[j].origin => i = j

\* No profile takes a response after the deadline of the fetch that brought it,
\* however long the preparation of the others took (directory-transport.ts,
\* the check between the preparations and the commits).
CommitsInTime ==
  [][\A p \in Profiles, o \in Origins :
       latest'[p][o] # latest[p][o] => now - flight[o].started < Deadline]_vars

\* No refresh begins while the origin's last failure is within its backoff
\* unless a valid set came since, even when the table of failures is full and
\* even for a failure that another profile's fetch brought.
BackoffHolds ==
  [][\A p \in Profiles, o \in Origins :
       /\ task[p][o].phase = "none" /\ task'[p][o].phase = "created"
       /\ failedAt[p][o] # None
       => now - failedAt[p][o] >= NegativePeriod]_vars

\* A verification asks for at most one fetch, its own or one that is under way,
\* whatever the number of its candidates and of their origins.
OneFetchPerInvocation == \A v \in Invocations : fetches[v] <= 1

\* What is committed is committed in time, and what is verified rests on what
\* was committed last.
EvidenceSound == EvidenceCurrent /\ CommitsInTime

\* The caches are what their accounts say, and no verification costs its
\* directories more than one fetch.
DiscoveryConsistent == TypeOK /\ CacheExact /\ OneFetchPerInvocation

\* Every refresh comes to an end although no response has to come and the
\* workers may hang for ever, and so does every verification that waits for one.
EveryTaskEnds ==
  /\ \A p \in Profiles, o \in Origins :
       task[p][o].phase # "none" ~> task[p][o].phase = "none"
  /\ \A v \in Invocations : <>(pc[v] = "done")

\* "All callers share validation, cache commit, and exactly one event": a
\* refresh that has a task of its own reports one event to the observer.
OneEventPerRefresh == ~untold

=============================================================================
