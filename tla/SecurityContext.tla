--------------------------- MODULE SecurityContext ---------------------------
(***************************************************************************)
(* One shared security context: the clock tracker, the operation epochs,   *)
(* the replay store and the reset coordinator of                           *)
(* packages/core/src/profiles/security-context-controller.ts and           *)
(* operation-epochs.ts, driven by concurrent verifications that each carry *)
(* one candidate signature (verification-engine.ts, candidate-*.ts).       *)
(*                                                                         *)
(* JavaScript runs to completion between two awaits, so every action below *)
(* is the code from one await to the next.                                 *)
(***************************************************************************)
EXTENDS TimePolicy, ClockTracker, MemoryReplayStore

CONSTANTS
  Ops,             \* verify() calls
  Requests,        \* [scope, key, nonce, created, expires, fault]
  NoNonce,
  Declaration,     \* store.retentionClock
  ClearMayFail,    \* a memory reset port that can reject (a test double)
  StoreMayFail,    \* an external store that can answer without having decided
  MaxEpoch,        \* the last epoch number (Number.MAX_SAFE_INTEGER)
  InitialClock,
  ClockFaults,     \* subset of {"wall-step", "mono-step", "outage"}
  WallSteps,       \* sizes of a wall clock step
  MaxTicks,        \* bound: ticks of the monotonic clock
  MaxFaults,       \* bound: clock faults
  MaxResets        \* bound: calls of resetClockReference

Identity(r) == [scope |-> r.scope, key |-> r.key, nonce |-> r.nonce]
End(r) == WindowEnd(r.created, r.expires)

ASSUME SecurityContextAssumption ==
  /\ IsFiniteSet(Ops)
  /\ \A r \in Requests :
       /\ r.created \in Nat /\ r.expires \in Nat
       /\ r.fault \in {"none", "static", "crypto"}
       /\ r.nonce # NoNonce => Identity(r) \in Identities
  /\ Declaration \in {"process-clock", "independent", "undeclared"}
  /\ ClearMayFail \in BOOLEAN /\ StoreMayFail \in BOOLEAN
  /\ MaxEpoch \in Nat \ {0}
  /\ InitialClock \in Samples /\ ValidReference(InitialClock)
  /\ WallSteps \subseteq Int
  /\ MaxTicks \in Nat /\ MaxFaults \in Nat /\ MaxResets \in Nat

Closed == 0        \* activeEpoch = null

VARIABLES
  clock,           \* what the two providers would return now
  faults,          \* clock faults so far
  tracker,
  healthy,         \* the controller's health flag
  told,            \* the health the observer was last told
  resetStep,       \* where resetClockReference is; "idle" is busy = false
  replacement,     \* the prepared tracker
  resets,          \* calls of resetClockReference so far
  activeEpoch, lastEpoch, inFlight,
  store,
  inbox,           \* consume commands on their way to an external store
  pc, request, lease,
  reply,           \* what the replay step decided for the candidate
  sentAt,          \* the second of the consume dispatch
  verdict, verifiedAt

clockVars == <<tracker, healthy, told>>
epochVars == <<activeEpoch, lastEpoch, inFlight>>
resetVars == <<resetStep, replacement, resets>>
opVars    == <<pc, request, lease, reply, sentAt, verdict, verifiedAt>>
envVars   == <<clock, faults>>
storeVars == <<store, inbox>>
vars == <<envVars, clockVars, resetVars, epochVars, storeVars, opVars>>

Busy == resetStep # "idle"
Outstanding == {o \in Ops : pc[o] \notin {"idle", "done"}}

PCs == {"idle", "crypto", "evaluated", "dispatched", "returned", "closing", "done"}
Replies == {"none", "pending", "optional", "rejected", "accepted", "replayed",
            "per-key-quota-exceeded", "unavailable"}

TypeOK ==
  /\ clock \in Samples /\ faults \in Nat
  /\ tracker \in Trackers /\ healthy \in BOOLEAN /\ told \in BOOLEAN
  /\ resetStep \in {"idle", "entered", "cleared", "clear-failed"}
  /\ replacement \in Trackers /\ resets \in Nat
  /\ activeEpoch \in Nat /\ lastEpoch \in Nat \ {0} /\ inFlight \in Nat
  /\ store \in Stores /\ inbox \subseteq Ops
  /\ pc \in [Ops -> PCs]
  /\ request \in [Ops -> Requests]
  /\ lease \in [Ops -> Nat]
  /\ reply \in [Ops -> Replies]
  /\ sentAt \in [Ops -> Nat] /\ verifiedAt \in [Ops -> Nat]
  /\ verdict \in [Ops -> {"none", "refused", "verified"}]

Init ==
  /\ clock = InitialClock /\ faults = 0
  /\ tracker = CreateTracker(InitialClock) /\ healthy = TRUE /\ told = TRUE
  /\ resetStep = "idle" /\ replacement = CreateTracker(InitialClock) /\ resets = 0
  /\ activeEpoch = 1 /\ lastEpoch = 1 /\ inFlight = 0
  /\ store = EmptyStore /\ inbox = {}
  /\ pc = [o \in Ops |-> "idle"]
  /\ request \in [Ops -> Requests]
  /\ lease = [o \in Ops |-> 0]
  /\ reply = [o \in Ops |-> "none"]
  /\ sentAt = [o \in Ops |-> 0] /\ verifiedAt = [o \in Ops |-> 0]
  /\ verdict = [o \in Ops |-> "none"]

-----------------------------------------------------------------------------
(* The providers.  Any of this happens between two samples.                *)

Tick ==
  /\ clock.mono < InitialClock.mono + MaxTicks
  /\ clock' = [clock EXCEPT !.mono = @ + 1, !.wall = @ + 1]
  /\ UNCHANGED <<faults, clockVars, resetVars, epochVars, storeVars, opVars>>

ClockFault(kind) ==
  /\ kind \in ClockFaults
  /\ faults < MaxFaults /\ faults' = faults + 1
  /\ \/ /\ kind = "wall-step"
        /\ \E d \in WallSteps : /\ clock.wall + d >= 0
                                /\ clock' = [clock EXCEPT !.wall = @ + d]
     \/ /\ kind = "mono-step"
        /\ clock' = [clock EXCEPT !.mono = @ - 1]
     \/ /\ kind = "outage"
        /\ \/ clock' = [clock EXCEPT !.wallOk = ~@]
           \/ clock' = [clock EXCEPT !.monoOk = ~@]
  /\ UNCHANGED <<clockVars, resetVars, epochVars, storeVars, opVars>>

-----------------------------------------------------------------------------
(* The gate in front of every clock reading: currentTime(lease).           *)

Open == ~Busy /\ activeEpoch # Closed
Tracked == Track(tracker, clock)
SampleHealthy == Healthy(Tracked, clock)
Now == EpochSeconds(Tracked, clock)

\* A wrong variant: only the gate is asked, not the lease.
MutCurrent(o) == Open

\* assertCurrent: a finished lease belongs to no operation that still runs.
Current(o) == Open /\ lease[o] = activeEpoch

\* A change of health is delivered to the observer, nothing else is.
Report(health) ==
  /\ healthy' = health
  /\ told' = IF healthy # health THEN health ELSE told

SampleClock == tracker' = Tracked /\ Report(SampleHealthy)

\* The clock is read only through an open gate with a current lease.
Gate(o) == IF Current(o) THEN SampleClock ELSE UNCHANGED clockVars
Passes(o) == Current(o) /\ SampleHealthy
Acceptable(o) == InWindow(request[o].created, request[o].expires, Now)

-----------------------------------------------------------------------------
(* One verify() call.                                                      *)

\* beginOperation, and in the same turn the candidate's static gates and its
\* first time check, up to the await of the cryptography.
Begin(o) ==
  /\ pc[o] = "idle"
  /\ IF Open THEN SampleClock ELSE UNCHANGED clockVars
  /\ IF Open /\ SampleHealthy
     THEN /\ lease' = [lease EXCEPT ![o] = activeEpoch]
          /\ inFlight' = inFlight + 1
          /\ LET eligible == request[o].fault # "static" /\ Acceptable(o)
             IN  /\ pc' = [pc EXCEPT ![o] = IF eligible THEN "crypto" ELSE "closing"]
                 /\ reply' = [reply EXCEPT ![o] = IF eligible THEN "none" ELSE "rejected"]
          /\ UNCHANGED verdict
     ELSE /\ pc' = [pc EXCEPT ![o] = "done"]
          /\ verdict' = [verdict EXCEPT ![o] = "refused"]
          /\ UNCHANGED <<lease, inFlight, reply>>
  /\ UNCHANGED <<envVars, resetVars, activeEpoch, lastEpoch, storeVars, request, sentAt,
                 verifiedAt>>

\* The second half of evaluateCandidate: time is read again after the await.
AfterCrypto(o) ==
  /\ pc[o] = "crypto"
  /\ Gate(o)
  /\ LET eligible == Passes(o) /\ request[o].fault # "crypto" /\ Acceptable(o)
     IN  /\ pc' = [pc EXCEPT ![o] = IF eligible THEN "evaluated" ELSE "closing"]
         /\ reply' = [reply EXCEPT ![o] = IF eligible THEN "none" ELSE "rejected"]
  /\ UNCHANGED <<envVars, resetVars, epochVars, storeVars, request, lease,
                 sentAt, verdict, verifiedAt>>

\* A candidate without a nonce (its policy allows that) has nothing to consume.
SkipReplay(o) ==
  /\ pc[o] = "evaluated" /\ request[o].nonce = NoNonce
  /\ pc' = [pc EXCEPT ![o] = "closing"]
  /\ reply' = [reply EXCEPT ![o] = "optional"]
  /\ UNCHANGED <<envVars, clockVars, resetVars, epochVars, storeVars, request, lease,
                 sentAt, verdict, verifiedAt>>

Deadline(o, now) == RetainUntil(request[o].created, now)

\* consume: eligibility and retention from one sample, and the dispatch in the
\* same turn.  Owned memory decides within the call; an external store later.
Dispatch(o) ==
  /\ pc[o] = "evaluated" /\ request[o].nonce # NoNonce
  /\ Gate(o)
  /\ IF Passes(o) /\ Acceptable(o) /\ Representable(Deadline(o, Now))
     THEN /\ pc' = [pc EXCEPT ![o] = "dispatched"]
          /\ sentAt' = [sentAt EXCEPT ![o] = Now]
          /\ IF Declaration = "process-clock"
             THEN LET id == Identity(request[o]) IN
                  /\ store' = ConsumeStore(store, id, Now, Deadline(o, Now))
                  /\ reply' = [reply EXCEPT ![o] =
                                 ConsumeOutcome(store, id, Now, Deadline(o, Now))]
                  /\ UNCHANGED inbox
             ELSE /\ inbox' = inbox \cup {o}
                  /\ reply' = [reply EXCEPT ![o] = "pending"]
                  /\ UNCHANGED store
     ELSE /\ pc' = [pc EXCEPT ![o] = "closing"]
          /\ reply' = [reply EXCEPT ![o] = "rejected"]
          /\ UNCHANGED <<sentAt, storeVars>>
  /\ UNCHANGED <<envVars, resetVars, epochVars, request, lease, verdict, verifiedAt>>

\* A wrong variant: an answer for a lease that is gone is never collected.
MutSettle(o) ==
  /\ pc[o] = "dispatched" /\ Current(o)
  /\ SampleClock
  /\ pc' = [pc EXCEPT ![o] = IF SampleHealthy THEN "returned" ELSE "closing"]
  /\ UNCHANGED <<envVars, resetVars, epochVars, storeVars, request, lease, reply,
                 sentAt, verdict, verifiedAt>>

\* consume resumes with the store's answer, and asks the gate again: an answer
\* that arrives in a later epoch is worth nothing.
Settle(o) ==
  /\ pc[o] = "dispatched" /\ reply[o] # "pending"
  /\ Gate(o)
  /\ IF Passes(o)
     THEN pc' = [pc EXCEPT ![o] = "returned"] /\ UNCHANGED reply
     ELSE /\ pc' = [pc EXCEPT ![o] = "closing"]
          /\ reply' = [reply EXCEPT ![o] = "rejected"]
  /\ UNCHANGED <<envVars, resetVars, epochVars, storeVars, request, lease,
                 sentAt, verdict, verifiedAt>>

\* consumeCandidateGroups after its await: the window is checked again, and a
\* nonce consumed in vain stays consumed.
Regroup(o) ==
  /\ pc[o] = "returned"
  /\ Gate(o)
  /\ pc' = [pc EXCEPT ![o] = "closing"]
  /\ reply' = [reply EXCEPT ![o] = IF Passes(o) /\ Acceptable(o) THEN @ ELSE "rejected"]
  /\ UNCHANGED <<envVars, resetVars, epochVars, storeVars, request, lease,
                 sentAt, verdict, verifiedAt>>

\* epochs.finish: an invalidated lease no longer counts.
Finished(o) == IF activeEpoch # Closed /\ lease[o] = activeEpoch THEN inFlight - 1 ELSE inFlight

\* completeOperation, finalize and the finishOperation of the finally block
\* (without effect after completeOperation has finished the lease).
Complete(o) ==
  /\ pc[o] = "closing"
  /\ Gate(o)
  /\ pc' = [pc EXCEPT ![o] = "done"]
  /\ inFlight' = Finished(o)
  /\ IF Passes(o) /\ reply[o] \in {"accepted", "optional"} /\ Acceptable(o)
     THEN /\ verdict' = [verdict EXCEPT ![o] = "verified"]
          /\ verifiedAt' = [verifiedAt EXCEPT ![o] = Now]
     ELSE /\ verdict' = [verdict EXCEPT ![o] = "refused"]
          /\ UNCHANGED verifiedAt
  /\ UNCHANGED <<envVars, resetVars, activeEpoch, lastEpoch, storeVars, request, lease,
                 reply, sentAt>>

-----------------------------------------------------------------------------
(* An external store: a command lands later, perhaps after its caller was  *)
(* answered "unavailable".  It keeps what it stored.                       *)

StoreApply(o) ==
  /\ o \in inbox
  /\ inbox' = inbox \ {o}
  /\ LET id == Identity(request[o])
         new == store.retain[id] = 0
     IN  /\ store' = IF new THEN [store EXCEPT !.retain[id] = Deadline(o, sentAt[o])]
                     ELSE store
         /\ reply' = IF reply[o] # "pending" THEN reply
                     ELSE [reply EXCEPT ![o] = IF new THEN "accepted" ELSE "replayed"]
  /\ UNCHANGED <<envVars, clockVars, resetVars, epochVars, pc, request, lease, sentAt,
                 verdict, verifiedAt>>

StoreFails(o) ==
  /\ StoreMayFail
  /\ pc[o] = "dispatched" /\ reply[o] = "pending"
  /\ reply' = [reply EXCEPT ![o] = "unavailable"]
  /\ inbox' \in {inbox, inbox \ {o}}
  /\ UNCHANGED <<envVars, clockVars, resetVars, epochVars, store, pc, request, lease, sentAt,
                 verdict, verifiedAt>>

-----------------------------------------------------------------------------
(* resetClockReference.                                                    *)

ResetSupported == Declaration # "undeclared"

\* A call while another one runs, or on a store without a declaration: refused
\* with an event, nothing else changes.
RejectReset ==
  /\ resets < MaxResets /\ resets' = resets + 1
  /\ Busy \/ ~ResetSupported
  /\ UNCHANGED <<envVars, clockVars, resetStep, replacement, epochVars, storeVars, opVars>>

\* busy is set, and the call yields once before it touches the clock.
EnterReset ==
  /\ resets < MaxResets /\ resets' = resets + 1
  /\ ~Busy /\ ResetSupported
  /\ resetStep' = "entered"
  /\ UNCHANGED <<envVars, clockVars, replacement, epochVars, storeVars, opVars>>

\* A wrong variant: the count of the old epoch is carried over.
MutInvalidate == activeEpoch' = Closed /\ UNCHANGED inFlight

\* epochs.invalidate: closed, and the old count is dropped.
Invalidate == activeEpoch' = Closed /\ inFlight' = 0

\* The sample cannot be a reference: the old epoch stays in force.
AbandonReset ==
  /\ resetStep = "entered" /\ ~ValidReference(clock)
  /\ SampleClock
  /\ resetStep' = "idle"
  /\ UNCHANGED <<envVars, replacement, resets, epochVars, storeVars, opVars>>

\* A wrong variant: every reset clears, whoever owns the store.
MutPrepareReset ==
  /\ resetStep = "entered" /\ ValidReference(clock) /\ lastEpoch < MaxEpoch
  /\ replacement' = CreateTracker(clock)
  /\ Invalidate
  /\ resetStep' = "cleared" /\ store' = EmptyStore
  /\ UNCHANGED <<envVars, clockVars, resets, lastEpoch, inbox, opVars>>

\* The old epoch is invalidated before the memory is cleared.
PrepareReset ==
  /\ resetStep = "entered" /\ ValidReference(clock)
  /\ lastEpoch < MaxEpoch
  /\ replacement' = CreateTracker(clock)
  /\ Invalidate
  /\ \/ /\ resetStep' = "cleared"
        /\ store' = IF Declaration = "process-clock" THEN EmptyStore ELSE store
     \/ /\ Declaration = "process-clock" /\ ClearMayFail
        /\ resetStep' = "clear-failed"
        /\ store' \in {store, EmptyStore}
  /\ UNCHANGED <<envVars, clockVars, resets, lastEpoch, inbox, opVars>>

\* A wrong variant: a clear that failed counts as done.
MutCommitReset ==
  LET observed == Track(replacement, clock) IN
  /\ resetStep \in {"cleared", "clear-failed"} /\ Healthy(observed, clock)
  /\ lastEpoch' = lastEpoch + 1 /\ activeEpoch' = lastEpoch + 1
  /\ tracker' = observed /\ Report(TRUE)
  /\ resetStep' = "idle"
  /\ UNCHANGED <<envVars, replacement, resets, inFlight, storeVars, opVars>>

\* The final sample against the prepared reference, and with it the commit.
CommitReset ==
  LET observed == Track(replacement, clock) IN
  /\ resetStep = "cleared" /\ Healthy(observed, clock)
  /\ lastEpoch' = lastEpoch + 1 /\ activeEpoch' = lastEpoch + 1
  /\ tracker' = observed /\ Report(TRUE)
  /\ resetStep' = "idle"
  /\ UNCHANGED <<envVars, replacement, resets, inFlight, storeVars, opVars>>

\* Every failure after the sample leaves the context closed but not busy: the
\* epoch numbers are exhausted, the clear rejected, the final sample is bad.
ResetFails ==
  \/ resetStep = "entered" /\ ValidReference(clock) /\ lastEpoch >= MaxEpoch
  \/ resetStep = "clear-failed"
  \/ resetStep = "cleared" /\ ~Healthy(Track(replacement, clock), clock)

FailReset ==
  /\ ResetFails
  /\ Invalidate /\ Report(FALSE)
  /\ resetStep' = "idle"
  /\ UNCHANGED <<envVars, tracker, replacement, resets, lastEpoch, storeVars, opVars>>

-----------------------------------------------------------------------------
OpStep(o) ==
  \/ AfterCrypto(o) \/ SkipReplay(o) \/ Dispatch(o) \/ Settle(o) \/ Regroup(o) \/ Complete(o)

ResetStep == AbandonReset \/ PrepareReset \/ CommitReset \/ FailReset

Next ==
  \/ Tick
  \/ \E kind \in ClockFaults : ClockFault(kind)
  \/ \E o \in Ops : Begin(o) \/ OpStep(o) \/ StoreApply(o) \/ StoreFails(o)
  \/ RejectReset \/ EnterReset \/ ResetStep

\* The event loop runs every continuation; owned memory answers within the
\* call, and an external store settles every consume command it was sent.
Fairness ==
  /\ \A o \in Ops : WF_vars(OpStep(o)) /\ WF_vars(StoreApply(o) \/ StoreFails(o))
  /\ WF_vars(ResetStep)

Spec == Init /\ [][Next]_vars
FairSpec == Spec /\ Fairness

-----------------------------------------------------------------------------
(* Properties.                                                             *)

\* The candidate consumed a nonce and was verified with it.
Protected(o) == verdict[o] = "verified" /\ reply[o] = "accepted"
SameNonce(o, p) == Identity(request[o]) = Identity(request[p])

\* Two verified requests that carry the same nonce of the same key were
\* verified in windows that do not meet; in particular no signature is verified
\* twice.  Owned memory promises this within one epoch (a reset forgets), an
\* external store for good.  (Retention by retainUntil, the order sample -
\* check - dispatch in consume, and the rechecks after each await.)
ReplayProtected ==
  \A o, p \in Ops :
    /\ o # p /\ Protected(o) /\ Protected(p) /\ SameNonce(o, p)
    /\ Declaration = "process-clock" => lease[o] = lease[p]
    => IF Declaration = "process-clock"
       THEN \/ verifiedAt[o] >= End(request[p])
            \/ verifiedAt[p] >= End(request[o])
       ELSE FALSE

\* The published number of operations in flight is the number of unfinished
\* verifications of the open epoch: no lease is counted twice, retired twice,
\* or counted into the epoch after the one that a reset cut off.
InFlightExact ==
  inFlight = Cardinality({o \in Outstanding : activeEpoch # Closed /\ lease[o] = activeEpoch})

\* A verification succeeds only while the epoch it began in is open, no reset
\* runs, and its window holds at the time it reports: whatever a reset or the
\* clock did during its awaits is noticed (the last gate of completeOperation).
VerifiedInOwnEpoch ==
  [][\A o \in Ops :
       verdict[o] # "verified" /\ verdict'[o] = "verified" =>
         /\ ~Busy /\ activeEpoch # Closed /\ lease[o] = activeEpoch
         /\ ~tracker'.regressed
         /\ InWindow(request[o].created, request[o].expires, verifiedAt'[o])
         /\ sentAt[o] <= verifiedAt'[o]]_vars

\* An epoch opens with a number no lease has ever carried and, for owned
\* memory, with an empty store: nothing of the old epoch survives into it.
FreshEpochStartsClean ==
  [][activeEpoch' # activeEpoch /\ activeEpoch' # Closed =>
       /\ \A o \in Ops : lease[o] < activeEpoch'
       /\ Declaration = "process-clock" => store' = EmptyStore]_vars

\* A clock that has moved between the sample before the cleanup and the one after
\* it is not activated: while the store was being cleared, the wall clock must
\* have kept pace with the monotonic one, which has not stepped back, and the
\* epoch measures time from the earlier pair, not from a new one
\* (security-context-controller.ts:304-325).
SteadyWhenOpened ==
  [][activeEpoch' # activeEpoch /\ activeEpoch' # Closed =>
       LET wallElapsed == clock.wall - replacement.refWall
           monoElapsed == clock.mono - replacement.refMono
       IN /\ clock.wallOk /\ clock.monoOk /\ monoElapsed >= 0
          /\ wallElapsed - monoElapsed \in -MaxDrift .. MaxDrift
          /\ tracker'.refWall = replacement.refWall
          /\ tracker'.refMono = replacement.refMono]_vars

\* A consumed nonce stays consumed until its deadline has passed, whatever
\* becomes of the verification that consumed it; only a reset clears it.
RetainedUntilDeadline ==
  [][activeEpoch' # Closed =>
       \A i \in Stored(store) : \/ store'.retain[i] = store.retain[i]
                                \/ store.retain[i] <= store'.lastNow]_vars

\* The store's own time check never fires: what the gate samples in an epoch
\* never runs backwards, so an open context never meets `now < lastNow'.
HighWaterHolds ==
  activeEpoch # Closed =>
    store.lastNow <= Effective(tracker, tracker.prevMono) \div TicksPerSecond

\* In owned memory the counters behind the quota, the lazy expiry and the two
\* limits agree with the entries after every consume and every clear.
StoreAccounting == Declaration = "process-clock" => Accounts(store)

\* A monotonic step back that the context has seen ends the trust in its clock
\* until a reset opens a new epoch.
RegressionSticks ==
  [][tracker.regressed /\ ~tracker'.regressed => activeEpoch' = lastEpoch + 1]_vars

\* The observer's last health event tells the flag the context works with, in
\* every interleaving of failed samples and resets.
ObserverInformed == told = healthy

\* The published state of the context agrees with its operations: the count in
\* flight, the health the observer knows, and the type of every variable.
ContextConsistent == TypeOK /\ InFlightExact /\ ObserverInformed

\* Owned memory never meets its own time check and never miscounts, so
\* neither limit refuses a nonce it could have stored.
StoreSound == HighWaterHolds /\ StoreAccounting

\* Only a reset that cleared what it owns, on a clock that stayed steady
\* meanwhile, ends a regression, and what it opens is a new epoch that inherits
\* nothing.
EpochsOpenClean == FreshEpochStartsClean /\ SteadyWhenOpened /\ RegressionSticks

\* The context keeps the promise of ReplayAdmission: what a reader of the
\* verdicts sees is admissions within generations.
Admission == INSTANCE ReplayAdmission WITH
  Forgets <- Declaration = "process-clock",
  generation <- lastEpoch, open <- activeEpoch # Closed, begun <- lease,
  admitted <- {o \in Ops : verdict[o] = "verified"},
  guarded <- {o \in Ops : Protected(o)},
  at <- verifiedAt
ImplementsAdmission == Admission!Spec

\* Every verify() call returns and every reset ends, whatever the clocks, the
\* store and the other calls do: no failure path leaves a call waiting or the
\* context busy for ever. Calls are finitely many here, so that they all end
\* says that each one does.
EveryCallEnds == []<>(Outstanding = {} /\ ~Busy)

=============================================================================
