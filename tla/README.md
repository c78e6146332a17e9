# A verification development for agentsig

TLA+ modules of agentsig (HTTP message signatures for web agents), the TLC runs
that check them on small instances, and theorems about them that TLAPS checks
for every value of the constants. `PROJECT.json` lists the components, the runs,
the source lines of every definition and the hazards; this file explains them.
Paths are relative to `src/packages/`.

## The system

agentsig verifies requests signed under RFC 9421 by web agents, and signs them.
It is a library in one JavaScript process per instance; what is concurrent in it
are promises: a `verify()` call suspends at each `await`, and other calls, timers,
resets and callbacks run in between.

| Component | State it keeps | Operations | Correct means |
|---|---|---|---|
| Security context (`core/src/profiles/security-context-controller.ts`, `operation-epochs.ts`) | open epoch, last epoch, leases, operations in flight, busy flag, health | begin, now, consume, complete, finish; reset of the clock reference | nothing verified across a reset; exact counts; a failed reset leaves it closed and retryable |
| Verification clock (`clock-tracker.ts`) | reference, previous monotonic reading, regression flag | observe | a regression sticks; time of an epoch does not run backwards |
| Time policy (`time-policy.ts`, `recovery-horizon.ts`) | none | check, retainUntil | a nonce is kept at least as long as its signature passes |
| Owned memory (`memory-replay-store.ts`) | entries, per-key counters, next expiry, last time | consume, clear | no nonce accepted twice before its deadline; counters agree with entries |
| External stores (`redis/`) | records, marker, quarantine in Redis | consume through a script | the same across processes, timeouts and data loss |
| Verification engine (`verification-engine.ts`, `candidate-replay.ts`) | one call's candidates | verify | no candidate disappears; evidence and time rechecked at the end |
| Fetch scheduler (`core/src/discovery/fetch-scheduler.ts`) | jobs, queue, active count, start times, timers | run, timers, worker ends | limits hold; every promise settles |
| Directory transport (`directory-transport.ts`) | shared deliveries | run | all profiles take a response or none, in time |
| Directory service and cache (`directory-service.ts`, `directory-cache.ts`) | tasks per origin; key sets, bytes, backoffs | refresh, resolve, recheck; commit, lookup, recordFailure | no key used after a newer set has removed it; one fetch per verification; backoff |
| Directory fetch (`fetch-directory.ts`, `dns-resolution.ts`, `address-policy.ts`, `pinned-tls.ts`, `proxy-tls.ts`, `directory-response.ts`) | sockets, timers | one fetch | settled once and in time; dials admitted hosts only; nothing leaks |
| Freshness and keys (`freshness.ts`, `jwks*.ts`, `public-jwk.ts`) | none | functions of a response | evidence never outlives what its headers say; only keys meant for verification |
| HTTP assessment and adapters (`core/src/http/assessment.ts`, `node-mapper.ts`, `express/`, `fastify/`, `hono/`) | assessment per request | assess, get | one decision per request; no late policy decision |
| HTTP mapping (`core/src/http/mapping.ts` and what it calls) | none | map | one target nothing in the request contradicts |
| Structured fields (`structured-fields/`) | parser position, counters | parse, serialize | the canonical form means what was parsed; limits hold |
| RFC 9421 core and the profiles' predicates (`core/src/*.ts`, `core/src/profiles/`) | none | signature base, headers, selection, coverage, metadata, bindings | verified means unaltered |
| Signer and signed fetch (`signer.ts`, `fetch/src/index.ts`) | the owned request | sign, fetch | what is sent is what was signed; nothing is sent after an abort |

Interactions: the engine calls the context (synchronously, or by awaiting
`consume`), the context calls its clocks, its store and its observer; the
observer may call back. The engine's network strategy awaits a directory service;
the services of the two profiles share one transport and its scheduler, which
calls the fetch worker; the transport calls back into both services to prepare
and commit a response. Each adapter awaits an assessment, which awaits the
verifier and then the application's policy. Signed fetch awaits a signer and
then a transport.

What is hard: everything that happens between two awaits of one call while
another call is half done; a reset of the clock reference in the middle of
verifications; clocks that jump, stop or run backwards; timers that fire late or
together with the event they guard; failures in the middle of a reset; a store
that answers after it was given up; a directory that removes a key while that
key is being used; sockets that open after their fetch has ended; header fields
that intermediaries rewrite. The list with lines is in `PROJECT.json` under
`hazards`.

## Modules

| Module | Models | Uses |
|---|---|---|
| `TimePolicy` | `time-policy.ts`, `recovery-horizon.ts`: operators over whole seconds | |
| `ClockTracker` | `clock-tracker.ts`: a tracker record and operators | |
| `MemoryReplayStore` | `memory-replay-store.ts`: a store record and operators | |
| `SecurityContext` | `security-context-controller.ts`, `operation-epochs.ts`, and `verify()` as far as it uses them | the three above |
| `ReplayAdmission` | the abstract promise of a context; refined by `SecurityContext` and `RedisReplay` | |
| `VerificationEngine` | `verification-engine.ts`, `candidate-replay.ts` for several candidates | `TimePolicy`; the context is a gate |
| `RedisReplay` | `redis/` with the context's check of the window before and after | refines `ReplayAdmission` too |
| `FetchScheduler` | `fetch-scheduler.ts` | |
| `DirectoryCache` | `directory-cache.ts`: a cache record and operators | |
| `DirectoryDiscovery` | `directory-service.ts`, `directory-transport.ts`, the awaits of `network-candidate.ts` | `DirectoryCache`; the scheduler is its environment |
| `AddressPolicy` | `address-policy.ts` | |
| `DirectoryFetch` | `fetch-directory.ts`, `fetch-configuration.ts`, `dns-resolution.ts`, `pinned-tls.ts`, `proxy-tls.ts`, `directory-response.ts` | `AddressPolicy` |
| `Freshness`, `Jwks` | `freshness.ts`; `jwks.ts`, `jwks-algorithm.ts`, `jwks-usage.ts`, `public-jwk.ts` | |
| `DirectoryEvidence` | what a cache makes of a response: the composition of a fetch with freshness and keys | the three above |
| `HttpMapping` | `http/mapping.ts`, `snapshot.ts`, `forwarding.ts`, `authority.ts`, `configuration.ts` | |
| `HttpAssessment` | `http/assessment.ts`, `node-mapper.ts`, the adapters | `HttpMapping` |
| `StructuredFields` | `parser.ts`, `parse.ts`, `serializer.ts`, `decimal.ts`, `limits.ts` | |
| `FieldParser` | all field values up to a length, read lexeme by lexeme | `StructuredFields` |
| `HttpSignatures` | RFC 9421: `headers.ts`, `uri.ts`, `signature-base.ts`, `signature-input.ts`, `crypto.ts` | `StructuredFields` |
| `WebBotAuth` | `candidates.ts`, `duplicates.ts`, `agent-header.ts`, `coverage.ts`, `component-support.ts`, `metadata.ts`, `agent-bindings.ts`, `candidate-evaluation.ts` | `HttpSignatures`, `TimePolicy` |
| `Signer`, `SignedFetch` | `signer.ts`, `signing-*.ts`; `fetch/src/index.ts`, with the network and a verifier behind it | `WebBotAuth` |
| `MC...` | values for TLC | |
| `SecurityContextProofs` | theorems about the context, its store and its refinement | `SecurityContext`, and through it `MemoryReplayStore`, `ClockTracker`, `TimePolicy` and `ReplayAdmission` |
| `VerificationEngineProofs`, `RedisReplayProofs`, `FetchSchedulerProofs` | theorems about one module each | the module of that name |
| `DirectoryDiscoveryProofs` | theorems about refreshes, verifications and their caches | `DirectoryDiscovery`, `DirectoryCache` |
| `HttpAssessmentProofs` | theorems about an assessment and the mapping of its request | `HttpAssessment`, `HttpMapping` |
| `SignedFetchProofs` | a theorem about what is sent | `SignedFetch`, `Signer` |
| `DirectoryEvidenceProofs` | theorems about a fetch and its evidence | `DirectoryEvidence`, and through it `DirectoryFetch`, `AddressPolicy`, `Freshness`, `Jwks` |

Definitions named `Mut...` are wrong variants of the definition that follows
them. Nothing uses them; with one of them in place of the right definition the
property it is meant for fails, which shows that the property can fail.

### The security context

An action is the code between two awaits. The gates (`currentTime`, that is
requireOpen, assertCurrent, a sample, and both again) are the operators `Current`,
`SampleClock` and `Passes`, and each action of an operation takes the gate the
code takes at that place.

| Action | Code |
|---|---|
| `Begin` | `verify()` up to its first await: `beginOperation`, static checks |
| `AfterCrypto` | after the cryptography: gate, window |
| `SkipReplay` | a candidate without a nonce |
| `Dispatch` | `consume` up to the await of the store; owned memory answers here, in the same task |
| `StoreApply`, `StoreFails` | an external store applies or loses the call, at any later time |
| `Settle` | `consume` after its await |
| `Regroup` | `candidate-replay.ts`: the reply is turned into a result |
| `Complete` | `completeOperation`, the final check and the return |
| `EnterReset`, `RejectReset` | `resetClockReference` up to its await, and its refusals |
| `PrepareReset` | sample, new tracker, invalidation of the epoch, and the clearing of owned memory |
| `AbandonReset` | no usable sample: the epoch stays |
| `CommitReset`, `FailReset` | final sample, activation; or a failure at any point after invalidation |
| `Tick`, `ClockFault` | the two clocks of the host: time, steps, outages |

The observer's callbacks are calls to the context while `delivering` is set;
each is refused by `requireOpen`. That is why an action that emits an event stays
one action.

### Requests with several candidates

`SecurityContext` follows one candidate of a request through everything the
context does. `VerificationEngine` follows all of them, with a context that is
only open or closed. `Evaluate` and `Evaluated` judge one candidate after the
other; `EndsAmbiguous` and `Groups` are what follows the loop; `Consume`,
`StoreAnswers`, `Settle` and `GroupFails` admit one group of candidates that share
a nonce; `Finish` is the final check. Rejections for reasons that are not time,
context or evidence are nondeterministic here; `WebBotAuth` has those reasons.
The record's field `by` is a ghost.

### The Redis store

The server runs one action for each command, and each is an outcome of the
script: `ScriptFails`, `ScriptQuarantines`, `ScriptMismatches`, `ScriptWaits`,
`ScriptReady`, `ScriptRefuses`, `ScriptAccepts`. It may do so at any time after
the command was sent (`wire` is `travelling`), also when the client has given up,
or never. `Setup` and `Consume` send commands; `Receives` and `TimesOut` are the
two ways in which `runRedisCommand` ends. An epoch is a number: `epochs` counts the
proposed epochs that the script has adopted, and each is a new one, as 128 random
bits are. `Leftovers` are the configurations of states that an earlier deployment
may have left in the server, in epoch 0.

The server's clock is the verifiers' plus `offset`. Ticks divide a millisecond,
so that a reading rounded down (`ServerNow`) differs from one rounded up
(`DeadlineBase`). `ServerLoses` removes keys. Loss of a part and a state that does
not parse look alike to the script: neither is `Consistent`. The ghost field `by`
of a record says whose nonce it is. The eviction policy that `Setup` inspects is
not kept as state; a setup may fail.

In `SecurityContext` the external store keeps every nonce it has accepted;
`RedisReplay` shows for this store that the deadline and the quarantine are
enough for what `ReplayAdmission` promises.

### The fetch scheduler

`turn` says whether the event loop is idle, in an iteration of `#pump`'s loop or
about to run `#execute`; nested pumps are counted in `frames`. Time may pass
between any two steps, within a task too, since `#pump` and `#execute` read the
clock for themselves. `DeadlineTimer` and `WakeTimer` may be late and never
early. `WorkerEnds` may come at any time after its start, or never. `Lags` is
what a caller has spent of its own deadline before it calls `run`. `#queue` is the
set of the queued jobs: jobs are numbered as they are made, so that its order is that
of their numbers (`First` is the job that `#pump` takes), and a removal from its middle
is a difference of sets. `Late` are the jobs that `#pump` finds past their deadline,
`Stale` and `Recent` what `#prune` drops and keeps.

### Directory discovery

`task[p][o]` is the promise in `#pending` of profile `p`'s service, from the call
(`created`) over the shared fetch (`waiting`) to its answer (`arrived`).
`flight[o]` is the scheduler's job, `dead` when its promise has failed and its
worker has not ended. A response is first prepared by all profiles (`Prepare`)
and then committed (`CommitDelivery`); only time and the clock move in between,
because that code is synchronous.

A verification goes through `resolving`, `fetching`, `fetched`, `crypto` for each
of its candidates and through `consuming` after the last; these are its awaits.
Reasons to reject a candidate that have nothing to do with discovery are one
nondeterministic action, `Rejects`. Three histories exist for the properties
only: `latest` (the last valid set delivered), `failedAt` and `untold`.

### One fetch, and what its response is worth

`DirectoryFetch` is the worker that the scheduler starts. Its three phases (`dns`,
`conn`, `reader`) are records that settle by themselves: by their events, by their
timers, or by the signal that `fetchDirectoryOnce` aborts. `raced` is what the
`Promise.race` of the phase that is awaited will yield, its own promise or
`stopped`; `AfterResolve`, `AfterConnect` and `AfterRead` are the code after each
race, and `Finish` the `finally` block. `raw` and `tls` are the sockets; a
connection through a proxy that is still being opened when its connector fails
becomes an `orphan` that may open later (`LateTunnel`). The network's actions may
happen in any order, whether or not anyone waits for them. DNS is the exception
that the code documents: its timer of at most a second survives the fetch.

`AddressPolicy` computes with octets of `OctetBits` bits; the properties compare
it with the number that a text denotes, digit by digit, and with intervals.

`DirectoryEvidence` adds the headers and the document of the response. Each
response has a true age: when it was generated, when it left the server or a cache
after the request began, and by how much the two wall clocks differ. `Prepare` is
`parseDirectoryDocument` for both formats, with `Freshness` and `Jwks`.

### A request of a framework

A *caller* of `HttpAssessment` is one installation of the middleware that handles
one request; several may handle the same request. `Dispatch` is the mapper's
listener, which captures a request; `Assess` the call of `assess`, which registers
the shared state before anything else runs; `Evaluate`, `VerifierAnswers`,
`PolicyReturns`, `TimerFires` and `Decide` the code between the awaits of
`evaluate`; `React` one reaction to the settled promise, in the order in which they
were attached (the first records the outcome that `get` returns). Hono converts the
request after its assessment: `ConversionFails` and `HonoMiddleware`. A value that
`ownedCopy` copies is represented by its depth.

`HttpMapping` is `mapHttpSnapshot` as a function, with every rejection in its order;
header values are tokens (an authority, a list, an address, a number, a word, the
pairs of `Forwarded`, a value with a control character, or junk), and each header has
its length, so that the limits of the snapshot are checked header by header, as the code
checks them.

### From signing to verification

`StructuredFields` works on lexemes. `Read` is one move of the parser; numbers have
their digits, because width and rounding matter. The serializer is `Serialize`, with
its checks (`ValidField`) and counters (`Fits`). `FieldParser` enumerates every field
value by reading one lexeme more.

`HttpSignatures` builds signature bases of such lexemes; a request's header is a
sequence of them, with folded lines, non-ASCII bytes and control characters as
lexemes of their own. The Ed25519 signature is ideal: the key and the base it was
made of. `WebBotAuth` is what a profile adds, as functions that return the reason of
the rejection in the order in which the code checks; `Judge` and `Verify` are
`verify()` for a request whose context is open and whose replay store accepts.

`SignedFetch` runs it end to end: `Fetch` is `createSignedFetch` up to the await of the
signer, `SignerAnswers` the signer of core or one of the application, `Continue` what
follows; `SignDirectly` is an application that calls `sign` itself. `Abort` may
come in every await. Then intermediaries alter the request: `AlterHarmlessly` as HTTP
lets them (order of fields with different names, lines of a field combined, spaces,
folding; a fold in `Signature-Input` or `Signature` counts as a change of content, as the
code reads these two without the version of HTTP), `AlterContent` as it does not; and `Arrive` is the verifier.

## Runs

Every property of a passing run has a mutant in `PROJECT.json`. Nine of them are
conjunctions of named parts: `ContextConsistent`
(types, `InFlightExact`, `ObserverInformed`), `StoreSound` (`HighWaterHolds`,
`StoreAccounting`), `EpochsOpenClean` (`FreshEpochStartsClean`, `SteadyWhenOpened`,
`RegressionSticks`),
`SchedulerConsistent` (types, `SlotsExact`, `NoLostWakeup`, `ClockLossSettles`),
`RatesHold` (`StartRate`, `OriginCooldown`), `DiscoveryConsistent` (types,
`CacheExact`, `OneFetchPerInvocation`), `EvidenceSound` (`EvidenceCurrent`,
`CommitsInTime`), `CallsConsistent` (types, `NoSelfReplay`, `AmbiguitySpendsNothing`),
`PolicyDecides` (`GrantJustified`, `AbandonedPolicyTold`).

| Run | Shows | Bounds, and why they do |
|---|---|---|
| `context_memory` | `ContextConsistent`, `StoreSound`, `ReplayProtected`, `VerifiedInOwnEpoch`, `EpochsOpenClean`, `RetainedUntilDeadline` | Owned memory, two operations, requests with the same nonce in overlapping windows and with another; quota 1, so that a miscount shows at once; three seconds, so that a nonce expires; two resets and two epochs, one step of a clock (the wall clock forward within its drift, the monotonic one back) and a clearing that may fail: an operation can outlive its epoch, a failed reset can be retried, the epochs run out, and a jump or a regression can fall into each step of a reset, also between the samples before and after the cleanup. |
| `context_external` | `ImplementsAdmission`, `EveryCallEnds` | A store that survives resets, loses calls and answers late; two operations whose requests are good, without a nonce, forged or malformed; two resets, a step of the wall clock back beyond its drift, or an outage that ends at any step: a reset that failed on it is tried again, and one answer of the store can outlive the epochs. What a failing clearing of owned memory leaves behind is in `context_memory`, under safety. |
| `engine_groups` | `CallsConsistent`, `NonceCoversGroup`, `NeverStuck` | Two calls; requests of one and of three candidates, two of which share a nonce with another between them; one fault of the context or of the evidence. Time reaches the end of the earlier candidate's retention. |
| `redis` | `RecordsSound`, `AdmitsOnce`, `KeptThroughWindow`, `NoNeedlessQuarantine` | One adapter and two operations: what several adapters share is the server's state, and a state of another configuration (`Leftovers`) stands for theirs. Two signatures of one nonce whose windows overlap and another nonce of the key with a quota of one; half milliseconds, and a server whose clock is one ahead; one fault, a loss of a part, of everything, or a step back, at any moment; time goes on until the quarantine after a loss at the first possible admission has ended, and the window with it. |
| `scheduler` | `SchedulerConsistent`, `RatesHold`, `EveryJobSettles` | Three jobs, three origins, two workers, one start per window, a queue of two and a table of two: every limit is reached, one origin is asked for again within its cooldown, callers have spent part of their time, workers may hang, and the clock breaks once at any step. |
| `discovery_evidence` | `EvidenceSound`, `EveryTaskEnds` | Two profiles, one origin, one verification and one refresh by the application, one clock fault; responses with the key, without it, not to be stored, too large, valid for one profile. Two fetches suffice for a set and its removal while a verification uses it. |
| `discovery_cache` | `DiscoveryConsistent`, `BackoffHolds` | Two origins, a cache of two bytes and two entries, a failure table of one, and as much time as a backoff takes: eviction, replacement and the overflow of the table all happen. No clock fails here: that the accounts survive that, too, is what `DiscoveryIsConsistent` proves. |
| `directory_fetch` | `DialsOnlyAdmitted`, `NothingLeaks`, `ResponseInTime`, `FetchEnds`, `EvidenceNeverOverstays`, `SelectedKeysSound` | Addresses of four and eight bits, so that prefixes, an exception on either side of them, the envelope and mapped addresses all fit; answers of none to three addresses of the right and the wrong family; a total time that ends before, with and after those of the phases. Half seconds for freshness, so that rounding of ages shows; documents of up to three keys, where two are allowed. |
| `http_assessment` | `OneDecision`, `PolicyDecides`, `ContextReadable`, `OneTarget`, `EveryCallerAnswered` | One request, for nothing is shared between requests; two callers with the same and with different options and adapters; a policy limit of two milliseconds. `OneTarget` ranges over the mapper's configurations and requests of `MCHttpAssessment`: a peer within and outside the trusted ranges; hosts, protocols and ports claimed once, twice, by both families and in contradiction; encrypted and plain connections; requests at and beyond each limit of the snapshot. |
| `structured_fields` | `CanonicalForm`, `RawBounded`, `LastValueWins`, `DecimalsRound` | All values of up to ten lexemes of nine frequent ones with at most one of 27 rare ones: enough for an inner list with a parameter inside a list, for a dictionary key that is given twice, and for each limit to be exceeded by one. Limits are 2 to 4, and a decimal has one digit before its point in place of twelve. |
| `signing` | `VerifiedMeansUnaltered`, `UnalteredVerifies`, `SendsOnce` | Requests with repeated, folded, structured, keyed and byte-wrapped fields, both profiles, four ways of signing, eight shapes of what an application's signer may return, and two alterations in transit: one that undoes or hides another needs two. A component with a key covers one member of its field only: an intermediary may add another member of the agent's dictionary, in a line of its own, and the request is still verified; `Says` compares what is covered. |
| `discovery_events` | violated: `OneEventPerRefresh` | See Findings. |

Deadlock is not checked: every model has terminal states, in which all calls have
returned and the bounds on time and faults are used up.

Symmetry is used in runs that check no liveness property, over operations and calls,
which no definition tells apart.

### Fairness

Weak fairness, on code that is ready to run (the continuation of an await whose
promise has settled, due timers) and on the passing of time. That is what an
event loop gives. It is not assumed that a worker of the scheduler ends, that a
directory, a proxy or a resolver responds, that a policy or a verifier answers, or that
anyone resets the clock. Three points need a word:

- `EveryCallEnds` assumes that an external store settles each call, with an answer or an
  error; `SecurityContext` has no timeout of its own, and the adapter of Redis does
  settle (`runRedisCommand` has one).
- `FetchEnds` assumes fairness of the total timer alone, not of the timers of the phases,
  which only makes it stronger.
- `EveryCallerAnswered` has the verifier's silence as an exception in its statement, as
  `assess` does not limit it.

For the engine, `NeverStuck` takes the place of a liveness property: a call that has
begun can take a step in every state, and each step resolves or judges a candidate, or
ends the call.

## Findings

`discovery_events`: the comment at `core/src/discovery/directory-service.ts:183`
says that all callers of a refresh share exactly one event. When the clock is
lost, or the deadline passes, between `refresh()` and the first step of the task
it registers, `#refresh` returns at line 197 before it emits: the callers get
their result and the observer gets nothing.

## Proofs

The theorems hold for all sets of operations, calls, jobs, requests and adapters, all
policies and limits, all clock readings and any number of faults. They assume what
the modules' `ASSUME`s say, which TLC evaluates in the runs: limits are numbers, and
positive where the code rejects zero; inputs have the shape their parser gives them, headers
come in a row; the
model values that stand for "nothing" (`None`, `Never`) are different from what they are
told apart from. One theorem has a hypothesis of its own (`DialsOnlyAdmittedHolds`, below).

| Theorem | States | Module it is about |
|---|---|---|
| `ConsistencyCorrect` | `ContextConsistent` is an invariant: types, the count in flight, what the observer knows | `SecurityContext` |
| `StoreCorrect` | `StoreSound` is an invariant | |
| `ReplayCorrect` | `ReplayProtected` is an invariant | |
| `EpochsCorrect` | every step satisfies `EpochsOpenClean`: new number, empty store, steady clock, and no other end of a regression | |
| `VerifiedCorrect`, `RetentionCorrect` | every step satisfies `VerifiedInOwnEpoch`, `RetainedUntilDeadline` | |
| `AdmissionCorrect` of `SecurityContextProofs` | `Spec => ImplementsAdmission`: the safety part of the refinement | |
| `CallsCorrect` | `CallsConsistent` is an invariant | `VerificationEngine` |
| `GroupCovered` | every step satisfies `NonceCoversGroup` | |
| `RecordsCorrect` | `RecordsSound` is an invariant | `RedisReplay` |
| `KeptCorrect`, `QuarantineCorrect` | every step satisfies `KeptThroughWindow`, `NoNeedlessQuarantine` | |
| `AdmissionCorrect` of `RedisReplayProofs` | `Spec => AdmitsOnce`: Redis implements `ReplayAdmission` | |
| `SlotsCorrect` | `SchedulerConsistent` is an invariant | `FetchScheduler` |
| `RatesCorrect` | `RatesHold` is an invariant | |
| `DiscoveryIsConsistent` | `DiscoveryConsistent` is an invariant: types, the caches' accounts and limits, one fetch for each verification | `DirectoryDiscovery` |
| `EvidenceIsSound`, `BackoffIsHeld` | every step satisfies `EvidenceSound`, `BackoffHolds` | |
| `OneDecisionHolds`, `PolicyDecidesHolds`, `ContextReadableHolds` | `OneDecision`, `PolicyDecides`, `ContextReadable` are invariants | `HttpAssessment` |
| `OneTargetHolds` | `OneTarget` is an invariant: one Host; behind an ingress a trusted peer and no forwarding claim about host, protocol or port that differs from the target; otherwise the Host on the connection as it is | |
| `SendsOnceHolds` | every step satisfies `SendsOnce` | `SignedFetch` |
| `EvidenceIsFetch` | every behaviour of `DirectoryEvidence` is one of `DirectoryFetch` | `DirectoryEvidence` |
| `NothingLeaksHolds`, `DialsOnlyAdmittedHolds` | `NothingLeaks`, `DialsOnlyAdmitted` are invariants | |
| `ResponseInTimeHolds` | every step satisfies `ResponseInTime` | |
| `SelectedKeysHold`, `EvidenceNeverOverstaysHolds` | `SelectedKeysSound`, `EvidenceNeverOverstays` are invariants | |

In each module an inductive invariant (`IInv`, `FetchInv`, `SInv`, `CapturedInv`) is proved from `Init`, and
preserved with one step for each action; the theorems follow from it.

*The context's invariants* (`SecurityContextProofs`). They are not inductive one by
one. The inductive one, `IInv`, conjoins

- `TypeOK`, and `LeaseInv`: no lease carries a number beyond the last epoch, the
  open epoch is the last;
- `InFlightExact`;
- `ResetInv`: what each step of a reset implies for the epoch, the store and the
  replacement tracker (this carries `FreshEpochStartsClean` and `SteadyWhenOpened`);
- `ClockInv`: readings, references and the time of an epoch are ordered, and the
  store's last time is not ahead of them (`HighWaterHolds`);
- `StoreAccounting`;
- `OwnedInv`: in owned memory, an operation that consumed a nonce in the open
  epoch either still has it in the store, or the nonce's deadline has passed in
  the time of the epoch;
- `ExternalInv`: an external store never loses the identity of an operation whose
  call it accepted, and accepted it for one operation only.

`ReplayCorrect` then follows from `OwnedInv` and `ExternalInv` by the
arithmetic of `TimePolicy`: the deadline `max(created, now) + maxAge + skew` is
not before the end of any window the request has.

*Refinement* (`SecurityContextProofs`). The step that admits needs `AInv`, which adds to
`IInv` that a reply is only there for an operation that asked for it (`ReplyInv`)
and that a consumption was sent no later than the clock reads (`SentInv`).

*The engine* (`VerificationEngineProofs`). `NoSelfReplay` is not inductive: it needs to know
that the candidates with one nonce are settled together, so that no `consume()` for
them can follow (`OneGroup`), and what a call has done in each phase (`Progress`).
`NonceCoversGroup` needs that the retention that is sent covers the latest member of its
group (`RetentionCovers`, from the set of ready members that `retainUntil` is the maximum
of) and that what was accepted is still in the store while it counts (`Kept`): a reset
forgets the store and ends the calls of its epoch together.

*Redis* (`RedisReplayProofs`). `PairInv` says that of two operations with one nonce that
the server accepted, one's window is over. It needs `KeptInv`: from the acceptance of a
nonce to the end of its window there is a record of it that reaches so far, or a quarantine
that does, or a key is missing, in which case the next command begins one. That a new
quarantine reaches far enough is the argument for the recovery horizon: an accepted nonce's
window ends within a horizon of any time at which it can be found lost. `Reaches`
compares the server's deadlines, in milliseconds rounded up, with the verifiers' seconds
through the offset of the two clocks; `Division` and the lemmas after it are the rounding.
`KeysInv` (keys that are there belong together; the last time is not ahead of the clock
before a fault) is what makes a state that the script has written pass the script's own
checks, which is `NoNeedlessQuarantine`. `RecordsInv` counts records by key.

*The scheduler* (`FetchSchedulerProofs`). `SlotsInv` adds to `SchedulerConsistent` that
queue, phases and origins agree (`JobsInv`) and that `#execute` runs with a job that holds a
slot (`TurnInv`). `StartRate` is about windows that begin at any dispatch, `#starts` about
the one that ends now. `StartsRecorded` connects them: of the dispatches since any time
within the window, all are recorded, behind the older records; that is what pruning
from the front preserves. `OriginCooldown` needs that pruning the table keeps the records
that are still needed (`CooldownRecorded`) and that a job that waits in the queue is for an
origin that had cooled down when it was made (`QueuedCool`), as `#pump` does not look again.

*Discovery* (`DirectoryDiscoveryProofs`). `IInv` conjoins

- `Typed`, and `Spending`: a verification's fetches are counted where its budget was spent;
- `CachesExact`: the bytes of a cache are the sum over its entries. The sum is a recursive
  function over prefixes; what removal of an entry and eviction of the oldest do to it
  (`SizesAdds` and the lemmas after it) is proved by the least place at which it would fail;
- `HeldIsLatest`: what a cache that trusts its clock holds for an origin is the latest set that
  was delivered for it. A set that is not kept still removes the older one, and eviction only
  removes. `EvidenceCurrent` follows, as the last gate looks at the cache again for each candidate;
- `BackoffKept`: while an origin's last failure is within its period, its entry in the table or the
  backoff of all reaches as far, or its cache is no longer healthy. Pruning drops only what has
  ended, and no deadline becomes an earlier one.

*An assessment* (`HttpAssessmentProofs`). `EntryInv` of each request's entry: verifier and
policy have run once at most for the phase it is in (`Once`), the race's result against the
state of the policy it raced with (`Raced`), what justifies a grant (`Granted`), and that the
recording of the outcome is the first reaction, before that of any caller (`Reacts`).
`AnswerInv` says that a caller's answer is the outcome of its request, which by `Stays`
never changes once it is there.

*The target of a request* (`HttpAssessmentProofs`). `CapturedInv` says that what is captured and
not refused is a result of the mapper; `MappedSettles` is about that function, for every
sequence of headers. What the mapper has collected under a name (`Values`) is a recursive
function of the headers; `ValuesPushed` shows by the least place at which it would fail that it
is empty if no header has the name, and the value of the only one if it has one element. Hence host and
protocol of the target are what the only header that makes such a claim says (`ForwardedClaims`,
`OnlyClaims`), since the other family is absent, and the port is that of the host
(`ForwardedAgrees`, `XForwardedAgrees`). That the peer is trusted is the first thing
`IngressTarget` asks; without an ingress no such header is read.

*What is sent* (`SignedFetchProofs`). `SInv` says that until something is sent the wrapper's request is that
of the call, and once a signer has it, without signature headers of its own: a `Headers` object
has the names of what it was made of (`FetchHeadersFacts`). Three headers whose names are the
three signature names have each once, whoever made them (`AddedFacts`). Nothing of what a
signature base computes is needed.

*A fetch* (`DirectoryEvidenceProofs`). `FetchInv` says for each phase which sockets, timers and
results there may be (`Awaited`, `Stopped`, `Quiet`, `Settled`), which answers
the resolution stands for (`Resolved`) and what the connector was told (`Dialled`). A phase
runs only while it is awaited and the race is open, but for DNS; hence a fetch that
ends has nothing to close but what `Finish` closes. It is proved for `DirectoryFetch` and
reaches `DirectoryEvidence` by `EvidenceIsFetch`.

`DialsOnlyAdmittedHolds` adds the policy: an address that `Allows` lets through is within no
excluded prefix, or within an exception, as intervals of numbers. Its hypothesis `TextsDenote`
says that `ParseAddress` computes for each text of the instance the number it denotes, and
that a power of two is a positive number. Both are inductions, over digits and exponents,
and therefore outside this prover; `MCDirectoryFetch` assumes the same formula, so that TLC
evaluates it for the texts and widths of the run.

`EvidenceNeverOverstaysHolds` follows `calculateDirectoryFreshness` for every sequence of header
fields. A cached age is never less than the true one as far as headers and the local wall
clock tell (`Timely` gives the times of the request and its response), so that the
lifetime that remains, rounded down, ends before that of each directive. `Sober` states it
for all times. `SelectedKeysHold` needs `Parsed`: what is kept for both formats was read from
the same document.

Left to TLC:

- liveness (`EveryCallEnds`, `EveryTaskEnds`, `EveryJobSettles`, `FetchEnds`,
  `EveryCallerAnswered`) and `NeverStuck` (ENABLED), which are outside the prover's reach;
- `CanonicalForm`, `RawBounded`, `LastValueWins`, `DecimalsRound`, `VerifiedMeansUnaltered` and
  `UnalteredVerifies`: what parsers, serializers and signature bases compute, by folds and
  recursion over sequences, would need induction over data. `FieldParser` and the modules of
  signing are compared with reference definitions over all inputs within bounds instead.

## Not modelled

- *Text, character by character.* Which characters a key, token, string or URL may have,
  the alphabet of base64 and of nonces, the limits that count bytes (but for those of the
  mapper's snapshot), the JSON parser. A
  text that is well-formed is a value, one that is not is a value of its own.
- *Cryptography* is ideal in `HttpSignatures` and a nondeterministic result elsewhere;
  certificates are what their checks say.
- *JavaScript's objects*: own data properties, accessors, freezing and copying of options.
  Where a refusal depends on it, the input has a flag (`plain`).
- *Responses* and the `req` parameter in RFC 9421: no profile signs or verifies them.
- *Frameworks*: what Express, Fastify and Hono do with a hook, a handler or an error.
- *The registry* that gives the services of one process one transport, and calls of a
  service from its own observer.
- *Two risks that `replay-script.ts` accepts* (lines 12 and 13): a server clock that steps
  forward, and a rollback to an older but complete state; and the bounds on the size of
  a state.
- *Result and error codes* as declarations, *scripts* and *fixtures*: no behaviour of the
  program.

## Plan

Every module of the inventory is written, and every property of the runs that is not left to TLC above
is a theorem. What would add most from here:

1. Limits and orders of `StructuredFields` for values of any length, by the least-place argument of
   `ValuesPushed`, once its recursive operators are recursive functions.
2. The evaluation of a request that nothing has altered (`UnalteredVerifies`), which needs the parser to
   undo the serializer.
