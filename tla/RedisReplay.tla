----------------------------- MODULE RedisReplay -----------------------------
(***************************************************************************)
(* The Redis replay store of packages/core/src/redis: the script that one  *)
(* Redis server runs for all adapters (replay-script.ts), the commands     *)
(* that carry it, with their timeouts (command.ts), and the adapters       *)
(* (replay-store.ts, configuration.ts, consume-input.ts).                  *)
(*                                                                         *)
(* The server can lose any of the three keys and its clock can step back.  *)
(* Not modelled, and accepted risks of the source: a clock that steps      *)
(* forward, and a rollback to an older but complete state.                 *)
(*                                                                         *)
(* Time is counted in ticks, a few to a millisecond (the source has a      *)
(* thousand), so that the rounding of the script can be seen.              *)
(***************************************************************************)
EXTENDS TimePolicy, FiniteSets

CONSTANTS
  Ops,             \* consume() calls
  Requests,        \* [scope, key, nonce, created, expires]
  Adapters,
  Config,          \* adapter |-> [horizon, capacity, quota], horizon in seconds
  Leftovers,       \* configurations under which a state may be there already
  None,
  Ticks,           \* per millisecond
  Millis,          \* per second
  Timeout,         \* 100 ms, in ticks
  Losses,          \* sets of keys that may be lost together
  Offsets,         \* how far the server's clock may be ahead at first, in ticks
  StepsBack,       \* how far it may step back
  MaxTime,         \* bound: the clock
  MaxFaults        \* bound: losses of data and steps back of the server's clock

\* The document under the third key.  by is for the properties; the script does
\* not store it.
Identities == {[scope |-> r.scope, key |-> r.key, nonce |-> r.nonce] : r \in Requests}
Records == [identity : Identities, deadline : Nat, by : Ops]
States ==
  [epoch : Nat, until : Nat, detectedAt : Nat, lastTime : Nat,
   config : Leftovers \cup {Config[a] : a \in Adapters}, records : SUBSET Records]

\* The operator's duty: no horizon is shorter than that of the time policy.
ASSUME RedisReplayAssumption ==
  /\ Ops \cap Adapters = {}
  /\ \A a \in Adapters : /\ Config[a].horizon \in Nat /\ Config[a].horizon >= RecoveryHorizon
                         /\ Config[a].capacity \in Nat /\ Config[a].quota \in Nat
  /\ \A config \in Leftovers : /\ config.horizon \in Nat /\ config.capacity \in Nat
                              /\ config.quota \in Nat
  /\ None \notin Nat \cup States
  /\ \A r \in Requests : r.created \in Int /\ r.expires \in Int
  /\ Ticks \in Nat \ {0} /\ Millis \in Nat \ {0} /\ Timeout \in Nat \ {0}
  /\ Losses \subseteq SUBSET {"epoch", "until", "state"}
  /\ Offsets \subseteq Nat /\ StepsBack \subseteq Nat \ {0}
  /\ MaxTime \in Nat /\ MaxFaults \in Nat

VARIABLES
  time,            \* of the verifiers, in ticks
  offset,          \* the server's clock minus that
  losses, steps,
  epochs,          \* how many proposed epochs were adopted
  epochKey, untilKey, stateKey,   \* the three keys in Redis
  request,
  via,             \* the adapter an operation uses
  sampled,         \* nowEpochSeconds of its input
  phase,           \* of an operation or an adapter
  started,         \* when its command was started
  wire,            \* what became of its command
  reply,           \* the answer that waits for its client
  verdict, verifiedAt

serverVars == <<epochs, epochKey, untilKey, stateKey>>
faultVars == <<offset, losses, steps>>
commandVars == <<phase, started, wire, reply>>
opVars == <<request, via, sampled, verdict, verifiedAt>>
vars == <<time, faultVars, serverVars, commandVars, opVars>>

Clients == Ops \cup Adapters
Replies == {"none", "accepted", "replayed", "per-key-quota-exceeded", "ready", "quarantine",
            "configuration-mismatch", "unavailable"}

TypeOK ==
  /\ time \in Nat /\ offset \in Nat /\ losses \in Nat /\ steps \in Nat
  /\ epochs \in Nat /\ epochKey \in Nat \cup {None} /\ untilKey \in Nat \cup {None}
  /\ stateKey \in States \cup {None}
  /\ request \in [Ops -> Requests] /\ via \in [Ops -> Adapters] /\ sampled \in [Ops -> Nat]
  /\ phase \in [Clients -> {"idle", "waiting", "usable", "consumed", "done"}]
  /\ started \in [Clients -> Nat]
  /\ wire \in [Clients -> {"none", "travelling", "executed"}]
  /\ reply \in [Clients -> Replies]
  /\ verdict \in [Ops -> {"none", "verified", "refused"}] /\ verifiedAt \in [Ops -> Nat]

\* What the first command of an earlier deployment wrote just now.
LeftState(config) ==
  [epoch |-> 0, until |-> config.horizon * Millis, detectedAt |-> 0, lastTime |-> 0,
   config |-> config, records |-> {}]

Init ==
  /\ time = 0 /\ offset \in Offsets /\ losses = 0 /\ steps = 0 /\ epochs = 0
  /\ \/ epochKey = None /\ untilKey = None /\ stateKey = None
     \/ \E config \in Leftovers :
          /\ stateKey = LeftState(config)
          /\ epochKey = stateKey.epoch /\ untilKey = stateKey.until
  /\ request \in [Ops -> Requests] /\ via \in [Ops -> Adapters]
  /\ sampled = [o \in Ops |-> 0]
  /\ phase = [c \in Clients |-> "idle"] /\ started = [c \in Clients |-> 0]
  /\ wire = [c \in Clients |-> "none"] /\ reply = [c \in Clients |-> "none"]
  /\ verdict = [o \in Ops |-> "none"] /\ verifiedAt = [o \in Ops |-> 0]

-----------------------------------------------------------------------------
(* The environment.                                                        *)

Tick ==
  /\ time < MaxTime /\ time' = time + 1
  /\ UNCHANGED <<faultVars, serverVars, commandVars, opVars>>

ServerStepsBack ==
  /\ losses + steps < MaxFaults /\ steps' = steps + 1
  /\ \E d \in StepsBack : d <= offset /\ offset' = offset - d
  /\ UNCHANGED <<time, losses, serverVars, commandVars, opVars>>

\* Eviction, deletion, or a restart without the data.
ServerLoses ==
  /\ losses + steps < MaxFaults /\ losses' = losses + 1
  /\ \E lost \in Losses :
       /\ epochKey' = IF "epoch" \in lost THEN None ELSE epochKey
       /\ untilKey' = IF "until" \in lost THEN None ELSE untilKey
       /\ stateKey' = IF "state" \in lost THEN None ELSE stateKey
  /\ UNCHANGED <<time, offset, steps, epochs, commandVars, opVars>>

-----------------------------------------------------------------------------
(* The adapters: one command each to set up, and one per consume().        *)

Second == time \div (Ticks * Millis)
Eligible(o) == InWindow(request[o].created, request[o].expires, Second)
Deadline(o) == RetainUntil(request[o].created, Second)

Sends(c) ==
  /\ time + Timeout <= MaxTime
  /\ phase' = [phase EXCEPT ![c] = "waiting"]
  /\ started' = [started EXCEPT ![c] = time]
  /\ wire' = [wire EXCEPT ![c] = "travelling"]
  /\ UNCHANGED reply

\* createRedisReplayStore.  A call that fails at once (the client is not ready,
\* the server's eviction policy is not acceptable) or on its answer changes
\* nothing; the application may call again.
Setup(a) ==
  /\ phase[a] = "idle" /\ wire[a] # "travelling"
  /\ Sends(a)
  /\ UNCHANGED <<time, faultVars, serverVars, opVars>>

\* The context samples its clock, checks the window, and calls consume in the
\* same task; a client that is not ready makes it unavailable.
Consume(o) ==
  /\ phase[o] = "idle" /\ phase[via[o]] = "usable"
  /\ Eligible(o) /\ Representable(Deadline(o))
  /\ sampled' = [sampled EXCEPT ![o] = Second]
  /\ \/ Sends(o)
     \/ phase' = [phase EXCEPT ![o] = "done"] /\ UNCHANGED <<started, wire, reply>>
  /\ UNCHANGED <<time, faultVars, serverVars, request, via, verdict, verifiedAt>>

InTime(c) == time - started[c] < Timeout

\* What a client makes of its command's outcome.
Concludes(c, outcome) ==
  /\ started' = [started EXCEPT ![c] = 0] /\ reply' = [reply EXCEPT ![c] = "none"]
  /\ phase' = [phase EXCEPT ![c] =
              IF c \in Adapters
              THEN IF outcome \in {"ready", "quarantine"} THEN "usable" ELSE "idle"
              ELSE IF outcome = "accepted" THEN "consumed" ELSE "done"]

\* runRedisCommand has a reply; one that is late counts for nothing.
Receives(c) ==
  /\ phase[c] = "waiting" /\ wire[c] = "executed"
  /\ Concludes(c, IF InTime(c) THEN reply[c] ELSE "unavailable")
  /\ UNCHANGED <<time, faultVars, serverVars, wire, opVars>>

\* Or the timer fires.  The command goes on.
TimesOut(c) ==
  /\ phase[c] = "waiting" /\ ~InTime(c)
  /\ Concludes(c, "unavailable")
  /\ UNCHANGED <<time, faultVars, serverVars, wire, opVars>>

\* The context's last check.
Finish(o) ==
  /\ phase[o] = "consumed" /\ phase' = [phase EXCEPT ![o] = "done"]
  /\ verdict' = [verdict EXCEPT ![o] = IF Eligible(o) THEN "verified" ELSE "refused"]
  /\ verifiedAt' = [verifiedAt EXCEPT ![o] = IF Eligible(o) THEN Second ELSE @]
  /\ UNCHANGED <<time, faultVars, serverVars, started, wire, reply, request, via, sampled>>

-----------------------------------------------------------------------------
(* The script: one atomic step of the server for each command it receives,  *)
(* soon, late, after its client has given up, or never.                     *)

\* What the server reads is rounded down; what it writes is rounded up.
ServerNow == (time + offset) \div Ticks
\* A wrong variant: one reading for both.
MutDeadlineBase == ServerNow
DeadlineBase == (time + offset + Ticks - 1) \div Ticks

Settings(c) == Config[IF c \in Adapters THEN c ELSE via[c]]
Horizon(c) == Settings(c).horizon * Millis
Duration(o) == (RetainUntil(request[o].created, sampled[o]) - sampled[o]) * Millis
Identity(o) == [scope |-> request[o].scope, key |-> request[o].key, nonce |-> request[o].nonce]

\* The deadlines it may have to write can be represented.
Fits(c) ==
  /\ Representable(DeadlineBase + Horizon(c))
  /\ c \in Ops => Representable(DeadlineBase + Duration(c))

\* A wrong variant: the last time, rounded up, against a reading rounded down.
MutConsistent ==
  /\ epochKey # None /\ untilKey # None /\ stateKey # None
  /\ stateKey.epoch = epochKey /\ stateKey.until = untilKey
  /\ stateKey.lastTime <= ServerNow

\* The three keys belong together, and the clock has not stepped back behind
\* the last write.
Consistent ==
  /\ epochKey # None /\ untilKey # None /\ stateKey # None
  /\ stateKey.epoch = epochKey /\ stateKey.until = untilKey
  /\ stateKey.until = stateKey.detectedAt + stateKey.config.horizon * Millis
  /\ stateKey.detectedAt <= stateKey.lastTime
  /\ stateKey.lastTime <= DeadlineBase

\* One MSET.
Saves(state) == epochKey' = state.epoch /\ untilKey' = state.until /\ stateKey' = state

\* The command c is executed and answered, whether its client waits or not.
Executes(c, answer) ==
  /\ wire[c] = "travelling" /\ wire' = [wire EXCEPT ![c] = "executed"]
  /\ reply' = [reply EXCEPT ![c] = IF phase[c] = "waiting" THEN answer ELSE "none"]
  /\ UNCHANGED <<time, faultVars, phase, started, opVars>>

\* The script refuses, or the server fails: nothing is written.
ScriptFails(c) == Executes(c, "unavailable") /\ UNCHANGED serverVars

\* The state that quarantine() writes.  Proposed epochs are drawn at random and
\* numbered here when they are adopted.
Empty(c) == [epoch |-> epochs + 1, until |-> DeadlineBase + Horizon(c), detectedAt |-> DeadlineBase,
             lastTime |-> DeadlineBase, config |-> Settings(c), records |-> {}]

ScriptQuarantines(c) ==
  /\ Fits(c) /\ ~Consistent
  /\ Saves(Empty(c)) /\ epochs' = epochs + 1
  /\ Executes(c, "quarantine")

Ours(c) == Fits(c) /\ Consistent /\ stateKey.config = Settings(c)

ScriptMismatches(c) ==
  /\ Fits(c) /\ Consistent /\ stateKey.config # Settings(c)
  /\ Executes(c, "configuration-mismatch") /\ UNCHANGED serverVars

\* A quarantine that has begun is neither restarted nor extended.
ScriptWaits(c) ==
  /\ Ours(c) /\ ServerNow < untilKey
  /\ Executes(c, "quarantine") /\ UNCHANGED serverVars

ScriptReady(a) ==
  /\ Ours(a) /\ ServerNow >= untilKey
  /\ Executes(a, "ready") /\ UNCHANGED serverVars

Live == {r \in stateKey.records : r.deadline > ServerNow}
LiveFor(o) == {r \in Live : r.identity.key = request[o].key}
Known(o) == \E r \in Live : r.identity = Identity(o)

\* A wrong variant: the limits are passed by one.
MutRefusal(o) ==
  IF Known(o) THEN "replayed"
  ELSE IF Cardinality(LiveFor(o)) > Settings(o).quota THEN "per-key-quota-exceeded"
  ELSE IF Cardinality(Live) > Settings(o).capacity THEN "unavailable"
  ELSE "none"

\* Why a nonce is not accepted, in the order of the script.
Refusal(o) ==
  IF Known(o) THEN "replayed"
  ELSE IF Cardinality(LiveFor(o)) >= Settings(o).quota THEN "per-key-quota-exceeded"
  ELSE IF Cardinality(Live) >= Settings(o).capacity THEN "unavailable"
  ELSE "none"

ScriptRefuses(o) ==
  /\ Ours(o) /\ ServerNow >= untilKey /\ Refusal(o) # "none"
  /\ Executes(o, Refusal(o)) /\ UNCHANGED serverVars

RecordOf(o) == [identity |-> Identity(o), deadline |-> DeadlineBase + Duration(o), by |-> o]

\* Only an accepted nonce moves the last time and drops expired records.
ScriptAccepts(o) ==
  /\ Ours(o) /\ ServerNow >= untilKey /\ Refusal(o) = "none"
  /\ Saves([stateKey EXCEPT !.lastTime = DeadlineBase, !.records = Live \cup {RecordOf(o)}])
  /\ UNCHANGED epochs
  /\ Executes(o, "accepted")

-----------------------------------------------------------------------------
Script(c) == ScriptFails(c) \/ ScriptQuarantines(c) \/ ScriptMismatches(c) \/ ScriptWaits(c)

Next ==
  \/ Tick \/ ServerStepsBack \/ ServerLoses
  \/ \E a \in Adapters : Setup(a) \/ ScriptReady(a)
  \/ \E o \in Ops : Consume(o) \/ Finish(o) \/ ScriptRefuses(o) \/ ScriptAccepts(o)
  \/ \E c \in Clients : Script(c) \/ Receives(c) \/ TimesOut(c)

Spec == Init /\ [][Next]_vars

-----------------------------------------------------------------------------
(* Properties.                                                             *)

\* The adapters together admit requests as one context with a memory of its own
\* would: none outside its window, none whose nonce was admitted in a window that
\* has not ended.  Losses of data, late commands, adapters that share the server
\* and its clock's fraction of a millisecond make no difference (the quarantine
\* of a full recovery horizon after detection, retention from execution time).
Admission == INSTANCE ReplayAdmission WITH
  Forgets <- TRUE,
  generation <- 1, open <- TRUE,
  begun <- [o \in Ops |-> IF phase[o] = "idle" THEN 0 ELSE 1],
  admitted <- {o \in Ops : verdict[o] = "verified"},
  guarded <- {o \in Ops : verdict[o] = "verified"},
  at <- verifiedAt
AdmitsOnce == Admission!Spec

\* A nonce the server has accepted stays until its request's window is over by
\* the verifiers' clock; only a quarantine drops it earlier (rounding of time in
\* the script, and durations that count from the execution of the command).
KeptThroughWindow ==
  [][stateKey # None /\ stateKey' # None /\ stateKey'.epoch = stateKey.epoch =>
       \A r \in stateKey.records \ stateKey'.records :
         Second >= WindowEnd(request[r.by].created, request[r.by].expires)]_vars

\* The state in the server keeps to the limits of its configuration and has one
\* record of a nonce, although records that have expired are dropped by the next
\* accepted nonce only and refused commands, late ones and those of other
\* configurations write nothing.
RecordsSound ==
  /\ TypeOK
  /\ stateKey # None =>
       LET records == stateKey.records
           of(key) == {r \in records : r.identity.key = key}
       IN  /\ Cardinality(records) <= stateKey.config.capacity
           /\ \A r \in records : Cardinality(of(r.identity.key)) <= stateKey.config.quota
           /\ \A r, q \in records : r.identity = q.identity => r = q

\* What the script writes satisfies the script: while nothing is lost and the
\* clock does not step back, a quarantine is neither begun nor changed, however
\* many adapters with whatever configurations send commands, within the same
\* millisecond too (replay-script.ts, the comment on lastTime).
NoNeedlessQuarantine ==
  [][losses = 0 /\ steps = 0 /\ untilKey # None => untilKey' = untilKey \/ losses' > 0]_vars

=============================================================================
