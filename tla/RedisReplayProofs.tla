-------------------------- MODULE RedisReplayProofs --------------------------
(***************************************************************************)
(* RedisReplay, for every number of calls and adapters, every policy and   *)
(* every length of a tick.                                                 *)
(***************************************************************************)
EXTENDS RedisReplay, FiniteSetTheorems, TLAPS

\* Whole division.
LEMMA Division ==
  ASSUME NEW x \in Nat, NEW d \in Nat \ {0}
  PROVE  /\ x \div d \in Nat
         /\ (x \div d) * d <= x
         /\ x < (x \div d) * d + d
  BY Z3

\* Products keep the order of their factors.
LEMMA Products ==
  ASSUME NEW x \in Int, NEW y \in Int, NEW d \in Nat \ {0}
  PROVE  /\ x * d \in Int
         /\ x <= y <=> x * d <= y * d
  BY Z3

\* Seconds, milliseconds and ticks.
LEMMA Units ==
  ASSUME NEW base \in Int, NEW sec \in Int, NEW m \in Nat \ {0}, NEW t \in Nat \ {0}
  PROVE  (base + sec * m) * t = base * t + sec * (t * m)
  BY Z3

\* Division keeps the order.
LEMMA DivisionMonotone ==
  ASSUME NEW x \in Nat, NEW y \in Nat, NEW d \in Nat \ {0}, x <= y
  PROVE  x \div d <= y \div d
<1> DEFINE p == x \div d
           q == y \div d
<1>1. /\ p \in Nat /\ q \in Nat
      /\ p * d <= x /\ y < q * d + d
  BY Division
<1>2. (q + 1) * d = q * d + d /\ (q + 1) * d \in Int /\ p * d \in Int
  BY <1>1, Z3
<1> HIDE DEF p, q
<1>3. p * d < (q + 1) * d
  BY <1>1, <1>2
<1>4. ~ (q + 1 <= p)
  BY <1>1, <1>2, <1>3, Products
<1> QED
  BY <1>1, <1>4 DEF p, q

-----------------------------------------------------------------------------
(* The inductive invariant.                                                *)

Unit == Ticks * Millis
End(o) == WindowEnd(request[o].created, request[o].expires)

\* A deadline of the server that lies behind the end of o's window, now and
\* after every step back of its clock.
Reaches(deadline, o) == offset + End(o) * Unit <= deadline * Ticks
Over(o) == End(o) <= Second

Whole == epochKey # None /\ untilKey # None /\ stateKey # None

Accepted(o) == reply[o] = "accepted" \/ phase[o] = "consumed" \/ verdict[o] = "verified"

\* Keys that are there belong together; before a fault they all are.
KeysInv ==
  /\ stateKey # None =>
       /\ epochKey \in {None, stateKey.epoch} /\ untilKey \in {None, stateKey.until}
       /\ stateKey.until = stateKey.detectedAt + stateKey.config.horizon * Millis
       /\ stateKey.detectedAt <= stateKey.lastTime
       /\ stateKey.epoch <= epochs
  /\ losses = 0 /\ untilKey # None => Whole
  /\ losses = 0 /\ steps = 0 /\ stateKey # None => stateKey.lastTime <= DeadlineBase

Of(records, key) == {r \in records : r.identity.key = key}
Limited(records, config) ==
  /\ IsFiniteSet(records)
  /\ Cardinality(records) <= config.capacity
  /\ \A r \in records : Cardinality(Of(records, r.identity.key)) <= config.quota
  /\ \A r, q \in records : r.identity = q.identity => r = q

RecordsInv ==
  stateKey # None =>
    /\ Limited(stateKey.records, stateKey.config)
    /\ \A r \in stateKey.records : r.identity = Identity(r.by) /\ Reaches(r.deadline, r.by)

OpsInv ==
  \A o \in Ops :
    /\ phase[o] = "idle" => wire[o] = "none" /\ reply[o] = "none" /\ verdict[o] = "none"
    /\ phase[o] # "idle" => /\ sampled[o] <= Second
                            /\ InWindow(request[o].created, request[o].expires, sampled[o])
    /\ reply[o] # "none" => phase[o] = "waiting"
    /\ verdict[o] # "none" => phase[o] = "done"

\* What stands between an accepted nonce and another request with it, until its
\* window is over: a record, a quarantine, or one that begins with the next
\* command.
Kept(o) ==
  \/ Over(o)
  \/ ~Whole
  \/ Reaches(stateKey.until, o)
  \/ \E r \in stateKey.records : r.identity = Identity(o) /\ Reaches(r.deadline, o)

KeptInv == \A o \in Ops : Accepted(o) => Kept(o)

PairInv ==
  \A o, p \in Ops :
    o # p /\ Accepted(o) /\ Accepted(p) /\ Identity(o) = Identity(p) => Over(o) \/ Over(p)

IInv == TypeOK /\ KeysInv /\ RecordsInv /\ OpsInv /\ KeptInv /\ PairInv

-----------------------------------------------------------------------------
(* Time.                                                                   *)

\* A second has at least one tick.
LEMMA UnitType == Unit \in Nat \ {0}
  BY RedisReplayAssumption, Z3 DEF Unit

\* What the clocks' readings say of the time.
LEMMA Readings ==
  ASSUME TypeOK
  PROVE  /\ Second \in Nat /\ Second * Unit <= time /\ time < (Second + 1) * Unit
         /\ ServerNow \in Nat /\ ServerNow * Ticks <= time + offset
         /\ DeadlineBase \in Nat /\ time + offset <= DeadlineBase * Ticks
<1>0. /\ time \in Nat /\ offset \in Nat /\ Ticks \in Nat \ {0}
      /\ time + offset \in Nat /\ time + offset + Ticks - 1 \in Nat
  BY RedisReplayAssumption DEF TypeOK
<1>1. Second \in Nat /\ Second * Unit <= time /\ time < Second * Unit + Unit
  BY <1>0, UnitType, Division DEF Second, Unit
<1>2. (Second + 1) * Unit = Second * Unit + Unit
  BY <1>1, UnitType, Z3
<1>3. ServerNow \in Nat /\ ServerNow * Ticks <= time + offset
  BY <1>0, Division DEF ServerNow
<1>4. /\ DeadlineBase \in Nat
      /\ time + offset + Ticks - 1 < DeadlineBase * Ticks + Ticks
  BY <1>0, Division DEF DeadlineBase
<1>5. DeadlineBase * Ticks \in Int
  BY <1>0, <1>4, Products
<1> QED
  BY <1>0, <1>1, <1>2, <1>3, <1>4, <1>5

\* The times of a request.
LEMMA EndType ==
  ASSUME TypeOK, NEW o \in Ops
  PROVE  /\ request[o].created \in Int /\ request[o].expires \in Int
         /\ End(o) \in Int /\ End(o) * Unit \in Int
         /\ sampled[o] \in Nat
         /\ RetainUntil(request[o].created, sampled[o]) \in Int
         /\ RetainUntil(request[o].created, sampled[o]) >= End(o)
         /\ InWindow(request[o].created, request[o].expires, sampled[o])
              => End(o) <= sampled[o] + RecoveryHorizon
<1>1. /\ request[o].created \in Int /\ request[o].expires \in Int /\ sampled[o] \in Nat
  BY RedisReplayAssumption DEF TypeOK
<1>2. End(o) \in Int
  BY <1>1, TimePolicyAssumption DEF End, WindowEnd, Smaller
<1>3. End(o) * Unit \in Int
  BY <1>2, UnitType, Products
<1>4. /\ RetainUntil(request[o].created, sampled[o]) \in Int
      /\ RetainUntil(request[o].created, sampled[o]) >= End(o)
  BY <1>1, TimePolicyAssumption DEF End, WindowEnd, Smaller, RetainUntil, Larger
<1>5. InWindow(request[o].created, request[o].expires, sampled[o])
        => End(o) <= sampled[o] + RecoveryHorizon
  BY <1>1, TimePolicyAssumption DEF End, WindowEnd, Smaller, InWindow, RecoveryHorizon
<1> QED
  BY <1>1, <1>2, <1>3, <1>4, <1>5

\* A deadline that has passed on the server's clock, and reached behind a
\* window, leaves the window over.
LEMMA PassedIsOver ==
  ASSUME TypeOK, NEW o \in Ops, NEW d \in Nat, Reaches(d, o), d <= ServerNow
  PROVE  Over(o)
<1>1. /\ time \in Nat /\ offset \in Nat /\ Ticks \in Nat \ {0}
  BY RedisReplayAssumption DEF TypeOK
<1>2. d * Ticks <= ServerNow * Ticks /\ d * Ticks \in Int /\ ServerNow * Ticks \in Int
  BY <1>1, Readings, Products
<1>3. End(o) * Unit <= time
  BY <1>1, <1>2, Readings, EndType DEF Reaches
<1>4. (Second + 1) * Unit \in Int
  BY Readings, UnitType, Products
<1>5. End(o) * Unit < (Second + 1) * Unit
  BY <1>1, <1>3, <1>4, Readings, EndType
<1>6. ~ (Second + 1 <= End(o))
  BY <1>4, <1>5, Readings, EndType, UnitType, Products
<1> QED
  BY <1>6, Readings, EndType DEF Over

\* What is written now with a term of so many seconds that it ends, counted
\* from an earlier second, behind a window, reaches behind it.
LEMMA TermReaches ==
  ASSUME TypeOK, NEW o \in Ops, NEW s \in Nat, s <= Second,
         NEW term \in Int, End(o) <= s + term
  PROVE  Reaches(DeadlineBase + term * Millis, o)
<1>1. /\ time \in Nat /\ offset \in Nat /\ Ticks \in Nat \ {0} /\ Millis \in Nat \ {0}
  BY RedisReplayAssumption DEF TypeOK
<1>2. (DeadlineBase + term * Millis) * Ticks = DeadlineBase * Ticks + term * Unit
  BY <1>1, Readings, Units DEF Unit
<1>3. /\ s * Unit \in Int /\ term * Unit \in Int /\ DeadlineBase * Ticks \in Int
      /\ (s + term) * Unit \in Int /\ Second * Unit \in Int
  BY <1>1, Readings, UnitType, Products
<1>4. (s + term) * Unit = s * Unit + term * Unit
  BY UnitType, Z3
<1>5. s * Unit <= Second * Unit
  BY Readings, UnitType, Products
<1>6. End(o) * Unit <= (s + term) * Unit
  BY EndType, UnitType, Products
<1> HIDE DEF Unit
<1> QED
  BY <1>1, <1>2, <1>3, <1>4, <1>5, <1>6, Readings, EndType DEF Reaches


-----------------------------------------------------------------------------
(* Types.                                                                  *)

\* Whatever an adapter is configured with covers the recovery horizon.
LEMMA SettingsType ==
  ASSUME TypeOK, NEW c \in Clients
  PROVE  /\ Settings(c) \in {Config[a] : a \in Adapters}
         /\ Settings(c).horizon \in Nat /\ Settings(c).horizon >= RecoveryHorizon
         /\ Settings(c).capacity \in Nat /\ Settings(c).quota \in Nat
         /\ Horizon(c) \in Nat
<1>1. (IF c \in Adapters THEN c ELSE via[c]) \in Adapters
  BY DEF TypeOK, Clients
<1>2. /\ Settings(c) \in {Config[a] : a \in Adapters}
      /\ Settings(c).horizon \in Nat /\ Settings(c).horizon >= RecoveryHorizon
      /\ Settings(c).capacity \in Nat /\ Settings(c).quota \in Nat
  BY <1>1, RedisReplayAssumption DEF Settings
<1>3. Millis \in Nat
  BY RedisReplayAssumption
<1>4. Horizon(c) \in Nat
  BY <1>2, <1>3, Z3 DEF Horizon
<1> QED
  BY <1>2, <1>4

\* The configuration of a state is one of the adapters' or a former one.
LEMMA ConfigType ==
  ASSUME TypeOK, stateKey # None
  PROVE  /\ stateKey.config.horizon \in Nat /\ stateKey.config.capacity \in Nat
         /\ stateKey.config.quota \in Nat
         /\ stateKey \in States
  BY RedisReplayAssumption DEF TypeOK, States

\* What a command may write has the shape of a state.
LEMMA EmptyType ==
  ASSUME TypeOK, NEW c \in Clients
  PROVE  Empty(c) \in States
<1>1. DeadlineBase + Horizon(c) \in Nat
  BY SettingsType, Readings
<1> QED
  BY <1>1, SettingsType, Readings DEF Empty, States, TypeOK

\* What an operation would store is a record, and reaches the end of its window.
LEMMA RecordType ==
  ASSUME TypeOK, OpsInv, NEW o \in Ops
  PROVE  /\ RecordOf(o) \in Records
         /\ RecordOf(o).identity = Identity(o) /\ RecordOf(o).by = o
         /\ phase[o] # "idle" => Reaches(RecordOf(o).deadline, o)
<1>1. Identity(o) \in Identities
  BY DEF TypeOK, Identity, Identities
<1> DEFINE term == RetainUntil(request[o].created, sampled[o]) - sampled[o]
<1>2. /\ term \in Nat /\ Millis \in Nat /\ End(o) <= sampled[o] + term
  <2>1. RetainUntil(request[o].created, sampled[o]) >= sampled[o]
    BY EndType, TimePolicyAssumption DEF RetainUntil, Larger
  <2> QED
    BY <2>1, EndType, RedisReplayAssumption
<1>3. Duration(o) = term * Millis
  BY DEF Duration
<1> HIDE DEF term
<1>4. term * Millis \in Nat
  BY <1>2, Z3
<1>5. RecordOf(o) \in Records
  BY <1>1, <1>3, <1>4, Readings DEF RecordOf, Records
<1>6. ASSUME phase[o] # "idle"
      PROVE  Reaches(DeadlineBase + term * Millis, o)
  BY <1>2, <1>6, EndType, TermReaches DEF OpsInv
<1> QED
  BY <1>3, <1>5, <1>6 DEF RecordOf

\* The state after an accepted nonce.
LEMMA AcceptType ==
  ASSUME TypeOK, OpsInv, stateKey # None, NEW o \in Ops,
         NEW s, s = [stateKey EXCEPT !.lastTime = DeadlineBase,
                                     !.records = Live \cup {RecordOf(o)}]
  PROVE  /\ s \in States
         /\ s.epoch = stateKey.epoch /\ s.until = stateKey.until
         /\ s.detectedAt = stateKey.detectedAt /\ s.config = stateKey.config
         /\ s.lastTime = DeadlineBase /\ s.records = Live \cup {RecordOf(o)}
<1>1. stateKey \in States /\ Live \cup {RecordOf(o)} \in SUBSET Records
  BY ConfigType, RecordType DEF Live, States
<1> QED
  BY <1>1, Readings DEF States

\* The state begins with its types, whatever document an earlier configuration left.
LEMMA TypeInit == Init => TypeOK
<1> SUFFICES ASSUME Init PROVE TypeOK
  OBVIOUS
<1>1. ASSUME NEW config \in Leftovers
      PROVE  LeftState(config) \in States
  <2>1. config.horizon \in Nat /\ Millis \in Nat
    BY RedisReplayAssumption
  <2>2. config.horizon * Millis \in Nat
    BY <2>1, Z3
  <2> QED
    BY <2>2 DEF LeftState, States
<1>2. /\ epochKey \in Nat \cup {None} /\ untilKey \in Nat \cup {None}
      /\ stateKey \in States \cup {None}
  BY <1>1 DEF Init, States
<1> QED
  BY <1>2, RedisReplayAssumption DEF Init, TypeOK, Replies, Clients

\* Every step keeps the types.
LEMMA TypeStep ==
  ASSUME TypeOK, OpsInv, [Next]_vars
  PROVE  TypeOK'
<1> USE DEF TypeOK
<1>1. CASE Tick
  BY <1>1 DEF Tick, faultVars, serverVars, commandVars, opVars
<1>2. CASE ServerStepsBack
  BY <1>2, RedisReplayAssumption DEF ServerStepsBack, serverVars, commandVars, opVars
<1>3. CASE ServerLoses
  BY <1>3 DEF ServerLoses, commandVars, opVars
<1>4. ASSUME NEW c \in Clients, NEW answer \in Replies, Executes(c, answer)
      PROVE  /\ wire' \in [Clients -> {"none", "travelling", "executed"}]
             /\ reply' \in [Clients -> Replies]
             /\ UNCHANGED <<time, faultVars, phase, started, opVars>>
  BY <1>4 DEF Executes, Replies
<1>5. ASSUME NEW c \in Clients, ScriptFails(c) \/ ScriptMismatches(c) \/ ScriptWaits(c)
                                \/ ScriptReady(c)
      PROVE  TypeOK'
  BY <1>4, <1>5 DEF ScriptFails, ScriptMismatches, ScriptWaits, ScriptReady, Replies,
                    faultVars, opVars, serverVars
<1>6. ASSUME NEW c \in Clients, ScriptQuarantines(c)
      PROVE  TypeOK'
  <2>1. /\ epochKey' \in Nat /\ untilKey' \in Nat /\ stateKey' \in States /\ epochs' \in Nat
    BY <1>6, EmptyType DEF ScriptQuarantines, Saves, States
  <2> QED
    BY <1>4, <1>6, <2>1 DEF ScriptQuarantines, Replies, faultVars, opVars
<1>7. ASSUME NEW o \in Ops, ScriptRefuses(o)
      PROVE  TypeOK'
  <2>1. Refusal(o) \in Replies /\ o \in Clients
    BY DEF Refusal, Replies, Clients
  <2> QED
    BY <1>4, <1>7, <2>1 DEF ScriptRefuses, faultVars, opVars, serverVars
<1>8. ASSUME NEW o \in Ops, ScriptAccepts(o)
      PROVE  TypeOK'
  <2>1. o \in Clients /\ stateKey # None
    BY <1>8 DEF ScriptAccepts, Ours, Consistent, Clients
  <2>2. /\ epochKey' \in Nat /\ untilKey' \in Nat /\ stateKey' \in States /\ epochs' = epochs
    BY <1>8, <2>1, AcceptType DEF ScriptAccepts, Saves, States
  <2> QED
    BY <1>4, <1>8, <2>1, <2>2 DEF ScriptAccepts, Replies, faultVars, opVars
<1>9. ASSUME NEW a \in Adapters, Setup(a)
      PROVE  TypeOK'
  BY <1>9 DEF Setup, Sends, Clients, faultVars, serverVars, opVars
<1>10. ASSUME NEW o \in Ops, Consume(o)
       PROVE  TypeOK'
  <2>1. Second \in Nat
    BY Readings
  <2>2. sampled' \in [Ops -> Nat]
    BY <1>10, <2>1 DEF Consume
  <2> QED
    BY <1>10, <2>2 DEF Consume, Sends, Clients, faultVars, serverVars
<1>11. ASSUME NEW o \in Ops, Finish(o)
       PROVE  TypeOK'
  <2>1. Second \in Nat
    BY Readings
  <2>2. verifiedAt' \in [Ops -> Nat]
    BY <1>11, <2>1 DEF Finish
  <2> QED
    BY <1>11, <2>2 DEF Finish, Clients, faultVars, serverVars
<1>12. ASSUME NEW c \in Clients, Receives(c) \/ TimesOut(c)
       PROVE  TypeOK'
  <2>1. PICK outcome : Concludes(c, outcome)
    BY <1>12 DEF Receives, TimesOut
  <2>2. phase' \in [Clients -> {"idle", "waiting", "usable", "consumed", "done"}]
    BY <2>1 DEF Concludes
  <2>3. started' \in [Clients -> Nat] /\ reply' \in [Clients -> Replies]
    BY <2>1 DEF Concludes, Replies
  <2> QED
    BY <1>12, <2>2, <2>3 DEF Receives, TimesOut, faultVars, serverVars, opVars
<1>13. CASE UNCHANGED vars
  BY <1>13 DEF vars, faultVars, serverVars, commandVars, opVars
<1> QED
  BY <1>1, <1>2, <1>3, <1>5, <1>6, <1>7, <1>8, <1>9, <1>10, <1>11, <1>12, <1>13
  DEF Next, Script, Clients


-----------------------------------------------------------------------------
(* What a step can change.                                                 *)

\* Only five kinds of steps are seen by the clocks or the keys.
LEMMA ServerSteps ==
  ASSUME [Next]_vars
  PROVE  /\ request' = request
         /\ \/ Tick \/ ServerStepsBack \/ ServerLoses
            \/ /\ UNCHANGED <<time, faultVars>>
               /\ \/ UNCHANGED serverVars
                  \/ \E c \in Clients : ScriptQuarantines(c)
                  \/ \E o \in Ops : ScriptAccepts(o)
<1>1. CASE Tick \/ ServerStepsBack \/ ServerLoses
  BY <1>1 DEF Tick, ServerStepsBack, ServerLoses, opVars
<1>2. ASSUME NEW c, \/ ScriptFails(c) \/ ScriptMismatches(c) \/ ScriptWaits(c) \/ ScriptReady(c)
                    \/ ScriptRefuses(c)
      PROVE  request' = request /\ UNCHANGED <<time, faultVars, serverVars>>
  BY <1>2 DEF ScriptFails, ScriptMismatches, ScriptWaits, ScriptReady, ScriptRefuses, Executes,
              opVars
<1>3. ASSUME NEW c, Setup(c) \/ Consume(c) \/ Finish(c) \/ Receives(c) \/ TimesOut(c)
      PROVE  request' = request /\ UNCHANGED <<time, faultVars, serverVars>>
  BY <1>3 DEF Setup, Consume, Finish, Receives, TimesOut, opVars
<1>4. ASSUME NEW c, ScriptQuarantines(c) \/ ScriptAccepts(c)
      PROVE  request' = request /\ UNCHANGED <<time, faultVars>>
  BY <1>4 DEF ScriptQuarantines, ScriptAccepts, Executes, opVars
<1>5. CASE UNCHANGED vars
  BY <1>5 DEF vars, opVars
<1>6. CASE Next
  BY <1>1, <1>2, <1>3, <1>4, <1>6 DEF Next, Script
<1> QED
  BY <1>5, <1>6

\* The windows are the same after every step, and what was over stays over.
LEMMA TimeStep ==
  ASSUME TypeOK, TypeOK', [Next]_vars
  PROVE  /\ DeadlineBase' \in Nat
         /\ \A o \in Ops : /\ End(o)' = End(o) /\ Identity(o)' = Identity(o)
                           /\ Over(o) => Over(o)'
                           /\ \A d \in Nat : Reaches(d, o) => Reaches(d, o)'
         /\ offset' <= offset
         /\ Second <= Second' /\ Second' \in Nat
         /\ steps' = steps => DeadlineBase <= DeadlineBase'
<1>1. request' = request
  BY ServerSteps
<1>2. /\ time \in Nat /\ time' \in Nat /\ time <= time'
      /\ offset \in Nat /\ offset' \in Nat /\ offset' <= offset
      /\ steps' = steps => offset' = offset
  <2>1. CASE Tick
    BY <2>1 DEF Tick, TypeOK, faultVars
  <2>2. CASE ServerStepsBack
    BY <2>2, RedisReplayAssumption DEF ServerStepsBack, TypeOK
  <2>3. CASE ServerLoses
    BY <2>3 DEF ServerLoses, TypeOK
  <2> QED
    BY <2>1, <2>2, <2>3, ServerSteps DEF TypeOK, faultVars
<1>3. Second <= Second' /\ Second' \in Nat
  BY <1>2, UnitType, Division, DivisionMonotone DEF Second, Unit
<1>4. DeadlineBase' \in Nat
  <2>0. Ticks \in Nat \ {0}
    BY RedisReplayAssumption
  <2>1. \A x, y \in Nat : \A d \in Nat \ {0} : x + y + d - 1 \in Nat
    OBVIOUS
  <2>2. time' + offset' + Ticks - 1 \in Nat
    BY <1>2, <2>0, <2>1
  <2> QED
    BY <2>0, <2>2, Division DEF DeadlineBase
<1>6. ASSUME steps' = steps
      PROVE  DeadlineBase <= DeadlineBase'
  <2>0. Ticks \in Nat \ {0} /\ offset' = offset
    BY <1>2, <1>6, RedisReplayAssumption
  <2>1. \A x, y, z \in Nat : \A d \in Nat \ {0} :
          x <= y => x + z + d - 1 \in Nat /\ y + z + d - 1 \in Nat /\ x + z + d - 1 <= y + z + d - 1
    OBVIOUS
  <2>2. /\ time + offset + Ticks - 1 \in Nat /\ time' + offset + Ticks - 1 \in Nat
        /\ time + offset + Ticks - 1 <= time' + offset + Ticks - 1
    BY <1>2, <2>0, <2>1
  <2>3. DeadlineBase' = (time' + offset + Ticks - 1) \div Ticks
    BY <2>0 DEF DeadlineBase
  <2> QED
    BY <2>0, <2>2, <2>3, DivisionMonotone DEF DeadlineBase
<1>5. ASSUME NEW o \in Ops
      PROVE  /\ End(o)' = End(o) /\ Identity(o)' = Identity(o)
             /\ Over(o) => Over(o)'
             /\ \A d \in Nat : Reaches(d, o) => Reaches(d, o)'
  <2>1. End(o)' = End(o) /\ Identity(o)' = Identity(o)
    BY <1>1 DEF End, Identity
  <2>2. End(o) \in Int /\ Second \in Int /\ Second' \in Int /\ End(o) * Unit \in Int
    BY <1>3, EndType, Readings
  <2>3. Over(o) => Over(o)'
    BY <1>3, <2>1, <2>2 DEF Over
  <2>4. ASSUME NEW d \in Nat, Reaches(d, o)
        PROVE  Reaches(d, o)'
    <3>1. d * Ticks \in Int
      BY RedisReplayAssumption, Products
    <3>2. offset + End(o) * Unit <= d * Ticks
      BY <2>4 DEF Reaches
    <3>3. offset' + End(o) * Unit <= d * Ticks
      BY <1>2, <2>2, <3>1, <3>2
    <3>4. Unit' = Unit
      BY DEF Unit
    <3> QED
      BY <2>1, <3>3, <3>4 DEF Reaches
  <2> QED
    BY <2>1, <2>3, <2>4
<1> QED
  BY <1>2, <1>3, <1>4, <1>5, <1>6

\* A request is accepted by the script and by nothing else.
LEMMA AcceptedStep ==
  ASSUME TypeOK, OpsInv, [Next]_vars, NEW o \in Ops, Accepted(o)'
  PROVE  Accepted(o) \/ ScriptAccepts(o)
<1> USE DEF Accepted
<1>0. o \in Clients /\ reply \in [Clients -> Replies] /\ o \notin Adapters
  BY RedisReplayAssumption DEF TypeOK, Clients
<1>1. ASSUME NEW c \in Clients, NEW answer, Executes(c, answer), o # c \/ answer # "accepted"
      PROVE  Accepted(o)
  BY <1>0, <1>1 DEF Executes, opVars
<1>2. CASE Tick \/ ServerStepsBack \/ ServerLoses \/ UNCHANGED vars
  BY <1>2 DEF Tick, ServerStepsBack, ServerLoses, vars, commandVars, opVars
<1>3. ASSUME NEW c \in Clients, \/ ScriptFails(c) \/ ScriptMismatches(c) \/ ScriptWaits(c)
                                \/ ScriptReady(c) \/ ScriptQuarantines(c)
      PROVE  Accepted(o)
  BY <1>1, <1>3 DEF ScriptFails, ScriptMismatches, ScriptWaits, ScriptReady, ScriptQuarantines
<1>4. ASSUME NEW p \in Ops, ScriptRefuses(p)
      PROVE  Accepted(o)
  <2>1. Refusal(p) # "accepted" /\ p \in Clients
    BY DEF Refusal, Clients
  <2> QED
    BY <1>1, <1>4, <2>1 DEF ScriptRefuses
<1>5. ASSUME NEW p \in Ops, ScriptAccepts(p), p # o
      PROVE  Accepted(o)
  BY <1>1, <1>5 DEF ScriptAccepts, Clients
<1>6. ASSUME NEW a \in Adapters, Setup(a)
      PROVE  Accepted(o)
  BY <1>0, <1>6 DEF Setup, Sends, TypeOK, opVars
<1>7. ASSUME NEW p \in Ops, Consume(p)
      PROVE  Accepted(o)
  BY <1>0, <1>7 DEF Consume, Sends, TypeOK
<1>8. ASSUME NEW p \in Ops, Finish(p)
      PROVE  Accepted(o)
  <2>1. /\ reply' = reply /\ phase[p] = "consumed"
        /\ o # p => phase'[o] = phase[o] /\ verdict'[o] = verdict[o]
    BY <1>8 DEF Finish, TypeOK, Clients
  <2> QED
    BY <2>1
<1>9. ASSUME NEW c \in Clients, Receives(c) \/ TimesOut(c)
      PROVE  Accepted(o)
  <2>1. verdict' = verdict
    BY <1>9 DEF Receives, TimesOut, opVars
  <2>2. PICK outcome : /\ Concludes(c, outcome)
                       /\ outcome = "accepted" => reply[c] = "accepted"
    BY <1>9 DEF Receives, TimesOut
  <2>3. CASE c = o
    BY <1>0, <2>1, <2>2, <2>3 DEF Concludes, TypeOK
  <2>4. CASE c # o
    BY <1>0, <2>1, <2>2, <2>4 DEF Concludes, TypeOK
  <2> QED
    BY <2>3, <2>4
<1> QED
  BY <1>2, <1>3, <1>4, <1>5, <1>6, <1>7, <1>8, <1>9 DEF Next, Script, Clients

\* What an operation has sent and heard agrees with how far it is.
LEMMA OpsStep ==
  ASSUME TypeOK, TypeOK', OpsInv, [Next]_vars
  PROVE  OpsInv'
<1> SUFFICES ASSUME NEW o \in Ops
             PROVE  /\ phase'[o] = "idle" => wire'[o] = "none" /\ reply'[o] = "none"
                                             /\ verdict'[o] = "none"
                    /\ phase'[o] # "idle" =>
                         /\ sampled'[o] <= Second'
                         /\ InWindow(request'[o].created, request'[o].expires, sampled'[o])
                    /\ reply'[o] # "none" => phase'[o] = "waiting"
                    /\ verdict'[o] # "none" => phase'[o] = "done"
  BY DEF OpsInv, InWindow
<1>0. o \in Clients /\ o \notin Adapters
  BY RedisReplayAssumption DEF Clients
<1>1. request' = request /\ Second \in Nat /\ Second' \in Nat /\ Second <= Second'
  BY ServerSteps, TimeStep, Readings
<1>2. /\ phase[o] = "idle" => wire[o] = "none" /\ reply[o] = "none" /\ verdict[o] = "none"
      /\ phase[o] # "idle" => /\ sampled[o] <= Second
                              /\ InWindow(request[o].created, request[o].expires, sampled[o])
      /\ reply[o] # "none" => phase[o] = "waiting"
      /\ verdict[o] # "none" => phase[o] = "done"
  BY DEF OpsInv
\* Steps that leave the sample of o alone.
<1>3. ASSUME sampled'[o] = sampled[o], phase[o] # "idle"
      PROVE  /\ sampled'[o] <= Second'
             /\ InWindow(request'[o].created, request'[o].expires, sampled'[o])
  <2>1. sampled[o] \in Nat
    BY DEF TypeOK
  <2>2. sampled[o] <= Second'
    BY <1>1, <1>2, <1>3, <2>1
  <2> QED
    BY <1>1, <1>2, <1>3, <2>2
<1>4. ASSUME NEW c \in Clients, NEW answer, Executes(c, answer)
      PROVE  /\ phase' = phase /\ sampled' = sampled /\ verdict' = verdict
             /\ phase[o] = "idle" => wire'[o] = "none" /\ reply'[o] = "none"
             /\ reply'[o] # "none" => phase[o] = "waiting"
  BY <1>0, <1>2, <1>4 DEF Executes, opVars, TypeOK
<1>5. ASSUME NEW c \in Clients, \/ ScriptFails(c) \/ ScriptMismatches(c) \/ ScriptWaits(c)
                                \/ ScriptReady(c) \/ ScriptQuarantines(c) \/ ScriptRefuses(c)
                                \/ ScriptAccepts(c)
      PROVE  \E answer : Executes(c, answer)
  BY <1>5 DEF ScriptFails, ScriptMismatches, ScriptWaits, ScriptReady, ScriptQuarantines,
              ScriptRefuses, ScriptAccepts
<1>6. CASE \E c \in Clients : \E answer : Executes(c, answer)
  BY <1>2, <1>3, <1>4, <1>6
<1>7. CASE Tick \/ ServerStepsBack \/ ServerLoses \/ UNCHANGED vars
  BY <1>2, <1>3, <1>7 DEF Tick, ServerStepsBack, ServerLoses, vars, commandVars, opVars
<1>8. CASE \E a \in Adapters : Setup(a)
  BY <1>0, <1>2, <1>3, <1>8 DEF Setup, Sends, opVars, TypeOK
<1>9. ASSUME NEW p \in Ops, Consume(p)
      PROVE  /\ phase'[o] = "idle" => wire'[o] = "none" /\ reply'[o] = "none"
                                      /\ verdict'[o] = "none"
             /\ phase'[o] # "idle" =>
                         /\ sampled'[o] <= Second'
                         /\ InWindow(request'[o].created, request'[o].expires, sampled'[o])
             /\ reply'[o] # "none" => phase'[o] = "waiting"
             /\ verdict'[o] # "none" => phase'[o] = "done"
  <2>1. CASE p # o
    <3>1. /\ phase'[o] = phase[o] /\ wire'[o] = wire[o] /\ reply' = reply /\ verdict' = verdict
          /\ sampled'[o] = sampled[o]
      BY <1>0, <1>9, <2>1 DEF Consume, Sends, TypeOK
    <3> QED
      BY <1>2, <1>3, <3>1
  <2>2. CASE p = o
    <3>1. /\ phase[o] = "idle" /\ phase'[o] # "idle" /\ reply' = reply /\ verdict' = verdict
          /\ sampled'[o] = Second /\ Eligible(o)
      BY <1>0, <1>9, <2>2 DEF Consume, Sends, TypeOK
    <3>2. InWindow(request'[o].created, request'[o].expires, sampled'[o])
      BY <1>1, <3>1 DEF Eligible
    <3> QED
      BY <1>1, <1>2, <3>1, <3>2
  <2> QED
    BY <2>1, <2>2
<1>10. CASE \E p \in Ops : Finish(p)
  BY <1>0, <1>2, <1>3, <1>10 DEF Finish, TypeOK
<1>11. ASSUME NEW c \in Clients, Receives(c) \/ TimesOut(c)
       PROVE  /\ sampled' = sampled /\ verdict' = verdict /\ wire' = wire
              /\ c # o => phase'[o] = phase[o] /\ reply'[o] = reply[o]
              /\ c = o => phase[o] = "waiting" /\ phase'[o] # "idle" /\ reply'[o] = "none"
  BY <1>0, <1>11 DEF Receives, TimesOut, Concludes, opVars, TypeOK
<1>12. CASE \E c \in Clients : Receives(c) \/ TimesOut(c)
  BY <1>2, <1>3, <1>11, <1>12
<1> QED
  BY <1>5, <1>6, <1>7, <1>8, <1>9, <1>10, <1>12 DEF Next, Script, Clients


-----------------------------------------------------------------------------
(* The keys and the records.                                               *)

\* The keys of the epoch that are there agree with the state.
LEMMA KeysStep ==
  ASSUME TypeOK, TypeOK', OpsInv, KeysInv, [Next]_vars
  PROVE  KeysInv'
<1>1. CASE UNCHANGED serverVars /\ losses' = losses
  <2>1. steps' = 0 => steps = 0 /\ steps' = steps
    BY ServerSteps DEF Tick, ServerStepsBack, ServerLoses, faultVars, TypeOK
  <2>2. losses = 0 /\ steps' = 0 /\ stateKey # None => stateKey.lastTime <= DeadlineBase'
    <3> SUFFICES ASSUME losses = 0, steps' = 0, stateKey # None
                 PROVE  stateKey.lastTime <= DeadlineBase'
      OBVIOUS
    <3>1. stateKey.lastTime <= DeadlineBase /\ DeadlineBase <= DeadlineBase'
      BY <2>1, TimeStep DEF KeysInv
    <3>2. stateKey.lastTime \in Nat /\ DeadlineBase \in Nat /\ DeadlineBase' \in Int
      BY ConfigType, Readings, TimeStep DEF States
    <3> QED
      BY <3>1, <3>2
  <2>3. /\ stateKey' = stateKey /\ epochKey' = epochKey /\ untilKey' = untilKey /\ epochs' = epochs
        /\ Whole' = Whole
    BY <1>1 DEF serverVars, Whole
  <2> QED
    BY <1>1, <2>1, <2>2, <2>3 DEF KeysInv
<1>2. CASE ServerLoses
  <2>1. /\ stateKey' \in {None, stateKey} /\ epochKey' \in {None, epochKey}
        /\ untilKey' \in {None, untilKey} /\ epochs' = epochs /\ losses' # 0
    BY <1>2 DEF ServerLoses, TypeOK
  <2> QED
    BY <2>1 DEF KeysInv
<1>3. ASSUME NEW c \in Clients, ScriptQuarantines(c)
      PROVE  KeysInv'
  <2>1. /\ stateKey' = Empty(c) /\ epochKey' = epochs + 1 /\ untilKey' = DeadlineBase + Horizon(c)
        /\ epochs' = epochs + 1 /\ DeadlineBase' = DeadlineBase
    BY <1>3 DEF ScriptQuarantines, Saves, Empty, Executes, faultVars, DeadlineBase
  <2>2. /\ Empty(c).epoch = epochs + 1 /\ Empty(c).until = DeadlineBase + Horizon(c)
        /\ Empty(c).detectedAt = DeadlineBase /\ Empty(c).lastTime = DeadlineBase
        /\ Empty(c).config = Settings(c)
    BY DEF Empty
  <2>3. /\ None \notin Nat /\ None \notin States /\ epochs + 1 \in Nat /\ DeadlineBase \in Nat
        /\ Empty(c) \in States /\ DeadlineBase + Horizon(c) \in Nat
    BY RedisReplayAssumption, Readings, SettingsType, EmptyType DEF TypeOK
  <2> QED
    BY <2>1, <2>2, <2>3 DEF KeysInv, Whole, Horizon
<1>4. ASSUME NEW o \in Ops, ScriptAccepts(o)
      PROVE  KeysInv'
  <2>1. /\ Consistent /\ losses' = losses /\ steps' = steps /\ DeadlineBase' = DeadlineBase
        /\ epochs' = epochs
        /\ stateKey' = [stateKey EXCEPT !.lastTime = DeadlineBase,
                                        !.records = Live \cup {RecordOf(o)}]
        /\ epochKey' = stateKey'.epoch /\ untilKey' = stateKey'.until
    BY <1>4 DEF ScriptAccepts, Ours, Saves, Executes, faultVars, DeadlineBase
  <2>2. stateKey # None /\ stateKey.detectedAt <= stateKey.lastTime
        /\ stateKey.lastTime <= DeadlineBase
    BY <2>1 DEF Consistent
  <2>3. /\ stateKey' \in States
        /\ stateKey'.epoch = stateKey.epoch /\ stateKey'.until = stateKey.until
        /\ stateKey'.detectedAt = stateKey.detectedAt /\ stateKey'.config = stateKey.config
        /\ stateKey'.lastTime = DeadlineBase
    BY <2>1, <2>2, AcceptType
  <2>4. /\ None \notin Nat /\ None \notin States /\ DeadlineBase \in Nat
        /\ stateKey.epoch \in Nat /\ stateKey.until \in Nat
        /\ stateKey.detectedAt \in Nat /\ stateKey.lastTime \in Nat
    BY <2>2, RedisReplayAssumption, Readings, ConfigType DEF States
  <2> QED
    BY <2>1, <2>2, <2>3, <2>4 DEF KeysInv, Whole
<1>5. CASE Tick \/ ServerStepsBack \/ UNCHANGED <<time, faultVars, serverVars>>
  BY <1>1, <1>5 DEF Tick, ServerStepsBack, faultVars
<1> QED
  BY <1>2, <1>3, <1>4, <1>5, ServerSteps


\* One more record, where the limits leave room for it.
LEMMA LimitedInsert ==
  ASSUME NEW records, NEW config, Limited(records, config),
         config.capacity \in Nat, config.quota \in Nat,
         NEW live \in SUBSET records, NEW new,
         \A r \in live : r.identity # new.identity,
         ~ (Cardinality(live) >= config.capacity),
         ~ (Cardinality(Of(live, new.identity.key)) >= config.quota)
  PROVE  Limited(live \cup {new}, config)
<1> DEFINE after == live \cup {new}
<1>1. IsFiniteSet(live) /\ IsFiniteSet(after) /\ Cardinality(live) \in Nat
      /\ Cardinality(after) <= Cardinality(live) + 1
  BY FS_Subset, FS_AddElement, FS_CardinalityType DEF Limited
<1>2. Cardinality(after) <= config.capacity
  BY <1>1, FS_CardinalityType
<1>3. \A r, q \in after : r.identity = q.identity => r = q
  BY DEF Limited
<1>4. ASSUME NEW r \in after
      PROVE  Cardinality(Of(after, r.identity.key)) <= config.quota
  <2> DEFINE k == r.identity.key
             old == Of(live, k)
  <2>1. IsFiniteSet(old) /\ Cardinality(old) \in Nat
    BY <1>1, FS_Subset, FS_CardinalityType DEF Of
  <2>2. CASE new.identity.key = k
    <3>1. Of(after, k) = old \cup {new}
      BY <2>2 DEF Of
    <3>2. ~ (Cardinality(old) >= config.quota)
      BY <2>2
    <3> HIDE DEF old
    <3>3. Cardinality(old \cup {new}) = IF new \in old THEN Cardinality(old)
                                       ELSE Cardinality(old) + 1
      BY <2>1, FS_AddElement
    <3>4. Cardinality(old \cup {new}) <= config.quota
      BY <2>1, <3>2, <3>3
    <3> QED
      BY <3>1, <3>4
  <2>3. CASE new.identity.key # k
    <3>1. r \in records /\ Of(after, k) = old
      BY <2>3 DEF Of
    <3>2. old \subseteq Of(records, k) /\ IsFiniteSet(Of(records, k))
      BY FS_Subset DEF Of, Limited
    <3>3. Cardinality(old) <= Cardinality(Of(records, k)) /\ Cardinality(Of(records, k)) \in Nat
      BY <3>2, FS_Subset, FS_CardinalityType
    <3>4. Cardinality(Of(records, k)) <= config.quota
      BY <3>1 DEF Limited
    <3> QED
      BY <2>1, <3>1, <3>3, <3>4
  <2> QED
    BY <2>2, <2>3
<1> QED
  BY <1>1, <1>2, <1>3, <1>4 DEF Limited

\* The records of the state are of operations, and each reaches the end of its window.
LEMMA RecordsStep ==
  ASSUME TypeOK, TypeOK', OpsInv, RecordsInv, [Next]_vars
  PROVE  RecordsInv'
<1>1. ASSUME stateKey # None, NEW r \in stateKey.records
      PROVE  r.identity = Identity(r.by)' /\ Reaches(r.deadline, r.by)'
  <2>1. PICK o \in Ops : o = r.by
    BY <1>1, ConfigType DEF States, Records
  <2>2. PICK d \in Nat : d = r.deadline
    BY <1>1, ConfigType DEF States, Records
  <2>3. r.identity = Identity(o) /\ Reaches(d, o)
    BY <1>1, <2>1, <2>2 DEF RecordsInv
  <2>4. Identity(o)' = Identity(o) /\ Reaches(d, o)'
    BY <2>3, TimeStep
  <2> QED
    BY <2>1, <2>2, <2>3, <2>4
<1>2. CASE stateKey' \in {None, stateKey}
  BY <1>1, <1>2 DEF RecordsInv
<1>3. ASSUME NEW c \in Clients, ScriptQuarantines(c)
      PROVE  RecordsInv'
  <2>1. stateKey'.records = {} /\ stateKey'.config = Settings(c)
    BY <1>3 DEF ScriptQuarantines, Saves, Empty
  <2>2. Limited({}, Settings(c))
    <3>1. IsFiniteSet({}) /\ Cardinality({}) = 0 /\ Settings(c).capacity \in Nat
      BY FS_EmptySet, SettingsType
    <3> QED
      BY <3>1 DEF Limited
  <2> QED
    BY <2>1, <2>2 DEF RecordsInv
<1>4. ASSUME NEW o \in Ops, ScriptAccepts(o)
      PROVE  RecordsInv'
  <2>1. /\ stateKey # None /\ Refusal(o) = "none" /\ stateKey.config = Settings(o)
        /\ stateKey' = [stateKey EXCEPT !.lastTime = DeadlineBase,
                                        !.records = Live \cup {RecordOf(o)}]
        /\ phase[o] # "idle"
    BY <1>4 DEF ScriptAccepts, Ours, Consistent, Saves, Executes, OpsInv
  <2>2. stateKey'.records = Live \cup {RecordOf(o)} /\ stateKey'.config = stateKey.config
    BY <2>1, AcceptType
  <2>3. /\ ~Known(o) /\ ~ (Cardinality(LiveFor(o)) >= Settings(o).quota)
        /\ ~ (Cardinality(Live) >= Settings(o).capacity)
    BY <2>1 DEF Refusal
  <2>4. Live \in SUBSET stateKey.records /\ LiveFor(o) = Of(Live, RecordOf(o).identity.key)
    BY DEF Live, LiveFor, Of, RecordOf, Identity
  <2>5. Limited(Live \cup {RecordOf(o)}, stateKey.config)
    <3> DEFINE records == stateKey.records
               config == stateKey.config
               live == Live
               new == RecordOf(o)
    <3>1. /\ Limited(records, config) /\ config.capacity \in Nat /\ config.quota \in Nat
          /\ live \in SUBSET records
          /\ ~ (Cardinality(live) >= config.capacity)
          /\ ~ (Cardinality(Of(live, new.identity.key)) >= config.quota)
      BY <2>1, <2>3, <2>4, ConfigType DEF RecordsInv
    <3>2. \A r \in live : r.identity # new.identity
      BY <2>3, RecordType DEF Known
    <3> HIDE DEF records, config, live, new
    <3>3. Limited(live \cup {new}, config)
      BY <3>1, <3>2, LimitedInsert
    <3> QED
      BY <3>3 DEF config, live, new
  <2>6. ASSUME NEW r \in stateKey'.records
        PROVE  r.identity = Identity(r.by)' /\ Reaches(r.deadline, r.by)'
    <3>1. CASE r \in Live
      BY <1>1, <2>1, <3>1 DEF Live
    <3>2. CASE r = RecordOf(o)
      <4>1. PICK d \in Nat : d = r.deadline
        BY <3>2, RecordType DEF Records
      <4>2. r.identity = Identity(o) /\ r.by = o /\ Reaches(d, o)
        BY <2>1, <3>2, <4>1, RecordType
      <4> QED
        BY <4>1, <4>2, TimeStep
    <3> QED
      BY <2>2, <3>1, <3>2
  <2> QED
    BY <2>2, <2>5, <2>6 DEF RecordsInv
<1> QED
  BY <1>2, <1>3, <1>4, ServerSteps DEF Tick, ServerStepsBack, ServerLoses, serverVars

-----------------------------------------------------------------------------
(* What was accepted.                                                      *)

\* The request of p, accepted before, does not stand in the way of o when the
\* script accepts it: its window is over.
LEMMA NoneInTheWay ==
  ASSUME TypeOK, OpsInv, KeysInv, NEW o \in Ops, NEW p \in Ops, Kept(p),
         ScriptAccepts(o), Identity(o) = Identity(p)
  PROVE  Over(p)
<1>1. /\ Whole /\ ServerNow >= untilKey /\ untilKey = stateKey.until
      /\ \A r \in stateKey.records : r.identity = Identity(o) => ~ (r.deadline > ServerNow)
  BY DEF ScriptAccepts, Ours, Consistent, Whole, Refusal, Known, Live
<1>2. stateKey \in States /\ ServerNow \in Nat
  BY <1>1, ConfigType, Readings DEF Whole
<1>3. CASE Reaches(stateKey.until, p)
  <2>1. PICK d \in Nat : d = stateKey.until
    BY <1>2 DEF States
  <2> QED
    BY <1>1, <1>2, <1>3, <2>1, PassedIsOver
<1>4. ASSUME NEW r \in stateKey.records, r.identity = Identity(p), Reaches(r.deadline, p)
      PROVE  Over(p)
  <2>1. PICK d \in Nat : d = r.deadline
    BY <1>2 DEF States, Records
  <2> QED
    BY <1>1, <1>2, <1>4, <2>1, PassedIsOver
<1> QED
  BY <1>1, <1>3, <1>4 DEF Kept

\* The record of an accepted operation stays until its window has passed.
LEMMA KeptStep ==
  ASSUME IInv, TypeOK', [Next]_vars
  PROVE  KeptInv'
<1> USE DEF IInv
<1> SUFFICES ASSUME NEW o \in Ops, Accepted(o)'
             PROVE  Kept(o)'
  BY DEF KeptInv
<1>1. /\ Identity(o)' = Identity(o)
      /\ Over(o) => Over(o)'
      /\ \A d \in Nat : Reaches(d, o) => Reaches(d, o)'
  BY TimeStep
<1>2. Accepted(o) => Kept(o)
  BY DEF KeptInv
<1>3. Accepted(o) \/ ScriptAccepts(o)
  BY AcceptedStep
<1>4. ASSUME stateKey # None
      PROVE  /\ stateKey.until \in Nat /\ \A r \in stateKey.records : r.deadline \in Nat
  BY <1>4, ConfigType DEF States, Records
<1>5. CASE UNCHANGED serverVars /\ Accepted(o)
  <2>1. UNCHANGED <<stateKey, epochKey, untilKey>>
    BY <1>5 DEF serverVars
  <2>2. CASE Whole /\ Reaches(stateKey.until, o)
    <3>1. PICK d \in Nat : d = stateKey.until
      BY <1>4, <2>2 DEF Whole
    <3>2. Reaches(d, o)'
      BY <1>1, <2>2, <3>1
    <3> QED
      BY <2>1, <3>1, <3>2 DEF Kept
  <2>3. CASE Whole /\ \E r \in stateKey.records : r.identity = Identity(o) /\ Reaches(r.deadline, o)
    <3>1. PICK r \in stateKey.records : r.identity = Identity(o) /\ Reaches(r.deadline, o)
      BY <2>3
    <3>2. PICK d \in Nat : d = r.deadline
      BY <1>4, <2>3 DEF Whole
    <3>3. Reaches(d, o)'
      BY <1>1, <3>1, <3>2
    <3> QED
      BY <1>1, <2>1, <3>1, <3>2, <3>3 DEF Kept
  <2> QED
    BY <1>1, <1>2, <1>5, <2>1, <2>2, <2>3 DEF Kept, Whole
<1>6. CASE ServerLoses /\ Accepted(o)
  <2>1. CASE Whole'
    <3>1. UNCHANGED serverVars
      BY <1>6, <2>1 DEF ServerLoses, Whole, serverVars
    <3> QED
      BY <1>5, <1>6, <3>1
  <2> QED
    BY <2>1 DEF Kept
<1>7. ASSUME NEW c \in Clients, ScriptQuarantines(c), Accepted(o)
      PROVE  Kept(o)'
  <2>1. stateKey'.until = DeadlineBase + Horizon(c)
    BY <1>7 DEF ScriptQuarantines, Saves, Empty
  <2>2. phase[o] # "idle" /\ sampled[o] \in Nat /\ sampled[o] <= Second
        /\ End(o) <= sampled[o] + RecoveryHorizon
    BY <1>7, EndType DEF OpsInv, Accepted
  <2>3. PICK term \in Nat : term = Settings(c).horizon
    BY SettingsType
  <2>4. End(o) <= sampled[o] + term
    <3>1. RecoveryHorizon \in Int
      BY TimePolicyAssumption DEF RecoveryHorizon, Smaller
    <3> QED
      BY <2>2, <2>3, <3>1, SettingsType, EndType
  <2>5. Reaches(DeadlineBase + term * Millis, o)
    BY <2>2, <2>3, <2>4, TermReaches
  <2>6. PICK d \in Nat : d = DeadlineBase + Horizon(c)
    BY SettingsType, Readings
  <2>7. Reaches(d, o)'
    BY <1>1, <2>3, <2>5, <2>6 DEF Horizon
  <2> QED
    BY <2>1, <2>6, <2>7 DEF Kept
<1>8. ASSUME NEW q \in Ops, ScriptAccepts(q)
      PROVE  Kept(o)'
  <2>1. /\ Whole
        /\ stateKey' = [stateKey EXCEPT !.lastTime = DeadlineBase,
                                        !.records = Live \cup {RecordOf(q)}]
        /\ phase[q] # "idle"
    BY <1>8 DEF ScriptAccepts, Ours, Consistent, Whole, Saves, Executes, OpsInv
  <2>2. stateKey'.records = Live \cup {RecordOf(q)} /\ stateKey'.until = stateKey.until
    BY <2>1, AcceptType DEF Whole
  <2>3. CASE o = q
    <3>1. PICK d \in Nat : d = RecordOf(o).deadline
      BY RecordType DEF Records
    <3>2. Reaches(d, o)'
      BY <1>1, <2>1, <2>3, <3>1, RecordType
    <3>3. RecordOf(o).identity = Identity(o)'
      BY <1>1, RecordType
    <3>4. RecordOf(o) \in stateKey'.records
      BY <2>2, <2>3
    <3>5. \E r \in stateKey'.records : r.identity = Identity(o)' /\ Reaches(r.deadline, o)'
      BY <3>1, <3>2, <3>3, <3>4
    <3> QED
      BY <3>5 DEF Kept
  <2>4. CASE o # q
    <3>1. Kept(o)
      <4>1. Accepted(o) \/ ScriptAccepts(o)
        BY <1>3
      <4>2. ASSUME ScriptAccepts(o)
            PROVE  Accepted(o)
        BY <1>8, <2>4, <4>2 DEF ScriptAccepts, Executes, TypeOK, Clients
      <4> QED
        BY <1>2, <4>1, <4>2
    <3>2. CASE Reaches(stateKey.until, o)
      <4>1. PICK d \in Nat : d = stateKey.until
        BY <1>4, <2>1 DEF Whole
      <4>2. Reaches(d, o)'
        BY <1>1, <3>2, <4>1
      <4> QED
        BY <2>2, <4>1, <4>2 DEF Kept
    <3>3. ASSUME NEW r \in stateKey.records, r.identity = Identity(o), Reaches(r.deadline, o)
          PROVE  Kept(o)'
      <4>1. PICK d \in Nat : d = r.deadline
        BY <1>4, <2>1 DEF Whole
      <4>2. CASE d > ServerNow
        <5>1. r \in stateKey'.records /\ Reaches(d, o)' /\ r.identity = Identity(o)'
          BY <1>1, <2>2, <3>3, <4>1, <4>2 DEF Live
        <5> QED
          BY <4>1, <5>1 DEF Kept
      <4>3. CASE ~ (d > ServerNow)
        <5>1. Over(o)
          BY <3>3, <4>1, <4>3, PassedIsOver, Readings
        <5> QED
          BY <1>1, <5>1 DEF Kept
      <4> QED
        BY <4>2, <4>3
    <3> QED
      BY <1>1, <2>1, <3>1, <3>2, <3>3 DEF Kept
  <2> QED
    BY <2>3, <2>4
<1> QED
  BY <1>3, <1>5, <1>6, <1>7, <1>8, ServerSteps
  DEF Tick, ServerStepsBack


\* No two operations with windows that meet are accepted for one identity.
LEMMA PairStep ==
  ASSUME IInv, TypeOK', [Next]_vars
  PROVE  PairInv'
<1> USE DEF IInv
<1> SUFFICES ASSUME NEW o \in Ops, NEW p \in Ops, o # p, Accepted(o)', Accepted(p)',
                    Identity(o)' = Identity(p)'
             PROVE  Over(o)' \/ Over(p)'
  BY DEF PairInv
<1>1. /\ Identity(o) = Identity(p)
      /\ Over(o) => Over(o)'
      /\ Over(p) => Over(p)'
  BY TimeStep
<1>2. /\ Accepted(o) \/ ScriptAccepts(o)
      /\ Accepted(p) \/ ScriptAccepts(p)
  BY AcceptedStep
<1>3. CASE Accepted(o) /\ Accepted(p)
  BY <1>1, <1>3 DEF PairInv
<1>4. CASE ScriptAccepts(o) /\ Accepted(p)
  BY <1>1, <1>4, NoneInTheWay DEF KeptInv
<1>5. CASE ScriptAccepts(p) /\ Accepted(o)
  BY <1>1, <1>5, NoneInTheWay DEF KeptInv
<1>6. ~ (ScriptAccepts(o) /\ ScriptAccepts(p))
  BY DEF ScriptAccepts, Executes, TypeOK, Clients
<1> QED
  BY <1>2, <1>3, <1>4, <1>5, <1>6

\* The invariant holds at the start.
LEMMA InvariantInit == Init => IInv
<1> SUFFICES ASSUME Init PROVE IInv
  OBVIOUS
<1>1. TypeOK
  BY TypeInit
<1>2. /\ phase = [c \in Clients |-> "idle"] /\ wire = [c \in Clients |-> "none"]
      /\ reply = [c \in Clients |-> "none"] /\ verdict = [o \in Ops |-> "none"]
  BY DEF Init
<1>3. OpsInv /\ KeptInv /\ PairInv
  BY <1>2 DEF OpsInv, KeptInv, PairInv, Accepted, Clients
<1>4. CASE epochKey = None /\ untilKey = None /\ stateKey = None
  BY <1>1, <1>3, <1>4 DEF IInv, KeysInv, RecordsInv
<1>5. ASSUME NEW config \in Leftovers, stateKey = LeftState(config),
             epochKey = stateKey.epoch, untilKey = stateKey.until
      PROVE  IInv
  <2>1. /\ stateKey.epoch = 0 /\ stateKey.until = config.horizon * Millis
        /\ stateKey.detectedAt = 0 /\ stateKey.lastTime = 0 /\ stateKey.config = config
        /\ stateKey.records = {}
    BY <1>5 DEF LeftState
  <2>2. config.horizon \in Nat /\ config.capacity \in Nat /\ Millis \in Nat
    BY RedisReplayAssumption
  <2>3. config.horizon * Millis \in Nat
    BY <2>2, Z3
  <2>4. stateKey.until = stateKey.detectedAt + stateKey.config.horizon * Millis
    BY <2>1, <2>3
  <2>5. Whole
    <3>1. None \notin Nat /\ None \notin States
      BY RedisReplayAssumption
    <3>2. stateKey \in States
      BY <1>5, <2>2, <2>3 DEF LeftState, States
    <3> QED
      BY <1>5, <2>1, <2>3, <3>1, <3>2 DEF Whole
  <2>6. KeysInv
    BY <1>5, <2>1, <2>4, <2>5, Readings, <1>1 DEF KeysInv, Init
  <2>7. Limited({}, config)
    <3>1. IsFiniteSet({}) /\ Cardinality({}) = 0
      BY FS_EmptySet
    <3> QED
      BY <2>2, <3>1 DEF Limited
  <2>8. RecordsInv
    BY <2>1, <2>7 DEF RecordsInv
  <2> QED
    BY <1>1, <1>3, <2>6, <2>8 DEF IInv
<1> QED
  BY <1>4, <1>5 DEF Init

\* Every step keeps the invariant.
LEMMA InvariantStep == IInv /\ [Next]_vars => IInv'
<1> SUFFICES ASSUME IInv, [Next]_vars PROVE IInv'
  OBVIOUS
<1>1. TypeOK'
  BY TypeStep DEF IInv
<1> QED
  BY <1>1, OpsStep, KeysStep, RecordsStep, KeptStep, PairStep DEF IInv

\* The invariant holds in every state.
LEMMA InvariantHolds == Spec => []IInv
<1> QED
  BY InvariantInit, InvariantStep, PTL DEF Spec

-----------------------------------------------------------------------------
(* The theorems.                                                           *)

\* The records in the server keep to the limits of its configuration, and there
\* is one of a nonce (replay-script.ts: recordCount, forKey, liveCount).
THEOREM RecordsCorrect == Spec => []RecordsSound
<1>1. IInv => RecordsSound
  <2> SUFFICES ASSUME IInv PROVE RecordsSound
    OBVIOUS
  <2>1. CASE stateKey = None
    BY <2>1 DEF IInv, RecordsSound
  <2>2. CASE stateKey # None
    <3>1. Limited(stateKey.records, stateKey.config)
      BY <2>2 DEF IInv, RecordsInv
    <3> QED
      BY <2>2, <3>1 DEF IInv, RecordsSound, Limited, Of
  <2> QED
    BY <2>1, <2>2
<1> QED
  BY <1>1, InvariantHolds, PTL

\* A nonce that was accepted stays in its state until its window is over.
THEOREM KeptCorrect == Spec => KeptThroughWindow
<1> DEFINE Step == stateKey # None /\ stateKey' # None /\ stateKey'.epoch = stateKey.epoch =>
                     \A r \in stateKey.records \ stateKey'.records :
                       Second >= WindowEnd(request[r.by].created, request[r.by].expires)
<1>1. ASSUME IInv, [Next]_vars
      PROVE  Step
  <2> SUFFICES ASSUME stateKey # None, stateKey' # None, stateKey'.epoch = stateKey.epoch,
                      NEW r \in stateKey.records, r \notin stateKey'.records
               PROVE  Second >= WindowEnd(request[r.by].created, request[r.by].expires)
    OBVIOUS
  <2>0. TypeOK /\ OpsInv /\ KeysInv /\ RecordsInv
    BY <1>1 DEF IInv
  <2>1. PICK q \in Ops : ScriptAccepts(q)
    <3>1. ASSUME NEW c \in Clients
          PROVE  ~ScriptQuarantines(c)
      <4>1. ScriptQuarantines(c) => stateKey'.epoch = epochs + 1
        BY DEF ScriptQuarantines, Saves, Empty
      <4>2. stateKey.epoch \in Nat /\ stateKey.epoch <= epochs /\ epochs \in Nat
        BY <2>0, ConfigType DEF KeysInv, States, TypeOK
      <4> QED
        BY <4>1, <4>2
    <3>2. stateKey' # stateKey
      OBVIOUS
    <3> QED
      BY <1>1, <3>1, <3>2, ServerSteps DEF Tick, ServerStepsBack, ServerLoses, serverVars
  <2>2. stateKey'.records = Live \cup {RecordOf(q)}
    BY <2>0, <2>1, AcceptType DEF ScriptAccepts, Saves
  <2>3. PICK o \in Ops : o = r.by
    BY <2>0, ConfigType DEF States, Records
  <2>4. PICK d \in Nat : d = r.deadline
    BY <2>0, ConfigType DEF States, Records
  <2>5. Reaches(d, o) /\ ~ (d > ServerNow)
    BY <2>0, <2>2, <2>3, <2>4 DEF RecordsInv, Live
  <2>6. Over(o)
    BY <2>0, <2>5, Readings, PassedIsOver
  <2>7. Second \in Nat /\ End(o) \in Int
    BY <2>0, Readings, EndType
  <2> QED
    BY <2>3, <2>6, <2>7 DEF Over, End
<1>2. IInv /\ [Next]_vars => [Step]_vars
  BY <1>1
<1>3. Spec => [][Step]_vars
  BY <1>2, InvariantHolds, PTL DEF Spec
<1> QED
  BY <1>3 DEF KeptThroughWindow

\* While nothing is lost and the clock does not step back, no quarantine is begun
\* a second time or changed.
THEOREM QuarantineCorrect == Spec => NoNeedlessQuarantine
<1> DEFINE Step == losses = 0 /\ steps = 0 /\ untilKey # None => untilKey' = untilKey \/ losses' > 0
<1>1. ASSUME IInv, [Next]_vars
      PROVE  Step
  <2> SUFFICES ASSUME losses = 0, steps = 0, untilKey # None
               PROVE  untilKey' = untilKey \/ losses' > 0
    OBVIOUS
  <2>0. TypeOK /\ OpsInv /\ KeysInv
    BY <1>1 DEF IInv
  <2>1. Whole
    BY <2>0 DEF KeysInv
  <2>2. Consistent
    BY <2>0, <2>1 DEF KeysInv, Whole, Consistent
  <2>3. ASSUME NEW o \in Ops, ScriptAccepts(o)
        PROVE  untilKey' = untilKey
    <3>1. stateKey'.until = stateKey.until /\ untilKey' = stateKey'.until
      BY <2>0, <2>1, <2>3, AcceptType DEF ScriptAccepts, Saves, Whole
    <3> QED
      BY <2>2, <3>1 DEF Consistent
  <2>4. ASSUME ServerLoses
        PROVE  losses' > 0
    BY <2>4 DEF ServerLoses
  <2> QED
    BY <1>1, <2>2, <2>3, <2>4, ServerSteps
    DEF Tick, ServerStepsBack, ScriptQuarantines, serverVars
<1>2. IInv /\ [Next]_vars => [Step]_vars
  BY <1>1
<1>3. Spec => [][Step]_vars
  BY <1>2, InvariantHolds, PTL DEF Spec
<1> QED
  BY <1>3 DEF NoNeedlessQuarantine



-----------------------------------------------------------------------------
(* The refinement.                                                         *)

admitted == {o \in Ops : verdict[o] = "verified"}
begun == [o \in Ops |-> IF phase[o] = "idle" THEN 0 ELSE 1]

\* At the start nothing has begun and nothing is admitted.
LEMMA AdmissionInit == Init => Admission!Init
<1> SUFFICES ASSUME Init PROVE Admission!Init
  OBVIOUS
<1>1. /\ admitted = {} /\ begun = [o \in Ops |-> 0]
  BY DEF Init, admitted, begun, Clients
<1> QED
  BY <1>1 DEF Init, Admission!Init, admitted, begun

\* The context's last check admits an accepted request, or refuses it.
LEMMA FinishAdmits ==
  ASSUME IInv, NEW o \in Ops, Finish(o)
  PROVE  [Admission!Next]_(Admission!vars)
<1>0. /\ TypeOK /\ OpsInv /\ PairInv /\ o \in Clients
      /\ phase[o] = "consumed" /\ verdict[o] = "none" /\ request' = request
      /\ phase' = [phase EXCEPT ![o] = "done"]
  BY DEF IInv, OpsInv, Finish, Clients
<1>1. begun' = begun /\ begun[o] = 1
  BY <1>0 DEF begun, TypeOK, Clients
<1>2. CASE Eligible(o)
  <2>1. /\ verdict' = [verdict EXCEPT ![o] = "verified"]
        /\ verifiedAt' = [verifiedAt EXCEPT ![o] = Second] /\ Second \in Nat
        /\ verifiedAt'[o] = Second
    BY <1>0, <1>2, Readings DEF Finish, TypeOK
  <2>2. admitted' = admitted \cup {o} /\ o \notin admitted
    BY <1>0, <2>1 DEF admitted, TypeOK
  <2>3. ASSUME NEW p \in admitted, Identity(o) = Identity(p)
        PROVE  ~ (Second < End(p))
    <3>1. p \in Ops /\ p # o /\ Accepted(p) /\ Accepted(o)
      BY <1>0, <2>3 DEF admitted, Accepted
    <3>2. Over(o) \/ Over(p)
      BY <1>0, <2>3, <3>1 DEF PairInv
    <3>3. ~Over(o)
      <4>1. Second < request[o].expires + Skew /\ Second < request[o].created + MaxAge + Skew
        BY <1>2 DEF Eligible, InWindow
      <4>2. Second < End(o)
        BY <1>0, <2>1, <4>1, EndType, TimePolicyAssumption DEF End, WindowEnd, Smaller
      <4> QED
        BY <1>0, <2>1, <4>2, EndType DEF Over
    <3> QED
      BY <1>0, <2>1, <3>1, <3>2, <3>3, EndType DEF Over
  <2>4. \A p \in admitted : ~Admission!Blocks(p, o, Second)
    BY <2>3 DEF Admission!Blocks, Admission!SameNonce, Identity, End, admitted,
                Admission!WindowEnd, WindowEnd, Admission!Smaller, Smaller
  <2>5. Admission!InWindow(request[o].created, request[o].expires, Second)
    BY <1>2 DEF Eligible, InWindow, Admission!InWindow
  <2>6. Admission!Admit(o)
    BY <1>0, <1>1, <2>1, <2>2, <2>4, <2>5 DEF Admission!Admit, admitted, begun
  <2> QED
    BY <2>6 DEF Admission!Next
<1>3. CASE ~Eligible(o)
  <2>1. /\ verdict' = [verdict EXCEPT ![o] = "refused"]
        /\ verifiedAt' = [verifiedAt EXCEPT ![o] = verifiedAt[o]]
    BY <1>3 DEF Finish
  <2>2. admitted' = admitted /\ verifiedAt' = verifiedAt
    BY <1>0, <2>1 DEF admitted, TypeOK
  <2> QED
    BY <1>0, <1>1, <2>2 DEF Admission!vars, admitted, begun
<1> QED
  BY <1>2, <1>3

\* Every step of the clients and the server is a step of the admission, or none.
LEMMA AdmissionStep ==
  ASSUME IInv, [Next]_vars
  PROVE  [Admission!Next]_(Admission!vars)
<1>0. /\ TypeOK /\ OpsInv /\ phase \in [Clients -> {"idle", "waiting", "usable", "consumed", "done"}]
      /\ Ops \subseteq Clients /\ Ops \cap Adapters = {}
  BY RedisReplayAssumption DEF IInv, TypeOK, Clients
<1>1. ASSUME NEW o \in Ops, Consume(o)
      PROVE  Admission!Begin(o)
  <2>1. /\ phase[o] = "idle" /\ UNCHANGED <<request, verdict, verifiedAt>>
        /\ \E p \in {"waiting", "done"} : phase' = [phase EXCEPT ![o] = p]
    BY <1>1 DEF Consume, Sends
  <2>2. begun[o] = 0 /\ begun' = [begun EXCEPT ![o] = 1]
    BY <1>0, <2>1 DEF begun
  <2> QED
    BY <2>1, <2>2 DEF Admission!Begin, admitted, begun
\* Every other step is invisible.
<1>2. ASSUME UNCHANGED <<request, verdict, verifiedAt>>,
             \A o \in Ops : phase'[o] = "idle" <=> phase[o] = "idle"
      PROVE  UNCHANGED Admission!vars
  <2>1. begun' = begun /\ admitted' = admitted
    BY <1>2 DEF begun, admitted
  <2> QED
    BY <1>2, <2>1 DEF Admission!vars, begun, admitted
<1>3. CASE \/ Tick \/ ServerStepsBack \/ ServerLoses \/ UNCHANGED vars
  BY <1>2, <1>3 DEF Tick, ServerStepsBack, ServerLoses, vars, commandVars, opVars
<1>4. ASSUME NEW c, NEW answer, Executes(c, answer)
      PROVE  UNCHANGED Admission!vars
  BY <1>2, <1>4 DEF Executes, opVars
<1>5. CASE \E c \in Clients : Script(c) \/ ScriptReady(c) \/ ScriptRefuses(c) \/ ScriptAccepts(c)
  BY <1>4, <1>5 DEF Script, ScriptFails, ScriptMismatches, ScriptWaits, ScriptReady,
                    ScriptQuarantines, ScriptRefuses, ScriptAccepts
<1>6. ASSUME NEW a \in Adapters, Setup(a)
      PROVE  UNCHANGED Admission!vars
  <2>1. \A o \in Ops : phase'[o] = phase[o]
    BY <1>0, <1>6 DEF Setup, Sends
  <2> QED
    BY <1>2, <1>6, <2>1 DEF Setup, opVars
<1>7. ASSUME NEW c \in Clients, Receives(c) \/ TimesOut(c)
      PROVE  UNCHANGED Admission!vars
  <2>1. PICK outcome : Concludes(c, outcome) /\ phase[c] = "waiting" /\ UNCHANGED opVars
    BY <1>7 DEF Receives, TimesOut
  <2>2. \A o \in Ops : phase'[o] = "idle" <=> phase[o] = "idle"
    BY <1>0, <2>1 DEF Concludes
  <2> QED
    BY <1>2, <2>1, <2>2 DEF opVars
<1> QED
  <2>1. CASE \E o \in Ops : Consume(o)
    BY <1>1, <2>1 DEF Admission!Next
  <2>2. CASE \E o \in Ops : Finish(o)
    BY <2>2, FinishAdmits
  <2>3. CASE ~ \E o \in Ops : Consume(o) \/ Finish(o)
    BY <1>0, <1>3, <1>5, <1>6, <1>7, <2>3 DEF Next, Clients
  <2> QED
    BY <2>1, <2>2, <2>3

\* The adapters together admit as the abstract specification allows: losses of
\* data, late commands and the fractions of a millisecond make no difference.
THEOREM AdmissionCorrect == Spec => AdmitsOnce
<1>1. Init => Admission!Init
  BY AdmissionInit
<1>2. IInv /\ [Next]_vars => [Admission!Next]_(Admission!vars)
  BY AdmissionStep
<1> QED
  BY <1>1, <1>2, InvariantHolds, PTL DEF Spec, AdmitsOnce, Admission!Spec

=============================================================================
