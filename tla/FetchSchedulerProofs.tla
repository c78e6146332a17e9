------------------------- MODULE FetchSchedulerProofs -------------------------
(***************************************************************************)
(* The scheduler's slots, wake-ups, clock loss and rates, for any number   *)
(* of origins and jobs, any limits and any length of time.                 *)
(***************************************************************************)
EXTENDS FetchScheduler, SequenceTheorems, FiniteSetTheorems,
        WellFoundedInduction, TLAPS

\* What #jobs, #queue and the jobs' own flags tell of each other.
JobsInv ==
  /\ queue = {n \in Jobs : phase[n] = "queued"}
  /\ \A n \in Jobs :
       /\ phase[n] = "unused" <=> n > jobs
       /\ phase[n] # "unused" => origin[n] \in Origins
       /\ phase[n] \in {"unused", "queued"} =>
            outcome[n] = "pending" /\ dispatchedAt[n] = Never
       /\ dispatchedAt[n] <= time

\* A task has calls of #pump under way; #execute has a job that holds a slot.
TurnInv ==
  /\ turn = "idle" <=> frames = 0
  /\ turn = "execute" => current \in Jobs /\ phase[current] = "active"

\* Every dispatch from t on is recorded, behind the records from before t, as
\* long as t is within the window.
Since(t) == {m \in Dispatched : dispatchedAt[m] >= t}
RecordedIn(s) ==
  \A t \in 0 .. time, i \in 0 .. Len(s) :
    time - t < Window /\ (i = 0 \/ s[i] < t) => Cardinality(Since(t)) <= Len(s) - i
StartsRecorded == RecordedIn(starts)

\* Every dispatch within the cooldown has a record that is no older.
CooldownRecorded ==
  \A m \in Dispatched : time - dispatchedAt[m] < Cooldown =>
    origin[m] \in DOMAIN originStarts /\ originStarts[origin[m]] >= dispatchedAt[m]

\* A job only waits for an origin that had cooled down when it was made.
QueuedCool ==
  \A n \in queue, m \in Dispatched : origin[n] = origin[m] =>
    m < n /\ time - dispatchedAt[m] >= Cooldown

SlotsInv == TypeOK /\ JobsInv /\ TurnInv /\ SlotsExact /\ NoLostWakeup /\ ClockLossSettles
RatesInv == StartsRecorded /\ CooldownRecorded /\ QueuedCool /\ RatesHold
IInv == SlotsInv /\ RatesInv

-----------------------------------------------------------------------------
\* A nonempty set of naturals has a least element.
LEMMA LeastNatural ==
  ASSUME NEW T, T \subseteq Nat, T # {}
  PROVE  \E x \in T : \A y \in T : x <= y
<1>1. IsWellFoundedOn(OpToRel(<, Nat), Nat)
  BY NatLessThanWellFounded
<1>2. PICK x \in T : \A y \in T : ~(<<y, x>> \in OpToRel(<, Nat))
  BY <1>1, WFMin
<1>3. ASSUME NEW y \in T PROVE x <= y
  <2>1. y < x => <<y, x>> \in OpToRel(<, Nat)
    BY DEF OpToRel
  <2>2. ~(y < x)
    BY <1>2, <2>1, Zenon
  <2> QED
    BY <2>2
<1> QED
  BY <1>3

\* Sets of jobs are finite.
LEMMA JobsFinite ==
  ASSUME NEW S, S \subseteq Jobs
  PROVE  IsFiniteSet(S) /\ Cardinality(S) \in Nat
<1>1. IsFiniteSet(Jobs)
  BY FS_Interval, FetchSchedulerAssumption DEF Jobs
<1> QED
  BY <1>1, FS_Subset, FS_CardinalityType

\* #queue.shift() takes a job that waits.
LEMMA FirstIsIn ==
  ASSUME NEW S, S \subseteq Jobs, S # {}
  PROVE  First(S) \in S
<1>1. S \subseteq Nat
  BY DEF Jobs
<1>2. \E n \in S : \A m \in S : n <= m
  BY <1>1, LeastNatural
<1> QED
  BY <1>2 DEF First

\* The loop of #prune ends: it shifts records that have left the window, and
\* keeps the others in place.
LEMMA PruneStarts ==
  ASSUME starts \in Seq(Nat), time \in Nat
  PROVE  /\ Stale \in 0 .. Len(starts)
         /\ \A i \in 1 .. Stale : time - starts[i] >= Window
         /\ Recent \in Seq(Nat) /\ Len(Recent) = Len(starts) - Stale
         /\ \A i \in 1 .. Len(Recent) : Recent[i] = starts[i + Stale]
<1> DEFINE Stops(k) == /\ \A i \in 1 .. k : time - starts[i] >= Window
                       /\ k < Len(starts) => time - starts[k + 1] < Window
           Fresh == {i \in 1 .. Len(starts) : time - starts[i] < Window}
<1>1. Len(starts) \in Nat /\ \A i \in 1 .. Len(starts) : starts[i] \in Nat
  OBVIOUS
<1>2. \E k \in 0 .. Len(starts) : Stops(k)
  <2>1. CASE Fresh = {}
    <3>1. ASSUME NEW i \in 1 .. Len(starts) PROVE time - starts[i] >= Window
      <4>1. ~(time - starts[i] < Window)
        BY <2>1
      <4> QED
        BY <4>1, <1>1, FetchSchedulerAssumption
    <3>2. Stops(Len(starts))
      BY <3>1, <1>1
    <3> QED
      BY <3>2, <1>1
  <2>2. CASE Fresh # {}
    <3>1. PICK f \in Fresh : \A g \in Fresh : f <= g
      <4>1. Fresh \subseteq Nat
        BY <1>1
      <4> QED
        BY <2>2, <4>1, LeastNatural
    <3>2. f \in 1 .. Len(starts) /\ time - starts[f] < Window
      BY <3>1
    <3>3. ASSUME NEW i \in 1 .. (f - 1) PROVE time - starts[i] >= Window
      <4>1. i \in 1 .. Len(starts) /\ i < f /\ i \notin Fresh
        BY <3>1, <3>2, <1>1
      <4> QED
        BY <4>1, <1>1, FetchSchedulerAssumption
    <3>4. Stops(f - 1) /\ f - 1 \in 0 .. Len(starts)
      BY <3>2, <3>3, <1>1
    <3> QED
      BY <3>4
  <2> QED
    BY <2>1, <2>2
<1>3. Stale \in 0 .. Len(starts) /\ Stops(Stale)
  <2>1. Stale = CHOOSE k \in 0 .. Len(starts) : Stops(k)
    BY DEF Stale
  <2> HIDE DEF Stops
  <2> QED
    BY <1>2, <2>1
<1>4. \A i \in (Stale + 1) .. Len(starts) : starts[i] \in Nat
  BY <1>1, <1>3
<1>5. /\ Recent \in Seq(Nat)
      /\ Len(Recent) = IF Stale + 1 <= Len(starts) THEN Len(starts) - (Stale + 1) + 1 ELSE 0
      /\ \A i \in 1 .. (Len(starts) - (Stale + 1) + 1) : Recent[i] = starts[Stale + 1 + i - 1]
  <2>1. Stale + 1 \in Int /\ Len(starts) \in Int
    BY <1>1, <1>3
  <2> HIDE DEF Stops
  <2> QED
    BY <1>4, <2>1, SubSeqProperties DEF Recent
<1>6. Len(Recent) = Len(starts) - Stale
  BY <1>1, <1>3, <1>5
<1>7. \A i \in 1 .. Len(Recent) : Recent[i] = starts[i + Stale]
  <2> SUFFICES ASSUME NEW i \in 1 .. Len(Recent) PROVE Recent[i] = starts[i + Stale]
    OBVIOUS
  <2>1. Len(starts) \in Int /\ Stale \in Int
    BY <1>1, <1>3
  <2>2. i \in 1 .. (Len(starts) - (Stale + 1) + 1) /\ Stale + 1 + i - 1 = i + Stale
    BY ONLY <1>6, <2>1, i \in 1 .. Len(Recent)
  <2> HIDE DEF Stops, Fresh
  <2>3. Recent[i] = starts[Stale + 1 + i - 1]
    BY <1>5, <2>2
  <2> QED
    BY <2>2, <2>3
<1> QED
  BY <1>3, <1>5, <1>6, <1>7

-----------------------------------------------------------------------------
(* Settling: #fail, and the end of #execute.                               *)

\* Typing of what Settle assigns.
JobsTyped ==
  /\ phase \in [Jobs -> {"unused", "queued", "active", "gone"}]
  /\ outcome \in [Jobs -> {"pending", "value"} \cup Failures]
  /\ timers \subseteq Jobs
  /\ owner \in [Origins -> Jobs \cup {NoJob}]
  /\ queue \subseteq Jobs /\ active \in Nat

\* #fail and the finally block of #execute: jobs settle and leave, none
\* enters; slots and owners stay exact, and what was settled stays so.
LEMMA SettleStep ==
  ASSUME TypeOK, JobsInv, SlotsExact,
         NEW result, NEW left, DOMAIN result \subseteq Jobs, left \subseteq Running,
         \A n \in DOMAIN result : result[n] \in {"value"} \cup Failures,
         Settle(result, left),
         UNCHANGED <<time, jobs, origin, dispatchedAt>>
  PROVE  /\ JobsTyped' /\ JobsInv' /\ SlotsExact'
         /\ queue' = queue \ {n \in DOMAIN result : Pending(n)}
         /\ left = {} => active' = active
         /\ \A n \in Jobs : phase'[n] = "active" <=> phase[n] = "active" /\ n \notin left
         /\ \A n \in Jobs : Pending(n)' => Pending(n) /\ n \notin DOMAIN result
<1> DEFINE hit  == {n \in DOMAIN result : Pending(n)}
           gone == left \cup {n \in hit : phase[n] = "queued"}
<1>1. /\ outcome' = [n \in Jobs |-> IF n \in hit THEN result[n] ELSE outcome[n]]
      /\ timers' = timers \ hit
      /\ phase' = [n \in Jobs |-> IF n \in gone THEN "gone" ELSE phase[n]]
      /\ owner' = [o \in Origins |-> IF owner[o] \in gone THEN NoJob ELSE owner[o]]
      /\ queue' = queue \ gone
      /\ active' = active - Cardinality(left)
  BY Zenon DEF Settle
<1>2. /\ hit \subseteq Jobs /\ gone \subseteq Jobs
      /\ \A n \in hit : n \in DOMAIN result /\ Pending(n)
      /\ \A n \in left : n \in Jobs /\ phase[n] = "active"
      /\ \A n \in gone : phase[n] \in {"queued", "active"}
      /\ \A n \in Jobs : n \in DOMAIN result /\ Pending(n) => n \in hit
  BY DEF Running
<1>3. \A n \in Jobs : phase[n] = "queued" /\ n \in hit => n \in gone
  OBVIOUS
<1> HIDE DEF hit, gone
<1>4. Cardinality(left) \in Nat /\ Cardinality(Running) \in Nat
      /\ Cardinality(Running \ left) = Cardinality(Running) - Cardinality(left)
  <2>1. /\ Running \subseteq Jobs /\ left \subseteq Jobs
        /\ IsFiniteSet(Running) /\ IsFiniteSet(left)
        /\ Cardinality(left) \in Nat /\ Cardinality(Running) \in Nat
    BY JobsFinite DEF Running
  <2>2. Cardinality(Running \ left) = Cardinality(Running) - Cardinality(Running \cap left)
    BY <2>1, FS_Difference
  <2>3. Running \cap left = left
    OBVIOUS
  <2> QED
    BY <2>1, <2>2, <2>3
<1>5. \A n \in Jobs : phase'[n] = IF n \in gone THEN "gone" ELSE phase[n]
  BY <1>1
<1>6. \A n \in Jobs : phase'[n] = "active" <=> phase[n] = "active" /\ n \notin left
  BY <1>2, <1>5 DEF gone
<1>7. Running' = Running \ left
  BY <1>6 DEF Running
<1>8. /\ active' = Cardinality(Running') /\ active' \in Nat /\ active' <= active
      /\ left = {} => active' = active
  <2>1. Cardinality(Running \ left) \in Nat
    BY JobsFinite DEF Running
  <2>2. left = {} => Cardinality(left) = 0
    BY FS_EmptySet
  <2> QED
    BY <1>1, <1>4, <1>7, <2>1, <2>2 DEF SlotsExact
<1>9. JobsTyped'
  <2>1. phase' \in [Jobs -> {"unused", "queued", "active", "gone"}]
    BY <1>1 DEF TypeOK
  <2>2. outcome' \in [Jobs -> {"pending", "value"} \cup Failures]
    BY <1>1, <1>2 DEF TypeOK
  <2>3. owner' \in [Origins -> Jobs \cup {NoJob}]
    BY <1>1 DEF TypeOK
  <2>4. timers' \subseteq Jobs /\ queue' \subseteq Jobs
    BY <1>1 DEF TypeOK
  <2> QED
    BY <1>8, <2>1, <2>2, <2>3, <2>4 DEF JobsTyped
<1>10. \A n \in Jobs : outcome'[n] = IF n \in hit THEN result[n] ELSE outcome[n]
  BY <1>1
<1>11. JobsInv'
  <2>1. queue' = {n \in Jobs : phase'[n] = "queued"}
    BY <1>1, <1>5 DEF JobsInv
  <2>2. ASSUME NEW n \in Jobs
        PROVE  /\ phase'[n] = "unused" <=> n > jobs
               /\ phase'[n] # "unused" => origin[n] \in Origins
               /\ phase'[n] \in {"unused", "queued"} =>
                    outcome'[n] = "pending" /\ dispatchedAt[n] = Never
               /\ dispatchedAt[n] <= time
    BY <1>2, <1>3, <1>5, <1>10 DEF JobsInv, Pending
  <2> QED
    BY <2>1, <2>2 DEF JobsInv
<1>12. SlotsExact'
  <2>1. active' <= MaxActive
    BY <1>8, FetchSchedulerAssumption DEF SlotsExact, TypeOK
  <2>2. ASSUME NEW n \in Jobs, NEW o \in Origins
        PROVE  (owner'[o] = n) <=> (phase'[n] \in {"queued", "active"} /\ origin[n] = o)
    <3>1. owner'[o] = IF owner[o] \in gone THEN NoJob ELSE owner[o]
      BY <1>1
    <3>2. NoJob # n
      BY DEF NoJob, Jobs
    <3> QED
      BY <1>5, <3>1, <3>2 DEF SlotsExact
  <2> QED
    BY <1>8, <2>1, <2>2 DEF SlotsExact
<1>13. queue' = queue \ {n \in DOMAIN result : Pending(n)}
  BY <1>1, <1>2 DEF hit, gone, JobsInv
<1>14. \A n \in Jobs : Pending(n)' => Pending(n) /\ n \notin DOMAIN result
  BY <1>2, <1>5, <1>10, FetchSchedulerAssumption DEF Pending, Failures
<1> QED
  BY <1>6, <1>8, <1>9, <1>11, <1>12, <1>13, <1>14

\* The jobs that #now fails with the first bad reading are all there are.
LEMMA LoseClockStep ==
  ASSUME TypeOK, JobsInv, SlotsExact, ClockLossSettles,
         NEW left, left \subseteq Running,
         LoseClock(left),
         UNCHANGED <<time, jobs, origin, dispatchedAt>>
  PROVE  /\ JobsTyped' /\ JobsInv' /\ SlotsExact'
         /\ healthy' = FALSE /\ ClockLossSettles'
         /\ \A n \in Jobs : phase'[n] = "active" <=> phase[n] = "active" /\ n \notin left
<1> DEFINE result == IF healthy THEN All(Live, "clock") ELSE Nothing
<1>1. healthy' = FALSE /\ Settle(result, left)
  BY DEF LoseClock
<1>2. DOMAIN result = IF healthy THEN Live ELSE {}
  BY DEF All, Nothing
<1>3. Live \subseteq Jobs
  BY DEF Live, TypeOK
<1>4. \A n \in DOMAIN result : result[n] \in {"value"} \cup Failures
  BY DEF All, Nothing, Failures
<1>5. DOMAIN result \subseteq Jobs
  BY <1>2, <1>3
<1> HIDE DEF result
<1>6. /\ JobsTyped' /\ JobsInv' /\ SlotsExact'
      /\ \A n \in Jobs : phase'[n] = "active" <=> phase[n] = "active" /\ n \notin left
      /\ \A n \in Jobs : Pending(n)' => Pending(n) /\ n \notin DOMAIN result
  BY <1>1, <1>4, <1>5, SettleStep
<1>7. ASSUME NEW n \in Jobs PROVE ~Pending(n)'
  <2>1. CASE healthy
    <3>1. Pending(n) => n \in Live
      BY DEF Pending, JobsInv, SlotsExact, Live, Jobs, NoJob
    <3> QED
      BY <2>1, <3>1, <1>2, <1>6
  <2>2. CASE ~healthy
    BY <2>2, <1>6 DEF ClockLossSettles
  <2> QED
    BY <2>1, <2>2
<1> QED
  BY <1>1, <1>6, <1>7 DEF ClockLossSettles

\* Settling jobs while the clock is good.
LEMMA FailStep ==
  ASSUME TypeOK, JobsInv, SlotsExact, healthy,
         NEW result, NEW left, DOMAIN result \subseteq Jobs, left \subseteq Running,
         \A n \in DOMAIN result : result[n] \in {"value"} \cup Failures,
         Settle(result, left),
         UNCHANGED <<healthy, time, jobs, origin, dispatchedAt>>
  PROVE  /\ JobsTyped' /\ JobsInv' /\ SlotsExact' /\ ClockLossSettles'
         /\ queue' = queue \ {n \in DOMAIN result : Pending(n)}
         /\ left = {} => active' = active
         /\ \A n \in Jobs : phase'[n] = "active" <=> phase[n] = "active" /\ n \notin left
BY SettleStep DEF ClockLossSettles

\* Failing what waited too long leaves the jobs that may still start.
LEMMA LateStep ==
  ASSUME TypeOK, JobsInv, SlotsExact, healthy,
         Settle(All(Late, "deadline"), {}),
         UNCHANGED <<healthy, time, jobs, origin, dispatchedAt>>
  PROVE  /\ JobsTyped' /\ JobsInv' /\ SlotsExact' /\ ClockLossSettles'
         /\ queue' = Waiting
         /\ active' = active
         /\ \A n \in Jobs : phase'[n] = "active" <=> phase[n] = "active"
<1> DEFINE result == All(Late, "deadline")
<1>1. /\ Late \subseteq Jobs /\ DOMAIN result = Late /\ Settle(result, {})
      /\ \A n \in DOMAIN result : result[n] \in {"value"} \cup Failures
      /\ {} \subseteq Running
  BY DEF All, Late, Failures
<1>2. {n \in Late : Pending(n)} = Late
  BY DEF Late, Pending, JobsInv
<1> HIDE DEF result
<1>3. /\ JobsTyped' /\ JobsInv' /\ SlotsExact' /\ ClockLossSettles'
      /\ queue' = queue \ {n \in DOMAIN result : Pending(n)}
      /\ {} = {} => active' = active
      /\ \A n \in Jobs : phase'[n] = "active" <=> phase[n] = "active" /\ n \notin {}
  BY <1>1, FailStep
<1> QED
  BY <1>1, <1>2, <1>3 DEF Waiting

\* Pruning keeps the records typed and no longer than they were.
LEMMA PruneTyped ==
  ASSUME TypeOK, Prune
  PROVE  /\ starts' \in Seq(Nat) /\ Len(starts') <= MaxStarts
         /\ DOMAIN originStarts' \subseteq Origins
         /\ \A o \in DOMAIN originStarts' : originStarts'[o] \in Nat
<1>1. Recent \in Seq(Nat) /\ Len(Recent) = Len(starts) - Stale /\ Stale \in 0 .. Len(starts)
  BY PruneStarts DEF TypeOK
<1>2. Len(starts) \in Nat /\ Len(starts) <= MaxStarts
  BY DEF TypeOK
<1>3. DOMAIN Tracked = Cooling /\ Cooling \subseteq DOMAIN originStarts
      /\ \A o \in Cooling : Tracked[o] = originStarts[o]
  BY DEF Tracked, Cooling
<1> QED
  BY <1>1, <1>2, <1>3, FetchSchedulerAssumption DEF Prune, TypeOK

-----------------------------------------------------------------------------
(* Slots, owners, wake-ups and the clock, step by step.                    *)

\* The scheduler begins with nothing queued and no slot taken.
LEMMA SlotsInit == Init => SlotsInv
<1> SUFFICES ASSUME Init PROVE SlotsInv
  OBVIOUS
<1>1. TypeOK
  <2>1. /\ starts \in Seq(Nat) /\ Len(starts) = 0
        /\ DOMAIN originStarts = {}
    BY DEF Init
  <2>2. /\ outcome \in [Jobs -> {"pending", "value"} \cup Failures]
        /\ phase \in [Jobs -> {"unused", "queued", "active", "gone"}]
        /\ owner \in [Origins -> Jobs \cup {NoJob}]
        /\ dispatchedAt \in [Jobs -> Nat \cup {Never}]
        /\ origin \in [Jobs -> Origins \cup {NoOrigin}] /\ started \in [Jobs -> Nat]
    BY DEF Init
  <2>3. /\ time \in Nat /\ faults \in Nat /\ frames \in Nat /\ active \in Nat
        /\ jobs \in 0 .. MaxJobs
    BY FetchSchedulerAssumption DEF Init
  <2>4. broken \in BOOLEAN /\ healthy \in BOOLEAN /\ turn \in {"idle", "pump", "execute"}
    BY DEF Init
  <2>5. /\ current \in Jobs \cup {NoJob} /\ timers \subseteq Jobs /\ queue \subseteq Jobs
        /\ wakes \subseteq Nat /\ wake \in Nat \cup {NoWake}
    BY DEF Init
  <2> QED
    BY <2>1, <2>2, <2>3, <2>4, <2>5, FetchSchedulerAssumption DEF TypeOK
<1>2. JobsInv
  BY FetchSchedulerAssumption DEF Init, JobsInv, Jobs, Never
<1>3. Running = {} /\ Cardinality(Running) = 0
  BY FS_EmptySet DEF Running, Init
<1>4. SlotsExact
  BY <1>3, FetchSchedulerAssumption DEF Init, SlotsExact, Jobs, NoJob
<1>5. TurnInv /\ NoLostWakeup /\ ClockLossSettles
  BY DEF Init, TurnInv, NoLostWakeup, ClockLossSettles
<1> QED
  BY <1>1, <1>2, <1>4, <1>5 DEF SlotsInv

\* Time passes, or the clock breaks: nothing else changes.
LEMMA SlotsClock ==
  ASSUME SlotsInv, Tick \/ ClockFault
  PROVE  SlotsInv'
<1>1. /\ time' \in Nat /\ time' >= time /\ faults' \in Nat /\ broken' \in BOOLEAN
      /\ UNCHANGED <<healthy, turnVars, madeVars, jobVars, rateVars, wakeVars>>
  <2>1. time \in Nat /\ faults \in Nat /\ broken \in BOOLEAN
    BY DEF SlotsInv, TypeOK
  <2>2. CASE Tick
    BY <2>1, <2>2 DEF Tick
  <2>3. CASE ClockFault
    <3>1. broken' \in BOOLEAN
      BY <2>3, Zenon DEF ClockFault
    <3>2. /\ time' = time /\ faults' = faults + 1
          /\ UNCHANGED <<healthy, turnVars, madeVars, jobVars, rateVars, wakeVars>>
      BY <2>3, Zenon DEF ClockFault
    <3> QED
      BY <2>1, <3>1, <3>2
  <2> QED
    BY <2>2, <2>3
<1>2. TypeOK'
  BY <1>1 DEF SlotsInv, TypeOK, turnVars, madeVars, jobVars, rateVars, wakeVars
<1>3. JobsInv'
  <2>1. \A n \in Jobs : dispatchedAt[n] \in Int /\ dispatchedAt[n] <= time
    BY DEF SlotsInv, TypeOK, JobsInv, Never
  <2>2. time \in Nat
    BY DEF SlotsInv, TypeOK
  <2>3. \A n \in Jobs : dispatchedAt'[n] <= time'
    BY <1>1, <2>1, <2>2 DEF rateVars
  <2> QED
    BY <1>1, <2>3 DEF SlotsInv, JobsInv, madeVars, jobVars, rateVars
<1>4. /\ TurnInv' /\ SlotsExact' /\ NoLostWakeup' /\ ClockLossSettles'
  BY <1>1 DEF SlotsInv, TurnInv, SlotsExact, Running, NoLostWakeup, ClockLossSettles,
              Pending, turnVars, madeVars, jobVars, wakeVars
<1> QED
  BY <1>2, <1>3, <1>4 DEF SlotsInv

\* The clock is found lost in run(), or in front of an iteration of #pump.
LEMMA SlotsBlind ==
  ASSUME SlotsInv, RunBlind \/ PumpBlind
  PROVE  SlotsInv'
<1>1. /\ LoseClock({}) /\ ClearWake
      /\ UNCHANGED <<envVars, current, madeVars, rateVars>>
      /\ \/ UNCHANGED <<turn, frames>>
         \/ turn = "pump" /\ frames' = frames - 1
            /\ turn' = IF frames = 1 THEN "idle" ELSE "pump"
  BY DEF RunBlind, PumpBlind, turnVars, Return
<1>2. /\ JobsTyped' /\ JobsInv' /\ SlotsExact' /\ healthy' = FALSE /\ ClockLossSettles'
      /\ \A n \in Jobs : phase'[n] = "active" <=> phase[n] = "active"
  <2> DEFINE left == {}
  <2>1. LoseClock(left) /\ left \subseteq Running /\ \A n \in Jobs : n \notin left
    BY <1>1
  <2> HIDE DEF left
  <2> QED
    BY <1>1, <2>1, LoseClockStep DEF SlotsInv, madeVars, envVars, rateVars
<1>3. TurnInv' /\ frames' \in Nat /\ turn' \in {"idle", "pump", "execute"}
  BY <1>1, <1>2 DEF SlotsInv, TurnInv, TypeOK
<1>4. TypeOK'
  BY <1>1, <1>2, <1>3 DEF SlotsInv, TypeOK, JobsTyped, envVars, madeVars, rateVars, ClearWake
<1>5. NoLostWakeup'
  BY <1>2 DEF NoLostWakeup
<1> QED
  BY <1>2, <1>3, <1>4, <1>5 DEF SlotsInv

\* run() for an origin that has a job.
LEMMA SlotsJoins ==
  ASSUME SlotsInv, NEW o \in Origins, RunJoins(o)
  PROVE  SlotsInv'
<1> DEFINE result == All({owner[o]}, "deadline")
<1>1. /\ turn = "idle" /\ healthy
      /\ Settle(result, {}) /\ DOMAIN result \subseteq Jobs /\ {} \subseteq Running
      /\ \A n \in DOMAIN result : result[n] \in {"value"} \cup Failures
      /\ UNCHANGED <<envVars, healthy, turnVars, madeVars, rateVars, wakeVars>>
  BY DEF RunJoins, SlotsInv, TypeOK, Readable, All, Failures
<1> HIDE DEF result
<1>2. /\ JobsTyped' /\ JobsInv' /\ SlotsExact' /\ ClockLossSettles'
      /\ queue' \subseteq queue /\ active' = active
      /\ \A n \in Jobs : phase'[n] = "active" <=> phase[n] = "active"
  BY <1>1, FailStep DEF SlotsInv, madeVars, envVars, rateVars
<1>3. TypeOK'
  BY <1>1, <1>2 DEF SlotsInv, TypeOK, JobsTyped, envVars, turnVars, madeVars, rateVars, wakeVars
<1>4. TurnInv' /\ NoLostWakeup'
  BY <1>1, <1>2 DEF SlotsInv, TurnInv, NoLostWakeup, turnVars, wakeVars
<1> QED
  BY <1>2, <1>3, <1>4 DEF SlotsInv

\* run() that is refused.
LEMMA SlotsRefused ==
  ASSUME SlotsInv, NEW o \in Origins, RunRefused(o)
  PROVE  SlotsInv'
<1>1. /\ Prune
      /\ UNCHANGED <<envVars, healthy, turnVars, madeVars, jobVars, dispatchedAt, wakeVars>>
  BY DEF RunRefused
<1>2. TypeOK'
  BY <1>1, PruneTyped DEF SlotsInv, TypeOK, envVars, turnVars, madeVars, jobVars, wakeVars
<1>3. JobsInv' /\ TurnInv' /\ SlotsExact' /\ NoLostWakeup' /\ ClockLossSettles'
  BY <1>1 DEF SlotsInv, JobsInv, TurnInv, SlotsExact, Running, NoLostWakeup, ClockLossSettles,
              Pending, envVars, turnVars, madeVars, jobVars, wakeVars
<1> QED
  BY <1>2, <1>3 DEF SlotsInv

\* run() that makes a job.
LEMMA SlotsQueues ==
  ASSUME SlotsInv, NEW o \in Origins, NEW lag \in Lags, RunQueues(o, lag)
  PROVE  SlotsInv'
<1> DEFINE n == jobs + 1
<1>1. /\ healthy /\ lag <= time /\ jobs < MaxJobs /\ owner[o] = NoJob
      /\ jobs' = n
      /\ origin' = [origin EXCEPT ![n] = o]
      /\ started' = [started EXCEPT ![n] = time - lag]
      /\ phase' = [phase EXCEPT ![n] = "queued"]
      /\ timers' = timers \cup {n}
      /\ owner' = [owner EXCEPT ![o] = n]
      /\ queue' = queue \cup {n}
      /\ Prune /\ Pump
      /\ UNCHANGED <<envVars, healthy, outcome, active, dispatchedAt>>
  BY DEF RunQueues, Readable
<1>2. n \in Jobs /\ n \in Int /\ jobs \in Nat /\ n \in 0 .. MaxJobs
  BY <1>1, FetchSchedulerAssumption DEF SlotsInv, TypeOK, Jobs
<1>3. phase[n] = "unused"
  <2>1. n > jobs
    BY <1>2
  <2> QED
    BY <1>2, <2>1 DEF SlotsInv, JobsInv
<1>4. \A m \in Jobs : m > jobs' <=> m > jobs /\ m # n
  BY <1>1, <1>2 DEF Jobs
<1> HIDE DEF n
<1>5. TypeOK'
  <2>1. started' \in [Jobs -> Nat]
    <3>1. time - lag \in Nat
      BY <1>1, FetchSchedulerAssumption DEF SlotsInv, TypeOK
    <3> QED
      BY <1>1, <1>2, <3>1 DEF SlotsInv, TypeOK
  <2>2. /\ origin' \in [Jobs -> Origins \cup {NoOrigin}]
        /\ phase' \in [Jobs -> {"unused", "queued", "active", "gone"}]
        /\ owner' \in [Origins -> Jobs \cup {NoJob}]
        /\ timers' \subseteq Jobs /\ queue' \subseteq Jobs /\ jobs' \in 0 .. MaxJobs
    BY <1>1, <1>2 DEF SlotsInv, TypeOK
  <2>3. frames' \in Nat /\ turn' = "pump" /\ current' = current
        /\ wakes' \subseteq Nat /\ wake' = NoWake
    BY <1>1 DEF SlotsInv, TypeOK, Pump, ClearWake
  <2> QED
    BY <1>1, <2>1, <2>2, <2>3, PruneTyped DEF SlotsInv, TypeOK, envVars
<1>6. JobsInv'
  <2>1. queue' = {m \in Jobs : phase'[m] = "queued"}
    BY <1>1, <1>2 DEF SlotsInv, TypeOK, JobsInv
  <2>2. ASSUME NEW m \in Jobs
        PROVE  /\ phase'[m] = "unused" <=> m > jobs'
               /\ phase'[m] # "unused" => origin'[m] \in Origins
               /\ phase'[m] \in {"unused", "queued"} =>
                    outcome'[m] = "pending" /\ dispatchedAt'[m] = Never
               /\ dispatchedAt'[m] <= time'
    BY <1>1, <1>2, <1>3, <1>4 DEF SlotsInv, TypeOK, JobsInv, envVars
  <2> QED
    BY <2>1, <2>2 DEF JobsInv
<1>7. SlotsExact'
  <2>1. Running' = Running
    BY <1>1, <1>2, <1>3 DEF SlotsInv, TypeOK, Running
  <2>2. ASSUME NEW m \in Jobs, NEW p \in Origins
        PROVE  (owner'[p] = m) <=> (phase'[m] \in {"queued", "active"} /\ origin'[m] = p)
    <3>1. owner[p] = m <=> (phase[m] \in {"queued", "active"} /\ origin[m] = p)
      BY DEF SlotsInv, SlotsExact
    <3>2. m # NoJob
      BY DEF Jobs, NoJob
    <3>3. /\ owner'[p] = IF p = o THEN n ELSE owner[p]
          /\ phase'[m] = IF m = n THEN "queued" ELSE phase[m]
          /\ origin'[m] = IF m = n THEN o ELSE origin[m]
      BY <1>1, <1>2 DEF SlotsInv, TypeOK
    <3> QED
      BY <1>1, <1>3, <3>1, <3>2, <3>3
  <2> QED
    BY <1>1, <2>1, <2>2 DEF SlotsInv, SlotsExact
<1>8. TurnInv' /\ NoLostWakeup' /\ ClockLossSettles'
  <2>1. turn' = "pump" /\ frames' = frames + 1 /\ frames \in Nat
    BY <1>1 DEF Pump, SlotsInv, TypeOK
  <2> QED
    BY <1>1, <2>1 DEF TurnInv, NoLostWakeup, ClockLossSettles
<1> QED
  BY <1>5, <1>6, <1>7, <1>8 DEF SlotsInv

\* An iteration of #pump that leaves the loop with nothing started.
LEMMA SlotsRests ==
  ASSUME SlotsInv, PumpRests \/ PumpWaits
  PROVE  SlotsInv'
<1>1. /\ turn = "pump" /\ healthy
      /\ Settle(All(Late, "deadline"), {})
      /\ Prune /\ Return
      /\ UNCHANGED <<envVars, healthy, madeVars, dispatchedAt>>
      /\ \/ (Waiting = {} \/ active >= MaxActive) /\ UNCHANGED wakeVars
         \/ /\ Len(Recent) >= MaxStarts
            /\ wake' = Head(Recent) + Window /\ wakes' = wakes \cup {wake'}
  BY DEF PumpRests, PumpWaits, Pumping, Readable
<1>2. /\ JobsTyped' /\ JobsInv' /\ SlotsExact' /\ ClockLossSettles'
      /\ queue' = Waiting /\ active' = active
      /\ \A n \in Jobs : phase'[n] = "active" <=> phase[n] = "active"
  BY <1>1, LateStep DEF SlotsInv, madeVars, envVars
<1>3. wakes' \subseteq Nat /\ wake' \in Nat \cup {NoWake}
      /\ (queue' # {} /\ active' < MaxActive => wake' # NoWake /\ wake' \in wakes')
  <2>1. CASE (Waiting = {} \/ active >= MaxActive) /\ UNCHANGED wakeVars
    <3>1. active \in Nat /\ MaxActive \in Nat
      BY FetchSchedulerAssumption DEF SlotsInv, TypeOK
    <3>2. ~(queue' # {} /\ active' < MaxActive)
      BY <2>1, <3>1, <1>2
    <3> QED
      BY <2>1, <3>2 DEF SlotsInv, TypeOK, wakeVars
  <2>2. CASE /\ Len(Recent) >= MaxStarts
             /\ wake' = Head(Recent) + Window /\ wakes' = wakes \cup {wake'}
    <3>1. Recent \in Seq(Nat)
      BY PruneStarts DEF SlotsInv, TypeOK
    <3>2. Len(Recent) # 0
      BY <2>2, <3>1, FetchSchedulerAssumption
    <3>3. Head(Recent) \in Nat
      BY <3>1, <3>2
    <3>4. wake' \in Nat
      BY <2>2, <3>3, FetchSchedulerAssumption
    <3>5. wake' # NoWake
      BY <3>4 DEF NoWake
    <3>6. wakes \subseteq Nat
      BY DEF SlotsInv, TypeOK
    <3> QED
      BY <2>2, <3>4, <3>5, <3>6
  <2> QED
    BY <1>1, <2>1, <2>2
<1>4. TurnInv' /\ frames' \in Nat /\ turn' \in {"idle", "pump"} /\ current' = current
  BY <1>1, <1>2 DEF SlotsInv, TypeOK, TurnInv, Return
<1>5. TypeOK'
  BY <1>1, <1>2, <1>3, <1>4, PruneTyped DEF SlotsInv, TypeOK, JobsTyped, envVars, madeVars
<1>6. NoLostWakeup'
  BY <1>3 DEF NoLostWakeup
<1> QED
  BY <1>2, <1>4, <1>5, <1>6 DEF SlotsInv

\* An iteration of #pump that fails the first job.
LEMMA SlotsRefuses ==
  ASSUME SlotsInv, PumpRefuses
  PROVE  SlotsInv'
<1> DEFINE result == [n \in Late \cup {First(Waiting)} |->
                        IF n \in Late THEN "deadline" ELSE "capacity"]
<1>1. /\ turn = "pump" /\ healthy /\ Waiting # {}
      /\ Settle(result, {})
      /\ Prune
      /\ UNCHANGED <<envVars, healthy, turnVars, madeVars, dispatchedAt, wakeVars>>
  BY DEF PumpRefuses, Pumping, Readable
<1>2. DOMAIN result \subseteq Jobs
  <2>1. Waiting \subseteq Jobs /\ Late \subseteq Jobs
    BY DEF SlotsInv, TypeOK, Waiting, Late
  <2>2. First(Waiting) \in Jobs
    BY <1>1, <2>1, FirstIsIn
  <2> QED
    BY <2>1, <2>2
<1>3. \A n \in DOMAIN result : result[n] \in {"value"} \cup Failures
  BY DEF Failures
<1> HIDE DEF result
<1>4. /\ JobsTyped' /\ JobsInv' /\ SlotsExact' /\ ClockLossSettles'
      /\ \A n \in Jobs : phase'[n] = "active" <=> phase[n] = "active"
  <2> DEFINE left == {}
  <2>1. Settle(result, left) /\ left \subseteq Running /\ \A n \in Jobs : n \notin left
    BY <1>1
  <2> HIDE DEF left
  <2> QED
    BY <1>1, <1>2, <1>3, <2>1, FailStep DEF SlotsInv, madeVars, envVars
<1>5. TypeOK'
  BY <1>1, <1>4, PruneTyped DEF SlotsInv, TypeOK, JobsTyped, envVars, turnVars, madeVars, wakeVars
<1>6. TurnInv' /\ NoLostWakeup'
  BY <1>1, <1>4 DEF SlotsInv, TurnInv, NoLostWakeup, turnVars
<1> QED
  BY <1>4, <1>5, <1>6 DEF SlotsInv

\* #execute reads a good clock and calls the worker.
LEMMA SlotsExecute ==
  ASSUME SlotsInv, Execute
  PROVE  SlotsInv'
<1>1. /\ turn = "execute" /\ turn' = "pump"
      /\ UNCHANGED <<envVars, healthy, frames, current, madeVars, jobVars, rateVars, wakeVars>>
  BY DEF Execute
<1>2. TypeOK'
  BY <1>1 DEF SlotsInv, TypeOK, envVars, madeVars, jobVars, rateVars, wakeVars
<1>3. JobsInv' /\ TurnInv' /\ SlotsExact' /\ NoLostWakeup' /\ ClockLossSettles'
  BY <1>1 DEF SlotsInv, JobsInv, TurnInv, SlotsExact, Running, NoLostWakeup, ClockLossSettles,
              Pending, envVars, madeVars, jobVars, rateVars
<1> QED
  BY <1>2, <1>3 DEF SlotsInv

\* Whatever ends in a call of #pump, having settled jobs under a good clock or
\* lost it: the finally block of #execute, and the deadline timer.
LEMMA SlotsSettlePumps ==
  ASSUME SlotsInv, NEW left, left \subseteq Running, Pump,
         UNCHANGED <<envVars, madeVars, rateVars>>,
         \/ LoseClock(left)
         \/ /\ UNCHANGED healthy
            /\ \E result : /\ DOMAIN result \subseteq Jobs
                           /\ \A n \in DOMAIN result : result[n] \in {"value"} \cup Failures
                           /\ Settle(result, left)
  PROVE  SlotsInv'
<1>1. JobsTyped' /\ JobsInv' /\ SlotsExact' /\ ClockLossSettles' /\ healthy' \in BOOLEAN
  <2>1. CASE LoseClock(left)
    BY <2>1, LoseClockStep DEF SlotsInv, madeVars, envVars, rateVars
  <2>2. CASE /\ UNCHANGED healthy
             /\ \E result : /\ DOMAIN result \subseteq Jobs
                            /\ \A n \in DOMAIN result : result[n] \in {"value"} \cup Failures
                            /\ Settle(result, left)
    <3>1. PICK result : /\ DOMAIN result \subseteq Jobs
                        /\ \A n \in DOMAIN result : result[n] \in {"value"} \cup Failures
                        /\ Settle(result, left)
      BY <2>2
    <3>2. /\ JobsTyped' /\ JobsInv' /\ SlotsExact'
          /\ \A n \in Jobs : Pending(n)' => Pending(n)
      BY <3>1, SettleStep DEF SlotsInv, madeVars, envVars, rateVars
    <3> QED
      BY <2>2, <3>2 DEF SlotsInv, TypeOK, ClockLossSettles
  <2> QED
    BY <2>1, <2>2
<1>2. /\ turn' = "pump" /\ frames' = frames + 1 /\ frames' \in Nat /\ frames' # 0
      /\ current' = current /\ wakes' \subseteq Nat /\ wake' = NoWake
  BY DEF SlotsInv, TypeOK, Pump, ClearWake
<1>3. TypeOK'
  BY <1>1, <1>2 DEF SlotsInv, TypeOK, JobsTyped, envVars, madeVars, rateVars
<1>4. TurnInv' /\ NoLostWakeup'
  BY <1>2 DEF TurnInv, NoLostWakeup
<1> QED
  BY <1>1, <1>3, <1>4 DEF SlotsInv

\* #execute does not call the worker.
LEMMA SlotsExecuteFails ==
  ASSUME SlotsInv, ExecuteFails
  PROVE  SlotsInv'
<1> DEFINE left == {current}
           result == All({current}, "deadline")
<1>1. /\ Pump /\ UNCHANGED <<envVars, madeVars, rateVars>>
      /\ \/ LoseClock(left)
         \/ Settle(result, left) /\ UNCHANGED healthy
  BY DEF ExecuteFails
<1>2. current \in Jobs /\ left \subseteq Running
  BY DEF ExecuteFails, SlotsInv, TurnInv, Running
<1>3. /\ DOMAIN result \subseteq Jobs
      /\ \A n \in DOMAIN result : result[n] \in {"value"} \cup Failures
  BY <1>2 DEF All, Failures
<1> HIDE DEF left, result
<1> QED
  BY <1>1, <1>2, <1>3, SlotsSettlePumps

\* A worker's end, in time, late, after an abort or without a clock.
LEMMA SlotsWorkerEnds ==
  ASSUME SlotsInv, NEW n \in Jobs, NEW ok \in BOOLEAN, WorkerEnds(n, ok)
  PROVE  SlotsInv'
<1> DEFINE left == {n}
           result == All({n}, IF ok THEN Answer(n) ELSE "fetch-failed")
<1>1. Pump /\ UNCHANGED <<envVars, madeVars, rateVars>> /\ Ends(n, ok)
  BY DEF WorkerEnds
<1>2. \/ LoseClock(left)
      \/ Settle(result, left) /\ UNCHANGED healthy
  <2>1. CASE ok
    <3>1. result = All({n}, Answer(n))
      BY <2>1
    <3> QED
      BY <1>1, <2>1, <3>1 DEF Ends
  <2>2. CASE ~ok
    <3>1. result = All({n}, "fetch-failed")
      BY <2>2
    <3> QED
      BY <1>1, <2>2, <3>1 DEF Ends
  <2> QED
    BY <2>1, <2>2
<1>3. left \subseteq Running
  BY DEF WorkerEnds, Running
<1>4. /\ DOMAIN result \subseteq Jobs
      /\ \A m \in DOMAIN result : result[m] \in {"value"} \cup Failures
  BY DEF All, Failures, Answer
<1> HIDE DEF left, result
<1> QED
  BY <1>1, <1>2, <1>3, <1>4, SlotsSettlePumps

\* The timer armed in run().
LEMMA SlotsDeadline ==
  ASSUME SlotsInv, NEW n \in Jobs, DeadlineTimer(n)
  PROVE  SlotsInv'
<1> DEFINE left == {}
           result == All({n}, "deadline")
<1>1. /\ Pump /\ UNCHANGED <<envVars, madeVars, rateVars>>
      /\ Settle(result, left) /\ UNCHANGED healthy /\ left \subseteq Running
  BY DEF DeadlineTimer
<1>2. /\ DOMAIN result \subseteq Jobs
      /\ \A m \in DOMAIN result : result[m] \in {"value"} \cup Failures
  BY DEF All, Failures
<1> HIDE DEF left, result
<1> QED
  BY <1>1, <1>2, SlotsSettlePumps

\* The timer armed in #pump.
LEMMA SlotsWake ==
  ASSUME SlotsInv, NEW t \in wakes, WakeTimer(t)
  PROVE  SlotsInv'
<1>1. /\ turn' = "pump" /\ frames' = frames + 1 /\ frames' \in Nat /\ frames' # 0
      /\ wakes' \subseteq Nat /\ wake' = NoWake
      /\ UNCHANGED <<envVars, healthy, current, madeVars, jobVars, rateVars>>
  BY DEF WakeTimer, SlotsInv, TypeOK
<1>2. TypeOK'
  BY <1>1 DEF SlotsInv, TypeOK, envVars, madeVars, jobVars, rateVars
<1>3. JobsInv' /\ TurnInv' /\ SlotsExact' /\ NoLostWakeup' /\ ClockLossSettles'
  BY <1>1 DEF SlotsInv, JobsInv, TurnInv, SlotsExact, Running, NoLostWakeup, ClockLossSettles,
              Pending, envVars, madeVars, jobVars, rateVars
<1> QED
  BY <1>2, <1>3 DEF SlotsInv

\* An iteration of #pump that starts a worker.
LEMMA SlotsStarts ==
  ASSUME SlotsInv, PumpStarts
  PROVE  SlotsInv'
<1> DEFINE n == First(Waiting)
<1>1. /\ turn = "pump" /\ healthy /\ Waiting # {} /\ active < MaxActive
      /\ Len(Recent) < MaxStarts
      /\ outcome' = [m \in Jobs |-> IF m \in Late THEN "deadline" ELSE outcome[m]]
      /\ timers' = timers \ Late
      /\ phase' = [m \in Jobs |-> IF m \in Late THEN "gone"
                                  ELSE IF m = n THEN "active" ELSE phase[m]]
      /\ owner' = [o \in Origins |-> IF owner[o] \in Late THEN NoJob ELSE owner[o]]
      /\ queue' = Waiting \ {n}
      /\ active' = active + 1
      /\ starts' = Append(Recent, time)
      /\ originStarts' = [o \in Cooling \cup {origin[n]} |->
                            IF o = origin[n] THEN time ELSE originStarts[o]]
      /\ dispatchedAt' = [dispatchedAt EXCEPT ![n] = time]
      /\ current' = n /\ turn' = "execute"
      /\ UNCHANGED <<envVars, healthy, frames, madeVars, wakeVars>>
  BY DEF PumpStarts, Pumping, Readable
<1>2. n \in Jobs /\ n \in queue /\ n \notin Late /\ phase[n] = "queued"
  <2>1. Waiting \subseteq Jobs
    BY DEF SlotsInv, TypeOK, Waiting
  <2>2. n \in Waiting
    BY <1>1, <2>1, FirstIsIn
  <2> QED
    BY <2>2 DEF SlotsInv, JobsInv, Waiting
<1>3. origin[n] \in Origins
  BY <1>2 DEF SlotsInv, JobsInv
<1>4. Late \subseteq Jobs /\ \A m \in Late : phase[m] = "queued"
  BY DEF Late
<1> HIDE DEF n
<1>5. Running' = Running \cup {n} /\ n \notin Running
  BY <1>1, <1>2, <1>4 DEF Running
<1>6. active' = Cardinality(Running') /\ active' \in Nat /\ active' <= MaxActive
  <2>1. IsFiniteSet(Running)
    BY JobsFinite DEF Running
  <2>2. Cardinality(Running') = Cardinality(Running) + 1
    BY <1>5, <2>1, FS_AddElement
  <2> QED
    BY <1>1, <2>2, FetchSchedulerAssumption DEF SlotsInv, TypeOK, SlotsExact
<1>7. TypeOK'
  <2>1. starts' \in Seq(Nat) /\ Len(starts') <= MaxStarts
    BY <1>1, PruneStarts, FetchSchedulerAssumption DEF SlotsInv, TypeOK
  <2>2. /\ DOMAIN originStarts' \subseteq Origins
        /\ \A o \in DOMAIN originStarts' : originStarts'[o] \in Nat
    BY <1>1, <1>3 DEF SlotsInv, TypeOK, Cooling
  <2>3. /\ outcome' \in [Jobs -> {"pending", "value"} \cup Failures]
        /\ phase' \in [Jobs -> {"unused", "queued", "active", "gone"}]
        /\ owner' \in [Origins -> Jobs \cup {NoJob}]
    BY <1>1 DEF SlotsInv, TypeOK, Failures
  <2>4. /\ timers' \subseteq Jobs /\ queue' \subseteq Jobs /\ current' \in Jobs
        /\ dispatchedAt' \in [Jobs -> Nat \cup {Never}]
    BY <1>1, <1>2 DEF SlotsInv, TypeOK, Waiting
  <2> QED
    BY <1>1, <1>6, <2>1, <2>2, <2>3, <2>4 DEF SlotsInv, TypeOK, envVars, madeVars, wakeVars
<1>8. JobsInv'
  <2>1. queue' = {m \in Jobs : phase'[m] = "queued"}
    BY <1>1, <1>2, <1>4 DEF SlotsInv, JobsInv, Waiting
  <2>2. ASSUME NEW m \in Jobs
        PROVE  /\ phase'[m] = "unused" <=> m > jobs'
               /\ phase'[m] # "unused" => origin'[m] \in Origins
               /\ phase'[m] \in {"unused", "queued"} =>
                    outcome'[m] = "pending" /\ dispatchedAt'[m] = Never
               /\ dispatchedAt'[m] <= time'
    <3>1. /\ phase'[m] = IF m \in Late THEN "gone" ELSE IF m = n THEN "active" ELSE phase[m]
          /\ outcome'[m] = IF m \in Late THEN "deadline" ELSE outcome[m]
          /\ dispatchedAt'[m] = IF m = n THEN time ELSE dispatchedAt[m]
          /\ jobs' = jobs /\ origin' = origin /\ time' = time /\ time \in Nat
      BY <1>1, <1>2 DEF SlotsInv, TypeOK, madeVars, envVars
    <3> QED
      BY <1>2, <1>4, <3>1 DEF SlotsInv, JobsInv
  <2> QED
    BY <2>1, <2>2 DEF JobsInv
<1>9. SlotsExact'
  <2>1. ASSUME NEW m \in Jobs, NEW o \in Origins
        PROVE  (owner'[o] = m) <=> (phase'[m] \in {"queued", "active"} /\ origin'[m] = o)
    <3>1. /\ owner'[o] = IF owner[o] \in Late THEN NoJob ELSE owner[o]
          /\ phase'[m] = IF m \in Late THEN "gone" ELSE IF m = n THEN "active" ELSE phase[m]
          /\ origin' = origin
      BY <1>1 DEF madeVars
    <3>2. m # NoJob
      BY DEF NoJob, Jobs
    <3> QED
      BY <1>2, <1>4, <3>1, <3>2 DEF SlotsInv, SlotsExact
  <2> QED
    BY <1>6, <2>1 DEF SlotsExact
<1>10. TurnInv' /\ NoLostWakeup' /\ ClockLossSettles'
  BY <1>1, <1>2, <1>5 DEF SlotsInv, TurnInv, NoLostWakeup, ClockLossSettles, Running
<1> QED
  BY <1>7, <1>8, <1>9, <1>10 DEF SlotsInv

\* Every step of every task keeps slots, owners, wake-ups and clock in order.
LEMMA SlotsNext == SlotsInv /\ [Next]_vars => SlotsInv'
<1> SUFFICES ASSUME SlotsInv, [Next]_vars PROVE SlotsInv'
  OBVIOUS
<1>1. CASE UNCHANGED vars
  <2>1. TypeOK'
    BY <1>1 DEF SlotsInv, TypeOK, vars, envVars, turnVars, madeVars, jobVars, rateVars, wakeVars
  <2>2. JobsInv' /\ TurnInv' /\ SlotsExact' /\ NoLostWakeup' /\ ClockLossSettles'
    BY <1>1 DEF SlotsInv, JobsInv, TurnInv, SlotsExact, Running, NoLostWakeup,
                ClockLossSettles, Pending, vars, envVars, turnVars, madeVars, jobVars,
                rateVars, wakeVars
  <2> QED
    BY <2>1, <2>2 DEF SlotsInv
<1>2. CASE Next
  BY <1>2, SlotsClock, SlotsBlind, SlotsJoins, SlotsRefused, SlotsQueues, SlotsRests,
     SlotsRefuses, SlotsStarts, SlotsExecute, SlotsExecuteFails, SlotsWorkerEnds,
     SlotsDeadline, SlotsWake DEF Next, PumpStep, ExecuteStep
<1> QED
  BY <1>1, <1>2

\* The count of active workers is the number of workers that have not ended,
\* an origin has at most one, a queue that could move has its wake timer, and
\* a lost clock leaves no promise open: whatever the callers, workers, timers
\* and clock do.
THEOREM SlotsCorrect == Spec => []SchedulerConsistent
<1>1. SlotsInv => SchedulerConsistent
  BY DEF SlotsInv, SchedulerConsistent
<1> QED
  BY <1>1, SlotsInit, SlotsNext, PTL DEF Spec

-----------------------------------------------------------------------------
(* Start rate and cooldown.                                                *)

\* #prune only forgets starts that no window of the limit reaches.
LEMMA PruneKeepsStarts ==
  ASSUME TypeOK, StartsRecorded
  PROVE  RecordedIn(Recent)
<1>1. /\ Stale \in 0 .. Len(starts)
      /\ \A i \in 1 .. Stale : time - starts[i] >= Window
      /\ Recent \in Seq(Nat) /\ Len(Recent) = Len(starts) - Stale
      /\ \A i \in 1 .. Len(Recent) : Recent[i] = starts[i + Stale]
  BY PruneStarts DEF TypeOK
<1>2. Len(starts) \in Nat /\ time \in Nat /\ Window \in Nat
      /\ \A i \in 1 .. Len(starts) : starts[i] \in Nat
  BY FetchSchedulerAssumption DEF TypeOK
<1>3. ASSUME NEW t \in 0 .. time, NEW i \in 0 .. Len(Recent),
             time - t < Window, i = 0 \/ Recent[i] < t
      PROVE  Cardinality(Since(t)) <= Len(Recent) - i
  <2>1. i + Stale \in 0 .. Len(starts)
    BY <1>1, <1>2
  <2>2. i + Stale = 0 \/ starts[i + Stale] < t
    <3>1. CASE i = 0 /\ Stale # 0
      <4>1. Stale \in 1 .. Stale /\ Stale \in 1 .. Len(starts) /\ i + Stale = Stale
        BY <1>1, <3>1
      <4>2. time - starts[Stale] >= Window /\ starts[Stale] \in Nat
        BY <1>1, <1>2, <4>1
      <4> QED
        BY <1>2, <1>3, <4>1, <4>2
    <3>2. CASE i # 0
      <4>1. i \in 1 .. Len(Recent)
        BY <1>1, <1>2, <3>2
      <4> QED
        BY <1>1, <1>3, <3>2, <4>1
    <3> QED
      BY <1>1, <3>1, <3>2
  <2>3. Cardinality(Since(t)) <= Len(starts) - (i + Stale)
    BY <1>3, <2>1, <2>2 DEF StartsRecorded, RecordedIn
  <2>4. Len(starts) - (i + Stale) = Len(Recent) - i
    BY <1>1, <1>2
  <2> QED
    BY <2>3, <2>4
<1> QED
  BY <1>3 DEF RecordedIn

\* The dispatches from some time on are finitely many.
LEMMA SinceFinite ==
  ASSUME NEW t
  PROVE  IsFiniteSet(Since(t)) /\ Cardinality(Since(t)) \in Nat
BY JobsFinite DEF Since, Dispatched

\* Steps that start nothing, make nothing and take no time.
LEMMA RatesKept ==
  ASSUME SlotsInv, RatesInv,
         UNCHANGED <<time, origin, dispatchedAt>>, queue' \subseteq queue,
         Prune \/ UNCHANGED <<originStarts, starts>>
  PROVE  RatesInv'
<1>1. RecordedIn(starts')
  BY PruneKeepsStarts DEF SlotsInv, RatesInv, StartsRecorded, Prune
<1>2. /\ Dispatched' = Dispatched
      /\ \A t : Since(t)' = Since(t)
  BY DEF Dispatched, Since
<1>3. StartsRecorded'
  BY <1>1, <1>2 DEF StartsRecorded, RecordedIn
<1>4. CooldownRecorded'
  <2>1. ASSUME NEW m \in Dispatched, time - dispatchedAt[m] < Cooldown
        PROVE  /\ origin[m] \in DOMAIN originStarts'
               /\ originStarts'[origin[m]] >= dispatchedAt[m]
    <3>1. origin[m] \in DOMAIN originStarts /\ originStarts[origin[m]] >= dispatchedAt[m]
      BY <2>1 DEF RatesInv, CooldownRecorded
    <3>2. /\ dispatchedAt[m] \in Int /\ originStarts[origin[m]] \in Nat /\ time \in Nat
          /\ Cooldown \in Nat
      BY <3>1, FetchSchedulerAssumption DEF SlotsInv, TypeOK, Dispatched, Never
    <3>3. origin[m] \in Cooling
      BY <2>1, <3>1, <3>2 DEF Cooling
    <3>4. Prune => originStarts' = Tracked
      BY DEF Prune
    <3> QED
      BY <3>1, <3>3, <3>4 DEF Tracked
  <2> QED
    BY <1>2, <2>1 DEF CooldownRecorded
<1>5. QueuedCool'
  BY <1>2 DEF RatesInv, QueuedCool
<1>6. RatesHold'
  BY <1>2 DEF RatesInv, RatesHold, StartRate, OriginCooldown
<1> QED
  BY <1>3, <1>4, <1>5, <1>6 DEF RatesInv

\* Time passes.
LEMMA RatesTick ==
  ASSUME SlotsInv, RatesInv, Tick
  PROVE  RatesInv'
<1>1. /\ time' = time + 1 /\ time \in Nat
      /\ UNCHANGED <<origin, queue, originStarts, starts, dispatchedAt>>
  BY DEF Tick, SlotsInv, TypeOK, madeVars, jobVars, rateVars
<1>2. /\ Dispatched' = Dispatched
      /\ \A t : Since(t)' = Since(t)
  BY <1>1 DEF Dispatched, Since
<1>3. \A n \in Jobs : dispatchedAt[n] \in Int /\ dispatchedAt[n] <= time
  BY DEF SlotsInv, TypeOK, JobsInv, Never
<1>4. Len(starts) \in Nat /\ \A i \in 1 .. Len(starts) : starts[i] \in Nat
  BY DEF SlotsInv, TypeOK
<1>5. Window \in Nat /\ Cooldown \in Nat
  BY FetchSchedulerAssumption
<1>6. StartsRecorded'
  <2>1. ASSUME NEW t \in 0 .. time', NEW i \in 0 .. Len(starts),
               time' - t < Window, i = 0 \/ starts[i] < t
        PROVE  Cardinality(Since(t)) <= Len(starts) - i
    <3>1. CASE t = time'
      <4>1. Since(t) = {}
        BY <1>1, <1>3, <3>1 DEF Since, Dispatched
      <4>2. Cardinality(Since(t)) = 0
        BY <4>1, FS_EmptySet
      <4> QED
        BY <1>4, <4>2
    <3>2. CASE t # time'
      <4>1. t \in 0 .. time /\ time - t < Window
        BY <1>1, <1>5, <2>1, <3>2
      <4> QED
        BY <2>1, <4>1 DEF RatesInv, StartsRecorded, RecordedIn
    <3> QED
      BY <3>1, <3>2
  <2> QED
    BY <1>1, <1>2, <2>1 DEF StartsRecorded, RecordedIn
<1>7. CooldownRecorded'
  <2>1. ASSUME NEW m \in Dispatched, time' - dispatchedAt[m] < Cooldown
        PROVE  time - dispatchedAt[m] < Cooldown
    BY <1>1, <1>3, <1>5, <2>1 DEF Dispatched
  <2> QED
    BY <1>1, <1>2, <2>1 DEF RatesInv, CooldownRecorded
<1>8. QueuedCool'
  <2>1. ASSUME NEW m \in Dispatched, time - dispatchedAt[m] >= Cooldown
        PROVE  time' - dispatchedAt[m] >= Cooldown
    BY <1>1, <1>3, <1>5, <2>1 DEF Dispatched
  <2> QED
    BY <1>1, <1>2, <2>1 DEF RatesInv, QueuedCool
<1>9. RatesHold'
  BY <1>1, <1>2 DEF RatesInv, RatesHold, StartRate, OriginCooldown
<1> QED
  BY <1>6, <1>7, <1>8, <1>9 DEF RatesInv

\* A job is made: its origin has cooled down, and its number is the highest.
LEMMA RatesQueues ==
  ASSUME SlotsInv, RatesInv, NEW o \in Origins, NEW lag \in Lags, RunQueues(o, lag)
  PROVE  RatesInv'
<1> DEFINE n == jobs + 1
<1>1. /\ jobs < MaxJobs /\ o \notin Cooling /\ owner[o] = NoJob
      /\ origin' = [origin EXCEPT ![n] = o]
      /\ queue' = queue \cup {n}
      /\ Prune
      /\ UNCHANGED <<time, dispatchedAt>>
  BY DEF RunQueues, envVars
<1>2. n \in Jobs /\ jobs \in Nat /\ n \in Nat
  BY <1>1, FetchSchedulerAssumption DEF SlotsInv, TypeOK, Jobs
<1>3. \A m \in Dispatched : m \in Jobs /\ m < n /\ dispatchedAt[m] \in Int
  BY <1>2 DEF SlotsInv, TypeOK, JobsInv, Dispatched, Jobs, Never
<1>4. \A m \in queue : m \in Jobs /\ m # n
  BY <1>2 DEF SlotsInv, TypeOK, JobsInv, Jobs
<1>5. \A m \in Jobs : origin'[m] = IF m = n THEN o ELSE origin[m]
  BY <1>1 DEF SlotsInv, TypeOK
<1> HIDE DEF n
<1>6. /\ Dispatched' = Dispatched
      /\ \A m \in Dispatched : origin'[m] = origin[m]
      /\ \A t : Since(t)' = Since(t)
  BY <1>1, <1>2, <1>3, <1>5 DEF Dispatched, Since
<1>7. StartsRecorded'
  <2>1. RecordedIn(starts')
    BY <1>1, PruneKeepsStarts DEF SlotsInv, RatesInv, Prune
  <2> QED
    BY <1>1, <1>6, <2>1 DEF StartsRecorded, RecordedIn
<1>8. ASSUME NEW m \in Dispatched, time - dispatchedAt[m] < Cooldown
      PROVE  origin[m] \in Cooling /\ originStarts[origin[m]] >= dispatchedAt[m]
  <2>1. origin[m] \in DOMAIN originStarts /\ originStarts[origin[m]] >= dispatchedAt[m]
    BY <1>8 DEF RatesInv, CooldownRecorded
  <2>2. /\ dispatchedAt[m] \in Int /\ originStarts[origin[m]] \in Nat /\ time \in Nat
        /\ Cooldown \in Nat
    BY <1>3, <2>1, FetchSchedulerAssumption DEF SlotsInv, TypeOK
  <2> QED
    BY <1>8, <2>1, <2>2 DEF Cooling
<1>9. CooldownRecorded'
  <2>1. originStarts' = Tracked
    BY <1>1 DEF Prune
  <2> QED
    BY <1>1, <1>6, <1>8, <2>1 DEF CooldownRecorded, Tracked
<1>10. QueuedCool'
  <2>1. ASSUME NEW k \in queue', NEW m \in Dispatched, origin'[k] = origin'[m]
        PROVE  m < k /\ time - dispatchedAt[m] >= Cooldown
    <3>1. CASE k = n
      <4>1. origin[m] = o
        BY <1>2, <1>5, <1>6, <2>1, <3>1
      <4>2. ~(time - dispatchedAt[m] < Cooldown)
        BY <1>1, <1>8, <4>1
      <4> QED
        BY <1>3, <3>1, <4>2, FetchSchedulerAssumption DEF SlotsInv, TypeOK
    <3>2. CASE k # n
      <4>1. k \in queue /\ k \in Jobs /\ origin[k] = origin[m]
        BY <1>1, <1>4, <1>5, <1>6, <2>1, <3>2
      <4> QED
        BY <4>1 DEF RatesInv, QueuedCool
    <3> QED
      BY <3>1, <3>2
  <2> QED
    BY <1>1, <1>6, <2>1 DEF QueuedCool
<1>11. RatesHold'
  BY <1>1, <1>6 DEF RatesInv, RatesHold, StartRate, OriginCooldown
<1> QED
  BY <1>7, <1>9, <1>10, <1>11 DEF RatesInv

\* A dispatch: the check against the records of #starts and #originStarts that
\* are left bounds what any window and any origin have seen.
LEMMA RatesStarts ==
  ASSUME SlotsInv, RatesInv, PumpStarts
  PROVE  RatesInv'
<1> DEFINE n == First(Waiting)
<1>1. /\ Waiting # {} /\ Len(Recent) < MaxStarts
      /\ queue' = Waiting \ {n}
      /\ starts' = Append(Recent, time)
      /\ originStarts' = [o \in Cooling \cup {origin[n]} |->
                            IF o = origin[n] THEN time ELSE originStarts[o]]
      /\ dispatchedAt' = [dispatchedAt EXCEPT ![n] = time]
      /\ UNCHANGED <<time, origin>>
  BY DEF PumpStarts, envVars, madeVars
<1>2. n \in Jobs /\ n \in queue /\ n \in Waiting
  <2>1. Waiting \subseteq Jobs
    BY DEF SlotsInv, TypeOK, Waiting
  <2>2. n \in Waiting
    BY <1>1, <2>1, FirstIsIn
  <2> QED
    BY <2>1, <2>2 DEF Waiting
<1>3. dispatchedAt[n] = Never /\ origin[n] \in Origins
  BY <1>2 DEF SlotsInv, JobsInv
<1> HIDE DEF n
<1>4. /\ time \in Nat /\ Window \in Nat \ {0} /\ Cooldown \in Nat /\ MaxStarts \in Nat
      /\ \A m \in Dispatched : /\ m \in Jobs /\ m # n /\ dispatchedAt[m] \in Nat
                                /\ dispatchedAt[m] <= time
      /\ \A m \in Jobs : dispatchedAt'[m] = IF m = n THEN time ELSE dispatchedAt[m]
  BY <1>1, <1>2, <1>3, FetchSchedulerAssumption DEF SlotsInv, TypeOK, JobsInv, Dispatched
<1>5. Dispatched' = Dispatched \cup {n} /\ n \notin Dispatched
  BY <1>2, <1>3, <1>4 DEF Dispatched, Never
<1>6. /\ Recent \in Seq(Nat) /\ Len(Recent) \in Nat
      /\ starts' \in Seq(Nat) /\ Len(starts') = Len(Recent) + 1
      /\ \A i \in 1 .. Len(Recent) : starts'[i] = Recent[i]
      /\ starts'[Len(Recent) + 1] = time
  <2>1. Recent \in Seq(Nat)
    BY PruneStarts DEF SlotsInv, TypeOK
  <2> QED
    BY <1>1, <1>4, <2>1
<1>7. ASSUME NEW t \in 0 .. time
      PROVE  /\ Since(t)' = Since(t) \cup {n}
             /\ Cardinality(Since(t)') = Cardinality(Since(t)) + 1
             /\ IsFiniteSet(Since(t)') /\ Cardinality(Since(t)) \in Nat
  <2>1. Since(t)' = Since(t) \cup {n} /\ n \notin Since(t)
    BY <1>2, <1>4, <1>5 DEF Since
  <2>2. IsFiniteSet(Since(t)) /\ Cardinality(Since(t)) \in Nat
    BY SinceFinite
  <2> QED
    BY <2>1, <2>2, FS_AddElement
<1>8. ASSUME NEW t \in 0 .. time, NEW i \in 0 .. Len(Recent), time - t < Window,
             i = 0 \/ Recent[i] < t
      PROVE  Cardinality(Since(t)) <= Len(Recent) - i
  <2>1. RecordedIn(Recent)
    BY PruneKeepsStarts DEF SlotsInv, RatesInv
  <2> QED
    BY <1>8, <2>1 DEF RecordedIn
<1>9. StartsRecorded'
  <2>1. ASSUME NEW t \in 0 .. time, NEW i \in 0 .. Len(starts'), time - t < Window,
               i = 0 \/ starts'[i] < t
        PROVE  Cardinality(Since(t)') <= Len(starts') - i
    <3>1. i # Len(Recent) + 1
      BY <1>4, <1>6, <2>1
    <3>2. i \in 0 .. Len(Recent) /\ (i = 0 \/ Recent[i] < t)
      BY <1>6, <2>1, <3>1
    <3>3. Cardinality(Since(t)) <= Len(Recent) - i
      BY <1>8, <2>1, <3>2
    <3> QED
      BY <1>6, <1>7, <3>2, <3>3
  <2> QED
    BY <1>1, <2>1 DEF StartsRecorded, RecordedIn
<1>10. StartRate'
  <2> DEFINE In(a) == {m \in Dispatched : dispatchedAt[m] \in a .. (a + Window - 1)}
         InThen(a) == {m \in Dispatched' : dispatchedAt'[m] \in a .. (a + Window - 1)}
  <2>1. ASSUME NEW a \in Nat, a <= time, time <= a + Window - 1
        PROVE  Cardinality(InThen(a)) <= MaxStarts
    <3>1. InThen(a) \subseteq Since(a)'
      BY <1>4 DEF Since
    <3>2. a \in 0 .. time /\ time - a < Window
      BY <1>4, <2>1
    <3>3. Cardinality(Since(a)) <= Len(Recent) - 0
      BY <1>8, <1>6, <3>2
    <3>4. Cardinality(Since(a)') <= MaxStarts /\ IsFiniteSet(Since(a)')
          /\ Cardinality(Since(a)') \in Nat
      BY <1>1, <1>4, <1>6, <1>7, <3>2, <3>3
    <3>5. Cardinality(InThen(a)) <= Cardinality(Since(a)') /\ Cardinality(InThen(a)) \in Nat
      BY <3>1, <3>4, FS_Subset, FS_CardinalityType
    <3> QED
      BY <1>4, <3>4, <3>5
  <2>2. ASSUME NEW a \in Nat, NEW p \in Dispatched, a = dispatchedAt[p],
               ~(a <= time /\ time <= a + Window - 1)
        PROVE  Cardinality(InThen(a)) <= MaxStarts
    <3>1. InThen(a) = In(a)
      BY <1>2, <1>4, <1>5, <2>2
    <3>2. Cardinality(In(a)) <= MaxStarts
      BY <2>2 DEF RatesInv, RatesHold, StartRate
    <3> QED
      BY <3>1, <3>2
  <2>3. ASSUME NEW p \in Dispatched'
        PROVE  Cardinality(InThen(dispatchedAt'[p])) <= MaxStarts
    <3>1. CASE p = n
      <4>1. dispatchedAt'[p] = time /\ time <= time + Window - 1
        BY <1>2, <1>4, <3>1
      <4>2. Cardinality(InThen(time)) <= MaxStarts
        BY <1>4, <2>1, <4>1
      <4> QED
        BY <1>1, <4>1, <4>2
    <3>2. CASE p # n
      <4>1. p \in Dispatched /\ dispatchedAt'[p] = dispatchedAt[p] /\ dispatchedAt[p] \in Nat
        BY <1>4, <1>5, <3>2
      <4>2. ASSUME NEW a \in Nat, a = dispatchedAt[p] PROVE Cardinality(InThen(a)) <= MaxStarts
        BY <2>1, <2>2, <4>1, <4>2
      <4> QED
        BY <4>1, <4>2
    <3> QED
      BY <3>1, <3>2
  <2> QED
    BY <2>3 DEF StartRate
<1>11. QueuedCool /\ SlotsExact
  BY DEF RatesInv, SlotsInv
<1>12. OriginCooldown'
  <2>1. ASSUME NEW p \in Dispatched', NEW q \in Dispatched', p < q, origin[p] = origin[q]
        PROVE  dispatchedAt'[q] - dispatchedAt'[p] >= Cooldown
    <3>1. CASE p # n /\ q # n
      <4>1. p \in Dispatched /\ q \in Dispatched
        BY <1>5, <3>1
      <4> QED
        BY <1>4, <2>1, <3>1, <4>1 DEF RatesInv, RatesHold, OriginCooldown
    <3>2. CASE q = n
      <4>1. p \in Dispatched
        BY <1>2, <1>5, <2>1, <3>2 DEF Jobs
      <4> QED
        BY <1>2, <1>4, <1>11, <2>1, <3>2, <4>1 DEF QueuedCool
    <3>3. CASE p = n
      <4>1. q \in Dispatched
        BY <1>2, <1>5, <2>1, <3>3 DEF Jobs
      <4>2. q < n
        BY <1>2, <1>11, <2>1, <3>3, <4>1 DEF QueuedCool
      <4> QED
        BY <1>2, <1>4, <2>1, <3>3, <4>1, <4>2 DEF Jobs
    <3> QED
      BY <3>1, <3>2, <3>3
  <2> QED
    BY <1>1, <2>1 DEF OriginCooldown
<1>13. QueuedCool'
  <2>1. ASSUME NEW k \in queue', NEW m \in Dispatched', origin[k] = origin[m]
        PROVE  m < k /\ time - dispatchedAt'[m] >= Cooldown
    <3>1. k \in queue /\ k # n /\ k \in Jobs /\ phase[k] = "queued" /\ phase[n] = "queued"
      BY <1>1, <1>2 DEF SlotsInv, JobsInv, Waiting
    <3>2. m # n
      BY <1>2, <1>3, <1>11, <2>1, <3>1 DEF SlotsExact
    <3>3. m \in Dispatched
      BY <1>5, <3>2
    <3> QED
      BY <1>4, <1>11, <2>1, <3>1, <3>2, <3>3 DEF QueuedCool
  <2> QED
    BY <1>1, <2>1 DEF QueuedCool
<1>14. CooldownRecorded'
  <2>1. ASSUME NEW m \in Dispatched', time - dispatchedAt'[m] < Cooldown
        PROVE  /\ origin[m] \in DOMAIN originStarts'
               /\ originStarts'[origin[m]] >= dispatchedAt'[m]
    <3>1. CASE m = n
      BY <1>1, <1>2, <1>4, <3>1
    <3>2. CASE m # n
      <4>1. m \in Dispatched /\ dispatchedAt'[m] = dispatchedAt[m]
        BY <1>4, <1>5, <3>2
      <4>2. origin[m] \in DOMAIN originStarts /\ originStarts[origin[m]] >= dispatchedAt[m]
        BY <2>1, <4>1 DEF RatesInv, CooldownRecorded
      <4>3. originStarts[origin[m]] \in Nat
        BY <4>2 DEF SlotsInv, TypeOK
      <4>4. origin[m] \in Cooling
        BY <1>4, <2>1, <4>1, <4>2, <4>3 DEF Cooling
      <4> QED
        BY <1>1, <1>4, <4>1, <4>2, <4>4
    <3> QED
      BY <3>1, <3>2
  <2> QED
    BY <1>1, <2>1 DEF CooldownRecorded
<1> QED
  BY <1>9, <1>10, <1>12, <1>13, <1>14 DEF RatesInv, RatesHold

\* No fetch has been started, so no rate is exceeded.
LEMMA RatesInit == Init => RatesInv
<1> SUFFICES ASSUME Init PROVE RatesInv
  OBVIOUS
<1>1. Dispatched = {} /\ queue = {} /\ Len(starts) = 0
  BY DEF Init, Dispatched
<1>2. \A t : Cardinality(Since(t)) = 0
  BY <1>1, FS_EmptySet DEF Since
<1>3. StartsRecorded
  BY <1>1, <1>2 DEF StartsRecorded, RecordedIn
<1> QED
  BY <1>1, <1>3 DEF RatesInv, CooldownRecorded, QueuedCool, RatesHold, StartRate, OriginCooldown

\* Every other step starts nothing, makes nothing and takes no time.
LEMMA RatesNext == SlotsInv /\ RatesInv /\ [Next]_vars => RatesInv'
<1> SUFFICES ASSUME SlotsInv, RatesInv, [Next]_vars PROVE RatesInv'
  OBVIOUS
<1> DEFINE Quiet == /\ UNCHANGED <<time, origin, dispatchedAt>> /\ queue' \subseteq queue
                    /\ Prune \/ UNCHANGED <<originStarts, starts>>
<1>1. \A left, result : Settle(result, left) => queue' \subseteq queue
  BY DEF Settle
<1>2. \A left : LoseClock(left) => queue' \subseteq queue
  BY DEF LoseClock, Settle
<1>3. CASE UNCHANGED vars
  <2>1. Quiet
    BY <1>3 DEF vars, envVars, madeVars, jobVars, rateVars
  <2> QED
    BY <2>1, RatesKept
<1>4. CASE ClockFault \/ RunBlind \/ PumpBlind \/ Execute
  <2>1. Quiet
    BY <1>2, <1>4 DEF ClockFault, RunBlind, PumpBlind, Execute, envVars, madeVars, jobVars, rateVars
  <2> QED
    BY <2>1, RatesKept
<1>5. CASE PumpRests \/ PumpWaits \/ PumpRefuses
  <2>1. Quiet
    BY <1>1, <1>5 DEF PumpRests, PumpWaits, PumpRefuses, envVars, madeVars
  <2> QED
    BY <2>1, RatesKept
<1>6. CASE ExecuteFails
  <2>1. Quiet
    BY <1>1, <1>2, <1>6 DEF ExecuteFails, envVars, madeVars, rateVars
  <2> QED
    BY <2>1, RatesKept
<1>7. ASSUME NEW o \in Origins, RunJoins(o) \/ RunRefused(o)
      PROVE  RatesInv'
  <2>1. Quiet
    BY <1>1, <1>7 DEF RunJoins, RunRefused, envVars, madeVars, jobVars, rateVars
  <2> QED
    BY <2>1, RatesKept
<1>8. ASSUME NEW n \in Jobs, DeadlineTimer(n)
      PROVE  RatesInv'
  <2>1. Quiet
    BY <1>1, <1>8 DEF DeadlineTimer, envVars, madeVars, rateVars
  <2> QED
    BY <2>1, RatesKept
<1>9. ASSUME NEW n \in Jobs, NEW ok \in BOOLEAN, WorkerEnds(n, ok)
      PROVE  RatesInv'
  <2>1. Quiet
    BY <1>1, <1>2, <1>9 DEF WorkerEnds, Ends, envVars, madeVars, rateVars
  <2> QED
    BY <2>1, RatesKept
<1>10. ASSUME NEW t \in wakes, WakeTimer(t)
       PROVE  RatesInv'
  <2>1. Quiet
    BY <1>10 DEF WakeTimer, envVars, madeVars, jobVars, rateVars
  <2> QED
    BY <2>1, RatesKept
<1> QED
  BY <1>3, <1>4, <1>5, <1>6, <1>7, <1>8, <1>9, <1>10, RatesTick, RatesQueues, RatesStarts
     DEF Next, PumpStep, ExecuteStep

\* No window of time, wherever it lies, sees more dispatches than the limit, and
\* no origin two within the cooldown: however pruning, queueing, failures and
\* late timers interleave.
THEOREM RatesCorrect == Spec => []RatesHold
<1>1. IInv => RatesHold
  BY DEF IInv, RatesInv
<1>2. Init => IInv
  BY SlotsInit, RatesInit DEF IInv
<1>3. IInv /\ [Next]_vars => IInv'
  BY SlotsNext, RatesNext DEF IInv
<1> QED
  BY <1>1, <1>2, <1>3, PTL DEF Spec

=============================================================================
