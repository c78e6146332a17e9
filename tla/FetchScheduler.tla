---------------------------- MODULE FetchScheduler ----------------------------
(***************************************************************************)
(* packages/core/src/discovery/fetch-scheduler.ts: which directory fetches *)
(* run, and when.  One job per origin; a bounded number of workers, a      *)
(* sliding bound on starts, a cooldown per origin, a bounded queue, and a  *)
(* deadline that nothing renews.                                           *)
(*                                                                         *)
(* `turn' is what the event loop runs: "idle" between two tasks, "pump" in *)
(* front of an iteration of #pump's loop, "execute" in #execute before the *)
(* worker is called.  Time may pass within a task (a worker runs code      *)
(* before its first await), so those are steps of their own, but no other  *)
(* task runs in between.                                                   *)
(***************************************************************************)
EXTENDS Integers, Sequences, FiniteSets

CONSTANTS
  Origins, NoOrigin,
  MaxActive,       \* 16 workers
  MaxStarts,       \* 32 starts ...
  Window,          \* ... in 1000 ms
  Cooldown,        \* 30000 ms between two starts of an origin
  Deadline,        \* 3000 ms from the caller's admission to the answer
  MaxQueue,        \* 64 waiting jobs
  MaxTracked,      \* 1000 origins in cooldown
  Lags,            \* how long before run() its caller may have been admitted
  MaxJobs,         \* bound: accepted run() calls
  MaxTime,         \* bound: the clock
  MaxFaults        \* bound: changes of the clock provider

ASSUME FetchSchedulerAssumption ==
  /\ IsFiniteSet(Origins) /\ NoOrigin \notin Origins
  /\ MaxActive \in Nat \ {0} /\ MaxStarts \in Nat \ {0} /\ MaxQueue \in Nat
  /\ MaxTracked \in Nat \ {0}
  /\ Window \in Nat \ {0} /\ Cooldown \in Nat /\ Deadline \in Nat \ {0}
  /\ Lags \subseteq Nat
  /\ MaxJobs \in Nat /\ MaxTime \in Nat /\ MaxFaults \in Nat

Jobs == 1 .. MaxJobs
NoJob == 0
Never == -1
NoWake == -1

VARIABLES
  time, broken, faults,      \* the clock; a broken one returns no usable reading
  healthy,
  turn, frames,              \* the task that runs, and the #pump calls within it
  current,                   \* the job #execute is called with
  jobs,                      \* jobs made so far
  origin, started,           \* of each job
  phase,                     \* "unused", "queued", "active" (its worker runs), "gone"
  outcome,                   \* what its promise settled with, "pending" before
  timers,                    \* jobs whose deadline timer is armed
  owner,                     \* #jobs: the job of each origin
  queue, active,             \* waiting jobs, first come first served by their numbers
  originStarts, starts,
  wakes, wake,               \* armed wake timers, and the one that #wake names
  dispatchedAt               \* history: when each job was given to a worker

envVars == <<time, broken, faults>>
jobVars == <<phase, outcome, timers, owner, queue, active>>
madeVars == <<jobs, origin, started>>
rateVars == <<originStarts, starts, dispatchedAt>>
turnVars == <<turn, frames, current>>
wakeVars == <<wakes, wake>>
vars == <<envVars, healthy, turnVars, madeVars, jobVars, rateVars, wakeVars>>

Failures == {"capacity", "deadline", "clock", "fetch-failed"}

TypeOK ==
  /\ time \in Nat /\ broken \in BOOLEAN /\ faults \in Nat /\ healthy \in BOOLEAN
  /\ turn \in {"idle", "pump", "execute"} /\ frames \in Nat /\ current \in Jobs \cup {NoJob}
  /\ jobs \in 0 .. MaxJobs
  /\ origin \in [Jobs -> Origins \cup {NoOrigin}] /\ started \in [Jobs -> Nat]
  /\ phase \in [Jobs -> {"unused", "queued", "active", "gone"}]
  /\ outcome \in [Jobs -> {"pending", "value"} \cup Failures]
  /\ timers \subseteq Jobs
  /\ owner \in [Origins -> Jobs \cup {NoJob}]
  /\ queue \subseteq Jobs /\ active \in Nat
  /\ DOMAIN originStarts \subseteq Origins
  /\ \A o \in DOMAIN originStarts : originStarts[o] \in Nat
  /\ starts \in Seq(Nat) /\ Len(starts) <= MaxStarts
  /\ wakes \subseteq Nat /\ wake \in Nat \cup {NoWake}
  /\ dispatchedAt \in [Jobs -> Nat \cup {Never}]

Init ==
  /\ time = 0 /\ broken = FALSE /\ faults = 0 /\ healthy = TRUE
  /\ turn = "idle" /\ frames = 0 /\ current = NoJob
  /\ jobs = 0
  /\ origin = [n \in Jobs |-> NoOrigin]
  /\ started = [n \in Jobs |-> 0]
  /\ phase = [n \in Jobs |-> "unused"]
  /\ outcome = [n \in Jobs |-> "pending"]
  /\ timers = {} /\ owner = [o \in Origins |-> NoJob]
  /\ queue = {} /\ active = 0
  /\ originStarts = [o \in {} |-> 0] /\ starts = <<>>
  /\ wakes = {} /\ wake = NoWake
  /\ dispatchedAt = [n \in Jobs |-> Never]

Tick ==
  /\ time < MaxTime /\ time' = time + 1
  /\ UNCHANGED <<broken, faults, healthy, turnVars, madeVars, jobVars, rateVars, wakeVars>>

\* Readings stop being finite, bounded and monotone, or become so again.
ClockFault ==
  /\ faults < MaxFaults /\ faults' = faults + 1
  /\ broken' = ~broken
  /\ UNCHANGED <<time, healthy, turnVars, madeVars, jobVars, rateVars, wakeVars>>

-----------------------------------------------------------------------------
Pending(n) == phase[n] \in {"queued", "active"} /\ outcome[n] = "pending"
Expired(n) == time - started[n] >= Deadline
Live == {owner[o] : o \in Origins} \ {NoJob}

\* A wrong variant: an abort gives the slot back at once.
MutSettle(result, left) ==
  LET hit  == {n \in DOMAIN result : Pending(n)}
      gone == left \cup {n \in hit : phase[n] = "queued"}
  IN  /\ outcome' = [n \in Jobs |-> IF n \in hit THEN result[n] ELSE outcome[n]]
      /\ timers' = timers \ hit
      /\ phase' = [n \in Jobs |-> IF n \in gone THEN "gone" ELSE phase[n]]
      /\ owner' = [o \in Origins |-> IF owner[o] \in gone THEN NoJob ELSE owner[o]]
      /\ queue' = queue \ gone
      /\ active' = active - Cardinality(left \cup {n \in hit : phase[n] = "active"})

\* The jobs in DOMAIN result that are still pending settle as it says, their
\* timers are cleared, and those that wait in the queue are dropped; the jobs
\* in `left' are done with their workers and give up slot and origin.
\* (#fail for each of them, the resolve and the finally block of #execute.)
Settle(result, left) ==
  LET hit  == {n \in DOMAIN result : Pending(n)}
      gone == left \cup {n \in hit : phase[n] = "queued"}
  IN  /\ outcome' = [n \in Jobs |-> IF n \in hit THEN result[n] ELSE outcome[n]]
      /\ timers' = timers \ hit
      /\ phase' = [n \in Jobs |-> IF n \in gone THEN "gone" ELSE phase[n]]
      /\ owner' = [o \in Origins |-> IF owner[o] \in gone THEN NoJob ELSE owner[o]]
      /\ queue' = queue \ gone
      /\ active' = active - Cardinality(left)

Nothing == [n \in {} |-> "none"]
All(ns, reason) == [n \in ns |-> reason]

ClearWake == wakes' = wakes \ {wake} /\ wake' = NoWake

Readable == healthy /\ ~broken

\* #now: a reading is good, or the scheduler is and stays unhealthy; the first
\* bad reading fails every job there is.
LoseClock(left) ==
  /\ ~Readable
  /\ healthy' = FALSE
  /\ Settle(IF healthy THEN All(Live, "clock") ELSE Nothing, left)

\* #prune shifts records of starts until the first one is recent.
Stale ==
  CHOOSE k \in 0 .. Len(starts) :
    /\ \A i \in 1 .. k : time - starts[i] >= Window
    /\ k < Len(starts) => time - starts[k + 1] < Window
Recent == SubSeq(starts, Stale + 1, Len(starts))

\* A wrong variant: cooldown records go with the window.
MutCooling == {o \in DOMAIN originStarts : time - originStarts[o] < Window}

Cooling == {o \in DOMAIN originStarts : time - originStarts[o] < Cooldown}
Tracked == [o \in Cooling |-> originStarts[o]]
Prune == starts' = Recent /\ originStarts' = Tracked

\* A call of #pump, and the return from one to the task or to an outer call.
Pump == turn' = "pump" /\ frames' = frames + 1 /\ UNCHANGED current /\ ClearWake
Return ==
  /\ frames' = frames - 1
  /\ turn' = IF frames = 1 THEN "idle" ELSE "pump"
  /\ UNCHANGED current

-----------------------------------------------------------------------------
(* run(origin, startedAt).                                                 *)

\* No reading: the call is rejected.
RunBlind ==
  /\ turn = "idle"
  /\ LoseClock({})
  /\ ClearWake
  /\ UNCHANGED <<envVars, turnVars, madeVars, rateVars>>

\* The origin has a job: its promise is returned, failed first if it is late.
RunJoins(o) ==
  /\ turn = "idle" /\ Readable
  /\ owner[o] # NoJob
  /\ Expired(owner[o]) /\ Settle(All({owner[o]}, "deadline"), {})
  /\ UNCHANGED <<envVars, healthy, turnVars, madeVars, rateVars, wakeVars>>


Full ==
  \/ Cardinality(Cooling) >= MaxTracked
  \/ Cardinality(queue) >= MaxQueue /\ (active >= MaxActive \/ Len(Recent) >= MaxStarts)

\* "origin-rate" or "capacity": only the records of starts are pruned.
RunRefused(o) ==
  /\ turn = "idle" /\ Readable
  /\ owner[o] = NoJob
  /\ o \in Cooling \/ Full
  /\ Prune
  /\ UNCHANGED <<envVars, healthy, turnVars, madeVars, jobVars, dispatchedAt, wakeVars>>

\* A new job, on the time budget its caller has left.
RunQueues(o, lag) ==
  /\ turn = "idle" /\ Readable
  /\ lag < Deadline /\ lag <= time
  /\ jobs < MaxJobs /\ time + Deadline <= MaxTime
  /\ owner[o] = NoJob /\ o \notin Cooling /\ ~Full
  /\ LET n == jobs + 1 IN
     /\ jobs' = n
     /\ origin' = [origin EXCEPT ![n] = o]
     /\ started' = [started EXCEPT ![n] = time - lag]
     /\ phase' = [phase EXCEPT ![n] = "queued"]
     /\ timers' = timers \cup {n}
     /\ owner' = [owner EXCEPT ![o] = n]
     /\ queue' = queue \cup {n}
  /\ Prune /\ Pump
  /\ UNCHANGED <<envVars, healthy, outcome, active, dispatchedAt>>

-----------------------------------------------------------------------------
(* One iteration of #pump's loop.  Jobs that waited too long fail first.   *)

Late == {n \in Jobs : phase[n] = "queued" /\ Expired(n)}
Waiting == queue \ Late
First(ns) == CHOOSE n \in ns : \A m \in ns : n <= m
Pumping == turn = "pump" /\ Readable

PumpBlind ==
  /\ turn = "pump"
  /\ LoseClock({}) /\ ClearWake /\ Return
  /\ UNCHANGED <<envVars, madeVars, rateVars>>

\* Nothing to start, or no slot: whoever frees the slot will pump.
PumpRests ==
  /\ Pumping
  /\ Waiting = {} \/ active >= MaxActive
  /\ Settle(All(Late, "deadline"), {})
  /\ Prune /\ Return
  /\ UNCHANGED <<envVars, healthy, madeVars, dispatchedAt, wakeVars>>

\* Too many starts: a timer for the moment the oldest leaves the window.
PumpWaits ==
  /\ Pumping
  /\ Waiting # {} /\ active < MaxActive
  /\ Len(Recent) >= MaxStarts
  /\ Settle(All(Late, "deadline"), {})
  /\ wake' = Head(Recent) + Window /\ wakes' = wakes \cup {wake'}
  /\ Prune /\ Return
  /\ UNCHANGED <<envVars, healthy, madeVars, dispatchedAt>>

\* No room for another cooldown record.
PumpRefuses ==
  /\ Pumping
  /\ Waiting # {} /\ active < MaxActive
  /\ Len(Recent) < MaxStarts
  /\ Cardinality(Cooling) >= MaxTracked
  /\ Settle([n \in Late \cup {First(Waiting)} |-> IF n \in Late THEN "deadline" ELSE "capacity"],
            {})
  /\ Prune
  /\ UNCHANGED <<envVars, healthy, turnVars, madeVars, dispatchedAt, wakeVars>>

PumpStarts ==
  /\ Pumping
  /\ Waiting # {} /\ active < MaxActive
  /\ Len(Recent) < MaxStarts
  /\ Cardinality(Cooling) < MaxTracked
  /\ LET n == First(Waiting) IN
     /\ outcome' = [m \in Jobs |-> IF m \in Late THEN "deadline" ELSE outcome[m]]
     /\ timers' = timers \ Late
     /\ phase' = [m \in Jobs |-> IF m \in Late THEN "gone"
                                 ELSE IF m = n THEN "active" ELSE phase[m]]
     /\ owner' = [o \in Origins |-> IF owner[o] \in Late THEN NoJob ELSE owner[o]]
     /\ queue' = Waiting \ {n}
     /\ active' = active + 1
     /\ starts' = Append(Recent, time)
     /\ originStarts' = [o \in Cooling \cup {origin[n]} |->
                           IF o = origin[n] THEN time ELSE originStarts[o]]
     /\ dispatchedAt' = [dispatchedAt EXCEPT ![n] = time]
     /\ current' = n
  /\ turn' = "execute"
  /\ UNCHANGED <<envVars, healthy, frames, madeVars, wakeVars>>

-----------------------------------------------------------------------------
(* #execute.                                                               *)

\* Its first reading, in the same task; then the worker is called, which runs
\* on while the loop goes on.
Execute ==
  /\ turn = "execute" /\ Readable
  /\ ~Expired(current)
  /\ turn' = "pump"
  /\ UNCHANGED <<envVars, healthy, frames, current, madeVars, jobVars, rateVars, wakeVars>>

\* No worker is called; the finally block pumps within the pump.
ExecuteFails ==
  /\ turn = "execute"
  /\ \/ LoseClock({current})
     \/ /\ Readable /\ Expired(current)
        /\ Settle(All({current}, "deadline"), {current})
        /\ UNCHANGED healthy
  /\ Pump
  /\ UNCHANGED <<envVars, madeVars, rateVars>>

\* The second reading of #execute, after the worker has returned a value.
Answer(n) == IF Expired(n) THEN "deadline" ELSE "value"

\* The result of a worker, and the slot and origin it gives up.
Ends(n, ok) ==
  \/ /\ ok /\ LoseClock({n})
  \/ /\ ok /\ Readable /\ Settle(All({n}, Answer(n)), {n})
     /\ UNCHANGED healthy
  \/ /\ ~ok /\ Settle(All({n}, "fetch-failed"), {n})
     /\ UNCHANGED healthy

\* The worker of n returns a value or (ok = FALSE) throws, on time, late or
\* after an abort; only now slot and origin are free, and the next job starts.
WorkerEnds(n, ok) ==
  /\ turn = "idle" /\ phase[n] = "active"
  /\ Ends(n, ok)
  /\ Pump
  /\ UNCHANGED <<envVars, madeVars, rateVars>>

-----------------------------------------------------------------------------
(* Timers.  They may be late, never early.                                 *)

\* A wrong variant: a job that has its worker is left to it.
MutDeadlineTimer(n) ==
  /\ turn = "idle" /\ n \in timers /\ Expired(n) /\ phase[n] = "queued"
  /\ Settle(All({n}, "deadline"), {})
  /\ Pump
  /\ UNCHANGED <<envVars, healthy, madeVars, rateVars>>

DeadlineTimer(n) ==
  /\ turn = "idle" /\ n \in timers /\ Expired(n)
  /\ Settle(All({n}, "deadline"), {})
  /\ Pump
  /\ UNCHANGED <<envVars, healthy, madeVars, rateVars>>

WakeTimer(t) ==
  /\ turn = "idle" /\ t \in wakes /\ time >= t
  /\ turn' = "pump" /\ frames' = frames + 1
  /\ wakes' = wakes \ {t, wake} /\ wake' = NoWake
  /\ UNCHANGED <<envVars, healthy, current, madeVars, jobVars, rateVars>>

-----------------------------------------------------------------------------
PumpStep == PumpBlind \/ PumpRests \/ PumpWaits \/ PumpRefuses \/ PumpStarts
ExecuteStep == Execute \/ ExecuteFails

Next ==
  \/ Tick \/ ClockFault
  \/ RunBlind
  \/ \E o \in Origins : \/ RunJoins(o) \/ RunRefused(o)
                        \/ \E lag \in Lags : RunQueues(o, lag)
  \/ PumpStep \/ ExecuteStep
  \/ \E n \in Jobs : DeadlineTimer(n) \/ \E ok \in BOOLEAN : WorkerEnds(n, ok)
  \/ \E t \in wakes : WakeTimer(t)

\* Tasks run to their end and due timers fire.  That workers end is not assumed.
Fairness ==
  /\ WF_vars(Tick)
  /\ WF_vars(PumpStep) /\ WF_vars(ExecuteStep)
  /\ \A n \in Jobs : WF_vars(DeadlineTimer(n))
  /\ WF_vars(\E t \in wakes : WakeTimer(t))

Spec == Init /\ [][Next]_vars
FairSpec == Spec /\ Fairness

-----------------------------------------------------------------------------
(* Properties.                                                             *)

Dispatched == {n \in Jobs : dispatchedAt[n] # Never}
Running == {n \in Jobs : phase[n] = "active"}

\* The count behind the concurrency limit is the number of workers that have
\* not ended, whatever became of the promises they were started for, and an
\* origin never has two of them.  (The finally block of #execute against #fail:
\* an abort releases neither slot nor origin, the end of the worker both.)
SlotsExact ==
  /\ active = Cardinality(Running) /\ active <= MaxActive
  /\ \A n \in Jobs, o \in Origins :
       (owner[o] = n) <=> (phase[n] \in {"queued", "active"} /\ origin[n] = o)

\* Never more than MaxStarts dispatches in a window, wherever the window lies:
\* not on a grid of seconds (#starts, #prune and the wake timer).
StartRate ==
  \A n \in Dispatched :
    Cardinality({m \in Dispatched : dispatchedAt[m] \in
                   dispatchedAt[n] .. (dispatchedAt[n] + Window - 1)}) <= MaxStarts

\* An origin is left alone for the cooldown after each dispatch, whatever the
\* outcome and however the pruning and the queue interleave.
OriginCooldown ==
  \A n, m \in Dispatched :
    n < m /\ origin[n] = origin[m] => dispatchedAt[m] - dispatchedAt[n] >= Cooldown

\* A job that could start is not forgotten: between two tasks a queue that is
\* held up by the start rate has its wake timer armed.
NoLostWakeup ==
  turn = "idle" /\ healthy /\ queue # {} /\ active < MaxActive =>
    wake # NoWake /\ wake \in wakes

\* After the clock is lost no promise is left pending, and none is made.
ClockLossSettles == ~healthy => \A n \in Jobs : ~Pending(n)

\* Slots, owners, wake-ups and the clock's health agree with the jobs and the
\* promises there are, between any two steps of any tasks.
SchedulerConsistent == TypeOK /\ SlotsExact /\ NoLostWakeup /\ ClockLossSettles

\* Both limits hold over every stretch of time, whatever fails or is late.
RatesHold == StartRate /\ OriginCooldown

\* Every promise settles, whether or not a worker ever ends.
EveryJobSettles == \A n \in Jobs : Pending(n) ~> ~Pending(n)

=============================================================================
