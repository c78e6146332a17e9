---------------------------- MODULE ClockTracker ----------------------------
(***************************************************************************)
(* packages/core/src/profiles/clock-tracker.ts: a reference pair of wall   *)
(* and monotonic readings, and what one later observation concludes.       *)
(*                                                                         *)
(* A sample is a record [wall, mono, wallOk, monoOk]; the flags say that   *)
(* the provider returned a finite, bounded (for the wall: nonnegative)     *)
(* number rather than throwing.  Readings are ticks, TicksPerSecond of     *)
(* them a second (the code's milliseconds).                                *)
(***************************************************************************)
EXTENDS Integers

CONSTANTS
  MaxDrift,        \* policy.maxClockDriftSeconds, in ticks
  TicksPerSecond

ASSUME ClockTrackerAssumption ==
  /\ MaxDrift \in Nat
  /\ TicksPerSecond \in Nat \ {0}

Samples == [wall : Nat, mono : Int, wallOk : BOOLEAN, monoOk : BOOLEAN]
Trackers == [refWall : Nat, refMono : Int, prevMono : Int, regressed : BOOLEAN]

\* createClockTracker refuses a reference that is not a pair of valid samples.
ValidReference(s) == s.wallOk /\ s.monoOk

CreateTracker(s) ==
  [refWall |-> s.wall, refMono |-> s.mono, prevMono |-> s.mono, regressed |-> FALSE]

\* The bookkeeping half of observe: a valid monotonic reading is followed even
\* when the wall reading is not valid, and a step back is remembered for good.
Track(t, s) ==
  [t EXCEPT !.regressed = @ \/ (s.monoOk /\ s.mono < t.prevMono),
            !.prevMono  = IF s.monoOk /\ s.mono >= @ THEN s.mono ELSE @]

\* Reference wall plus elapsed monotonic time.
Effective(t, mono) == t.refWall + (mono - t.refMono)

\* The judgement half of observe, on the tracker that Track returned.
Healthy(t, s) ==
  /\ ~t.regressed
  /\ s.wallOk /\ s.monoOk
  /\ s.mono >= t.refMono
  /\ s.wall - Effective(t, s.mono) \in -MaxDrift .. MaxDrift

\* The epochSeconds of a healthy observation.
EpochSeconds(t, s) == Effective(t, s.mono) \div TicksPerSecond

=============================================================================
