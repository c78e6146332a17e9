------------------------ MODULE SecurityContextProofs ------------------------
(***************************************************************************)
(* Safety of SecurityContext for every number of operations, every set of  *)
(* requests, every policy and every behaviour of the clocks.               *)
(*                                                                         *)
(* The argument: a nonce that was consumed in the open epoch is either     *)
(* still stored with a deadline that covers its signature's window, or the *)
(* time the store has seen is past that window; and sampled time does not  *)
(* run backwards in an epoch.  So a second consume of the nonce happens    *)
(* only when the first signature cannot be verified any more.              *)
(*                                                                         *)
(* That it implements ReplayAdmission, and what a single step may not do,  *)
(* needs two facts more: an operation that was verified keeps the reply it *)
(* was verified with, and no consume was sent after the time its epoch has *)
(* reached.                                                                *)
(***************************************************************************)
EXTENDS SecurityContext, FiniteSetTheorems, WellFoundedInduction, TLAPS

-----------------------------------------------------------------------------
(* What a consume of the replay memory does to its entries and counters.   *)

\* A nonempty set of naturals has a least element.
LEMMA LeastNatural ==
  ASSUME NEW T, T \subseteq Nat, T # {}
  PROVE  \E x \in T : \A y \in T : x <= y
<1>1. IsWellFoundedOn(OpToRel(<, Nat), Nat)
  BY NatLessThanWellFounded
<1>2. PICK x \in T : \A y \in T : ~(<<y, x>> \in OpToRel(<, Nat))
  BY <1>1, WFMin
<1>3. ASSUME NEW y \in T PROVE x <= y
  <2>1. y < x => <<y, x>> \in OpToRel(<, Nat)
    BY DEF OpToRel
  <2>2. ~(y < x)
    BY <1>2, <2>1, Zenon
  <2> QED
    BY <2>2
<1> QED
  BY <1>3

\* The entries are a finite set, and so is every part of them.
LEMMA StoredFinite ==
  ASSUME NEW st, NEW S, S \subseteq Stored(st)
  PROVE  /\ IsFiniteSet(S) /\ Cardinality(S) \in Nat
         /\ S \subseteq Identities
  BY MemoryReplayStoreAssumption, FS_Subset, FS_CardinalityType DEF Stored

\* A sweep at second `now' drops exactly the entries whose deadline is not
\* later, although it looks at them only when the earliest one has come.
LEMMA ExpireLemma ==
  ASSUME NEW st \in Stores, NEW now \in Nat, Accounts(st)
  PROVE  LET x == Expire(st, now) IN
         /\ x \in Stores /\ Accounts(x) /\ x.lastNow = st.lastNow
         /\ \A i \in Identities :
              x.retain[i] = IF st.retain[i] <= now THEN 0 ELSE st.retain[i]
<1> DEFINE x == Expire(st, now)
           due == Due(st, now)
           kept == Stored(st) \ due
<1>1. CASE st.nextExpiry = Never \/ now < st.nextExpiry
  <2>1. x = st
    BY <1>1 DEF Expire
  <2>2. \A i \in Identities : st.retain[i] # 0 => st.retain[i] > now
    BY <1>1, MemoryReplayStoreAssumption DEF Accounts, Stored, Stores
  <2> QED
    BY <2>1, <2>2 DEF Stores
<1>2. CASE ~(st.nextExpiry = Never \/ now < st.nextExpiry)
  <2> DEFINE retain == [i \in Identities |-> IF i \in due THEN 0 ELSE st.retain[i]]
             perKey == [k \in Keys |-> st.perKey[k] - Cardinality({i \in due : i.key = k})]
             nextExpiry == IF kept = {} THEN Never ELSE Min({st.retain[i] : i \in kept})
  <2>1. x = [st EXCEPT !.retain = retain, !.perKey = perKey, !.nextExpiry = nextExpiry]
    BY <1>2 DEF Expire
  <2>2. /\ x.retain = retain /\ x.perKey = perKey /\ x.nextExpiry = nextExpiry
        /\ x.lastNow = st.lastNow
    BY <2>1 DEF Stores
  <2>3. retain \in [Identities -> Nat]
    BY DEF Stores
  <2>4. \A i \in Identities : retain[i] = IF st.retain[i] <= now THEN 0 ELSE st.retain[i]
    BY DEF Due, Stored, Stores
  <2>5. Stored(x) = kept
    BY <2>2, <2>4 DEF Stored, Due, Stores
  <2>6. ASSUME NEW k \in Keys
        PROVE  /\ perKey[k] = Cardinality(StoredOf(x, k))
               /\ perKey[k] \in Nat /\ perKey[k] <= st.perKey[k]
    <3> DEFINE A == StoredOf(st, k)
               B == {i \in due : i.key = k}
    <3>1. /\ IsFiniteSet(A) /\ Cardinality(A) \in Nat
          /\ IsFiniteSet(B) /\ Cardinality(B) \in Nat
          /\ IsFiniteSet(A \ B) /\ Cardinality(A \ B) \in Nat
      <4>1. A \subseteq Stored(st) /\ B \subseteq Stored(st) /\ A \ B \subseteq Stored(st)
        BY DEF StoredOf, Due
      <4> HIDE DEF A, B
      <4> QED
        BY <4>1, StoredFinite
    <3>2. B \subseteq A /\ StoredOf(x, k) = A \ B
      BY <2>5 DEF StoredOf, Due
    <3>3. Cardinality(A \ B) = Cardinality(A) - Cardinality(A \cap B)
      <4> HIDE DEF A, B
      <4> QED
        BY <3>1, FS_Difference
    <3>4. A \cap B = B
      BY <3>2
    <3>5. perKey[k] = st.perKey[k] - Cardinality(B) /\ st.perKey[k] = Cardinality(A)
      BY DEF Accounts
    <3>6. Cardinality(StoredOf(x, k)) = Cardinality(A) - Cardinality(B)
      BY <3>2, <3>3, <3>4
    <3>7. Cardinality(StoredOf(x, k)) \in Nat
      BY <3>1, <3>2
    <3> HIDE DEF A, B, x, perKey
    <3> QED
      BY <3>1, <3>5, <3>6, <3>7
  <2>7. /\ nextExpiry \in Nat \cup {Never}
        /\ \A i \in kept : nextExpiry # Never /\ nextExpiry <= st.retain[i]
    <3>1. CASE kept = {}
      BY <3>1
    <3>2. CASE kept # {}
      <4> DEFINE T == {st.retain[i] : i \in kept}
      <4>1. T \subseteq Nat /\ T # {}
        BY <3>2 DEF Stores, Stored
      <4>2. \E m \in T : \A n \in T : m <= n
        <5> HIDE DEF T
        <5> QED
          BY <4>1, LeastNatural
      <4>3. Min(T) \in T /\ \A n \in T : Min(T) <= n
        BY <4>2 DEF Min
      <4>4. nextExpiry = Min(T)
        BY <3>2
      <4> QED
        BY <4>1, <4>3, <4>4, MemoryReplayStoreAssumption
    <3> QED
      BY <3>1, <3>2
  <2>8. Cardinality(Stored(x)) <= Capacity
    <3>1. IsFiniteSet(Stored(st)) /\ Stored(x) \subseteq Stored(st)
      BY <2>5, StoredFinite
    <3>2. Cardinality(Stored(x)) <= Cardinality(Stored(st)) /\ Cardinality(Stored(x)) \in Nat
      BY <3>1, FS_Subset, FS_CardinalityType
    <3>3. Cardinality(Stored(st)) \in Nat
      BY <3>1, FS_CardinalityType
    <3> QED
      BY <3>2, <3>3, MemoryReplayStoreAssumption DEF Accounts
  <2>9. x \in Stores
    <3>1. perKey \in [Keys -> Nat]
      BY <2>6
    <3> HIDE DEF retain, perKey, nextExpiry
    <3> QED
      BY <2>1, <2>3, <2>7, <3>1 DEF Stores
  <2>10. Accounts(x)
    <3>1. \A k \in Keys : x.perKey[k] = Cardinality(StoredOf(x, k))
      BY <2>2, <2>6
    <3>2. \A k \in Keys : x.perKey[k] <= MaxPerKey
      <4>1. \A k \in Keys : st.perKey[k] \in Nat /\ st.perKey[k] <= MaxPerKey
        BY DEF Stores, Accounts
      <4> QED
        BY <2>2, <2>6, <4>1, MemoryReplayStoreAssumption
    <3>3. \A i \in Stored(x) : x.nextExpiry # Never /\ x.nextExpiry <= x.retain[i]
      <4>1. \A i \in kept : x.retain[i] = st.retain[i]
        BY <2>2 DEF Stored
      <4> QED
        BY <2>2, <2>5, <2>7, <4>1
    <3> QED
      BY <2>8, <3>1, <3>2, <3>3 DEF Accounts
  <2> QED
    BY <2>2, <2>4, <2>9, <2>10
<1> QED
  BY <1>1, <1>2

\* An insertion of an identity that is not stored, within both limits, counts
\* it once for its key and keeps nextExpiry below every deadline.
LEMMA InsertLemma ==
  ASSUME NEW st \in Stores, Accounts(st), NEW id \in Identities, NEW until \in Nat \ {0},
         st.retain[id] = 0, st.perKey[id.key] < MaxPerKey, Cardinality(Stored(st)) < Capacity
  PROVE  LET x == Insert(st, id, until) IN
         /\ x \in Stores /\ Accounts(x) /\ x.lastNow = st.lastNow
         /\ x.retain = [st.retain EXCEPT ![id] = until]
<1> DEFINE x == Insert(st, id, until)
           k0 == id.key
           nextExpiry == IF st.nextExpiry = Never \/ until < st.nextExpiry
                         THEN until ELSE st.nextExpiry
<1>1. k0 \in Keys /\ Never \notin Int /\ MaxPerKey \in Nat /\ Capacity \in Nat
  BY MemoryReplayStoreAssumption
<1>2. /\ x.retain = [st.retain EXCEPT ![id] = until]
      /\ x.perKey = [st.perKey EXCEPT ![k0] = @ + 1]
      /\ x.nextExpiry = nextExpiry
      /\ x.lastNow = st.lastNow
  BY <1>1 DEF Insert, Stores
<1>3. nextExpiry \in Nat \cup {Never} /\ nextExpiry # Never
  BY <1>1 DEF Stores
<1>4. x \in Stores
  <2>1. x = [st EXCEPT !.retain = x.retain, !.perKey = x.perKey, !.nextExpiry = x.nextExpiry]
    BY <1>2 DEF Insert, Stores
  <2>2. x.retain \in [Identities -> Nat] /\ x.perKey \in [Keys -> Nat]
    BY <1>1, <1>2 DEF Stores
  <2> HIDE DEF x, nextExpiry
  <2> QED
    BY <2>1, <2>2, <1>2, <1>3 DEF Stores
<1>5. Stored(x) = Stored(st) \cup {id} /\ id \notin Stored(st)
  BY <1>2 DEF Stored, Stores
<1>6. /\ \A k \in Keys : x.perKey[k] = Cardinality(StoredOf(x, k))
      /\ \A k \in Keys : x.perKey[k] <= MaxPerKey
  <2> SUFFICES ASSUME NEW k \in Keys
               PROVE  x.perKey[k] = Cardinality(StoredOf(x, k)) /\ x.perKey[k] <= MaxPerKey
    OBVIOUS
  <2>1. st.perKey[k] = Cardinality(StoredOf(st, k)) /\ st.perKey[k] <= MaxPerKey
    BY DEF Accounts
  <2>2. IsFiniteSet(StoredOf(st, k)) /\ st.perKey[k] \in Nat
    BY StoredFinite DEF StoredOf, Stores
  <2>3. CASE k = k0
    <3>1. StoredOf(x, k) = StoredOf(st, k) \cup {id} /\ id \notin StoredOf(st, k)
      BY <1>5, <2>3 DEF StoredOf
    <3>2. Cardinality(StoredOf(x, k)) = Cardinality(StoredOf(st, k)) + 1
      BY <2>2, <3>1, FS_AddElement, ZenonT(60)
    <3>3. x.perKey[k] = st.perKey[k] + 1
      BY <1>2, <2>3 DEF Stores
    <3> QED
      BY <1>1, <2>1, <2>2, <2>3, <3>2, <3>3
  <2>4. CASE k # k0
    <3>1. StoredOf(x, k) = StoredOf(st, k)
      BY <1>5, <2>4 DEF StoredOf
    <3>2. x.perKey[k] = st.perKey[k]
      BY <1>2, <2>4 DEF Stores
    <3> QED
      BY <2>1, <3>1, <3>2
  <2> QED
    BY <2>3, <2>4
<1>7. Cardinality(Stored(x)) <= Capacity
  <2>1. IsFiniteSet(Stored(st)) /\ Cardinality(Stored(st)) \in Nat
    BY StoredFinite
  <2>2. Cardinality(Stored(x)) = Cardinality(Stored(st)) + 1
    BY <1>5, <2>1, FS_AddElement, ZenonT(60)
  <2> QED
    BY <1>1, <2>1, <2>2
<1>8. \A i \in Stored(x) : x.nextExpiry # Never /\ x.nextExpiry <= x.retain[i]
  BY <1>1, <1>2, <1>3, <1>5 DEF Accounts, Stored, Stores
<1> QED
  BY <1>2, <1>4, <1>6, <1>7, <1>8 DEF Accounts

\* A whole consume keeps the accounts, never takes back an entry that is still
\* to be kept, and accepts only an identity whose entry is gone.
LEMMA ConsumeLemma ==
  ASSUME NEW st \in Stores, Accounts(st), NEW id \in Identities,
         NEW now \in Nat, NEW until \in Nat
  PROVE  LET x   == ConsumeStore(st, id, now, until)
             out == ConsumeOutcome(st, id, now, until)
         IN  /\ x \in Stores /\ Accounts(x)
             /\ out \in {"unavailable", "replayed", "per-key-quota-exceeded", "accepted"}
             /\ \A i \in Identities : \/ x.retain[i] = st.retain[i]
                                      \/ st.retain[i] <= x.lastNow /\ x.lastNow = now
             /\ x.lastNow >= st.lastNow
             /\ x.lastNow = st.lastNow \/ x.lastNow = now
             /\ out = "accepted" =>
                  /\ now >= st.lastNow /\ x.lastNow = now /\ x.retain[id] = until
                  /\ st.retain[id] <= now
<1> DEFINE x == ConsumeStore(st, id, now, until)
           out == ConsumeOutcome(st, id, now, until)
           st1 == [st EXCEPT !.lastNow = now]
           swept == Swept(st, now)
<1>1. st1 \in Stores /\ Accounts(st1) /\ st1.lastNow = now /\ st1.retain = st.retain
  BY DEF Stores, Accounts, Stored, StoredOf
<1>2. /\ swept \in Stores /\ Accounts(swept) /\ swept.lastNow = now
      /\ \A i \in Identities :
           swept.retain[i] = IF st.retain[i] <= now THEN 0 ELSE st.retain[i]
  <2> HIDE DEF st1
  <2>1. swept = Expire(st1, now)
    BY DEF Swept, st1
  <2> QED
    BY <1>1, <2>1, ExpireLemma
<1>3. CASE Refused(st, now, until)
  <2>1. x = st /\ out = "unavailable"
    BY <1>3 DEF ConsumeStore, ConsumeOutcome
  <2> QED
    BY <2>1 DEF Stores
<1>4. CASE ~Refused(st, now, until) /\ out # "accepted"
  <2>1. x = swept
    BY <1>4 DEF ConsumeStore
  <2>2. out \in {"unavailable", "replayed", "per-key-quota-exceeded"}
    BY <1>4 DEF ConsumeOutcome
  <2>3. now >= st.lastNow
    BY <1>4 DEF Refused, Stores
  <2> QED
    BY <1>2, <1>4, <2>1, <2>2, <2>3
<1>5. CASE ~Refused(st, now, until) /\ out = "accepted"
  <2>1. x = Insert(swept, id, until)
    BY <1>5 DEF ConsumeStore
  <2>2. swept.retain[id] = 0 /\ ~(swept.perKey[id.key] >= MaxPerKey)
        /\ ~(Cardinality(Stored(swept)) >= Capacity)
    BY <1>5 DEF ConsumeOutcome
  <2>3. /\ swept.perKey[id.key] < MaxPerKey
        /\ Cardinality(Stored(swept)) < Capacity
    <3>1. Cardinality(Stored(swept)) \in Nat
      BY StoredFinite
    <3>2. swept.perKey[id.key] \in Nat
      BY <1>2, MemoryReplayStoreAssumption DEF Stores
    <3> QED
      BY <2>2, <3>1, <3>2, MemoryReplayStoreAssumption
  <2>4. until \in Nat \ {0} /\ now >= st.lastNow
    BY <1>5 DEF Refused, Stores
  <2>5. /\ x \in Stores /\ Accounts(x) /\ x.lastNow = now
        /\ x.retain = [swept.retain EXCEPT ![id] = until]
    <3> QED
      BY <1>2, <2>1, <2>2, <2>3, <2>4, InsertLemma
  <2>6. \A i \in Identities : x.retain[i] = IF i = id THEN until ELSE swept.retain[i]
    BY <1>2, <2>5 DEF Stores
  <2>7. st.retain[id] <= now
    <3>1. st.retain[id] \in Nat
      BY DEF Stores
    <3> QED
      BY <1>2, <2>2, <3>1
  <2> QED
    BY <1>2, <1>5, <2>4, <2>5, <2>6, <2>7
<1> QED
  BY <1>3, <1>4, <1>5

-----------------------------------------------------------------------------
(* The inductive invariant.                                                  *)

Consumed(o) == reply[o] = "accepted"

\* Leases never run ahead of the epochs, and operations that have not begun
\* hold none.
LeaseInv ==
  /\ activeEpoch \in {Closed, lastEpoch}
  /\ \A o \in Ops :
       /\ lease[o] <= lastEpoch
       /\ o \in Outstanding => lease[o] # 0 /\ verdict[o] = "none"
       /\ pc[o] = "idle" => lease[o] = 0 /\ reply[o] = "none" /\ verdict[o] = "none"
       /\ verdict[o] = "verified" => lease[o] # 0

\* Between invalidation and activation the epoch is closed, and cleared owned
\* memory stays empty.
ResetInv ==
  /\ replacement.refMono = replacement.prevMono
  /\ resetStep \in {"cleared", "clear-failed"} => activeEpoch = Closed
  /\ resetStep = "cleared" /\ Declaration = "process-clock" => store = EmptyStore

\* Sampled time is not behind the store's time.
ClockInv ==
  /\ tracker.refMono <= tracker.prevMono
  /\ HighWaterHolds

\* Owned memory: every nonce consumed in the open epoch is covered.
OwnedInv ==
  Declaration = "process-clock" =>
    /\ inbox = {}
    /\ \A o \in Ops :
         /\ reply[o] # "pending"
         /\ Consumed(o) =>
              /\ lease[o] # 0 /\ request[o].nonce # NoNonce
              /\ lease[o] = activeEpoch =>
                   /\ sentAt[o] <= store.lastNow
                   /\ \/ store.retain[Identity(request[o])] >= End(request[o])
                      \/ store.lastNow >= End(request[o])
              /\ verdict[o] = "verified" => sentAt[o] <= verifiedAt[o]
    /\ \A o, p \in Ops :
         o # p /\ Consumed(o) /\ Consumed(p) /\ SameNonce(o, p) /\ lease[o] = lease[p]
           => sentAt[o] >= End(request[p]) \/ sentAt[p] >= End(request[o])

\* An external store keeps the nonces it has accepted, one operation each.
ExternalInv ==
  Declaration # "process-clock" =>
    /\ store.lastNow = 0
    /\ \A o \in inbox :
         /\ request[o].nonce # NoNonce
         /\ pc[o] \in {"dispatched", "returned", "closing", "done"}
    /\ \A o \in Ops : Consumed(o) =>
         /\ request[o].nonce # NoNonce /\ o \notin inbox /\ pc[o] # "evaluated"
         /\ store.retain[Identity(request[o])] # 0
    /\ \A o, p \in Ops :
         o # p /\ Consumed(o) /\ Consumed(p) => ~SameNonce(o, p)

IInv ==
  /\ TypeOK /\ LeaseInv /\ InFlightExact /\ ResetInv /\ ClockInv
  /\ StoreAccounting /\ OwnedInv /\ ExternalInv

-----------------------------------------------------------------------------
(* The clock.                                                              *)

\* Readings in seconds respect the order of the readings in ticks.
LEMMA SecondsMonotone ==
  ASSUME NEW x \in Int, NEW y \in Int, x <= y
  PROVE  /\ x \div TicksPerSecond \in Int
         /\ x \div TicksPerSecond <= y \div TicksPerSecond
         /\ x >= 0 => x \div TicksPerSecond \in Nat
  BY ClockTrackerAssumption

\* A sample moves the tracker forward only, and a healthy one yields the time
\* of the tracker's latest reading.
LEMMA TrackLemma ==
  ASSUME NEW t \in Trackers, NEW s \in Samples, t.refMono <= t.prevMono
  PROVE  LET x == Track(t, s) IN
         /\ x \in Trackers
         /\ x.refMono = t.refMono /\ x.refWall = t.refWall
         /\ t.prevMono <= x.prevMono
         /\ t.regressed => x.regressed
         /\ Healthy(x, s) =>
              /\ x.prevMono = s.mono
              /\ EpochSeconds(x, s) = Effective(x, x.prevMono) \div TicksPerSecond
              /\ EpochSeconds(x, s) \in Nat
<1> DEFINE x == Track(t, s)
<1>1. /\ x \in Trackers
      /\ x.refMono = t.refMono /\ x.refWall = t.refWall
      /\ t.prevMono <= x.prevMono
      /\ t.regressed => x.regressed
  <2> DEFINE r == t.regressed \/ (s.monoOk /\ s.mono < t.prevMono)
             m == IF s.monoOk /\ s.mono >= t.prevMono THEN s.mono ELSE t.prevMono
  <2>1. x = [t EXCEPT !.regressed = r, !.prevMono = m]
    BY DEF Track
  <2>2. r \in BOOLEAN /\ (t.regressed => r)
    OBVIOUS
  <2>3. m \in Int /\ t.prevMono <= m
    BY DEF Trackers, Samples
  <2> HIDE DEF r, m
  <2>4. /\ x \in Trackers /\ x.prevMono = m /\ x.regressed = r
        /\ x.refMono = t.refMono /\ x.refWall = t.refWall
    BY <2>1, <2>2, <2>3 DEF Trackers
  <2> QED
    BY <2>2, <2>3, <2>4
<1>2. ASSUME Healthy(x, s) PROVE x.prevMono = s.mono /\ s.mono >= x.refMono
  BY <1>2 DEF Track, Healthy, Trackers, Samples
<1>3. ASSUME Healthy(x, s) PROVE Effective(x, s.mono) \in Nat
  BY <1>1, <1>2, <1>3 DEF Effective, Trackers, Samples
<1>4. ASSUME Healthy(x, s) PROVE EpochSeconds(x, s) \in Nat
  BY <1>3, <1>4, SecondsMonotone DEF EpochSeconds
<1> QED
  BY <1>1, <1>2, <1>4 DEF EpochSeconds

\* What a gate lets an action assume: the tracker stays a tracker, its latest
\* reading does not go back, and the time that passes is not behind it.
LEMMA SampleLemma ==
  ASSUME TypeOK, ClockInv
  PROVE  /\ SampleClock \/ UNCHANGED clockVars =>
              /\ tracker' \in Trackers /\ healthy' \in BOOLEAN /\ told' \in BOOLEAN
              /\ tracker'.refMono <= tracker'.prevMono
              /\ Effective(tracker, tracker.prevMono) \div TicksPerSecond
                   <= Effective(tracker', tracker'.prevMono) \div TicksPerSecond
         /\ SampleHealthy =>
              /\ Now \in Nat
              /\ activeEpoch # Closed => store.lastNow <= Now
              /\ SampleClock => Now <= Effective(tracker', tracker'.prevMono) \div TicksPerSecond
<1>1. tracker \in Trackers /\ clock \in Samples /\ tracker.refMono <= tracker.prevMono
      /\ healthy \in BOOLEAN /\ told \in BOOLEAN
  BY DEF TypeOK, ClockInv
<1>2. /\ Tracked \in Trackers
      /\ Tracked.refMono = tracker.refMono /\ Tracked.refWall = tracker.refWall
      /\ tracker.prevMono <= Tracked.prevMono
      /\ SampleHealthy => /\ Now = Effective(Tracked, Tracked.prevMono) \div TicksPerSecond
                          /\ Now \in Nat
  BY <1>1, TrackLemma DEF Tracked, SampleHealthy, Now
<1>3. Effective(tracker, tracker.prevMono) \div TicksPerSecond
        <= Effective(Tracked, Tracked.prevMono) \div TicksPerSecond
  <2>1. /\ Effective(tracker, tracker.prevMono) \in Int
        /\ Effective(Tracked, Tracked.prevMono) \in Int
        /\ Effective(tracker, tracker.prevMono) <= Effective(Tracked, Tracked.prevMono)
    BY <1>1, <1>2 DEF Effective, Trackers
  <2> QED
    BY <2>1, SecondsMonotone
<1>4. SampleHealthy \in BOOLEAN
  BY DEF SampleHealthy, Healthy
<1>5. ASSUME SampleClock \/ UNCHANGED clockVars
      PROVE  /\ tracker' \in Trackers /\ healthy' \in BOOLEAN /\ told' \in BOOLEAN
             /\ tracker'.refMono <= tracker'.prevMono
             /\ Effective(tracker, tracker.prevMono) \div TicksPerSecond
                   <= Effective(tracker', tracker'.prevMono) \div TicksPerSecond
  <2>1. CASE SampleClock
    <3>1. tracker' = Tracked /\ healthy' = SampleHealthy /\ told' \in {SampleHealthy, told}
      BY <2>1 DEF SampleClock, Report
    <3> QED
      BY <1>1, <1>2, <1>3, <1>4, <3>1 DEF Trackers
  <2>2. CASE UNCHANGED clockVars
    <3>1. Effective(tracker, tracker.prevMono) \in Int
      BY <1>1 DEF Effective, Trackers
    <3>2. tracker' = tracker /\ healthy' = healthy /\ told' = told
      BY <2>2 DEF clockVars
    <3> QED
      BY <1>1, <3>1, <3>2, SecondsMonotone
  <2> QED
    BY <1>5, <2>1, <2>2
<1>6. ASSUME SampleHealthy, activeEpoch # Closed PROVE store.lastNow <= Now
  <2>1. store.lastNow <= Effective(tracker, tracker.prevMono) \div TicksPerSecond
    BY <1>6 DEF ClockInv, HighWaterHolds
  <2>2. /\ store.lastNow \in Nat
        /\ Effective(tracker, tracker.prevMono) \div TicksPerSecond \in Int
    BY <1>1, SecondsMonotone DEF TypeOK, Stores, Effective, Trackers
  <2> QED
    BY <1>2, <1>3, <1>6, <2>1, <2>2
<1>7. ASSUME SampleHealthy, SampleClock
      PROVE  Now <= Effective(tracker', tracker'.prevMono) \div TicksPerSecond
  BY <1>2, <1>7 DEF SampleClock
<1> QED
  BY <1>2, <1>5, <1>6, <1>7

-----------------------------------------------------------------------------
(* Requests and consumes.                                                  *)

\* The retention deadline covers the window of the signature.
LEMMA RetentionCoversWindow ==
  ASSUME NEW created \in Nat, NEW expires \in Nat, NEW now \in Nat
  PROVE  /\ WindowEnd(created, expires) \in Nat
         /\ RetainUntil(created, now) \in Nat \ {0}
         /\ WindowEnd(created, expires) <= RetainUntil(created, now)
  BY TimePolicyAssumption DEF WindowEnd, RetainUntil, Larger, Smaller

LEMMA RequestLemma ==
  ASSUME TypeOK, NEW o \in Ops
  PROVE  /\ request[o] \in Requests
         /\ request[o].nonce # NoNonce => Identity(request[o]) \in Identities
         /\ End(request[o]) \in Nat
         /\ \A now \in Nat : /\ Deadline(o, now) \in Nat \ {0}
                             /\ End(request[o]) <= Deadline(o, now)
<1>1. request[o] \in Requests
  BY DEF TypeOK
<1>2. request[o].created \in Nat /\ request[o].expires \in Nat
  BY <1>1, SecurityContextAssumption
<1> QED
  BY <1>1, <1>2, RetentionCoversWindow, SecurityContextAssumption DEF End, Deadline

LEMMA DispatchLemma ==
  ASSUME TypeOK, StoreAccounting, Declaration = "process-clock",
         NEW o \in Ops, request[o].nonce # NoNonce, Now \in Nat
  PROVE  LET id  == Identity(request[o])
             x   == ConsumeStore(store, id, Now, Deadline(o, Now))
             out == ConsumeOutcome(store, id, Now, Deadline(o, Now))
         IN  /\ x \in Stores /\ Accounts(x)
             /\ out \in {"unavailable", "replayed", "per-key-quota-exceeded", "accepted"}
             /\ \A i \in Identities : \/ x.retain[i] = store.retain[i]
                                      \/ store.retain[i] <= x.lastNow /\ x.lastNow = Now
             /\ x.lastNow >= store.lastNow
             /\ x.lastNow = store.lastNow \/ x.lastNow = Now
             /\ out = "accepted" =>
                  /\ Now >= store.lastNow /\ x.lastNow = Now
                  /\ x.retain[id] = Deadline(o, Now)
                  /\ store.retain[id] <= Now
<1>1. store \in Stores /\ Accounts(store)
  BY DEF TypeOK, StoreAccounting
<1>2. Identity(request[o]) \in Identities /\ Deadline(o, Now) \in Nat
  BY RequestLemma
<1> QED
  BY <1>1, <1>2, ConsumeLemma

-----------------------------------------------------------------------------
(* Type correctness.                                                       *)

LEMMA InitType == Init => TypeOK
  BY SecurityContextAssumption, MemoryReplayStoreAssumption
  DEF Init, TypeOK, CreateTracker, Trackers, Samples, EmptyStore, Stores, PCs, Replies

\* The operations that inFlight counts.
InFlightSet == {o \in Outstanding : activeEpoch # Closed /\ lease[o] = activeEpoch}

LEMMA InFlightFinite ==
  /\ IsFiniteSet(InFlightSet) /\ Cardinality(InFlightSet) \in Nat
  <1>1. InFlightSet \subseteq Ops
    BY DEF InFlightSet, Outstanding
  <1> QED
    BY <1>1, SecurityContextAssumption, FS_Subset, FS_CardinalityType

LEMMA InFlightPositive ==
  ASSUME InFlightExact, NEW o \in Outstanding, activeEpoch # Closed, lease[o] = activeEpoch
  PROVE  inFlight >= 1
<1>1. o \in InFlightSet /\ inFlight = Cardinality(InFlightSet)
  BY DEF InFlightSet, InFlightExact
<1>2. Cardinality(InFlightSet) # 0
  BY <1>1, InFlightFinite, FS_EmptySet
<1> QED
  BY <1>1, <1>2, InFlightFinite

LEMMA TypeStep ==
  ASSUME IInv, [Next]_vars
  PROVE  TypeOK'
<1> USE DEF IInv
<1>1. CASE Tick
  <2>1. clock.wall + 1 \in Nat /\ clock.mono + 1 \in Int
    BY DEF TypeOK, Samples
  <2>2. clock' \in Samples
    BY <1>1, <2>1 DEF Tick, TypeOK, Samples
  <2> QED
    BY <1>1, <2>2 DEF Tick, TypeOK, clockVars, resetVars, epochVars, storeVars, opVars
<1>2. ASSUME NEW kind \in ClockFaults, ClockFault(kind) PROVE TypeOK'
  <2>1. clock' \in Samples
    <3>1. CASE kind = "wall-step"
      BY <1>2, <3>1, SecurityContextAssumption DEF ClockFault, TypeOK, Samples
    <3>2. CASE kind = "mono-step"
      BY <1>2, <3>2 DEF ClockFault, TypeOK, Samples
    <3>3. CASE kind = "outage"
      BY <1>2, <3>3 DEF ClockFault, TypeOK, Samples
    <3> QED
      BY <1>2, <3>1, <3>2, <3>3 DEF ClockFault
  <2> QED
    BY <1>2, <2>1 DEF ClockFault, TypeOK, clockVars, resetVars, epochVars, storeVars, opVars
<1>3. ASSUME NEW o \in Ops, Begin(o) PROVE TypeOK'
  <2>1. SampleClock \/ UNCHANGED clockVars
    BY <1>3 DEF Begin
  <2>2. /\ pc' \in [Ops -> PCs] /\ reply' \in [Ops -> Replies]
        /\ verdict' \in [Ops -> {"none", "refused", "verified"}]
        /\ lease' \in [Ops -> Nat] /\ inFlight' \in Nat
    BY <1>3 DEF Begin, TypeOK, PCs, Replies
  <2> QED
    BY <1>3, <2>1, <2>2, SampleLemma DEF Begin, TypeOK, envVars, resetVars, storeVars
<1>4. ASSUME NEW o \in Ops, AfterCrypto(o) PROVE TypeOK'
  BY <1>4, SampleLemma DEF AfterCrypto, Gate, TypeOK, envVars, resetVars, epochVars, storeVars,
     PCs, Replies
<1>5. ASSUME NEW o \in Ops, SkipReplay(o) PROVE TypeOK'
  BY <1>5 DEF SkipReplay, TypeOK, envVars, clockVars, resetVars, epochVars, storeVars,
     PCs, Replies
<1>6. ASSUME NEW o \in Ops, Dispatch(o) PROVE TypeOK'
  <2>1. SampleClock \/ UNCHANGED clockVars
    BY <1>6 DEF Dispatch, Gate
  <2>2. Passes(o) => Now \in Nat
    BY SampleLemma DEF Passes
  <2>3. /\ store' \in Stores /\ inbox' \subseteq Ops /\ sentAt' \in [Ops -> Nat]
        /\ pc' \in [Ops -> PCs] /\ reply' \in [Ops -> Replies]
    BY <1>6, <2>2, DispatchLemma DEF Dispatch, TypeOK, PCs, Replies, storeVars
  <2> QED
    BY <1>6, <2>1, <2>3, SampleLemma DEF Dispatch, TypeOK, envVars, resetVars, epochVars
<1>7. ASSUME NEW o \in Ops, Settle(o) PROVE TypeOK'
  BY <1>7, SampleLemma DEF Settle, Gate, TypeOK, envVars, resetVars, epochVars, storeVars,
     PCs, Replies
<1>8. ASSUME NEW o \in Ops, Regroup(o) PROVE TypeOK'
  BY <1>8, SampleLemma DEF Regroup, Gate, TypeOK, envVars, resetVars, epochVars, storeVars,
     PCs, Replies
<1>9. ASSUME NEW o \in Ops, Complete(o) PROVE TypeOK'
  <2>1. SampleClock \/ UNCHANGED clockVars
    BY <1>9 DEF Complete, Gate
  <2>2. Finished(o) \in Nat
    <3>1. o \in Outstanding
      BY <1>9 DEF Complete, Outstanding
    <3> QED
      BY <3>1, InFlightPositive DEF Finished, TypeOK
  <2>3. Passes(o) => Now \in Nat
    BY SampleLemma DEF Passes
  <2>4. /\ pc' \in [Ops -> PCs] /\ verifiedAt' \in [Ops -> Nat]
        /\ verdict' \in [Ops -> {"none", "refused", "verified"}]
    BY <1>9, <2>3 DEF Complete, TypeOK, PCs
  <2> QED
    BY <1>9, <2>1, <2>2, <2>4, SampleLemma DEF Complete, TypeOK, envVars, resetVars, storeVars
<1>10. ASSUME NEW o \in Ops, StoreApply(o) PROVE TypeOK'
  <2> DEFINE id == Identity(request[o])
  <2>1. Declaration # "process-clock"
    BY <1>10 DEF StoreApply, OwnedInv
  <2>2. id \in Identities /\ Deadline(o, sentAt[o]) \in Nat
    BY <1>10, <2>1, RequestLemma DEF StoreApply, ExternalInv, TypeOK
  <2>3. [store EXCEPT !.retain[id] = Deadline(o, sentAt[o])] \in Stores
    BY <2>2 DEF TypeOK, Stores
  <2>4. store' \in Stores
    BY <1>10, <2>3 DEF StoreApply, TypeOK
  <2>5. reply' \in [Ops -> Replies] /\ inbox' \subseteq Ops
    BY <1>10 DEF StoreApply, TypeOK, Replies
  <2> QED
    BY <1>10, <2>4, <2>5
    DEF StoreApply, TypeOK, envVars, clockVars, resetVars, epochVars
<1>11. ASSUME NEW o \in Ops, StoreFails(o) PROVE TypeOK'
  BY <1>11 DEF StoreFails, TypeOK, envVars, clockVars, resetVars, epochVars, Replies
<1>12. CASE RejectReset
  BY <1>12 DEF RejectReset, TypeOK, envVars, clockVars, epochVars, storeVars, opVars
<1>13. CASE EnterReset
  BY <1>13 DEF EnterReset, TypeOK, envVars, clockVars, epochVars, storeVars, opVars
<1>14. CASE AbandonReset
  BY <1>14, SampleLemma DEF AbandonReset, TypeOK, envVars, epochVars, storeVars, opVars
<1>15. CASE PrepareReset
  BY <1>15 DEF PrepareReset, Invalidate, TypeOK, envVars, clockVars, opVars, CreateTracker,
     Trackers, Samples, EmptyStore, Stores, Closed
<1>16. CASE CommitReset
  <2>1. tracker' \in Trackers
    <3>1. replacement \in Trackers /\ clock \in Samples /\ replacement.refMono <= replacement.prevMono
      BY DEF TypeOK, ResetInv, Trackers
    <3>2. tracker' = Track(replacement, clock)
      BY <1>16 DEF CommitReset
    <3> QED
      BY <3>1, <3>2, TrackLemma
  <2>2. healthy' \in BOOLEAN /\ told' \in BOOLEAN
    BY <1>16 DEF CommitReset, Report, TypeOK
  <2> QED
    BY <1>16, <2>1, <2>2 DEF CommitReset, TypeOK, envVars, storeVars, opVars
<1>17. CASE FailReset
  BY <1>17 DEF FailReset, Invalidate, Report, TypeOK, envVars, storeVars, opVars, Closed
<1>18. CASE UNCHANGED vars
  BY <1>18 DEF vars, envVars, clockVars, resetVars, epochVars, storeVars, opVars, TypeOK
<1> QED
  BY <1>1, <1>2, <1>3, <1>4, <1>5, <1>6, <1>7, <1>8, <1>9, <1>10, <1>11, <1>12, <1>13,
     <1>14, <1>15, <1>16, <1>17, <1>18 DEF Next, OpStep, ResetStep

-----------------------------------------------------------------------------
(* Leases and the count of operations in flight.                           *)

\* Actions that leave the leases and epochs alone.
LEMMA LeaseQuiet ==
  ASSUME IInv,
         activeEpoch' = activeEpoch, lastEpoch' = lastEpoch, inFlight' = inFlight,
         lease' = lease, verdict' = verdict,
         \A o \in Ops : pc'[o] \in {"idle", "done"} \/ pc[o] \in {"idle", "done"}
                          => pc'[o] = pc[o],
         \A o \in Ops : pc[o] = "idle" => reply'[o] = reply[o]
  PROVE  LeaseInv' /\ InFlightExact'
<1>1. LeaseInv'
  BY DEF IInv, LeaseInv, Outstanding
<1>2. Outstanding' = Outstanding
  BY DEF Outstanding
<1>3. InFlightSet' = InFlightSet
  BY <1>2 DEF InFlightSet
<1>4. inFlight = Cardinality(InFlightSet)
  BY DEF IInv, InFlightExact, InFlightSet
<1> QED
  BY <1>1, <1>3, <1>4 DEF InFlightExact, InFlightSet

LEMMA LeaseStep ==
  ASSUME IInv, [Next]_vars
  PROVE  LeaseInv' /\ InFlightExact'
<1> USE DEF IInv
<1>0. /\ activeEpoch \in Nat /\ lastEpoch \in Nat \ {0} /\ inFlight \in Nat
      /\ lease \in [Ops -> Nat] /\ pc \in [Ops -> PCs]
      /\ verdict \in [Ops -> {"none", "refused", "verified"}] /\ reply \in [Ops -> Replies]
  BY DEF TypeOK
<1>1. CASE Tick
  BY <1>1, LeaseQuiet DEF Tick, epochVars, opVars
<1>2. ASSUME NEW kind \in ClockFaults, ClockFault(kind) PROVE LeaseInv' /\ InFlightExact'
  BY <1>2, LeaseQuiet DEF ClockFault, epochVars, opVars
<1>3. ASSUME NEW o \in Ops, Begin(o) PROVE LeaseInv' /\ InFlightExact'
  <2>1. CASE Open /\ SampleHealthy
    <3>1. /\ pc[o] = "idle" /\ activeEpoch # Closed
          /\ pc' = [pc EXCEPT ![o] = pc'[o]] /\ pc'[o] \in {"crypto", "closing"}
          /\ lease' = [lease EXCEPT ![o] = activeEpoch]
          /\ inFlight' = inFlight + 1
          /\ reply' = [reply EXCEPT ![o] = reply'[o]]
          /\ UNCHANGED <<activeEpoch, lastEpoch, verdict>>
      BY <1>0, <1>3, <2>1 DEF Begin, Open
    <3>2. LeaseInv'
      BY <1>0, <3>1 DEF LeaseInv, Outstanding, Closed
    <3>3. InFlightSet' = InFlightSet \cup {o} /\ o \notin InFlightSet
      BY <1>0, <3>1 DEF InFlightSet, Outstanding
    <3>4. Cardinality(InFlightSet') = Cardinality(InFlightSet) + 1
      BY <3>3, InFlightFinite, FS_AddElement
    <3> QED
      BY <3>1, <3>2, <3>4 DEF InFlightExact, InFlightSet
  <2>2. CASE ~(Open /\ SampleHealthy)
    <3>1. /\ pc[o] = "idle"
          /\ pc' = [pc EXCEPT ![o] = "done"]
          /\ verdict' = [verdict EXCEPT ![o] = "refused"]
          /\ UNCHANGED <<lease, inFlight, reply, activeEpoch, lastEpoch>>
      BY <1>3, <2>2 DEF Begin
    <3>2. LeaseInv'
      BY <1>0, <3>1 DEF LeaseInv, Outstanding
    <3>3. InFlightSet' = InFlightSet
      BY <1>0, <3>1 DEF InFlightSet, Outstanding
    <3> QED
      BY <3>1, <3>2, <3>3 DEF InFlightExact, InFlightSet
  <2> QED
    BY <2>1, <2>2
<1>4. ASSUME NEW o \in Ops, AfterCrypto(o) \/ Dispatch(o) PROVE LeaseInv' /\ InFlightExact'
  <2>1. /\ pc[o] \in {"crypto", "evaluated"}
        /\ pc' = [pc EXCEPT ![o] = pc'[o]] /\ pc'[o] \in {"evaluated", "dispatched", "closing"}
        /\ reply' = [reply EXCEPT ![o] = reply'[o]]
        /\ UNCHANGED <<epochVars, lease, verdict>>
    BY <1>0, <1>4 DEF AfterCrypto, Dispatch
  <2> QED
    BY <1>0, <2>1, LeaseQuiet DEF epochVars
<1>5. ASSUME NEW o \in Ops, SkipReplay(o) PROVE LeaseInv' /\ InFlightExact'
  BY <1>0, <1>5, LeaseQuiet DEF SkipReplay, epochVars
<1>6. ASSUME NEW o \in Ops, Settle(o) PROVE LeaseInv' /\ InFlightExact'
  BY <1>0, <1>6, LeaseQuiet DEF Settle, epochVars
<1>7. ASSUME NEW o \in Ops, Regroup(o) PROVE LeaseInv' /\ InFlightExact'
  BY <1>0, <1>7, LeaseQuiet DEF Regroup, epochVars
<1>8. ASSUME NEW o \in Ops, Complete(o) PROVE LeaseInv' /\ InFlightExact'
  <2>1. /\ pc[o] = "closing" /\ pc' = [pc EXCEPT ![o] = "done"]
        /\ verdict' = [verdict EXCEPT ![o] = verdict'[o]]
        /\ verdict'[o] \in {"verified", "refused"}
        /\ inFlight' = Finished(o)
        /\ UNCHANGED <<activeEpoch, lastEpoch, lease, reply>>
    BY <1>0, <1>8 DEF Complete
  <2>2. LeaseInv'
    BY <1>0, <2>1 DEF LeaseInv, Outstanding
  <2>3. InFlightSet' = InFlightSet \ {o}
    BY <1>0, <2>1 DEF InFlightSet, Outstanding
  <2>4. o \in InFlightSet <=> activeEpoch # Closed /\ lease[o] = activeEpoch
    BY <2>1 DEF InFlightSet, Outstanding
  <2>5. Cardinality(InFlightSet') =
          IF o \in InFlightSet THEN Cardinality(InFlightSet) - 1 ELSE Cardinality(InFlightSet)
    BY <2>3, InFlightFinite, FS_RemoveElement
  <2>6. inFlight = Cardinality(InFlightSet)
    BY DEF InFlightExact, InFlightSet
  <2>7. inFlight' = Cardinality(InFlightSet')
    BY <2>1, <2>4, <2>5, <2>6 DEF Finished
  <2> QED
    BY <2>2, <2>7 DEF InFlightExact, InFlightSet
<1>9. ASSUME NEW o \in Ops, StoreApply(o) \/ StoreFails(o) PROVE LeaseInv' /\ InFlightExact'
  <2>1. UNCHANGED <<epochVars, pc, lease, verdict>>
    BY <1>9 DEF StoreApply, StoreFails
  <2>2. \A p \in Ops : pc[p] = "idle" => reply'[p] = reply[p]
    BY <1>0, <1>9 DEF StoreApply, StoreFails, LeaseInv
  <2> QED
    BY <2>1, <2>2, LeaseQuiet DEF epochVars
<1>10. CASE RejectReset \/ EnterReset \/ AbandonReset
  BY <1>10, LeaseQuiet DEF RejectReset, EnterReset, AbandonReset, epochVars, opVars
<1>11. CASE PrepareReset \/ FailReset
  <2>1. /\ activeEpoch' = Closed /\ inFlight' = 0
        /\ UNCHANGED <<lastEpoch, pc, lease, reply, verdict>>
    BY <1>11 DEF PrepareReset, FailReset, Invalidate, opVars
  <2>2. LeaseInv'
    BY <2>1 DEF LeaseInv, Outstanding
  <2>3. InFlightSet' = {}
    BY <2>1 DEF InFlightSet
  <2> QED
    BY <2>1, <2>2, <2>3, FS_EmptySet DEF InFlightExact, InFlightSet
<1>12. CASE CommitReset
  <2>1. /\ activeEpoch' = lastEpoch + 1 /\ lastEpoch' = lastEpoch + 1 /\ activeEpoch = Closed
        /\ UNCHANGED <<inFlight, pc, lease, reply, verdict>>
    BY <1>12 DEF CommitReset, ResetInv, opVars
  <2>2. LeaseInv'
    BY <1>0, <2>1 DEF LeaseInv, Outstanding
  <2>3. InFlightSet = {} /\ InFlightSet' = {}
    BY <1>0, <2>1 DEF InFlightSet, LeaseInv, Outstanding
  <2> QED
    BY <2>1, <2>2, <2>3 DEF InFlightExact, InFlightSet
<1>13. CASE UNCHANGED vars
  BY <1>13, LeaseQuiet DEF vars, epochVars, opVars
<1> QED
  BY <1>1, <1>2, <1>3, <1>4, <1>5, <1>6, <1>7, <1>8, <1>9, <1>10, <1>11, <1>12, <1>13
  DEF Next, OpStep, ResetStep

-----------------------------------------------------------------------------
(* Resets and the clock.                                                   *)

LEMMA ResetInvStep ==
  ASSUME IInv, [Next]_vars
  PROVE  ResetInv'
<1> USE DEF IInv, ResetInv
<1>1. CASE Tick
  BY <1>1 DEF Tick, resetVars, epochVars, storeVars
<1>2. ASSUME NEW kind \in ClockFaults, ClockFault(kind) PROVE ResetInv'
  BY <1>2 DEF ClockFault, resetVars, epochVars, storeVars
<1>3. ASSUME NEW o \in Ops, Begin(o) PROVE ResetInv'
  BY <1>3 DEF Begin, resetVars, storeVars
<1>4. ASSUME NEW o \in Ops,
             AfterCrypto(o) \/ SkipReplay(o) \/ Settle(o) \/ Regroup(o) \/ Complete(o)
      PROVE ResetInv'
  BY <1>4 DEF AfterCrypto, SkipReplay, Settle, Regroup, Complete, resetVars, epochVars, storeVars
<1>5. ASSUME NEW o \in Ops, Dispatch(o) PROVE ResetInv'
  <2>1. UNCHANGED <<resetVars, epochVars>>
    BY <1>5 DEF Dispatch
  <2>2. Busy => store' = store
    BY <1>5 DEF Dispatch, Passes, Current, Open, storeVars
  <2> QED
    BY <2>1, <2>2 DEF Busy, resetVars, epochVars
<1>6. ASSUME NEW o \in Ops, StoreApply(o) \/ StoreFails(o) PROVE ResetInv'
  BY <1>6 DEF StoreApply, StoreFails, OwnedInv, resetVars, epochVars, storeVars
<1>7. CASE RejectReset \/ EnterReset
  BY <1>7 DEF RejectReset, EnterReset, epochVars, storeVars
<1>8. CASE AbandonReset
  BY <1>8 DEF AbandonReset, epochVars, storeVars
<1>9. CASE PrepareReset
  BY <1>9 DEF PrepareReset, Invalidate, CreateTracker
<1>10. CASE CommitReset \/ FailReset
  BY <1>10 DEF CommitReset, FailReset, storeVars
<1>11. CASE UNCHANGED vars
  BY <1>11 DEF vars, resetVars, epochVars, storeVars
<1> QED
  BY <1>1, <1>2, <1>3, <1>4, <1>5, <1>6, <1>7, <1>8, <1>9, <1>10, <1>11
  DEF Next, OpStep, ResetStep

\* What a sampling action leaves of the clock invariant when it does not move
\* the store's time.
LEMMA ClockKept ==
  ASSUME TypeOK, ClockInv, SampleClock \/ UNCHANGED clockVars,
         activeEpoch' = activeEpoch, store'.lastNow = store.lastNow
  PROVE  ClockInv'
<1>1. /\ tracker'.refMono <= tracker'.prevMono /\ tracker' \in Trackers
      /\ Effective(tracker, tracker.prevMono) \div TicksPerSecond
                   <= Effective(tracker', tracker'.prevMono) \div TicksPerSecond
  BY SampleLemma
<1>2. /\ Effective(tracker, tracker.prevMono) \in Int
      /\ Effective(tracker', tracker'.prevMono) \in Int
  BY <1>1 DEF TypeOK, Trackers, Effective
<1>3. /\ Effective(tracker, tracker.prevMono) \div TicksPerSecond \in Int
      /\ Effective(tracker', tracker'.prevMono) \div TicksPerSecond \in Int
      /\ store.lastNow \in Nat
  BY <1>2, SecondsMonotone DEF TypeOK, Stores
<1>4. activeEpoch' # Closed
        => store'.lastNow <= Effective(tracker', tracker'.prevMono) \div TicksPerSecond
  BY <1>1, <1>3 DEF ClockInv, HighWaterHolds
<1>5. HighWaterHolds'
  BY <1>4 DEF HighWaterHolds, Effective, Closed
<1> QED
  BY <1>1, <1>5 DEF ClockInv

LEMMA ClockStep ==
  ASSUME IInv, [Next]_vars
  PROVE  ClockInv'
<1> USE DEF IInv
<1>1. CASE Tick
  BY <1>1, ClockKept DEF Tick, epochVars, storeVars
<1>2. ASSUME NEW kind \in ClockFaults, ClockFault(kind) PROVE ClockInv'
  BY <1>2, ClockKept DEF ClockFault, epochVars, storeVars
<1>3. ASSUME NEW o \in Ops, Begin(o) PROVE ClockInv'
  <2>1. SampleClock \/ UNCHANGED clockVars
    BY <1>3 DEF Begin
  <2> QED
    BY <1>3, <2>1, ClockKept DEF Begin, storeVars
<1>4. ASSUME NEW o \in Ops, AfterCrypto(o) \/ Settle(o) \/ Regroup(o) \/ Complete(o)
      PROVE ClockInv'
  <2>1. SampleClock \/ UNCHANGED clockVars
    BY <1>4 DEF AfterCrypto, Settle, Regroup, Complete, Gate
  <2>2. activeEpoch' = activeEpoch /\ store' = store
    BY <1>4 DEF AfterCrypto, Settle, Regroup, Complete, epochVars, storeVars
  <2> QED
    BY <2>1, <2>2, ClockKept
<1>5. ASSUME NEW o \in Ops, SkipReplay(o) PROVE ClockInv'
  BY <1>5, ClockKept DEF SkipReplay, epochVars, storeVars
<1>6. ASSUME NEW o \in Ops, Dispatch(o) PROVE ClockInv'
  <2>1. (SampleClock \/ UNCHANGED clockVars) /\ activeEpoch' = activeEpoch
    BY <1>6 DEF Dispatch, Gate, epochVars
  <2>2. CASE store'.lastNow = store.lastNow
    BY <2>1, <2>2, ClockKept
  <2>3. CASE store'.lastNow # store.lastNow
    <3>1. Passes(o) /\ SampleClock /\ Declaration = "process-clock" /\ request[o].nonce # NoNonce
          /\ store' = ConsumeStore(store, Identity(request[o]), Now, Deadline(o, Now))
      BY <1>6, <2>3 DEF Dispatch, Gate, Passes, storeVars
    <3>2. Now \in Nat /\ SampleHealthy
      BY <3>1, SampleLemma DEF Passes
    <3>3. store'.lastNow = Now
      BY <2>3, <3>1, <3>2, DispatchLemma
    <3>4. /\ Now <= Effective(tracker', tracker'.prevMono) \div TicksPerSecond
          /\ tracker'.refMono <= tracker'.prevMono
      BY <3>1, <3>2, SampleLemma
    <3>5. HighWaterHolds'
      BY <3>3, <3>4 DEF HighWaterHolds, Effective
    <3> QED
      BY <3>4, <3>5 DEF ClockInv
  <2> QED
    BY <2>2, <2>3
<1>7. ASSUME NEW o \in Ops, StoreApply(o) \/ StoreFails(o) PROVE ClockInv'
  <2>1. store'.lastNow = store.lastNow
    BY <1>7 DEF StoreApply, StoreFails, TypeOK, Stores
  <2> QED
    BY <1>7, <2>1, ClockKept DEF StoreApply, StoreFails, epochVars
<1>8. CASE RejectReset \/ EnterReset \/ AbandonReset
  BY <1>8, ClockKept DEF RejectReset, EnterReset, AbandonReset, epochVars, storeVars
<1>9. CASE PrepareReset \/ FailReset
  BY <1>9 DEF PrepareReset, FailReset, Invalidate, clockVars, ClockInv, HighWaterHolds
<1>10. CASE CommitReset
  <2>1. /\ replacement \in Trackers /\ clock \in Samples
        /\ replacement.refMono <= replacement.prevMono
    BY DEF TypeOK, ResetInv, Trackers
  <2>2. tracker' = Track(replacement, clock) /\ store' = store /\ resetStep = "cleared"
    BY <1>10 DEF CommitReset, storeVars
  <2>3. tracker' \in Trackers /\ tracker'.refMono <= tracker'.prevMono
    BY <2>1, <2>2, TrackLemma DEF Trackers
  <2>4. Effective(tracker', tracker'.prevMono) \in Nat
    BY <2>3 DEF Effective, Trackers
  <2>5. Effective(tracker', tracker'.prevMono) \div TicksPerSecond \in Nat
    BY <2>4, SecondsMonotone
  <2>6. store'.lastNow = 0
    BY <2>2 DEF ResetInv, ExternalInv, EmptyStore
  <2>7. HighWaterHolds'
    BY <2>5, <2>6 DEF HighWaterHolds, Effective
  <2> QED
    BY <2>3, <2>7 DEF ClockInv
<1>11. CASE UNCHANGED vars
  BY <1>11, ClockKept DEF vars, epochVars, storeVars
<1> QED
  BY <1>1, <1>2, <1>3, <1>4, <1>5, <1>6, <1>7, <1>8, <1>9, <1>10, <1>11
  DEF Next, OpStep, ResetStep

\* Owned memory is touched by a consume and by a clear only.
LEMMA EmptyAccounts == Accounts(EmptyStore)
<1>1. Stored(EmptyStore) = {} /\ \A k \in Keys : StoredOf(EmptyStore, k) = {}
  BY DEF Stored, StoredOf, EmptyStore
<1>2. \A k \in Keys : EmptyStore.perKey[k] = 0
  BY DEF EmptyStore
<1> QED
  BY <1>1, <1>2, FS_EmptySet, MemoryReplayStoreAssumption DEF Accounts

LEMMA AccountingStep ==
  ASSUME IInv, [Next]_vars
  PROVE  StoreAccounting'
<1> USE DEF IInv
<1> SUFFICES ASSUME Declaration = "process-clock" PROVE Accounts(store')
  BY DEF StoreAccounting, Accounts, Stored, StoredOf
<1>1. CASE store' = store
  BY <1>1 DEF StoreAccounting
<1>2. CASE store' = EmptyStore
  BY <1>2, EmptyAccounts
<1>3. ASSUME NEW o \in Ops, Dispatch(o), store' # store PROVE Accounts(store')
  <2>1. SampleHealthy /\ request[o].nonce # NoNonce
        /\ store' = ConsumeStore(store, Identity(request[o]), Now, Deadline(o, Now))
    BY <1>3 DEF Dispatch, Passes, storeVars
  <2>2. Now \in Nat
    BY <2>1, SampleLemma
  <2> QED
    BY <2>1, <2>2, DispatchLemma
<1>4. \/ store' = store \/ store' = EmptyStore
      \/ \E o \in Ops : Dispatch(o)
  BY DEF Next, OpStep, ResetStep, vars, Tick, ClockFault, Begin, AfterCrypto, SkipReplay, Settle,
     Regroup, Complete, StoreApply, StoreFails, RejectReset, EnterReset, AbandonReset,
     PrepareReset, CommitReset, FailReset, storeVars, OwnedInv
<1> QED
  BY <1>1, <1>2, <1>3, <1>4

-----------------------------------------------------------------------------
(* Consumed nonces.                                                        *)

\* An action that consumes nothing and verifies nothing keeps what is known of
\* the consumed nonces, in one epoch or across the end of one.
LEMMA ConsumedQuiet ==
  ASSUME IInv,
         UNCHANGED <<inbox, request, sentAt, verifiedAt>>,
         \A o \in Ops : reply'[o] = reply[o] \/ reply'[o] \notin {"accepted", "pending"},
         \A o \in Ops : Consumed(o) => lease'[o] = lease[o],
         \A o \in Ops : Consumed(o)' /\ verdict'[o] = "verified" => verdict[o] = "verified",
         \/ activeEpoch' = activeEpoch /\ store' = store
         \/ Declaration = "process-clock" /\ \A o \in Ops : lease[o] # 0 => activeEpoch' # lease[o]
         \/ store' = store
            /\ \A o \in Ops : lease[o] # 0 => activeEpoch' # lease[o],
         Declaration # "process-clock" =>
           /\ \A o \in Ops : pc'[o] = "evaluated" => reply'[o] # "accepted"
           /\ \A o \in inbox : pc'[o] \in {"dispatched", "returned", "closing", "done"}
  PROVE  OwnedInv' /\ ExternalInv'
<1>1. OwnedInv'
  BY DEF IInv, OwnedInv, Consumed, SameNonce
<1>2. ExternalInv'
  BY DEF IInv, ExternalInv, Consumed, SameNonce
<1> QED
  BY <1>1, <1>2

\* The heart of the argument: a consume that is accepted finds every earlier
\* signature with its nonce past the end of its window.
LEMMA DispatchOwned ==
  ASSUME IInv, NEW o \in Ops, Dispatch(o), Declaration = "process-clock", pc'[o] = "dispatched"
  PROVE  OwnedInv'
<1> DEFINE id == Identity(request[o])
<1>1. /\ pc[o] = "evaluated" /\ request[o].nonce # NoNonce
      /\ Current(o) /\ SampleHealthy
      /\ store' = ConsumeStore(store, id, Now, Deadline(o, Now))
      /\ reply' = [reply EXCEPT ![o] = ConsumeOutcome(store, id, Now, Deadline(o, Now))]
      /\ sentAt' = [sentAt EXCEPT ![o] = Now]
      /\ UNCHANGED <<inbox, activeEpoch, request, lease, verdict, verifiedAt>>
  BY DEF Dispatch, Passes, epochVars, IInv, TypeOK
<1>2. /\ TypeOK /\ StoreAccounting /\ OwnedInv /\ LeaseInv /\ ClockInv
      /\ activeEpoch # Closed /\ lease[o] = activeEpoch /\ lease[o] # 0
      /\ reply \in [Ops -> Replies] /\ sentAt \in [Ops -> Nat] /\ lease \in [Ops -> Nat]
      /\ store \in Stores
  BY <1>1 DEF IInv, TypeOK, Current, Open, Closed
<1>3. Now \in Nat /\ store.lastNow <= Now
  BY <1>1, <1>2, SampleLemma
<1>4. /\ reply'[o] \in {"unavailable", "replayed", "per-key-quota-exceeded", "accepted"}
      /\ store' \in Stores
      /\ \A i \in Identities : \/ store'.retain[i] = store.retain[i]
                               \/ store.retain[i] <= store'.lastNow /\ store'.lastNow = Now
      /\ store'.lastNow >= store.lastNow
      /\ reply'[o] = "accepted" => /\ store'.lastNow = Now
                                   /\ store'.retain[id] = Deadline(o, Now)
                                   /\ store.retain[id] <= Now
  BY <1>1, <1>2, <1>3, DispatchLemma
<1>5. sentAt'[o] = Now /\ \A p \in Ops : p # o => sentAt'[p] = sentAt[p] /\ reply'[p] = reply[p]
  BY <1>1, <1>2
<1>6. verdict[o] # "verified"
  BY <1>1, <1>2 DEF LeaseInv, Outstanding
<1>7. /\ \A p \in Ops : End(request[p]) \in Nat
      /\ \A p \in Ops : request[p].nonce # NoNonce => Identity(request[p]) \in Identities
      /\ End(request[o]) <= Deadline(o, Now) /\ Deadline(o, Now) \in Nat
  BY <1>2, <1>3, RequestLemma
<1>8. ASSUME NEW p \in Ops, Consumed(p), lease[p] = activeEpoch
      PROVE  /\ sentAt[p] <= store'.lastNow
             /\ \/ store'.retain[Identity(request[p])] >= End(request[p])
                \/ store'.lastNow >= End(request[p])
  <2>1. /\ Identity(request[p]) \in Identities
        /\ sentAt[p] <= store.lastNow
        /\ \/ store.retain[Identity(request[p])] >= End(request[p])
           \/ store.lastNow >= End(request[p])
    BY <1>2, <1>7, <1>8 DEF OwnedInv
  <2>2. /\ sentAt[p] \in Nat /\ store.lastNow \in Nat /\ store'.lastNow \in Nat
        /\ store.retain[Identity(request[p])] \in Nat
    BY <1>2, <1>4, <2>1 DEF Stores
  <2> QED
    BY <1>4, <1>7, <2>1, <2>2
<1>9. ASSUME NEW p \in Ops, Consumed(p), lease[p] = activeEpoch, reply'[o] = "accepted",
             SameNonce(o, p)
      PROVE  Now >= End(request[p])
  <2>1. /\ Identity(request[p]) = id /\ id \in Identities
        /\ \/ store.retain[id] >= End(request[p])
           \/ store.lastNow >= End(request[p])
    BY <1>1, <1>2, <1>7, <1>9 DEF OwnedInv, SameNonce
  <2>2. store.retain[id] \in Nat /\ store.lastNow \in Nat
    BY <1>2, <2>1 DEF Stores
  <2> QED
    BY <1>3, <1>4, <1>7, <1>9, <2>1, <2>2
<1>10. ASSUME NEW p \in Ops, Consumed(p)'
       PROVE  /\ lease[p] # 0 /\ request[p].nonce # NoNonce
              /\ lease[p] = activeEpoch =>
                   /\ sentAt'[p] <= store'.lastNow
                   /\ \/ store'.retain[Identity(request[p])] >= End(request[p])
                      \/ store'.lastNow >= End(request[p])
              /\ verdict[p] = "verified" => sentAt'[p] <= verifiedAt[p]
  <2>1. CASE p = o
    BY <1>1, <1>2, <1>3, <1>4, <1>5, <1>6, <1>7, <1>10, <2>1 DEF Consumed
  <2>2. CASE p # o
    BY <1>2, <1>5, <1>8, <1>10, <2>2 DEF Consumed, OwnedInv
  <2> QED
    BY <2>1, <2>2
<1>11. ASSUME NEW p \in Ops, NEW q \in Ops, p # q, Consumed(p)', Consumed(q)',
              SameNonce(p, q), lease[p] = lease[q]
       PROVE  sentAt'[p] >= End(request[q]) \/ sentAt'[q] >= End(request[p])
  <2>1. CASE p = o
    BY <1>2, <1>5, <1>9, <1>11, <2>1 DEF Consumed
  <2>2. CASE q = o
    <3>1. SameNonce(q, p)
      BY <1>11 DEF SameNonce
    <3> QED
      BY <1>2, <1>5, <1>9, <1>11, <2>2, <3>1 DEF Consumed
  <2>3. CASE p # o /\ q # o
    BY <1>2, <1>5, <1>11, <2>3 DEF Consumed, OwnedInv
  <2> QED
    BY <2>1, <2>2, <2>3
<1>12. inbox' = {} /\ \A p \in Ops : reply'[p] # "pending"
  BY <1>1, <1>2, <1>4, <1>5 DEF OwnedInv
<1> QED
  BY <1>1, <1>10, <1>11, <1>12 DEF OwnedInv, Consumed, SameNonce

LEMMA ConsumedStep ==
  ASSUME IInv, [Next]_vars
  PROVE  OwnedInv' /\ ExternalInv'
<1>0. /\ TypeOK /\ LeaseInv /\ ResetInv /\ ClockInv /\ OwnedInv /\ ExternalInv
      /\ reply \in [Ops -> Replies] /\ pc \in [Ops -> PCs] /\ lease \in [Ops -> Nat]
      /\ verdict \in [Ops -> {"none", "refused", "verified"}] /\ inbox \subseteq Ops
      /\ store \in Stores /\ sentAt \in [Ops -> Nat] /\ verifiedAt \in [Ops -> Nat]
  BY DEF IInv, TypeOK
<1>1. CASE Tick \/ RejectReset \/ EnterReset \/ AbandonReset \/ UNCHANGED vars
  <2>1. UNCHANGED <<opVars, storeVars, activeEpoch>>
    BY <1>1 DEF Tick, RejectReset, EnterReset, AbandonReset, vars, epochVars
  <2> QED
    BY <1>0, <2>1, ConsumedQuiet DEF opVars, storeVars, ExternalInv, Consumed
<1>2. ASSUME NEW kind \in ClockFaults, ClockFault(kind) PROVE OwnedInv' /\ ExternalInv'
  <2>1. UNCHANGED <<opVars, storeVars, activeEpoch>>
    BY <1>2 DEF ClockFault, epochVars
  <2> QED
    BY <1>0, <2>1, ConsumedQuiet DEF opVars, storeVars, ExternalInv, Consumed
<1>3. ASSUME NEW o \in Ops, Begin(o) PROVE OwnedInv' /\ ExternalInv'
  <2>1. /\ pc[o] = "idle" /\ pc' = [pc EXCEPT ![o] = pc'[o]]
        /\ pc'[o] \in {"crypto", "closing", "done"}
        /\ reply' = [reply EXCEPT ![o] = reply'[o]]
        /\ reply'[o] \in {"none", "rejected", reply[o]}
        /\ lease' = [lease EXCEPT ![o] = lease'[o]]
        /\ verdict' = [verdict EXCEPT ![o] = verdict'[o]] /\ verdict'[o] \in {"refused", verdict[o]}
        /\ UNCHANGED <<storeVars, request, sentAt, verifiedAt, activeEpoch>>
    BY <1>0, <1>3 DEF Begin
  <2>2. ~Consumed(o) /\ verdict[o] = "none"
    BY <1>0, <2>1 DEF LeaseInv, Consumed
  <2> QED
    BY <1>0, <2>1, <2>2, ConsumedQuiet DEF storeVars, ExternalInv, Consumed
<1>4. ASSUME NEW o \in Ops, AfterCrypto(o) \/ SkipReplay(o) PROVE OwnedInv' /\ ExternalInv'
  <2>1. /\ pc[o] \in {"crypto", "evaluated"} /\ pc' = [pc EXCEPT ![o] = pc'[o]]
        /\ reply' = [reply EXCEPT ![o] = reply'[o]]
        /\ reply'[o] \in {"none", "rejected", "optional"}
        /\ UNCHANGED <<storeVars, request, sentAt, verifiedAt, activeEpoch, lease, verdict>>
    BY <1>0, <1>4 DEF AfterCrypto, SkipReplay, epochVars
  <2> QED
    BY <1>0, <2>1, ConsumedQuiet DEF storeVars, ExternalInv, Consumed
<1>5. ASSUME NEW o \in Ops, Settle(o) \/ Regroup(o) PROVE OwnedInv' /\ ExternalInv'
  <2>1. /\ pc' = [pc EXCEPT ![o] = pc'[o]] /\ pc'[o] \in {"returned", "closing"}
        /\ reply' = [reply EXCEPT ![o] = reply'[o]]
        /\ reply'[o] \in {reply[o], "rejected"}
        /\ UNCHANGED <<storeVars, request, sentAt, verifiedAt, activeEpoch, lease, verdict>>
    BY <1>0, <1>5 DEF Settle, Regroup, epochVars
  <2> QED
    BY <1>0, <2>1, ConsumedQuiet DEF storeVars, ExternalInv, Consumed
<1>6. ASSUME NEW o \in Ops, Dispatch(o) PROVE OwnedInv' /\ ExternalInv'
  <2>0. /\ pc[o] = "evaluated" /\ pc' = [pc EXCEPT ![o] = pc'[o]]
        /\ pc'[o] \in {"dispatched", "closing"}
        /\ UNCHANGED <<request, verifiedAt, activeEpoch, lease, verdict>>
    BY <1>0, <1>6 DEF Dispatch, epochVars
  <2>1. CASE pc'[o] = "closing"
    <3>1. reply' = [reply EXCEPT ![o] = "rejected"] /\ UNCHANGED <<sentAt, storeVars>>
      BY <1>0, <1>6, <2>1 DEF Dispatch
    <3> QED
      BY <1>0, <2>0, <2>1, <3>1, ConsumedQuiet DEF storeVars, ExternalInv, Consumed
  <2>2. CASE pc'[o] = "dispatched" /\ Declaration = "process-clock"
    BY <1>6, <2>2, DispatchOwned DEF ExternalInv
  <2>3. CASE pc'[o] = "dispatched" /\ Declaration # "process-clock"
    <3>1. /\ request[o].nonce # NoNonce
          /\ reply' = [reply EXCEPT ![o] = "pending"]
          /\ inbox' = inbox \cup {o} /\ store' = store
      BY <1>0, <1>6, <2>3 DEF Dispatch
    <3>2. ExternalInv'
      BY <1>0, <2>0, <2>3, <3>1 DEF ExternalInv, Consumed, SameNonce
    <3> QED
      BY <2>3, <3>2 DEF OwnedInv
  <2> QED
    BY <2>0, <2>1, <2>2, <2>3
<1>7. ASSUME NEW o \in Ops, Complete(o) PROVE OwnedInv' /\ ExternalInv'
  <2>0. /\ pc[o] = "closing" /\ pc' = [pc EXCEPT ![o] = "done"]
        /\ verdict' = [verdict EXCEPT ![o] = verdict'[o]]
        /\ verdict'[o] \in {"verified", "refused"}
        /\ UNCHANGED <<storeVars, request, sentAt, reply, activeEpoch, lease>>
    BY <1>0, <1>7 DEF Complete
  <2>1. CASE verdict'[o] = "refused"
    <3>1. verifiedAt' = verifiedAt
      BY <1>0, <1>7, <2>1 DEF Complete
    <3> QED
      BY <1>0, <2>0, <2>1, <3>1, ConsumedQuiet DEF storeVars, ExternalInv, Consumed
  <2>2. CASE verdict'[o] = "verified"
    <3>1. /\ Passes(o) /\ verifiedAt' = [verifiedAt EXCEPT ![o] = Now]
      BY <1>0, <1>7, <2>2 DEF Complete
    <3>2. lease[o] = activeEpoch /\ activeEpoch # Closed /\ SampleHealthy
      BY <3>1 DEF Passes, Current, Open
    <3>3. Now \in Nat /\ store.lastNow <= Now
      BY <1>0, <3>2, SampleLemma
    <3>4. Declaration = "process-clock" /\ Consumed(o) => sentAt[o] <= Now
      <4>1. Declaration = "process-clock" /\ Consumed(o) => sentAt[o] <= store.lastNow
        BY <1>0, <3>2 DEF OwnedInv
      <4>2. sentAt[o] \in Nat /\ store.lastNow \in Nat
        BY <1>0 DEF Stores
      <4> QED
        BY <3>3, <4>1, <4>2
    <3>5. OwnedInv'
      BY <1>0, <2>0, <2>2, <3>1, <3>4 DEF OwnedInv, Consumed, SameNonce, storeVars
    <3>6. ExternalInv'
      BY <1>0, <2>0 DEF ExternalInv, Consumed, SameNonce, storeVars
    <3> QED
      BY <3>5, <3>6
  <2> QED
    BY <2>0, <2>1, <2>2
<1>8. ASSUME NEW o \in Ops, StoreApply(o) PROVE OwnedInv' /\ ExternalInv'
  <2> DEFINE id == Identity(request[o])
             new == store.retain[id] = 0
  <2>1. /\ o \in inbox /\ inbox' = inbox \ {o} /\ Declaration # "process-clock"
        /\ request[o].nonce # NoNonce
        /\ pc[o] \in {"dispatched", "returned", "closing", "done"}
        /\ UNCHANGED <<activeEpoch, pc, request, lease, sentAt, verdict, verifiedAt>>
    BY <1>0, <1>8 DEF StoreApply, OwnedInv, ExternalInv, epochVars
  <2>2. /\ id \in Identities /\ Deadline(o, sentAt[o]) \in Nat \ {0}
        /\ \A p \in Ops : request[p].nonce # NoNonce => Identity(request[p]) \in Identities
    BY <1>0, <2>1, RequestLemma
  <2>3. store' = IF new THEN [store EXCEPT !.retain[id] = Deadline(o, sentAt[o])] ELSE store
    BY <1>8 DEF StoreApply
  <2>4. /\ store'.lastNow = store.lastNow /\ store'.retain[id] # 0
        /\ \A i \in Identities : store.retain[i] # 0 => store'.retain[i] # 0
    BY <1>0, <2>2, <2>3 DEF Stores
  <2>5. /\ \A p \in Ops : p # o => reply'[p] = reply[p]
        /\ reply'[o] = "accepted" => new \/ reply[o] = "accepted"
    BY <1>0, <1>8 DEF StoreApply
  <2>6. ~Consumed(o)
    BY <1>0, <2>1 DEF ExternalInv
  <2>7. \A p \in Ops : Consumed(p) /\ new => Identity(request[p]) # id
    BY <1>0, <2>1 DEF ExternalInv
  <2>8. \A p \in Ops : Consumed(p)' =>
          /\ request[p].nonce # NoNonce /\ p \notin inbox' /\ pc[p] # "evaluated"
          /\ store'.retain[Identity(request[p])] # 0
    BY <1>0, <2>1, <2>2, <2>4, <2>5 DEF ExternalInv, Consumed
  <2>9. ASSUME NEW p \in Ops, NEW q \in Ops, p # q, Consumed(p)', Consumed(q)'
        PROVE  ~SameNonce(p, q)
    BY <1>0, <2>1, <2>5, <2>6, <2>7, <2>9 DEF ExternalInv, Consumed, SameNonce
  <2>10. ExternalInv'
    BY <1>0, <2>1, <2>4, <2>8, <2>9 DEF ExternalInv, Consumed, SameNonce
  <2> QED
    BY <2>1, <2>10 DEF OwnedInv
<1>9. ASSUME NEW o \in Ops, StoreFails(o) PROVE OwnedInv' /\ ExternalInv'
  <2>1. /\ Declaration # "process-clock" /\ inbox' \subseteq inbox
        /\ reply' = [reply EXCEPT ![o] = "unavailable"]
        /\ UNCHANGED <<store, pc, request>>
    BY <1>0, <1>9 DEF StoreFails, OwnedInv
  <2>2. ExternalInv'
    BY <1>0, <2>1 DEF ExternalInv, Consumed, SameNonce
  <2> QED
    BY <2>1, <2>2 DEF OwnedInv
<1>10. CASE PrepareReset \/ FailReset \/ CommitReset
  <2>1. UNCHANGED <<opVars, inbox>> /\ (Declaration = "process-clock" \/ store' = store)
    BY <1>10 DEF PrepareReset, FailReset, CommitReset, storeVars
  <2>2. activeEpoch' = Closed \/ activeEpoch' = lastEpoch + 1
    BY <1>10 DEF PrepareReset, FailReset, CommitReset, Invalidate
  <2>3. \A o \in Ops : lease[o] # 0 => activeEpoch' # lease[o]
    <3>1. lastEpoch \in Nat /\ \A o \in Ops : lease[o] <= lastEpoch
      BY <1>0 DEF TypeOK, LeaseInv
    <3> QED
      BY <1>0, <2>2, <3>1 DEF Closed
  <2> QED
    BY <1>0, <2>1, <2>3, ConsumedQuiet DEF opVars, ExternalInv, Consumed
<1> QED
  BY <1>1, <1>2, <1>3, <1>4, <1>5, <1>6, <1>7, <1>8, <1>9, <1>10 DEF Next, OpStep, ResetStep

-----------------------------------------------------------------------------
(* The theorems.                                                           *)

LEMMA InitInv == Init => IInv
<1> SUFFICES ASSUME Init PROVE IInv
  OBVIOUS
<1>1. TypeOK
  BY InitType
<1>2. LeaseInv
  BY DEF Init, LeaseInv, Outstanding
<1>3. InFlightExact
  <2>1. {o \in Outstanding : activeEpoch # Closed /\ lease[o] = activeEpoch} = {}
    BY DEF Init, Outstanding
  <2> QED
    BY <2>1, FS_EmptySet DEF Init, InFlightExact
<1>4. ResetInv
  BY DEF Init, ResetInv, CreateTracker
<1>5. ClockInv
  <2>1. tracker \in Trackers /\ tracker.refMono = tracker.prevMono
    BY <1>1 DEF Init, TypeOK, CreateTracker
  <2>2. Effective(tracker, tracker.prevMono) \in Nat /\ tracker.refMono <= tracker.prevMono
    BY <2>1 DEF Effective, Trackers
  <2>3. Effective(tracker, tracker.prevMono) \div TicksPerSecond \in Nat
    BY <2>2, SecondsMonotone
  <2>4. store.lastNow = 0
    BY DEF Init, EmptyStore
  <2> QED
    BY <2>2, <2>3, <2>4 DEF ClockInv, HighWaterHolds
<1>6. StoreAccounting
  BY EmptyAccounts DEF Init, StoreAccounting
<1>7. OwnedInv /\ ExternalInv
  BY DEF Init, OwnedInv, ExternalInv, Consumed, EmptyStore
<1> QED
  BY <1>1, <1>2, <1>3, <1>4, <1>5, <1>6, <1>7 DEF IInv

LEMMA StepInv == IInv /\ [Next]_vars => IInv'
  BY TypeStep, LeaseStep, ResetInvStep, ClockStep, AccountingStep, ConsumedStep DEF IInv

\* The inductive invariant holds throughout.
LEMMA Invariance == Spec => []IInv
  BY InitInv, StepInv, PTL DEF Spec

\* No handler leaves the context malformed: inFlight counts the unfinished
\* operations of the open epoch and never falls below zero, and the observer
\* knows the health the context works with, for any number of operations and
\* resets.
THEOREM ConsistencyCorrect == Spec => []ContextConsistent
<1>1. IInv => TypeOK /\ InFlightExact
  BY DEF IInv
<1>2. Init => ObserverInformed
  BY DEF Init, ObserverInformed
<1>3. ObserverInformed /\ [Next]_vars => ObserverInformed'
  <2> SUFFICES ASSUME ObserverInformed, [Next]_vars
               PROVE  ObserverInformed'
    OBVIOUS
  <2>1. UNCHANGED clockVars \/ \E health : Report(health)
    <3>1. \A o \in Ops : Gate(o) => UNCHANGED clockVars \/ Report(SampleHealthy)
      BY DEF Gate, SampleClock
    <3> QED
      BY <3>1, ZenonT(60)
      DEF Next, OpStep, ResetStep, vars, clockVars, Tick, ClockFault, Begin, AfterCrypto,
          SkipReplay, Dispatch, Settle, Regroup, Complete, StoreApply, StoreFails, RejectReset,
          EnterReset, AbandonReset, PrepareReset, CommitReset, FailReset, SampleClock
  <2>2. CASE UNCHANGED clockVars
    BY <2>2 DEF clockVars, ObserverInformed
  <2>3. CASE \E health : Report(health)
    BY <2>3 DEF Report, ObserverInformed
  <2> QED
    BY <2>1, <2>2, <2>3
<1>4. Spec => []ObserverInformed
  BY <1>2, <1>3, PTL DEF Spec
<1>5. TypeOK /\ InFlightExact /\ ObserverInformed => ContextConsistent
  BY DEF ContextConsistent
<1> QED
  BY <1>1, <1>4, <1>5, Invariance, PTL

\* The high-water check of the owned memory store never refuses a consume of an
\* open context, since sampled time is monotone within an epoch, and its
\* counters, its lazy expiry bound and its limits agree with its entries.
THEOREM StoreCorrect == Spec => []StoreSound
<1>1. IInv => StoreSound
  BY DEF IInv, ClockInv, StoreSound
<1> QED
  BY <1>1, Invariance, PTL

\* No nonce is verified twice in windows that meet (consume, evaluateCandidate,
\* consumeCandidateGroups, resetClockReference together), whatever the clocks
\* and the resets do.
THEOREM ReplayCorrect == Spec => []ReplayProtected
<1>1. IInv => ReplayProtected
  <2> SUFFICES ASSUME IInv, NEW o \in Ops, NEW p \in Ops, o # p,
                      Protected(o), Protected(p), SameNonce(o, p),
                      Declaration = "process-clock" => lease[o] = lease[p]
               PROVE  /\ Declaration = "process-clock"
                      /\ \/ verifiedAt[o] >= End(request[p])
                         \/ verifiedAt[p] >= End(request[o])
    BY DEF ReplayProtected
  <2>1. Consumed(o) /\ Consumed(p) /\ verdict[o] = "verified" /\ verdict[p] = "verified"
    BY DEF Protected, Consumed
  <2>2. Declaration = "process-clock"
    BY <2>1 DEF IInv, ExternalInv
  <2>3. /\ sentAt[o] >= End(request[p]) \/ sentAt[p] >= End(request[o])
        /\ sentAt[o] <= verifiedAt[o] /\ sentAt[p] <= verifiedAt[p]
    BY <2>1, <2>2 DEF IInv, OwnedInv
  <2>4. /\ End(request[o]) \in Nat /\ End(request[p]) \in Nat
        /\ sentAt[o] \in Nat /\ sentAt[p] \in Nat
        /\ verifiedAt[o] \in Nat /\ verifiedAt[p] \in Nat
    BY RequestLemma DEF IInv, TypeOK
  <2> QED
    BY <2>2, <2>3, <2>4
<1> QED
  BY <1>1, Invariance, PTL

-----------------------------------------------------------------------------
(* What no step does.                                                      *)

\* Only an activation ends a clock regression: the tracker's flag is sticky
\* through every sample, and only CommitReset replaces the tracker.
LEMMA RegressionCorrect == Spec => RegressionSticks
<1>1. ASSUME IInv, [Next]_vars, tracker.regressed, ~tracker'.regressed
      PROVE  activeEpoch' = lastEpoch + 1
  <2>1. tracker' = tracker \/ tracker' = Tracked \/ CommitReset
    <3>1. \A o \in Ops : Gate(o) => tracker' = tracker \/ tracker' = Tracked
      BY DEF Gate, SampleClock, clockVars
    <3> QED
      BY <1>1, <3>1
      DEF Next, OpStep, ResetStep, vars, clockVars, Tick, ClockFault, Begin, AfterCrypto,
          SkipReplay, Dispatch, Settle, Regroup, Complete, StoreApply, StoreFails, RejectReset,
          EnterReset, AbandonReset, PrepareReset, FailReset, SampleClock
  <2>2. Tracked.regressed
    BY <1>1, TrackLemma DEF IInv, TypeOK, ClockInv, Tracked
  <2> QED
    BY <1>1, <2>1, <2>2 DEF CommitReset
<1> QED
  BY <1>1, Invariance, PTL DEF Spec, RegressionSticks

\* A new epoch has a number that no lease carries, and owned memory is empty
\* when it opens.
LEMMA FreshEpochCorrect == Spec => FreshEpochStartsClean
<1>1. ASSUME IInv, [Next]_vars, activeEpoch' # activeEpoch, activeEpoch' # Closed
      PROVE  /\ \A o \in Ops : lease[o] < activeEpoch'
             /\ Declaration = "process-clock" => store' = EmptyStore
  <2>1. CommitReset
    BY <1>1
    DEF Next, OpStep, ResetStep, vars, epochVars, Tick, ClockFault, Begin, AfterCrypto,
        SkipReplay, Dispatch, Settle, Regroup, Complete, StoreApply, StoreFails, RejectReset,
        EnterReset, AbandonReset, PrepareReset, FailReset, Invalidate
  <2>2. resetStep = "cleared" /\ activeEpoch' = lastEpoch + 1 /\ store' = store
    BY <2>1 DEF CommitReset, storeVars
  <2>3. lastEpoch \in Nat /\ \A o \in Ops : lease[o] \in Nat /\ lease[o] <= lastEpoch
    BY <1>1 DEF IInv, TypeOK, LeaseInv
  <2> QED
    BY <1>1, <2>2, <2>3 DEF IInv, ResetInv
<1> QED
  BY <1>1, Invariance, PTL DEF Spec, FreshEpochStartsClean

\* A reset activates only a clock that kept its pace while the store was cleared,
\* with the reference it took before.
LEMMA SteadyCorrect == Spec => SteadyWhenOpened
<1> DEFINE wallElapsed == clock.wall - replacement.refWall
           monoElapsed == clock.mono - replacement.refMono
<1>1. ASSUME IInv, [Next]_vars, activeEpoch' # activeEpoch, activeEpoch' # Closed
      PROVE  /\ clock.wallOk /\ clock.monoOk /\ monoElapsed >= 0
             /\ wallElapsed - monoElapsed \in -MaxDrift .. MaxDrift
             /\ tracker'.refWall = replacement.refWall
             /\ tracker'.refMono = replacement.refMono
  <2> DEFINE observed == Track(replacement, clock)
  <2>1. CommitReset
    BY <1>1
    DEF Next, OpStep, ResetStep, vars, epochVars, Tick, ClockFault, Begin, AfterCrypto,
        SkipReplay, Dispatch, Settle, Regroup, Complete, StoreApply, StoreFails, RejectReset,
        EnterReset, AbandonReset, PrepareReset, FailReset, Invalidate
  <2>2. Healthy(observed, clock) /\ tracker' = observed
    BY <2>1 DEF CommitReset
  <2>3. replacement \in Trackers /\ clock \in Samples /\ replacement.refMono <= replacement.prevMono
    BY <1>1 DEF IInv, TypeOK, ResetInv, Trackers
  <2>4. observed.refMono = replacement.refMono /\ observed.refWall = replacement.refWall
    BY <2>3, TrackLemma
  <2> HIDE DEF observed
  <2>5. /\ clock.wallOk /\ clock.monoOk /\ clock.mono >= replacement.refMono
        /\ clock.wall - (replacement.refWall + (clock.mono - replacement.refMono))
             \in -MaxDrift .. MaxDrift
    BY <2>2, <2>4 DEF Healthy, Effective
  <2>6. /\ clock.mono \in Int /\ clock.wall \in Nat
        /\ replacement.refMono \in Int /\ replacement.refWall \in Nat
    BY <2>3 DEF Samples, Trackers
  <2> QED
    BY <2>2, <2>4, <2>5, <2>6
<1> QED
  BY <1>1, Invariance, PTL DEF Spec, SteadyWhenOpened

\* A reset is the only way out of a regression; the epoch it opens runs on a clock
\* that stayed steady, and inherits neither a lease nor an entry of owned memory.
THEOREM EpochsCorrect == Spec => EpochsOpenClean
<1>1. FreshEpochStartsClean /\ SteadyWhenOpened /\ RegressionSticks => EpochsOpenClean
  BY DEF EpochsOpenClean
<1> QED
  BY <1>1, FreshEpochCorrect, SteadyCorrect, RegressionCorrect

-----------------------------------------------------------------------------
(* Refinement of ReplayAdmission, and action properties.                     *)

Reached == Effective(tracker, tracker.prevMono) \div TicksPerSecond

ReplyInv ==
  \A o \in Ops : verdict[o] = "verified" => reply[o] \in {"accepted", "optional"}

SentInv ==
  \A o \in Ops :
    /\ pc[o] = "idle" => sentAt[o] = 0
    /\ activeEpoch # Closed /\ lease[o] = activeEpoch => sentAt[o] <= Reached

AInv == IInv /\ ReplyInv /\ SentInv

\* What every step leaves of the verdicts: only Complete hands one out, and
\* the reply of a verified operation stands.
LEMMA VerdictStep ==
  ASSUME IInv, ReplyInv, [Next]_vars, NEW o \in Ops, verdict'[o] = "verified"
  PROVE  /\ request' = request
         /\ reply'[o] = reply[o]
         /\ verdict[o] = "verified" \/ Complete(o)
<1>0. /\ reply \in [Ops -> Replies] /\ pc \in [Ops -> PCs]
      /\ verdict \in [Ops -> {"none", "refused", "verified"}]
      /\ verdict[o] = "verified" => pc[o] = "done"
      /\ pc[o] = "idle" => verdict[o] = "none"
  BY DEF IInv, TypeOK, LeaseInv, Outstanding
<1>1. CASE \/ Tick \/ \E kind \in ClockFaults : ClockFault(kind)
           \/ RejectReset \/ EnterReset \/ ResetStep \/ UNCHANGED vars
  BY <1>1 DEF Tick, ClockFault, RejectReset, EnterReset, ResetStep, AbandonReset, PrepareReset,
              CommitReset, FailReset, vars, opVars
<1>2. ASSUME NEW p \in Ops, Begin(p) \/ AfterCrypto(p) \/ SkipReplay(p) \/ Dispatch(p)
                            \/ Settle(p) \/ Regroup(p) \/ StoreFails(p)
      PROVE  request' = request /\ reply'[o] = reply[o] /\ verdict[o] = "verified"
  <2>1. /\ pc[p] \notin {"done"} /\ request' = request
        /\ \A q \in Ops : q # p => reply'[q] = reply[q] /\ verdict'[q] = verdict[q]
        /\ verdict'[p] \in {verdict[p], "refused"}
    BY <1>0, <1>2 DEF Begin, AfterCrypto, SkipReplay, Dispatch, Settle, Regroup, StoreFails,
                      IInv, TypeOK
  <2> QED
    BY <1>0, <2>1
<1>3. ASSUME NEW p \in Ops, StoreApply(p)
      PROVE  request' = request /\ reply'[o] = reply[o] /\ verdict[o] = "verified"
  <2>1. /\ request' = request /\ verdict' = verdict
        /\ reply'[o] = reply[o] \/ (o = p /\ reply[o] = "pending")
    BY <1>0, <1>3 DEF StoreApply
  <2> QED
    BY <2>1 DEF ReplyInv
<1>4. ASSUME NEW p \in Ops, Complete(p)
      PROVE  request' = request /\ reply'[o] = reply[o]
             /\ (verdict[o] = "verified" \/ Complete(o))
  BY <1>0, <1>4 DEF Complete
<1> QED
  BY <1>1, <1>2, <1>3, <1>4 DEF Next, OpStep

LEMMA ReplyStep ==
  ASSUME IInv, ReplyInv, [Next]_vars
  PROVE  ReplyInv'
<1> SUFFICES ASSUME NEW o \in Ops, verdict'[o] = "verified"
             PROVE  reply'[o] \in {"accepted", "optional"}
  BY DEF ReplyInv
<1>1. reply'[o] = reply[o] /\ (verdict[o] = "verified" \/ Complete(o))
  BY VerdictStep
<1>2. CASE Complete(o)
  BY <1>1, <1>2 DEF Complete, IInv, TypeOK
<1> QED
  BY <1>1, <1>2 DEF ReplyInv

\* Time and leases, seen from one operation.
LEMMA SentStep ==
  ASSUME IInv, SentInv, [Next]_vars
  PROVE  SentInv'
<1>0. /\ TypeOK /\ ClockInv /\ LeaseInv
      /\ pc \in [Ops -> PCs] /\ sentAt \in [Ops -> Nat] /\ lease \in [Ops -> Nat]
      /\ activeEpoch \in Nat /\ lastEpoch \in Nat
  BY DEF IInv, TypeOK
<1>1. CASE CommitReset
  <2>1. activeEpoch' = lastEpoch + 1 /\ UNCHANGED <<pc, sentAt, lease>>
    BY <1>1 DEF CommitReset, opVars
  <2> QED
    BY <1>0, <2>1 DEF SentInv, LeaseInv
<1>2. CASE ~CommitReset
  <2>1. Reached <= Reached' /\ Reached \in Nat /\ Reached' \in Nat
    <3>1. tracker' = tracker \/ SampleClock
      BY <1>2
      DEF Next, OpStep, ResetStep, vars, clockVars, Tick, ClockFault, Begin, AfterCrypto,
          SkipReplay, Dispatch, Settle, Regroup, Complete, Gate, StoreApply, StoreFails,
          RejectReset, EnterReset, AbandonReset, PrepareReset, FailReset
    <3>2. /\ tracker \in Trackers /\ tracker.refMono <= tracker.prevMono
          /\ tracker' \in Trackers /\ tracker'.refMono <= tracker'.prevMono
      BY <1>0, <3>1, SampleLemma DEF TypeOK, ClockInv
    <3>3. Reached \in Nat /\ Reached' \in Nat
      <4>1. /\ Effective(tracker, tracker.prevMono) \in Nat
            /\ Effective(tracker', tracker'.prevMono) \in Nat
        BY <3>2 DEF Effective, Trackers
      <4> QED
        BY <4>1, SecondsMonotone DEF Reached, Effective
    <3>4. tracker' = tracker => Reached' = Reached
      BY DEF Reached, Effective
    <3>5. SampleClock => Reached <= Reached'
      <4>1. SampleClock => Effective(tracker, tracker.prevMono) \div TicksPerSecond
                   <= Effective(tracker', tracker'.prevMono) \div TicksPerSecond
        BY <1>0, SampleLemma
      <4> QED
        BY <4>1 DEF Reached, Effective
    <3> QED
      BY <3>1, <3>3, <3>4, <3>5
  <2>2. CASE \E o \in Ops : Dispatch(o)
    <3>1. PICK o \in Ops : Dispatch(o)
      BY <2>2
    <3>2. /\ pc[o] = "evaluated" /\ pc' = [pc EXCEPT ![o] = pc'[o]] /\ pc'[o] # "idle"
          /\ UNCHANGED <<lease, activeEpoch>>
          /\ \/ sentAt' = sentAt
             \/ SampleClock /\ SampleHealthy /\ sentAt' = [sentAt EXCEPT ![o] = Now]
      BY <1>0, <3>1 DEF Dispatch, epochVars, Gate, Passes
    <3>3. SampleClock /\ SampleHealthy => Now \in Nat /\ Now <= Reached'
      <4>1. SampleClock /\ SampleHealthy =>
              /\ Now \in Nat
              /\ Now <= Effective(tracker', tracker'.prevMono) \div TicksPerSecond
        BY <1>0, SampleLemma
      <4> QED
        BY <4>1 DEF Reached, Effective
    <3> QED
      BY <1>0, <2>1, <3>2, <3>3 DEF SentInv
  <2>3. CASE ~\E o \in Ops : Dispatch(o)
    <3>1. /\ sentAt' = sentAt
          /\ \A o \in Ops : /\ pc'[o] = "idle" => pc[o] = "idle"
                            /\ lease'[o] = lease[o] \/ pc[o] = "idle"
          /\ activeEpoch' \in {activeEpoch, Closed}
      BY <1>0, <1>2, <2>3, ZenonT(60)
      DEF Next, OpStep, ResetStep, vars, opVars, epochVars, Tick, ClockFault, Begin, AfterCrypto,
          SkipReplay, Settle, Regroup, Complete, StoreApply, StoreFails, RejectReset,
          EnterReset, AbandonReset, PrepareReset, FailReset, Invalidate
    <3> QED
      BY <1>0, <2>1, <3>1 DEF SentInv
  <2> QED
    BY <2>2, <2>3
<1> QED
  BY <1>1, <1>2

LEMMA AInvariance == Spec => []AInv
<1>1. Init => AInv
  <2> SUFFICES ASSUME Init PROVE AInv
    OBVIOUS
  <2>1. ReplyInv
    BY DEF Init, ReplyInv
  <2>2. SentInv
    BY DEF Init, SentInv, Closed
  <2> QED
    BY <2>1, <2>2, InitInv DEF AInv
<1>2. AInv /\ [Next]_vars => AInv'
  BY StepInv, ReplyStep, SentStep DEF AInv
<1> QED
  BY <1>1, <1>2, PTL DEF Spec

\* What is true at the moment a verification succeeds.
LEMMA CompleteLemma ==
  ASSUME AInv, NEW o \in Ops, Complete(o), verdict'[o] = "verified"
  PROVE  /\ verdict[o] = "none" /\ verdict' = [verdict EXCEPT ![o] = "verified"]
         /\ ~Busy /\ activeEpoch # Closed /\ lease[o] = activeEpoch /\ activeEpoch = lastEpoch
         /\ UNCHANGED <<activeEpoch, lastEpoch, lease, reply, request, sentAt>>
         /\ ~tracker'.regressed
         /\ Now \in Nat /\ verifiedAt' = [verifiedAt EXCEPT ![o] = Now]
         /\ Acceptable(o) /\ Now < End(request[o])
         /\ sentAt[o] <= Now
         /\ store.lastNow <= Now
<1>0. /\ TypeOK /\ LeaseInv /\ ClockInv
      /\ verdict \in [Ops -> {"none", "refused", "verified"}]
      /\ sentAt \in [Ops -> Nat] /\ tracker \in Trackers /\ clock \in Samples
  BY DEF AInv, IInv, TypeOK
<1>1. /\ pc[o] = "closing" /\ Passes(o) /\ Acceptable(o)
      /\ verdict' = [verdict EXCEPT ![o] = "verified"]
      /\ verifiedAt' = [verifiedAt EXCEPT ![o] = Now]
      /\ UNCHANGED <<activeEpoch, lastEpoch, lease, reply, request, sentAt>>
  BY <1>0 DEF Complete
<1>2. Current(o) /\ SampleHealthy /\ tracker' = Tracked
  BY <1>1 DEF Passes, Complete, Gate, SampleClock
<1>3. ~Busy /\ activeEpoch # Closed /\ lease[o] = activeEpoch /\ activeEpoch = lastEpoch
  BY <1>0, <1>2 DEF Current, Open, LeaseInv
<1>4. Now \in Nat /\ store.lastNow <= Now
  BY <1>0, <1>2, <1>3, SampleLemma
<1>5. Reached <= Now
  <2>1. /\ Tracked \in Trackers /\ tracker.prevMono <= Tracked.prevMono
        /\ Tracked.refMono = tracker.refMono /\ Tracked.refWall = tracker.refWall
        /\ Now = Effective(Tracked, Tracked.prevMono) \div TicksPerSecond
    BY <1>0, <1>2, TrackLemma DEF ClockInv, Tracked, SampleHealthy, Now
  <2>2. /\ Effective(tracker, tracker.prevMono) \in Int
        /\ Effective(Tracked, Tracked.prevMono) \in Int
        /\ Effective(tracker, tracker.prevMono) <= Effective(Tracked, Tracked.prevMono)
    BY <1>0, <2>1 DEF Effective, Trackers
  <2> QED
    BY <2>1, <2>2, SecondsMonotone DEF Reached
<1>6. sentAt[o] <= Now
  <2>1. sentAt[o] <= Reached
    BY <1>3 DEF AInv, SentInv
  <2>2. Reached \in Int
    <3>1. Effective(tracker, tracker.prevMono) \in Int
      BY <1>0 DEF Effective, Trackers
    <3> QED
      BY <3>1, SecondsMonotone DEF Reached
  <2> QED
    BY <1>0, <1>4, <1>5, <2>1, <2>2
<1>7. Now < End(request[o])
  <2>1. request[o].created \in Nat /\ request[o].expires \in Nat
    BY <1>0, RequestLemma, SecurityContextAssumption
  <2> QED
    BY <1>1, <1>4, <2>1, TimePolicyAssumption
    DEF Acceptable, InWindow, End, WindowEnd, Smaller
<1>8. ~tracker'.regressed
  BY <1>2 DEF SampleHealthy, Healthy
<1>9. verdict[o] = "none"
  BY <1>0, <1>1 DEF LeaseInv, Outstanding
<1> QED
  BY <1>1, <1>3, <1>4, <1>6, <1>7, <1>8, <1>9

\* A verification succeeds in the epoch it began in, with no reset under way,
\* on an unregressed clock, within its window, and not before its own consume
\* (the last gate of completeOperation).
THEOREM VerifiedCorrect == Spec => VerifiedInOwnEpoch
<1>1. ASSUME AInv, [Next]_vars, NEW o \in Ops, verdict[o] # "verified", verdict'[o] = "verified"
      PROVE  /\ ~Busy /\ activeEpoch # Closed /\ lease[o] = activeEpoch
             /\ ~tracker'.regressed
             /\ InWindow(request[o].created, request[o].expires, verifiedAt'[o])
             /\ sentAt[o] <= verifiedAt'[o]
  <2>1. Complete(o)
    BY <1>1, VerdictStep DEF AInv
  <2>2. verifiedAt'[o] = Now
    BY <1>1, <2>1, CompleteLemma DEF AInv, IInv, TypeOK
  <2> QED
    BY <1>1, <2>1, <2>2, CompleteLemma DEF Acceptable
<1>2. AInv /\ [Next]_vars =>
        [\A o \in Ops :
           verdict[o] # "verified" /\ verdict'[o] = "verified" =>
             /\ ~Busy /\ activeEpoch # Closed /\ lease[o] = activeEpoch
             /\ ~tracker'.regressed
             /\ InWindow(request[o].created, request[o].expires, verifiedAt'[o])
             /\ sentAt[o] <= verifiedAt'[o]]_vars
  BY <1>1
<1> QED
  BY <1>2, AInvariance, PTL DEF Spec, VerifiedInOwnEpoch

\* A consumed nonce leaves the store only after its deadline or by a reset,
\* whatever happens to the verification that consumed it (consume has no undo).
THEOREM RetentionCorrect == Spec => RetainedUntilDeadline
<1>1. ASSUME IInv, [Next]_vars, activeEpoch' # Closed, NEW i \in Stored(store)
      PROVE  store'.retain[i] = store.retain[i] \/ store.retain[i] <= store'.lastNow
  <2>0. TypeOK /\ store \in Stores /\ i \in Identities /\ store.retain[i] # 0
    BY <1>1 DEF IInv, TypeOK, Stored
  <2>1. store' = store \/ \E o \in Ops : Dispatch(o) \/ StoreApply(o)
    BY <1>1
    DEF Next, OpStep, ResetStep, vars, storeVars, Tick, ClockFault, Begin, AfterCrypto, SkipReplay,
        Settle, Regroup, Complete, StoreFails, RejectReset, EnterReset, AbandonReset,
        PrepareReset, CommitReset, FailReset, Invalidate
  <2>2. ASSUME NEW o \in Ops, Dispatch(o), store' # store
        PROVE  store'.retain[i] = store.retain[i] \/ store.retain[i] <= store'.lastNow
    <3>1. /\ Passes(o) /\ Declaration = "process-clock" /\ request[o].nonce # NoNonce
          /\ store' = ConsumeStore(store, Identity(request[o]), Now, Deadline(o, Now))
      BY <2>2 DEF Dispatch, storeVars
    <3>2. Now \in Nat
      BY <1>1, <3>1, SampleLemma DEF Passes, IInv
    <3> QED
      BY <1>1, <2>0, <3>1, <3>2, DispatchLemma DEF IInv
  <2>3. ASSUME NEW o \in Ops, StoreApply(o)
        PROVE  store'.retain[i] = store.retain[i]
    BY <2>0, <2>3 DEF StoreApply, Stores
  <2> QED
    BY <2>1, <2>2, <2>3
<1>2. IInv /\ [Next]_vars =>
        [activeEpoch' # Closed =>
           \A i \in Stored(store) : \/ store'.retain[i] = store.retain[i]
                                    \/ store.retain[i] <= store'.lastNow]_vars
  BY <1>1
<1> QED
  BY <1>2, Invariance, PTL DEF Spec, RetainedUntilDeadline

-----------------------------------------------------------------------------
(* The refinement.                                                         *)

\* Initially nothing is admitted.
LEMMA AdmissionInit == Init => Admission!Init
<1> SUFFICES ASSUME Init PROVE Admission!Init
  OBVIOUS
<1>1. /\ {o \in Ops : verdict[o] = "verified"} = {}
      /\ {o \in Ops : Protected(o)} = {}
  BY DEF Init, Protected
<1> QED
  BY <1>1 DEF Init, Admission!Init, Closed

\* A successful Complete is an admission.  No guarded request stands in its
\* way: owned memory would have answered "replayed" while the other window was
\* open, an external store for good.
LEMMA AdmitStep ==
  ASSUME AInv, [Next]_vars, NEW o \in Ops, Complete(o), verdict'[o] = "verified"
  PROVE  Admission!Admit(o)
<1>0. /\ OwnedInv /\ ExternalInv /\ ReplyInv /\ TypeOK
      /\ verifiedAt \in [Ops -> Nat] /\ sentAt \in [Ops -> Nat] /\ store.lastNow \in Nat
      /\ verdict \in [Ops -> {"none", "refused", "verified"}]
  BY DEF AInv, IInv, TypeOK, Stores
<1>1. /\ verdict[o] = "none" /\ verdict' = [verdict EXCEPT ![o] = "verified"]
      /\ activeEpoch # Closed /\ lease[o] = activeEpoch /\ activeEpoch = lastEpoch
      /\ UNCHANGED <<activeEpoch, lastEpoch, lease, reply, request, sentAt>>
      /\ Now \in Nat /\ verifiedAt' = [verifiedAt EXCEPT ![o] = Now]
      /\ Acceptable(o) /\ Now < End(request[o]) /\ store.lastNow <= Now
  BY CompleteLemma
<1>2. verifiedAt'[o] = Now
  BY <1>0, <1>1
<1>3. {p \in Ops : verdict[p] = "verified"}' = {p \in Ops : verdict[p] = "verified"} \cup {o}
  BY <1>0, <1>1
<1>4. CASE reply[o] # "accepted"
  <2>1. {p \in Ops : Protected(p)}' = {p \in Ops : Protected(p)}
    BY <1>0, <1>1, <1>4 DEF Protected
  <2> QED
    BY <1>1, <1>2, <1>3, <2>1 DEF Admission!Admit, Acceptable, Admission!InWindow, InWindow
<1>5. CASE reply[o] = "accepted"
  <2>1. {p \in Ops : Protected(p)}' = {p \in Ops : Protected(p)} \cup {o}
    BY <1>0, <1>1, <1>5 DEF Protected
  <2>2. ASSUME NEW p \in Ops, Protected(p), SameNonce(o, p),
               Declaration = "process-clock" => lease[p] = lease[o] /\ Now < End(request[p])
        PROVE  FALSE
    <3>1. o # p /\ Consumed(o) /\ Consumed(p)
      BY <1>1, <1>5, <2>2 DEF Protected, Consumed
    <3>2. Declaration = "process-clock"
      BY <1>0, <2>2, <3>1 DEF ExternalInv
    <3>3. sentAt[o] >= End(request[p]) \/ sentAt[p] >= End(request[o])
      BY <1>0, <2>2, <3>1, <3>2 DEF OwnedInv
    <3>4. sentAt[o] <= store.lastNow /\ sentAt[p] <= store.lastNow
      BY <1>0, <1>1, <2>2, <3>1, <3>2 DEF OwnedInv
    <3>5. End(request[o]) \in Nat /\ End(request[p]) \in Nat
      BY <1>0, RequestLemma
    <3> QED
      BY <1>0, <1>1, <2>2, <3>2, <3>3, <3>4, <3>5
  <2>3. \A p \in {q \in Ops : Protected(q)} : ~Admission!Blocks(p, o, Now)
    BY <2>2 DEF Admission!Blocks, Admission!SameNonce, SameNonce, Identity, End,
                Admission!WindowEnd, WindowEnd, Admission!Smaller, Smaller
  <2> QED
    BY <1>1, <1>2, <1>3, <2>1, <2>3
    DEF Admission!Admit, Acceptable, Admission!InWindow, InWindow
<1> QED
  BY <1>4, <1>5

LEMMA AdmissionStep ==
  ASSUME AInv, [Next]_vars
  PROVE  [Admission!Next]_(Admission!vars)
<1>0. /\ LeaseInv /\ ResetInv /\ TypeOK
      /\ lease \in [Ops -> Nat] /\ reply \in [Ops -> Replies]
      /\ verdict \in [Ops -> {"none", "refused", "verified"}]
  BY DEF AInv, IInv, TypeOK
<1> DEFINE admitted == {p \in Ops : verdict[p] = "verified"}
           guarded  == {p \in Ops : Protected(p)}
\* A step that verifies nothing leaves both sets alone.
<1>1. ASSUME ~\E o \in Ops : Complete(o) /\ verdict'[o] = "verified",
             \A o \in Ops : verdict[o] = "verified" => verdict'[o] = "verified"
      PROVE  admitted' = admitted /\ guarded' = guarded
  <2>1. \A o \in Ops : verdict'[o] = "verified" <=> verdict[o] = "verified"
    BY <1>1, VerdictStep DEF AInv
  <2>2. \A o \in Ops : verdict'[o] = "verified" => reply'[o] = reply[o]
    BY VerdictStep DEF AInv
  <2> QED
    BY <2>1, <2>2 DEF Protected
<1>2. ASSUME NEW o \in Ops, Begin(o) PROVE [Admission!Next]_(Admission!vars)
  <2>1. /\ pc[o] = "idle" /\ verdict[o] = "none" /\ lease[o] = 0 /\ reply[o] = "none"
        /\ verdict' = [verdict EXCEPT ![o] = verdict'[o]] /\ verdict'[o] \in {"none", "refused"}
        /\ UNCHANGED <<activeEpoch, lastEpoch, request, verifiedAt>>
    BY <1>0, <1>2 DEF Begin, LeaseInv
  <2>2. admitted' = admitted /\ guarded' = guarded
    <3>1. \A p \in Ops : verdict'[p] = "verified" <=> verdict[p] = "verified"
      BY <1>0, <2>1
    <3>2. \A p \in Ops : ~(Complete(p) /\ verdict'[p] = "verified" /\ verdict[p] # "verified")
      BY <3>1
    <3>3. \A p \in Ops : verdict'[p] = "verified" => reply'[p] = reply[p]
      BY VerdictStep DEF AInv
    <3> QED
      BY <3>1, <3>3 DEF Protected
  <2>3. CASE Open /\ SampleHealthy
    <3>1. lease' = [lease EXCEPT ![o] = activeEpoch] /\ activeEpoch # Closed
          /\ activeEpoch = lastEpoch
      BY <1>0, <1>2, <2>3 DEF Begin, Open, LeaseInv
    <3>2. Admission!Begin(o)
      BY <2>1, <2>2, <3>1 DEF Admission!Begin
    <3> QED
      BY <3>2 DEF Admission!Next
  <2>4. CASE ~(Open /\ SampleHealthy)
    BY <1>2, <2>1, <2>2, <2>4 DEF Begin, Admission!vars
  <2> QED
    BY <2>3, <2>4
<1>3. ASSUME NEW o \in Ops, Complete(o) PROVE [Admission!Next]_(Admission!vars)
  <2>1. CASE verdict'[o] = "verified"
    BY <1>3, <2>1, AdmitStep DEF Admission!Next
  <2>2. CASE verdict'[o] # "verified"
    <3>1. /\ verdict[o] = "none" /\ verdict' = [verdict EXCEPT ![o] = "refused"]
          /\ UNCHANGED <<activeEpoch, lastEpoch, lease, reply, request, verifiedAt>>
      BY <1>0, <1>3, <2>2 DEF Complete, LeaseInv, Outstanding
    <3>2. admitted' = admitted /\ guarded' = guarded
      BY <1>0, <3>1 DEF Protected
    <3> QED
      BY <3>1, <3>2 DEF Admission!vars
  <2> QED
    BY <2>1, <2>2
<1>4. CASE CommitReset
  <2>1. /\ activeEpoch = Closed /\ activeEpoch' # Closed /\ lastEpoch' = lastEpoch + 1
        /\ UNCHANGED opVars
    BY <1>0, <1>4 DEF CommitReset, ResetInv, TypeOK, Closed
  <2>2. admitted' = admitted /\ guarded' = guarded
    BY <2>1 DEF opVars, Protected
  <2>3. Admission!Reopen
    BY <2>1, <2>2 DEF Admission!Reopen, opVars
  <2> QED
    BY <2>3 DEF Admission!Next
<1>5. CASE PrepareReset \/ FailReset
  <2>1. activeEpoch' = Closed /\ lastEpoch' = lastEpoch /\ UNCHANGED opVars
    BY <1>5 DEF PrepareReset, FailReset, Invalidate
  <2>2. admitted' = admitted /\ guarded' = guarded
    BY <2>1 DEF opVars, Protected
  <2>3. Admission!Close \/ UNCHANGED Admission!vars
    BY <2>1, <2>2 DEF Admission!Close, Admission!vars, opVars
  <2> QED
    BY <2>3 DEF Admission!Next
<1>6. CASE /\ ~\E o \in Ops : Begin(o) \/ Complete(o)
           /\ ~CommitReset /\ ~PrepareReset /\ ~FailReset
  <2>1. UNCHANGED <<activeEpoch, lastEpoch, request, lease, verdict, verifiedAt>>
    BY <1>6
    DEF Next, OpStep, ResetStep, vars, opVars, epochVars, Tick, ClockFault, AfterCrypto,
        SkipReplay, Dispatch, Settle, Regroup, StoreApply, StoreFails, RejectReset, EnterReset,
        AbandonReset
  <2>2. admitted' = admitted /\ guarded' = guarded
    BY <1>1, <1>6, <2>1
  <2> QED
    BY <2>1, <2>2 DEF Admission!vars
<1> QED
  BY <1>2, <1>3, <1>4, <1>5, <1>6

\* The security context keeps the promise of ReplayAdmission, for all numbers
\* of operations, resets and clock faults: every step of the code admits,
\* closes, reopens or changes nothing a reader of the verdicts can see.
THEOREM AdmissionCorrect == Spec => ImplementsAdmission
<1>1. Init => Admission!Init
  BY AdmissionInit
<1>2. AInv /\ [Next]_vars => [Admission!Next]_(Admission!vars)
  BY AdmissionStep
<1> QED
  BY <1>1, <1>2, AInvariance, PTL DEF Spec, ImplementsAdmission, Admission!Spec

=============================================================================
