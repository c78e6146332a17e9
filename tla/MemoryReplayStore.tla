-------------------------- MODULE MemoryReplayStore --------------------------
(***************************************************************************)
(* packages/core/src/profiles/memory-replay-store.ts: the process-local    *)
(* replay memory, as a record                                              *)
(*   retain      identity |-> retention deadline, 0 when not stored        *)
(*   perKey      key |-> number of stored identities of that key           *)
(*   nextExpiry  lower bound of the stored deadlines, Never when empty     *)
(*   lastNow     the latest time a consume was called with                 *)
(* An identity is a record with a field `key' (the key thumbprint).        *)
(***************************************************************************)
EXTENDS Integers, FiniteSets, FiniteSetsExt

CONSTANTS
  Identities,      \* the (scope, key, nonce) triples in use
  Keys,
  MaxPerKey,       \* policy.maxPerKey
  Capacity,        \* policy.capacity
  Never            \* nextExpiry = Infinity

ASSUME MemoryReplayStoreAssumption ==
  /\ IsFiniteSet(Identities)
  /\ \A i \in Identities : i.key \in Keys
  /\ MaxPerKey \in Nat \ {0}
  /\ Capacity \in Nat \ {0}
  /\ Never \notin Int

Stores == [retain     : [Identities -> Nat],
           perKey     : [Keys -> Nat],
           nextExpiry : Nat \cup {Never},
           lastNow    : Nat]

EmptyStore == [retain     |-> [i \in Identities |-> 0],
               perKey     |-> [k \in Keys |-> 0],
               nextExpiry |-> Never,
               lastNow    |-> 0]

Stored(st) == {i \in Identities : st.retain[i] # 0}
StoredOf(st, k) == {i \in Stored(st) : i.key = k}

\* The identities a sweep at second `now` drops.
Due(st, now) == {i \in Stored(st) : st.retain[i] <= now}

\* A wrong variant: the counters of the keys are left alone.
MutExpire(st, now) ==
  LET due == Due(st, now)
  IN  IF st.nextExpiry = Never \/ now < st.nextExpiry THEN st
      ELSE [st EXCEPT !.retain = [i \in Identities |-> IF i \in due THEN 0 ELSE @[i]],
                      !.nextExpiry = Never]

\* expire(now): nothing before the earliest deadline; else drop what is due,
\* take it off its key's counter and find the earliest deadline that is left.
Expire(st, now) ==
  LET due  == Due(st, now)
      kept == Stored(st) \ due
  IN  IF st.nextExpiry = Never \/ now < st.nextExpiry THEN st
      ELSE [st EXCEPT
             !.retain = [i \in Identities |-> IF i \in due THEN 0 ELSE @[i]],
             !.perKey = [k \in Keys |-> @[k] - Cardinality({i \in due : i.key = k})],
             !.nextExpiry = IF kept = {} THEN Never ELSE Min({st.retain[i] : i \in kept})]

Insert(st, id, until) ==
  [st EXCEPT !.retain[id] = until,
             !.perKey[id.key] = @ + 1,
             !.nextExpiry = IF @ = Never \/ until < @ THEN until ELSE @]

\* consume refuses a time behind its own, before it touches anything.
Refused(st, now, until) == until <= now \/ now < st.lastNow

Swept(st, now) == Expire([st EXCEPT !.lastNow = now], now)

\* The decision of consume, in the source's order of precedence.
ConsumeOutcome(st, id, now, until) ==
  LET swept == Swept(st, now)
  IN  IF Refused(st, now, until) THEN "unavailable"
      ELSE IF swept.retain[id] # 0 THEN "replayed"
      ELSE IF swept.perKey[id.key] >= MaxPerKey THEN "per-key-quota-exceeded"
      ELSE IF Cardinality(Stored(swept)) >= Capacity THEN "unavailable"
      ELSE "accepted"

\* A wrong variant: a replay gives its entry another deadline.
MutConsumeStore(st, id, now, until) ==
  LET swept == Swept(st, now)
  IN  CASE ConsumeOutcome(st, id, now, until) = "accepted" -> Insert(swept, id, until)
        [] ConsumeOutcome(st, id, now, until) = "replayed" -> [swept EXCEPT !.retain[id] = until]
        [] OTHER -> IF Refused(st, now, until) THEN st ELSE swept

\* The store that consume leaves behind; a replay leaves the deadline alone.
ConsumeStore(st, id, now, until) ==
  IF Refused(st, now, until) THEN st
  ELSE IF ConsumeOutcome(st, id, now, until) = "accepted"
       THEN Insert(Swept(st, now), id, until)
       ELSE Swept(st, now)

\* What consume relies on: the counters and nextExpiry agree with the entries,
\* and neither limit is exceeded.
Accounts(st) ==
  /\ \A k \in Keys : st.perKey[k] = Cardinality(StoredOf(st, k))
  /\ \A k \in Keys : st.perKey[k] <= MaxPerKey
  /\ Cardinality(Stored(st)) <= Capacity
  /\ \A i \in Stored(st) : st.nextExpiry # Never /\ st.nextExpiry <= st.retain[i]

=============================================================================
