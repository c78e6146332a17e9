---------------------------- MODULE DirectoryCache ----------------------------
(***************************************************************************)
(* packages/core/src/discovery/directory-cache.ts: the key sets that one   *)
(* profile has accepted from directories, and the origins it leaves alone  *)
(* after a failure.  A cache is a record                                   *)
(*   entries        in order of insertion, [origin, set]                   *)
(*   bytes          the accounted bytes of the entries                     *)
(*   negative       origin |-> end of its backoff                          *)
(*   overflowUntil  end of the backoff of everything, once that is full    *)
(*   healthy        no bad clock reading so far                            *)
(* and a key set, as prepared from a response, a record                    *)
(*   status         key |-> "found", "unknown-key", "unsupported-algorithm"*)
(*   persist, remaining, received    its freshness                         *)
(*   size           its accounted bytes                                    *)
(***************************************************************************)
EXTENDS Integers, Sequences, FiniteSets

CONSTANTS
  Origins,
  Keys,
  NegativePeriod,  \* options.negativeSeconds
  MaxEntries,      \* options.maxPositiveEntries
  MaxBytes,        \* options.maxPositiveAccountedBytes
  MaxNegative      \* options.maxNegativeEntries

ASSUME DirectoryCacheAssumption ==
  /\ IsFiniteSet(Origins)
  /\ NegativePeriod \in Nat /\ MaxEntries \in Nat /\ MaxBytes \in Nat /\ MaxNegative \in Nat

EmptyCache ==
  [entries |-> <<>>, bytes |-> 0, negative |-> [o \in {} |-> 0], overflowUntil |-> 0,
   healthy |-> TRUE]

\* #now: the first bad reading is the end of the cache.
Sampled(c, readable) == [c EXCEPT !.healthy = @ /\ readable]

\* isDirectoryFresh.
Fresh(set, now) ==
  set.persist /\ now >= set.received /\ now - set.received < set.remaining

Held(c) == {c.entries[i].origin : i \in DOMAIN c.entries}
Place(c, o) == CHOOSE i \in DOMAIN c.entries : c.entries[i].origin = o
SetOf(c, o) == c.entries[Place(c, o)].set

\* What lookup answers for a key (and recheck: whether that is "found").
Lookup(c, o, key, now) ==
  IF c.healthy /\ o \in Held(c) /\ Fresh(SetOf(c, o), now)
  THEN SetOf(c, o).status[key] ELSE "unknown-key"

\* A sequence without its element at i.
WithoutAt(s, i) == SubSeq(s, 1, i - 1) \o SubSeq(s, i + 1, Len(s))

\* A wrong variant: the entry goes, its bytes stay accounted.
MutRemove(c, o) ==
  IF o \in Held(c) THEN [c EXCEPT !.entries = WithoutAt(@, Place(c, o))] ELSE c

Remove(c, o) ==
  IF o \in Held(c)
  THEN [c EXCEPT !.entries = WithoutAt(@, Place(c, o)), !.bytes = @ - SetOf(c, o).size]
  ELSE c

Retainable(set, now) ==
  set.persist /\ MaxEntries # 0 /\ set.size <= MaxBytes /\ set.received <= now

\* The bytes of the first i entries, for each i.
Sizes(entries) ==
  LET size[i \in 0 .. Len(entries)] == IF i = 0 THEN 0 ELSE size[i - 1] + entries[i].set.size
  IN  size

\* Eviction in order of insertion until the new set fits: the loop drops the i
\* oldest entries, for the first i that makes room, or all.
HasRoom(c, size) == Len(c.entries) < MaxEntries /\ c.bytes + size <= MaxBytes

Dropped(c, i) == [c EXCEPT !.entries = SubSeq(@, i + 1, Len(@)), !.bytes = @ - Sizes(c.entries)[i]]

Evict(c, size) ==
  LET enough == {i \in 0 .. Len(c.entries) : HasRoom(Dropped(c, i), size)}
  IN  Dropped(c, IF enough = {} THEN Len(c.entries)
                 ELSE CHOOSE i \in enough : \A j \in enough : i <= j)

Without(f, o) == [x \in DOMAIN f \ {o} |-> f[x]]
With(f, o, v) == [x \in DOMAIN f \cup {o} |-> IF x = o THEN v ELSE f[x]]

\* commit: a valid set replaces the old one, and ends the backoff of its origin,
\* even when it cannot be retained itself.
Commit(c, o, set, now) ==
  IF ~c.healthy THEN c
  ELSE LET cleared == [Remove(c, o) EXCEPT !.negative = Without(@, o)]
           room    == Evict(cleared, set.size)
       IN  IF ~Retainable(set, now) THEN cleared
           ELSE IF ~HasRoom(room, set.size) THEN room
           ELSE [room EXCEPT !.entries = Append(@, [origin |-> o, set |-> set]),
                             !.bytes = @ + set.size]

PruneNegative(c, now) ==
  [c EXCEPT !.negative = [o \in {p \in DOMAIN @ : now < @[p]} |-> @[o]]]

\* A wrong variant: a full table forgets the failure.
MutFailure(c, o, now) ==
  LET pruned == PruneNegative(c, now)
  IN  IF ~c.healthy \/ NegativePeriod = 0 THEN c
      ELSE IF o \in DOMAIN pruned.negative \/ Cardinality(DOMAIN pruned.negative) < MaxNegative
      THEN [pruned EXCEPT !.negative = With(@, o, now + NegativePeriod)]
      ELSE pruned

Later(a, b) == IF a > b THEN a ELSE b

\* recordFailure: a backoff of its own while the table has room, else for all;
\* none becomes shorter.
Failure(c, o, now) ==
  LET pruned   == PruneNegative(c, now)
      deadline == now + NegativePeriod
  IN  IF ~c.healthy THEN c
      ELSE IF NegativePeriod = 0 THEN pruned
      ELSE IF o \in DOMAIN pruned.negative \/ Cardinality(DOMAIN pruned.negative) < MaxNegative
      THEN [pruned EXCEPT !.negative =
              With(@, o, Later(deadline, IF o \in DOMAIN @ THEN @[o] ELSE 0))]
      ELSE [pruned EXCEPT !.overflowUntil = Later(@, deadline)]

\* fetchBlocked, and the pruning it does.
Blocked(c, o, now) ==
  ~c.healthy \/ now < c.overflowUntil \/ (o \in DOMAIN c.negative /\ now < c.negative[o])
Asked(c, now) == IF c.healthy THEN PruneNegative(c, now) ELSE c

=============================================================================
