----------------------- MODULE DirectoryDiscoveryProofs -----------------------
(***************************************************************************)
(* Caches, backoffs and evidence of directory discovery, for any number of *)
(* profiles, origins and verifications, any limits, any responses and any  *)
(* number of clock faults.                                                 *)
(***************************************************************************)
EXTENDS DirectoryDiscovery, SequenceTheorems, WellFoundedInduction, TLAPS

Entries == [origin : Origins, set : KeySets]

Backoffs == UNION {[D -> Nat] : D \in SUBSET Origins}
Caches ==
  [entries : Seq(Entries), bytes : Int, negative : Backoffs, overflowUntil : Nat, healthy : BOOLEAN]

\* The types of all variables, by the part they belong to.
ClockTypes == now \in Nat /\ broken \in BOOLEAN /\ faults \in Nat /\ calls \in Nat
HealthTypes == transportHealthy \in BOOLEAN /\ serviceHealthy \in [Profiles -> BOOLEAN]
Flights == [phase : {"none", "running", "dead"}, started : Nat]
FetchTypes == flight \in [Origins -> Flights] /\ delivery \in Deliveries \cup {None}
Answers == Values \cup AdmissionErrors \cup {"none"}
TaskRecords == [phase : {"none", "created", "waiting", "arrived"}, started : Nat, answer : Answers]
TaskTypes == task \in [Profiles -> [Origins -> TaskRecords]]
Places == {"resolving", "fetching", "fetched", "crypto", "consuming", "done"}
CallTypes ==
  /\ pc \in [Invocations -> Places]
  /\ index \in [Invocations -> Nat]
  /\ \A v \in Invocations : index[v] \in DOMAIN Candidates[v]
  /\ spent \in [Invocations -> BOOLEAN] /\ fetches \in [Invocations -> Nat]
  /\ kept \in [Invocations -> SUBSET CandidateSet]
CacheTypes == cache \in [Profiles -> Caches]
HistoryTypes ==
  /\ latest \in [Profiles -> [Origins -> KeySets \cup {None}]]
  /\ failedAt \in [Profiles -> [Origins -> Nat \cup {None}]]

Typed ==
  /\ ClockTypes /\ HealthTypes /\ FetchTypes /\ TaskTypes /\ CallTypes /\ CacheTypes /\ HistoryTypes

\* A verification that asked for a fetch has spent its budget.
Spending == \A v \in Invocations : fetches[v] = IF spent[v] THEN 1 ELSE 0

-----------------------------------------------------------------------------
(* Induction over numbers, for a set of them.                                *)

\* A nonempty set of naturals has a least element.
LEMMA LeastNatural ==
  ASSUME NEW T, T \subseteq Nat, T # {}
  PROVE  \E x \in T : \A y \in T : x <= y
<1>1. IsWellFoundedOn(OpToRel(<, Nat), Nat)
  BY NatLessThanWellFounded
<1>2. PICK x \in T : \A y \in T : ~(<<y, x>> \in OpToRel(<, Nat))
  BY <1>1, WFMin
<1>3. ASSUME NEW y \in T PROVE x <= y
  <2>1. y < x => <<y, x>> \in OpToRel(<, Nat)
    BY DEF OpToRel
  <2>2. ~(y < x)
    BY <1>2, <2>1, Zenon
  <2> QED
    BY <2>2
<1> QED
  BY <1>3

\* A set that has zero, and with a number below n the next one, has all up to n.
LEMMA UpTo ==
  ASSUME NEW n \in Nat, NEW T, 0 \in T, \A i \in 0 .. (n - 1) : i \in T => (i + 1) \in T
  PROVE  \A i \in 0 .. n : i \in T
<1> DEFINE Missing == {i \in 0 .. n : i \notin T}
<1>1. SUFFICES ASSUME Missing # {} PROVE FALSE
  OBVIOUS
<1>2. PICK i \in Missing : \A j \in Missing : i <= j
  <2>1. Missing \subseteq Nat
    OBVIOUS
  <2> HIDE DEF Missing
  <2> QED
    BY <1>1, <2>1, LeastNatural
<1>3. i # 0 /\ i - 1 \in 0 .. (n - 1) /\ i - 1 \notin Missing
  BY <1>2
<1>4. i - 1 \in T
  BY <1>2, <1>3
<1> QED
  BY <1>2, <1>3, <1>4

-----------------------------------------------------------------------------
(* The bytes of a sequence of entries.                                       *)

Adds(f, entries) ==
  /\ f \in [0 .. Len(entries) -> Nat] /\ f[0] = 0
  /\ \A i \in 1 .. Len(entries) : f[i] = f[i - 1] + entries[i].set.size

\* Sizes adds up the entries: for each length there is a function that does, and
\* it is the one that the recursive definition means.
LEMMA SizesAdds ==
  ASSUME NEW entries \in Seq(Entries)
  PROVE  Adds(Sizes(entries), entries)
<1> DEFINE n == Len(entries)
           Sums(k) == {f \in [0 .. k -> Nat] :
                         f[0] = 0 /\ \A i \in 1 .. k : f[i] = f[i - 1] + entries[i].set.size}
           T == {k \in 0 .. n : Sums(k) # {}}
<1>1. n \in Nat /\ \A i \in 1 .. n : entries[i].set.size \in Nat
  <2>1. n \in Nat /\ \A i \in 1 .. n : entries[i] \in Entries
    BY LenProperties, ElementOfSeq
  <2> QED
    BY <2>1 DEF Entries, KeySets
<1> HIDE DEF n
<1>2. 0 \in T
  <2>1. [i \in 0 .. 0 |-> 0] \in Sums(0)
    OBVIOUS
  <2> QED
    BY <2>1, <1>1
<1>3. ASSUME NEW k \in 0 .. (n - 1), k \in T PROVE (k + 1) \in T
  <2>1. PICK f \in Sums(k) : TRUE
    BY <1>3
  <2> DEFINE g == [i \in 0 .. k + 1 |-> IF i = k + 1 THEN f[k] + entries[k + 1].set.size ELSE f[i]]
  <2>2. k + 1 \in 1 .. n /\ k \in 0 .. k /\ f[k] \in Nat
    BY <1>1, <2>1
  <2>3. g \in [0 .. k + 1 -> Nat] /\ g[0] = 0
    BY <1>1, <2>1, <2>2
  <2>4. ASSUME NEW i \in 1 .. k + 1 PROVE g[i] = g[i - 1] + entries[i].set.size
    <3>1. CASE i = k + 1
      BY <2>2, <3>1
    <3>2. CASE i # k + 1
      BY <2>1, <2>2, <3>2
    <3> QED
      BY <3>1, <3>2
  <2>5. g \in Sums(k + 1)
    BY <2>3, <2>4
  <2>6. k + 1 \in 0 .. n
    BY <1>1, <2>2
  <2> HIDE DEF Sums, g
  <2> QED
    BY <2>5, <2>6
<1>4. n \in T
  <2>1. \A k \in 0 .. (n - 1) : k \in T => (k + 1) \in T
    BY <1>3
  <2> HIDE DEF T
  <2>2. \A k \in 0 .. n : k \in T
    BY <1>1, <1>2, <2>1, UpTo
  <2> QED
    BY <1>1, <2>2
<1>5. PICK f \in Sums(n) : TRUE
  BY <1>4
<1> DEFINE Step(g) == [i \in 0 .. n |-> IF i = 0 THEN 0 ELSE g[i - 1] + entries[i].set.size]
<1>6. f = Step(f)
  BY <1>1, <1>5
<1>7. Sizes(entries) = CHOOSE g : g = Step(g)
  BY DEF Sizes, n
<1>8. Sizes(entries) = Step(Sizes(entries))
  <2> HIDE DEF Step
  <2> QED
    BY <1>6, <1>7
<1> DEFINE s == Sizes(entries)
<1> HIDE DEF s
<1>9. DOMAIN s = 0 .. n /\ s[0] = 0 /\ \A i \in 1 .. n : s[i] = s[i - 1] + entries[i].set.size
  <2>1. s = [i \in 0 .. n |-> IF i = 0 THEN 0 ELSE s[i - 1] + entries[i].set.size]
    BY <1>8 DEF s
  <2>2. 0 \in 0 .. n /\ \A i \in 1 .. n : i \in 0 .. n /\ i # 0
    BY <1>1
  <2> QED
    BY <2>1, <2>2
<1> DEFINE U == {k \in 0 .. n : s[k] \in Nat}
<1>10. \A k \in 0 .. n : k \in U
  <2>1. 0 \in U
    BY <1>1, <1>9
  <2>2. ASSUME NEW k \in 0 .. (n - 1), k \in U PROVE (k + 1) \in U
    <3>1. k + 1 \in 1 .. n /\ (k + 1) - 1 = k /\ k + 1 \in 0 .. n
      BY <1>1
    <3>2. s[k + 1] = s[k] + entries[k + 1].set.size
      BY <1>9, <3>1
    <3>3. entries[k + 1].set.size \in Nat
      BY <1>1, <3>1
    <3>4. s[k + 1] \in Nat
      BY <2>2, <3>2, <3>3
    <3> QED
      BY <3>1, <3>4
  <2> HIDE DEF U
  <2> QED
    BY <1>1, <2>1, <2>2, UpTo
<1>11. s = [i \in 0 .. n |-> s[i]]
  BY <1>8 DEF s
<1> QED
  BY <1>9, <1>10, <1>11 DEF Adds, n, s


\* The same, as facts to cite.
LEMMA SizesFacts ==
  ASSUME NEW s \in Seq(Entries)
  PROVE  /\ Len(s) \in Nat /\ Sizes(s)[0] = 0
         /\ \A i \in 0 .. Len(s) : Sizes(s)[i] \in Nat
         /\ \A i \in 1 .. Len(s) : Sizes(s)[i] = Sizes(s)[i - 1] + s[i].set.size
         /\ \A i \in 1 .. Len(s) : s[i] \in Entries /\ s[i].set.size \in Nat
<1>1. Adds(Sizes(s), s) /\ Len(s) \in Nat
  BY SizesAdds, LenProperties
<1>2. \A i \in 1 .. Len(s) : s[i] \in Entries
  BY ElementOfSeq
<1>3. \A i \in 1 .. Len(s) : s[i].set.size \in Nat
  BY <1>2 DEF Entries, KeySets
<1> QED
  BY <1>1, <1>2, <1>3 DEF Adds

\* The entries of s after a up to b are those of t after c up to d.
Stretch(s, t, a, b, c, d) ==
  /\ s \in Seq(Entries) /\ t \in Seq(Entries)
  /\ a \in Nat /\ b \in Nat /\ c \in Nat /\ d \in Nat
  /\ a <= b /\ b <= Len(s) /\ c <= d /\ d <= Len(t) /\ b - a = d - c
  /\ \A i \in (a + 1) .. b : s[i] = t[i + (c - a)]

\* Equal stretches of two sequences add the same.
LEMMA EqualStretches ==
  ASSUME NEW s, NEW t, NEW a, NEW b, NEW c, NEW d, Stretch(s, t, a, b, c, d)
  PROVE  Sizes(s)[b] - Sizes(s)[a] = Sizes(t)[d] - Sizes(t)[c]
<1> DEFINE f == Sizes(s)
           g == Sizes(t)
           m == b - a
           T == {i \in 0 .. m : f[a + i] - f[a] = g[c + i] - g[c]}
<1> USE DEF Stretch
<1>1. m \in Nat /\ Len(s) \in Nat /\ Len(t) \in Nat
  BY LenProperties
<1>2. ASSUME NEW i \in 0 .. m PROVE f[a + i] \in Nat /\ g[c + i] \in Nat
  <2>1. a + i \in 0 .. Len(s) /\ c + i \in 0 .. Len(t)
    BY <1>1
  <2> HIDE DEF f, g
  <2> QED
    BY <2>1, SizesFacts DEF f, g
<1>3. 0 \in T
  <2>1. a + 0 = a /\ c + 0 = c /\ 0 \in 0 .. m
    BY <1>1
  <2>2. f[a] \in Nat /\ g[c] \in Nat
    BY <1>2, <2>1
  <2> HIDE DEF f, g
  <2> QED
    BY <2>1, <2>2
<1>4. ASSUME NEW i \in 0 .. (m - 1), i \in T PROVE (i + 1) \in T
  <2> DEFINE x == a + (i + 1)
             y == c + (i + 1)
  <2>1. /\ i + 1 \in 0 .. m /\ i \in 0 .. m
        /\ x \in 1 .. Len(s) /\ x - 1 = a + i /\ x \in (a + 1) .. b
        /\ y \in 1 .. Len(t) /\ y - 1 = c + i /\ y = x + (c - a)
    BY <1>1
  <2>2. f[a + i] \in Nat /\ g[c + i] \in Nat /\ f[x] \in Nat /\ g[y] \in Nat
    BY <1>2, <2>1
  <2>3. f[a] \in Nat /\ g[c] \in Nat
    <3>1. a + 0 = a /\ c + 0 = c /\ 0 \in 0 .. m
      BY <1>1
    <3> QED
      BY <1>2, <3>1
  <2>4. f[a + i] - f[a] = g[c + i] - g[c]
    BY <1>4
  <2> HIDE DEF x, y, f, g
  <2>5. f[x] = f[a + i] + s[x].set.size /\ s[x].set.size \in Nat
    BY <2>1, SizesFacts DEF f
  <2>6. g[y] = g[c + i] + t[y].set.size
    BY <2>1, SizesFacts DEF g
  <2>7. s[x] = t[y]
    BY <2>1
  <2>8. f[x] - f[a] = g[y] - g[c]
    <3> DEFINE A == f[a]
               B == f[a + i]
               X == f[x]
               C == g[c]
               D == g[c + i]
               Y == g[y]
               z == s[x].set.size
    <3>1. A \in Nat /\ B \in Nat /\ C \in Nat /\ D \in Nat /\ X \in Nat /\ Y \in Nat /\ z \in Nat
      BY <2>2, <2>3, <2>5
    <3>2. B - A = D - C /\ X = B + z /\ Y = D + z
      BY <2>4, <2>5, <2>6, <2>7
    <3> HIDE DEF A, B, C, D, X, Y, z
    <3>3. X - A = Y - C
      BY <3>1, <3>2
    <3> QED
      BY <3>3 DEF A, C, X, Y
  <2> QED
    BY <2>1, <2>8 DEF x, y
<1>5. m \in T
  <2>1. \A i \in 0 .. (m - 1) : i \in T => (i + 1) \in T
    BY <1>4
  <2> HIDE DEF T, m
  <2>2. \A i \in 0 .. m : i \in T
    BY <1>1, <1>3, <2>1, UpTo
  <2> QED
    BY <1>1, <2>2
<1>6. a + m = b /\ c + m = d
  OBVIOUS
<1>7. f[a + m] - f[a] = g[c + m] - g[c]
  BY <1>5
<1> QED
  BY <1>6, <1>7

\* The bytes of a whole sequence.
Total(s) == Sizes(s)[Len(s)]

\* What is added at the end counts for itself.
LEMMA TotalOfAppend ==
  ASSUME NEW s \in Seq(Entries), NEW e \in Entries
  PROVE  Total(Append(s, e)) = Total(s) + e.set.size
<1> DEFINE t == Append(s, e)
           n == Len(s)
<1>1. t \in Seq(Entries) /\ Len(t) = n + 1 /\ n \in Nat /\ t[n + 1] = e
      /\ \A i \in 1 .. n : t[i] = s[i]
  BY AppendProperties, LenProperties
<1> HIDE DEF t, n
<1>2. n <= Len(s)
  BY <1>1 DEF n
<1>3. Sizes(t)[n] - Sizes(t)[0] = Sizes(s)[n] - Sizes(s)[0]
  <2>1. Stretch(t, s, 0, n, 0, n)
    BY <1>1, <1>2 DEF Stretch
  <2> QED
    BY <2>1, EqualStretches
<1>4. Sizes(t)[n] = Sizes(s)[n]
  <2>1. Sizes(t)[n] \in Nat /\ Sizes(t)[0] = 0
    BY <1>1, SizesFacts
  <2>2. Sizes(s)[n] \in Nat /\ Sizes(s)[0] = 0
    BY <1>1, SizesFacts DEF n
  <2> QED
    BY <1>3, <2>1, <2>2
<1>5. Sizes(t)[n + 1] = Sizes(t)[n] + e.set.size
  BY <1>1, SizesFacts
<1> QED
  BY <1>1, <1>4, <1>5 DEF Total, t, n

\* What is dropped from the front counts no more.
LEMMA TotalOfRest ==
  ASSUME NEW s \in Seq(Entries), NEW k \in 0 .. Len(s)
  PROVE  LET t == SubSeq(s, k + 1, Len(s))
         IN  /\ t \in Seq(Entries) /\ Len(t) = Len(s) - k
             /\ \A i \in 1 .. Len(t) : t[i] = s[k + i]
             /\ Total(t) = Total(s) - Sizes(s)[k] /\ Sizes(s)[k] \in Nat
<1> DEFINE t == SubSeq(s, k + 1, Len(s))
           n == Len(s)
<1>1. n \in Nat /\ \A i \in (k + 1) .. n : s[i] \in Entries
  BY LenProperties, ElementOfSeq
<1>2. t \in Seq(Entries) /\ Len(t) = n - k /\ \A i \in 1 .. n - k : t[i] = s[k + i]
  <2>1. /\ t \in Seq(Entries)
        /\ Len(t) = IF k + 1 <= n THEN n - (k + 1) + 1 ELSE 0
        /\ \A i \in 1 .. n - (k + 1) + 1 : t[i] = s[(k + 1) + i - 1]
    BY <1>1, SubSeqProperties
  <2> HIDE DEF t, n
  <2>2. k \in Nat /\ k <= n
    BY <1>1 DEF n
  <2>3. \A i \in 1 .. n - k : i \in 1 .. n - (k + 1) + 1 /\ (k + 1) + i - 1 = k + i
    BY <1>1, <2>2
  <2> QED
    BY <1>1, <2>1, <2>2, <2>3
<1> HIDE DEF t
<1>3. k \in Nat /\ k <= n /\ n - k \in Nat /\ n <= Len(s) /\ Len(t) <= Len(t)
  BY <1>1, <1>2
<1>4. Sizes(s)[n] - Sizes(s)[k] = Sizes(t)[n - k] - Sizes(t)[0]
  <2>1. \A i \in (k + 1) .. n : s[i] = t[i + (0 - k)]
    <3>1. ASSUME NEW i \in (k + 1) .. n PROVE s[i] = t[i + (0 - k)]
      <4>1. i - k \in 1 .. n - k /\ i + (0 - k) = i - k /\ k + (i - k) = i
        BY <1>3
      <4> QED
        BY <1>2, <4>1
    <3> QED
      BY <3>1
  <2>2. 0 <= n - k /\ n - k <= Len(t) /\ n - k = (n - k) - 0
    BY <1>2, <1>3
  <2> HIDE DEF n
  <2>3. Stretch(s, t, k, n, 0, n - k)
    BY <1>1, <1>2, <1>3, <2>1, <2>2 DEF Stretch
  <2> QED
    BY <2>3, EqualStretches
<1>5. n \in 0 .. Len(s) /\ n - k \in 0 .. Len(t)
  BY <1>1, <1>2, <1>3
<1>6. Sizes(t)[0] = 0 /\ Sizes(s)[k] \in Nat /\ Sizes(s)[n] \in Nat /\ Sizes(t)[n - k] \in Nat
  <2>1. Sizes(t)[0] = 0 /\ Sizes(t)[n - k] \in Nat
    BY <1>2, <1>5, SizesFacts
  <2>2. Sizes(s)[k] \in Nat /\ Sizes(s)[n] \in Nat
    BY <1>5, SizesFacts
  <2> QED
    BY <2>1, <2>2
<1>7. Total(t) = Total(s) - Sizes(s)[k]
  BY <1>2, <1>4, <1>6 DEF Total
<1> QED
  BY <1>2, <1>6, <1>7 DEF t

\* A sequence without one of its elements.
LEMMA WithoutElement ==
  ASSUME NEW S, NEW s \in Seq(S), NEW k \in 1 .. Len(s)
  PROVE  LET t == WithoutAt(s, k)
         IN  /\ t \in Seq(S) /\ Len(t) = Len(s) - 1
             /\ \A i \in 1 .. (k - 1) : t[i] = s[i]
             /\ \A i \in k .. Len(s) - 1 : t[i] = s[i + 1]
<1> DEFINE a == SubSeq(s, 1, k - 1)
           b == SubSeq(s, k + 1, Len(s))
           n == Len(s)
<1>1. n \in Nat /\ \A i \in 1 .. n : s[i] \in S
  BY LenProperties, ElementOfSeq
<1>2. a \in Seq(S) /\ Len(a) = k - 1 /\ \A i \in 1 .. (k - 1) : a[i] = s[i]
  <2>1. /\ a \in Seq(S)
        /\ Len(a) = IF 1 <= k - 1 THEN (k - 1) - 1 + 1 ELSE 0
        /\ \A i \in 1 .. (k - 1) - 1 + 1 : a[i] = s[1 + i - 1]
    <3>1. \A i \in 1 .. k - 1 : s[i] \in S
      BY <1>1
    <3> QED
      BY <3>1, SubSeqProperties
  <2> HIDE DEF a
  <2> QED
    BY <2>1
<1>3. b \in Seq(S) /\ Len(b) = n - k /\ \A i \in 1 .. (n - k) : b[i] = s[k + i]
  <2>1. /\ b \in Seq(S)
        /\ Len(b) = IF k + 1 <= n THEN n - (k + 1) + 1 ELSE 0
        /\ \A i \in 1 .. n - (k + 1) + 1 : b[i] = s[(k + 1) + i - 1]
    <3>1. \A i \in (k + 1) .. n : s[i] \in S
      BY <1>1
    <3> QED
      BY <1>1, <3>1, SubSeqProperties
  <2> HIDE DEF b
  <2>2. k \in Nat /\ k <= n
    BY <1>1
  <2> HIDE DEF n
  <2>3. \A i \in 1 .. (n - k) : i \in 1 .. n - (k + 1) + 1 /\ (k + 1) + i - 1 = k + i
    BY <1>1, <2>2
  <2> QED
    BY <1>1, <2>1, <2>2, <2>3
<1> HIDE DEF a, b
<1>4. /\ a \o b \in Seq(S) /\ Len(a \o b) = Len(a) + Len(b)
      /\ \A i \in 1 .. Len(a) + Len(b) :
           (a \o b)[i] = IF i <= Len(a) THEN a[i] ELSE b[i - Len(a)]
  BY <1>2, <1>3, ConcatProperties
<1> DEFINE t == a \o b
<1> HIDE DEF t
<1>5. t \in Seq(S) /\ Len(t) = n - 1
  BY <1>1, <1>2, <1>3, <1>4 DEF t
<1>6. \A i \in 1 .. (k - 1) : t[i] = s[i]
  BY <1>1, <1>2, <1>3, <1>4 DEF t
<1>7. ASSUME NEW i \in k .. n - 1 PROVE t[i] = s[i + 1]
  <2>1. i \in 1 .. Len(a) + Len(b) /\ ~(i <= Len(a)) /\ i - Len(a) \in 1 .. (n - k)
        /\ k + (i - Len(a)) = i + 1
    BY <1>1, <1>2, <1>3
  <2> QED
    BY <1>3, <1>4, <2>1 DEF t
<1>8. t = WithoutAt(s, k)
  BY DEF WithoutAt, t, a, b
<1> QED
  BY <1>5, <1>6, <1>7, <1>8

\* What is taken out counts no more.
LEMMA TotalWithout ==
  ASSUME NEW s \in Seq(Entries), NEW k \in 1 .. Len(s)
  PROVE  Total(WithoutAt(s, k)) = Total(s) - s[k].set.size /\ s[k].set.size \in Nat
<1> DEFINE t == WithoutAt(s, k)
           n == Len(s)
<1>1. /\ t \in Seq(Entries) /\ Len(t) = n - 1
      /\ \A i \in 1 .. (k - 1) : t[i] = s[i]
      /\ \A i \in k .. n - 1 : t[i] = s[i + 1]
  BY WithoutElement
<1>2. n \in Nat /\ s[k] \in Entries
  BY LenProperties, ElementOfSeq
<1> HIDE DEF t, n
<1>3. k \in 1 .. n /\ n <= Len(s) /\ k - 1 \in Nat /\ k - 1 <= n /\ k - 1 <= n - 1 /\ n - 1 \in Nat
  BY <1>2 DEF n
<1>4. k \in 0 .. Len(s) /\ k - 1 \in 0 .. Len(s) /\ n \in 0 .. Len(s)
      /\ k - 1 \in 0 .. Len(t) /\ n - 1 \in 0 .. Len(t) /\ k \in 1 .. Len(s) /\ Len(s) = n
  BY <1>1, <1>2, <1>3 DEF n
<1>5. Sizes(s)[k - 1] - Sizes(s)[0] = Sizes(t)[k - 1] - Sizes(t)[0]
  <2>1. \A i \in (0 + 1) .. (k - 1) : s[i] = t[i + (0 - 0)]
    BY <1>1, <1>3
  <2>2. 0 <= k - 1 /\ k - 1 <= Len(s) /\ k - 1 <= Len(t)
    BY <1>3, <1>4
  <2> DEFINE x == k - 1
  <2>3. x \in Nat /\ 0 <= x /\ x <= Len(s) /\ x <= Len(t) /\ \A i \in (0 + 1) .. x : s[i] = t[i + (0 - 0)]
    BY <1>3, <2>1, <2>2
  <2> HIDE DEF x
  <2>4. Stretch(s, t, 0, x, 0, x)
    BY <1>1, <2>3 DEF Stretch
  <2>5. Sizes(s)[x] - Sizes(s)[0] = Sizes(t)[x] - Sizes(t)[0]
    BY <2>4, EqualStretches
  <2> QED
    BY <2>5 DEF x
<1>6. Sizes(s)[n] - Sizes(s)[k] = Sizes(t)[n - 1] - Sizes(t)[k - 1]
  <2> DEFINE x == k - 1
             y == n - 1
  <2>1. ASSUME NEW i \in (k + 1) .. n PROVE s[i] = t[i + (x - k)]
    <3>1. i - 1 \in k .. n - 1 /\ i + (x - k) = i - 1 /\ (i - 1) + 1 = i
      BY <1>2, <1>3
    <3> QED
      BY <1>1, <1>4, <3>1
  <2>2. x \in Nat /\ y \in Nat /\ x <= y /\ y <= Len(t) /\ k <= n /\ n <= Len(s) /\ n - k = y - x
        /\ k \in Nat
    BY <1>2, <1>3, <1>4
  <2> HIDE DEF x, y
  <2>3. Stretch(s, t, k, n, x, y)
    BY <1>1, <1>2, <2>1, <2>2 DEF Stretch
  <2>4. Sizes(s)[n] - Sizes(s)[k] = Sizes(t)[y] - Sizes(t)[x]
    BY <2>3, EqualStretches
  <2> QED
    BY <2>4 DEF x, y
<1>7. Sizes(s)[k] = Sizes(s)[k - 1] + s[k].set.size /\ s[k].set.size \in Nat
  BY <1>4, SizesFacts
<1>8. /\ Sizes(s)[0] = 0 /\ Sizes(s)[k] \in Nat /\ Sizes(s)[k - 1] \in Nat /\ Sizes(s)[n] \in Nat
      /\ Sizes(t)[0] = 0 /\ Sizes(t)[n - 1] \in Nat /\ Sizes(t)[k - 1] \in Nat
  <2>1. Sizes(s)[0] = 0 /\ Sizes(s)[k] \in Nat /\ Sizes(s)[k - 1] \in Nat /\ Sizes(s)[n] \in Nat
    BY <1>4, SizesFacts
  <2>2. Sizes(t)[0] = 0 /\ Sizes(t)[n - 1] \in Nat /\ Sizes(t)[k - 1] \in Nat
    BY <1>1, <1>4, SizesFacts
  <2> QED
    BY <2>1, <2>2
<1>9. Sizes(t)[n - 1] = Sizes(s)[n] - s[k].set.size
  <2> DEFINE A == Sizes(s)[k - 1]
             B == Sizes(s)[k]
             C == Sizes(s)[n]
             D == Sizes(t)[k - 1]
             E == Sizes(t)[n - 1]
             z == s[k].set.size
  <2>1. A \in Nat /\ B \in Nat /\ C \in Nat /\ D \in Nat /\ E \in Nat /\ z \in Nat
    BY <1>7, <1>8
  <2>2. A - 0 = D - 0
    BY <1>5, <1>8
  <2>3. C - B = E - D /\ B = A + z
    BY <1>6, <1>7
  <2> HIDE DEF A, B, C, D, E, z
  <2>4. E = C - z
    BY <2>1, <2>2, <2>3
  <2> QED
    BY <2>4 DEF E, C, z
<1>11. Len(t) = n - 1 /\ Len(s) = n
  BY <1>1, <1>4
<1> QED
  BY <1>7, <1>9, <1>11 DEF Total, t


-----------------------------------------------------------------------------
(* The operations of a cache.                                                *)

\* What CacheExact says of one cache.
Distinct(s) == \A i, j \in DOMAIN s : s[i].origin = s[j].origin => i = j
Exact(c) ==
  /\ c.bytes = Total(c.entries) /\ c.bytes <= MaxBytes
  /\ Len(c.entries) <= MaxEntries /\ Distinct(c.entries)

\* Every entry of r is one of c; and nothing else but the entries has changed.
Within(r, c) == \A i \in DOMAIN r.entries : \E j \in DOMAIN c.entries : r.entries[i] = c.entries[j]
SameBackoffs(r, c) ==
  r.negative = c.negative /\ r.overflowUntil = c.overflowUntil /\ r.healthy = c.healthy

Changed(r, c, s, b) ==
  c \in Caches /\ s \in Seq(Entries) /\ b \in Int /\ r = [c EXCEPT !.entries = s, !.bytes = b]

\* A change of entries and bytes alone.
LEMMA EntriesChange ==
  ASSUME NEW r, NEW c, NEW s, NEW b, Changed(r, c, s, b)
  PROVE  r \in Caches /\ r.entries = s /\ r.bytes = b /\ SameBackoffs(r, c)
<1> DEFINE E == Seq(Entries)
<1>1. s \in E /\ b \in Int /\ r = [c EXCEPT !.entries = s, !.bytes = b]
  BY DEF Changed
<1>2. c \in [entries : E, bytes : Int, negative : Backoffs, overflowUntil : Nat, healthy : BOOLEAN]
  BY DEF Caches, Changed
<1> HIDE DEF E
<1>3. r \in [entries : E, bytes : Int, negative : Backoffs, overflowUntil : Nat, healthy : BOOLEAN]
      /\ r.entries = s /\ r.bytes = b /\ SameBackoffs(r, c)
  BY <1>1, <1>2 DEF SameBackoffs
<1>4. r \in Caches
  BY <1>3 DEF Caches, E
<1> QED
  BY <1>3, <1>4

\* The fields of a cache.
LEMMA CacheFields ==
  ASSUME NEW c \in Caches
  PROVE  /\ c.entries \in Seq(Entries) /\ c.bytes \in Int /\ c.negative \in Backoffs
         /\ c.overflowUntil \in Nat /\ c.healthy \in BOOLEAN
         /\ Len(c.entries) \in Nat /\ DOMAIN c.entries = 1 .. Len(c.entries)
<1>1. c.entries \in Seq(Entries) /\ c.bytes \in Int /\ c.negative \in Backoffs
      /\ c.overflowUntil \in Nat /\ c.healthy \in BOOLEAN
  BY DEF Caches
<1> QED
  BY <1>1, LenProperties

\* Taking an origin's entry out keeps the accounts, and leaves no entry of it.
LEMMA RemoveKeeps ==
  ASSUME NEW c \in Caches, Exact(c), NEW o
  PROVE  /\ Remove(c, o) \in Caches /\ Exact(Remove(c, o))
         /\ Within(Remove(c, o), c) /\ SameBackoffs(Remove(c, o), c)
         /\ o \notin Held(Remove(c, o))
<1> DEFINE s == c.entries
           n == Len(s)
           k == Place(c, o)
           t == WithoutAt(s, k)
<1>1. /\ s \in Seq(Entries) /\ n \in Nat /\ DOMAIN s = 1 .. n /\ c.bytes \in Int
  BY CacheFields
<1>2. CASE o \notin Held(c)
  BY <1>2 DEF Remove, Within, SameBackoffs
<1>3. CASE o \in Held(c)
  <2>1. k \in 1 .. n /\ s[k].origin = o
    BY <1>1, <1>3 DEF Held, Place
  <2> HIDE DEF k, s
  <2>2. /\ t \in Seq(Entries) /\ Len(t) = n - 1
        /\ \A i \in 1 .. (k - 1) : t[i] = s[i]
        /\ \A i \in k .. n - 1 : t[i] = s[i + 1]
    BY <1>1, <2>1, WithoutElement
  <2>3. Total(t) = Total(s) - s[k].set.size /\ s[k].set.size \in Nat
    BY <1>1, <2>1, TotalWithout
  <2>4. Remove(c, o) = [c EXCEPT !.entries = t, !.bytes = c.bytes - s[k].set.size]
    BY <1>3 DEF Remove, SetOf, s, k
  <2> DEFINE r == Remove(c, o)
             b == c.bytes - s[k].set.size
  <2>5. b \in Int
    BY <1>1, <2>3
  <2> HIDE DEF t, b, r
  <2>6. r \in Caches /\ r.entries = t /\ r.bytes = b /\ SameBackoffs(r, c)
    <3>1. r = [c EXCEPT !.entries = t, !.bytes = b]
      BY <2>4 DEF b, r
    <3>2. Changed(r, c, t, b)
      BY <2>2, <2>5, <3>1 DEF Changed
    <3> QED
      BY <3>2, EntriesChange
  <2>7. DOMAIN t = 1 .. n - 1
    BY <2>2, LenProperties
  <2>8. ASSUME NEW i \in 1 .. n - 1
        PROVE  LET j == IF i < k THEN i ELSE i + 1
               IN  j \in 1 .. n /\ j # k /\ t[i] = s[j]
    BY <1>1, <2>1, <2>2, <2>8
  <2>9. Distinct(s) /\ c.bytes = Total(s) /\ c.bytes <= MaxBytes /\ n <= MaxEntries
    BY DEF Exact, s
  <2>10. Distinct(t)
    <3>1. ASSUME NEW i \in 1 .. n - 1, NEW j \in 1 .. n - 1, t[i].origin = t[j].origin PROVE i = j
      <4> DEFINE x == IF i < k THEN i ELSE i + 1
                 y == IF j < k THEN j ELSE j + 1
      <4>1. x \in 1 .. n /\ y \in 1 .. n /\ t[i] = s[x] /\ t[j] = s[y]
        BY <2>8
      <4>2. x = y
        <5> HIDE DEF x, y
        <5> QED
          BY <1>1, <2>9, <3>1, <4>1 DEF Distinct
      <4> QED
        BY <1>1, <2>1, <4>2
    <3> QED
      BY <2>7, <3>1 DEF Distinct
  <2>11. Within(r, c)
    <3>1. ASSUME NEW i \in 1 .. n - 1 PROVE \E j \in 1 .. n : t[i] = s[j]
      BY <2>8
    <3> QED
      BY <1>1, <2>6, <2>7, <3>1 DEF Within, s
  <2>12. o \notin Held(r)
    <3>1. ASSUME NEW i \in 1 .. n - 1 PROVE t[i].origin # o
      <4> DEFINE x == IF i < k THEN i ELSE i + 1
      <4>1. x \in 1 .. n /\ x # k /\ t[i] = s[x]
        BY <2>8
      <4> HIDE DEF x
      <4> QED
        BY <1>1, <2>1, <2>9, <4>1 DEF Distinct
    <3> QED
      BY <2>6, <2>7, <3>1 DEF Held
  <2>13. Total(t) = b /\ b <= c.bytes
    BY <1>1, <2>3, <2>9 DEF b
  <2>14. Exact(r)
    <3>1. b <= MaxBytes /\ n - 1 <= MaxEntries
      BY <1>1, <2>5, <2>9, <2>13, DirectoryCacheAssumption
    <3> QED
      BY <2>2, <2>6, <2>10, <2>13, <3>1 DEF Exact
  <2> QED
    BY <2>6, <2>11, <2>12, <2>14 DEF r
<1> QED
  BY <1>2, <1>3

\* Dropping the oldest entries keeps the accounts.
LEMMA DroppedKeeps ==
  ASSUME NEW c \in Caches, Exact(c), NEW k \in 0 .. Len(c.entries)
  PROVE  /\ Dropped(c, k) \in Caches /\ Exact(Dropped(c, k))
         /\ Within(Dropped(c, k), c) /\ SameBackoffs(Dropped(c, k), c)
<1> DEFINE s == c.entries
           n == Len(s)
           t == SubSeq(s, k + 1, Len(s))
           b == c.bytes - Sizes(s)[k]
           r == Dropped(c, k)
<1>1. /\ s \in Seq(Entries) /\ n \in Nat /\ DOMAIN s = 1 .. n /\ c.bytes \in Int
      /\ k \in Nat /\ k <= n
  BY CacheFields
<1>2. r = [c EXCEPT !.entries = t, !.bytes = b]
  BY DEF Dropped
<1> HIDE DEF s, r
<1>3. /\ t \in Seq(Entries) /\ Len(t) = n - k
      /\ \A i \in 1 .. Len(t) : t[i] = s[k + i]
      /\ Total(t) = Total(s) - Sizes(s)[k] /\ Sizes(s)[k] \in Nat
  BY <1>1, TotalOfRest DEF s
<1> HIDE DEF t
<1>4. b \in Int /\ b <= c.bytes
  BY <1>1, <1>3
<1> HIDE DEF b
<1>5. r \in Caches /\ r.entries = t /\ r.bytes = b /\ SameBackoffs(r, c)
  <2>1. Changed(r, c, t, b)
    BY <1>2, <1>3, <1>4 DEF Changed
  <2> QED
    BY <2>1, EntriesChange
<1>6. DOMAIN t = 1 .. n - k
  BY <1>3, LenProperties
<1>7. Distinct(s) /\ c.bytes = Total(s) /\ c.bytes <= MaxBytes /\ n <= MaxEntries
  BY DEF Exact, s
<1>8. Distinct(t)
  <2>1. ASSUME NEW i \in 1 .. n - k, NEW j \in 1 .. n - k, t[i].origin = t[j].origin PROVE i = j
    <3>1. k + i \in 1 .. n /\ k + j \in 1 .. n /\ t[i] = s[k + i] /\ t[j] = s[k + j]
      BY <1>1, <1>3
    <3>2. k + i = k + j
      BY <1>1, <1>7, <2>1, <3>1 DEF Distinct
    <3> QED
      BY <1>1, <3>2
  <2> QED
    BY <1>6, <2>1 DEF Distinct
<1>9. Within(r, c)
  <2>1. ASSUME NEW i \in 1 .. n - k PROVE \E j \in 1 .. n : t[i] = s[j]
    <3>1. k + i \in 1 .. n /\ t[i] = s[k + i]
      BY <1>1, <1>3
    <3> QED
      BY <3>1
  <2> QED
    BY <1>1, <1>5, <1>6, <2>1 DEF Within, s
<1>10. Exact(r)
  <2>1. b = Total(t)
    BY <1>3, <1>7 DEF b
  <2>2. b <= MaxBytes /\ n - k <= MaxEntries
    BY <1>1, <1>4, <1>7, DirectoryCacheAssumption
  <2> QED
    BY <1>3, <1>5, <1>8, <2>1, <2>2 DEF Exact
<1> QED
  BY <1>5, <1>9, <1>10 DEF r

\* Eviction is such a drop.
LEMMA EvictKeeps ==
  ASSUME NEW c \in Caches, Exact(c), NEW size
  PROVE  /\ Evict(c, size) \in Caches /\ Exact(Evict(c, size))
         /\ Within(Evict(c, size), c) /\ SameBackoffs(Evict(c, size), c)
<1> DEFINE enough == {i \in 0 .. Len(c.entries) : HasRoom(Dropped(c, i), size)}
           k == IF enough = {} THEN Len(c.entries)
                ELSE CHOOSE i \in enough : \A j \in enough : i <= j
<1>1. Len(c.entries) \in Nat
  BY CacheFields
<1>2. k \in 0 .. Len(c.entries)
  <2>1. CASE enough = {}
    BY <1>1, <2>1
  <2>2. CASE enough # {}
    <3>1. enough \subseteq Nat /\ enough \subseteq 0 .. Len(c.entries)
      BY <1>1
    <3> HIDE DEF enough
    <3>2. \E i \in enough : \A j \in enough : i <= j
      BY <2>2, <3>1, LeastNatural
    <3> QED
      BY <2>2, <3>1, <3>2
  <2> QED
    BY <2>1, <2>2
<1>3. Evict(c, size) = Dropped(c, k)
  BY DEF Evict
<1> HIDE DEF k
<1> QED
  BY <1>2, <1>3, DroppedKeeps


SameEntries(r, c) == r.entries = c.entries /\ r.bytes = c.bytes

\* Nothing is fetched from o before until: it has passed, or the cache refuses.
Covers(c, o, until, t) ==
  \/ ~c.healthy \/ t >= until \/ c.overflowUntil >= until
  \/ o \in DOMAIN c.negative /\ c.negative[o] >= until

\* The table of failures.
LEMMA BackoffTypes ==
  /\ \A f \in Backoffs : DOMAIN f \subseteq Origins /\ \A o \in DOMAIN f : f[o] \in Nat
  /\ \A D \in SUBSET Origins : \A f \in [D -> Nat] : f \in Backoffs
BY DEF Backoffs

Backed(r, c, f, u, h) ==
  /\ c \in Caches /\ f \in Backoffs /\ u \in Nat /\ h \in BOOLEAN
  /\ r = [c EXCEPT !.negative = f, !.overflowUntil = u, !.healthy = h]

\* A change of everything but the entries and their bytes.
LEMMA BackoffChange ==
  ASSUME NEW r, NEW c, NEW f, NEW u, NEW h, Backed(r, c, f, u, h)
  PROVE  r \in Caches /\ SameEntries(r, c) /\ r.negative = f /\ r.overflowUntil = u /\ r.healthy = h
<1> DEFINE E == Seq(Entries)
<1>1. c \in [entries : E, bytes : Int, negative : Backoffs, overflowUntil : Nat, healthy : BOOLEAN]
  BY DEF Caches, Backed
<1> HIDE DEF E
<1>2. r \in [entries : E, bytes : Int, negative : Backoffs, overflowUntil : Nat, healthy : BOOLEAN]
      /\ SameEntries(r, c) /\ r.negative = f /\ r.overflowUntil = u /\ r.healthy = h
  BY <1>1 DEF SameEntries, Backed
<1> QED
  BY <1>2 DEF Caches, E

\* A cache is its fields.
LEMMA CacheEta ==
  ASSUME NEW c \in Caches
  PROVE  /\ \A f : [c EXCEPT !.negative = f]
                     = [c EXCEPT !.negative = f, !.overflowUntil = c.overflowUntil, !.healthy = c.healthy]
         /\ \A u : [c EXCEPT !.overflowUntil = u]
                     = [c EXCEPT !.negative = c.negative, !.overflowUntil = u, !.healthy = c.healthy]
         /\ \A h : [c EXCEPT !.healthy = h]
                     = [c EXCEPT !.negative = c.negative, !.overflowUntil = c.overflowUntil, !.healthy = h]
<1> DEFINE E == Seq(Entries)
<1>1. c \in [entries : E, bytes : Int, negative : Backoffs, overflowUntil : Nat, healthy : BOOLEAN]
  BY DEF Caches
<1> HIDE DEF E
<1> QED
  BY <1>1

\* A bad reading changes nothing but the health.
LEMMA SampledKeeps ==
  ASSUME NEW c \in Caches, NEW b \in BOOLEAN
  PROVE  /\ Sampled(c, b) \in Caches /\ SameEntries(Sampled(c, b), c)
         /\ Sampled(c, b).negative = c.negative /\ Sampled(c, b).overflowUntil = c.overflowUntil
         /\ Sampled(c, b).healthy = (c.healthy /\ b)
<1> DEFINE r == Sampled(c, b)
           h == c.healthy /\ b
<1>1. c.negative \in Backoffs /\ c.overflowUntil \in Nat /\ h \in BOOLEAN
  BY CacheFields
<1>2. r = [c EXCEPT !.healthy = h]
  BY DEF Sampled
<1> HIDE DEF r, h
<1>3. r = [c EXCEPT !.negative = c.negative, !.overflowUntil = c.overflowUntil, !.healthy = h]
  BY <1>2, CacheEta
<1>4. r \in Caches /\ SameEntries(r, c) /\ r.negative = c.negative
      /\ r.overflowUntil = c.overflowUntil /\ r.healthy = h
  <2>1. Backed(r, c, c.negative, c.overflowUntil, h)
    BY <1>1, <1>3 DEF Backed
  <2> QED
    BY <2>1, BackoffChange
<1> QED
  BY <1>4 DEF r, h

\* What is pruned has passed.
LEMMA PruneKeeps ==
  ASSUME NEW c \in Caches, NEW t \in Nat
  PROVE  /\ PruneNegative(c, t) \in Caches /\ SameEntries(PruneNegative(c, t), c)
         /\ PruneNegative(c, t).overflowUntil = c.overflowUntil
         /\ PruneNegative(c, t).healthy = c.healthy
         /\ \A o \in Origins, until \in Nat :
              Covers(c, o, until, t) => Covers(PruneNegative(c, t), o, until, t)
<1> DEFINE r == PruneNegative(c, t)
           f == [o \in {p \in DOMAIN c.negative : t < c.negative[p]} |-> c.negative[o]]
<1>1. c.negative \in Backoffs /\ c.overflowUntil \in Nat /\ c.healthy \in BOOLEAN
  BY CacheFields
<1>2. DOMAIN c.negative \subseteq Origins /\ \A o \in DOMAIN c.negative : c.negative[o] \in Nat
  BY <1>1, BackoffTypes
<1>3. f \in Backoffs
  BY <1>2, BackoffTypes
<1>4. r = [c EXCEPT !.negative = f]
  BY DEF PruneNegative
<1>5. ASSUME NEW o \in DOMAIN c.negative, t < c.negative[o]
      PROVE  o \in DOMAIN f /\ f[o] = c.negative[o]
  BY <1>5
<1> HIDE DEF r, f
<1>6. r = [c EXCEPT !.negative = f, !.overflowUntil = c.overflowUntil, !.healthy = c.healthy]
  BY <1>4, CacheEta
<1>7. r \in Caches /\ SameEntries(r, c) /\ r.negative = f
      /\ r.overflowUntil = c.overflowUntil /\ r.healthy = c.healthy
  <2>1. Backed(r, c, f, c.overflowUntil, c.healthy)
    BY <1>1, <1>3, <1>6 DEF Backed
  <2> QED
    BY <2>1, BackoffChange
<1>8. ASSUME NEW o \in Origins, NEW until \in Nat, Covers(c, o, until, t)
      PROVE  Covers(r, o, until, t)
  <2>1. CASE ~(o \in DOMAIN c.negative /\ c.negative[o] >= until)
    BY <1>7, <1>8, <2>1 DEF Covers
  <2>2. CASE o \in DOMAIN c.negative /\ c.negative[o] >= until /\ t < c.negative[o]
    BY <1>5, <1>7, <2>2 DEF Covers
  <2>3. CASE o \in DOMAIN c.negative /\ c.negative[o] >= until /\ ~(t < c.negative[o])
    BY <1>2, <2>3 DEF Covers
  <2> QED
    BY <2>1, <2>2, <2>3
<1> QED
  BY <1>7, <1>8 DEF r

\* Asking a cache prunes it.
LEMMA AskedKeeps ==
  ASSUME NEW c \in Caches, NEW t \in Nat
  PROVE  /\ Asked(c, t) \in Caches /\ SameEntries(Asked(c, t), c) /\ Asked(c, t).healthy = c.healthy
         /\ \A o \in Origins, until \in Nat :
              Covers(c, o, until, t) => Covers(Asked(c, t), o, until, t)
BY PruneKeeps DEF Asked, SameEntries

\* A failure is covered for its period, by a backoff of its own or by that of
\* everything; and what was covered stays so.
LEMMA FailureKeeps ==
  ASSUME NEW c \in Caches, NEW o \in Origins, NEW t \in Nat
  PROVE  /\ Failure(c, o, t) \in Caches /\ SameEntries(Failure(c, o, t), c)
         /\ Failure(c, o, t).healthy = c.healthy
         /\ \A x \in Origins, until \in Nat :
              Covers(c, x, until, t) => Covers(Failure(c, o, t), x, until, t)
         /\ Covers(Failure(c, o, t), o, t + NegativePeriod, t)
<1> DEFINE q == PruneNegative(c, t)
           d == t + NegativePeriod
           r == Failure(c, o, t)
<1>1. /\ q \in Caches /\ SameEntries(q, c) /\ q.healthy = c.healthy
      /\ q.overflowUntil = c.overflowUntil
      /\ \A x \in Origins, until \in Nat : Covers(c, x, until, t) => Covers(q, x, until, t)
  BY PruneKeeps
<1>2. d \in Nat /\ NegativePeriod \in Nat
  BY DirectoryCacheAssumption
<1>3. CASE ~c.healthy
  BY <1>3 DEF Failure, Covers, SameEntries
<1>4. CASE c.healthy /\ NegativePeriod = 0
  <2>1. r = q /\ t >= d
    BY <1>4 DEF Failure
  <2> QED
    BY <1>1, <2>1 DEF Covers
<1>5. q.negative \in Backoffs /\ q.overflowUntil \in Nat /\ q.healthy \in BOOLEAN
  BY <1>1, CacheFields
<1>6. DOMAIN q.negative \subseteq Origins /\ \A x \in DOMAIN q.negative : q.negative[x] \in Nat
  BY <1>5, BackoffTypes
<1>7. CASE /\ c.healthy /\ NegativePeriod # 0
           /\ o \in DOMAIN q.negative \/ Cardinality(DOMAIN q.negative) < MaxNegative
  <2> DEFINE g == q.negative
             e == Later(d, IF o \in DOMAIN g THEN g[o] ELSE 0)
             f == With(g, o, e)
  <2>1. r = [q EXCEPT !.negative = f]
    BY <1>7 DEF Failure
  <2>2. e \in Nat /\ e >= d /\ (o \in DOMAIN g => e >= g[o])
    BY <1>2, <1>6 DEF Later
  <2> HIDE DEF e, g
  <2>3. f \in [DOMAIN g \cup {o} -> Nat] /\ DOMAIN g \cup {o} \in SUBSET Origins
    BY <1>6, <2>2 DEF With, g
  <2>4. f \in Backoffs
    BY <2>3, BackoffTypes
  <2>5. /\ o \in DOMAIN f /\ f[o] = e
        /\ \A x \in DOMAIN g : x # o => x \in DOMAIN f /\ f[x] = g[x]
    BY DEF With
  <2> HIDE DEF f, q, r, d
  <2>6. r = [q EXCEPT !.negative = f, !.overflowUntil = q.overflowUntil, !.healthy = q.healthy]
    BY <1>1, <2>1, CacheEta
  <2>7. r \in Caches /\ SameEntries(r, q) /\ r.negative = f
        /\ r.overflowUntil = q.overflowUntil /\ r.healthy = q.healthy
    <3>1. Backed(r, q, f, q.overflowUntil, q.healthy)
      BY <1>1, <1>5, <2>4, <2>6 DEF Backed
    <3> QED
      BY <3>1, BackoffChange
  <2>8. Covers(r, o, d, t)
    BY <1>2, <2>2, <2>5, <2>7 DEF Covers
  <2>9. ASSUME NEW x \in Origins, NEW until \in Nat, Covers(q, x, until, t)
        PROVE  Covers(r, x, until, t)
    <3>1. CASE x # o \/ ~(x \in DOMAIN g /\ g[x] >= until)
      BY <2>5, <2>7, <2>9, <3>1 DEF Covers, g
    <3>2. CASE x = o /\ x \in DOMAIN g /\ g[x] >= until
      <4>1. g[o] \in Nat
        BY <1>6, <3>2 DEF g
      <4>2. f[o] >= until
        BY <2>2, <2>5, <3>2, <4>1
      <4> QED
        BY <2>5, <2>7, <3>2, <4>2 DEF Covers
    <3> QED
      BY <3>1, <3>2
  <2> QED
    BY <1>1, <2>7, <2>8, <2>9 DEF SameEntries, r, d
<1>8. CASE /\ c.healthy /\ NegativePeriod # 0
           /\ ~(o \in DOMAIN q.negative \/ Cardinality(DOMAIN q.negative) < MaxNegative)
  <2> DEFINE u == Later(q.overflowUntil, d)
  <2>1. r = [q EXCEPT !.overflowUntil = u]
    BY <1>8 DEF Failure
  <2>2. u \in Nat /\ u >= d /\ u >= q.overflowUntil
    BY <1>2, <1>5 DEF Later
  <2> HIDE DEF u, q, r, d
  <2>3. r = [q EXCEPT !.negative = q.negative, !.overflowUntil = u, !.healthy = q.healthy]
    BY <1>1, <2>1, CacheEta
  <2>4. r \in Caches /\ SameEntries(r, q) /\ r.negative = q.negative
        /\ r.overflowUntil = u /\ r.healthy = q.healthy
    <3>1. Backed(r, q, q.negative, u, q.healthy)
      BY <1>1, <1>5, <2>2, <2>3 DEF Backed
    <3> QED
      BY <3>1, BackoffChange
  <2>5. Covers(r, o, d, t)
    BY <1>2, <2>2, <2>4 DEF Covers
  <2>6. ASSUME NEW x \in Origins, NEW until \in Nat, Covers(q, x, until, t)
        PROVE  Covers(r, x, until, t)
    BY <1>5, <2>2, <2>4, <2>6 DEF Covers
  <2> QED
    BY <1>1, <2>4, <2>5, <2>6 DEF SameEntries, r, d
<1> QED
  BY <1>3, <1>4, <1>7, <1>8


\* Forgetting the failure of one origin uncovers no other.
LEMMA ForgetKeeps ==
  ASSUME NEW c \in Caches, NEW o
  PROVE  LET r == [c EXCEPT !.negative = Without(@, o)]
         IN  /\ r \in Caches /\ SameEntries(r, c) /\ r.healthy = c.healthy
             /\ \A x, until, t : x # o /\ Covers(c, x, until, t) => Covers(r, x, until, t)
<1> DEFINE g == c.negative
           f == Without(g, o)
           r == [c EXCEPT !.negative = f]
<1>1. g \in Backoffs /\ c.overflowUntil \in Nat /\ c.healthy \in BOOLEAN
  BY CacheFields
<1>2. DOMAIN g \subseteq Origins /\ \A x \in DOMAIN g : g[x] \in Nat
  BY <1>1, BackoffTypes
<1> HIDE DEF g
<1>3. f \in [DOMAIN g \ {o} -> Nat] /\ DOMAIN g \ {o} \in SUBSET Origins
  BY <1>2 DEF Without
<1>4. f \in Backoffs
  BY <1>3, BackoffTypes
<1>5. \A x \in DOMAIN g : x # o => x \in DOMAIN f /\ f[x] = g[x]
  BY DEF Without
<1> HIDE DEF f
<1>6. r = [c EXCEPT !.negative = f, !.overflowUntil = c.overflowUntil, !.healthy = c.healthy]
  BY CacheEta
<1> HIDE DEF r
<1>7. r \in Caches /\ SameEntries(r, c) /\ r.negative = f
      /\ r.overflowUntil = c.overflowUntil /\ r.healthy = c.healthy
  <2>1. Backed(r, c, f, c.overflowUntil, c.healthy)
    BY <1>1, <1>4, <1>6 DEF Backed
  <2> QED
    BY <2>1, BackoffChange
<1>8. ASSUME NEW x, NEW until, NEW t, x # o, Covers(c, x, until, t) PROVE Covers(r, x, until, t)
  BY <1>5, <1>7, <1>8 DEF Covers, g
<1>9. r = [c EXCEPT !.negative = Without(@, o)]
  BY DEF r, f, g
<1> QED
  BY <1>7, <1>8, <1>9

\* Where a committed cache has its entries from.
Takes(r, c, o, set) ==
  \A i \in DOMAIN r.entries :
    \/ r.entries[i].origin = o /\ r.entries[i].set = set
    \/ r.entries[i].origin # o /\ \E j \in DOMAIN c.entries : r.entries[i] = c.entries[j]

\* Adding an entry of an origin that has none.
LEMMA AddKeeps ==
  ASSUME NEW c \in Caches, Exact(c), NEW o \in Origins, NEW set \in KeySets,
         o \notin Held(c), HasRoom(c, set.size)
  PROVE  LET r == [c EXCEPT !.entries = Append(@, [origin |-> o, set |-> set]),
                            !.bytes = @ + set.size]
         IN  r \in Caches /\ Exact(r) /\ SameBackoffs(r, c) /\ Takes(r, c, o, set)
<1> DEFINE s == c.entries
           n == Len(s)
           e == [origin |-> o, set |-> set]
           t == Append(s, e)
           b == c.bytes + set.size
           r == [c EXCEPT !.entries = t, !.bytes = b]
<1>1. s \in Seq(Entries) /\ n \in Nat /\ DOMAIN s = 1 .. n /\ c.bytes \in Int
  BY CacheFields
<1>2. e \in Entries /\ e.origin = o /\ e.set = set /\ set.size \in Nat
  BY DEF Entries, KeySets
<1>3. /\ Distinct(s) /\ c.bytes = Total(s) /\ \A i \in 1 .. n : s[i].origin # o
      /\ n < MaxEntries /\ b <= MaxBytes
  BY <1>1 DEF Exact, Held, HasRoom
<1> HIDE DEF s, e
<1>4. t \in Seq(Entries) /\ Len(t) = n + 1 /\ t[n + 1] = e /\ \A i \in 1 .. n : t[i] = s[i]
  BY <1>1, <1>2, AppendProperties
<1>5. Total(t) = Total(s) + set.size
  BY <1>1, <1>2, TotalOfAppend
<1> HIDE DEF t
<1>6. b \in Int
  BY <1>1, <1>2
<1> HIDE DEF b
<1>7. r \in Caches /\ r.entries = t /\ r.bytes = b /\ SameBackoffs(r, c)
  <2>1. Changed(r, c, t, b)
    BY <1>4, <1>6 DEF Changed
  <2> HIDE DEF r
  <2> QED
    BY <2>1, EntriesChange
<1> HIDE DEF r
<1>8. DOMAIN t = 1 .. n + 1
  BY <1>4, LenProperties
<1>9. Distinct(t)
  <2>1. ASSUME NEW i \in 1 .. n + 1, NEW j \in 1 .. n + 1, t[i].origin = t[j].origin PROVE i = j
    <3>1. CASE i = n + 1 /\ j # n + 1
      BY <1>1, <1>2, <1>3, <1>4, <2>1, <3>1
    <3>2. CASE j = n + 1 /\ i # n + 1
      BY <1>1, <1>2, <1>3, <1>4, <2>1, <3>2
    <3>3. CASE i # n + 1 /\ j # n + 1
      <4>1. i \in 1 .. n /\ j \in 1 .. n
        BY <1>1, <3>3
      <4> QED
        BY <1>1, <1>3, <1>4, <2>1, <4>1 DEF Distinct
    <3> QED
      BY <3>1, <3>2, <3>3
  <2> QED
    BY <1>8, <2>1 DEF Distinct
<1>10. b = Total(t)
  BY <1>3, <1>5 DEF b
<1>11. n + 1 <= MaxEntries
  BY <1>1, <1>3, DirectoryCacheAssumption
<1>12. Exact(r)
  BY <1>3, <1>4, <1>7, <1>9, <1>10, <1>11 DEF Exact
<1>13. Takes(r, c, o, set)
  <2>1. ASSUME NEW i \in 1 .. n + 1
        PROVE  \/ t[i].origin = o /\ t[i].set = set
               \/ t[i].origin # o /\ \E j \in 1 .. n : t[i] = s[j]
    <3>1. CASE i = n + 1
      BY <1>2, <1>4, <3>1
    <3>2. CASE i # n + 1
      <4>1. i \in 1 .. n
        BY <1>1, <3>2
      <4> QED
        BY <1>3, <1>4, <4>1
    <3> QED
      BY <3>1, <3>2
  <2> QED
    BY <1>1, <1>7, <1>8, <2>1 DEF Takes, s
<1> QED
  BY <1>7, <1>12, <1>13 DEF r, t, b, s, e

\* A commit keeps the accounts and what was covered for other origins, and the
\* entries that it leaves are those of other origins and the new set.
LEMMA CommitKeeps ==
  ASSUME NEW c \in Caches, Exact(c), NEW o \in Origins, NEW set \in KeySets, NEW t
  PROVE  /\ Commit(c, o, set, t) \in Caches /\ Exact(Commit(c, o, set, t))
         /\ Commit(c, o, set, t).healthy = c.healthy
         /\ \A x, until : x # o /\ Covers(c, x, until, t) => Covers(Commit(c, o, set, t), x, until, t)
         /\ c.healthy => Takes(Commit(c, o, set, t), c, o, set)
<1>1. CASE ~c.healthy
  BY <1>1 DEF Commit
<1>2. CASE c.healthy
  <2> DEFINE a == Remove(c, o)
             d == [a EXCEPT !.negative = Without(@, o)]
             e == Evict(d, set.size)
             r == Commit(c, o, set, t)
             full == [e EXCEPT !.entries = Append(@, [origin |-> o, set |-> set]),
                               !.bytes = @ + set.size]
  <2>1. r = IF ~Retainable(set, t) THEN d ELSE IF ~HasRoom(e, set.size) THEN e ELSE full
    BY <1>2 DEF Commit
  <2> HIDE DEF r
  <2>2. a \in Caches /\ Exact(a) /\ Within(a, c) /\ SameBackoffs(a, c) /\ o \notin Held(a)
    BY RemoveKeeps
  <2> HIDE DEF a
  <2>3. /\ d \in Caches /\ SameEntries(d, a) /\ d.healthy = a.healthy
        /\ \A x, until : x # o /\ Covers(a, x, until, t) => Covers(d, x, until, t)
    BY <2>2, ForgetKeeps
  <2> HIDE DEF d
  <2>4. /\ Exact(d) /\ Within(d, c) /\ o \notin Held(d) /\ d.healthy = c.healthy
        /\ \A x, until : x # o /\ Covers(c, x, until, t) => Covers(d, x, until, t)
    <3>1. Exact(d) /\ Within(d, c) /\ o \notin Held(d) /\ d.healthy = c.healthy
      BY <2>2, <2>3 DEF Exact, Within, Held, SameEntries, SameBackoffs
    <3>2. ASSUME NEW x, NEW until, x # o, Covers(c, x, until, t) PROVE Covers(d, x, until, t)
      <4>1. Covers(a, x, until, t)
        BY <2>2, <3>2 DEF Covers, SameBackoffs
      <4> QED
        BY <2>3, <3>2, <4>1
    <3> QED
      BY <3>1, <3>2
  <2>5. e \in Caches /\ Exact(e) /\ Within(e, d) /\ SameBackoffs(e, d)
    BY <2>3, <2>4, EvictKeeps
  <2> HIDE DEF e
  <2>6. /\ Within(e, c) /\ o \notin Held(e) /\ e.healthy = c.healthy
        /\ \A x, until : x # o /\ Covers(c, x, until, t) => Covers(e, x, until, t)
    <3>1. Within(e, c) /\ o \notin Held(e) /\ e.healthy = c.healthy
      BY <2>4, <2>5 DEF Within, Held, SameBackoffs
    <3>2. ASSUME NEW x, NEW until, x # o, Covers(c, x, until, t) PROVE Covers(e, x, until, t)
      <4>1. Covers(d, x, until, t)
        BY <2>4, <3>2
      <4> QED
        BY <2>5, <4>1 DEF Covers, SameBackoffs
    <3> QED
      BY <3>1, <3>2
  <2>7. CASE r = d
    <3>1. Takes(d, c, o, set)
      BY <2>4 DEF Takes, Within, Held
    <3> QED
      BY <2>3, <2>4, <2>7, <3>1 DEF r
  <2>8. CASE r = e
    <3>1. Takes(e, c, o, set)
      BY <2>6 DEF Takes, Within, Held
    <3> QED
      BY <2>5, <2>6, <2>8, <3>1 DEF r
  <2>9. CASE r = full /\ HasRoom(e, set.size)
    <3>1. full \in Caches /\ Exact(full) /\ SameBackoffs(full, e) /\ Takes(full, e, o, set)
      BY <2>5, <2>6, <2>9, AddKeeps
    <3> HIDE DEF full
    <3>2. Takes(full, c, o, set)
      BY <2>6, <3>1 DEF Takes, Within
    <3>3. ASSUME NEW x, NEW until, x # o, Covers(c, x, until, t) PROVE Covers(full, x, until, t)
      <4>1. Covers(e, x, until, t)
        BY <2>6, <3>3
      <4> QED
        BY <3>1, <4>1 DEF Covers, SameBackoffs
    <3>4. full.healthy = c.healthy
      BY <2>6, <3>1 DEF SameBackoffs
    <3> QED
      BY <2>9, <3>1, <3>2, <3>3, <3>4 DEF r
  <2> QED
    BY <2>1, <2>7, <2>8, <2>9
<1> QED
  BY <1>1, <1>2, CacheFields


-----------------------------------------------------------------------------
(* Types.                                                                    *)

\* The parts are what TypeOK says.
LEMMA TypedIsTypeOK == Typed => TypeOK
<1>1. ASSUME Typed PROVE delivery = None \/ delivery.origin \in Origins
  BY <1>1 DEF Typed, FetchTypes, Deliveries
<1> QED
  BY <1>1 DEF Typed, TypeOK, ClockTypes, HealthTypes, FetchTypes, Flights, TaskTypes, TaskRecords,
     Answers, CallTypes, Places

\* What is delivered is a key set.
LEMMA DeliveredTyped ==
  ASSUME FetchTypes, delivery # None
  PROVE  /\ Delivered \in KeySets /\ delivery.origin \in Origins
         /\ delivery.response.valid \subseteq Profiles
<1>1. delivery \in Deliveries
  BY DEF FetchTypes
<1>2. delivery.response \in Responses /\ delivery.received \in Nat /\ delivery.origin \in Origins
  BY <1>1 DEF Deliveries
<1>3. delivery.response \in Prepared
  BY <1>2, DirectoryDiscoveryAssumption
<1> QED
  BY <1>2, <1>3 DEF Prepared, Delivered, KeySets

\* A step that gives an answer keeps the tasks' types.
LEMMA AnswerTyped ==
  ASSUME TaskTypes, NEW o \in Origins, NEW answers \in [Profiles -> Answers], Answer(o, answers)
  PROVE  TaskTypes'
<1>1. ASSUME NEW p \in Profiles
      PROVE  [task[p] EXCEPT ![o] =
                IF @.phase = "waiting" THEN [@ EXCEPT !.phase = "arrived", !.answer = answers[p]]
                ELSE @] \in [Origins -> TaskRecords]
  <2>1. task[p] \in [Origins -> TaskRecords] /\ task[p][o] \in TaskRecords /\ answers[p] \in Answers
    BY DEF TaskTypes
  <2>2. [task[p][o] EXCEPT !.phase = "arrived", !.answer = answers[p]] \in TaskRecords
    BY <2>1 DEF TaskRecords
  <2> QED
    BY <2>1, <2>2
<1> QED
  BY <1>1 DEF Answer, TaskTypes

\* So does the change of one task.
LEMMA TaskChange ==
  ASSUME TaskTypes, NEW p \in Profiles, NEW o \in Origins, NEW r \in TaskRecords,
         task' = [task EXCEPT ![p][o] = r]
  PROVE  TaskTypes'
BY DEF TaskTypes

\* Creation of a task.
LEMMA CreateTyped ==
  ASSUME ClockTypes, TaskTypes, NEW p \in Profiles, NEW o \in Origins, CreateTask(p, o)
  PROVE  TaskTypes'
<1>1. [NoTask EXCEPT !.phase = "created", !.started = now] \in TaskRecords
  BY DEF NoTask, TaskRecords, ClockTypes, Answers
<1> QED
  BY <1>1, TaskChange DEF CreateTask, TaskTypes

\* The end of a task.
LEMMA EndTyped ==
  ASSUME TaskTypes, CallTypes, NEW p \in Profiles, NEW o \in Origins, TaskEnds(p, o)
  PROVE  TaskTypes' /\ CallTypes'
<1>1. NoTask \in TaskRecords
  BY DEF NoTask, TaskRecords, Answers
<1>2. TaskTypes'
  BY <1>1, TaskChange DEF TaskEnds
<1>3. pc' \in [Invocations -> Places]
  BY DEF TaskEnds, CallTypes, Places
<1>4. CallTypes'
  BY <1>3 DEF TaskEnds, CallTypes
<1> QED
  BY <1>2, <1>4

\* The candidate that a verification is at.
LEMMA CurrentTyped ==
  ASSUME CallTypes, NEW v \in Invocations
  PROVE  /\ Current(v) \in CandidateSet /\ Current(v).profile \in Profiles
         /\ Current(v).origin \in Origins
         /\ ~IsLast(v) => index[v] + 1 \in DOMAIN Candidates[v]
<1>1. Candidates[v] \in Seq(CandidateSet)
  BY DirectoryDiscoveryAssumption
<1>2. Len(Candidates[v]) \in Nat /\ DOMAIN Candidates[v] = 1 .. Len(Candidates[v])
  BY <1>1, LenProperties
<1>3. index[v] \in 1 .. Len(Candidates[v])
  BY <1>2 DEF CallTypes
<1>4. Current(v) \in CandidateSet
  BY <1>1, <1>3, ElementOfSeq DEF Current
<1> QED
  BY <1>2, <1>3, <1>4 DEF CandidateSet, IsLast

\* Going on to the next candidate.
LEMMA AdvanceTyped ==
  ASSUME CallTypes, NEW v \in Invocations, NEW E \in SUBSET CandidateSet, Advance(v, E),
         UNCHANGED <<spent, fetches>>
  PROVE  CallTypes'
<1>1. CASE ~IsLast(v)
  <2>1. index' = [index EXCEPT ![v] = @ + 1] /\ pc' = [pc EXCEPT ![v] = "resolving"]
        /\ kept' = [kept EXCEPT ![v] = E]
    BY <1>1 DEF Advance
  <2>2. index[v] + 1 \in DOMAIN Candidates[v]
    BY <1>1, CurrentTyped
  <2> QED
    BY <2>1, <2>2 DEF CallTypes, Places
<1>2. CASE IsLast(v)
  <2>1. pc' = [pc EXCEPT ![v] = "consuming"] /\ index' = index
        /\ kept' = [kept EXCEPT ![v] = {c \in E : Rechecked(c)}]
    BY <1>2 DEF Advance
  <2> QED
    BY <2>1 DEF CallTypes, Places
<1> QED
  BY <1>1, <1>2


-----------------------------------------------------------------------------
(* What a step does to the caches.                                           *)

\* A step leaves the entries of c alone, cures nothing and uncovers nothing.
Quiet(r, c) ==
  /\ r \in Caches /\ SameEntries(r, c) /\ (r.healthy => c.healthy)
  /\ \A x \in Origins, until \in Nat : Covers(c, x, until, now) => Covers(r, x, until, now)
QuietStep == \A p \in Profiles : Quiet(cache'[p], cache[p])

\* A bad reading, pruning and failures are quiet.
LEMMA QuietOperations ==
  ASSUME ClockTypes, CacheTypes, NEW p \in Profiles
  PROVE  /\ Quiet(cache[p], cache[p]) /\ Quiet(SampledCache(p), cache[p])
         /\ Quiet(Asked(SampledCache(p), now), cache[p])
         /\ \A o \in Origins :
              /\ Quiet(Recorded(p, o), cache[p])
              /\ Covers(Recorded(p, o), o, now + NegativePeriod, now)
<1> DEFINE c == cache[p]
           s == SampledCache(p)
           b == ~broken
<1>1. c \in Caches /\ now \in Nat /\ b \in BOOLEAN
  BY DEF CacheTypes, ClockTypes
<1>2. Quiet(c, c)
  BY <1>1 DEF Quiet, SameEntries
<1>3. s = Sampled(c, b)
  BY DEF SampledCache
<1> HIDE DEF c, s, b
<1>4. /\ s \in Caches /\ SameEntries(s, c) /\ s.negative = c.negative
      /\ s.overflowUntil = c.overflowUntil /\ s.healthy = (c.healthy /\ b)
  BY <1>1, <1>3, SampledKeeps
<1>5. Quiet(s, c)
  BY <1>4 DEF Quiet, Covers
<1>6. Quiet(Asked(s, now), c)
  <2>1. /\ Asked(s, now) \in Caches /\ SameEntries(Asked(s, now), s)
        /\ Asked(s, now).healthy = s.healthy
        /\ \A x \in Origins, until \in Nat :
             Covers(s, x, until, now) => Covers(Asked(s, now), x, until, now)
    BY <1>1, <1>4, AskedKeeps
  <2> QED
    BY <1>5, <2>1 DEF Quiet, SameEntries
<1>7. ASSUME NEW o \in Origins
      PROVE  Quiet(Failure(s, o, now), c) /\ Covers(Failure(s, o, now), o, now + NegativePeriod, now)
  <2>1. /\ Failure(s, o, now) \in Caches /\ SameEntries(Failure(s, o, now), s)
        /\ Failure(s, o, now).healthy = s.healthy
        /\ \A x \in Origins, until \in Nat :
             Covers(s, x, until, now) => Covers(Failure(s, o, now), x, until, now)
        /\ Covers(Failure(s, o, now), o, now + NegativePeriod, now)
    BY <1>1, <1>4, FailureKeeps
  <2> QED
    BY <1>5, <2>1 DEF Quiet, SameEntries
<1> QED
  BY <1>2, <1>5, <1>6, <1>7 DEF Recorded, c, s

\* A step that changes one cache quietly is quiet.
LEMMA OneQuiet ==
  ASSUME ClockTypes, CacheTypes, NEW p \in Profiles, NEW r, Quiet(r, cache[p]),
         cache' = [cache EXCEPT ![p] = r]
  PROVE  CacheTypes' /\ QuietStep
<1>1. \A q \in Profiles : cache'[q] = IF q = p THEN r ELSE cache[q]
  BY DEF CacheTypes
<1>2. QuietStep
  BY <1>1, QuietOperations DEF QuietStep
<1>3. r \in Caches
  BY DEF Quiet
<1>4. CacheTypes'
  BY <1>3 DEF CacheTypes
<1> QED
  BY <1>2, <1>4

\* So is one that changes none.
LEMMA NoneQuiet ==
  ASSUME ClockTypes, CacheTypes, UNCHANGED cache
  PROVE  CacheTypes' /\ QuietStep
BY QuietOperations DEF QuietStep, CacheTypes

\* What a delivery makes of the cache of p.
LEMMA DistributedKeeps ==
  ASSUME ClockTypes, CacheTypes, FetchTypes, delivery # None, ~broken,
         NEW p \in Profiles, Exact(cache[p])
  PROVE  LET o == delivery.origin
             r == Distributed(p)
         IN  /\ r \in Caches /\ Exact(r) /\ (r.healthy => cache[p].healthy)
             /\ \A x \in Origins, until \in Nat :
                  /\ x # o \/ p \notin delivery.response.valid
                  /\ Covers(cache[p], x, until, now)
                  => Covers(r, x, until, now)
             /\ p \notin delivery.response.valid =>
                  SameEntries(r, cache[p]) /\ Covers(r, o, now + NegativePeriod, now)
             /\ p \in delivery.response.valid /\ cache[p].healthy =>
                  Takes(r, cache[p], o, Delivered)
<1> DEFINE o == delivery.origin
           r == Distributed(p)
           s == SampledCache(p)
           c == cache[p]
<1>1. o \in Origins /\ Delivered \in KeySets /\ now \in Nat
  BY DeliveredTyped DEF ClockTypes
<1>2. Quiet(s, c) /\ Quiet(Recorded(p, o), c) /\ Covers(Recorded(p, o), o, now + NegativePeriod, now)
  BY <1>1, QuietOperations
<1>3. s \in Caches /\ Exact(s) /\ s.healthy = c.healthy
  <2>1. c \in Caches /\ (~broken) \in BOOLEAN
    BY DEF CacheTypes, ClockTypes
  <2>2. SameEntries(s, c) /\ s.healthy = (c.healthy /\ ~broken) /\ c.healthy \in BOOLEAN
    BY <2>1, SampledKeeps, CacheFields DEF SampledCache
  <2> QED
    BY <1>2, <2>2 DEF Exact, SameEntries, Quiet
<1>4. CASE p \in delivery.response.valid
  <2>1. r = Commit(s, o, Delivered, now)
    BY <1>4 DEF Distributed
  <2> HIDE DEF r, s, o
  <2>2. /\ r \in Caches /\ Exact(r) /\ r.healthy = s.healthy
        /\ \A x, until : x # o /\ Covers(s, x, until, now) => Covers(r, x, until, now)
        /\ s.healthy => Takes(r, s, o, Delivered)
    BY <1>1, <1>3, <2>1, CommitKeeps
  <2>3. c.healthy => Takes(r, c, o, Delivered)
    BY <1>2, <1>3, <2>2 DEF Takes, Quiet, SameEntries
  <2>4. ASSUME NEW x \in Origins, NEW until \in Nat, x # o, Covers(c, x, until, now)
        PROVE  Covers(r, x, until, now)
    BY <1>2, <2>2, <2>4 DEF Quiet
  <2> QED
    BY <1>3, <1>4, <2>2, <2>3, <2>4 DEF o, r
<1>5. CASE p \notin delivery.response.valid
  <2>1. r = Recorded(p, o)
    BY <1>5 DEF Distributed, Recorded
  <2>2. Exact(r)
    BY <1>2, <2>1 DEF Exact, Quiet, SameEntries
  <2> HIDE DEF r, s
  <2>3. Quiet(r, c) /\ Covers(r, o, now + NegativePeriod, now)
    BY <1>2, <2>1
  <2> HIDE DEF o
  <2> QED
    BY <1>5, <2>2, <2>3 DEF Quiet, r, o
<1> QED
  BY <1>4, <1>5


-----------------------------------------------------------------------------
(* The inductive invariant.                                                  *)

CachesExact == \A p \in Profiles : Exact(cache[p])

\* While a cache trusts its clock, each set it holds is the last that its origin
\* delivered for its profile.
HeldIsLatest ==
  \A p \in Profiles : cache[p].healthy =>
    \A i \in DOMAIN cache[p].entries :
      latest[p][cache[p].entries[i].origin] = cache[p].entries[i].set

\* The last failure of an origin is covered to the end of its period.
BackoffKept ==
  \A p \in Profiles, o \in Origins : failedAt[p][o] # None =>
    failedAt[p][o] <= now /\ Covers(cache[p], o, failedAt[p][o] + NegativePeriod, now)

IInv == Typed /\ Spending /\ CachesExact /\ HeldIsLatest /\ BackoffKept

\* CacheExact in these terms.
LEMMA ExactIsCacheExact == CachesExact <=> CacheExact
BY DEF CachesExact, CacheExact, Exact, Total, Distinct

\* The invariant holds at first.
LEMMA InitIInv == Init => IInv
<1> SUFFICES ASSUME Init PROVE IInv
  OBVIOUS
<1>1. EmptyCache \in Caches /\ Exact(EmptyCache) /\ EmptyCache.entries = <<>>
  <2>1. <<>> \in Seq(Entries) /\ Len(<<>>) = 0
    BY EmptySeq
  <2>2. [o \in {} |-> 0] \in Backoffs
    <3>1. [o \in {} |-> 0] \in [{} -> Nat] /\ {} \in SUBSET Origins
      OBVIOUS
    <3> QED
      BY <3>1, BackoffTypes, Zenon
  <2>3. Total(<<>>) = 0
    BY <2>1, SizesFacts DEF Total
  <2>4. EmptyCache \in Caches
    BY <2>1, <2>2 DEF EmptyCache, Caches
  <2>5. Distinct(<<>>)
    BY DEF Distinct
  <2> QED
    BY <2>1, <2>3, <2>4, <2>5, DirectoryCacheAssumption DEF EmptyCache, Exact
<1>2. ClockTypes /\ HealthTypes /\ FetchTypes /\ HistoryTypes
  BY DEF Init, ClockTypes, HealthTypes, FetchTypes, HistoryTypes, NoFlight, Flights
<1>3. TaskTypes
  BY DEF Init, TaskTypes, NoTask, TaskRecords, Answers
<1>4. CallTypes
  <2>1. ASSUME NEW v \in Invocations PROVE 1 \in DOMAIN Candidates[v]
    BY DirectoryDiscoveryAssumption, EmptySeq, LenProperties
  <2> QED
    BY <2>1 DEF Init, CallTypes, Places
<1>5. CacheTypes /\ CachesExact
  BY <1>1 DEF Init, CacheTypes, CachesExact
<1>6. HeldIsLatest
  BY <1>1 DEF Init, HeldIsLatest
<1>7. BackoffKept /\ Spending
  BY DEF Init, BackoffKept, Spending
<1> QED
  BY <1>2, <1>3, <1>4, <1>5, <1>6, <1>7 DEF IInv, Typed

\* A step without a delivery, a failure or a fetch keeps the rest of the invariant.
LEMMA QuietKeeps ==
  ASSUME IInv, QuietStep, CacheTypes', HistoryTypes,
         now' \in Nat, now' >= now, UNCHANGED latest,
         \A p \in Profiles, o \in Origins :
           \/ failedAt'[p][o] = failedAt[p][o]
           \/ /\ failedAt'[p][o] = now /\ now' = now
              /\ Covers(cache'[p], o, now + NegativePeriod, now)
  PROVE  CachesExact' /\ HeldIsLatest' /\ BackoffKept'
<1>1. ASSUME NEW p \in Profiles
      PROVE  /\ SameEntries(cache'[p], cache[p])
             /\ cache'[p].healthy => cache[p].healthy
             /\ \A o \in Origins, until \in Nat :
                  Covers(cache[p], o, until, now) => Covers(cache'[p], o, until, now)
  BY DEF QuietStep, Quiet
<1>2. CachesExact'
  BY <1>1 DEF IInv, CachesExact, Exact, SameEntries
<1>3. HeldIsLatest'
  BY <1>1 DEF IInv, HeldIsLatest, SameEntries
<1>4. ASSUME NEW p \in Profiles, NEW o \in Origins, failedAt'[p][o] # None
      PROVE  failedAt'[p][o] <= now' /\ Covers(cache'[p], o, failedAt'[p][o] + NegativePeriod, now')
  <2>1. now \in Nat /\ NegativePeriod \in Nat /\ failedAt[p][o] \in Nat \cup {None}
    BY DirectoryCacheAssumption DEF IInv, Typed, ClockTypes, HistoryTypes
  <2>2. ASSUME NEW until \in Nat, Covers(cache'[p], o, until, now)
        PROVE  Covers(cache'[p], o, until, now')
    BY <2>1, <2>2 DEF Covers
  <2>3. CASE failedAt'[p][o] = failedAt[p][o]
    <3> DEFINE f == failedAt[p][o]
               until == f + NegativePeriod
    <3>1. f \in Nat /\ f <= now /\ Covers(cache[p], o, until, now)
      BY <1>4, <2>1, <2>3 DEF IInv, BackoffKept
    <3>2. until \in Nat
      BY <2>1, <3>1
    <3> HIDE DEF f, until
    <3>3. Covers(cache'[p], o, until, now')
      BY <1>1, <2>2, <3>1, <3>2
    <3>4. f <= now'
      BY <2>1, <3>1
    <3> QED
      BY <2>3, <3>3, <3>4 DEF f, until
  <2>4. CASE /\ failedAt'[p][o] = now /\ now' = now
             /\ Covers(cache'[p], o, now + NegativePeriod, now)
    BY <2>1, <2>4
  <2> QED
    BY <2>3, <2>4
<1>5. BackoffKept'
  BY <1>4 DEF BackoffKept
<1> QED
  BY <1>2, <1>3, <1>5


\* What a quiet step leaves to show: the types of what it changes.
LEMMA QuietIInv ==
  ASSUME IInv, QuietStep, CacheTypes',
         ClockTypes', HealthTypes', FetchTypes', TaskTypes', CallTypes', HistoryTypes',
         now' >= now, UNCHANGED latest,
         Spending',
         \A p \in Profiles, o \in Origins :
           \/ failedAt'[p][o] = failedAt[p][o]
           \/ /\ failedAt'[p][o] = now /\ now' = now
              /\ Covers(cache'[p], o, now + NegativePeriod, now)
  PROVE  IInv'
<1>1. HistoryTypes /\ now' \in Nat
  BY DEF IInv, Typed, ClockTypes
<1>2. CachesExact' /\ HeldIsLatest' /\ BackoffKept'
  BY <1>1, QuietKeeps
<1> QED
  BY <1>2 DEF IInv, Typed

\* The invariant's parts, to cite in the steps.
LEMMA Parts ==
  ASSUME IInv
  PROVE  /\ ClockTypes /\ HealthTypes /\ FetchTypes /\ TaskTypes /\ CallTypes /\ CacheTypes
         /\ HistoryTypes /\ Spending
BY DEF IInv, Typed

\* Time and the clock.
LEMMA ClockSteps ==
  ASSUME IInv, Tick \/ ClockFault \/ UNCHANGED vars
  PROVE  IInv'
<1>1. /\ UNCHANGED <<healthVars, cache, fetchVars, task, calls, callVars, historyVars>>
      /\ now' \in Nat /\ now' >= now /\ broken' \in BOOLEAN /\ faults' \in Nat
  <2>1. now \in Nat /\ broken \in BOOLEAN /\ faults \in Nat /\ (~broken) \in BOOLEAN
    BY Parts DEF ClockTypes
  <2>2. UNCHANGED <<healthVars, cache, fetchVars, task, calls, callVars, historyVars>>
    BY DEF Tick, ClockFault, vars
  <2>3. \/ now' = now + 1 /\ broken' = broken /\ faults' = faults
        \/ now' = now /\ broken' = (~broken) /\ faults' = faults + 1
        \/ now' = now /\ broken' = broken /\ faults' = faults
    BY DEF Tick, ClockFault, vars, clockVars
  <2>4. now' \in Nat /\ now' >= now /\ faults' \in Nat
    BY <2>1, <2>3
  <2>5. broken' \in BOOLEAN
    BY <2>1, <2>3, Zenon
  <2> QED
    BY <2>2, <2>4, <2>5
<1>2. QuietStep /\ CacheTypes'
  BY <1>1, Parts, NoneQuiet
<1>3. /\ ClockTypes' /\ HealthTypes' /\ FetchTypes' /\ TaskTypes' /\ CallTypes' /\ HistoryTypes'
      /\ Spending'
  BY <1>1, Parts DEF ClockTypes, HealthTypes, FetchTypes, TaskTypes, CallTypes, HistoryTypes,
     Spending, healthVars, fetchVars, callVars, historyVars
<1> QED
  BY <1>1, <1>2, <1>3, QuietIInv DEF historyVars

\* A reading of the service's clock.
LEMMA SampleTyped ==
  ASSUME HealthTypes, ClockTypes, NEW p \in Profiles, UNCHANGED transportHealthy,
         SampleService(p) \/ UNCHANGED serviceHealthy
  PROVE  HealthTypes'
BY DEF HealthTypes, ClockTypes, SampleService

\* The application's calls.
LEMMA ApplicationStep ==
  ASSUME IInv, NEW p \in Profiles, NEW o \in Origins, ApplicationRefreshes(p, o)
  PROVE  IInv'
<1>1. /\ UNCHANGED <<clockVars, transportHealthy, fetchVars, callVars, historyVars>>
      /\ calls' = calls + 1
      /\ SampleService(p) \/ UNCHANGED serviceHealthy
      /\ AskCache(p) \/ UNCHANGED cache
      /\ CreateTask(p, o)
  BY DEF ApplicationRefreshes
<1>2. QuietStep /\ CacheTypes'
  BY <1>1, Parts, NoneQuiet, OneQuiet, QuietOperations DEF AskCache
<1>3. TaskTypes' /\ HealthTypes'
  BY <1>1, Parts, CreateTyped, SampleTyped
<1>4. ClockTypes' /\ FetchTypes' /\ CallTypes' /\ HistoryTypes' /\ Spending'
  BY <1>1, Parts DEF ClockTypes, FetchTypes, CallTypes, HistoryTypes,
     Spending, clockVars, fetchVars, callVars, historyVars
<1>5. now' >= now
  BY <1>1, Parts DEF clockVars, ClockTypes
<1> QED
  BY <1>1, <1>2, <1>3, <1>4, <1>5, QuietIInv DEF historyVars

\* A task that ends before its await.
LEMMA GivesUpStep ==
  ASSUME IInv, NEW p \in Profiles, NEW o \in Origins, TaskGivesUp(p, o)
  PROVE  IInv'
<1>1. /\ UNCHANGED <<clockVars, transportHealthy, cache, fetchVars, calls, latest, failedAt>>
      /\ SampleService(p) /\ TaskEnds(p, o)
  BY DEF TaskGivesUp
<1>2. QuietStep /\ CacheTypes'
  BY <1>1, Parts, NoneQuiet
<1>3. TaskTypes' /\ CallTypes' /\ HealthTypes'
  BY <1>1, Parts, EndTyped, SampleTyped
<1>4. ClockTypes' /\ FetchTypes' /\ HistoryTypes' /\ Spending'
  BY <1>1, Parts DEF ClockTypes, FetchTypes, HistoryTypes, Spending, TaskEnds, clockVars, fetchVars
<1>5. now' >= now
  BY <1>1, Parts DEF clockVars, ClockTypes
<1> QED
  BY <1>1, <1>2, <1>3, <1>4, <1>5, QuietIInv

\* A task that goes on to its await.
LEMMA FetchesStep ==
  ASSUME IInv, NEW p \in Profiles, NEW o \in Origins, TaskFetches(p, o)
  PROVE  IInv'
<1>1. UNCHANGED <<clockVars, healthVars, cache, delivery, calls, callVars, historyVars>>
  BY DEF TaskFetches
<1>2. QuietStep /\ CacheTypes'
  BY <1>1, Parts, NoneQuiet
<1>3. task[p][o] \in TaskRecords /\ task[p][o].started \in Nat
  BY Parts DEF TaskTypes, TaskRecords
<1>4. FetchTypes'
  <2>1. \/ flight' = [flight EXCEPT ![o] = [phase |-> "running", started |-> task[p][o].started]]
        \/ UNCHANGED flight
    BY DEF TaskFetches
  <2>2. [phase |-> "running", started |-> task[p][o].started] \in Flights
    BY <1>3 DEF Flights
  <2> QED
    BY <1>1, <2>1, <2>2, Parts DEF FetchTypes
<1>5. TaskTypes'
  <2>1. CASE task' = [task EXCEPT ![p][o].phase = "waiting"]
    <3>1. task' = [task EXCEPT ![p][o] = [@ EXCEPT !.phase = "waiting"]]
      BY <2>1
    <3>2. [task[p][o] EXCEPT !.phase = "waiting"] \in TaskRecords
      BY <1>3 DEF TaskRecords
    <3> QED
      BY <3>1, <3>2, Parts DEF TaskTypes
  <2>2. CASE \E error \in AdmissionErrors :
               task' = [task EXCEPT ![p][o] = [@ EXCEPT !.phase = "arrived", !.answer = error]]
    <3>1. PICK error \in AdmissionErrors :
            task' = [task EXCEPT ![p][o] = [@ EXCEPT !.phase = "arrived", !.answer = error]]
      BY <2>2
    <3>2. [task[p][o] EXCEPT !.phase = "arrived", !.answer = error] \in TaskRecords
      BY <1>3 DEF TaskRecords, Answers
    <3> QED
      BY <3>1, <3>2, Parts DEF TaskTypes
  <2>3. task' = [task EXCEPT ![p][o].phase = "waiting"] \/ \E error \in AdmissionErrors :
          task' = [task EXCEPT ![p][o] = [@ EXCEPT !.phase = "arrived", !.answer = error]]
    BY DEF TaskFetches, AdmissionErrors
  <2> QED
    BY <2>1, <2>2, <2>3
<1>6. ClockTypes' /\ HealthTypes' /\ CallTypes' /\ HistoryTypes' /\ Spending'
  BY <1>1, Parts DEF ClockTypes, HealthTypes, CallTypes, HistoryTypes, Spending,
     clockVars, healthVars, callVars, historyVars
<1>7. now' >= now
  BY <1>1, Parts DEF clockVars, ClockTypes
<1> QED
  BY <1>1, <1>2, <1>4, <1>5, <1>6, <1>7, QuietIInv DEF historyVars

\* A task that ends after its await.
LEMMA FinishesStep ==
  ASSUME IInv, NEW p \in Profiles, NEW o \in Origins, TaskFinishes(p, o)
  PROVE  IInv'
<1>1. /\ UNCHANGED <<clockVars, transportHealthy, fetchVars, calls, latest, untold>>
      /\ SampleService(p) \/ UNCHANGED serviceHealthy
      /\ TaskEnds(p, o)
      /\ \/ cache' = [cache EXCEPT ![p] = Recorded(p, o)] /\ failedAt' = [failedAt EXCEPT ![p][o] = now]
         \/ UNCHANGED <<cache, failedAt>>
  BY DEF TaskFinishes
<1>2. QuietStep /\ CacheTypes'
  BY <1>1, Parts, NoneQuiet, OneQuiet, QuietOperations
<1>3. TaskTypes' /\ CallTypes' /\ HealthTypes'
  BY <1>1, Parts, EndTyped, SampleTyped
<1>4. ClockTypes' /\ FetchTypes' /\ Spending'
  BY <1>1, Parts DEF ClockTypes, FetchTypes, Spending, TaskEnds, clockVars, fetchVars
<1>5. HistoryTypes'
  BY <1>1, Parts DEF HistoryTypes, ClockTypes
<1>6. now' >= now /\ now' = now
  BY <1>1, Parts DEF clockVars, ClockTypes
<1>7. ASSUME NEW q \in Profiles, NEW x \in Origins
      PROVE  \/ failedAt'[q][x] = failedAt[q][x]
             \/ failedAt'[q][x] = now /\ Covers(cache'[q], x, now + NegativePeriod, now)
  <2>1. Covers(Recorded(p, o), o, now + NegativePeriod, now)
    BY Parts, QuietOperations
  <2>2. CASE cache' = [cache EXCEPT ![p] = Recorded(p, o)]
             /\ failedAt' = [failedAt EXCEPT ![p][o] = now]
    <3>1. cache'[p] = Recorded(p, o) /\ (q # p \/ x # o => failedAt'[q][x] = failedAt[q][x])
          /\ failedAt'[p][o] = now
      BY <2>2, Parts DEF CacheTypes, HistoryTypes
    <3> QED
      BY <2>1, <3>1
  <2> QED
    BY <1>1, <2>2
<1> QED
  BY <1>1, <1>2, <1>3, <1>4, <1>5, <1>6, <1>7, QuietIInv



\* The transport: a response arrives.
LEMMA PrepareStep ==
  ASSUME IInv, NEW o \in Origins, Prepare(o)
  PROVE  IInv'
<1>1. UNCHANGED <<clockVars, healthVars, cache, flight, task, calls, callVars, historyVars>>
  BY DEF Prepare
<1>2. QuietStep /\ CacheTypes'
  BY <1>1, Parts, NoneQuiet
<1>3. FetchTypes'
  <2>1. PICK r \in Responses : delivery' = [origin |-> o, response |-> r, received |-> now]
    BY DEF Prepare
  <2>2. delivery' \in Deliveries
    BY <2>1, Parts DEF Deliveries, ClockTypes
  <2> QED
    BY <1>1, <2>2, Parts DEF FetchTypes
<1>4. /\ ClockTypes' /\ HealthTypes' /\ TaskTypes' /\ CallTypes' /\ HistoryTypes' /\ Spending'
      /\ now' >= now
  BY <1>1, Parts DEF ClockTypes, HealthTypes, TaskTypes, CallTypes, HistoryTypes, Spending,
     clockVars, healthVars, callVars, historyVars
<1> QED
  BY <1>1, <1>2, <1>3, <1>4, QuietIInv DEF historyVars

\* Steps that leave the caches, the verifications and the histories alone, and
\* give an answer or none.
LEMMA FlightSteps ==
  ASSUME IInv, NEW o \in Origins, FlightFails(o) \/ FlightAborts(o) \/ WorkerGone(o)
  PROVE  IInv'
<1>1. /\ UNCHANGED <<clockVars, serviceHealthy, cache, delivery, calls, callVars, historyVars>>
      /\ transportHealthy' \in BOOLEAN
  BY Parts DEF FlightFails, FlightAborts, WorkerGone, healthVars, HealthTypes, ClockTypes
<1>2. QuietStep /\ CacheTypes'
  BY <1>1, Parts, NoneQuiet
<1>3. TaskTypes'
  <2>1. UNCHANGED task \/ \E a \in Answers : Answer(o, [p \in Profiles |-> a])
    BY DEF FlightFails, FlightAborts, WorkerGone, Answers, Values, AdmissionErrors
  <2>2. CASE \E a \in Answers : Answer(o, [p \in Profiles |-> a])
    <3>1. PICK a \in Answers : Answer(o, [p \in Profiles |-> a])
      BY <2>2
    <3>2. [p \in Profiles |-> a] \in [Profiles -> Answers]
      OBVIOUS
    <3> QED
      BY <3>1, <3>2, Parts, AnswerTyped
  <2> QED
    BY <2>1, <2>2, Parts DEF TaskTypes
<1>4. FetchTypes'
  <2>1. \E f \in Flights : flight' = [flight EXCEPT ![o] = f]
    <3>1. /\ NoFlight \in Flights /\ \A left \in {"none", "dead"} : [NoFlight EXCEPT !.phase = left] \in Flights
      BY DEF NoFlight, Flights
    <3> QED
      BY <3>1 DEF FlightFails, FlightAborts, WorkerGone
  <2> QED
    BY <1>1, <2>1, Parts DEF FetchTypes
<1>5. /\ ClockTypes' /\ HealthTypes' /\ CallTypes' /\ HistoryTypes' /\ Spending' /\ now' >= now
  BY <1>1, Parts DEF ClockTypes, HealthTypes, CallTypes, HistoryTypes, Spending,
     clockVars, callVars, historyVars
<1> QED
  BY <1>1, <1>2, <1>3, <1>4, <1>5, QuietIInv DEF historyVars

\* A verification that is rejected, or finds its key again.
LEMMA RejectsStep ==
  ASSUME IInv, NEW v \in Invocations, Rejects(v)
  PROVE  IInv'
<1> DEFINE p == Current(v).profile
<1>1. /\ UNCHANGED <<clockVars, transportHealthy, fetchVars, task, calls, spent, fetches, historyVars>>
      /\ SampleService(p) \/ UNCHANGED serviceHealthy
      /\ cache' = [cache EXCEPT ![p] = SampledCache(p)] \/ UNCHANGED cache
      /\ Advance(v, kept[v])
  BY DEF Rejects
<1>2. p \in Profiles
  BY Parts, CurrentTyped
<1> HIDE DEF p
<1>3. QuietStep /\ CacheTypes'
  BY <1>1, <1>2, Parts, NoneQuiet, OneQuiet, QuietOperations
<1>4. CallTypes'
  <2>1. kept[v] \in SUBSET CandidateSet
    BY Parts DEF CallTypes
  <2> QED
    BY <1>1, <2>1, Parts, AdvanceTyped
<1>5. HealthTypes'
  BY <1>1, <1>2, Parts, SampleTyped
<1>6. ClockTypes' /\ FetchTypes' /\ TaskTypes' /\ HistoryTypes' /\ Spending' /\ now' >= now
  BY <1>1, Parts DEF ClockTypes, FetchTypes, TaskTypes, HistoryTypes, Spending,
     clockVars, fetchVars, historyVars
<1> QED
  BY <1>1, <1>3, <1>4, <1>5, <1>6, QuietIInv DEF historyVars

\* A verification that goes on without the caches changing.
LEMMA VerifySteps ==
  ASSUME IInv, NEW v \in Invocations, Resolved(v) \/ Verifies(v) \/ Finish(v)
  PROVE  IInv'
<1>1. /\ UNCHANGED <<clockVars, transportHealthy, cache, fetchVars, task, calls, spent, fetches,
                     historyVars>>
      /\ SampleService(Current(v).profile) \/ UNCHANGED serviceHealthy
  BY DEF Resolved, Verifies, Finish, healthVars
<1>2. QuietStep /\ CacheTypes'
  BY <1>1, Parts, NoneQuiet
<1>3. HealthTypes'
  BY <1>1, Parts, CurrentTyped, SampleTyped
<1>4. CallTypes'
  <2>1. CASE Verifies(v)
    <3>1. Advance(v, kept[v] \cup {Current(v)})
      BY <2>1 DEF Verifies
    <3>2. kept[v] \cup {Current(v)} \in SUBSET CandidateSet
      BY Parts, CurrentTyped DEF CallTypes
    <3> QED
      BY <1>1, <3>1, <3>2, Parts, AdvanceTyped
  <2>2. CASE Resolved(v) \/ Finish(v)
    <3>1. UNCHANGED <<index, spent, fetches, kept>> /\ \E q \in Places : pc' = [pc EXCEPT ![v] = q]
      BY <2>2 DEF Resolved, Finish, Places
    <3> QED
      BY <3>1, Parts DEF CallTypes
  <2> QED
    BY <2>1, <2>2
<1>5. ClockTypes' /\ FetchTypes' /\ TaskTypes' /\ HistoryTypes' /\ Spending' /\ now' >= now
  BY <1>1, Parts DEF ClockTypes, FetchTypes, TaskTypes, HistoryTypes, Spending,
     clockVars, fetchVars, historyVars
<1> QED
  BY <1>1, <1>2, <1>3, <1>4, <1>5, QuietIInv DEF historyVars

\* A resolution that goes on at once, gives up, or asks for a fetch.
LEMMA ResolveStep ==
  ASSUME IInv, NEW v \in Invocations, Resolve(v)
  PROVE  IInv'
<1> DEFINE p == Current(v).profile
           o == Current(v).origin
<1>1. UNCHANGED <<clockVars, healthVars, fetchVars, calls, historyVars>>
  BY DEF Resolve
<1>2. p \in Profiles /\ o \in Origins
  BY Parts, CurrentTyped
<1>3. AskCache(p) \/ UNCHANGED cache
  BY DEF Resolve
<1>4. UNCHANGED task \/ CreateTask(p, o)
  BY DEF Resolve
<1>5. \/ /\ UNCHANGED <<index, spent, fetches, kept>> /\ \E q \in Places : pc' = [pc EXCEPT ![v] = q]
      \/ /\ UNCHANGED <<spent, fetches>> /\ Advance(v, kept[v])
      \/ /\ ~spent[v] /\ spent' = [spent EXCEPT ![v] = TRUE]
         /\ fetches' = [fetches EXCEPT ![v] = @ + 1]
         /\ \E q \in Places : pc' = [pc EXCEPT ![v] = q]
         /\ UNCHANGED <<index, kept>>
  BY DEF Resolve, Spends, Places
<1> HIDE DEF p, o
<1>6. QuietStep /\ CacheTypes'
  BY <1>2, <1>3, Parts, NoneQuiet, OneQuiet, QuietOperations DEF AskCache
<1>7. TaskTypes'
  BY <1>2, <1>4, Parts, CreateTyped DEF TaskTypes
<1>8. CallTypes' /\ Spending'
  <2>1. CASE UNCHANGED <<index, spent, fetches, kept>> /\ \E q \in Places : pc' = [pc EXCEPT ![v] = q]
    BY <2>1, Parts DEF CallTypes, Spending
  <2>2. CASE UNCHANGED <<spent, fetches>> /\ Advance(v, kept[v])
    <3>1. kept[v] \in SUBSET CandidateSet
      BY Parts DEF CallTypes
    <3>2. CallTypes'
      BY <2>2, <3>1, Parts, AdvanceTyped
    <3> QED
      BY <2>2, <3>2, Parts DEF Spending
  <2>3. CASE /\ ~spent[v] /\ spent' = [spent EXCEPT ![v] = TRUE]
             /\ fetches' = [fetches EXCEPT ![v] = @ + 1]
             /\ \E q \in Places : pc' = [pc EXCEPT ![v] = q]
             /\ UNCHANGED <<index, kept>>
    <3>1. fetches[v] = 0
      BY <2>3, Parts DEF Spending
    <3>2. Spending'
      BY <2>3, <3>1, Parts DEF Spending, CallTypes
    <3>3. CallTypes'
      BY <2>3, <3>1, Parts DEF CallTypes
    <3> QED
      BY <3>2, <3>3
  <2> QED
    BY <1>5, <2>1, <2>2, <2>3
<1>9. ClockTypes' /\ HealthTypes' /\ FetchTypes' /\ HistoryTypes' /\ now' >= now
  BY <1>1, Parts DEF ClockTypes, HealthTypes, FetchTypes, HistoryTypes,
     clockVars, healthVars, fetchVars, historyVars
<1> QED
  BY <1>1, <1>6, <1>7, <1>8, <1>9, QuietIInv DEF historyVars


\* The second check of a delivery, and what it brings to all profiles.
LEMMA CommitStep ==
  ASSUME IInv, CommitDelivery
  PROVE  IInv'
<1> DEFINE o == delivery.origin
           valid == delivery.response.valid
<1>1. /\ UNCHANGED <<clockVars, serviceHealthy, calls, callVars, untold>>
      /\ delivery # None /\ delivery' = None
      /\ flight' = [flight EXCEPT ![o] = NoFlight]
      /\ transportHealthy' = (transportHealthy /\ ~broken)
  BY DEF CommitDelivery
<1>2. o \in Origins /\ valid \subseteq Profiles /\ Delivered \in KeySets
  BY <1>1, Parts, DeliveredTyped
<1>3. now \in Nat /\ broken \in BOOLEAN /\ NegativePeriod \in Nat /\ now' = now
  BY <1>1, Parts, DirectoryCacheAssumption DEF ClockTypes, clockVars
<1>4. ClockTypes' /\ HealthTypes' /\ FetchTypes' /\ CallTypes' /\ Spending'
  <2>1. NoFlight \in Flights
    BY DEF NoFlight, Flights
  <2>2. FetchTypes'
    BY <1>1, <2>1, Parts DEF FetchTypes
  <2>3. HealthTypes'
    BY <1>1, Parts DEF HealthTypes
  <2>4. ClockTypes' /\ CallTypes' /\ Spending'
    BY <1>1, Parts DEF ClockTypes, CallTypes, Spending, clockVars, callVars
  <2> QED
    BY <2>2, <2>3, <2>4
<1>5. CASE ~StillInTime
  <2>1. /\ Answer(o, [p \in Profiles |-> IF broken THEN "clock" ELSE "deadline"])
        /\ UNCHANGED <<cache, latest, failedAt>>
    BY <1>5 DEF CommitDelivery
  <2>2. [p \in Profiles |-> IF broken THEN "clock" ELSE "deadline"] \in [Profiles -> Answers]
    BY DEF Answers, AdmissionErrors
  <2>3. TaskTypes'
    BY <1>2, <2>1, <2>2, Parts, AnswerTyped
  <2>4. QuietStep /\ CacheTypes'
    BY <2>1, Parts, NoneQuiet
  <2>5. HistoryTypes'
    BY <2>1, Parts DEF HistoryTypes
  <2> QED
    BY <1>3, <1>4, <2>1, <2>3, <2>4, <2>5, QuietIInv
<1>6. CASE StillInTime
  <2>1. /\ cache' = [p \in Profiles |-> Distributed(p)]
        /\ latest' = [p \in Profiles |->
                        IF p \in valid THEN [latest[p] EXCEPT ![o] = Delivered] ELSE latest[p]]
        /\ failedAt' = [p \in Profiles |->
                          [failedAt[p] EXCEPT ![o] = IF p \in valid THEN None ELSE now]]
        /\ Answer(o, [p \in Profiles |-> IF p \in valid THEN "completed" ELSE "invalid-jwks"])
    BY <1>6 DEF CommitDelivery
  <2>2. TaskTypes'
    <3>1. [p \in Profiles |-> IF p \in valid THEN "completed" ELSE "invalid-jwks"]
          \in [Profiles -> Answers]
      BY DEF Answers, Values
    <3> QED
      BY <1>2, <2>1, <3>1, Parts, AnswerTyped
  <2> HIDE DEF o, valid
  <2>3. HistoryTypes'
    <3>1. ASSUME NEW p \in Profiles
          PROVE  /\ latest'[p] \in [Origins -> KeySets \cup {None}]
                 /\ failedAt'[p] \in [Origins -> Nat \cup {None}]
      BY <1>2, <1>3, <2>1, Parts DEF HistoryTypes
    <3> QED
      BY <2>1, <3>1 DEF HistoryTypes
  <2>4. ASSUME NEW p \in Profiles
        PROVE  LET r == Distributed(p) IN
               /\ cache'[p] = r /\ r \in Caches /\ Exact(r) /\ (r.healthy => cache[p].healthy)
               /\ \A x \in Origins, until \in Nat :
                    (x # o \/ p \notin valid) /\ Covers(cache[p], x, until, now)
                    => Covers(r, x, until, now)
               /\ p \notin valid => SameEntries(r, cache[p]) /\ Covers(r, o, now + NegativePeriod, now)
               /\ p \in valid /\ cache[p].healthy => Takes(r, cache[p], o, Delivered)
    <3>1. Exact(cache[p]) /\ ~broken
      BY <1>6 DEF IInv, CachesExact, StillInTime
    <3>2. cache'[p] = Distributed(p)
      BY <2>1
    <3> QED
      BY <1>1, <3>1, <3>2, Parts, DistributedKeeps DEF o, valid
  <2>5. CacheTypes' /\ CachesExact'
    BY <2>1, <2>4 DEF CacheTypes, CachesExact
  <2>6. HeldIsLatest'
    <3>1. ASSUME NEW p \in Profiles, cache'[p].healthy, NEW i \in DOMAIN cache'[p].entries
          PROVE  latest'[p][cache'[p].entries[i].origin] = cache'[p].entries[i].set
      <4> DEFINE r == cache'[p]
                 c == cache[p]
      <4>1. \A j \in DOMAIN c.entries : latest[p][c.entries[j].origin] = c.entries[j].set
        BY <2>4, <3>1 DEF IInv, HeldIsLatest
      <4>2. CASE p \notin valid
        <5>1. latest'[p] = latest[p] /\ SameEntries(r, c)
          BY <2>1, <2>4, <4>2
        <5> QED
          BY <3>1, <4>1, <5>1 DEF SameEntries
      <4>3. CASE p \in valid
        <5>1. Takes(r, c, o, Delivered)
          BY <2>4, <3>1, <4>3
        <5>2. latest'[p][o] = Delivered /\ \A x : x # o => latest'[p][x] = latest[p][x]
          BY <1>2, <2>1, <4>3, Parts DEF HistoryTypes
        <5>3. \/ r.entries[i].origin = o /\ r.entries[i].set = Delivered
              \/ r.entries[i].origin # o /\ \E j \in DOMAIN c.entries : r.entries[i] = c.entries[j]
          BY <3>1, <5>1 DEF Takes
        <5> QED
          BY <4>1, <5>2, <5>3
      <4> QED
        BY <4>2, <4>3
    <3> QED
      BY <3>1 DEF HeldIsLatest
  <2>7. BackoffKept'
    <3>1. ASSUME NEW p \in Profiles, NEW x \in Origins, failedAt'[p][x] # None
          PROVE  failedAt'[p][x] <= now /\ Covers(cache'[p], x, failedAt'[p][x] + NegativePeriod, now)
      <4>1. failedAt'[p] = [failedAt[p] EXCEPT ![o] = IF p \in valid THEN None ELSE now]
            /\ failedAt[p] \in [Origins -> Nat \cup {None}]
        BY <2>1, Parts DEF HistoryTypes
      <4>2. CASE x = o
        <5>1. p \notin valid /\ failedAt'[p][x] = now
          BY <3>1, <4>1, <4>2
        <5>2. Covers(cache'[p], x, now + NegativePeriod, now)
          BY <2>4, <4>2, <5>1
        <5> QED
          BY <1>3, <5>1, <5>2
      <4>3. CASE x # o
        <5> DEFINE f == failedAt[p][x]
                   until == f + NegativePeriod
        <5>1. failedAt'[p][x] = f
          BY <4>1, <4>3
        <5>2. f \in Nat /\ f <= now /\ Covers(cache[p], x, until, now)
          BY <3>1, <4>1, <5>1 DEF IInv, BackoffKept
        <5>3. until \in Nat
          BY <1>3, <5>2
        <5> HIDE DEF f, until
        <5>4. Covers(cache'[p], x, until, now)
          BY <2>4, <4>3, <5>2, <5>3
        <5> QED
          BY <5>1, <5>2, <5>4 DEF until
      <4> QED
        BY <4>2, <4>3
    <3> QED
      BY <1>3, <3>1 DEF BackoffKept
  <2> QED
    BY <1>4, <2>2, <2>3, <2>5, <2>6, <2>7 DEF IInv, Typed
<1> QED
  BY <1>5, <1>6

\* Every step keeps the invariant.
LEMMA NextIInv == IInv /\ [Next]_vars => IInv'
<1> SUFFICES ASSUME IInv, [Next]_vars PROVE IInv'
  OBVIOUS
<1>1. CASE Tick \/ ClockFault \/ UNCHANGED vars
  BY <1>1, ClockSteps
<1>2. ASSUME NEW p \in Profiles, NEW o \in Origins, ApplicationRefreshes(p, o) \/ RefreshStep(p, o)
      PROVE  IInv'
  BY <1>2, ApplicationStep, GivesUpStep, FetchesStep, FinishesStep DEF RefreshStep
<1>3. ASSUME NEW o \in Origins, Prepare(o) \/ FlightFails(o) \/ FlightAborts(o) \/ WorkerGone(o)
      PROVE  IInv'
  BY <1>3, PrepareStep, FlightSteps
<1>4. CASE CommitDelivery
  BY <1>4, CommitStep
<1>5. ASSUME NEW v \in Invocations, VerifyStep(v) PROVE IInv'
  BY <1>5, RejectsStep, ResolveStep, VerifySteps DEF VerifyStep
<1> QED
  BY <1>1, <1>2, <1>3, <1>4, <1>5 DEF Next

\* The invariant holds always.
LEMMA SpecIInv == Spec => []IInv
BY InitIInv, NextIInv, PTL DEF Spec



-----------------------------------------------------------------------------
(* The theorems.                                                             *)

\* The invariant in the terms of the properties.
LEMMA ConsistentLemma == IInv => DiscoveryConsistent
<1> SUFFICES ASSUME IInv PROVE DiscoveryConsistent
  OBVIOUS
<1>1. TypeOK
  BY TypedIsTypeOK DEF IInv
<1>2. CacheExact
  BY ExactIsCacheExact DEF IInv
<1>3. OneFetchPerInvocation
  <2>1. ASSUME NEW v \in Invocations PROVE fetches[v] <= 1
    BY Parts DEF Spending
  <2> QED
    BY <2>1 DEF OneFetchPerInvocation
<1> QED
  BY <1>1, <1>2, <1>3 DEF DiscoveryConsistent

\* In every cache the accounted bytes are those of the entries, the limits on
\* both hold and an origin has one entry, whatever was committed, replaced,
\* removed or evicted (directory-cache.ts); and a verification asks for at most
\* one fetch (network-candidate.ts).
THEOREM DiscoveryIsConsistent == Spec => []DiscoveryConsistent
BY SpecIInv, ConsistentLemma, PTL

\* What a recheck finds is the last set of the origin, with the key and fresh.
LEMMA RecheckedIsLatest ==
  ASSUME IInv, NEW c \in CandidateSet, Rechecked(c)
  PROVE  Supports(latest[c.profile][c.origin], c.key)
<1> DEFINE p == c.profile
           o == c.origin
           q == cache[p]
           s == SampledCache(p)
           i == Place(s, o)
<1>1. p \in Profiles /\ o \in Origins
  BY DEF CandidateSet
<1>2. q \in Caches /\ (~broken) \in BOOLEAN
  BY <1>1, Parts DEF CacheTypes, ClockTypes
<1>3. s.healthy = (q.healthy /\ ~broken) /\ s.entries = q.entries
  BY <1>2, SampledKeeps DEF SampledCache, SameEntries
<1>4. Lookup(s, o, c.key, now) = "found"
  BY DEF Rechecked
<1> HIDE DEF s
<1>5. /\ s.healthy /\ o \in Held(s) /\ Fresh(SetOf(s, o), now)
      /\ SetOf(s, o).status[c.key] = "found"
  BY <1>4 DEF Lookup
<1>6. i \in DOMAIN s.entries /\ s.entries[i].origin = o
  BY <1>5 DEF Held, Place
<1>7. SetOf(s, o) = q.entries[i].set
  BY <1>3 DEF SetOf
<1> HIDE DEF i
<1>8. latest[p][o] = q.entries[i].set
  <2>1. q.healthy /\ i \in DOMAIN q.entries /\ q.entries[i].origin = o
    BY <1>3, <1>5, <1>6
  <2>2. \A j \in DOMAIN q.entries : latest[p][q.entries[j].origin] = q.entries[j].set
    BY <1>1, <2>1 DEF IInv, HeldIsLatest
  <2> QED
    BY <2>1, <2>2
<1>9. latest[p][o] # None
  <2>1. q.entries \in Seq(Entries) /\ i \in 1 .. Len(q.entries)
    BY <1>2, <1>3, <1>6, CacheFields, LenProperties
  <2>2. q.entries[i] \in Entries
    BY <2>1, ElementOfSeq
  <2>3. q.entries[i].set \in KeySets
    BY <2>2 DEF Entries
  <2> QED
    BY <1>8, <2>3, DirectoryDiscoveryAssumption
<1> QED
  BY <1>5, <1>7, <1>8, <1>9 DEF Supports

\* Only the end of a verification says what is verified.
LEMMA VerifiedChanges == [Next]_vars => UNCHANGED verified \/ \E v \in Invocations : Finish(v)
<1>1. Tick \/ ClockFault \/ UNCHANGED vars => UNCHANGED verified
  BY DEF Tick, ClockFault, vars, callVars
<1>2. \A p \in Profiles, o \in Origins :
        ApplicationRefreshes(p, o) \/ RefreshStep(p, o) => UNCHANGED verified
  <2>1. ASSUME NEW p \in Profiles, NEW o \in Origins, ApplicationRefreshes(p, o) PROVE UNCHANGED verified
    BY <2>1 DEF ApplicationRefreshes, callVars
  <2>2. ASSUME NEW p \in Profiles, NEW o \in Origins, TaskGivesUp(p, o) PROVE UNCHANGED verified
    BY <2>2 DEF TaskGivesUp, TaskEnds
  <2>3. ASSUME NEW p \in Profiles, NEW o \in Origins, TaskFetches(p, o) PROVE UNCHANGED verified
    BY <2>3 DEF TaskFetches, callVars
  <2>4. ASSUME NEW p \in Profiles, NEW o \in Origins, TaskFinishes(p, o) PROVE UNCHANGED verified
    BY <2>4 DEF TaskFinishes, TaskEnds
  <2> QED
    BY <2>1, <2>2, <2>3, <2>4 DEF RefreshStep
<1>3. \A o \in Origins :
        Prepare(o) \/ FlightFails(o) \/ FlightAborts(o) \/ WorkerGone(o) => UNCHANGED verified
  BY DEF Prepare, FlightFails, FlightAborts, WorkerGone, callVars
<1>4. CommitDelivery => UNCHANGED verified
  BY DEF CommitDelivery, callVars
<1>5. \A v \in Invocations : VerifyStep(v) => UNCHANGED verified \/ Finish(v)
  BY DEF VerifyStep, Rejects, Resolve, Resolved, Verifies
<1> QED
  BY <1>1, <1>2, <1>3, <1>4, <1>5 DEF Next

\* Each verification has a set of verified candidates.
VerifiedOfEach == verified \in [Invocations -> SUBSET CandidateSet]

\* It keeps having one.
LEMMA VerifiedTyped == Spec => []VerifiedOfEach
<1>1. Init => VerifiedOfEach
  BY DEF Init, VerifiedOfEach
<1>2. IInv /\ VerifiedOfEach /\ [Next]_vars => VerifiedOfEach'
  <2> SUFFICES ASSUME IInv, VerifiedOfEach, [Next]_vars PROVE VerifiedOfEach'
    OBVIOUS
  <2>1. CASE UNCHANGED verified
    BY <2>1 DEF VerifiedOfEach
  <2>2. ASSUME NEW v \in Invocations, Finish(v) PROVE VerifiedOfEach'
    <3>1. kept[v] \in SUBSET CandidateSet
      BY Parts DEF CallTypes
    <3>2. verified' = [verified EXCEPT ![v] = {c \in kept[v] : Rechecked(c)}]
      BY <2>2 DEF Finish
    <3> QED
      BY <3>1, <3>2 DEF VerifiedOfEach
  <2> QED
    BY <2>1, <2>2, VerifiedChanges
<1> QED
  BY <1>1, <1>2, SpecIInv, PTL DEF Spec

\* What a step adds to the verified candidates rests on the last sets.
LEMMA EvidenceStep ==
  ASSUME IInv, VerifiedOfEach, [Next]_vars
  PROVE  \A v \in Invocations : \A c \in verified'[v] \ verified[v] :
           Supports(latest[c.profile][c.origin], c.key)
<1>1. CASE UNCHANGED verified
  BY <1>1
<1>2. ASSUME NEW w \in Invocations, Finish(w), NEW v \in Invocations,
             NEW c \in verified'[v] \ verified[v]
      PROVE  Supports(latest[c.profile][c.origin], c.key)
  <2>1. verified' = [verified EXCEPT ![w] = {d \in kept[w] : Rechecked(d)}]
    BY <1>2 DEF Finish
  <2>2. v = w /\ c \in kept[w] /\ Rechecked(c)
    BY <1>2, <2>1 DEF VerifiedOfEach
  <2>3. c \in CandidateSet
    BY <2>2, Parts DEF CallTypes
  <2> QED
    BY <2>2, <2>3, RecheckedIsLatest
<1> QED
  BY <1>1, <1>2, VerifiedChanges

\* Only a delivery in its time changes the last sets, and those of its origin.
LEMMA InTimeStep ==
  ASSUME IInv, [Next]_vars
  PROVE  \A p \in Profiles, o \in Origins :
           latest'[p][o] # latest[p][o] => now - flight[o].started < Deadline
<1>1. \/ UNCHANGED latest
      \/ CommitDelivery /\ StillInTime
  <2>1. Tick \/ ClockFault \/ UNCHANGED vars => UNCHANGED latest
    BY DEF Tick, ClockFault, vars, historyVars
  <2>2. \A p \in Profiles, o \in Origins :
          ApplicationRefreshes(p, o) \/ RefreshStep(p, o) => UNCHANGED latest
    <3>1. ASSUME NEW p \in Profiles, NEW o \in Origins, ApplicationRefreshes(p, o) PROVE UNCHANGED latest
      BY <3>1 DEF ApplicationRefreshes, historyVars
    <3>2. ASSUME NEW p \in Profiles, NEW o \in Origins, TaskGivesUp(p, o) PROVE UNCHANGED latest
      BY <3>2 DEF TaskGivesUp
    <3>3. ASSUME NEW p \in Profiles, NEW o \in Origins, TaskFetches(p, o) PROVE UNCHANGED latest
      BY <3>3 DEF TaskFetches, historyVars
    <3>4. ASSUME NEW p \in Profiles, NEW o \in Origins, TaskFinishes(p, o) PROVE UNCHANGED latest
      BY <3>4 DEF TaskFinishes
    <3> QED
      BY <3>1, <3>2, <3>3, <3>4 DEF RefreshStep
  <2>3. \A o \in Origins :
          Prepare(o) \/ FlightFails(o) \/ FlightAborts(o) \/ WorkerGone(o) => UNCHANGED latest
    BY DEF Prepare, FlightFails, FlightAborts, WorkerGone, historyVars
  <2>4. CommitDelivery => UNCHANGED latest \/ StillInTime
    BY DEF CommitDelivery
  <2>5. \A v \in Invocations : VerifyStep(v) => UNCHANGED latest
    BY DEF VerifyStep, Rejects, Resolve, Resolved, Verifies, Finish, historyVars
  <2> QED
    BY <2>1, <2>2, <2>3, <2>4, <2>5 DEF Next
<1>2. ASSUME CommitDelivery, StillInTime, NEW p \in Profiles, NEW o \in Origins,
             latest'[p][o] # latest[p][o]
      PROVE  o = delivery.origin
  <2>1. latest'[p] = latest[p] \/ latest'[p] = [latest[p] EXCEPT ![delivery.origin] = Delivered]
    BY <1>2 DEF CommitDelivery
  <2>2. latest[p] \in [Origins -> KeySets \cup {None}]
    BY Parts DEF HistoryTypes
  <2> QED
    BY <1>2, <2>1, <2>2
<1> QED
  BY <1>1, <1>2 DEF StillInTime, InTime

\* A candidate is verified only if the set that its origin delivered last, to
\* whatever profile asked for it, has its key and is fresh at that moment
\* (recheck in network-candidate.ts); and no set is taken after the deadline of
\* the fetch that brought it (the second check in directory-transport.ts).
THEOREM EvidenceIsSound == Spec => EvidenceSound
<1>1. IInv /\ VerifiedOfEach /\ [Next]_vars =>
        [\A v \in Invocations : \A c \in verified'[v] \ verified[v] :
           Supports(latest[c.profile][c.origin], c.key)]_vars
  BY EvidenceStep
<1>2. IInv /\ [Next]_vars =>
        [\A p \in Profiles, o \in Origins :
           latest'[p][o] # latest[p][o] => now - flight[o].started < Deadline]_vars
  BY InTimeStep
<1> QED
  BY <1>1, <1>2, SpecIInv, VerifiedTyped, PTL DEF Spec, EvidenceSound, EvidenceCurrent, CommitsInTime


\* Only a call of refresh creates a task, and only where it is admitted.
LEMMA CreationStep ==
  ASSUME IInv, [Next]_vars, NEW p \in Profiles, NEW o \in Origins,
         task[p][o].phase = "none", task'[p][o].phase = "created"
  PROVE  Admission(p, o) = "create"
<1>1. task \in [Profiles -> [Origins -> TaskRecords]]
  BY Parts DEF TaskTypes
<1>2. ASSUME NEW q \in Profiles, NEW x \in Origins, CreateTask(q, x)
      PROVE  Admission(p, o) = "create"
  BY <1>1, <1>2 DEF CreateTask
<1>3. ASSUME NEW q \in Profiles, NEW x \in Origins, NEW y, task' = [task EXCEPT ![q][x] = y],
             y.phase # "created"
      PROVE  FALSE
  <2>1. task'[p][o] = IF p = q /\ o = x THEN y ELSE task[p][o]
    BY <1>1, <1>3
  <2> QED
    BY <1>3, <2>1
<1>4. ASSUME NEW x \in Origins, NEW answers, Answer(x, answers) PROVE FALSE
  BY <1>1, <1>4 DEF Answer
<1>5. task' # task
  OBVIOUS
<1>6. ASSUME NEW q \in Profiles, NEW x \in Origins, ApplicationRefreshes(q, x)
      PROVE  Admission(p, o) = "create"
  BY <1>2, <1>6 DEF ApplicationRefreshes
<1>7. ASSUME NEW q \in Profiles, NEW x \in Origins, RefreshStep(q, x) PROVE FALSE
  <2>1. CASE TaskGivesUp(q, x) \/ TaskFinishes(q, x)
    <3>1. task' = [task EXCEPT ![q][x] = NoTask] /\ NoTask.phase = "none"
      BY <2>1 DEF TaskGivesUp, TaskFinishes, TaskEnds, NoTask
    <3> QED
      BY <1>3, <3>1
  <2>2. CASE TaskFetches(q, x)
    <3>1. CASE task' = [task EXCEPT ![q][x].phase = "waiting"]
      <4> DEFINE y == [task[q][x] EXCEPT !.phase = "waiting"]
      <4>1. task' = [task EXCEPT ![q][x] = y] /\ y.phase = "waiting"
        BY <1>1, <3>1 DEF TaskRecords
      <4> HIDE DEF y
      <4> QED
        BY <1>3, <4>1
    <3>2. ASSUME NEW error, task' = [task EXCEPT ![q][x] = [@ EXCEPT !.phase = "arrived", !.answer = error]]
          PROVE  FALSE
      <4> DEFINE y == [task[q][x] EXCEPT !.phase = "arrived", !.answer = error]
      <4>1. task' = [task EXCEPT ![q][x] = y] /\ y.phase = "arrived"
        BY <1>1, <3>2 DEF TaskRecords
      <4> HIDE DEF y
      <4> QED
        BY <1>3, <4>1
    <3> QED
      BY <2>2, <3>1, <3>2 DEF TaskFetches
  <2> QED
    BY <1>7, <2>1, <2>2 DEF RefreshStep
<1>8. ASSUME NEW x \in Origins, Prepare(x) \/ FlightFails(x) \/ FlightAborts(x) \/ WorkerGone(x)
      PROVE  FALSE
  BY <1>4, <1>5, <1>8 DEF Prepare, FlightFails, FlightAborts, WorkerGone
<1>9. CASE CommitDelivery
  <2>1. delivery.origin \in Origins /\ \E answers : Answer(delivery.origin, answers)
    BY <1>9, Parts, DeliveredTyped DEF CommitDelivery
  <2> QED
    BY <1>4, <2>1
<1>10. ASSUME NEW v \in Invocations, VerifyStep(v) PROVE Admission(p, o) = "create"
  <2>1. CreateTask(Current(v).profile, Current(v).origin)
    BY <1>5, <1>10 DEF VerifyStep, Rejects, Resolve, Resolved, Verifies, Finish
  <2> QED
    BY <1>2, <2>1, Parts, CurrentTyped
<1> QED
  BY <1>5, <1>6, <1>7, <1>8, <1>9, <1>10 DEF Next, Tick, ClockFault, vars

\* A task is not created within the backoff of the last failure.
LEMMA BackoffStep ==
  ASSUME IInv, [Next]_vars, NEW p \in Profiles, NEW o \in Origins,
         task[p][o].phase = "none", task'[p][o].phase = "created", failedAt[p][o] # None
  PROVE  now - failedAt[p][o] >= NegativePeriod
<1> DEFINE c == cache[p]
           s == SampledCache(p)
           f == failedAt[p][o]
           until == f + NegativePeriod
<1>1. now \in Nat /\ NegativePeriod \in Nat /\ f \in Nat
  BY Parts, DirectoryCacheAssumption DEF ClockTypes, HistoryTypes
<1>2. Covers(c, o, until, now)
  BY DEF IInv, BackoffKept
<1>3. s \in Caches /\ Quiet(s, c)
  BY Parts, QuietOperations DEF Quiet
<1>4. ~Blocked(s, o, now)
  <2>1. Admission(p, o) = "create"
    BY CreationStep
  <2> QED
    BY <2>1 DEF Admission
<1> HIDE DEF c, s, f
<1>5. until \in Nat
  BY <1>1
<1> HIDE DEF until
<1>6. Covers(s, o, until, now)
  BY <1>2, <1>3, <1>5 DEF Quiet
<1>7. /\ s.overflowUntil \in Nat /\ s.negative \in Backoffs
  BY <1>3, CacheFields
<1>8. o \in DOMAIN s.negative => s.negative[o] \in Nat
  BY <1>7, BackoffTypes
<1>9. now >= until
  BY <1>1, <1>4, <1>5, <1>6, <1>7, <1>8 DEF Covers, Blocked
<1>10. now - f >= NegativePeriod
  BY <1>1, <1>9 DEF until
<1> QED
  BY <1>10 DEF f

\* No refresh begins within the period after the last failure of its origin
\* unless a valid set came in between, whether or not the table of failures had
\* room for it (recordFailure and fetchBlocked in directory-cache.ts).
THEOREM BackoffIsHeld == Spec => BackoffHolds
<1>1. IInv /\ [Next]_vars =>
        [\A p \in Profiles, o \in Origins :
           /\ task[p][o].phase = "none" /\ task'[p][o].phase = "created"
           /\ failedAt[p][o] # None
           => now - failedAt[p][o] >= NegativePeriod]_vars
  BY BackoffStep
<1> QED
  BY <1>1, SpecIInv, PTL DEF Spec, BackoffHolds

=============================================================================
