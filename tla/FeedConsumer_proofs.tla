------------------------- MODULE FeedConsumer_proofs -------------------------
(***************************************************************************)
(* Proofs about InventoryStore and FeedConsumer for every set of devices,  *)
(* fingerprints, keys and reports, every history of an upgraded database   *)
(* and any number of scans, failures and crashes.  The log is shown to     *)
(* grow by batches of changes that each change their key; what the         *)
(* consumer has read of it is then as true as it was when it read it.      *)
(***************************************************************************)
EXTENDS FeedConsumer, DataInduction, SequenceTheorems

(***************************************************************************)
(* Finite sets of numbers, and sets put in order.                          *)
(***************************************************************************)

(* A finite set of numbers with a member has a greatest one. *)
LEMMA GreatestNumber ==
  ASSUME NEW S, S \subseteq Nat, S # {}, NEW n \in Nat, \A i \in S : i <= n
  PROVE  \E m \in S : \A i \in S : i <= m
<1> DEFINE T == {n - i : i \in S}
<1>1. T \subseteq Nat /\ T # {}
  <2>1. \A i \in S : n - i \in Nat
    OBVIOUS
  <2> QED BY <2>1
<1> HIDE DEF T
<1>2. PICK t \in T : \A k \in T : t <= k
  BY <1>1, LeastNumber
<1>3. PICK m \in S : t = n - m
  BY <1>2 DEF T
<1>4. ASSUME NEW i \in S PROVE i <= m
  <2>1. n - i \in T
    BY DEF T
  <2>2. n - m <= n - i /\ i \in Nat /\ m \in Nat
    BY <1>2, <1>3, <2>1
  <2> QED BY <2>2
<1> QED BY <1>3, <1>4

(* A finite set of numbers is bounded. *)
LEMMA FiniteBound ==
  ASSUME NEW S, S \subseteq Nat, IsFiniteSet(S)
  PROVE  \E m \in Nat : \A j \in S : j <= m
<1> DEFINE P == {s \in SUBSET S : \E m \in Nat : \A j \in s : j <= m}
<1>1. ASSUME NEW s \in SUBSET S, \A x \in s : s \ {x} \in P PROVE s \in P
  <2>1. CASE s = {}
    BY <2>1
  <2>2. CASE s # {}
    <3>1. PICK x \in s : TRUE
      BY <2>2
    <3>2. PICK m \in Nat : \A j \in s \ {x} : j <= m
      BY <1>1, <3>1
    <3>3. x \in Nat /\ \A j \in s : j \in Nat /\ j <= m + x
      BY <3>1, <3>2
    <3>4. m + x \in Nat
      BY <3>3
    <3> QED BY <3>3, <3>4
  <2> QED BY <2>1, <2>2
<1> HIDE DEF P
<1>2. SUBSET S \subseteq P
  BY <1>1, SubsetInduction
<1> QED BY <1>2 DEF P

(* InOrder counts a finite set through. *)
LEMMA Ordered ==
  ASSUME NEW S, IsFiniteSet(S), NEW rank, \A x \in S : rank[x] \in Int,
         \A x, y \in S : rank[x] = rank[y] => x = y
  PROVE  /\ Cardinality(S) \in Nat
         /\ InOrder(S, rank) \in [1..Cardinality(S) -> S]
         /\ \A i, j \in 1..Cardinality(S) : InOrder(S, rank)[i] = InOrder(S, rank)[j] => i = j
         /\ \A x \in S : \E i \in 1..Cardinality(S) : InOrder(S, rank)[i] = x
<1> DEFINE N == Cardinality(S)
           Below(x) == {y \in S : rank[y] < rank[x]}
           c == [x \in S |-> Cardinality(Below(x))]
<1>1. N \in Nat
  BY FS_CardinalityType
<1>2. ASSUME NEW x \in S PROVE IsFiniteSet(Below(x)) /\ c[x] \in 0..(N - 1)
  <2>1. Below(x) \in SUBSET S /\ x \notin Below(x)
    OBVIOUS
  <2>2. /\ IsFiniteSet(Below(x)) /\ Cardinality(Below(x)) \in Nat
        /\ Cardinality(Below(x)) <= N /\ Cardinality(Below(x)) # N
    <3> HIDE DEF Below
    <3> QED BY <2>1, FS_Subset, FS_CardinalityType
  <2> HIDE DEF Below
  <2> QED BY <1>1, <2>2
<1>3. ASSUME NEW x \in S, NEW y \in S, rank[x] < rank[y] PROVE c[x] < c[y]
  <2>1. Below(x) \in SUBSET Below(y) /\ x \in Below(y) /\ x \notin Below(x)
    BY <1>3
  <2>2. IsFiniteSet(Below(y)) /\ c[x] \in Nat /\ c[y] \in Nat
    <3> HIDE DEF c, Below
    <3> QED BY <1>1, <1>2
  <2>3. c[x] = Cardinality(Below(x)) /\ c[y] = Cardinality(Below(y))
    OBVIOUS
  <2> HIDE DEF Below, c
  <2>4. Cardinality(Below(x)) <= Cardinality(Below(y)) /\ Cardinality(Below(x)) # Cardinality(Below(y))
    BY <2>1, <2>2, FS_Subset
  <2> QED BY <2>2, <2>3, <2>4
<1>4. ASSUME NEW x \in S, NEW y \in S, c[x] = c[y] PROVE x = y
  <2>0. c[x] \in Nat
    <3> HIDE DEF c, Below
    <3> QED BY <1>1, <1>2
  <2>1. ~(rank[x] < rank[y])
    <3> HIDE DEF c
    <3> QED BY <1>3, <1>4, <2>0
  <2>2. ~(rank[y] < rank[x])
    <3> HIDE DEF c
    <3> QED BY <1>3, <1>4, <2>0
  <2>3. rank[x] = rank[y]
    BY <2>1, <2>2
  <2> QED BY <2>3
<1>5. c \in Surjection(S, 0..(N - 1))
  <2>1. c \in [S -> 0..(N - 1)] /\ IsInjective(c)
    <3>1. c \in [S -> 0..(N - 1)]
      BY <1>2
    <3> HIDE DEF c
    <3> QED BY <3>1, <1>4 DEF IsInjective
  <2>2. c \in Injection(S, 0..(N - 1))
    BY <2>1 DEF Injection
  <2>3. IsFiniteSet(0..(N - 1)) /\ Cardinality(0..(N - 1)) = N
    BY <1>1, FS_Interval
  <2> HIDE DEF c
  <2> QED BY <2>2, <2>3, FS_Injection
<1>6. ASSUME NEW n \in 1..N
      PROVE  InOrder(S, rank)[n] \in S /\ c[InOrder(S, rank)[n]] = n - 1
  <2>1. n - 1 \in 0..(N - 1)
    BY <1>1
  <2>2. \E x \in S : c[x] = n - 1
    <3> HIDE DEF c
    <3> QED BY <1>5, <2>1 DEF Surjection
  <2>3. InOrder(S, rank)[n] = CHOOSE x \in S : c[x] = n - 1
    BY DEF InOrder
  <2> HIDE DEF c
  <2> QED BY <2>2, <2>3
<1>7. InOrder(S, rank) \in [1..N -> S]
  <2> DEFINE e(n) == CHOOSE x \in S : Cardinality({y \in S : rank[y] < rank[x]}) = n - 1
  <2>1. InOrder(S, rank) = [n \in 1..N |-> e(n)]
    BY DEF InOrder
  <2> HIDE DEF e, N
  <2>2. \A n \in 1..N : e(n) \in S
    BY <1>6, <2>1
  <2> QED BY <2>1, <2>2
<1>8. ASSUME NEW i \in 1..N, NEW j \in 1..N, InOrder(S, rank)[i] = InOrder(S, rank)[j]
      PROVE  i = j
  <2>1. i - 1 = j - 1 /\ i \in Nat /\ j \in Nat
    <3> HIDE DEF c
    <3> QED BY <1>1, <1>6, <1>8
  <2> QED BY <2>1
<1>9. ASSUME NEW x \in S PROVE \E i \in 1..N : InOrder(S, rank)[i] = x
  <2>1. PICK m \in 0..(N - 1) : c[x] = m
    BY <1>2
  <2>2. m + 1 \in 1..N /\ (m + 1) - 1 = m
    BY <1>1
  <2> HIDE DEF c
  <2>3. InOrder(S, rank)[m + 1] \in S /\ c[InOrder(S, rank)[m + 1]] = c[x]
    BY <1>6, <2>1, <2>2
  <2>4. InOrder(S, rank)[m + 1] = x
    BY <1>4, <2>3
  <2> QED BY <2>2, <2>4
<1> QED BY <1>1, <1>7, <1>8, <1>9

(***************************************************************************)
(* The log.                                                                *)
(***************************************************************************)

\* What Upto, StateAt and EveryChangeChanges say, of any sequence of entries.
KeyUpto(l, n, k) == {i \in 1..n : l[i].key = k}
StateIn(l, n, k) ==
  IF KeyUpto(l, n, k) = {} \/ ~l[CHOOSE i \in KeyUpto(l, n, k) : \A j \in KeyUpto(l, n, k) : j <= i].present
  THEN Gone
  ELSE l[CHOOSE i \in KeyUpto(l, n, k) : \A j \in KeyUpto(l, n, k) : j <= i].state
StateOf(e) == IF e.present THEN e.state ELSE Gone
Differs(e, was) == IF e.present THEN was # e.state ELSE was # Gone
States == Evidence \cup {Gone}

LEMMA LogStates ==
  /\ \A n, k : StateAt(n, k) = StateIn(log, n, k)
  /\ \A n, k : StateAt(n, k)' = StateIn(log', n, k)
BY DEF StateAt, StateIn, Upto, KeyUpto

LEMMA EntryFields ==
  ASSUME NEW e \in Entry
  PROVE  e.key \in Key /\ e.present \in BOOLEAN /\ e.state \in Evidence /\ StateOf(e) \in States
BY DEF Entry, StateOf, States

\* The last entry of a key decides.
LEMMA LastEntry ==
  ASSUME NEW l, NEW n \in Nat, NEW k, NEW i \in 1..n, l[i].key = k,
         \A j \in 1..n : l[j].key = k => j <= i
  PROVE  StateIn(l, n, k) = StateOf(l[i])
<1>1. i \in KeyUpto(l, n, k) /\ \A j \in KeyUpto(l, n, k) : j <= i
  BY DEF KeyUpto
<1>2. (CHOOSE m \in KeyUpto(l, n, k) : \A j \in KeyUpto(l, n, k) : j <= m) = i
  <2>1. ASSUME NEW m \in KeyUpto(l, n, k), \A j \in KeyUpto(l, n, k) : j <= m PROVE m = i
    <3>1. m <= i /\ i <= m /\ m \in Nat /\ i \in Nat
      BY <1>1, <2>1 DEF KeyUpto
    <3> QED BY <3>1
  <2> QED BY <1>1, <2>1
<1> QED BY <1>1, <1>2 DEF StateIn, StateOf

LEMMA NoEntry ==
  ASSUME NEW l, NEW n, NEW k, \A j \in 1..n : l[j].key # k
  PROVE  StateIn(l, n, k) = Gone
BY DEF StateIn, KeyUpto

LEMMA HasLast ==
  ASSUME NEW l, NEW n \in Nat, NEW k
  PROVE  \/ \A j \in 1..n : l[j].key # k
         \/ \E i \in 1..n : l[i].key = k /\ \A j \in 1..n : l[j].key = k => j <= i
<1> SUFFICES ASSUME NEW j0 \in 1..n, l[j0].key = k
             PROVE \E i \in 1..n : l[i].key = k /\ \A j \in 1..n : l[j].key = k => j <= i
  OBVIOUS
<1> DEFINE S == {i \in 1..n : l[i].key = k}
<1>1. S \subseteq Nat /\ S # {} /\ \A i \in S : i <= n
  OBVIOUS
<1> HIDE DEF S
<1>2. PICK m \in S : \A i \in S : i <= m
  BY <1>1, GreatestNumber
<1> QED BY <1>2 DEF S

\* Two sequences that agree up to n are in the same state at n.
LEMMA SameUpto ==
  ASSUME NEW l, NEW m, NEW n \in Nat, NEW k, \A i \in 1..n : l[i] = m[i]
  PROVE  StateIn(l, n, k) = StateIn(m, n, k)
<1>1. CASE \A j \in 1..n : l[j].key # k
  <2>1. \A j \in 1..n : m[j].key # k
    BY <1>1
  <2> QED BY <1>1, <2>1, NoEntry
<1>2. ASSUME NEW i \in 1..n, l[i].key = k, \A j \in 1..n : l[j].key = k => j <= i
      PROVE  StateIn(l, n, k) = StateIn(m, n, k)
  <2>1. StateIn(l, n, k) = StateOf(l[i])
    BY <1>2, LastEntry
  <2>2. m[i].key = k /\ \A j \in 1..n : m[j].key = k => j <= i
    BY <1>2
  <2>3. StateIn(m, n, k) = StateOf(m[i])
    BY <2>2, LastEntry
  <2> QED BY <2>1, <2>3
<1> QED BY <1>1, <1>2, HasLast

\* Between two positions a key keeps its state unless an entry between them has it.
LEMMA SameBetween ==
  ASSUME NEW l, NEW a \in Nat, NEW b \in Nat, a <= b, NEW k,
         \A i \in 1..b : i > a => l[i].key # k
  PROVE  StateIn(l, b, k) = StateIn(l, a, k)
<1>0. \A i \in 1..a : i \in 1..b
  OBVIOUS
<1>1. CASE \A j \in 1..a : l[j].key # k
  <2>1. \A j \in 1..b : l[j].key # k
    <3> SUFFICES ASSUME NEW j \in 1..b PROVE l[j].key # k
      OBVIOUS
    <3>1. j > a \/ j \in 1..a
      OBVIOUS
    <3> QED BY <1>1, <3>1
  <2> QED BY <1>1, <2>1, NoEntry
<1>2. ASSUME NEW i \in 1..a, l[i].key = k, \A j \in 1..a : l[j].key = k => j <= i
      PROVE  StateIn(l, b, k) = StateIn(l, a, k)
  <2>1. StateIn(l, a, k) = StateOf(l[i])
    BY <1>2, LastEntry
  <2>2. i \in 1..b /\ \A j \in 1..b : l[j].key = k => j <= i
    <3>1. ASSUME NEW j \in 1..b, l[j].key = k PROVE j <= i
      <4>1. j \in 1..a
        BY <3>1
      <4> QED BY <1>2, <3>1, <4>1
    <3> QED BY <1>0, <3>1
  <2>3. StateIn(l, b, k) = StateOf(l[i])
    BY <1>2, <2>2, LastEntry
  <2> QED BY <2>1, <2>3
<1>3. \/ \A j \in 1..a : l[j].key # k
      \/ \E i \in 1..a : l[i].key = k /\ \A j \in 1..a : l[j].key = k => j <= i
  BY HasLast
<1> QED BY <1>1, <1>2, <1>3

LEMMA StateTyped ==
  ASSUME NEW l \in Seq(Entry), NEW n \in 0..Len(l), NEW k
  PROVE  StateIn(l, n, k) \in States
<1>0. n \in Nat
  BY LenProperties
<1>1. \A i \in 1..n : l[i] \in Entry
  BY LenProperties, ElementOfSeq
<1>2. CASE \A j \in 1..n : l[j].key # k
  BY <1>2, NoEntry DEF States
<1>3. ASSUME NEW i \in 1..n, l[i].key = k, \A j \in 1..n : l[j].key = k => j <= i
      PROVE  StateIn(l, n, k) \in States
  <2>1. StateIn(l, n, k) = StateOf(l[i])
    BY <1>3, LastEntry
  <2> QED BY <1>1, <2>1, EntryFields
<1> QED BY <1>0, <1>2, <1>3, HasLast

(***************************************************************************)
(* Batches of changes: entries of different keys, each of which changes    *)
(* what the log l says of its key.                                         *)
(***************************************************************************)

Sound(l, x, K) ==
  /\ x \in Seq(Entry)
  /\ \A i \in 1..Len(x) : x[i].key \in K
  /\ \A i, j \in 1..Len(x) : x[i].key = x[j].key => i = j
  /\ \A i \in 1..Len(x) : Differs(x[i], StateIn(l, Len(l), x[i].key))

LEMMA Concatenated ==
  ASSUME NEW l \in Seq(Entry), NEW x \in Seq(Entry)
  PROVE  /\ l \o x \in Seq(Entry) /\ Len(l) \in Nat /\ Len(x) \in Nat
         /\ Len(l \o x) = Len(l) + Len(x)
         /\ \A i \in 1..Len(l) : (l \o x)[i] = l[i]
         /\ \A i \in 1..Len(x) : (l \o x)[Len(l) + i] = x[i]
         /\ \A i \in 1..Len(l \o x) : i > Len(l) => i - Len(l) \in 1..Len(x) /\ (l \o x)[i] = x[i - Len(l)]
<1>1. /\ l \o x \in Seq(Entry)
      /\ Len(l \o x) = Len(l) + Len(x)
      /\ \A i \in 1..Len(l) + Len(x) : (l \o x)[i] = IF i <= Len(l) THEN l[i] ELSE x[i - Len(l)]
  BY ConcatProperties
<1>2. Len(l) \in Nat /\ Len(x) \in Nat
  BY LenProperties
<1> DEFINE m == l \o x
           a == Len(l)
           b == Len(x)
<1>3. \A i \in 1..a + b : m[i] = IF i <= a THEN l[i] ELSE x[i - a]
  BY <1>1
<1>4. a \in Nat /\ b \in Nat /\ Len(m) = a + b
  BY <1>1, <1>2
<1> HIDE DEF m, a, b
<1>5. \A i \in 1..a : m[i] = l[i]
  BY <1>3, <1>4
<1>6. ASSUME NEW i \in 1..b PROVE m[a + i] = x[i]
  <2>1. a + i \in 1..a + b /\ ~(a + i <= a) /\ (a + i) - a = i
    BY <1>4
  <2> QED BY <1>3, <2>1
<1>7. \A i \in 1..Len(m) : i > a => i - a \in 1..b /\ m[i] = x[i - a]
  BY <1>3, <1>4
<1> QED BY <1>1, <1>2, <1>5, <1>6, <1>7 DEF m, a, b

\* What was written stays readable.
LEMMA PastKept ==
  ASSUME NEW l \in Seq(Entry), NEW x \in Seq(Entry), NEW n \in 0..Len(l), NEW k
  PROVE  StateIn(l \o x, n, k) = StateIn(l, n, k)
<1>1. n \in Nat /\ \A i \in 1..n : (l \o x)[i] = l[i]
  <2>1. Len(l) \in Nat /\ \A i \in 1..Len(l) : (l \o x)[i] = l[i]
    BY Concatenated
  <2> QED BY <2>1
<1> QED BY <1>1, SameUpto

\* A batch decides the keys it names and leaves the others.
LEMMA BatchDecides ==
  ASSUME NEW l \in Seq(Entry), NEW K, NEW x, Sound(l, x, K)
  PROVE  /\ \A i \in 1..Len(x) : StateIn(l \o x, Len(l \o x), x[i].key) = StateOf(x[i])
         /\ \A k : (\A i \in 1..Len(x) : x[i].key # k) =>
               StateIn(l \o x, Len(l \o x), k) = StateIn(l, Len(l), k)
<1> DEFINE m == l \o x
           a == Len(l)
           b == Len(x)
<1>1. /\ x \in Seq(Entry)
      /\ \A i, j \in 1..b : x[i].key = x[j].key => i = j
  BY DEF Sound
<1>2. /\ a \in Nat /\ b \in Nat /\ Len(m) = a + b
      /\ \A i \in 1..b : m[a + i] = x[i]
      /\ \A i \in 1..Len(m) : i > a => i - a \in 1..b /\ m[i] = x[i - a]
  BY <1>1, Concatenated
<1>3. \A k : StateIn(m, a, k) = StateIn(l, a, k)
  <2>1. a \in 0..a
    BY <1>2
  <2> QED BY <1>1, <2>1, PastKept
<1> HIDE DEF m, a, b
<1>4. ASSUME NEW i \in 1..b PROVE StateIn(m, Len(m), x[i].key) = StateOf(x[i])
  <2>1. a + i \in 1..Len(m) /\ m[a + i] = x[i] /\ Len(m) \in Nat
    BY <1>2
  <2>2. ASSUME NEW j \in 1..Len(m), m[j].key = x[i].key PROVE j <= a + i
    <3>1. CASE j > a
      <4>1. j - a \in 1..b /\ x[j - a].key = x[i].key
        BY <1>2, <2>2, <3>1
      <4>2. j - a = i
        BY <1>1, <4>1
      <4> QED BY <1>2, <4>2
    <3>2. CASE ~(j > a)
      BY <1>2, <3>2
    <3> QED BY <3>1, <3>2
  <2>3. m[a + i].key = x[i].key /\ \A j \in 1..Len(m) : m[j].key = x[i].key => j <= a + i
    BY <2>1, <2>2
  <2> DEFINE k == x[i].key
  <2>4. PICK p \in 1..Len(m) : p = a + i
    BY <2>1
  <2>5. m[p].key = k /\ m[p] = x[i] /\ \A j \in 1..Len(m) : m[j].key = k => j <= p
    BY <2>1, <2>3, <2>4
  <2> HIDE DEF k
  <2>6. StateIn(m, Len(m), k) = StateOf(m[p])
    BY <2>1, <2>5, LastEntry
  <2> QED BY <2>5, <2>6 DEF k
<1>5. ASSUME NEW k, \A i \in 1..b : x[i].key # k
      PROVE  StateIn(m, Len(m), k) = StateIn(l, a, k)
  <2>1. \A i \in 1..Len(m) : i > a => m[i].key # k
    BY <1>2, <1>5
  <2>2. Len(m) \in Nat /\ a <= Len(m)
    BY <1>2
  <2>3. StateIn(m, Len(m), k) = StateIn(m, a, k)
    BY <1>2, <2>1, <2>2, SameBetween
  <2> QED BY <1>3, <2>3
<1> QED BY <1>4, <1>5 DEF m, a, b

\* EveryChangeChanges of a log.
AllDiffer(l) == \A n \in 1..Len(l) : Differs(l[n], StateIn(l, n - 1, l[n].key))

LEMMA BatchDiffers ==
  ASSUME NEW l \in Seq(Entry), AllDiffer(l), NEW K, NEW x, Sound(l, x, K)
  PROVE  AllDiffer(l \o x)
<1> DEFINE m == l \o x
           a == Len(l)
           b == Len(x)
<1>1. /\ x \in Seq(Entry)
      /\ \A i, j \in 1..b : x[i].key = x[j].key => i = j
      /\ \A i \in 1..b : Differs(x[i], StateIn(l, a, x[i].key))
  BY DEF Sound
<1>2. /\ a \in Nat /\ b \in Nat /\ Len(m) = a + b
      /\ \A i \in 1..a : m[i] = l[i]
      /\ \A i \in 1..Len(m) : i > a => i - a \in 1..b /\ m[i] = x[i - a]
  BY <1>1, Concatenated
<1>3. \A n \in 0..a : \A k : StateIn(m, n, k) = StateIn(l, n, k)
  BY <1>1, PastKept
<1>4. \A n \in 1..a : Differs(l[n], StateIn(l, n - 1, l[n].key))
  BY DEF AllDiffer
<1> HIDE DEF m, a, b
<1>5. ASSUME NEW n \in 1..Len(m) PROVE Differs(m[n], StateIn(m, n - 1, m[n].key))
  <2>1. CASE n <= a
    <3>1. n \in 1..a /\ n - 1 \in 0..a
      BY <1>2, <2>1
    <3>2. m[n] = l[n] /\ StateIn(m, n - 1, m[n].key) = StateIn(l, n - 1, m[n].key)
      BY <1>2, <1>3, <3>1
    <3>3. Differs(l[n], StateIn(l, n - 1, l[n].key))
      BY <1>4, <3>1
    <3> QED BY <3>2, <3>3
  <2>2. CASE ~(n <= a)
    <3>1. n > a /\ n - 1 \in Nat /\ a <= n - 1
      BY <1>2, <2>2
    <3>2. n - a \in 1..b /\ m[n] = x[n - a]
      BY <1>2, <3>1
    <3>3. ASSUME NEW i \in 1..(n - 1), i > a PROVE m[i].key # m[n].key
      <4>1. i \in 1..Len(m) /\ i # n
        BY <1>2
      <4>2. i - a \in 1..b /\ m[i] = x[i - a]
        BY <1>2, <3>3, <4>1
      <4>3. i - a # n - a
        BY <1>2, <4>1
      <4> QED BY <1>1, <3>2, <4>2, <4>3
    <3>4. StateIn(m, n - 1, m[n].key) = StateIn(m, a, m[n].key)
      BY <1>2, <3>1, <3>3, SameBetween
    <3>5. StateIn(m, a, m[n].key) = StateIn(l, a, m[n].key)
      BY <1>2, <1>3
    <3> QED BY <1>1, <3>2, <3>4, <3>5
  <2> QED BY <2>1, <2>2
<1> QED BY <1>5 DEF AllDiffer, m

\* Batches that name different keys make one batch.
LEMMA BatchesJoin ==
  ASSUME NEW l, NEW K, NEW L, K \cap L = {}, NEW x, Sound(l, x, K), NEW y, Sound(l, y, L)
  PROVE  Sound(l, x \o y, K \cup L)
<1> DEFINE m == x \o y
           a == Len(x)
           b == Len(y)
           At(e) == StateIn(l, Len(l), e.key)
<1>1. /\ x \in Seq(Entry) /\ y \in Seq(Entry)
      /\ \A i \in 1..a : x[i].key \in K /\ Differs(x[i], At(x[i]))
      /\ \A i \in 1..b : y[i].key \in L /\ Differs(y[i], At(y[i]))
      /\ \A i, j \in 1..a : x[i].key = x[j].key => i = j
      /\ \A i, j \in 1..b : y[i].key = y[j].key => i = j
  BY DEF Sound
<1>2. /\ m \in Seq(Entry) /\ a \in Nat /\ b \in Nat /\ Len(m) = a + b
      /\ \A i \in 1..a : m[i] = x[i]
      /\ \A i \in 1..Len(m) : i > a => i - a \in 1..b /\ m[i] = y[i - a]
  BY <1>1, Concatenated
<1> HIDE DEF m, a, b, At
<1>3. ASSUME NEW i \in 1..Len(m)
      PROVE  \/ i \in 1..a /\ m[i] = x[i]
             \/ i > a /\ i - a \in 1..b /\ m[i] = y[i - a]
  BY <1>2
<1>4. ASSUME NEW i \in 1..Len(m) PROVE m[i].key \in K \cup L /\ Differs(m[i], At(m[i]))
  BY <1>1, <1>3
<1>5. ASSUME NEW i \in 1..Len(m), NEW j \in 1..Len(m), m[i].key = m[j].key PROVE i = j
  <2>1. CASE i \in 1..a /\ m[i] = x[i] /\ j \in 1..a /\ m[j] = x[j]
    BY <1>1, <1>5, <2>1
  <2>2. CASE /\ i > a /\ i - a \in 1..b /\ m[i] = y[i - a]
             /\ j > a /\ j - a \in 1..b /\ m[j] = y[j - a]
    <3>1. i - a = j - a
      BY <1>1, <1>5, <2>2
    <3> QED BY <1>2, <3>1
  <2>3. CASE i \in 1..a /\ m[i] = x[i] /\ j - a \in 1..b /\ m[j] = y[j - a]
    BY <1>1, <1>5, <2>3
  <2>4. CASE j \in 1..a /\ m[j] = x[j] /\ i - a \in 1..b /\ m[i] = y[i - a]
    BY <1>1, <1>5, <2>4
  <2> QED BY <1>3, <2>1, <2>2, <2>3, <2>4
<1> QED BY <1>2, <1>4, <1>5 DEF Sound, m, At

(***************************************************************************)
(* What record_scan_changes appends for a report.                          *)
(***************************************************************************)

LEMMA AsSequence ==
  ASSUME NEW S, NEW n \in Nat, NEW f \in [1..n -> S]
  PROVE  f \in Seq(S) /\ Len(f) = n
<1>1. f \in Seq(S)
  BY SeqDef
<1>2. DOMAIN f = 1..n /\ DOMAIN f = 1..Len(f) /\ Len(f) \in Nat
  BY <1>1, LenProperties
<1> QED BY <1>1, <1>2

LEMMA KeyFacts ==
  /\ Key \subseteq Nat /\ IsFiniteSet(Key)
  /\ \A d \in Device : Keys(d) \subseteq Key /\ IsFiniteSet(Keys(d)) /\ NoKey \notin Keys(d)
  /\ \A d, e \in Device : d # e => Keys(d) \cap Keys(e) = {}
<1> DEFINE Pairs == Device \X Fingerprint
           R == {KeyOf[x] : x \in Pairs}
<1>1. IsFiniteSet(Pairs) /\ KeyOf \in [Pairs -> Nat]
  BY StoreAssumption, FS_Product
<1>2. KeyOf \in Surjection(Pairs, R)
  BY <1>1 DEF Surjection
<1>3. IsFiniteSet(R) /\ R \subseteq Nat
  <2> HIDE DEF Pairs
  <2>1. R \subseteq Nat
    BY <1>1
  <2> HIDE DEF R
  <2> QED BY <1>1, <1>2, <2>1, FS_Surjection
<1>4. \A d \in Device : Keys(d) \subseteq R /\ NoKey \notin Keys(d)
  BY DEF Keys
<1>5. Key \subseteq R /\ \A d \in Device : Keys(d) \subseteq Key
  BY <1>4 DEF Key
<1> HIDE DEF R
<1>6. Key \in SUBSET R /\ \A d \in Device : Keys(d) \in SUBSET R
  BY <1>4, <1>5
<1> QED BY <1>3, <1>4, <1>5, <1>6, FS_Subset, StoreAssumption

LEMMA FirstIs ==
  ASSUME NEW S, S \subseteq Nat, S # {}
  PROVE  First(S) \in S /\ \A j \in S : First(S) <= j
<1>1. \E m \in S : \A j \in S : m <= j
  BY LeastNumber
<1> QED BY <1>1 DEF First

LEMMA GoneApart == Gone \notin Evidence /\ Gone.running = FALSE
<1>1. Gone.running = FALSE
  BY DEF Gone
<1>2. ASSUME Gone \in Evidence PROVE FALSE
  <2>1. "version" \in DOMAIN Gone
    BY <1>2 DEF Evidence
  <2> QED BY <2>1 DEF Gone
<1> QED BY <1>1, <1>2

LEMMA PlacesAre ==
  ASSUME NEW d, NEW r \in Seq(Item), NEW k
  PROVE  /\ Places(d, r, k) \subseteq Nat /\ Places(d, r, k) = {i \in 1..Len(r) : KeyOf[<<d, r[i].print>>] = k}
         /\ \A i \in Places(d, r, k) : KeyOf[<<d, r[i].print>>] = k /\ r[i] \in Item
<1>1. DOMAIN r = 1..Len(r) /\ \A i \in 1..Len(r) : r[i] \in Item
  BY LenProperties, ElementOfSeq
<1> QED BY <1>1 DEF Places

\* One item speaks for its key, a running one if there is one.
LEMMA Spoken ==
  ASSUME NEW d, NEW r \in Seq(Item), NEW k
  PROVE  /\ Places(d, r, k) = {} => Projected(d, r, k) = Gone
         /\ Places(d, r, k) # {} =>
              /\ Projected(d, r, k) \in Evidence
              /\ Projected(d, r, k) # Gone
              /\ Projected(d, r, k) \in {EvidenceOf(r[i]) : i \in Places(d, r, k)}
              /\ Projected(d, r, k).running = \E i \in Places(d, r, k) : r[i].running
<1> DEFINE S == Places(d, r, k)
           running == {i \in S : r[i].running}
<1>1. S \subseteq Nat /\ \A i \in S : r[i] \in Item
  BY PlacesAre
<1>2. ASSUME S = {} PROVE Projected(d, r, k) = Gone
  BY <1>2 DEF Projected
<1>3. ASSUME S # {}
      PROVE  /\ Projected(d, r, k) \in Evidence
             /\ Projected(d, r, k) # Gone
             /\ Projected(d, r, k) \in {EvidenceOf(r[i]) : i \in S}
             /\ Projected(d, r, k).running = \E i \in S : r[i].running
  <2>1. PICK i \in S : /\ Projected(d, r, k) = EvidenceOf(r[i])
                       /\ i \in running \/ running = {}
    <3>1. CASE running = {}
      <4>1. First(S) \in S /\ Projected(d, r, k) = EvidenceOf(r[First(S)])
        <5>1. Projected(d, r, k) = EvidenceOf(r[First(S)])
          BY <1>3, <3>1 DEF Projected, Speaker
        <5> HIDE DEF S
        <5> QED BY <1>1, <1>3, <5>1, FirstIs
      <4> QED BY <3>1, <4>1
    <3>2. CASE running # {}
      <4>1. First(running) \in running /\ Projected(d, r, k) = EvidenceOf(r[First(running)])
        <5>1. Projected(d, r, k) = EvidenceOf(r[First(running)])
          BY <1>3, <3>2 DEF Projected, Speaker
        <5>2. running \subseteq Nat
          BY <1>1
        <5> HIDE DEF running
        <5> QED BY <3>2, <5>1, <5>2, FirstIs
      <4> QED BY <4>1
    <3> QED BY <3>1, <3>2
  <2>2. r[i] \in Item
    BY <1>1, <2>1
  <2>3. EvidenceOf(r[i]) \in Evidence /\ EvidenceOf(r[i]).running = r[i].running
    BY <2>2 DEF EvidenceOf, Evidence, Item
  <2>4. r[i].running \in BOOLEAN /\ r[i].running = (\E j \in S : r[j].running)
    <3>1. r[i].running \in BOOLEAN
      BY <2>2 DEF Item
    <3>2. CASE i \in running
      <4>1. r[i].running = TRUE
        BY <3>1, <3>2
      <4>2. \E j \in S : r[j].running
        BY <2>1, <4>1
      <4> QED BY <4>1, <4>2
    <3>3. CASE running = {}
      <4>1. ~ r[i].running /\ ~ \E j \in S : r[j].running
        BY <2>1, <3>3
      <4> QED BY <3>1, <4>1
    <3> QED BY <2>1, <3>2, <3>3
  <2> HIDE DEF S
  <2>5. Projected(d, r, k).running = (\E j \in S : r[j].running)
    BY <2>1, <2>3, <2>4
  <2> QED BY <2>1, <2>3, <2>5, GoneApart
<1> QED BY <1>2, <1>3

\* After batch x the log says of every key of d what report r says.
Tells(x, d, r) ==
  \A k \in Keys(d) :
    \/ \E i \in 1..Len(x) : x[i].key = k /\ StateOf(x[i]) = Projected(d, r, k)
    \/ /\ \A i \in 1..Len(x) : x[i].key # k
       /\ StateIn(log, Len(log), k) = Projected(d, r, k)

NewKeys(d, r) == {k \in Keys(d) : Places(d, r, k) # {} /\ Current(k) # Projected(d, r, k)}
OldKeys(d, r) == {k \in Keys(d) : Current(k) # Gone /\ Places(d, r, k) = {}}
Upserts(d, r) ==
  [n \in DOMAIN Upserted(d, r) |->
     [key |-> Upserted(d, r)[n], present |-> TRUE, state |-> Projected(d, r, Upserted(d, r)[n])]]
Removals(d, r) ==
  [n \in DOMAIN Removed(d, r) |->
     [key |-> Removed(d, r)[n], present |-> FALSE, state |-> Current(Removed(d, r)[n])]]

LEMMA UpsertsSound ==
  ASSUME log \in Seq(Entry), NEW d \in Device, NEW r \in Seq(Item)
  PROVE  /\ Sound(log, Upserts(d, r), NewKeys(d, r))
         /\ \A i \in 1..Len(Upserts(d, r)) :
              StateOf(Upserts(d, r)[i]) = Projected(d, r, Upserts(d, r)[i].key)
         /\ \A k \in NewKeys(d, r) : \E i \in 1..Len(Upserts(d, r)) : Upserts(d, r)[i].key = k
<1> DEFINE new == NewKeys(d, r)
           x == Upserts(d, r)
           rank == [k \in new |-> First(Places(d, r, k))]
           up == InOrder(new, rank)
           N == Cardinality(new)
<1>1. Upserted(d, r) = up
  BY DEF Upserted, NewKeys
<1>2. IsFiniteSet(new) /\ new \subseteq Keys(d)
  <2>1. new \in SUBSET Keys(d)
    BY DEF NewKeys
  <2> QED BY <2>1, KeyFacts, FS_Subset
<1>3. ASSUME NEW k \in new
      PROVE  rank[k] \in Nat /\ rank[k] \in Places(d, r, k) /\ KeyOf[<<d, r[rank[k]].print>>] = k
  <2>1. Places(d, r, k) # {}
    BY DEF NewKeys
  <2>2. /\ Places(d, r, k) \subseteq Nat
        /\ \A i \in Places(d, r, k) : KeyOf[<<d, r[i].print>>] = k
    BY PlacesAre
  <2>3. rank[k] = First(Places(d, r, k))
    OBVIOUS
  <2> QED BY <2>1, <2>2, <2>3, FirstIs
<1> HIDE DEF rank
<1>4. /\ N \in Nat /\ up \in [1..N -> new]
      /\ \A i, j \in 1..N : up[i] = up[j] => i = j
      /\ \A k \in new : \E i \in 1..N : up[i] = k
  <2>1. ASSUME NEW k \in new PROVE rank[k] \in Int
    <3>1. rank[k] \in Nat
      BY <1>3
    <3> QED BY <3>1
  <2>2. \A k, m \in new : rank[k] = rank[m] => k = m
    <3> SUFFICES ASSUME NEW k \in new, NEW m \in new, rank[k] = rank[m] PROVE k = m
      OBVIOUS
    <3>1. KeyOf[<<d, r[rank[k]].print>>] = k /\ KeyOf[<<d, r[rank[m]].print>>] = m
      BY <1>3
    <3> QED BY <3>1
  <2> QED BY <1>2, <2>1, <2>2, Ordered
<1> HIDE DEF up, N, new, x
<1>5. /\ x \in [1..N -> Entry]
      /\ \A n \in 1..N : /\ x[n].key = up[n] /\ up[n] \in new
                         /\ x[n].present = TRUE /\ x[n].state = Projected(d, r, up[n])
  <2>1. x = [n \in 1..N |-> [key |-> up[n], present |-> TRUE, state |-> Projected(d, r, up[n])]]
    BY <1>1, <1>4 DEF Upserts, x
  <2>2. ASSUME NEW n \in 1..N
        PROVE  up[n] \in new /\ up[n] \in Key /\ Projected(d, r, up[n]) \in Evidence
    <3>1. up[n] \in new
      BY <1>4
    <3>2. Places(d, r, up[n]) # {}
      BY <3>1 DEF NewKeys, new
    <3> QED BY <1>2, <3>1, <3>2, Spoken, KeyFacts
  <2>3. ASSUME NEW n \in 1..N
        PROVE  [key |-> up[n], present |-> TRUE, state |-> Projected(d, r, up[n])] \in Entry
    BY <2>2 DEF Entry
  <2> QED BY <2>1, <2>2, <2>3
<1>6. x \in Seq(Entry) /\ Len(x) = N
  BY <1>4, <1>5, AsSequence
<1>7. ASSUME NEW n \in 1..N
      PROVE  /\ x[n].key \in new
             /\ Differs(x[n], StateIn(log, Len(log), x[n].key))
             /\ StateOf(x[n]) = Projected(d, r, x[n].key)
  <2>1. x[n].key = up[n] /\ up[n] \in new /\ x[n].present = TRUE /\ x[n].state = Projected(d, r, up[n])
    BY <1>5
  <2>2. StateIn(log, Len(log), up[n]) # Projected(d, r, up[n])
    BY <2>1, LogStates DEF NewKeys, Current, new
  <2> QED BY <2>1, <2>2 DEF Differs, StateOf
<1>8. Sound(log, x, new)
  BY <1>4, <1>5, <1>6, <1>7 DEF Sound
<1> QED BY <1>4, <1>5, <1>6, <1>7, <1>8 DEF x, new

LEMMA RemovalsSound ==
  ASSUME log \in Seq(Entry), NEW d \in Device, NEW r \in Seq(Item)
  PROVE  /\ Sound(log, Removals(d, r), OldKeys(d, r))
         /\ \A i \in 1..Len(Removals(d, r)) : StateOf(Removals(d, r)[i]) = Gone
         /\ \A k \in OldKeys(d, r) : \E i \in 1..Len(Removals(d, r)) : Removals(d, r)[i].key = k
<1> DEFINE old == OldKeys(d, r)
           x == Removals(d, r)
           rank == [k \in old |-> k]
           down == InOrder(old, rank)
           N == Cardinality(old)
<1>1. Removed(d, r) = down
  BY DEF Removed, OldKeys
<1>2. IsFiniteSet(old) /\ old \subseteq Keys(d)
  <2>1. old \in SUBSET Keys(d)
    BY DEF OldKeys
  <2> QED BY <2>1, KeyFacts, FS_Subset
<1>3. \A k \in old : rank[k] = k /\ k \in Nat
  BY <1>2, KeyFacts
<1> HIDE DEF rank
<1>4. /\ N \in Nat /\ down \in [1..N -> old]
      /\ \A i, j \in 1..N : down[i] = down[j] => i = j
      /\ \A k \in old : \E i \in 1..N : down[i] = k
  <2>1. \A k \in old : rank[k] \in Int
    BY <1>3
  <2>2. \A k, m \in old : rank[k] = rank[m] => k = m
    BY <1>3
  <2> QED BY <1>2, <2>1, <2>2, Ordered
<1> HIDE DEF down, N, old, x
<1>5. /\ x \in [1..N -> Entry]
      /\ \A n \in 1..N : x[n].key = down[n] /\ down[n] \in old /\ x[n].present = FALSE
  <2>1. x = [n \in 1..N |-> [key |-> down[n], present |-> FALSE, state |-> Current(down[n])]]
    BY <1>1, <1>4 DEF Removals, x
  <2>2. ASSUME NEW n \in 1..N
        PROVE  down[n] \in old /\ down[n] \in Key /\ Current(down[n]) \in Evidence
    <3>1. down[n] \in old
      BY <1>4
    <3>2. StateIn(log, Len(log), down[n]) # Gone
      BY <3>1, LogStates DEF OldKeys, Current, old
    <3>3. Len(log) \in 0..Len(log)
      BY LenProperties
    <3>4. StateIn(log, Len(log), down[n]) \in States
      BY <3>3, StateTyped
    <3> QED BY <1>2, <3>1, <3>2, <3>4, KeyFacts, LogStates DEF Current, States
  <2>3. ASSUME NEW n \in 1..N
        PROVE  [key |-> down[n], present |-> FALSE, state |-> Current(down[n])] \in Entry
    BY <2>2 DEF Entry
  <2> QED BY <2>1, <2>2, <2>3
<1>6. x \in Seq(Entry) /\ Len(x) = N
  BY <1>4, <1>5, AsSequence
<1>7. ASSUME NEW n \in 1..N
      PROVE  /\ x[n].key \in old
             /\ Differs(x[n], StateIn(log, Len(log), x[n].key))
             /\ StateOf(x[n]) = Gone
  <2>1. x[n].key = down[n] /\ down[n] \in old /\ x[n].present = FALSE
    BY <1>5
  <2>2. StateIn(log, Len(log), down[n]) # Gone
    BY <2>1, LogStates DEF OldKeys, Current, old
  <2> QED BY <2>1, <2>2 DEF Differs, StateOf
<1>8. Sound(log, x, old)
  BY <1>4, <1>5, <1>6, <1>7 DEF Sound
<1> QED BY <1>4, <1>5, <1>6, <1>7, <1>8 DEF x, old

LEMMA ChangesSound ==
  ASSUME log \in Seq(Entry), NEW d \in Device, NEW r \in Seq(Item)
  PROVE  Sound(log, Changes(d, r), Keys(d)) /\ Tells(Changes(d, r), d, r)
<1> DEFINE at(k) == StateIn(log, Len(log), k)
           new == NewKeys(d, r)
           old == OldKeys(d, r)
           x == Upserts(d, r)
           y == Removals(d, r)
           z == x \o y
<1>1. Changes(d, r) = z
  BY DEF Changes, Upserts, Removals
<1>2. /\ Sound(log, x, new)
      /\ \A i \in 1..Len(x) : StateOf(x[i]) = Projected(d, r, x[i].key)
      /\ \A k \in new : \E i \in 1..Len(x) : x[i].key = k
  BY UpsertsSound
<1>3. /\ Sound(log, y, old)
      /\ \A i \in 1..Len(y) : StateOf(y[i]) = Gone
      /\ \A k \in old : \E i \in 1..Len(y) : y[i].key = k
  BY RemovalsSound
<1>4. new \cap old = {} /\ new \cup old \subseteq Keys(d)
  BY DEF NewKeys, OldKeys
<1>5. ASSUME NEW k \in old PROVE Projected(d, r, k) = Gone
  BY Spoken DEF OldKeys
<1>6. ASSUME NEW k \in Keys(d), k \notin new \cup old PROVE at(k) = Projected(d, r, k)
  <2>0. at(k) = Current(k)
    BY LogStates DEF Current
  <2>1. CASE Places(d, r, k) = {}
    BY <1>6, <2>0, <2>1, Spoken DEF OldKeys
  <2>2. CASE Places(d, r, k) # {}
    BY <1>6, <2>0, <2>2 DEF NewKeys
  <2> QED BY <2>1, <2>2
<1> HIDE DEF x, y, new, old, at
<1>7. Sound(log, z, new \cup old)
  BY <1>2, <1>3, <1>4, BatchesJoin
<1>8. Sound(log, z, Keys(d))
  BY <1>4, <1>7 DEF Sound
<1>9. /\ Len(x) \in Nat /\ Len(y) \in Nat /\ Len(z) = Len(x) + Len(y)
      /\ \A i \in 1..Len(x) : z[i] = x[i]
      /\ \A i \in 1..Len(y) : z[Len(x) + i] = y[i]
  <2>1. x \in Seq(Entry) /\ y \in Seq(Entry)
    BY <1>2, <1>3 DEF Sound
  <2> QED BY <2>1, Concatenated
<1>10. \A i \in 1..Len(y) : y[i].key \in old
  BY <1>3 DEF Sound
<1>11. \A i \in 1..Len(z) : z[i].key \in new \cup old
  BY <1>7 DEF Sound
<1> HIDE DEF z
<1>12. ASSUME NEW k \in Keys(d)
       PROVE  \/ \E i \in 1..Len(z) : z[i].key = k /\ StateOf(z[i]) = Projected(d, r, k)
              \/ /\ \A i \in 1..Len(z) : z[i].key # k
                 /\ at(k) = Projected(d, r, k)
  <2>1. CASE k \in new
    <3>1. PICK i \in 1..Len(x) : x[i].key = k
      BY <1>2, <2>1
    <3>2. i \in 1..Len(z) /\ z[i] = x[i]
      BY <1>9
    <3> QED BY <1>2, <3>1, <3>2
  <2>2. CASE k \in old
    <3>1. PICK i \in 1..Len(y) : y[i].key = k
      BY <1>3, <2>2
    <3>2. PICK j \in 1..Len(z) : z[j] = y[i]
      BY <1>9
    <3> QED BY <1>3, <1>5, <2>2, <3>1, <3>2
  <2>3. CASE k \notin new \cup old
    BY <1>6, <1>11, <2>3
  <2> QED BY <2>1, <2>2, <2>3
<1>13. Tells(z, d, r)
  BY <1>12 DEF Tells, at
<1> QED BY <1>1, <1>8, <1>13

(***************************************************************************)
(* What a start appends: one batch for every device with members.          *)
(***************************************************************************)

(* FlattenSeq of the library joins a sequence of sequences from left to right. *)
JoinsUp(f, N, b) ==
  /\ f[0] = <<>>
  /\ \A n \in 1..N : f[n] = f[n - 1] \o b[n]
  /\ FlattenSeq(b) = f[N]

LEMMA Flattened ==
  ASSUME NEW S, NEW N \in Nat, NEW b \in [1..N -> Seq(S)]
  PROVE  \E f \in [0..N -> Seq(S)] : JoinsUp(f, N, b)
<1> DEFINE X == Seq(S)
           g == [p \in X \X (1..N) |-> p[1] \o b[p[2]]]
<1>1. g \in [X \X (1..N) -> X] /\ \A s \in X, n \in 1..N : g[<<s, n>>] = s \o b[n]
  <2>1. \A s \in X, n \in 1..N : s \o b[n] \in X
    BY ConcatProperties
  <2> QED BY <2>1
<1>2. <<>> \in X
  OBVIOUS
<1> HIDE DEF g, X
<1>3. PICK f \in [0..N -> X] : Recurs(f, N, <<>>, g)
  BY <1>1, <1>2, Recursion
<1>4. f[0] = <<>> /\ \A n \in 1..N : f[n] = f[n - 1] \o b[n] /\ f[n] \in X /\ f[n - 1] \in X
  <2>1. ASSUME NEW n \in 1..N PROVE f[n] = f[n - 1] \o b[n] /\ f[n] \in X /\ f[n - 1] \in X
    <3>1. n \in 0..N /\ n - 1 \in 0..N
      OBVIOUS
    <3>2. f[n] \in X /\ f[n - 1] \in X
      BY <1>3, <3>1
    <3> QED BY <1>1, <1>3, <3>2 DEF Recurs
  <2> QED BY <1>3, <2>1 DEF Recurs
<1>5. b \in Seq(Seq(S)) /\ Len(b) = N
  BY AsSequence
<1>6. CASE N = 0
  <2>1. b = <<>>
    BY <1>5, <1>6, EmptySeq
  <2>2. FlattenSeq(b) = b
    BY <1>5, <1>6 DEF FlattenSeq
  <2> QED BY <1>3, <1>4, <1>6, <2>1, <2>2 DEF X, JoinsUp
<1>7. CASE N # 0
  <2> DEFINE Joins(h) == h = [n \in 1..N |-> IF n = 1 THEN b[n] ELSE h[n - 1] \o b[n]]
             flat == CHOOSE h : Joins(h)
  <2>1. Joins(flat)
    <3> DEFINE h == [n \in 1..N |-> f[n]]
    <3>1. ASSUME NEW n \in 1..N PROVE f[n] = IF n = 1 THEN b[n] ELSE h[n - 1] \o b[n]
      <4>1. CASE n = 1
        <5>0. n - 1 = 0
          BY <4>1
        <5>1. f[n] = <<>> \o b[n] /\ b[n] \in Seq(S)
          BY <1>4, <5>0
        <5> QED BY <4>1, <5>1, ConcatEmptySeq
      <4>2. CASE n # 1
        <5>1. n - 1 \in 1..N
          BY <4>2
        <5> QED BY <1>4, <4>2, <5>1
      <4> QED BY <4>1, <4>2
    <3>2. Joins(h)
      BY <3>1
    <3> QED BY <3>2
  <2>2. FlattenSeq(b) = flat[N]
    BY <1>5, <1>7 DEF FlattenSeq
  <2> HIDE DEF flat
  <2> DEFINE T == {n \in 0..N : n = 0 \/ flat[n] = f[n]}
  <2>3. ASSUME NEW n \in 0..N, n \in T, n < N PROVE n + 1 \in T
    <3>1. n + 1 \in 1..N /\ n + 1 \in 0..N /\ (n + 1) - 1 = n
      BY <2>3
    <3>2. flat[n + 1] = IF n + 1 = 1 THEN b[n + 1] ELSE flat[(n + 1) - 1] \o b[n + 1]
      BY <2>1, <3>1
    <3>3. f[n + 1] = f[n] \o b[n + 1] /\ b[n + 1] \in Seq(S)
      BY <1>4, <3>1
    <3>4. CASE n = 0
      <4>1. f[n + 1] = b[n + 1]
        BY <1>4, <3>3, <3>4, ConcatEmptySeq
      <4>2. flat[n + 1] = b[n + 1]
        BY <3>2, <3>4
      <4> QED BY <3>1, <4>1, <4>2
    <3>5. CASE n # 0
      <4>1. flat[n] = f[n]
        BY <2>3, <3>5
      <4>2. n + 1 # 1
        BY <2>3, <3>5
      <4>3. flat[n + 1] = flat[n] \o b[n + 1]
        BY <3>1, <3>2, <4>2
      <4> QED BY <3>1, <3>3, <4>1, <4>3
    <3> QED BY <3>4, <3>5
  <2>4. 0 \in T
    OBVIOUS
  <2>5. N \in T
    <3> HIDE DEF T
    <3>1. 0..N \subseteq T
      BY <2>3, <2>4, SetInduction
    <3> QED BY <3>1
  <2>6. flat[N] = f[N]
    BY <1>7, <2>5
  <2> QED BY <1>3, <1>4, <2>2, <2>6 DEF X, JoinsUp
<1> QED BY <1>6, <1>7

\* Every device has one place in the sequence a start goes through.
LEMMA DevicesInTurn ==
  /\ Cardinality(Device) \in Nat
  /\ SetToSeq(Device) \in [1..Cardinality(Device) -> Device]
  /\ \A i, j \in 1..Cardinality(Device) : SetToSeq(Device)[i] = SetToSeq(Device)[j] => i = j
  /\ \A d \in Device : \E i \in 1..Cardinality(Device) : SetToSeq(Device)[i] = d
<1> DEFINE N == Cardinality(Device)
           f == SetToSeq(Device)
<1>1. N \in Nat /\ ExistsBijection(1..N, Device) /\ IsFiniteSet(Device)
  BY StoreAssumption, FS_CardinalityType
<1>2. PICK g \in [1..N -> Device] : IsInjective(g)
  BY <1>1 DEF ExistsBijection, Bijection, Injection
<1>3. f = CHOOSE h \in [1..N -> Device] : IsInjective(h)
  BY DEF SetToSeq
<1> HIDE DEF f, N
<1>4. f \in [1..N -> Device] /\ IsInjective(f)
  BY <1>2, <1>3
<1>5. f \in Injection(1..N, Device)
  BY <1>4 DEF Injection
<1>6. IsFiniteSet(1..N) /\ Cardinality(1..N) = N
  BY <1>1, FS_Interval
<1>7. f \in Surjection(1..N, Device)
  BY <1>1, <1>5, <1>6, FS_Injection DEF N
<1> QED BY <1>1, <1>4, <1>7 DEF IsInjective, Surjection, f, N

Entries(x, k) == {x[j] : j \in {i \in 1..Len(x) : x[i].key = k}}

LEMMA EntriesJoin ==
  ASSUME NEW x \in Seq(Entry), NEW y \in Seq(Entry), NEW k
  PROVE  Entries(x \o y, k) = Entries(x, k) \cup Entries(y, k)
<1> DEFINE z == x \o y
           a == Len(x)
           b == Len(y)
<1>1. /\ a \in Nat /\ b \in Nat /\ Len(z) = a + b
      /\ \A i \in 1..a : z[i] = x[i]
      /\ \A i \in 1..b : z[a + i] = y[i]
      /\ \A i \in 1..Len(z) : i > a => i - a \in 1..b /\ z[i] = y[i - a]
  BY Concatenated
<1> HIDE DEF z, a, b
<1>2. ASSUME NEW e \in Entries(z, k) PROVE e \in Entries(x, k) \cup Entries(y, k)
  <2>1. PICK i \in 1..Len(z) : z[i] = e /\ e.key = k
    BY DEF Entries
  <2>2. \/ i \in 1..a /\ x[i] = e
        \/ i - a \in 1..b /\ y[i - a] = e
    BY <1>1, <2>1
  <2> QED BY <2>1, <2>2 DEF Entries, a, b
<1>3. ASSUME NEW e \in Entries(x, k) PROVE e \in Entries(z, k)
  <2>1. PICK i \in 1..a : x[i] = e /\ e.key = k
    BY DEF Entries, a
  <2>2. i \in 1..Len(z) /\ z[i] = e
    BY <1>1, <2>1
  <2> QED BY <2>1, <2>2 DEF Entries
<1>4. ASSUME NEW e \in Entries(y, k) PROVE e \in Entries(z, k)
  <2>1. PICK i \in 1..b : y[i] = e /\ e.key = k
    BY DEF Entries, b
  <2>2. PICK j \in 1..Len(z) : z[j] = e
    BY <1>1, <2>1
  <2> QED BY <2>1, <2>2 DEF Entries
<1>5. Entries(z, k) = Entries(x, k) \cup Entries(y, k)
  BY <1>2, <1>3, <1>4
<1> QED BY <1>5 DEF z

LEMMA TellsAlike ==
  ASSUME NEW x, NEW y, NEW d, NEW r, \A k \in Keys(d) : Entries(x, k) = Entries(y, k), Tells(y, d, r)
  PROVE  Tells(x, d, r)
<1> SUFFICES ASSUME NEW k \in Keys(d)
             PROVE  \/ \E i \in 1..Len(x) : x[i].key = k /\ StateOf(x[i]) = Projected(d, r, k)
                    \/ /\ \A i \in 1..Len(x) : x[i].key # k
                       /\ StateIn(log, Len(log), k) = Projected(d, r, k)
  BY DEF Tells
<1>1. Entries(x, k) = Entries(y, k)
  OBVIOUS
<1>2. CASE \E i \in 1..Len(y) : y[i].key = k /\ StateOf(y[i]) = Projected(d, r, k)
  <2>1. PICK e \in Entries(y, k) : StateOf(e) = Projected(d, r, k)
    BY <1>2 DEF Entries
  <2>2. PICK i \in 1..Len(x) : x[i].key = k /\ x[i] = e
    BY <1>1 DEF Entries
  <2> QED BY <2>1, <2>2
<1>3. CASE /\ \A i \in 1..Len(y) : y[i].key # k
           /\ StateIn(log, Len(log), k) = Projected(d, r, k)
  <2>1. Entries(y, k) = {}
    BY <1>3 DEF Entries
  <2>2. \A i \in 1..Len(x) : x[i].key # k
    BY <1>1, <2>1 DEF Entries
  <2> QED BY <1>3, <2>2
<1> QED BY <1>2, <1>3 DEF Tells

\* What a start appends for one device.
Started(d) == IF Members(d) = {} THEN <<>> ELSE Changes(d, Retained(d))

LEMMA EmptySound ==
  ASSUME NEW l, NEW K
  PROVE  Sound(l, <<>>, K) /\ \A k : Entries(<<>>, k) = {}
<1>1. <<>> \in Seq(Entry) /\ Len(<<>>) = 0
  BY EmptySeq
<1>2. 1..0 = {}
  OBVIOUS
<1> QED BY <1>1, <1>2 DEF Sound, Entries

LEMMA KeysOnly ==
  ASSUME NEW l, NEW K, NEW x, Sound(l, x, K), NEW k, k \notin K
  PROVE  Entries(x, k) = {}
BY DEF Sound, Entries

LEMMA BootstrapSound ==
  ASSUME log \in Seq(Entry), \A d \in Device : Retained(d) \in Seq(Item)
  PROVE  /\ Sound(log, Bootstrapped, Key)
         /\ \A d \in Device : Members(d) = {} => \A k \in Keys(d) : Entries(Bootstrapped, k) = {}
         /\ \A d \in Device : Members(d) # {} => Tells(Bootstrapped, d, Retained(d))
<1> DEFINE N == Cardinality(Device)
           dev == SetToSeq(Device)
           b == [n \in 1..N |-> Started(dev[n])]
           K(n) == UNION {Keys(dev[i]) : i \in 1..n}
<1>1. /\ N \in Nat /\ dev \in [1..N -> Device]
      /\ \A i, j \in 1..N : dev[i] = dev[j] => i = j
      /\ \A d \in Device : \E i \in 1..N : dev[i] = d
  BY DevicesInTurn
<1>2. Bootstrapped = FlattenSeq(b)
  BY DEF Bootstrapped, Started
<1> HIDE DEF N, dev
<1>3. ASSUME NEW d \in Device
      PROVE  /\ Sound(log, Started(d), Keys(d)) /\ Started(d) \in Seq(Entry)
             /\ Members(d) # {} => Tells(Started(d), d, Retained(d))
             /\ Members(d) = {} => \A k \in Keys(d) : Entries(Started(d), k) = {}
  <2>1. CASE Members(d) = {}
    <3>1. Started(d) = <<>>
      BY <2>1 DEF Started
    <3> QED BY <2>1, <3>1, EmptySound, EmptySeq
  <2>2. CASE Members(d) # {}
    <3>1. Started(d) = Changes(d, Retained(d))
      BY <2>2 DEF Started
    <3>2. Sound(log, Started(d), Keys(d)) /\ Tells(Started(d), d, Retained(d))
      BY <3>1, ChangesSound
    <3> QED BY <2>2, <3>2 DEF Sound
  <2> QED BY <2>1, <2>2
<1>4. b \in [1..N -> Seq(Entry)] /\ \A n \in 1..N : b[n] = Started(dev[n]) /\ dev[n] \in Device
  BY <1>1, <1>3
<1> HIDE DEF b
<1>0. PICK f \in [0..N -> Seq(Entry)] : JoinsUp(f, N, b)
  BY <1>1, <1>4, Flattened
<1>5. /\ f \in [0..N -> Seq(Entry)] /\ f[0] = <<>>
      /\ \A n \in 1..N : f[n] = f[n - 1] \o b[n]
      /\ FlattenSeq(b) = f[N]
  BY <1>0 DEF JoinsUp
<1> DEFINE Joined(n) ==
             /\ Sound(log, f[n], K(n))
             /\ \A i \in 1..n : \A k \in Keys(dev[i]) : Entries(f[n], k) = Entries(b[i], k)
           T == {n \in 0..N : Joined(n)}
<1>6. 0 \in T
  <2>1. 0 \in 0..N /\ 1..0 = {}
    BY <1>1
  <2>2. Sound(log, f[0], K(0))
    BY <1>5, EmptySound
  <2> QED BY <2>1, <2>2
<1>7. ASSUME NEW n \in 0..N, n \in T, n < N PROVE n + 1 \in T
  <2>1. n + 1 \in 1..N /\ n + 1 \in 0..N /\ (n + 1) - 1 = n /\ n \in Nat
    BY <1>1, <1>7
  <2> DEFINE d == dev[n + 1]
             x == f[n]
             y == b[n + 1]
  <2>2. d \in Device /\ Sound(log, y, Keys(d)) /\ y \in Seq(Entry) /\ x \in Seq(Entry)
    BY <1>3, <1>4, <1>5, <2>1
  <2>3. f[n + 1] = x \o y
    BY <1>5, <2>1
  <2>4. Joined(n)
    BY <1>7
  <2>5. \A i \in 1..n : dev[i] \in Device /\ dev[i] # d /\ i \in 1..N
    <3>1. ASSUME NEW i \in 1..n PROVE i \in 1..N /\ i # n + 1
      BY <1>1, <2>1
    <3> QED BY <1>1, <2>1, <3>1
  <2>6. \A i \in 1..n : Keys(dev[i]) \cap Keys(d) = {}
    BY <2>2, <2>5, KeyFacts
  <2>7. K(n) \cap Keys(d) = {} /\ K(n + 1) = K(n) \cup Keys(d)
    <3>1. 1..(n + 1) = 1..n \cup {n + 1}
      BY <2>1
    <3>2. K(n + 1) = K(n) \cup Keys(d)
      BY <3>1
    <3>3. K(n) \cap Keys(d) = {}
      BY <2>6
    <3> QED BY <3>2, <3>3
  <2> HIDE DEF K, d, x, y
  <2>8. Sound(log, x \o y, K(n) \cup Keys(d))
    <3>1. Sound(log, x, K(n))
      BY <2>4 DEF x
    <3> QED BY <2>2, <2>7, <3>1, BatchesJoin
  <2>9. ASSUME NEW i \in 1..(n + 1), NEW k \in Keys(dev[i])
        PROVE  Entries(x \o y, k) = Entries(b[i], k)
    <3>1. Entries(x \o y, k) = Entries(x, k) \cup Entries(y, k)
      BY <2>2, EntriesJoin
    <3>2. CASE i \in 1..n
      <4>1. Entries(x, k) = Entries(b[i], k)
        BY <2>4, <3>2 DEF x
      <4>2. k \notin Keys(d)
        BY <2>6, <3>2
      <4>3. Entries(y, k) = {}
        BY <2>2, <4>2, KeysOnly
      <4> QED BY <3>1, <4>1, <4>3
    <3>3. CASE i = n + 1
      <4>1. k \in Keys(d) /\ b[i] = y
        BY <3>3 DEF d, y
      <4>2. k \notin K(n)
        BY <2>7, <4>1
      <4>3. Entries(x, k) = {}
        <5>1. Sound(log, x, K(n))
          BY <2>4 DEF x
        <5> QED BY <4>2, <5>1, KeysOnly
      <4> QED BY <3>1, <4>1, <4>3
    <3> QED BY <2>1, <3>2, <3>3
  <2>10. Joined(n + 1)
    BY <2>3, <2>7, <2>8, <2>9
  <2> HIDE DEF Joined
  <2> QED BY <2>1, <2>10
<1>8. Joined(N)
  <2>1. N \in T
    <3> HIDE DEF T
    <3>1. 0..N \subseteq T
      BY <1>1, <1>6, <1>7, SetInduction
    <3> QED BY <1>1, <3>1
  <2> HIDE DEF Joined
  <2> QED BY <2>1
<1>9. Sound(log, Bootstrapped, Key)
  <2>1. K(N) \subseteq Key
    BY <1>1, KeyFacts
  <2> HIDE DEF K
  <2> QED BY <1>2, <1>5, <1>8, <2>1 DEF Sound
<1>10. ASSUME NEW d \in Device
       PROVE  \A k \in Keys(d) : Entries(Bootstrapped, k) = Entries(Started(d), k)
  <2>1. PICK i \in 1..N : dev[i] = d
    BY <1>1
  <2> QED BY <1>2, <1>4, <1>5, <1>8, <2>1
<1>11. ASSUME NEW d \in Device, Members(d) # {} PROVE Tells(Bootstrapped, d, Retained(d))
  BY <1>3, <1>10, <1>11, TellsAlike
<1>12. ASSUME NEW d \in Device, Members(d) = {} PROVE \A k \in Keys(d) : Entries(Bootstrapped, k) = {}
  BY <1>3, <1>10, <1>12
<1> QED BY <1>9, <1>11, <1>12

(***************************************************************************)
(* The inventory.                                                          *)
(***************************************************************************)

Rows == [Fingerprint -> Row \cup {NoRow}]

\* The newest scan of d in s, and what Members, Evident and NewestWins say, of
\* any scans and any rows of a device.
BestIn(s, d, i) ==
  /\ i \in ScansOf(s, d)
  /\ \A j \in ScansOf(s, d) : \/ s[j].obs < s[i].obs
                              \/ s[j].obs = s[i].obs /\ j <= i
NewestIn(s, d) == CHOOSE i \in ScansOf(s, d) :
                    \A j \in ScansOf(s, d) : \/ s[j].obs < s[i].obs
                                             \/ s[j].obs = s[i].obs /\ j <= i
MisdatedIn(s, d) == \E i \in DOMAIN s : s[i].dev = d /\ s[i].future
SeenIn(rows, t) == {p \in Fingerprint : rows[p] # NoRow /\ rows[p].seen = t}
MembersIn(s, rows, d) ==
  IF ScansOf(s, d) = {} THEN {}
  ELSE {p \in Fingerprint :
          \/ rows[p].present = "yes"
          \/ /\ rows[p].present = "null"
             /\ p \in SeenIn(rows, s[NewestIn(s, d)].obs)
             /\ Len(s[NewestIn(s, d)].assets) = Cardinality(SeenIn(rows, s[NewestIn(s, d)].obs))}
Shown(rows, p) == [print |-> p, version |-> rows[p].version, running |-> rows[p].running]
EvidentIn(s, rows, d) == {Shown(rows, p) : p \in MembersIn(s, rows, d)}
WinsIn(s, rows, d) ==
  ScansOf(s, d) # {} =>
    IF \A p \in Fingerprint : rows[p].present \in {"none", "null"}
    THEN \/ MisdatedIn(s, d)
         \/ MembersIn(s, rows, d) \in {{}, {a.print : a \in ToSet(s[NewestIn(s, d)].assets)}}
    ELSE EvidentIn(s, rows, d) = ToSet(s[NewestIn(s, d)].assets)

LEMMA InventoryIs ==
  /\ \A d : Members(d) = MembersIn(scans, assets[d], d) /\ Evident(d) = EvidentIn(scans, assets[d], d)
  /\ \A d : /\ Members(d)' = MembersIn(scans', assets'[d], d)
            /\ Evident(d)' = EvidentIn(scans', assets'[d], d)
  /\ NewestWins <=> \A d \in Device : WinsIn(scans, assets[d], d)
  /\ NewestWins' <=> \A d \in Device : WinsIn(scans', assets'[d], d)
<1>1. \A d : Members(d) = MembersIn(scans, assets[d], d) /\ Members(d)' = MembersIn(scans', assets'[d], d)
  BY DEF Members, MembersIn, Newest, NewestIn, SeenAt, SeenIn
<1>2. \A d : /\ Evident(d) = EvidentIn(scans, assets[d], d)
             /\ Evident(d)' = EvidentIn(scans', assets'[d], d)
  BY <1>1 DEF Evident, EvidentIn, Shown
<1>3. NewestWins <=> \A d \in Device : WinsIn(scans, assets[d], d)
  BY <1>1, <1>2 DEF NewestWins, WinsIn, Unreported, Misdated, MisdatedIn, Newest, NewestIn
<1>4. NewestWins' <=> \A d \in Device : WinsIn(scans', assets'[d], d)
  BY <1>1, <1>2 DEF NewestWins, WinsIn, Unreported, Misdated, MisdatedIn, Newest, NewestIn
<1> QED BY <1>1, <1>2, <1>3, <1>4

LEMMA RowFields ==
  ASSUME NEW rows \in Rows, NEW p \in Fingerprint
  PROVE  /\ rows[p].present \in {"yes", "no", "null", "none"}
         /\ rows[p] = NoRow <=> rows[p].present = "none"
         /\ rows[p] # NoRow => rows[p] \in Row /\ rows[p].present # "none"
<1>1. rows[p] \in Row \cup {NoRow} /\ NoRow.present = "none"
  BY DEF Rows, NoRow
<1>2. \A x \in Row : x.present \in {"yes", "no", "null"}
  BY DEF Row
<1> QED BY <1>1, <1>2

LEMMA NewestUnique ==
  ASSUME NEW s \in Seq(Scan), NEW d, NEW i, BestIn(s, d, i)
  PROVE  NewestIn(s, d) = i /\ ScansOf(s, d) # {}
<1>1. ScansOf(s, d) \subseteq Nat /\ \A j \in ScansOf(s, d) : s[j].obs \in Nat
  <2>1. DOMAIN s = 1..Len(s) /\ \A j \in 1..Len(s) : s[j] \in Scan
    BY LenProperties, ElementOfSeq
  <2>2. \A x \in Scan : x.obs \in Nat
    BY DEF Scan
  <2> QED BY <2>1, <2>2 DEF ScansOf
<1>2. ASSUME NEW j \in ScansOf(s, d), BestIn(s, d, j) PROVE j = i
  <2>1. i \in ScansOf(s, d)
    BY DEF BestIn
  <2>2. s[i].obs < s[j].obs \/ (s[i].obs = s[j].obs /\ i <= j)
    BY <1>2, <2>1 DEF BestIn
  <2>3. s[j].obs < s[i].obs \/ (s[j].obs = s[i].obs /\ j <= i)
    BY DEF BestIn
  <2>4. s[i].obs \in Nat /\ s[j].obs \in Nat /\ i \in Nat /\ j \in Nat
    BY <1>1, <2>1
  <2> QED BY <2>2, <2>3, <2>4
<1>3. NewestIn(s, d) = CHOOSE j \in ScansOf(s, d) : BestIn(s, d, j)
  BY DEF NewestIn, BestIn
<1> QED BY <1>2, <1>3 DEF BestIn

LEMMA BestExists ==
  ASSUME NEW s \in Seq(Scan), NEW d, ScansOf(s, d) # {}
  PROVE  \E i \in DOMAIN s : BestIn(s, d, i)
<1> DEFINE S == ScansOf(s, d)
           O == {s[i].obs : i \in S}
<1>1. DOMAIN s = 1..Len(s) /\ Len(s) \in Nat /\ S \subseteq 1..Len(s)
  BY LenProperties DEF ScansOf
<1>2. \A i \in S : s[i].obs \in 1..MaxTime
  <2>1. \A i \in 1..Len(s) : s[i] \in Scan
    BY ElementOfSeq
  <2>2. \A x \in Scan : x.obs \in 1..MaxTime
    BY DEF Scan
  <2> QED BY <1>1, <2>1, <2>2
<1>3. MaxTime \in Nat
  BY StoreAssumption
<1>4. O \subseteq Nat /\ O # {} /\ \A o \in O : o <= MaxTime
  BY <1>2, <1>3
<1> HIDE DEF O
<1>5. PICK t \in O : \A o \in O : o <= t
  BY <1>3, <1>4, GreatestNumber
<1> DEFINE L == {i \in S : s[i].obs = t}
<1>6. L \subseteq Nat /\ L # {} /\ \A i \in L : i <= Len(s)
  BY <1>1, <1>5 DEF O
<1> HIDE DEF L
<1>7. PICK m \in L : \A i \in L : i <= m
  BY <1>1, <1>6, GreatestNumber
<1>8. ASSUME NEW j \in S PROVE s[j].obs < s[m].obs \/ (s[j].obs = s[m].obs /\ j <= m)
  <2>1. s[j].obs \in O /\ s[m].obs = t /\ s[j].obs \in Nat /\ t \in Nat
    BY <1>2, <1>4, <1>5, <1>7 DEF O, L
  <2>2. s[j].obs <= t
    BY <1>5, <2>1
  <2>3. s[j].obs = t => j <= m
    BY <1>7 DEF L
  <2> QED BY <2>1, <2>2, <2>3
<1> QED BY <1>1, <1>7, <1>8 DEF L, BestIn

\* A report of another device, or one that is outdated, leaves the newest scan of e.
\* A report that is not outdated is the newest scan of its device.
LEMMA NewestAfter ==
  ASSUME NEW s \in Seq(Scan), NEW h \in Scan, ~h.future, NEW e
  PROVE  /\ Append(s, h) \in Seq(Scan)
         /\ h.dev # e => ScansOf(Append(s, h), e) = ScansOf(s, e)
         /\ \A i \in DOMAIN s : /\ i \in DOMAIN Append(s, h) /\ Append(s, h)[i] = s[i]
                                /\ BestIn(s, e, i) /\ (h.dev # e \/ \E j \in ScansOf(s, e) : s[j].obs > h.obs)
                                   => BestIn(Append(s, h), e, i)
         /\ h.dev = e /\ (\A j \in ScansOf(s, e) : ~(s[j].obs > h.obs)) =>
              /\ BestIn(Append(s, h), e, Len(s) + 1)
              /\ Append(s, h)[Len(s) + 1] = h
         /\ MisdatedIn(Append(s, h), e) <=> MisdatedIn(s, e)
<1> DEFINE a == Append(s, h)
           n == Len(s) + 1
<1>1. /\ a \in Seq(Scan) /\ DOMAIN a = 1..n /\ DOMAIN s = 1..Len(s) /\ Len(s) \in Nat
      /\ a[n] = h /\ \A i \in 1..Len(s) : a[i] = s[i]
  BY AppendProperties, LenProperties
<1>2. /\ \A i \in 1..n : a[i].obs \in Nat
      /\ \A i \in 1..n : i \in 1..Len(s) \/ i = n
  <2>1. \A i \in 1..n : a[i] \in Scan
    BY <1>1
  <2>2. \A x \in Scan : x.obs \in Nat
    BY DEF Scan
  <2>3. \A i \in 1..n : i \in 1..Len(s) \/ i = n
    BY <1>1
  <2> HIDE DEF a, n
  <2> QED BY <2>1, <2>2, <2>3
<1> HIDE DEF a, n
<1>3. \A i \in ScansOf(s, e) : i \in 1..Len(s) /\ i \in ScansOf(a, e) /\ a[i] = s[i]
  <2>1. \A i \in 1..Len(s) : i \in 1..n
    BY <1>1 DEF n
  <2> QED BY <1>1, <2>1 DEF ScansOf
<1>4. \A i \in ScansOf(a, e) : i \in ScansOf(s, e) \/ (i = n /\ h.dev = e)
  BY <1>1, <1>2 DEF ScansOf
<1>5. ASSUME h.dev # e PROVE ScansOf(a, e) = ScansOf(s, e)
  BY <1>3, <1>4, <1>5
<1>6. ASSUME NEW i \in DOMAIN s
      PROVE  i \in DOMAIN a /\ a[i] = s[i]
  BY <1>1 DEF n
<1>7. ASSUME NEW i \in DOMAIN s, BestIn(s, e, i), h.dev # e \/ \E j \in ScansOf(s, e) : s[j].obs > h.obs
      PROVE  BestIn(a, e, i)
  <2>1. i \in ScansOf(s, e) /\ i \in ScansOf(a, e) /\ a[i] = s[i] /\ i \in 1..n
    BY <1>1, <1>3, <1>6, <1>7 DEF BestIn
  <2>2. ASSUME NEW j \in ScansOf(s, e) PROVE a[j].obs < a[i].obs \/ (a[j].obs = a[i].obs /\ j <= i)
    BY <1>3, <1>7, <2>1 DEF BestIn
  <2>3. ASSUME h.dev = e PROVE a[n].obs < a[i].obs
    <3>1. PICK j \in ScansOf(s, e) : s[j].obs > h.obs
      BY <1>7, <2>3
    <3>2. j \in 1..n /\ a[j] = s[j]
      BY <1>1, <1>3, <1>6
    <3>3. a[n].obs \in Nat /\ a[j].obs \in Nat /\ a[i].obs \in Nat
      BY <1>1, <1>2, <2>1, <3>2 DEF n
    <3>4. a[j].obs < a[i].obs \/ a[j].obs = a[i].obs
      BY <2>2
    <3>5. a[j].obs > a[n].obs
      BY <1>1, <3>1, <3>2
    <3> QED BY <3>3, <3>4, <3>5
  <2>4. \A j \in ScansOf(a, e) : a[j].obs < a[i].obs \/ (a[j].obs = a[i].obs /\ j <= i)
    BY <1>4, <2>2, <2>3
  <2> QED BY <2>1, <2>4 DEF BestIn
<1>8. ASSUME h.dev = e, \A j \in ScansOf(s, e) : ~(s[j].obs > h.obs) PROVE BestIn(a, e, n)
  <2>1. n \in ScansOf(a, e)
    BY <1>1, <1>8 DEF ScansOf, n
  <2>2. ASSUME NEW j \in ScansOf(a, e) PROVE a[j].obs < a[n].obs \/ (a[j].obs = a[n].obs /\ j <= n)
    <3>1. CASE j \in ScansOf(s, e)
      <4>1. ~(a[j].obs > a[n].obs) /\ j \in 1..Len(s) /\ j <= n
        BY <1>1, <1>3, <1>8, <3>1 DEF n
      <4>2. a[j].obs \in Nat /\ a[n].obs \in Nat
        BY <1>1, <1>2, <4>1 DEF n
      <4> QED BY <4>1, <4>2
    <3>2. CASE j = n
      BY <1>1, <3>2 DEF n
    <3> QED BY <1>4, <3>1, <3>2
  <2> QED BY <2>1, <2>2 DEF BestIn
<1>9. MisdatedIn(a, e) <=> MisdatedIn(s, e)
  BY <1>1, <1>2, <1>6 DEF MisdatedIn
<1> QED BY <1>1, <1>5, <1>6, <1>7, <1>8, <1>9 DEF a, n

LEMMA ReconcileIs ==
  ASSUME NEW rows \in Rows, NEW obs \in 1..MaxTime, NEW r \in Seq(Item), Unrepeated(r)
  PROVE  /\ Reconcile(rows, obs, r) \in Rows
         /\ \A p \in Fingerprint :
              /\ Reconcile(rows, obs, r)[p].present # "null"
              /\ Reconcile(rows, obs, r)[p].present = "yes" <=> Reports(r, p)
         /\ \A i \in 1..Len(r) :
              /\ r[i].print \in Fingerprint /\ Reports(r, r[i].print)
              /\ Shown(Reconcile(rows, obs, r), r[i].print) = r[i]
              /\ Reconcile(rows, obs, r)[r[i].print].seen = obs
<1> DEFINE R == Reconcile(rows, obs, r)
<1>1. DOMAIN r = 1..Len(r) /\ \A i \in 1..Len(r) : r[i] \in Item
  BY LenProperties, ElementOfSeq
<1>2. ASSUME NEW p \in Fingerprint, Reports(r, p)
      PROVE  /\ R[p] = [version |-> ItemOf(r, p).version, running |-> ItemOf(r, p).running,
                        seen |-> obs, present |-> "yes"]
             /\ R[p] \in Row
  <2>1. ItemOf(r, p) \in Item
    BY <1>1, <1>2 DEF Reports, ItemOf
  <2>2. R[p] = [version |-> ItemOf(r, p).version, running |-> ItemOf(r, p).running,
                seen |-> obs, present |-> "yes"]
    BY <1>2 DEF Reconcile
  <2> QED BY <2>1, <2>2 DEF Item, Row
<1>3. ASSUME NEW p \in Fingerprint, ~Reports(r, p)
      PROVE  /\ R[p] \in Row \cup {NoRow}
             /\ R[p].present \in {"no", "none"}
  <2>1. CASE rows[p] = NoRow
    <3>1. R[p] = NoRow
      BY <1>3, <2>1 DEF Reconcile
    <3> QED BY <3>1 DEF NoRow
  <2>2. CASE rows[p] # NoRow
    <3>1. R[p] = [rows[p] EXCEPT !.running = FALSE, !.present = "no"]
      BY <1>3, <2>2 DEF Reconcile
    <3>2. rows[p] \in Row
      BY <2>2, RowFields
    <3> QED BY <3>1, <3>2 DEF Row
  <2> QED BY <2>1, <2>2
<1>4. R \in Rows
  <2>1. R = [p \in Fingerprint |-> R[p]]
    BY DEF Reconcile
  <2>2. \A p \in Fingerprint : R[p] \in Row \cup {NoRow}
    BY <1>2, <1>3
  <2> HIDE DEF R
  <2> QED BY <2>1, <2>2 DEF Rows
<1>5. ASSUME NEW p \in Fingerprint PROVE R[p].present # "null" /\ (R[p].present = "yes" <=> Reports(r, p))
  <2> HIDE DEF R
  <2>1. CASE Reports(r, p)
    <3>0. R[p] = [version |-> ItemOf(r, p).version, running |-> ItemOf(r, p).running,
                  seen |-> obs, present |-> "yes"]
      BY <1>2, <2>1
    <3>1. R[p].present = "yes"
      BY <3>0
    <3>2. R[p].present # "null"
      BY <3>1
    <3> QED BY <2>1, <3>1, <3>2, Zenon
  <2>2. CASE ~Reports(r, p)
    <3>1. R[p].present \in {"no", "none"}
      BY <1>3, <2>2
    <3>2. R[p].present # "null" /\ ~(R[p].present = "yes")
      BY <3>1
    <3> QED BY <2>2, <3>2, Zenon
  <2> QED BY <2>1, <2>2
<1>6. ASSUME NEW i \in 1..Len(r)
      PROVE  /\ r[i].print \in Fingerprint /\ Reports(r, r[i].print)
             /\ Shown(R, r[i].print) = r[i] /\ R[r[i].print].seen = obs
  <2> DEFINE p == r[i].print
  <2>1. p \in Fingerprint /\ Reports(r, p) /\ r[i] \in Item
    BY <1>1 DEF Item, Reports
  <2>2. ItemOf(r, p) = r[i]
    <3>1. \A j \in DOMAIN r : r[j].print = p => j = i
      BY <1>1 DEF Unrepeated
    <3> QED BY <1>1, <3>1 DEF ItemOf
  <2>3. R[p] = [version |-> r[i].version, running |-> r[i].running, seen |-> obs, present |-> "yes"]
    BY <1>2, <2>1, <2>2
  <2>4. r[i] = [print |-> p, version |-> r[i].version, running |-> r[i].running]
    BY <2>1 DEF Item
  <2> HIDE DEF p, R
  <2>5. Shown(R, p) = r[i] /\ R[p].seen = obs
    BY <2>3, <2>4 DEF Shown
  <2> QED BY <2>1, <2>5 DEF p
<1> QED BY <1>4, <1>5, <1>6

\* Once a report is the newest scan and reconciled, the inventory is the report.
LEMMA ReportShown ==
  ASSUME NEW s \in Seq(Scan), NEW d, NEW n, BestIn(s, d, n), s[n].assets \in Seq(Item),
         Unrepeated(s[n].assets), NEW rows \in Rows, NEW obs \in 1..MaxTime
  PROVE  /\ EvidentIn(s, Reconcile(rows, obs, s[n].assets), d) = ToSet(s[n].assets)
         /\ WinsIn(s, Reconcile(rows, obs, s[n].assets), d)
<1> DEFINE r == s[n].assets
           new == Reconcile(rows, obs, r)
<1>1. NewestIn(s, d) = n /\ ScansOf(s, d) # {}
  BY NewestUnique
<1>2. /\ new \in Rows
      /\ \A p \in Fingerprint : new[p].present # "null" /\ (new[p].present = "yes" <=> Reports(r, p))
      /\ \A i \in 1..Len(r) : /\ r[i].print \in Fingerprint /\ Reports(r, r[i].print)
                              /\ Shown(new, r[i].print) = r[i]
  BY ReconcileIs
<1>3. DOMAIN r = 1..Len(r)
  BY LenProperties
<1> HIDE DEF new
<1>4. MembersIn(s, new, d) = {p \in Fingerprint : new[p].present = "yes"}
  BY <1>1, <1>2 DEF MembersIn
<1> HIDE DEF r
<1>5. EvidentIn(s, new, d) = ToSet(r)
  <2>1. ASSUME NEW x \in EvidentIn(s, new, d) PROVE x \in ToSet(r)
    <3>1. PICK p \in Fingerprint : x = Shown(new, p) /\ Reports(r, p)
      BY <1>2, <1>4 DEF EvidentIn
    <3>2. PICK i \in 1..Len(r) : r[i].print = p
      BY <1>3, <3>1 DEF Reports
    <3>3. x = r[i]
      BY <1>2, <3>1, <3>2
    <3> QED BY <1>3, <3>3 DEF ToSet
  <2>2. ASSUME NEW x \in ToSet(r) PROVE x \in EvidentIn(s, new, d)
    <3>1. PICK i \in 1..Len(r) : x = r[i]
      BY <1>3 DEF ToSet
    <3>2. r[i].print \in MembersIn(s, new, d) /\ x = Shown(new, r[i].print)
      BY <1>2, <1>4, <3>1
    <3> QED BY <3>2 DEF EvidentIn
  <2> QED BY <2>1, <2>2
<1>6. ASSUME \A p \in Fingerprint : new[p].present \in {"none", "null"} PROVE MembersIn(s, new, d) = {}
  BY <1>4, <1>6
<1> QED BY <1>1, <1>5, <1>6 DEF WinsIn, r, new

\* What a scan of another device, or an outdated one, leaves of a device.
LEMMA InventoryStays ==
  ASSUME NEW s \in Seq(Scan), NEW h \in Scan, ~h.future, NEW d, NEW rows,
         h.dev # d \/ \E j \in ScansOf(s, d) : s[j].obs > h.obs
  PROVE  /\ MembersIn(Append(s, h), rows, d) = MembersIn(s, rows, d)
         /\ EvidentIn(Append(s, h), rows, d) = EvidentIn(s, rows, d)
         /\ WinsIn(s, rows, d) => WinsIn(Append(s, h), rows, d)
<1> DEFINE a == Append(s, h)
<1>1. /\ a \in Seq(Scan)
      /\ h.dev # d => ScansOf(a, d) = ScansOf(s, d)
      /\ \A i \in DOMAIN s : a[i] = s[i] /\ (BestIn(s, d, i) => BestIn(a, d, i))
      /\ MisdatedIn(a, d) <=> MisdatedIn(s, d)
  BY NewestAfter
<1> HIDE DEF a
<1>2. CASE ScansOf(s, d) = {}
  <2>1. ScansOf(a, d) = {}
    BY <1>1, <1>2
  <2> QED BY <1>2, <2>1 DEF MembersIn, EvidentIn, WinsIn, a
<1>3. CASE ScansOf(s, d) # {}
  <2>1. PICK i \in DOMAIN s : BestIn(s, d, i)
    BY <1>3, BestExists
  <2>2. NewestIn(s, d) = i /\ NewestIn(a, d) = i /\ ScansOf(a, d) # {} /\ a[i] = s[i]
    BY <1>1, <2>1, NewestUnique
  <2>3. MembersIn(a, rows, d) = MembersIn(s, rows, d)
    BY <1>3, <2>2 DEF MembersIn
  <2>4. EvidentIn(a, rows, d) = EvidentIn(s, rows, d)
    BY <2>3 DEF EvidentIn
  <2>5. WinsIn(s, rows, d) => WinsIn(a, rows, d)
    BY <1>1, <1>3, <2>2, <2>3, <2>4 DEF WinsIn
  <2> QED BY <2>3, <2>4, <2>5 DEF a
<1> QED BY <1>2, <1>3

\* A start reads back the inventory as it is.
LEMMA RetainedIs ==
  ASSUME NEW d \in Device, assets[d] \in Rows
  PROVE  Retained(d) \in Seq(Item) /\ ToSet(Retained(d)) = Evident(d)
<1> DEFINE M == Members(d)
           N == Cardinality(M)
           rank == [p \in Fingerprint |-> -Rank[p]]
           down == InOrder(M, rank)
<1>1. M \subseteq Fingerprint /\ IsFiniteSet(M)
  <2>1. M \in SUBSET Fingerprint
    BY DEF Members
  <2> HIDE DEF M
  <2> QED BY <2>1, StoreAssumption, FS_Subset
<1>2. \A p \in M : assets[d][p].present \in {"yes", "null"}
  BY DEF Members
<1>3. \A p \in M : rank[p] \in Int /\ rank[p] = -Rank[p] /\ Rank[p] \in Nat
  BY <1>1, StoreAssumption
<1> HIDE DEF M, rank
<1>4. /\ N \in Nat /\ down \in [1..N -> M]
      /\ \A p \in M : \E i \in 1..N : down[i] = p
  <2>1. \A p, q \in M : rank[p] = rank[q] => p = q
    <3> SUFFICES ASSUME NEW p \in M, NEW q \in M, rank[p] = rank[q] PROVE p = q
      OBVIOUS
    <3>1. Rank[p] = Rank[q]
      BY <1>3
    <3> QED BY <1>1, <3>1, StoreAssumption
  <2>2. \A p \in M : rank[p] \in Int
    BY <1>3
  <2> QED BY <1>1, <2>1, <2>2, Ordered
<1> HIDE DEF N, down
<1>5. Retained(d) = [n \in DOMAIN down |-> Shown(assets[d], down[n])]
  BY DEF Retained, Shown, down, M, rank
<1>6. ASSUME NEW p \in M PROVE Shown(assets[d], p) \in Item
  <2>1. assets[d][p] \in Row
    BY <1>1, <1>2, RowFields
  <2> QED BY <1>1, <2>1 DEF Shown, Row, Item
<1>7. /\ Retained(d) \in [1..N -> Item]
      /\ \A n \in 1..N : Retained(d)[n] = Shown(assets[d], down[n]) /\ down[n] \in M
  <2>1. \A n \in 1..N : down[n] \in M /\ Shown(assets[d], down[n]) \in Item
    BY <1>4, <1>6
  <2> QED BY <1>4, <1>5, <2>1
<1>8. Retained(d) \in Seq(Item) /\ DOMAIN Retained(d) = 1..N
  BY <1>4, <1>7, AsSequence
<1>9. Evident(d) = {Shown(assets[d], p) : p \in M}
  BY DEF Evident, Shown, M
<1>10. ToSet(Retained(d)) = Evident(d)
  BY <1>4, <1>7, <1>8, <1>9 DEF ToSet
<1> QED BY <1>8, <1>10

(***************************************************************************)
(* The log follows the inventory.                                          *)
(***************************************************************************)

\* The value v of key k is that of an asset of d in the inventory ev.
Says(d, ev, k, v) ==
  LET here == {a \in ev : KeyOf[<<d, a.print>>] = k} IN
  IF here = {} THEN v = Gone
  ELSE /\ v \in {EvidenceOf(a) : a \in here}
       /\ v.running = \E a \in here : a.running

LEMMA SaysReport ==
  ASSUME NEW d, NEW r \in Seq(Item), NEW k
  PROVE  Says(d, ToSet(r), k, Projected(d, r, k))
<1> DEFINE here == {a \in ToSet(r) : KeyOf[<<d, a.print>>] = k}
           S == Places(d, r, k)
           v == Projected(d, r, k)
<1>1. DOMAIN r = 1..Len(r) /\ S = {i \in 1..Len(r) : KeyOf[<<d, r[i].print>>] = k}
  BY LenProperties, PlacesAre
<1>2. here = {r[i] : i \in S}
  BY <1>1 DEF ToSet
<1>3. /\ S = {} => v = Gone
      /\ S # {} => /\ v \in {EvidenceOf(r[i]) : i \in S}
                   /\ v.running = \E i \in S : r[i].running
  BY Spoken
<1> HIDE DEF S, v, here
<1>4. CASE S = {}
  <2>1. here = {}
    BY <1>2, <1>4
  <2> QED BY <1>3, <1>4, <2>1 DEF Says, here, v
<1>5. CASE S # {}
  <2>1. here # {}
    BY <1>2, <1>5
  <2>2. v \in {EvidenceOf(a) : a \in here}
    BY <1>2, <1>3, <1>5
  <2>3. (\E i \in S : r[i].running) <=> (\E a \in here : a.running)
    BY <1>2
  <2>4. v.running = \E a \in here : a.running
    BY <1>3, <1>5, <2>3
  <2> QED BY <2>1, <2>2, <2>4 DEF Says, here, v
<1> QED BY <1>4, <1>5

LEMMA FeedIs ==
  /\ FeedIsCurrent <=>
       (restarts > 0 => \A d \in Device \ lagging : \A k \in Keys(d) :
                          Says(d, Evident(d), k, StateIn(log, Len(log), k)))
  /\ FeedIsCurrent' <=>
       (restarts' > 0 => \A d \in Device \ lagging' : \A k \in Keys(d) :
                           Says(d, Evident(d)', k, StateIn(log', Len(log'), k)))
  /\ EveryChangeChanges <=> \A n \in DOMAIN log : Differs(log[n], StateIn(log, n - 1, log[n].key))
  /\ EveryChangeChanges' <=> \A n \in DOMAIN log' : Differs(log'[n], StateIn(log', n - 1, log'[n].key))
<1>1. FeedIsCurrent <=>
        (restarts > 0 => \A d \in Device \ lagging : \A k \in Keys(d) :
                           Says(d, Evident(d), k, StateIn(log, Len(log), k)))
  BY LogStates DEF FeedIsCurrent, Current, Says
<1>2. FeedIsCurrent' <=>
        (restarts' > 0 => \A d \in Device \ lagging' : \A k \in Keys(d) :
                            Says(d, Evident(d)', k, StateIn(log', Len(log'), k)))
  BY LogStates DEF FeedIsCurrent, Current, Says
<1>3. EveryChangeChanges <=> \A n \in DOMAIN log : Differs(log[n], StateIn(log, n - 1, log[n].key))
  BY LogStates DEF EveryChangeChanges, Differs
<1>4. EveryChangeChanges' <=> \A n \in DOMAIN log' : Differs(log'[n], StateIn(log', n - 1, log'[n].key))
  BY LogStates DEF EveryChangeChanges, Differs
<1> QED BY <1>1, <1>2, <1>3, <1>4

\* After a batch every key of the device is as its report has it.
LEMMA Told ==
  ASSUME log \in Seq(Entry), NEW K, NEW x, Sound(log, x, K), NEW d, NEW r, Tells(x, d, r), NEW k \in Keys(d)
  PROVE  StateIn(log \o x, Len(log \o x), k) = Projected(d, r, k)
<1>1. /\ \A i \in 1..Len(x) : StateIn(log \o x, Len(log \o x), x[i].key) = StateOf(x[i])
      /\ (\A i \in 1..Len(x) : x[i].key # k) =>
            StateIn(log \o x, Len(log \o x), k) = StateIn(log, Len(log), k)
  BY BatchDecides
<1>2. \/ \E i \in 1..Len(x) : x[i].key = k /\ StateOf(x[i]) = Projected(d, r, k)
      \/ /\ \A i \in 1..Len(x) : x[i].key # k
         /\ StateIn(log, Len(log), k) = Projected(d, r, k)
  BY DEF Tells
<1> QED BY <1>1, <1>2

LEMMA Untold ==
  ASSUME log \in Seq(Entry), NEW K, NEW x, Sound(log, x, K), NEW k, Entries(x, k) = {}
  PROVE  StateIn(log \o x, Len(log \o x), k) = StateIn(log, Len(log), k)
<1>1. \A i \in 1..Len(x) : x[i].key # k
  BY DEF Entries
<1> QED BY <1>1, BatchDecides

(***************************************************************************)
(* The invariant of the store.                                             *)
(***************************************************************************)

\* Nothing is in the log of a server that never started.
StoreInv ==
  /\ TypeOK
  /\ \A d \in Device : WinsIn(scans, assets[d], d)
  /\ FeedIsCurrent
  /\ AllDiffer(log)
  /\ restarts = 0 => log = <<>>

\* What every step of the store does to the log.
LogGrows == \E x \in Seq(Entry) : log' = log \o x

LEMMA HeaderIs ==
  ASSUME NEW d \in Device, NEW obs \in 1..MaxTime, NEW r \in Report
  PROVE  /\ Header(d, obs, r) \in Scan /\ ~Header(d, obs, r).future
         /\ Header(d, obs, r).dev = d /\ Header(d, obs, r).obs = obs
         /\ Header(d, obs, r).assets = r /\ r \in Seq(Item) /\ Unrepeated(r)
<1>1. r \in Seq(Item) /\ Unrepeated(r)
  BY StoreAssumption
<1> QED BY <1>1 DEF Header, Scan

LEMMA TypeFacts ==
  ASSUME TypeOK
  PROVE  /\ scans \in Seq(Scan) /\ log \in Seq(Entry) /\ restarts \in Nat
         /\ \A d \in Device : assets[d] \in Rows
BY StoreAssumption DEF TypeOK, Rows

\* The log does not change.
LEMMA LogStays ==
  ASSUME log \in Seq(Entry), log' = log
  PROVE  LogGrows
<1>1. log' = log \o <<>> /\ <<>> \in Seq(Entry)
  BY ConcatEmptySeq, EmptySeq
<1> QED BY <1>1 DEF LogGrows

LEMMA OutdatedKeeps ==
  ASSUME StoreInv, NEW d \in Device, NEW obs \in 1..MaxTime, NEW r \in Report,
         IngestOutdated(d, obs, r)
  PROVE  StoreInv' /\ LogGrows
<1> DEFINE h == Header(d, obs, r)
<1>1. /\ scans' = Append(scans, h) /\ UNCHANGED <<assets, log, restarts, unlogged, lagging>>
      /\ \E i \in ScansOf(scans, d) : scans[i].obs > obs
  BY DEF IngestOutdated, Outdated
<1>2. /\ scans \in Seq(Scan) /\ log \in Seq(Entry)
  BY TypeFacts DEF StoreInv
<1>3. h \in Scan /\ ~h.future /\ h.dev = d /\ h.obs = obs
  BY HeaderIs
<1> HIDE DEF h
<1>4. ASSUME NEW e \in Device
      PROVE  /\ EvidentIn(scans', assets[e], e) = EvidentIn(scans, assets[e], e)
             /\ WinsIn(scans, assets[e], e) => WinsIn(scans', assets[e], e)
  <2>1. h.dev # e \/ \E j \in ScansOf(scans, e) : scans[j].obs > h.obs
    BY <1>1, <1>3
  <2> QED BY <1>1, <1>2, <1>3, <2>1, InventoryStays
<1>5. TypeOK'
  <2>1. scans' \in Seq(Scan)
    BY <1>1, <1>2, <1>3, AppendProperties
  <2> QED BY <1>1, <2>1 DEF StoreInv, TypeOK
<1>6. \A e \in Device : WinsIn(scans', assets'[e], e)
  BY <1>1, <1>4 DEF StoreInv
<1>7. FeedIsCurrent'
  <2>1. \A e \in Device : Evident(e)' = Evident(e)
    BY <1>1, <1>4, InventoryIs
  <2> QED BY <1>1, <2>1, FeedIs DEF StoreInv
<1>8. AllDiffer(log') /\ (restarts' = 0 => log' = <<>>)
  BY <1>1 DEF StoreInv
<1> QED BY <1>1, <1>2, <1>5, <1>6, <1>7, <1>8, LogStays DEF StoreInv

\* What reconciling the newest report does to the scans and the assets.
LEMMA Reconciled ==
  ASSUME StoreInv, NEW d \in Device, NEW obs \in 1..MaxTime, NEW r \in Report,
         ~Outdated(d, obs), scans' = Append(scans, Header(d, obs, r)),
         assets' = [assets EXCEPT ![d] = Reconcile(@, obs, r)]
  PROVE  /\ scans' \in Seq(Scan)
         /\ assets' \in [Device -> [Fingerprint -> Row \cup {NoRow}]]
         /\ \A e \in Device : WinsIn(scans', assets'[e], e)
         /\ Evident(d)' = ToSet(r)
         /\ \A e \in Device : e # d => Evident(e)' = Evident(e)
<1> DEFINE h == Header(d, obs, r)
           n == Len(scans) + 1
           new == Reconcile(assets[d], obs, r)
<1>1. /\ scans \in Seq(Scan) /\ \A e \in Device : assets[e] \in Rows
      /\ assets \in [Device -> [Fingerprint -> Row \cup {NoRow}]]
  BY TypeFacts DEF StoreInv, TypeOK
<1>2. h \in Scan /\ ~h.future /\ h.dev = d /\ h.obs = obs /\ h.assets = r /\ r \in Seq(Item) /\ Unrepeated(r)
  BY HeaderIs
<1>3. \A j \in ScansOf(scans, d) : ~(scans[j].obs > obs)
  BY DEF Outdated
<1>4. scans' = Append(scans, h) /\ assets' = [assets EXCEPT ![d] = new]
  OBVIOUS
<1> HIDE DEF h
<1>5. scans' \in Seq(Scan) /\ BestIn(scans', d, n) /\ scans'[n] = h
  <2>1. \A j \in ScansOf(scans, d) : ~(scans[j].obs > h.obs)
    BY <1>2, <1>3
  <2>2. /\ Append(scans, h) \in Seq(Scan)
        /\ BestIn(Append(scans, h), d, Len(scans) + 1)
        /\ Append(scans, h)[Len(scans) + 1] = h
    BY <1>1, <1>2, <2>1, NewestAfter
  <2> QED BY <1>4, <2>2
<1> HIDE DEF n
<1>6. EvidentIn(scans', new, d) = ToSet(r) /\ WinsIn(scans', new, d)
  <2>1. scans'[n].assets = r
    BY <1>2, <1>5
  <2>2. /\ EvidentIn(scans', Reconcile(assets[d], obs, scans'[n].assets), d) = ToSet(scans'[n].assets)
        /\ WinsIn(scans', Reconcile(assets[d], obs, scans'[n].assets), d)
    <3>1. scans'[n].assets \in Seq(Item) /\ Unrepeated(scans'[n].assets)
      BY <1>2, <2>1
    <3>2. assets[d] \in Rows
      BY <1>1
    <3> QED BY <1>5, <3>1, <3>2, ReportShown
  <2> QED BY <2>1, <2>2
<1>7. new \in Rows
  BY <1>1, <1>2, ReconcileIs
<1> HIDE DEF new
<1>8. ASSUME NEW e \in Device, e # d
      PROVE  /\ EvidentIn(scans', assets[e], e) = EvidentIn(scans, assets[e], e)
             /\ WinsIn(scans', assets[e], e)
  <2>1. WinsIn(scans, assets[e], e)
    BY DEF StoreInv
  <2> QED BY <1>1, <1>2, <1>4, <1>8, <2>1, InventoryStays
<1>9. assets'[d] = new /\ \A e \in Device : e # d => assets'[e] = assets[e]
  BY <1>1, <1>4
<1>10. assets' \in [Device -> [Fingerprint -> Row \cup {NoRow}]]
  BY <1>1, <1>4, <1>7 DEF Rows
<1>11. \A e \in Device : WinsIn(scans', assets'[e], e)
  BY <1>6, <1>8, <1>9
<1>12. Evident(d)' = ToSet(r)
  BY <1>6, <1>9, InventoryIs
<1>13. \A e \in Device : e # d => Evident(e)' = Evident(e)
  BY <1>8, <1>9, InventoryIs
<1> QED BY <1>5, <1>10, <1>11, <1>12, <1>13

LEMMA CurrentKeeps ==
  ASSUME StoreInv, NEW d \in Device, NEW obs \in 1..MaxTime, NEW r \in Report,
         IngestCurrent(d, obs, r)
  PROVE  StoreInv' /\ LogGrows
<1> DEFINE x == Changes(d, r)
<1>1. /\ ~Outdated(d, obs) /\ scans' = Append(scans, Header(d, obs, r))
      /\ assets' = [assets EXCEPT ![d] = Reconcile(@, obs, r)]
      /\ log' = log \o x /\ lagging' = lagging \ {d}
      /\ UNCHANGED <<restarts, unlogged>> /\ restarts > 0
  BY DEF IngestCurrent
<1>2. log \in Seq(Entry) /\ restarts \in Nat /\ r \in Seq(Item)
  BY TypeFacts, HeaderIs DEF StoreInv
<1>3. /\ scans' \in Seq(Scan)
      /\ assets' \in [Device -> [Fingerprint -> Row \cup {NoRow}]]
      /\ \A e \in Device : WinsIn(scans', assets'[e], e)
      /\ Evident(d)' = ToSet(r)
      /\ \A e \in Device : e # d => Evident(e)' = Evident(e)
  BY <1>1, Reconciled
<1>4. Sound(log, x, Keys(d)) /\ Tells(x, d, r)
  BY <1>2, ChangesSound
<1> HIDE DEF x
<1>5. x \in Seq(Entry) /\ log' \in Seq(Entry)
  BY <1>1, <1>2, <1>4, Concatenated DEF Sound
<1>6. TypeOK'
  BY <1>1, <1>3, <1>5 DEF StoreInv, TypeOK
<1>7. FeedIsCurrent'
  <2>1. ASSUME NEW k \in Keys(d) PROVE Says(d, Evident(d)', k, StateIn(log', Len(log'), k))
    <3>1. StateIn(log', Len(log'), k) = Projected(d, r, k)
      BY <1>1, <1>2, <1>4, Told
    <3> QED BY <1>2, <1>3, <3>1, SaysReport
  <2>2. ASSUME NEW e \in Device \ lagging, e # d, NEW k \in Keys(e)
        PROVE  Says(e, Evident(e)', k, StateIn(log', Len(log'), k))
    <3>1. k \notin Keys(d)
      BY <2>2, KeyFacts
    <3>2. StateIn(log', Len(log'), k) = StateIn(log, Len(log), k)
      BY <1>1, <1>2, <1>4, <3>1, KeysOnly, Untold
    <3>3. Says(e, Evident(e), k, StateIn(log, Len(log), k))
      BY <1>1, FeedIs DEF StoreInv
    <3> QED BY <1>3, <2>2, <3>2, <3>3
  <2> QED BY <1>1, <2>1, <2>2, FeedIs
<1>8. AllDiffer(log')
  BY <1>1, <1>2, <1>4, BatchDiffers DEF StoreInv
<1>9. restarts' # 0
  BY <1>1, <1>2
<1> QED BY <1>1, <1>3, <1>5, <1>6, <1>7, <1>8, <1>9 DEF StoreInv, LogGrows

LEMMA UnloggedKeeps ==
  ASSUME StoreInv, NEW d \in Device, NEW obs \in 1..MaxTime, NEW r \in Report,
         IngestUnlogged(d, obs, r)
  PROVE  StoreInv' /\ LogGrows
<1>1. /\ ~Outdated(d, obs) /\ scans' = Append(scans, Header(d, obs, r))
      /\ assets' = [assets EXCEPT ![d] = Reconcile(@, obs, r)]
      /\ lagging' = lagging \cup {d} /\ unlogged' = unlogged + 1 /\ unlogged < MaxUnlogged
      /\ UNCHANGED <<log, restarts>> /\ restarts > 0
  BY DEF IngestUnlogged
<1>2. log \in Seq(Entry) /\ restarts \in Nat
  BY TypeFacts DEF StoreInv
<1>3. /\ scans' \in Seq(Scan)
      /\ assets' \in [Device -> [Fingerprint -> Row \cup {NoRow}]]
      /\ \A e \in Device : WinsIn(scans', assets'[e], e)
      /\ \A e \in Device : e # d => Evident(e)' = Evident(e)
  BY <1>1, Reconciled
<1>4. TypeOK'
  <2>1. unlogged' \in 0..MaxUnlogged
    BY <1>1, StoreAssumption DEF StoreInv, TypeOK
  <2> QED BY <1>1, <1>3, <2>1 DEF StoreInv, TypeOK
<1>5. FeedIsCurrent'
  <2>1. ASSUME NEW e \in Device \ lagging, e # d, NEW k \in Keys(e)
        PROVE  Says(e, Evident(e)', k, StateIn(log', Len(log'), k))
    <3>1. Says(e, Evident(e), k, StateIn(log, Len(log), k))
      BY <1>1, FeedIs DEF StoreInv
    <3> QED BY <1>1, <1>3, <2>1, <3>1
  <2> QED BY <1>1, <2>1, FeedIs
<1>6. AllDiffer(log') /\ (restarts' = 0 => log' = <<>>)
  BY <1>1 DEF StoreInv
<1> QED BY <1>1, <1>2, <1>3, <1>4, <1>5, <1>6, LogStays DEF StoreInv

LEMMA InitializeKeeps ==
  ASSUME StoreInv, Initialize
  PROVE  StoreInv' /\ LogGrows
<1> DEFINE x == Bootstrapped
<1>1. /\ restarts <= MaxRestarts /\ restarts' = restarts + 1
      /\ log' = log \o x /\ lagging' = {d \in lagging : Members(d) = {}}
      /\ UNCHANGED <<scans, assets, unlogged>>
  BY DEF Initialize
<1>2. log \in Seq(Entry) /\ restarts \in Nat /\ \A d \in Device : assets[d] \in Rows
  BY TypeFacts DEF StoreInv
<1>3. \A d \in Device : Retained(d) \in Seq(Item) /\ ToSet(Retained(d)) = Evident(d)
  BY <1>2, RetainedIs
<1>4. /\ Sound(log, x, Key)
      /\ \A d \in Device : Members(d) = {} => \A k \in Keys(d) : Entries(x, k) = {}
      /\ \A d \in Device : Members(d) # {} => Tells(x, d, Retained(d))
  BY <1>2, <1>3, BootstrapSound
<1> HIDE DEF x
<1>5. x \in Seq(Entry) /\ log' \in Seq(Entry)
  BY <1>1, <1>2, <1>4, Concatenated DEF Sound
<1>6. TypeOK'
  <2>1. restarts' \in 0..(MaxRestarts + 1)
    BY <1>1, StoreAssumption DEF StoreInv, TypeOK
  <2> QED BY <1>1, <1>5, <2>1 DEF StoreInv, TypeOK
<1>7. \A d \in Device : WinsIn(scans', assets'[d], d)
  BY <1>1 DEF StoreInv
<1>8. \A d \in Device : Evident(d)' = Evident(d)
  BY <1>1, InventoryIs
<1>9. FeedIsCurrent'
  <2>1. ASSUME NEW d \in Device, Members(d) # {}, NEW k \in Keys(d)
        PROVE  Says(d, Evident(d), k, StateIn(log', Len(log'), k))
    <3>1. StateIn(log', Len(log'), k) = Projected(d, Retained(d), k)
      BY <1>1, <1>2, <1>4, <2>1, Told
    <3>2. Says(d, ToSet(Retained(d)), k, Projected(d, Retained(d), k))
      BY <1>3, SaysReport
    <3> QED BY <1>3, <3>1, <3>2
  <2>2. ASSUME NEW d \in Device \ lagging, Members(d) = {}, NEW k \in Keys(d)
        PROVE  Says(d, Evident(d), k, StateIn(log', Len(log'), k))
    <3>1. StateIn(log', Len(log'), k) = StateIn(log, Len(log), k)
      BY <1>1, <1>2, <1>4, <2>2, Untold
    <3>2. CASE restarts > 0
      BY <3>1, <3>2, FeedIs DEF StoreInv
    <3>3. CASE ~(restarts > 0)
      <4>1. log = <<>>
        BY <1>2, <3>3 DEF StoreInv
      <4>2. StateIn(log, Len(log), k) = Gone
        <5>1. Len(log) = 0 /\ 1..0 = {}
          BY <4>1, EmptySeq
        <5> QED BY <5>1, NoEntry
      <4>3. Evident(d) = {}
        BY <2>2 DEF Evident
      <4> QED BY <3>1, <4>2, <4>3 DEF Says
    <3> QED BY <3>2, <3>3
  <2>3. ASSUME NEW d \in Device \ lagging', NEW k \in Keys(d)
        PROVE  Says(d, Evident(d)', k, StateIn(log', Len(log'), k))
    <3>1. Members(d) # {} \/ d \notin lagging
      BY <1>1
    <3> QED BY <1>8, <2>1, <2>2, <3>1
  <2> QED BY <2>3, FeedIs
<1>10. AllDiffer(log')
  BY <1>1, <1>2, <1>4, BatchDiffers DEF StoreInv
<1>11. restarts' # 0
  BY <1>1, <1>2
<1> QED BY <1>1, <1>5, <1>6, <1>7, <1>9, <1>10, <1>11 DEF StoreInv, LogGrows

LEMMA StoreStep ==
  ASSUME StoreInv, Next
  PROVE  StoreInv' /\ LogGrows
BY OutdatedKeeps, CurrentKeeps, UnloggedKeeps, InitializeKeeps DEF Next

LEMMA StoreStutter ==
  ASSUME StoreInv, UNCHANGED vars
  PROVE  StoreInv' /\ LogGrows
<1>1. UNCHANGED <<scans, assets, log, restarts, unlogged, lagging>>
  BY DEF vars
<1>2. TypeOK'
  BY <1>1 DEF StoreInv, TypeOK
<1>3. \A d \in Device : Evident(d)' = Evident(d)
  BY <1>1, InventoryIs
<1>4. FeedIsCurrent'
  BY <1>1, <1>3, FeedIs DEF StoreInv
<1>5. log \in Seq(Entry)
  BY TypeFacts DEF StoreInv
<1> QED BY <1>1, <1>2, <1>4, <1>5, LogStays DEF StoreInv

(***************************************************************************)
(* What a restart repeats.  The run store_restart shows that a start can   *)
(* append entries although nothing changed.                                *)
(***************************************************************************)

\* Two assets of the inventory of d have key k, both run or none with that key does,
\* and they differ: what the log should say of k is not determined.
Ambiguous(d, k) ==
  \E a, b \in Evident(d) :
    /\ KeyOf[<<d, a.print>>] = k /\ KeyOf[<<d, b.print>>] = k
    /\ a.version # b.version /\ a.running = b.running
    /\ a.running \/ \A c \in Evident(d) : KeyOf[<<d, c.print>>] = k => ~c.running

LEMMA SaysTwice ==
  ASSUME NEW d, NEW k, NEW v, NEW w, v # w,
         Says(d, Evident(d), k, v), Says(d, Evident(d), k, w)
  PROVE  Ambiguous(d, k)
<1> DEFINE here == {a \in Evident(d) : KeyOf[<<d, a.print>>] = k}
<1>1. here # {}
  BY DEF Says
<1>2. /\ v \in {EvidenceOf(a) : a \in here} /\ v.running = \E a \in here : a.running
      /\ w \in {EvidenceOf(a) : a \in here} /\ w.running = \E a \in here : a.running
  BY <1>1 DEF Says
<1>3. PICK a \in here, b \in here : v = EvidenceOf(a) /\ w = EvidenceOf(b)
  BY <1>2
<1>4. v.running = a.running /\ w.running = b.running
  BY <1>3 DEF EvidenceOf
<1>5. a.running = b.running /\ a.version # b.version
  BY <1>2, <1>3, <1>4 DEF EvidenceOf
<1>6. a.running \/ \A c \in here : ~c.running
  BY <1>2, <1>4
<1> QED BY <1>3, <1>5, <1>6 DEF Ambiguous

LEMMA RestartExplained ==
  ASSUME StoreInv, Initialize, restarts > 0, NEW n \in DOMAIN log' \ DOMAIN log
  PROVE  \E d \in Device : /\ log'[n].key \in Keys(d)
                           /\ d \in lagging \/ Ambiguous(d, log'[n].key)
<1> DEFINE x == Bootstrapped
<1>1. log' = log \o x /\ log \in Seq(Entry) /\ \A d \in Device : assets[d] \in Rows
  BY TypeFacts DEF Initialize, StoreInv
<1>2. \A d \in Device : Retained(d) \in Seq(Item) /\ ToSet(Retained(d)) = Evident(d)
  BY <1>1, RetainedIs
<1>3. /\ Sound(log, x, Key)
      /\ \A d \in Device : Members(d) = {} => \A k \in Keys(d) : Entries(x, k) = {}
      /\ \A d \in Device : Members(d) # {} => Tells(x, d, Retained(d))
  BY <1>1, <1>2, BootstrapSound
<1> HIDE DEF x
<1>4. x \in Seq(Entry)
  BY <1>3 DEF Sound
<1>5. n \in 1..Len(log \o x) /\ n > Len(log)
  <2>1. DOMAIN log = 1..Len(log) /\ DOMAIN log' = 1..Len(log \o x) /\ Len(log) \in Nat
    BY <1>1, <1>4, Concatenated, LenProperties
  <2> QED BY <2>1
<1>6. PICK i \in 1..Len(x) : log'[n] = x[i]
  BY <1>1, <1>4, <1>5, Concatenated
<1> DEFINE k == x[i].key
           was == StateIn(log, Len(log), k)
<1>7. PICK d \in Device : k \in Keys(d)
  BY <1>3 DEF Sound, Key
<1>8. Members(d) # {}
  BY <1>3, <1>7 DEF Entries
<1>9. StateOf(x[i]) = Projected(d, Retained(d), k)
  <2>1. PICK j \in 1..Len(x) : x[j].key = k /\ StateOf(x[j]) = Projected(d, Retained(d), k)
    BY <1>3, <1>7, <1>8 DEF Tells
  <2>2. j = i
    BY <1>3, <2>1 DEF Sound
  <2> QED BY <2>1, <2>2
<1>10. StateOf(x[i]) # was
  BY <1>3 DEF Sound, Differs, StateOf
<1>11. Says(d, Evident(d), k, StateOf(x[i]))
  BY <1>2, <1>9, SaysReport
<1>12. d \notin lagging => Says(d, Evident(d), k, was)
  BY <1>7, FeedIs DEF StoreInv
<1> HIDE DEF was
<1>13. d \in lagging \/ Ambiguous(d, k)
  BY <1>10, <1>11, <1>12, SaysTwice
<1> QED BY <1>6, <1>7, <1>13

(* Without projections that fail nothing lags, and with one asset to a key
   nothing is ambiguous. *)
LEMMA NothingLags ==
  ASSUME MaxUnlogged = 0, TypeOK, lagging = {}, [Next]_vars
  PROVE  lagging' = {}
<1>1. unlogged = 0
  BY DEF TypeOK
<1> QED BY <1>1 DEF Next, IngestOutdated, IngestCurrent, IngestUnlogged, Initialize, vars

OneAssetPerKey ==
  \A d \in Device, p, q \in Fingerprint :
    KeyOf[<<d, p>>] = KeyOf[<<d, q>>] /\ KeyOf[<<d, p>>] # NoKey => p = q

LEMMA NothingAmbiguous ==
  ASSUME OneAssetPerKey, NEW d \in Device, NEW k \in Keys(d)
  PROVE  ~Ambiguous(d, k)
<1> SUFFICES ASSUME Ambiguous(d, k) PROVE FALSE
  OBVIOUS
<1>1. PICK a \in Evident(d), b \in Evident(d) :
        KeyOf[<<d, a.print>>] = k /\ KeyOf[<<d, b.print>>] = k /\ a.version # b.version
  BY DEF Ambiguous
<1>2. /\ a.print \in Fingerprint /\ a.version = assets[d][a.print].version
      /\ b.print \in Fingerprint /\ b.version = assets[d][b.print].version
  <2>1. Members(d) \subseteq Fingerprint
    BY DEF Members
  <2>2. \A c \in Evident(d) : c.print \in Members(d) /\ c.version = assets[d][c.print].version
    BY DEF Evident
  <2> QED BY <2>1, <2>2
<1>3. k # NoKey
  BY DEF Keys
<1>4. a.print = b.print
  BY <1>1, <1>2, <1>3 DEF OneAssetPerKey
<1> QED BY <1>1, <1>2, <1>4

(***************************************************************************)
(* The rows of a database before its upgrade.                              *)
(***************************************************************************)

Blank == [p \in Fingerprint |-> NoRow]
Nulled(rows) == [p \in Fingerprint |-> IF rows[p] = NoRow THEN NoRow
                                       ELSE [rows[p] EXCEPT !.present = "null"]]
Overtaken(h, d, n) == \E j \in 1..(n - 1) : h[j].dev = d /\ h[j].obs > h[n].obs
StepRows(rows, h, d, n) ==
  IF h[n].dev # d \/ Overtaken(h, d, n) THEN rows
  ELSE Reconcile(rows, h[n].obs, h[n].assets)
Replays(f, h, d) ==
  /\ f[0] = Blank
  /\ \A n \in 1..Len(h) : f[n] = StepRows(f[n - 1], h, d, n)
  /\ LegacyRows(h, d) = Nulled(f[Len(h)])

LEMMA LegacyScans ==
  ASSUME NEW h \in Legacy
  PROVE  /\ h \in Seq(Scan) /\ Len(h) \in Nat /\ DOMAIN h = 1..Len(h)
         /\ \A n \in 1..Len(h) : /\ h[n] \in Scan /\ h[n].obs \in 1..MaxTime
                                 /\ h[n].assets \in Seq(Item) /\ Unrepeated(h[n].assets)
<1>1. h \in Seq(Scan) /\ \A n \in DOMAIN h : Unrepeated(h[n].assets)
  BY StoreAssumption
<1>2. Len(h) \in Nat /\ DOMAIN h = 1..Len(h) /\ \A n \in 1..Len(h) : h[n] \in Scan
  BY <1>1, LenProperties, ElementOfSeq
<1>3. \A x \in Scan : x.obs \in 1..MaxTime /\ x.assets \in Seq(Item)
  BY DEF Scan
<1> QED BY <1>1, <1>2, <1>3

LEMMA Replayed ==
  ASSUME NEW h \in Legacy, NEW d
  PROVE  \E f \in [0..Len(h) -> Rows] : Replays(f, h, d)
<1> DEFINE N == Len(h)
           g == [x \in Rows \X (1..N) |-> StepRows(x[1], h, d, x[2])]
           Unfolds(f) ==
             f = [n \in 0..N |-> IF n = 0 THEN Blank
                                 ELSE IF h[n].dev # d \/ Overtaken(h, d, n) THEN f[n - 1]
                                 ELSE Reconcile(f[n - 1], h[n].obs, h[n].assets)]
           rows == CHOOSE f : Unfolds(f)
<1>1. /\ N \in Nat
      /\ \A n \in 1..N : h[n].obs \in 1..MaxTime /\ h[n].assets \in Seq(Item) /\ Unrepeated(h[n].assets)
  BY LegacyScans
<1>2. LegacyRows(h, d) = Nulled(rows[N])
  BY DEF LegacyRows, Nulled, Overtaken, Blank
<1> HIDE DEF N
<1>3. \A x \in Rows, n \in 1..N : StepRows(x, h, d, n) \in Rows
  <2> SUFFICES ASSUME NEW x \in Rows, NEW n \in 1..N PROVE StepRows(x, h, d, n) \in Rows
    OBVIOUS
  <2>1. Reconcile(x, h[n].obs, h[n].assets) \in Rows
    BY <1>1, ReconcileIs
  <2> QED BY <2>1 DEF StepRows
<1>4. Blank \in Rows
  BY DEF Blank, Rows
<1>5. g \in [Rows \X (1..N) -> Rows] /\ \A x \in Rows, n \in 1..N : g[<<x, n>>] = StepRows(x, h, d, n)
  BY <1>3
<1> HIDE DEF g
<1>6. PICK f \in [0..N -> Rows] : Recurs(f, N, Blank, g)
  BY <1>1, <1>4, <1>5, Recursion
<1>7. f[0] = Blank /\ \A n \in 1..N : f[n] = StepRows(f[n - 1], h, d, n)
  <2>1. ASSUME NEW n \in 1..N PROVE f[n] = StepRows(f[n - 1], h, d, n)
    <3>1. n - 1 \in 0..N
      BY <1>1
    <3>2. f[n - 1] \in Rows
      BY <1>6, <3>1
    <3> QED BY <1>5, <1>6, <3>2 DEF Recurs
  <2> QED BY <1>6, <2>1 DEF Recurs
<1>8. Unfolds(f)
  <2>1. f = [n \in 0..N |-> f[n]]
    BY <1>6
  <2>2. ASSUME NEW n \in 0..N, n # 0
        PROVE  f[n] = IF h[n].dev # d \/ Overtaken(h, d, n) THEN f[n - 1]
                      ELSE Reconcile(f[n - 1], h[n].obs, h[n].assets)
    <3>1. n \in 1..N
      BY <2>2
    <3> QED BY <1>7, <3>1 DEF StepRows
  <2> QED BY <1>7, <2>1, <2>2
<1>9. Unfolds(rows)
  BY <1>8
<1> HIDE DEF rows
<1>10. /\ rows[0] = Blank /\ rows = [n \in 0..N |-> rows[n]]
       /\ \A n \in 1..N : rows[n] = StepRows(rows[n - 1], h, d, n)
  <2>1. rows[0] = Blank /\ rows = [n \in 0..N |-> rows[n]]
    BY <1>1, <1>9
  <2>2. ASSUME NEW n \in 1..N PROVE rows[n] = StepRows(rows[n - 1], h, d, n)
    <3>1. n \in 0..N /\ n # 0
      BY <1>1
    <3> QED BY <1>9, <3>1 DEF StepRows
  <2> QED BY <2>1, <2>2
<1> HIDE DEF Unfolds
<1> DEFINE T == {n \in 0..N : rows[n] \in Rows}
<1>11. 0 \in T
  BY <1>1, <1>4, <1>10
<1>12. ASSUME NEW n \in 0..N, n \in T, n < N PROVE n + 1 \in T
  <2>1. n + 1 \in 1..N /\ n + 1 \in 0..N /\ (n + 1) - 1 = n
    BY <1>1, <1>12
  <2> QED BY <1>3, <1>10, <1>12, <2>1
<1>13. \A n \in 0..N : rows[n] \in Rows
  <2> HIDE DEF T
  <2>1. 0..N \subseteq T
    BY <1>1, <1>11, <1>12, SetInduction
  <2> QED BY <2>1 DEF T
<1>14. rows \in [0..N -> Rows]
  BY <1>10, <1>13
<1>15. Replays(rows, h, d)
  BY <1>2, <1>10 DEF Replays, N
<1> QED BY <1>14, <1>15 DEF N

LEMMA NulledIs ==
  ASSUME NEW rows \in Rows
  PROVE  /\ Nulled(rows) \in Rows
         /\ \A p \in Fingerprint : Nulled(rows)[p].present \in {"none", "null"}
         /\ \A p \in Fingerprint : Nulled(rows)[p] # NoRow <=> rows[p] # NoRow
         /\ \A p \in Fingerprint : Nulled(rows)[p] # NoRow =>
              Nulled(rows)[p].present = "null" /\ Nulled(rows)[p].seen = rows[p].seen
<1> DEFINE R == Nulled(rows)
<1>1. ASSUME NEW p \in Fingerprint, rows[p] = NoRow
      PROVE  R[p] = NoRow /\ R[p].present = "none"
  <2>1. R[p] = NoRow
    BY <1>1 DEF Nulled
  <2> QED BY <2>1 DEF NoRow
<1>2. ASSUME NEW p \in Fingerprint, rows[p] # NoRow
      PROVE  R[p] \in Row /\ R[p] # NoRow /\ R[p].present = "null" /\ R[p].seen = rows[p].seen
  <2>1. rows[p] \in Row
    BY <1>2, RowFields
  <2>2. R[p] = [rows[p] EXCEPT !.present = "null"]
    BY <1>2 DEF Nulled
  <2>3. R[p] \in Row /\ R[p].present = "null" /\ R[p].seen = rows[p].seen
    BY <2>1, <2>2 DEF Row
  <2>4. R[p] # NoRow
    BY <2>3 DEF NoRow
  <2> QED BY <2>3, <2>4
<1>3. R = [p \in Fingerprint |-> R[p]]
  BY DEF Nulled
<1> HIDE DEF R
<1>4. R \in Rows
  <2>1. \A p \in Fingerprint : R[p] \in Row \cup {NoRow}
    BY <1>1, <1>2
  <2> QED BY <1>3, <2>1 DEF Rows
<1>5. ASSUME NEW p \in Fingerprint
      PROVE  /\ R[p].present \in {"none", "null"}
             /\ R[p] # NoRow <=> rows[p] # NoRow
             /\ R[p] # NoRow => R[p].present = "null" /\ R[p].seen = rows[p].seen
  BY <1>1, <1>2
<1> QED BY <1>4, <1>5 DEF R

\* The newest report of a device whose history has no misdated header is the
\* last one that was reconciled.
LEMMA LastReconciled ==
  ASSUME NEW h \in Legacy, NEW d, ~MisdatedIn(h, d), NEW m, BestIn(h, d, m),
         NEW f \in [0..Len(h) -> Rows], Replays(f, h, d)
  PROVE  f[Len(h)] = Reconcile(f[m - 1], h[m].obs, h[m].assets)
<1> DEFINE N == Len(h)
<1>1. N \in Nat /\ DOMAIN h = 1..N /\ \A n \in 1..N : h[n] \in Scan /\ h[n].obs \in Nat
  <2>1. \A x \in Scan : x.obs \in Nat
    BY DEF Scan
  <2> QED BY <2>1, LegacyScans
<1>2. \A n \in 1..N : f[n] = StepRows(f[n - 1], h, d, n)
  BY DEF Replays
<1> HIDE DEF N
<1>3. m \in 1..N /\ h[m].dev = d
  BY <1>1 DEF BestIn, ScansOf
<1>4. ASSUME NEW n \in 1..N, h[n].dev = d
      PROVE  h[n].obs < h[m].obs \/ (h[n].obs = h[m].obs /\ n <= m)
  <2>1. n \in ScansOf(h, d)
    BY <1>1, <1>4 DEF ScansOf, MisdatedIn
  <2> QED BY <2>1 DEF BestIn
<1>5. f[m] = Reconcile(f[m - 1], h[m].obs, h[m].assets)
  <2>1. ~Overtaken(h, d, m)
    <3> SUFFICES ASSUME NEW j \in 1..(m - 1), h[j].dev = d, h[j].obs > h[m].obs PROVE FALSE
      BY DEF Overtaken
    <3>1. j \in 1..N
      BY <1>1, <1>3
    <3> QED BY <1>1, <1>3, <1>4, <3>1
  <2> QED BY <1>2, <1>3, <2>1 DEF StepRows
<1> DEFINE T == {n \in 0..N : n >= m => f[n] = f[m]}
<1>6. 0 \in T
  BY <1>1, <1>3
<1>7. ASSUME NEW n \in 0..N, n \in T, n < N PROVE n + 1 \in T
  <2>1. n + 1 \in 1..N /\ n + 1 \in 0..N /\ (n + 1) - 1 = n
    BY <1>1, <1>7
  <2>2. CASE n + 1 > m
    <3>1. n >= m
      BY <1>3, <2>2
    <3>2. h[n + 1].dev # d \/ Overtaken(h, d, n + 1)
      <4> SUFFICES ASSUME h[n + 1].dev = d PROVE Overtaken(h, d, n + 1)
        OBVIOUS
      <4>1. h[n + 1].obs < h[m].obs
        BY <1>3, <1>4, <2>1, <2>2
      <4>2. m \in 1..((n + 1) - 1) /\ h[m].obs > h[n + 1].obs
        BY <1>1, <1>3, <2>1, <3>1, <4>1
      <4> QED BY <1>3, <4>2 DEF Overtaken
    <3>3. f[n + 1] = f[n]
      BY <1>2, <2>1, <3>2 DEF StepRows
    <3> QED BY <1>7, <2>1, <3>1, <3>3
  <2>3. CASE n + 1 = m
    BY <2>1, <2>3
  <2>4. CASE n + 1 < m
    BY <1>3, <2>1, <2>4
  <2> QED BY <1>3, <2>1, <2>2, <2>3, <2>4
<1>8. f[N] = f[m]
  <2> HIDE DEF T
  <2>1. 0..N \subseteq T
    BY <1>1, <1>6, <1>7, SetInduction
  <2>2. N \in T /\ N >= m
    BY <1>1, <1>3, <2>1
  <2> QED BY <2>2 DEF T
<1> QED BY <1>5, <1>8 DEF N

\* An upgraded device shows the assets of its newest scan or nothing.
LEMMA LegacyWins ==
  ASSUME NEW h \in Legacy, NEW d
  PROVE  LegacyRows(h, d) \in Rows /\ WinsIn(h, LegacyRows(h, d), d)
<1> DEFINE rows == LegacyRows(h, d)
<1>1. PICK f \in [0..Len(h) -> Rows] : Replays(f, h, d)
  BY Replayed
<1>2. /\ h \in Seq(Scan) /\ Len(h) \in Nat /\ DOMAIN h = 1..Len(h)
      /\ \A n \in 1..Len(h) : /\ h[n].obs \in 1..MaxTime
                              /\ h[n].assets \in Seq(Item) /\ Unrepeated(h[n].assets)
  BY LegacyScans
<1>3. f[Len(h)] \in Rows /\ rows = Nulled(f[Len(h)])
  BY <1>1, <1>2 DEF Replays
<1> HIDE DEF rows
<1>4. /\ rows \in Rows
      /\ \A p \in Fingerprint : rows[p].present \in {"none", "null"}
      /\ \A p \in Fingerprint : rows[p] # NoRow <=> f[Len(h)][p] # NoRow
      /\ \A p \in Fingerprint : rows[p] # NoRow =>
           rows[p].present = "null" /\ rows[p].seen = f[Len(h)][p].seen
  BY <1>3, NulledIs
<1>5. ASSUME ScansOf(h, d) # {}, ~MisdatedIn(h, d)
      PROVE  MembersIn(h, rows, d) \in {{}, {a.print : a \in ToSet(h[NewestIn(h, d)].assets)}}
  <2>1. PICK m \in DOMAIN h : BestIn(h, d, m)
    BY <1>2, <1>5, BestExists
  <2>2. NewestIn(h, d) = m
    BY <1>2, <2>1, NewestUnique
  <2> DEFINE r == h[m].assets
             N == Len(r)
             t == h[m].obs
             Seen == SeenIn(rows, t)
             prints == {a.print : a \in ToSet(r)}
             was == f[m - 1]
  <2>3. r \in Seq(Item) /\ Unrepeated(r) /\ t \in 1..MaxTime /\ was \in Rows
    <3>1. m - 1 \in 0..Len(h) /\ m \in 1..Len(h)
      BY <1>2
    <3> QED BY <1>1, <1>2, <3>1
  <2>4. f[Len(h)] = Reconcile(was, t, r)
    BY <1>1, <1>5, <2>1, LastReconciled
  <2>5. MembersIn(h, rows, d) =
          {p \in Fingerprint : \/ rows[p].present = "yes"
                               \/ rows[p].present = "null" /\ p \in Seen /\ N = Cardinality(Seen)}
    BY <1>5, <2>2 DEF MembersIn
  <2>6. DOMAIN r = 1..N /\ N \in Nat
    BY <2>3, LenProperties
  <2> HIDE DEF r, N, t, was
  <2>7. \A i \in 1..N : r[i].print \in Fingerprint /\ Reconcile(was, t, r)[r[i].print].seen = t
                        /\ Reconcile(was, t, r)[r[i].print] # NoRow
    <3> SUFFICES ASSUME NEW i \in 1..N
                 PROVE  r[i].print \in Fingerprint /\ Reconcile(was, t, r)[r[i].print].seen = t
                        /\ Reconcile(was, t, r)[r[i].print] # NoRow
      OBVIOUS
    <3> DEFINE p == r[i].print
               R == Reconcile(was, t, r)
    <3>1. /\ R \in Rows /\ p \in Fingerprint /\ Reports(r, p) /\ R[p].seen = t
          /\ R[p].present = "yes" <=> Reports(r, p)
      BY <2>3, ReconcileIs DEF N
    <3> HIDE DEF p, R
    <3>2. R[p].present = "yes"
      BY <3>1
    <3>3. R[p] # NoRow
      BY <3>2 DEF NoRow
    <3> QED BY <3>1, <3>3 DEF p, R
  <2>8. \A i \in 1..N : r[i].print \in Seen
    BY <1>4, <2>4, <2>7 DEF SeenIn
  <2>9. Seen \in SUBSET Fingerprint /\ IsFiniteSet(Seen)
    <3>1. Seen \in SUBSET Fingerprint
      BY DEF SeenIn
    <3> HIDE DEF Seen
    <3> QED BY <3>1, StoreAssumption, FS_Subset
  <2>10. prints = {r[i].print : i \in 1..N}
    BY <2>6 DEF ToSet
  <2>11. \A p \in Seen : rows[p].present = "null"
    BY <1>4 DEF SeenIn
  <2> HIDE DEF Seen, prints
  <2>12. CASE N # Cardinality(Seen)
    <3>1. MembersIn(h, rows, d) = {}
      BY <1>4, <2>5, <2>12
    <3> QED BY <3>1
  <2>13. ASSUME N = Cardinality(Seen) PROVE MembersIn(h, rows, d) = prints
    <3> DEFINE g == [i \in 1..N |-> r[i].print]
    <3>1. g \in [1..N -> Seen] /\ \A i \in 1..N : g[i] = r[i].print
      BY <2>8
    <3>2. \A i, j \in 1..N : r[i].print = r[j].print => i = j
      BY <2>3, <2>6 DEF Unrepeated
    <3> HIDE DEF g
    <3>3. g \in Injection(1..N, Seen)
      <4>1. IsInjective(g)
        BY <3>1, <3>2 DEF IsInjective
      <4> QED BY <3>1, <4>1 DEF Injection
    <3>4. Cardinality(1..N) = N
      BY <2>6, FS_Interval
    <3>5. g \in Surjection(1..N, Seen)
      BY <2>9, <2>13, <3>3, <3>4, FS_Injection
    <3>6. Seen = prints
      BY <2>10, <3>1, <3>5 DEF Surjection
    <3>7. MembersIn(h, rows, d) = Seen
      BY <1>4, <2>5, <2>9, <2>11, <2>13
    <3> QED BY <3>6, <3>7
  <2> QED BY <2>2, <2>12, <2>13 DEF prints, r
<1>6. WinsIn(h, rows, d)
  BY <1>4, <1>5 DEF WinsIn
<1> QED BY <1>4, <1>6 DEF rows

LEMMA StoreStart ==
  ASSUME Init
  PROVE  StoreInv
<1>1. /\ scans \in Legacy /\ assets = [d \in Device |-> LegacyRows(scans, d)]
      /\ log = <<>> /\ restarts = 0 /\ unlogged = 0 /\ lagging = {}
  BY DEF Init
<1>2. scans \in Seq(Scan)
  BY <1>1, LegacyScans
<1>3. \A d \in Device : assets[d] \in Rows /\ WinsIn(scans, assets[d], d)
  BY <1>1, LegacyWins
<1>4. assets \in [Device -> [Fingerprint -> Row \cup {NoRow}]]
  BY <1>1, <1>3 DEF Rows
<1>5. log \in Seq(Entry) /\ Len(log) = 0 /\ 1..0 = {}
  BY <1>1, EmptySeq
<1>6. TypeOK
  BY <1>1, <1>2, <1>4, <1>5, StoreAssumption DEF TypeOK
<1>7. FeedIsCurrent
  BY <1>1 DEF FeedIsCurrent
<1>8. AllDiffer(log)
  BY <1>5 DEF AllDiffer
<1> QED BY <1>1, <1>3, <1>6, <1>7, <1>8 DEF StoreInv

LEMMA StoreMeans ==
  ASSUME StoreInv
  PROVE  TypeOK /\ NewestWins /\ FeedIsCurrent /\ EveryChangeChanges
<1>1. TypeOK /\ FeedIsCurrent /\ AllDiffer(log) /\ \A d \in Device : WinsIn(scans, assets[d], d)
  BY DEF StoreInv
<1>2. NewestWins
  BY <1>1, InventoryIs
<1>3. DOMAIN log = 1..Len(log)
  BY <1>1, LenProperties DEF TypeOK
<1>4. EveryChangeChanges
  BY <1>1, <1>3, FeedIs DEF AllDiffer
<1> QED BY <1>1, <1>2, <1>4

(***************************************************************************)
(* The consumer.                                                           *)
(***************************************************************************)

\* The copy m holds, up to key a, the state at sequence number w.
Paged(l, w, a, m) == \A k \in Key : m[k] = IF k <= a THEN StateIn(l, w, k) ELSE Gone

\* The copy m holds the state at the applied cursor t or, where changes are read
\* again, at the furthest one r; what is read again is one page at most.
Followed(l, w, m, t, c, r) ==
  /\ w <= c /\ c <= t /\ t <= r /\ r <= c + Limit
  /\ t # c => t = r
  /\ \A k \in Key : m[k] \in {StateIn(l, t, k), StateIn(l, r, k)}
  /\ t = r => \A k \in Key : m[k] = StateIn(l, t, k)

ConsumerInv ==
  /\ StoreInv
  /\ ConsumerTypeOK
  /\ phase = "paging" => Paged(log, watermark, after, mirror)
  /\ phase = "following" => Followed(log, watermark, mirror, taken, cursor, reach)

LEMMA ReaderFacts ==
  ASSUME ConsumerInv
  PROVE  /\ log \in Seq(Entry) /\ Len(log) \in Nat /\ DOMAIN log = 1..Len(log)
         /\ watermark \in 0..Len(log) /\ taken \in 0..Len(log) /\ cursor \in 0..Len(log)
         /\ reach \in 0..Len(log) /\ after \in Nat /\ Limit \in Nat /\ Limit >= 1
         /\ mirror \in [Key -> States]
         /\ \A n \in 0..Len(log) : \A k : StateIn(log, n, k) \in States
<1>1. log \in Seq(Entry)
  BY TypeFacts DEF ConsumerInv, StoreInv
<1>2. Len(log) \in Nat /\ DOMAIN log = 1..Len(log)
  BY <1>1, LenProperties
<1>3. \A n \in 0..Len(log) : \A k : StateIn(log, n, k) \in States
  BY <1>1, StateTyped
<1> QED BY <1>1, <1>2, <1>3, ConsumerAssumption DEF ConsumerInv, ConsumerTypeOK, States

\* What the consumer has stays true while the log grows.
LEMMA StoreBesideReader ==
  ASSUME ConsumerInv, StoreInv', LogGrows, UNCHANGED consumer
  PROVE  ConsumerInv'
<1>1. UNCHANGED <<phase, watermark, after, mirror, taken, cursor, reach, crashes>>
  BY DEF consumer
<1>2. PICK x \in Seq(Entry) : log' = log \o x
  BY DEF LogGrows
<1>3. /\ log \in Seq(Entry) /\ watermark \in 0..Len(log) /\ taken \in 0..Len(log)
      /\ reach \in 0..Len(log) /\ cursor \in 0..Len(log)
  BY ReaderFacts
<1>4. \A n \in 0..Len(log) : \A k : StateIn(log', n, k) = StateIn(log, n, k)
  BY <1>2, <1>3, PastKept
<1>5. \A n \in 0..Len(log) : n \in 0..Len(log')
  <2>1. Len(log') = Len(log) + Len(x) /\ Len(log) \in Nat /\ Len(x) \in Nat
    BY <1>2, <1>3, Concatenated
  <2> QED BY <2>1
<1>6. ConsumerTypeOK'
  BY <1>1, <1>3, <1>5 DEF ConsumerInv, ConsumerTypeOK, StoreInv
<1>7. ASSUME phase = "paging" PROVE Paged(log', watermark, after, mirror)
  BY <1>3, <1>4, <1>7 DEF ConsumerInv, Paged
<1>8. ASSUME phase = "following" PROVE Followed(log', watermark, mirror, taken, cursor, reach)
  BY <1>3, <1>4, <1>8 DEF ConsumerInv, Followed
<1> QED BY <1>1, <1>6, <1>7, <1>8 DEF ConsumerInv

\* A step of the consumer leaves the store.
LEMMA StoreKept ==
  ASSUME ConsumerInv, UNCHANGED vars
  PROVE  StoreInv' /\ TypeOK' /\ log' = log
<1>1. StoreInv'
  BY StoreStutter DEF ConsumerInv
<1> QED BY <1>1 DEF vars, StoreInv

LEMMA BeginKeeps ==
  ASSUME ConsumerInv, BeginSnapshot
  PROVE  ConsumerInv'
<1>1. /\ phase' = "paging" /\ watermark' = Len(log) /\ after' = 0 /\ mirror' = Empty
      /\ UNCHANGED vars /\ UNCHANGED <<taken, cursor, reach, crashes>>
  BY DEF BeginSnapshot
<1>2. StoreInv' /\ TypeOK' /\ log' = log
  BY <1>1, StoreKept
<1>3. Len(log) \in 0..Len(log)
  BY ReaderFacts
<1>4. mirror' \in [Key -> Evidence \cup {Gone}]
  BY <1>1 DEF Empty
<1>5. ConsumerTypeOK'
  BY <1>1, <1>2, <1>3, <1>4 DEF ConsumerInv, ConsumerTypeOK
<1>6. ASSUME NEW k \in Key PROVE mirror'[k] = Gone /\ ~(k <= 0)
  <2>1. k \in Nat /\ k # 0
    BY KeyFacts DEF Key, NoKey
  <2> QED BY <1>1, <2>1 DEF Empty
<1>7. Paged(log', watermark', after', mirror')
  BY <1>1, <1>6 DEF Paged
<1> QED BY <1>1, <1>2, <1>5, <1>7 DEF ConsumerInv

(* The first keys of a finite set, Limit at most. *)
LEMMA PageIs ==
  ASSUME NEW S \in SUBSET Key
  PROVE  /\ Page(S) \subseteq S
         /\ \A k \in S : \A m \in Page(S) : k <= m => k \in Page(S)
         /\ Page(S) # S => Page(S) # {}
<1>1. S \subseteq Nat /\ IsFiniteSet(S)
  BY KeyFacts, FS_Subset
<1> DEFINE Below(k) == {j \in S : j < k}
<1>2. ASSUME NEW k PROVE IsFiniteSet(Below(k)) /\ Cardinality(Below(k)) \in Nat
  <2>1. Below(k) \in SUBSET S
    OBVIOUS
  <2> HIDE DEF Below
  <2> QED BY <1>1, <2>1, FS_Subset, FS_CardinalityType
<1>3. Page(S) = {k \in S : Cardinality(Below(k)) < Limit}
  BY DEF Page
<1>4. ASSUME NEW k \in S, NEW m \in Page(S), k <= m PROVE k \in Page(S)
  <2>1. m \in S /\ Cardinality(Below(m)) < Limit
    BY <1>3
  <2>2. Below(k) \in SUBSET Below(m)
    <3>1. k \in Nat /\ m \in Nat
      BY <1>1, <2>1
    <3>2. ASSUME NEW j \in S, j < k PROVE j < m
      <4>1. j \in Nat
        BY <1>1
      <4> QED BY <1>4, <3>1, <3>2, <4>1
    <3> QED BY <3>2
  <2> HIDE DEF Below
  <2>3. Cardinality(Below(k)) <= Cardinality(Below(m))
    BY <1>2, <2>2, FS_Subset
  <2>4. Cardinality(Below(k)) < Limit
    BY <1>2, <2>1, <2>3, ConsumerAssumption
  <2> QED BY <1>3, <2>4
<1>5. ASSUME Page(S) # S PROVE Page(S) # {}
  <2>1. S # {}
    BY <1>3, <1>5
  <2>2. PICK k \in S : \A j \in S : k <= j
    BY <1>1, <2>1, LeastNumber
  <2>3. Below(k) = {}
    <3>1. ASSUME NEW j \in S, j < k PROVE FALSE
      <4>1. j \in Nat /\ k \in Nat /\ k <= j
        BY <1>1, <2>2
      <4> QED BY <3>1, <4>1
    <3> QED BY <3>1
  <2> HIDE DEF Below
  <2>4. Cardinality(Below(k)) < Limit
    BY <2>3, FS_EmptySet, ConsumerAssumption
  <2> QED BY <1>3, <2>4
<1> QED BY <1>3, <1>4, <1>5

LEMMA PageKeeps ==
  ASSUME ConsumerInv, SnapshotPage
  PROVE  ConsumerInv'
<1> DEFINE left == Listed(watermark, after)
           page == Page(left)
           last == CHOOSE k \in page : \A j \in page : j <= k
           at(k) == StateIn(log, watermark, k)
<1>1. /\ phase = "paging" /\ UNCHANGED vars /\ UNCHANGED <<watermark, crashes>>
      /\ mirror' = [k \in Key |-> IF k \in page THEN at(k) ELSE mirror[k]]
      /\ \/ page # left /\ after' = last /\ UNCHANGED <<phase, taken, cursor, reach>>
         \/ /\ page = left /\ phase' = "following" /\ UNCHANGED after
            /\ taken' = watermark /\ cursor' = watermark /\ reach' = watermark
  BY LogStates DEF SnapshotPage
<1>2. StoreInv' /\ TypeOK' /\ log' = log
  BY <1>1, StoreKept
<1>3. /\ mirror \in [Key -> States] /\ after \in Nat /\ watermark \in 0..Len(log) /\ Limit \in Nat
      /\ \A k : at(k) \in States /\ Len(log) \in Nat
  BY ReaderFacts
<1>4. \A k \in Key : mirror[k] = IF k <= after THEN at(k) ELSE Gone
  BY <1>1 DEF ConsumerInv, Paged
<1>5. left = {k \in Key : k > after /\ at(k) # Gone}
  BY LogStates DEF Listed
<1>6. /\ page \subseteq left
      /\ \A k \in left : \A m \in page : k <= m => k \in page
      /\ page # left => page # {}
  <2>1. left \in SUBSET Key
    BY <1>5
  <2> HIDE DEF left
  <2> QED BY <2>1, PageIs
<1>7. Key \subseteq Nat /\ IsFiniteSet(Key)
  BY KeyFacts
<1> HIDE DEF page, at
<1>8. mirror' \in [Key -> Evidence \cup {Gone}]
  BY <1>1, <1>3 DEF States
<1>9. CASE /\ page # left /\ after' = last /\ UNCHANGED <<phase, taken, cursor, reach>>
  <2>1. \E m \in page : \A j \in page : j <= m
    <3>1. page \subseteq Nat /\ page # {} /\ page \in SUBSET Key
      BY <1>5, <1>6, <1>7, <1>9
    <3>2. PICK k0 \in page : TRUE
      BY <3>1
    <3>3. IsFiniteSet(page)
      BY <1>7, <3>1, FS_Subset
    <3>4. \E m \in Nat : \A j \in page : j <= m
      BY <3>1, <3>3, FiniteBound
    <3> QED BY <3>1, <3>4, GreatestNumber
  <2>2. last \in page /\ \A j \in page : j <= last
    BY <2>1
  <2> HIDE DEF last
  <2>3. last \in Nat /\ last > after /\ last \in left
    BY <1>5, <1>6, <1>7, <2>2
  <2>4. ASSUME NEW k \in Key PROVE mirror'[k] = IF k <= last THEN at(k) ELSE Gone
    <3>0. k \in Nat
      BY <1>7
    <3>1. CASE k \in page
      BY <1>1, <2>2, <3>1
    <3>2. CASE k \notin page /\ k <= after
      <4>1. k <= last
        BY <1>3, <2>3, <3>0, <3>2
      <4> QED BY <1>1, <1>4, <3>2, <4>1
    <3>3. CASE k \notin page /\ ~(k <= after) /\ k <= last
      <4>1. k \notin left
        BY <1>6, <2>2, <3>3
      <4>2. at(k) = Gone
        BY <1>3, <1>5, <3>0, <3>3, <4>1
      <4> QED BY <1>1, <1>4, <3>3, <4>2
    <3>4. CASE k \notin page /\ ~(k <= after) /\ ~(k <= last)
      BY <1>1, <1>4, <3>4
    <3> QED BY <3>1, <3>2, <3>3, <3>4
  <2>5. Paged(log', watermark', after', mirror')
    BY <1>1, <1>2, <1>9, <2>4 DEF Paged, at
  <2>6. ConsumerTypeOK'
    BY <1>1, <1>2, <1>8, <1>9, <2>3 DEF ConsumerInv, ConsumerTypeOK
  <2> QED BY <1>1, <1>2, <1>9, <2>5, <2>6 DEF ConsumerInv
<1>10. CASE /\ page = left /\ phase' = "following" /\ UNCHANGED after
            /\ taken' = watermark /\ cursor' = watermark /\ reach' = watermark
  <2>1. ASSUME NEW k \in Key PROVE mirror'[k] = at(k)
    <3>0. k \in Nat
      BY <1>7
    <3>1. CASE k \in page
      BY <1>1, <3>1
    <3>2. CASE k \notin page /\ k <= after
      BY <1>1, <1>4, <3>2
    <3>3. CASE k \notin page /\ ~(k <= after)
      <4>1. at(k) = Gone
        BY <1>3, <1>5, <1>10, <3>0, <3>3
      <4> QED BY <1>1, <1>4, <3>3, <4>1
    <3> QED BY <3>1, <3>2, <3>3
  <2>2. Followed(log', watermark', mirror', taken', cursor', reach')
    <3>1. watermark <= watermark /\ watermark <= watermark + Limit
      BY <1>3
    <3> QED BY <1>1, <1>2, <1>10, <2>1, <3>1 DEF Followed, at
  <2>3. ConsumerTypeOK'
    BY <1>1, <1>2, <1>3, <1>8, <1>10 DEF ConsumerInv, ConsumerTypeOK
  <2> QED BY <1>1, <1>2, <1>10, <2>2, <2>3 DEF ConsumerInv
<1> QED BY <1>1, <1>9, <1>10

KeyBetween(l, a, b, k) == {i \in 1..b : i > a /\ l[i].key = k}
LastOf(l, S) == l[CHOOSE i \in S : \A j \in S : j <= i]

\* What is read between two cursors decides the keys it names.
LEMMA ReadDecides ==
  ASSUME NEW l, NEW a \in Nat, NEW b \in Nat, a <= b, NEW k
  PROVE  /\ KeyBetween(l, a, b, k) = {} => \A c \in a..b : StateIn(l, c, k) = StateIn(l, a, k)
         /\ KeyBetween(l, a, b, k) # {} =>
              StateIn(l, b, k) = StateOf(LastOf(l, KeyBetween(l, a, b, k)))
<1> DEFINE changed == {i \in 1..b : i > a /\ l[i].key = k}
           last == CHOOSE i \in changed : \A j \in changed : j <= i
<1>1. ASSUME changed = {}, NEW c \in a..b PROVE StateIn(l, c, k) = StateIn(l, a, k)
  <2>1. c \in Nat /\ a <= c /\ \A i \in 1..c : i \in 1..b
    OBVIOUS
  <2>2. \A i \in 1..c : i > a => l[i].key # k
    BY <1>1, <2>1
  <2> QED BY <2>1, <2>2, SameBetween
<1>2. ASSUME changed # {} PROVE StateIn(l, b, k) = StateOf(l[last])
  <2>1. changed \subseteq Nat /\ \A i \in changed : i <= b
    OBVIOUS
  <2> HIDE DEF changed
  <2>2. \E m \in changed : \A i \in changed : i <= m
    BY <1>2, <2>1, GreatestNumber
  <2>3. last \in changed /\ \A j \in changed : j <= last
    BY <2>2
  <2> HIDE DEF last
  <2>4. last \in 1..b /\ last > a /\ l[last].key = k
    BY <2>3 DEF changed
  <2>5. ASSUME NEW j \in 1..b, l[j].key = k PROVE j <= last
    <3>1. CASE j > a
      BY <2>3, <2>5, <3>1 DEF changed
    <3>2. CASE ~(j > a)
      BY <2>4, <3>2
    <3> QED BY <3>1, <3>2
  <2> QED BY <2>4, <2>5, LastEntry
<1> QED BY <1>1, <1>2 DEF KeyBetween, LastOf

LEMMA ReadKeeps ==
  ASSUME ConsumerInv, ReadChanges
  PROVE  ConsumerInv'
<1> DEFINE next == NextCursor(taken)
           changed(k) == KeyBetween(log, taken, next, k)
           last(k) == LastOf(log, changed(k))
<1>1. /\ log \in Seq(Entry) /\ Len(log) \in Nat /\ DOMAIN log = 1..Len(log)
      /\ watermark \in Nat /\ taken \in Nat /\ cursor \in Nat /\ reach \in Nat
      /\ taken <= Len(log) /\ reach <= Len(log) /\ Limit \in Nat /\ Limit >= 1
      /\ \A n \in 0..Len(log) : \A k : StateIn(log, n, k) \in States
  BY ReaderFacts
<1>2. /\ phase = "following" /\ cursor = taken /\ taken < Len(log)
      /\ UNCHANGED vars /\ UNCHANGED <<phase, watermark, after, cursor, crashes>>
      /\ taken' = next /\ reach' = IF next > reach THEN next ELSE reach
  BY DEF ReadChanges
<1>3. Followed(log, watermark, mirror, taken, cursor, reach)
  BY <1>2 DEF ConsumerInv
<1>4. /\ next \in Nat /\ taken <= next /\ next <= Len(log) /\ next <= taken + Limit
      /\ reach <= next /\ taken <= reach /\ watermark <= cursor
  BY <1>1, <1>2, <1>3 DEF NextCursor, Followed
<1>5. \A k : {i \in Unread(taken) : log[i].key = k} = changed(k)
  BY <1>1, <1>2 DEF Unread, NextCursor, KeyBetween
<1>6. mirror' = [k \in Key |-> IF changed(k) = {} THEN mirror[k] ELSE StateOf(last(k))]
  <2> DEFINE read(k) == {i \in Unread(taken) : log[i].key = k}
  <2>1. mirror' = [k \in Key |-> IF read(k) = {} THEN mirror[k] ELSE StateOf(LastOf(log, read(k)))]
    BY DEF ReadChanges, StateOf, LastOf
  <2>2. \A k : read(k) = changed(k)
    BY <1>5
  <2> HIDE DEF read, changed
  <2> QED BY <2>1, <2>2
<1>7. StoreInv' /\ TypeOK' /\ log' = log
  BY <1>2, StoreKept
<1>8. taken' = next /\ reach' = next
  BY <1>1, <1>2, <1>4
<1> HIDE DEF next
<1>9. ASSUME NEW k \in Key PROVE mirror'[k] = StateIn(log, next, k)
  <2>1. /\ changed(k) = {} => \A c \in taken..next : StateIn(log, c, k) = StateIn(log, taken, k)
        /\ changed(k) # {} => StateIn(log, next, k) = StateOf(last(k))
    <3>1. taken \in Nat /\ next \in Nat /\ taken <= next
      BY <1>1, <1>4
    <3> QED BY <3>1, ReadDecides
  <2>2. mirror[k] \in {StateIn(log, taken, k), StateIn(log, reach, k)}
    BY <1>3 DEF Followed
  <2>3. reach \in taken..next /\ next \in taken..next
    BY <1>1, <1>4
  <2>4. mirror'[k] = IF changed(k) = {} THEN mirror[k] ELSE StateOf(last(k))
    BY <1>6
  <2> HIDE DEF changed, last
  <2> QED BY <2>1, <2>2, <2>3, <2>4
<1>10. mirror' \in [Key -> Evidence \cup {Gone}]
  <2>1. next \in 0..Len(log)
    BY <1>1, <1>4
  <2>2. \A k \in Key : mirror'[k] \in Evidence \cup {Gone}
    BY <1>1, <1>9, <2>1 DEF States
  <2>3. mirror' = [k \in Key |-> mirror'[k]]
    BY <1>6
  <2> QED BY <2>2, <2>3
<1>11. ConsumerTypeOK'
  <2>1. next \in 0..Len(log)
    BY <1>1, <1>4
  <2> QED BY <1>2, <1>7, <1>8, <1>10, <2>1 DEF ConsumerInv, ConsumerTypeOK
<1>12. Followed(log', watermark', mirror', taken', cursor', reach')
  <2>1. cursor <= next /\ next <= next /\ next <= cursor + Limit
    BY <1>1, <1>2, <1>4
  <2> QED BY <1>2, <1>4, <1>7, <1>8, <1>9, <2>1 DEF Followed
<1> QED BY <1>2, <1>7, <1>11, <1>12 DEF ConsumerInv

LEMMA PersistKeeps ==
  ASSUME ConsumerInv, PersistCursor
  PROVE  ConsumerInv'
<1>1. /\ phase = "following" /\ cursor # taken /\ cursor' = taken /\ UNCHANGED vars
      /\ UNCHANGED <<phase, watermark, after, mirror, taken, reach, crashes>>
  BY DEF PersistCursor
<1>2. StoreInv' /\ TypeOK' /\ log' = log
  BY <1>1, StoreKept
<1>3. watermark \in Nat /\ taken \in Nat /\ cursor \in Nat /\ reach \in Nat /\ Limit \in Nat
  BY ReaderFacts
<1>4. ConsumerTypeOK'
  BY <1>1, <1>2 DEF ConsumerInv, ConsumerTypeOK
<1>5. Followed(log, watermark, mirror, taken, cursor, reach)
  BY <1>1 DEF ConsumerInv
<1>6. watermark <= taken /\ taken <= taken /\ taken <= reach /\ reach <= taken + Limit /\ taken = reach
  BY <1>1, <1>3, <1>5 DEF Followed
<1>7. Followed(log', watermark', mirror', taken', cursor', reach')
  BY <1>1, <1>2, <1>5, <1>6 DEF Followed
<1> QED BY <1>1, <1>2, <1>4, <1>7 DEF ConsumerInv

LEMMA CrashKeeps ==
  ASSUME ConsumerInv, Crash
  PROVE  ConsumerInv'
<1>1. /\ crashes < MaxCrashes /\ crashes' = crashes + 1
      /\ UNCHANGED vars /\ UNCHANGED <<watermark, after, mirror, cursor, reach>>
      /\ \/ phase = "paging" /\ phase' = "new" /\ UNCHANGED taken
         \/ phase = "following" /\ taken' = cursor /\ UNCHANGED phase
  BY DEF Crash
<1>2. StoreInv' /\ TypeOK' /\ log' = log
  BY <1>1, StoreKept
<1>3. watermark \in Nat /\ taken \in Nat /\ cursor \in Nat /\ reach \in Nat /\ Limit \in Nat
  BY ReaderFacts
<1>4. crashes' \in 0..MaxCrashes
  BY <1>1, ConsumerAssumption DEF ConsumerInv, ConsumerTypeOK
<1>5. CASE phase = "paging" /\ phase' = "new" /\ UNCHANGED taken
  BY <1>1, <1>2, <1>4, <1>5 DEF ConsumerInv, ConsumerTypeOK
<1>6. CASE phase = "following" /\ taken' = cursor /\ UNCHANGED phase
  <2>1. ConsumerTypeOK'
    BY <1>1, <1>2, <1>4, <1>6 DEF ConsumerInv, ConsumerTypeOK
  <2>2. Followed(log, watermark, mirror, taken, cursor, reach)
    BY <1>6 DEF ConsumerInv
  <2>3. watermark <= cursor /\ cursor <= cursor /\ cursor <= reach /\ reach <= cursor + Limit
    BY <1>3, <2>2 DEF Followed
  <2>4. ASSUME NEW k \in Key
        PROVE  /\ mirror[k] \in {StateIn(log, cursor, k), StateIn(log, reach, k)}
               /\ cursor = reach => mirror[k] = StateIn(log, cursor, k)
    <3>1. CASE taken = cursor
      BY <2>2, <3>1 DEF Followed
    <3>2. CASE taken # cursor
      <4>1. mirror[k] = StateIn(log, reach, k)
        BY <2>2, <3>2 DEF Followed
      <4> QED BY <4>1
    <3> QED BY <3>1, <3>2
  <2>5. Followed(log', watermark', mirror', taken', cursor', reach')
    BY <1>1, <1>2, <1>6, <2>3, <2>4 DEF Followed
  <2> QED BY <1>1, <1>2, <1>6, <2>1, <2>5 DEF ConsumerInv
<1> QED BY <1>1, <1>5, <1>6

LEMMA ConsumerStart ==
  ASSUME ConsumerInit
  PROVE  ConsumerInv
<1>1. StoreInv
  BY StoreStart DEF ConsumerInit
<1>2. /\ phase = "new" /\ watermark = 0 /\ after = 0 /\ mirror = Empty
      /\ taken = 0 /\ cursor = 0 /\ reach = 0 /\ crashes = 0
  BY DEF ConsumerInit
<1>3. Len(log) \in Nat /\ TypeOK
  BY <1>1, TypeFacts, LenProperties DEF StoreInv
<1>4. mirror \in [Key -> Evidence \cup {Gone}]
  BY <1>2 DEF Empty
<1>5. ConsumerTypeOK
  BY <1>2, <1>3, <1>4, ConsumerAssumption DEF ConsumerTypeOK
<1> QED BY <1>1, <1>2, <1>5 DEF ConsumerInv

LEMMA ConsumerStep ==
  ASSUME ConsumerInv, [ConsumerNext]_allvars
  PROVE  ConsumerInv'
<1>1. CASE Next /\ UNCHANGED consumer
  BY <1>1, StoreStep, StoreBesideReader DEF ConsumerInv
<1>2. CASE Consume
  BY <1>2, BeginKeeps, PageKeeps, ReadKeeps, PersistKeeps DEF Consume
<1>3. CASE Crash
  BY <1>3, CrashKeeps
<1>4. CASE UNCHANGED allvars
  BY <1>4, StoreStutter, StoreBesideReader DEF ConsumerInv, allvars
<1> QED BY <1>1, <1>2, <1>3, <1>4 DEF ConsumerNext

LEMMA ConsumerMeans ==
  ASSUME ConsumerInv
  PROVE  SnapshotConsistent /\ MirrorFaithful
<1>1. /\ phase = "paging" => Paged(log, watermark, after, mirror)
      /\ phase = "following" => Followed(log, watermark, mirror, taken, cursor, reach)
  BY DEF ConsumerInv
<1>2. watermark \in Nat /\ taken \in Nat /\ cursor \in Nat /\ reach \in Nat
  BY ReaderFacts
<1>3. SnapshotConsistent
  <2>1. ASSUME NEW k \in Key, phase = "paging"
        PROVE  mirror[k] = IF k <= after THEN StateAt(watermark, k) ELSE Gone
    BY <1>1, <2>1, LogStates DEF Paged
  <2>2. ASSUME NEW k \in Key, phase = "following", reach = watermark
        PROVE  mirror[k] = StateAt(watermark, k)
    <3>1. taken = watermark /\ taken = reach
      BY <1>1, <1>2, <2>2 DEF Followed
    <3> QED BY <1>1, <2>2, <3>1, LogStates DEF Followed
  <2> QED BY <2>1, <2>2 DEF SnapshotConsistent
<1>4. MirrorFaithful
  BY <1>1, LogStates DEF MirrorFaithful, Followed
<1> QED BY <1>3, <1>4

(***************************************************************************)
(* From the endpoint's report to the consumer's copy, and how far a copy   *)
(* is from it.                                                             *)
(***************************************************************************)

UpToDate == phase = "following" /\ taken = Len(log)

\* Every asset the newest report exports is in the copy as it reports it, and nothing else is.
CopyShowsReport ==
  UpToDate =>
    \A d \in Device \ lagging : ScansOf(scans, d) # {} /\ ~Unreported(d) =>
      \A k \in Keys(d) : Says(d, ToSet(scans[Newest(d)].assets), k, mirror[k])

\* What is left to read: pages of the snapshot, then entries of the log, each of which is
\* read and its cursor persisted.
Distance ==
  IF phase = "new" THEN 2 * Len(log) + 2 + Cardinality(Key)
  ELSE IF phase = "paging" THEN 2 * Len(log) + 1 + Cardinality({k \in Key : k > after})
  ELSE 2 * (Len(log) - taken) + (IF cursor = taken THEN 0 ELSE 1)

Served == phase # "new" => restarts > 0

LEMMA ServedStep ==
  ASSUME ConsumerInv, Served, [ConsumerNext]_allvars
  PROVE  Served'
<1>1. restarts \in Nat
  BY TypeFacts DEF ConsumerInv, StoreInv
<1>2. CASE Next /\ UNCHANGED consumer
  BY <1>1, <1>2 DEF Next, IngestOutdated, IngestCurrent, IngestUnlogged, Initialize, consumer, Served
<1>3. CASE Consume \/ Crash \/ UNCHANGED allvars
  BY <1>3 DEF Consume, BeginSnapshot, SnapshotPage, ReadChanges, PersistCursor, Crash, allvars,
              vars, consumer, Served
<1> QED BY <1>2, <1>3 DEF ConsumerNext

LEMMA CopyMeans ==
  ASSUME ConsumerInv, Served
  PROVE  CopyShowsReport
<1> SUFFICES ASSUME UpToDate, NEW d \in Device \ lagging, ScansOf(scans, d) # {}, ~Unreported(d),
                    NEW k \in Keys(d)
             PROVE  Says(d, ToSet(scans[Newest(d)].assets), k, mirror[k])
  BY DEF CopyShowsReport
<1>1. mirror[k] = StateIn(log, Len(log), k)
  <2>1. /\ taken = reach /\ k \in Key
    <3>1. Followed(log, watermark, mirror, taken, cursor, reach)
      BY DEF ConsumerInv, UpToDate
    <3> QED BY <3>1, ReaderFacts, KeyFacts DEF Followed, UpToDate
  <2> QED BY <2>1 DEF ConsumerInv, UpToDate, Followed
<1>2. Says(d, Evident(d), k, StateIn(log, Len(log), k))
  BY StoreMeans, FeedIs DEF ConsumerInv, Served, UpToDate
<1>3. Evident(d) = ToSet(scans[Newest(d)].assets)
  BY StoreMeans DEF ConsumerInv, NewestWins
<1> QED BY <1>1, <1>2, <1>3

LEMMA DistanceIs ==
  ASSUME ConsumerInv
  PROVE  /\ Distance \in Nat
         /\ Distance = 0 <=> UpToDate /\ cursor = taken
<1>1. /\ Len(log) \in Nat /\ taken \in Nat /\ taken <= Len(log)
      /\ phase \in {"new", "paging", "following"}
  BY ReaderFacts DEF ConsumerInv, ConsumerTypeOK
<1>2. Cardinality(Key) \in Nat
  BY KeyFacts, FS_CardinalityType
<1>3. Cardinality({k \in Key : k > after}) \in Nat
  <2> DEFINE later == {k \in Key : k > after}
  <2>1. later \in SUBSET Key
    OBVIOUS
  <2> HIDE DEF later
  <2>2. Cardinality(later) \in Nat
    BY <2>1, KeyFacts, FS_Subset, FS_CardinalityType
  <2> QED BY <2>2 DEF later
<1> QED BY <1>1, <1>2, <1>3 DEF Distance, UpToDate

LEMMA PollApproaches ==
  ASSUME ConsumerInv, Consume
  PROVE  Distance' < Distance
<1>1. /\ Len(log) \in Nat /\ watermark \in 0..Len(log) /\ taken \in 0..Len(log)
      /\ cursor \in 0..Len(log) /\ after \in Nat /\ Limit \in Nat /\ Limit >= 1
  BY ReaderFacts
<1>2. Cardinality(Key) \in Nat /\ IsFiniteSet(Key) /\ Key \subseteq Nat
  BY KeyFacts, FS_CardinalityType
<1> DEFINE later(a) == {k \in Key : k > a}
<1>3. \A a : later(a) \subseteq Key /\ IsFiniteSet(later(a)) /\ Cardinality(later(a)) \in Nat
             /\ Cardinality(later(a)) <= Cardinality(Key)
  <2> SUFFICES ASSUME NEW a PROVE /\ later(a) \subseteq Key /\ IsFiniteSet(later(a))
                                  /\ Cardinality(later(a)) \in Nat
                                  /\ Cardinality(later(a)) <= Cardinality(Key)
    OBVIOUS
  <2>1. later(a) \in SUBSET Key
    OBVIOUS
  <2> HIDE DEF later
  <2> QED BY <1>2, <2>1, FS_Subset, FS_CardinalityType
<1>4. log' = log
  BY DEF Consume, BeginSnapshot, SnapshotPage, ReadChanges, PersistCursor, vars
<1>5. CASE BeginSnapshot
  <2>1. phase = "new" /\ phase' = "paging" /\ after' = 0
    BY <1>5 DEF BeginSnapshot
  <2>2. Distance = 2 * Len(log) + 2 + Cardinality(Key)
    BY <2>1 DEF Distance
  <2>3. Distance' = 2 * Len(log) + 1 + Cardinality(later(0))
    BY <1>4, <2>1 DEF Distance
  <2> HIDE DEF later
  <2> QED BY <1>1, <1>2, <1>3, <2>2, <2>3
<1>6. CASE SnapshotPage
  <2> DEFINE left == Listed(watermark, after)
             page == Page(left)
             last == CHOOSE k \in page : \A j \in page : j <= k
  <2>1. /\ phase = "paging"
        /\ \/ page # left /\ after' = last /\ phase' = phase
           \/ phase' = "following" /\ taken' = watermark /\ cursor' = watermark
    BY <1>6 DEF SnapshotPage
  <2>2. Distance = 2 * Len(log) + 1 + Cardinality(later(after))
    BY <2>1 DEF Distance
  <2>3. CASE phase' = "following" /\ taken' = watermark /\ cursor' = watermark
    <3>1. Distance' = 2 * (Len(log) - watermark) + 0
      BY <1>4, <2>3 DEF Distance
    <3> HIDE DEF later
    <3> QED BY <1>1, <1>3, <2>2, <3>1
  <2>4. CASE page # left /\ after' = last /\ phase' = phase
    <3>1. left \in SUBSET later(after)
      BY DEF Listed
    <3>2. left \in SUBSET Key
      BY <3>1
    <3>3. page \subseteq left /\ page # {}
      BY <2>4, <3>2, PageIs
    <3>4. \A j \in page : j \in Nat
      BY <1>2, <3>2, <3>3
    <3>5. IsFiniteSet(page)
      BY <1>2, <3>2, <3>3, FS_Subset
    <3>6. last \in page /\ \A j \in page : j <= last
      <4> HIDE DEF page
      <4>1. \E n \in Nat : \A i \in page : i <= n
        BY <3>4, <3>5, FiniteBound
      <4>2. \E k \in page : \A j \in page : j <= k
        BY <3>3, <3>4, <4>1, GreatestNumber
      <4> QED BY <4>2
    <3> HIDE DEF page, left, last
    <3>7. last \in later(after) /\ last \in Nat
      BY <3>1, <3>3, <3>4, <3>6
    <3>8. later(last) \in SUBSET later(after) /\ last \notin later(last)
      <4>1. ASSUME NEW k \in Key, k > last PROVE k > after
        BY <1>1, <1>2, <3>7, <4>1
      <4>2. ~(last > last)
        BY <3>7
      <4> QED BY <4>1, <4>2
    <3>9. Distance' = 2 * Len(log) + 1 + Cardinality(later(last))
      BY <1>4, <2>1, <2>4 DEF Distance
    <3> HIDE DEF later
    <3>10. Cardinality(later(last)) < Cardinality(later(after))
      <4>1. later(last) # later(after)
        BY <3>7, <3>8
      <4> QED BY <1>3, <3>8, <4>1, FS_Subset
    <3> QED BY <1>1, <1>3, <2>2, <3>9, <3>10
  <2> QED BY <2>1, <2>3, <2>4
<1>7. CASE ReadChanges
  <2>1. /\ phase = "following" /\ phase' = phase /\ cursor = taken /\ cursor' = cursor
        /\ taken < Len(log) /\ taken' = NextCursor(taken)
    BY <1>7 DEF ReadChanges
  <2>2. NextCursor(taken) \in taken + 1..Len(log)
    BY <1>1, <2>1 DEF NextCursor
  <2>3. Distance = 2 * (Len(log) - taken) + 0
    BY <2>1 DEF Distance
  <2>4. Distance' \in {2 * (Len(log) - taken') + 0, 2 * (Len(log) - taken') + 1}
    BY <1>4, <2>1 DEF Distance
  <2> QED BY <1>1, <2>1, <2>2, <2>3, <2>4
<1>8. CASE PersistCursor
  <2>1. /\ phase = "following" /\ phase' = phase /\ cursor # taken /\ taken' = taken /\ cursor' = taken
    BY <1>8 DEF PersistCursor
  <2> QED BY <1>1, <1>4, <2>1 DEF Distance
<1> QED BY <1>5, <1>6, <1>7, <1>8 DEF Consume

(***************************************************************************)
(* Theorems.                                                               *)
(***************************************************************************)

\* Every step keeps the invariant of the store.
THEOREM StoreInvariant == Spec => []StoreInv
<1>1. Init => StoreInv
  BY StoreStart
<1>2. StoreInv /\ [Next]_vars => StoreInv'
  BY StoreStep, StoreStutter
<1> QED BY <1>1, <1>2, PTL DEF Spec

\* The tables and the log hold what their columns may hold.
THEOREM StoreTypes == Spec => []TypeOK
<1>1. StoreInv => TypeOK
  BY DEF StoreInv
<1> QED BY <1>1, StoreInvariant, PTL

\* Whatever the order in which reports arrive, projections fail and servers
\* start, the inventory is what the newest report says (ingest, bootstrap).
THEOREM InventoryIsNewest == Spec => []NewestWins
<1>1. StoreInv => NewestWins
  BY StoreMeans
<1> QED BY <1>1, StoreInvariant, PTL

\* Folding the log gives the inventory of every device that does not wait for a
\* projection to be made up for (record_scan_changes, bootstrap).
THEOREM LogIsCurrent == Spec => []FeedIsCurrent
<1>1. StoreInv => FeedIsCurrent
  BY DEF StoreInv
<1> QED BY <1>1, StoreInvariant, PTL

\* No entry of the log repeats what the log already says of its key
\* (record_scan_changes).
THEOREM LogHasNoRepeats == Spec => []EveryChangeChanges
<1>1. StoreInv => EveryChangeChanges
  BY StoreMeans
<1> QED BY <1>1, StoreInvariant, PTL

\* A server or MCP process that starts again appends entries only for devices whose
\* last report did not reach the log and for keys of two assets that differ and
\* both run or both do not: where the property RestartIsSilent, which a run finds violated,
\* can fail (bootstrap_inventory_sync).
THEOREM RestartsAreExplained ==
  Spec => [][(restarts > 0 /\ restarts' > restarts) =>
               \A n \in DOMAIN log' \ DOMAIN log :
                 \E d \in Device : /\ log'[n].key \in Keys(d)
                                   /\ d \in lagging \/ Ambiguous(d, log'[n].key)]_vars
<1> DEFINE Explained == \A n \in DOMAIN log' \ DOMAIN log :
                          \E d \in Device : /\ log'[n].key \in Keys(d)
                                            /\ d \in lagging \/ Ambiguous(d, log'[n].key)
<1>1. StoreInv /\ [Next]_vars => ((restarts > 0 /\ restarts' > restarts) => Explained) \/ UNCHANGED vars
  <2> SUFFICES ASSUME StoreInv, Next, restarts > 0, restarts' > restarts PROVE Explained
    OBVIOUS
  <2>1. restarts \in Nat
    BY TypeFacts DEF StoreInv
  <2>2. Initialize
    BY <2>1 DEF Next, IngestOutdated, IngestCurrent, IngestUnlogged
  <2> QED BY <2>2, RestartExplained
<1>2. Spec => [][(restarts > 0 /\ restarts' > restarts) => Explained]_vars
  <2> HIDE DEF Explained
  <2> QED BY <1>1, StoreInvariant, PTL DEF Spec
<1> QED BY <1>2

\* Where every key has one asset and no projection fails, a restart appends nothing:
\* what docs/inventory-sync-mcp.md says of unchanged assets holds.
THEOREM RestartsAreSilent ==
  ASSUME OneAssetPerKey, MaxUnlogged = 0
  PROVE  Spec => RestartIsSilent
<1>1. Init => lagging = {}
  BY DEF Init
<1>2. StoreInv /\ lagging = {} /\ [Next]_vars => (lagging = {})'
  BY NothingLags DEF StoreInv
<1>3. StoreInv /\ lagging = {} /\ [Next]_vars
        => (restarts > 0 /\ restarts' > restarts => log' = log) \/ UNCHANGED vars
  <2> SUFFICES ASSUME StoreInv, lagging = {}, Next, restarts > 0, restarts' > restarts
               PROVE  log' = log
    OBVIOUS
  <2>1. restarts \in Nat /\ log \in Seq(Entry)
    BY TypeFacts DEF StoreInv
  <2>2. Initialize
    BY <2>1 DEF Next, IngestOutdated, IngestCurrent, IngestUnlogged
  <2>3. DOMAIN log' \ DOMAIN log = {}
    <3> SUFFICES ASSUME NEW n \in DOMAIN log' \ DOMAIN log PROVE FALSE
      OBVIOUS
    <3>1. \E d \in Device : log'[n].key \in Keys(d) /\ Ambiguous(d, log'[n].key)
      BY <2>2, RestartExplained
    <3> QED BY <3>1, NothingAmbiguous
  <2>4. PICK x \in Seq(Entry) : log' = log \o x
    BY <2>2, InitializeKeeps DEF LogGrows
  <2>5. /\ Len(log) \in Nat /\ Len(x) \in Nat /\ Len(log') = Len(log) + Len(x)
        /\ DOMAIN log = 1..Len(log) /\ DOMAIN log' = 1..Len(log')
    BY <2>1, <2>4, Concatenated, LenProperties
  <2>6. Len(x) = 0
    <3>1. Len(x) > 0 => Len(log) + 1 \in DOMAIN log' \ DOMAIN log
      BY <2>5
    <3> QED BY <2>3, <2>5, <3>1
  <2>7. x = <<>>
    BY <2>4, <2>6, EmptySeq
  <2> QED BY <2>1, <2>4, <2>7, ConcatEmptySeq
<1> QED BY <1>1, <1>2, <1>3, StoreInvariant, PTL DEF Spec, RestartIsSilent

\* Every step of the store beside a consumer keeps the joint invariant.
THEOREM ConsumerInvariant == ConsumerSpec => []ConsumerInv
<1>1. ConsumerInit => ConsumerInv
  BY ConsumerStart
<1>2. ConsumerInv /\ [ConsumerNext]_allvars => ConsumerInv'
  BY ConsumerStep
<1> QED BY <1>1, <1>2, PTL DEF ConsumerSpec

\* Cursors never point past the log, and the consumer's copy has a state for
\* every key (snapshot, changes).
THEOREM ConsumerTypes == ConsumerSpec => []ConsumerTypeOK
<1>1. ConsumerInv => ConsumerTypeOK
  BY DEF ConsumerInv
<1> QED BY <1>1, ConsumerInvariant, PTL

\* The pages of a snapshot all show the state at its watermark, whatever is
\* committed between them (snapshot).
THEOREM PagesBelongTogether == ConsumerSpec => []SnapshotConsistent
<1>1. ConsumerInv => SnapshotConsistent
  BY ConsumerMeans
<1> QED BY <1>1, ConsumerInvariant, PTL

\* A consumer that follows the feed holds states that were true at its cursors,
\* across crashes and pages read twice (changes).
THEOREM CopyWasTrue == ConsumerSpec => []MirrorFaithful
<1>1. ConsumerInv => MirrorFaithful
  BY ConsumerMeans
<1> QED BY <1>1, ConsumerInvariant, PTL

\* From end to end: a consumer that has read the whole log has, of every device
\* that does not wait for a projection or for its first report after an upgrade, the
\* assets of its newest report and no others, in whatever order reports came and
\* whoever crashed (ingest, changes).
THEOREM CopyIsNewestReport == ConsumerSpec => []CopyShowsReport
<1>1. ConsumerInit => Served
  BY DEF ConsumerInit, Served
<1>2. ConsumerSpec => []Served
  BY <1>1, ConsumerInvariant, ServedStep, PTL DEF ConsumerSpec
<1>3. ConsumerInv /\ Served => CopyShowsReport
  BY CopyMeans
<1> QED BY <1>2, <1>3, ConsumerInvariant, PTL

\* Every poll brings a consumer nearer to having read the whole log: while nothing
\* is reported and nobody crashes, it is up to date after at most Distance polls
\* (snapshot, changes).
THEOREM PollsApproach ==
  ConsumerSpec => /\ [](Distance \in Nat /\ (Distance = 0 <=> UpToDate /\ cursor = taken))
                  /\ [][Consume => Distance' < Distance]_allvars
<1> DEFINE Measured == Distance \in Nat /\ (Distance = 0 <=> UpToDate /\ cursor = taken)
           Nearer == Consume => Distance' < Distance
<1>1. ConsumerInv => Measured
  BY DistanceIs
<1>2. ConsumerInv => Nearer
  BY PollApproaches
<1>3. ConsumerSpec => []Measured /\ [][Nearer]_allvars
  <2> HIDE DEF Measured, Nearer
  <2> QED BY <1>1, <1>2, ConsumerInvariant, PTL
<1> QED BY <1>3

=============================================================================
