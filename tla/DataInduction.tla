---------------------------- MODULE DataInduction ----------------------------
(***************************************************************************)
(* Induction over numbers and finite sets, for the proofs about recursive  *)
(* functions and sums.  A statement is proved by showing that the set of   *)
(* the numbers, or of the subsets, that satisfy it is closed under the     *)
(* step; every one of the lemmas rests on the least number of a set.       *)
(***************************************************************************)
EXTENDS Integers, FiniteSets, Functions, WellFoundedInduction, FiniteSetTheorems, TLAPS

(* Every set of natural numbers with a member has a least one. *)
LEMMA LeastNumber ==
  ASSUME NEW T, T \subseteq Nat, T # {}
  PROVE  \E m \in T : \A k \in T : m <= k
<1> DEFINE Less == {ss \in Nat \X Nat : ss[1] < ss[2]}
<1>1. Less = OpToRel(<, Nat)
  BY DEF OpToRel
<1>2. IsWellFoundedOn(Less, Nat)
  BY <1>1, NatLessThanWellFounded, Zenon
<1>3. PICK m \in T : \A y \in T : <<y, m>> \notin Less
  BY <1>2, WFMin
<1>4. ASSUME NEW k \in T PROVE m <= k
  <2>1. <<k, m>> \notin Less
    BY <1>3
  <2>2. ~(k < m)
    BY <2>1
  <2> QED BY <2>2
<1> QED BY <1>3, <1>4

(* Induction up to N: T is the set of the numbers that have the property. *)
LEMMA SetInduction ==
  ASSUME NEW N \in Nat, NEW T, 0 \in T, \A n \in 0..N : n \in T /\ n < N => n + 1 \in T
  PROVE  0..N \subseteq T
<1> SUFFICES ASSUME ~(0..N \subseteq T) PROVE FALSE
  OBVIOUS
<1> DEFINE Rest == {n \in 0..N : n \notin T}
<1>1. Rest # {} /\ Rest \subseteq Nat
  OBVIOUS
<1> HIDE DEF Rest
<1>2. PICK m \in Rest : \A k \in Rest : m <= k
  BY <1>1, LeastNumber
<1>3. m \in 0..N /\ m \notin T
  BY DEF Rest
<1>4. m # 0 /\ m - 1 \in 0..N /\ m - 1 < N /\ m - 1 + 1 = m
  BY <1>3
<1>5. m - 1 \in T
  BY <1>2, <1>3, <1>4 DEF Rest
<1>6. m - 1 + 1 \in T
  BY <1>4, <1>5
<1> QED BY <1>3, <1>4, <1>6

(* Recursion up to N: from b, with the step g. *)
Recurs(f, N, b, g) == f[0] = b /\ \A n \in 1..N : f[n] = g[<<f[n - 1], n>>]

LEMMA Recursion ==
  ASSUME NEW N \in Nat, NEW X, NEW b \in X, NEW g \in [X \X (1..N) -> X]
  PROVE  \E f \in [0..N -> X] : Recurs(f, N, b, g)
<1> DEFINE Follows(f, n) == f[0] = b /\ \A i \in 1..n : f[i] = g[<<f[i - 1], i>>]
           T == {n \in 0..N : \E f \in [0..n -> X] : Follows(f, n)}
<1>1. 0 \in T
  <2> DEFINE h == [i \in 0..0 |-> b]
  <2>1. h \in [0..0 -> X] /\ Follows(h, 0)
    OBVIOUS
  <2>2. 0 \in 0..N
    OBVIOUS
  <2> HIDE DEF h, Follows
  <2> QED BY <2>1, <2>2
<1>2. ASSUME NEW n \in 0..N, n \in T, n < N PROVE n + 1 \in T
  <2>1. PICK f \in [0..n -> X] : Follows(f, n)
    BY <1>2
  <2> DEFINE h == [i \in 0..(n + 1) |-> IF i = n + 1 THEN g[<<f[n], n + 1>>] ELSE f[i]]
  <2>2. g[<<f[n], n + 1>>] \in X
    <3>1. f[n] \in X /\ n + 1 \in 1..N
      BY <1>2
    <3> QED BY <3>1
  <2>3. h \in [0..(n + 1) -> X]
    BY <2>2
  <2>4. h[0] = b
    BY <2>1
  <2>5. ASSUME NEW i \in 1..(n + 1) PROVE h[i] = g[<<h[i - 1], i>>]
    <3>1. CASE i = n + 1
      <4>1. i - 1 = n /\ n \in 0..(n + 1) /\ n # n + 1 /\ n + 1 \in 0..(n + 1)
        BY <3>1
      <4> QED BY <3>1, <4>1
    <3>2. CASE i # n + 1
      <4>1. i \in 1..n /\ i - 1 \in 0..n /\ i - 1 # n + 1
        BY <3>2
      <4> QED BY <2>1, <4>1
    <3> QED BY <3>1, <3>2
  <2>6. Follows(h, n + 1)
    BY <2>4, <2>5
  <2>7. n + 1 \in 0..N
    BY <1>2
  <2> QED BY <2>3, <2>6, <2>7
<1>3. 0..N \subseteq T
  <2> HIDE DEF T
  <2> QED BY <1>1, <1>2, SetInduction
<1>4. N \in T
  <2> HIDE DEF T
  <2>1. N \in 0..N
    OBVIOUS
  <2> QED BY <1>3, <2>1
<1>5. PICK f \in [0..N -> X] : Follows(f, N)
  BY <1>4
<1> QED BY <1>5 DEF Recurs

-----------------------------------------------------------------------------
(* Induction over the subsets of a finite set: P is the set of the subsets *)
(* that have the property.                                                 *)
LEMMA SubsetInduction ==
  ASSUME NEW S, IsFiniteSet(S), NEW P,
         \A s \in SUBSET S : (\A x \in s : s \ {x} \in P) => s \in P
  PROVE  SUBSET S \subseteq P
<1> SUFFICES ASSUME NEW bad \in SUBSET S, bad \notin P PROVE FALSE
  OBVIOUS
<1> DEFINE Sizes == {Cardinality(s) : s \in {t \in SUBSET S : t \notin P}}
<1>1. \A s \in SUBSET S : IsFiniteSet(s) /\ Cardinality(s) \in Nat
  BY FS_Subset, FS_CardinalityType
<1>2. Sizes \subseteq Nat /\ Sizes # {}
  BY <1>1
<1> HIDE DEF Sizes
<1>3. PICK m \in Sizes : \A k \in Sizes : m <= k
  BY <1>2, LeastNumber
<1>4. PICK s \in SUBSET S : s \notin P /\ m = Cardinality(s)
  BY <1>3 DEF Sizes
<1>5. ASSUME NEW x \in s PROVE s \ {x} \in P
  <2>1. Cardinality(s \ {x}) = m - 1 /\ m \in Nat /\ s \ {x} \in SUBSET S
    BY <1>1, <1>4, FS_RemoveElement
  <2>2. Cardinality(s \ {x}) \notin Sizes
    BY <1>3, <2>1
  <2> QED BY <2>1, <2>2 DEF Sizes
<1> QED BY <1>4, <1>5

-----------------------------------------------------------------------------
(* Sums over finite sets. *)

Chosen(s) == CHOOSE x \in s : TRUE

(* f adds up w over the subsets of S as the fold of the library does. *)
Adds(w, S, f) ==
    f = [s \in SUBSET S |-> IF s = {} THEN 0 ELSE w[Chosen(s)] + f[s \ {Chosen(s)}]]

LEMMA SumByDefinition ==
  ASSUME NEW w, NEW S
  PROVE  SumFunctionOnSet(w, S) = (CHOOSE f : Adds(w, S, f))[S]
BY DEF SumFunctionOnSet, FoldFunctionOnSet, MapThenFoldSet, Adds, Chosen

Obeys(w, s) ==
    SumFunctionOnSet(w, s) = IF s = {} THEN 0
                             ELSE w[Chosen(s)] + SumFunctionOnSet(w, s \ {Chosen(s)})

(* The sum follows its recursion. *)
LEMMA SumRule ==
  ASSUME NEW w, NEW S, IsFiniteSet(S)
  PROVE  Obeys(w, S)
<1> DEFINE P == {s \in SUBSET S : \A u \in SUBSET s : Obeys(w, u)}
<1>1. ASSUME NEW s \in SUBSET S, \A x \in s : s \ {x} \in P
      PROVE  s \in P
  <2>1. ASSUME NEW u \in SUBSET s, u # s PROVE Obeys(w, u)
    <3>1. PICK x \in s : u \in SUBSET (s \ {x})
      BY <2>1
    <3> QED BY <1>1, <3>1
  <2> DEFINE f == [t \in SUBSET s |-> IF t = {} THEN 0
                     ELSE w[Chosen(t)] + SumFunctionOnSet(w, t \ {Chosen(t)})]
  <2>2. ASSUME NEW t \in SUBSET s, t # {}
        PROVE  /\ Chosen(t) \in t /\ t \ {Chosen(t)} \in SUBSET s /\ t \ {Chosen(t)} # s
    BY <2>2 DEF Chosen
  <2>3. \A t \in SUBSET s : f[t] = IF t = {} THEN 0
                     ELSE w[Chosen(t)] + SumFunctionOnSet(w, t \ {Chosen(t)})
    OBVIOUS
  <2>4. f = [t \in SUBSET s |-> f[t]]
    OBVIOUS
  <2> HIDE DEF f
  <2>5. \A t \in SUBSET s : t # s => f[t] = SumFunctionOnSet(w, t)
    BY <2>1, <2>3 DEF Obeys
  <2>6. \A t \in SUBSET s : f[t] = IF t = {} THEN 0 ELSE w[Chosen(t)] + f[t \ {Chosen(t)}]
    BY <2>2, <2>3, <2>5
  <2>7. Adds(w, s, f)
    BY <2>4, <2>6 DEF Adds
  <2> DEFINE g == CHOOSE h : Adds(w, s, h)
  <2>8. Adds(w, s, g)
    BY <2>7
  <2> HIDE DEF g
  <2>9. \A t \in SUBSET s : g[t] = IF t = {} THEN 0 ELSE w[Chosen(t)] + g[t \ {Chosen(t)}]
    BY <2>8 DEF Adds
  <2> DEFINE Same == {t \in SUBSET s : f[t] = g[t]}
  <2>10. SUBSET s \subseteq Same
    <3>1. ASSUME NEW t \in SUBSET s, \A x \in t : t \ {x} \in Same PROVE t \in Same
      BY <2>2, <2>6, <2>9, <3>1
    <3>2. IsFiniteSet(s)
      BY FS_Subset
    <3> HIDE DEF Same
    <3> QED BY <3>1, <3>2, SubsetInduction
  <2>11. SumFunctionOnSet(w, s) = g[s]
    BY SumByDefinition DEF g
  <2>12. Obeys(w, s)
    BY <2>3, <2>10, <2>11 DEF Obeys
  <2> QED BY <2>1, <2>12
<1>2. SUBSET S \subseteq P
  <2> HIDE DEF P
  <2> QED BY <1>1, SubsetInduction
<1> QED BY <1>2

LEMMA SumEmpty == ASSUME NEW w PROVE SumFunctionOnSet(w, {}) = 0
BY SumRule, FS_EmptySet DEF Obeys

(* Sums of numbers are numbers. *)
LEMMA SumType ==
  ASSUME NEW S, IsFiniteSet(S), NEW w, \A x \in S : w[x] \in Nat
  PROVE  SumFunctionOnSet(w, S) \in Nat
<1> DEFINE P == {s \in SUBSET S : SumFunctionOnSet(w, s) \in Nat}
<1>1. ASSUME NEW s \in SUBSET S, \A x \in s : s \ {x} \in P
      PROVE  s \in P
  <2>1. CASE s = {}
    BY <2>1, SumEmpty
  <2>2. CASE s # {}
    <3>1. Chosen(s) \in s
      BY <2>2 DEF Chosen
    <3>2. SumFunctionOnSet(w, s) = w[Chosen(s)] + SumFunctionOnSet(w, s \ {Chosen(s)})
      BY <2>2, SumRule, FS_Subset DEF Obeys
    <3> QED BY <1>1, <3>1, <3>2
  <2> QED BY <2>1, <2>2
<1>2. SUBSET S \subseteq P
  <2> HIDE DEF P
  <2> QED BY <1>1, SubsetInduction
<1> QED BY <1>2

(* Any element can be taken out of a sum first. *)
LEMMA SumAny ==
  ASSUME NEW S, IsFiniteSet(S), NEW w, \A x \in S : w[x] \in Nat
  PROVE  \A x \in S : SumFunctionOnSet(w, S) = w[x] + SumFunctionOnSet(w, S \ {x})
<1> DEFINE Sum(s) == SumFunctionOnSet(w, s)
           P == {s \in SUBSET S : \A x \in s : Sum(s) = w[x] + Sum(s \ {x})}
<1>1. \A s \in SUBSET S : Sum(s) \in Nat
  BY SumType, FS_Subset
<1>2. \A s \in SUBSET S : s # {} => Sum(s) = w[Chosen(s)] + Sum(s \ {Chosen(s)})
  BY SumRule, FS_Subset DEF Obeys
<1> HIDE DEF Sum
<1>3. ASSUME NEW s \in SUBSET S, \A x \in s : s \ {x} \in P, s # {}
      PROVE  s \in P
  <2> DEFINE c == Chosen(s)
  <2>1. c \in s
    BY <1>3 DEF Chosen
  <2>2. Sum(s) = w[c] + Sum(s \ {c})
    BY <1>2, <1>3
  <2> HIDE DEF c
  <2>3. ASSUME NEW x \in s, x # c PROVE Sum(s) = w[x] + Sum(s \ {x})
    <3>1. Sum(s \ {c}) = w[x] + Sum((s \ {c}) \ {x})
      BY <1>3, <2>1, <2>3
    <3>2. Sum(s \ {x}) = w[c] + Sum((s \ {x}) \ {c})
      BY <1>3, <2>1, <2>3
    <3>3. (s \ {c}) \ {x} = (s \ {x}) \ {c}
      OBVIOUS
    <3>4. PICK rest \in Nat : rest = Sum((s \ {c}) \ {x})
      BY <1>1
    <3>5. Sum(s) = w[c] + (w[x] + rest) /\ w[x] + Sum(s \ {x}) = w[x] + (w[c] + rest)
      BY <2>2, <3>1, <3>2, <3>3, <3>4
    <3>6. w[x] \in Nat /\ w[c] \in Nat
      BY <2>1
    <3> QED BY <3>5, <3>6
  <2>4. ASSUME NEW x \in s PROVE Sum(s) = w[x] + Sum(s \ {x})
    <3>1. CASE x = c
      BY <2>2, <3>1
    <3> QED BY <2>3, <3>1
  <2> QED BY <2>4
<1>4. SUBSET S \subseteq P
  <2>0. {} \in P
    OBVIOUS
  <2>1. \A s \in SUBSET S : (\A x \in s : s \ {x} \in P) => s \in P
    <3> HIDE DEF P
    <3> QED BY <1>3, <2>0
  <2> HIDE DEF P
  <2> QED BY <2>1, SubsetInduction
<1> QED BY <1>4 DEF Sum

(* A sum over more, or over larger numbers, is not smaller. *)
LEMMA SumAtMost ==
  ASSUME NEW T, IsFiniteSet(T), NEW S \in SUBSET T, NEW v, NEW w,
         \A x \in T : w[x] \in Nat, \A x \in S : v[x] \in Nat /\ v[x] <= w[x]
  PROVE  SumFunctionOnSet(v, S) <= SumFunctionOnSet(w, T)
<1> DEFINE V(s) == SumFunctionOnSet(v, s)
           W(s) == SumFunctionOnSet(w, s)
           P == {t \in SUBSET T : V(S \cap t) <= W(t)}
<1>1. \A t \in SUBSET T : V(S \cap t) \in Nat /\ W(t) \in Nat
  <2>1. \A t \in SUBSET T : IsFiniteSet(t) /\ IsFiniteSet(S \cap t)
    BY FS_Subset
  <2> QED BY <2>1, SumType
<1>2. ASSUME NEW t \in SUBSET T, NEW x \in t
      PROVE  /\ W(t) = w[x] + W(t \ {x})
             /\ x \in S => V(S \cap t) = v[x] + V(S \cap (t \ {x}))
             /\ x \notin S => V(S \cap t) = V(S \cap (t \ {x}))
  <2>1. IsFiniteSet(t) /\ IsFiniteSet(S \cap t)
    BY FS_Subset
  <2>2. W(t) = w[x] + W(t \ {x})
    BY <2>1, SumAny
  <2>3. x \in S => V(S \cap t) = v[x] + V((S \cap t) \ {x})
    BY <2>1, SumAny
  <2>4. (S \cap t) \ {x} = S \cap (t \ {x}) /\ (x \notin S => S \cap t = S \cap (t \ {x}))
    OBVIOUS
  <2> QED BY <2>2, <2>3, <2>4
<1>3. V(S \cap {}) <= W({})
  <2>1. S \cap {} = {}
    OBVIOUS
  <2>2. V({}) = 0 /\ W({}) = 0
    BY SumEmpty
  <2> QED BY <2>1, <2>2
<1> HIDE DEF V, W
<1>4. ASSUME NEW t \in SUBSET T, \A x \in t : t \ {x} \in P PROVE t \in P
  <2>1. CASE t = {}
    BY <1>3, <2>1
  <2>2. ASSUME NEW x \in t PROVE t \in P
    <3>1. t \ {x} \in SUBSET T /\ V(S \cap (t \ {x})) <= W(t \ {x})
      BY <1>4, <2>2
    <3>2. V(S \cap (t \ {x})) \in Nat /\ W(t \ {x}) \in Nat /\ w[x] \in Nat
      BY <1>1, <3>1
    <3>3. CASE x \in S
      <4>1. v[x] \in Nat /\ v[x] <= w[x]
        BY <3>3
      <4>2. V(S \cap t) = v[x] + V(S \cap (t \ {x})) /\ W(t) = w[x] + W(t \ {x})
        BY <1>2, <3>3
      <4>3. V(S \cap t) <= W(t)
        BY <3>1, <3>2, <4>1, <4>2
      <4> QED BY <4>3
    <3>4. CASE x \notin S
      <4>1. V(S \cap t) = V(S \cap (t \ {x})) /\ W(t) = w[x] + W(t \ {x})
        BY <1>2, <3>4
      <4>2. V(S \cap t) <= W(t)
        BY <3>1, <3>2, <4>1
      <4> QED BY <4>2
    <3> QED BY <3>3, <3>4
  <2> QED BY <2>1, <2>2
<1>5. SUBSET T \subseteq P
  <2> HIDE DEF P
  <2> QED BY <1>4, SubsetInduction
<1>6. V(S \cap T) <= W(T) /\ S \cap T = S
  BY <1>5
<1> QED BY <1>6 DEF V, W

=============================================================================
