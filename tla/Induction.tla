------------------------------- MODULE Induction -------------------------------
(***************************************************************************)
(* Induction and recursion over the naturals, stated with sets and         *)
(* functions: a property is the set of the values that have it, a          *)
(* recursive definition the function that computes a value from the one    *)
(* before.                                                                 *)
(***************************************************************************)
EXTENDS Naturals, TLAPS, WellFoundedInduction

\* A set of naturals that is not empty has a least element.
LEMMA LeastNatural ==
  ASSUME NEW S \in SUBSET Nat, S # {}
  PROVE  \E k \in S : \A l \in S : k <= l
<1>1. PICK k \in S : \A l \in S : ~(<<l, k>> \in OpToRel(<, Nat))
  BY NatLessThanWellFounded, WFMin
<1>2. \A l \in S : ~(l < k)
  BY <1>1 DEF OpToRel
<1>3. \A l \in S : k <= l
  BY <1>2
<1>4. QED
  BY <1>3

\* Induction: what 0 has, and k + 1 with k, every natural has.
LEMMA SetInduction ==
  ASSUME NEW P, 0 \in P, \A k \in Nat : k \in P => k + 1 \in P
  PROVE  \A k \in Nat : k \in P
<1> SUFFICES ASSUME NEW n \in Nat, n \notin P PROVE FALSE
  OBVIOUS
<1> DEFINE Bad == {k \in Nat : k \notin P}
<1>1. Bad \in SUBSET Nat /\ Bad # {}
  OBVIOUS
<1>2. PICK m \in Bad : \A l \in Bad : m <= l
  <2> HIDE DEF Bad
  <2>1. QED
    BY <1>1, LeastNatural
<1>3. m \in Nat /\ m \notin P /\ m # 0
  OBVIOUS
<1>4. m - 1 \in Nat /\ m = (m - 1) + 1 /\ ~(m <= m - 1)
  BY <1>3
<1>5. m - 1 \in P
  BY <1>2, <1>4
<1>6. QED
  BY <1>3, <1>4, <1>5

\* Induction over a rank: what x has if all of lower rank have it, all have.
LEMMA RankInduction ==
  ASSUME NEW S, NEW rank \in [S -> Nat], NEW P,
         \A x \in S : (\A y \in S : rank[y] < rank[x] => y \in P) => x \in P
  PROVE  \A x \in S : x \in P
<1> SUFFICES ASSUME NEW z \in S, z \notin P PROVE FALSE
  OBVIOUS
<1> DEFINE Bad == {rank[x] : x \in {w \in S : w \notin P}}
<1>1. Bad \in SUBSET Nat /\ Bad # {}
  OBVIOUS
<1>2. PICK m \in Bad : \A l \in Bad : m <= l
  <2> HIDE DEF Bad
  <2>1. QED
    BY <1>1, LeastNatural
<1>3. PICK x \in S : x \notin P /\ m = rank[x]
  OBVIOUS
<1>4. ASSUME NEW y \in S, rank[y] < rank[x] PROVE y \in P
  <2>1. ~(rank[x] <= rank[y])
    BY <1>4
  <2>2. QED
    BY <1>2, <1>3, <2>1
<1>5. QED
  BY <1>3, <1>4

\* Recursion: there is a function that starts with b and goes on by steps.
Iterates(f, b, step) == f[0] = b /\ \A k \in Nat : f[k + 1] = step[f[k]]

LEMMA Recursion ==
  ASSUME NEW S, NEW b \in S, NEW step \in [S -> S]
  PROVE  \E f \in [Nat -> S] : Iterates(f, b, step)
<1> DEFINE Upto(n) == {f \in [0..n -> S] : /\ f[0] = b
                                          /\ \A k \in 0..n : k # n => f[k + 1] = step[f[k]]}
           Defined == {n \in Nat : Upto(n) # {}}
<1>1. 0 \in Defined
  <2>1. [k \in 0..0 |-> b] \in Upto(0)
    OBVIOUS
  <2>2. QED
    BY <2>1
<1>2. ASSUME NEW n \in Nat, n \in Defined PROVE n + 1 \in Defined
  <2>1. PICK f \in [0..n -> S] : /\ f[0] = b
                                 /\ \A k \in 0..n : k # n => f[k + 1] = step[f[k]]
    BY <1>2
  <2> DEFINE g == [k \in 0..(n + 1) |-> IF k = n + 1 THEN step[f[n]] ELSE f[k]]
  <2>2. \A k \in 0..(n + 1) : k # n + 1 => k \in 0..n
    OBVIOUS
  <2>3. n \in 0..n /\ 0 \in 0..(n + 1) /\ 0 # n + 1
    OBVIOUS
  <2>4. g \in [0..(n + 1) -> S]
    BY <2>1, <2>2, <2>3
  <2>5. g[0] = b
    BY <2>1, <2>3
  <2>6. ASSUME NEW k \in 0..(n + 1), k # n + 1 PROVE g[k + 1] = step[g[k]]
    <3>1. k \in 0..n /\ k + 1 \in 0..(n + 1) /\ g[k] = f[k]
      BY <2>2, <2>6
    <3>2. CASE k = n
      BY <3>1, <3>2
    <3>3. CASE k # n
      <4>1. k + 1 # n + 1 /\ g[k + 1] = f[k + 1]
        BY <3>1, <3>3
      <4>2. QED
        BY <2>1, <3>1, <3>3, <4>1
    <3>4. QED
      BY <3>2, <3>3
  <2>7. g \in Upto(n + 1)
    <3> HIDE DEF g
    <3>1. QED
      BY <2>4, <2>5, <2>6
  <2>8. QED
    BY <2>7
<1>3. \A n \in Nat : n \in Defined
  <2> HIDE DEF Defined
  <2>1. QED
    BY <1>1, <1>2, SetInduction
<1>4. ASSUME NEW m \in Nat, NEW n \in Nat, m <= n, NEW f \in Upto(m), NEW g \in Upto(n)
      PROVE  \A k \in 0..m : f[k] = g[k]
  <2> DEFINE Same == {k \in Nat : k <= m => f[k] = g[k]}
  <2>1. 0 \in Same
    OBVIOUS
  <2>2. ASSUME NEW k \in Nat, k \in Same PROVE k + 1 \in Same
    <3>1. SUFFICES ASSUME k + 1 <= m PROVE f[k + 1] = g[k + 1]
      OBVIOUS
    <3>2. k \in 0..m /\ k # m /\ k \in 0..n /\ k # n
      BY <1>4, <3>1
    <3>3. QED
      BY <2>2, <3>2
  <2>3. \A k \in Nat : k \in Same
    <3> HIDE DEF Same
    <3>1. QED
      BY <2>1, <2>2, SetInduction
  <2>4. QED
    BY <2>3
<1> DEFINE at(n) == CHOOSE f \in Upto(n) : TRUE
           f == [n \in Nat |-> at(n)[n]]
<1>5. \A n \in Nat : at(n) \in Upto(n)
  <2> HIDE DEF Upto
  <2>1. QED
    BY <1>3
<1>6. f \in [Nat -> S]
  BY <1>5
<1>7. f[0] = b
  BY <1>5
<1>8. ASSUME NEW k \in Nat PROVE f[k + 1] = step[f[k]]
  <2>1. k + 1 \in Nat /\ k <= k + 1 /\ k \in 0..k /\ k \in 0..(k + 1) /\ k # k + 1
    OBVIOUS
  <2>2. at(k)[k] = at(k + 1)[k]
    <3> HIDE DEF Upto, at
    <3>1. QED
      BY <1>4, <1>5, <2>1
  <2>3. at(k + 1)[k + 1] = step[at(k + 1)[k]]
    <3>1. at(k + 1) \in Upto(k + 1)
      BY <1>5, <2>1
    <3> HIDE DEF at
    <3>2. QED
      BY <2>1, <3>1
  <2>4. QED
    <3> HIDE DEF at
    <3>1. QED
      BY <2>1, <2>2, <2>3
<1>9. QED
  <2> HIDE DEF f
  <2>1. QED
    BY <1>6, <1>7, <1>8 DEF Iterates

\* Recursion to a next element of lower rank, until one that has its own value.
Descends(f, V, stop, value, next) ==
  f = [v \in V |-> IF v \in stop THEN value[v] ELSE f[next[v]]]

LEMMA RankRecursion ==
  ASSUME NEW V, NEW rank \in [V -> Nat], NEW bound \in Nat, \A v \in V : rank[v] < bound,
         NEW stop \in SUBSET V, NEW value, NEW next,
         \A v \in V \ stop : next[v] \in V /\ rank[next[v]] < rank[v]
  PROVE  \E f : Descends(f, V, stop, value, next)
<1> DEFINE Below(n) == {v \in V : rank[v] < n}
           Upto(n, f) == f = [v \in Below(n) |-> IF v \in stop THEN value[v] ELSE f[next[v]]]
           Defined == {n \in Nat : \E f : Upto(n, f)}
<1>1. 0 \in Defined
  <2>1. Below(0) = {}
    OBVIOUS
  <2> DEFINE f == [v \in {} |-> value[v]]
  <2>2. Upto(0, f)
    BY <2>1
  <2>3. QED
    BY <2>2
<1>2. ASSUME NEW n \in Nat, n \in Defined PROVE n + 1 \in Defined
  <2>1. PICK f : Upto(n, f)
    BY <1>2
  <2> DEFINE g == [v \in Below(n + 1) |-> IF v \in stop THEN value[v] ELSE f[next[v]]]
  <2>2. ASSUME NEW v \in Below(n + 1), v \notin stop PROVE f[next[v]] = g[next[v]]
    <3>1. next[v] \in V /\ rank[next[v]] < rank[v] /\ rank[v] < n + 1
      BY <2>2
    <3>2. rank[next[v]] < n /\ rank[next[v]] < n + 1
      BY <3>1
    <3>3. next[v] \in Below(n) /\ next[v] \in Below(n + 1)
      BY <3>1, <3>2
    <3>4. f[next[v]] = IF next[v] \in stop THEN value[next[v]] ELSE f[next[next[v]]]
      <4> HIDE DEF Below, g
      <4>1. QED
        BY <2>1, <3>3
    <3>5. QED
      <4> HIDE DEF Below
      <4>1. QED
        BY <3>3, <3>4
  <2>3. Upto(n + 1, g)
    <3> HIDE DEF Below
    <3>1. QED
      BY <2>2
  <2>4. QED
    <3>1. \E h : Upto(n + 1, h)
      <4> HIDE DEF g, Upto
      <4>1. QED
        BY <2>3
    <3>2. QED
      BY <3>1
<1>3. bound \in Defined
  <2> HIDE DEF Defined
  <2>1. QED
    BY <1>1, <1>2, SetInduction
<1>4. Below(bound) = V
  OBVIOUS
<1>5. PICK f : Upto(bound, f)
  BY <1>3
<1>6. Descends(f, V, stop, value, next)
  BY <1>4, <1>5 DEF Descends
<1>7. QED
  BY <1>6
=============================================================================
