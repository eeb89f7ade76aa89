-------------------------- MODULE ShortestPathsProofs --------------------------
(***************************************************************************)
(* Proofs about ShortestPaths: the routes that RunDijkstra finds are       *)
(* cheapest routes, for every network and all reputations that sums of 16  *)
(* bits can hold.                                                          *)
(***************************************************************************)
EXTENDS ShortestPaths, Induction, FiniteSetTheorems, FunctionTheorems

\* The links a network may have, and reputations of 8 bits.
Pairs == {l \in SUBSET Nodes : \E u, v \in Nodes : u # v /\ l = {u, v}}
Reputations8 == [Nodes -> 0..255]

\* Every link costs at most k, and no path costs as much as Word.
Holds(rep, k) ==
  /\ k \in 0..1000
  /\ k * Cardinality(Nodes) < Word
  /\ \A u, v \in Nodes : Cost(rep, u, v) <= k

-----------------------------------------------------------------------------
(***************************************************************************)
(* Links and their costs.                                                  *)
(***************************************************************************)
LEMMA QuotientBounds ==
  ASSUME NEW r \in 0..255
  PROVE  1000 \div (r + 1) \in 3..1000
<1> DEFINE q == 1000 \div (r + 1)
<1>1. q \in Nat /\ q * (r + 1) <= 1000 /\ 1000 < (q + 1) * (r + 1)
  OBVIOUS
<1> HIDE DEF q
<1>2. ASSUME q > 1000 PROVE FALSE
  <2>1. q * (r + 1) >= q
    BY <1>1
  <2>2. QED
    BY <1>1, <1>2, <2>1
<1>3. ASSUME q < 3 PROVE FALSE
  <2>1. q = 0 \/ q = 1 \/ q = 2
    BY <1>1, <1>3
  <2>2. QED
    BY <1>1, <2>1
<1>4. QED
  BY <1>1, <1>2, <1>3 DEF q

\* A link costs something, at most 1000, and the same from both ends.
LEMMA CostBounds ==
  ASSUME NEW rep \in Reputations8, NEW u \in Nodes, NEW v \in Nodes
  PROVE  /\ Cost(rep, u, v) \in Nat /\ 0 < Cost(rep, u, v) /\ Cost(rep, u, v) <= 1000
         /\ Cost(rep, u, v) = Cost(rep, v, u)
<1>1. 1000 \div (rep[u] + 1) \in 3..1000 /\ 1000 \div (rep[v] + 1) \in 3..1000
  BY QuotientBounds DEF Reputations8
<1> DEFINE a == 1000 \div (rep[u] + 1)
           b == 1000 \div (rep[v] + 1)
<1>2. Cost(rep, u, v) = (a + b) \div 2 /\ Cost(rep, v, u) = (b + a) \div 2
  BY DEF Cost
<1>3. a \in 3..1000 /\ b \in 3..1000
  BY <1>1
<1> HIDE DEF a, b
<1>4. /\ (a + b) \div 2 \in Nat /\ 0 < (a + b) \div 2 /\ (a + b) \div 2 <= 1000
      /\ a + b = b + a
  BY <1>3
<1>5. QED
  BY <1>2, <1>4

LEMMA LinkedNodes ==
  ASSUME NEW links \in SUBSET Pairs, NEW u \in Nodes, NEW v \in Linked(links, u)
  PROVE  v \in Nodes /\ v # u /\ {u, v} \in links /\ u \in Linked(links, v)
<1>1. v \in Nodes /\ {u, v} \in links
  BY DEF Linked
<1>2. {v, u} = {u, v}
  OBVIOUS
<1>3. v # u
  BY <1>1 DEF Pairs
<1>4. QED
  BY <1>1, <1>2, <1>3 DEF Linked

LEMMA LinksFinite ==
  ASSUME NEW links \in SUBSET Pairs
  PROVE  IsFiniteSet(links) /\ Cardinality(links) \in Nat
<1>1. IsFiniteSet(SUBSET Nodes)
  BY NodesAssumption, FS_SUBSET
<1>2. links \in SUBSET (SUBSET Nodes)
  BY DEF Pairs
<1>3. QED
  BY <1>1, <1>2, FS_Subset, FS_CardinalityType

LEMMA AddressNotNode == NoAddress \notin Nodes
BY NodesAssumption DEF NoAddress

LEMMA UnreachablePositive == Unreachable \in Nat /\ 0 < Unreachable /\ Word = Unreachable + 1
BY WordAssumption DEF Unreachable

-----------------------------------------------------------------------------
(***************************************************************************)
(* The search: what holds after every turn of the loop.                    *)
(***************************************************************************)
Searches ==
  [dist : [Nodes -> 0..Unreachable],
   previous : [Nodes -> Nodes \cup {NoAddress}],
   pq : SUBSET ((0..Unreachable) \X Nodes)]

\* The nodes whose links have been relaxed.
Closed(s) == {u \in Nodes : s.dist[u] # Unreachable /\ <<s.dist[u], u>> \notin s.pq}

\* Entries are not below the distance of their node.
EntriesAbove(s) == \A t \in s.pq : s.dist[t[2]] <= t[1] /\ t[1] < Unreachable

\* Closed nodes are not farther than what is still in the queue.
ClosedBefore(s) == \A u \in Closed(s) : \A t \in s.pq : s.dist[u] <= t[1]

\* The links of closed nodes are relaxed.
Relaxed(links, rep, s) ==
  \A u \in Closed(s) : \A v \in Linked(links, u) : s.dist[v] <= s.dist[u] + Cost(rep, u, v)

\* A node has its distance by way of a closed one, which is its predecessor.
ByPrevious(links, rep, me, s) ==
  \A v \in Nodes :
    IF v = me \/ s.dist[v] = Unreachable THEN s.previous[v] = NoAddress
    ELSE /\ s.previous[v] \in Closed(s)
         /\ s.previous[v] \in Linked(links, v)
         /\ s.dist[v] = s.dist[s.previous[v]] + Cost(rep, s.previous[v], v)

\* Distances are bounded by the number of closed nodes on a path.
Short(k, s) ==
  \A v \in Nodes : s.dist[v] # Unreachable => s.dist[v] <= k * Cardinality(Closed(s) \ {v})

Searching(links, rep, me, k, s) ==
  /\ s \in Searches
  /\ s.dist[me] = 0
  /\ EntriesAbove(s)
  /\ ClosedBefore(s)
  /\ Relaxed(links, rep, s)
  /\ ByPrevious(links, rep, me, s)
  /\ Short(k, s)

LEMMA ClosedFinite ==
  ASSUME NEW s, NEW v
  PROVE  /\ IsFiniteSet(Closed(s)) /\ Cardinality(Closed(s)) \in Nat
         /\ IsFiniteSet(Closed(s) \ {v}) /\ Cardinality(Closed(s) \ {v}) \in Nat
<1>1. Closed(s) \in SUBSET Nodes /\ Closed(s) \ {v} \in SUBSET Nodes
  BY DEF Closed
<1>2. QED
  BY <1>1, NodesAssumption, FS_Subset, FS_CardinalityType

LEMMA SearchStarts ==
  ASSUME NEW links \in SUBSET Pairs, NEW rep \in Reputations8, NEW me \in Nodes,
         NEW k, Holds(rep, k)
  PROVE  Searching(links, rep, me, k, Start(me))
<1> DEFINE s == Start(me)
<1>1. /\ s.dist = [n \in Nodes |-> IF n = me THEN 0 ELSE Unreachable]
      /\ s.previous = [n \in Nodes |-> NoAddress]
      /\ s.pq = {<<0, me>>}
  BY DEF Start
<1>2. s \in Searches
  BY UnreachablePositive DEF Start, Searches
<1> HIDE DEF s
<1>3. s.dist[me] = 0 /\ EntriesAbove(s)
  BY <1>1, UnreachablePositive DEF EntriesAbove
<1>4. Closed(s) = {}
  BY <1>1 DEF Closed
<1>5. ClosedBefore(s) /\ Relaxed(links, rep, s)
  BY <1>4 DEF ClosedBefore, Relaxed
<1>6. ByPrevious(links, rep, me, s)
  BY <1>1 DEF ByPrevious
<1>7. Short(k, s)
  <2>1. ASSUME NEW v \in Nodes, s.dist[v] # Unreachable
        PROVE  s.dist[v] <= k * Cardinality(Closed(s) \ {v})
    <3>1. s.dist[v] = 0
      BY <1>1, <2>1
    <3>2. Closed(s) \ {v} = {}
      BY <1>4
    <3>3. Cardinality(Closed(s) \ {v}) = 0
      BY <3>2, FS_EmptySet
    <3>4. QED
      BY <3>1, <3>3 DEF Holds
  <2>2. QED
    BY <2>1 DEF Short
<1>8. QED
  BY <1>2, <1>3, <1>5, <1>6, <1>7 DEF Searching, s

\* The entry that is popped is in the queue and none is below it.
LEMMA TopLeast ==
  ASSUME NEW pq \in SUBSET ((0..Unreachable) \X Nodes), pq # {}
  PROVE  /\ Top(pq) \in pq
         /\ \A t \in pq : Top(pq)[1] <= t[1]
<1>1. ASSUME NEW t \in pq PROVE t[1] \in Nat /\ t[2] \in Nat
  <2>1. t \in (0..Unreachable) \X Nodes
    OBVIOUS
  <2>2. t[1] \in 0..Unreachable /\ t[2] \in Nodes
    BY <2>1
  <2>3. t[1] \in Nat
    BY <2>2, UnreachablePositive
  <2>4. t[2] \in Nat
    BY <2>2, NodesAssumption
  <2>5. QED
    BY <2>3, <2>4
<1> DEFINE firsts == {t[1] : t \in pq}
<1>2. PICK a \in firsts : \A b \in firsts : a <= b
  <2>1. firsts \in SUBSET Nat /\ firsts # {}
    BY <1>1
  <2>2. QED
    <3> HIDE DEF firsts
    <3>1. QED
      BY <2>1, LeastNatural
<1> DEFINE seconds == {t[2] : t \in {o \in pq : o[1] = a}}
<1>3. PICK c \in seconds : \A b \in seconds : c <= b
  <2>1. seconds \in SUBSET Nat /\ seconds # {}
    BY <1>1
  <2>2. QED
    <3> HIDE DEF seconds
    <3>1. QED
      BY <2>1, LeastNatural
<1>4. PICK m \in pq : m[1] = a /\ m[2] = c
  OBVIOUS
<1>5. ASSUME NEW o \in pq PROVE m[1] < o[1] \/ (m[1] = o[1] /\ m[2] <= o[2])
  <2>1. a <= o[1] /\ a \in Nat /\ o[1] \in Nat
    BY <1>1, <1>2
  <2>2. CASE a = o[1]
    <3>1. o[2] \in seconds
      BY <2>2
    <3>2. QED
      BY <1>3, <1>4, <2>2, <3>1
  <2>3. CASE a # o[1]
    BY <1>4, <2>1, <2>3
  <2>4. QED
    BY <2>2, <2>3
<1>6. \E t \in pq : \A o \in pq : t[1] < o[1] \/ (t[1] = o[1] /\ t[2] <= o[2])
  BY <1>5
<1>7. /\ Top(pq) \in pq
      /\ \A o \in pq : Top(pq)[1] < o[1] \/ (Top(pq)[1] = o[1] /\ Top(pq)[2] <= o[2])
  BY <1>6 DEF Top
<1>8. QED
  BY <1>1, <1>7

\* A turn of the loop drops an entry that is out of date.
LEMMA PopStale ==
  ASSUME NEW links, NEW rep, NEW s, Top(s.pq)[1] > s.dist[Top(s.pq)[2]],
         s \in Searches
  PROVE  /\ Pop(links, rep, s).dist = s.dist
         /\ Pop(links, rep, s).previous = s.previous
         /\ Pop(links, rep, s).pq = s.pq \ {Top(s.pq)}
         /\ Pop(links, rep, s) \in Searches
<1>1. Pop(links, rep, s) = [s EXCEPT !.pq = @ \ {Top(s.pq)}]
  BY DEF Pop
<1>2. QED
  BY <1>1 DEF Searches

\* Or it closes the node u of the entry and relaxes the links of u to nodes that
\* are not closed.
Relaxes(links, rep, s, u, closer, r) ==
  /\ u \in Nodes \ Closed(s)
  /\ s.dist[u] < Unreachable
  /\ <<s.dist[u], u>> \in s.pq
  /\ \A t \in s.pq : s.dist[u] <= t[1]
  /\ closer = {v \in Linked(links, u) : s.dist[u] + Cost(rep, u, v) < s.dist[v]}
  /\ u \notin closer
  /\ closer \cap Closed(s) = {}
  /\ r \in Searches
  /\ \A v \in Nodes : v \in closer => /\ r.dist[v] = s.dist[u] + Cost(rep, u, v)
                                    /\ r.previous[v] = u
  /\ \A v \in Nodes : v \notin closer => /\ r.dist[v] = s.dist[v]
                                       /\ r.previous[v] = s.previous[v]
  /\ r.pq = (s.pq \ {<<s.dist[u], u>>}) \cup {<<r.dist[v], v>> : v \in closer}
  /\ Closed(r) = Closed(s) \cup {u}

LEMMA PopRelaxes ==
  ASSUME NEW links \in SUBSET Pairs, NEW rep \in Reputations8, NEW me \in Nodes,
         NEW k, Holds(rep, k), NEW s, Searching(links, rep, me, k, s), s.pq # {},
         ~(Top(s.pq)[1] > s.dist[Top(s.pq)[2]])
  PROVE  \E u, closer : Relaxes(links, rep, s, u, closer, Pop(links, rep, s))
<1> DEFINE top == Top(s.pq)
           d == top[1]
           u == top[2]
           new == [v \in Nodes |-> Through(rep, d, u, v)]
           closer == {v \in Linked(links, u) : new[v] < s.dist[v]}
           r == Pop(links, rep, s)
<1>1. /\ s \in Searches /\ EntriesAbove(s) /\ ClosedBefore(s)
      /\ s.dist \in [Nodes -> 0..Unreachable]
      /\ s.previous \in [Nodes -> Nodes \cup {NoAddress}]
      /\ s.pq \in SUBSET ((0..Unreachable) \X Nodes)
  BY DEF Searching, Searches
<1>2. top \in s.pq /\ \A t \in s.pq : d <= t[1]
  BY <1>1, TopLeast
<1>3. d \in 0..Unreachable /\ u \in Nodes /\ top = <<d, u>>
  <2>1. top \in (0..Unreachable) \X Nodes
    BY <1>1, <1>2
  <2> HIDE DEF top
  <2>2. QED
    BY <2>1
<1>4. d = s.dist[u] /\ d < Unreachable
  <2>1. s.dist[u] <= d /\ d < Unreachable
    BY <1>1, <1>2 DEF EntriesAbove
  <2>2. s.dist[u] \in Nat /\ d \in Nat /\ ~(d > s.dist[u])
    BY <1>1, <1>3, UnreachablePositive
  <2>3. QED
    BY <2>1, <2>2
<1>5. u \notin Closed(s)
  BY <1>2, <1>3, <1>4 DEF Closed
<1>6. ASSUME NEW v \in Nodes PROVE new[v] = s.dist[u] + Cost(rep, u, v)
  <2> HIDE DEF top, d, u
  <2>1. Cost(rep, u, v) \in 0..k /\ k \in Nat
    <3>1. Cost(rep, u, v) \in Nat /\ 0 < Cost(rep, u, v)
      BY <1>3, CostBounds
    <3>2. Cost(rep, u, v) <= k /\ k \in 0..1000
      BY <1>3 DEF Holds
    <3>3. QED
      BY <3>1, <3>2
  <2>2. s.dist[u] <= k * Cardinality(Closed(s) \ {u})
    BY <1>3, <1>4 DEF Searching, Short
  <2>3. Cardinality(Closed(s) \ {u}) + 1 <= Cardinality(Nodes)
    <3>1. Closed(s) \ {u} \in SUBSET (Nodes \ {u})
      BY DEF Closed
    <3>2. /\ IsFiniteSet(Nodes \ {u})
          /\ Cardinality(Nodes \ {u}) = Cardinality(Nodes) - 1
          /\ Cardinality(Nodes) \in Nat
      BY <1>3, NodesAssumption, FS_RemoveElement, FS_CardinalityType
    <3>3. Cardinality(Closed(s) \ {u}) <= Cardinality(Nodes) - 1
      BY <3>1, <3>2, FS_Subset
    <3>4. Cardinality(Closed(s) \ {u}) \in Nat
      BY ClosedFinite
    <3>5. QED
      BY <3>2, <3>3, <3>4
  <2>4. k * Cardinality(Closed(s) \ {u}) + k <= k * Cardinality(Nodes)
    <3> DEFINE c == Cardinality(Closed(s) \ {u})
               n == Cardinality(Nodes)
    <3>1. c \in Nat /\ n \in Nat /\ c + 1 <= n
      BY <2>3, ClosedFinite, NodesAssumption, FS_CardinalityType
    <3> HIDE DEF c, n
    <3>2. PICK m \in Nat : n = c + 1 + m
      <4>1. n - c - 1 \in Nat /\ n = c + 1 + (n - c - 1)
        BY <3>1
      <4>2. QED
        BY <4>1
    <3>3. k * n = k * c + k + k * m /\ k * m \in Nat /\ k * c \in Nat
      BY <2>1, <3>1, <3>2
    <3>4. k * c + k <= k * n
      BY <2>1, <3>3
    <3>5. QED
      BY <3>4 DEF c, n
  <2>5. s.dist[u] \in Nat /\ k * Cardinality(Closed(s) \ {u}) \in Nat /\ k * Cardinality(Nodes) \in Nat
    <3>1. Cardinality(Closed(s) \ {u}) \in Nat /\ Cardinality(Nodes) \in Nat
      BY ClosedFinite, NodesAssumption, FS_CardinalityType
    <3>2. s.dist[u] \in Nat
      BY <1>1, <1>3, UnreachablePositive
    <3>3. QED
      BY <2>1, <3>1, <3>2
  <2>6. s.dist[u] + Cost(rep, u, v) \in 0..(Word - 1)
    <3>1. k * Cardinality(Nodes) < Word
      BY DEF Holds
    <3>2. QED
      BY <2>1, <2>2, <2>4, <2>5, <3>1, WordAssumption
  <2>7. (s.dist[u] + Cost(rep, u, v)) % Word = s.dist[u] + Cost(rep, u, v)
    BY <2>6, WordAssumption
  <2>8. new[v] = (d + Cost(rep, u, v)) % Word
    BY DEF Through
  <2>9. QED
    BY <1>4, <2>7, <2>8
<1>7. closer \subseteq Nodes /\ u \notin closer
  BY <1>3, LinkedNodes
<1>8. r = [dist |-> [v \in Nodes |-> IF v \in closer THEN new[v] ELSE s.dist[v]],
           previous |-> [v \in Nodes |-> IF v \in closer THEN u ELSE s.previous[v]],
           pq |-> (s.pq \ {top}) \cup {<<new[v], v>> : v \in closer}]
  BY DEF Pop
<1>9. closer = {v \in Linked(links, u) : s.dist[u] + Cost(rep, u, v) < s.dist[v]}
  <2>1. \A v \in Linked(links, u) : new[v] = s.dist[u] + Cost(rep, u, v)
    BY <1>3, <1>6, LinkedNodes
  <2>2. QED
    BY <2>1
<1>10. \A v \in closer : new[v] \in 0..Unreachable /\ d < new[v] /\ new[v] < s.dist[v]
  <2>1. ASSUME NEW v \in closer
        PROVE new[v] \in 0..Unreachable /\ d < new[v] /\ new[v] < s.dist[v]
    <3>1. v \in Nodes /\ s.dist[v] \in 0..Unreachable
      BY <1>1, <1>7
    <3>2. Cost(rep, u, v) \in Nat /\ 0 < Cost(rep, u, v)
      BY <1>3, <3>1, CostBounds
    <3>3. new[v] = d + Cost(rep, u, v) /\ new[v] < s.dist[v]
      BY <1>4, <1>6, <3>1
    <3> HIDE DEF new, d
    <3>4. QED
      BY <1>3, <3>1, <3>2, <3>3, UnreachablePositive
  <2>2. QED
    BY <2>1
<1>11. ASSUME NEW v \in closer PROVE v \notin Closed(s)
  <2>1. ASSUME v \in Closed(s) PROVE s.dist[v] <= d
    BY <1>1, <1>2, <2>1 DEF ClosedBefore
  <2>2. d < new[v] /\ new[v] < s.dist[v] /\ d \in Nat /\ new[v] \in Nat /\ s.dist[v] \in Nat
    BY <1>1, <1>3, <1>7, <1>10, UnreachablePositive
  <2> HIDE DEF new, d, closer
  <2>3. QED
    BY <2>1, <2>2
<1> HIDE DEF closer, r, new, top, d, u
<1>12. r \in Searches
  <2>1. r.dist \in [Nodes -> 0..Unreachable]
    BY <1>1, <1>8, <1>10
  <2>2. r.previous \in [Nodes -> Nodes \cup {NoAddress}]
    BY <1>1, <1>3, <1>8
  <2>3. r.pq \in SUBSET ((0..Unreachable) \X Nodes)
    BY <1>1, <1>7, <1>8, <1>10
  <2>4. QED
    BY <1>8, <2>1, <2>2, <2>3 DEF Searches
<1>13. /\ \A v \in Nodes : v \in closer => r.dist[v] = s.dist[u] + Cost(rep, u, v) /\ r.previous[v] = u
       /\ \A v \in Nodes : v \notin closer => r.dist[v] = s.dist[v] /\ r.previous[v] = s.previous[v]
  BY <1>6, <1>8
<1>14. r.pq = (s.pq \ {<<s.dist[u], u>>}) \cup {<<r.dist[v], v>> : v \in closer}
  <2>1. \A v \in closer : r.dist[v] = new[v]
    BY <1>7, <1>8
  <2>2. {<<r.dist[v], v>> : v \in closer} = {<<new[v], v>> : v \in closer}
    BY <2>1
  <2>3. QED
    BY <1>3, <1>4, <1>8, <2>2
<1>15. Closed(r) = Closed(s) \cup {u}
  <2>1. ASSUME NEW w \in closer PROVE w \notin Closed(r)
    BY <1>7, <1>14, <2>1 DEF Closed
  <2>2. u \in Closed(r)
    <3>1. r.dist[u] = s.dist[u] /\ r.dist[u] # Unreachable
      BY <1>3, <1>4, <1>7, <1>13, UnreachablePositive
    <3>2. <<r.dist[u], u>> \notin {<<r.dist[v], v>> : v \in closer}
      BY <1>7
    <3>3. <<r.dist[u], u>> \notin r.pq
      BY <1>14, <3>1, <3>2
    <3>4. QED
      BY <1>3, <3>1, <3>3 DEF Closed
  <2>3. ASSUME NEW w \in Nodes, w # u, w \notin closer
        PROVE  w \in Closed(r) <=> w \in Closed(s)
    <3>1. r.dist[w] = s.dist[w]
      BY <1>13, <2>3
    <3>2. <<r.dist[w], w>> \notin {<<r.dist[v], v>> : v \in closer}
      BY <2>3
    <3>3. <<r.dist[w], w>> # <<s.dist[u], u>>
      BY <2>3
    <3>4. <<r.dist[w], w>> \in r.pq <=> <<s.dist[w], w>> \in s.pq
      BY <1>14, <3>1, <3>2, <3>3
    <3>5. QED
      BY <3>1, <3>4 DEF Closed
  <2>4. Closed(r) \subseteq Nodes /\ Closed(s) \subseteq Nodes
    BY DEF Closed
  <2>5. QED
    BY <1>3, <1>11, <2>1, <2>2, <2>3, <2>4
<1>16. Relaxes(links, rep, s, u, closer, r)
  <2>1. closer \cap Closed(s) = {}
    BY <1>11
  <2>2. s.dist[u] < Unreachable /\ <<s.dist[u], u>> \in s.pq /\ \A t \in s.pq : s.dist[u] <= t[1]
    BY <1>2, <1>3, <1>4
  <2>3. QED
    BY <1>3, <1>5, <1>7, <1>9, <1>12, <1>13, <1>14, <1>15, <2>1, <2>2 DEF Relaxes
<1>17. QED
  BY <1>16 DEF r

LEMMA RelaxesKeeps ==
  ASSUME NEW links \in SUBSET Pairs, NEW rep \in Reputations8, NEW me \in Nodes,
         NEW k, Holds(rep, k), NEW s, Searching(links, rep, me, k, s),
         NEW u, NEW closer, NEW r, Relaxes(links, rep, s, u, closer, r)
  PROVE  Searching(links, rep, me, k, r)
<1>1. /\ s \in Searches /\ r \in Searches
      /\ s.dist \in [Nodes -> 0..Unreachable] /\ r.dist \in [Nodes -> 0..Unreachable]
      /\ s.pq \in SUBSET ((0..Unreachable) \X Nodes)
      /\ s.previous \in [Nodes -> Nodes \cup {NoAddress}]
  BY DEF Searching, Relaxes, Searches
<1>2. /\ u \in Nodes /\ u \notin Closed(s) /\ u \notin closer
      /\ s.dist[u] \in Nat /\ s.dist[u] < Unreachable
      /\ <<s.dist[u], u>> \in s.pq
      /\ closer \subseteq Linked(links, u) /\ closer \subseteq Nodes
  BY <1>1, UnreachablePositive DEF Relaxes, Linked
<1>3. ASSUME NEW v \in Nodes
      PROVE  s.dist[v] \in Nat /\ r.dist[v] \in Nat /\ Cost(rep, u, v) \in Nat /\ 0 < Cost(rep, u, v)
  BY <1>1, <1>2, <1>3, CostBounds, UnreachablePositive
<1>4. ASSUME NEW v \in closer
      PROVE  /\ v \in Nodes /\ v \in Linked(links, u) /\ v # me /\ v \notin Closed(s)
             /\ r.dist[v] = s.dist[u] + Cost(rep, u, v)
             /\ r.dist[v] < s.dist[v] /\ s.dist[u] < r.dist[v] /\ r.dist[v] < Unreachable
             /\ r.previous[v] = u
  <2>1. /\ v \in Linked(links, u) /\ v \in Nodes /\ v \notin Closed(s) /\ r.previous[v] = u
        /\ r.dist[v] = s.dist[u] + Cost(rep, u, v)
        /\ s.dist[u] + Cost(rep, u, v) < s.dist[v]
    BY <1>2 DEF Relaxes
  <2>2. s.dist[v] \in Nat /\ Cost(rep, u, v) \in Nat /\ 0 < Cost(rep, u, v) /\ s.dist[v] \in 0..Unreachable
    BY <1>1, <1>3, <2>1
  <2>3. /\ r.dist[v] < s.dist[v] /\ s.dist[u] < r.dist[v] /\ r.dist[v] < Unreachable
        /\ s.dist[v] # 0
    <3>1. s.dist[u] \in Nat /\ Unreachable \in Nat /\ s.dist[v] <= Unreachable
      BY <1>2, <2>2, UnreachablePositive
    <3>2. QED
      BY <2>1, <2>2, <3>1
  <2>4. v # me
    BY <2>3 DEF Searching
  <2>5. QED
    BY <2>1, <2>3, <2>4
<1>5. \A v \in Nodes : v \notin closer => r.dist[v] = s.dist[v] /\ r.previous[v] = s.previous[v]
  BY DEF Relaxes
<1>6. \A v \in Nodes : r.dist[v] <= s.dist[v]
  BY <1>3, <1>4, <1>5
<1>7. /\ Closed(r) = Closed(s) \cup {u}
      /\ \A w \in Closed(r) : r.dist[w] = s.dist[w] /\ w \in Nodes /\ r.previous[w] = s.previous[w]
      /\ \A w \in Closed(r) : s.dist[w] <= s.dist[u]
  <2>1. Closed(r) = Closed(s) \cup {u}
    BY DEF Relaxes
  <2>2. \A w \in Closed(r) : w \in Nodes /\ w \notin closer
    BY <1>2, <1>4 DEF Closed, Relaxes
  <2>3. \A w \in Closed(s) : s.dist[w] <= s.dist[u]
    BY <1>2 DEF Searching, ClosedBefore
  <2>4. s.dist[u] <= s.dist[u]
    BY <1>2
  <2>5. QED
    BY <1>5, <2>1, <2>2, <2>3, <2>4
<1>8. \A t \in r.pq : t \in s.pq \/ \E v \in closer : t = <<r.dist[v], v>>
  BY DEF Relaxes
<1>9. r.dist[me] = 0
  BY <1>4, <1>5 DEF Searching
<1>10. EntriesAbove(r)
  <2>1. ASSUME NEW t \in s.pq PROVE r.dist[t[2]] <= t[1] /\ t[1] < Unreachable
    <3>1. t \in (0..Unreachable) \X Nodes
      BY <1>1
    <3>2. t[1] \in Nat /\ t[2] \in Nodes
      BY <3>1, UnreachablePositive
    <3>3. s.dist[t[2]] <= t[1] /\ t[1] < Unreachable
      BY DEF Searching, EntriesAbove
    <3>4. r.dist[t[2]] <= s.dist[t[2]]
      BY <1>6, <3>2
    <3>5. QED
      BY <1>3, <3>2, <3>3, <3>4
  <2>2. ASSUME NEW v \in closer PROVE r.dist[v] <= r.dist[v] /\ r.dist[v] < Unreachable
    BY <1>3, <1>4
  <2>3. QED
    BY <1>8, <2>1, <2>2 DEF EntriesAbove
<1>11. ClosedBefore(r)
  <2>1. ASSUME NEW w \in Closed(r), NEW t \in r.pq PROVE r.dist[w] <= t[1]
    <3>1. r.dist[w] = s.dist[w] /\ s.dist[w] <= s.dist[u] /\ s.dist[w] \in Nat
      BY <1>3, <1>7
    <3>2. CASE t \in s.pq
      <4>1. s.dist[u] <= t[1] /\ t \in (0..Unreachable) \X Nodes
        BY <1>1, <3>2 DEF Relaxes
      <4>2. t[1] \in Nat
        BY <4>1, UnreachablePositive
      <4>3. QED
        BY <1>2, <3>1, <4>1, <4>2
    <3>3. CASE \E v \in closer : t = <<r.dist[v], v>>
      <4>1. PICK v \in closer : t = <<r.dist[v], v>>
        BY <3>3
      <4>2. t[1] = r.dist[v] /\ s.dist[u] < r.dist[v] /\ r.dist[v] \in Nat
        BY <1>3, <1>4, <4>1
      <4>3. QED
        BY <1>2, <3>1, <4>2
    <3>4. QED
      BY <1>8, <3>2, <3>3
  <2>2. QED
    BY <2>1 DEF ClosedBefore
<1>12. Relaxed(links, rep, r)
  <2>1. ASSUME NEW w \in Closed(r), NEW v \in Linked(links, w)
        PROVE  r.dist[v] <= r.dist[w] + Cost(rep, w, v)
    <3>1. w \in Nodes /\ v \in Nodes /\ r.dist[w] = s.dist[w] /\ r.dist[v] <= s.dist[v]
      BY <1>6, <1>7 DEF Linked
    <3>2. Cost(rep, w, v) \in Nat /\ 0 < Cost(rep, w, v)
      BY <3>1, CostBounds
    <3>7. s.dist[v] \in Nat /\ s.dist[w] \in Nat /\ r.dist[v] \in Nat
      BY <1>3, <3>1
    <3>3. CASE w \in Closed(s)
      <4>1. s.dist[v] <= s.dist[w] + Cost(rep, w, v)
        BY <3>3 DEF Searching, Relaxed
      <4>2. QED
        BY <3>1, <3>2, <3>7, <4>1
    <3>4. CASE w = u /\ v \in closer
      <4>1. r.dist[v] = r.dist[w] + Cost(rep, w, v)
        BY <1>4, <3>1, <3>4
      <4>2. QED
        BY <1>3, <3>1, <4>1
    <3>5. CASE w = u /\ v \notin closer
      <4>1. ~(s.dist[u] + Cost(rep, u, v) < s.dist[v])
        BY <3>5 DEF Relaxes
      <4>2. QED
        BY <3>1, <3>2, <3>5, <3>7, <4>1
    <3>6. QED
      BY <1>7, <3>3, <3>4, <3>5
  <2>2. QED
    BY <2>1 DEF Relaxed
<1>13. ByPrevious(links, rep, me, r)
  <2>1. ASSUME NEW v \in Nodes, v \in closer
        PROVE  /\ v # me /\ r.dist[v] # Unreachable
               /\ r.previous[v] \in Closed(r) /\ r.previous[v] \in Linked(links, v)
               /\ r.dist[v] = r.dist[r.previous[v]] + Cost(rep, r.previous[v], v)
    <3>1. r.previous[v] = u /\ u \in Closed(r) /\ r.dist[u] = s.dist[u]
      BY <1>4, <1>7, <2>1
    <3>2. u \in Linked(links, v)
      BY <1>2, <1>4, <2>1, LinkedNodes
    <3>3. r.dist[v] # Unreachable
      BY <1>3, <1>4, <2>1, UnreachablePositive
    <3>4. QED
      BY <1>4, <2>1, <3>1, <3>2, <3>3
  <2>2. ASSUME NEW v \in Nodes, v \notin closer, v # me, r.dist[v] # Unreachable
        PROVE  /\ r.previous[v] \in Closed(r) /\ r.previous[v] \in Linked(links, v)
               /\ r.dist[v] = r.dist[r.previous[v]] + Cost(rep, r.previous[v], v)
    <3>1. r.dist[v] = s.dist[v] /\ r.previous[v] = s.previous[v]
      BY <1>5, <2>2
    <3>2. /\ s.previous[v] \in Closed(s) /\ s.previous[v] \in Linked(links, v)
          /\ s.dist[v] = s.dist[s.previous[v]] + Cost(rep, s.previous[v], v)
      BY <2>2, <3>1 DEF Searching, ByPrevious
    <3>3. r.dist[s.previous[v]] = s.dist[s.previous[v]] /\ s.previous[v] \in Closed(r)
      BY <1>7, <3>2
    <3>4. QED
      BY <3>1, <3>2, <3>3
  <2>3. ASSUME NEW v \in Nodes, v \notin closer, v = me \/ r.dist[v] = Unreachable
        PROVE  r.previous[v] = NoAddress
    <3>1. r.dist[v] = s.dist[v] /\ r.previous[v] = s.previous[v]
      BY <1>5, <2>3
    <3>2. QED
      BY <2>3, <3>1 DEF Searching, ByPrevious
  <2>4. QED
    BY <2>1, <2>2, <2>3 DEF ByPrevious
<1>14. Short(k, r)
  <2>1. ASSUME NEW v \in Nodes, r.dist[v] # Unreachable
        PROVE  r.dist[v] <= k * Cardinality(Closed(r) \ {v})
    <3> DEFINE c == Cardinality(Closed(s) \ {v})
               e == Cardinality(Closed(r) \ {v})
    <3>1. c \in Nat /\ e \in Nat /\ k \in Nat
      <4>1. k \in Nat
        BY DEF Holds
      <4>2. c \in Nat
        BY ClosedFinite
      <4>3. e \in Nat
        BY ClosedFinite
      <4>4. QED
        BY <4>1, <4>2, <4>3
    <3>2. CASE v \notin closer
      <4>1. r.dist[v] = s.dist[v] /\ s.dist[v] <= k * c
        BY <1>5, <2>1, <3>2 DEF Searching, Short
      <4>2. c <= e
        <5>1. Closed(s) \ {v} \in SUBSET (Closed(r) \ {v})
          BY <1>7
        <5>2. QED
          BY <5>1, ClosedFinite, FS_Subset
      <4> HIDE DEF c, e
      <4>3. PICK m \in Nat : e = c + m
        <5>1. e - c \in Nat /\ e = c + (e - c)
          BY <3>1, <4>2
        <5>2. QED
          BY <5>1
      <4>4. k * e = k * c + k * m /\ k * m \in Nat /\ k * c \in Nat
        BY <3>1, <4>3
      <4>5. r.dist[v] <= k * e
        BY <1>3, <4>1, <4>4
      <4>6. QED
        BY <4>5 DEF e
    <3>3. CASE v \in closer
      <4> DEFINE b == Cardinality(Closed(s))
      <4>1. v \notin Closed(s) /\ v # u /\ u \notin Closed(s)
        BY <1>2, <1>4, <3>3
      <4>2. Closed(r) \ {v} = Closed(s) \cup {u}
        BY <1>7, <4>1
      <4>3. e = b + 1 /\ b \in Nat
        BY <4>1, <4>2, ClosedFinite, FS_AddElement
      <4>4. s.dist[u] <= k * b
        <5>1. Closed(s) \ {u} = Closed(s)
          BY <4>1
        <5>2. s.dist[u] # Unreachable
          BY <1>2, UnreachablePositive
        <5>3. s.dist[u] <= k * Cardinality(Closed(s) \ {u})
          BY <1>2, <5>2 DEF Searching, Short
        <5>4. QED
          BY <5>1, <5>3
      <4>5. r.dist[v] = s.dist[u] + Cost(rep, u, v) /\ Cost(rep, u, v) <= k
        BY <1>2, <1>4, <3>3 DEF Holds
      <4>6. Cost(rep, u, v) \in Nat
        BY <1>3
      <4> HIDE DEF e, b
      <4>7. k * e = k * b + k /\ k * b \in Nat
        BY <3>1, <4>3
      <4>8. r.dist[v] <= k * e
        BY <1>2, <1>3, <3>1, <4>4, <4>5, <4>6, <4>7
      <4>9. QED
        BY <4>8 DEF e
    <3>4. QED
      BY <3>2, <3>3
  <2>2. QED
    BY <2>1 DEF Short
<1>15. QED
  BY <1>1, <1>9, <1>10, <1>11, <1>12, <1>13, <1>14 DEF Searching

-----------------------------------------------------------------------------
(***************************************************************************)
(* The queue is empty after Turns turns: an entry is gone with each, and   *)
(* those that come in its place stand for links that are open no longer.   *)
(***************************************************************************)
\* The links with no closed end.
OpenLinks(links, s) == {l \in links : l \cap Closed(s) = {}}

Left(links, s) == Cardinality(s.pq) + Cardinality(OpenLinks(links, s))

LEMMA OpenFinite ==
  ASSUME NEW links \in SUBSET Pairs, NEW s
  PROVE  IsFiniteSet(OpenLinks(links, s)) /\ Cardinality(OpenLinks(links, s)) \in Nat
<1>1. OpenLinks(links, s) \in SUBSET links
  BY DEF OpenLinks
<1>2. QED
  BY <1>1, LinksFinite, FS_Subset, FS_CardinalityType

LEMMA RelaxesLeaves ==
  ASSUME NEW links \in SUBSET Pairs, NEW rep, NEW s, IsFiniteSet(s.pq),
         NEW u, NEW closer, NEW r, Relaxes(links, rep, s, u, closer, r)
  PROVE  /\ IsFiniteSet(r.pq)
         /\ Left(links, r) + 1 <= Left(links, s)
<1> DEFINE e == <<s.dist[u], u>>
           new == {<<r.dist[v], v>> : v \in closer}
           ends == {{u, v} : v \in closer}
<1>1. /\ u \in Nodes /\ u \notin Closed(s) /\ u \notin closer /\ e \in s.pq
      /\ closer \subseteq Linked(links, u) /\ closer \cap Closed(s) = {}
      /\ r.pq = (s.pq \ {e}) \cup new
      /\ Closed(r) = Closed(s) \cup {u}
  BY DEF Relaxes
<1>2. IsFiniteSet(closer) /\ Cardinality(closer) \in Nat
  <2>1. closer \in SUBSET Nodes
    BY <1>1 DEF Linked
  <2>2. QED
    BY <2>1, NodesAssumption, FS_Subset, FS_CardinalityType
<1>3. IsFiniteSet(new) /\ Cardinality(new) \in Nat /\ Cardinality(new) <= Cardinality(closer)
  <2> DEFINE f == [v \in closer |-> <<r.dist[v], v>>]
  <2>1. f \in Surjection(closer, new)
    BY Fun_IsSurj
  <2>2. QED
    <3> HIDE DEF f, new
    <3>1. QED
      BY <1>2, <2>1, FS_Surjection, FS_CardinalityType
<1>4. IsFiniteSet(ends) /\ Cardinality(ends) = Cardinality(closer)
  <2> DEFINE f == [v \in closer |-> {u, v}]
  <2>1. f \in Surjection(closer, ends)
    BY Fun_IsSurj
  <2>2. \A v, w \in closer : f[v] = f[w] => v = w
    BY <1>1
  <2>3. f \in [closer -> ends]
    OBVIOUS
  <2>4. f \in Injection(closer, ends)
    <3> HIDE DEF f, ends
    <3>1. QED
      BY <2>2, <2>3, Fun_IsInj
  <2>5. QED
    <3> HIDE DEF f, ends
    <3>1. QED
      BY <1>2, <2>1, <2>4, FS_Surjection
<1>5. IsFiniteSet(s.pq \ {e}) /\ Cardinality(s.pq \ {e}) = Cardinality(s.pq) - 1 /\ Cardinality(s.pq) \in Nat
  BY <1>1, FS_RemoveElement, FS_CardinalityType
<1>6. IsFiniteSet(r.pq) /\ Cardinality(r.pq) \in Nat
      /\ Cardinality(r.pq) <= Cardinality(s.pq) - 1 + Cardinality(closer)
  <2> DEFINE old == s.pq \ {e}
  <2>1. IsFiniteSet(old) /\ Cardinality(old) = Cardinality(s.pq) - 1 /\ r.pq = old \cup new
    BY <1>1, <1>5
  <2> HIDE DEF old, new, e
  <2>2. IsFiniteSet(old \cup new)
        /\ Cardinality(old \cup new) = Cardinality(old) + Cardinality(new) - Cardinality(old \cap new)
    BY <1>3, <2>1, FS_Union
  <2>3. Cardinality(old \cap new) \in Nat
    BY <2>1, FS_Intersection, FS_CardinalityType
  <2>4. Cardinality(old) \in Nat /\ Cardinality(old \cup new) \in Nat
    BY <2>1, <2>2, FS_CardinalityType
  <2>5. QED
    BY <1>2, <1>3, <1>5, <2>1, <2>2, <2>3, <2>4
<1>7. Cardinality(OpenLinks(links, r)) <= Cardinality(OpenLinks(links, s)) - Cardinality(closer)
  <2>1. ends \subseteq OpenLinks(links, s)
    <3>1. ASSUME NEW v \in closer PROVE {u, v} \in OpenLinks(links, s)
      BY <1>1 DEF OpenLinks, Linked
    <3>2. QED
      BY <3>1
  <2>2. OpenLinks(links, r) \subseteq OpenLinks(links, s) \ ends
    <3>1. OpenLinks(links, r) \subseteq OpenLinks(links, s)
      BY <1>1 DEF OpenLinks
    <3>2. ASSUME NEW v \in closer PROVE {u, v} \notin OpenLinks(links, r)
      BY <1>1 DEF OpenLinks
    <3>3. QED
      BY <3>1, <3>2
  <2> HIDE DEF ends
  <2> DEFINE o == OpenLinks(links, s)
             q == OpenLinks(links, r)
  <2>3. IsFiniteSet(o) /\ Cardinality(o) \in Nat /\ IsFiniteSet(q) /\ Cardinality(q) \in Nat
    BY OpenFinite
  <2>4. o \cap ends = ends
    BY <2>1
  <2>5. IsFiniteSet(o \ ends) /\ Cardinality(o \ ends) = Cardinality(o) - Cardinality(o \cap ends)
    <3> HIDE DEF o, q
    <3>1. QED
      BY <2>3, FS_Difference
  <2>6. Cardinality(q) <= Cardinality(o \ ends)
    <3>1. q \in SUBSET (o \ ends)
      BY <2>2
    <3> HIDE DEF o, q
    <3>2. QED
      BY <2>5, <3>1, FS_Subset
  <2>7. QED
    BY <1>4, <2>4, <2>5, <2>6
<1>8. QED
  <2>1. Cardinality(OpenLinks(links, r)) \in Nat /\ Cardinality(OpenLinks(links, s)) \in Nat
    BY OpenFinite
  <2>2. Left(links, r) + 1 <= Left(links, s)
    BY <1>2, <1>5, <1>6, <1>7, <2>1 DEF Left
  <2>3. QED
    BY <1>6, <2>2

LEMMA StaleLeaves ==
  ASSUME NEW links \in SUBSET Pairs, NEW s, NEW r, NEW e \in s.pq, IsFiniteSet(s.pq),
         r.dist = s.dist, r.pq = s.pq \ {e}, Closed(r) = Closed(s)
  PROVE  /\ IsFiniteSet(r.pq)
         /\ Left(links, r) + 1 <= Left(links, s)
<1>1. IsFiniteSet(r.pq) /\ Cardinality(r.pq) = Cardinality(s.pq) - 1 /\ Cardinality(s.pq) \in Nat
  BY FS_RemoveElement, FS_CardinalityType
<1>2. OpenLinks(links, r) = OpenLinks(links, s)
  BY DEF OpenLinks
<1>3. Cardinality(OpenLinks(links, s)) \in Nat
  BY OpenFinite
<1>4. QED
  BY <1>1, <1>2, <1>3 DEF Left

\* A turn keeps what holds of the search and leaves less to do.
LEMMA PopKeeps ==
  ASSUME NEW links \in SUBSET Pairs, NEW rep \in Reputations8, NEW me \in Nodes,
         NEW k, Holds(rep, k), NEW s, Searching(links, rep, me, k, s), s.pq # {},
         IsFiniteSet(s.pq)
  PROVE  /\ Searching(links, rep, me, k, Pop(links, rep, s))
         /\ IsFiniteSet(Pop(links, rep, s).pq)
         /\ Left(links, Pop(links, rep, s)) + 1 <= Left(links, s)
<1> DEFINE r == Pop(links, rep, s)
           top == Top(s.pq)
<1>1. CASE top[1] > s.dist[top[2]]
  <2>1. s \in Searches /\ s.pq \in SUBSET ((0..Unreachable) \X Nodes)
    BY DEF Searching, Searches
  <2>2. top \in s.pq
    BY <2>1, TopLeast
  <2>3. r.dist = s.dist /\ r.previous = s.previous /\ r.pq = s.pq \ {top} /\ r \in Searches
    BY <1>1, <2>1, PopStale
  <2>4. \A v \in Nodes : <<s.dist[v], v>> # top
    <3>1. ASSUME NEW v \in Nodes, <<s.dist[v], v>> = top PROVE FALSE
      <4>1. top[1] = s.dist[v] /\ top[2] = v
        BY <3>1
      <4>2. s.dist[v] \in Nat
        BY <2>1, UnreachablePositive DEF Searches
      <4> HIDE DEF top
      <4>3. QED
        BY <1>1, <4>1, <4>2
    <3>2. QED
      BY <3>1
  <2> HIDE DEF r, top
  <2>5. Closed(r) = Closed(s)
    BY <2>3, <2>4 DEF Closed
  <2>6. Searching(links, rep, me, k, r)
    BY <2>3, <2>5 DEF Searching, EntriesAbove, ClosedBefore, Relaxed, ByPrevious, Short
  <2>7. QED
    BY <2>2, <2>3, <2>5, <2>6, StaleLeaves DEF r
<1>2. CASE ~(top[1] > s.dist[top[2]])
  <2>1. PICK u, closer : Relaxes(links, rep, s, u, closer, r)
    BY <1>2, PopRelaxes
  <2> HIDE DEF r
  <2>2. Searching(links, rep, me, k, r)
    BY <2>1, RelaxesKeeps
  <2>3. IsFiniteSet(r.pq) /\ Left(links, r) + 1 <= Left(links, s)
    BY <2>1, RelaxesLeaves
  <2>4. QED
    BY <2>2, <2>3 DEF r
<1>3. QED
  BY <1>1, <1>2

LEMMA PopType ==
  ASSUME NEW links \in SUBSET Pairs, NEW rep \in Reputations8,
         NEW s \in Searches, s.pq # {}
  PROVE  Pop(links, rep, s) \in Searches
<1> DEFINE top == Top(s.pq)
           d == top[1]
           u == top[2]
           new == [v \in Nodes |-> Through(rep, d, u, v)]
           closer == {v \in Linked(links, u) : new[v] < s.dist[v]}
<1>1. /\ s.dist \in [Nodes -> 0..Unreachable]
      /\ s.previous \in [Nodes -> Nodes \cup {NoAddress}]
      /\ s.pq \in SUBSET ((0..Unreachable) \X Nodes)
  BY DEF Searches
<1>2. top \in (0..Unreachable) \X Nodes
  BY <1>1, TopLeast
<1>3. d \in Nat /\ u \in Nodes
  <2> HIDE DEF top
  <2>1. d \in 0..Unreachable /\ u \in Nodes
    BY <1>2
  <2>2. QED
    BY <2>1, UnreachablePositive
<1>4. new \in [Nodes -> 0..Unreachable]
  <2> HIDE DEF d, u
  <2>1. ASSUME NEW v \in Nodes PROVE Through(rep, d, u, v) \in 0..Unreachable
    <3>1. d + Cost(rep, u, v) \in Nat
      BY <1>3, CostBounds
    <3>2. (d + Cost(rep, u, v)) % Word \in 0..(Word - 1)
      BY <3>1, WordAssumption
    <3>3. QED
      BY <3>2 DEF Through, Unreachable
  <2>2. QED
    BY <2>1
<1>5. closer \subseteq Nodes
  BY DEF Linked
<1>6. CASE d > s.dist[u]
  BY <1>6, PopStale
<1>7. CASE ~(d > s.dist[u])
  <2>1. Pop(links, rep, s) =
          [dist |-> [v \in Nodes |-> IF v \in closer THEN new[v] ELSE s.dist[v]],
           previous |-> [v \in Nodes |-> IF v \in closer THEN u ELSE s.previous[v]],
           pq |-> (s.pq \ {top}) \cup {<<new[v], v>> : v \in closer}]
    BY <1>7 DEF Pop
  <2> HIDE DEF closer, new, u, d, top
  <2>2. [v \in Nodes |-> IF v \in closer THEN new[v] ELSE s.dist[v]] \in [Nodes -> 0..Unreachable]
    BY <1>1, <1>4
  <2>3. [v \in Nodes |-> IF v \in closer THEN u ELSE s.previous[v]] \in [Nodes -> Nodes \cup {NoAddress}]
    BY <1>1, <1>3
  <2>4. (s.pq \ {top}) \cup {<<new[v], v>> : v \in closer} \in SUBSET ((0..Unreachable) \X Nodes)
    BY <1>1, <1>4, <1>5
  <2>5. QED
    BY <2>1, <2>2, <2>3, <2>4 DEF Searches
<1>8. QED
  BY <1>6, <1>7

\* The turns that Run defines.
LEMMA RunTurns ==
  ASSUME NEW links \in SUBSET Pairs, NEW rep \in Reputations8, NEW me \in Nodes
  PROVE  /\ Run(links, rep, me)[0] = Start(me)
         /\ \A n \in Nat : Run(links, rep, me)[n + 1] =
              IF Run(links, rep, me)[n].pq = {} THEN Run(links, rep, me)[n]
              ELSE Pop(links, rep, Run(links, rep, me)[n])
<1> DEFINE Next1(s) == IF s.pq = {} THEN s ELSE Pop(links, rep, s)
           step == [s \in Searches |-> Next1(s)]
           Is(f) == f = [n \in Nat |-> IF n = 0 THEN Start(me) ELSE Next1(f[n - 1])]
<1>1. Start(me) \in Searches
  BY UnreachablePositive DEF Start, Searches
<1>2. step \in [Searches -> Searches]
  BY PopType
<1>3. PICK f \in [Nat -> Searches] : f[0] = Start(me) /\ \A n \in Nat : f[n + 1] = step[f[n]]
  <2> HIDE DEF step
  <2>1. \E f \in [Nat -> Searches] : Iterates(f, Start(me), step)
    BY <1>1, <1>2, Recursion
  <2>2. QED
    BY <2>1 DEF Iterates
<1>4. ASSUME NEW n \in Nat, n # 0 PROVE f[n] = Next1(f[n - 1])
  <2>1. n - 1 \in Nat /\ (n - 1) + 1 = n
    BY <1>4
  <2>2. f[n] = step[f[n - 1]] /\ f[n - 1] \in Searches
    BY <1>3, <2>1
  <2>3. QED
    <3> HIDE DEF Next1
    <3>1. QED
      BY <2>2
<1>5. Is(f)
  <2> HIDE DEF Next1
  <2>1. f = [n \in Nat |-> f[n]]
    OBVIOUS
  <2>2. \A n \in Nat : f[n] = IF n = 0 THEN Start(me) ELSE Next1(f[n - 1])
    BY <1>3, <1>4
  <2>3. QED
    BY <2>1, <2>2
<1>6. Run(links, rep, me) = CHOOSE g : Is(g)
  BY DEF Run
<1>7. Is(Run(links, rep, me))
  <2> HIDE DEF Is
  <2>1. QED
    BY <1>5, <1>6
<1> DEFINE g == Run(links, rep, me)
<1>8. ASSUME NEW n \in Nat PROVE g[n + 1] = Next1(g[n])
  <2>1. n + 1 \in Nat /\ n + 1 # 0 /\ (n + 1) - 1 = n
    OBVIOUS
  <2> HIDE DEF Next1, g
  <2>2. g[n + 1] = IF n + 1 = 0 THEN Start(me) ELSE Next1(g[(n + 1) - 1])
    BY <1>7, <2>1 DEF g
  <2>3. QED
    BY <2>1, <2>2
<1>9. g[0] = Start(me)
  <2> HIDE DEF Next1, g
  <2>1. QED
    BY <1>7 DEF g
<1>10. QED
  BY <1>8, <1>9

LEMMA SearchTurns ==
  ASSUME NEW links \in SUBSET Pairs, NEW rep \in Reputations8, NEW me \in Nodes,
         NEW k, Holds(rep, k)
  PROVE  \A n \in Nat :
           LET s == Run(links, rep, me)[n]
           IN  /\ Searching(links, rep, me, k, s)
               /\ IsFiniteSet(s.pq)
               /\ s.pq = {} \/ Left(links, s) + n <= Cardinality(links) + 1
<1> DEFINE run == Run(links, rep, me)
           Good(n) == /\ Searching(links, rep, me, k, run[n])
                      /\ IsFiniteSet(run[n].pq)
                      /\ run[n].pq = {} \/ Left(links, run[n]) + n <= Cardinality(links) + 1
           P == {n \in Nat : Good(n)}
<1>1. 0 \in P
  <2>1. run[0] = Start(me) /\ Start(me).pq = {<<0, me>>}
    BY RunTurns DEF Start
  <2>2. Searching(links, rep, me, k, run[0])
    BY <2>1, SearchStarts
  <2>3. IsFiniteSet(run[0].pq) /\ Cardinality(run[0].pq) = 1
    BY <2>1, FS_Singleton
  <2>4. Cardinality(OpenLinks(links, run[0])) <= Cardinality(links)
    <3>1. OpenLinks(links, run[0]) \in SUBSET links
      BY DEF OpenLinks
    <3>2. QED
      BY <3>1, LinksFinite, FS_Subset
  <2>5. Cardinality(OpenLinks(links, run[0])) \in Nat /\ Cardinality(links) \in Nat
    BY OpenFinite, LinksFinite
  <2>6. Left(links, run[0]) + 0 <= Cardinality(links) + 1
    BY <2>3, <2>4, <2>5 DEF Left
  <2>7. QED
    BY <2>2, <2>3, <2>6
<1>2. ASSUME NEW n \in Nat, n \in P PROVE n + 1 \in P
  <2>1. Good(n) /\ n + 1 \in Nat
    BY <1>2
  <2>2. CASE run[n].pq = {}
    <3>1. run[n + 1] = run[n]
      BY <2>2, RunTurns
    <3>2. QED
      BY <2>1, <2>2, <3>1
  <2>3. CASE run[n].pq # {}
    <3>1. run[n + 1] = Pop(links, rep, run[n])
      BY <2>3, RunTurns
    <3>2. /\ Searching(links, rep, me, k, run[n + 1])
          /\ IsFiniteSet(run[n + 1].pq)
          /\ Left(links, run[n + 1]) + 1 <= Left(links, run[n])
      BY <2>1, <2>3, <3>1, PopKeeps
    <3>3. Left(links, run[n + 1]) \in Nat /\ Left(links, run[n]) \in Nat
      BY <2>1, <3>2, OpenFinite, FS_CardinalityType DEF Left
    <3>4. Left(links, run[n + 1]) + (n + 1) <= Cardinality(links) + 1
      BY <2>1, <2>3, <3>2, <3>3, LinksFinite
    <3>5. QED
      BY <2>1, <3>2, <3>4
  <2>4. QED
    BY <2>2, <2>3
<1>3. \A n \in Nat : n \in P
  <2> HIDE DEF P
  <2>1. QED
    BY <1>1, <1>2, SetInduction
<1>4. QED
  BY <1>3

\* RunDijkstra leaves its loop: nothing is in the queue any more.
LEMMA SearchEnds ==
  ASSUME NEW links \in SUBSET Pairs, NEW rep \in Reputations8, NEW me \in Nodes,
         NEW k, Holds(rep, k)
  PROVE  /\ Searching(links, rep, me, k, Run(links, rep, me)[Turns(links)])
         /\ Run(links, rep, me)[Turns(links)].pq = {}
<1> DEFINE n == Turns(links)
           s == Run(links, rep, me)[n]
<1>1. Cardinality(links) \in Nat /\ n \in Nat /\ n = 2 * Cardinality(links) + 1
  BY LinksFinite DEF Turns
<1>2. /\ Searching(links, rep, me, k, s)
      /\ IsFiniteSet(s.pq)
      /\ s.pq = {} \/ Left(links, s) + n <= Cardinality(links) + 1
  <2> HIDE DEF n
  <2>1. QED
    BY <1>1, SearchTurns
<1>3. ASSUME s.pq # {} PROVE FALSE
  <2>1. Cardinality(s.pq) \in Nat /\ Cardinality(s.pq) # 0
    BY <1>2, <1>3, FS_EmptySet, FS_CardinalityType
  <2>2. Cardinality(OpenLinks(links, s)) \in Nat
    BY OpenFinite
  <2>3. Left(links, s) \in Nat /\ Left(links, s) # 0
    BY <2>1, <2>2 DEF Left
  <2>4. Left(links, s) + n <= Cardinality(links) + 1
    BY <1>2, <1>3
  <2> HIDE DEF s, n
  <2>5. QED
    BY <1>1, <2>3, <2>4
<1>4. QED
  BY <1>2, <1>3

-----------------------------------------------------------------------------
(***************************************************************************)
(* The reference.  Distances to d are the only ones that fall to 0 at d,   *)
(* by the cost of a link from each other node to some node, and nowhere by *)
(* more than the cost of a link.                                           *)
(***************************************************************************)
Shortest(links, rep, d, w) ==
  /\ w \in [Nodes -> 0..Unbounded]
  /\ w[d] = 0
  /\ \A n \in Nodes : \A h \in Linked(links, n) : w[n] <= w[h] + Cost(rep, n, h)
  /\ \A n \in Nodes : \/ n = d
                      \/ w[n] = Unbounded
                      \/ \E h \in Linked(links, n) : w[n] = w[h] + Cost(rep, n, h)

LEMMA UnboundedType == Unbounded \in Nat /\ Unbounded > 0
<1>1. Cardinality(Nodes) \in Nat
  BY NodesAssumption, FS_CardinalityType
<1>2. QED
  BY <1>1 DEF Unbounded

LEMMA LeastOf ==
  ASSUME NEW S \in SUBSET Nat, S # {}
  PROVE  Least(S) \in S /\ \A y \in S : Least(S) <= y
BY LeastNatural DEF Least

Nearer(links, rep, w) ==
  [n \in Nodes |-> Least({w[n]} \cup {w[h] + Cost(rep, n, h) : h \in Linked(links, n)})]

LEMMA NearerType ==
  ASSUME NEW links \in SUBSET Pairs, NEW rep \in Reputations8, NEW w \in [Nodes -> Nat]
  PROVE  /\ Nearer(links, rep, w) \in [Nodes -> Nat]
         /\ \A n \in Nodes :
              /\ Nearer(links, rep, w)[n] <= w[n]
              /\ \A h \in Linked(links, n) : Nearer(links, rep, w)[n] <= w[h] + Cost(rep, n, h)
              /\ \/ Nearer(links, rep, w)[n] = w[n]
                 \/ \E h \in Linked(links, n) : Nearer(links, rep, w)[n] = w[h] + Cost(rep, n, h)
<1>1. ASSUME NEW n \in Nodes
      PROVE  /\ Nearer(links, rep, w)[n] \in Nat
             /\ Nearer(links, rep, w)[n] <= w[n]
             /\ \A h \in Linked(links, n) : Nearer(links, rep, w)[n] <= w[h] + Cost(rep, n, h)
             /\ \/ Nearer(links, rep, w)[n] = w[n]
                \/ \E h \in Linked(links, n) : Nearer(links, rep, w)[n] = w[h] + Cost(rep, n, h)
  <2> DEFINE S == {w[n]} \cup {w[h] + Cost(rep, n, h) : h \in Linked(links, n)}
  <2>1. \A h \in Linked(links, n) : w[h] + Cost(rep, n, h) \in Nat
    BY CostBounds DEF Linked
  <2>2. S \in SUBSET Nat /\ S # {}
    BY <2>1
  <2>3. Nearer(links, rep, w)[n] = Least(S)
    BY DEF Nearer
  <2>4. Least(S) \in S /\ \A y \in S : Least(S) <= y
    <3> HIDE DEF S
    <3>1. QED
      BY <2>2, LeastOf
  <2>5. QED
    BY <2>2, <2>3, <2>4
<1>2. Nearer(links, rep, w) \in [Nodes -> Nat]
  <2>1. \A n \in Nodes : Nearer(links, rep, w)[n] \in Nat
    BY <1>1
  <2>2. Nearer(links, rep, w) = [n \in Nodes |-> Nearer(links, rep, w)[n]]
    BY DEF Nearer
  <2>3. QED
    BY <2>1, <2>2
<1>3. QED
  BY <1>1, <1>2

Direct(d) == [n \in Nodes |-> IF n = d THEN 0 ELSE Unbounded]

\* The rounds that Within defines.
LEMMA WithinRounds ==
  ASSUME NEW links \in SUBSET Pairs, NEW rep \in Reputations8, NEW d \in Nodes
  PROVE  /\ Within(links, rep, d) \in [Nat -> [Nodes -> Nat]]
         /\ Within(links, rep, d)[0] = Direct(d)
         /\ \A k \in Nat :
              Within(links, rep, d)[k + 1] = Nearer(links, rep, Within(links, rep, d)[k])
<1> DEFINE W == [Nodes -> Nat]
           step == [w \in W |-> Nearer(links, rep, w)]
           Is(f) == f = [k \in Nat |-> IF k = 0 THEN Direct(d) ELSE Nearer(links, rep, f[k - 1])]
<1>1. Direct(d) \in W
  BY UnboundedType DEF Direct
<1>2. step \in [W -> W]
  <2>1. \A w \in W : Nearer(links, rep, w) \in W
    BY NearerType
  <2> HIDE DEF W
  <2>2. QED
    BY <2>1
<1>3. PICK f \in [Nat -> W] : f[0] = Direct(d) /\ \A k \in Nat : f[k + 1] = step[f[k]]
  <2> HIDE DEF step, W
  <2>1. \E f \in [Nat -> W] : Iterates(f, Direct(d), step)
    BY <1>1, <1>2, Recursion
  <2>2. QED
    BY <2>1 DEF Iterates
<1> HIDE DEF W
<1>4. ASSUME NEW k \in Nat, k # 0 PROVE f[k] = Nearer(links, rep, f[k - 1])
  <2>1. k - 1 \in Nat /\ (k - 1) + 1 = k
    BY <1>4
  <2>2. f[k] = step[f[k - 1]] /\ f[k - 1] \in W
    BY <1>3, <2>1
  <2>3. QED
    BY <2>2
<1>5. Is(f)
  <2>1. f = [k \in Nat |-> f[k]]
    OBVIOUS
  <2>2. QED
    BY <1>3, <1>4, <2>1
<1>6. Within(links, rep, d) = CHOOSE g : Is(g)
  BY DEF Within, Nearer, Direct
<1>7. Is(Within(links, rep, d))
  <2> HIDE DEF Is
  <2>1. QED
    BY <1>5, <1>6
<1> DEFINE g == Within(links, rep, d)
<1>8. g[0] = Direct(d)
  <2> HIDE DEF g
  <2>1. QED
    BY <1>7 DEF g
<1>9. ASSUME NEW k \in Nat PROVE g[k + 1] = Nearer(links, rep, g[k])
  <2>1. k + 1 \in Nat /\ k + 1 # 0 /\ (k + 1) - 1 = k
    OBVIOUS
  <2> HIDE DEF g
  <2>2. g[k + 1] = IF k + 1 = 0 THEN Direct(d) ELSE Nearer(links, rep, g[(k + 1) - 1])
    BY <1>7, <2>1 DEF g
  <2>3. QED
    BY <2>1, <2>2
<1>10. \A k \in Nat : g[k] \in W
  <2> DEFINE P == {k \in Nat : g[k] \in W}
  <2> HIDE DEF g
  <2>1. 0 \in P
    BY <1>1, <1>8
  <2>2. ASSUME NEW k \in Nat, k \in P PROVE k + 1 \in P
    <3>1. Nearer(links, rep, g[k]) \in W
      BY <2>2, NearerType DEF W
    <3>2. QED
      BY <1>9, <3>1
  <2>3. \A k \in Nat : k \in P
    <3> HIDE DEF P
    <3>1. QED
      BY <2>1, <2>2, SetInduction
  <2>4. QED
    BY <2>3
<1>11. g \in [Nat -> W]
  <2> HIDE DEF g
  <2>1. g = [k \in Nat |-> g[k]]
    BY <1>7 DEF g
  <2>2. QED
    BY <1>10, <2>1
<1>12. QED
  BY <1>8, <1>9, <1>11 DEF W

Closer(w, n) == {m \in Nodes : w[m] < w[n]}

LEMMA CloserFinite ==
  ASSUME NEW w, NEW n
  PROVE  /\ IsFiniteSet(Closer(w, n))
         /\ Cardinality(Closer(w, n)) \in Nat
         /\ Cardinality(Closer(w, n)) <= Cardinality(Nodes)
<1>1. Closer(w, n) \in SUBSET Nodes
  BY DEF Closer
<1>2. QED
  BY <1>1, NodesAssumption, FS_Subset, FS_CardinalityType

LEMMA CloserShrinks ==
  ASSUME NEW w \in [Nodes -> Nat], NEW n \in Nodes, NEW h \in Nodes, w[h] < w[n]
  PROVE  Cardinality(Closer(w, h)) + 1 <= Cardinality(Closer(w, n))
<1>1. Closer(w, h) \cup {h} \in SUBSET Closer(w, n) /\ h \notin Closer(w, h)
  BY DEF Closer
<1>2. IsFiniteSet(Closer(w, h) \cup {h})
      /\ Cardinality(Closer(w, h) \cup {h}) = Cardinality(Closer(w, h)) + 1
  BY <1>1, CloserFinite, FS_AddElement
<1>3. Cardinality(Closer(w, h) \cup {h}) <= Cardinality(Closer(w, n))
  BY <1>1, CloserFinite, FS_Subset
<1>4. QED
  BY <1>2, <1>3

LEMMA DistancesShortest ==
  ASSUME NEW links \in SUBSET Pairs, NEW rep \in Reputations8, NEW d \in Nodes,
         NEW w, Shortest(links, rep, d, w)
  PROVE  Distances(links, rep, d) = w
<1> DEFINE g == Within(links, rep, d)
           Good(k) == \A n \in Nodes :
                        /\ w[n] <= g[k][n] /\ g[k][n] <= Unbounded
                        /\ w[n] # Unbounded /\ Cardinality(Closer(w, n)) <= k => g[k][n] = w[n]
           P == {k \in Nat : Good(k)}
<1>1. w \in [Nodes -> Nat] /\ w[d] = 0 /\ \A n \in Nodes : w[n] <= Unbounded
  BY UnboundedType DEF Shortest
<1>2. g \in [Nat -> [Nodes -> Nat]] /\ g[0] = Direct(d)
      /\ \A k \in Nat : g[k + 1] = Nearer(links, rep, g[k])
  BY WithinRounds
<1>3. ASSUME NEW n \in Nodes, n # d, w[n] # Unbounded
      PROVE  \E h \in Linked(links, n) : /\ h \in Nodes /\ w[n] = w[h] + Cost(rep, n, h)
                                         /\ w[h] < w[n]
                                         /\ Cardinality(Closer(w, h)) + 1 <= Cardinality(Closer(w, n))
  <2>1. PICK h \in Linked(links, n) : w[n] = w[h] + Cost(rep, n, h)
    BY <1>3 DEF Shortest
  <2>2. h \in Nodes
    BY DEF Linked
  <2>3. Cost(rep, n, h) \in Nat /\ 0 < Cost(rep, n, h)
    BY <2>2, CostBounds
  <2>4. w[h] < w[n]
    BY <1>1, <2>1, <2>2, <2>3
  <2>5. Cardinality(Closer(w, h)) + 1 <= Cardinality(Closer(w, n))
    BY <1>1, <2>2, <2>4, CloserShrinks
  <2>6. QED
    BY <2>1, <2>2, <2>4, <2>5
<1> HIDE DEF g
<1>4. 0 \in P
  <2>1. ASSUME NEW n \in Nodes
        PROVE  /\ w[n] <= g[0][n] /\ g[0][n] <= Unbounded
               /\ w[n] # Unbounded /\ Cardinality(Closer(w, n)) <= 0 => g[0][n] = w[n]
    <3>1. CASE n = d
      BY <1>1, <1>2, <3>1, UnboundedType DEF Direct
    <3>2. CASE n # d
      <4>1. g[0][n] = Unbounded
        BY <1>2, <3>2 DEF Direct
      <4>2. ASSUME w[n] # Unbounded PROVE ~(Cardinality(Closer(w, n)) <= 0)
        <5>1. PICK h \in Linked(links, n) : Cardinality(Closer(w, h)) + 1 <= Cardinality(Closer(w, n))
          BY <1>3, <3>2, <4>2
        <5>2. Cardinality(Closer(w, h)) \in Nat /\ Cardinality(Closer(w, n)) \in Nat
          BY CloserFinite
        <5>3. QED
          BY <5>1, <5>2
      <4>3. QED
        BY <1>1, <4>1, <4>2, UnboundedType
    <3>3. QED
      BY <3>1, <3>2
  <2>2. QED
    BY <2>1
<1>5. ASSUME NEW k \in Nat, k \in P PROVE k + 1 \in P
  <2>1. Good(k) /\ g[k] \in [Nodes -> Nat]
    BY <1>2, <1>5
  <2> DEFINE q == g[k + 1]
             p == g[k]
  <2>2. q = Nearer(links, rep, p) /\ p \in [Nodes -> Nat]
    BY <1>2, <2>1
  <2>3. /\ q \in [Nodes -> Nat]
        /\ \A n \in Nodes :
              /\ q[n] <= p[n]
              /\ \A h \in Linked(links, n) : q[n] <= p[h] + Cost(rep, n, h)
              /\ q[n] = p[n] \/ \E h \in Linked(links, n) : q[n] = p[h] + Cost(rep, n, h)
    <3> HIDE DEF q, p
    <3>1. QED
      BY <2>2, NearerType
  <2>4. \A n \in Nodes :
          /\ w[n] <= p[n] /\ p[n] <= Unbounded
          /\ w[n] # Unbounded /\ Cardinality(Closer(w, n)) <= k => p[n] = w[n]
    BY <2>1
  <2> HIDE DEF q, p
  <2>5. ASSUME NEW n \in Nodes PROVE w[n] <= q[n]
    <3>1. CASE q[n] = p[n]
      BY <2>4, <3>1
    <3>2. CASE \E h \in Linked(links, n) : q[n] = p[h] + Cost(rep, n, h)
      <4>1. PICK h \in Linked(links, n) : q[n] = p[h] + Cost(rep, n, h)
        BY <3>2
      <4>2. h \in Nodes /\ w[n] <= w[h] + Cost(rep, n, h)
        BY DEF Shortest, Linked
      <4>3. w[h] <= p[h] /\ w[h] \in Nat /\ p[h] \in Nat /\ w[n] \in Nat
        BY <1>1, <2>2, <2>4, <4>2
      <4>4. Cost(rep, n, h) \in Nat
        BY <4>2, CostBounds
      <4>5. QED
        BY <4>1, <4>2, <4>3, <4>4
    <3>3. QED
      BY <2>3, <3>1, <3>2
  <2>6. ASSUME NEW n \in Nodes PROVE q[n] <= Unbounded
    <3>1. q[n] <= p[n] /\ p[n] <= Unbounded /\ q[n] \in Nat /\ p[n] \in Nat
      BY <2>2, <2>3, <2>4
    <3>2. QED
      BY <3>1, UnboundedType
  <2>7. ASSUME NEW n \in Nodes, w[n] # Unbounded, Cardinality(Closer(w, n)) <= k + 1
        PROVE  q[n] = w[n]
    <3>1. q[n] <= w[n]
      <4>1. CASE n = d
        <5>1. Closer(w, d) = {}
          BY <1>1 DEF Closer
        <5>2. Cardinality(Closer(w, d)) <= k
          BY <5>1, FS_EmptySet
        <5>3. p[n] = w[n] /\ q[n] <= p[n]
          BY <2>3, <2>4, <2>7, <4>1, <5>2
        <5>4. QED
          BY <5>3
      <4>2. CASE n # d
        <5>1. PICK h \in Linked(links, n) : /\ h \in Nodes /\ w[n] = w[h] + Cost(rep, n, h)
                                            /\ w[h] < w[n]
                                            /\ Cardinality(Closer(w, h)) + 1 <= Cardinality(Closer(w, n))
          BY <1>3, <2>7, <4>2
        <5>2. Cardinality(Closer(w, h)) <= k
          <6>1. Cardinality(Closer(w, h)) \in Nat /\ Cardinality(Closer(w, n)) \in Nat
            BY CloserFinite
          <6>2. QED
            BY <2>7, <5>1, <6>1
        <5>3. w[h] # Unbounded
          <6>1. w[n] <= Unbounded /\ w[n] \in Nat /\ w[h] \in Nat
            BY <1>1, <5>1
          <6>2. QED
            BY <5>1, <6>1, UnboundedType
        <5>4. p[h] = w[h]
          BY <2>4, <5>1, <5>2, <5>3
        <5>5. q[n] <= p[h] + Cost(rep, n, h)
          BY <2>3
        <5>6. QED
          BY <5>1, <5>4, <5>5
      <4>3. QED
        BY <4>1, <4>2
    <3>2. w[n] <= q[n] /\ w[n] \in Nat /\ q[n] \in Nat
      BY <1>1, <2>3, <2>5
    <3>3. QED
      BY <3>1, <3>2
  <2>8. Good(k + 1)
    BY <2>5, <2>6, <2>7 DEF q
  <2>9. QED
    BY <2>8
<1>6. \A k \in Nat : k \in P
  <2> HIDE DEF P
  <2>1. QED
    BY <1>4, <1>5, SetInduction
<1>7. Cardinality(Nodes) \in Nat
  BY NodesAssumption, FS_CardinalityType
<1> DEFINE r == g[Cardinality(Nodes)]
<1>8. r \in [Nodes -> Nat]
  BY <1>2, <1>7
<1>9. ASSUME NEW n \in Nodes PROVE r[n] = w[n]
  <2>1. /\ w[n] <= r[n] /\ r[n] <= Unbounded
        /\ w[n] # Unbounded /\ Cardinality(Closer(w, n)) <= Cardinality(Nodes) => r[n] = w[n]
    BY <1>6, <1>7
  <2>2. Cardinality(Closer(w, n)) <= Cardinality(Nodes)
    BY CloserFinite
  <2>3. CASE w[n] # Unbounded
    BY <2>1, <2>2, <2>3
  <2>4. CASE w[n] = Unbounded
    <3>1. r[n] \in Nat
      BY <1>8
    <3>2. QED
      BY <2>1, <2>4, <3>1, UnboundedType
  <2>5. QED
    BY <2>3, <2>4
<1>10. Distances(links, rep, d) = r
  BY DEF Distances, g
<1>11. r = w
  <2> HIDE DEF r
  <2>1. QED
    BY <1>1, <1>8, <1>9
<1>12. QED
  BY <1>10, <1>11

-----------------------------------------------------------------------------
(***************************************************************************)
(* The distances that RunDijkstra finds from me are those to me.           *)
(***************************************************************************)
DistancesOf(s) == [n \in Nodes |-> IF s.dist[n] = Unreachable THEN Unbounded ELSE s.dist[n]]

LEMMA SearchShortest ==
  ASSUME NEW links \in SUBSET Pairs, NEW rep \in Reputations8, NEW me \in Nodes,
         NEW k, Holds(rep, k), NEW s, Searching(links, rep, me, k, s), s.pq = {}
  PROVE  /\ Shortest(links, rep, me, DistancesOf(s))
         /\ \A v \in Nodes : DistancesOf(s)[v] = Unbounded <=> s.dist[v] = Unreachable
<1> DEFINE w == DistancesOf(s)
<1>1. /\ s.dist \in [Nodes -> 0..Unreachable] /\ s.dist[me] = 0
      /\ Relaxed(links, rep, s) /\ ByPrevious(links, rep, me, s) /\ Short(k, s)
  BY DEF Searching, Searches
<1>2. \A v \in Nodes : v \in Closed(s) <=> s.dist[v] # Unreachable
  BY DEF Closed
<1>3. ASSUME NEW v \in Nodes, s.dist[v] # Unreachable
      PROVE  s.dist[v] \in Nat /\ s.dist[v] < Unbounded
  <2> DEFINE c == Cardinality(Closed(s) \ {v})
             n == Cardinality(Nodes)
  <2>1. s.dist[v] <= k * c /\ s.dist[v] \in Nat
    BY <1>1, <1>3, UnreachablePositive DEF Short
  <2>2. c \in Nat
    BY ClosedFinite
  <2>3. n \in Nat /\ c <= n
    <3>1. Closed(s) \ {v} \in SUBSET Nodes
      BY DEF Closed
    <3>2. QED
      BY <3>1, NodesAssumption, FS_Subset, FS_CardinalityType
  <2>4. k \in Nat /\ k <= 1000
    BY DEF Holds
  <2> HIDE DEF c
  <2>5. k * c \in Nat /\ k * c <= 1000 * n
    <3> HIDE DEF n
    <3>1. PICK i \in Nat : n = c + i
      <4>1. n - c \in Nat /\ n = c + (n - c)
        BY <2>2, <2>3
      <4>2. QED
        BY <4>1
    <3>2. PICK j \in Nat : 1000 = k + j
      <4>1. 1000 - k \in Nat /\ 1000 = k + (1000 - k)
        BY <2>4
      <4>2. QED
        BY <4>1
    <3>3. (k + j) * (c + i) = k * c + (k * i + j * c + j * i)
      BY <2>2, <2>4, <3>1, <3>2
    <3>4. k * c \in Nat /\ k * i \in Nat /\ j * c \in Nat /\ j * i \in Nat
      BY <2>2, <2>4, <3>1, <3>2
    <3>5. k * c <= (k + j) * (c + i)
      BY <3>3, <3>4
    <3>6. QED
      BY <3>1, <3>2, <3>4, <3>5
  <2>6. Unbounded = 1000 * n + 1
    BY DEF Unbounded
  <2> HIDE DEF n
  <2>7. QED
    BY <2>1, <2>3, <2>5, <2>6
<1>4. /\ w \in [Nodes -> 0..Unbounded]
      /\ \A v \in Nodes : w[v] = Unbounded <=> s.dist[v] = Unreachable
  <2>1. ASSUME NEW v \in Nodes
        PROVE w[v] \in 0..Unbounded /\ (w[v] = Unbounded <=> s.dist[v] = Unreachable)
    <3>1. CASE s.dist[v] = Unreachable
      BY <3>1, UnboundedType DEF DistancesOf
    <3>2. CASE s.dist[v] # Unreachable
      BY <1>3, <3>2, UnboundedType DEF DistancesOf
    <3>3. QED
      BY <3>1, <3>2
  <2>2. w = [v \in Nodes |-> w[v]]
    BY DEF DistancesOf
  <2> HIDE DEF w
  <2>3. QED
    BY <2>1, <2>2
<1>5. w[me] = 0
  BY <1>1, UnreachablePositive DEF DistancesOf
<1>6. ASSUME NEW n \in Nodes, NEW h \in Linked(links, n)
      PROVE  w[n] <= w[h] + Cost(rep, n, h)
  <2>1. h \in Nodes /\ n \in Linked(links, h)
    BY LinkedNodes
  <2>2. Cost(rep, n, h) \in Nat /\ Cost(rep, n, h) = Cost(rep, h, n)
    BY <2>1, CostBounds
  <2>3. w[n] \in Nat /\ w[n] <= Unbounded
    BY <1>4, UnboundedType
  <2>4. CASE s.dist[h] = Unreachable
    <3>1. w[h] = Unbounded
      BY <2>1, <2>4 DEF DistancesOf
    <3>2. QED
      BY <2>2, <2>3, <3>1, UnboundedType
  <2>5. CASE s.dist[h] # Unreachable /\ s.dist[n] # Unreachable
    <3>1. s.dist[n] <= s.dist[h] + Cost(rep, h, n)
      BY <1>1, <1>2, <2>1, <2>5 DEF Relaxed
    <3>2. w[n] = s.dist[n] /\ w[h] = s.dist[h]
      BY <2>1, <2>5 DEF DistancesOf
    <3>3. QED
      BY <2>2, <3>1, <3>2
  <2>6. CASE s.dist[h] # Unreachable /\ s.dist[n] = Unreachable
    <3>1. Unreachable <= s.dist[h] + Cost(rep, h, n)
      BY <1>1, <1>2, <2>1, <2>6 DEF Relaxed
    <3>2. Cost(rep, h, n) <= k
      BY <2>1 DEF Holds
    <3>3. s.dist[h] <= k * Cardinality(Closed(s) \ {h}) /\ s.dist[h] \in Nat
      BY <1>1, <2>1, <2>6, UnreachablePositive DEF Short
    <3> DEFINE c == Cardinality(Closed(s) \ {h})
               m == Cardinality(Nodes)
    <3>4. c \in Nat /\ m \in Nat /\ c + 2 <= m
      <4>1. n \notin Closed(s) /\ n # h /\ n \in Nodes
        BY <1>2, <2>6
      <4>2. Closed(s) \ {h} \in SUBSET ((Nodes \ {h}) \ {n})
        BY <4>1 DEF Closed
      <4>3. IsFiniteSet(Nodes \ {h}) /\ Cardinality(Nodes \ {h}) = m - 1 /\ m \in Nat
        BY <2>1, NodesAssumption, FS_RemoveElement, FS_CardinalityType
      <4>4. IsFiniteSet((Nodes \ {h}) \ {n}) /\ Cardinality((Nodes \ {h}) \ {n}) = m - 1 - 1
        <5> DEFINE o == Nodes \ {h}
        <5>1. n \in o /\ IsFiniteSet(o) /\ Cardinality(o) = m - 1
          BY <4>1, <4>3
        <5> HIDE DEF o, m
        <5>2. IsFiniteSet(o \ {n}) /\ Cardinality(o \ {n}) = m - 1 - 1
          BY <5>1, FS_RemoveElement
        <5>3. QED
          BY <5>2 DEF o
      <4>5. c <= m - 1 - 1
        BY <4>2, <4>4, FS_Subset
      <4>6. c \in Nat
        BY ClosedFinite
      <4> HIDE DEF c, m
      <4>7. QED
        BY <4>3, <4>5, <4>6
    <3>5. k \in Nat /\ k * m < Word
      BY DEF Holds
    <3> HIDE DEF c, m
    <3>6. PICK i \in Nat : m = c + 2 + i
      <4>1. m - c - 2 \in Nat /\ m = c + 2 + (m - c - 2)
        BY <3>4
      <4>2. QED
        BY <4>1
    <3>7. k * m = k * c + k + k + k * i /\ k * c \in Nat /\ k * i \in Nat
      BY <3>4, <3>5, <3>6
    <3>8. s.dist[h] <= k * c
      BY <3>3 DEF c
    <3>9. CASE k = 0
      <4>1. Cost(rep, h, n) > 0 /\ Cost(rep, h, n) \in Nat
        BY <2>1, CostBounds
      <4>2. QED
        BY <3>2, <3>9, <4>1
    <3>10. CASE k # 0
      <4>1. s.dist[h] + Cost(rep, h, n) < Word - 1
        <5>1. Cost(rep, h, n) \in Nat
          BY <2>1, CostBounds
        <5>2. QED
          BY <3>2, <3>3, <3>5, <3>7, <3>8, <3>10, <5>1, WordAssumption
      <4>2. QED
        BY <2>1, <3>1, <3>3, <4>1, CostBounds, WordAssumption DEF Unreachable
    <3>11. QED
      BY <3>9, <3>10
  <2>7. QED
    BY <2>4, <2>5, <2>6
<1>7. ASSUME NEW n \in Nodes, n # me, w[n] # Unbounded
      PROVE  \E h \in Linked(links, n) : w[n] = w[h] + Cost(rep, n, h)
  <2> DEFINE h == s.previous[n]
  <2>1. s.dist[n] # Unreachable /\ w[n] = s.dist[n]
    BY <1>7 DEF DistancesOf
  <2>2. h \in Closed(s) /\ h \in Linked(links, n) /\ s.dist[n] = s.dist[h] + Cost(rep, h, n)
    BY <1>1, <1>7, <2>1 DEF ByPrevious
  <2> HIDE DEF h
  <2>3. h \in Nodes /\ w[h] = s.dist[h] /\ Cost(rep, h, n) = Cost(rep, n, h)
    BY <2>2, CostBounds DEF DistancesOf, Closed
  <2>4. QED
    BY <2>1, <2>2, <2>3
<1>8. QED
  BY <1>4, <1>5, <1>6, <1>7 DEF Shortest

\* The distances to d are a reference as it should be, and those of the search from d.
LEMMA DistancesFound ==
  ASSUME NEW links \in SUBSET Pairs, NEW rep \in Reputations8, NEW d \in Nodes,
         NEW k, Holds(rep, k)
  PROVE  /\ Distances(links, rep, d) = DistancesOf(Run(links, rep, d)[Turns(links)])
         /\ Shortest(links, rep, d, Distances(links, rep, d))
<1> DEFINE s == Run(links, rep, d)[Turns(links)]
<1>1. Searching(links, rep, d, k, s) /\ s.pq = {}
  BY SearchEnds
<1> HIDE DEF s
<1>2. Shortest(links, rep, d, DistancesOf(s))
  BY <1>1, SearchShortest
<1>3. Distances(links, rep, d) = DistancesOf(s)
  BY <1>2, DistancesShortest
<1>4. QED
  BY <1>2, <1>3 DEF s

\* A value on nodes that no link changes by more than its cost differs between two
\* nodes by no more than their distance.
LEMMA PathBounds ==
  ASSUME NEW links \in SUBSET Pairs, NEW rep \in Reputations8, NEW a \in Nodes,
         NEW w, Shortest(links, rep, a, w), NEW e \in [Nodes -> Nat],
         \A n \in Nodes : \A h \in Linked(links, n) : e[n] <= e[h] + Cost(rep, n, h)
  PROVE  \A v \in Nodes : w[v] # Unbounded => e[v] <= e[a] + w[v] /\ e[a] <= e[v] + w[v]
<1> DEFINE P == {v \in Nodes : w[v] # Unbounded => e[v] <= e[a] + w[v] /\ e[a] <= e[v] + w[v]}
<1>1. w \in [Nodes -> Nat] /\ w[a] = 0 /\ \A n \in Nodes : w[n] <= Unbounded
  BY UnboundedType DEF Shortest
<1>2. ASSUME NEW v \in Nodes, \A u \in Nodes : w[u] < w[v] => u \in P PROVE v \in P
  <2>1. SUFFICES ASSUME w[v] # Unbounded PROVE e[v] <= e[a] + w[v] /\ e[a] <= e[v] + w[v]
    OBVIOUS
  <2>2. CASE v = a
    BY <1>1, <2>2
  <2>3. CASE v # a
    <3>1. PICK h \in Linked(links, v) : w[v] = w[h] + Cost(rep, v, h)
      BY <2>1, <2>3 DEF Shortest
    <3>2. h \in Nodes /\ v \in Linked(links, h)
      BY LinkedNodes
    <3>3. /\ Cost(rep, v, h) \in Nat /\ 0 < Cost(rep, v, h)
          /\ Cost(rep, h, v) = Cost(rep, v, h)
      BY <3>2, CostBounds
    <3>4. e[v] <= e[h] + Cost(rep, v, h) /\ e[h] <= e[v] + Cost(rep, v, h)
      BY <3>2, <3>3
    <3>5. w[h] \in Nat /\ w[v] \in Nat /\ w[v] <= Unbounded
      BY <1>1, <3>2
    <3>6. w[h] < w[v] /\ w[h] # Unbounded
      BY <2>1, <3>1, <3>3, <3>5, UnboundedType
    <3>7. e[h] <= e[a] + w[h] /\ e[a] <= e[h] + w[h]
      BY <1>2, <3>2, <3>6
    <3>8. e[v] \in Nat /\ e[h] \in Nat /\ e[a] \in Nat
      BY <3>2
    <3>9. QED
      BY <3>1, <3>3, <3>4, <3>5, <3>7, <3>8
  <2>4. QED
    BY <2>2, <2>3
<1>3. \A v \in Nodes : v \in P
  <2> HIDE DEF P
  <2>1. QED
    BY <1>1, <1>2, RankInduction
<1>4. QED
  BY <1>3

\* The distance from a to b is that from b to a.
LEMMA DistancesSymmetric ==
  ASSUME NEW links \in SUBSET Pairs, NEW rep \in Reputations8, NEW a \in Nodes,
         NEW b \in Nodes, NEW k, Holds(rep, k)
  PROVE  Distances(links, rep, a)[b] = Distances(links, rep, b)[a]
<1> DEFINE wa == Distances(links, rep, a)
           wb == Distances(links, rep, b)
<1>1. Shortest(links, rep, a, wa) /\ Shortest(links, rep, b, wb)
  BY DistancesFound
<1> HIDE DEF wa, wb
<1>2. /\ wa \in [Nodes -> Nat] /\ wa[a] = 0 /\ wa[b] <= Unbounded
      /\ wb \in [Nodes -> Nat] /\ wb[b] = 0 /\ wb[a] <= Unbounded
      /\ \A n \in Nodes : \A h \in Linked(links, n) : wa[n] <= wa[h] + Cost(rep, n, h)
      /\ \A n \in Nodes : \A h \in Linked(links, n) : wb[n] <= wb[h] + Cost(rep, n, h)
  BY <1>1, UnboundedType DEF Shortest
<1>3. wa[b] # Unbounded => wb[a] <= wb[b] + wa[b]
  BY <1>1, <1>2, PathBounds
<1>4. wb[a] # Unbounded => wa[b] <= wa[a] + wb[a]
  BY <1>1, <1>2, PathBounds
<1>5. wa[b] = wb[a]
  BY <1>2, <1>3, <1>4, UnboundedType
<1>6. QED
  BY <1>5 DEF wa, wb

-----------------------------------------------------------------------------
(***************************************************************************)
(* The first hops: the path that predecessors give from me to a node       *)
(* starts with a link from me.                                             *)
(***************************************************************************)
\* The recursion that FirstHops defines.
LEMMA FirstHopsSteps ==
  ASSUME NEW links \in SUBSET Pairs, NEW rep \in Reputations8, NEW me \in Nodes,
         NEW k, Holds(rep, k), NEW s, Searching(links, rep, me, k, s), s.pq = {}
  PROVE  \A v \in Nodes \ {me} : s.dist[v] # Unreachable =>
           FirstHops(s.previous, me)[v] =
             IF s.previous[v] = me THEN v ELSE FirstHops(s.previous, me)[s.previous[v]]
<1> DEFINE V == {n \in Nodes : s.previous[n] # NoAddress}
           stop == {v \in V : s.previous[v] = me}
           value == [v \in V |-> v]
           rank == [v \in V |-> s.dist[v]]
           Is(f) == f = [v \in V |-> IF s.previous[v] = me THEN v ELSE f[s.previous[v]]]
<1>1. /\ s.dist \in [Nodes -> 0..Unreachable] /\ ByPrevious(links, rep, me, s)
  BY DEF Searching, Searches
<1>2. \A v \in Nodes : v \in V <=> v # me /\ s.dist[v] # Unreachable
  <2>1. \A v \in Nodes : v # me /\ s.dist[v] # Unreachable => s.previous[v] \in Nodes
    BY <1>1 DEF ByPrevious, Closed
  <2>2. QED
    BY <1>1, <2>1, AddressNotNode DEF ByPrevious
<1>3. ASSUME NEW v \in V
      PROVE  /\ s.previous[v] \in Nodes /\ s.dist[s.previous[v]] # Unreachable
             /\ s.dist[v] \in Nat /\ s.dist[s.previous[v]] \in Nat
             /\ s.dist[s.previous[v]] < s.dist[v] /\ s.dist[v] < Word
  <2>1. v \in Nodes /\ v # me /\ s.dist[v] # Unreachable
    BY <1>2
  <2> DEFINE h == s.previous[v]
  <2>2. /\ h \in Nodes /\ s.dist[h] # Unreachable
        /\ s.dist[v] = s.dist[h] + Cost(rep, h, v)
    BY <1>1, <2>1 DEF ByPrevious, Closed
  <2> HIDE DEF h
  <2>3. Cost(rep, h, v) \in Nat /\ 0 < Cost(rep, h, v)
    BY <2>1, <2>2, CostBounds
  <2>4. s.dist[v] \in Nat /\ s.dist[h] \in Nat /\ s.dist[v] <= Unreachable
    BY <1>1, <2>1, <2>2, UnreachablePositive
  <2>5. s.dist[h] < s.dist[v] /\ s.dist[v] < Word
    BY <2>2, <2>3, <2>4, UnreachablePositive
  <2>6. QED
    BY <2>2, <2>4, <2>5 DEF h
<1>4. \E f : Descends(f, V, stop, value, s.previous)
  <2>1. rank \in [V -> Nat] /\ \A v \in V : rank[v] < Word
    BY <1>3
  <2>2. stop \in SUBSET V
    OBVIOUS
  <2>3. ASSUME NEW v \in V \ stop PROVE s.previous[v] \in V /\ rank[s.previous[v]] < rank[v]
    <3>1. s.previous[v] # me /\ s.previous[v] \in V
      BY <1>2, <1>3
    <3>2. QED
      BY <1>3, <3>1
  <2> DEFINE next == s.previous
  <2>4. \A v \in V \ stop : next[v] \in V /\ rank[next[v]] < rank[v]
    BY <2>3
  <2> HIDE DEF V, stop, value, rank, next
  <2>5. \E f : Descends(f, V, stop, value, next)
    BY <2>1, <2>2, <2>4, RankRecursion, WordAssumption
  <2>6. QED
    BY <2>5 DEF next
<1>5. \E f : Is(f)
  <2>1. PICK f : Descends(f, V, stop, value, s.previous)
    BY <1>4
  <2>2. Is(f)
    BY <2>1 DEF Descends
  <2> HIDE DEF Is
  <2>3. QED
    BY <2>2
<1>6. FirstHops(s.previous, me) = CHOOSE g : Is(g)
  BY DEF FirstHops
<1>7. Is(FirstHops(s.previous, me))
  <2> HIDE DEF Is
  <2>1. QED
    BY <1>5, <1>6
<1>8. QED
  BY <1>2, <1>7

\* The first hop to a node is linked with me, and nearer to the node by the cost of
\* that link.
LEMMA FirstHop ==
  ASSUME NEW links \in SUBSET Pairs, NEW rep \in Reputations8, NEW me \in Nodes,
         NEW k, Holds(rep, k), NEW s, Searching(links, rep, me, k, s), s.pq = {}
  PROVE  \A v \in Nodes \ {me} : s.dist[v] # Unreachable =>
           /\ FirstHops(s.previous, me)[v] \in Linked(links, me)
           /\ Distances(links, rep, FirstHops(s.previous, me)[v])[v]
                + Cost(rep, me, FirstHops(s.previous, me)[v]) <= s.dist[v]
<1> DEFINE first == FirstHops(s.previous, me)
           Goal(v) == /\ first[v] \in Linked(links, me)
                      /\ Distances(links, rep, first[v])[v] + Cost(rep, me, first[v]) <= s.dist[v]
           P == {v \in Nodes : v # me /\ s.dist[v] # Unreachable => Goal(v)}
<1>1. /\ s.dist \in [Nodes -> 0..Unreachable] /\ s.dist[me] = 0
      /\ ByPrevious(links, rep, me, s)
  BY DEF Searching, Searches
<1>2. s.dist \in [Nodes -> Nat]
  BY <1>1, UnreachablePositive
<1>3. ASSUME NEW v \in Nodes, \A u \in Nodes : s.dist[u] < s.dist[v] => u \in P
      PROVE  v \in P
  <2>1. SUFFICES ASSUME v # me, s.dist[v] # Unreachable PROVE Goal(v)
    OBVIOUS
  <2>2. PICK u \in Nodes : /\ u = s.previous[v] /\ u \in Linked(links, v)
                           /\ s.dist[u] # Unreachable
                           /\ s.dist[v] = s.dist[u] + Cost(rep, u, v)
    BY <1>1, <2>1 DEF ByPrevious, Closed
  <2>3. v \in Linked(links, u)
    BY <2>2, LinkedNodes
  <2>4. /\ Cost(rep, u, v) \in Nat /\ 0 < Cost(rep, u, v)
        /\ Cost(rep, v, u) = Cost(rep, u, v)
    BY <2>2, CostBounds
  <2>5. first[v] = IF u = me THEN v ELSE first[u]
    BY <2>1, <2>2, FirstHopsSteps
  <2>6. CASE u = me
    <3>1. Shortest(links, rep, v, Distances(links, rep, v))
      BY DistancesFound
    <3>2. Distances(links, rep, v)[v] = 0
      BY <3>1 DEF Shortest
    <3>3. first[v] = v
      BY <2>5, <2>6
    <3> DEFINE c == Cost(rep, me, v)
    <3>4. c \in Nat /\ s.dist[v] = c
      BY <1>1, <2>2, <2>4, <2>6
    <3>5. Distances(links, rep, v)[v] + c <= s.dist[v]
      <4> HIDE DEF c
      <4>1. QED
        BY <3>2, <3>4
    <3>6. QED
      BY <2>3, <2>6, <3>3, <3>5
  <2>7. CASE u # me
    <3>1. s.dist[u] < s.dist[v]
      BY <1>2, <2>2, <2>4
    <3>2. Goal(u)
      BY <1>3, <2>2, <2>7, <3>1
    <3> DEFINE h == first[u]
               w == Distances(links, rep, h)
               c == Cost(rep, me, h)
               e == Cost(rep, v, u)
    <3>3. h \in Linked(links, me) /\ w[u] + c <= s.dist[u]
      BY <3>2
    <3>4. h \in Nodes /\ first[v] = h
      BY <2>5, <2>7, <3>3, LinkedNodes
    <3>5. Shortest(links, rep, h, w)
      <4> HIDE DEF h
      <4>1. QED
        BY <3>4, DistancesFound
    <3>6. w \in [Nodes -> Nat] /\ w[v] <= w[u] + e
      <4> HIDE DEF w
      <4>1. QED
        BY <2>2, <3>5, UnboundedType DEF Shortest
    <3>7. w[v] \in Nat /\ w[u] \in Nat /\ c \in Nat /\ e \in Nat
          /\ s.dist[v] = s.dist[u] + e /\ s.dist[u] \in Nat
      <4>1. c \in Nat
        <5> HIDE DEF h
        <5>1. QED
          BY <3>4, CostBounds
      <4>2. w[v] \in Nat /\ w[u] \in Nat
        <5> HIDE DEF w
        <5>1. QED
          BY <3>6
      <4>3. QED
        BY <1>2, <2>2, <2>4, <4>1, <4>2
    <3>8. w[v] + c <= s.dist[v]
      <4> HIDE DEF w, c, e
      <4>1. QED
        BY <3>3, <3>6, <3>7
    <3>9. QED
      BY <3>3, <3>4, <3>8
  <2>8. QED
    BY <2>6, <2>7
<1>4. \A v \in Nodes : v \in P
  <2> HIDE DEF P
  <2>1. QED
    BY <1>2, <1>3, RankInduction
<1>5. QED
  BY <1>4

-----------------------------------------------------------------------------
(* The routes. *)

\* RunDijkstra and LookUpAddr lead a node along cheapest paths over the links it knows:
\* for all links and reputations whose paths a word holds the cost of.
THEOREM NextHopsCheapest ==
  ASSUME NEW links \in SUBSET Pairs, NEW rep \in Reputations8, NEW me \in Nodes,
         NEW k, Holds(rep, k)
  PROVE  Cheapest(links, rep, me, NextHops(links, rep, me))
<1> DEFINE s == Run(links, rep, me)[Turns(links)]
           hops == NextHops(links, rep, me)
           first == FirstHops(s.previous, me)
<1>1. Searching(links, rep, me, k, s) /\ s.pq = {}
  BY SearchEnds
<1>2. \A d \in Nodes : hops[d] = IF d = me \/ s.dist[d] = Unreachable THEN NoAddress
                                ELSE IF {me, d} \in links THEN d ELSE first[d]
  BY DEF NextHops
<1>3. Distances(links, rep, me) = DistancesOf(s)
  BY DistancesFound
<1>4. s.dist \in [Nodes -> Nat]
  <2> HIDE DEF s
  <2>1. QED
    BY <1>1, UnreachablePositive DEF Searching, Searches
<1>5. ASSUME NEW d \in Nodes \ {me}
      PROVE  IF Distances(links, rep, d)[me] >= Unbounded THEN hops[d] = NoAddress
             ELSE IF {me, d} \in links THEN hops[d] = d
             ELSE /\ hops[d] \in Linked(links, me)
                  /\ Distances(links, rep, d)[me] =
                       Distances(links, rep, d)[hops[d]] + Cost(rep, me, hops[d])
  <2> DEFINE w == Distances(links, rep, d)
  <2> HIDE DEF s, hops, w
  <2>1. Shortest(links, rep, d, w)
    BY DistancesFound DEF w
  <2>2. w[me] = DistancesOf(s)[d]
    BY <1>3, DistancesSymmetric DEF w
  <2>3. w[me] = Unbounded <=> s.dist[d] = Unreachable
    <3>1. \A v \in Nodes : DistancesOf(s)[v] = Unbounded <=> s.dist[v] = Unreachable
      BY <1>1, SearchShortest
    <3>2. QED
      BY <2>2, <3>1
  <2>4. w \in [Nodes -> Nat] /\ w[me] <= Unbounded
    BY <2>1, UnboundedType DEF Shortest
  <2>5. CASE s.dist[d] = Unreachable
    BY <1>2, <2>3, <2>4, <2>5, UnboundedType DEF w
  <2>6. CASE s.dist[d] # Unreachable /\ {me, d} \in links
    <3>1. ~(w[me] >= Unbounded)
      BY <2>3, <2>4, <2>6, UnboundedType
    <3>2. QED
      BY <1>2, <2>6, <3>1 DEF w
  <2>7. CASE s.dist[d] # Unreachable /\ {me, d} \notin links
    <3>1. ~(w[me] >= Unbounded) /\ w[me] = s.dist[d]
      BY <2>2, <2>3, <2>4, <2>7, UnboundedType DEF DistancesOf
    <3> DEFINE h == first[d]
               wh == Distances(links, rep, h)
               c == Cost(rep, me, h)
    <3>2. hops[d] = h
      BY <1>2, <2>7
    <3>3. h \in Linked(links, me) /\ wh[d] + c <= s.dist[d]
      BY <1>1, <2>7, FirstHop
    <3> HIDE DEF h
    <3>4. h \in Nodes
      BY <3>3, LinkedNodes
    <3>5. wh[d] = w[h]
      BY <3>4, DistancesSymmetric DEF w
    <3>6. c \in Nat
      BY <3>4, CostBounds
    <3>7. w[me] <= w[h] + c
      BY <2>1, <3>3 DEF Shortest
    <3> HIDE DEF c, wh
    <3>8. w[me] = w[h] + c
      BY <1>4, <2>4, <3>1, <3>3, <3>4, <3>5, <3>6, <3>7
    <3>9. QED
      BY <2>7, <3>1, <3>2, <3>3, <3>8 DEF w, c
  <2>8. QED
    BY <2>5, <2>6, <2>7
<1>6. QED
  <2> HIDE DEF hops
  <2>1. Cheapest(links, rep, me, hops)
    BY <1>5 DEF Cheapest
  <2>2. QED
    BY <2>1 DEF hops
=============================================================================
