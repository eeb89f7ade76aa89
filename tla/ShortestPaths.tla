---------------------------- MODULE ShortestPaths ----------------------------
(***************************************************************************)
(* RoutingTable::RunDijkstra: the next hops a node reads from the links in *)
(* its table, at costs that grow as reputations fall, and the cheapest     *)
(* routes it ought to find.                                                *)
(***************************************************************************)
EXTENDS Naturals, FiniteSets

CONSTANTS
  Nodes,  \* addresses of nodes, as numbers: equal distances are told apart by them
  Word    \* costs and distances are numbers below Word, 65536 in the code

NoAddress == 0  \* 0.0.0.0

ASSUME NodesAssumption == IsFiniteSet(Nodes) /\ Nodes \subseteq Nat \ {NoAddress}
ASSUME WordAssumption == Word \in Nat /\ Word > 1

\* The distance of a node that no path has reached, UINT16_MAX.
Unreachable == Word - 1

\* The cost of the link between u and v.
Cost(rep, u, v) == (1000 \div (rep[u] + 1) + 1000 \div (rep[v] + 1)) \div 2

Linked(links, u) == {v \in Nodes : {u, v} \in links}

-----------------------------------------------------------------------------
(* The algorithm: distances, the node before each on its path, and the     *)
(* priority queue of distances and nodes.                                  *)

Start(me) ==
  [dist |-> [n \in Nodes |-> IF n = me THEN 0 ELSE Unreachable],
   previous |-> [n \in Nodes |-> NoAddress],
   pq |-> {<<0, me>>}]

\* The entry to pop: the least distance and, among these, the least address.
Top(pq) ==
  CHOOSE t \in pq : \A o \in pq : t[1] < o[1] \/ (t[1] = o[1] /\ t[2] <= o[2])

\* Fault: all links cost the same.
ThroughHops(rep, d, u, v) == d + 1

\* The distance of v by way of u at distance d, added in a word.
Through(rep, d, u, v) == (d + Cost(rep, u, v)) % Word

\* One turn of the loop: pop an entry and, unless it is out of date, relax the
\* links of its node.
Pop(links, rep, s) ==
  LET top == Top(s.pq)
      d == top[1]
      u == top[2]
      new == [v \in Nodes |-> Through(rep, d, u, v)]
      closer == {v \in Linked(links, u) : new[v] < s.dist[v]}
  IN  IF d > s.dist[u]
        THEN [s EXCEPT !.pq = @ \ {top}]
        ELSE [dist |-> [v \in Nodes |-> IF v \in closer THEN new[v] ELSE s.dist[v]],
              previous |-> [v \in Nodes |-> IF v \in closer THEN u ELSE s.previous[v]],
              pq |-> (s.pq \ {top}) \cup {<<new[v], v>> : v \in closer}]

\* As long as sums stay below Word a link is relaxed once from either end, so
\* that the queue is empty after so many turns.
Turns(links) == 2 * Cardinality(links) + 1

\* The algorithm after k turns.
Run(links, rep, me) ==
  LET run[k \in Nat] ==
        IF k = 0 THEN Start(me)
        ELSE LET s == run[k - 1] IN IF s.pq = {} THEN s ELSE Pop(links, rep, s)
  IN  run

\* The first node after me on the path that previous gives to a node.
FirstHops(previous, me) ==
  LET first[v \in {n \in Nodes : previous[n] # NoAddress}] ==
        IF previous[v] = me THEN v ELSE first[previous[v]]
  IN  first

\* RunDijkstra and LookUpAddr for the node me: the next hop to each destination,
\* NoAddress for those it has no path to and for itself.  A neighbour is
\* reached directly, whatever the link costs.
NextHops(links, rep, me) ==
  LET found == Run(links, rep, me)[Turns(links)]
  IN  [d \in Nodes |-> IF d = me \/ found.dist[d] = Unreachable THEN NoAddress
                       ELSE IF {me, d} \in links THEN d
                       ELSE FirstHops(found.previous, me)[d]]

-----------------------------------------------------------------------------
(* The reference: the cost of the cheapest path to d of at most k links.   *)

Unbounded == 1000 * Cardinality(Nodes) + 1

Least(S) == CHOOSE x \in S : \A y \in S : x <= y

Within(links, rep, d) ==
  LET within[k \in Nat] ==
        IF k = 0 THEN [n \in Nodes |-> IF n = d THEN 0 ELSE Unbounded]
        ELSE LET w == within[k - 1]
             IN  [n \in Nodes |-> Least({w[n]} \cup
                   {w[h] + Cost(rep, n, h) : h \in Linked(links, n)})]
  IN  within

Distances(links, rep, d) == Within(links, rep, d)[Cardinality(Nodes)]

\* Whether hops leads me over links towards every destination it can reach, and
\* along a cheapest path to those that are not its neighbours.
Cheapest(links, rep, me, hops) ==
  \A d \in Nodes \ {me} :
    LET dist == Distances(links, rep, d)
    IN  IF dist[me] >= Unbounded THEN hops[d] = NoAddress
        ELSE IF {me, d} \in links THEN hops[d] = d
        ELSE /\ hops[d] \in Linked(links, me)
             /\ dist[me] = dist[hops[d]] + Cost(rep, me, hops[d])

=============================================================================
