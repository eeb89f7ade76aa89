---------------------------- MODULE RoundControl ----------------------------
(***************************************************************************)
(* Where everybody is: every handler, timer and delayed call of a round on *)
(* a connected network that loses nothing keeps Control, the part of the   *)
(* inductive invariant about stages, lists, timers and messages.  A lemma  *)
(* of its own says what a step does to the stages, whichever handler takes *)
(* it: an advance of one node (Advance, Traffic), the service of the next  *)
(* child (ServeAt), the last report (GatherMove), the turn to the children *)
(* (TurnMove), the end (EndMove).                                          *)
(***************************************************************************)
EXTENDS RoundInvariant, SaharaSyncProofs, Induction

USE DEF Out, Hello, Gather, Due, Asking, Served, Up, Asked, Down, Awaiting, End

-----------------------------------------------------------------------------
(***************************************************************************)
(* The ancestors of a node, which are defined level by level.              *)
(***************************************************************************)
Parents(S) == {parent[x] : x \in S \cap Nodes}

Levels(up, n, U) ==
  /\ up \in [Nat -> SUBSET U]
  /\ Ancestors(n) = up[Cardinality(Nodes)]
  /\ up[0] = {n}
  /\ \A k \in Nat : up[k + 1] = up[k] \cup Parents(up[k])

\* The recursion of Ancestors, as a function and its values.
LEMMA AncestorsLevels ==
  ASSUME NEW n
  PROVE  \E U, up : Levels(up, n, U)
<1> DEFINE U == {n} \cup Parents(Nodes)
           step == [s \in SUBSET U |-> s \cup Parents(s)]
           Is(f) == f = [k \in Nat |-> IF k = 0 THEN {n} ELSE f[k - 1] \cup Parents(f[k - 1])]
<1>1. {n} \in SUBSET U /\ step \in [SUBSET U -> SUBSET U]
  BY DEF Parents
<1>2. PICK f \in [Nat -> SUBSET U] : f[0] = {n} /\ \A k \in Nat : f[k + 1] = step[f[k]]
  <2> HIDE DEF U, step
  <2>1. \E f \in [Nat -> SUBSET U] : Iterates(f, {n}, step)
    BY <1>1, Recursion
  <2>2. QED
    BY <2>1 DEF Iterates
<1>3. ASSUME NEW k \in Nat, k # 0 PROVE f[k] = f[k - 1] \cup Parents(f[k - 1])
  <2>1. k - 1 \in Nat /\ (k - 1) + 1 = k
    BY <1>3
  <2>2. f[k] = step[f[k - 1]] /\ f[k - 1] \in SUBSET U
    BY <1>2, <2>1
  <2>3. QED
    <3> HIDE DEF U
    <3>1. QED
      BY <2>2
<1>4. Is(f)
  <2>1. f = [k \in Nat |-> f[k]]
    OBVIOUS
  <2>2. \A k \in Nat : f[k] = IF k = 0 THEN {n} ELSE f[k - 1] \cup Parents(f[k - 1])
    BY <1>2, <1>3
  <2>3. QED
    BY <2>1, <2>2
<1>5. Ancestors(n) = (CHOOSE g : Is(g))[Cardinality(Nodes)]
  BY DEF Ancestors, Parents
<1> DEFINE g == CHOOSE h : Is(h)
<1>6. Is(g)
  <2> HIDE DEF Is
  <2>1. QED
    BY <1>4
<1>7. g[0] = {n} /\ \A k \in Nat : g[k + 1] = g[k] \cup Parents(g[k])
  <2> HIDE DEF g
  <2>1. g[0] = {n}
    BY <1>6
  <2>2. ASSUME NEW k \in Nat PROVE g[k + 1] = g[k] \cup Parents(g[k])
    <3>1. k + 1 \in Nat /\ k + 1 # 0 /\ (k + 1) - 1 = k
      OBVIOUS
    <3>2. g[k + 1] = IF k + 1 = 0 THEN {n} ELSE g[(k + 1) - 1] \cup Parents(g[(k + 1) - 1])
      BY <1>6, <3>1
    <3>3. QED
      BY <3>1, <3>2
  <2>3. QED
    BY <2>1, <2>2
<1>8. \A k \in Nat : g[k] = f[k]
  <2> DEFINE P == {k \in Nat : g[k] = f[k]}
  <2>1. 0 \in P
    BY <1>2, <1>7
  <2>2. ASSUME NEW k \in Nat, k \in P PROVE k + 1 \in P
    <3>1. k + 1 \in Nat /\ k + 1 # 0 /\ (k + 1) - 1 = k
      OBVIOUS
    <3>2. f[k + 1] = f[k] \cup Parents(f[k])
      BY <1>3, <3>1
    <3> HIDE DEF g
    <3>3. QED
      BY <1>7, <2>2, <3>1, <3>2
  <2>3. \A k \in Nat : k \in P
    <3> HIDE DEF P
    <3>1. QED
      BY <2>1, <2>2, SetInduction
  <2>4. QED
    BY <2>3
<1>9. Cardinality(Nodes) \in Nat
  BY NodesAssumption, FS_CardinalityType
<1>10. Ancestors(n) = f[Cardinality(Nodes)]
  <2> HIDE DEF g
  <2>1. Ancestors(n) = g[Cardinality(Nodes)]
    BY <1>5 DEF g
  <2>2. QED
    BY <2>1, <1>8, <1>9
<1>11. \A k \in Nat : f[k + 1] = f[k] \cup Parents(f[k])
  <2>1. ASSUME NEW k \in Nat PROVE f[k + 1] = f[k] \cup Parents(f[k])
    <3>1. k + 1 \in Nat /\ k + 1 # 0 /\ (k + 1) - 1 = k
      OBVIOUS
    <3>2. QED
      BY <1>3, <3>1
  <2>2. QED
    BY <2>1
<1>12. Levels(f, n, U)
  <2> HIDE DEF U
  <2>1. QED
    BY <1>2, <1>10, <1>11 DEF Levels
<1>13. QED
  <2> HIDE DEF U
  <2>1. QED
    BY <1>12

\* The ancestors hold the node and, with a node, its parent if that is a node;
\* and they are in every set that is closed in this way.
LEMMA AncestorsClosed ==
  ASSUME NEW n \in Nodes
  PROVE  /\ n \in Ancestors(n)
         /\ \A x \in Ancestors(n) \cap Nodes : parent[x] \in Nodes => parent[x] \in Ancestors(n)
         /\ \A C : n \in C /\ Parents(C) \subseteq C => Ancestors(n) \subseteq C
<1>1. PICK U, up : Levels(up, n, U)
  BY AncestorsLevels
<1>2. /\ up \in [Nat -> SUBSET U]
      /\ Ancestors(n) = up[Cardinality(Nodes)]
      /\ up[0] = {n}
      /\ \A k \in Nat : up[k + 1] = up[k] \cup Parents(up[k])
  BY <1>1 DEF Levels
<1> DEFINE N == Cardinality(Nodes)
           Closed(k) == \A x \in up[k] \cap Nodes : parent[x] \in Nodes => parent[x] \in up[k]
           Size(k) == Cardinality(up[k] \cap Nodes)
<1>3. N \in Nat
  BY NodesAssumption, FS_CardinalityType
<1>4. ASSUME NEW k \in Nat PROVE IsFiniteSet(up[k] \cap Nodes) /\ Size(k) \in Nat /\ Size(k) <= N
  <2>1. up[k] \cap Nodes \in SUBSET Nodes
    OBVIOUS
  <2>2. QED
    BY <2>1, NodesAssumption, FS_Subset, FS_CardinalityType
<1>5. \A k \in Nat : n \in up[k]
  <2> DEFINE P == {k \in Nat : n \in up[k]}
  <2>1. 0 \in P
    BY <1>2
  <2>2. \A k \in Nat : k \in P => k + 1 \in P
    BY <1>2
  <2>3. \A k \in Nat : k \in P
    <3> HIDE DEF P
    <3>1. QED
      BY <2>1, <2>2, SetInduction
  <2>4. QED
    BY <2>3
<1>6. ASSUME NEW k \in Nat, Closed(k) PROVE Closed(k + 1)
  <2>1. up[k + 1] = up[k] \cup Parents(up[k])
    BY <1>2
  <2>2. \A x \in Parents(up[k]) : x \in Nodes => x \in up[k]
    BY <1>6 DEF Parents
  <2>3. \A x \in up[k + 1] \cap Nodes : x \in up[k]
    BY <2>1, <2>2
  <2>4. ASSUME NEW x \in up[k + 1] \cap Nodes, parent[x] \in Nodes PROVE parent[x] \in up[k + 1]
    <3>1. x \in up[k] \cap Nodes
      BY <2>3
    <3>2. parent[x] \in up[k]
      BY <3>1, <2>4, <1>6
    <3>3. QED
      BY <3>2, <2>1
  <2>5. QED
    BY <2>4
<1>7. ASSUME NEW k \in Nat, ~Closed(k) PROVE Size(k + 1) >= Size(k) + 1
  <2>1. up[k + 1] = up[k] \cup Parents(up[k])
    BY <1>2
  <2>2. PICK x \in up[k] \cap Nodes : parent[x] \in Nodes /\ parent[x] \notin up[k]
    BY <1>7
  <2>3. (up[k] \cap Nodes) \cup {parent[x]} \subseteq up[k + 1] \cap Nodes
    BY <2>1, <2>2 DEF Parents
  <2>4. Cardinality((up[k] \cap Nodes) \cup {parent[x]}) = Size(k) + 1
    BY <2>2, <1>4, FS_AddElement
  <2>5. IsFiniteSet(up[k + 1] \cap Nodes) /\ Size(k + 1) \in Nat
    BY <1>4, k + 1 \in Nat
  <2>6. Cardinality((up[k] \cap Nodes) \cup {parent[x]}) <= Size(k + 1)
    BY <2>3, <2>5, FS_Subset
  <2>7. QED
    BY <2>4, <2>6, <2>5, <1>4
<1>8. \A k \in Nat : Closed(k) \/ Size(k) >= k + 1
  <2> DEFINE P == {k \in Nat : Closed(k) \/ Size(k) >= k + 1}
  <2>1. 0 \in P
    <3>1. up[0] \cap Nodes = {n}
      BY <1>2
    <3>2. Size(0) = 1
      BY <3>1, FS_Singleton
    <3>3. QED
      BY <3>2
  <2>2. ASSUME NEW k \in Nat, k \in P PROVE k + 1 \in P
    <3>1. CASE Closed(k)
      BY <3>1, <1>6
    <3>2. CASE ~Closed(k)
      <4>1. Size(k + 1) >= Size(k) + 1 /\ Size(k) >= k + 1
        BY <3>2, <1>7, <2>2
      <4>2. Size(k) \in Nat /\ Size(k + 1) \in Nat
        BY <1>4, k + 1 \in Nat
      <4> HIDE DEF Size, Closed
      <4>3. QED
        BY <4>1, <4>2
    <3>3. QED
      BY <3>1, <3>2
  <2>3. \A k \in Nat : k \in P
    <3> HIDE DEF P
    <3>1. QED
      BY <2>1, <2>2, SetInduction
  <2>4. QED
    BY <2>3
<1>9. Closed(N)
  <2>1. ~(Size(N) >= N + 1)
    <3>1. Size(N) \in Nat /\ Size(N) <= N
      BY <1>3, <1>4
    <3> HIDE DEF Size, N
    <3>2. QED
      BY <3>1, <1>3
  <2> HIDE DEF Closed, Size, N
  <2>2. QED
    BY <2>1, <1>8, <1>3
<1>10. ASSUME NEW C, n \in C, Parents(C) \subseteq C PROVE Ancestors(n) \subseteq C
  <2> DEFINE P == {k \in Nat : up[k] \subseteq C}
  <2>1. 0 \in P
    BY <1>2, <1>10
  <2>2. ASSUME NEW k \in Nat, k \in P PROVE k + 1 \in P
    <3>1. Parents(up[k]) \subseteq Parents(C)
      BY <2>2 DEF Parents
    <3>2. QED
      BY <3>1, <2>2, <1>2, <1>10
  <2>3. \A k \in Nat : k \in P
    <3> HIDE DEF P
    <3>1. QED
      BY <2>1, <2>2, SetInduction
  <2>4. QED
    BY <2>3, <1>2, <1>3
<1>11. QED
  BY <1>2, <1>3, <1>5, <1>9, <1>10

\* A tree: whoever has a parent is led to the root.
LEMMA RootedReaches ==
  ASSUME TypeOK, RootedInv
  PROVE  TreeRooted
<1> SUFFICES ASSUME NEW n \in Nodes, parent[n] # NoNode, Root \notin Ancestors(n)
             PROVE  FALSE
  BY DEF TreeRooted
<1> DEFINE T == {x \in Nodes : parent[x] \in Nodes}
           C == Ancestors(n) \cap Nodes
<1>1. n \in T
  BY DEF TypeOK, Authors
<1>2. Parents(T) \subseteq T
  BY DEF Parents, RootedInv
<1>3. Ancestors(n) \subseteq T
  BY <1>1, <1>2, AncestorsClosed
<1>4. C \in SUBSET (Nodes \ {Root}) /\ C # {} /\ \A x \in C : parent[x] \in Nodes
  BY <1>3, AncestorsClosed
<1>5. PICK x \in C : parent[x] \notin C
  <2> HIDE DEF C
  <2>1. QED
    BY <1>4 DEF RootedInv
<1>6. QED
  BY <1>4, <1>5, AncestorsClosed

-----------------------------------------------------------------------------
(***************************************************************************)
(* What the stages of a tree say about each other.                         *)
(***************************************************************************)
LEMMA Stages ==
  ASSUME NEW st, TreeInv(st), NEW n \in Nodes
  PROVE  st[n] \in Nat /\ st[n] <= End
BY DEF TreeInv

\* The parent of a node of the tree, and the stages it can be in.
LEMMA ParentStage ==
  ASSUME NEW st, TreeInv(st), NEW c \in Nodes \ {Root}, st[c] # Out
  PROVE  /\ parent[c] \in Nodes /\ parent[c] # c /\ {c, parent[c]} \in Edges
         /\ st[parent[c]] \in Nat /\ st[parent[c]] # Out
         /\ st[c] <= Served => st[parent[c]] = Gather
         /\ st[c] = Up => Gather <= st[parent[c]] /\ st[parent[c]] <= Down
         /\ st[c] = Asked => st[parent[c]] = Awaiting
         /\ st[c] >= Down => st[parent[c]] >= Awaiting
<1>1. parent[c] \in Nodes /\ {c, parent[c]} \in Edges /\ st[parent[c]] # Out
  BY DEF TreeInv
<1>0. parent[c] # c
  BY <1>1, EdgesAssumption
<1>2. st[parent[c]] \in Nat
  BY <1>1, Stages
<1>3. Follows(st[c], st[parent[c]])
  BY DEF TreeInv
<1>4. QED
  BY <1>0, <1>1, <1>2, <1>3 DEF Follows

\* A set of nodes of the tree is left by the parent of one of them.
LEMMA Leaves ==
  ASSUME NEW st, RootedInv, TreeInv(st), NEW C \in SUBSET (Nodes \ {Root}),
         C # {}, \A c \in C : st[c] # Out
  PROVE  \E c \in C : parent[c] \notin C
<1>1. \A c \in C : parent[c] \in Nodes
  BY DEF TreeInv
<1>2. QED
  BY <1>1 DEF RootedInv

\* As long as a node is on the way up the root gathers, and once one is on the
\* way down the root has turned.
LEMMA RootStage ==
  ASSUME NEW st, RootedInv, TreeInv(st), NEW x \in Nodes \ {Root}
  PROVE  /\ st[x] # Out /\ st[x] <= Served => st[Root] = Gather
         /\ st[x] >= Asked => st[Root] >= Awaiting
<1>0. \A c \in Nodes : st[c] \in Nat
  BY DEF TreeInv
<1>1. ASSUME st[x] # Out, st[x] <= Served PROVE st[Root] = Gather
  <2> DEFINE C == {c \in Nodes \ {Root} : st[c] # Out /\ st[c] <= Served}
  <2>1. PICK c \in C : parent[c] \notin C
    <3>1. C \in SUBSET (Nodes \ {Root}) /\ C # {} /\ \A c \in C : st[c] # Out
      BY <1>1
    <3> HIDE DEF C
    <3>2. QED
      BY <3>1, Leaves
  <2>2. parent[c] \in Nodes /\ st[parent[c]] = Gather
    BY <2>1, <1>0 DEF TreeInv, Follows
  <2>3. QED
    BY <2>1, <2>2
<1>2. ASSUME st[x] >= Asked PROVE st[Root] >= Awaiting
  <2> DEFINE C == {c \in Nodes \ {Root} : st[c] >= Asked}
  <2>1. PICK c \in C : parent[c] \notin C
    <3>1. C \in SUBSET (Nodes \ {Root}) /\ C # {} /\ \A c \in C : st[c] # Out
      BY <1>2, <1>0
    <3> HIDE DEF C
    <3>2. QED
      BY <3>1, Leaves
  <2>2. st[c] \in Nat /\ st[c] >= Asked /\ c \in Nodes \ {Root} /\ st[c] # Out
    BY <2>1, <1>0
  <2>3. parent[c] \in Nodes /\ Follows(st[c], st[parent[c]])
    BY <2>2 DEF TreeInv
  <2>4. st[parent[c]] \in Nat
    BY <2>3, <1>0
  <2>5. st[parent[c]] >= Awaiting
    BY <2>2, <2>3, <2>4 DEF Follows
  <2>6. QED
    BY <2>1, <2>3, <2>4, <2>5
<1>3. QED
  BY <1>1, <1>2

\* When the root has every report, all nodes have reported; and if all nodes of
\* the tree have answered a hello, the tree is the network.
LEMMA AllReached ==
  ASSUME NEW st, TreeInv(st), Nominal, \A n \in Nodes : st[n] # Out => st[n] >= Gather
  PROVE  \A n \in Nodes : st[n] >= Gather
<1> DEFINE S == {x \in Nodes : st[x] # Out}
<1>1. S \in SUBSET Nodes /\ Root \in S
  BY NodesAssumption DEF TreeInv
<1>2. ASSUME NEW x \in S, NEW y \in Nodes \ S, {x, y} \in Edges PROVE FALSE
  <2>1. y \in Neighbours(x)
    BY <1>2 DEF Neighbours
  <2>2. QED
    BY <2>1 DEF TreeInv
<1>3. S = Nodes
  <2> HIDE DEF S
  <2>1. QED
    BY <1>1, <1>2 DEF Nominal
<1>4. QED
  BY <1>3

\* When the root has the last report, every other node has reported.
LEMMA RootDue ==
  ASSUME NEW st, RootedInv, TreeInv(st), Nominal, st[Root] = Due
  PROVE  \A n \in Nodes \ {Root} : st[n] = Up
<1>1. \A n \in Nodes : st[n] \in Nat
  BY DEF TreeInv
<1>2. ASSUME NEW n \in Nodes \ {Root}, st[n] # Out PROVE st[n] = Up
  <2>1. ~(st[n] <= Served) /\ ~(st[n] >= Asked)
    BY <1>2, RootStage
  <2>2. QED
    BY <2>1, <1>1
<1>3. \A n \in Nodes : st[n] # Out => st[n] >= Gather
  BY <1>2
<1>4. \A n \in Nodes : st[n] >= Gather
  BY <1>3, AllReached
<1>5. QED
  BY <1>2, <1>4

-----------------------------------------------------------------------------
(***************************************************************************)
(* A round that is quiet has ended.                                        *)
(***************************************************************************)
\* In a finite tree not every node of a set has a child in the set.
LEMMA Leaf ==
  ASSUME NEW st, RootedInv, TreeInv(st), NEW G \in SUBSET Nodes,
         \A n \in G : st[n] # Out,
         \A n \in G : \E c \in G \ {Root} : parent[c] = n
  PROVE  G = {}
<1> DEFINE C == {c \in G \ {Root} : parent[c] \in G}
           f == [c \in C |-> parent[c]]
<1>1. f \in Surjection(C, G)
  BY DEF Surjection
<1>2. IsFiniteSet(G)
  BY FS_Subset, NodesAssumption
<1>3. C \in SUBSET G
  OBVIOUS
<1>4. IsFiniteSet(C) /\ Cardinality(C) <= Cardinality(G)
  <2> HIDE DEF C
  <2>1. QED
    BY <1>2, <1>3, FS_Subset
<1>5. Cardinality(G) <= Cardinality(C)
  <2> HIDE DEF C, f
  <2>1. QED
    BY <1>1, <1>4, FS_Surjection
<1>6. Cardinality(G) = Cardinality(C)
  <2> HIDE DEF C
  <2>1. Cardinality(G) \in Nat /\ Cardinality(C) \in Nat
    BY <1>2, <1>4, FS_CardinalityType
  <2>2. QED
    BY <2>1, <1>4, <1>5
<1>7. G = C
  <2> HIDE DEF C
  <2>1. QED
    BY <1>2, <1>3, <1>6, FS_Subset
<1>8. G \in SUBSET (Nodes \ {Root}) /\ \A n \in G : parent[n] \in G
  BY <1>7
<1>9. QED
  BY <1>8, Leaves

\* A state in which nothing is in flight and no retry would change anything is one
\* in which every node has written its block: the root never starts a round too early.
LEMMA Ended ==
  ASSUME NEW st, TypeOK, Nominal, ServiceInv,
         RootedInv, TreeInv(st), ListInv(st), ServeInv(st), TimerInv(st), HelloInv(st),
         Quiet, RoundOver
  PROVE  \A n \in Nodes : st[n] = End
<1>1. \A n \in Nodes : st[n] \in Nat /\ st[n] <= End
  BY DEF TreeInv
<1>2. net = {} /\ \A n \in Nodes : ~Talks(n)
  BY DEF Quiet, Talks
<1>3. ASSUME NEW n \in Nodes \ {Root} PROVE st[n] \notin {Hello, Due, Served, Asked, Down}
  <2>1. st[n] # Hello
    BY <1>2 DEF HelloInv
  <2>2. st[n] # Served /\ st[n] # Asked
    BY <1>2 DEF ServeInv, IdleServes, AskingQueued, ServedTalk, GatherWaits
  <2>3. st[n] # Due /\ st[n] # Down
    BY DEF Quiet, TimerInv
  <2>4. QED
    BY <2>1, <2>2, <2>3
<1>4. ASSUME NEW c \in Nodes \ {Root}, st[c] = Asking PROVE FALSE
  <2> DEFINE p == parent[c]
  <2>1. p \in Nodes /\ st[p] = Gather
    <3>1. st[c] # Out /\ st[c] <= Served
      BY <1>4
    <3>2. QED
      BY <3>1, ParentStage
  <2>2. c \in Waits(p)
    BY <1>2, <1>4 DEF ServeInv, IdleServes, AskingQueued, ServedTalk, GatherWaits
  <2>3. requests[p] # <<>>
    BY <2>2 DEF Waits
  <2>4. ~idle[p]
    BY <2>1, <2>3 DEF ServiceInv
  <2>5. \E o \in Below(st, p, Hello) : st[o] = Served
    BY <2>1, <2>4 DEF ServeInv, IdleServes, AskingQueued, ServedTalk, GatherWaits
  <2>6. QED
    BY <2>5, <1>3 DEF Below
<1> DEFINE G == {n \in Nodes : st[n] = Gather}
<1>5. ASSUME NEW n \in G PROVE Below(st, n, Hello) # {}
  <2>1. CASE n = Root
    <3>1. PICK y \in Nodes \ {Root} : {Root, y} \in Edges
      <4>1. {Root} \in SUBSET Nodes /\ {Root} # Nodes
        BY NodesAssumption DEF Nominal
      <4>2. PICK x \in {Root} : \E y \in Nodes \ {Root} : {x, y} \in Edges
        BY <4>1 DEF Nominal
      <4>3. QED
        BY <4>2
    <3>2. y \in Neighbours(Root)
      BY <3>1 DEF Neighbours
    <3>3. st[y] # Out /\ parent[y] = Root
      BY <2>1, <3>2 DEF TreeInv
    <3>4. QED
      BY <2>1, <3>1, <3>3, <1>1 DEF Below
  <2>2. CASE n # Root
    <3>1. kids[n] # {}
      BY <2>2 DEF TimerInv, Quiet
    <3>2. kids[n] = Below(st, n, Gather)
      BY DEF ListInv
    <3>3. QED
      BY <3>1, <3>2, <1>1 DEF Below
  <2>3. QED
    BY <2>1, <2>2
<1>6. G = {}
  <2>1. ASSUME NEW n \in G PROVE \E c \in G \ {Root} : parent[c] = n
    <3>1. PICK c \in Below(st, n, Hello) : st[c] < Up
      BY <1>5 DEF ServeInv, IdleServes, AskingQueued, ServedTalk, GatherWaits
    <3>2. c \in Nodes \ {Root} /\ parent[c] = n /\ st[c] # Out
      BY <3>1, <1>1 DEF Below
    <3>3. st[c] = Gather
      BY <3>1, <3>2, <1>1, <1>3, <1>4
    <3>4. QED
      BY <3>2, <3>3
  <2>2. G \in SUBSET Nodes /\ \A n \in G : st[n] # Out
    OBVIOUS
  <2> HIDE DEF G
  <2>3. QED
    BY <2>1, <2>2, Leaf
<1>7. ASSUME NEW n \in Nodes, st[n] = Awaiting PROVE FALSE
  <2>1. bfKids[n] \subseteq done[n] /\ done[n] # kids[n]
    BY <1>7 DEF TimerInv, RoundOver
  <2>2. /\ kids[n] = Below(st, n, Gather) /\ bfKids[n] = Below(st, n, Served)
        /\ done[n] \subseteq Below(st, n, Down)
    BY <1>7 DEF ListInv
  <2>3. \A c \in Below(st, n, Gather) : c \in Below(st, n, Served)
    <3> SUFFICES ASSUME NEW c \in Below(st, n, Gather) PROVE st[c] >= Served
      BY DEF Below
    <3>1. c \in Nodes \ {Root} /\ parent[c] = n /\ st[c] \in Nat /\ st[c] >= Gather
      BY <1>1 DEF Below
    <3>2. st[c] # Out /\ st[parent[c]] = Awaiting
      BY <3>1, <1>7
    <3>3. st[c] <= Served => st[parent[c]] = Gather
      BY <3>1, <3>2, ParentStage
    <3>4. QED
      BY <3>1, <3>2, <3>3
  <2>4. Below(st, n, Down) \subseteq Below(st, n, Gather)
    BY <1>1 DEF Below
  <2>5. QED
    BY <2>1, <2>2, <2>3, <2>4
<1>8. st[Root] = End
  <2>1. st[Root] # Hello
    BY <1>2, NodesAssumption DEF HelloInv
  <2>2. st[Root] # Due
    BY NodesAssumption DEF Quiet, TimerInv
  <2>3. QED
    BY <2>1, <2>2, <1>6, <1>7, NodesAssumption DEF TreeInv
<1> DEFINE U == {n \in Nodes \ {Root} : st[n] = Up}
<1>9. ASSUME NEW n \in Nodes, st[n] # Out PROVE n \in U \/ st[n] = End
  <2>1. CASE n = Root
    BY <2>1, <1>8
  <2>2. CASE n # Root
    BY <2>2, <1>1, <1>3, <1>4, <1>6, <1>7, <1>9
  <2>3. QED
    BY <2>1, <2>2
<1>10. U = {}
  <2> SUFFICES ASSUME U # {} PROVE FALSE
    OBVIOUS
  <2>1. PICK c \in U : parent[c] \notin U
    <3>1. U \in SUBSET (Nodes \ {Root}) /\ \A c \in U : st[c] # Out
      OBVIOUS
    <3> HIDE DEF U
    <3>2. QED
      BY <3>1, Leaves
  <2>2. parent[c] \in Nodes /\ st[parent[c]] # Out /\ st[parent[c]] <= Down
    <3>1. c \in Nodes \ {Root} /\ st[c] # Out /\ st[c] = Up
      BY <2>1
    <3>2. QED
      BY <3>1, ParentStage
  <2>3. QED
    BY <2>1, <2>2, <1>9
<1>11. \A n \in Nodes : st[n] # Out => st[n] = End
  BY <1>9, <1>10
<1>12. \A n \in Nodes : st[n] >= Gather
  BY <1>11, AllReached
<1>13. QED
  BY <1>11, <1>12

-----------------------------------------------------------------------------
(***************************************************************************)
(* Steps in which no hello is sent or heard: what they keep.               *)
(***************************************************************************)
Advance(st, st2) ==
  /\ st2 \in [Nodes -> Nat]
  /\ \A x \in Nodes : /\ st2[x] <= End
                      /\ st2[x] = Out <=> st[x] = Out
                      /\ st2[x] = Hello <=> st[x] = Hello

\* A node that gathers goes on doing so.
LEMMA AdvanceGathered ==
  ASSUME NEW st, NEW st2, TreeInv(st), Advance(st, st2), NEW x \in Nodes
  PROVE  /\ st2[x] \in Nat /\ st[x] \in Nat
         /\ st2[x] >= Gather <=> st[x] >= Gather
         /\ st2[x] >= Hello <=> st[x] >= Hello
<1>1. st2[x] \in Nat /\ st[x] \in Nat
  BY Stages DEF Advance
<1>2. (st2[x] = 0 <=> st[x] = 0) /\ (st2[x] = 1 <=> st[x] = 1)
  BY DEF Advance
<1>3. QED
  BY <1>1, <1>2

\* The tree keeps its shape when the stages of a parent and its children fit.
LEMMA TreeStep ==
  ASSUME NEW st, NEW st2, TreeInv(st), Advance(st, st2), UNCHANGED parent,
         st2[Root] \in {Hello, Gather, Due, Awaiting, End},
         \A x \in Nodes \ {Root} : st[x] # Out => Follows(st2[x], st2[parent[x]])
  PROVE  TreeInv(st2)'
<1>1. st2 \in [Nodes -> Nat] /\ \A n \in Nodes : st2[n] <= End
  BY DEF Advance
<1>2. parent'[Root] = Root
  BY DEF TreeInv
<1>3. ASSUME NEW n \in Nodes \ {Root}, st2[n] # Out
      PROVE  /\ parent'[n] \in Nodes /\ {n, parent'[n]} \in Edges /\ st2[parent'[n]] # Out
             /\ Follows(st2[n], st2[parent'[n]])
  <2>1. st[n] # Out
    BY <1>3 DEF Advance
  <2>2. parent[n] \in Nodes /\ {n, parent[n]} \in Edges /\ st[parent[n]] # Out
    BY <2>1, ParentStage
  <2>3. st2[parent[n]] # Out
    BY <2>2 DEF Advance
  <2>4. QED
    BY <2>1, <2>2, <2>3
<1>4. ASSUME NEW n \in Nodes, st2[n] >= Gather, NEW y \in Neighbours(n) PROVE st2[y] # Out
  <2>1. st[n] >= Gather
    BY <1>4, AdvanceGathered
  <2>2. st[y] # Out /\ y \in Nodes
    BY <2>1 DEF TreeInv, Neighbours
  <2>3. QED
    BY <2>2 DEF Advance
<1>5. st2[Root] = Hello <=> st[Root] = Hello
  BY NodesAssumption DEF Advance
<1>6. st2[Root] = Hello => \A n \in Nodes \ {Root} : st2[n] = Out
  BY <1>5 DEF Advance, TreeInv
<1>7. st2[Root] # Hello => \A y \in Neighbours(Root) : parent'[y] = Root
  BY <1>5 DEF TreeInv
<1>8. QED
  BY <1>1, <1>2, <1>3, <1>4, <1>6, <1>7 DEF TreeInv

\* The tree stays rooted while nobody changes its parent.
LEMMA RootedStep == RootedInv /\ UNCHANGED parent => RootedInv'
BY DEF RootedInv

\* The settled nodes stay settled.
LEMMA SettledStep ==
  ASSUME NEW st, NEW st2, NEW Q, TreeInv(st), Advance(st, st2), UNCHANGED parent,
         SettledInv(st, Q), \A x \in Nodes : st2[x] >= Due => x \in Q
  PROVE  SettledInv(st2, Q)'
<1>1. ASSUME NEW x \in Q PROVE st2[x] >= Gather /\ parent'[x] \in Q
  BY AdvanceGathered DEF SettledInv
<1>2. ASSUME NEW c \in Nodes \ {Root}, st2[c] = Hello PROVE parent'[c] \notin Q
  BY <1>2 DEF SettledInv, Advance
<1>3. QED
  BY <1>1, <1>2 DEF SettledInv

\* The hellos are left alone by a step of another phase.
LEMMA HelloStep ==
  ASSUME NEW st, NEW st2, Advance(st, st2), UNCHANGED parent, HelloInv(st),
         net \in SUBSET Message,
         \A m : m.type \in HelloTypes => (m \in net' <=> m \in net)
  PROVE  HelloInv(st2)'
<1>1. \A x \in Nodes : st2[x] = Hello <=> st[x] = Hello
  BY DEF Advance
<1>2. ASSUME NEW m \in net', m.type = "ROOT_SR_HELLO"
      PROVE  st2[Root] = Hello /\ m = Msg("ROOT_SR_HELLO", Root, NoNode, {}, {Root})
  <2>1. m \in net
    BY <1>2 DEF HelloTypes
  <2>2. QED
    BY <2>1, <1>1, <1>2, NodesAssumption DEF HelloInv
<1>3. ASSUME NEW m \in net', m.type = "SR_HELLO"
      PROVE  /\ m.src # Root /\ st2[m.src] = Hello
             /\ m = Msg("SR_HELLO", m.src, parent'[m.src], {}, {Vote(m.src)})
  <2>1. m \in net
    BY <1>3 DEF HelloTypes
  <2>2. m.src \in Nodes
    BY <2>1 DEF Message
  <2>3. QED
    BY <2>1, <2>2, <1>1, <1>3 DEF HelloInv
<1>4. ASSUME NEW n \in Nodes, st2[n] = Hello
      PROVE  \E m \in net' : m.type \in HelloTypes /\ m.src = n
  BY <1>4, <1>1 DEF HelloInv
<1>5. QED
  BY <1>2, <1>3, <1>4 DEF HelloInv

\* So are the nodes that have heard none.
LEMMA FreshStep ==
  ASSUME NEW st, NEW st2, Advance(st, st2), FreshInv(st), UNCHANGED parent,
         \A n \in Nodes : st[n] = Out =>
           /\ kids'[n] = kids[n] /\ done'[n] = done[n] /\ bfKids'[n] = bfKids[n]
           /\ idle'[n] = idle[n] /\ requests'[n] = requests[n] /\ reset'[n] = reset[n]
           /\ tuples'[n] = tuples[n] /\ votes'[n] = votes[n]
  PROVE  FreshInv(st2)'
<1> SUFFICES ASSUME NEW n \in Nodes, st2[n] = Out, reset'[n]
             PROVE  /\ parent'[n] = NoNode /\ kids'[n] = {} /\ done'[n] = {} /\ bfKids'[n] = {}
                    /\ idle'[n] /\ requests'[n] = <<>> /\ tuples'[n] = {} /\ votes'[n] = {}
  BY DEF FreshInv
<1>1. st[n] = Out
  BY DEF Advance
<1>2. /\ kids'[n] = kids[n] /\ done'[n] = done[n] /\ bfKids'[n] = bfKids[n]
      /\ idle'[n] = idle[n] /\ requests'[n] = requests[n] /\ reset'[n] = reset[n]
      /\ tuples'[n] = tuples[n] /\ votes'[n] = votes[n]
  BY <1>1
<1>3. reset[n]
  BY <1>2
<1>4. /\ parent[n] = NoNode /\ kids[n] = {} /\ done[n] = {} /\ bfKids[n] = {}
      /\ idle[n] /\ requests[n] = <<>> /\ tuples[n] = {} /\ votes[n] = {}
  BY <1>1, <1>3 DEF FreshInv
<1>5. QED
  BY <1>2, <1>4

\* The child lists say the same as long as nobody passes a stage they tell apart.
LEMMA ListStep ==
  ASSUME NEW st, NEW st2, TreeInv(st), Advance(st, st2), ListInv(st),
         UNCHANGED <<parent, reset, kids, bfKids, done>>,
         \A x \in Nodes : \A k \in {Served, Up, Down, Awaiting, End} : st2[x] >= k <=> st[x] >= k,
         \A c \in Nodes : Acking(c)' <=> Acking(c)
  PROVE  ListInv(st2)'
<1>1. ASSUME NEW p PROVE /\ \A k \in {Gather, Served, Up, Down} : Below(st2, p, k)' = Below(st, p, k)
                         /\ \A c \in Below(st, p, Down) : Acking(c)' <=> Acking(c)
  BY AdvanceGathered DEF Below
<1> SUFFICES ASSUME NEW n \in Nodes, st2[n] # Out
             PROVE  /\ reset'[n] <=> st2[n] # End
                    /\ kids'[n] = Below(st2, n, Gather)'
                    /\ bfKids'[n] = Below(st2, n, Served)'
                    /\ st2[n] <= Asked => done'[n] = Below(st2, n, Up)'
                    /\ st2[n] = Down => done'[n] = {}
                    /\ st2[n] >= Awaiting => done'[n] = {c \in Below(st2, n, Down)' : ~Acking(c)'}
  BY DEF ListInv
<1>2. st[n] # Out
  BY DEF Advance
<1>3. st[n] \in Nat /\ st2[n] \in Nat /\ st[n] <= End /\ st2[n] <= End
  BY AdvanceGathered, Stages DEF Advance
<1>4. /\ st2[n] = End <=> st[n] = End
      /\ st2[n] <= Asked <=> st[n] <= Asked
      /\ st2[n] = Down <=> st[n] = Down
      /\ st2[n] >= Awaiting <=> st[n] >= Awaiting
  <2>1. /\ st2[n] >= 8 <=> st[n] >= 8
        /\ st2[n] >= 9 <=> st[n] >= 9
        /\ st2[n] >= 10 <=> st[n] >= 10
    OBVIOUS
  <2>2. QED
    BY <2>1, <1>3
<1>5. QED
  BY <1>1, <1>2, <1>4 DEF ListInv

-----------------------------------------------------------------------------
(***************************************************************************)
(* Messages.                                                               *)
(***************************************************************************)
LEMMA MsgParts ==
  ASSUME NEW t, NEW s, NEW d, NEW l, NEW v
  PROVE  /\ Msg(t, s, d, l, v).type = t /\ Msg(t, s, d, l, v).src = s
         /\ Msg(t, s, d, l, v).dst = d /\ Msg(t, s, d, l, v).links = l
         /\ Msg(t, s, d, l, v).votes = v
BY DEF Msg

\* The fields of a message in flight.
LEMMA MessageParts ==
  ASSUME NEW m \in Message
  PROVE  /\ m.type \in Types /\ m.src \in Nodes /\ m.dst \in Authors
         /\ m.links \in SUBSET Edges /\ m.votes \in SUBSET Authors
BY DEF Message, Types

\* Client, server and stage of every type of message.
LEMMA TalkParts ==
  ASSUME NEW m
  PROVE  /\ m.type = "ASK_BF" => /\ Exchange(m) /\ Client(m) = m.src /\ Server(m) = m.dst
                                 /\ StageOf(m.type) = Asking
         /\ m.type = "SEND_BF" => /\ Exchange(m) /\ Client(m) = m.dst /\ Server(m) = m.src
                                  /\ StageOf(m.type) = Served
         /\ m.type = "SEND_MISSING_C2P" => /\ Exchange(m) /\ Client(m) = m.src
                                           /\ Server(m) = m.dst /\ StageOf(m.type) = Served
         /\ m.type = "ASK_BF_P2C" => /\ Exchange(m) /\ Client(m) = m.dst /\ Server(m) = m.src
                                     /\ StageOf(m.type) = Asked
         /\ m.type = "SEND_BF_C2P" => /\ Exchange(m) /\ Client(m) = m.src
                                      /\ Server(m) = m.dst /\ StageOf(m.type) = Asked
         /\ m.type = "SEND_MISSING_P2C" => /\ Exchange(m) /\ Client(m) = m.dst
                                           /\ Server(m) = m.src /\ StageOf(m.type) = Asked
         /\ m.type = "SEND_MISSING_P2C_ACK" => ~Exchange(m)
         /\ m.type \in HelloTypes => ~Exchange(m)
         /\ Exchange(m) => m.type \notin HelloTypes /\ m.type # "SEND_MISSING_P2C_ACK"
         /\ StageOf(m.type) \in {Asking, Served, Asked}
BY DEF Exchange, Client, Server, StageOf, HelloTypes

\* A message to a node that there is a route to is not dropped.
LEMMA RoutedOne ==
  ASSUME NEW t, NEW s, NEW d, NEW l, NEW v, NEW known, d \in known
  PROVE  Routed({Msg(t, s, d, l, v)}, known) = {Msg(t, s, d, l, v)}
BY MsgParts DEF Routed

\* There is a route to the other end of a link that is known.
LEMMA LinkRoute ==
  ASSUME NEW n \in Nodes, NEW c \in Nodes, NEW links \in SUBSET Edges, {n, c} \in links
  PROVE  c \in RunDijkstra(n, links)
<1>1. n # c
  BY EdgesAssumption
<1>2. ASSUME NEW S \in SUBSET (Nodes \ {c}), n \in S
      PROVE  \E e \in links : e \cap S # {} /\ ~(e \subseteq S)
  BY <1>2
<1>3. QED
  BY <1>1, <1>2 DEF RunDijkstra

\* The messages in D are taken and those in A are sent.
Traffic(D, A) == net' = (net \ D) \cup A

\* What a step that drops D and sends A must show for the exchanges to be in order.
LEMMA TalkStep ==
  ASSUME NEW st, NEW st2, TalkInv(st), UNCHANGED parent, NEW D, NEW A, Traffic(D, A),
         \A m \in A : Exchange(m) =>
           /\ Client(m) \in Nodes \ {Root} /\ Server(m) = parent[Client(m)]
           /\ st2[Client(m)] = StageOf(m.type)
           /\ \A o \in net \ D : Exchange(o) => Client(o) # Client(m)
           /\ \A o \in A : Exchange(o) /\ Client(o) = Client(m) => o = m,
         \A m \in A : m.type = "SEND_MISSING_P2C_ACK" =>
           /\ m.src # Root /\ st2[m.src] >= Down /\ st2[parent[m.src]] = Awaiting
           /\ m = Msg(m.type, m.src, parent[m.src], {}, {}),
         \A o \in net \ D : Exchange(o) => st2[Client(o)] = st[Client(o)],
         \A o \in net \ D : o.type = "SEND_MISSING_P2C_ACK" =>
           st2[o.src] >= Down /\ st2[parent[o.src]] = Awaiting
  PROVE  TalkInv(st2)'
<1>0. net' = (net \ D) \cup A
  BY DEF Traffic
<1>1. ASSUME NEW m \in net', Exchange(m)
      PROVE  /\ Client(m) \in Nodes \ {Root} /\ Server(m) = parent[Client(m)]
             /\ st2[Client(m)] = StageOf(m.type)
  <2>1. CASE m \in A
    BY <1>1, <2>1
  <2>2. CASE m \in net \ D
    BY <1>1, <2>2 DEF TalkInv
  <2>3. QED
    BY <2>1, <2>2, <1>0
<1>2. ASSUME NEW m \in net', NEW o \in net', Exchange(m), Exchange(o), Client(m) = Client(o)
      PROVE  m = o
  <2>1. CASE m \in A /\ o \in A
    BY <1>2, <2>1
  <2>2. CASE m \in A /\ o \in net \ D
    BY <1>2, <2>2
  <2>3. CASE m \in net \ D /\ o \in A
    BY <1>2, <2>3
  <2>4. CASE m \in net \ D /\ o \in net \ D
    BY <1>2, <2>4 DEF TalkInv
  <2>5. QED
    BY <2>1, <2>2, <2>3, <2>4, <1>0
<1>3. ASSUME NEW m \in net', m.type = "SEND_MISSING_P2C_ACK"
      PROVE  /\ m.src # Root /\ st2[m.src] >= Down /\ st2[parent[m.src]] = Awaiting
             /\ m = Msg(m.type, m.src, parent[m.src], {}, {})
  <2>1. CASE m \in A
    BY <1>3, <2>1
  <2>2. CASE m \in net \ D
    BY <1>3, <2>2 DEF TalkInv
  <2>3. QED
    BY <2>1, <2>2, <1>0
<1>4. QED
  BY <1>1, <1>2, <1>3 DEF TalkInv

\* Who acknowledges whom.
LEMMA AckParts ==
  ASSUME NEW st, TypeOK, TreeInv(st), TalkInv(st),
         NEW m \in net, m.type = "SEND_MISSING_P2C_ACK"
  PROVE  /\ m.src \in Nodes \ {Root} /\ st[m.src] \in Nat /\ st[m.src] >= Down
         /\ parent[m.src] \in Nodes /\ st[parent[m.src]] = Awaiting
<1>1. m.src \in Nodes
  BY MessageParts DEF TypeOK
<1>2. m.src # Root /\ st[m.src] >= Down /\ st[parent[m.src]] = Awaiting
  BY DEF TalkInv
<1>3. st[m.src] \in Nat /\ st[m.src] # Out
  BY <1>1, <1>2, Stages
<1>4. QED
  BY <1>1, <1>2, <1>3, ParentStage

\* Steps that leave the queue and those in it alone.
LEMMA ServeStep ==
  ASSUME NEW st, NEW st2, TreeInv(st), Advance(st, st2), UNCHANGED <<parent, idle, requests>>,
         ServeInv(st),
         \A x \in Nodes : /\ st2[x] = Gather => st[x] = Gather
                          /\ st2[x] = Served <=> st[x] = Served
                          /\ x # Root /\ st[x] < Up => st2[x] < Up
                          /\ st[x] = Asking => st2[x] = Asking
                          /\ st[x] = Asking => (Talks(x)' <=> Talks(x))
                          /\ st2[x] = Asking /\ st[x] # Asking => Talks(x)'
                          /\ st2[x] \in {Served, Asked} => Talks(x)'
  PROVE  ServeInv(st2)'
<1>1. \A p : Below(st2, p, Hello)' = Below(st, p, Hello)
  BY AdvanceGathered DEF Below
<1>2. \A x : Waits(x)' = Waits(x)
  BY DEF Waits
<1>3. \A x \in Nodes : (st2[x] = Hello <=> st[x] = Hello) /\ (st2[x] = Out <=> st[x] = Out)
  BY DEF Advance
<1>4. \A p : \A c \in Below(st, p, Hello) : c \in Nodes
  BY DEF Below
<1>5. IdleServes(st2)'
  <2>1. \A x \in Nodes : st2[x] \in {Hello, Gather} => st[x] \in {Hello, Gather}
    BY <1>3
  <2>2. QED
    BY <2>1, <1>1, <1>4 DEF ServeInv, IdleServes
<1>6. OneServed(st2)'
  BY <1>1, <1>4 DEF ServeInv, OneServed
<1>7. QueuedAsk(st2)'
  BY <1>1, <1>2, <1>4 DEF ServeInv, QueuedAsk
<1>8. AskingQueued(st2)'
  <2> SUFFICES ASSUME NEW c \in Nodes \ {Root}, st2[c] = Asking
               PROVE  (c \in Waits(parent[c]) \/ Talks(c))'
    BY DEF AskingQueued
  <2>1. CASE st[c] = Asking
    <3>1. c \in Waits(parent[c]) \/ Talks(c)
      BY <2>1 DEF ServeInv, AskingQueued
    <3>2. Waits(parent[c])' = Waits(parent[c])
      BY DEF Waits
    <3>3. QED
      BY <2>1, <3>1, <3>2
  <2>2. CASE st[c] # Asking
    BY <2>2
  <2>3. QED
    BY <2>1, <2>2
<1>9. ServedTalk(st2)'
  BY DEF ServedTalk
<1>10. GatherWaits(st2)'
  <2> SUFFICES ASSUME NEW x \in Nodes, st2[x] = Gather, Below(st2, x, Hello)' # {}
               PROVE  \E c \in Below(st2, x, Hello)' : st2[c] < Up
    BY DEF GatherWaits
  <2>1. PICK c \in Below(st, x, Hello) : st[c] < Up
    BY <1>1 DEF ServeInv, GatherWaits
  <2>2. c \in Nodes /\ c # Root
    BY <2>1 DEF Below
  <2>3. QED
    BY <2>1, <2>2, <1>1
<1>11. QED
  BY <1>5, <1>6, <1>7, <1>8, <1>9, <1>10 DEF ServeInv

\* A node keeps its routes until it asks or serves, or computes them from what it
\* knows then, which is at least the links to its children and its parent.
LEMMA RouteStep ==
  ASSUME NEW st, NEW st2, TypeOK, TypeOK', Advance(st, st2), UNCHANGED parent,
         TreeInv(st), RouteInv(st),
         \A x \in Nodes : st[x] # Out =>
           /\ tuples[x] \subseteq tuples'[x] /\ kids'[x] = kids[x]
           /\ \/ /\ routes'[x] = routes[x] /\ bfKids'[x] = bfKids[x]
                 /\ st2[x] >= Asking => st[x] >= Asking
              \/ routes'[x] = RunDijkstra(x, tuples'[x]) /\ bfKids'[x] \subseteq kids[x]
  PROVE  RouteInv(st2)'
<1> SUFFICES ASSUME NEW x \in Nodes, st2[x] # Out
             PROVE  /\ bfKids'[x] \subseteq routes'[x]
                    /\ x # Root /\ st2[x] >= Asking => parent'[x] \in routes'[x]
                    /\ \A c \in kids'[x] : {x, c} \in tuples'[x]
                    /\ x # Root => {x, parent'[x]} \in tuples'[x]
  BY DEF RouteInv
<1>1. st[x] # Out
  BY DEF Advance
<1>2. /\ bfKids[x] \subseteq routes[x]
      /\ x # Root /\ st[x] >= Asking => parent[x] \in routes[x]
      /\ \A c \in kids[x] : {x, c} \in tuples[x]
      /\ x # Root => {x, parent[x]} \in tuples[x]
  BY <1>1 DEF RouteInv
<1>3. /\ \A c \in kids'[x] : {x, c} \in tuples'[x]
      /\ x # Root => {x, parent[x]} \in tuples'[x]
  BY <1>1, <1>2
<1>4. CASE /\ routes'[x] = routes[x] /\ bfKids'[x] = bfKids[x]
           /\ st2[x] >= Asking => st[x] >= Asking
  BY <1>2, <1>3, <1>4
<1>5. CASE routes'[x] = RunDijkstra(x, tuples'[x]) /\ bfKids'[x] \subseteq kids[x]
  <2>1. tuples'[x] \in SUBSET Edges /\ kids[x] \in SUBSET Nodes
    BY DEF TypeOK
  <2>2. \A c \in kids[x] : c \in routes'[x]
    BY <2>1, <1>1, <1>3, <1>5, LinkRoute
  <2>3. x # Root => parent[x] \in routes'[x]
    BY <2>1, <1>1, <1>3, <1>5, LinkRoute, ParentStage
  <2>4. QED
    BY <2>2, <2>3, <1>3, <1>5
<1>6. QED
  BY <1>1, <1>4, <1>5

-----------------------------------------------------------------------------
(***************************************************************************)
(* The way up: a node asks its parent.                                     *)
(***************************************************************************)
\* One node moves to another stage.
Move(st, n, v) == [st EXCEPT ![n] = v]

\* The stages after one node has moved on.
LEMMA MoveValues ==
  ASSUME NEW st, TreeInv(st), NEW n \in Nodes, NEW v
  PROVE  Move(st, n, v)[n] = v /\ \A x \in Nodes \ {n} : Move(st, n, v)[x] = st[x]
BY DEF Move, TreeInv

\* A move of a node that gathers is an advance.
LEMMA MoveAdvance ==
  ASSUME NEW st, TreeInv(st), NEW n \in Nodes, st[n] >= Gather, NEW v \in Nat,
         Gather <= v, v <= End
  PROVE  Advance(st, Move(st, n, v))
<1>1. st \in [Nodes -> Nat] /\ \A x \in Nodes : st[x] <= End
  BY DEF TreeInv
<1>2. Move(st, n, v) \in [Nodes -> Nat]
  BY <1>1 DEF Move
<1>3. st[n] \in Nat
  BY <1>1
<1>4. QED
  BY <1>1, <1>2, <1>3, MoveValues DEF Advance

\* What n asks its parent: the message leaves, since n knows the link.
LEMMA AskSent ==
  ASSUME NEW st, TypeOK, TreeInv(st), RouteInv(st), NEW n \in Nodes \ {Root}, st[n] # Out,
         NoChildren(n)
  PROVE  /\ net' = net \cup {Msg("ASK_BF", n, parent[n], {}, {})}
         /\ routes' = [routes EXCEPT ![n] = RunDijkstra(n, tuples[n])]
         /\ parent[n] \in RunDijkstra(n, tuples[n])
         /\ askTimer' = [askTimer EXCEPT ![n] = TRUE]
         /\ UNCHANGED <<kids, done, flagVars, invTimer, chain>>
<1>1. /\ routes' = [routes EXCEPT ![n] = RunDijkstra(n, tuples[n])]
      /\ AskToParentBF(n)
      /\ UNCHANGED <<kids, done, flagVars, invTimer, chain>>
  BY DEF NoChildren
<1>2. parent[n] \in Nodes /\ {n, parent[n]} \in tuples[n] /\ tuples[n] \in SUBSET Edges
  BY ParentStage DEF RouteInv, TypeOK
<1>3. parent[n] \in RunDijkstra(n, tuples[n])
  BY <1>2, LinkRoute
<1>4. routes'[n] = RunDijkstra(n, tuples[n])
  BY <1>1 DEF TypeOK
<1>5. net' = net \cup {Msg("ASK_BF", n, parent[n], {}, {})}
  BY <1>1, <1>3, <1>4, RoutedOne DEF AskToParentBF
<1>6. QED
  BY <1>1, <1>3, <1>5 DEF AskToParentBF

\* A node that asks its parent enters the stage Asking; all but its timers.
LEMMA AskStep ==
  ASSUME NEW st, NEW Q, TypeOK, TypeOK', Control(st, Q), NEW n \in Nodes \ {Root},
         st[n] \in {Gather, Due}, \A c \in Below(st, n, Hello) : st[c] = Up,
         NoChildren(n), UNCHANGED <<parent, serviceVars, tableVars>>
  PROVE  /\ Advance(st, Move(st, n, Asking))
         /\ TreeInv(Move(st, n, Asking))' /\ RootedInv' /\ FreshInv(Move(st, n, Asking))'
         /\ ListInv(Move(st, n, Asking))' /\ ServeInv(Move(st, n, Asking))'
         /\ RouteInv(Move(st, n, Asking))' /\ HelloInv(Move(st, n, Asking))'
         /\ TalkInv(Move(st, n, Asking))'
         /\ \A m \in net : m \in net'
<1> DEFINE st2 == Move(st, n, Asking)
           M == Msg("ASK_BF", n, parent[n], {}, {})
<1>0. /\ TreeInv(st) /\ RootedInv /\ FreshInv(st) /\ ListInv(st) /\ ServeInv(st)
      /\ RouteInv(st) /\ TimerInv(st) /\ HelloInv(st) /\ TalkInv(st) /\ SettledInv(st, Q)
  BY DEF Control
<1>1. Advance(st, st2)
  BY <1>0, MoveAdvance
<1>2. /\ net' = net \cup {M}
      /\ routes' = [routes EXCEPT ![n] = RunDijkstra(n, tuples[n])]
      /\ parent[n] \in RunDijkstra(n, tuples[n])
      /\ askTimer' = [askTimer EXCEPT ![n] = TRUE]
      /\ UNCHANGED <<parent, kids, done, bfKids, idle, requests, reset, tuples, votes, invTimer>>
  BY <1>0, AskSent DEF serviceVars, tableVars, flagVars
<1>3. st2[n] = Asking /\ \A x \in Nodes \ {n} : st2[x] = st[x]
  BY <1>0, MoveValues
<1>4. \A x \in Nodes : st[x] \in Nat /\ st[x] <= End /\ st2[x] \in Nat
  BY <1>0, <1>1, Stages, AdvanceGathered
<1>5. parent[n] \in Nodes /\ st[parent[n]] # Out
      /\ (st[n] = Gather => st[parent[n]] = Gather) /\ (st[n] = Due => st[parent[n]] = Gather)
  <2>1. st[n] # Out /\ st[n] <= Served
    OBVIOUS
  <2>2. QED
    BY <2>1, <1>0, ParentStage
<1> HIDE DEF st2
<1>6. TreeInv(st2)'
  <2>1. st2[Root] \in {Hello, Gather, Due, Awaiting, End}
    BY <1>0, <1>3, NodesAssumption DEF TreeInv
  <2>2. ASSUME NEW x \in Nodes \ {Root}, st[x] # Out PROVE Follows(st2[x], st2[parent[x]])
    <3>1. Follows(st[x], st[parent[x]]) /\ parent[x] \in Nodes
      BY <2>2, <1>0 DEF TreeInv
    <3>2. CASE x = n
      <4>1. parent[n] # n
        BY <2>2, <3>2, <1>0, ParentStage
      <4>2. st2[parent[n]] = Gather
        BY <1>3, <1>5, <4>1
      <4>3. QED
        BY <3>2, <1>3, <4>2 DEF Follows
    <3>3. CASE x # n /\ parent[x] = n
      <4>1. st[x] = Up
        BY <2>2, <3>3, <1>4 DEF Below
      <4>2. QED
        BY <4>1, <3>3, <1>3 DEF Follows
    <3>4. CASE x # n /\ parent[x] # n
      BY <3>1, <3>4, <1>3
    <3>5. QED
      BY <3>2, <3>3, <3>4
  <2>3. QED
    BY <2>1, <2>2, <1>0, <1>1, <1>2, TreeStep
<1>7. RootedInv'
  BY <1>0, <1>2, RootedStep
<1>8. FreshInv(st2)'
  BY <1>0, <1>1, <1>2, FreshStep
<1>9. M.type = "ASK_BF" /\ M.src = n /\ M.dst = parent[n]
  BY MsgParts
<1>10. /\ Exchange(M) /\ Client(M) = n /\ Server(M) = parent[n] /\ StageOf(M.type) = Asking
  BY <1>9, TalkParts
<1> HIDE DEF M
<1>11. ListInv(st2)'
  <2>1. \A x \in Nodes : \A k \in {Served, Up, Down, Awaiting, End} : st2[x] >= k <=> st[x] >= k
    BY <1>3
  <2>2. \A c \in Nodes : Acking(c)' <=> Acking(c)
    BY <1>2, <1>9 DEF Acking
  <2>3. QED
    BY <2>1, <2>2, <1>0, <1>1, <1>2, ListStep
<1>12. \A o \in net : Exchange(o) => Client(o) # n
  BY <1>0, TalkParts DEF TalkInv
<1>13. TalkInv(st2)'
  <2> DEFINE D == {}
             A == {M}
  <2>1. Traffic(D, A)
    BY <1>2 DEF Traffic
  <2>2. \A m \in A : Exchange(m) =>
           /\ Client(m) \in Nodes \ {Root} /\ Server(m) = parent[Client(m)]
           /\ st2[Client(m)] = StageOf(m.type)
           /\ \A o \in net \ D : Exchange(o) => Client(o) # Client(m)
           /\ \A o \in A : Exchange(o) /\ Client(o) = Client(m) => o = m
    BY <1>3, <1>10, <1>12
  <2>3. \A m \in A : m.type # "SEND_MISSING_P2C_ACK"
    BY <1>9
  <2>4. \A o \in net \ D : Exchange(o) => st2[Client(o)] = st[Client(o)]
    BY <1>0, <1>3, <1>12 DEF TalkInv
  <2>5. ASSUME NEW o \in net \ D, o.type = "SEND_MISSING_P2C_ACK"
        PROVE  st2[o.src] >= Down /\ st2[parent[o.src]] = Awaiting
    <3>1. /\ o.src \in Nodes \ {Root} /\ st[o.src] >= Down
          /\ parent[o.src] \in Nodes /\ st[parent[o.src]] = Awaiting
      BY <2>5, <1>0, AckParts
    <3>2. o.src # n /\ parent[o.src] # n
      BY <3>1
    <3>3. QED
      BY <3>1, <3>2, <1>3
  <2> HIDE DEF D, A
  <2>6. QED
    BY <2>1, <2>2, <2>3, <2>4, <2>5, <1>0, <1>2, TalkStep
<1>14. HelloInv(st2)'
  <2>1. \A m : m.type \in HelloTypes => (m \in net' <=> m \in net)
    BY <1>2, <1>9 DEF HelloTypes
  <2>2. QED
    BY <2>1, <1>0, <1>1, <1>2, HelloStep DEF TypeOK
<1>15. RouteInv(st2)'
  <2> SUFFICES ASSUME NEW x \in Nodes, st[x] # Out
               PROVE  /\ tuples[x] \subseteq tuples'[x] /\ kids'[x] = kids[x]
                      /\ \/ /\ routes'[x] = routes[x] /\ bfKids'[x] = bfKids[x]
                            /\ st2[x] >= Asking => st[x] >= Asking
                         \/ routes'[x] = RunDijkstra(x, tuples'[x]) /\ bfKids'[x] \subseteq kids[x]
    BY <1>0, <1>1, <1>2, RouteStep
  <2>1. CASE x # n
    <3>1. routes'[x] = routes[x] /\ st2[x] = st[x]
      BY <2>1, <1>2, <1>3 DEF TypeOK
    <3>2. QED
      BY <3>1, <1>2
  <2>2. CASE x = n
    <3>1. bfKids[n] \subseteq kids[n]
      BY <2>2, <1>0, <1>4 DEF ListInv, Below
    <3>2. QED
      BY <2>2, <3>1, <1>2 DEF TypeOK
  <2>3. QED
    BY <2>1, <2>2, <1>0
<1>16. ServeInv(st2)'
  <2>1. \A c \in Nodes : c # n => (Talks(c)' <=> Talks(c))
    BY <1>2, <1>10 DEF Talks
  <2>2. Talks(n)'
    BY <1>2, <1>10 DEF Talks
  <2>3. \A x \in Nodes \ {n} : st2[x] \in {Served, Asked} => Talks(x)'
    BY <2>1, <1>0, <1>3, <1>1 DEF ServeInv, ServedTalk, TreeInv
  <2>4. QED
    BY <2>1, <2>2, <2>3, <1>0, <1>1, <1>2, <1>3, ServeStep
<1>17. QED
  BY <1>1, <1>2, <1>6, <1>7, <1>8, <1>11, <1>13, <1>14, <1>15, <1>16 DEF st2

\* NoChildrenNew: nobody of the tree is about to answer, so n is a leaf.
LEMMA NewLeaf ==
  ASSUME NEW st, NEW Q, TypeOK, Control(st, Q), NEW n \in Nodes, NoChildrenNew(n)
  PROVE  /\ n # Root /\ st[n] = Gather /\ Below(st, n, Hello) = {}
         /\ SettledInv(st, Q \cup (Ancestors(n) \cap Nodes))
<1>0. /\ TreeInv(st) /\ ListInv(st) /\ TimerInv(st) /\ HelloInv(st) /\ SettledInv(st, Q)
  BY DEF Control
<1>1. srTimer[n] /\ SlotOver(n)
  BY DEF NoChildrenNew
<1>2. n # Root /\ st[n] \in {Hello, Gather} /\ kids[n] = {}
  BY <1>0, <1>1 DEF TimerInv
<1>3. n \in Ancestors(n)
  BY AncestorsClosed
<1>4. ASSUME NEW x \in Nodes \ {Root}, st[x] = Hello
      PROVE  x # n /\ parent[x] \notin Ancestors(n)
  <2>1. PICK m \in net : m.type \in HelloTypes /\ m.src = x
    BY <1>4, <1>0 DEF HelloInv
  <2>2. m.type = "SR_HELLO"
    BY <2>1, <1>0, <1>4, MsgParts DEF HelloInv, HelloTypes
  <2>3. m.dst = parent[x]
    <3>1. m = Msg("SR_HELLO", x, parent[x], {}, {Vote(x)})
      BY <2>1, <2>2, <1>0 DEF HelloInv
    <3>2. QED
      BY <3>1 DEF Msg
  <2>4. m.src # n /\ m.dst \notin Ancestors(n)
    BY <2>1, <1>1 DEF SlotOver
  <2>5. QED
    BY <2>1, <2>3, <2>4
<1>5. st[n] = Gather
  BY <1>2, <1>4
<1>6. Below(st, n, Hello) = {}
  <2> SUFFICES ASSUME NEW c \in Below(st, n, Hello) PROVE FALSE
    OBVIOUS
  <2>1. c \in Nodes \ {Root} /\ parent[c] = n /\ st[c] \in Nat /\ st[c] >= Hello
    BY <1>0, Stages DEF Below
  <2>2. st[c] # Hello
    BY <2>1, <1>3, <1>4
  <2>3. c \in Below(st, n, Gather)
    BY <2>1, <2>2 DEF Below
  <2>4. QED
    BY <2>3, <1>0, <1>2, <1>5 DEF ListInv
<1> DEFINE C == {x \in Nodes : st[x] = Gather}
           A == Ancestors(n) \cap Nodes
<1>7. Ancestors(n) \subseteq C
  <2>1. ASSUME NEW x \in C PROVE parent[x] \in C
    <3>1. CASE x = Root
      BY <3>1, <1>0 DEF TreeInv
    <3>2. CASE x # Root
      <4>1. st[x] # Out /\ st[x] <= Served
        BY <2>1
      <4>2. QED
        BY <4>1, <3>2, <1>0, ParentStage
    <3>3. QED
      BY <3>1, <3>2
  <2>2. Parents(C) \subseteq C
    BY <2>1 DEF Parents
  <2>3. n \in C
    BY <1>5
  <2> HIDE DEF C
  <2>4. QED
    BY <2>2, <2>3, AncestorsClosed
<1>8. ASSUME NEW x \in A PROVE st[x] = Gather /\ parent[x] \in A
  <2>1. x \in C /\ parent[x] \in Nodes
    <3>1. x \in C
      BY <1>7
    <3>2. CASE x = Root
      BY <3>1, <3>2, <1>0, NodesAssumption DEF TreeInv
    <3>3. CASE x # Root
      <4>1. st[x] # Out
        BY <3>1
      <4>2. QED
        BY <3>1, <3>3, <4>1, <1>0, ParentStage
    <3>4. QED
      BY <3>1, <3>2, <3>3
  <2>2. QED
    BY <2>1, AncestorsClosed
<1>9. \A c \in Nodes \ {Root} : st[c] = Hello => parent[c] \notin A
  BY <1>4
<1> HIDE DEF A
<1>10. A \in SUBSET Nodes
  BY DEF A
<1>11. SettledInv(st, Q \cup A)
  BY <1>0, <1>8, <1>9, <1>10 DEF SettledInv
<1>12. QED
  BY <1>2, <1>5, <1>6, <1>11 DEF A

\* NoChildrenNew: a node whose slot ended without a child asks its parent.
LEMMA NewStep ==
  ASSUME NEW st, NEW Q, TypeOK, TypeOK', Control(st, Q), NEW n \in Nodes, NoChildrenNew(n),
         NEW Q2, Q2 = Q \cup (Ancestors(n) \cap Nodes)
  PROVE  Control(Move(st, n, Asking), Q2)'
<1> DEFINE st2 == Move(st, n, Asking)
<1>0. /\ TreeInv(st) /\ TimerInv(st)
  BY DEF Control
<1>1. n # Root /\ st[n] = Gather /\ Below(st, n, Hello) = {} /\ SettledInv(st, Q2)
  BY NewLeaf
<1>2. /\ srTimer' = [srTimer EXCEPT ![n] = FALSE]
      /\ NoChildren(n)
      /\ UNCHANGED <<parent, serviceVars, tableVars, dueVars, round, losses, early>>
  BY DEF NoChildrenNew
<1>3. UNCHANGED <<parent, serviceVars, tableVars>>
  BY <1>2
<1>4. st[n] \in {Gather, Due} /\ \A c \in Below(st, n, Hello) : st[c] = Up
  BY <1>1
<1>5. /\ Advance(st, st2)
      /\ TreeInv(st2)' /\ RootedInv' /\ FreshInv(st2)' /\ ListInv(st2)' /\ ServeInv(st2)'
      /\ RouteInv(st2)' /\ HelloInv(st2)' /\ TalkInv(st2)' /\ \A m \in net : m \in net'
  BY <1>1, <1>2, <1>3, <1>4, AskStep
<1>6. st2[n] = Asking /\ \A x \in Nodes \ {n} : st2[x] = st[x]
  BY <1>0, MoveValues
<1>7. /\ askTimer' = [askTimer EXCEPT ![n] = TRUE]
      /\ UNCHANGED <<kids, invTimer, upDue, downDue>>
  BY <1>1, <1>2 DEF NoChildren, AskToParentBF, dueVars
<1> HIDE DEF st2
<1>8. TimerInv(st2)'
  <2> SUFFICES ASSUME NEW x \in Nodes
               PROVE  /\ srTimer'[x] <=> x # Root /\ st2[x] \in {Hello, Gather} /\ kids'[x] = {}
                      /\ askTimer'[x] => \/ st2[x] = Asking
                                        \/ \E m \in net' : m.type = "SEND_BF" /\ m.dst = x
                      /\ invTimer'[x] <=> st2[x] = Awaiting
                      /\ upDue'[x] = IF st2[x] = Due THEN 1 ELSE 0
                      /\ downDue'[x] = IF st2[x] = Down THEN 1 ELSE 0
    BY DEF TimerInv
  <2>1. CASE x = n
    BY <2>1, <1>0, <1>1, <1>2, <1>6, <1>7 DEF TimerInv, TypeOK
  <2>2. CASE x # n
    <3>1. st2[x] = st[x] /\ srTimer'[x] = srTimer[x] /\ askTimer'[x] = askTimer[x]
      BY <2>2, <1>2, <1>6, <1>7 DEF TypeOK
    <3>2. QED
      BY <3>1, <1>0, <1>5, <1>7 DEF TimerInv
  <2>3. QED
    BY <2>1, <2>2
<1>9. SettledInv(st2, Q2)'
  <2>1. \A x \in Nodes : st2[x] >= Due => x \in Q2
    <3>1. n \in Q2
      BY AncestorsClosed
    <3>2. \A x \in Nodes \ {n} : st2[x] >= Due => x \in Q2
      BY <1>1, <1>6 DEF SettledInv
    <3>3. QED
      BY <3>1, <3>2
  <2>2. QED
    BY <2>1, <1>0, <1>1, <1>3, <1>5, SettledStep
<1>10. QED
  <2>1. Control(st2, Q2)'
    BY <1>5, <1>8, <1>9 DEF Control
  <2>2. QED
    BY <2>1 DEF st2

\* NoChildrenDue: the children of a node that turns to its parent have reported.
LEMMA DueStep ==
  ASSUME NEW st, NEW Q, TypeOK, TypeOK', Control(st, Q), NEW n \in Nodes \ {Root},
         NoChildrenDue(n)
  PROVE  Control(Move(st, n, Asking), Q)'
<1> DEFINE st2 == Move(st, n, Asking)
<1>0. TreeInv(st) /\ TimerInv(st) /\ SettledInv(st, Q)
  BY DEF Control
<1>1. /\ upDue[n] > 0 /\ upDue' = [upDue EXCEPT ![n] = @ - 1]
      /\ NoChildren(n)
      /\ UNCHANGED <<parent, serviceVars, tableVars, srTimer, downDue, round, losses, early>>
  BY DEF NoChildrenDue
<1>2. st[n] = Due /\ upDue[n] = 1
  BY <1>0, <1>1 DEF TimerInv
<1>3. \A c \in Below(st, n, Hello) : st[c] = Up
  <2> SUFFICES ASSUME NEW c \in Below(st, n, Hello) PROVE st[c] = Up
    OBVIOUS
  <2>1. c \in Nodes \ {Root} /\ parent[c] = n /\ st[c] \in Nat /\ st[c] # Out
    BY <1>0, Stages DEF Below
  <2>2. /\ st[c] <= Served => st[parent[c]] = Gather
        /\ st[c] = Asked => st[parent[c]] = Awaiting
        /\ st[c] >= Down => st[parent[c]] >= Awaiting
    BY <2>1, <1>0, ParentStage
  <2>3. QED
    BY <2>1, <2>2, <1>2
<1>4. UNCHANGED <<parent, serviceVars, tableVars>> /\ st[n] \in {Gather, Due}
  BY <1>1, <1>2
<1>5. /\ Advance(st, st2)
      /\ TreeInv(st2)' /\ RootedInv' /\ FreshInv(st2)' /\ ListInv(st2)' /\ ServeInv(st2)'
      /\ RouteInv(st2)' /\ HelloInv(st2)' /\ TalkInv(st2)' /\ \A m \in net : m \in net'
  BY <1>1, <1>3, <1>4, AskStep
<1>6. st2[n] = Asking /\ \A x \in Nodes \ {n} : st2[x] = st[x]
  BY <1>0, MoveValues
<1>7. /\ askTimer' = [askTimer EXCEPT ![n] = TRUE]
      /\ UNCHANGED <<kids, invTimer, srTimer, downDue>>
  BY <1>1 DEF NoChildren, AskToParentBF
<1> HIDE DEF st2
<1>8. TimerInv(st2)'
  <2> SUFFICES ASSUME NEW x \in Nodes
               PROVE  /\ srTimer'[x] <=> x # Root /\ st2[x] \in {Hello, Gather} /\ kids'[x] = {}
                      /\ askTimer'[x] => \/ st2[x] = Asking
                                        \/ \E m \in net' : m.type = "SEND_BF" /\ m.dst = x
                      /\ invTimer'[x] <=> st2[x] = Awaiting
                      /\ upDue'[x] = IF st2[x] = Due THEN 1 ELSE 0
                      /\ downDue'[x] = IF st2[x] = Down THEN 1 ELSE 0
    BY DEF TimerInv
  <2>1. CASE x = n
    <3>1. upDue'[n] = 0
      BY <1>1, <1>2 DEF TypeOK
    <3>2. ~srTimer[n] /\ ~invTimer[n] /\ downDue[n] = 0
      BY <1>0, <1>2 DEF TimerInv
    <3>3. QED
      BY <2>1, <3>1, <3>2, <1>6, <1>7
  <2>2. CASE x # n
    <3>1. st2[x] = st[x] /\ upDue'[x] = upDue[x] /\ askTimer'[x] = askTimer[x]
      BY <2>2, <1>1, <1>6, <1>7 DEF TypeOK
    <3>2. QED
      BY <3>1, <1>0, <1>5, <1>7 DEF TimerInv
  <2>3. QED
    BY <2>1, <2>2
<1>9. SettledInv(st2, Q)'
  <2>1. \A x \in Nodes : st2[x] >= Due => x \in Q
    BY <1>0, <1>2, <1>6 DEF SettledInv
  <2>2. QED
    BY <2>1, <1>0, <1>1, <1>5, SettledStep
<1>10. QED
  <2>1. Control(st2, Q)'
    BY <1>5, <1>8, <1>9 DEF Control
  <2>2. QED
    BY <2>1 DEF st2

-----------------------------------------------------------------------------
(***************************************************************************)
(* An exchange of a child and its parent, message by message.              *)
(***************************************************************************)
LEMMA Talking ==
  ASSUME NEW st, TypeOK, TreeInv(st), TalkInv(st), NEW m \in net, Exchange(m)
  PROVE  /\ Client(m) \in Nodes \ {Root} /\ Server(m) = parent[Client(m)]
         /\ Server(m) \in Nodes /\ Server(m) # Client(m)
         /\ st[Client(m)] = StageOf(m.type) /\ st[Client(m)] \in {Asking, Served, Asked}
         /\ StageOf(m.type) <= Served => st[Server(m)] = Gather
         /\ StageOf(m.type) = Asked => st[Server(m)] = Awaiting
         /\ \A o \in net : Exchange(o) /\ Client(o) = Client(m) => o = m
<1>1. /\ Client(m) \in Nodes \ {Root} /\ Server(m) = parent[Client(m)]
      /\ st[Client(m)] = StageOf(m.type)
      /\ \A o \in net : Exchange(o) /\ Client(o) = Client(m) => o = m
  BY DEF TalkInv
<1>2. st[Client(m)] \in {Asking, Served, Asked}
  BY <1>1, TalkParts
<1>3. st[Client(m)] # Out
  BY <1>2
<1>4. /\ parent[Client(m)] \in Nodes /\ parent[Client(m)] # Client(m)
      /\ st[Client(m)] <= Served => st[parent[Client(m)]] = Gather
      /\ st[Client(m)] = Asked => st[parent[Client(m)]] = Awaiting
  BY <1>1, <1>3, ParentStage
<1>5. QED
  BY <1>1, <1>2, <1>4

\* A step of the exchange that moves no stage: m is answered by M.
Answers(M, m) ==
  /\ Exchange(M) /\ Client(M) = Client(m) /\ Server(M) = Server(m)
  /\ StageOf(M.type) = StageOf(m.type) /\ net' = (net \ {m}) \cup {M}

\* A message of an exchange is answered by the next one.
LEMMA PassStep ==
  ASSUME NEW st, NEW Q, TypeOK, TypeOK', Control(st, Q), NEW m \in net, Exchange(m),
         NEW M, Answers(M, m),
         UNCHANGED <<parent, kids, done, bfKids, idle, requests, reset, tuples, votes, routes,
                     srTimer, invTimer, upDue, downDue>>,
         \A x \in Nodes : askTimer'[x] => askTimer[x] /\ ~(m.type = "SEND_BF" /\ m.dst = x)
  PROVE  Control(st, Q)'
<1>0. /\ TreeInv(st) /\ RootedInv /\ FreshInv(st) /\ ListInv(st) /\ ServeInv(st)
      /\ RouteInv(st) /\ TimerInv(st) /\ HelloInv(st) /\ TalkInv(st) /\ SettledInv(st, Q)
  BY DEF Control
<1>a. /\ Exchange(M) /\ Client(M) = Client(m) /\ Server(M) = Server(m)
      /\ StageOf(M.type) = StageOf(m.type) /\ net' = (net \ {m}) \cup {M}
  BY DEF Answers
<1>1. Advance(st, st)
  BY <1>0, Stages DEF Advance, TreeInv
<1>2. /\ Client(m) \in Nodes \ {Root} /\ Server(m) = parent[Client(m)]
      /\ st[Client(m)] = StageOf(m.type)
      /\ \A o \in net : Exchange(o) /\ Client(o) = Client(m) => o = m
  BY <1>0, Talking
<1>3. TreeInv(st)' /\ RootedInv' /\ FreshInv(st)' /\ RouteInv(st)' /\ SettledInv(st, Q)'
  BY <1>0 DEF TreeInv, RootedInv, FreshInv, RouteInv, SettledInv
<1>4. /\ m.type \notin HelloTypes /\ m.type # "SEND_MISSING_P2C_ACK"
      /\ M.type \notin HelloTypes /\ M.type # "SEND_MISSING_P2C_ACK"
  BY <1>a, TalkParts
<1>5. ListInv(st)'
  <2>1. \A c : Acking(c)' <=> Acking(c)
    BY <1>a, <1>4 DEF Acking
  <2>2. QED
    BY <2>1, <1>0, <1>1, ListStep
<1>6. \A c \in Nodes : Talks(c)' <=> Talks(c)
  <2>1. \A c \in Nodes \ {Client(m)} : Talks(c)' <=> Talks(c)
    BY <1>a DEF Talks
  <2>2. Talks(Client(m)) /\ Talks(Client(m))'
    BY <1>a DEF Talks
  <2>3. QED
    BY <2>1, <2>2
<1>7. ServeInv(st)'
  <2>1. \A x \in Nodes \ {Root} : st[x] \in {Served, Asked} => Talks(x)'
    BY <1>0, <1>6 DEF ServeInv, ServedTalk
  <2>2. st[Root] \notin {Served, Asked}
    BY <1>0 DEF TreeInv
  <2>3. QED
    BY <2>1, <2>2, <1>0, <1>1, <1>6, ServeStep
<1>8. HelloInv(st)'
  <2>1. \A o : o.type \in HelloTypes => (o \in net' <=> o \in net)
    BY <1>a, <1>4
  <2>2. QED
    BY <2>1, <1>0, <1>1, HelloStep DEF TypeOK
<1>9. TalkInv(st)'
  <2> DEFINE D == {m}
             A == {M}
  <2>1. Traffic(D, A)
    BY <1>a DEF Traffic
  <2>2. \A o \in A : Exchange(o) =>
           /\ Client(o) \in Nodes \ {Root} /\ Server(o) = parent[Client(o)]
           /\ st[Client(o)] = StageOf(o.type)
           /\ \A q \in net \ D : Exchange(q) => Client(q) # Client(o)
           /\ \A q \in A : Exchange(q) /\ Client(q) = Client(o) => q = o
    BY <1>a, <1>2
  <2>3. \A o \in A : o.type # "SEND_MISSING_P2C_ACK"
    BY <1>4
  <2>4. \A o \in net \ D : o.type = "SEND_MISSING_P2C_ACK" =>
           st[o.src] >= Down /\ st[parent[o.src]] = Awaiting
    BY <1>0 DEF TalkInv
  <2>5. \A o \in net \ D : Exchange(o) => st[Client(o)] = st[Client(o)]
    OBVIOUS
  <2> HIDE DEF D, A
  <2>6. QED
    BY <2>1, <2>2, <2>3, <2>4, <2>5, <1>0, TalkStep
<1>10. TimerInv(st)'
  <2>1. ASSUME NEW x \in Nodes, askTimer'[x]
        PROVE  st[x] = Asking \/ \E o \in net' : o.type = "SEND_BF" /\ o.dst = x
    BY <2>1, <1>0, <1>a DEF TimerInv
  <2>2. QED
    BY <2>1, <1>0 DEF TimerInv
<1>11. QED
  BY <1>3, <1>5, <1>7, <1>8, <1>9, <1>10 DEF Control

\* ReceivedFromParentBF: the report leaves, to the parent that sent the filter.
LEMMA ReportSent ==
  ASSUME NEW st, NEW Q, TypeOK, Control(st, Q), NEW m \in net, ReceivedFromParentBF(m)
  PROVE  /\ m.type = "SEND_BF" /\ m.dst \in Nodes \ {Root} /\ m.src = parent[m.dst]
         /\ st[m.dst] = Served
         /\ \E missing \in MissingTuples(tuples[m.dst], m.links) :
              net' = (net \ {m}) \cup {Msg("SEND_MISSING_C2P", m.dst, parent[m.dst], missing,
                                           MissingVotes(votes[m.dst], m.votes))}
<1>0. TreeInv(st) /\ RouteInv(st) /\ TalkInv(st)
  BY DEF Control
<1>1. m.type = "SEND_BF"
  BY DEF ReceivedFromParentBF
<1>2. Exchange(m) /\ Client(m) = m.dst /\ Server(m) = m.src /\ StageOf(m.type) = Served
  BY <1>1, TalkParts
<1>3. m.dst \in Nodes \ {Root} /\ m.src = parent[m.dst] /\ st[m.dst] = Served
  BY <1>0, <1>2, Talking
<1>4. parent[m.dst] \in routes[m.dst]
  <2>1. m.dst # Root /\ st[m.dst] # Out /\ st[m.dst] >= Asking
    BY <1>3
  <2>2. QED
    BY <2>1, <1>0, <1>3 DEF RouteInv
<1>5. PICK missing \in MissingTuples(tuples[m.dst], m.links) :
        net' = (net \ {m}) \cup
          Routed({Msg("SEND_MISSING_C2P", m.dst, parent[m.dst], missing,
                      MissingVotes(votes[m.dst], m.votes))}, routes[m.dst])
  BY DEF ReceivedFromParentBF
<1>6. QED
  BY <1>1, <1>3, <1>4, <1>5, RoutedOne

\* ReceivedFromParentBF: a child answers the filter of its parent with its report.
LEMMA ReportStep ==
  ASSUME NEW st, NEW Q, TypeOK, TypeOK', Control(st, Q), NEW m \in net, ReceivedFromParentBF(m)
  PROVE  Control(st, Q)'
<1>1. /\ m.type = "SEND_BF" /\ m.dst \in Nodes \ {Root} /\ m.src = parent[m.dst]
      /\ st[m.dst] = Served
  BY ReportSent
<1>2. PICK missing \in MissingTuples(tuples[m.dst], m.links) :
        net' = (net \ {m}) \cup {Msg("SEND_MISSING_C2P", m.dst, parent[m.dst], missing,
                                     MissingVotes(votes[m.dst], m.votes))}
  BY ReportSent
<1> DEFINE M == Msg("SEND_MISSING_C2P", m.dst, parent[m.dst], missing,
                    MissingVotes(votes[m.dst], m.votes))
<1>3. M.type = "SEND_MISSING_C2P" /\ M.src = m.dst /\ M.dst = parent[m.dst]
  BY MsgParts
<1>4. net' = (net \ {m}) \cup {M}
  BY <1>2
<1> HIDE DEF M
<1>5. /\ Exchange(m) /\ Client(m) = m.dst /\ Server(m) = m.src /\ StageOf(m.type) = Served
      /\ Exchange(M) /\ Client(M) = m.dst /\ Server(M) = m.src /\ StageOf(M.type) = Served
  BY <1>1, <1>3, TalkParts
<1>0. Answers(M, m)
  BY <1>4, <1>5 DEF Answers
<1>6. /\ askTimer' = [askTimer EXCEPT ![m.dst] = FALSE]
      /\ UNCHANGED <<parent, kids, done, bfKids, idle, requests, reset, tuples, votes, routes,
                     srTimer, invTimer, upDue, downDue>>
  BY DEF ReceivedFromParentBF, treeVars, serviceVars, flagVars, tableVars, dueVars
<1>7. \A x \in Nodes : askTimer'[x] => askTimer[x] /\ ~(m.type = "SEND_BF" /\ m.dst = x)
  BY <1>6 DEF TypeOK
<1>8. QED
  BY <1>0, <1>5, <1>6, <1>7, PassStep

\* SendBFC2P: the filter of a child leaves.
LEMMA FilterSent ==
  ASSUME NEW st, NEW Q, TypeOK, Control(st, Q), NEW m \in net, SendBFC2P(m)
  PROVE  /\ m.type = "ASK_BF_P2C" /\ m.dst \in Nodes \ {Root} /\ m.src = parent[m.dst]
         /\ st[m.dst] = Asked
         /\ net' = (net \ {m}) \cup {Msg("SEND_BF_C2P", m.dst, m.src, tuples[m.dst],
                                         Keys(votes[m.dst]))}
<1>0. TreeInv(st) /\ RouteInv(st) /\ TalkInv(st)
  BY DEF Control
<1>1. m.type = "ASK_BF_P2C"
  BY DEF SendBFC2P
<1>2. Exchange(m) /\ Client(m) = m.dst /\ Server(m) = m.src /\ StageOf(m.type) = Asked
  BY <1>1, TalkParts
<1>3. m.dst \in Nodes \ {Root} /\ m.src = parent[m.dst] /\ st[m.dst] = Asked
  BY <1>0, <1>2, Talking
<1>4. m.src \in routes[m.dst]
  <2>1. m.dst # Root /\ st[m.dst] # Out /\ st[m.dst] >= Asking
    BY <1>3
  <2>2. QED
    BY <2>1, <1>0, <1>3 DEF RouteInv
<1>5. net' = (net \ {m}) \cup
        Routed({Msg("SEND_BF_C2P", m.dst, m.src, tuples[m.dst], Keys(votes[m.dst]))},
               routes[m.dst])
  BY DEF SendBFC2P
<1>6. QED
  BY <1>1, <1>3, <1>4, <1>5, RoutedOne

\* SendBFC2P: a child answers the request of its parent with its filter.
LEMMA FilterStep ==
  ASSUME NEW st, NEW Q, TypeOK, TypeOK', Control(st, Q), NEW m \in net, SendBFC2P(m)
  PROVE  Control(st, Q)'
<1> DEFINE M == Msg("SEND_BF_C2P", m.dst, m.src, tuples[m.dst], Keys(votes[m.dst]))
<1>1. m.type = "ASK_BF_P2C" /\ net' = (net \ {m}) \cup {M}
  BY FilterSent
<1>2. M.type = "SEND_BF_C2P" /\ M.src = m.dst /\ M.dst = m.src
  BY MsgParts
<1> HIDE DEF M
<1>3. /\ Exchange(m) /\ Client(m) = m.dst /\ Server(m) = m.src /\ StageOf(m.type) = Asked
      /\ Exchange(M) /\ Client(M) = m.dst /\ Server(M) = m.src /\ StageOf(M.type) = Asked
  BY <1>1, <1>2, TalkParts
<1>0. Answers(M, m)
  BY <1>1, <1>3 DEF Answers
<1>4. UNCHANGED <<parent, kids, done, bfKids, idle, requests, reset, tuples, votes, routes,
                  srTimer, askTimer, invTimer, upDue, downDue>>
  BY DEF SendBFC2P, treeVars, serviceVars, flagVars, tableVars, timerVars, dueVars
<1>5. \A x \in Nodes : askTimer'[x] => askTimer[x] /\ ~(m.type = "SEND_BF" /\ m.dst = x)
  BY <1>1, <1>4
<1>6. QED
  BY <1>0, <1>3, <1>4, <1>5, PassStep

\* ReceivedFromChildBF: what the child lacks leaves.
LEMMA MissingSent ==
  ASSUME NEW st, NEW Q, TypeOK, Control(st, Q), NEW m \in net, m.dst # NoNode,
         ReceivedFromChildBF(m)
  PROVE  /\ m.type = "SEND_BF_C2P" /\ m.src \in Nodes \ {Root} /\ m.dst = parent[m.src]
         /\ m.dst \in Nodes /\ st[m.src] = Asked /\ st[m.dst] = Awaiting
         /\ m.src \in bfKids[m.dst]
         /\ \E missing \in MissingTuples(tuples[m.dst], m.links) :
              net' = (net \ {m}) \cup {Msg("SEND_MISSING_P2C", m.dst, m.src, missing,
                                           MissingVotes(votes[m.dst], m.votes))}
<1>0. TreeInv(st) /\ ListInv(st) /\ RouteInv(st) /\ TalkInv(st)
  BY DEF Control
<1>1. m.type = "SEND_BF_C2P"
  BY DEF ReceivedFromChildBF
<1>2. Exchange(m) /\ Client(m) = m.src /\ Server(m) = m.dst /\ StageOf(m.type) = Asked
  BY <1>1, TalkParts
<1>3. /\ m.src \in Nodes \ {Root} /\ m.dst = parent[m.src] /\ m.dst \in Nodes
      /\ st[m.src] = Asked /\ st[m.dst] = Awaiting
  BY <1>0, <1>2, Talking
<1>4. m.src \in Below(st, m.dst, Served)
  BY <1>3 DEF Below
<1>5. m.src \in bfKids[m.dst] /\ m.src \in routes[m.dst]
  <2>1. st[m.dst] # Out
    BY <1>3
  <2>2. m.src \in bfKids[m.dst]
    BY <2>1, <1>0, <1>3, <1>4 DEF ListInv
  <2>3. bfKids[m.dst] \subseteq routes[m.dst]
    BY <2>1, <1>0, <1>3 DEF RouteInv
  <2>4. QED
    BY <2>2, <2>3
<1>6. PICK missing \in MissingTuples(tuples[m.dst], m.links) :
        net' = (net \ {m}) \cup
          Routed({Msg("SEND_MISSING_P2C", m.dst, m.src, missing,
                      MissingVotes(votes[m.dst], m.votes))}, routes[m.dst])
  BY DEF ReceivedFromChildBF
<1>7. QED
  BY <1>1, <1>3, <1>5, <1>6, RoutedOne

\* ReceivedFromChildBF: a parent sends the child what it lacks.
LEMMA MissingStep ==
  ASSUME NEW st, NEW Q, TypeOK, TypeOK', Control(st, Q), NEW m \in net, m.dst # NoNode,
         ReceivedFromChildBF(m)
  PROVE  Control(st, Q)'
<1>1. m.type = "SEND_BF_C2P" /\ m.dst \in Nodes /\ m.src \in bfKids[m.dst]
  BY MissingSent
<1>2. PICK missing \in MissingTuples(tuples[m.dst], m.links) :
        net' = (net \ {m}) \cup {Msg("SEND_MISSING_P2C", m.dst, m.src, missing,
                                     MissingVotes(votes[m.dst], m.votes))}
  BY MissingSent
<1> DEFINE M == Msg("SEND_MISSING_P2C", m.dst, m.src, missing,
                    MissingVotes(votes[m.dst], m.votes))
<1>3. M.type = "SEND_MISSING_P2C" /\ M.src = m.dst /\ M.dst = m.src
  BY MsgParts
<1>4. net' = (net \ {m}) \cup {M}
  BY <1>2
<1> HIDE DEF M
<1>5. /\ Exchange(m) /\ Client(m) = m.src /\ Server(m) = m.dst /\ StageOf(m.type) = Asked
      /\ Exchange(M) /\ Client(M) = m.src /\ Server(M) = m.dst /\ StageOf(M.type) = Asked
  BY <1>1, <1>3, TalkParts
<1>0. Answers(M, m)
  BY <1>4, <1>5 DEF Answers
<1>6. bfKids' = bfKids
  <2>1. bfKids' = [bfKids EXCEPT ![m.dst] = @ \cup {m.src}]
    BY DEF ReceivedFromChildBF
  <2>2. bfKids[m.dst] \cup {m.src} = bfKids[m.dst]
    BY <1>1
  <2>3. bfKids \in [Nodes -> SUBSET Nodes]
    BY DEF TypeOK
  <2>4. QED
    BY <2>1, <2>2, <2>3
<1>7. UNCHANGED <<parent, kids, done, bfKids, idle, requests, reset, tuples, votes, routes,
                  srTimer, askTimer, invTimer, upDue, downDue>>
  BY <1>6 DEF ReceivedFromChildBF, treeVars, flagVars, tableVars, timerVars, dueVars
<1>8. \A x \in Nodes : askTimer'[x] => askTimer[x] /\ ~(m.type = "SEND_BF" /\ m.dst = x)
  BY <1>1, <1>7
<1>9. QED
  BY <1>0, <1>5, <1>7, <1>8, PassStep

-----------------------------------------------------------------------------
(***************************************************************************)
(* A parent that gathers: it serves a child, queues it, takes its report.  *)
(***************************************************************************)
\* ServeInv, as far as it is about the children of one node.
ServeAt(st, n) ==
  /\ st[n] \in {Hello, Gather} =>
       (idle[n] <=> \A c \in Below(st, n, Hello) : st[c] # Served)
  /\ \A c, o \in Below(st, n, Hello) : st[c] = Served /\ st[o] = Served => c = o
  /\ \A c \in Waits(n) : c \in Below(st, n, Hello) /\ st[c] = Asking /\ ~Talks(c)
  /\ \A c \in Below(st, n, Hello) : st[c] = Asking => c \in Waits(n) \/ Talks(c)
  /\ \A c \in Below(st, n, Hello) : st[c] \in {Served, Asked} => Talks(c)
  /\ st[n] = Gather /\ Below(st, n, Hello) # {} => \E c \in Below(st, n, Hello) : st[c] < Up

\* ServeInv, node by node.
LEMMA ServeSplit ==
  ASSUME NEW st, ServeInv(st), NEW n \in Nodes
  PROVE  ServeAt(st, n)
<1>1. \A c \in Below(st, n, Hello) : c \in Nodes \ {Root} /\ parent[c] = n
  BY DEF Below
<1>2. \A c \in Below(st, n, Hello) : st[c] = Asking => c \in Waits(n) \/ Talks(c)
  BY <1>1 DEF ServeInv, AskingQueued
<1>3. \A c \in Below(st, n, Hello) : st[c] \in {Served, Asked} => Talks(c)
  BY <1>1 DEF ServeInv, ServedTalk
<1>4. st[n] \in {Hello, Gather} =>
        (idle[n] <=> \A c \in Below(st, n, Hello) : st[c] # Served)
  BY DEF ServeInv, IdleServes
<1>5. \A c, o \in Below(st, n, Hello) : st[c] = Served /\ st[o] = Served => c = o
  BY DEF ServeInv, OneServed
<1>6. \A c \in Waits(n) : c \in Below(st, n, Hello) /\ st[c] = Asking /\ ~Talks(c)
  BY DEF ServeInv, QueuedAsk
<1>7. st[n] = Gather /\ Below(st, n, Hello) # {} => \E c \in Below(st, n, Hello) : st[c] < Up
  BY DEF ServeInv, GatherWaits
<1>8. QED
  BY <1>2, <1>3, <1>4, <1>5, <1>6, <1>7 DEF ServeAt

\* And back.
LEMMA ServeJoin ==
  ASSUME NEW st, TreeInv(st)', \A n \in Nodes : ServeAt(st, n)'
  PROVE  ServeInv(st)'
<1>1. ASSUME NEW c \in Nodes \ {Root}, st[c] # Out
      PROVE  parent'[c] \in Nodes /\ c \in Below(st, parent[c], Hello)'
  <2>1. parent'[c] \in Nodes /\ st[c] \in Nat
    BY <1>1 DEF TreeInv
  <2>2. st[c] >= Hello
    BY <2>1, <1>1
  <2>3. QED
    BY <2>1, <2>2 DEF Below
<1>2. IdleServes(st)'
  BY DEF ServeAt, IdleServes
<1>3. OneServed(st)'
  BY DEF ServeAt, OneServed
<1>4. QueuedAsk(st)'
  BY DEF ServeAt, QueuedAsk
<1>5. AskingQueued(st)'
  <2>1. ASSUME NEW c \in Nodes \ {Root}, st[c] = Asking
        PROVE  (c \in Waits(parent[c]) \/ Talks(c))'
    <3>1. parent'[c] \in Nodes /\ c \in Below(st, parent[c], Hello)'
      BY <2>1, <1>1
    <3>2. ServeAt(st, parent[c])'
      BY <3>1
    <3>3. QED
      BY <2>1, <3>1, <3>2 DEF ServeAt
  <2>2. QED
    BY <2>1 DEF AskingQueued
<1>6. ServedTalk(st)'
  <2>1. ASSUME NEW c \in Nodes \ {Root}, st[c] \in {Served, Asked} PROVE Talks(c)'
    <3>1. parent'[c] \in Nodes /\ c \in Below(st, parent[c], Hello)'
      BY <2>1, <1>1
    <3>2. ServeAt(st, parent[c])'
      BY <3>1
    <3>3. QED
      BY <2>1, <3>1, <3>2 DEF ServeAt
  <2>2. QED
    BY <2>1 DEF ServedTalk
<1>7. GatherWaits(st)'
  BY DEF ServeAt, GatherWaits
<1>8. QED
  BY <1>2, <1>3, <1>4, <1>5, <1>6, <1>7 DEF ServeInv

\* n gathers, and some of its children that asked are served or have reported.
GatherMove(st, st2, n) ==
  /\ st[n] = Gather /\ st2 \in [Nodes -> Nat]
  /\ \E c \in Below(st, n, Asking) : st[c] \in {Asking, Served}
  /\ \A x \in Nodes : x # n /\ x \notin Below(st, n, Asking) => st2[x] = st[x]
  /\ \A x \in Below(st, n, Asking) :
       st2[x] = st[x] \/ (st[x] \in {Asking, Served} /\ st2[x] \in {Served, Up})
  /\ st2[n] = Gather \/ (st2[n] = Due /\ \A c \in Below(st, n, Hello) : st2[c] = Up)

GatherVars(st2, n) ==
  /\ UNCHANGED <<parent, kids, reset, srTimer, askTimer, invTimer, downDue>>
  /\ upDue' = [upDue EXCEPT ![n] = IF st2[n] = Due THEN 1 ELSE 0]
  /\ \A x \in Nodes \ {n} :
       /\ done'[x] = done[x] /\ bfKids'[x] = bfKids[x] /\ idle'[x] = idle[x]
       /\ requests'[x] = requests[x] /\ tuples'[x] = tuples[x] /\ votes'[x] = votes[x]
       /\ routes'[x] = routes[x]
  /\ tuples[n] \subseteq tuples'[n]
  /\ done'[n] = Below(st2, n, Up) /\ bfKids'[n] = Below(st2, n, Served)
  /\ \/ routes'[n] = routes[n] /\ bfKids'[n] = bfKids[n]
     \/ routes'[n] = RunDijkstra(n, tuples'[n])

\* The message m of a child is taken, and a filter may be sent to a child.
GatherTraffic(st, st2, n, m, A) ==
  /\ m \in net /\ Exchange(m) /\ Server(m) = n /\ m.type # "SEND_BF"
  /\ Traffic({m}, A)
  /\ \A o \in A : /\ o.type = "SEND_BF" /\ o.src = n /\ o.dst \in Below(st, n, Asking)
                  /\ st2[o.dst] = Served
                  /\ \A q \in net \ {m} : Exchange(q) => Client(q) # o.dst
                  /\ \A q \in A : q = o
  /\ \A o \in net \ {m} : Exchange(o) => st2[Client(o)] = st[Client(o)]
  /\ \A c \in Nodes : st[c] = Asking /\ st2[c] # Asking => \E o \in A : o.dst = c

\* What a parent that gathers changes in the stages.
LEMMA GatherAdvance ==
  ASSUME NEW st, TreeInv(st), NEW n \in Nodes, NEW st2, GatherMove(st, st2, n)
  PROVE  /\ Advance(st, st2)
         /\ \A x \in Nodes : st[x] \in Nat /\ st2[x] \in Nat
         /\ \A x \in Nodes : st2[x] # st[x] =>
              \/ x = n /\ st[x] = Gather /\ st2[x] = Due
              \/ /\ x # Root /\ parent[x] = n /\ x # n
                 /\ st[x] \in {Asking, Served} /\ st2[x] \in {Served, Up}
<1>1. \A x \in Nodes : st[x] \in Nat /\ st2[x] \in Nat /\ st[x] <= End
  BY Stages DEF GatherMove
<1>2. ASSUME NEW x \in Nodes, st2[x] # st[x]
      PROVE  \/ x = n /\ st[x] = Gather /\ st2[x] = Due
             \/ /\ x # Root /\ parent[x] = n /\ x # n
                /\ st[x] \in {Asking, Served} /\ st2[x] \in {Served, Up}
  <2>1. CASE x = n
    BY <1>2, <2>1 DEF GatherMove
  <2>2. CASE x # n
    <3>1. x \in Below(st, n, Asking) /\ st[x] \in {Asking, Served} /\ st2[x] \in {Served, Up}
      BY <1>2, <2>2 DEF GatherMove
    <3>2. QED
      BY <2>2, <3>1 DEF Below
  <2>3. QED
    BY <2>1, <2>2
<1>3. Advance(st, st2)
  <2>1. ASSUME NEW x \in Nodes
        PROVE  st2[x] <= End /\ (st2[x] = Out <=> st[x] = Out) /\ (st2[x] = Hello <=> st[x] = Hello)
    <3>1. CASE st2[x] = st[x]
      BY <1>1, <3>1
    <3>2. CASE st2[x] # st[x]
      BY <1>2, <3>2
    <3>3. QED
      BY <3>1, <3>2
  <2>2. QED
    BY <2>1 DEF Advance, GatherMove
<1>4. QED
  BY <1>1, <1>2, <1>3

\* The tree after it.
LEMMA GatherTree ==
  ASSUME NEW st, TreeInv(st), NEW n \in Nodes, NEW st2, GatherMove(st, st2, n),
         UNCHANGED parent
  PROVE  TreeInv(st2)'
<1>1. /\ Advance(st, st2)
      /\ \A x \in Nodes : st[x] \in Nat /\ st2[x] \in Nat
      /\ \A x \in Nodes : st2[x] # st[x] =>
           \/ x = n /\ st[x] = Gather /\ st2[x] = Due
           \/ /\ x # Root /\ parent[x] = n /\ x # n
              /\ st[x] \in {Asking, Served} /\ st2[x] \in {Served, Up}
  BY GatherAdvance
<1>2. st2[Root] \in {Hello, Gather, Due, Awaiting, End}
  BY <1>1, NodesAssumption DEF TreeInv
<1>3. ASSUME NEW x \in Nodes \ {Root}, st[x] # Out PROVE Follows(st2[x], st2[parent[x]])
  <2>1. /\ parent[x] \in Nodes /\ parent[x] # x
        /\ st[x] <= Served => st[parent[x]] = Gather
        /\ st[x] = Up => Gather <= st[parent[x]] /\ st[parent[x]] <= Down
        /\ st[x] = Asked => st[parent[x]] = Awaiting
        /\ st[x] >= Down => st[parent[x]] >= Awaiting
    BY <1>3, ParentStage
  <2>2. CASE parent[x] = n
    <3>1. st[n] = Gather
      BY DEF GatherMove
    <3>2. st[x] <= Up
      BY <1>1, <2>1, <2>2, <3>1
    <3>3. st2[x] <= Up
      BY <1>1, <3>2
    <3>4. CASE st2[n] = Gather
      BY <3>3, <3>4, <1>1, <2>2 DEF Follows
    <3>5. CASE st2[n] # Gather
      <4>1. x \in Below(st, n, Hello)
        BY <1>1, <1>3, <2>2 DEF Below
      <4>2. st2[n] = Due /\ st2[x] = Up
        BY <3>5, <4>1 DEF GatherMove
      <4>3. QED
        BY <4>2, <2>2 DEF Follows
    <3>6. QED
      BY <3>4, <3>5
  <2>3. CASE parent[x] # n
    <3>1. CASE st2[parent[x]] = st[parent[x]]
      <4>1. st2[x] = st[x] \/ (st[x] = Gather /\ st2[x] = Due)
        BY <1>1, <2>3
      <4>2. QED
        BY <2>1, <3>1, <4>1, <1>1 DEF Follows
    <3>2. CASE st2[parent[x]] # st[parent[x]]
      <4>1. st[parent[x]] \in {Asking, Served} /\ st2[parent[x]] \in {Served, Up}
        BY <1>1, <2>1, <2>3, <3>2
      <4>2. st[x] = Up
        BY <1>1, <2>1, <4>1
      <4>3. st2[x] = Up
        BY <1>1, <4>2
      <4>4. QED
        BY <4>1, <4>3 DEF Follows
    <3>3. QED
      BY <3>1, <3>2
  <2>4. QED
    BY <2>2, <2>3
<1>4. QED
  BY <1>1, <1>2, <1>3, TreeStep

\* The child lists after it.
LEMMA GatherList ==
  ASSUME NEW st, TypeOK, TreeInv(st), ListInv(st), NEW n \in Nodes,
         NEW st2, GatherMove(st, st2, n), GatherVars(st2, n),
         \A c \in Nodes : Acking(c)' <=> Acking(c)
  PROVE  ListInv(st2)'
<1>1. /\ Advance(st, st2)
      /\ \A x \in Nodes : st[x] \in Nat /\ st2[x] \in Nat
      /\ \A x \in Nodes : st2[x] # st[x] =>
           \/ x = n /\ st[x] = Gather /\ st2[x] = Due
           \/ /\ x # Root /\ parent[x] = n /\ x # n
              /\ st[x] \in {Asking, Served} /\ st2[x] \in {Served, Up}
  BY GatherAdvance
<1>2. UNCHANGED <<parent, kids, reset>>
  BY DEF GatherVars
<1>3. \A p : \A k : Below(st2, p, k)' = Below(st2, p, k)
  BY <1>2 DEF Below
<1>4. \A p : \A c \in Below(st, p, Down) : c \in Nodes
  BY DEF Below
<1>5. ASSUME NEW x \in Nodes, NEW k \in {Gather, Down} PROVE st2[x] >= k <=> st[x] >= k
  <2>1. CASE st2[x] = st[x]
    BY <2>1
  <2>2. CASE st2[x] # st[x]
    <3>1. st[x] \in {Gather, Asking, Served} /\ st2[x] \in {Due, Served, Up}
      BY <1>1, <2>2
    <3>2. QED
      BY <3>1
  <2>3. QED
    BY <2>1, <2>2
<1>6. \A p : \A k \in {Gather, Down} : Below(st2, p, k) = Below(st, p, k)
  BY <1>5 DEF Below
<1>7. ASSUME NEW p \in Nodes \ {n}, NEW k \in {Served, Up} PROVE Below(st2, p, k) = Below(st, p, k)
  <2>1. ASSUME NEW x \in Nodes \ {Root}, parent[x] = p PROVE st2[x] >= k <=> st[x] >= k
    <3>1. CASE st2[x] = st[x]
      BY <3>1
    <3>2. CASE st2[x] # st[x]
      <4>1. st[x] = Gather /\ st2[x] = Due
        BY <1>1, <2>1, <3>2
      <4>2. QED
        BY <4>1
    <3>3. QED
      BY <3>1, <3>2
  <2>2. QED
    BY <2>1 DEF Below
<1> SUFFICES ASSUME NEW x \in Nodes, st2[x] # Out
             PROVE  /\ reset'[x] <=> st2[x] # End
                    /\ kids'[x] = Below(st2, x, Gather)'
                    /\ bfKids'[x] = Below(st2, x, Served)'
                    /\ st2[x] <= Asked => done'[x] = Below(st2, x, Up)'
                    /\ st2[x] = Down => done'[x] = {}
                    /\ st2[x] >= Awaiting => done'[x] = {c \in Below(st2, x, Down)' : ~Acking(c)'}
  BY DEF ListInv
<1>8. st[x] # Out
  BY <1>1 DEF Advance
<1>9. /\ reset[x] <=> st[x] # End
      /\ kids[x] = Below(st, x, Gather)
      /\ bfKids[x] = Below(st, x, Served)
      /\ st[x] <= Asked => done[x] = Below(st, x, Up)
      /\ st[x] = Down => done[x] = {}
      /\ st[x] >= Awaiting => done[x] = {c \in Below(st, x, Down) : ~Acking(c)}
  BY <1>8 DEF ListInv
<1>10. CASE x = n
  <2>1. st[n] = Gather /\ st2[n] \in {Gather, Due}
    BY DEF GatherMove
  <2>2. done'[n] = Below(st2, n, Up) /\ bfKids'[n] = Below(st2, n, Served)
    BY DEF GatherVars
  <2>3. Below(st2, n, Gather) = Below(st, n, Gather)
    BY <1>6
  <2>4. QED
    BY <1>2, <1>3, <1>9, <1>10, <2>1, <2>2, <2>3
<1>11. CASE x # n
  <2>1. done'[x] = done[x] /\ bfKids'[x] = bfKids[x]
    BY <1>11 DEF GatherVars
  <2>2. \/ st2[x] = st[x]
        \/ st[x] \in {Asking, Served} /\ st2[x] \in {Served, Up}
    BY <1>1, <1>11
  <2>3. /\ Below(st2, x, Served) = Below(st, x, Served) /\ Below(st2, x, Up) = Below(st, x, Up)
        /\ Below(st2, x, Gather) = Below(st, x, Gather) /\ Below(st2, x, Down) = Below(st, x, Down)
    BY <1>6, <1>7, <1>11
  <2>4. \A c \in Below(st, x, Down) : Acking(c)' <=> Acking(c)
    BY <1>4
  <2>5. /\ st2[x] # End <=> st[x] # End
        /\ st2[x] <= Asked <=> st[x] <= Asked
        /\ st2[x] = Down <=> st[x] = Down
        /\ st2[x] >= Awaiting <=> st[x] >= Awaiting
    BY <2>2, <1>1
  <2>6. QED
    BY <1>2, <1>3, <1>9, <2>1, <2>3, <2>4, <2>5
<1>12. QED
  BY <1>10, <1>11

\* The exchanges after it.
LEMMA GatherTalk ==
  ASSUME NEW st, TypeOK, TreeInv(st), TalkInv(st), NEW n \in Nodes,
         NEW st2, GatherMove(st, st2, n), GatherVars(st2, n),
         NEW m, NEW A, GatherTraffic(st, st2, n, m, A)
  PROVE  TalkInv(st2)'
<1>1. /\ Advance(st, st2)
      /\ \A x \in Nodes : st[x] \in Nat /\ st2[x] \in Nat
      /\ \A x \in Nodes : st2[x] # st[x] =>
           \/ x = n /\ st[x] = Gather /\ st2[x] = Due
           \/ /\ x # Root /\ parent[x] = n /\ x # n
              /\ st[x] \in {Asking, Served} /\ st2[x] \in {Served, Up}
  BY GatherAdvance
<1>2. UNCHANGED parent
  BY DEF GatherVars
<1> DEFINE D == {m}
<1>3. Traffic(D, A)
  BY DEF GatherTraffic
<1>4. \A o \in A : Exchange(o) =>
        /\ Client(o) \in Nodes \ {Root} /\ Server(o) = parent[Client(o)]
        /\ st2[Client(o)] = StageOf(o.type)
        /\ \A q \in net \ D : Exchange(q) => Client(q) # Client(o)
        /\ \A q \in A : Exchange(q) /\ Client(q) = Client(o) => q = o
  <2> SUFFICES ASSUME NEW o \in A
      PROVE  /\ Client(o) \in Nodes \ {Root} /\ Server(o) = parent[Client(o)]
             /\ st2[Client(o)] = StageOf(o.type)
             /\ \A q \in net \ D : Exchange(q) => Client(q) # Client(o)
             /\ \A q \in A : q = o
    OBVIOUS
  <2>1. /\ o.type = "SEND_BF" /\ o.src = n /\ o.dst \in Below(st, n, Asking)
        /\ st2[o.dst] = Served
        /\ \A q \in net \ {m} : Exchange(q) => Client(q) # o.dst
        /\ \A q \in A : q = o
    BY DEF GatherTraffic
  <2>2. Client(o) = o.dst /\ Server(o) = o.src /\ StageOf(o.type) = Served
    BY <2>1, TalkParts
  <2>3. QED
    BY <2>1, <2>2 DEF Below
<1>5. \A o \in A : o.type # "SEND_MISSING_P2C_ACK"
  BY DEF GatherTraffic
<1>6. \A o \in net \ D : Exchange(o) => st2[Client(o)] = st[Client(o)]
  BY DEF GatherTraffic
<1>7. ASSUME NEW o \in net \ D, o.type = "SEND_MISSING_P2C_ACK"
      PROVE  st2[o.src] >= Down /\ st2[parent[o.src]] = Awaiting
  <2>1. /\ o.src \in Nodes \ {Root} /\ st[o.src] \in Nat /\ st[o.src] >= Down
        /\ parent[o.src] \in Nodes /\ st[parent[o.src]] = Awaiting
    BY <1>7, AckParts
  <2>2. st2[o.src] = st[o.src] /\ st2[parent[o.src]] = st[parent[o.src]]
    BY <2>1, <1>1
  <2>3. QED
    BY <2>1, <2>2
<1> HIDE DEF D
<1>8. QED
  BY <1>1, <1>2, <1>3, <1>4, <1>5, <1>6, <1>7, TalkStep

\* The service after it.
LEMMA GatherServe ==
  ASSUME NEW st, TypeOK, TreeInv(st), ServeInv(st), NEW n \in Nodes,
         NEW st2, GatherMove(st, st2, n), GatherVars(st2, n), TreeInv(st2)',
         NEW m, NEW A, GatherTraffic(st, st2, n, m, A), TalkInv(st),
         ServeAt(st2, n)'
  PROVE  ServeInv(st2)'
<1>1. /\ Advance(st, st2)
      /\ \A x \in Nodes : st[x] \in Nat /\ st2[x] \in Nat
      /\ \A x \in Nodes : st2[x] # st[x] =>
           \/ x = n /\ st[x] = Gather /\ st2[x] = Due
           \/ /\ x # Root /\ parent[x] = n /\ x # n
              /\ st[x] \in {Asking, Served} /\ st2[x] \in {Served, Up}
  BY GatherAdvance
<1>2. \A p : Below(st2, p, Hello)' = Below(st, p, Hello)
  <2>1. parent' = parent
    BY DEF GatherVars
  <2>2. QED
    BY <2>1, <1>1, AdvanceGathered DEF Below
<1>3. ASSUME NEW c \in Nodes \ {Root}, parent[c] # n PROVE Talks(c)' <=> Talks(c)
  <2>1. net' = (net \ {m}) \cup A
    BY DEF GatherTraffic, Traffic
  <2>2. Client(m) # c
    <3>1. m \in net /\ Exchange(m) /\ Server(m) = n
      BY DEF GatherTraffic
    <3>2. QED
      BY <3>1, <1>3, Talking
  <2>3. ASSUME NEW o \in A PROVE Client(o) # c
    <3>1. o.type = "SEND_BF" /\ o.dst \in Below(st, n, Asking)
      BY DEF GatherTraffic
    <3>2. Client(o) = o.dst
      BY <3>1, TalkParts
    <3>3. QED
      BY <3>1, <3>2, <1>3 DEF Below
  <2>4. QED
    BY <2>1, <2>2, <2>3 DEF Talks
<1>4. ASSUME NEW x \in Nodes, x # n PROVE ServeAt(st2, x)'
  <2>1. /\ idle'[x] = idle[x] /\ Waits(x)' = Waits(x)
        /\ Below(st2, x, Hello)' = Below(st, x, Hello)
    BY <1>2, <1>4 DEF GatherVars, Waits
  <2>2. \A c \in Below(st, x, Hello) : /\ c \in Nodes \ {Root} /\ parent[c] = x
                                       /\ Talks(c)' <=> Talks(c)
    BY <1>3, <1>4 DEF Below
  <2>3. ASSUME NEW c \in Below(st, x, Hello)
        PROVE  st2[c] = st[c] \/ (st[c] = Gather /\ st2[c] = Due)
    <3>1. c \in Nodes /\ parent[c] # n
      BY <2>2, <1>4
    <3>2. QED
      BY <3>1, <1>1
  <2>4. \A c \in Below(st, x, Hello) : /\ \A k \in {Asking, Served, Asked} : st2[c] = k <=> st[c] = k
                                       /\ st2[c] < Up <=> st[c] < Up
    BY <2>3
  <2>5. st2[x] \in {Hello, Gather} => st[x] = st2[x]
    BY <1>1, <1>4
  <2>6. ServeAt(st, x)
    BY ServeSplit
  <2>7. (st2[x] \in {Hello, Gather} =>
          (idle[x] <=> \A c \in Below(st, x, Hello) : st2[c] # Served))
    BY <2>4, <2>5, <2>6 DEF ServeAt
  <2>8. \A c, o \in Below(st, x, Hello) : st2[c] = Served /\ st2[o] = Served => c = o
    BY <2>4, <2>6 DEF ServeAt
  <2>9. \A c \in Waits(x) : c \in Below(st, x, Hello) /\ st2[c] = Asking /\ ~Talks(c)'
    BY <2>2, <2>4, <2>6 DEF ServeAt
  <2>10. \A c \in Below(st, x, Hello) : /\ st2[c] = Asking => c \in Waits(x) \/ Talks(c)'
                                        /\ st2[c] \in {Served, Asked} => Talks(c)'
    BY <2>2, <2>4, <2>6 DEF ServeAt
  <2>11. st2[x] = Gather /\ Below(st, x, Hello) # {} => \E c \in Below(st, x, Hello) : st2[c] < Up
    BY <2>4, <2>5, <2>6 DEF ServeAt
  <2>12. QED
    BY <2>1, <2>7, <2>8, <2>9, <2>10, <2>11 DEF ServeAt
<1>5. \A x \in Nodes : ServeAt(st2, x)'
  BY <1>4
<1>6. QED
  BY <1>5, ServeJoin

\* The timers after it.
LEMMA GatherTimer ==
  ASSUME NEW st, TypeOK, TypeOK', TreeInv(st), ListInv(st), TimerInv(st), NEW n \in Nodes,
         NEW st2, GatherMove(st, st2, n), GatherVars(st2, n),
         NEW m, NEW A, GatherTraffic(st, st2, n, m, A)
  PROVE  TimerInv(st2)'
<1>1. /\ Advance(st, st2)
      /\ \A x \in Nodes : st[x] \in Nat /\ st2[x] \in Nat
      /\ \A x \in Nodes : st2[x] # st[x] =>
           \/ x = n /\ st[x] = Gather /\ st2[x] = Due
           \/ /\ x # Root /\ parent[x] = n /\ x # n
              /\ st[x] \in {Asking, Served} /\ st2[x] \in {Served, Up}
  BY GatherAdvance
<1>2. /\ UNCHANGED <<parent, kids, reset, srTimer, askTimer, invTimer, downDue>>
      /\ upDue' = [upDue EXCEPT ![n] = IF st2[n] = Due THEN 1 ELSE 0]
  BY DEF GatherVars
<1>3. kids[n] # {}
  <2>1. PICK c \in Below(st, n, Asking) : st[c] \in {Asking, Served}
    BY DEF GatherMove
  <2>2. c \in Below(st, n, Gather)
    BY <2>1 DEF Below
  <2>3. st[n] # Out
    BY DEF GatherMove
  <2>4. QED
    BY <2>2, <2>3 DEF ListInv
<1> SUFFICES ASSUME NEW x \in Nodes
             PROVE  /\ srTimer'[x] <=> x # Root /\ st2[x] \in {Hello, Gather} /\ kids'[x] = {}
                    /\ askTimer'[x] => \/ st2[x] = Asking
                                      \/ \E o \in net' : o.type = "SEND_BF" /\ o.dst = x
                    /\ invTimer'[x] <=> st2[x] = Awaiting
                    /\ upDue'[x] = IF st2[x] = Due THEN 1 ELSE 0
                    /\ downDue'[x] = IF st2[x] = Down THEN 1 ELSE 0
  BY DEF TimerInv
<1>4. /\ srTimer[x] <=> x # Root /\ st[x] \in {Hello, Gather} /\ kids[x] = {}
      /\ askTimer[x] => \/ st[x] = Asking
                        \/ \E o \in net : o.type = "SEND_BF" /\ o.dst = x
      /\ invTimer[x] <=> st[x] = Awaiting
      /\ upDue[x] = IF st[x] = Due THEN 1 ELSE 0
      /\ downDue[x] = IF st[x] = Down THEN 1 ELSE 0
  BY DEF TimerInv
<1>5. srTimer'[x] <=> x # Root /\ st2[x] \in {Hello, Gather} /\ kids'[x] = {}
  BY <1>1, <1>2, <1>3, <1>4
<1>6. invTimer'[x] <=> st2[x] = Awaiting
  BY <1>1, <1>2, <1>4
<1>7. downDue'[x] = IF st2[x] = Down THEN 1 ELSE 0
  BY <1>1, <1>2, <1>4
<1>8. upDue'[x] = IF st2[x] = Due THEN 1 ELSE 0
  <2>1. CASE x = n
    BY <2>1, <1>2 DEF TypeOK
  <2>2. CASE x # n
    <3>1. upDue'[x] = upDue[x]
      BY <2>2, <1>2 DEF TypeOK
    <3>2. QED
      BY <3>1, <2>2, <1>1, <1>4
  <2>3. QED
    BY <2>1, <2>2
<1>9. ASSUME askTimer'[x]
      PROVE  st2[x] = Asking \/ \E o \in net' : o.type = "SEND_BF" /\ o.dst = x
  <2>0. net' = (net \ {m}) \cup A /\ m.type # "SEND_BF"
    BY DEF GatherTraffic, Traffic
  <2>1. CASE st[x] = Asking /\ st2[x] # Asking
    <3>1. \E o \in A : o.dst = x /\ o.type = "SEND_BF"
      BY <2>1 DEF GatherTraffic
    <3>2. QED
      BY <3>1, <2>0
  <2>2. CASE st[x] # Asking
    BY <2>0, <2>2, <1>2, <1>4, <1>9
  <2>3. QED
    BY <2>1, <2>2
<1>10. QED
  BY <1>5, <1>6, <1>7, <1>8, <1>9

\* All of Control after a step of a parent that gathers.
LEMMA GatherStep ==
  ASSUME NEW st, NEW Q, TypeOK, TypeOK', Control(st, Q), NEW n \in Nodes,
         NEW st2, GatherMove(st, st2, n), GatherVars(st2, n),
         NEW m, NEW A, GatherTraffic(st, st2, n, m, A), ServeAt(st2, n)'
  PROVE  Control(st2, Q)'
<1>0. /\ TreeInv(st) /\ RootedInv /\ FreshInv(st) /\ ListInv(st) /\ ServeInv(st)
      /\ RouteInv(st) /\ TimerInv(st) /\ HelloInv(st) /\ TalkInv(st) /\ SettledInv(st, Q)
  BY DEF Control
<1>1. /\ Advance(st, st2)
      /\ \A x \in Nodes : st[x] \in Nat /\ st2[x] \in Nat
      /\ \A x \in Nodes : st2[x] # st[x] =>
           \/ x = n /\ st[x] = Gather /\ st2[x] = Due
           \/ /\ x # Root /\ parent[x] = n /\ x # n
              /\ st[x] \in {Asking, Served} /\ st2[x] \in {Served, Up}
  BY <1>0, GatherAdvance
<1>2. UNCHANGED <<parent, kids, reset>>
  BY DEF GatherVars
<1>3. /\ net' = (net \ {m}) \cup A
      /\ m.type \notin HelloTypes /\ m.type # "SEND_MISSING_P2C_ACK"
      /\ \A o \in A : o.type \notin HelloTypes /\ o.type # "SEND_MISSING_P2C_ACK"
  <2>1. net' = (net \ {m}) \cup A
    BY DEF GatherTraffic, Traffic
  <2>2. m.type \notin HelloTypes /\ m.type # "SEND_MISSING_P2C_ACK"
    BY TalkParts DEF GatherTraffic
  <2>3. \A o \in A : o.type = "SEND_BF"
    BY DEF GatherTraffic
  <2>4. QED
    BY <2>1, <2>2, <2>3 DEF HelloTypes
<1>4. TreeInv(st2)'
  BY <1>0, <1>2, GatherTree
<1>5. RootedInv'
  BY <1>0, <1>2, RootedStep
<1>6. FreshInv(st2)'
  <2>1. \A x \in Nodes : st[x] = Out => x # n
    BY DEF GatherMove
  <2>2. \A x \in Nodes : st[x] = Out =>
           /\ kids'[x] = kids[x] /\ done'[x] = done[x] /\ bfKids'[x] = bfKids[x]
           /\ idle'[x] = idle[x] /\ requests'[x] = requests[x] /\ reset'[x] = reset[x]
           /\ tuples'[x] = tuples[x] /\ votes'[x] = votes[x]
    BY <2>1, <1>2 DEF GatherVars
  <2>3. QED
    BY <2>2, <1>0, <1>1, <1>2, FreshStep
<1>7. ListInv(st2)'
  <2>1. \A c \in Nodes : Acking(c)' <=> Acking(c)
    BY <1>3 DEF Acking
  <2>2. QED
    BY <2>1, <1>0, GatherList
<1>8. ServeInv(st2)'
  BY <1>0, <1>4, GatherServe
<1>9. RouteInv(st2)'
  <2> SUFFICES ASSUME NEW x \in Nodes, st[x] # Out
               PROVE  /\ tuples[x] \subseteq tuples'[x] /\ kids'[x] = kids[x]
                      /\ \/ /\ routes'[x] = routes[x] /\ bfKids'[x] = bfKids[x]
                            /\ st2[x] >= Asking => st[x] >= Asking
                         \/ routes'[x] = RunDijkstra(x, tuples'[x]) /\ bfKids'[x] \subseteq kids[x]
    BY <1>0, <1>1, <1>2, RouteStep
  <2>1. st2[x] >= Asking => st[x] >= Asking
    BY <1>1
  <2>2. CASE x # n
    BY <2>1, <2>2, <1>2 DEF GatherVars
  <2>3. CASE x = n
    <3>1. bfKids'[n] \subseteq kids[n]
      <4>1. bfKids'[n] = Below(st2, n, Served)
        BY DEF GatherVars
      <4>2. kids[n] = Below(st, n, Gather)
        BY <1>0, <2>3 DEF ListInv
      <4>3. Below(st2, n, Served) \subseteq Below(st, n, Gather)
        <5>1. \A y \in Nodes : st2[y] >= Served => st[y] >= Gather
          BY <1>1
        <5>2. QED
          BY <5>1 DEF Below
      <4>4. QED
        BY <4>1, <4>2, <4>3
    <3>2. QED
      BY <3>1, <2>1, <2>3, <1>2 DEF GatherVars
  <2>4. QED
    BY <2>2, <2>3
<1>10. TimerInv(st2)'
  BY <1>0, GatherTimer
<1>11. HelloInv(st2)'
  <2>1. \A o : o.type \in HelloTypes => (o \in net' <=> o \in net)
    BY <1>3
  <2>2. QED
    BY <2>1, <1>0, <1>1, <1>2, HelloStep DEF TypeOK
<1>12. TalkInv(st2)'
  BY <1>0, GatherTalk
<1>13. SettledInv(st2, Q)'
  <2>1. PICK c \in Below(st, n, Asking) : st[c] \in {Asking, Served}
    BY DEF GatherMove
  <2>2. c \in Q /\ parent[c] = n
    BY <2>1, <1>0 DEF SettledInv, Below
  <2>3. n \in Q
    BY <2>2, <1>0 DEF SettledInv
  <2>4. \A x \in Nodes : st2[x] >= Due => x \in Q
    <3> SUFFICES ASSUME NEW x \in Nodes, st2[x] >= Due, x # n PROVE x \in Q
      BY <2>3
    <3>1. st[x] >= Due
      BY <1>1
    <3>2. QED
      BY <3>1, <1>0 DEF SettledInv
  <2>5. QED
    BY <2>4, <1>0, <1>1, <1>2, SettledStep
<1>14. QED
  BY <1>4, <1>5, <1>6, <1>7, <1>8, <1>9, <1>10, <1>11, <1>12, <1>13 DEF Control

\* What is known of a request that arrives.
LEMMA AskArrives ==
  ASSUME NEW st, NEW Q, TypeOK, Control(st, Q), NEW m \in net, m.type = "ASK_BF"
  PROVE  /\ Exchange(m) /\ Client(m) = m.src /\ Server(m) = m.dst
         /\ m.src \in Nodes \ {Root} /\ m.dst = parent[m.src] /\ m.dst \in Nodes
         /\ m.src # m.dst /\ st[m.src] = Asking /\ st[m.dst] = Gather
         /\ m.src \in Below(st, m.dst, Asking)
         /\ {m.dst, m.src} \in tuples[m.dst]
         /\ \A o \in net \ {m} : Exchange(o) => Client(o) # m.src
         /\ upDue[m.dst] = 0
<1>0. TreeInv(st) /\ TalkInv(st) /\ ListInv(st) /\ RouteInv(st) /\ TimerInv(st)
  BY DEF Control
<1>1. Exchange(m) /\ Client(m) = m.src /\ Server(m) = m.dst /\ StageOf(m.type) = Asking
  BY TalkParts
<1>2. /\ m.src \in Nodes \ {Root} /\ m.dst = parent[m.src] /\ m.dst \in Nodes
      /\ m.src # m.dst /\ st[m.src] = Asking /\ st[m.dst] = Gather
      /\ \A o \in net : Exchange(o) /\ Client(o) = m.src => o = m
  BY <1>0, <1>1, Talking
<1>3. m.src \in Below(st, m.dst, Asking) /\ m.src \in Below(st, m.dst, Gather)
  BY <1>2 DEF Below
<1>4. m.src \in kids[m.dst]
  BY <1>0, <1>2, <1>3 DEF ListInv
<1>5. {m.dst, m.src} \in tuples[m.dst]
  <2>1. st[m.dst] # Out
    BY <1>2
  <2>2. QED
    BY <2>1, <1>0, <1>2, <1>4 DEF RouteInv
<1>6. upDue[m.dst] = 0
  BY <1>0, <1>2 DEF TimerInv
<1>7. QED
  BY <1>1, <1>2, <1>3, <1>5, <1>6

\* SendToChildBF: an idle parent serves the child that asks.
LEMMA ServeChild ==
  ASSUME NEW st, NEW Q, TypeOK, TypeOK', ServiceInv, Control(st, Q), NEW m \in net,
         SendToChildBF(m)
  PROVE  /\ Control(Move(st, m.src, Served), Q)'
         /\ net' = (net \ {m}) \cup {Msg("SEND_BF", m.dst, m.src, tuples[m.dst],
                                         Keys(votes[m.dst]))}
<1> DEFINE n == m.dst
           c == m.src
           st2 == Move(st, c, Served)
           M == Msg("SEND_BF", n, c, tuples[n], Keys(votes[n]))
           A == {M}
<1>0. TreeInv(st) /\ TalkInv(st) /\ ListInv(st) /\ ServeInv(st)
  BY DEF Control
<1>1. /\ Exchange(m) /\ Client(m) = c /\ Server(m) = n /\ m.type = "ASK_BF"
      /\ c \in Nodes \ {Root} /\ n = parent[c] /\ n \in Nodes
      /\ c # n /\ st[c] = Asking /\ st[n] = Gather
      /\ c \in Below(st, n, Asking)
      /\ {n, c} \in tuples[n]
      /\ \A o \in net \ {m} : Exchange(o) => Client(o) # c
      /\ upDue[n] = 0
  BY AskArrives DEF SendToChildBF
<1>2. /\ idle[n]
      /\ idle' = [idle EXCEPT ![n] = FALSE]
      /\ bfKids' = [bfKids EXCEPT ![n] = @ \cup {c}]
      /\ routes' = [routes EXCEPT ![n] = RunDijkstra(n, tuples[n])]
      /\ net' = (net \ {m}) \cup SendBF(n, c, tuples[n], votes[n])
      /\ UNCHANGED <<parent, kids, done, requests, reset, tuples, votes, srTimer, askTimer,
                     invTimer, upDue, downDue>>
  BY DEF SendToChildBF, treeVars, flagVars, tableVars, timerVars, dueVars
<1>3. net' = (net \ {m}) \cup {M}
  <2>1. tuples[n] \in SUBSET Edges
    BY <1>1 DEF TypeOK
  <2>2. c \in RunDijkstra(n, tuples[n])
    BY <1>1, <2>1, LinkRoute
  <2>3. SendBF(n, c, tuples[n], votes[n]) = {M}
    BY <2>2, RoutedOne DEF SendBF
  <2>4. QED
    BY <2>3, <1>2
<1>4. M.type = "SEND_BF" /\ M.src = n /\ M.dst = c
  BY MsgParts
<1> HIDE DEF M
<1>5. Exchange(M) /\ Client(M) = c
  BY <1>4, TalkParts
<1>6. st2[c] = Served /\ \A x \in Nodes \ {c} : st2[x] = st[x]
  BY <1>0, <1>1, MoveValues
<1>7. st2 \in [Nodes -> Nat]
  BY <1>0 DEF Move, TreeInv
<1> HIDE DEF st2
<1>8. GatherMove(st, st2, n)
  <2>1. st2[n] = Gather /\ st[c] \in {Asking, Served} /\ st2[c] \in {Served, Up}
    BY <1>1, <1>6
  <2>2. \A x \in Nodes : x # n /\ x \notin Below(st, n, Asking) => st2[x] = st[x]
    BY <1>1, <1>6
  <2>3. \A x \in Below(st, n, Asking) :
          st2[x] = st[x] \/ (st[x] \in {Asking, Served} /\ st2[x] \in {Served, Up})
    BY <2>1, <1>6 DEF Below
  <2>4. QED
    BY <2>1, <2>2, <2>3, <1>1, <1>7 DEF GatherMove
<1>9. \A x \in Nodes : st[x] \in Nat /\ st2[x] \in Nat
  BY <1>0, <1>7, Stages
<1>10. GatherVars(st2, n)
  <2>1. done[n] = Below(st, n, Up) /\ bfKids[n] = Below(st, n, Served)
    BY <1>0, <1>1 DEF ListInv
  <2>2. Below(st2, n, Up) = Below(st, n, Up)
    <3>1. \A x \in Nodes : st2[x] >= Up <=> st[x] >= Up
      BY <1>1, <1>6
    <3>2. QED
      BY <3>1 DEF Below
  <2>3. Below(st2, n, Served) = Below(st, n, Served) \cup {c}
    <3>1. \A x \in Nodes : st2[x] >= Served <=> st[x] >= Served \/ x = c
      BY <1>1, <1>6
    <3>2. QED
      BY <3>1, <1>1 DEF Below
  <2>4. /\ bfKids'[n] = bfKids[n] \cup {c} /\ routes'[n] = RunDijkstra(n, tuples'[n])
        /\ \A x \in Nodes \ {n} : /\ idle'[x] = idle[x] /\ bfKids'[x] = bfKids[x]
                                  /\ routes'[x] = routes[x]
    <3>1. bfKids'[n] = bfKids[n] \cup {c} /\ \A x \in Nodes \ {n} : bfKids'[x] = bfKids[x]
      BY <1>1, <1>2 DEF TypeOK
    <3>2. routes'[n] = RunDijkstra(n, tuples[n]) /\ \A x \in Nodes \ {n} : routes'[x] = routes[x]
      <4>1. routes \in [Nodes -> SUBSET Nodes] /\ n \in Nodes
        BY <1>1 DEF TypeOK
      <4>2. routes' = [routes EXCEPT ![n] = RunDijkstra(n, tuples[n])]
        BY <1>2
      <4>3. QED
        BY <4>1, <4>2
    <3>3. \A x \in Nodes \ {n} : idle'[x] = idle[x]
      <4>1. idle \in [Nodes -> BOOLEAN] /\ n \in Nodes
        BY <1>1 DEF TypeOK
      <4>2. idle' = [idle EXCEPT ![n] = FALSE]
        BY <1>2
      <4>3. QED
        BY <4>1, <4>2
    <3>4. tuples' = tuples
      BY <1>2
    <3>5. QED
      BY <3>1, <3>2, <3>3, <3>4
  <2>5. st2[n] # Due
    BY <1>1, <1>6
  <2>6. upDue' = [upDue EXCEPT ![n] = IF st2[n] = Due THEN 1 ELSE 0]
    BY <2>5, <1>1, <1>2 DEF TypeOK
  <2>7. QED
    BY <1>2, <2>1, <2>2, <2>3, <2>4, <2>6 DEF GatherVars
<1>11. GatherTraffic(st, st2, n, m, A)
  <2>1. Traffic({m}, A)
    BY <1>3 DEF Traffic
  <2>2. \A o \in net \ {m} : Exchange(o) => st2[Client(o)] = st[Client(o)]
    BY <1>0, <1>1, <1>6, Talking
  <2>3. \A x \in Nodes : st[x] = Asking /\ st2[x] # Asking => \E o \in A : o.dst = x
    BY <1>4, <1>6
  <2>4. QED
    BY <2>1, <2>2, <2>3, <1>1, <1>4, <1>6 DEF GatherTraffic
<1>12. ServeAt(st2, n)'
  <2>1. Below(st2, n, Hello)' = Below(st, n, Hello)
    <3>1. \A x \in Nodes : st2[x] >= Hello <=> st[x] >= Hello
      BY <1>1, <1>6
    <3>2. QED
      BY <3>1, <1>2 DEF Below
  <2>2. Waits(n)' = {} /\ ~idle'[n]
    BY <1>1, <1>2 DEF ServiceInv, Waits, TypeOK
  <2>3. ServeAt(st, n)
    BY <1>0, <1>1, ServeSplit
  <2>4. \A x \in Below(st, n, Hello) : x \in Nodes /\ st[x] # Served
    BY <1>1, <1>2, <2>3 DEF ServeAt, Below
  <2>5. Waits(n) = {}
    BY <1>1, <1>2 DEF ServiceInv, Waits
  <2>6. c \in Below(st, n, Hello)
    BY <1>1, <1>9 DEF Below
  <2>7. \A x : x # c => (Talks(x)' <=> Talks(x))
    BY <1>1, <1>3, <1>5 DEF Talks
  <2>8. Talks(c)'
    BY <1>3, <1>5 DEF Talks
  <2>9. \A x \in Below(st, n, Hello) : /\ st2[x] = Asking => Talks(x)'
                                       /\ st2[x] \in {Served, Asked} => Talks(x)'
    BY <1>6, <2>3, <2>4, <2>5, <2>7, <2>8 DEF ServeAt
  <2>10. \A x, o \in Below(st, n, Hello) : st2[x] = Served /\ st2[o] = Served => x = o
    BY <1>6, <2>4
  <2>11. st2[c] = Served /\ st2[c] < Up
    BY <1>6
  <2>12. QED
    BY <2>1, <2>2, <2>6, <2>9, <2>10, <2>11 DEF ServeAt
<1>13. Control(st2, Q)'
  BY <1>1, <1>8, <1>10, <1>11, <1>12, GatherStep
<1>14. QED
  BY <1>3, <1>13 DEF st2, M

\* Who waits in a queue that one more has joined.
LEMMA AppendWaits ==
  ASSUME NEW S, NEW s \in Seq(S), NEW c \in S, NEW t, t = Append(s, c)
  PROVE  {t[i] : i \in DOMAIN t} = {s[i] : i \in DOMAIN s} \cup {c}
<1>1. /\ DOMAIN t = 1 .. Len(s) + 1 /\ DOMAIN s = 1 .. Len(s) /\ Len(s) \in Nat
      /\ t[Len(s) + 1] = c /\ \A i \in 1 .. Len(s) : t[i] = s[i]
  OBVIOUS
<1>2. \A i \in DOMAIN t : t[i] \in {s[j] : j \in DOMAIN s} \cup {c}
  <2> SUFFICES ASSUME NEW i \in DOMAIN t PROVE t[i] \in {s[j] : j \in DOMAIN s} \cup {c}
    OBVIOUS
  <2>1. i \in 1 .. Len(s) \/ i = Len(s) + 1
    BY <1>1
  <2>2. QED
    BY <2>1, <1>1
<1>3. \A j \in DOMAIN s : j \in DOMAIN t /\ t[j] = s[j]
  BY <1>1
<1>4. Len(s) + 1 \in DOMAIN t
  BY <1>1
<1>5. QED
  BY <1>1, <1>2, <1>3, <1>4

\* Who waits in a queue that its head has left.
LEMMA TailWaits ==
  ASSUME NEW S, NEW s \in Seq(S), s # <<>>
  PROVE  LET t == Tail(s) IN
         /\ {s[i] : i \in DOMAIN s} = {t[i] : i \in DOMAIN t} \cup {Head(s)}
         /\ (\A i, j \in DOMAIN s : s[i] = s[j] => i = j) => Head(s) \notin {t[i] : i \in DOMAIN t}
<1> DEFINE t == Tail(s)
<1>1. /\ DOMAIN s = 1 .. Len(s) /\ Len(s) \in Nat /\ Len(s) >= 1 /\ Head(s) = s[1]
      /\ DOMAIN t = 1 .. Len(s) - 1 /\ \A i \in 1 .. Len(s) - 1 : t[i] = s[i + 1]
  OBVIOUS
<1> HIDE DEF t
<1>2. \A i \in DOMAIN t : i + 1 \in DOMAIN s /\ t[i] = s[i + 1] /\ i + 1 # 1
  BY <1>1
<1>3. \A i \in DOMAIN s : i = 1 \/ (i - 1 \in DOMAIN t /\ t[i - 1] = s[i])
  BY <1>1
<1>4. 1 \in DOMAIN s
  BY <1>1
<1>5. {s[i] : i \in DOMAIN s} = {t[i] : i \in DOMAIN t} \cup {Head(s)}
  <2>1. \A x \in {s[i] : i \in DOMAIN s} : x \in {t[i] : i \in DOMAIN t} \cup {Head(s)}
    BY <1>1, <1>3
  <2>2. \A x \in {t[i] : i \in DOMAIN t} : x \in {s[i] : i \in DOMAIN s}
    BY <1>2
  <2>3. Head(s) \in {s[i] : i \in DOMAIN s}
    BY <1>1, <1>4
  <2>4. QED
    BY <2>1, <2>2, <2>3
<1>6. ASSUME \A i, j \in DOMAIN s : s[i] = s[j] => i = j
      PROVE  Head(s) \notin {t[i] : i \in DOMAIN t}
  <2> SUFFICES ASSUME NEW i \in DOMAIN t, t[i] = Head(s) PROVE FALSE
    OBVIOUS
  <2>1. i + 1 \in DOMAIN s /\ s[i + 1] = s[1] /\ i + 1 # 1
    BY <1>1, <1>2
  <2>2. QED
    BY <2>1, <1>4, <1>6
<1>7. QED
  BY <1>5, <1>6 DEF t

\* EnqueueChild: a busy parent queues the child that asks.
LEMMA QueueChild ==
  ASSUME NEW st, NEW Q, TypeOK, TypeOK', Control(st, Q), NEW m \in net, EnqueueChild(m)
  PROVE  Control(st, Q)' /\ net' = net \ {m}
<1> DEFINE n == m.dst
           c == m.src
           A == {}
<1>0. TreeInv(st) /\ TalkInv(st) /\ ListInv(st) /\ ServeInv(st)
  BY DEF Control
<1>1. /\ Exchange(m) /\ Client(m) = c /\ Server(m) = n /\ m.type = "ASK_BF"
      /\ c \in Nodes \ {Root} /\ n = parent[c] /\ n \in Nodes
      /\ c # n /\ st[c] = Asking /\ st[n] = Gather
      /\ c \in Below(st, n, Asking)
      /\ \A o \in net \ {m} : Exchange(o) => Client(o) # c
      /\ upDue[n] = 0
  BY AskArrives DEF EnqueueChild
<1>2. /\ ~idle[n]
      /\ requests' = IF AlreadyEnqueued(n, c) THEN requests
                     ELSE [requests EXCEPT ![n] = Append(@, c)]
      /\ net' = net \ {m}
      /\ UNCHANGED <<parent, kids, done, bfKids, idle, reset, tuples, votes, routes, srTimer,
                     askTimer, invTimer, upDue, downDue>>
  BY DEF EnqueueChild, treeVars, flagVars, tableVars, timerVars, dueVars
<1>3. Talks(c) /\ ~Talks(c)' /\ \A x : x # c => (Talks(x)' <=> Talks(x))
  BY <1>1, <1>2 DEF Talks
<1>4. ServeAt(st, n)
  BY <1>0, <1>1, ServeSplit
<1>5. c \notin Waits(n)
  BY <1>3, <1>4 DEF ServeAt
<1>6. ~AlreadyEnqueued(n, c)
  BY <1>5 DEF Waits, AlreadyEnqueued
<1>7. requests' = [requests EXCEPT ![n] = Append(@, c)]
  BY <1>2, <1>6
<1>8. requests \in [Nodes -> Seq(Nodes)]
  BY DEF TypeOK
<1>9. requests'[n] = Append(requests[n], c) /\ \A x \in Nodes \ {n} : requests'[x] = requests[x]
  BY <1>1, <1>7, <1>8
<1>10. Waits(n)' = Waits(n) \cup {c}
  <2>1. requests[n] \in Seq(Nodes) /\ c \in Nodes
    BY <1>1, <1>8
  <2>2. requests'[n] = Append(requests[n], c)
    BY <1>9
  <2> DEFINE s == requests[n]
             t == requests'[n]
  <2>3. {t[i] : i \in DOMAIN t} = {s[i] : i \in DOMAIN s} \cup {c}
    <3>1. s \in Seq(Nodes) /\ c \in Nodes /\ t = Append(s, c)
      BY <2>1, <2>2
    <3> HIDE DEF s, t
    <3>2. QED
      BY <3>1, AppendWaits
  <2>4. QED
    BY <2>3 DEF Waits
<1>11. \A x \in Nodes : st[x] \in Nat
  BY <1>0, Stages
<1>12. st \in [Nodes -> Nat]
  BY <1>0 DEF TreeInv
<1>13. GatherMove(st, st, n)
  BY <1>1, <1>12 DEF GatherMove
<1>14. GatherVars(st, n)
  <2>1. done[n] = Below(st, n, Up) /\ bfKids[n] = Below(st, n, Served)
    BY <1>0, <1>1 DEF ListInv
  <2>2. st[n] # Due
    BY <1>1
  <2>3. upDue' = [upDue EXCEPT ![n] = IF st[n] = Due THEN 1 ELSE 0]
    BY <2>2, <1>1, <1>2 DEF TypeOK
  <2>4. QED
    BY <1>2, <1>9, <2>1, <2>3 DEF GatherVars
<1>15. GatherTraffic(st, st, n, m, A)
  <2>1. Traffic({m}, A)
    BY <1>2 DEF Traffic
  <2>2. QED
    BY <2>1, <1>1 DEF GatherTraffic
<1>16. ServeAt(st, n)'
  <2>1. Below(st, n, Hello)' = Below(st, n, Hello)
    BY <1>2 DEF Below
  <2>2. c \in Below(st, n, Hello)
    BY <1>1, <1>11 DEF Below
  <2>3. \A x \in Waits(n)' : x \in Below(st, n, Hello) /\ st[x] = Asking /\ ~Talks(x)'
    <3>1. \A x \in Waits(n) : x \in Below(st, n, Hello) /\ st[x] = Asking /\ ~Talks(x)
      BY <1>4 DEF ServeAt
    <3>2. QED
      BY <3>1, <2>2, <1>1, <1>3, <1>10
  <2>4. \A x \in Below(st, n, Hello) : st[x] = Asking => x \in Waits(n)' \/ Talks(x)'
    <3>1. \A x \in Below(st, n, Hello) : st[x] = Asking => x \in Waits(n) \/ Talks(x)
      BY <1>4 DEF ServeAt
    <3>2. QED
      BY <3>1, <1>3, <1>10
  <2>5. \A x \in Below(st, n, Hello) : st[x] \in {Served, Asked} => Talks(x)'
    <3>1. \A x \in Below(st, n, Hello) : st[x] \in {Served, Asked} => Talks(x)
      BY <1>4 DEF ServeAt
    <3>2. st[c] \notin {Served, Asked}
      BY <1>1
    <3>3. QED
      BY <3>1, <3>2, <1>3
  <2>6. idle'[n] = idle[n]
    BY <1>2
  <2>7. QED
    BY <2>1, <2>3, <2>4, <2>5, <2>6, <1>4 DEF ServeAt
<1>17. Control(st, Q)'
  <2> HIDE DEF A
  <2>1. QED
    BY <1>1, <1>13, <1>14, <1>15, <1>16, GatherStep
<1>18. QED
  BY <1>2, <1>17

\* What is known of a report that arrives.
LEMMA ReportArrives ==
  ASSUME NEW st, NEW Q, TypeOK, TypeOK', Control(st, Q), NEW m \in net,
         ProcessReceivedMissing(m)
  PROVE  /\ Exchange(m) /\ Client(m) = m.src /\ Server(m) = m.dst /\ m.type = "SEND_MISSING_C2P"
         /\ m.src \in Nodes \ {Root} /\ m.dst = parent[m.src] /\ m.dst \in Nodes
         /\ m.src # m.dst /\ st[m.src] = Served /\ st[m.dst] = Gather
         /\ m.src \in Below(st, m.dst, Asking)
         /\ \A o \in net \ {m} : Exchange(o) => Client(o) # m.src
         /\ upDue[m.dst] = 0
         /\ \A x \in Below(st, m.dst, Hello) : x \in Nodes /\ Gather <= st[x] /\ st[x] <= Up
         /\ \A x \in Below(st, m.dst, Hello) : st[x] = Served => x = m.src
         /\ kids[m.dst] = Below(st, m.dst, Hello)
         /\ done'[m.dst] = Below(st, m.dst, Up) \cup {m.src}
         /\ UNCHANGED <<parent, kids, reset, srTimer, askTimer, invTimer, downDue>>
         /\ \A x \in Nodes \ {m.dst} : /\ done'[x] = done[x] /\ tuples'[x] = tuples[x]
                                       /\ votes'[x] = votes[x]
         /\ tuples'[m.dst] = tuples[m.dst] \cup m.links
         /\ votes'[m.dst] = StoreVotes(votes[m.dst], m.votes)
<1> DEFINE n == m.dst
           c == m.src
<1>0. TreeInv(st) /\ TalkInv(st) /\ ListInv(st) /\ ServeInv(st) /\ TimerInv(st) /\ SettledInv(st, Q)
  BY DEF Control
<1>1. /\ m.type = "SEND_MISSING_C2P"
      /\ tuples' = [tuples EXCEPT ![n] = @ \cup m.links]
      /\ votes' = [votes EXCEPT ![n] = StoreVotes(@, m.votes)]
      /\ kids' = [kids EXCEPT ![n] = @ \cup {c}]
      /\ done' = [done EXCEPT ![n] = @ \cup {c}]
      /\ UNCHANGED <<parent, reset, srTimer, askTimer, invTimer, downDue>>
  BY DEF ProcessReceivedMissing, MarkDone, flagVars, timerVars
<1>2. Exchange(m) /\ Client(m) = c /\ Server(m) = n /\ StageOf(m.type) = Served
  BY <1>1, TalkParts
<1>3. /\ c \in Nodes \ {Root} /\ n = parent[c] /\ n \in Nodes
      /\ c # n /\ st[c] = Served /\ st[n] = Gather
      /\ \A o \in net : Exchange(o) /\ Client(o) = c => o = m
  BY <1>0, <1>2, Talking
<1>4. c \in Below(st, n, Asking) /\ c \in Below(st, n, Hello) /\ c \in Below(st, n, Gather)
  BY <1>3 DEF Below
<1>5. upDue[n] = 0
  BY <1>0, <1>3 DEF TimerInv
<1>6. n \in Q
  <2>1. c \in Q
    BY <1>0, <1>3 DEF SettledInv
  <2>2. QED
    BY <2>1, <1>0, <1>3 DEF SettledInv
<1>7. ASSUME NEW x \in Below(st, n, Hello)
      PROVE  x \in Nodes \ {Root} /\ parent[x] = n /\ Gather <= st[x] /\ st[x] <= Up
  <2>1. x \in Nodes \ {Root} /\ parent[x] = n /\ st[x] \in Nat /\ st[x] # Out
    BY <1>0, Stages DEF Below
  <2>2. st[x] # Hello
    BY <2>1, <1>0, <1>6 DEF SettledInv
  <2>3. /\ st[x] = Asked => st[parent[x]] = Awaiting
        /\ st[x] >= Down => st[parent[x]] >= Awaiting
    BY <2>1, <1>0, ParentStage
  <2>4. QED
    BY <2>1, <2>2, <2>3, <1>3
<1>8. \A x \in Below(st, n, Hello) : st[x] = Served => x = c
  BY <1>0, <1>3, <1>4 DEF ServeInv, OneServed
<1>9. kids[n] = Below(st, n, Hello)
  <2>1. kids[n] = Below(st, n, Gather)
    BY <1>0, <1>3 DEF ListInv
  <2>2. \A x \in Nodes : st[x] >= Gather => st[x] >= Hello
    BY <1>0, Stages
  <2>3. QED
    BY <2>1, <2>2, <1>7 DEF Below
<1>10. done[n] = Below(st, n, Up)
  BY <1>0, <1>3 DEF ListInv
<1>11. kids' = kids
  <2>1. kids[n] \cup {c} = kids[n]
    BY <1>4, <1>9
  <2>2. kids \in [Nodes -> SUBSET Nodes]
    BY DEF TypeOK
  <2>3. QED
    BY <2>1, <2>2, <1>1
<1>12. done'[n] = done[n] \cup {c} /\ \A x \in Nodes \ {n} : done'[x] = done[x]
  <2>1. done \in [Nodes -> SUBSET Nodes]
    BY DEF TypeOK
  <2>2. QED
    BY <2>1, <1>1, <1>3
<1>16. tuples \in [Nodes -> SUBSET Edges] /\ votes \in [Nodes -> SUBSET (Authors \X Authors)]
  BY DEF TypeOK
<1>13. tuples'[n] = tuples[n] \cup m.links /\ \A x \in Nodes \ {n} : tuples'[x] = tuples[x]
  BY <1>1, <1>3, <1>16
<1>14. votes'[n] = StoreVotes(votes[n], m.votes) /\ \A x \in Nodes \ {n} : votes'[x] = votes[x]
  BY <1>1, <1>3, <1>16
<1>15. QED
  BY <1>1, <1>2, <1>3, <1>4, <1>5, <1>7, <1>8, <1>9, <1>10, <1>11, <1>12, <1>13, <1>14

\* The report of c makes n idle, or makes it turn to the next child in the queue.
LEMMA LastReport ==
  ASSUME NEW st, NEW Q, TypeOK, TypeOK', Control(st, Q), NEW m \in net,
         ProcessReceivedMissing(m), AllReported(kids'[m.dst], done'[m.dst]),
         upDue' = [upDue EXCEPT ![m.dst] = @ + 1], net' = net \ {m},
         UNCHANGED <<serviceVars, routes>>
  PROVE  Control(Move(Move(st, m.src, Up), m.dst, Due), Q)'
<1> DEFINE n == m.dst
           c == m.src
           st2 == Move(Move(st, c, Up), n, Due)
           A == {}
<1>0. TreeInv(st) /\ TalkInv(st) /\ ListInv(st) /\ ServeInv(st)
  BY DEF Control
<1>1. /\ Exchange(m) /\ Client(m) = c /\ Server(m) = n /\ m.type = "SEND_MISSING_C2P"
      /\ c \in Nodes \ {Root} /\ n = parent[c] /\ n \in Nodes
      /\ c # n /\ st[c] = Served /\ st[n] = Gather
      /\ c \in Below(st, n, Asking)
      /\ \A o \in net \ {m} : Exchange(o) => Client(o) # c
      /\ upDue[n] = 0
      /\ kids[n] = Below(st, n, Hello)
      /\ done'[n] = Below(st, n, Up) \cup {c}
      /\ UNCHANGED <<parent, kids, reset, srTimer, askTimer, invTimer, downDue>>
  BY ReportArrives
<1>2. /\ \A x \in Below(st, n, Hello) : x \in Nodes /\ Gather <= st[x] /\ st[x] <= Up
      /\ \A x \in Nodes \ {n} : /\ done'[x] = done[x] /\ tuples'[x] = tuples[x]
                                /\ votes'[x] = votes[x]
      /\ tuples'[n] = tuples[n] \cup m.links
  BY ReportArrives
<1>3. UNCHANGED <<bfKids, idle, requests, routes>>
  BY DEF serviceVars
<1>4. st2[c] = Up /\ st2[n] = Due /\ \A x \in Nodes \ {n, c} : st2[x] = st[x]
  BY <1>0, <1>1 DEF Move, TreeInv
<1>5. st2 \in [Nodes -> Nat]
  BY <1>0 DEF Move, TreeInv
<1> HIDE DEF st2
<1>6. \A x \in Nodes : st[x] \in Nat /\ st2[x] \in Nat
  BY <1>0, <1>5, Stages
<1>7. \A x \in Below(st, n, Hello) : x # n /\ st2[x] = Up
  <2> SUFFICES ASSUME NEW x \in Below(st, n, Hello), x # c PROVE x # n /\ st2[x] = Up
    BY <1>1, <1>4
  <2>1. x \in done'[n]
    BY <1>1 DEF AllReported
  <2>2. st[x] = Up
    BY <2>1, <1>1, <1>2, <1>6 DEF Below
  <2>3. QED
    BY <2>2, <1>1, <1>2, <1>4
<1>8. GatherMove(st, st2, n)
  <2>1. \A x \in Nodes : x # n /\ x \notin Below(st, n, Asking) => st2[x] = st[x]
    BY <1>1, <1>4
  <2>2. \A x \in Below(st, n, Asking) :
          st2[x] = st[x] \/ (st[x] \in {Asking, Served} /\ st2[x] \in {Served, Up})
    <3> SUFFICES ASSUME NEW x \in Below(st, n, Asking), x # c PROVE st2[x] = st[x]
      BY <1>1, <1>4
    <3>1. x \in Below(st, n, Hello) /\ x \in Nodes
      BY <1>6 DEF Below
    <3>2. QED
      BY <3>1, <1>4, <1>7
  <2>3. st[c] \in {Asking, Served}
    BY <1>1
  <2>4. QED
    BY <2>1, <2>2, <2>3, <1>1, <1>4, <1>5, <1>7 DEF GatherMove
<1>9. GatherVars(st2, n)
  <2>1. bfKids[n] = Below(st, n, Served)
    BY <1>0, <1>1 DEF ListInv
  <2>2. Below(st2, n, Up) = Below(st, n, Up) \cup {c}
    <3>1. \A x \in Nodes \ {n} : st2[x] >= Up <=> st[x] >= Up \/ x = c
      BY <1>1, <1>4
    <3>2. n \notin Below(st2, n, Up) /\ n \notin Below(st, n, Up)
      BY <1>1, <1>4 DEF Below
    <3>3. QED
      BY <3>1, <3>2, <1>1 DEF Below
  <2>3. Below(st2, n, Served) = Below(st, n, Served)
    <3>1. \A x \in Nodes : st2[x] >= Served <=> st[x] >= Served
      BY <1>1, <1>4
    <3>2. QED
      BY <3>1 DEF Below
  <2>4. upDue' = [upDue EXCEPT ![n] = IF st2[n] = Due THEN 1 ELSE 0]
    BY <1>1, <1>4 DEF TypeOK
  <2>5. QED
    BY <1>1, <1>2, <1>3, <2>1, <2>2, <2>3, <2>4 DEF GatherVars
<1>10. \A o \in net \ {m} : Exchange(o) => st2[Client(o)] = st[Client(o)]
  <2> SUFFICES ASSUME NEW o \in net \ {m}, Exchange(o) PROVE st2[Client(o)] = st[Client(o)]
    OBVIOUS
  <2>1. Client(o) \in Nodes /\ st[Client(o)] \in {Asking, Served, Asked} /\ Client(o) # c
    BY <1>0, <1>1, Talking
  <2>2. Client(o) # n
    BY <2>1, <1>1
  <2>3. QED
    BY <2>1, <2>2, <1>4
<1>11. GatherTraffic(st, st2, n, m, A)
  <2>1. Traffic({m}, A)
    BY DEF Traffic
  <2>2. \A x \in Nodes : st[x] = Asking => st2[x] = Asking
    BY <1>1, <1>4
  <2>3. m.type # "SEND_BF"
    BY <1>1
  <2>4. QED
    BY <2>1, <2>2, <2>3, <1>1, <1>10 DEF GatherTraffic
<1>12. ServeAt(st2, n)'
  <2>1. Below(st2, n, Hello)' = Below(st, n, Hello)
    <3>1. \A x \in Nodes : st2[x] >= Hello <=> st[x] >= Hello
      BY <1>1, <1>4
    <3>2. QED
      BY <3>1, <1>1 DEF Below
  <2>2. Waits(n)' = {}
    <3>1. Waits(n)' = Waits(n)
      BY <1>3 DEF Waits
    <3>2. ASSUME NEW x \in Waits(n) PROVE FALSE
      <4>1. x \in Below(st, n, Hello) /\ st[x] = Asking
        BY <1>0, <1>1 DEF ServeInv, QueuedAsk
      <4>2. x \in Nodes \ {n, c} /\ st2[x] = Up
        BY <4>1, <1>1, <1>2, <1>7
      <4>3. QED
        BY <4>1, <4>2, <1>4
    <3>3. QED
      BY <3>1, <3>2
  <2>3. \A x \in Below(st, n, Hello) : st2[x] # Served /\ st2[x] # Asking /\ st2[x] # Asked
    BY <1>7
  <2>4. st2[n] # Hello /\ st2[n] # Gather
    BY <1>4
  <2>5. QED
    BY <2>1, <2>2, <2>3, <2>4 DEF ServeAt
<1>13. Control(st2, Q)'
  <2> HIDE DEF A
  <2>1. QED
    BY <1>1, <1>8, <1>9, <1>11, <1>12, GatherStep
<1>14. QED
  BY <1>13 DEF st2

\* A report that is not the last, while nobody waits.
LEMMA IdleReport ==
  ASSUME NEW st, NEW Q, TypeOK, TypeOK', Control(st, Q), NEW m \in net,
         ProcessReceivedMissing(m), ~AllReported(kids'[m.dst], done'[m.dst]),
         requests[m.dst] = <<>>,
         idle' = [idle EXCEPT ![m.dst] = TRUE], net' = net \ {m},
         UNCHANGED <<bfKids, requests, routes, upDue>>
  PROVE  Control(Move(st, m.src, Up), Q)'
<1> DEFINE n == m.dst
           c == m.src
           st2 == Move(st, c, Up)
           A == {}
<1>0. TreeInv(st) /\ TalkInv(st) /\ ListInv(st) /\ ServeInv(st)
  BY DEF Control
<1>1. /\ Exchange(m) /\ Client(m) = c /\ Server(m) = n /\ m.type = "SEND_MISSING_C2P"
      /\ c \in Nodes \ {Root} /\ n = parent[c] /\ n \in Nodes
      /\ c # n /\ st[c] = Served /\ st[n] = Gather
      /\ c \in Below(st, n, Asking)
      /\ \A o \in net \ {m} : Exchange(o) => Client(o) # c
      /\ upDue[n] = 0
      /\ kids[n] = Below(st, n, Hello)
      /\ done'[n] = Below(st, n, Up) \cup {c}
      /\ UNCHANGED <<parent, kids, reset, srTimer, askTimer, invTimer, downDue>>
  BY ReportArrives
<1>2. /\ \A x \in Below(st, n, Hello) : x \in Nodes /\ Gather <= st[x] /\ st[x] <= Up
      /\ \A x \in Below(st, n, Hello) : st[x] = Served => x = c
      /\ \A x \in Nodes \ {n} : /\ done'[x] = done[x] /\ tuples'[x] = tuples[x]
                                /\ votes'[x] = votes[x]
      /\ tuples'[n] = tuples[n] \cup m.links
  BY ReportArrives
<1>3. idle'[n] /\ \A x \in Nodes \ {n} : idle'[x] = idle[x]
  <2>1. idle \in [Nodes -> BOOLEAN]
    BY DEF TypeOK
  <2>2. QED
    BY <2>1, <1>1
<1>4. st2[c] = Up /\ \A x \in Nodes \ {c} : st2[x] = st[x]
  BY <1>0, <1>1 DEF Move, TreeInv
<1>5. st2 \in [Nodes -> Nat]
  BY <1>0 DEF Move, TreeInv
<1> HIDE DEF st2
<1>6. \A x \in Nodes : st[x] \in Nat /\ st2[x] \in Nat
  BY <1>0, <1>5, Stages
<1>7. GatherMove(st, st2, n)
  <2>1. \A x \in Nodes : x # n /\ x \notin Below(st, n, Asking) => st2[x] = st[x]
    BY <1>1, <1>4
  <2>2. \A x \in Below(st, n, Asking) :
          st2[x] = st[x] \/ (st[x] \in {Asking, Served} /\ st2[x] \in {Served, Up})
    BY <1>1, <1>4 DEF Below
  <2>3. st[c] \in {Asking, Served} /\ st2[n] = Gather
    BY <1>1, <1>4
  <2>4. QED
    BY <2>1, <2>2, <2>3, <1>1, <1>5 DEF GatherMove
<1>8. GatherVars(st2, n)
  <2>1. bfKids[n] = Below(st, n, Served)
    BY <1>0, <1>1 DEF ListInv
  <2>2. Below(st2, n, Up) = Below(st, n, Up) \cup {c}
    <3>1. \A x \in Nodes : st2[x] >= Up <=> st[x] >= Up \/ x = c
      BY <1>1, <1>4
    <3>2. QED
      BY <3>1, <1>1 DEF Below
  <2>3. Below(st2, n, Served) = Below(st, n, Served)
    <3>1. \A x \in Nodes : st2[x] >= Served <=> st[x] >= Served
      BY <1>1, <1>4
    <3>2. QED
      BY <3>1 DEF Below
  <2>4. st2[n] # Due
    BY <1>1, <1>4
  <2>5. upDue' = [upDue EXCEPT ![n] = IF st2[n] = Due THEN 1 ELSE 0]
    BY <2>4, <1>1 DEF TypeOK
  <2>6. QED
    BY <1>1, <1>2, <1>3, <2>1, <2>2, <2>3, <2>5 DEF GatherVars
<1>9. GatherTraffic(st, st2, n, m, A)
  <2>1. Traffic({m}, A)
    BY DEF Traffic
  <2>2. \A x \in Nodes : st[x] = Asking => st2[x] = Asking
    BY <1>1, <1>4
  <2>3. m.type # "SEND_BF"
    BY <1>1
  <2>4. \A o \in net \ {m} : Exchange(o) => st2[Client(o)] = st[Client(o)]
    BY <1>0, <1>1, <1>4, Talking
  <2>5. QED
    BY <2>1, <2>2, <2>3, <2>4, <1>1 DEF GatherTraffic
<1>10. ServeAt(st2, n)'
  <2>1. Below(st2, n, Hello)' = Below(st, n, Hello)
    <3>1. \A x \in Nodes : st2[x] >= Hello <=> st[x] >= Hello
      BY <1>1, <1>4
    <3>2. QED
      BY <3>1, <1>1 DEF Below
  <2>2. Waits(n)' = {} /\ Waits(n) = {}
    BY DEF Waits
  <2>3. \A x \in Below(st, n, Hello) : x \in Nodes /\ st2[x] # Served /\ st2[x] # Asked
    BY <1>2, <1>4
  <2>4. \A x : x # c => (Talks(x)' <=> Talks(x))
    BY <1>1 DEF Talks
  <2>5. \A x \in Below(st, n, Hello) : st2[x] = Asking => Talks(x)'
    <3>1. ServeAt(st, n)
      BY <1>0, <1>1, ServeSplit
    <3>2. \A x \in Below(st, n, Hello) : st[x] = Asking => Talks(x)
      BY <2>2, <3>1 DEF ServeAt
    <3>3. QED
      BY <3>2, <2>3, <2>4, <1>4
  <2>6. \E x \in Below(st, n, Hello) : st2[x] < Up
    <3>1. PICK x \in Below(st, n, Hello) : x \notin Below(st, n, Up) /\ x # c
      <4>1. done'[n] # kids[n] /\ done'[n] \subseteq kids[n]
        BY <1>1 DEF AllReported, TypeOK
      <4>2. QED
        BY <4>1, <1>1
    <3>2. x \in Nodes \ {Root} /\ parent[x] = n /\ st[x] \in Nat
      BY <1>6 DEF Below
    <3>3. st[x] < Up
      BY <3>1, <3>2 DEF Below
    <3>4. QED
      BY <3>1, <3>2, <3>3, <1>4
  <2>7. QED
    BY <2>1, <2>2, <2>3, <2>5, <2>6, <1>3 DEF ServeAt
<1>11. Control(st2, Q)'
  <2> HIDE DEF A
  <2>1. QED
    BY <1>1, <1>7, <1>8, <1>9, <1>10, GatherStep
<1>12. QED
  BY <1>11 DEF st2

\* The next child of the queue, and what is left of it.
TakesNext(n) == requests[n] # <<>> /\ requests' = [requests EXCEPT ![n] = Tail(@)]

\* The child at the head of the queue is an asking child of the parent.
LEMMA NextInQueue ==
  ASSUME NEW st, NEW Q, TypeOK, ServiceInv, Control(st, Q), NEW n \in Nodes, TakesNext(n)
  PROVE  /\ Head(requests[n]) \in Below(st, n, Hello)
         /\ Head(requests[n]) \in Nodes \ {Root} /\ parent[Head(requests[n])] = n
         /\ st[Head(requests[n])] = Asking /\ ~Talks(Head(requests[n])) /\ ~idle[n]
         /\ Waits(n) = Waits(n)' \cup {Head(requests[n])} /\ Head(requests[n]) \notin Waits(n)'
         /\ \A x \in Nodes \ {n} : requests'[x] = requests[x]
<1>0. ServeInv(st)
  BY DEF Control
<1>1. requests \in [Nodes -> Seq(Nodes)]
  BY DEF TypeOK
<1>2. requests'[n] = Tail(requests[n]) /\ \A x \in Nodes \ {n} : requests'[x] = requests[x]
  BY <1>1 DEF TakesNext
<1>3. /\ \A i, j \in DOMAIN requests[n] : requests[n][i] = requests[n][j] => i = j
      /\ ~idle[n]
  BY DEF ServiceInv, TakesNext
<1>4. requests[n] \in Seq(Nodes) /\ requests[n] # <<>>
  BY <1>1 DEF TakesNext
<1>5. Waits(n) = Waits(n)' \cup {Head(requests[n])} /\ Head(requests[n]) \notin Waits(n)'
  <2> DEFINE s == requests[n]
             t == Tail(s)
  <2>1. Waits(n) = {s[i] : i \in DOMAIN s} /\ Waits(n)' = {t[i] : i \in DOMAIN t}
    BY <1>2 DEF Waits
  <2>2. s \in Seq(Nodes) /\ s # <<>>
    BY <1>4
  <2>3. /\ {s[i] : i \in DOMAIN s} = {t[i] : i \in DOMAIN t} \cup {Head(s)}
        /\ (\A i, j \in DOMAIN s : s[i] = s[j] => i = j) => Head(s) \notin {t[i] : i \in DOMAIN t}
    <3> HIDE DEF s
    <3>1. QED
      BY <2>2, TailWaits
  <2>4. QED
    BY <2>1, <2>3, <1>3
<1>6. /\ Head(requests[n]) \in Below(st, n, Hello)
      /\ st[Head(requests[n])] = Asking /\ ~Talks(Head(requests[n]))
  BY <1>0, <1>5 DEF ServeInv, QueuedAsk
<1>7. Head(requests[n]) \in Nodes \ {Root} /\ parent[Head(requests[n])] = n
  BY <1>6 DEF Below
<1>8. QED
  BY <1>2, <1>3, <1>5, <1>6, <1>7

\* A report that is not the last, while children wait: the next one is served.
LEMMA QueueReport ==
  ASSUME NEW st, NEW Q, TypeOK, TypeOK', ServiceInv, Control(st, Q), NEW m \in net,
         ProcessReceivedMissing(m), requests[m.dst] # <<>>,
         idle' = [idle EXCEPT ![m.dst] = FALSE],
         requests' = [requests EXCEPT ![m.dst] = Tail(@)],
         NEW d, d = Head(requests[m.dst]),
         bfKids' = [bfKids EXCEPT ![m.dst] = @ \cup {d}],
         routes' = [routes EXCEPT ![m.dst] = RunDijkstra(m.dst, tuples'[m.dst])],
         net' = (net \ {m}) \cup SendBF(m.dst, d, tuples'[m.dst], votes'[m.dst]),
         UNCHANGED upDue
  PROVE  /\ Control(Move(Move(st, m.src, Up), d, Served), Q)'
         /\ st[d] = Asking
         /\ net' = (net \ {m}) \cup {Msg("SEND_BF", m.dst, d, tuples'[m.dst],
                                         Keys(votes'[m.dst]))}
<1> DEFINE n == m.dst
           c == m.src
           st2 == Move(Move(st, c, Up), d, Served)
           M == Msg("SEND_BF", n, d, tuples'[n], Keys(votes'[n]))
           A == {M}
<1>0. TreeInv(st) /\ TalkInv(st) /\ ListInv(st) /\ ServeInv(st) /\ RouteInv(st)
  BY DEF Control
<1>1. /\ Exchange(m) /\ Client(m) = c /\ Server(m) = n /\ m.type = "SEND_MISSING_C2P"
      /\ c \in Nodes \ {Root} /\ n = parent[c] /\ n \in Nodes
      /\ c # n /\ st[c] = Served /\ st[n] = Gather
      /\ c \in Below(st, n, Asking)
      /\ \A o \in net \ {m} : Exchange(o) => Client(o) # c
      /\ upDue[n] = 0
      /\ kids[n] = Below(st, n, Hello)
      /\ done'[n] = Below(st, n, Up) \cup {c}
      /\ UNCHANGED <<parent, kids, reset, srTimer, askTimer, invTimer, downDue>>
  BY ReportArrives
<1>2. /\ \A x \in Below(st, n, Hello) : x \in Nodes /\ Gather <= st[x] /\ st[x] <= Up
      /\ \A x \in Below(st, n, Hello) : st[x] = Served => x = c
      /\ \A x \in Nodes \ {n} : /\ done'[x] = done[x] /\ tuples'[x] = tuples[x]
                                /\ votes'[x] = votes[x]
      /\ tuples'[n] = tuples[n] \cup m.links
  BY ReportArrives
<1>3. /\ d \in Below(st, n, Hello) /\ d \in Nodes \ {Root} /\ parent[d] = n
      /\ st[d] = Asking /\ ~Talks(d)
      /\ Waits(n) = Waits(n)' \cup {d} /\ d \notin Waits(n)'
      /\ \A x \in Nodes \ {n} : requests'[x] = requests[x]
  <2>1. n \in Nodes /\ TakesNext(n)
    BY <1>1 DEF TakesNext
  <2> HIDE DEF n
  <2>2. /\ Head(requests[n]) \in Below(st, n, Hello)
        /\ Head(requests[n]) \in Nodes \ {Root} /\ parent[Head(requests[n])] = n
        /\ st[Head(requests[n])] = Asking /\ ~Talks(Head(requests[n])) /\ ~idle[n]
        /\ Waits(n) = Waits(n)' \cup {Head(requests[n])} /\ Head(requests[n]) \notin Waits(n)'
        /\ \A x \in Nodes \ {n} : requests'[x] = requests[x]
    BY <2>1, NextInQueue
  <2>3. d = Head(requests[n])
    BY DEF n
  <2>4. QED
    BY <2>2, <2>3
<1>4. /\ d # c /\ d # n
  BY <1>1, <1>3
<1>5. st2[c] = Up /\ st2[d] = Served /\ \A x \in Nodes \ {c, d} : st2[x] = st[x]
  BY <1>0, <1>1, <1>3, <1>4 DEF Move, TreeInv
<1>6. st2 \in [Nodes -> Nat]
  BY <1>0 DEF Move, TreeInv
<1> HIDE DEF st2
<1>7. \A x \in Nodes : st[x] \in Nat /\ st2[x] \in Nat
  BY <1>0, <1>6, Stages
<1>30. c \in Nodes /\ d \in Nodes /\ st[c] = Served /\ st[d] = Asking
  BY <1>1, <1>3
<1>31. \A k \in {Hello, Served, Up} : \A x \in Nodes :
         st2[x] >= k <=> st[x] >= k \/ (k = Up /\ x = c) \/ (k = Served /\ x = d)
  <2> SUFFICES ASSUME NEW k \in {Hello, Served, Up}, NEW x \in Nodes
               PROVE  st2[x] >= k <=> st[x] >= k \/ (k = Up /\ x = c) \/ (k = Served /\ x = d)
    OBVIOUS
  <2>1. CASE x = c
    BY <2>1, <1>4, <1>5, <1>30
  <2>2. CASE x = d
    BY <2>2, <1>4, <1>5, <1>30
  <2>3. CASE x # c /\ x # d
    BY <2>3, <1>4, <1>5
  <2>4. QED
    BY <2>1, <2>2, <2>3
<1>8. net' = (net \ {m}) \cup {M}
  <2>1. tuples'[n] \in SUBSET Edges
    BY <1>1 DEF TypeOK
  <2>2. st[n] # Out /\ d \in kids[n]
    BY <1>1, <1>3
  <2>3. {n, d} \in tuples[n]
    BY <2>2, <1>0, <1>1 DEF RouteInv
  <2>4. {n, d} \in tuples'[n]
    BY <2>3, <1>2
  <2>5. d \in RunDijkstra(n, tuples'[n])
    BY <2>1, <2>4, <1>1, <1>3, LinkRoute
  <2>6. SendBF(n, d, tuples'[n], votes'[n]) = {M}
    BY <2>5, RoutedOne DEF SendBF
  <2>7. QED
    BY <2>6
<1>9. M.type = "SEND_BF" /\ M.src = n /\ M.dst = d
  BY MsgParts
<1> HIDE DEF M
<1>10. Exchange(M) /\ Client(M) = d
  BY <1>9, TalkParts
<1>11. d \in Below(st, n, Asking)
  BY <1>3 DEF Below
<1>12. GatherMove(st, st2, n)
  <2>1. \A x \in Nodes : x # n /\ x \notin Below(st, n, Asking) => st2[x] = st[x]
    BY <1>1, <1>5, <1>11
  <2>2. \A x \in Below(st, n, Asking) :
          st2[x] = st[x] \/ (st[x] \in {Asking, Served} /\ st2[x] \in {Served, Up})
    BY <1>1, <1>3, <1>5 DEF Below
  <2>3. st[c] \in {Asking, Served} /\ st2[n] = Gather
    BY <1>1, <1>4, <1>5
  <2>4. QED
    BY <2>1, <2>2, <2>3, <1>1, <1>6 DEF GatherMove
<1>13. idle'[n] = FALSE /\ \A x \in Nodes \ {n} : idle'[x] = idle[x]
  <2>1. idle \in [Nodes -> BOOLEAN]
    BY DEF TypeOK
  <2>2. QED
    BY <2>1, <1>1
<1>14. bfKids'[n] = bfKids[n] \cup {d} /\ \A x \in Nodes \ {n} : bfKids'[x] = bfKids[x]
  <2>1. bfKids \in [Nodes -> SUBSET Nodes]
    BY DEF TypeOK
  <2>2. QED
    BY <2>1, <1>1
<1>15. routes'[n] = RunDijkstra(n, tuples'[n]) /\ \A x \in Nodes \ {n} : routes'[x] = routes[x]
  <2>1. routes \in [Nodes -> SUBSET Nodes]
    BY DEF TypeOK
  <2>2. QED
    BY <2>1, <1>1
<1>16. GatherVars(st2, n)
  <2>1. bfKids[n] = Below(st, n, Served)
    BY <1>0, <1>1 DEF ListInv
  <2>2. Below(st2, n, Up) = Below(st, n, Up) \cup {c}
    <3>1. \A x \in Nodes : st2[x] >= Up <=> st[x] >= Up \/ x = c
      BY <1>31
    <3>2. c \in Nodes \ {Root} /\ parent[c] = n
      BY <1>1
    <3>3. QED
      BY <3>1, <3>2 DEF Below
  <2>3. Below(st2, n, Served) = Below(st, n, Served) \cup {d}
    <3>1. \A x \in Nodes : st2[x] >= Served <=> st[x] >= Served \/ x = d
      BY <1>31
    <3>2. QED
      BY <3>1, <1>3 DEF Below
  <2>4. st2[n] # Due
    BY <1>1, <1>4, <1>5
  <2>5. upDue' = [upDue EXCEPT ![n] = IF st2[n] = Due THEN 1 ELSE 0]
    BY <2>4, <1>1 DEF TypeOK
  <2>6. done'[n] = Below(st2, n, Up) /\ bfKids'[n] = Below(st2, n, Served)
    BY <1>1, <1>14, <2>1, <2>2, <2>3
  <2>7. \A x \in Nodes \ {n} :
          /\ done'[x] = done[x] /\ bfKids'[x] = bfKids[x] /\ idle'[x] = idle[x]
          /\ requests'[x] = requests[x] /\ tuples'[x] = tuples[x] /\ votes'[x] = votes[x]
          /\ routes'[x] = routes[x]
    BY <1>2, <1>3, <1>13, <1>14, <1>15
  <2>8. tuples[n] \subseteq tuples'[n] /\ routes'[n] = RunDijkstra(n, tuples'[n])
    BY <1>2, <1>15
  <2>9. UNCHANGED <<parent, kids, reset, srTimer, askTimer, invTimer, downDue>>
    BY <1>1
  <2> HIDE DEF n, c
  <2>10. QED
    BY <2>5, <2>6, <2>7, <2>8, <2>9 DEF GatherVars
<1>17. GatherTraffic(st, st2, n, m, A)
  <2>1. Traffic({m}, A)
    BY <1>8 DEF Traffic
  <2>2. \A x \in Nodes : st[x] = Asking /\ st2[x] # Asking => \E o \in A : o.dst = x
    BY <1>1, <1>5, <1>9
  <2>3. \A o \in net : Exchange(o) => Client(o) # d
    BY <1>3 DEF Talks
  <2>4. \A o \in net \ {m} : Exchange(o) => st2[Client(o)] = st[Client(o)]
    BY <2>3, <1>0, <1>1, <1>5, Talking
  <2>5. m.type # "SEND_BF" /\ Exchange(m) /\ Server(m) = n
    BY <1>1
  <2>6. \A o \in A : /\ o.type = "SEND_BF" /\ o.src = n /\ o.dst \in Below(st, n, Asking)
                     /\ st2[o.dst] = Served
                     /\ \A q \in net \ {m} : Exchange(q) => Client(q) # o.dst
                     /\ \A q \in A : q = o
    BY <2>3, <1>5, <1>9, <1>11
  <2> HIDE DEF A
  <2>7. QED
    BY <2>1, <2>2, <2>4, <2>5, <2>6 DEF GatherTraffic
<1>18. ServeAt(st2, n)'
  <2>1. Below(st2, n, Hello)' = Below(st, n, Hello)
    <3>1. \A x \in Nodes : st2[x] >= Hello <=> st[x] >= Hello
      BY <1>31
    <3>2. QED
      BY <3>1, <1>1 DEF Below
  <2>2. ServeAt(st, n)
    BY <1>0, <1>1, ServeSplit
  <2>3. Talks(d)' /\ \A x : x # c /\ x # d => (Talks(x)' <=> Talks(x))
    BY <1>1, <1>8, <1>10 DEF Talks
  <2>4. \A x \in Below(st, n, Hello) : /\ x \in Nodes /\ st2[x] # Asked
                                       /\ st2[x] = Served => x = d
                                       /\ st2[x] = Asking => x # c /\ x # d /\ st[x] = Asking
    BY <1>2, <1>5
  <2>5. \A x \in Waits(n)' : x \in Below(st, n, Hello) /\ st2[x] = Asking /\ ~Talks(x)'
    <3>1. \A x \in Waits(n) : x \in Below(st, n, Hello) /\ st[x] = Asking /\ ~Talks(x)
      BY <2>2 DEF ServeAt
    <3>2. \A x \in Waits(n)' : x \in Waits(n) /\ x # d
      BY <1>3
    <3>3. QED
      BY <3>1, <3>2, <2>3, <2>4, <1>1, <1>5
  <2>6. \A x \in Below(st, n, Hello) : st2[x] = Asking => x \in Waits(n)' \/ Talks(x)'
    <3>1. \A x \in Below(st, n, Hello) : st[x] = Asking => x \in Waits(n) \/ Talks(x)
      BY <2>2 DEF ServeAt
    <3>2. QED
      BY <3>1, <2>3, <2>4, <1>3
  <2>7. \A x \in Below(st, n, Hello) : st2[x] \in {Served, Asked} => Talks(x)'
    BY <2>3, <2>4
  <2>8. d \in Below(st, n, Hello) /\ st2[d] = Served /\ st2[d] < Up /\ ~idle'[n]
    BY <1>3, <1>5, <1>13
  <2>9. QED
    BY <2>1, <2>4, <2>5, <2>6, <2>7, <2>8 DEF ServeAt
<1>19. Control(st2, Q)'
  <2> HIDE DEF A
  <2>1. QED
    BY <1>1, <1>12, <1>16, <1>17, <1>18, GatherStep
<1>20. QED
  BY <1>3, <1>8, <1>19 DEF st2, M

-----------------------------------------------------------------------------
(***************************************************************************)
(* The way down: a node asks its children.                                 *)
(***************************************************************************)
\* n, whose children have all reported, turns to them.
TurnMove(st, st2, n) ==
  /\ st[n] \in {Due, Down} /\ (st[n] = Due => n = Root)
  /\ Below(st, n, Hello) # {} /\ \A c \in Below(st, n, Hello) : st[c] = Up
  /\ st2 \in [Nodes -> Nat] /\ st2[n] = Awaiting
  /\ \A c \in Below(st, n, Hello) : st2[c] = Asked
  /\ \A x \in Nodes : x # n /\ x \notin Below(st, n, Hello) => st2[x] = st[x]

TurnKnown(st, n, known) ==
  \/ known = RunDijkstra(n, tuples[n])
  \/ known = routes[n] /\ st[n] = Down

Asks(n) == {Msg("ASK_BF_P2C", n, c, {}, {}) : c \in kids[n]}

\* What a node that turns to its children changes in the stages.
LEMMA TurnAdvance ==
  ASSUME NEW st, TreeInv(st), NEW n \in Nodes, NEW st2, TurnMove(st, st2, n)
  PROVE  /\ Advance(st, st2)
         /\ \A x \in Nodes : st[x] \in Nat /\ st2[x] \in Nat
         /\ \A x \in Nodes : st2[x] # st[x] =>
              \/ /\ x = n /\ st[x] \in {Due, Down} /\ st2[x] = Awaiting
                 /\ st[x] = Due => n = Root
              \/ x # Root /\ parent[x] = n /\ x # n /\ st[x] = Up /\ st2[x] = Asked
         /\ \A x \in Nodes \ {Root} : parent[x] = n /\ st[x] # Out => st[x] = Up /\ st2[x] = Asked
<1>1. \A x \in Nodes : st[x] \in Nat /\ st2[x] \in Nat /\ st[x] <= End
  BY Stages DEF TurnMove
<1>2. ASSUME NEW x \in Nodes, st2[x] # st[x]
      PROVE  \/ /\ x = n /\ st[x] \in {Due, Down} /\ st2[x] = Awaiting
                /\ st[x] = Due => n = Root
             \/ x # Root /\ parent[x] = n /\ x # n /\ st[x] = Up /\ st2[x] = Asked
  <2>1. CASE x = n
    BY <1>2, <2>1 DEF TurnMove
  <2>2. CASE x # n
    <3>1. x \in Below(st, n, Hello) /\ st[x] = Up /\ st2[x] = Asked
      BY <1>2, <2>2 DEF TurnMove
    <3>2. QED
      BY <2>2, <3>1 DEF Below
  <2>3. QED
    BY <2>1, <2>2
<1>3. Advance(st, st2)
  <2>1. ASSUME NEW x \in Nodes
        PROVE  st2[x] <= End /\ (st2[x] = Out <=> st[x] = Out) /\ (st2[x] = Hello <=> st[x] = Hello)
    <3>1. CASE st2[x] = st[x]
      BY <1>1, <3>1
    <3>2. CASE st2[x] # st[x]
      BY <1>2, <3>2
    <3>3. QED
      BY <3>1, <3>2
  <2>2. QED
    BY <2>1 DEF Advance, TurnMove
<1>4. ASSUME NEW x \in Nodes \ {Root}, parent[x] = n, st[x] # Out
      PROVE  st[x] = Up /\ st2[x] = Asked
  <2>1. st[x] >= Hello
    BY <1>1, <1>4
  <2>2. x \in Below(st, n, Hello)
    BY <2>1, <1>4 DEF Below
  <2>3. QED
    BY <2>2 DEF TurnMove
<1>5. QED
  BY <1>1, <1>2, <1>3, <1>4

\* What InverseSetRec does then.
LEMMA TurnEffect ==
  ASSUME NEW st, NEW Q, TypeOK, Control(st, Q), NEW n \in Nodes, NEW st2, TurnMove(st, st2, n),
         NEW known, TurnKnown(st, n, known), InverseSetRec(n, {}, FALSE, known)
  PROVE  /\ bfKids[n] = kids[n] /\ kids[n] = Below(st, n, Hello)
         /\ UNCHANGED <<kids, reset, alreadyDone, chain, srCompleted>>
         /\ done' = [done EXCEPT ![n] = {}]
         /\ invTimer' = [invTimer EXCEPT ![n] = TRUE]
         /\ routes' = [routes EXCEPT ![n] = known]
         /\ net' = net \cup Asks(n)
<1>0. TreeInv(st) /\ ListInv(st) /\ RouteInv(st)
  BY DEF Control
<1>1. st[n] # Out /\ Below(st, n, Hello) # {} /\ \A c \in Below(st, n, Hello) : st[c] = Up
  BY DEF TurnMove
<1>2. bfKids[n] = Below(st, n, Hello) /\ kids[n] = Below(st, n, Hello)
  <2>1. bfKids[n] = Below(st, n, Served) /\ kids[n] = Below(st, n, Gather)
    BY <1>0, <1>1 DEF ListInv
  <2>2. \A x \in Nodes : (st[x] >= Served => st[x] >= Hello) /\ (st[x] >= Gather => st[x] >= Hello)
    BY <1>0, Stages
  <2>3. \A c \in Below(st, n, Hello) : st[c] >= Served /\ st[c] >= Gather
    BY <1>1
  <2>4. QED
    BY <2>1, <2>2, <2>3 DEF Below
<1>3. bfKids[n] \subseteq known
  <2>1. CASE known = routes[n] /\ st[n] = Down
    BY <2>1, <1>0, <1>1 DEF RouteInv
  <2>2. CASE known = RunDijkstra(n, tuples[n])
    <3>1. tuples[n] \in SUBSET Edges /\ kids[n] \in SUBSET Nodes
      BY DEF TypeOK
    <3>2. \A c \in kids[n] : {n, c} \in tuples[n]
      BY <1>0, <1>1 DEF RouteInv
    <3>3. \A c \in kids[n] : c \in RunDijkstra(n, tuples[n])
      BY <3>1, <3>2, LinkRoute
    <3>4. QED
      BY <2>2, <3>3, <1>2
  <2>3. QED
    BY <2>1, <2>2 DEF TurnKnown
<1>4. ~NoChildrenToServe(n)
  BY <1>1, <1>2 DEF NoChildrenToServe
<1>5. kids[n] \cup bfKids[n] = kids[n] /\ kids[n] # {} /\ KeepsWaiting(kids[n], {}, FALSE)
  BY <1>1, <1>2 DEF KeepsWaiting
<1>6. /\ kids' = [kids EXCEPT ![n] = kids[n]]
      /\ done' = [done EXCEPT ![n] = {}]
      /\ invTimer' = [invTimer EXCEPT ![n] = TRUE]
      /\ routes' = [routes EXCEPT ![n] = known]
      /\ UNCHANGED <<reset, alreadyDone, chain>>
      /\ net' = net \cup Routed({Msg("ASK_BF_P2C", n, c, {}, {}) : c \in ToAsk(n, {})}, routes'[n])
      /\ UNCHANGED srCompleted
  BY <1>4, <1>5 DEF InverseSetRec
<1>7. kids' = kids /\ routes'[n] = known
  BY <1>6 DEF TypeOK
<1>8. ToAsk(n, {}) = kids[n]
  BY <1>2 DEF ToAsk
<1>9. Routed(Asks(n), known) = Asks(n)
  BY <1>2, <1>3, MsgParts DEF Routed, Asks
<1>10. net' = net \cup Asks(n)
  BY <1>6, <1>7, <1>8, <1>9 DEF Asks
<1>11. QED
  BY <1>2, <1>6, <1>7, <1>10

\* The tree after it.
LEMMA TurnTree ==
  ASSUME NEW st, TreeInv(st), NEW n \in Nodes, NEW st2, TurnMove(st, st2, n),
         UNCHANGED parent
  PROVE  TreeInv(st2)'
<1>1. /\ Advance(st, st2)
      /\ \A x \in Nodes : st[x] \in Nat /\ st2[x] \in Nat
      /\ \A x \in Nodes : st2[x] # st[x] =>
           \/ /\ x = n /\ st[x] \in {Due, Down} /\ st2[x] = Awaiting
              /\ st[x] = Due => n = Root
           \/ x # Root /\ parent[x] = n /\ x # n /\ st[x] = Up /\ st2[x] = Asked
      /\ \A x \in Nodes \ {Root} : parent[x] = n /\ st[x] # Out => st[x] = Up /\ st2[x] = Asked
  BY TurnAdvance
<1>2. st2[n] = Awaiting
  BY DEF TurnMove
<1>3. st2[Root] \in {Hello, Gather, Due, Awaiting, End}
  BY <1>1, NodesAssumption DEF TreeInv
<1>4. ASSUME NEW x \in Nodes \ {Root}, st[x] # Out PROVE Follows(st2[x], st2[parent[x]])
  <2>1. /\ parent[x] \in Nodes /\ parent[x] # x
        /\ st[x] <= Served => st[parent[x]] = Gather
        /\ st[x] = Up => Gather <= st[parent[x]] /\ st[parent[x]] <= Down
        /\ st[x] = Asked => st[parent[x]] = Awaiting
        /\ st[x] >= Down => st[parent[x]] >= Awaiting
    BY <1>4, ParentStage
  <2>2. CASE parent[x] = n
    BY <2>2, <1>1, <1>2, <1>4 DEF Follows
  <2>3. CASE parent[x] # n
    <3>1. CASE st2[parent[x]] = st[parent[x]]
      <4>1. st2[x] = st[x] \/ (st[x] = Down /\ st2[x] = Awaiting)
        BY <1>1, <1>4, <2>3
      <4>2. QED
        BY <2>1, <3>1, <4>1, <1>1 DEF Follows
    <3>2. CASE st2[parent[x]] # st[parent[x]]
      <4>1. st[parent[x]] = Up /\ st2[parent[x]] = Asked
        BY <1>1, <2>1, <2>3, <3>2
      <4>2. st[x] = Up
        BY <1>1, <2>1, <4>1
      <4>3. st2[x] = Up
        BY <1>1, <2>3, <4>2
      <4>4. QED
        BY <4>1, <4>3 DEF Follows
    <3>3. QED
      BY <3>1, <3>2
  <2>4. QED
    BY <2>2, <2>3
<1>5. QED
  BY <1>1, <1>3, <1>4, TreeStep

\* The rest of the step: a delayed call of n has run.
TurnVars(n) ==
  /\ UNCHANGED <<parent, bfKids, idle, requests, tuples, votes, srTimer, askTimer>>
  /\ upDue'[n] = 0 /\ downDue'[n] = 0
  /\ \A x \in Nodes \ {n} : upDue'[x] = upDue[x] /\ downDue'[x] = downDue[x]

\* The requests it sends.
LEMMA AsksParts ==
  ASSUME NEW st, NEW Q, TypeOK, Control(st, Q), NEW n \in Nodes, NEW m \in Asks(n)
  PROVE  /\ m.type = "ASK_BF_P2C" /\ m.src = n /\ m.dst \in kids[n]
         /\ m = Msg("ASK_BF_P2C", n, m.dst, {}, {})
         /\ Exchange(m) /\ Client(m) = m.dst /\ Server(m) = n /\ StageOf(m.type) = Asked
<1>1. PICK c \in kids[n] : m = Msg("ASK_BF_P2C", n, c, {}, {})
  BY DEF Asks
<1>2. m.type = "ASK_BF_P2C" /\ m.src = n /\ m.dst = c
  BY <1>1, MsgParts
<1>3. QED
  BY <1>1, <1>2, TalkParts

\* The exchanges after it.
LEMMA TurnTalk ==
  ASSUME NEW st, NEW Q, TypeOK, Control(st, Q), NEW n \in Nodes,
         NEW st2, TurnMove(st, st2, n), UNCHANGED parent,
         kids[n] = Below(st, n, Hello), net' = net \cup Asks(n)
  PROVE  TalkInv(st2)'
<1>0. TreeInv(st) /\ TalkInv(st)
  BY DEF Control
<1>1. /\ Advance(st, st2)
      /\ \A x \in Nodes : st[x] \in Nat /\ st2[x] \in Nat
      /\ \A x \in Nodes : st2[x] # st[x] =>
           \/ /\ x = n /\ st[x] \in {Due, Down} /\ st2[x] = Awaiting
              /\ st[x] = Due => n = Root
           \/ x # Root /\ parent[x] = n /\ x # n /\ st[x] = Up /\ st2[x] = Asked
      /\ \A x \in Nodes \ {Root} : parent[x] = n /\ st[x] # Out => st[x] = Up /\ st2[x] = Asked
  BY <1>0, TurnAdvance
<1>2. \A c \in kids[n] : c \in Nodes \ {Root} /\ parent[c] = n /\ st[c] = Up /\ st2[c] = Asked
  BY <1>1 DEF Below, TurnMove
<1>3. \A m \in Asks(n) : /\ m.type = "ASK_BF_P2C" /\ m.dst \in kids[n]
                         /\ m = Msg("ASK_BF_P2C", n, m.dst, {}, {})
                         /\ Exchange(m) /\ Client(m) = m.dst /\ Server(m) = n
                         /\ StageOf(m.type) = Asked
  BY AsksParts
<1> DEFINE D == {}
           A == Asks(n)
<1>4. Traffic(D, A)
  BY DEF Traffic
<1>5. ASSUME NEW o \in net, Exchange(o)
      PROVE  Client(o) \in Nodes /\ Client(o) \notin kids[n] /\ st2[Client(o)] = st[Client(o)]
  <2>1. Client(o) \in Nodes /\ st[Client(o)] \in {Asking, Served, Asked}
    BY <1>0, <1>5, Talking
  <2>2. QED
    BY <2>1, <1>1, <1>2
<1>6. \A m \in A : Exchange(m) =>
        /\ Client(m) \in Nodes \ {Root} /\ Server(m) = parent[Client(m)]
        /\ st2[Client(m)] = StageOf(m.type)
        /\ \A o \in net \ D : Exchange(o) => Client(o) # Client(m)
        /\ \A o \in A : Exchange(o) /\ Client(o) = Client(m) => o = m
  BY <1>2, <1>3, <1>5
<1>7. \A m \in A : m.type # "SEND_MISSING_P2C_ACK"
  BY <1>3
<1>8. \A o \in net \ D : Exchange(o) => st2[Client(o)] = st[Client(o)]
  BY <1>5
<1>9. ASSUME NEW o \in net \ D, o.type = "SEND_MISSING_P2C_ACK"
      PROVE  st2[o.src] >= Down /\ st2[parent[o.src]] = Awaiting
  <2>1. /\ o.src \in Nodes \ {Root} /\ st[o.src] \in Nat /\ st[o.src] >= Down
        /\ parent[o.src] \in Nodes /\ st[parent[o.src]] = Awaiting
    BY <1>0, <1>9, AckParts
  <2>2. st2[parent[o.src]] = st[parent[o.src]]
    BY <2>1, <1>1
  <2>3. st2[o.src] = st[o.src] \/ st2[o.src] = Awaiting
    BY <2>1, <1>1
  <2>4. QED
    BY <2>1, <2>2, <2>3
<1> HIDE DEF D, A
<1>10. QED
  BY <1>0, <1>1, <1>4, <1>6, <1>7, <1>8, <1>9, TalkStep

\* All of Control after a node has turned to its children.
LEMMA TurnStep ==
  ASSUME NEW st, NEW Q, TypeOK, TypeOK', Control(st, Q), NEW n \in Nodes,
         NEW st2, TurnMove(st, st2, n), TurnVars(n),
         NEW known, TurnKnown(st, n, known), InverseSetRec(n, {}, FALSE, known)
  PROVE  Control(st2, Q)'
<1>0. /\ TreeInv(st) /\ RootedInv /\ FreshInv(st) /\ ListInv(st) /\ ServeInv(st)
      /\ RouteInv(st) /\ TimerInv(st) /\ HelloInv(st) /\ TalkInv(st) /\ SettledInv(st, Q)
  BY DEF Control
<1>1. /\ Advance(st, st2)
      /\ \A x \in Nodes : st[x] \in Nat /\ st2[x] \in Nat
      /\ \A x \in Nodes : st2[x] # st[x] =>
           \/ /\ x = n /\ st[x] \in {Due, Down} /\ st2[x] = Awaiting
              /\ st[x] = Due => n = Root
           \/ x # Root /\ parent[x] = n /\ x # n /\ st[x] = Up /\ st2[x] = Asked
      /\ \A x \in Nodes \ {Root} : parent[x] = n /\ st[x] # Out => st[x] = Up /\ st2[x] = Asked
  BY <1>0, TurnAdvance
<1>2. /\ bfKids[n] = kids[n] /\ kids[n] = Below(st, n, Hello)
      /\ UNCHANGED <<kids, reset, alreadyDone, chain, srCompleted>>
      /\ done' = [done EXCEPT ![n] = {}]
      /\ invTimer' = [invTimer EXCEPT ![n] = TRUE]
      /\ routes' = [routes EXCEPT ![n] = known]
      /\ net' = net \cup Asks(n)
  BY TurnEffect
<1>3. UNCHANGED <<parent, bfKids, idle, requests, tuples, votes, srTimer, askTimer>>
  BY DEF TurnVars
<1>4. done'[n] = {} /\ \A x \in Nodes \ {n} : done'[x] = done[x]
  <2>1. done \in [Nodes -> SUBSET Nodes]
    BY DEF TypeOK
  <2>2. QED
    BY <2>1, <1>2
<1>5. invTimer'[n] /\ \A x \in Nodes \ {n} : invTimer'[x] = invTimer[x]
  <2>1. invTimer \in [Nodes -> BOOLEAN]
    BY DEF TypeOK
  <2>2. QED
    BY <2>1, <1>2
<1>6. routes'[n] = known /\ \A x \in Nodes \ {n} : routes'[x] = routes[x]
  <2>1. routes \in [Nodes -> SUBSET Nodes]
    BY DEF TypeOK
  <2>2. QED
    BY <2>1, <1>2
<1>7. st[n] \in {Due, Down} /\ st2[n] = Awaiting /\ kids[n] # {}
  BY <1>2 DEF TurnMove
<1>8. \A m \in Asks(n) : /\ m.type = "ASK_BF_P2C" /\ m.type \notin HelloTypes
                         /\ m.type # "SEND_MISSING_P2C_ACK"
  BY AsksParts DEF HelloTypes
<1>9. TreeInv(st2)' /\ RootedInv' /\ TalkInv(st2)'
  BY <1>0, <1>2, <1>3, TurnTree, RootedStep, TurnTalk
<1>10. FreshInv(st2)'
  <2>1. \A x \in Nodes : st[x] = Out => x # n
    BY <1>7
  <2>2. \A x \in Nodes : st[x] = Out =>
           /\ kids'[x] = kids[x] /\ done'[x] = done[x] /\ bfKids'[x] = bfKids[x]
           /\ idle'[x] = idle[x] /\ requests'[x] = requests[x] /\ reset'[x] = reset[x]
           /\ tuples'[x] = tuples[x] /\ votes'[x] = votes[x]
    BY <2>1, <1>2, <1>3, <1>4
  <2>3. QED
    BY <2>2, <1>0, <1>1, <1>3, FreshStep
<1>11. ASSUME NEW p, NEW k \in {Gather, Served, Up, Down} PROVE Below(st2, p, k)' = Below(st, p, k)
  <2>1. ASSUME NEW x \in Nodes \ {Root} PROVE st2[x] >= k <=> st[x] >= k
    <3>1. CASE st2[x] = st[x]
      BY <3>1
    <3>2. CASE st2[x] # st[x]
      <4>1. (st[x] = Down /\ st2[x] = Awaiting) \/ (st[x] = Up /\ st2[x] = Asked)
        BY <1>1, <2>1, <3>2
      <4>2. QED
        BY <4>1
    <3>3. QED
      BY <3>1, <3>2
  <2>2. QED
    BY <2>1, <1>3 DEF Below
<1>12. ListInv(st2)'
  <2> SUFFICES ASSUME NEW x \in Nodes, st2[x] # Out
               PROVE  /\ reset'[x] <=> st2[x] # End
                      /\ kids'[x] = Below(st2, x, Gather)'
                      /\ bfKids'[x] = Below(st2, x, Served)'
                      /\ st2[x] <= Asked => done'[x] = Below(st2, x, Up)'
                      /\ st2[x] = Down => done'[x] = {}
                      /\ st2[x] >= Awaiting => done'[x] = {c \in Below(st2, x, Down)' : ~Acking(c)'}
    BY DEF ListInv
  <2>1. st[x] # Out
    BY <1>1 DEF Advance
  <2>2. /\ reset[x] <=> st[x] # End
        /\ kids[x] = Below(st, x, Gather)
        /\ bfKids[x] = Below(st, x, Served)
        /\ st[x] <= Asked => done[x] = Below(st, x, Up)
        /\ st[x] = Down => done[x] = {}
        /\ st[x] >= Awaiting => done[x] = {c \in Below(st, x, Down) : ~Acking(c)}
    BY <2>1, <1>0 DEF ListInv
  <2>3. \A c : Acking(c)' <=> Acking(c)
    BY <1>2, <1>8 DEF Acking
  <2>4. /\ Below(st2, x, Gather)' = Below(st, x, Gather) /\ Below(st2, x, Served)' = Below(st, x, Served)
        /\ Below(st2, x, Up)' = Below(st, x, Up) /\ Below(st2, x, Down)' = Below(st, x, Down)
    BY <1>11
  <2>5. CASE x = n
    <3>1. Below(st, n, Down) = {}
      <4>1. \A c \in Below(st, n, Down) : c \in Nodes \ {Root} /\ parent[c] = n /\ st[c] # Out
        BY <1>1 DEF Below
      <4>2. \A c \in Below(st, n, Down) : st[c] = Up /\ st[c] >= Down
        BY <4>1, <1>1 DEF Below
      <4>3. QED
        BY <4>2
    <3>2. QED
      BY <2>2, <2>4, <2>5, <3>1, <1>2, <1>3, <1>4, <1>7
  <2>6. CASE x # n
    <3>1. st2[x] = st[x] \/ (st[x] = Up /\ st2[x] = Asked)
      BY <2>6, <1>1
    <3>2. /\ st2[x] # End <=> st[x] # End
          /\ st2[x] <= Asked <=> st[x] <= Asked
          /\ st2[x] = Down <=> st[x] = Down
          /\ st2[x] >= Awaiting <=> st[x] >= Awaiting
      BY <3>1
    <3>3. QED
      BY <2>2, <2>3, <2>4, <2>6, <3>2, <1>2, <1>3, <1>4
  <2>7. QED
    BY <2>5, <2>6
<1>13. ServeInv(st2)'
  <2>1. ASSUME NEW x \in Nodes, st[x] # Up PROVE Talks(x)' <=> Talks(x)
    <3>1. \A m \in Asks(n) : Client(m) \in Below(st, n, Hello)
      BY <1>2, AsksParts
    <3>2. x \notin Below(st, n, Hello)
      BY <2>1 DEF TurnMove
    <3>3. QED
      BY <3>1, <3>2, <1>2 DEF Talks
  <2>2. ASSUME NEW x \in Nodes, st2[x] \in {Served, Asked} PROVE Talks(x)'
    <3>1. CASE st2[x] = st[x]
      <4>1. x # Root
        BY <2>2, <3>1, <1>0 DEF TreeInv
      <4>2. QED
        BY <4>1, <2>1, <2>2, <3>1, <1>0 DEF ServeInv, ServedTalk
    <3>2. CASE st2[x] # st[x]
      <4>1. x # Root /\ parent[x] = n /\ st[x] = Up
        BY <2>2, <3>2, <1>1
      <4>2. x \in kids[n]
        BY <4>1, <1>2 DEF Below
      <4>3. Msg("ASK_BF_P2C", n, x, {}, {}) \in net'
        BY <4>2, <1>2 DEF Asks
      <4> DEFINE M == Msg("ASK_BF_P2C", n, x, {}, {})
      <4>4. M.type = "ASK_BF_P2C" /\ M.dst = x
        BY MsgParts
      <4> HIDE DEF M
      <4>5. Exchange(M) /\ Client(M) = x
        BY <4>4, TalkParts
      <4>6. QED
        BY <4>3, <4>5 DEF Talks, M
    <3>3. QED
      BY <3>1, <3>2
  <2>3. \A x \in Nodes : /\ st2[x] = Gather => st[x] = Gather
                         /\ st2[x] = Served <=> st[x] = Served
                         /\ x # Root /\ st[x] < Up => st2[x] < Up
                         /\ st[x] = Asking => st2[x] = Asking
                         /\ st2[x] = Asking => st[x] = Asking
    BY <1>1
  <2>4. \A x \in Nodes : st[x] = Asking => (Talks(x)' <=> Talks(x))
    BY <2>1
  <2>5. QED
    BY <2>2, <2>3, <2>4, <1>0, <1>1, <1>3, ServeStep
<1>14. RouteInv(st2)'
  <2>1. ASSUME NEW x \in Nodes, st[x] # Out
        PROVE  /\ tuples[x] \subseteq tuples'[x] /\ kids'[x] = kids[x]
               /\ \/ /\ routes'[x] = routes[x] /\ bfKids'[x] = bfKids[x]
                     /\ st2[x] >= Asking => st[x] >= Asking
                  \/ routes'[x] = RunDijkstra(x, tuples'[x]) /\ bfKids'[x] \subseteq kids[x]
    <3>1. tuples' = tuples /\ kids' = kids /\ bfKids' = bfKids
      BY <1>2, <1>3
    <3>2. CASE x # n
      <4>1. st2[x] = st[x] \/ st[x] = Up
        BY <3>2, <1>1
      <4>2. QED
        BY <3>1, <3>2, <4>1, <1>6
    <3>3. CASE x = n
      <4>1. CASE known = routes[n] /\ st[n] = Down
        BY <3>1, <3>3, <4>1, <1>6
      <4>2. CASE known = RunDijkstra(n, tuples[n])
        BY <3>1, <3>3, <4>2, <1>2, <1>6
      <4>3. QED
        BY <4>1, <4>2 DEF TurnKnown
    <3>4. QED
      BY <3>2, <3>3
  <2>2. QED
    BY <2>1, <1>0, <1>1, <1>3, RouteStep
<1>15. TimerInv(st2)'
  <2> SUFFICES ASSUME NEW x \in Nodes
               PROVE  /\ srTimer'[x] <=> x # Root /\ st2[x] \in {Hello, Gather} /\ kids'[x] = {}
                      /\ askTimer'[x] => \/ st2[x] = Asking
                                         \/ \E m \in net' : m.type = "SEND_BF" /\ m.dst = x
                      /\ invTimer'[x] <=> st2[x] = Awaiting
                      /\ upDue'[x] = IF st2[x] = Due THEN 1 ELSE 0
                      /\ downDue'[x] = IF st2[x] = Down THEN 1 ELSE 0
    BY DEF TimerInv
  <2>1. /\ srTimer[x] <=> x # Root /\ st[x] \in {Hello, Gather} /\ kids[x] = {}
        /\ askTimer[x] => \/ st[x] = Asking
                          \/ \E m \in net : m.type = "SEND_BF" /\ m.dst = x
        /\ invTimer[x] <=> st[x] = Awaiting
        /\ upDue[x] = IF st[x] = Due THEN 1 ELSE 0
        /\ downDue[x] = IF st[x] = Down THEN 1 ELSE 0
    BY <1>0 DEF TimerInv
  <2>2. st2[x] = st[x] \/ x = n \/ (st[x] = Up /\ st2[x] = Asked)
    BY <1>1
  <2>3. srTimer'[x] <=> x # Root /\ st2[x] \in {Hello, Gather} /\ kids'[x] = {}
    BY <2>1, <2>2, <1>2, <1>3, <1>7
  <2>4. askTimer'[x] => \/ st2[x] = Asking
                       \/ \E m \in net' : m.type = "SEND_BF" /\ m.dst = x
    BY <2>1, <2>2, <1>2, <1>3, <1>7
  <2>5. invTimer'[x] <=> st2[x] = Awaiting
    BY <2>1, <2>2, <1>5, <1>7
  <2>6. CASE x = n
    BY <2>3, <2>4, <2>5, <2>6, <1>7 DEF TurnVars
  <2>7. CASE x # n
    <3>1. upDue'[x] = upDue[x] /\ downDue'[x] = downDue[x]
      BY <2>7 DEF TurnVars
    <3>2. QED
      BY <2>1, <2>2, <2>3, <2>4, <2>5, <2>7, <3>1
  <2>8. QED
    BY <2>6, <2>7
<1>16. HelloInv(st2)'
  <2>1. \A m : m.type \in HelloTypes => (m \in net' <=> m \in net)
    BY <1>2, <1>8
  <2>2. net \in SUBSET Message
    BY DEF TypeOK
  <2>3. QED
    BY <2>1, <2>2, <1>0, <1>1, <1>3, HelloStep
<1>17. SettledInv(st2, Q)'
  <2>1. \A x \in Nodes : st2[x] >= Due => x \in Q
    <3>1. \A x \in Nodes : st2[x] # st[x] => st[x] >= Due
      BY <1>1
    <3>2. QED
      BY <3>1, <1>0 DEF SettledInv
  <2>2. QED
    BY <2>1, <1>0, <1>1, <1>3, SettledStep
<1>18. QED
  BY <1>9, <1>10, <1>12, <1>13, <1>14, <1>15, <1>16, <1>17 DEF Control

\* The stages after n has turned to its children.
Turned(st, n) ==
  [x \in Nodes |-> IF x = n THEN Awaiting ELSE IF x \in Below(st, n, Hello) THEN Asked ELSE st[x]]

\* Turned is such a change of the stages.
LEMMA TurnedMoves ==
  ASSUME NEW st, TreeInv(st), NEW n \in Nodes, st[n] \in {Due, Down}, st[n] = Due => n = Root,
         Below(st, n, Hello) # {}
  PROVE  \E st2 : TurnMove(st, st2, n)
<1> DEFINE st2 == Turned(st, n)
<1>1. ASSUME NEW c \in Below(st, n, Hello) PROVE c \in Nodes /\ c # n /\ st[c] = Up /\ st2[c] = Asked
  <2>1. c \in Nodes \ {Root} /\ parent[c] = n /\ st[c] \in Nat /\ st[c] # Out
    BY Stages DEF Below
  <2>2. /\ parent[c] # c
        /\ st[c] <= Served => st[parent[c]] = Gather
        /\ st[c] = Asked => st[parent[c]] = Awaiting
        /\ st[c] >= Down => st[parent[c]] >= Awaiting
    BY <2>1, ParentStage
  <2>3. st[c] = Up
    BY <2>1, <2>2
  <2>4. QED
    BY <2>1, <2>2, <2>3 DEF Turned
<1>2. st2 \in [Nodes -> Nat]
  BY DEF Turned, TreeInv
<1>3. st2[n] = Awaiting /\ \A x \in Nodes : x # n /\ x \notin Below(st, n, Hello) => st2[x] = st[x]
  BY DEF Turned
<1> HIDE DEF st2
<1>4. TurnMove(st, st2, n)
  BY <1>1, <1>2, <1>3 DEF TurnMove
<1>5. QED
  BY <1>4

\* What a step of a node that turns to its children does.
TurnResult(st, n) ==
  /\ kids[n] = Below(st, n, Hello) /\ TurnVars(n)
  /\ UNCHANGED <<kids, reset, alreadyDone, chain, srCompleted>>
  /\ net' = net \cup Asks(n)

\* InverseSetRec of a node with children asks all of them.
LEMMA TurnTaken ==
  ASSUME NEW st, NEW Q, TypeOK, TypeOK', Control(st, Q), NEW n \in Nodes,
         st[n] \in {Due, Down}, st[n] = Due => n = Root, Below(st, n, Hello) # {}, TurnVars(n),
         NEW known, TurnKnown(st, n, known), InverseSetRec(n, {}, FALSE, known)
  PROVE  /\ TurnResult(st, n)
         /\ \E st2 : TurnMove(st, st2, n) /\ Control(st2, Q)'
<1>1. PICK st2 : TurnMove(st, st2, n)
  BY TurnedMoves DEF Control
<1>2. Control(st2, Q)'
  BY <1>1, TurnStep
<1>3. TurnResult(st, n)
  <2>1. /\ bfKids[n] = kids[n] /\ kids[n] = Below(st, n, Hello)
        /\ UNCHANGED <<kids, reset, alreadyDone, chain, srCompleted>>
        /\ net' = net \cup Asks(n)
    BY <1>1, TurnEffect
  <2>2. QED
    BY <2>1 DEF TurnResult
<1>4. QED
  BY <1>1, <1>2, <1>3

\* NoChildren at the root: every other node has reported.
LEMMA TurnRoot ==
  ASSUME NEW st, NEW Q, TypeOK, TypeOK', Nominal, Control(st, Q), NoChildrenDue(Root)
  PROVE  /\ st[Root] = Due
         /\ TurnResult(st, Root)
         /\ \E st2 : TurnMove(st, st2, Root) /\ Control(st2, Q)'
<1>0. TreeInv(st) /\ TimerInv(st) /\ RootedInv
  BY DEF Control
<1>1. /\ upDue[Root] > 0 /\ upDue' = [upDue EXCEPT ![Root] = @ - 1]
      /\ NoChildren(Root)
      /\ UNCHANGED <<parent, serviceVars, tableVars, srTimer, downDue>>
  BY DEF NoChildrenDue
<1>2. st[Root] = Due /\ upDue[Root] = 1 /\ downDue[Root] = 0 /\ ~invTimer[Root]
  BY <1>0, <1>1, NodesAssumption DEF TimerInv
<1>3. InverseSetRec(Root, {}, FALSE, RunDijkstra(Root, tuples[Root])) /\ UNCHANGED askTimer
  <2>1. InverseSetRec(Root, {}, invTimer[Root], RunDijkstra(Root, tuples[Root])) /\ UNCHANGED askTimer
    BY <1>1 DEF NoChildren
  <2>2. invTimer[Root] = FALSE
    BY <1>2, NodesAssumption DEF TypeOK
  <2>3. QED
    BY <2>1, <2>2
<1>4. TurnVars(Root)
  <2>1. upDue \in [Nodes -> Nat] /\ downDue \in [Nodes -> Nat]
    BY DEF TypeOK
  <2>2. upDue'[Root] = 0 /\ \A x \in Nodes \ {Root} : upDue'[x] = upDue[x]
    BY <2>1, <1>1, <1>2, NodesAssumption
  <2>3. QED
    BY <2>2, <1>1, <1>2, <1>3 DEF TurnVars, serviceVars, tableVars
<1>5. Below(st, Root, Hello) # {}
  <2>1. PICK y \in Nodes \ {Root} : {Root, y} \in Edges
    <3>1. {Root} \in SUBSET Nodes /\ {Root} # Nodes
      BY NodesAssumption DEF Nominal
    <3>2. PICK x \in {Root} : \E y \in Nodes \ {Root} : {x, y} \in Edges
      BY <3>1 DEF Nominal
    <3>3. QED
      BY <3>2
  <2>2. parent[y] = Root /\ st[y] = Up
    <3>1. y \in Neighbours(Root)
      BY <2>1 DEF Neighbours
    <3>2. QED
      BY <3>1, <2>1, <1>0, <1>2, RootDue DEF TreeInv
  <2>3. QED
    BY <2>1, <2>2 DEF Below
<1>6. TurnKnown(st, Root, RunDijkstra(Root, tuples[Root]))
  BY DEF TurnKnown
<1>7. QED
  BY <1>2, <1>3, <1>4, <1>5, <1>6, NodesAssumption, TurnTaken

\* What is known when the delayed call of InverseSetRec runs.
LEMMA DownDue ==
  ASSUME NEW st, NEW Q, TypeOK, Control(st, Q), NEW n \in Nodes, InverseSetRecDue(n)
  PROVE  /\ st[n] = Down /\ n # Root /\ done[n] = {} /\ invTimer[n] = FALSE
         /\ bfKids[n] = Below(st, n, Hello) /\ kids[n] = Below(st, n, Hello)
         /\ \A c \in Below(st, n, Hello) : st[c] = Up
         /\ TurnVars(n) /\ UNCHANGED <<round, losses, early>>
<1>0. TreeInv(st) /\ TimerInv(st) /\ ListInv(st)
  BY DEF Control
<1>1. /\ downDue[n] > 0 /\ downDue' = [downDue EXCEPT ![n] = @ - 1]
      /\ UNCHANGED <<parent, serviceVars, tableVars, srTimer, askTimer, upDue, round, losses, early>>
  BY DEF InverseSetRecDue
<1>2. st[n] = Down /\ upDue[n] = 0 /\ downDue[n] = 1 /\ ~invTimer[n]
  BY <1>0, <1>1 DEF TimerInv
<1>3. n # Root
  BY <1>0, <1>2 DEF TreeInv
<1>4. ASSUME NEW c \in Below(st, n, Hello) PROVE st[c] = Up
  <2>1. c \in Nodes \ {Root} /\ parent[c] = n /\ st[c] \in Nat /\ st[c] # Out
    BY <1>0, Stages DEF Below
  <2>2. /\ st[c] <= Served => st[parent[c]] = Gather
        /\ st[c] = Asked => st[parent[c]] = Awaiting
        /\ st[c] >= Down => st[parent[c]] >= Awaiting
    BY <2>1, <1>0, ParentStage
  <2>3. QED
    BY <2>1, <2>2, <1>2
<1>5. bfKids[n] = Below(st, n, Hello) /\ kids[n] = Below(st, n, Hello) /\ done[n] = {}
  <2>1. bfKids[n] = Below(st, n, Served) /\ kids[n] = Below(st, n, Gather) /\ done[n] = {}
    BY <1>0, <1>2 DEF ListInv
  <2>2. \A x \in Nodes : (st[x] >= Served => st[x] >= Hello) /\ (st[x] >= Gather => st[x] >= Hello)
    BY <1>0, Stages
  <2>3. \A c \in Below(st, n, Hello) : st[c] >= Served /\ st[c] >= Gather
    BY <1>4
  <2>4. QED
    BY <2>1, <2>2, <2>3 DEF Below
<1>6. TurnVars(n)
  <2>1. upDue \in [Nodes -> Nat] /\ downDue \in [Nodes -> Nat]
    BY DEF TypeOK
  <2>2. downDue'[n] = 0 /\ \A x \in Nodes \ {n} : downDue'[x] = downDue[x]
    BY <2>1, <1>1, <1>2
  <2>3. QED
    BY <2>2, <1>1, <1>2 DEF TurnVars, serviceVars, tableVars
<1>7. invTimer[n] = FALSE
  BY <1>2 DEF TypeOK
<1>8. QED
  BY <1>1, <1>2, <1>3, <1>4, <1>5, <1>6, <1>7

\* InverseSetRec of a node with children.
LEMMA TurnNode ==
  ASSUME NEW st, NEW Q, TypeOK, TypeOK', Control(st, Q), NEW n \in Nodes, InverseSetRecDue(n),
         bfKids[n] # {}
  PROVE  /\ st[n] = Down
         /\ TurnResult(st, n)
         /\ \E st2 : TurnMove(st, st2, n) /\ Control(st2, Q)'
<1>1. /\ st[n] = Down /\ n # Root /\ done[n] = {} /\ invTimer[n] = FALSE
      /\ bfKids[n] = Below(st, n, Hello) /\ TurnVars(n)
  BY DownDue
<1>2. InverseSetRec(n, {}, FALSE, routes[n])
  BY <1>1 DEF InverseSetRecDue
<1>3. TurnKnown(st, n, routes[n])
  BY <1>1 DEF TurnKnown
<1>4. Below(st, n, Hello) # {} /\ st[n] \in {Due, Down} /\ (st[n] = Due => n = Root)
  BY <1>1
<1>5. QED
  BY <1>1, <1>2, <1>3, <1>4, TurnTaken

-----------------------------------------------------------------------------
(***************************************************************************)
(* The way down: a node writes its block.                                  *)
(***************************************************************************)
\* The children of n have all the tables, and their acknowledgements are here.
EndMove(st, n) ==
  /\ st[n] \in {Down, Awaiting}
  /\ \A c \in Below(st, n, Hello) : st[c] >= Down /\ ~Acking(c)

EndVars(n) ==
  /\ WriteBlock(n)
  /\ done' = [done EXCEPT ![n] = done[n]]
  /\ kids' = [kids EXCEPT ![n] = kids[n]]
  /\ invTimer' = [invTimer EXCEPT ![n] = FALSE]
  /\ UNCHANGED <<parent, bfKids, idle, requests, tuples, votes, srTimer, askTimer, net>>
  /\ upDue'[n] = 0 /\ downDue'[n] = 0
  /\ \A x \in Nodes \ {n} : upDue'[x] = upDue[x] /\ downDue'[x] = downDue[x]

\* All of Control after a node has written its block.
LEMMA EndStep ==
  ASSUME NEW st, NEW Q, TypeOK, TypeOK', Control(st, Q), NEW n \in Nodes,
         EndMove(st, n), EndVars(n)
  PROVE  Control(Move(st, n, End), Q)'
<1> DEFINE st2 == Move(st, n, End)
<1>0. /\ TreeInv(st) /\ RootedInv /\ FreshInv(st) /\ ListInv(st) /\ ServeInv(st)
      /\ RouteInv(st) /\ TimerInv(st) /\ HelloInv(st) /\ TalkInv(st) /\ SettledInv(st, Q)
  BY DEF Control
<1>1. st[n] \in {Down, Awaiting} /\ \A c \in Below(st, n, Hello) : st[c] >= Down /\ ~Acking(c)
  BY DEF EndMove
<1>2. Advance(st, st2)
  BY <1>0, <1>1, MoveAdvance
<1>3. st2[n] = End /\ \A x \in Nodes \ {n} : st2[x] = st[x]
  BY <1>0, MoveValues
<1>4. \A x \in Nodes : st[x] \in Nat /\ st[x] <= End /\ st2[x] \in Nat
  BY <1>0, <1>2, Stages, AdvanceGathered
<1> HIDE DEF st2
<1>5. UNCHANGED <<parent, bfKids, idle, requests, tuples, votes, srTimer, askTimer, net>>
  BY DEF EndVars
<1>6. UNCHANGED <<kids, done>>
  <2>1. kids \in [Nodes -> SUBSET Nodes] /\ done \in [Nodes -> SUBSET Nodes]
    BY DEF TypeOK
  <2>2. QED
    BY <2>1 DEF EndVars
<1>7. invTimer'[n] = FALSE /\ \A x \in Nodes \ {n} : invTimer'[x] = invTimer[x]
  <2>1. invTimer \in [Nodes -> BOOLEAN]
    BY DEF TypeOK
  <2>2. QED
    BY <2>1 DEF EndVars
<1>8. /\ reset'[n] = FALSE /\ \A x \in Nodes \ {n} : reset'[x] = reset[x]
      /\ routes'[n] = RunDijkstra(n, tuples[n]) /\ \A x \in Nodes \ {n} : routes'[x] = routes[x]
  <2>1. reset \in [Nodes -> BOOLEAN] /\ routes \in [Nodes -> SUBSET Nodes]
    BY DEF TypeOK
  <2>2. QED
    BY <2>1 DEF EndVars, WriteBlock
<1>9. ASSUME NEW x \in Nodes \ {Root}, st[x] # Out, parent[x] = n
      PROVE  x # n /\ st[x] >= Down /\ ~Acking(x) /\ st[n] = Awaiting
  <2>1. st[x] >= Hello
    BY <1>4, <1>9
  <2>2. x \in Below(st, n, Hello)
    BY <2>1, <1>9 DEF Below
  <2>3. st[x] >= Down /\ ~Acking(x)
    BY <2>2, <1>1
  <2>4. parent[x] # x /\ (st[x] >= Down => st[parent[x]] >= Awaiting)
    BY <1>0, <1>9, ParentStage
  <2>5. QED
    BY <2>3, <2>4, <1>1, <1>9
<1>10. TreeInv(st2)'
  <2>1. st2[Root] \in {Hello, Gather, Due, Awaiting, End}
    BY <1>0, <1>3, NodesAssumption DEF TreeInv
  <2>2. ASSUME NEW x \in Nodes \ {Root}, st[x] # Out PROVE Follows(st2[x], st2[parent[x]])
    <3>1. Follows(st[x], st[parent[x]]) /\ parent[x] \in Nodes
      BY <2>2, <1>0 DEF TreeInv
    <3>2. CASE x = n
      <4>1. st[parent[n]] >= Awaiting
        <5>1. n \in Nodes \ {Root} /\ st[n] # Out /\ st[n] >= Down
          BY <2>2, <3>2, <1>1
        <5>2. QED
          BY <5>1, <1>0, ParentStage
      <4>2. st2[parent[n]] >= Awaiting
        BY <4>1, <3>1, <3>2, <1>3
      <4>3. QED
        BY <3>2, <1>3, <4>2 DEF Follows
    <3>3. CASE x # n /\ parent[x] = n
      <4>1. st2[x] = st[x] /\ st2[x] >= Down /\ st2[x] \in Nat
        BY <2>2, <3>3, <1>3, <1>4, <1>9
      <4>2. QED
        BY <4>1, <3>3, <1>3 DEF Follows
    <3>4. CASE x # n /\ parent[x] # n
      BY <3>1, <3>4, <1>3
    <3>5. QED
      BY <3>2, <3>3, <3>4
  <2>3. QED
    BY <2>1, <2>2, <1>0, <1>2, <1>5, TreeStep
<1>11. RootedInv'
  BY <1>0, <1>5, RootedStep
<1>12. FreshInv(st2)'
  <2>1. \A x \in Nodes : st[x] = Out => x # n
    BY <1>1
  <2>2. \A x \in Nodes : st[x] = Out =>
           /\ kids'[x] = kids[x] /\ done'[x] = done[x] /\ bfKids'[x] = bfKids[x]
           /\ idle'[x] = idle[x] /\ requests'[x] = requests[x] /\ reset'[x] = reset[x]
           /\ tuples'[x] = tuples[x] /\ votes'[x] = votes[x]
    BY <2>1, <1>5, <1>6, <1>8
  <2>3. QED
    BY <2>2, <1>0, <1>2, <1>5, FreshStep
<1>13. ListInv(st2)'
  <2> SUFFICES ASSUME NEW x \in Nodes, st2[x] # Out
               PROVE  /\ reset'[x] <=> st2[x] # End
                      /\ kids'[x] = Below(st2, x, Gather)'
                      /\ bfKids'[x] = Below(st2, x, Served)'
                      /\ st2[x] <= Asked => done'[x] = Below(st2, x, Up)'
                      /\ st2[x] = Down => done'[x] = {}
                      /\ st2[x] >= Awaiting => done'[x] = {c \in Below(st2, x, Down)' : ~Acking(c)'}
    BY DEF ListInv
  <2>1. st[x] # Out
    BY <1>2 DEF Advance
  <2>2. /\ reset[x] <=> st[x] # End
        /\ kids[x] = Below(st, x, Gather)
        /\ bfKids[x] = Below(st, x, Served)
        /\ st[x] <= Asked => done[x] = Below(st, x, Up)
        /\ st[x] = Down => done[x] = {}
        /\ st[x] >= Awaiting => done[x] = {c \in Below(st, x, Down) : ~Acking(c)}
    BY <2>1, <1>0 DEF ListInv
  <2>3. \A c : Acking(c)' <=> Acking(c)
    BY <1>5 DEF Acking
  <2>4. ASSUME NEW k \in {Gather, Served, Up, Down} PROVE Below(st2, x, k)' = Below(st, x, k)
    <3>1. \A y \in Nodes : st2[y] >= k <=> st[y] >= k
      BY <1>1, <1>3
    <3>2. QED
      BY <3>1, <1>5 DEF Below
  <2>5. CASE x = n
    <3>1. st[n] = Down => Below(st, n, Down) = {}
      <4>1. \A c \in Below(st, n, Down) : c \in Nodes \ {Root} /\ parent[c] = n /\ st[c] # Out
        BY <1>4 DEF Below
      <4>2. QED
        BY <4>1, <1>9
    <3>2. done[n] = {c \in Below(st, n, Down) : ~Acking(c)}
      BY <2>2, <2>5, <3>1, <1>1
    <3>3. QED
      BY <2>2, <2>3, <2>4, <2>5, <3>2, <1>3, <1>5, <1>6, <1>8
  <2>6. CASE x # n
    <3>1. st2[x] = st[x] /\ reset'[x] = reset[x]
      BY <2>6, <1>3, <1>8
    <3>2. QED
      BY <2>2, <2>3, <2>4, <3>1, <1>5, <1>6
  <2>7. QED
    BY <2>5, <2>6
<1>14. ServeInv(st2)'
  <2>1. \A x \in Nodes : Talks(x)' <=> Talks(x)
    BY <1>5 DEF Talks
  <2>2. \A x \in Nodes : st2[x] \in {Served, Asked} => Talks(x)'
    <3>1. ASSUME NEW x \in Nodes, st2[x] \in {Served, Asked} PROVE Talks(x)'
      <4>1. x # n /\ st[x] = st2[x]
        BY <3>1, <1>3
      <4>2. x # Root
        BY <3>1, <4>1, <1>0 DEF TreeInv
      <4>3. QED
        BY <2>1, <3>1, <4>1, <4>2, <1>0 DEF ServeInv, ServedTalk
    <3>2. QED
      BY <3>1
  <2>3. \A x \in Nodes : /\ st2[x] = Gather => st[x] = Gather
                         /\ st2[x] = Served <=> st[x] = Served
                         /\ x # Root /\ st[x] < Up => st2[x] < Up
                         /\ st[x] = Asking => st2[x] = Asking
                         /\ st2[x] = Asking => st[x] = Asking
    BY <1>1, <1>3
  <2>4. QED
    BY <2>1, <2>2, <2>3, <1>0, <1>2, <1>5, ServeStep
<1>15. RouteInv(st2)'
  <2>1. ASSUME NEW x \in Nodes, st[x] # Out
        PROVE  /\ tuples[x] \subseteq tuples'[x] /\ kids'[x] = kids[x]
               /\ \/ /\ routes'[x] = routes[x] /\ bfKids'[x] = bfKids[x]
                     /\ st2[x] >= Asking => st[x] >= Asking
                  \/ routes'[x] = RunDijkstra(x, tuples'[x]) /\ bfKids'[x] \subseteq kids[x]
    <3>1. tuples' = tuples /\ kids' = kids /\ bfKids' = bfKids
      BY <1>5, <1>6
    <3>2. CASE x # n
      BY <3>1, <3>2, <1>3, <1>8
    <3>3. CASE x = n
      <4>1. bfKids[n] \subseteq kids[n]
        BY <2>1, <3>3, <1>0, <1>4 DEF ListInv, Below
      <4>2. QED
        BY <3>1, <3>3, <4>1, <1>8
    <3>4. QED
      BY <3>2, <3>3
  <2>2. QED
    BY <2>1, <1>0, <1>2, <1>5, RouteStep
<1>16. TimerInv(st2)'
  <2> SUFFICES ASSUME NEW x \in Nodes
               PROVE  /\ srTimer'[x] <=> x # Root /\ st2[x] \in {Hello, Gather} /\ kids'[x] = {}
                      /\ askTimer'[x] => \/ st2[x] = Asking
                                         \/ \E m \in net' : m.type = "SEND_BF" /\ m.dst = x
                      /\ invTimer'[x] <=> st2[x] = Awaiting
                      /\ upDue'[x] = IF st2[x] = Due THEN 1 ELSE 0
                      /\ downDue'[x] = IF st2[x] = Down THEN 1 ELSE 0
    BY DEF TimerInv
  <2>1. /\ srTimer[x] <=> x # Root /\ st[x] \in {Hello, Gather} /\ kids[x] = {}
        /\ askTimer[x] => \/ st[x] = Asking
                          \/ \E m \in net : m.type = "SEND_BF" /\ m.dst = x
        /\ invTimer[x] <=> st[x] = Awaiting
        /\ upDue[x] = IF st[x] = Due THEN 1 ELSE 0
        /\ downDue[x] = IF st[x] = Down THEN 1 ELSE 0
    BY <1>0 DEF TimerInv
  <2>2. CASE x = n
    BY <2>1, <2>2, <1>1, <1>3, <1>5, <1>6, <1>7 DEF EndVars
  <2>3. CASE x # n
    <3>1. upDue'[x] = upDue[x] /\ downDue'[x] = downDue[x] /\ st2[x] = st[x]
      BY <2>3, <1>3 DEF EndVars
    <3>2. QED
      BY <2>1, <2>3, <3>1, <1>5, <1>6, <1>7
  <2>4. QED
    BY <2>2, <2>3
<1>17. HelloInv(st2)'
  <2>1. net \in SUBSET Message
    BY DEF TypeOK
  <2>2. QED
    BY <2>1, <1>0, <1>2, <1>5, HelloStep
<1>18. TalkInv(st2)'
  <2> DEFINE D == {}
             A == {}
  <2>1. Traffic(D, A)
    BY <1>5 DEF Traffic
  <2>2. ASSUME NEW o \in net \ D, Exchange(o) PROVE st2[Client(o)] = st[Client(o)]
    <3>1. Client(o) \in Nodes /\ st[Client(o)] \in {Asking, Served, Asked}
      BY <1>0, <2>2, Talking
    <3>2. QED
      BY <3>1, <1>1, <1>3
  <2>3. ASSUME NEW o \in net \ D, o.type = "SEND_MISSING_P2C_ACK"
        PROVE  st2[o.src] >= Down /\ st2[parent[o.src]] = Awaiting
    <3>1. /\ o.src \in Nodes \ {Root} /\ st[o.src] \in Nat /\ st[o.src] >= Down
          /\ parent[o.src] \in Nodes /\ st[parent[o.src]] = Awaiting
      BY <1>0, <2>3, AckParts
    <3>2. Acking(o.src) /\ st[o.src] # Out
      BY <2>3, <3>1 DEF Acking
    <3>3. parent[o.src] # n
      BY <3>1, <3>2, <1>9
    <3>4. QED
      BY <3>1, <3>3, <1>3
  <2>4. \A m \in A : FALSE
    OBVIOUS
  <2> HIDE DEF D, A
  <2>5. QED
    BY <2>1, <2>2, <2>3, <2>4, <1>0, <1>5, TalkStep
<1>19. SettledInv(st2, Q)'
  <2>1. \A x \in Nodes : st2[x] >= Due => x \in Q
    BY <1>0, <1>1, <1>3 DEF SettledInv
  <2>2. QED
    BY <2>1, <1>0, <1>2, <1>5, SettledStep
<1>20. QED
  <2>1. Control(st2, Q)'
    BY <1>10, <1>11, <1>12, <1>13, <1>14, <1>15, <1>16, <1>17, <1>18, <1>19 DEF Control
  <2>2. QED
    BY <2>1 DEF st2

\* InverseSetRec of a leaf.
LEMMA LeafEnds ==
  ASSUME NEW st, NEW Q, TypeOK, TypeOK', FlagInv, Control(st, Q), NEW n \in Nodes,
         InverseSetRecDue(n), bfKids[n] = {}
  PROVE  /\ EndMove(st, n) /\ EndVars(n)
         /\ Control(Move(st, n, End), Q)'
<1>1. /\ st[n] = Down /\ n # Root /\ done[n] = {} /\ invTimer[n] = FALSE
      /\ bfKids[n] = Below(st, n, Hello) /\ kids[n] = Below(st, n, Hello) /\ TurnVars(n)
  BY DownDue
<1>2. EndMove(st, n)
  BY <1>1 DEF EndMove
<1>3. NoChildrenToServe(n)
  <2>1. reset[n]
    BY <1>1 DEF Control, ListInv
  <2>2. ~srCompleted[n]
    BY <2>1 DEF FlagInv
  <2>3. QED
    BY <2>2 DEF NoChildrenToServe
<1>4. InverseSetRec(n, done[n], FALSE, routes[n])
  BY <1>1 DEF InverseSetRecDue
<1>5. /\ WriteBlock(n) /\ done' = [done EXCEPT ![n] = done[n]]
      /\ invTimer' = [invTimer EXCEPT ![n] = FALSE] /\ UNCHANGED <<kids, net>>
  BY <1>3, <1>4 DEF InverseSetRec
<1>6. kids' = [kids EXCEPT ![n] = kids[n]]
  <2>1. kids \in [Nodes -> SUBSET Nodes]
    BY DEF TypeOK
  <2>2. QED
    BY <2>1, <1>5
<1>7. EndVars(n)
  BY <1>1, <1>5, <1>6 DEF EndVars, TurnVars
<1>8. QED
  BY <1>2, <1>7, EndStep

\* The timer of the acknowledgements expires when there is none to wait for.
LEMMA AllAcked ==
  ASSUME NEW st, NEW Q, TypeOK, Nominal, Control(st, Q), NEW n \in Nodes,
         invTimer[n], Expires(DownOver(n)), early \in Nat
  PROVE  /\ st[n] = Awaiting /\ EndMove(st, n)
         /\ kids[n] = Below(st, n, Hello) /\ bfKids[n] = kids[n] /\ done[n] = kids[n]
<1>0. TreeInv(st) /\ TimerInv(st) /\ ListInv(st) /\ ServeInv(st) /\ TalkInv(st)
  BY DEF Control
<1>1. st[n] = Awaiting
  BY <1>0 DEF TimerInv
<1>2. DownOver(n)
  BY DEF Expires, Nominal
<1>3. ASSUME NEW c \in Below(st, n, Hello) PROVE st[c] \in Nat /\ st[c] >= Down /\ ~Acking(c)
  <2>1. c \in Nodes \ {Root} /\ parent[c] = n /\ st[c] \in Nat /\ st[c] # Out
    BY <1>0, Stages DEF Below
  <2>2. /\ st[c] <= Served => st[parent[c]] = Gather
        /\ st[c] = Up => Gather <= st[parent[c]] /\ st[parent[c]] <= Down
    BY <2>1, <1>0, ParentStage
  <2>3. st[c] >= Asked
    BY <2>1, <2>2, <1>1
  <2>4. st[c] # Asked
    <3>1. SUFFICES ASSUME st[c] = Asked PROVE FALSE
      OBVIOUS
    <3>2. PICK m \in net : Exchange(m) /\ Client(m) = c
      BY <2>1, <3>1, <1>0 DEF ServeInv, ServedTalk, Talks
    <3>3. Server(m) = n /\ StageOf(m.type) = Asked
      BY <2>1, <3>1, <3>2, <1>0, Talking
    <3>4. \/ m.type \in {"ASK_BF_P2C", "SEND_MISSING_P2C"} /\ m.src = n
          \/ m.type = "SEND_BF_C2P" /\ m.dst = n
      BY <3>2, <3>3 DEF Exchange, Server, StageOf
    <3>5. QED
      BY <3>4, <1>2 DEF DownOver
  <2>5. ~Acking(c)
    <3>1. SUFFICES ASSUME NEW m \in net, m.type = "SEND_MISSING_P2C_ACK", m.src = c PROVE FALSE
      BY DEF Acking
    <3>2. m = Msg(m.type, m.src, parent[m.src], {}, {})
      BY <3>1, <1>0 DEF TalkInv
    <3>3. m.dst = n
      BY <3>1, <3>2, <2>1 DEF Msg
    <3>4. QED
      BY <3>1, <3>3, <1>2 DEF DownOver
  <2>6. QED
    BY <2>1, <2>3, <2>4, <2>5
<1>4. EndMove(st, n)
  BY <1>1, <1>3 DEF EndMove
<1>5. /\ kids[n] = Below(st, n, Gather) /\ bfKids[n] = Below(st, n, Served)
      /\ done[n] = {c \in Below(st, n, Down) : ~Acking(c)}
  BY <1>0, <1>1 DEF ListInv
<1>6. ASSUME NEW k \in {Gather, Served, Down} PROVE Below(st, n, k) = Below(st, n, Hello)
  <2>1. \A x \in Nodes : st[x] >= k => st[x] >= Hello
    BY <1>0, Stages
  <2>2. \A c \in Below(st, n, Hello) : st[c] >= k
    BY <1>3
  <2>3. QED
    BY <2>1, <2>2 DEF Below
<1>7. QED
  BY <1>1, <1>3, <1>4, <1>5, <1>6

\* InverseTimeout: a node whose children have all acknowledged writes its block.
LEMMA ParentEnds ==
  ASSUME NEW st, NEW Q, TypeOK, TypeOK', FlagInv, Nominal, Control(st, Q), NEW n \in Nodes,
         InverseTimeout(n)
  PROVE  /\ EndMove(st, n) /\ EndVars(n)
         /\ Control(Move(st, n, End), Q)'
<1>1. /\ invTimer[n] /\ Expires(DownOver(n))
      /\ InverseSetRec(n, done[n], FALSE, routes[n])
      /\ UNCHANGED <<parent, serviceVars, tableVars, srTimer, askTimer, dueVars, round, losses>>
  BY DEF InverseTimeout
<1>2. early \in Nat
  BY DEF TypeOK
<1>3. /\ st[n] = Awaiting /\ EndMove(st, n)
      /\ kids[n] = Below(st, n, Hello) /\ bfKids[n] = kids[n] /\ done[n] = kids[n]
  BY <1>1, <1>2, AllAcked
<1>4. upDue[n] = 0 /\ downDue[n] = 0
  BY <1>3 DEF Control, TimerInv
<1>5. kids \in [Nodes -> SUBSET Nodes]
  BY DEF TypeOK
<1>6. /\ WriteBlock(n) /\ done' = [done EXCEPT ![n] = done[n]]
      /\ kids' = [kids EXCEPT ![n] = kids[n]]
      /\ invTimer' = [invTimer EXCEPT ![n] = FALSE] /\ UNCHANGED net
  <2>1. CASE NoChildrenToServe(n)
    <3>1. /\ WriteBlock(n) /\ done' = [done EXCEPT ![n] = done[n]]
          /\ invTimer' = [invTimer EXCEPT ![n] = FALSE] /\ UNCHANGED <<kids, net>>
      BY <2>1, <1>1 DEF InverseSetRec
    <3>2. QED
      BY <3>1, <1>5
  <2>2. CASE ~NoChildrenToServe(n)
    <3>1. kids[n] \cup bfKids[n] = kids[n] /\ ToAsk(n, done[n]) = {}
      BY <1>3 DEF ToAsk
    <3>2. ~KeepsWaiting(kids[n], done[n], FALSE)
      BY <1>3 DEF KeepsWaiting
    <3>3. ~Terminated(n)
      <4>1. reset[n]
        BY <1>3 DEF Control, ListInv
      <4>2. QED
        BY <4>1 DEF FlagInv, Terminated
    <3>4. /\ kids' = [kids EXCEPT ![n] = kids[n]]
          /\ done' = [done EXCEPT ![n] = done[n]]
          /\ invTimer' = [invTimer EXCEPT ![n] = FALSE \/ kids[n] # done[n]]
          /\ WriteBlock(n)
          /\ net' = net \cup Routed({Msg("ASK_BF_P2C", n, c, {}, {}) : c \in ToAsk(n, done[n])},
                                    routes'[n])
      BY <2>2, <3>1, <3>2, <3>3, <1>1 DEF InverseSetRec
    <3>5. net' = net
      BY <3>1, <3>4 DEF Routed
    <3>6. (FALSE \/ kids[n] # done[n]) = FALSE
      BY <1>3
    <3>7. QED
      BY <3>4, <3>5, <3>6
  <2>3. QED
    BY <2>1, <2>2
<1>7. EndVars(n)
  BY <1>1, <1>4, <1>6 DEF EndVars, serviceVars, tableVars, dueVars
<1>8. QED
  BY <1>3, <1>7, EndStep

-----------------------------------------------------------------------------
(***************************************************************************)
(* The way down: the missing tuples and their acknowledgement.             *)
(***************************************************************************)
\* ProcessReceivedMissingInverse: the acknowledgement leaves, to the parent that
\* sent the missing tuples.
LEMMA MissingArrives ==
  ASSUME NEW st, NEW Q, TypeOK, Control(st, Q), NEW m \in net,
         ProcessReceivedMissingInverse(m)
  PROVE  /\ m.type = "SEND_MISSING_P2C" /\ Exchange(m) /\ Client(m) = m.dst
         /\ m.dst \in Nodes \ {Root} /\ m.src = parent[m.dst] /\ m.src \in Nodes /\ m.src # m.dst
         /\ st[m.dst] = Asked /\ st[m.src] = Awaiting
         /\ \A o \in net : Exchange(o) /\ Client(o) = m.dst => o = m
         /\ net' = (net \ {m}) \cup {Msg("SEND_MISSING_P2C_ACK", m.dst, parent[m.dst], {}, {})}
<1>0. TreeInv(st) /\ RouteInv(st) /\ TalkInv(st)
  BY DEF Control
<1>1. m.type = "SEND_MISSING_P2C"
  BY DEF ProcessReceivedMissingInverse
<1>2. Exchange(m) /\ Client(m) = m.dst /\ Server(m) = m.src /\ StageOf(m.type) = Asked
  BY <1>1, TalkParts
<1>3. /\ m.dst \in Nodes \ {Root} /\ m.src = parent[m.dst] /\ m.src \in Nodes /\ m.src # m.dst
      /\ st[m.dst] = Asked /\ st[m.src] = Awaiting
      /\ \A o \in net : Exchange(o) /\ Client(o) = m.dst => o = m
  BY <1>0, <1>2, Talking
<1>4. parent[m.dst] \in routes[m.dst]
  <2>1. m.dst # Root /\ st[m.dst] # Out /\ st[m.dst] >= Asking
    BY <1>3
  <2>2. QED
    BY <2>1, <1>0, <1>3 DEF RouteInv
<1>5. net' = (net \ {m}) \cup
               Routed({Msg("SEND_MISSING_P2C_ACK", m.dst, parent[m.dst], {}, {})}, routes[m.dst])
  BY DEF ProcessReceivedMissingInverse
<1>6. QED
  BY <1>1, <1>2, <1>3, <1>4, <1>5, RoutedOne

\* What ProcessReceivedMissingInverse changes and leaves alone.
LEMMA MissingKept ==
  ASSUME NEW st, NEW Q, TypeOK, Control(st, Q), NEW m \in net,
         ProcessReceivedMissingInverse(m)
  PROVE  LET n == m.dst IN
         /\ UNCHANGED <<parent, kids, bfKids, idle, requests, reset, routes, srTimer, askTimer,
                        invTimer, upDue, round, chain>>
         /\ done'[n] = {} /\ \A x \in Nodes \ {n} : done'[x] = done[x]
         /\ downDue'[n] = downDue[n] + 1 /\ \A x \in Nodes \ {n} : downDue'[x] = downDue[x]
         /\ tuples'[n] = tuples[n] \cup m.links /\ votes'[n] = StoreVotes(votes[n], m.votes)
         /\ \A x \in Nodes \ {n} : tuples'[x] = tuples[x] /\ votes'[x] = votes[x]
<1> DEFINE n == m.dst
<1>1. n \in Nodes
  BY MissingArrives
<1>2. /\ tuples' = [tuples EXCEPT ![n] = @ \cup m.links]
      /\ votes' = [votes EXCEPT ![n] = StoreVotes(@, m.votes)]
      /\ done' = [done EXCEPT ![n] = {}]
      /\ downDue' = [downDue EXCEPT ![n] = @ + 1]
      /\ UNCHANGED <<parent, kids, serviceVars, flagVars, routes, timerVars, upDue, chain, round>>
  BY DEF ProcessReceivedMissingInverse
<1> HIDE DEF n
<1>3. /\ tuples \in [Nodes -> SUBSET Edges] /\ votes \in [Nodes -> SUBSET (Authors \X Authors)]
      /\ done \in [Nodes -> SUBSET Nodes] /\ downDue \in [Nodes -> Nat]
  BY DEF TypeOK
<1>4. done'[n] = {} /\ \A x \in Nodes \ {n} : done'[x] = done[x]
  BY <1>1, <1>2, <1>3
<1>5. downDue'[n] = downDue[n] + 1 /\ \A x \in Nodes \ {n} : downDue'[x] = downDue[x]
  BY <1>1, <1>2, <1>3
<1>6. tuples'[n] = tuples[n] \cup m.links /\ \A x \in Nodes \ {n} : tuples'[x] = tuples[x]
  BY <1>1, <1>2, <1>3
<1>7. votes'[n] = StoreVotes(votes[n], m.votes) /\ \A x \in Nodes \ {n} : votes'[x] = votes[x]
  BY <1>1, <1>2, <1>3
<1>8. UNCHANGED <<parent, kids, bfKids, idle, requests, reset, routes, srTimer, askTimer,
                  invTimer, upDue, round, chain>>
  BY <1>2 DEF serviceVars, flagVars, timerVars
<1>9. QED
  BY <1>4, <1>5, <1>6, <1>7, <1>8 DEF n

\* All of Control after a node has received the missing tuples of its parent.
LEMMA MissingTaken ==
  ASSUME NEW st, NEW Q, TypeOK, TypeOK', Control(st, Q), NEW m \in net,
         ProcessReceivedMissingInverse(m), NEW n, n = m.dst
  PROVE  Control(Move(st, n, Down), Q)'
<1> DEFINE st2 == Move(st, n, Down)
           M == Msg("SEND_MISSING_P2C_ACK", n, parent[n], {}, {})
<1>0. /\ TreeInv(st) /\ RootedInv /\ FreshInv(st) /\ ListInv(st) /\ ServeInv(st)
      /\ RouteInv(st) /\ TimerInv(st) /\ HelloInv(st) /\ TalkInv(st) /\ SettledInv(st, Q)
  BY DEF Control
<1>1. /\ m.type = "SEND_MISSING_P2C" /\ Exchange(m) /\ Client(m) = n
      /\ n \in Nodes \ {Root} /\ parent[n] \in Nodes /\ parent[n] # n
      /\ st[n] = Asked /\ st[parent[n]] = Awaiting
      /\ \A o \in net : Exchange(o) /\ Client(o) = n => o = m
      /\ net' = (net \ {m}) \cup {M}
  BY MissingArrives
<1>2. /\ UNCHANGED <<parent, kids, bfKids, idle, requests, reset, routes, srTimer, askTimer,
                     invTimer, upDue, round, chain>>
      /\ done'[n] = {} /\ \A x \in Nodes \ {n} : done'[x] = done[x]
      /\ downDue'[n] = downDue[n] + 1 /\ \A x \in Nodes \ {n} : downDue'[x] = downDue[x]
      /\ tuples'[n] = tuples[n] \cup m.links
      /\ \A x \in Nodes \ {n} : tuples'[x] = tuples[x] /\ votes'[x] = votes[x]
  BY MissingKept
<1>3. Advance(st, st2)
  BY <1>0, <1>1, MoveAdvance
<1>4. st2[n] = Down /\ \A x \in Nodes \ {n} : st2[x] = st[x]
  BY <1>0, <1>1, MoveValues
<1>5. \A x \in Nodes : st[x] \in Nat /\ st[x] <= End /\ st2[x] \in Nat
  BY <1>0, <1>3, Stages, AdvanceGathered
<1>6. M.type = "SEND_MISSING_P2C_ACK" /\ M.src = n /\ M = Msg(M.type, M.src, parent[M.src], {}, {})
  BY MsgParts
<1>7. ~Exchange(M) /\ M.type \notin HelloTypes /\ m.type \notin HelloTypes
  BY <1>1, <1>6, TalkParts DEF HelloTypes
<1> HIDE DEF st2, M
<1>8. ASSUME NEW x \in Nodes \ {Root}, st[x] # Out, parent[x] = n PROVE st[x] = Up
  <2>1. /\ st[x] <= Served => st[parent[x]] = Gather
        /\ st[x] = Asked => st[parent[x]] = Awaiting
        /\ st[x] >= Down => st[parent[x]] >= Awaiting
    BY <1>0, <1>8, ParentStage
  <2>2. QED
    BY <2>1, <1>1, <1>5, <1>8
<1>9. TreeInv(st2)'
  <2>1. st2[Root] \in {Hello, Gather, Due, Awaiting, End}
    BY <1>0, <1>1, <1>4, NodesAssumption DEF TreeInv
  <2>2. ASSUME NEW x \in Nodes \ {Root}, st[x] # Out PROVE Follows(st2[x], st2[parent[x]])
    <3>1. Follows(st[x], st[parent[x]]) /\ parent[x] \in Nodes
      BY <2>2, <1>0 DEF TreeInv
    <3>2. CASE x = n
      BY <3>2, <1>1, <1>4 DEF Follows
    <3>3. CASE x # n /\ parent[x] = n
      <4>1. st2[x] = Up
        BY <2>2, <3>3, <1>4, <1>8
      <4>2. QED
        BY <4>1, <3>3, <1>4 DEF Follows
    <3>4. CASE x # n /\ parent[x] # n
      BY <3>1, <3>4, <1>4
    <3>5. QED
      BY <3>2, <3>3, <3>4
  <2>3. QED
    BY <2>1, <2>2, <1>0, <1>2, <1>3, TreeStep
<1>10. RootedInv'
  BY <1>0, <1>2, RootedStep
<1>11. FreshInv(st2)'
  <2>1. \A x \in Nodes : st[x] = Out => x # n
    BY <1>1
  <2>2. \A x \in Nodes : st[x] = Out =>
           /\ kids'[x] = kids[x] /\ done'[x] = done[x] /\ bfKids'[x] = bfKids[x]
           /\ idle'[x] = idle[x] /\ requests'[x] = requests[x] /\ reset'[x] = reset[x]
           /\ tuples'[x] = tuples[x] /\ votes'[x] = votes[x]
    BY <2>1, <1>2
  <2>3. QED
    BY <2>2, <1>0, <1>2, <1>3, FreshStep
<1>12. Acking(n)' /\ \A c \in Nodes \ {n} : Acking(c)' <=> Acking(c)
  BY <1>1, <1>6 DEF Acking
<1>13. ListInv(st2)'
  <2> SUFFICES ASSUME NEW x \in Nodes, st2[x] # Out
               PROVE  /\ reset'[x] <=> st2[x] # End
                      /\ kids'[x] = Below(st2, x, Gather)'
                      /\ bfKids'[x] = Below(st2, x, Served)'
                      /\ st2[x] <= Asked => done'[x] = Below(st2, x, Up)'
                      /\ st2[x] = Down => done'[x] = {}
                      /\ st2[x] >= Awaiting => done'[x] = {c \in Below(st2, x, Down)' : ~Acking(c)'}
    BY DEF ListInv
  <2>1. st[x] # Out
    BY <1>3 DEF Advance
  <2>2. /\ reset[x] <=> st[x] # End
        /\ kids[x] = Below(st, x, Gather)
        /\ bfKids[x] = Below(st, x, Served)
        /\ st[x] <= Asked => done[x] = Below(st, x, Up)
        /\ st[x] = Down => done[x] = {}
        /\ st[x] >= Awaiting => done[x] = {c \in Below(st, x, Down) : ~Acking(c)}
    BY <2>1, <1>0 DEF ListInv
  <2>3. ASSUME NEW k \in {Gather, Served, Up} PROVE Below(st2, x, k)' = Below(st, x, k)
    <3>1. \A y \in Nodes : st2[y] >= k <=> st[y] >= k
      BY <1>1, <1>4
    <3>2. QED
      BY <3>1, <1>2 DEF Below
  <2>4. {c \in Below(st2, x, Down)' : ~Acking(c)'} = {c \in Below(st, x, Down) : ~Acking(c)}
    <3>1. \A y \in Nodes \ {n} : (st2[y] >= Down <=> st[y] >= Down) /\ (Acking(y)' <=> Acking(y))
      BY <1>4, <1>12
    <3>2. ~(st[n] >= Down) /\ Acking(n)'
      BY <1>1, <1>12
    <3>3. QED
      BY <3>1, <3>2, <1>2 DEF Below
  <2>5. CASE x = n
    BY <2>2, <2>3, <2>5, <1>1, <1>2, <1>4
  <2>6. CASE x # n
    <3>1. st2[x] = st[x] /\ reset'[x] = reset[x] /\ done'[x] = done[x]
      BY <2>6, <1>2, <1>4
    <3>2. QED
      BY <2>2, <2>3, <2>4, <3>1, <1>2
  <2>7. QED
    BY <2>5, <2>6
<1>14. ServeInv(st2)'
  <2>1. \A x \in Nodes \ {n} : Talks(x)' <=> Talks(x)
    BY <1>1, <1>7 DEF Talks
  <2>2. \A x \in Nodes : st2[x] \in {Served, Asked} => Talks(x)'
    <3>1. ASSUME NEW x \in Nodes, st2[x] \in {Served, Asked} PROVE Talks(x)'
      <4>1. x # n /\ st[x] = st2[x]
        BY <3>1, <1>4
      <4>2. x # Root
        BY <3>1, <4>1, <1>0 DEF TreeInv
      <4>3. QED
        BY <2>1, <3>1, <4>1, <4>2, <1>0 DEF ServeInv, ServedTalk
    <3>2. QED
      BY <3>1
  <2>3. \A x \in Nodes : /\ st2[x] = Gather => st[x] = Gather
                         /\ st2[x] = Served <=> st[x] = Served
                         /\ x # Root /\ st[x] < Up => st2[x] < Up
                         /\ st[x] = Asking => st2[x] = Asking
                         /\ st2[x] = Asking => st[x] = Asking
    BY <1>1, <1>4
  <2>4. \A x \in Nodes : st[x] = Asking => (Talks(x)' <=> Talks(x))
    BY <2>1, <1>1
  <2>5. QED
    BY <2>2, <2>3, <2>4, <1>0, <1>2, <1>3, ServeStep
<1>15. RouteInv(st2)'
  <2>1. ASSUME NEW x \in Nodes, st[x] # Out
        PROVE  /\ tuples[x] \subseteq tuples'[x] /\ kids'[x] = kids[x]
               /\ \/ /\ routes'[x] = routes[x] /\ bfKids'[x] = bfKids[x]
                     /\ st2[x] >= Asking => st[x] >= Asking
                  \/ routes'[x] = RunDijkstra(x, tuples'[x]) /\ bfKids'[x] \subseteq kids[x]
    <3>1. tuples[x] \subseteq tuples'[x]
      BY <1>2
    <3>2. st2[x] >= Asking => st[x] >= Asking
      BY <1>1, <1>4
    <3>3. QED
      BY <3>1, <3>2, <1>2
  <2>2. QED
    BY <2>1, <1>0, <1>2, <1>3, RouteStep
<1>16. TimerInv(st2)'
  <2> SUFFICES ASSUME NEW x \in Nodes
               PROVE  /\ srTimer'[x] <=> x # Root /\ st2[x] \in {Hello, Gather} /\ kids'[x] = {}
                      /\ askTimer'[x] => \/ st2[x] = Asking
                                         \/ \E o \in net' : o.type = "SEND_BF" /\ o.dst = x
                      /\ invTimer'[x] <=> st2[x] = Awaiting
                      /\ upDue'[x] = IF st2[x] = Due THEN 1 ELSE 0
                      /\ downDue'[x] = IF st2[x] = Down THEN 1 ELSE 0
    BY DEF TimerInv
  <2>1. /\ srTimer[x] <=> x # Root /\ st[x] \in {Hello, Gather} /\ kids[x] = {}
        /\ askTimer[x] => \/ st[x] = Asking
                          \/ \E o \in net : o.type = "SEND_BF" /\ o.dst = x
        /\ invTimer[x] <=> st[x] = Awaiting
        /\ upDue[x] = IF st[x] = Due THEN 1 ELSE 0
        /\ downDue[x] = IF st[x] = Down THEN 1 ELSE 0
    BY <1>0 DEF TimerInv
  <2>2. \A o \in net : o.type = "SEND_BF" => o \in net'
    BY <1>1
  <2>3. askTimer'[x] => st[x] = Asking \/ \E o \in net' : o.type = "SEND_BF" /\ o.dst = x
    BY <2>1, <2>2, <1>2
  <2>4. CASE x = n
    BY <2>1, <2>3, <2>4, <1>1, <1>2, <1>4
  <2>5. CASE x # n
    BY <2>1, <2>3, <2>5, <1>2, <1>4
  <2>6. QED
    BY <2>4, <2>5
<1>17. HelloInv(st2)'
  <2>1. net \in SUBSET Message
    BY DEF TypeOK
  <2>2. \A o : o.type \in HelloTypes => (o \in net' <=> o \in net)
    BY <1>1, <1>7
  <2>3. QED
    BY <2>1, <2>2, <1>0, <1>2, <1>3, HelloStep
<1>18. TalkInv(st2)'
  <2> DEFINE D == {m}
             A == {M}
  <2>1. Traffic(D, A)
    BY <1>1 DEF Traffic
  <2>2. ASSUME NEW o \in net \ D, Exchange(o) PROVE st2[Client(o)] = st[Client(o)]
    <3>1. Client(o) \in Nodes
      BY <1>0, <2>2, Talking
    <3>2. Client(o) # n
      BY <2>2, <1>1
    <3>3. QED
      BY <3>1, <3>2, <1>4
  <2>3. ASSUME NEW o \in net \ D, o.type = "SEND_MISSING_P2C_ACK"
        PROVE  st2[o.src] >= Down /\ st2[parent[o.src]] = Awaiting
    <3>1. /\ o.src \in Nodes \ {Root} /\ st[o.src] \in Nat /\ st[o.src] >= Down
          /\ parent[o.src] \in Nodes /\ st[parent[o.src]] = Awaiting
      BY <1>0, <2>3, AckParts
    <3>2. o.src # n /\ parent[o.src] # n
      BY <3>1, <1>1
    <3>3. QED
      BY <3>1, <3>2, <1>4
  <2>4. \A o \in A : ~Exchange(o)
    BY <1>7
  <2>5. \A o \in A : o.type = "SEND_MISSING_P2C_ACK" =>
          /\ o.src # Root /\ st2[o.src] >= Down /\ st2[parent[o.src]] = Awaiting
          /\ o = Msg(o.type, o.src, parent[o.src], {}, {})
    BY <1>1, <1>4, <1>6
  <2> HIDE DEF D, A
  <2>6. QED
    BY <2>1, <2>2, <2>3, <2>4, <2>5, <1>0, <1>2, TalkStep
<1>19. SettledInv(st2, Q)'
  <2>1. \A x \in Nodes : st2[x] >= Due => x \in Q
    BY <1>0, <1>1, <1>4 DEF SettledInv
  <2>2. QED
    BY <2>1, <1>0, <1>2, <1>3, SettledStep
<1>20. QED
  <2>1. Control(st2, Q)'
    BY <1>9, <1>10, <1>11, <1>13, <1>14, <1>15, <1>16, <1>17, <1>18, <1>19 DEF Control
  <2>2. QED
    BY <2>1 DEF st2

\* ProcessInverseAck: the child is marked.
LEMMA AckArrives ==
  ASSUME NEW st, NEW Q, TypeOK, TypeOK', Control(st, Q), NEW m \in net, ProcessInverseAck(m)
  PROVE  Control(st, Q)'
<1> DEFINE c == m.src
           n == m.dst
<1>0. /\ TreeInv(st) /\ RootedInv /\ FreshInv(st) /\ ListInv(st) /\ ServeInv(st)
      /\ RouteInv(st) /\ TimerInv(st) /\ HelloInv(st) /\ TalkInv(st) /\ SettledInv(st, Q)
  BY DEF Control
<1>1. /\ m.type = "SEND_MISSING_P2C_ACK" /\ MarkDone(n, c) /\ net' = net \ {m}
      /\ UNCHANGED <<parent, serviceVars, flagVars, tableVars, routes, timerVars, dueVars>>
  BY DEF ProcessInverseAck
<1>2. /\ c \in Nodes \ {Root} /\ st[c] \in Nat /\ st[c] >= Down
      /\ parent[c] \in Nodes /\ st[parent[c]] = Awaiting
      /\ \A o \in net : o.type = "SEND_MISSING_P2C_ACK" /\ o.src = c => o = m
      /\ n = parent[c]
  <2>1. /\ c \in Nodes \ {Root} /\ st[c] \in Nat /\ st[c] >= Down
        /\ parent[c] \in Nodes /\ st[parent[c]] = Awaiting
    BY <1>0, <1>1, AckParts
  <2>2. \A o \in net : o.type = "SEND_MISSING_P2C_ACK" => o = Msg(o.type, o.src, parent[o.src], {}, {})
    BY <1>0 DEF TalkInv
  <2>3. \A o \in net : o.type = "SEND_MISSING_P2C_ACK" /\ o.src = c => o = m
    BY <2>2, <1>1
  <2>4. n = parent[c]
    BY <2>2, <1>1 DEF Msg
  <2>5. QED
    BY <2>1, <2>3, <2>4
<1> HIDE DEF c, n
<1>3. \A x \in Nodes : st[x] \in Nat
  BY <1>0, Stages
<1>4. /\ kids[n] = Below(st, n, Gather) /\ done[n] = {x \in Below(st, n, Down) : ~Acking(x)}
  BY <1>0, <1>2 DEF ListInv
<1>5. c \in Below(st, n, Gather) /\ c \in Below(st, n, Down)
  BY <1>2 DEF Below
<1>6. kids \in [Nodes -> SUBSET Nodes] /\ done \in [Nodes -> SUBSET Nodes]
  BY DEF TypeOK
<1>7. kids' = kids
  <2>1. kids' = [kids EXCEPT ![n] = kids[n] \cup {c}]
    BY <1>1 DEF MarkDone
  <2>2. kids[n] \cup {c} = kids[n]
    BY <1>4, <1>5
  <2>3. QED
    BY <2>1, <2>2, <1>6
<1>8. done'[n] = done[n] \cup {c} /\ \A x \in Nodes \ {n} : done'[x] = done[x]
  BY <1>1, <1>2, <1>6 DEF MarkDone
<1>9. UNCHANGED <<parent, kids, bfKids, idle, requests, reset, tuples, votes, routes,
                  srTimer, askTimer, invTimer, upDue, downDue>>
  BY <1>1, <1>7 DEF serviceVars, flagVars, tableVars, timerVars, dueVars
<1>10. ~Acking(c)' /\ \A x \in Nodes \ {c} : Acking(x)' <=> Acking(x)
  BY <1>1, <1>2 DEF Acking, c
<1>11. ~Exchange(m) /\ m.type \notin HelloTypes
  BY <1>1, TalkParts DEF HelloTypes
<1>12. \A x : Talks(x)' <=> Talks(x)
  BY <1>1, <1>11 DEF Talks
<1>13. Advance(st, st)
  BY <1>0, Stages DEF Advance, TreeInv
<1>14. TreeInv(st)' /\ RootedInv' /\ RouteInv(st)' /\ SettledInv(st, Q)'
  BY <1>0, <1>9 DEF TreeInv, RootedInv, RouteInv, SettledInv
<1>15. FreshInv(st)'
  <2>1. \A x \in Nodes : st[x] = Out => x # n
    BY <1>2
  <2>2. \A x \in Nodes : st[x] = Out =>
           /\ kids'[x] = kids[x] /\ done'[x] = done[x] /\ bfKids'[x] = bfKids[x]
           /\ idle'[x] = idle[x] /\ requests'[x] = requests[x] /\ reset'[x] = reset[x]
           /\ tuples'[x] = tuples[x] /\ votes'[x] = votes[x]
    BY <2>1, <1>8, <1>9
  <2>3. QED
    BY <2>2, <1>0, <1>9, <1>13, FreshStep
<1>16. ListInv(st)'
  <2> SUFFICES ASSUME NEW x \in Nodes, st[x] # Out
               PROVE  /\ reset'[x] <=> st[x] # End
                      /\ kids'[x] = Below(st, x, Gather)'
                      /\ bfKids'[x] = Below(st, x, Served)'
                      /\ st[x] <= Asked => done'[x] = Below(st, x, Up)'
                      /\ st[x] = Down => done'[x] = {}
                      /\ st[x] >= Awaiting => done'[x] = {y \in Below(st, x, Down)' : ~Acking(y)'}
    BY DEF ListInv
  <2>1. /\ reset[x] <=> st[x] # End
        /\ kids[x] = Below(st, x, Gather)
        /\ bfKids[x] = Below(st, x, Served)
        /\ st[x] <= Asked => done[x] = Below(st, x, Up)
        /\ st[x] = Down => done[x] = {}
        /\ st[x] >= Awaiting => done[x] = {y \in Below(st, x, Down) : ~Acking(y)}
    BY <1>0 DEF ListInv
  <2>2. \A k : Below(st, x, k)' = Below(st, x, k)
    BY <1>9 DEF Below
  <2>3. CASE x = n
    <3>1. done'[n] = {y \in Below(st, n, Down) : ~Acking(y)'}
      <4>1. \A y \in Below(st, n, Down) : y \in Nodes
        BY DEF Below
      <4>2. QED
        BY <4>1, <1>4, <1>5, <1>8, <1>10
    <3>2. QED
      BY <2>1, <2>2, <2>3, <3>1, <1>2, <1>9
  <2>4. CASE x # n
    <3>1. \A y \in Below(st, x, Down) : y \in Nodes \ {c}
      BY <2>4, <1>2 DEF Below
    <3>2. {y \in Below(st, x, Down) : ~Acking(y)'} = {y \in Below(st, x, Down) : ~Acking(y)}
      BY <3>1, <1>10
    <3>3. QED
      BY <2>1, <2>2, <2>4, <3>2, <1>8, <1>9
  <2>5. QED
    BY <2>3, <2>4
<1>17. ServeInv(st)'
  <2>1. \A x \in Nodes \ {Root} : st[x] \in {Served, Asked} => Talks(x)'
    BY <1>0, <1>12 DEF ServeInv, ServedTalk
  <2>2. st[Root] \notin {Served, Asked}
    BY <1>0 DEF TreeInv
  <2>3. QED
    BY <2>1, <2>2, <1>0, <1>9, <1>12, <1>13, ServeStep
<1>18. TimerInv(st)'
  <2>1. \A o \in net : o.type = "SEND_BF" => o \in net'
    BY <1>1
  <2>2. \A x \in Nodes : askTimer'[x] => st[x] = Asking \/ \E o \in net' : o.type = "SEND_BF" /\ o.dst = x
    BY <2>1, <1>0, <1>9 DEF TimerInv
  <2>3. QED
    BY <2>2, <1>0, <1>9 DEF TimerInv
<1>19. HelloInv(st)'
  <2>1. net \in SUBSET Message
    BY DEF TypeOK
  <2>2. \A o : o.type \in HelloTypes => (o \in net' <=> o \in net)
    BY <1>1, <1>11
  <2>3. QED
    BY <2>1, <2>2, <1>0, <1>9, <1>13, HelloStep
<1>20. TalkInv(st)'
  <2>1. \A o \in net' : o \in net
    BY <1>1
  <2>2. QED
    BY <2>1, <1>0, <1>9 DEF TalkInv
<1>21. QED
  BY <1>14, <1>15, <1>16, <1>17, <1>18, <1>19, <1>20 DEF Control
=============================================================================
