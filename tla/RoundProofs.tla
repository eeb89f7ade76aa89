---------------------------- MODULE RoundProofs -----------------------------
(***************************************************************************)
(* The hello phase, the start of a round, what nodes and messages know,    *)
(* and the theorems: SAHARA Sync keeps the invariant of RoundInvariant,    *)
(* hence its safety properties, and implements SetReconciliation.          *)
(***************************************************************************)
EXTENDS RoundControl

USE DEF Out, Hello, Gather, Due, Asking, Served, Up, Asked, Down, Awaiting, End

-----------------------------------------------------------------------------
(***************************************************************************)
(* The hello phase: the neighbours of x hear its hello.                    *)
(***************************************************************************)
\* Those of its neighbours that are not in the tree yet.
Newcomers(st, x) == {n \in Neighbours(x) : st[n] = Out}

HelloMove(st, st2, x) ==
  /\ st[x] = Hello
  /\ st2 \in [Nodes -> Nat] /\ st2[x] = Gather
  /\ \A n \in Newcomers(st, x) : st2[n] = Hello
  /\ \A n \in Nodes : n # x /\ n \notin Newcomers(st, x) => st2[n] = st[n]

\* The node that finds in the hello that x is its child.
Named(x) == IF x = Root THEN {} ELSE {parent[x]}

Answer(n, x) == Msg("SR_HELLO", n, x, {}, {Vote(n)})

NewVars(n, x) ==
  /\ parent'[n] = x /\ kids'[n] = {} /\ done'[n] = {} /\ bfKids'[n] = {}
  /\ idle'[n] = TRUE /\ requests'[n] = <<>> /\ reset'[n] = TRUE /\ srTimer'[n] = TRUE
  /\ tuples'[n] = {{n, x}} /\ votes'[n] = {<<x, Vote(x)>>}

OldVars(n, x) ==
  /\ parent'[n] = parent[n] /\ bfKids'[n] = bfKids[n] /\ idle'[n] = idle[n]
  /\ requests'[n] = requests[n] /\ reset'[n] = reset[n] /\ routes'[n] = routes[n]
  /\ IF n \in Named(x)
     THEN kids'[n] = kids[n] \cup {x} /\ done'[n] = done[n] \ {x} /\ srTimer'[n] = FALSE
     ELSE kids'[n] = kids[n] /\ done'[n] = done[n] /\ srTimer'[n] = srTimer[n]
  /\ IF n \in Neighbours(x)
     THEN tuples'[n] = tuples[n] \cup {{n, x}} /\ votes'[n] = StoreVote(votes[n], x, Vote(x))
     ELSE tuples'[n] = tuples[n] /\ votes'[n] = votes[n]

HelloVars(st, x, m) ==
  /\ m \in net /\ m.type \in HelloTypes /\ m.src = x
  /\ \A n \in Newcomers(st, x) : NewVars(n, x)
  /\ \A n \in Nodes \ Newcomers(st, x) : OldVars(n, x)
  /\ net' = (net \ {m}) \cup {Answer(n, x) : n \in Newcomers(st, x)}
  /\ UNCHANGED <<askTimer, invTimer, upDue, downDue>>

\* What holds while a node has still to be heard.
HelloPhase(st, x) ==
  /\ \A n \in Nodes : st[n] \in Nat /\ st[n] < Asked
  /\ x # Root => /\ st[Root] = Gather /\ parent[x] \in Nodes /\ parent[x] # x
                 /\ st[parent[x]] = Gather /\ parent[x] \in Neighbours(x)
                 /\ \A n \in Newcomers(st, x) : n \notin Neighbours(Root)
  /\ \A c \in Nodes \ {Root} : st[c] # Out => parent[c] # x
  /\ \A n \in Newcomers(st, x) : n \in Nodes \ {Root} /\ n # x /\ st[n] = Out /\ {n, x} \in Edges
  /\ \A c \in Nodes \ {Root} : st[c] # Out => parent[c] \notin Newcomers(st, x)
  /\ parent[Root] = Root

\* While a node has its hello to send, no node is past the way up.
LEMMA HelloTime ==
  ASSUME NEW st, RootedInv, TreeInv(st), NEW x \in Nodes, st[x] = Hello
  PROVE  HelloPhase(st, x)
<1>0. \A n \in Nodes : st[n] \in Nat /\ st[n] <= End
  BY Stages
<1>1. x = Root => \A n \in Nodes \ {Root} : st[n] = Out
  BY DEF TreeInv
<1>2. ASSUME x # Root
      PROVE  /\ st[Root] = Gather /\ parent[x] \in Nodes /\ parent[x] # x
             /\ st[parent[x]] = Gather /\ parent[x] \in Neighbours(x)
  <2>1. st[x] # Out /\ st[x] <= Served /\ x \in Nodes \ {Root}
    BY <1>2
  <2>2. QED
    BY <2>1, ParentStage, RootStage DEF Neighbours
<1>3. \A n \in Nodes : st[n] < Asked
  <2>1. CASE x = Root
    BY <2>1, <1>1, <1>0
  <2>2. CASE x # Root
    <3>1. \A n \in Nodes \ {Root} : st[n] >= Asked => st[Root] >= Awaiting
      BY RootStage
    <3>2. QED
      BY <2>2, <3>1, <1>0, <1>2
  <2>3. QED
    BY <2>1, <2>2
<1>4. ASSUME NEW c \in Nodes \ {Root}, st[c] # Out PROVE parent[c] # x /\ st[parent[c]] # Out
  <2>1. /\ st[c] <= Served => st[parent[c]] = Gather
        /\ st[c] = Up => Gather <= st[parent[c]] /\ st[parent[c]] <= Down
        /\ st[parent[c]] # Out
    BY <1>4, ParentStage
  <2>2. QED
    BY <2>1, <1>0, <1>3, <1>4
<1>5. ASSUME NEW n \in Newcomers(st, x)
      PROVE  n \in Nodes \ {Root} /\ n # x /\ st[n] = Out /\ {n, x} \in Edges
  <2>1. n \in Nodes /\ st[n] = Out /\ {x, n} \in Edges
    BY DEF Newcomers, Neighbours
  <2>2. st[Root] # Out
    BY DEF TreeInv
  <2>3. {x, n} = {n, x}
    OBVIOUS
  <2>4. QED
    BY <2>1, <2>2, <2>3
<1>6. ASSUME x # Root, NEW n \in Newcomers(st, x) PROVE n \notin Neighbours(Root)
  <2>1. \A y \in Neighbours(Root) : st[y] # Out
    BY <1>2, <1>6, NodesAssumption DEF TreeInv
  <2>2. QED
    BY <2>1, <1>5
<1>7. \A c \in Nodes \ {Root} : st[c] # Out => parent[c] \notin Newcomers(st, x)
  BY <1>4, <1>5
<1>8. parent[Root] = Root
  BY DEF TreeInv
<1>9. QED
  BY <1>0, <1>2, <1>3, <1>4, <1>5, <1>6, <1>7, <1>8 DEF HelloPhase

\* The tree after the hello of x has been heard.
LEMMA HelloTree ==
  ASSUME NEW st, RootedInv, TreeInv(st), NEW x \in Nodes, NEW st2, HelloMove(st, st2, x),
         NEW m, HelloVars(st, x, m)
  PROVE  TreeInv(st2)'
<1> DEFINE A == Newcomers(st, x)
<1>0. /\ st[x] = Hello /\ st2 \in [Nodes -> Nat] /\ st2[x] = Gather
      /\ \A n \in A : st2[n] = Hello
      /\ \A n \in Nodes : n # x /\ n \notin A => st2[n] = st[n]
  BY DEF HelloMove
<1>1. /\ \A n \in Nodes : st[n] \in Nat /\ st[n] < Asked
      /\ x # Root => /\ st[Root] = Gather /\ parent[x] \in Nodes /\ parent[x] # x
                     /\ st[parent[x]] = Gather /\ parent[x] \in Neighbours(x)
                     /\ \A n \in A : n \notin Neighbours(Root)
      /\ \A c \in Nodes \ {Root} : st[c] # Out => parent[c] # x
      /\ \A n \in A : n \in Nodes \ {Root} /\ n # x /\ st[n] = Out /\ {n, x} \in Edges
      /\ \A c \in Nodes \ {Root} : st[c] # Out => parent[c] \notin A
      /\ parent[Root] = Root
  <2>1. HelloPhase(st, x)
    BY <1>0, HelloTime
  <2>2. QED
    BY <2>1 DEF HelloPhase
<1>2. (\A n \in A : parent'[n] = x) /\ (\A n \in Nodes \ A : parent'[n] = parent[n])
  BY DEF HelloVars, NewVars, OldVars
<1>3. \A n \in Neighbours(x) : n \in A \/ (n \in Nodes /\ st[n] # Out)
  BY DEF Newcomers, Neighbours
<1> HIDE DEF A
<1>4. \A n \in Nodes : st2[n] <= End
  BY <1>0, <1>1
<1>5. parent'[Root] = Root /\ st2[Root] \in {Hello, Gather, Due, Awaiting, End}
  <2>1. Root \notin A
    BY <1>1
  <2>2. st[Root] \in {Hello, Gather, Due, Awaiting, End}
    BY DEF TreeInv
  <2>3. QED
    BY <2>1, <2>2, <1>0, <1>1, <1>2, NodesAssumption
<1>6. ASSUME NEW n \in Nodes \ {Root}, st2[n] # Out
      PROVE  /\ parent'[n] \in Nodes /\ {n, parent'[n]} \in Edges /\ st2[parent'[n]] # Out
             /\ Follows(st2[n], st2[parent'[n]])
  <2>1. CASE n \in A
    BY <2>1, <1>0, <1>1, <1>2 DEF Follows
  <2>2. CASE n \notin A
    <3>1. st[n] # Out /\ parent'[n] = parent[n]
      BY <2>2, <1>0, <1>2, <1>6
    <3>2. parent[n] \in Nodes /\ {n, parent[n]} \in Edges /\ st[parent[n]] # Out /\ Follows(st[n], st[parent[n]])
      BY <3>1 DEF TreeInv
    <3>3. st2[parent[n]] = st[parent[n]]
      BY <3>1, <3>2, <1>0, <1>1
    <3>4. CASE n = x
      BY <3>1, <3>2, <3>3, <3>4, <1>0, <1>1 DEF Follows
    <3>5. CASE n # x
      BY <2>2, <3>1, <3>2, <3>3, <3>5, <1>0
    <3>6. QED
      BY <3>4, <3>5
  <2>3. QED
    BY <2>1, <2>2
<1>7. ASSUME NEW n \in Nodes, st2[n] >= Gather, NEW y \in Neighbours(n) PROVE st2[y] # Out
  <2>1. CASE n = x
    BY <2>1, <1>0, <1>1, <1>3, <1>7
  <2>2. CASE n # x
    <3>1. st[n] >= Gather
      BY <2>2, <1>0, <1>7
    <3>2. st[y] # Out /\ y \in Nodes
      BY <3>1 DEF TreeInv, Neighbours
    <3>3. QED
      BY <3>2, <1>0
  <2>3. QED
    BY <2>1, <2>2
<1>8. st2[Root] = Hello => \A n \in Nodes \ {Root} : st2[n] = Out
  <2>1. ASSUME st2[Root] = Hello PROVE FALSE
    <3>1. Root \notin A
      BY <1>1
    <3>2. CASE x = Root
      BY <2>1, <3>2, <1>0
    <3>3. CASE x # Root
      BY <2>1, <3>1, <3>3, <1>0, <1>1, NodesAssumption
    <3>4. QED
      BY <3>2, <3>3
  <2>2. QED
    BY <2>1
<1>9. ASSUME NEW y \in Neighbours(Root) PROVE parent'[y] = Root
  <2>1. CASE x = Root
    <3>1. y \in Nodes /\ y # Root
      BY EdgesAssumption DEF Neighbours
    <3>2. st[y] = Out
      BY <2>1, <3>1, <1>0 DEF TreeInv
    <3>3. y \in A
      BY <2>1, <3>1, <3>2, <1>3, <1>9
    <3>4. QED
      BY <2>1, <3>3, <1>2
  <2>2. CASE x # Root
    <3>1. parent[y] = Root
      BY <2>2, <1>1, <1>9 DEF TreeInv
    <3>2. y \in Nodes \ A
      BY <2>2, <1>1, <1>9 DEF Neighbours
    <3>3. QED
      BY <3>1, <3>2, <1>2
  <2>3. QED
    BY <2>1, <2>2
<1>10. QED
  BY <1>0, <1>4, <1>5, <1>6, <1>7, <1>8, <1>9 DEF TreeInv

\* It is rooted: a newcomer hangs below x, and nothing hangs below a newcomer.
LEMMA HelloRooted ==
  ASSUME NEW st, RootedInv, TreeInv(st), NEW x \in Nodes, st[x] = Hello,
         NEW m, HelloVars(st, x, m)
  PROVE  RootedInv'
<1> DEFINE A == Newcomers(st, x)
<1>1. /\ x # Root => parent[x] \in Nodes
      /\ \A n \in A : n \in Nodes \ {Root} /\ n # x /\ st[n] = Out
      /\ \A c \in Nodes \ {Root} : st[c] # Out => parent[c] \notin A
      /\ parent[Root] = Root
  <2>1. HelloPhase(st, x)
    BY HelloTime
  <2>2. QED
    BY <2>1 DEF HelloPhase
<1>2. (\A n \in A : parent'[n] = x) /\ (\A n \in Nodes \ A : parent'[n] = parent[n])
  BY DEF HelloVars, NewVars, OldVars
<1> HIDE DEF A
<1>3. ASSUME NEW n \in Nodes, parent'[n] \in Nodes PROVE parent'[parent'[n]] \in Nodes
  <2>1. parent[x] \in Nodes /\ x \notin A
    BY <1>1, NodesAssumption
  <2>2. CASE n \in A
    BY <2>1, <2>2, <1>2
  <2>3. CASE n \notin A
    <3>1. parent'[n] = parent[n] /\ parent[parent[n]] \in Nodes
      BY <2>3, <1>2, <1>3 DEF RootedInv
    <3>2. QED
      BY <3>1, <1>2, <1>3
  <2>4. QED
    BY <2>2, <2>3
<1>4. ASSUME NEW C \in SUBSET (Nodes \ {Root}), C # {}, \A n \in C : parent'[n] \in Nodes
      PROVE  \E n \in C : parent'[n] \notin C
  <2>1. CASE C \cap A = {}
    <3>1. \A n \in C : parent'[n] = parent[n]
      BY <2>1, <1>2
    <3>2. QED
      BY <3>1, <1>4 DEF RootedInv
  <2>2. CASE C \cap A # {}
    <3>1. PICK a \in C \cap A : TRUE
      BY <2>2
    <3>2. CASE x \notin C
      BY <3>1, <3>2, <1>2
    <3>3. CASE x \in C
      <4> DEFINE W == {n \in C : st[n] # Out}
      <4>1. W \in SUBSET (Nodes \ {Root}) /\ W # {} /\ \A n \in W : st[n] # Out
        BY <3>3, <1>4
      <4>2. PICK n \in W : parent[n] \notin W
        <5> HIDE DEF W
        <5>1. QED
          BY <4>1, Leaves
      <4>3. n \in C /\ st[n] # Out /\ n \in Nodes \ {Root} /\ n \notin A
        BY <4>2, <1>1
      <4>4. parent'[n] = parent[n] /\ st[parent[n]] # Out
        BY <4>3, <1>2 DEF TreeInv
      <4>5. QED
        BY <4>2, <4>3, <4>4
    <3>4. QED
      BY <3>2, <3>3
  <2>3. QED
    BY <2>1, <2>2
<1>5. QED
  BY <1>3, <1>4 DEF RootedInv

\* The children of the nodes after the hello of x.
LEMMA HelloBelow ==
  ASSUME NEW st, RootedInv, TreeInv(st), NEW x \in Nodes, NEW st2, HelloMove(st, st2, x),
         NEW m, HelloVars(st, x, m)
  PROVE  /\ \A n \in Newcomers(st, x) : \A k \in {Hello, Gather, Served, Up} : Below(st2, n, k)' = {}
         /\ \A k \in {Hello, Gather, Served, Up} : Below(st, x, k) = {}
         /\ Below(st2, x, Hello)' = Newcomers(st, x)
         /\ \A k \in {Gather, Served, Up} : Below(st2, x, k)' = {}
         /\ \A n \in Nodes \ Newcomers(st, x) : n # x =>
              /\ \A k \in {Hello, Served, Up} : Below(st2, n, k)' = Below(st, n, k)
              /\ n \in Named(x) => Below(st2, n, Gather)' = Below(st, n, Gather) \cup {x}
              /\ n \notin Named(x) => Below(st2, n, Gather)' = Below(st, n, Gather)
              /\ x \notin Below(st, n, Up)
<1> DEFINE A == Newcomers(st, x)
<1>0. /\ st[x] = Hello /\ st2 \in [Nodes -> Nat] /\ st2[x] = Gather
      /\ \A n \in A : st2[n] = Hello
      /\ \A n \in Nodes : n # x /\ n \notin A => st2[n] = st[n]
  BY DEF HelloMove
<1>1. /\ \A n \in Nodes : st[n] \in Nat /\ st[n] < Asked
      /\ x # Root => parent[x] \in Nodes /\ parent[x] # x
      /\ \A c \in Nodes \ {Root} : st[c] # Out => parent[c] # x
      /\ \A n \in A : n \in Nodes \ {Root} /\ n # x /\ st[n] = Out /\ {n, x} \in Edges
      /\ \A c \in Nodes \ {Root} : st[c] # Out => parent[c] \notin A
  <2>1. HelloPhase(st, x)
    BY <1>0, HelloTime
  <2>2. QED
    BY <2>1 DEF HelloPhase
<1>2. (\A n \in A : parent'[n] = x) /\ (\A n \in Nodes \ A : parent'[n] = parent[n])
  BY DEF HelloVars, NewVars, OldVars
<1>3. x = Root => Named(x) = {}
  BY DEF Named
<1>4. x # Root => Named(x) = {parent[x]}
  BY DEF Named
<1> HIDE DEF A
<1>5. \A c \in Nodes, k \in {Hello, Gather, Served, Up} : st[c] >= k => st[c] # Out
  BY <1>1
<1>6. \A n \in A : \A k \in {Hello, Gather, Served, Up} : Below(st2, n, k)' = {}
  <2>1. ASSUME NEW n \in A, NEW k \in {Hello, Gather, Served, Up},
               NEW c \in Nodes \ {Root}, parent'[c] = n, st2[c] >= k
        PROVE  FALSE
    <3>1. CASE c \in A
      BY <2>1, <3>1, <1>1, <1>2
    <3>2. CASE c \notin A
      BY <2>1, <3>2, <1>0, <1>1, <1>2, <1>5
    <3>3. QED
      BY <3>1, <3>2
  <2>2. QED
    BY <2>1 DEF Below
<1>7. \A k \in {Hello, Gather, Served, Up} : Below(st, x, k) = {}
  BY <1>1, <1>5 DEF Below
<1>8. Below(st2, x, Hello)' = A
  <2>1. ASSUME NEW c \in A PROVE c \in Nodes \ {Root} /\ parent'[c] = x /\ st2[c] >= Hello
    <3>1. c \in Nodes \ {Root}
      BY <2>1, <1>1
    <3>2. parent'[c] = x
      BY <2>1, <1>2
    <3>3. st2[c] = Hello
      BY <2>1, <1>0
    <3>4. QED
      BY <3>1, <3>2, <3>3
  <2>2. ASSUME NEW c \in Nodes \ {Root}, parent'[c] = x, st2[c] >= Hello PROVE c \in A
    <3>1. SUFFICES ASSUME c \notin A PROVE FALSE
      OBVIOUS
    <3>2. parent[c] = x /\ c # x
      BY <2>2, <3>1, <1>1, <1>2
    <3>3. st2[c] = st[c]
      BY <3>1, <3>2, <1>0
    <3>4. QED
      BY <2>2, <3>2, <3>3, <1>1, <1>5
  <2>3. QED
    BY <2>1, <2>2 DEF Below
<1>9. \A k \in {Gather, Served, Up} : Below(st2, x, k)' = {}
  <2>1. ASSUME NEW k \in {Gather, Served, Up}, NEW c \in Nodes \ {Root}, parent'[c] = x, st2[c] >= k
        PROVE  FALSE
    <3>1. st2[c] >= Hello /\ st2[c] # Hello /\ st2[c] \in Nat
      BY <2>1, <1>0
    <3>2. c \in A
      BY <2>1, <3>1, <1>8 DEF Below
    <3>3. QED
      BY <3>1, <3>2, <1>0
  <2>2. QED
    BY <2>1 DEF Below
<1>10. ASSUME NEW n \in Nodes \ A, n # x
       PROVE  /\ \A k \in {Hello, Served, Up} : Below(st2, n, k)' = Below(st, n, k)
              /\ n \in Named(x) => Below(st2, n, Gather)' = Below(st, n, Gather) \cup {x}
              /\ n \notin Named(x) => Below(st2, n, Gather)' = Below(st, n, Gather)
              /\ x \notin Below(st, n, Up)
  <2>1. ASSUME NEW c \in Nodes \ {Root}, c # x, NEW k \in {Hello, Gather, Served, Up}
        PROVE  (parent'[c] = n /\ st2[c] >= k) <=> (parent[c] = n /\ st[c] >= k)
    <3>1. CASE c \in A
      <4>1. st[c] = Out
        BY <3>1, <1>1
      <4>2. ~(st[c] >= k)
        BY <2>1, <4>1
      <4>3. parent'[c] = x
        BY <3>1, <1>2
      <4>4. QED
        BY <4>2, <4>3, <1>10
    <3>2. CASE c \notin A
      BY <2>1, <3>2, <1>0, <1>2
    <3>3. QED
      BY <3>1, <3>2
  <2>2. x \notin A
    BY <1>1
  <2>3. parent'[x] = parent[x]
    BY <2>2, <1>2
  <2>4. ASSUME NEW k \in {Hello, Served, Up} PROVE st2[x] >= k <=> st[x] >= k
    BY <2>4, <1>0
  <2>5. ASSUME NEW k \in {Hello, Served, Up} PROVE Below(st2, n, k)' = Below(st, n, k)
    BY <2>1, <2>3, <2>4 DEF Below
  <2>6. n \in Named(x) => x \in Nodes \ {Root} /\ parent[x] = n
    BY <1>3, <1>4
  <2>7. x \in Nodes \ {Root} /\ parent[x] = n => n \in Named(x)
    BY <1>4
  <2>8. st2[x] >= Gather /\ ~(st[x] >= Gather) /\ ~(st[x] >= Up)
    BY <1>0
  <2>9. n \in Named(x) => Below(st2, n, Gather)' = Below(st, n, Gather) \cup {x}
    BY <2>1, <2>3, <2>6, <2>8 DEF Below
  <2>10. n \notin Named(x) => Below(st2, n, Gather)' = Below(st, n, Gather)
    BY <2>1, <2>3, <2>7, <2>8 DEF Below
  <2>11. x \notin Below(st, n, Up)
    BY <2>8 DEF Below
  <2>12. QED
    BY <2>5, <2>9, <2>10, <2>11
<1>11. QED
  BY <1>6, <1>7, <1>8, <1>9, <1>10 DEF A

\* The nodes that have heard no hello after it.
LEMMA HelloFresh ==
  ASSUME NEW st, RootedInv, TreeInv(st), FreshInv(st), NEW x \in Nodes, NEW st2,
         HelloMove(st, st2, x), NEW m, HelloVars(st, x, m)
  PROVE  FreshInv(st2)'
<1>0. /\ st[x] = Hello /\ st2[x] = Gather
      /\ \A n \in Newcomers(st, x) : st2[n] = Hello
      /\ \A n \in Nodes : n # x /\ n \notin Newcomers(st, x) => st2[n] = st[n]
  BY DEF HelloMove
<1>1. x # Root => st[parent[x]] = Gather
  <2>1. HelloPhase(st, x)
    BY <1>0, HelloTime
  <2>2. QED
    BY <2>1 DEF HelloPhase
<1>2. SUFFICES ASSUME NEW n \in Nodes, st2[n] = Out, reset'[n]
               PROVE  /\ parent'[n] = NoNode /\ kids'[n] = {} /\ done'[n] = {} /\ bfKids'[n] = {}
                      /\ idle'[n] /\ requests'[n] = <<>> /\ tuples'[n] = {} /\ votes'[n] = {}
  BY DEF FreshInv
<1>3. n # x /\ n \notin Newcomers(st, x)
  BY <1>0, <1>2
<1>4. st[n] = Out
  BY <1>0, <1>2, <1>3
<1>5. n \notin Neighbours(x)
  BY <1>3, <1>4 DEF Newcomers
<1>6. n \notin Named(x)
  BY <1>1, <1>4 DEF Named
<1>7. OldVars(n, x)
  BY <1>3 DEF HelloVars
<1>8. /\ parent'[n] = parent[n] /\ bfKids'[n] = bfKids[n] /\ idle'[n] = idle[n]
      /\ requests'[n] = requests[n] /\ reset'[n] = reset[n]
      /\ kids'[n] = kids[n] /\ done'[n] = done[n] /\ tuples'[n] = tuples[n] /\ votes'[n] = votes[n]
  BY <1>5, <1>6, <1>7 DEF OldVars
<1>9. QED
  BY <1>2, <1>4, <1>8 DEF FreshInv

\* The child lists after it: the parent of x now knows x.
LEMMA HelloList ==
  ASSUME NEW st, RootedInv, TreeInv(st), ListInv(st), NEW x \in Nodes, NEW st2,
         HelloMove(st, st2, x), NEW m, HelloVars(st, x, m)
  PROVE  ListInv(st2)'
<1> DEFINE A == Newcomers(st, x)
<1>0. /\ st[x] = Hello /\ st2 \in [Nodes -> Nat] /\ st2[x] = Gather
      /\ \A n \in A : st2[n] = Hello
      /\ \A n \in Nodes : n # x /\ n \notin A => st2[n] = st[n]
  BY DEF HelloMove
<1>1. /\ \A n \in Nodes : st[n] \in Nat /\ st[n] < Asked
      /\ x # Root => parent[x] # x
      /\ \A n \in A : n # x
  <2>1. HelloPhase(st, x)
    BY <1>0, HelloTime
  <2>2. QED
    BY <2>1 DEF HelloPhase
<1>2. /\ \A n \in A : \A k \in {Gather, Served, Up} : Below(st2, n, k)' = {}
      /\ \A k \in {Gather, Served, Up} : Below(st, x, k) = {}
      /\ \A k \in {Gather, Served, Up} : Below(st2, x, k)' = {}
      /\ \A n \in Nodes \ A : n # x =>
              /\ \A k \in {Served, Up} : Below(st2, n, k)' = Below(st, n, k)
              /\ n \in Named(x) => Below(st2, n, Gather)' = Below(st, n, Gather) \cup {x}
              /\ n \notin Named(x) => Below(st2, n, Gather)' = Below(st, n, Gather)
              /\ x \notin Below(st, n, Up)
  BY HelloBelow
<1>3. \A n \in Nodes : st2[n] < Asked
  BY <1>0, <1>1
<1>4. x \notin Named(x)
  BY <1>1 DEF Named
<1>5. (\A n \in A : NewVars(n, x)) /\ (\A n \in Nodes \ A : OldVars(n, x))
  BY DEF HelloVars
<1> HIDE DEF A
<1>6. SUFFICES ASSUME NEW n \in Nodes, st2[n] # Out
               PROVE  /\ reset'[n] /\ kids'[n] = Below(st2, n, Gather)'
                      /\ bfKids'[n] = Below(st2, n, Served)' /\ done'[n] = Below(st2, n, Up)'
  BY <1>0, <1>3 DEF ListInv
<1>7. CASE n \in A
  BY <1>7, <1>2, <1>5 DEF NewVars
<1>8. ASSUME n \notin A, st[n] # Out
      PROVE  /\ reset[n] /\ kids[n] = Below(st, n, Gather)
             /\ bfKids[n] = Below(st, n, Served) /\ done[n] = Below(st, n, Up)
  BY <1>8, <1>1 DEF ListInv
<1>9. CASE n = x
  <2>1. n \notin A /\ st[n] # Out
    BY <1>0, <1>1, <1>9
  <2>2. /\ kids'[n] = kids[n] /\ done'[n] = done[n] /\ bfKids'[n] = bfKids[n] /\ reset'[n] = reset[n]
    BY <2>1, <1>4, <1>5, <1>9 DEF OldVars
  <2>3. QED
    BY <2>1, <2>2, <1>2, <1>8, <1>9
<1>10. CASE n # x /\ n \notin A
  <2>1. st[n] # Out
    BY <1>0, <1>6, <1>10
  <2>2. bfKids'[n] = bfKids[n] /\ reset'[n] = reset[n]
    BY <1>5, <1>10 DEF OldVars
  <2>3. CASE n \in Named(x)
    <3>1. kids'[n] = kids[n] \cup {x} /\ done'[n] = done[n] \ {x}
      BY <2>3, <1>5, <1>10 DEF OldVars
    <3>2. QED
      BY <2>1, <2>2, <2>3, <3>1, <1>2, <1>8, <1>10
  <2>4. CASE n \notin Named(x)
    <3>1. kids'[n] = kids[n] /\ done'[n] = done[n]
      BY <2>4, <1>5, <1>10 DEF OldVars
    <3>2. QED
      BY <2>1, <2>2, <2>4, <3>1, <1>2, <1>8, <1>10
  <2>5. QED
    BY <2>3, <2>4
<1>11. QED
  BY <1>7, <1>9, <1>10

\* Only hellos come and go.
LEMMA HelloTalks ==
  ASSUME NEW st, NEW x \in Nodes, NEW m, HelloVars(st, x, m)
  PROVE  /\ \A o : o.type \notin HelloTypes => (o \in net' <=> o \in net)
         /\ \A c \in Nodes : Talks(c)' <=> Talks(c)
<1>1. m.type \in HelloTypes /\ net' = (net \ {m}) \cup {Answer(n, x) : n \in Newcomers(st, x)}
  BY DEF HelloVars
<1>2. \A n : Answer(n, x).type \in HelloTypes
  BY MsgParts DEF Answer, HelloTypes
<1>3. ASSUME NEW o, o.type \notin HelloTypes PROVE o \in net' <=> o \in net
  BY <1>1, <1>2, <1>3
<1>4. \A o : Exchange(o) => o.type \notin HelloTypes
  BY TalkParts
<1>5. ASSUME NEW c \in Nodes PROVE Talks(c)' <=> Talks(c)
  BY <1>3, <1>4 DEF Talks
<1>6. QED
  BY <1>3, <1>5

\* The service after it.
LEMMA HelloServe ==
  ASSUME NEW st, RootedInv, TreeInv(st), ServeInv(st), NEW x \in Nodes, NEW st2,
         HelloMove(st, st2, x), NEW m, HelloVars(st, x, m), TreeInv(st2)'
  PROVE  ServeInv(st2)'
<1> DEFINE A == Newcomers(st, x)
<1>0. /\ st[x] = Hello /\ st2 \in [Nodes -> Nat] /\ st2[x] = Gather
      /\ \A n \in A : st2[n] = Hello
      /\ \A n \in Nodes : n # x /\ n \notin A => st2[n] = st[n]
  BY DEF HelloMove
<1>1. /\ \A n \in Nodes : st[n] \in Nat /\ st[n] < Asked
      /\ \A n \in A : n \in Nodes \ {Root} /\ n # x /\ st[n] = Out
  <2>1. HelloPhase(st, x)
    BY <1>0, HelloTime
  <2>2. QED
    BY <2>1 DEF HelloPhase
<1>2. /\ \A n \in A : Below(st2, n, Hello)' = {}
      /\ Below(st, x, Hello) = {}
      /\ Below(st2, x, Hello)' = A
      /\ \A n \in Nodes \ A : n # x => Below(st2, n, Hello)' = Below(st, n, Hello)
  BY HelloBelow
<1>3. (\A n \in A : NewVars(n, x)) /\ (\A n \in Nodes \ A : OldVars(n, x))
  BY DEF HelloVars
<1>4. \A c \in Nodes : Talks(c)' <=> Talks(c)
  BY HelloTalks
<1> HIDE DEF A
<1>5. \A n \in A : idle'[n] = TRUE /\ requests'[n] = <<>>
  BY <1>3 DEF NewVars
<1>6. \A n \in Nodes \ A : idle'[n] = idle[n] /\ requests'[n] = requests[n]
  BY <1>3 DEF OldVars
<1>7. \A c \in Nodes : /\ st2[c] = Served <=> st[c] = Served
                       /\ st2[c] = Asking <=> st[c] = Asking
                       /\ st2[c] \in {Served, Asked} <=> st[c] \in {Served, Asked}
                       /\ st[c] < Up => st2[c] < Up
  BY <1>0, <1>1
<1>8. \A n \in Nodes \ A : Waits(n)' = Waits(n)
  BY <1>6 DEF Waits
<1>9. \A n \in A : Waits(n)' = {}
  BY <1>5 DEF Waits
<1>10. ASSUME NEW n \in Nodes PROVE ServeAt(st2, n)'
  <2>1. CASE n \in A
    <3>1. Below(st2, n, Hello)' = {} /\ Waits(n)' = {} /\ idle'[n] = TRUE
      BY <2>1, <1>2, <1>5, <1>9
    <3>2. QED
      BY <3>1 DEF ServeAt
  <2>2. ServeAt(st, n)
    BY ServeSplit
  <2>3. CASE n = x
    <3>1. n \notin A
      BY <2>3, <1>1
    <3>2. Below(st, n, Hello) = {} /\ Below(st2, n, Hello)' = A
      BY <2>3, <1>2
    <3>3. idle[n] = TRUE \/ idle[n]
      BY <2>2, <2>3, <3>2, <1>0 DEF ServeAt
    <3>4. Waits(n) = {}
      BY <2>2, <3>2 DEF ServeAt
    <3>5. \A c \in A : st2[c] = Hello
      BY <1>0
    <3>6. idle'[n] = idle[n] /\ Waits(n)' = {}
      BY <3>1, <3>4, <1>6, <1>8
    <3>7. QED
      BY <3>2, <3>3, <3>5, <3>6 DEF ServeAt
  <2>4. CASE n # x /\ n \notin A
    <3>1. /\ Below(st2, n, Hello)' = Below(st, n, Hello) /\ Waits(n)' = Waits(n)
          /\ idle'[n] = idle[n] /\ st2[n] = st[n]
      BY <2>4, <1>0, <1>2, <1>6, <1>8
    <3>2. \A c \in Below(st, n, Hello) : c \in Nodes
      BY DEF Below
    <3>3. QED
      BY <2>2, <3>1, <3>2, <1>4, <1>7 DEF ServeAt
  <2>5. QED
    BY <2>1, <2>3, <2>4
<1>11. QED
  BY <1>10, ServeJoin

\* The routes after it.
LEMMA HelloRoute ==
  ASSUME NEW st, TypeOK, RootedInv, TreeInv(st), RouteInv(st), NEW x \in Nodes, NEW st2,
         HelloMove(st, st2, x), NEW m, HelloVars(st, x, m)
  PROVE  RouteInv(st2)'
<1> DEFINE A == Newcomers(st, x)
<1>0. /\ st[x] = Hello /\ st2[x] = Gather
      /\ \A n \in A : st2[n] = Hello
      /\ \A n \in Nodes : n # x /\ n \notin A => st2[n] = st[n]
  BY DEF HelloMove
<1>1. x # Root => parent[x] \in Nodes /\ parent[x] \in Neighbours(x)
  <2>1. HelloPhase(st, x)
    BY <1>0, HelloTime
  <2>2. QED
    BY <2>1 DEF HelloPhase
<1>2. (\A n \in A : NewVars(n, x)) /\ (\A n \in Nodes \ A : OldVars(n, x))
  BY DEF HelloVars
<1> HIDE DEF A
<1>3. SUFFICES ASSUME NEW n \in Nodes, st2[n] # Out
               PROVE  /\ bfKids'[n] \subseteq routes'[n]
                      /\ n # Root /\ st2[n] >= Asking => parent'[n] \in routes'[n]
                      /\ \A c \in kids'[n] : {n, c} \in tuples'[n]
                      /\ n # Root => {n, parent'[n]} \in tuples'[n]
  BY DEF RouteInv
<1>4. CASE n \in A
  BY <1>0, <1>2, <1>4 DEF NewVars
<1>5. CASE n \notin A
  <2>1. st[n] # Out /\ (st2[n] >= Asking => st[n] >= Asking)
    BY <1>0, <1>3, <1>5
  <2>2. /\ bfKids[n] \subseteq routes[n]
        /\ n # Root /\ st[n] >= Asking => parent[n] \in routes[n]
        /\ \A c \in kids[n] : {n, c} \in tuples[n]
        /\ n # Root => {n, parent[n]} \in tuples[n]
    BY <2>1 DEF RouteInv
  <2>3. OldVars(n, x)
    BY <1>2, <1>5
  <2>4. /\ parent'[n] = parent[n] /\ bfKids'[n] = bfKids[n] /\ routes'[n] = routes[n]
        /\ tuples[n] \subseteq tuples'[n]
    BY <2>3 DEF OldVars
  <2>5. ASSUME NEW c \in kids'[n] PROVE {n, c} \in tuples'[n]
    <3>1. CASE c \in kids[n]
      BY <3>1, <2>2, <2>4
    <3>2. CASE c \notin kids[n]
      <4>1. n \in Named(x) /\ c = x
        BY <2>3, <2>5, <3>2 DEF OldVars
      <4>2. n \in Neighbours(x)
        BY <4>1, <1>1 DEF Named
      <4>3. QED
        BY <2>3, <4>1, <4>2 DEF OldVars
    <3>3. QED
      BY <3>1, <3>2
  <2>6. QED
    BY <2>1, <2>2, <2>4, <2>5
<1>6. QED
  BY <1>4, <1>5

\* The timers after it: the slots of the newcomers start, that of the parent stops.
LEMMA HelloTimer ==
  ASSUME NEW st, TypeOK, RootedInv, TreeInv(st), TimerInv(st), NEW x \in Nodes, NEW st2,
         HelloMove(st, st2, x), NEW m, HelloVars(st, x, m)
  PROVE  TimerInv(st2)'
<1> DEFINE A == Newcomers(st, x)
<1>0. /\ st[x] = Hello /\ st2 \in [Nodes -> Nat] /\ st2[x] = Gather
      /\ \A n \in A : st2[n] = Hello
      /\ \A n \in Nodes : n # x /\ n \notin A => st2[n] = st[n]
  BY DEF HelloMove
<1>1. /\ \A n \in Nodes : st[n] \in Nat
      /\ x # Root => parent[x] # x /\ st[parent[x]] = Gather
      /\ \A n \in A : n # Root /\ n # x /\ st[n] = Out
  <2>1. HelloPhase(st, x)
    BY <1>0, HelloTime
  <2>2. QED
    BY <2>1 DEF HelloPhase
<1>2. (\A n \in A : NewVars(n, x)) /\ (\A n \in Nodes \ A : OldVars(n, x))
      /\ UNCHANGED <<askTimer, invTimer, upDue, downDue>>
  BY DEF HelloVars
<1>3. \A o : o.type \notin HelloTypes => (o \in net' <=> o \in net)
  BY HelloTalks
<1> HIDE DEF A
<1>4. SUFFICES ASSUME NEW n \in Nodes
               PROVE  /\ srTimer'[n] <=> n # Root /\ st2[n] \in {Hello, Gather} /\ kids'[n] = {}
                      /\ askTimer'[n] => \/ st2[n] = Asking
                                         \/ \E o \in net' : o.type = "SEND_BF" /\ o.dst = n
                      /\ invTimer'[n] <=> st2[n] = Awaiting
                      /\ upDue'[n] = IF st2[n] = Due THEN 1 ELSE 0
                      /\ downDue'[n] = IF st2[n] = Down THEN 1 ELSE 0
  BY DEF TimerInv
<1>5. /\ srTimer[n] <=> n # Root /\ st[n] \in {Hello, Gather} /\ kids[n] = {}
      /\ askTimer[n] => \/ st[n] = Asking
                        \/ \E o \in net : o.type = "SEND_BF" /\ o.dst = n
      /\ invTimer[n] <=> st[n] = Awaiting
      /\ upDue[n] = IF st[n] = Due THEN 1 ELSE 0
      /\ downDue[n] = IF st[n] = Down THEN 1 ELSE 0
  BY DEF TimerInv
<1>6. /\ st2[n] = Asking <=> st[n] = Asking
      /\ st2[n] = Awaiting <=> st[n] = Awaiting
      /\ st2[n] = Due <=> st[n] = Due
      /\ st2[n] = Down <=> st[n] = Down
      /\ n \notin A => (st2[n] \in {Hello, Gather} <=> st[n] \in {Hello, Gather})
      /\ n \in A => st2[n] = Hello /\ n # Root
  BY <1>0, <1>1
<1>7. srTimer'[n] <=> n # Root /\ st2[n] \in {Hello, Gather} /\ kids'[n] = {}
  <2>1. CASE n \in A
    <3>1. srTimer'[n] = TRUE /\ kids'[n] = {}
      BY <2>1, <1>2 DEF NewVars
    <3>2. QED
      BY <2>1, <3>1, <1>6
  <2>2. CASE n \notin A /\ n \in Named(x)
    <3>1. srTimer'[n] = FALSE /\ kids'[n] = kids[n] \cup {x}
      BY <2>2, <1>2 DEF OldVars
    <3>2. QED
      BY <3>1
  <2>3. CASE n \notin A /\ n \notin Named(x)
    <3>1. srTimer'[n] = srTimer[n] /\ kids'[n] = kids[n]
      BY <2>3, <1>2 DEF OldVars
    <3>2. QED
      BY <2>3, <3>1, <1>5, <1>6
  <2>4. QED
    BY <2>1, <2>2, <2>3
<1>8. (\E o \in net : o.type = "SEND_BF" /\ o.dst = n) => \E o \in net' : o.type = "SEND_BF" /\ o.dst = n
  <2>1. "SEND_BF" \notin HelloTypes
    BY DEF HelloTypes
  <2>2. QED
    BY <2>1, <1>3
<1>9. QED
  BY <1>2, <1>5, <1>6, <1>7, <1>8

\* The hellos after it: the newcomers send theirs.
LEMMA HelloHello ==
  ASSUME NEW st, TypeOK, RootedInv, TreeInv(st), HelloInv(st), NEW x \in Nodes, NEW st2,
         HelloMove(st, st2, x), NEW m, HelloVars(st, x, m)
  PROVE  HelloInv(st2)'
<1> DEFINE A == Newcomers(st, x)
<1>0. /\ st[x] = Hello /\ st2 \in [Nodes -> Nat] /\ st2[x] = Gather
      /\ \A n \in A : st2[n] = Hello
      /\ \A n \in Nodes : n # x /\ n \notin A => st2[n] = st[n]
  BY DEF HelloMove
<1>1. /\ \A n \in A : n \in Nodes \ {Root} /\ n # x /\ st[n] = Out
  <2>1. HelloPhase(st, x)
    BY <1>0, HelloTime
  <2>2. QED
    BY <2>1 DEF HelloPhase
<1>2. /\ (\A n \in A : parent'[n] = x) /\ (\A n \in Nodes \ A : parent'[n] = parent[n])
      /\ m \in net /\ m.type \in HelloTypes /\ m.src = x
      /\ net' = (net \ {m}) \cup {Answer(n, x) : n \in A}
  BY DEF HelloVars, NewVars, OldVars
<1>3. \A n : /\ Answer(n, x).type = "SR_HELLO" /\ Answer(n, x).src = n
             /\ Answer(n, x) = Msg("SR_HELLO", n, x, {}, {Vote(n)})
  BY MsgParts DEF Answer
<1>4. net \in SUBSET Message
  BY DEF TypeOK
<1> HIDE DEF A
<1>5. \A o \in net : o.src \in Nodes
  BY <1>4 DEF Message
<1>6. ASSUME NEW o \in net, o.type = "ROOT_SR_HELLO" PROVE o = m
  <2>1. st[Root] = Hello /\ o = Msg("ROOT_SR_HELLO", Root, NoNode, {}, {Root})
    BY <1>6 DEF HelloInv
  <2>2. \A n \in Nodes \ {Root} : st[n] = Out
    BY <2>1 DEF TreeInv
  <2>3. x = Root
    BY <2>2, <1>0
  <2>4. m.type # "SR_HELLO"
    BY <2>3, <1>2 DEF HelloInv
  <2>5. m.type = "ROOT_SR_HELLO"
    BY <2>4, <1>2 DEF HelloTypes
  <2>6. m = Msg("ROOT_SR_HELLO", Root, NoNode, {}, {Root})
    BY <2>5, <1>2 DEF HelloInv
  <2>7. QED
    BY <2>1, <2>6
<1>7. ASSUME NEW o \in net', o.type = "ROOT_SR_HELLO" PROVE FALSE
  BY <1>2, <1>3, <1>6, <1>7
<1>8. ASSUME NEW o \in net', o.type = "SR_HELLO"
      PROVE  /\ o.src # Root /\ st2[o.src] = Hello
             /\ o = Msg("SR_HELLO", o.src, parent'[o.src], {}, {Vote(o.src)})
  <2>1. CASE o \in net
    <3>1. /\ o.src # Root /\ st[o.src] = Hello /\ o.src \in Nodes
          /\ o = Msg("SR_HELLO", o.src, parent[o.src], {}, {Vote(o.src)})
      BY <2>1, <1>5, <1>8 DEF HelloInv
    <3>2. o.src \notin A
      BY <3>1, <1>1
    <3>3. o.src # x
      <4>1. SUFFICES ASSUME o.src = x PROVE FALSE
        OBVIOUS
      <4>2. m.type # "ROOT_SR_HELLO"
        <5>1. SUFFICES ASSUME m.type = "ROOT_SR_HELLO" PROVE FALSE
          OBVIOUS
        <5>2. m = Msg("ROOT_SR_HELLO", Root, NoNode, {}, {Root})
          BY <5>1, <1>2 DEF HelloInv
        <5>3. m.src = Root
          BY <5>2, MsgParts
        <5>4. QED
          BY <3>1, <4>1, <5>3, <1>2
      <4>3. m = Msg("SR_HELLO", m.src, parent[m.src], {}, {Vote(m.src)})
        BY <4>2, <1>2 DEF HelloInv, HelloTypes
      <4>4. o = m
        BY <3>1, <4>1, <4>3, <1>2
      <4>5. \E n \in A : o = Answer(n, x)
        BY <4>4, <1>2
      <4>6. QED
        BY <3>2, <4>5, <1>3
    <3>4. QED
      BY <3>1, <3>2, <3>3, <1>0, <1>2
  <2>2. CASE o \notin net
    <3>1. PICK n \in A : o = Answer(n, x)
      BY <2>2, <1>2
    <3>2. o.src = n /\ o = Msg("SR_HELLO", n, x, {}, {Vote(n)})
      BY <3>1, <1>3
    <3>3. QED
      BY <3>1, <3>2, <1>0, <1>1, <1>2
  <2>3. QED
    BY <2>1, <2>2
<1>9. ASSUME NEW n \in Nodes, st2[n] = Hello PROVE \E o \in net' : o.type \in HelloTypes /\ o.src = n
  <2>1. CASE n \in A
    <3>1. Answer(n, x) \in net'
      BY <2>1, <1>2
    <3>2. QED
      BY <3>1, <1>3 DEF HelloTypes
  <2>2. CASE n \notin A
    <3>1. n # x /\ st[n] = Hello
      BY <2>2, <1>0, <1>9
    <3>2. PICK o \in net : o.type \in HelloTypes /\ o.src = n
      BY <3>1 DEF HelloInv
    <3>3. o \in net'
      BY <3>1, <3>2, <1>2
    <3>4. QED
      BY <3>2, <3>3
  <2>3. QED
    BY <2>1, <2>2
<1>10. QED
  BY <1>7, <1>8, <1>9 DEF HelloInv

\* The exchanges after it.
LEMMA HelloTalk ==
  ASSUME NEW st, TypeOK, RootedInv, TreeInv(st), TalkInv(st), NEW x \in Nodes, NEW st2,
         HelloMove(st, st2, x), NEW m, HelloVars(st, x, m)
  PROVE  TalkInv(st2)'
<1> DEFINE A == Newcomers(st, x)
<1>0. /\ st[x] = Hello
      /\ \A n \in Nodes : n # x /\ n \notin A => st2[n] = st[n]
  BY DEF HelloMove
<1>1. /\ \A n \in Nodes : st[n] \in Nat /\ st[n] < Asked
      /\ \A n \in A : st[n] = Out
  <2>1. HelloPhase(st, x)
    BY <1>0, HelloTime
  <2>2. QED
    BY <2>1 DEF HelloPhase
<1>2. \A n \in Nodes \ A : parent'[n] = parent[n]
  BY DEF HelloVars, OldVars
<1>3. \A o : o.type \notin HelloTypes => (o \in net' <=> o \in net)
  BY HelloTalks
<1>4. \A o \in net : o.src \in Nodes
  BY DEF TypeOK, Message
<1> HIDE DEF A
<1>5. \A o : Exchange(o) => o.type \notin HelloTypes /\ StageOf(o.type) \in {Asking, Served, Asked}
  BY TalkParts
<1>6. "SEND_MISSING_P2C_ACK" \notin HelloTypes
  BY DEF HelloTypes
<1>7. ASSUME NEW o \in net', Exchange(o)
      PROVE  /\ Client(o) \in Nodes \ {Root} /\ Server(o) = parent'[Client(o)]
             /\ st2[Client(o)] = StageOf(o.type)
  <2>1. o \in net
    BY <1>3, <1>5, <1>7
  <2>2. /\ Client(o) \in Nodes \ {Root} /\ Server(o) = parent[Client(o)]
        /\ st[Client(o)] = StageOf(o.type)
    BY <2>1, <1>7 DEF TalkInv
  <2>3. st[Client(o)] \in {Asking, Served, Asked}
    BY <2>2, <1>5, <1>7
  <2>4. Client(o) # x /\ Client(o) \notin A
    BY <2>3, <1>0, <1>1
  <2>5. QED
    BY <2>2, <2>4, <1>0, <1>2
<1>8. ASSUME NEW o \in net', NEW q \in net', Exchange(o), Exchange(q), Client(o) = Client(q)
      PROVE  o = q
  <2>1. o \in net /\ q \in net
    BY <1>3, <1>5, <1>8
  <2>2. QED
    BY <2>1, <1>8 DEF TalkInv
<1>9. ASSUME NEW o \in net', o.type = "SEND_MISSING_P2C_ACK" PROVE FALSE
  <2>1. o \in net
    BY <1>3, <1>6, <1>9
  <2>2. st[o.src] >= Down /\ o.src \in Nodes
    BY <2>1, <1>4, <1>9 DEF TalkInv
  <2>3. QED
    BY <2>2, <1>1
<1>10. QED
  BY <1>7, <1>8, <1>9 DEF TalkInv

\* The settled nodes after it: x hangs below none of them.
LEMMA HelloSettled ==
  ASSUME NEW st, NEW Q, RootedInv, TreeInv(st), SettledInv(st, Q), NEW x \in Nodes, NEW st2,
         HelloMove(st, st2, x), NEW m, HelloVars(st, x, m)
  PROVE  SettledInv(st2, Q)'
<1> DEFINE A == Newcomers(st, x)
<1>0. /\ st[x] = Hello /\ st2 \in [Nodes -> Nat] /\ st2[x] = Gather
      /\ \A n \in A : st2[n] = Hello
      /\ \A n \in Nodes : n # x /\ n \notin A => st2[n] = st[n]
  BY DEF HelloMove
<1>1. /\ \A n \in Nodes : st[n] \in Nat
      /\ \A n \in A : st[n] = Out /\ n # x
  <2>1. HelloPhase(st, x)
    BY <1>0, HelloTime
  <2>2. QED
    BY <2>1 DEF HelloPhase
<1>2. (\A n \in A : parent'[n] = x) /\ (\A n \in Nodes \ A : parent'[n] = parent[n])
  BY DEF HelloVars, NewVars, OldVars
<1> HIDE DEF A
<1>3. /\ Q \in SUBSET Nodes
      /\ \A y \in Q : st[y] >= Gather /\ parent[y] \in Q
      /\ \A c \in Nodes \ {Root} : st[c] = Hello => parent[c] \notin Q
      /\ \A n \in Nodes : st[n] >= Due => n \in Q
  BY DEF SettledInv
<1>4. x \notin Q
  BY <1>0, <1>3
<1>5. ASSUME NEW y \in Q PROVE st2[y] >= Gather /\ parent'[y] \in Q
  <2>1. y \in Nodes /\ y # x /\ y \notin A
    BY <1>0, <1>1, <1>3
  <2>2. QED
    BY <2>1, <1>0, <1>2, <1>3
<1>6. ASSUME NEW c \in Nodes \ {Root}, st2[c] = Hello PROVE parent'[c] \notin Q
  <2>1. CASE c \in A
    BY <2>1, <1>2, <1>4
  <2>2. CASE c \notin A
    BY <2>2, <1>0, <1>2, <1>3, <1>6
  <2>3. QED
    BY <2>1, <2>2
<1>7. ASSUME NEW n \in Nodes, st2[n] >= Due PROVE n \in Q
  <2>1. n # x /\ n \notin A
    BY <1>0, <1>7
  <2>2. QED
    BY <2>1, <1>0, <1>3, <1>7
<1>8. QED
  BY <1>3, <1>5, <1>6, <1>7 DEF SettledInv

\* The hello of a node takes it, and those of its neighbours that hear of the round
\* for the first time, one stage on.
LEMMA HelloTaken ==
  ASSUME NEW st, NEW Q, TypeOK, TypeOK', Control(st, Q), NEW x \in Nodes, NEW st2,
         HelloMove(st, st2, x), NEW m, HelloVars(st, x, m)
  PROVE  Control(st2, Q)'
<1>1. /\ TreeInv(st) /\ RootedInv /\ FreshInv(st) /\ ListInv(st) /\ ServeInv(st)
      /\ RouteInv(st) /\ TimerInv(st) /\ HelloInv(st) /\ TalkInv(st) /\ SettledInv(st, Q)
  BY DEF Control
<1>2. st[x] = Hello
  BY DEF HelloMove
<1>3. TreeInv(st2)'
  BY <1>1, HelloTree
<1>4. RootedInv'
  BY <1>1, <1>2, HelloRooted
<1>5. FreshInv(st2)' /\ ListInv(st2)' /\ HelloInv(st2)'
  BY <1>1, HelloFresh, HelloList, HelloHello
<1>6. ServeInv(st2)'
  BY <1>1, <1>3, HelloServe
<1>7. RouteInv(st2)' /\ TimerInv(st2)' /\ TalkInv(st2)' /\ SettledInv(st2, Q)'
  BY <1>1, HelloRoute, HelloTimer, HelloTalk, HelloSettled
<1>8. QED
  BY <1>3, <1>4, <1>5, <1>6, <1>7 DEF Control

-----------------------------------------------------------------------------
(***************************************************************************)
(* The two handlers of a hello.                                            *)
(***************************************************************************)
LEMMA HelloMoves ==
  ASSUME NEW st, RootedInv, TreeInv(st), NEW x \in Nodes, st[x] = Hello
  PROVE  \E st2 : HelloMove(st, st2, x)
<1> DEFINE st2 == [n \in Nodes |-> IF n = x THEN Gather
                                   ELSE IF n \in Newcomers(st, x) THEN Hello ELSE st[n]]
<1>1. HelloPhase(st, x)
  BY HelloTime
<1>2. (\A n \in Nodes : st[n] \in Nat) /\ \A n \in Newcomers(st, x) : n \in Nodes /\ n # x
  BY <1>1 DEF HelloPhase
<1>3. st2 \in [Nodes -> Nat]
  BY <1>2
<1>4. st2[x] = Gather /\ \A n \in Newcomers(st, x) : st2[n] = Hello
  BY <1>2
<1>5. \A n \in Nodes : n # x /\ n \notin Newcomers(st, x) => st2[n] = st[n]
  BY <1>2
<1>6. HelloMove(st, st2, x)
  <2> HIDE DEF st2
  <2>1. QED
    BY <1>3, <1>4, <1>5 DEF HelloMove
<1>7. QED
  BY <1>6

\* Without losses every neighbour hears.
LEMMA HearAll ==
  ASSUME TypeOK, Nominal, NEW m, NEW R, Hear(m, R)
  PROVE  R = Neighbours(m.src) /\ losses' = losses
<1> DEFINE D == Neighbours(m.src) \ R
<1>1. IsFiniteSet(D)
  BY NodesAssumption, FS_Subset DEF Neighbours
<1>2. Cardinality(D) \in Nat
  BY <1>1, FS_CardinalityType
<1>3. R \subseteq Neighbours(m.src) /\ losses' = losses + Cardinality(D) /\ losses' <= MaxLoss
  BY DEF Hear
<1>4. MaxLoss = 0 /\ losses \in Nat
  BY DEF Nominal, TypeOK
<1>5. Cardinality(D) = 0
  <2> HIDE DEF D
  <2>1. QED
    BY <1>2, <1>3, <1>4
<1>6. D = {}
  BY <1>1, <1>5, FS_EmptySet
<1>7. QED
  BY <1>3, <1>4, <1>5, <1>6

\* What a node that hears of the round for the first time knows then.
Blank(S, n) ==
  /\ Cleared(S, kids, {})[n] = {} /\ Cleared(S, done, {})[n] = {}
  /\ Cleared(S, bfKids, {})[n] = {} /\ Cleared(S, idle, TRUE)[n] = TRUE
  /\ Cleared(S, requests, <<>>)[n] = <<>> /\ Cleared(S, reset, TRUE)[n] = TRUE
  /\ Cleared(S, tuples, {})[n] = {} /\ Cleared(S, votes, {})[n] = {}
  /\ Cleared(S, parent, NoNode)[n] = NoNode

\* A node that has not heard a hello of this round has nothing from the last one
\* once the first hello has reset it.
LEMMA BlankAfterReset ==
  ASSUME NEW st, TypeOK, FreshInv(st), NEW R, NEW n \in Nodes, n \in R, st[n] = Out
  PROVE  Blank(Resetting(R), n)
<1>1. CASE reset[n] = TRUE
  <2>1. n \notin Resetting(R)
    BY <1>1 DEF Resetting
  <2>2. /\ parent[n] = NoNode /\ kids[n] = {} /\ done[n] = {} /\ bfKids[n] = {}
        /\ idle[n] /\ requests[n] = <<>> /\ tuples[n] = {} /\ votes[n] = {}
    BY <1>1 DEF FreshInv
  <2>3. idle \in [Nodes -> BOOLEAN]
    BY DEF TypeOK
  <2>4. idle[n] = TRUE
    BY <2>2, <2>3
  <2>5. QED
    BY <1>1, <2>1, <2>2, <2>4 DEF Blank, Cleared
<1>2. CASE reset[n] = FALSE
  <2>1. n \in Resetting(R)
    BY <1>2 DEF Resetting
  <2>2. QED
    BY <2>1 DEF Blank, Cleared
<1>3. reset \in [Nodes -> BOOLEAN]
  BY DEF TypeOK
<1>4. QED
  BY <1>1, <1>2, <1>3

\* ProcessRootHello is a hello of the root that all its neighbours hear.
LEMMA RootHelloHeard ==
  ASSUME NEW st, NEW Q, TypeOK, Nominal, Control(st, Q), NEW m \in net, NEW R,
         ProcessRootHello(m, R)
  PROVE  /\ st[Root] = Hello /\ HelloVars(st, Root, m)
         /\ UNCHANGED <<chain, round, losses, early>>
<1>1. /\ TreeInv(st) /\ RootedInv /\ FreshInv(st) /\ HelloInv(st)
  BY DEF Control
<1>2. m.type = "ROOT_SR_HELLO" /\ Hear(m, R) /\ UNCHANGED <<askTimer, invTimer, upDue, downDue, chain, round, early>>
  BY DEF ProcessRootHello, dueVars
<1>3. st[Root] = Hello /\ m = Msg("ROOT_SR_HELLO", Root, NoNode, {}, {Root})
  BY <1>1, <1>2 DEF HelloInv
<1>4. m.src = Root
  BY <1>3, MsgParts
<1>5. R = Neighbours(Root) /\ losses' = losses
  BY <1>2, <1>4, HearAll
<1>6. \A n \in Nodes \ {Root} : st[n] = Out
  BY <1>1, <1>3 DEF TreeInv
<1>7. Root \notin Neighbours(Root)
  BY EdgesAssumption DEF Neighbours
<1>8. Newcomers(st, Root) = R
  BY <1>5, <1>6, <1>7 DEF Newcomers, Neighbours
<1> DEFINE S == Resetting(R)
<1>9. \A n \in R : n \in Nodes /\ st[n] = Out /\ n # Root
  BY <1>5, <1>6, <1>7 DEF Neighbours
<1>10. \A n \in R : Blank(S, n)
  BY <1>1, <1>9, BlankAfterReset
<1>11. \A n \in Nodes \ R : n \notin S
  BY DEF Resetting
<1>12. Vote(Root) = Root /\ \A n \in R : Vote(n) = NoNode
  BY <1>5, <1>7 DEF Vote
<1>13. /\ ResetVariablesUpdate(S)
       /\ parent' = [n \in Nodes |-> IF n \in R THEN Root ELSE parent[n]]
       /\ kids' = Cleared(S, kids, {})
       /\ done' = Cleared(S, done, {})
       /\ StoreHello(S, R, Root, Root)
       /\ srTimer' = [n \in Nodes |-> n \in R \/ srTimer[n]]
       /\ net' = (net \ {m}) \cup {Msg("SR_HELLO", n, Root, {}, {NoNode}) : n \in R}
  BY <1>4 DEF ProcessRootHello
<1> HIDE DEF S
<1>14. ASSUME NEW n \in R PROVE NewVars(n, Root)
  <2>1. /\ Cleared(S, kids, {})[n] = {} /\ Cleared(S, done, {})[n] = {}
        /\ Cleared(S, bfKids, {})[n] = {} /\ Cleared(S, idle, TRUE)[n] = TRUE
        /\ Cleared(S, requests, <<>>)[n] = <<>> /\ Cleared(S, reset, TRUE)[n] = TRUE
        /\ Cleared(S, tuples, {})[n] = {} /\ Cleared(S, votes, {})[n] = {}
    BY <1>10 DEF Blank
  <2>2. n \in Nodes
    BY <1>9
  <2>3. parent'[n] = Root /\ srTimer'[n] = TRUE
    BY <2>2, <1>13
  <2>4. kids'[n] = {} /\ done'[n] = {}
    BY <2>1, <1>13
  <2>5. bfKids'[n] = {} /\ idle'[n] = TRUE /\ requests'[n] = <<>> /\ reset'[n] = TRUE
    BY <2>1, <1>13 DEF ResetVariablesUpdate
  <2>6. tuples'[n] = Cleared(S, tuples, {})[n] \cup {{n, Root}}
        /\ votes'[n] = StoreVote(Cleared(S, votes, {})[n], Root, Root)
    BY <2>2, <1>13 DEF StoreHello
  <2>7. votes'[n] = {<<Root, Root>>}
    BY <2>1, <2>6 DEF StoreVote
  <2>8. QED
    BY <2>1, <2>3, <2>4, <2>5, <2>6, <2>7, <1>12 DEF NewVars
<1>15. ASSUME NEW n \in Nodes \ R PROVE OldVars(n, Root)
  <2>1. n \notin S /\ n \notin Neighbours(Root) /\ n \notin Named(Root)
    BY <1>5, <1>11 DEF Named
  <2>2. /\ parent'[n] = parent[n] /\ kids'[n] = kids[n] /\ done'[n] = done[n]
        /\ srTimer'[n] = srTimer[n]
    <3>1. srTimer \in [Nodes -> BOOLEAN]
      BY DEF TypeOK
    <3>2. QED
      BY <3>1, <2>1, <1>13 DEF Cleared
  <2>3. /\ bfKids'[n] = bfKids[n] /\ idle'[n] = idle[n]
        /\ requests'[n] = requests[n] /\ reset'[n] = reset[n] /\ routes'[n] = routes[n]
    BY <2>1, <1>13 DEF ResetVariablesUpdate, Cleared
  <2>4. tuples'[n] = tuples[n] /\ votes'[n] = votes[n]
    BY <1>13 DEF StoreHello
  <2>5. QED
    BY <2>1, <2>2, <2>3, <2>4 DEF OldVars
<1>16. net' = (net \ {m}) \cup {Answer(n, Root) : n \in R}
  <2>1. \A n \in R : Answer(n, Root) = Msg("SR_HELLO", n, Root, {}, {NoNode})
    BY <1>12 DEF Answer
  <2>2. QED
    BY <2>1, <1>13
<1>17. m.type \in HelloTypes
  BY <1>2 DEF HelloTypes
<1>18. QED
  BY <1>2, <1>3, <1>4, <1>5, <1>8, <1>14, <1>15, <1>16, <1>17 DEF HelloVars

\* ProcessSRHello is a hello of its sender that all its neighbours hear.
LEMMA SRHelloHeard ==
  ASSUME NEW st, NEW Q, TypeOK, Nominal, Control(st, Q), NEW m \in net, NEW R,
         ProcessSRHello(m, R), NEW x, x = m.src
  PROVE  /\ x \in Nodes /\ x # Root /\ st[x] = Hello /\ HelloVars(st, x, m)
         /\ UNCHANGED <<chain, round, losses, early>>
<1>1. /\ TreeInv(st) /\ RootedInv /\ FreshInv(st) /\ ListInv(st) /\ HelloInv(st)
  BY DEF Control
<1>2. m.type = "SR_HELLO" /\ Hear(m, R) /\ UNCHANGED <<askTimer, invTimer, upDue, downDue, chain, round, early>>
  BY DEF ProcessSRHello, dueVars
<1>3. x # Root /\ st[x] = Hello /\ m = Msg("SR_HELLO", x, parent[x], {}, {Vote(x)})
  BY <1>1, <1>2 DEF HelloInv
<1>4. m.dst = parent[x] /\ m.votes = {Vote(x)}
  BY <1>3, MsgParts
<1>5. R = Neighbours(x) /\ losses' = losses
  BY <1>2, HearAll
<1>6. x \in Nodes
  BY DEF TypeOK, Message
<1>7. HelloPhase(st, x)
  BY <1>1, <1>3, <1>6, HelloTime
<1> DEFINE S == Resetting(R)
           A == Adopters(m, R)
<1>8. /\ \A n \in Nodes : st[n] \in Nat /\ st[n] < Asked
      /\ parent[x] \in Nodes /\ st[parent[x]] = Gather /\ parent[x] \in Neighbours(x)
      /\ \A n \in Newcomers(st, x) : n \notin Neighbours(Root) /\ n \in Nodes \ {Root} /\ st[n] = Out
      /\ parent[Root] = Root
  BY <1>3, <1>7 DEF HelloPhase
<1>9. Named(x) = {parent[x]} /\ NamedParent(m, R) = Named(x)
  BY <1>3, <1>4, <1>5, <1>8 DEF Named, NamedParent
<1>10. \A n \in Nodes : st[n] # Out => n \notin S
  <2>1. ASSUME NEW n \in Nodes, st[n] # Out PROVE reset[n]
    BY <2>1, <1>1, <1>8 DEF ListInv
  <2>2. QED
    BY <2>1 DEF Resetting
<1>11. \A n \in Newcomers(st, x) : n \in R
  BY <1>5 DEF Newcomers
<1>12. \A n \in Newcomers(st, x) : Blank(S, n)
  BY <1>1, <1>8, <1>11, BlankAfterReset
<1>13. A = Newcomers(st, x)
  <2>1. ASSUME NEW n \in Newcomers(st, x) PROVE n \in A
    <3>1. Cleared(S, parent, NoNode)[n] = NoNode
      BY <1>12 DEF Blank
    <3>2. n # parent[x]
      BY <1>8
    <3>3. QED
      BY <3>1, <3>2, <1>4, <1>11 DEF Adopters
  <2>2. ASSUME NEW n \in A, n \notin Newcomers(st, x) PROVE FALSE
    <3>1. n \in R /\ Cleared(S, parent, NoNode)[n] = NoNode
      BY <2>2 DEF Adopters
    <3>2. n \in Nodes /\ st[n] # Out
      BY <2>2, <3>1, <1>5 DEF Newcomers, Neighbours
    <3>3. n \notin S
      BY <3>2, <1>10
    <3>4. parent[n] = NoNode
      BY <3>1, <3>2, <3>3 DEF Cleared
    <3>5. parent[n] \in Nodes
      BY <3>2, <1>1, <1>8, NodesAssumption DEF TreeInv
    <3>6. QED
      BY <3>4, <3>5, NodesAssumption
  <2>3. QED
    BY <2>1, <2>2
<1>14. \A n \in Nodes \ Newcomers(st, x) : n \notin S
  <2>1. ASSUME NEW n \in Nodes \ Newcomers(st, x), n \in S PROVE FALSE
    <3>1. n \in R
      BY <2>1 DEF Resetting
    <3>2. st[n] # Out
      BY <2>1, <3>1, <1>5 DEF Newcomers
    <3>3. QED
      BY <2>1, <3>2, <1>10
  <2>2. QED
    BY <2>1
<1>15. \A n \in Newcomers(st, x) : Vote(n) = n
  BY <1>8 DEF Vote
<1>16. /\ ResetVariablesUpdate(S)
       /\ parent' = [n \in Nodes |-> IF n \in A THEN x ELSE Cleared(S, parent, NoNode)[n]]
       /\ kids' = [n \in Nodes |-> Cleared(S, kids, {})[n] \cup
                                (IF n \in Named(x) THEN {x} ELSE {})]
       /\ done' = [n \in Nodes |-> Cleared(S, done, {})[n] \
                                (IF n \in Named(x) THEN {x} ELSE {})]
       /\ StoreHello(S, R, x, Vote(x))
       /\ srTimer' = [n \in Nodes |-> (srTimer[n] \/ n \in A) /\ n \notin Named(x)]
       /\ net' = (net \ {m}) \cup {Msg("SR_HELLO", n, x, {}, {n}) : n \in A}
  BY <1>4, <1>9 DEF ProcessSRHello
<1> HIDE DEF S, A
<1>17. ASSUME NEW n \in Newcomers(st, x) PROVE NewVars(n, x)
  <2>1. /\ Cleared(S, kids, {})[n] = {} /\ Cleared(S, done, {})[n] = {}
        /\ Cleared(S, bfKids, {})[n] = {} /\ Cleared(S, idle, TRUE)[n] = TRUE
        /\ Cleared(S, requests, <<>>)[n] = <<>> /\ Cleared(S, reset, TRUE)[n] = TRUE
        /\ Cleared(S, tuples, {})[n] = {} /\ Cleared(S, votes, {})[n] = {}
    BY <1>12 DEF Blank
  <2>2. n \in Nodes /\ n \in A /\ n \in R /\ n \notin Named(x)
    BY <1>8, <1>9, <1>11, <1>13
  <2>3. parent'[n] = x /\ srTimer'[n] = TRUE
    BY <2>2, <1>16
  <2>4. kids'[n] = {} /\ done'[n] = {}
    BY <2>1, <2>2, <1>16
  <2>5. bfKids'[n] = {} /\ idle'[n] = TRUE /\ requests'[n] = <<>> /\ reset'[n] = TRUE
    BY <2>1, <1>16 DEF ResetVariablesUpdate
  <2>6. tuples'[n] = Cleared(S, tuples, {})[n] \cup {{n, x}}
        /\ votes'[n] = StoreVote(Cleared(S, votes, {})[n], x, Vote(x))
    BY <2>2, <1>16 DEF StoreHello
  <2>7. votes'[n] = {<<x, Vote(x)>>}
    BY <2>1, <2>6 DEF StoreVote
  <2>8. QED
    BY <2>1, <2>3, <2>4, <2>5, <2>6, <2>7 DEF NewVars
<1>18. ASSUME NEW n \in Nodes \ Newcomers(st, x) PROVE OldVars(n, x)
  <2>1. n \notin S /\ n \notin A
    BY <1>13, <1>14
  <2>2. /\ parent'[n] = parent[n]
        /\ bfKids'[n] = bfKids[n] /\ idle'[n] = idle[n]
        /\ requests'[n] = requests[n] /\ reset'[n] = reset[n] /\ routes'[n] = routes[n]
    BY <2>1, <1>16 DEF ResetVariablesUpdate, Cleared
  <2>3. CASE n \in Named(x)
    <3>1. kids'[n] = kids[n] \cup {x} /\ done'[n] = done[n] \ {x} /\ srTimer'[n] = FALSE
      BY <2>1, <2>3, <1>16 DEF Cleared
    <3>2. n \in Neighbours(x) /\ n \in R
      BY <2>3, <1>5, <1>8, <1>9
    <3>3. tuples'[n] = tuples[n] \cup {{n, x}} /\ votes'[n] = StoreVote(votes[n], x, Vote(x))
      BY <2>1, <3>2, <1>16 DEF StoreHello, Cleared
    <3>4. QED
      BY <2>2, <2>3, <3>1, <3>2, <3>3 DEF OldVars
  <2>4. CASE n \notin Named(x)
    <3>1. kids'[n] = kids[n] /\ done'[n] = done[n]
      BY <2>1, <2>4, <1>16 DEF Cleared
    <3>2. srTimer'[n] = srTimer[n]
      <4>1. srTimer \in [Nodes -> BOOLEAN]
        BY DEF TypeOK
      <4>2. QED
        BY <4>1, <2>1, <2>4, <1>16
    <3>3. IF n \in Neighbours(x)
          THEN tuples'[n] = tuples[n] \cup {{n, x}} /\ votes'[n] = StoreVote(votes[n], x, Vote(x))
          ELSE tuples'[n] = tuples[n] /\ votes'[n] = votes[n]
      BY <2>1, <1>5, <1>16 DEF StoreHello, Cleared
    <3>4. QED
      BY <2>2, <2>4, <3>1, <3>2, <3>3 DEF OldVars
  <2>5. QED
    BY <2>3, <2>4
<1>19. net' = (net \ {m}) \cup {Answer(n, x) : n \in Newcomers(st, x)}
  <2>1. \A n \in A : Answer(n, x) = Msg("SR_HELLO", n, x, {}, {n})
    BY <1>13, <1>15 DEF Answer
  <2>2. QED
    BY <2>1, <1>13, <1>16
<1>20. m.type \in HelloTypes
  BY <1>2 DEF HelloTypes
<1>21. QED
  BY <1>2, <1>3, <1>5, <1>6, <1>17, <1>18, <1>19, <1>20 DEF HelloVars

-----------------------------------------------------------------------------
(***************************************************************************)
(* The start of a round.                                                   *)
(***************************************************************************)
Begin == [n \in Nodes |-> IF n = Root THEN Hello ELSE Out]

RootHello == Msg("ROOT_SR_HELLO", Root, NoNode, {}, {Root})

StartVars ==
  /\ parent'[Root] = Root /\ kids'[Root] = {} /\ done'[Root] = {} /\ bfKids'[Root] = {}
  /\ idle'[Root] = TRUE /\ reset'[Root] = TRUE /\ net' = {RootHello}
  /\ tuples'[Root] = {} /\ votes'[Root] = {}
  /\ \A n \in Nodes : /\ requests'[n] = <<>> /\ upDue'[n] = 0 /\ downDue'[n] = 0
                      /\ ~srTimer'[n] /\ ~askTimer'[n] /\ ~invTimer'[n]
  /\ \A n \in Nodes \ {Root} : reset'[n] =>
       /\ parent'[n] = NoNode /\ kids'[n] = {} /\ done'[n] = {} /\ bfKids'[n] = {}
       /\ idle'[n] /\ requests'[n] = <<>> /\ tuples'[n] = {} /\ votes'[n] = {}

\* The stages at the start of a round.
LEMMA BeginStages ==
  /\ Begin \in [Nodes -> Nat] /\ Begin[Root] = Hello
  /\ \A n \in Nodes \ {Root} : Begin[n] = Out
  /\ \A n \in Nodes : Begin[n] <= Hello
BY NodesAssumption DEF Begin

\* Control at the start of a round.
LEMMA StartControl ==
  ASSUME StartVars, RootedInv'
  PROVE  Control(Begin, {})'
<1>1. /\ Begin \in [Nodes -> Nat] /\ Begin[Root] = Hello
      /\ \A n \in Nodes \ {Root} : Begin[n] = Out
      /\ \A n \in Nodes : Begin[n] <= Hello
  BY BeginStages
<1>2. ASSUME NEW n, NEW k \in {Hello, Gather, Served, Up} PROVE Below(Begin, n, k)' = {}
  BY <1>1 DEF Below
<1>3. TreeInv(Begin)'
  BY <1>1 DEF StartVars, TreeInv
<1>4. FreshInv(Begin)'
  BY <1>1 DEF StartVars, FreshInv
<1>5. ListInv(Begin)'
  <2>1. ASSUME NEW n \in Nodes, Begin[n] # Out PROVE n = Root
    BY <2>1, <1>1
  <2>2. /\ reset'[Root] /\ kids'[Root] = Below(Begin, Root, Gather)'
        /\ bfKids'[Root] = Below(Begin, Root, Served)' /\ done'[Root] = Below(Begin, Root, Up)'
    BY <1>2 DEF StartVars
  <2>3. Begin[Root] = Hello
    BY <1>1
  <2>4. QED
    BY <2>1, <2>2, <2>3 DEF ListInv
<1>6. ServeInv(Begin)'
  <2>1. ASSUME NEW n \in Nodes PROVE ServeAt(Begin, n)'
    <3>1. Waits(n)' = {}
      BY DEF StartVars, Waits
    <3>2. Below(Begin, n, Hello)' = {}
      BY <1>2
    <3>3. Begin[n] \in {Hello, Gather} => idle'[n] = TRUE
      BY <1>1 DEF StartVars
    <3>4. Begin[n] # Gather
      BY <1>1
    <3>5. QED
      BY <3>1, <3>2, <3>3, <3>4 DEF ServeAt
  <2>2. QED
    BY <2>1, <1>3, ServeJoin
<1>7. RouteInv(Begin)'
  BY <1>1 DEF StartVars, RouteInv
<1>8. TimerInv(Begin)'
  <2>1. ASSUME NEW n \in Nodes
        PROVE  /\ Begin[n] \notin {Due, Asking, Down, Awaiting}
               /\ n # Root => Begin[n] \notin {Hello, Gather}
    BY <1>1
  <2>2. QED
    BY <2>1 DEF StartVars, TimerInv
<1>9. /\ RootHello.type = "ROOT_SR_HELLO" /\ RootHello.src = Root
  BY MsgParts DEF RootHello
<1>10. HelloInv(Begin)'
  <2>1. net' = {RootHello} /\ RootHello = Msg("ROOT_SR_HELLO", Root, NoNode, {}, {Root})
    BY DEF StartVars, RootHello
  <2>2. \A n \in Nodes : Begin[n] = Hello => n = Root
    BY <1>1
  <2>3. RootHello.type \in HelloTypes
    BY <1>9 DEF HelloTypes
  <2>4. Begin[Root] = Hello
    BY <1>1
  <2> HIDE DEF Begin
  <2>5. QED
    BY <2>1, <2>2, <2>3, <2>4, <1>9 DEF HelloInv
<1>11. TalkInv(Begin)'
  <2>1. ~Exchange(RootHello)
    BY <1>9 DEF Exchange
  <2>2. QED
    BY <2>1, <1>9 DEF StartVars, TalkInv
<1>12. SettledInv(Begin, {})'
  BY <1>1 DEF SettledInv
<1>13. QED
  BY <1>3, <1>4, <1>5, <1>6, <1>7, <1>8, <1>10, <1>11, <1>12 DEF Control

\* The first round.
LEMMA FirstRound ==
  ASSUME Init, StartTopologyBuilding
  PROVE  StartVars /\ RootedInv'
<1>1. Resetting({Root}) = {}
  BY NodesAssumption DEF Init, Resetting
<1>2. /\ parent' = [parent EXCEPT ![Root] = Root] /\ kids' = kids /\ done' = done /\ bfKids' = bfKids
      /\ idle' = idle /\ reset' = reset /\ requests' = requests
      /\ tuples' = tuples /\ votes' = votes
      /\ net' = {RootHello} /\ UNCHANGED <<srTimer, askTimer, invTimer, upDue, downDue>>
  BY <1>1 DEF Init, StartTopologyBuilding, ResetVariablesUpdate, Cleared, timerVars, dueVars, RootHello
<1>3. parent'[Root] = Root /\ \A n \in Nodes \ {Root} : parent'[n] = NoNode
  BY <1>2, NodesAssumption DEF Init
<1>4. StartVars
  BY <1>2, <1>3, NodesAssumption DEF Init, StartVars
<1>5. RootedInv'
  BY <1>3, NodesAssumption DEF RootedInv
<1>6. QED
  BY <1>4, <1>5

\* A timer that expires finds the exchange over.
LEMMA NotEarly ==
  ASSUME TypeOK, Nominal, NEW over, Expires(over)
  PROVE  over /\ (\A m \in net : m.type \notin HelloTypes) /\ early' = early
<1>1. ~(early < MaxEarly)
  BY DEF TypeOK, Nominal
<1>2. QED
  BY <1>1 DEF Expires

\* The other rounds.
LEMMA NextRound ==
  ASSUME NEW st, NEW Q, TypeOK, Nominal, ServiceInv, Control(st, Q), StartTopologyBuilding
  PROVE  /\ \A n \in Nodes : st[n] = End
         /\ StartVars /\ RootedInv'
<1>1. /\ RootedInv /\ TreeInv(st) /\ ListInv(st) /\ ServeInv(st) /\ TimerInv(st) /\ HelloInv(st)
  BY DEF Control
<1>2. Quiet /\ Expires(RoundOver)
  BY DEF StartTopologyBuilding
<1>3. RoundOver
  BY <1>2, NotEarly
<1>4. \A n \in Nodes : st[n] = End
  BY <1>1, <1>2, <1>3, Ended
<1>5. \A n \in Nodes : ~reset[n]
  BY <1>1, <1>4 DEF ListInv
<1>6. Resetting({Root}) = {Root}
  BY <1>5, NodesAssumption DEF Resetting
<1>7. parent \in [Nodes -> Authors] /\ requests \in [Nodes -> Seq(Nodes)] /\ askTimer \in [Nodes -> BOOLEAN]
  BY DEF TypeOK
<1>8. net = {}
  BY <1>2 DEF Quiet
<1>9. parent[Root] = Root
  BY <1>1 DEF TreeInv
<1>10. parent' = parent
  BY <1>7, <1>9 DEF StartTopologyBuilding
<1>11. /\ kids'[Root] = {} /\ done'[Root] = {} /\ bfKids'[Root] = {} /\ idle'[Root] = TRUE
       /\ reset'[Root] = TRUE /\ tuples'[Root] = {} /\ votes'[Root] = {} /\ requests'[Root] = <<>>
  BY <1>6, NodesAssumption DEF StartTopologyBuilding, ResetVariablesUpdate, Cleared
<1>12. ASSUME NEW n \in Nodes \ {Root} PROVE requests'[n] = requests[n] /\ reset'[n] = reset[n]
  BY <1>6 DEF StartTopologyBuilding, ResetVariablesUpdate, Cleared
<1>13. ASSUME NEW n \in Nodes PROVE requests[n] = <<>>
  <2>1. \A c \in Waits(n) : c \in Nodes /\ st[c] = Asking
    BY <1>1 DEF ServeInv, QueuedAsk, Below
  <2>2. Waits(n) = {}
    BY <2>1, <1>4
  <2>3. DOMAIN requests[n] = {}
    BY <2>2 DEF Waits
  <2>4. requests[n] \in Seq(Nodes)
    BY <1>7
  <2>5. requests[n] \in [1..Len(requests[n]) -> Nodes] /\ Len(requests[n]) \in Nat
    BY <2>4
  <2>6. Len(requests[n]) = 0
    BY <2>3, <2>5
  <2>7. QED
    BY <2>4, <2>6
<1>14. net' = {RootHello} /\ UNCHANGED <<srTimer, askTimer, invTimer, upDue, downDue>>
  BY <1>8 DEF StartTopologyBuilding, RootHello, timerVars, dueVars
<1>15. ASSUME NEW n \in Nodes
       PROVE  ~srTimer[n] /\ ~askTimer[n] /\ ~invTimer[n] /\ upDue[n] = 0 /\ downDue[n] = 0
  <2>1. st[n] = End
    BY <1>4
  <2>2. QED
    BY <2>1, <1>1, <1>8 DEF TimerInv
<1>16. StartVars
  <2>1. ASSUME NEW n \in Nodes
        PROVE  /\ requests'[n] = <<>> /\ upDue'[n] = 0 /\ downDue'[n] = 0
               /\ ~srTimer'[n] /\ ~askTimer'[n] /\ ~invTimer'[n]
    BY <1>11, <1>12, <1>13, <1>14, <1>15
  <2>2. \A n \in Nodes \ {Root} : ~reset'[n]
    BY <1>5, <1>12
  <2>3. QED
    BY <2>1, <2>2, <1>9, <1>10, <1>11, <1>14 DEF StartVars
<1>17. RootedInv'
  BY <1>1, <1>10, RootedStep
<1>18. QED
  BY <1>4, <1>16, <1>17

\* A child that asks is being answered: the retry of AskToParentBF finds nothing to do.
LEMMA NoAskTimeout ==
  ASSUME NEW st, NEW Q, TypeOK, Nominal, ServiceInv, Control(st, Q), NEW n \in Nodes,
         AskTimeout(n)
  PROVE  FALSE
<1>1. TreeInv(st) /\ ServeInv(st) /\ TimerInv(st) /\ TalkInv(st)
  BY DEF Control
<1>2. askTimer[n] /\ Expires(AskOver(n))
  BY DEF AskTimeout
<1>3. AskOver(n)
  BY <1>2, NotEarly
<1>4. CASE st[n] = Asking
  <2>0. st[Root] # Asking
    BY <1>1 DEF TreeInv
  <2>1. n \in Nodes \ {Root}
    BY <2>0, <1>4
  <2>2. parent[n] \in Nodes /\ st[parent[n]] = Gather
    <3>1. st[n] # Out /\ st[n] <= Served
      BY <1>4
    <3>2. QED
      BY <2>1, <3>1, <1>1, ParentStage
  <2>3. n \in Waits(parent[n]) \/ Talks(n)
    BY <2>1, <1>1, <1>4 DEF ServeInv, AskingQueued
  <2>4. CASE Talks(n)
    <3>1. PICK m \in net : Exchange(m) /\ Client(m) = n
      BY <2>4 DEF Talks
    <3>2. StageOf(m.type) = Asking
      BY <3>1, <1>1, <1>4 DEF TalkInv
    <3>3. m.type = "ASK_BF"
      BY <3>2 DEF StageOf
    <3>4. m.src = n
      BY <3>1, <3>3, TalkParts
    <3>5. QED
      BY <3>3, <3>4, <1>3 DEF AskOver, Quiet
  <2>5. CASE n \in Waits(parent[n])
    <3>1. Queued(n)
      BY <2>2, <2>5 DEF Waits, Queued
    <3>2. net = {}
      BY <3>1, <1>3 DEF AskOver, Quiet
    <3>3. requests[parent[n]] # <<>>
      BY <2>5 DEF Waits
    <3>4. ~idle[parent[n]]
      BY <2>2, <3>3 DEF ServiceInv
    <3>5. PICK c \in Below(st, parent[n], Hello) : st[c] = Served
      BY <2>2, <3>4, <1>1 DEF ServeInv, IdleServes
    <3>6. Talks(c)
      BY <3>5, <1>1 DEF ServeInv, ServedTalk, Below
    <3>7. QED
      BY <3>2, <3>6 DEF Talks
  <2>6. QED
    BY <2>3, <2>4, <2>5
<1>5. CASE \E m \in net : m.type = "SEND_BF" /\ m.dst = n
  BY <1>3, <1>5 DEF AskOver, Quiet
<1>6. QED
  BY <1>1, <1>2, <1>4, <1>5 DEF TimerInv

\* Every message that is not a hello is addressed to a node, and none is lost.
LEMMA Addressed ==
  ASSUME NEW st, NEW Q, TypeOK, Nominal, Control(st, Q), NEW m \in net
  PROVE  /\ Unicast(m) => m.dst \in Nodes
         /\ ~SendFails(m) /\ ~LoseUnicast(m)
<1>1. TreeInv(st) /\ TalkInv(st)
  BY DEF Control
<1>2. m \in Message
  BY DEF TypeOK
<1>3. m.type \in Types
  BY <1>2, MessageParts
<1>4. ASSUME Exchange(m) PROVE m.dst \in Nodes
  <2>1. Client(m) \in Nodes /\ Server(m) \in Nodes
    BY <1>1, <1>4, Talking
  <2>2. m.dst = Client(m) \/ m.dst = Server(m)
    BY DEF Client, Server
  <2>3. QED
    BY <2>1, <2>2
<1>5. ASSUME m.type = "SEND_MISSING_P2C_ACK" PROVE m.dst \in Nodes
  <2>1. parent[m.src] \in Nodes
    BY <1>1, <1>5, AckParts
  <2>2. m = Msg(m.type, m.src, parent[m.src], {}, {})
    BY <1>1, <1>5 DEF TalkInv
  <2>3. m.dst = parent[m.src]
    BY <2>2, MsgParts
  <2>4. QED
    BY <2>1, <2>3
<1>6. Unicast(m) => Exchange(m) \/ m.type = "SEND_MISSING_P2C_ACK"
  BY <1>3 DEF Unicast, Exchange, Types, UpTypes, DownTypes
<1>7. Unicast(m) => m.dst \in Nodes
  BY <1>4, <1>5, <1>6
<1>8. ~SendFails(m)
  BY <1>7, NodesAssumption DEF SendFails
<1>9. ~LoseUnicast(m)
  BY DEF LoseUnicast, Nominal, TypeOK
<1>10. QED
  BY <1>7, <1>8, <1>9

-----------------------------------------------------------------------------
(***************************************************************************)
(* What the nodes and the messages know.                                   *)
(***************************************************************************)
\* The claims of DataInv about a message.
Backed(m) ==
  /\ m.type \in {"SEND_BF", "SEND_BF_C2P"} => Carries(m) \subseteq Holds(m.src)
  /\ m.type \in {"SEND_MISSING_C2P", "SEND_MISSING_P2C"} =>
       m.links \subseteq tuples[m.src] /\ m.votes \cap Neighbours(Root) = {}
  /\ m.type = "SEND_MISSING_P2C" => Wanted \subseteq Holds(m.dst) \cup Carries(m)

Grows(n) == Holds(n) \subseteq Holds(n)' /\ tuples[n] \subseteq tuples'[n]

\* What a node holds while its tables stay as they are.
LEMMA HoldsKept ==
  ASSUME UNCHANGED <<tuples, votes>>, NEW n
  PROVE  Holds(n)' = Holds(n) /\ Grows(n)
BY DEF Holds, Grows

\* What a node holds after it has stored what a message carries.
LEMMA HoldsGain ==
  ASSUME NEW n, NEW m, tuples'[n] = tuples[n] \cup m.links,
         votes'[n] = StoreVotes(votes[n], m.votes)
  PROVE  Holds(n)' = Holds(n) \cup Carries(m) /\ Grows(n)
<1>1. Keys(StoreVotes(votes[n], m.votes)) = Keys(votes[n]) \cup m.votes
  <2>1. ASSUME NEW v \in StoreVotes(votes[n], m.votes) PROVE v[1] \in Keys(votes[n]) \cup m.votes
    BY DEF StoreVotes, Keys
  <2>2. ASSUME NEW a \in m.votes PROVE a \in Keys(StoreVotes(votes[n], m.votes))
    <3>1. <<a, a>> \in StoreVotes(votes[n], m.votes) /\ <<a, a>>[1] = a
      BY DEF StoreVotes
    <3>2. QED
      BY <3>1 DEF Keys
  <2>3. ASSUME NEW a \in Keys(votes[n]) PROVE a \in Keys(StoreVotes(votes[n], m.votes))
    <3>1. PICK v \in votes[n] : v[1] = a
      BY DEF Keys
    <3>2. CASE a \in m.votes
      BY <3>2, <2>2
    <3>3. CASE a \notin m.votes
      BY <3>1, <3>3 DEF StoreVotes, Keys
    <3>4. QED
      BY <3>2, <3>3
  <2>4. QED
    BY <2>1, <2>2, <2>3 DEF Keys
<1>2. Keys(votes[n])' = Keys(votes[n]) \cup m.votes
  BY <1>1 DEF Keys
<1>3. tuples'[n] = tuples[n] \cup m.links
  OBVIOUS
<1> DEFINE K == Keys(votes[n])
           K2 == Keys(votes[n])'
<1>4. Holds(n)' = {<<"link", e>> : e \in tuples'[n]} \cup {<<"vote", k>> : k \in K2}
  BY DEF Holds, Keys
<1>5. Holds(n) = {<<"link", e>> : e \in tuples[n]} \cup {<<"vote", k>> : k \in K}
  BY DEF Holds
<1>6. Carries(m) = {<<"link", e>> : e \in m.links} \cup {<<"vote", k>> : k \in m.votes}
  BY DEF Carries
<1> HIDE DEF K, K2
<1>7. K2 = K \cup m.votes
  BY <1>2 DEF K, K2
<1>8. {<<"link", e>> : e \in tuples'[n]} =
        {<<"link", e>> : e \in tuples[n]} \cup {<<"link", e>> : e \in m.links}
  BY <1>3
<1>9. {<<"vote", k>> : k \in K2} = {<<"vote", k>> : k \in K} \cup {<<"vote", k>> : k \in m.votes}
  BY <1>7
<1>10. Holds(n)' = Holds(n) \cup Carries(m)
  BY <1>4, <1>5, <1>6, <1>8, <1>9
<1>11. QED
  BY <1>3, <1>10 DEF Grows

\* Both ends of an exchange are in the tree.
LEMMA EndsIn ==
  ASSUME NEW st, TypeOK, TreeInv(st), TalkInv(st), NEW m \in net, Exchange(m)
  PROVE  /\ m.src \in Nodes /\ st[m.src] # Out
         /\ m.dst \in Nodes /\ st[m.dst] # Out
<1>1. /\ Client(m) \in Nodes /\ Server(m) \in Nodes
      /\ st[Client(m)] \in {Asking, Served, Asked} /\ StageOf(m.type) \in {Asking, Served, Asked}
      /\ StageOf(m.type) <= Served => st[Server(m)] = Gather
      /\ StageOf(m.type) = Asked => st[Server(m)] = Awaiting
  BY Talking, TalkParts
<1>2. st[Client(m)] # Out /\ st[Server(m)] # Out
  BY <1>1
<1>3. \/ m.src = Client(m) /\ m.dst = Server(m)
      \/ m.src = Server(m) /\ m.dst = Client(m)
  BY DEF Client, Server
<1>4. QED
  BY <1>1, <1>2, <1>3

\* What a step must show for the messages and the nodes to know what they claim.
LEMMA DataStep ==
  ASSUME NEW st, NEW st2, TypeOK, TreeInv(st), TalkInv(st), DataInv(st),
         \A n \in Nodes : st[n] # Out => Grows(n),
         \A m \in net' : m \in net \/ Backed(m)',
         \A n \in Nodes : st2[n] # Out => \A v \in votes'[n] : v[2] = Vote(v[1]),
         \A n \in Nodes : st2[n] >= Down => st[n] >= Down \/ Wanted \subseteq Holds(n)'
  PROVE  DataInv(st2)'
<1>1. ASSUME NEW m \in net, Exchange(m) PROVE Grows(m.src) /\ Grows(m.dst)
  BY <1>1, EndsIn
<1>2. ASSUME NEW m \in net PROVE Backed(m)
  BY DEF DataInv, Backed
<1>3. ASSUME NEW m \in net PROVE Backed(m)'
  <2>1. CASE Exchange(m)
    <3>1. Grows(m.src) /\ Grows(m.dst) /\ Backed(m)
      BY <2>1, <1>1, <1>2
    <3>2. Carries(m)' = Carries(m)
      BY DEF Carries
    <3>3. Wanted' = Wanted
      BY DEF Wanted, Neighbours
    <3>4. QED
      BY <3>1, <3>2, <3>3 DEF Backed, Grows
  <2>2. CASE ~Exchange(m)
    BY <2>2 DEF Backed, Exchange
  <2>3. QED
    BY <2>1, <2>2
<1>4. \A m \in net' : Backed(m)'
  BY <1>3
<1>5. ASSUME NEW n \in Nodes, st2[n] >= Down PROVE (Wanted \subseteq Holds(n))'
  <2>1. CASE st[n] >= Down
    <3>1. Wanted \subseteq Holds(n) /\ st[n] # Out
      BY <2>1 DEF DataInv
    <3>2. Holds(n) \subseteq Holds(n)'
      BY <3>1 DEF Grows
    <3>3. QED
      BY <3>1, <3>2
  <2>2. QED
    BY <2>1, <1>5
<1>6. QED
  BY <1>4, <1>5 DEF DataInv, Backed

\* The links and votes that still travel to the root.
LEMMA CarriedStep ==
  ASSUME NEW st, NEW st2, NEW i, Carried(st, i),
         \A z \in Nodes : st[z] # Out /\ st[z] <= Served /\ ~Reports(z) =>
           st2[z] # Out /\ st2[z] <= Served /\ ~Reports(z)' /\ Holds(z) \subseteq Holds(z)',
         \A m \in net : m.type = "SEND_MISSING_C2P" => m \in net'
  PROVE  Carried(st2, i)'
<1>1. CASE \E z \in Nodes : st[z] # Out /\ st[z] <= Served /\ ~Reports(z) /\ i \in Holds(z)
  <2>1. PICK z \in Nodes : st[z] # Out /\ st[z] <= Served /\ ~Reports(z) /\ i \in Holds(z)
    BY <1>1
  <2>2. st2[z] # Out /\ st2[z] <= Served /\ ~Reports(z)' /\ i \in Holds(z)'
    BY <2>1
  <2>3. QED
    BY <2>2 DEF Carried
<1>2. CASE \E m \in net : m.type = "SEND_MISSING_C2P" /\ i \in Carries(m)
  <2>1. PICK m \in net : m.type = "SEND_MISSING_C2P" /\ i \in Carries(m)
    BY <1>2
  <2>2. m \in net' /\ i \in Carries(m)'
    BY <2>1 DEF Carries
  <2>3. QED
    BY <2>1, <2>2 DEF Carried
<1>3. QED
  BY <1>1, <1>2 DEF Carried

\* What a step must show for nothing to be lost on the way up.
LEMMA CoverStep ==
  ASSUME NEW st, NEW st2, TreeInv(st), CoverInv(st), Advance(st, st2),
         st2[Root] <= Due => st[Root] <= Due,
         st2[Root] <= Due => \A i \in Wanted : Carried(st, i) => Carried(st2, i)'
  PROVE  CoverInv(st2)'
<1>1. ASSUME st2[Root] <= Due, NEW x \in Nodes, st2[x] >= Gather, NEW i \in Wanted \cap About(x)
      PROVE  Carried(st2, i)'
  <2>1. st[x] >= Gather
    BY <1>1, AdvanceGathered
  <2>2. Carried(st, i)
    BY <2>1, <1>1 DEF CoverInv
  <2>3. QED
    BY <2>2, <1>1
<1>2. Wanted' = Wanted /\ \A x : About(x)' = About(x)
  BY DEF Wanted, About, Neighbours
<1>3. QED
  BY <1>1, <1>2 DEF CoverInv

\* The steps that leave the tables alone.
LEMMA QuietStep ==
  ASSUME NEW st, NEW st2, TypeOK, TreeInv(st), TalkInv(st), DataInv(st), CoverInv(st),
         Advance(st, st2), UNCHANGED <<tuples, votes>>,
         \A m \in net' : m \in net \/ Backed(m),
         \A n \in Nodes : st2[n] >= Down => st[n] >= Down \/ Wanted \subseteq Holds(n),
         st2[Root] <= Due => st[Root] <= Due,
         st2[Root] <= Due => \A i \in Wanted : Carried(st, i) => Carried(st2, i)'
  PROVE  DataInv(st2)' /\ CoverInv(st2)'
<1>1. \A n : Holds(n)' = Holds(n) /\ Grows(n)
  BY HoldsKept
<1>2. \A m : Backed(m)' <=> Backed(m)
  <2>1. \A m : Carries(m)' = Carries(m)
    BY DEF Carries
  <2>2. Wanted' = Wanted
    BY DEF Wanted, Neighbours
  <2>3. QED
    BY <1>1, <2>1, <2>2 DEF Backed
<1>3. ASSUME NEW n \in Nodes, st2[n] # Out PROVE \A v \in votes'[n] : v[2] = Vote(v[1])
  <2>1. st[n] # Out
    BY <1>3 DEF Advance
  <2>2. QED
    BY <2>1 DEF DataInv
<1>4. DataInv(st2)'
  BY <1>1, <1>2, <1>3, DataStep
<1>5. QED
  BY <1>4, CoverStep

\* Nothing is lost when no report is sent or taken.
LEMMA SameReports ==
  ASSUME NEW st, NEW st2, \A m : m.type = "SEND_MISSING_C2P" => (m \in net' <=> m \in net),
         \A z \in Nodes : st[z] # Out /\ st[z] <= Served =>
           st2[z] # Out /\ st2[z] <= Served /\ Holds(z) \subseteq Holds(z)'
  PROVE  \A i : Carried(st, i) => Carried(st2, i)'
<1>1. \A z : Reports(z)' <=> Reports(z)
  BY DEF Reports
<1>2. ASSUME NEW i, Carried(st, i) PROVE Carried(st2, i)'
  BY <1>1, <1>2, CarriedStep
<1>3. QED
  BY <1>2

\* Who reports is in service.
LEMMA NotReporting ==
  ASSUME NEW st, NEW z, st[z] # Served
  PROVE  /\ TalkInv(st) => ~Reports(z)
         /\ TalkInv(st)' => ~Reports(z)'
<1>1. \A m : m.type = "SEND_MISSING_C2P" =>
        Exchange(m) /\ Client(m) = m.src /\ StageOf(m.type) = Served
  BY TalkParts
<1>2. TalkInv(st) => \A m \in net : Exchange(m) => st[Client(m)] = StageOf(m.type)
  BY DEF TalkInv
<1>3. TalkInv(st)' => \A m \in net' : Exchange(m) => st[Client(m)] = StageOf(m.type)
  BY DEF TalkInv, Exchange, Client, StageOf
<1>4. QED
  BY <1>1, <1>2, <1>3 DEF Reports

\* No vote is in the name of a neighbour of the root.
LEMMA VoteFar == \A k : Vote(k) \notin Neighbours(Root)
BY NodesAssumption DEF Vote, Neighbours

\* What a node answers to the filter of m completes what the sender of m has.
LEMMA MissingCarries ==
  ASSUME NEW n, \A v \in votes[n] : v[2] = Vote(v[1]), NEW m,
         NEW missing \in MissingTuples(tuples[n], m.links),
         NEW M, M.links = missing, M.votes = MissingVotes(votes[n], m.votes)
  PROVE  /\ M.links \subseteq tuples[n] /\ M.votes \cap Neighbours(Root) = {}
         /\ \A i \in Wanted : i \in Holds(n) => i \in Carries(m) \/ i \in Carries(M)
<1>1. M.votes = {v[2] : v \in {v \in votes[n] : v[1] \notin m.votes}}
  BY DEF MissingVotes, Packets
<1>2. missing \subseteq tuples[n] /\ (~FalsePositives => missing = tuples[n] \ m.links)
  BY DEF MissingTuples
<1>3. M.votes \cap Neighbours(Root) = {}
  BY <1>1, VoteFar
<1>4. ASSUME NEW i \in Wanted, i \in Holds(n) PROVE i \in Carries(m) \/ i \in Carries(M)
  <2>1. CASE \E e \in tuples[n] : i = <<"link", e>>
    <3>1. PICK e \in tuples[n] : i = <<"link", e>>
      BY <2>1
    <3>2. ~FalsePositives
      BY <3>1, <1>4 DEF Wanted
    <3>3. e \in m.links \/ e \in M.links
      BY <3>2, <1>2
    <3>4. QED
      BY <3>1, <3>3 DEF Carries
  <2>2. CASE \E k \in Keys(votes[n]) : i = <<"vote", k>>
    <3>1. PICK k \in Keys(votes[n]) : i = <<"vote", k>>
      BY <2>2
    <3>2. k \in Nodes \ Neighbours(Root)
      BY <3>1, <1>4 DEF Wanted
    <3>3. PICK v \in votes[n] : v[1] = k
      BY <3>1 DEF Keys
    <3>4. v[2] = k
      BY <3>2, <3>3 DEF Vote
    <3>5. k \in m.votes \/ k \in M.votes
      BY <3>3, <3>4, <1>1
    <3>6. QED
      BY <3>1, <3>5 DEF Carries
  <2>3. QED
    BY <2>1, <2>2, <1>4 DEF Holds
<1>5. QED
  BY <1>2, <1>3, <1>4

\* The votes a node stores from a message are kept under their keys.
LEMMA VotesGain ==
  ASSUME NEW n, \A w \in votes[n] : w[2] = Vote(w[1]), NEW V, V \cap Neighbours(Root) = {},
         votes'[n] = StoreVotes(votes[n], V)
  PROVE  \A v \in votes'[n] : v[2] = Vote(v[1])
<1>1. ASSUME NEW v \in votes'[n] PROVE v \in votes[n] \/ \E a \in V : v = <<a, a>>
  BY DEF StoreVotes
<1>2. ASSUME NEW a \in V, NEW v, v = <<a, a>> PROVE v[2] = Vote(v[1])
  <2>1. v[1] = a /\ v[2] = a /\ a \notin Neighbours(Root)
    BY <1>2
  <2>2. QED
    BY <2>1 DEF Vote
<1>3. QED
  BY <1>1, <1>2

\* A node asks its parent.
LEMMA DataAsk ==
  ASSUME NEW st, NEW Q, TypeOK, Control(st, Q), DataInv(st), CoverInv(st),
         NEW n \in Nodes \ {Root}, st[n] \in {Gather, Due}, NoChildren(n), UNCHANGED <<tuples, votes>>
  PROVE  DataInv(Move(st, n, Asking))' /\ CoverInv(Move(st, n, Asking))'
<1> DEFINE st2 == Move(st, n, Asking)
           M == Msg("ASK_BF", n, parent[n], {}, {})
<1>1. TreeInv(st) /\ TalkInv(st) /\ RouteInv(st)
  BY DEF Control
<1>2. st[n] # Out
  OBVIOUS
<1>3. net' = net \cup {M}
  BY <1>1, <1>2, AskSent
<1>4. st2[n] = Asking /\ \A x \in Nodes \ {n} : st2[x] = st[x]
  BY <1>1, MoveValues
<1>5. Advance(st, st2)
  <2>1. st[n] >= Gather /\ Asking \in Nat /\ Gather <= Asking /\ Asking <= End /\ n \in Nodes
    OBVIOUS
  <2>2. QED
    BY <2>1, <1>1, MoveAdvance
<1>6. M.type = "ASK_BF"
  BY MsgParts
<1> HIDE DEF st2, M
<1>7. \A m \in net' : m \in net \/ Backed(m)
  BY <1>3, <1>6 DEF Backed
<1>8. \A x : Holds(x)' = Holds(x)
  BY HoldsKept
<1>9. \A m : m.type = "SEND_MISSING_C2P" => (m \in net' <=> m \in net)
  BY <1>3, <1>6
<1>10. \A z \in Nodes : st[z] # Out /\ st[z] <= Served => st2[z] # Out /\ st2[z] <= Served
  BY <1>4
<1>11. \A i : Carried(st, i) => Carried(st2, i)'
  BY <1>8, <1>9, <1>10, SameReports
<1>12. \A x \in Nodes : st2[x] >= Down => st[x] >= Down
  BY <1>4
<1>13. st2[Root] = st[Root]
  BY <1>4, NodesAssumption
<1>14. DataInv(st2)' /\ CoverInv(st2)'
  BY <1>1, <1>5, <1>7, <1>11, <1>12, <1>13, QuietStep
<1>15. QED
  BY <1>14 DEF st2

\* A parent sends its filter.
LEMMA DataServe ==
  ASSUME NEW st, NEW Q, TypeOK, Control(st, Q), DataInv(st), CoverInv(st),
         NEW m \in net, m.type = "ASK_BF", UNCHANGED <<tuples, votes>>,
         net' = (net \ {m}) \cup {Msg("SEND_BF", m.dst, m.src, tuples[m.dst], Keys(votes[m.dst]))}
  PROVE  DataInv(Move(st, m.src, Served))' /\ CoverInv(Move(st, m.src, Served))'
<1> DEFINE c == m.src
           st2 == Move(st, c, Served)
           M == Msg("SEND_BF", m.dst, m.src, tuples[m.dst], Keys(votes[m.dst]))
<1>1. TreeInv(st) /\ TalkInv(st)
  BY DEF Control
<1>2. c \in Nodes \ {Root} /\ st[c] = Asking
  BY AskArrives
<1>3. net' = (net \ {m}) \cup {M}
  OBVIOUS
<1>4. M.type = "SEND_BF" /\ M.src = m.dst /\ M.links = tuples[m.dst] /\ M.votes = Keys(votes[m.dst])
  BY MsgParts
<1> HIDE DEF c
<1>5. st2[c] = Served /\ \A x \in Nodes \ {c} : st2[x] = st[x]
  BY <1>1, <1>2, MoveValues
<1>6. Advance(st, st2)
  <2>1. st[c] >= Gather /\ Served \in Nat /\ Gather <= Served /\ Served <= End /\ c \in Nodes
    BY <1>2
  <2>2. QED
    BY <2>1, <1>1, MoveAdvance
<1> HIDE DEF st2, M
<1>7. Backed(M)
  BY <1>4 DEF Backed, Carries, Holds
<1>8. \A o \in net' : o \in net \/ Backed(o)
  BY <1>3, <1>7
<1>9. \A x : Holds(x)' = Holds(x)
  BY HoldsKept
<1>10. \A o : o.type = "SEND_MISSING_C2P" => (o \in net' <=> o \in net)
  BY <1>3, <1>4
<1>11. \A z \in Nodes : st[z] # Out /\ st[z] <= Served => st2[z] # Out /\ st2[z] <= Served
  BY <1>5
<1>12. \A i : Carried(st, i) => Carried(st2, i)'
  BY <1>9, <1>10, <1>11, SameReports
<1>13. \A x \in Nodes : st2[x] >= Down => st[x] >= Down
  BY <1>5
<1>14. st2[Root] = st[Root]
  BY <1>2, <1>5, NodesAssumption
<1>15. DataInv(st2)' /\ CoverInv(st2)'
  BY <1>1, <1>6, <1>8, <1>12, <1>13, <1>14, QuietStep
<1>16. QED
  BY <1>15 DEF st2, c

\* A message that is no report is taken without effect on the tables.
LEMMA DataDrop ==
  ASSUME NEW st, NEW Q, TypeOK, Control(st, Q), DataInv(st), CoverInv(st),
         NEW m \in net, m.type # "SEND_MISSING_C2P", UNCHANGED <<tuples, votes>>, net' = net \ {m}
  PROVE  DataInv(st)' /\ CoverInv(st)'
<1>1. TreeInv(st) /\ TalkInv(st)
  BY DEF Control
<1>2. Advance(st, st)
  BY <1>1 DEF TreeInv, Advance
<1>3. \A x : Holds(x)' = Holds(x)
  BY HoldsKept
<1>4. \A i : Carried(st, i) => Carried(st, i)'
  BY <1>3, SameReports
<1>5. QED
  BY <1>1, <1>2, <1>4, QuietStep

\* A child reports: what it holds and the filter of the parent lacks is in the report.
LEMMA DataReport ==
  ASSUME NEW st, NEW Q, TypeOK, Control(st, Q), DataInv(st), CoverInv(st),
         NEW m \in net, ReceivedFromParentBF(m), Control(st, Q)'
  PROVE  DataInv(st)' /\ CoverInv(st)'
<1> DEFINE n == m.dst
           p == m.src
           V == MissingVotes(votes[n], m.votes)
<1>1. TreeInv(st) /\ TalkInv(st) /\ TalkInv(st)'
  BY DEF Control
<1>2. m.type = "SEND_BF" /\ n \in Nodes \ {Root} /\ p = parent[n] /\ st[n] = Served
  BY ReportSent
<1>3. PICK missing \in MissingTuples(tuples[n], m.links) :
        net' = (net \ {m}) \cup {Msg("SEND_MISSING_C2P", n, parent[n], missing, V)}
  BY ReportSent
<1>0. PICK M : M = Msg("SEND_MISSING_C2P", n, parent[n], missing, V)
  OBVIOUS
<1>4. M.type = "SEND_MISSING_C2P" /\ M.src = n /\ M.links = missing /\ M.votes = V
  BY <1>0, MsgParts
<1>5. net' = (net \ {m}) \cup {M}
  BY <1>0, <1>3
<1>6. p \in Nodes /\ p # n /\ st[p] = Gather
  <2> HIDE DEF n, p
  <2>1. st[n] # Out /\ st[n] <= Served /\ n \in Nodes \ {Root}
    BY <1>2
  <2>2. parent[n] \in Nodes /\ parent[n] # n /\ st[parent[n]] = Gather
    BY <2>1, <1>1, ParentStage
  <2>3. QED
    BY <2>2, <1>2
<1>7. UNCHANGED <<tuples, votes>>
  BY DEF ReceivedFromParentBF, tableVars
<1>8. Advance(st, st)
  BY <1>1 DEF TreeInv, Advance
<1>9. \A x : Holds(x)' = Holds(x)
  BY <1>7, HoldsKept
<1>10. \A v \in votes[n] : v[2] = Vote(v[1])
  BY <1>2 DEF DataInv
<1>12. Carries(m) \subseteq Holds(p)
  BY <1>2 DEF DataInv
<1> HIDE DEF n, p, V
<1>14. Backed(M)
  <2>1. M.links \subseteq tuples[n] /\ M.votes \cap Neighbours(Root) = {}
    BY <1>4, <1>10, MissingCarries DEF V
  <2>2. QED
    BY <2>1, <1>4 DEF Backed
<1>15. \A o \in net' : o \in net \/ Backed(o)
  BY <1>5, <1>14
<1>16. ~Reports(p)'
  <2>1. st[p] # Served
    BY <1>6
  <2>2. QED
    BY <2>1, <1>1, NotReporting
<1>17. ASSUME NEW i \in Wanted, i \in Holds(n) PROVE i \in Holds(p) \/ i \in Carries(M)
  <2>1. i \in Carries(m) \/ i \in Carries(M)
    BY <1>4, <1>10, <1>17, MissingCarries DEF V
  <2>2. QED
    BY <2>1, <1>12
<1>18. ASSUME NEW i \in Wanted, Carried(st, i) PROVE Carried(st, i)'
  <2>1. CASE \E z \in Nodes : st[z] # Out /\ st[z] <= Served /\ ~Reports(z) /\ i \in Holds(z)
    <3>1. PICK z \in Nodes : st[z] # Out /\ st[z] <= Served /\ ~Reports(z) /\ i \in Holds(z)
      BY <2>1
    <3>2. CASE z # n
      <4>1. ~Reports(z)'
        BY <3>1, <3>2, <1>4, <1>5 DEF Reports
      <4>2. i \in Holds(z)'
        BY <3>1, <1>9
      <4>3. QED
        BY <3>1, <4>1, <4>2 DEF Carried
    <3>3. CASE z = n
      <4>1. CASE i \in Holds(p)
        <5>1. i \in Holds(p)' /\ st[p] # Out /\ st[p] <= Served
          BY <4>1, <1>6, <1>9
        <5>2. QED
          BY <5>1, <1>6, <1>16 DEF Carried
      <4>2. CASE i \in Carries(M)
        <5>1. M \in net' /\ i \in Carries(M)'
          BY <4>2, <1>5 DEF Carries
        <5>2. QED
          BY <5>1, <1>4 DEF Carried
      <4>3. QED
        BY <4>1, <4>2, <3>1, <3>3, <1>17
    <3>4. QED
      BY <3>2, <3>3
  <2>2. CASE \E o \in net : o.type = "SEND_MISSING_C2P" /\ i \in Carries(o)
    <3>1. PICK o \in net : o.type = "SEND_MISSING_C2P" /\ i \in Carries(o)
      BY <2>2
    <3>2. o \in net' /\ i \in Carries(o)'
      BY <3>1, <1>2, <1>5 DEF Carries
    <3>3. QED
      BY <3>1, <3>2 DEF Carried
  <2>3. QED
    BY <2>1, <2>2, <1>18 DEF Carried
<1>19. QED
  BY <1>1, <1>7, <1>8, <1>15, <1>18, QuietStep

-----------------------------------------------------------------------------
\* The stages after two nodes have moved on.
LEMMA TwoMoves ==
  ASSUME NEW st, TreeInv(st), NEW a \in Nodes, NEW b \in Nodes, a # b,
         st[a] >= Gather, st[b] >= Gather, NEW u \in {Due, Served, Up}, NEW v \in {Due, Served, Up},
         NEW st2, st2 = Move(Move(st, a, u), b, v)
  PROVE  /\ st2[a] = u /\ st2[b] = v /\ \A x \in Nodes \ {a, b} : st2[x] = st[x]
         /\ Advance(st, st2)
<1>1. st \in [Nodes -> Nat] /\ \A x \in Nodes : st[x] <= End
  BY DEF TreeInv
<1>2. st2[a] = u /\ st2[b] = v /\ \A x \in Nodes \ {a, b} : st2[x] = st[x]
  BY <1>1 DEF Move
<1>3. st2 \in [Nodes -> Nat]
  BY <1>1 DEF Move
<1>4. ASSUME NEW x \in Nodes
      PROVE  st2[x] <= End /\ (st2[x] = Out <=> st[x] = Out) /\ (st2[x] = Hello <=> st[x] = Hello)
  <2>1. CASE x = a
    BY <2>1, <1>1, <1>2
  <2>2. CASE x = b
    BY <2>2, <1>1, <1>2
  <2>3. CASE x \notin {a, b}
    BY <2>3, <1>1, <1>2
  <2>4. QED
    BY <2>1, <2>2, <2>3
<1>5. QED
  BY <1>2, <1>3, <1>4 DEF Advance

\* The parent takes what the child in service reports.
LEMMA DataReported ==
  ASSUME NEW st, NEW st2, NEW Q, TypeOK, TypeOK', Control(st, Q), Control(st2, Q)',
         DataInv(st), CoverInv(st), NEW m \in net, ProcessReceivedMissing(m), Advance(st, st2),
         \A o \in net : o # m => o \in net',
         \A o \in net' : o \in net \/ (o.type = "SEND_BF" /\ Backed(o)'),
         \A z \in Nodes : z # m.src /\ st[z] # Out /\ st[z] <= Served =>
           st2[z] # Out /\ st2[z] <= Served,
         st2[m.dst] \in {Gather, Due},
         st2[Root] <= Due => st[Root] <= Due,
         \A z \in Nodes : st2[z] >= Down => st[z] >= Down
  PROVE  DataInv(st2)' /\ CoverInv(st2)'
<1> DEFINE p == m.dst
           c == m.src
<1>1. TreeInv(st) /\ TalkInv(st) /\ TalkInv(st2)'
  BY DEF Control
<1>2. /\ m.type = "SEND_MISSING_C2P" /\ p \in Nodes /\ st[p] = Gather
      /\ \A x \in Nodes \ {p} : tuples'[x] = tuples[x] /\ votes'[x] = votes[x]
      /\ tuples'[p] = tuples[p] \cup m.links
      /\ votes'[p] = StoreVotes(votes[p], m.votes)
  BY ReportArrives
<1>3. Holds(p)' = Holds(p) \cup Carries(m) /\ Grows(p)
  BY <1>2, HoldsGain
<1>4. ASSUME NEW x \in Nodes \ {p} PROVE Grows(x)
  BY <1>2 DEF Grows, Holds
<1>5. \A x \in Nodes : Grows(x)
  BY <1>3, <1>4
<1>6. Reports(c)
  BY <1>2 DEF Reports
<1>7. ~Reports(p)'
  <2>1. st2[p] # Served
    OBVIOUS
  <2>2. QED
    BY <2>1, <1>1, NotReporting
<1> HIDE DEF p, c
<1>8. ASSUME NEW n \in Nodes, st2[n] # Out, NEW v \in votes'[n] PROVE v[2] = Vote(v[1])
  <2>1. st[n] # Out
    BY <1>8 DEF Advance
  <2>2. \A w \in votes[n] : w[2] = Vote(w[1])
    BY <2>1 DEF DataInv
  <2>3. CASE n # p
    BY <2>2, <2>3, <1>2, <1>8
  <2>4. CASE n = p
    <3>1. m.votes \cap Neighbours(Root) = {}
      BY <1>2 DEF DataInv
    <3>2. QED
      BY <2>2, <2>4, <3>1, <1>2, <1>8, VotesGain
  <2>5. QED
    BY <2>3, <2>4
<1>9. DataInv(st2)'
  <2>1. \A o \in net' : o \in net \/ Backed(o)'
    OBVIOUS
  <2>2. QED
    BY <2>1, <1>1, <1>5, <1>8, DataStep
<1>10. ASSUME NEW i \in Wanted, Carried(st, i) PROVE Carried(st2, i)'
  <2>1. CASE \E z \in Nodes : st[z] # Out /\ st[z] <= Served /\ ~Reports(z) /\ i \in Holds(z)
    <3>1. PICK z \in Nodes : st[z] # Out /\ st[z] <= Served /\ ~Reports(z) /\ i \in Holds(z)
      BY <2>1
    <3>2. z # m.src
      BY <3>1, <1>6 DEF c
    <3>3. ~Reports(z)'
      BY <3>1 DEF Reports
    <3>4. i \in Holds(z)'
      BY <3>1, <1>5 DEF Grows
    <3>5. QED
      BY <3>1, <3>2, <3>3, <3>4 DEF Carried
  <2>2. CASE \E o \in net : o.type = "SEND_MISSING_C2P" /\ i \in Carries(o)
    <3>1. PICK o \in net : o.type = "SEND_MISSING_C2P" /\ i \in Carries(o)
      BY <2>2
    <3>2. CASE o # m
      <4>1. o \in net' /\ i \in Carries(o)'
        BY <3>1, <3>2 DEF Carries
      <4>2. QED
        BY <4>1, <3>1 DEF Carried
    <3>3. CASE o = m
      <4>1. i \in Holds(p)'
        BY <3>1, <3>3, <1>3
      <4>2. st2[p] # Out /\ st2[p] <= Served
        BY DEF p
      <4>3. QED
        BY <4>1, <4>2, <1>2, <1>7 DEF Carried
    <3>4. QED
      BY <3>2, <3>3
  <2>3. QED
    BY <2>1, <2>2, <1>10 DEF Carried
<1>11. CoverInv(st2)'
  BY <1>1, <1>10, CoverStep
<1>12. QED
  BY <1>9, <1>11

\* The three ways to go on after a report.
LEMMA ReportTaken ==
  ASSUME NEW st, NEW Q, TypeOK, TypeOK', ServiceInv, Control(st, Q), DataInv(st), CoverInv(st),
         NEW m \in net, ProcessReceivedMissing(m)
  PROVE  \E st2 : /\ Control(st2, Q)' /\ DataInv(st2)' /\ CoverInv(st2)'
                  /\ \A n \in Nodes : st2[n] = End <=> st[n] = End
<1> DEFINE p == m.dst
           c == m.src
           d == Head(requests[m.dst])
<1>1. TreeInv(st)
  BY DEF Control
<1>2. /\ c \in Nodes \ {Root} /\ p \in Nodes /\ c # p /\ st[c] = Served /\ st[p] = Gather
  BY ReportArrives
<1>3. st[c] >= Gather /\ st[p] >= Gather
  BY <1>2
<1>4. CASE AllReported(kids'[p], done'[p]) /\ upDue' = [upDue EXCEPT ![p] = @ + 1]
           /\ net' = net \ {m} /\ UNCHANGED <<serviceVars, routes>>
  <2>1. PICK st2 : st2 = Move(Move(st, c, Up), p, Due)
    OBVIOUS
  <2>2. Control(st2, Q)'
    BY <1>4, <2>1, LastReport
  <2>3. /\ st2[c] = Up /\ st2[p] = Due /\ \A x \in Nodes \ {c, p} : st2[x] = st[x]
        /\ Advance(st, st2)
    <3> HIDE DEF c, p
    <3>1. QED
      BY <1>1, <1>2, <1>3, <2>1, TwoMoves
  <2>4. \A x \in Nodes : (st2[x] = End <=> st[x] = End) /\ (st2[x] >= Down => st[x] >= Down)
    BY <2>3, <1>2
  <2>5. \A z \in Nodes : z # c /\ st[z] # Out /\ st[z] <= Served => st2[z] # Out /\ st2[z] <= Served
    BY <2>3
  <2>6. st2[Root] <= Due => st[Root] <= Due
    BY <2>3, <1>2, NodesAssumption
  <2>7. /\ \A o \in net : o # m => o \in net'
        /\ \A o \in net' : o \in net
    BY <1>4
  <2>8. DataInv(st2)' /\ CoverInv(st2)'
    BY <2>2, <2>3, <2>4, <2>5, <2>6, <2>7, DataReported
  <2>9. QED
    BY <2>2, <2>4, <2>8
<1>5. CASE ~AllReported(kids'[p], done'[p]) /\ requests[p] = <<>>
           /\ idle' = [idle EXCEPT ![p] = TRUE] /\ net' = net \ {m}
           /\ UNCHANGED <<bfKids, requests, routes, upDue>>
  <2>1. PICK st2 : st2 = Move(st, c, Up)
    OBVIOUS
  <2>2. Control(st2, Q)'
    BY <1>5, <2>1, IdleReport
  <2>3. st2[c] = Up /\ \A x \in Nodes \ {c} : st2[x] = st[x]
    BY <1>1, <1>2, <2>1, MoveValues
  <2>4. Advance(st, st2)
    <3> HIDE DEF c
    <3>1. c \in Nodes /\ Up \in Nat /\ Gather <= Up /\ Up <= End
      BY <1>2
    <3>2. QED
      BY <3>1, <1>1, <1>3, <2>1, MoveAdvance
  <2>5. \A x \in Nodes : (st2[x] = End <=> st[x] = End) /\ (st2[x] >= Down => st[x] >= Down)
    BY <2>3, <1>2
  <2>6. \A z \in Nodes : z # c /\ st[z] # Out /\ st[z] <= Served => st2[z] # Out /\ st2[z] <= Served
    BY <2>3
  <2>7. (st2[Root] <= Due => st[Root] <= Due) /\ st2[p] = Gather
    BY <2>3, <1>2, NodesAssumption
  <2>8. /\ \A o \in net : o # m => o \in net'
        /\ \A o \in net' : o \in net
    BY <1>5
  <2>9. DataInv(st2)' /\ CoverInv(st2)'
    BY <2>2, <2>4, <2>5, <2>6, <2>7, <2>8, DataReported
  <2>10. QED
    BY <2>2, <2>5, <2>9
<1>6. CASE ~AllReported(kids'[p], done'[p]) /\ requests[p] # <<>>
           /\ idle' = [idle EXCEPT ![p] = FALSE]
           /\ requests' = [requests EXCEPT ![p] = Tail(@)]
           /\ bfKids' = [bfKids EXCEPT ![p] = @ \cup {d}]
           /\ routes' = [routes EXCEPT ![p] = RunDijkstra(p, tuples'[p])]
           /\ net' = (net \ {m}) \cup SendBF(p, d, tuples'[p], votes'[p])
           /\ UNCHANGED upDue
  <2>0. PICK e : e = d
    OBVIOUS
  <2>1. PICK st2 : st2 = Move(Move(st, c, Up), e, Served)
    OBVIOUS
  <2>2. /\ Control(Move(Move(st, c, Up), e, Served), Q)'
        /\ st[e] = Asking
        /\ net' = (net \ {m}) \cup {Msg("SEND_BF", p, e, tuples'[p], Keys(votes'[p]))}
    BY <1>6, <2>0, QueueReport
  <2>3. Control(st2, Q)'
    BY <2>1, <2>2
  <2>4. e \in Nodes /\ e # c /\ e # Root /\ e # p
    <3>1. p \in Nodes /\ TakesNext(p)
      BY <1>2, <1>6 DEF TakesNext
    <3> HIDE DEF p
    <3>2. Head(requests[p]) \in Nodes \ {Root} /\ st[Head(requests[p])] = Asking
      BY <3>1, NextInQueue
    <3>3. e \in Nodes \ {Root}
      BY <2>0, <3>2 DEF p
    <3>4. QED
      BY <3>3, <2>2, <1>2
  <2>5. /\ st2[c] = Up /\ st2[e] = Served /\ \A x \in Nodes \ {c, e} : st2[x] = st[x]
        /\ Advance(st, st2)
    <3> HIDE DEF c
    <3>1. st[e] >= Gather /\ c \in Nodes /\ c # e
      BY <1>2, <2>2, <2>4
    <3>2. QED
      BY <1>1, <1>3, <2>1, <2>4, <3>1, TwoMoves
  <2>6. \A x \in Nodes : (st2[x] = End <=> st[x] = End) /\ (st2[x] >= Down => st[x] >= Down)
    BY <2>2, <2>5, <1>2
  <2>7. \A z \in Nodes : z # c /\ st[z] # Out /\ st[z] <= Served => st2[z] # Out /\ st2[z] <= Served
    BY <2>5
  <2>8. (st2[Root] <= Due => st[Root] <= Due) /\ st2[p] = Gather
    BY <2>4, <2>5, <1>2, NodesAssumption
  <2>9. PICK M : M = Msg("SEND_BF", p, e, tuples'[p], Keys(votes'[p]))
    OBVIOUS
  <2>10. M.type = "SEND_BF" /\ M.src = p /\ M.links = tuples'[p] /\ M.votes = Keys(votes'[p])
    BY <2>9, MsgParts
  <2>11. Backed(M)'
    BY <2>10 DEF Backed, Carries, Holds, Keys
  <2>12. /\ \A o \in net : o # m => o \in net'
         /\ \A o \in net' : o \in net \/ (o.type = "SEND_BF" /\ Backed(o)')
    BY <2>2, <2>9, <2>10, <2>11
  <2>13. DataInv(st2)' /\ CoverInv(st2)'
    BY <2>3, <2>5, <2>6, <2>7, <2>8, <2>12, DataReported
  <2>14. QED
    BY <2>3, <2>6, <2>13
<1>7. QED
  BY <1>4, <1>5, <1>6 DEF ProcessReceivedMissing, OnChildResponseReceived, AllReported, serviceVars

-----------------------------------------------------------------------------
\* The way down starts when the root knows everything.
LEMMA RootKnows ==
  ASSUME NEW st, NEW Q, TypeOK, Nominal, Control(st, Q), CoverInv(st), st[Root] = Due
  PROVE  Wanted \subseteq Holds(Root)
<1>1. TreeInv(st) /\ RootedInv /\ TalkInv(st)
  BY DEF Control
<1>2. \A n \in Nodes \ {Root} : st[n] = Up
  BY <1>1, RootDue
<1>3. \A n \in Nodes : st[n] >= Gather
  BY <1>2
<1>4. \A i \in Wanted : \E x \in Nodes : i \in About(x)
  <2>1. ASSUME NEW e \in Edges PROVE \E x \in Nodes : <<"link", e>> \in About(x)
    <3>1. PICK a \in Nodes, b \in Nodes : e = {a, b}
      BY EdgesAssumption
    <3>2. b \in Neighbours(a)
      BY <3>1 DEF Neighbours
    <3>3. QED
      BY <3>1, <3>2 DEF About
  <2>2. ASSUME NEW k \in Nodes PROVE <<"vote", k>> \in About(k)
    BY DEF About
  <2>3. ASSUME NEW i \in Wanted PROVE (\E e \in Edges : i = <<"link", e>>) \/ (\E k \in Nodes : i = <<"vote", k>>)
    BY DEF Wanted
  <2>4. QED
    BY <2>1, <2>2, <2>3
<1>5. ASSUME NEW i \in Wanted PROVE i \in Holds(Root)
  <2>1. PICK x \in Nodes : i \in About(x)
    BY <1>4
  <2>2. Carried(st, i)
    BY <2>1, <1>3 DEF CoverInv
  <2>3. \A m \in net : m.type # "SEND_MISSING_C2P"
    <3>1. ASSUME NEW m \in net, m.type = "SEND_MISSING_C2P" PROVE FALSE
      <4>1. Reports(m.src) /\ m.src \in Nodes
        BY <3>1 DEF Reports, TypeOK, Message
      <4>2. st[m.src] # Served
        BY <4>1, <1>2
      <4>3. QED
        BY <4>1, <4>2, <1>1, NotReporting
    <3>2. QED
      BY <3>1
  <2>4. QED
    BY <2>2, <2>3, <1>2 DEF Carried
<1>6. QED
  BY <1>5

\* A node turns to its children; the root knows everything by then.
LEMMA DataTurn ==
  ASSUME NEW st, NEW Q, TypeOK, Nominal, Control(st, Q), DataInv(st), CoverInv(st),
         NEW n \in Nodes, NEW st2, TurnMove(st, st2, n), TurnResult(st, n)
  PROVE  DataInv(st2)' /\ CoverInv(st2)'
<1>1. TreeInv(st) /\ RootedInv /\ TalkInv(st)
  BY DEF Control
<1>2. /\ Advance(st, st2)
      /\ \A x \in Nodes : st[x] \in Nat /\ st2[x] \in Nat
      /\ \A x \in Nodes : st2[x] # st[x] =>
              \/ /\ x = n /\ st[x] \in {Due, Down} /\ st2[x] = Awaiting
                 /\ st[x] = Due => n = Root
              \/ x # Root /\ parent[x] = n /\ x # n /\ st[x] = Up /\ st2[x] = Asked
  BY <1>1, TurnAdvance
<1>3. UNCHANGED <<tuples, votes>> /\ net' = net \cup Asks(n)
  BY DEF TurnResult, TurnVars
<1>4. \A o \in Asks(n) : o.type = "ASK_BF_P2C"
  BY MsgParts DEF Asks
<1>5. \A o \in net' : o \in net \/ Backed(o)
  BY <1>3, <1>4 DEF Backed
<1>6. ASSUME NEW x \in Nodes, st2[x] >= Down PROVE st[x] >= Down \/ Wanted \subseteq Holds(x)
  <2>1. CASE st[x] = Due
    <3>1. x = Root
      BY <2>1, <1>2, <1>6
    <3>2. QED
      BY <2>1, <3>1, <1>1, RootKnows
  <2>2. CASE st[x] # Due
    BY <2>2, <1>2, <1>6
  <2>3. QED
    BY <2>1, <2>2
<1>7. st2[Root] > Due
  <2>1. CASE n = Root
    BY <2>1 DEF TurnMove
  <2>2. CASE n # Root
    <3>1. st[n] = Down /\ n \in Nodes \ {Root}
      BY <2>2 DEF TurnMove
    <3>2. st[Root] >= Awaiting
      BY <3>1, <1>1, RootStage
    <3>3. st2[Root] = st[Root]
      BY <2>2, <1>2, NodesAssumption
    <3>4. st[Root] \in Nat
      BY <1>2, NodesAssumption
    <3>5. QED
      BY <3>2, <3>3, <3>4
  <2>3. QED
    BY <2>1, <2>2
<1>8. ~(st2[Root] <= Due)
  <2>1. st2[Root] \in Nat
    BY <1>2, NodesAssumption
  <2>2. QED
    BY <2>1, <1>7
<1>9. QED
  BY <1>1, <1>2, <1>3, <1>5, <1>6, <1>8, QuietStep

\* The steps of the way down that leave the stages alone.
LEMMA DataDown ==
  ASSUME NEW st, NEW Q, TypeOK, Control(st, Q), DataInv(st), CoverInv(st),
         UNCHANGED <<tuples, votes>>, \A o \in net' : o \in net \/ Backed(o),
         NEW c \in Nodes \ {Root}, st[c] >= Asked
  PROVE  DataInv(st)' /\ CoverInv(st)'
<1>1. TreeInv(st) /\ RootedInv /\ TalkInv(st)
  BY DEF Control
<1>2. Advance(st, st)
  BY <1>1 DEF TreeInv, Advance
<1>3. st[Root] >= Awaiting
  BY <1>1, RootStage
<1>4. ~(st[Root] <= Due)
  <2>1. st[Root] \in Nat
    BY <1>1, NodesAssumption, Stages
  <2>2. QED
    BY <2>1, <1>3
<1>5. QED
  BY <1>1, <1>2, <1>4, QuietStep

\* A child sends its filter.
LEMMA DataFilter ==
  ASSUME NEW st, NEW Q, TypeOK, Control(st, Q), DataInv(st), CoverInv(st),
         NEW m \in net, SendBFC2P(m)
  PROVE  DataInv(st)' /\ CoverInv(st)'
<1>1. /\ m.dst \in Nodes \ {Root} /\ st[m.dst] = Asked
      /\ net' = (net \ {m}) \cup {Msg("SEND_BF_C2P", m.dst, m.src, tuples[m.dst],
                                         Keys(votes[m.dst]))}
  BY FilterSent
<1>2. UNCHANGED <<tuples, votes>>
  BY DEF SendBFC2P, tableVars
<1>3. PICK M : M = Msg("SEND_BF_C2P", m.dst, m.src, tuples[m.dst], Keys(votes[m.dst]))
  OBVIOUS
<1>4. M.type = "SEND_BF_C2P" /\ M.src = m.dst /\ M.links = tuples[m.dst] /\ M.votes = Keys(votes[m.dst])
  BY <1>3, MsgParts
<1>5. Backed(M)
  BY <1>4 DEF Backed, Carries, Holds
<1>6. \A o \in net' : o \in net \/ Backed(o)
  BY <1>1, <1>3, <1>5
<1>7. st[m.dst] >= Asked
  BY <1>1
<1>8. QED
  BY <1>1, <1>2, <1>6, <1>7, DataDown

\* A parent sends what the filter of the child lacks.
LEMMA DataMissing ==
  ASSUME NEW st, NEW Q, TypeOK, Control(st, Q), DataInv(st), CoverInv(st),
         NEW m \in net, m.dst # NoNode, ReceivedFromChildBF(m)
  PROVE  DataInv(st)' /\ CoverInv(st)'
<1> DEFINE p == m.dst
           c == m.src
<1>1. /\ m.type = "SEND_BF_C2P" /\ c \in Nodes \ {Root}
      /\ p \in Nodes /\ st[c] = Asked /\ st[p] = Awaiting
  BY MissingSent
<1>2. PICK missing \in MissingTuples(tuples[p], m.links) :
        net' = (net \ {m}) \cup {Msg("SEND_MISSING_P2C", p, c, missing,
                                     MissingVotes(votes[p], m.votes))}
  BY MissingSent
<1>3. UNCHANGED <<tuples, votes>>
  BY DEF ReceivedFromChildBF, tableVars
<1>4. PICK M : M = Msg("SEND_MISSING_P2C", p, c, missing, MissingVotes(votes[p], m.votes))
  OBVIOUS
<1>5. /\ M.type = "SEND_MISSING_P2C" /\ M.src = p /\ M.dst = c /\ M.links = missing
      /\ M.votes = MissingVotes(votes[p], m.votes)
  BY <1>4, MsgParts
<1>6. (\A v \in votes[p] : v[2] = Vote(v[1])) /\ Wanted \subseteq Holds(p) /\ Carries(m) \subseteq Holds(c)
  BY <1>1 DEF DataInv
<1>7. /\ M.links \subseteq tuples[p] /\ M.votes \cap Neighbours(Root) = {}
      /\ \A i \in Wanted : i \in Holds(p) => i \in Carries(m) \/ i \in Carries(M)
  BY <1>5, <1>6, MissingCarries
<1> HIDE DEF p, c
<1>8. Backed(M)
  BY <1>5, <1>6, <1>7 DEF Backed
<1>9. \A o \in net' : o \in net \/ Backed(o)
  BY <1>2, <1>4, <1>8
<1>10. st[c] >= Asked
  BY <1>1
<1>11. QED
  BY <1>1, <1>3, <1>9, <1>10, DataDown

\* A node has received the missing tuples of its parent, and knows everything.
LEMMA DataTaken ==
  ASSUME NEW st, NEW Q, TypeOK, Control(st, Q), DataInv(st), CoverInv(st),
         NEW m \in net, ProcessReceivedMissingInverse(m), NEW n, n = m.dst
  PROVE  DataInv(Move(st, n, Down))' /\ CoverInv(Move(st, n, Down))'
<1> DEFINE st2 == Move(st, n, Down)
<1>1. TreeInv(st) /\ RootedInv /\ TalkInv(st)
  BY DEF Control
<1>2. /\ m.type = "SEND_MISSING_P2C" /\ n \in Nodes \ {Root} /\ st[n] = Asked
      /\ net' = (net \ {m}) \cup {Msg("SEND_MISSING_P2C_ACK", m.dst, parent[m.dst], {}, {})}
  BY MissingArrives
<1>3. /\ tuples'[n] = tuples[n] \cup m.links /\ votes'[n] = StoreVotes(votes[n], m.votes)
      /\ \A x \in Nodes \ {n} : tuples'[x] = tuples[x] /\ votes'[x] = votes[x]
  BY MissingKept
<1>4. st2[n] = Down /\ \A x \in Nodes \ {n} : st2[x] = st[x]
  BY <1>1, <1>2, MoveValues
<1> HIDE DEF st2
<1>5. Holds(n)' = Holds(n) \cup Carries(m) /\ Grows(n)
  BY <1>3, HoldsGain
<1>6. ASSUME NEW x \in Nodes \ {n} PROVE Grows(x)
  BY <1>3 DEF Grows, Holds
<1>7. \A x \in Nodes : st[x] # Out => Grows(x)
  BY <1>5, <1>6
<1>8. \A o \in net' : o \in net \/ Backed(o)'
  <2>1. PICK M : M = Msg("SEND_MISSING_P2C_ACK", m.dst, parent[m.dst], {}, {})
    OBVIOUS
  <2>2. M.type = "SEND_MISSING_P2C_ACK"
    BY <2>1, MsgParts
  <2>3. Backed(M)'
    BY <2>2 DEF Backed
  <2>4. QED
    BY <2>1, <2>3, <1>2
<1>9. ASSUME NEW x \in Nodes, st2[x] # Out PROVE \A v \in votes'[x] : v[2] = Vote(v[1])
  <2>1. st[x] # Out
    BY <1>2, <1>4, <1>9
  <2>2. \A w \in votes[x] : w[2] = Vote(w[1])
    BY <2>1 DEF DataInv
  <2>3. CASE x # n
    BY <2>2, <2>3, <1>3
  <2>4. CASE x = n
    <3>1. m.votes \cap Neighbours(Root) = {}
      BY <1>2 DEF DataInv
    <3>2. QED
      BY <2>2, <2>4, <3>1, <1>3, VotesGain
  <2>5. QED
    BY <2>3, <2>4
<1>10. ASSUME NEW x \in Nodes, st2[x] >= Down PROVE st[x] >= Down \/ Wanted \subseteq Holds(x)'
  <2>1. CASE x # n
    BY <2>1, <1>4, <1>10
  <2>2. CASE x = n
    <3>1. Wanted \subseteq Holds(n) \cup Carries(m)
      BY <1>2 DEF DataInv
    <3>2. QED
      BY <2>2, <3>1, <1>5
  <2>3. QED
    BY <2>1, <2>2
<1>11. DataInv(st2)'
  BY <1>1, <1>7, <1>8, <1>9, <1>10, DataStep
<1>12. CoverInv(st2)'
  <2>1. st[n] >= Asked /\ n # Root
    BY <1>2
  <2>2. st[Root] >= Awaiting
    BY <2>1, <1>1, <1>2, RootStage
  <2>3. st2[Root] = st[Root] /\ st[Root] \in Nat
    BY <1>1, <1>2, <1>4, NodesAssumption, Stages
  <2>4. ~(st2[Root] <= Due)
    BY <2>2, <2>3
  <2>5. QED
    BY <2>4 DEF CoverInv
<1>13. QED
  BY <1>11, <1>12 DEF st2

\* An acknowledgement arrives.
LEMMA DataAck ==
  ASSUME NEW st, NEW Q, TypeOK, Control(st, Q), DataInv(st), CoverInv(st),
         NEW m \in net, ProcessInverseAck(m)
  PROVE  DataInv(st)' /\ CoverInv(st)'
<1>1. m.type # "SEND_MISSING_C2P" /\ net' = net \ {m} /\ UNCHANGED <<tuples, votes>>
  BY DEF ProcessInverseAck, tableVars
<1>2. QED
  BY <1>1, DataDrop

\* A node writes its block.
LEMMA DataEnd ==
  ASSUME NEW st, NEW Q, TypeOK, Control(st, Q), DataInv(st), CoverInv(st),
         NEW n \in Nodes, EndMove(st, n), EndVars(n)
  PROVE  DataInv(Move(st, n, End))' /\ CoverInv(Move(st, n, End))'
<1> DEFINE st2 == Move(st, n, End)
<1>1. TreeInv(st) /\ RootedInv /\ TalkInv(st)
  BY DEF Control
<1>2. st[n] \in {Down, Awaiting}
  BY DEF EndMove
<1>3. UNCHANGED <<tuples, votes, net>>
  BY DEF EndVars
<1>4. st2[n] = End /\ \A x \in Nodes \ {n} : st2[x] = st[x]
  BY <1>1, MoveValues
<1>5. Advance(st, st2)
  <2>1. st[n] >= Gather /\ End \in Nat /\ Gather <= End /\ End <= End
    BY <1>2
  <2>2. QED
    BY <2>1, <1>1, MoveAdvance
<1> HIDE DEF st2
<1>6. \A x \in Nodes : st2[x] >= Down => st[x] >= Down
  BY <1>2, <1>4
<1>7. ~(st2[Root] <= Due)
  <2>1. CASE n = Root
    BY <2>1, <1>4
  <2>2. CASE n # Root
    <3>1. n \in Nodes \ {Root} /\ st[n] >= Asked
      BY <2>2, <1>2
    <3>2. st[Root] >= Awaiting
      BY <3>1, <1>1, RootStage
    <3>3. st2[Root] = st[Root] /\ st[Root] \in Nat
      BY <2>2, <1>1, <1>4, NodesAssumption, Stages
    <3>4. QED
      BY <3>2, <3>3
  <2>3. QED
    BY <2>1, <2>2
<1>8. \A o \in net' : o \in net
  BY <1>3
<1>9. DataInv(st2)' /\ CoverInv(st2)'
  BY <1>1, <1>3, <1>5, <1>6, <1>7, <1>8, QuietStep
<1>10. QED
  BY <1>9 DEF st2

-----------------------------------------------------------------------------
\* What a neighbour of x holds after its hello.
LEMMA HelloHolds ==
  ASSUME NEW n, NEW x, NEW a, tuples'[n] = tuples[n] \cup {{n, x}},
         votes'[n] = StoreVote(votes[n], x, a)
  PROVE  /\ Grows(n) /\ <<"link", {n, x}>> \in Holds(n)' /\ <<"vote", x>> \in Holds(n)'
<1>1. ASSUME NEW k \in Keys(votes[n]) PROVE k \in Keys(votes'[n])
  <2>1. PICK v \in votes[n] : v[1] = k
    BY DEF Keys
  <2>2. CASE k = x
    <3>1. <<x, a>> \in votes'[n] /\ <<x, a>>[1] = x
      BY DEF StoreVote
    <3>2. QED
      BY <2>2, <3>1 DEF Keys
  <2>3. CASE k # x
    BY <2>1, <2>3 DEF StoreVote, Keys
  <2>4. QED
    BY <2>2, <2>3
<1>2. x \in Keys(votes'[n])
  <2>1. <<x, a>> \in votes'[n] /\ <<x, a>>[1] = x
    BY DEF StoreVote
  <2>2. QED
    BY <2>1 DEF Keys
<1>3. Keys(votes[n])' = Keys(votes'[n])
  BY DEF Keys
<1>4. {n, x} \in tuples'[n] /\ tuples[n] \subseteq tuples'[n]
  OBVIOUS
<1>5. Holds(n)' = {<<"link", e>> : e \in tuples'[n]} \cup {<<"vote", k>> : k \in Keys(votes'[n])}
  BY DEF Holds, Keys
<1>6. Holds(n) = {<<"link", e>> : e \in tuples[n]} \cup {<<"vote", k>> : k \in Keys(votes[n])}
  BY DEF Holds
<1>7. Holds(n) \subseteq Holds(n)'
  BY <1>1, <1>4, <1>5, <1>6
<1>8. <<"link", {n, x}>> \in Holds(n)' /\ <<"vote", x>> \in Holds(n)'
  BY <1>2, <1>4, <1>5
<1>9. QED
  BY <1>4, <1>7, <1>8 DEF Grows

\* What a hello teaches its hearers.
LEMMA HelloLearnt ==
  ASSUME NEW st, NEW x \in Nodes, NEW m, HelloVars(st, x, m)
  PROVE  /\ \A n \in Nodes \ Newcomers(st, x) : Grows(n)
         /\ \A n \in Neighbours(x) : <<"link", {n, x}>> \in Holds(n)' /\ <<"vote", x>> \in Holds(n)'
<1>1. ASSUME NEW n \in Nodes \ Newcomers(st, x)
      PROVE  /\ Grows(n)
             /\ n \in Neighbours(x) => <<"link", {n, x}>> \in Holds(n)' /\ <<"vote", x>> \in Holds(n)'
  <2>1. OldVars(n, x)
    BY DEF HelloVars
  <2>2. CASE n \in Neighbours(x)
    <3>1. tuples'[n] = tuples[n] \cup {{n, x}} /\ votes'[n] = StoreVote(votes[n], x, Vote(x))
      BY <2>1, <2>2 DEF OldVars
    <3>2. QED
      BY <3>1, HelloHolds
  <2>3. CASE n \notin Neighbours(x)
    <3>1. tuples'[n] = tuples[n] /\ votes'[n] = votes[n]
      BY <2>1, <2>3 DEF OldVars
    <3>2. QED
      BY <2>3, <3>1 DEF Grows, Holds
  <2>4. QED
    BY <2>2, <2>3
<1>2. ASSUME NEW n \in Newcomers(st, x)
      PROVE  <<"link", {n, x}>> \in Holds(n)' /\ <<"vote", x>> \in Holds(n)'
  <2>1. tuples'[n] = {{n, x}} /\ votes'[n] = {<<x, Vote(x)>>}
    BY DEF HelloVars, NewVars
  <2>2. {n, x} \in tuples'[n] /\ <<x, Vote(x)>> \in votes'[n] /\ <<x, Vote(x)>>[1] = x
    BY <2>1
  <2>3. x \in Keys(votes'[n])
    BY <2>2 DEF Keys
  <2>4. Holds(n)' = {<<"link", e>> : e \in tuples'[n]} \cup {<<"vote", k>> : k \in Keys(votes'[n])}
    BY DEF Holds, Keys
  <2>5. QED
    BY <2>2, <2>3, <2>4
<1>3. \A n \in Neighbours(x) : n \in Nodes
  BY DEF Neighbours
<1>4. QED
  BY <1>1, <1>2, <1>3

\* The tables after the hello of x has been heard.
LEMMA DataHello ==
  ASSUME NEW st, NEW Q, TypeOK, Nominal, Control(st, Q), DataInv(st), CoverInv(st),
         NEW x \in Nodes, NEW st2, HelloMove(st, st2, x), NEW m, HelloVars(st, x, m)
  PROVE  DataInv(st2)' /\ CoverInv(st2)'
<1> DEFINE A == Newcomers(st, x)
<1>1. TreeInv(st) /\ RootedInv /\ TalkInv(st)
  BY DEF Control
<1>2. /\ st[x] = Hello /\ st2 \in [Nodes -> Nat] /\ st2[x] = Gather
      /\ \A n \in A : st2[n] = Hello
      /\ \A n \in Nodes : n # x /\ n \notin A => st2[n] = st[n]
  BY DEF HelloMove
<1>3. HelloPhase(st, x)
  BY <1>1, <1>2, HelloTime
<1>4. /\ \A n \in Nodes : st[n] \in Nat /\ st[n] < Asked
      /\ x # Root => parent[x] \in Nodes /\ st[parent[x]] = Gather /\ parent[x] \in Neighbours(x)
      /\ \A n \in A : n \in Nodes \ {Root} /\ n # x /\ st[n] = Out
  BY <1>3 DEF HelloPhase
<1>5. /\ \A n \in Nodes \ A : Grows(n)
      /\ \A n \in Neighbours(x) : <<"link", {n, x}>> \in Holds(n)' /\ <<"vote", x>> \in Holds(n)'
  BY HelloLearnt
<1>6. /\ \A o : o.type \notin HelloTypes => (o \in net' <=> o \in net)
  BY HelloTalks
<1>7. (\A n \in A : NewVars(n, x)) /\ (\A n \in Nodes \ A : OldVars(n, x))
  BY DEF HelloVars
<1>8. \A y \in Neighbours(x) : y \in Nodes /\ (y \in A \/ st[y] # Out)
  BY DEF Newcomers, Neighbours
<1> HIDE DEF A
<1>9. \A n \in Nodes : st[n] # Out => Grows(n)
  BY <1>4, <1>5
<1>10. ASSUME NEW o \in net' PROVE o \in net \/ Backed(o)'
  <2>1. CASE o.type \in HelloTypes
    BY <2>1 DEF Backed, HelloTypes
  <2>2. QED
    BY <2>1, <1>6
<1>11. ASSUME NEW n \in Nodes, st2[n] # Out, NEW v \in votes'[n] PROVE v[2] = Vote(v[1])
  <2>1. v = <<x, Vote(x)>> => v[2] = Vote(v[1])
    OBVIOUS
  <2>2. CASE n \in A
    <3>1. votes'[n] = {<<x, Vote(x)>>}
      BY <2>2, <1>7 DEF NewVars
    <3>2. QED
      BY <2>1, <3>1, <1>11
  <2>3. CASE n \notin A
    <3>1. st[n] # Out
      BY <2>3, <1>2, <1>11
    <3>2. \A w \in votes[n] : w[2] = Vote(w[1])
      BY <3>1 DEF DataInv
    <3>3. votes'[n] = votes[n] \/ votes'[n] = StoreVote(votes[n], x, Vote(x))
      BY <2>3, <1>7 DEF OldVars
    <3>4. v \in votes[n] \/ v = <<x, Vote(x)>>
      BY <3>3, <1>11 DEF StoreVote
    <3>5. QED
      BY <2>1, <3>2, <3>4
  <2>4. QED
    BY <2>2, <2>3
<1>12. ASSUME NEW n \in Nodes, st2[n] >= Down PROVE st[n] >= Down \/ Wanted \subseteq Holds(n)'
  BY <1>2, <1>12
<1>13. DataInv(st2)'
  BY <1>1, <1>9, <1>10, <1>11, <1>12, DataStep
<1>14. "SEND_MISSING_C2P" \notin HelloTypes
  BY DEF HelloTypes
<1>15. \A z : Reports(z)' <=> Reports(z)
  BY <1>6, <1>14 DEF Reports
<1>16. ASSUME NEW i, Carried(st, i) PROVE Carried(st2, i)'
  <2>1. ASSUME NEW z \in Nodes, st[z] # Out, st[z] <= Served, ~Reports(z)
        PROVE  st2[z] # Out /\ st2[z] <= Served /\ ~Reports(z)' /\ Holds(z) \subseteq Holds(z)'
    <3>1. z \notin A
      BY <2>1, <1>4
    <3>2. st2[z] # Out /\ st2[z] <= Served
      BY <2>1, <3>1, <1>2
    <3>3. QED
      BY <2>1, <3>2, <1>9, <1>15 DEF Grows
  <2>2. \A o \in net : o.type = "SEND_MISSING_C2P" => o \in net'
    BY <1>6, <1>14
  <2>3. QED
    BY <2>1, <2>2, <1>16, CarriedStep
\* A node in the tree that has not reported carries what it holds.
<1>17. ASSUME NEW z \in Nodes, st2[z] # Out, st2[z] <= Served, ~Reports(z), NEW i, i \in Holds(z)'
       PROVE  Carried(st2, i)'
  BY <1>15, <1>17 DEF Carried
<1>18. \A z \in Nodes : st[z] # Served => ~Reports(z)
  BY <1>1, NotReporting
<1>19. st2[Root] <= Due => st[Root] <= Due
  <2>1. Root \notin A
    BY <1>4
  <2>2. QED
    BY <2>1, <1>2, NodesAssumption
<1>20. ASSUME NEW y \in Neighbours(x), st2[Root] <= Due, <<"link", {x, y}>> \in Wanted
       PROVE  Carried(st2, <<"link", {x, y}>>)'
  <2>1. {x, y} = {y, x} /\ y \in Nodes
    BY <1>8
  <2>2. <<"link", {x, y}>> \in Holds(y)'
    BY <2>1, <1>5
  <2>3. CASE y \in A
    <3>1. st2[y] = Hello /\ st[y] = Out
      BY <2>3, <1>2, <1>4
    <3>2. ~Reports(y)
      BY <3>1, <2>1, <1>18
    <3>3. QED
      BY <2>1, <2>2, <3>1, <3>2, <1>17
  <2>4. CASE y \notin A /\ st[y] <= Served /\ ~Reports(y)
    <3>1. st2[y] # Out /\ st2[y] <= Served
      BY <2>1, <2>4, <1>2, <1>8
    <3>2. QED
      BY <2>1, <2>2, <2>4, <3>1, <1>17
  <2>5. CASE y \notin A /\ ~(st[y] <= Served /\ ~Reports(y))
    <3>1. st[y] >= Gather
      <4>1. st[y] = Served \/ ~(st[y] <= Served)
        BY <2>1, <2>5, <1>18
      <4>2. QED
        BY <2>1, <4>1, <1>4
    <3>2. x \in Neighbours(y)
      BY <2>1 DEF Neighbours
    <3>3. <<"link", {x, y}>> \in About(y)
      BY <2>1, <3>2 DEF About
    <3>4. Carried(st, <<"link", {x, y}>>)
      BY <2>1, <3>1, <3>3, <1>19, <1>20 DEF CoverInv
    <3>5. QED
      BY <3>4, <1>16
  <2>6. QED
    BY <2>3, <2>4, <2>5
<1>21. ASSUME <<"vote", x>> \in Wanted PROVE Carried(st2, <<"vote", x>>)'
  <2>1. CASE x # Root
    <3>1. PICK p : p = parent[x]
      OBVIOUS
    <3>2. p \in Nodes /\ st[p] = Gather /\ p \in Neighbours(x) /\ p \notin A
      BY <2>1, <3>1, <1>4
    <3>3. st2[p] # Out /\ st2[p] <= Served /\ ~Reports(p)
      BY <3>2, <1>2, <1>18
    <3>4. <<"vote", x>> \in Holds(p)'
      BY <3>2, <1>5
    <3>5. QED
      BY <3>2, <3>3, <3>4, <1>17
  <2>2. CASE x = Root
    <3>1. {Root} \in SUBSET Nodes /\ Root \in {Root} /\ {Root} # Nodes
      BY NodesAssumption DEF Nominal
    <3>2. PICK y \in Nodes \ {Root} : {Root, y} \in Edges
      BY <3>1 DEF Nominal
    <3>3. y \in Neighbours(x)
      BY <2>2, <3>2 DEF Neighbours
    <3>4. st[y] = Out
      BY <2>2, <3>2, <1>1, <1>2 DEF TreeInv
    <3>5. y \in A
      BY <3>3, <3>4, <1>8
    <3>6. st2[y] = Hello /\ ~Reports(y)
      BY <3>2, <3>4, <3>5, <1>2, <1>18
    <3>7. <<"vote", x>> \in Holds(y)'
      BY <3>3, <1>5
    <3>8. QED
      BY <3>2, <3>6, <3>7, <1>17
  <2>3. QED
    BY <2>1, <2>2
<1>22. ASSUME st2[Root] <= Due, NEW y \in Nodes, st2[y] >= Gather, NEW i \in Wanted \cap About(y)
       PROVE  Carried(st2, i)'
  <2>1. CASE y = x
    BY <2>1, <1>20, <1>21, <1>22 DEF About
  <2>2. CASE y # x
    <3>1. y \notin A
      BY <1>2, <1>22
    <3>2. st[y] >= Gather
      BY <2>2, <3>1, <1>2, <1>22
    <3>3. Carried(st, i)
      BY <3>2, <1>19, <1>22 DEF CoverInv
    <3>4. QED
      BY <3>3, <1>16
  <2>3. QED
    BY <2>1, <2>2
<1>23. Wanted' = Wanted /\ \A y : About(y)' = About(y)
  BY DEF Wanted, About, Neighbours
<1>24. CoverInv(st2)'
  BY <1>22, <1>23 DEF CoverInv
<1>25. QED
  BY <1>13, <1>24

-----------------------------------------------------------------------------
(***************************************************************************)
(* The blocks.                                                             *)
(***************************************************************************)
LEMMA ChainStep ==
  ASSUME NEW st, NEW st2, ChainInv(st), UNCHANGED <<chain, round>>,
         \A n \in Nodes : st2[n] = End <=> st[n] = End
  PROVE  ChainInv(st2)'
<1>1. \A n \in Nodes : Neighbours(n)' = Neighbours(n) /\ Neighbours(Root)' = Neighbours(Root)
  BY DEF Neighbours
<1>2. QED
  BY <1>1 DEF ChainInv, Neighbours

\* A node that writes its block knows every link and every vote that counts.
LEMMA FullBlock ==
  ASSUME NEW st, TypeOK, DataInv(st), NEW n \in Nodes, st[n] >= Down
  PROVE  /\ Packets(votes[n]) \ {NoNode} = Nodes \ Neighbours(Root)
         /\ ~FalsePositives => tuples[n] = Edges
<1>1. Wanted \subseteq Holds(n) /\ st[n] # Out
  BY DEF DataInv
<1>2. \A v \in votes[n] : v[2] = Vote(v[1])
  BY <1>1 DEF DataInv
<1>3. votes[n] \in SUBSET (Authors \X Authors) /\ tuples[n] \subseteq Edges
  BY DEF TypeOK
<1>4. ASSUME NEW k \in Nodes \ Neighbours(Root) PROVE k \in Packets(votes[n]) \ {NoNode}
  <2>1. <<"vote", k>> \in Holds(n)
    BY <1>1 DEF Wanted
  <2>2. k \in Keys(votes[n])
    BY <2>1 DEF Holds
  <2>3. PICK v \in votes[n] : v[1] = k
    BY <2>2 DEF Keys
  <2>4. v[2] = k
    BY <2>3, <1>2 DEF Vote
  <2>5. k # NoNode
    BY NodesAssumption
  <2>6. QED
    BY <2>4, <2>5 DEF Packets
<1>5. ASSUME NEW k \in Packets(votes[n]) \ {NoNode} PROVE k \in Nodes \ Neighbours(Root)
  <2>1. PICK v \in votes[n] : v[2] = k
    BY DEF Packets
  <2>2. v[1] \in Authors /\ v[2] \in Authors
    BY <1>3
  <2>3. k = Vote(v[1])
    BY <2>1, <1>2
  <2>4. k \notin Neighbours(Root)
    BY <2>3, VoteFar
  <2>5. QED
    BY <2>1, <2>2, <2>4 DEF Authors
<1>6. ASSUME ~FalsePositives, NEW e \in Edges PROVE e \in tuples[n]
  <2>1. <<"link", e>> \in Holds(n)
    BY <1>1, <1>6 DEF Wanted
  <2>2. QED
    BY <2>1 DEF Holds
<1>7. QED
  BY <1>3, <1>4, <1>5, <1>6

\* The chains after a node has written its block.
LEMMA ChainEnd ==
  ASSUME NEW st, NEW Q, TypeOK, Control(st, Q), DataInv(st), ChainInv(st), round > 0,
         NEW n \in Nodes, EndMove(st, n), EndVars(n), UNCHANGED round
  PROVE  ChainInv(Move(st, n, End))'
<1> DEFINE st2 == Move(st, n, End)
           B == [round |-> round, links |-> tuples[n], votes |-> Packets(votes[n]) \ {NoNode}]
<1>1. TreeInv(st)
  BY DEF Control
<1>2. st[n] \in {Down, Awaiting} /\ st[n] # End /\ st[n] >= Down
  BY DEF EndMove
<1>3. st2[n] = End /\ \A x \in Nodes \ {n} : st2[x] = st[x]
  BY <1>1, MoveValues
<1>4. chain \in [Nodes -> Seq(Block)] /\ round \in Nat
  BY DEF TypeOK
<1>5. chain' = [chain EXCEPT ![n] = Append(@, B)]
  BY DEF EndVars, WriteBlock
<1>6. B.round = round /\ B.votes = Nodes \ Neighbours(Root) /\ (~FalsePositives => B.links = Edges)
  BY <1>2, FullBlock
<1> HIDE DEF st2, B
<1>7. chain'[n] = Append(chain[n], B) /\ \A x \in Nodes \ {n} : chain'[x] = chain[x]
  BY <1>4, <1>5
<1>8. chain[n] \in Seq(Block)
  BY <1>4
<1>9. Len(chain[n]) = round - 1
  BY <1>2 DEF ChainInv
<1>10. /\ Len(chain'[n]) = round /\ chain'[n][round] = B
       /\ \A i \in 1..Len(chain[n]) : chain'[n][i] = chain[n][i]
  BY <1>4, <1>7, <1>8, <1>9
<1>11. ASSUME NEW i \in 1..Len(chain'[n])
       PROVE  /\ chain'[n][i].round = i /\ chain'[n][i].votes = Nodes \ Neighbours(Root)
              /\ ~FalsePositives => chain'[n][i].links = Edges
  <2>1. CASE i = round
    BY <2>1, <1>6, <1>10
  <2>2. CASE i # round
    <3>1. i \in 1..Len(chain[n])
      BY <2>2, <1>4, <1>9, <1>10
    <3>2. QED
      BY <3>1, <1>10 DEF ChainInv
  <2>3. QED
    BY <2>1, <2>2
<1>12. Neighbours(Root)' = Neighbours(Root)
  BY DEF Neighbours
<1>13. ChainInv(st2)'
  <2>1. ASSUME NEW x \in Nodes
        PROVE  /\ Len(chain'[x]) = IF st2[x] = End THEN round' ELSE round' - 1
               /\ \A i \in 1..Len(chain'[x]) :
                    /\ chain'[x][i].round = i
                    /\ chain'[x][i].votes = Nodes \ Neighbours(Root)
                    /\ ~FalsePositives => chain'[x][i].links = Edges
    <3>1. CASE x = n
      BY <3>1, <1>3, <1>10, <1>11
    <3>2. CASE x # n
      BY <3>2, <1>3, <1>7 DEF ChainInv
    <3>3. QED
      BY <3>1, <3>2
  <2>2. QED
    BY <2>1, <1>12 DEF ChainInv
<1>14. QED
  BY <1>13 DEF st2

-----------------------------------------------------------------------------
(***************************************************************************)
(* The invariant of a round, and that every step of one keeps it.          *)
(***************************************************************************)
Reconciling(st, Q) ==
  /\ Control(st, Q) /\ DataInv(st) /\ CoverInv(st) /\ ChainInv(st)
  /\ round > 0

Underway == \E st, Q : Reconciling(st, Q)

RoundInv == TypeOK /\ ServiceInv /\ FlagInv /\ (Init \/ Underway)

\* A step that leads to such stages keeps the invariant.
LEMMA Lasts ==
  ASSUME NEW st, NEW Q, NEW st2, NEW Q2, TypeOK, Reconciling(st, Q),
         Control(st2, Q2)', DataInv(st2)', CoverInv(st2)',
         \/ ChainInv(st2)'
         \/ UNCHANGED chain /\ \A n \in Nodes : st2[n] = End <=> st[n] = End,
         UNCHANGED round
  PROVE  Underway'
<1>1. ChainInv(st2)'
  BY ChainStep DEF Reconciling
<1>2. round' > 0
  BY DEF Reconciling, TypeOK
<1>3. Reconciling(st2, Q2)'
  BY <1>1, <1>2 DEF Reconciling
<1>4. QED
  BY <1>3 DEF Underway

\* The hello of the root starts a round in which nobody knows anything.
LEMMA Started ==
  ASSUME TypeOK, TypeOK', StartVars, RootedInv', UNCHANGED chain, round' = round + 1,
         NEW st, \A n \in Nodes : Len(chain[n]) = round, ChainInv(st) \/ round = 0
  PROVE  Underway'
<1>1. /\ Begin \in [Nodes -> Nat] /\ Begin[Root] = Hello
      /\ \A n \in Nodes \ {Root} : Begin[n] = Out
      /\ \A n \in Nodes : Begin[n] <= Hello
  BY BeginStages
<1>2. Control(Begin, {})'
  BY StartControl
<1>3. DataInv(Begin)'
  <2>1. net' = {RootHello} /\ RootHello.type = "ROOT_SR_HELLO"
    BY MsgParts DEF StartVars, RootHello
  <2>2. \A n \in Nodes : Begin[n] # Out => n = Root
    BY <1>1
  <2>3. votes'[Root] = {}
    BY DEF StartVars
  <2>4. \A n \in Nodes : ~(Begin[n] >= Down)
    BY <1>1
  <2> HIDE DEF Begin
  <2>5. QED
    BY <2>1, <2>2, <2>3, <2>4 DEF DataInv
<1>4. CoverInv(Begin)'
  <2>1. \A n \in Nodes : ~(Begin[n] >= Gather)
    BY <1>1
  <2> HIDE DEF Begin
  <2>2. QED
    BY <2>1 DEF CoverInv
<1>5. ChainInv(Begin)'
  <2>1. round \in Nat
    BY DEF TypeOK
  <2>2. ASSUME NEW n \in Nodes PROVE Begin[n] # End /\ Len(chain'[n]) = round' - 1
    BY <1>1, <2>1
  <2>3. ASSUME NEW n \in Nodes, NEW i \in 1..Len(chain'[n])
        PROVE  /\ chain'[n][i].round = i
               /\ chain'[n][i].votes = Nodes \ Neighbours(Root)
               /\ ~FalsePositives => chain'[n][i].links = Edges
    <3>1. i \in 1..Len(chain[n]) /\ Len(chain[n]) = round
      BY <2>3
    <3>2. round # 0
      BY <3>1
    <3>3. QED
      BY <3>1, <3>2 DEF ChainInv
  <2> HIDE DEF Begin
  <2>4. QED
    BY <2>2, <2>3 DEF ChainInv
<1>6. round' > 0
  BY DEF TypeOK
<1>7. Reconciling(Begin, {})'
  BY <1>2, <1>3, <1>4, <1>5, <1>6 DEF Reconciling
<1>8. QED
  BY <1>7 DEF Underway

\* The first hello of the root.
LEMMA BeginsFirst ==
  ASSUME TypeOK, TypeOK', Init, StartTopologyBuilding
  PROVE  Underway'
<1>1. StartVars /\ RootedInv'
  BY FirstRound
<1>2. UNCHANGED chain /\ round' = round + 1
  BY DEF StartTopologyBuilding
<1>3. round = 0 /\ \A n \in Nodes : Len(chain[n]) = round
  BY DEF Init
<1>4. QED
  BY <1>1, <1>2, <1>3, Started

\* The hello that follows the last block of a round.
LEMMA BeginsNext ==
  ASSUME NEW st, NEW Q, TypeOK, TypeOK', Nominal, ServiceInv, Reconciling(st, Q),
         StartTopologyBuilding
  PROVE  Underway'
<1>1. Control(st, Q) /\ ChainInv(st)
  BY DEF Reconciling
<1>2. (\A n \in Nodes : st[n] = End) /\ StartVars /\ RootedInv'
  BY <1>1, NextRound
<1>3. UNCHANGED chain /\ round' = round + 1
  BY DEF StartTopologyBuilding
<1>4. \A n \in Nodes : Len(chain[n]) = round
  BY <1>1, <1>2 DEF ChainInv
<1>5. QED
  BY <1>1, <1>2, <1>3, <1>4, Started

\* The hello of a node is heard by all its neighbours.
LEMMA AnyHelloHeard ==
  ASSUME NEW st, NEW Q, TypeOK, Nominal, Control(st, Q), NEW m \in net, ReceiveHello(m)
  PROVE  \E x : /\ x \in Nodes /\ st[x] = Hello /\ HelloVars(st, x, m)
                /\ UNCHANGED <<chain, round, losses, early>>
<1>1. PICK R \in SUBSET Nodes : ProcessRootHello(m, R) \/ ProcessSRHello(m, R)
  BY DEF ReceiveHello
<1>2. CASE ProcessRootHello(m, R)
  BY <1>2, RootHelloHeard, NodesAssumption
<1>3. CASE ProcessSRHello(m, R)
  <2>1. PICK x : x = m.src
    OBVIOUS
  <2>2. x \in Nodes /\ st[x] = Hello /\ HelloVars(st, x, m)
        /\ UNCHANGED <<chain, round, losses, early>>
    BY <2>1, <1>3, SRHelloHeard
  <2>3. QED
    BY <2>2
<1>4. QED
  BY <1>1, <1>2, <1>3

\* A hello is heard.
LEMMA KeptByAnyHello ==
  ASSUME NEW st, NEW Q, TypeOK, TypeOK', Nominal, Reconciling(st, Q),
         NEW m \in net, ReceiveHello(m)
  PROVE  Underway'
<1>1. Control(st, Q) /\ DataInv(st) /\ CoverInv(st)
  BY DEF Reconciling
<1>2. RootedInv /\ TreeInv(st)
  BY <1>1 DEF Control
<1>4. PICK x : x \in Nodes /\ st[x] = Hello /\ HelloVars(st, x, m)
               /\ UNCHANGED <<chain, round, losses, early>>
  BY <1>1, AnyHelloHeard
<1>5. PICK st2 : HelloMove(st, st2, x)
  BY <1>2, <1>4, HelloMoves
<1>6. Control(st2, Q)'
  BY <1>1, <1>4, <1>5, HelloTaken
<1>7. DataInv(st2)' /\ CoverInv(st2)'
  BY <1>1, <1>4, <1>5, DataHello
<1>8. \A n \in Nodes : st2[n] = End <=> st[n] = End
  BY <1>5 DEF HelloMove, Newcomers
<1>9. QED
  BY <1>4, <1>6, <1>7, <1>8, Lasts

\* A stage changes between two that are not the last.
LEMMA SameEnd ==
  ASSUME NEW st, TreeInv(st), NEW n \in Nodes, st[n] # End, NEW v, v # End
  PROVE  \A x \in Nodes : Move(st, n, v)[x] = End <=> st[x] = End
BY MoveValues

\* The slot of a node without children ends, and the node asks its parent.
LEMMA KeptByNew ==
  ASSUME NEW st, NEW Q, TypeOK, TypeOK', Reconciling(st, Q), NEW n \in Nodes, NoChildrenNew(n)
  PROVE  Underway'
<1>1. Control(st, Q) /\ DataInv(st) /\ CoverInv(st) /\ TreeInv(st)
  BY DEF Reconciling, Control
<1>2. n # Root /\ st[n] = Gather
  BY <1>1, NewLeaf
<1>3. NoChildren(n) /\ UNCHANGED <<tuples, votes, round>>
  BY DEF NoChildrenNew, tableVars
<1>4. UNCHANGED chain
  BY <1>2, <1>3 DEF NoChildren
<1>5. PICK Q2 : Q2 = Q \cup (Ancestors(n) \cap Nodes)
  OBVIOUS
<1>6. Control(Move(st, n, Asking), Q2)'
  BY <1>1, <1>5, NewStep
<1>7. DataInv(Move(st, n, Asking))' /\ CoverInv(Move(st, n, Asking))'
  BY <1>1, <1>2, <1>3, DataAsk
<1>8. \A x \in Nodes : Move(st, n, Asking)[x] = End <=> st[x] = End
  BY <1>1, <1>2, SameEnd
<1>9. PICK st2 : st2 = Move(st, n, Asking)
  OBVIOUS
<1>10. Control(st2, Q2)' /\ DataInv(st2)' /\ CoverInv(st2)'
       /\ \A x \in Nodes : st2[x] = End <=> st[x] = End
  BY <1>6, <1>7, <1>8, <1>9
<1>11. QED
  BY <1>3, <1>4, <1>10, Lasts

\* All children of a node have reported, and it turns to its parent or, the
\* root, to its children.
LEMMA KeptByDue ==
  ASSUME NEW st, NEW Q, TypeOK, TypeOK', Nominal, Reconciling(st, Q),
         NEW n \in Nodes, NoChildrenDue(n)
  PROVE  Underway'
<1>1. Control(st, Q) /\ DataInv(st) /\ CoverInv(st) /\ TreeInv(st) /\ TimerInv(st)
  BY DEF Reconciling, Control
<1>2. st[n] = Due /\ NoChildren(n) /\ UNCHANGED <<tuples, votes, round>>
  BY <1>1 DEF TimerInv, NoChildrenDue, tableVars
<1>3. CASE n = Root
  <2>1. NoChildrenDue(Root)
    BY <1>3
  <2>2. TurnResult(st, Root)
    BY <2>1, <1>1, TurnRoot
  <2>3. PICK st2 : TurnMove(st, st2, Root) /\ Control(st2, Q)'
    BY <2>1, <1>1, TurnRoot
  <2>4. DataInv(st2)' /\ CoverInv(st2)'
    BY <2>2, <2>3, <1>1, DataTurn, NodesAssumption
  <2>5. \A x \in Nodes : st2[x] = End <=> st[x] = End
    BY <2>3 DEF TurnMove
  <2>6. UNCHANGED chain
    BY <2>2 DEF TurnResult
  <2>7. QED
    BY <2>3, <2>4, <2>5, <2>6, <1>2, Lasts
<1>4. CASE n # Root
  <2>1. UNCHANGED chain
    BY <1>2, <1>4 DEF NoChildren
  <2>2. Control(Move(st, n, Asking), Q)'
    BY <1>1, <1>4, DueStep
  <2>3. DataInv(Move(st, n, Asking))' /\ CoverInv(Move(st, n, Asking))'
    BY <1>1, <1>2, <1>4, DataAsk
  <2>4. \A x \in Nodes : Move(st, n, Asking)[x] = End <=> st[x] = End
    BY <1>1, <1>2, SameEnd
  <2>5. PICK st2 : st2 = Move(st, n, Asking)
    OBVIOUS
  <2>6. Control(st2, Q)' /\ DataInv(st2)' /\ CoverInv(st2)'
        /\ \A x \in Nodes : st2[x] = End <=> st[x] = End
    BY <2>2, <2>3, <2>4, <2>5
  <2>7. QED
    BY <1>2, <2>1, <2>6, Lasts
<1>5. QED
  BY <1>3, <1>4

\* A child asks for a filter.
LEMMA KeptByAsk ==
  ASSUME NEW st, NEW Q, TypeOK, TypeOK', ServiceInv, Reconciling(st, Q),
         NEW m \in net, SendToChildBF(m) \/ EnqueueChild(m)
  PROVE  Underway'
<1>1. Control(st, Q) /\ DataInv(st) /\ CoverInv(st) /\ TreeInv(st)
  BY DEF Reconciling, Control
<1>2. m.type = "ASK_BF"
  BY DEF SendToChildBF, EnqueueChild
<1>3. UNCHANGED <<tuples, votes, chain, round>>
  BY DEF SendToChildBF, EnqueueChild, tableVars
<1>4. m.src \in Nodes /\ st[m.src] = Asking
  BY <1>1, <1>2, AskArrives
<1>5. CASE SendToChildBF(m)
  <2>1. /\ Control(Move(st, m.src, Served), Q)'
        /\ net' = (net \ {m}) \cup {Msg("SEND_BF", m.dst, m.src, tuples[m.dst],
                                        Keys(votes[m.dst]))}
    BY <1>1, <1>5, ServeChild
  <2>2. DataInv(Move(st, m.src, Served))' /\ CoverInv(Move(st, m.src, Served))'
    BY <2>1, <1>1, <1>2, <1>3, DataServe
  <2>3. \A x \in Nodes : Move(st, m.src, Served)[x] = End <=> st[x] = End
    BY <1>1, <1>4, SameEnd
  <2>4. PICK st2 : st2 = Move(st, m.src, Served)
    OBVIOUS
  <2>5. Control(st2, Q)' /\ DataInv(st2)' /\ CoverInv(st2)'
        /\ \A x \in Nodes : st2[x] = End <=> st[x] = End
    BY <2>1, <2>2, <2>3, <2>4
  <2>6. QED
    BY <1>3, <2>5, Lasts
<1>6. CASE EnqueueChild(m)
  <2>1. Control(st, Q)' /\ net' = net \ {m}
    BY <1>1, <1>6, QueueChild
  <2>2. DataInv(st)' /\ CoverInv(st)'
    BY <2>1, <1>1, <1>2, <1>3, DataDrop
  <2>3. QED
    BY <2>1, <2>2, <1>3, Lasts
<1>7. QED
  BY <1>5, <1>6

\* The other messages of the way up arrive.
LEMMA KeptByUp ==
  ASSUME NEW st, NEW Q, TypeOK, TypeOK', ServiceInv, Reconciling(st, Q),
         NEW m \in net, ReceivedFromParentBF(m) \/ ProcessReceivedMissing(m)
  PROVE  Underway'
<1>1. Control(st, Q) /\ DataInv(st) /\ CoverInv(st)
  BY DEF Reconciling
<1>2. UNCHANGED <<chain, round>>
  BY DEF ReceivedFromParentBF, ProcessReceivedMissing
<1>3. CASE ReceivedFromParentBF(m)
  <2>1. Control(st, Q)'
    BY <1>1, <1>3, ReportStep
  <2>2. DataInv(st)' /\ CoverInv(st)'
    BY <2>1, <1>1, <1>3, DataReport
  <2>3. QED
    BY <2>1, <2>2, <1>2, Lasts
<1>4. CASE ProcessReceivedMissing(m)
  <2>1. PICK st2 : /\ Control(st2, Q)' /\ DataInv(st2)' /\ CoverInv(st2)'
                   /\ \A n \in Nodes : st2[n] = End <=> st[n] = End
    BY <1>1, <1>4, ReportTaken
  <2>2. QED
    BY <2>1, <1>2, Lasts
<1>5. QED
  BY <1>3, <1>4

\* The messages of the way down arrive.
LEMMA KeptByDown ==
  ASSUME NEW st, NEW Q, TypeOK, TypeOK', Reconciling(st, Q), NEW m \in net, m.dst # NoNode,
         \/ SendBFC2P(m)
         \/ ReceivedFromChildBF(m)
         \/ ProcessReceivedMissingInverse(m)
         \/ ProcessInverseAck(m)
  PROVE  Underway'
<1>1. Control(st, Q) /\ DataInv(st) /\ CoverInv(st) /\ TreeInv(st)
  BY DEF Reconciling, Control
<1>2. UNCHANGED <<chain, round>>
  BY DEF SendBFC2P, ReceivedFromChildBF, ProcessReceivedMissingInverse, ProcessInverseAck
<1>3. CASE SendBFC2P(m)
  <2>1. Control(st, Q)'
    BY <1>1, <1>3, FilterStep
  <2>2. DataInv(st)' /\ CoverInv(st)'
    BY <1>1, <1>3, DataFilter
  <2>3. QED
    BY <2>1, <2>2, <1>2, Lasts
<1>4. CASE ReceivedFromChildBF(m)
  <2>1. Control(st, Q)'
    BY <1>1, <1>4, MissingStep
  <2>2. DataInv(st)' /\ CoverInv(st)'
    BY <1>1, <1>4, DataMissing
  <2>3. QED
    BY <2>1, <2>2, <1>2, Lasts
<1>5. CASE ProcessReceivedMissingInverse(m)
  <2>1. m.dst \in Nodes /\ st[m.dst] = Asked
    BY <1>1, <1>5, MissingArrives
  <2> DEFINE n == m.dst
  <2>2. n = m.dst /\ n \in Nodes /\ st[n] = Asked
    BY <2>1
  <2> HIDE DEF n
  <2>3. Control(Move(st, n, Down), Q)'
    BY <2>2, <1>1, <1>5, MissingTaken
  <2>4. DataInv(Move(st, n, Down))' /\ CoverInv(Move(st, n, Down))'
    BY <2>2, <1>1, <1>5, DataTaken
  <2>5. \A x \in Nodes : Move(st, n, Down)[x] = End <=> st[x] = End
    BY <2>2, <1>1, SameEnd
  <2>6. PICK c : c = n
    OBVIOUS
  <2>7. QED
    BY <2>3, <2>4, <2>5, <2>6, <1>2, Lasts
<1>6. CASE ProcessInverseAck(m)
  <2>1. Control(st, Q)'
    BY <1>1, <1>6, AckArrives
  <2>2. DataInv(st)' /\ CoverInv(st)'
    BY <1>1, <1>6, DataAck
  <2>3. QED
    BY <2>1, <2>2, <1>2, Lasts
<1>7. QED
  BY <1>3, <1>4, <1>5, <1>6

\* A node ends its round: every child of it has acknowledged.
LEMMA EndsRound ==
  ASSUME NEW st, NEW Q, TypeOK, TypeOK', FlagInv, Nominal, Control(st, Q), NEW n \in Nodes,
         InverseTimeout(n) \/ (InverseSetRecDue(n) /\ bfKids[n] = {})
  PROVE  /\ EndMove(st, n) /\ EndVars(n) /\ Control(Move(st, n, End), Q)'
         /\ UNCHANGED <<round, losses>>
<1>1. CASE InverseTimeout(n)
  BY <1>1, ParentEnds DEF InverseTimeout
<1>2. CASE InverseSetRecDue(n) /\ bfKids[n] = {}
  BY <1>2, LeafEnds DEF InverseSetRecDue
<1>3. QED
  BY <1>1, <1>2

\* A node that received the missing tuples turns to its children, or ends its
\* round.
LEMMA KeptByInverse ==
  ASSUME NEW st, NEW Q, TypeOK, TypeOK', FlagInv, Nominal, Reconciling(st, Q),
         NEW n \in Nodes, InverseSetRecDue(n) \/ InverseTimeout(n)
  PROVE  Underway'
<1>1. Control(st, Q) /\ DataInv(st) /\ CoverInv(st) /\ ChainInv(st) /\ round > 0
  BY DEF Reconciling
<1>2. CASE InverseTimeout(n) \/ (InverseSetRecDue(n) /\ bfKids[n] = {})
  <2>1. /\ EndMove(st, n) /\ EndVars(n) /\ Control(Move(st, n, End), Q)'
        /\ UNCHANGED <<round, losses>>
    BY <1>1, <1>2, EndsRound
  <2>2. DataInv(Move(st, n, End))' /\ CoverInv(Move(st, n, End))'
    BY <1>1, <2>1, DataEnd
  <2>3. ChainInv(Move(st, n, End))'
    BY <1>1, <2>1, ChainEnd
  <2>4. PICK st2 : st2 = Move(st, n, End)
    OBVIOUS
  <2>5. Control(st2, Q)' /\ DataInv(st2)' /\ CoverInv(st2)' /\ ChainInv(st2)'
    BY <2>1, <2>2, <2>3, <2>4
  <2>6. QED
    BY <2>1, <2>5, Lasts
<1>3. CASE InverseSetRecDue(n) /\ bfKids[n] # {}
  <2>1. TurnResult(st, n)
    BY <1>1, <1>3, TurnNode
  <2>2. PICK st2 : TurnMove(st, st2, n) /\ Control(st2, Q)'
    BY <1>1, <1>3, TurnNode
  <2>3. DataInv(st2)' /\ CoverInv(st2)'
    BY <1>1, <2>1, <2>2, DataTurn
  <2>4. \A x \in Nodes : st2[x] = End <=> st[x] = End
    BY <2>2 DEF TurnMove
  <2>5. UNCHANGED <<chain, round>>
    BY <2>1, <1>3 DEF TurnResult, InverseSetRecDue
  <2>6. QED
    BY <2>2, <2>3, <2>4, <2>5, Lasts
<1>4. QED
  BY <1>2, <1>3

\* A step that changes nothing.
LEMMA Idles ==
  ASSUME UNCHANGED vars, Init \/ Underway
  PROVE  Init' \/ Underway'
<1>1. /\ UNCHANGED <<parent, kids, done, bfKids, idle, requests, reset, srCompleted, alreadyDone>>
      /\ UNCHANGED <<tuples, votes, routes, srTimer, askTimer, invTimer, upDue, downDue>>
      /\ UNCHANGED <<chain, net, round, losses, early>>
  BY DEF vars, treeVars, serviceVars, flagVars, tableVars, timerVars, dueVars
<1>2. CASE Init
  BY <1>1, <1>2 DEF Init
<1>3. ASSUME NEW st, NEW Q, Reconciling(st, Q) PROVE Reconciling(st, Q)'
  <2>1. /\ Control(st, Q) /\ DataInv(st) /\ CoverInv(st) /\ ChainInv(st) /\ round > 0
    BY <1>3 DEF Reconciling
  <2>2. \A n, k : Below(st, n, k)' = Below(st, n, k)
    BY <1>1 DEF Below
  <2>3. \A n : (Acking(n)' <=> Acking(n)) /\ (Talks(n)' <=> Talks(n)) /\ Waits(n)' = Waits(n)
               /\ Holds(n)' = Holds(n)
    BY <1>1 DEF Acking, Talks, Waits, Holds
  <2>4. TreeInv(st)' /\ RootedInv' /\ FreshInv(st)'
    BY <1>1, <2>1 DEF Control, TreeInv, RootedInv, FreshInv
  <2>5. ListInv(st)'
    BY <1>1, <2>1, <2>2, <2>3 DEF Control, ListInv
  <2>6. ServeInv(st)'
    BY <1>1, <2>1, <2>2, <2>3
    DEF Control, ServeInv, IdleServes, OneServed, QueuedAsk, AskingQueued, ServedTalk, GatherWaits
  <2>7. RouteInv(st)' /\ TimerInv(st)' /\ HelloInv(st)' /\ TalkInv(st)' /\ SettledInv(st, Q)'
    BY <1>1, <2>1 DEF Control, RouteInv, TimerInv, HelloInv, TalkInv, SettledInv
  <2>8. DataInv(st)'
    BY <1>1, <2>1, <2>3 DEF DataInv
  <2>9. CoverInv(st)'
    <3>1. \A i : Carried(st, i)' <=> Carried(st, i)
      BY <1>1, <2>3 DEF Carried, Reports
    <3>2. QED
      BY <1>1, <2>1, <3>1 DEF CoverInv
  <2>10. ChainInv(st)' /\ round' > 0
    BY <1>1, <2>1 DEF ChainInv
  <2>11. QED
    BY <2>4, <2>5, <2>6, <2>7, <2>8, <2>9, <2>10 DEF Control, Reconciling
<1>4. QED
  BY <1>2, <1>3 DEF Underway

\* Before the first hello of the root nothing else can happen.
LEMMA OnlyBegins ==
  ASSUME Init, Next
  PROVE  StartTopologyBuilding
<1>1. net = {}
  BY DEF Init
<1>2. \A n \in Nodes : ~srTimer[n] /\ ~askTimer[n] /\ ~invTimer[n] /\ upDue[n] = 0 /\ downDue[n] = 0
  BY DEF Init
<1>3. ASSUME NEW n \in Nodes PROVE ~Timeout(n) /\ ~DelayedCall(n)
  <2>1. ~NoChildrenNew(n) /\ ~AskTimeout(n) /\ ~InverseTimeout(n)
    BY <1>2 DEF NoChildrenNew, AskTimeout, InverseTimeout
  <2>2. ~(upDue[n] > 0) /\ ~(downDue[n] > 0)
    BY <1>2
  <2>3. ~NoChildrenDue(n) /\ ~InverseSetRecDue(n)
    BY <2>2 DEF NoChildrenDue, InverseSetRecDue
  <2>4. QED
    BY <2>1, <2>3 DEF Timeout, DelayedCall
<1>4. QED
  BY <1>1, <1>3 DEF Next

\* Every step of a round leads to a state of a round.
LEMMA Proceeds ==
  ASSUME NEW st, NEW Q, TypeOK, TypeOK', ServiceInv, FlagInv, Nominal, Reconciling(st, Q), Next
  PROVE  Underway'
<1>1. Control(st, Q)
  BY DEF Reconciling
<1>2. CASE StartTopologyBuilding
  BY <1>2, BeginsNext
<1>3. ASSUME NEW m \in net, RecvPacket(m) PROVE Underway'
  <2>1. CASE ReceiveHello(m)
    BY <2>1, KeptByAnyHello
  <2>2. CASE m.dst # NoNode /\ ReceiveUnicast(m)
    <3>1. CASE SendToChildBF(m) \/ EnqueueChild(m)
      BY <3>1, KeptByAsk
    <3>2. CASE ReceivedFromParentBF(m) \/ ProcessReceivedMissing(m)
      BY <3>2, KeptByUp
    <3>3. CASE \/ SendBFC2P(m) \/ ReceivedFromChildBF(m)
               \/ ProcessReceivedMissingInverse(m) \/ ProcessInverseAck(m)
      BY <3>3, <2>2, KeptByDown
    <3>4. QED
      BY <2>2, <3>1, <3>2, <3>3 DEF ReceiveUnicast
  <2>3. QED
    BY <1>3, <2>1, <2>2 DEF RecvPacket
<1>4. ASSUME NEW m \in net PROVE ~SendFails(m) /\ ~LoseUnicast(m)
  BY <1>1, Addressed
<1>5. ASSUME NEW n \in Nodes, Timeout(n) PROVE Underway'
  <2>1. CASE NoChildrenNew(n)
    BY <2>1, KeptByNew
  <2>2. CASE AskTimeout(n)
    BY <2>2, <1>1, NoAskTimeout
  <2>3. CASE InverseTimeout(n)
    BY <2>3, KeptByInverse
  <2>4. QED
    BY <1>5, <2>1, <2>2, <2>3 DEF Timeout
<1>6. ASSUME NEW n \in Nodes, DelayedCall(n) PROVE Underway'
  BY <1>6, KeptByDue, KeptByInverse DEF DelayedCall
<1>7. QED
  BY <1>2, <1>3, <1>4, <1>5, <1>6 DEF Next

\* Started from its initial state on a connected network that loses nothing, with
\* no timer that expires early, SAHARA Sync goes through its rounds in stages.
THEOREM RoundsProceed ==
  ASSUME Nominal
  PROVE  Spec => []RoundInv
<1>1. Init => RoundInv
  <2> SUFFICES ASSUME Init PROVE RoundInv
    OBVIOUS
  <2>1. TypeOK
    BY InitTypeOK
  <2>2. ServiceInv /\ FlagInv
    BY DEF Init, ServiceInv, FlagInv
  <2>3. QED
    BY <2>1, <2>2 DEF RoundInv
<1>2. RoundInv /\ [Next]_vars => RoundInv'
  <2> SUFFICES ASSUME RoundInv, [Next]_vars PROVE RoundInv'
    OBVIOUS
  <2>1. TypeOK /\ ServiceInv /\ FlagInv /\ (Init \/ Underway)
    BY DEF RoundInv
  <2>2. TypeOK' /\ ServiceInv'
    BY <2>1, NextTypeOK, ServiceNext
  <2>3. FlagInv'
    BY <2>1, FlagNext
  <2>4. CASE UNCHANGED vars
    BY <2>1, <2>2, <2>3, <2>4, Idles DEF RoundInv
  <2>5. CASE Next /\ Init
    BY <2>1, <2>2, <2>3, <2>5, OnlyBegins, BeginsFirst DEF RoundInv
  <2>6. CASE Next /\ Underway
    <3>1. PICK st, Q : Reconciling(st, Q)
      BY <2>6 DEF Underway
    <3>2. Underway'
      BY <2>1, <2>2, <2>6, <3>1, Proceeds
    <3>3. QED
      BY <2>2, <2>3, <3>2 DEF RoundInv
  <2>7. QED
    BY <2>1, <2>4, <2>5, <2>6
<1>3. QED
  BY <1>1, <1>2, PTL DEF Spec

-----------------------------------------------------------------------------
(***************************************************************************)
(* What holds of a round.                                                  *)
(***************************************************************************)
\* The blocks of a state of a round, and of the initial one.
LEMMA Blocks ==
  ASSUME RoundInv, NEW n \in Nodes, NEW i \in DOMAIN chain[n]
  PROVE  /\ chain[n][i] \in Block /\ chain[n][i].round = i
         /\ chain[n][i].votes = Nodes \ Neighbours(Root)
         /\ ~FalsePositives => chain[n][i].links = Edges
<1>1. chain[n] \in Seq(Block)
  BY DEF RoundInv, TypeOK
<1>2. i \in 1..Len(chain[n]) /\ chain[n][i] \in Block
  BY <1>1
<1>3. CASE Init
  BY <1>2, <1>3 DEF Init
<1>4. CASE Underway
  BY <1>2, <1>4 DEF Underway, Reconciling, ChainInv
<1>5. QED
  BY <1>3, <1>4 DEF RoundInv

\* Blocks with the same fields are the same block.
LEMMA BlocksEqual ==
  ASSUME NEW b \in Block, NEW c \in Block,
         b.round = c.round, b.links = c.links, b.votes = c.votes
  PROVE  b = c
BY DEF Block

\* A message of an exchange of the way up that is in service.
LEMMA ServiceParts ==
  ASSUME NEW st, NEW Q, TypeOK, Control(st, Q), NEW n \in Nodes, NEW m \in InService(n)
  PROVE  /\ m \in net /\ Exchange(m) /\ Client(m) \in Below(st, n, Hello)
         /\ st[Client(m)] = Served
<1>1. TreeInv(st) /\ TalkInv(st)
  BY DEF Control
<1>2. m \in net /\ ((m.type = "SEND_BF" /\ m.src = n) \/ (m.type = "SEND_MISSING_C2P" /\ m.dst = n))
  BY DEF InService
<1>3. Exchange(m) /\ Server(m) = n /\ StageOf(m.type) = Served
  BY <1>2, TalkParts
<1>4. Client(m) \in Nodes \ {Root} /\ parent[Client(m)] = n /\ st[Client(m)] = Served
  BY <1>1, <1>2, <1>3, Talking
<1>5. QED
  BY <1>2, <1>3, <1>4 DEF Below

\* At most one message of a parent is in service.
LEMMA OneAtATime ==
  ASSUME NEW st, NEW Q, TypeOK, Control(st, Q), NEW n \in Nodes
  PROVE  Cardinality(InService(n)) <= 1
<1>1. ServeInv(st) /\ TalkInv(st)
  BY DEF Control
<1>2. ASSUME NEW m \in InService(n), NEW o \in InService(n) PROVE m = o
  <2>1. /\ m \in net /\ Exchange(m) /\ Client(m) \in Below(st, n, Hello) /\ st[Client(m)] = Served
        /\ o \in net /\ Exchange(o) /\ Client(o) \in Below(st, n, Hello) /\ st[Client(o)] = Served
    BY ServiceParts
  <2>2. Client(m) = Client(o)
    BY <2>1, <1>1 DEF ServeInv, OneServed
  <2>3. QED
    BY <2>1, <2>2, <1>1 DEF TalkInv
<1>3. CASE InService(n) = {}
  BY <1>3, FS_EmptySet
<1>4. CASE InService(n) # {}
  <2>1. PICK m : m \in InService(n)
    BY <1>4
  <2>2. InService(n) = {m}
    BY <2>1, <1>2
  <2>3. QED
    BY <2>2, FS_Singleton
<1>5. QED
  BY <1>3, <1>4

\* Who waits in the queue of a parent waits for the child in service.
LEMMA SomebodyServed ==
  ASSUME NEW st, NEW Q, TypeOK, ServiceInv, Control(st, Q), NEW n \in Nodes, requests[n] # <<>>
  PROVE  InService(n) # {}
<1>1. ServeInv(st) /\ TalkInv(st) /\ TreeInv(st)
  BY DEF Control
<1>2. PICK c : c \in Waits(n)
  <2>1. requests[n] \in Seq(Nodes)
    BY DEF TypeOK
  <2>2. 1 \in DOMAIN requests[n]
    BY <2>1
  <2>3. QED
    BY <2>2 DEF Waits
<1>3. c \in Nodes \ {Root} /\ parent[c] = n /\ st[c] = Asking
  BY <1>1, <1>2 DEF ServeInv, QueuedAsk, Below
<1>4. st[n] = Gather
  <2>1. st[c] # Out /\ st[c] <= Served
    BY <1>3
  <2>2. QED
    BY <1>1, <1>3, <2>1, ParentStage
<1>5. ~idle[n]
  BY DEF ServiceInv
<1>6. PICK d \in Below(st, n, Hello) : st[d] = Served
  BY <1>1, <1>4, <1>5 DEF ServeInv, IdleServes
<1>7. d \in Nodes \ {Root} /\ parent[d] = n
  BY <1>6 DEF Below
<1>8. PICK m \in net : Exchange(m) /\ Client(m) = d
  BY <1>1, <1>6, <1>7 DEF ServeInv, ServedTalk, Talks
<1>9. Server(m) = n /\ StageOf(m.type) = Served
  BY <1>1, <1>6, <1>7, <1>8 DEF TalkInv
<1>10. m.type = "SEND_BF" \/ m.type = "SEND_MISSING_C2P"
  BY <1>9, <1>8 DEF StageOf, Exchange
<1>11. m \in InService(n)
  BY <1>8, <1>9, <1>10, TalkParts DEF InService
<1>12. QED
  BY <1>11

\* A node that hears a hello and has no parent has no slot timer.
LEMMA TimerAtRest ==
  ASSUME NEW st, NEW Q, TypeOK, Control(st, Q), NEW m \in net, NEW n \in Neighbours(m.src),
         m.type = "ROOT_SR_HELLO" \/ (m.type = "SR_HELLO" /\ n \in Adopters(m, Neighbours(m.src)))
  PROVE  ~srTimer[n]
<1>1. TreeInv(st) /\ TimerInv(st) /\ ListInv(st) /\ HelloInv(st) /\ n \in Nodes
  BY DEF Control, Neighbours
<1>2. SUFFICES ASSUME srTimer[n] PROVE FALSE
  OBVIOUS
<1>3. n # Root /\ st[n] \in {Hello, Gather}
  BY <1>1, <1>2 DEF TimerInv
<1>4. CASE m.type = "ROOT_SR_HELLO"
  <2>1. st[Root] = Hello
    BY <1>1, <1>4 DEF HelloInv
  <2>2. st[n] = Out
    BY <1>1, <1>3, <2>1 DEF TreeInv
  <2>3. QED
    BY <1>3, <2>2
<1>5. CASE n \in Adopters(m, Neighbours(m.src))
  <2>1. Cleared(Resetting(Neighbours(m.src)), parent, NoNode)[n] = NoNode
    BY <1>5 DEF Adopters
  <2>2. reset[n] /\ parent[n] \in Nodes
    <3>1. st[n] # Out /\ st[n] # End
      BY <1>3
    <3>2. reset[n]
      BY <1>1, <3>1 DEF ListInv
    <3>3. parent[n] \in Nodes
      BY <1>1, <1>3, <3>1 DEF TreeInv
    <3>4. QED
      BY <3>2, <3>3
  <2>3. n \notin Resetting(Neighbours(m.src))
    BY <2>2 DEF Resetting
  <2>4. parent[n] = NoNode
    BY <1>1, <2>1, <2>3 DEF Cleared
  <2>5. QED
    BY <2>2, <2>4, NodesAssumption
<1>6. QED
  BY <1>4, <1>5

\* Who turns to a child knows every link.
LEMMA AsksKnowing ==
  ASSUME NEW st, NEW Q, TypeOK, Control(st, Q), DataInv(st), ~FalsePositives,
         NEW m \in net, m.type \in {"ASK_BF_P2C", "SEND_MISSING_P2C"}
  PROVE  tuples[m.src] = Edges
<1>1. TreeInv(st) /\ TalkInv(st)
  BY DEF Control
<1>2. Exchange(m) /\ Server(m) = m.src /\ StageOf(m.type) = Asked
  BY TalkParts
<1>3. m.src \in Nodes /\ st[m.src] = Awaiting
  BY <1>1, <1>2, Talking
<1>4. Wanted \subseteq Holds(m.src)
  BY <1>3 DEF DataInv
<1>5. ASSUME NEW e \in Edges PROVE e \in tuples[m.src]
  <2>1. <<"link", e>> \in Holds(m.src)
    BY <1>4 DEF Wanted
  <2>2. \A k : <<"link", e>> # <<"vote", k>>
    OBVIOUS
  <2>3. PICK f \in tuples[m.src] : <<"link", e>> = <<"link", f>>
    BY <2>1, <2>2 DEF Holds
  <2>4. QED
    BY <2>3
<1>6. tuples[m.src] \subseteq Edges
  BY <1>3 DEF TypeOK
<1>7. QED
  BY <1>5, <1>6

\* The safety properties in a state of a round, and in the initial one.
LEMMA RoundSafety ==
  ASSUME RoundInv
  PROVE  BusyServes /\ OneInService /\ TreeRooted /\ TimerNeverRearmed
<1>1. TypeOK /\ ServiceInv
  BY DEF RoundInv
<1>2. CASE Init
  <2>1. /\ net = {} /\ \A n \in Nodes : requests[n] = <<>> /\ parent[n] = NoNode
    BY <1>2 DEF Init
  <2>2. BusyServes /\ TreeRooted /\ TimerNeverRearmed
    BY <2>1 DEF BusyServes, TreeRooted, TimerNeverRearmed
  <2>3. ASSUME NEW n \in Nodes PROVE Cardinality(InService(n)) <= 1
    <3>1. InService(n) = {}
      BY <2>1 DEF InService
    <3>2. QED
      BY <3>1, FS_EmptySet
  <2>4. QED
    BY <2>2, <2>3 DEF OneInService
<1>3. CASE Underway
  <2>1. PICK st, Q : Control(st, Q)
    BY <1>3 DEF Underway, Reconciling
  <2>2. BusyServes
    BY <1>1, <2>1, SomebodyServed DEF BusyServes
  <2>3. OneInService
    BY <1>1, <2>1, OneAtATime DEF OneInService
  <2>4. TreeRooted
    BY <1>1, <2>1, RootedReaches DEF Control
  <2>5. TimerNeverRearmed
    <3>1. ASSUME NEW m \in net, NEW n \in Neighbours(m.src)
          PROVE  \/ m.type \notin HelloTypes
                 \/ m.type = "SR_HELLO" /\ n \notin Adopters(m, Neighbours(m.src))
                 \/ ~srTimer[n]
      BY <1>1, <2>1, TimerAtRest DEF HelloTypes
    <3>2. QED
      BY <3>1 DEF TimerNeverRearmed
  <2>6. QED
    BY <2>2, <2>3, <2>4, <2>5
<1>4. QED
  BY <1>2, <1>3 DEF RoundInv

\* The properties of the blocks in a state of a round, and in the initial one.
LEMMA RoundBlocks ==
  ASSUME RoundInv
  PROVE  /\ OneBlockPerRound /\ FarVotesReach
         /\ ~FalsePositives => BlocksAgree
<1>1. OneBlockPerRound
  <2>1. ASSUME NEW n \in Nodes, NEW i \in DOMAIN chain[n], NEW j \in DOMAIN chain[n],
               chain[n][i].round = chain[n][j].round
        PROVE  i = j
    BY <2>1, Blocks
  <2>2. QED
    BY <2>1 DEF OneBlockPerRound
<1>2. FarVotesReach
  BY Blocks DEF FarVotesReach
<1>3. ASSUME ~FalsePositives, NEW n \in Nodes, NEW m \in Nodes,
             NEW i \in DOMAIN chain[n], NEW j \in DOMAIN chain[m],
             chain[n][i].round = chain[m][j].round
      PROVE  chain[n][i] = chain[m][j]
  <2>1. /\ chain[n][i] \in Block /\ chain[n][i].links = Edges
        /\ chain[n][i].votes = Nodes \ Neighbours(Root)
    BY <1>3, Blocks
  <2>2. /\ chain[m][j] \in Block /\ chain[m][j].links = Edges
        /\ chain[m][j].votes = Nodes \ Neighbours(Root)
    BY <1>3, Blocks
  <2>3. QED
    BY <1>3, <2>1, <2>2, BlocksEqual
<1>4. ~FalsePositives => BlocksAgree
  BY <1>3 DEF BlocksAgree
<1>5. QED
  BY <1>1, <1>2, <1>4

\* The way down follows the way up in a state of a round.
LEMMA RoundDownAfterUp ==
  ASSUME RoundInv, ~FalsePositives
  PROVE  DownAfterUp
<1>1. CASE Init
  BY <1>1 DEF Init, DownAfterUp
<1>2. CASE Underway
  <2>1. PICK st, Q : Control(st, Q) /\ DataInv(st)
    BY <1>2 DEF Underway, Reconciling
  <2>2. TypeOK
    BY DEF RoundInv
  <2>3. QED
    BY <2>1, <2>2, AsksKnowing DEF DownAfterUp
<1>3. QED
  BY <1>1, <1>2 DEF RoundInv

\* Nobody waits in the queue of a parent that serves nobody: the report that makes
\* OnChildResponseReceived look at the queue is always still to come.
THEOREM QueueServed ==
  ASSUME Nominal
  PROVE  Spec => []BusyServes
BY RoundsProceed, RoundSafety, PTL

\* SendToChildBF and OnChildResponseReceived serve one child at a time.
THEOREM ServiceExclusive ==
  ASSUME Nominal
  PROVE  Spec => []OneInService
BY RoundsProceed, RoundSafety, PTL

\* The parents that the hellos choose lead every node to the root.
THEOREM ParentsRooted ==
  ASSUME Nominal
  PROVE  Spec => []TreeRooted
BY RoundsProceed, RoundSafety, PTL

\* No hello schedules the slot timer of a node where it is running.
THEOREM SlotScheduledOnce ==
  ASSUME Nominal
  PROVE  Spec => []TimerNeverRearmed
BY RoundsProceed, RoundSafety, PTL

\* InverseSetRec writes one block of a node per round.
THEOREM OneBlockEach ==
  ASSUME Nominal
  PROVE  Spec => []OneBlockPerRound
BY RoundsProceed, RoundBlocks, PTL

\* The votes of the root and of all nodes that are not its neighbours count in
\* every block.
THEOREM VotesCounted ==
  ASSUME Nominal
  PROVE  Spec => []FarVotesReach
BY RoundsProceed, RoundBlocks, PTL

\* When no filter reports a tuple it does not hold, who turns to its children
\* knows every link of the network: the way down follows the whole way up.
THEOREM UpThenDown ==
  ASSUME Nominal, ~FalsePositives
  PROVE  Spec => []DownAfterUp
BY RoundsProceed, RoundDownAfterUp, PTL

\* When no filter reports a tuple it does not hold, the blocks of a round are the
\* same at every node.
THEOREM SameBlocks ==
  ASSUME Nominal, ~FalsePositives
  PROVE  Spec => []BlocksAgree
BY RoundsProceed, RoundBlocks, PTL

-----------------------------------------------------------------------------
(***************************************************************************)
(* SAHARA Sync implements SetReconciliation.                               *)
(***************************************************************************)
\* A step of the abstract specification, or none.
Simulated == Abstract!Next \/ UNCHANGED Abstract!vars

\* The abstract specification sees nothing of a step that leaves tables, resets and
\* chains alone.
LEMMA Stutters ==
  ASSUME UNCHANGED <<tuples, reset, chain>>
  PROVE  Simulated
BY DEF Simulated, Abstract!vars

\* A node that heard a hello of this round has not written its block yet.
LEMMA InRound ==
  ASSUME NEW st, NEW Q, TypeOK, Reconciling(st, Q), NEW n \in Nodes
  PROVE  /\ st[n] # Out => (reset[n] <=> st[n] # End)
         /\ st[n] = Out /\ reset[n] => tuples[n] = {}
         /\ Len(chain[n]) = IF st[n] = End THEN round ELSE round - 1
         /\ round \in Nat /\ round > 0
BY DEF Reconciling, Control, ListInv, FreshInv, ChainInv, TypeOK

\* The report of a child, or the missing tuples of a parent.
LEMMA Learns ==
  ASSUME NEW st, NEW Q, TypeOK, Reconciling(st, Q), NEW n \in Nodes, NEW c \in Nodes,
         st[n] # Out, st[n] # End, {n, c} \in Edges, NEW links, links \subseteq tuples[c],
         tuples' = [tuples EXCEPT ![n] = @ \cup links], UNCHANGED <<reset, chain>>
  PROVE  Simulated
<1>1. reset[n] /\ Len(chain[n]) = round - 1
  BY InRound
<1>2. round \in Nat /\ (Len(chain[c]) = round \/ Len(chain[c]) = round - 1)
  BY InRound
<1>3. Len(chain[n]) <= Len(chain[c])
  BY <1>1, <1>2
<1>4. Abstract!Learn(n, c)
  BY <1>1, <1>3 DEF Abstract!Learn
<1>5. QED
  BY <1>4 DEF Simulated, Abstract!Next

\* The neighbours of x hear its hello.
LEMMA Observes ==
  ASSUME NEW st, NEW Q, TypeOK, TypeOK', Reconciling(st, Q), NEW x \in Nodes, st[x] = Hello,
         NEW m, HelloVars(st, x, m), UNCHANGED chain
  PROVE  Simulated
<1>1. RootedInv /\ TreeInv(st)
  BY DEF Reconciling, Control
<1>2. \A n \in Nodes : st[n] \in Nat /\ st[n] < Asked
  BY <1>1, HelloTime DEF HelloPhase
<1>3. ASSUME NEW n \in Nodes PROVE Len(chain[n]) = round - 1 /\ (st[n] # Out => reset[n])
  <2>1. st[n] # End
    BY <1>2
  <2>2. QED
    BY <2>1, InRound
<1>4. ASSUME NEW n \in Neighbours(x) PROVE {n, x} \in Edges /\ Abstract!MayBegin(n)
  <2>1. {n, x} = {x, n} /\ n \in Nodes
    BY DEF Neighbours
  <2>2. QED
    BY <2>1, <1>3 DEF Neighbours, Abstract!MayBegin
<1>5. ASSUME NEW n \in Nodes
      PROVE  /\ n \in Neighbours(x) =>
                  /\ tuples'[n] = (IF ~reset[n] THEN {} ELSE tuples[n]) \cup {{n, x}}
                  /\ reset'[n]
             /\ n \notin Neighbours(x) => tuples'[n] = tuples[n] /\ (reset'[n] <=> reset[n])
  <2>1. CASE n \in Newcomers(st, x)
    <3>1. n \in Neighbours(x) /\ st[n] = Out /\ tuples'[n] = {{n, x}} /\ reset'[n]
      BY <2>1 DEF HelloVars, NewVars, Newcomers
    <3>2. reset[n] => tuples[n] = {}
      BY <3>1, InRound
    <3>3. QED
      BY <3>1, <3>2
  <2>2. CASE n \notin Newcomers(st, x)
    <3>1. OldVars(n, x)
      BY <2>2 DEF HelloVars
    <3>2. n \in Neighbours(x) => reset[n]
      BY <2>2, <1>3 DEF Newcomers
    <3>3. QED
      BY <3>1, <3>2 DEF OldVars
  <2>3. QED
    BY <2>1, <2>2
<1>6. tuples' = [n \in Nodes |-> IF n \in Neighbours(x)
                                 THEN (IF ~reset[n] THEN {} ELSE tuples[n]) \cup {{n, x}}
                                 ELSE tuples[n]]
  <2>1. tuples' \in [Nodes -> SUBSET Edges]
    BY DEF TypeOK
  <2>2. QED
    BY <2>1, <1>5
<1>7. [n \in Nodes |-> ~reset'[n]] = [n \in Nodes |-> ~reset[n] /\ n \notin Neighbours(x)]
  <2>1. \A n \in Nodes : (~reset'[n]) = (~reset[n] /\ n \notin Neighbours(x))
    BY <1>5
  <2>2. QED
    BY <2>1
<1>8. Abstract!Observe(x, Neighbours(x))
  <2>1. \A n \in Nodes : Abstract!Current(n) = IF ~reset[n] THEN {} ELSE tuples[n]
    BY DEF Abstract!Current
  <2>2. tuples' = [n \in Nodes |-> IF n \in Neighbours(x)
                                   THEN Abstract!Current(n) \cup {{n, x}} ELSE tuples[n]]
    BY <1>6, <2>1
  <2>3. [n \in Nodes |-> ~reset'[n]]
          = [n \in Nodes |-> [k \in Nodes |-> ~reset[k]][n] /\ n \notin Neighbours(x)]
    BY <1>7
  <2>4. [n \in Nodes |-> Len(chain'[n])] = [n \in Nodes |-> Len(chain[n])]
    OBVIOUS
  <2>5. QED
    BY <1>4, <2>2, <2>3, <2>4 DEF Abstract!Observe
<1>9. Neighbours(x) \in SUBSET Nodes
  BY DEF Neighbours
<1>10. QED
  BY <1>8, <1>9 DEF Simulated, Abstract!Next

\* A node writes its block.
LEMMA Commits ==
  ASSUME NEW st, NEW Q, TypeOK, Reconciling(st, Q), ~FalsePositives,
         NEW n \in Nodes, EndMove(st, n), EndVars(n)
  PROVE  Simulated
<1>1. st[n] \in {Down, Awaiting}
  BY DEF EndMove
<1>2. reset[n]
  <2>1. st[n] # Out /\ st[n] # End
    BY <1>1
  <2>2. QED
    BY <2>1, InRound
<1>3. tuples[n] = Edges
  <2>1. DataInv(st) /\ st[n] >= Down
    BY <1>1 DEF Reconciling
  <2>2. QED
    BY <2>1, FullBlock
<1>4. PICK b : chain' = [chain EXCEPT ![n] = Append(@, b)]
  BY DEF EndVars, WriteBlock
<1>5. reset' = [reset EXCEPT ![n] = FALSE] /\ tuples' = tuples
  BY DEF EndVars, WriteBlock
<1>6. chain \in [Nodes -> Seq(Block)] /\ reset \in [Nodes -> BOOLEAN]
  BY DEF TypeOK
<1>7. [k \in Nodes |-> ~reset'[k]] = [[k \in Nodes |-> ~reset[k]] EXCEPT ![n] = TRUE]
  <2>1. \A k \in Nodes : (~reset'[k]) = (IF k = n THEN TRUE ELSE ~reset[k])
    BY <1>5, <1>6
  <2>2. QED
    BY <2>1
<1>8. [k \in Nodes |-> Len(chain'[k])]
        = [[k \in Nodes |-> Len(chain[k])] EXCEPT ![n] = Len(chain[n]) + 1]
  <2>1. ASSUME NEW k \in Nodes
        PROVE  Len(chain'[k]) = IF k = n THEN Len(chain[n]) + 1 ELSE Len(chain[k])
    <3>1. CASE k = n
      <4>1. chain'[n] = Append(chain[n], b)
        BY <1>4, <1>6
      <4>2. chain[n] \in Seq(Block) /\ Len(Append(chain[n], b)) = Len(chain[n]) + 1
        BY <1>6
      <4>3. QED
        BY <3>1, <4>1, <4>2
    <3>2. CASE k # n
      BY <3>2, <1>4, <1>6
    <3>3. QED
      BY <3>1, <3>2
  <2>2. QED
    BY <2>1
<1>9. Abstract!Commit(n)
  BY <1>2, <1>3, <1>5, <1>7, <1>8 DEF Abstract!Commit
<1>10. QED
  BY <1>9 DEF Simulated, Abstract!Next

\* The root starts a round after the first.
LEMMA StartsOver ==
  ASSUME NEW st, NEW Q, TypeOK, Nominal, ServiceInv, Reconciling(st, Q), StartTopologyBuilding
  PROVE  Simulated
<1>1. \A n \in Nodes : st[n] = End
  BY NextRound DEF Reconciling
<1>2. ASSUME NEW n \in Nodes PROVE ~reset[n] /\ Len(chain[n]) = round
  BY <1>1, InRound
<1>3. Resetting({Root}) = {Root}
  BY <1>2, NodesAssumption DEF Resetting
<1>4. /\ tuples' = Cleared({Root}, tuples, {}) /\ reset' = Cleared({Root}, reset, TRUE)
      /\ chain' = chain
  BY <1>3 DEF StartTopologyBuilding, ResetVariablesUpdate
<1>5. tuples \in [Nodes -> SUBSET Edges] /\ reset \in [Nodes -> BOOLEAN] /\ Root \in Nodes
  BY NodesAssumption DEF TypeOK
<1>6. tuples' = [tuples EXCEPT ![Root] = {}]
  BY <1>4, <1>5 DEF Cleared
<1>7. [n \in Nodes |-> ~reset'[n]] = [[n \in Nodes |-> ~reset[n]] EXCEPT ![Root] = FALSE]
  <2>1. \A n \in Nodes : (~reset'[n]) = (IF n = Root THEN FALSE ELSE ~reset[n])
    BY <1>4, <1>5 DEF Cleared
  <2>2. QED
    BY <2>1
<1>8. Abstract!MayBegin(Root)
  BY <1>2, <1>5 DEF Abstract!MayBegin
<1>9. Abstract!Current(Root) = {}
  BY <1>2, <1>5 DEF Abstract!Current
<1>10. Abstract!Begin(Root)
  BY <1>4, <1>6, <1>7, <1>8, <1>9 DEF Abstract!Begin
<1>11. QED
  BY <1>5, <1>10 DEF Simulated, Abstract!Next

\* The first hello of the root changes nothing that the abstract specification sees.
LEMMA StartsFirst ==
  ASSUME Init, StartTopologyBuilding
  PROVE  Simulated
<1>1. Resetting({Root}) = {}
  BY NodesAssumption DEF Init, Resetting
<1>2. UNCHANGED <<tuples, reset, chain>>
  BY <1>1 DEF Init, StartTopologyBuilding, ResetVariablesUpdate, Cleared
<1>3. QED
  BY <1>2, Stutters

\* The messages that arrive.
LEMMA SimulatedUnicast ==
  ASSUME NEW st, NEW Q, TypeOK, TypeOK', Reconciling(st, Q), NEW m \in net, m.dst # NoNode,
         ReceiveUnicast(m)
  PROVE  Simulated
<1>1. Control(st, Q) /\ DataInv(st)
  BY DEF Reconciling
<1>2. CASE ProcessReceivedMissing(m)
  <2>1. /\ m.type = "SEND_MISSING_C2P" /\ m.src \in Nodes \ {Root} /\ m.dst = parent[m.src]
        /\ m.dst \in Nodes /\ st[m.src] = Served /\ st[m.dst] = Gather
    BY <1>1, <1>2, ReportArrives
  <2>2. {m.dst, m.src} \in Edges
    <3>1. {m.src, parent[m.src]} \in Edges
      <4>1. TreeInv(st) /\ st[m.src] # Out
        BY <1>1, <2>1 DEF Control
      <4>2. QED
        BY <2>1, <4>1 DEF TreeInv
    <3>2. {m.src, parent[m.src]} = {m.dst, m.src}
      BY <2>1
    <3>3. QED
      BY <3>1, <3>2
  <2>3. m.links \subseteq tuples[m.src]
    BY <1>1, <2>1 DEF DataInv
  <2>4. tuples' = [tuples EXCEPT ![m.dst] = @ \cup m.links] /\ UNCHANGED <<reset, chain>>
    BY <1>2 DEF ProcessReceivedMissing, flagVars
  <2>5. st[m.dst] # Out /\ st[m.dst] # End
    BY <2>1
  <2>6. PICK n, c, links : n = m.dst /\ c = m.src /\ links = m.links
    OBVIOUS
  <2>7. /\ n \in Nodes /\ c \in Nodes /\ st[n] # Out /\ st[n] # End /\ {n, c} \in Edges
        /\ links \subseteq tuples[c] /\ tuples' = [tuples EXCEPT ![n] = @ \cup links]
    BY <2>1, <2>2, <2>3, <2>4, <2>5, <2>6
  <2>8. QED
    BY <2>4, <2>7, Learns
<1>3. CASE ProcessReceivedMissingInverse(m)
  <2>1. /\ m.type = "SEND_MISSING_P2C" /\ m.dst \in Nodes \ {Root} /\ m.src = parent[m.dst]
        /\ m.src \in Nodes /\ st[m.dst] = Asked
    BY <1>1, <1>3, MissingArrives
  <2>2. {m.dst, m.src} \in Edges
    <3>1. TreeInv(st) /\ st[m.dst] # Out
      BY <1>1, <2>1 DEF Control
    <3>2. QED
      BY <2>1, <3>1 DEF TreeInv
  <2>3. m.links \subseteq tuples[m.src]
    BY <1>1, <2>1 DEF DataInv
  <2>4. tuples' = [tuples EXCEPT ![m.dst] = @ \cup m.links] /\ UNCHANGED <<reset, chain>>
    BY <1>3 DEF ProcessReceivedMissingInverse, flagVars
  <2>5. st[m.dst] # Out /\ st[m.dst] # End
    BY <2>1
  <2>6. PICK n, c, links : n = m.dst /\ c = m.src /\ links = m.links
    OBVIOUS
  <2>7. /\ n \in Nodes /\ c \in Nodes /\ st[n] # Out /\ st[n] # End /\ {n, c} \in Edges
        /\ links \subseteq tuples[c] /\ tuples' = [tuples EXCEPT ![n] = @ \cup links]
    BY <2>1, <2>2, <2>3, <2>4, <2>5, <2>6
  <2>8. QED
    BY <2>4, <2>7, Learns
<1>4. CASE \/ SendToChildBF(m) \/ EnqueueChild(m) \/ ReceivedFromParentBF(m)
           \/ SendBFC2P(m) \/ ReceivedFromChildBF(m) \/ ProcessInverseAck(m)
  <2>1. UNCHANGED <<tuples, reset, chain>>
    BY <1>4 DEF SendToChildBF, EnqueueChild, ReceivedFromParentBF, SendBFC2P, ReceivedFromChildBF,
      ProcessInverseAck, tableVars, flagVars
  <2>2. QED
    BY <2>1, Stutters
<1>5. QED
  BY <1>2, <1>3, <1>4 DEF ReceiveUnicast

\* The timers and the delayed calls.
LEMMA SimulatedCalls ==
  ASSUME NEW st, NEW Q, TypeOK, TypeOK', ServiceInv, FlagInv, Nominal, ~FalsePositives,
         Reconciling(st, Q), NEW n \in Nodes, Timeout(n) \/ DelayedCall(n)
  PROVE  Simulated
<1>1. Control(st, Q)
  BY DEF Reconciling
<1>2. CASE NoChildrenNew(n)
  <2>1. n # Root
    BY <1>1, <1>2, NewLeaf
  <2>2. UNCHANGED <<tuples, reset, chain>>
    BY <1>2, <2>1 DEF NoChildrenNew, NoChildren, tableVars, flagVars
  <2>3. QED
    BY <2>2, Stutters
<1>3. CASE NoChildrenDue(n)
  <2>1. UNCHANGED tuples
    BY <1>3 DEF NoChildrenDue, tableVars
  <2>2. UNCHANGED <<reset, chain>>
    <3>1. CASE n = Root
      <4>1. NoChildrenDue(Root)
        BY <1>3, <3>1
      <4>2. TurnResult(st, Root)
        BY <4>1, <1>1, TurnRoot
      <4>3. QED
        BY <4>2 DEF TurnResult
    <3>2. CASE n # Root
      BY <1>3, <3>2 DEF NoChildrenDue, NoChildren, flagVars
    <3>3. QED
      BY <3>1, <3>2
  <2>3. QED
    BY <2>1, <2>2, Stutters
<1>4. CASE AskTimeout(n)
  BY <1>1, <1>4, NoAskTimeout
<1>5. CASE InverseTimeout(n) \/ (InverseSetRecDue(n) /\ bfKids[n] = {})
  <2>1. EndMove(st, n) /\ EndVars(n)
    BY <1>1, <1>5, EndsRound
  <2>2. QED
    BY <2>1, Commits
<1>6. CASE InverseSetRecDue(n) /\ bfKids[n] # {}
  <2>1. TurnResult(st, n)
    BY <1>1, <1>6, TurnNode
  <2>2. UNCHANGED <<tuples, reset, chain>>
    BY <2>1, <1>6 DEF TurnResult, InverseSetRecDue, tableVars
  <2>3. QED
    BY <2>2, Stutters
<1>7. QED
  BY <1>2, <1>3, <1>4, <1>5, <1>6 DEF Timeout, DelayedCall

\* Every step of a round is a step of SetReconciliation, or none.
LEMMA SimulatedRound ==
  ASSUME NEW st, NEW Q, TypeOK, TypeOK', ServiceInv, FlagInv, Nominal, ~FalsePositives,
         Reconciling(st, Q), Next
  PROVE  Simulated
<1>1. Control(st, Q)
  BY DEF Reconciling
<1>2. CASE StartTopologyBuilding
  BY <1>2, StartsOver
<1>3. ASSUME NEW m \in net, RecvPacket(m) PROVE Simulated
  <2>1. CASE ReceiveHello(m)
    <3>1. PICK x : x \in Nodes /\ st[x] = Hello /\ HelloVars(st, x, m)
                   /\ UNCHANGED <<chain, round, losses, early>>
      BY <2>1, <1>1, AnyHelloHeard
    <3>2. QED
      BY <3>1, Observes
  <2>2. CASE m.dst # NoNode /\ ReceiveUnicast(m)
    BY <2>2, SimulatedUnicast
  <2>3. QED
    BY <1>3, <2>1, <2>2 DEF RecvPacket
<1>4. ASSUME NEW m \in net PROVE ~SendFails(m) /\ ~LoseUnicast(m)
  BY <1>1, Addressed
<1>5. ASSUME NEW n \in Nodes, Timeout(n) \/ DelayedCall(n) PROVE Simulated
  BY <1>5, SimulatedCalls
<1>6. QED
  BY <1>2, <1>3, <1>4, <1>5 DEF Next

\* On a connected network that loses nothing, with no timer that expires early and
\* no filter that reports a tuple it does not hold, SAHARA Sync implements
\* SetReconciliation.
THEOREM SyncReconciles ==
  ASSUME Nominal, ~FalsePositives
  PROVE  Spec => ReconcilesSets
<1>1. Init => Abstract!Init
  <2> SUFFICES ASSUME Init PROVE Abstract!Init
    OBVIOUS
  <2>1. \A n \in Nodes : (~reset[n]) = FALSE
    BY DEF Init
  <2>2. [n \in Nodes |-> ~reset[n]] = [n \in Nodes |-> FALSE]
    BY <2>1
  <2>3. \A n \in Nodes : Len(chain[n]) = 0
    BY DEF Init
  <2>4. [n \in Nodes |-> Len(chain[n])] = [n \in Nodes |-> 0]
    BY <2>3
  <2>5. tuples = [n \in Nodes |-> {}]
    BY DEF Init
  <2>6. QED
    BY <2>2, <2>4, <2>5 DEF Abstract!Init
<1>2. RoundInv /\ RoundInv' /\ [Next]_vars => [Abstract!Next]_(Abstract!vars)
  <2> SUFFICES ASSUME RoundInv, RoundInv', [Next]_vars PROVE Simulated
    BY DEF Simulated
  <2>1. TypeOK /\ TypeOK' /\ ServiceInv /\ FlagInv /\ (Init \/ Underway)
    BY DEF RoundInv
  <2>2. CASE UNCHANGED vars
    <3>1. UNCHANGED <<tuples, reset, chain>>
      BY <2>2 DEF vars, tableVars, flagVars
    <3>2. QED
      BY <3>1, Stutters
  <2>3. CASE Next /\ Init
    BY <2>3, OnlyBegins, StartsFirst
  <2>4. CASE Next /\ Underway
    <3>1. PICK st, Q : Reconciling(st, Q)
      BY <2>4 DEF Underway
    <3>2. QED
      BY <2>1, <2>4, <3>1, SimulatedRound
  <2>5. QED
    BY <2>1, <2>2, <2>3, <2>4
<1>3. Spec => []RoundInv
  BY RoundsProceed
<1>4. QED
  BY <1>1, <1>2, <1>3, PTL DEF Spec, ReconcilesSets, Abstract!Spec

\* Only a hello that is heard leaves the air.
LEMMA HellosStay ==
  ASSUME Next, NEW m \in net \ net', m.type = "ROOT_SR_HELLO",
         \A o \in net : ~SendFails(o) /\ ~LoseUnicast(o)
  PROVE  ReceiveHello(m)
<1>1. ~StartTopologyBuilding
  BY DEF StartTopologyBuilding
<1>2. ASSUME NEW n \in Nodes, NEW acked, NEW running, NEW known,
             InverseSetRec(n, acked, running, known)
      PROVE  net \subseteq net'
  BY <1>2 DEF InverseSetRec
<1>3. ASSUME NEW n \in Nodes, AskToParentBF(n) PROVE net \subseteq net'
  BY <1>3 DEF AskToParentBF
<1>4. ASSUME NEW n \in Nodes, NoChildren(n) PROVE net \subseteq net'
  BY <1>2, <1>3, <1>4 DEF NoChildren
<1>5. ASSUME NEW n \in Nodes PROVE ~Timeout(n) /\ ~DelayedCall(n)
  <2>1. ~(net \subseteq net')
    OBVIOUS
  <2>2. ~NoChildrenNew(n) /\ ~NoChildrenDue(n)
    BY <2>1, <1>4 DEF NoChildrenNew, NoChildrenDue
  <2>3. ~AskTimeout(n)
    BY <2>1, <1>3 DEF AskTimeout
  <2>4. ~InverseTimeout(n) /\ ~InverseSetRecDue(n)
    BY <2>1, <1>2 DEF InverseTimeout, InverseSetRecDue
  <2>5. QED
    BY <2>2, <2>3, <2>4 DEF Timeout, DelayedCall
<1>6. ASSUME NEW o \in net, ReceiveUnicast(o) PROVE FALSE
  <2>1. o.type # "ROOT_SR_HELLO" /\ net \ {o} \subseteq net'
    <3>1. CASE SendToChildBF(o)
      BY <3>1 DEF SendToChildBF
    <3>2. CASE EnqueueChild(o)
      BY <3>2 DEF EnqueueChild
    <3>3. CASE ReceivedFromParentBF(o)
      BY <3>3 DEF ReceivedFromParentBF
    <3>4. CASE ProcessReceivedMissing(o)
      BY <3>4 DEF ProcessReceivedMissing, OnChildResponseReceived
    <3>5. CASE SendBFC2P(o)
      BY <3>5 DEF SendBFC2P
    <3>6. CASE ReceivedFromChildBF(o)
      BY <3>6 DEF ReceivedFromChildBF
    <3>7. CASE ProcessReceivedMissingInverse(o)
      BY <3>7 DEF ProcessReceivedMissingInverse
    <3>8. CASE ProcessInverseAck(o)
      BY <3>8 DEF ProcessInverseAck
    <3>9. QED
      BY <1>6, <3>1, <3>2, <3>3, <3>4, <3>5, <3>6, <3>7, <3>8 DEF ReceiveUnicast
  <2>2. QED
    BY <2>1
<1>7. PICK o \in net : ReceiveHello(o)
  BY <1>1, <1>5, <1>6 DEF Next, RecvPacket
<1>8. net \ {o} \subseteq net'
  BY <1>7 DEF ReceiveHello, ProcessRootHello, ProcessSRHello
<1>9. QED
  BY <1>7, <1>8

\* What the neighbours of the root know once they have heard its hello.
LEMMA CleanStart ==
  ASSUME NEW st, NEW Q, TypeOK, Nominal, Control(st, Q), Next,
         NEW m \in net \ net', m.type = "ROOT_SR_HELLO", NEW n \in Neighbours(m.src)
  PROVE  tuples'[n] = {{n, m.src}}
<1>1. TreeInv(st) /\ HelloInv(st) /\ n \in Nodes
  BY DEF Control, Neighbours
<1>2. ReceiveHello(m)
  <2>1. \A o \in net : ~SendFails(o) /\ ~LoseUnicast(o)
    BY Addressed
  <2>2. QED
    BY <2>1, HellosStay
<1>3. PICK x : x \in Nodes /\ st[x] = Hello /\ HelloVars(st, x, m)
  BY <1>2, AnyHelloHeard
<1>4. st[Root] = Hello /\ m.src = x
  BY <1>1, <1>3 DEF HelloInv, HelloVars
<1>5. m.src = Root
  <2>1. m = Msg("ROOT_SR_HELLO", Root, NoNode, {}, {Root})
    BY <1>1 DEF HelloInv
  <2>2. QED
    BY <2>1, MsgParts
<1>6. n # Root
  BY <1>5, EdgesAssumption DEF Neighbours
<1>7. st[n] = Out
  BY <1>1, <1>4, <1>6 DEF TreeInv
<1>8. n \in Newcomers(st, x)
  BY <1>4, <1>7 DEF Newcomers
<1>9. QED
  BY <1>3, <1>4, <1>8 DEF HelloVars, NewVars

\* On a connected network that loses nothing every round starts from empty tables.
THEOREM RoundsStartClean ==
  ASSUME Nominal
  PROVE  Spec => StartsClean
<1>1. RoundInv /\ [Next]_vars =>
        [\A m \in net \ net' : \A n \in Neighbours(m.src) :
           m.type = "ROOT_SR_HELLO" /\ losses' = losses => tuples'[n] = {{n, m.src}}]_vars
  <2> SUFFICES ASSUME RoundInv, [Next]_vars, vars' # vars,
                      NEW m \in net \ net', NEW n \in Neighbours(m.src), m.type = "ROOT_SR_HELLO"
               PROVE  tuples'[n] = {{n, m.src}}
    OBVIOUS
  <2>1. TypeOK /\ (Init \/ Underway) /\ Next
    BY DEF RoundInv
  <2>2. Underway
    BY <2>1 DEF Init
  <2>3. PICK st, Q : Control(st, Q)
    BY <2>2 DEF Underway, Reconciling
  <2>4. QED
    BY <2>1, <2>3, CleanStart
<1>2. QED
  BY <1>1, RoundsProceed, PTL DEF Spec, StartsClean

\* When no filter reports a tuple it does not hold, every block holds every link.
THEOREM BlocksComplete ==
  ASSUME Nominal, ~FalsePositives
  PROVE  Spec => []TablesComplete
<1>1. RoundInv => TablesComplete
  BY Blocks DEF TablesComplete
<1>2. QED
  BY <1>1, RoundsProceed, PTL
=============================================================================
