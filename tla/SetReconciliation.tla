-------------------------- MODULE SetReconciliation --------------------------
(***************************************************************************)
(* What SAHARA Sync promises on a network that loses nothing: in every      *)
(* round each node observes its own links, nodes learn links from their    *)
(* neighbours, and each node commits once, when it knows every link.  No    *)
(* node begins a round before every node has committed the previous one.   *)
(***************************************************************************)
EXTENDS Naturals

CONSTANTS Nodes, Links

VARIABLES
  known,      \* the links a node knows
  finished,   \* the node has committed and not begun the next round
  committed   \* the number of times the node has committed

vars == <<known, finished, committed>>

Init ==
  /\ known = [n \in Nodes |-> {}]
  /\ finished = [n \in Nodes |-> FALSE]
  /\ committed = [n \in Nodes |-> 0]

\* A finished node may begin the next round once every node is as far as it is.
MayBegin(n) == finished[n] => \A m \in Nodes : committed[m] = committed[n]

\* The links n has learned in the round it is in after it has begun it.
Current(n) == IF finished[n] THEN {} ELSE known[n]

Begin(n) ==
  /\ MayBegin(n)
  /\ known' = [known EXCEPT ![n] = Current(n)]
  /\ finished' = [finished EXCEPT ![n] = FALSE]
  /\ UNCHANGED committed

\* The nodes in S find out at the same moment that they are linked to o.
Observe(o, S) ==
  /\ \A n \in S : {n, o} \in Links /\ MayBegin(n)
  /\ known' = [n \in Nodes |-> IF n \in S THEN Current(n) \cup {{n, o}} ELSE known[n]]
  /\ finished' = [n \in Nodes |-> finished[n] /\ n \notin S]
  /\ UNCHANGED committed

\* n learns links that a neighbour in the same round knows.
Learn(n, m) ==
  /\ {n, m} \in Links
  /\ committed[n] <= committed[m] /\ ~finished[n]
  /\ \E new \in SUBSET known[m] : known' = [known EXCEPT ![n] = @ \cup new]
  /\ UNCHANGED <<finished, committed>>

Commit(n) ==
  /\ ~finished[n]
  /\ known[n] = Links
  /\ finished' = [finished EXCEPT ![n] = TRUE]
  /\ committed' = [committed EXCEPT ![n] = @ + 1]
  /\ UNCHANGED known

Next ==
  \/ \E n \in Nodes : Begin(n) \/ Commit(n)
  \/ \E o \in Nodes, S \in SUBSET Nodes : Observe(o, S)
  \/ \E n, m \in Nodes : Learn(n, m)

Spec == Init /\ [][Next]_vars
=============================================================================
