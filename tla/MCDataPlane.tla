------------------------------ MODULE MCDataPlane ------------------------------
(***************************************************************************)
(* Scenarios for DataPlane: rounds on a ring of five nodes, with votes and *)
(* without a node in some of them; and two rounds on a chain of three of   *)
(* them, while packets go from one end to the other.                       *)
(***************************************************************************)
EXTENDS DataPlane, TLC

Ring == {{1, 2}, {2, 3}, {3, 4}, {4, 5}, {5, 1}}
Without4 == {{1, 2}, {2, 3}, {5, 1}}
Chain == {{1, 2}, {2, 3}}

NoVotes == [n \in Nodes |-> NoVerdict]
Blame(m) == [n \in Nodes |-> IF n = m THEN Down ELSE Up]

\* Node 5 loses its reputation; then node 4, out of range, misses how node 2 does.
Reputations ==
  LET ring == [links |-> Ring, votes |-> Blame(5)]
      without == [links |-> Without4, votes |-> Blame(2)]
  IN  [course |-> <<ring, ring, without, without, without, without,
                    [links |-> Ring, votes |-> NoVotes]>>,
       packets |-> {}, time |-> 0]

Traffic ==
  LET chain == [links |-> Chain, votes |-> NoVotes]
  IN  [course |-> <<chain, chain>>, packets |-> Packets, time |-> 2]

AllScenarios == {Reputations, Traffic}
TrafficAlone == {Traffic}

\* p1 and p2 go from 3 to 1, p3 goes the other way.
CONSTANTS p1, p2, p3

Source == [p \in Packets |-> IF p = p3 THEN 1 ELSE 3]
Sink == [p \in Packets |-> IF p = p3 THEN 3 ELSE 1]
Uids == Permutations({p1, p2})
=============================================================================
