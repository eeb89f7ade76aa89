----------------------------- MODULE LightMonitor -----------------------------
(***************************************************************************)
(* The light monitoring of saharaSecurity.cc: the source of a message and  *)
(* the neighbours it shares with the first relay start a timer when they   *)
(* hear the relay forward it, and judge the whole path by whether they     *)
(* hear an acknowledgement before the timer expires.  Messages travel      *)
(* while rounds of SAHARA Sync empty the tables, fill them again and, at   *)
(* their end, forget the timers.  Monitors only listen, so the module      *)
(* follows the monitor of one node, me.                                    *)
(***************************************************************************)
EXTENDS Naturals, Sequences, FiniteSets

CONSTANTS
  Nodes, Edges,  \* the network; an edge is a set of two nodes
  Root,          \* the node that starts a round
  Messages,      \* the uids of the data packets
  Origin,        \* the source of each message
  Target,        \* the destination of each message
  Watched,       \* the nodes whose monitor may be followed
  Reputations,   \* the reputations a round may give
  MaxRounds,     \* bound: rounds that begin
  NoVote         \* a key m_idVotes does not have

ASSUME NetworkAssumption ==
  /\ IsFiniteSet(Nodes)
  /\ Root \in Nodes
  /\ Watched \subseteq Nodes
  /\ \A e \in Edges : \E n, p \in Nodes : n # p /\ e = {n, p}

ASSUME MessagesAssumption ==
  /\ Origin \in [Messages -> Nodes]
  /\ Target \in [Messages -> Nodes]
  /\ \A m \in Messages : Origin[m] # Target[m]

ASSUME ReputationsAssumption ==
  /\ Reputations \subseteq 0..255
  /\ Reputations # {}

ASSUME MonitorBoundsAssumption == MaxRounds \in Nat

VARIABLES
  round,    \* the rounds each node has entered
  inRound,  \* whether the node has yet to end the last of them
  table,    \* RoutingTable::m_tuples: the links each node knows
  rep,      \* RoutingTable::m_mapIDRep
  air,      \* packets under way, each with the node that holds it
  unsent,   \* messages not sent yet
  me,       \* the node whose monitor is followed; it does not change
  timers,   \* the keys of m_mapTimersLight
  running,  \* those of them whose timer runs
  stray,    \* messages with a running timer that m_mapTimersLight has lost
  votes,    \* SaharaSecurity::m_idVotes
  stuck,    \* a path lookup does not return: nothing else happens
  heard,    \* history: messages whose acknowledgement me captured
  credited, \* history: those for which me credited a path since its reset
  missed    \* history: those for which me penalised a path since its reset

roundVars == <<round, inRound, table, rep>>
monitorVars == <<me, timers, running, stray, votes, stuck, heard, credited, missed>>
vars == <<roundVars, air, unsent, monitorVars>>

\* Copy 0 is the message; 1 and 2 are the acknowledgements its receiver sends,
\* 100 ms and 300 ms after the message has arrived.
Copies == 0..2
Packet == [msg : Messages, copy : Copies, at : Nodes]

\* A double that starts as a reputation and is only multiplied, by 1.1 and by
\* 0.5, is kept exactly, as the fraction num / den.
Vote == [num : Nat, den : Nat \ {0}, cast : BOOLEAN]

TypeOK ==
  /\ round \in [Nodes -> 0..MaxRounds]
  /\ inRound \in [Nodes -> BOOLEAN]
  /\ table \in [Nodes -> SUBSET Edges]
  /\ rep \in [Nodes -> Reputations]
  /\ air \subseteq Packet
  /\ unsent \subseteq Messages
  /\ me \in Watched
  /\ timers \subseteq Messages
  /\ running \subseteq timers
  /\ stray \subseteq Messages
  /\ votes \in [Nodes -> Vote \cup {NoVote}]
  /\ stuck \in BOOLEAN
  /\ heard \subseteq Messages
  /\ credited \subseteq Messages
  /\ missed \subseteq Messages

-----------------------------------------------------------------------------
(* The routing table. *)

Neighbours(n) == {p \in Nodes : {n, p} \in Edges}

\* RoutingTable::IsIPInNeigh, with the tuples in links.
IsIPInNeigh(links, n, p) == {n, p} \in links

\* GetVectOfNeigByIP, in the table of the node itself.
GetVectOfNeigByIP(n) == {p \in Nodes : {n, p} \in table[n]}

Mentioned(links) == UNION links

Walks(k) == [1..k -> Nodes]

\* The paths of k nodes over links from s to d.
Paths(links, s, d, k) ==
  {w \in Walks(k) : /\ w[1] = s
                    /\ w[k] = d
                    /\ \A i \in 1..(k - 1) : {w[i], w[i + 1]} \in links}

\* Whether GetPathFromSourceToDestination returns.  A destination in no tuple
\* gets distance 0 from operator[]; its predecessors never lead to the source.
LookupReturns(links, d) == d \in Mentioned(links)

\* GetPathFromSourceToDestination and LookUpAddr: a shortest path, as all
\* links cost the same here, and the empty one if there is none.
PathFrom(links, s, d) ==
  LET lengths == {k \in 2..Cardinality(Nodes) : Paths(links, s, d, k) # {}}
      shortest == CHOOSE k \in lengths : \A l \in lengths : k <= l
  IN  IF lengths = {} THEN <<>> ELSE CHOOSE w \in Paths(links, s, d, shortest) : TRUE

OnPath(links, s, d) ==
  LET p == PathFrom(links, s, d) IN {p[i] : i \in DOMAIN p}

-----------------------------------------------------------------------------
(* Votes. *)

\* The entry of n, made from its reputation if there is none.
Entry(n) ==
  IF votes[n] = NoVote THEN [num |-> rep[me], den |-> 1, cast |-> FALSE]
                       ELSE votes[n]

\* UpdateNodeReputation for the nodes of S: half is left.
UpdateNodeReputation(S) ==
  [n \in Nodes |-> IF n \in S THEN [Entry(n) EXCEPT !.den = 2 * @, !.cast = TRUE]
                              ELSE votes[n]]

\* UpdateNodeReputationPositive for the nodes of S: a tenth is added.
UpdateNodeReputationPositive(S) ==
  [n \in Nodes |-> IF n \in S THEN [Entry(n) EXCEPT !.num = 11 * @, !.den = 10 * @, !.cast = TRUE]
                              ELSE votes[n]]

Below(v, limit) == v.num < limit * v.den
Above(v, limit) == v.num > limit * v.den

\* The vote GetMyVotesList makes of an entry.
VoteState(v) ==
  CASE v.num = 0 \/ ~v.cast -> "Undefined"
    [] v.num # 0 /\ v.cast /\ Below(v, 50) -> "Negative"
    [] v.num # 0 /\ v.cast /\ Above(v, 250) -> "Positive"
    [] OTHER -> "Undefined"

\* What me would vote about n if it sent its votes now.
MyVote(n) == IF votes[n] = NoVote THEN "Undefined" ELSE VoteState(votes[n])

\* Fault: the reputations of the last block count as votes cast.
LoadLastBlockCast(n, r) ==
  [p \in Nodes |-> IF p \in GetVectOfNeigByIP(n)
                     THEN [num |-> r, den |-> 1, cast |-> TRUE]
                     ELSE NoVote]

\* LoadLastBlock: the neighbours of n with the reputation r, not voted about.
LoadLastBlock(n, r) ==
  [p \in Nodes |-> IF p \in GetVectOfNeigByIP(n)
                     THEN [num |-> r, den |-> 1, cast |-> FALSE]
                     ELSE NoVote]
-----------------------------------------------------------------------------
(* Monitoring. *)

\* Fault: the sender a device hears need not be a neighbour of the source.
WatchesAnySender(end, x) ==
  \/ me = end
  \/ IsIPInNeigh(table[me], end, me)

\* Whether me watches the packets from or to the node end when it hears x send:
\* it is that node, or both it and x are its neighbours.
Watches(end, x) ==
  \/ me = end
  \/ /\ IsIPInNeigh(table[me], end, me)
     /\ IsIPInNeigh(table[me], end, x)

\* VerifyDropAndTemperLight for the message m: a new timer takes the place of
\* the one in m_mapTimersLight, which runs on if it was running.
StartTimer(m) ==
  /\ timers' = timers \cup {m}
  /\ running' = running \cup {m}
  /\ stray' = stray \cup (running \cap {m})
  /\ UNCHANGED <<me, votes, stuck, heard, credited, missed>>

\* Fault: the path is credited but the timer runs on.
StopTimerRunsOn(m) ==
  /\ heard' = heard \cup {m}
  /\ IF m \in timers /\ LookupReturns(table[me], Origin[m])
       THEN /\ votes' = UpdateNodeReputationPositive(
                          OnPath(table[me], Target[m], Origin[m]))
            /\ credited' = credited \cup {m}
       ELSE UNCHANGED <<votes, credited>>
  /\ UNCHANGED <<me, timers, running, stray, stuck, missed>>

\* The same for an acknowledgement of m: if there is a timer for m it is stopped,
\* whether or not it runs, and the path of the acknowledgement credited.
StopTimer(m) ==
  LET returns == LookupReturns(table[me], Origin[m])
  IN  /\ heard' = heard \cup {m}
      /\ IF m \in timers
           THEN /\ running' = running \ {m}
                /\ stuck' = ~returns
                /\ IF returns
                     THEN /\ votes' = UpdateNodeReputationPositive(
                                        OnPath(table[me], Target[m], Origin[m]))
                          /\ credited' = credited \cup {m}
                     ELSE UNCHANGED <<votes, credited>>
           ELSE UNCHANGED <<running, stuck, votes, credited>>
      /\ UNCHANGED <<me, timers, stray, missed>>

\* DropTimeoutExpiredLight and UpdatePathReputation for message m.
UpdatePathReputation(m) ==
  LET returns == LookupReturns(table[me], Target[m])
  IN  /\ stuck' = ~returns
      /\ IF returns
           THEN /\ votes' = UpdateNodeReputation(OnPath(table[me], Origin[m], Target[m]))
                /\ missed' = missed \cup {m}
           ELSE UNCHANGED <<votes, missed>>
      /\ UNCHANGED <<me, timers, heard, credited>>

\* Fault: the votes of the last round are kept.
ResetVariablesKeepsVotes(r) ==
  /\ timers' = {}
  /\ running' = {}
  /\ stray' = stray \cup running
  /\ credited' = {}
  /\ missed' = {}
  /\ UNCHANGED <<me, votes, stuck, heard>>

\* ResetVariables: the timers are forgotten, not cancelled.  LoadLastBlock follows.
ResetVariables(r) ==
  /\ timers' = {}
  /\ running' = {}
  /\ stray' = stray \cup running
  /\ votes' = LoadLastBlock(me, r)
  /\ credited' = {}
  /\ missed' = {}
  /\ UNCHANGED <<me, stuck, heard>>

-----------------------------------------------------------------------------
(* A round has ended at every node. *)
Init ==
  /\ round = [n \in Nodes |-> 0]
  /\ inRound = [n \in Nodes |-> FALSE]
  /\ table = [n \in Nodes |-> Edges]
  /\ rep \in {[n \in Nodes |-> r] : r \in Reputations}
  /\ air = {}
  /\ unsent = Messages
  /\ me \in Watched
  /\ timers = {}
  /\ running = {}
  /\ stray = {}
  /\ votes = LoadLastBlock(me, rep[me])
  /\ stuck = FALSE
  /\ heard = {}
  /\ credited = {}
  /\ missed = {}

Enter(n, links) ==
  /\ round' = [round EXCEPT ![n] = @ + 1]
  /\ inRound' = [inRound EXCEPT ![n] = TRUE]
  /\ table' = [table EXCEPT ![n] = links]

\* StartTopologyBuilding: the root empties its table.
StartRound ==
  /\ \A n \in Nodes : ~inRound[n] /\ round[n] = round[Root]
  /\ round[Root] < MaxRounds
  /\ Enter(Root, {})
  /\ UNCHANGED <<rep, air, unsent, monitorVars>>

\* Fault: the tuple of a later hello has the address of n at both ends.
HearHelloOwnAddress(n, p) ==
  /\ p \in Neighbours(n)
  /\ inRound[p]
  /\ IF round[n] < round[p]
       THEN Enter(n, {{n, p}})
       ELSE /\ inRound[n]
            /\ {n} \notin table[n]
            /\ table' = [table EXCEPT ![n] = @ \cup {{n}}]
            /\ UNCHANGED <<round, inRound>>
  /\ UNCHANGED <<rep, air, unsent, monitorVars>>

\* The first hello of a round empties the table of n; every hello, and the
\* answer to one, adds the link to its sender p.
HearHello(n, p) ==
  /\ p \in Neighbours(n)
  /\ inRound[p]
  /\ IF round[n] < round[p]
       THEN Enter(n, {{n, p}})
       ELSE /\ inRound[n]
            /\ {n, p} \notin table[n]
            /\ table' = [table EXCEPT ![n] = @ \cup {{n, p}}]
            /\ UNCHANGED <<round, inRound>>
  /\ UNCHANGED <<rep, air, unsent, monitorVars>>

\* Whether n has heard all its neighbours, as it has when its slot ends.
SlotEnded(n) == \A p \in Neighbours(n) : {n, p} \in table[n]

\* A report or the missing tuples bring n what its neighbour p knows.
Learn(n, p) ==
  /\ p \in Neighbours(n)
  /\ inRound[n] /\ round[p] = round[n]
  /\ SlotEnded(n) /\ SlotEnded(p)
  /\ ~(table[p] \subseteq table[n])
  /\ table' = [table EXCEPT ![n] = @ \cup table[p]]
  /\ UNCHANGED <<round, inRound, rep, air, unsent, monitorVars>>

\* The end of InverseSetRec.  It leaves n with the reputation r, the same at
\* all nodes that end the round.
EndRound(n, r) ==
  /\ inRound[n]
  /\ table[n] = Edges
  /\ \A p \in Nodes : round[p] = round[n] /\ ~inRound[p] => rep[p] = r
  /\ inRound' = [inRound EXCEPT ![n] = FALSE]
  /\ rep' = [rep EXCEPT ![n] = r]
  /\ IF n = me THEN ResetVariables(r) ELSE UNCHANGED monitorVars
  /\ UNCHANGED <<round, table, air, unsent>>

-----------------------------------------------------------------------------
(* Packets. *)

\* sendMessage of the drivers.
Send(m) ==
  /\ m \in unsent
  /\ unsent' = unsent \ {m}
  /\ air' = air \cup {[msg |-> m, copy |-> 0, at |-> Origin[m]]}
  /\ UNCHANGED <<roundVars, monitorVars>>

\* Where a packet goes: an acknowledgement to the source of its message.
Final(f) == IF f.copy = 0 THEN Target[f.msg] ELSE Origin[f.msg]

\* A packet that arrived: ReceivePacket answers a message with two
\* acknowledgements and an acknowledgement with nothing.
Received(f) ==
  IF f.copy = 0 THEN {[f EXCEPT !.copy = k, !.at = Target[f.msg]] : k \in Copies \ {0}}
                ELSE {}

\* What the device of me makes of f when it captures it: a data packet starts a timer,
\* an acknowledgement stops it.  The sender's address is looked up by its MAC.
PromiscuousCallback(f) ==
  IF Watches(Origin[f.msg], f.at)
    THEN IF f.copy = 0 THEN StartTimer(f.msg) ELSE StopTimer(f.msg)
    ELSE UNCHANGED monitorVars

\* The node that holds f sends it to the next hop, which receives it or not, and
\* me, if it is a neighbour, captures it or not; the next hop captures what it
\* receives.
Forward(f, received, captured) ==
  LET path == PathFrom(table[f.at], f.at, Final(f))
      hop == path[2]
  IN  /\ path # <<>>
      /\ captured => me \in Neighbours(f.at)
      /\ me = hop => captured = received
      /\ air' = (air \ {f}) \cup (IF ~received THEN {}
                                  ELSE IF hop = Final(f) THEN Received(f)
                                  ELSE {[f EXCEPT !.at = hop]})
      /\ IF captured THEN PromiscuousCallback(f) ELSE UNCHANGED monitorVars
      /\ UNCHANGED <<roundVars, unsent>>

\* RouteInput of a compromised node deletes a packet; a packet without a route
\* is dropped at its source, or may wait in a queue it does not leave.
Drop(f) ==
  /\ air' = air \ {f}
  /\ UNCHANGED <<roundVars, unsent, monitorVars>>

\* The timer of m_mapTimersLight for m expires; it stays in the map.
Expire(m) ==
  /\ m \in running
  /\ running' = running \ {m}
  /\ UpdatePathReputation(m)
  /\ UNCHANGED <<roundVars, air, unsent, stray>>

\* A timer the map no longer has expires.
ExpireStray(m) ==
  /\ m \in stray
  /\ stray' = stray \ {m}
  /\ UpdatePathReputation(m)
  /\ UNCHANGED <<roundVars, air, unsent, running>>

Step ==
  \/ StartRound
  \/ \E n, p \in Nodes : HearHello(n, p)
  \/ \E n, p \in Nodes : Learn(n, p)
  \/ \E n \in Nodes, r \in Reputations : EndRound(n, r)
  \/ \E m \in Messages : Send(m)
  \/ \E f \in air, received, captured \in BOOLEAN : Forward(f, received, captured)
  \/ \E f \in air : Drop(f)
  \/ \E m \in Messages : Expire(m)
  \/ \E m \in Messages : ExpireStray(m)

Next == ~stuck /\ Step

Spec == Init /\ [][Next]_vars

-----------------------------------------------------------------------------
(* Properties. *)

\* C holds the destination of m, and a packet from outside of it enters it at y, from
\* a neighbour of the source.
Cut(m, C, y) ==
  /\ y \in C /\ Target[m] \in C /\ Origin[m] \notin C
  /\ \A p \in Nodes \ C, q \in C :
       {p, q} \in Edges => q = y /\ {Origin[m], p} \in Edges

\* Of the neighbours of the source at most one relays m, whatever the tables on its way
\* hold: its destination is one of them, or lies at or behind a node that they alone
\* lead to.
OneRelay(m) ==
  \/ {Origin[m], Target[m]} \in Edges
  \/ \E C \in SUBSET Nodes, y \in Nodes : Cut(m, C, y)

\* The monitor runs one timer for a message, whatever it captures: of the sender and
\* the relays of a path it watches only the first relay.  That is so of a network on
\* which OneRelay is true of every message.
OneTimerPerMessage == running \cap stray = {}

\* The monitor penalises a path for a message whose acknowledgement it captured
\* only if its reset made it forget the timer in between.
PenaltyWasDue ==
  [][\A m \in missed' \ missed : m \in heard => m \in stray]_vars

\* Between rounds, a positive vote about n rests on an acknowledgement that came
\* along n and was captured since the last reset.
PositiveNeedsAck ==
  \A n \in Nodes :
    ~inRound[me] /\ MyVote(n) = "Positive" =>
      \E m \in credited : n \in OnPath(Edges, Target[m], Origin[m])

\* Between rounds, a negative vote about n rests on the timer of a message along
\* n that expired since the last reset, or on a reputation that was low before.
NegativeNeedsMiss ==
  \A n \in Nodes :
    ~inRound[me] /\ MyVote(n) = "Negative" =>
      \/ rep[me] < 50
      \/ \E m \in missed : n \in OnPath(Edges, Origin[m], Target[m])

\* Every lookup of the path of a message returns, so that the end of a timer or
\* an acknowledgement never keeps the simulation from going on.
LookupsReturn == ~stuck

=============================================================================
