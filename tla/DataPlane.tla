------------------------------- MODULE DataPlane -------------------------------
(***************************************************************************)
(* Data packets on the routes that SAHARA Sync makes.  Rounds empty the    *)
(* tables, give each node a partial one and, at their end, the whole one   *)
(* with new reputations, and nodes do this one after the other; meanwhile  *)
(* packets are forwarded by the tables of this or the last round, wait in  *)
(* the queues of nodes without a route, and expire there.                  *)
(*                                                                         *)
(* SaharaSync shows how tables and votes get to the nodes; here a round    *)
(* loses no message, and the votes of all nodes about one are their sum's  *)
(* sign, the same at every node.                                           *)
(***************************************************************************)
EXTENDS ShortestPaths, Sequences

CONSTANTS
  Root,          \* the node that starts a round
  Packets,       \* the uids of the data packets
  Origin,        \* the source of each packet
  Target,        \* the destination of each packet
  MaxLen,        \* m_maxLen, the entries of a queue
  MaxLenPerDst,  \* m_maxLenPerDst, those for one destination
  Timeout,       \* m_queueTimeout
  LookupStart,   \* when the queues are looked up first, m_timeToStartPacketQueue
  Scenarios      \* bounds: of each, the links and votes of its rounds one after the
                 \* other, the packets that are sent and the last moment

Down == "down"
Up == "up"
NoVerdict == "none"

Votes == [Nodes -> {Down, Up, NoVerdict}]
Links == {l \in SUBSET Nodes : \E u, v \in Nodes : u # v /\ l = {u, v}}

ASSUME RootAssumption == Root \in Nodes

ASSUME ScenariosAssumption ==
  \A b \in Scenarios :
    /\ b.course \in Seq([links : SUBSET Links, votes : Votes])
    /\ b.course # <<>>
    /\ b.packets \subseteq Packets
    /\ b.time \in Nat

ASSUME PacketsAssumption ==
  /\ IsFiniteSet(Packets)
  /\ Origin \in [Packets -> Nodes]
  /\ Target \in [Packets -> Nodes]
  /\ \A p \in Packets : Origin[p] # Target[p]

ASSUME LimitsAssumption ==
  /\ MaxLen \in Nat \ {0}
  /\ MaxLenPerDst \in Nat \ {0}
  /\ Timeout \in Nat
  /\ LookupStart \in Nat

VARIABLES
  bounds,    \* the scenario, which does not change
  current,   \* rounds that have begun
  round,     \* the last round each node has entered
  phase,     \* how far it is in that round
  parent,    \* m_parentIP
  table,     \* m_tuples: the links each node knows
  claim,     \* the reputation each node announced for itself in its hello
  firstIT,   \* RoutingTable::m_firstIT: no round has ended here
  rep,       \* m_mapIDRep; nodes it does not mention count as 0
  hops,      \* m_shortestPaths: the next hop to each destination
  block,     \* the last block: its round, its links, the reputations in the file
  now,       \* simulated time
  queue,     \* m_queue: packets with the time they expire
  lookup,    \* m_auditLookUpPacketQueue: before its first run, after it, or never more
  air,       \* packets under way, each with the node that is to receive it
  unsent,    \* packets not sent yet
  delivered, \* packets that reached their destination
  refused    \* history: packets a queue refused

roundVars == <<bounds, current>>
routeVars == <<roundVars, round, phase, parent, table, claim, firstIT, rep, hops, block>>
packetVars == <<queue, lookup, air, unsent, delivered, refused>>
vars == <<routeVars, now, packetVars>>

Phase == {"idle", "hello", "sync"}
Frame == [pkt : Packets, at : Nodes]
Entry == [pkt : Packets, expire : Nat]
NoBlock == [round |-> 0, links |-> {}, rep |-> [m \in Nodes |-> 0]]

TypeOK ==
  /\ bounds \in Scenarios
  /\ current \in 0..Len(bounds.course)
  /\ round \in [Nodes -> 0..current]
  /\ phase \in [Nodes -> Phase]
  /\ parent \in [Nodes -> Nodes \cup {NoAddress}]
  /\ table \in [Nodes -> SUBSET Links]
  /\ claim \in [Nodes -> 0..255]
  /\ firstIT \in [Nodes -> BOOLEAN]
  /\ rep \in [Nodes -> [Nodes -> 0..255]]
  /\ DOMAIN hops = Nodes /\ \A n \in Nodes : DOMAIN hops[n] = Nodes
  /\ block \in [Nodes -> [round : 0..current, links : SUBSET Links,
                          rep : [Nodes -> 0..255]]]
  /\ now \in Nat
  /\ queue \in [Nodes -> SUBSET Entry]
  /\ lookup \in [Nodes -> {"scheduled", "polling", "off"}]
  /\ air \subseteq Frame
  /\ unsent \subseteq Packets
  /\ delivered \subseteq Packets
  /\ refused \subseteq Packets

\* The links between nodes in range of each other, and the votes, of the round.
links == bounds.course[IF current = 0 THEN 1 ELSE current].links
verdict == bounds.course[current].votes

-----------------------------------------------------------------------------
(* Reputations. *)

\* GetNodeReputation of n for every node: the highest before the first round ends.
NodeReputation(n) == IF firstIT[n] THEN [m \in Nodes |-> 255] ELSE rep[n]

\* Fault: only nodes not heard of before get their entry.
GenerateRepMapKeeps(old, known) ==
  [m \in Nodes |-> IF m \in UNION known /\ old[m] = 0 THEN claim[m] ELSE old[m]]

\* GenerateRepMap: the nodes in the links known get the reputation they announced.
GenerateRepMap(old, known) ==
  [m \in Nodes |-> IF m \in UNION known THEN claim[m] ELSE old[m]]

\* Fault: nothing keeps a reputation from growing.
UpdateReputationLocallyUncapped(r) ==
  [m \in Nodes |->
     CASE verdict[m] = Down -> (7 * r[m]) \div 10
       [] verdict[m] = Up -> (11 * r[m]) \div 10
       [] verdict[m] = NoVerdict -> r[m]]

\* UpdateReputationLocally: products of doubles, cut off.
UpdateReputationLocally(r) ==
  [m \in Nodes |->
     CASE verdict[m] = Down -> (7 * r[m]) \div 10
       [] verdict[m] = Up -> IF (11 * r[m]) \div 10 > 255 THEN 255 ELSE (11 * r[m]) \div 10
       [] verdict[m] = NoVerdict -> r[m]]

-----------------------------------------------------------------------------
(* Blocks. *)

\* addBlock: the table of the round, and the reputations that go with it.
AddBlock(known, new) == [round |-> current, links |-> known, rep |-> new]

\* storeToFile: a line for each link, with the reputations of its ends.
StoreToFile(b) == {[link |-> l, rep |-> [m \in l |-> b.rep[m]]] : l \in b.links}

-----------------------------------------------------------------------------
(* The packet queue. *)

\* Purge of a queue.
Unexpired(q) == {e \in q : now <= e.expire}

For(q, d) == {e \in q : Target[e.pkt] = d}

Full(q, d) == Cardinality(For(q, d)) >= MaxLenPerDst \/ Cardinality(q) >= MaxLen

\* Fault: packets are counted before the queue is purged.
EnqueueCountsFirst(n, p) ==
  LET q == Unexpired(queue[n])
      again == \E e \in q : e.pkt = p
      full == Full(queue[n], Target[p])
  IN  /\ queue' = [queue EXCEPT ![n] = IF again \/ full THEN q
                                       ELSE q \cup {[pkt |-> p, expire |-> now + Timeout]}]
      /\ refused' = IF full THEN refused \cup {p} ELSE refused

\* Enqueue: p waits at n unless it waits there already or the queue is full.
Enqueue(n, p) ==
  LET q == Unexpired(queue[n])
      again == \E e \in q : e.pkt = p
      full == Full(q, Target[p])
  IN  /\ queue' = [queue EXCEPT ![n] = IF again \/ full THEN q
                                       ELSE q \cup {[pkt |-> p, expire |-> now + Timeout]}]
      /\ refused' = IF full /\ ~again THEN refused \cup {p} ELSE refused

\* What n sends to hop is received by it if it is in range, and lost otherwise.
Sent(n, p, hop) == IF {n, hop} \in links THEN {[pkt |-> p, at |-> hop]} ELSE {}

-----------------------------------------------------------------------------
(* Rounds. *)

NoHops == [d \in Nodes |-> NoAddress]

\* The end of DoInitialize: a queue of its own for each node, and the moment of
\* its first lookup, which is later for higher addresses by milliseconds.
DoInitialize ==
  /\ queue = [n \in Nodes |-> {}]
  /\ lookup = [n \in Nodes |-> "scheduled"]

Init ==
  /\ bounds \in Scenarios
  /\ current = 0
  /\ round = [n \in Nodes |-> 0]
  /\ phase = [n \in Nodes |-> "idle"]
  /\ parent = [n \in Nodes |-> NoAddress]
  /\ table = [n \in Nodes |-> {}]
  /\ claim = [n \in Nodes |-> 0]
  /\ firstIT = [n \in Nodes |-> TRUE]
  /\ rep = [n \in Nodes |-> [m \in Nodes |-> 0]]
  /\ hops = [n \in Nodes |-> NoHops]
  /\ block = [n \in Nodes |-> NoBlock]
  /\ now = 0
  /\ DoInitialize
  /\ air = {}
  /\ unsent = bounds.packets
  /\ delivered = {}
  /\ refused = {}

\* ResetVariablesUpdate when n enters the round r with the parent p, and the
\* hello in which it announces its reputation.
ResetVariablesUpdate(n, p, r) ==
  /\ round' = [round EXCEPT ![n] = r]
  /\ phase' = [phase EXCEPT ![n] = "hello"]
  /\ parent' = [parent EXCEPT ![n] = p]
  /\ table' = [table EXCEPT ![n] = {}]
  /\ hops' = [hops EXCEPT ![n] = NoHops]
  /\ claim' = [claim EXCEPT ![n] = NodeReputation(n)[n]]
  /\ UNCHANGED <<firstIT, rep, block>>

\* StartTopologyBuilding.  Nodes have moved and voted since the last round.
StartTopologyBuilding ==
  /\ \A n \in Nodes : phase[n] = "idle"
  /\ current < Len(bounds.course)
  /\ current' = current + 1
  /\ ResetVariablesUpdate(Root, NoAddress, current + 1)
  /\ UNCHANGED <<bounds, now, packetVars>>

\* ProcessRootHello and ProcessSRHello: n hears the first hello of the round,
\* of p, which becomes its parent.
ProcessHello(n, p) ==
  /\ {n, p} \in links
  /\ round[n] < current
  /\ round[p] = current
  /\ ResetVariablesUpdate(n, p, current)
  /\ UNCHANGED <<roundVars, now, packetVars>>

\* n runs RunDijkstra on the links it knows, with the reputations of the last round.
RunDijkstra(n, known) ==
  /\ table' = [table EXCEPT ![n] = known]
  /\ hops' = [hops EXCEPT ![n] = NextHops(known, NodeReputation(n), n)]

\* NoChildren, or the first SendToChildBF, once n has heard all its neighbours.
SlotEnded(n) ==
  /\ phase[n] = "hello"
  /\ \A p \in Linked(links, n) : round[p] = current
  /\ phase' = [phase EXCEPT ![n] = "sync"]
  /\ RunDijkstra(n, {l \in links : n \in l})
  /\ UNCHANGED <<roundVars, round, parent, claim, firstIT, rep, block,
                 now, packetVars>>

\* ProcessReceivedMissing: n has the report of its child c, and goes on to the
\* next child or its parent.
ProcessReceivedMissing(n, c) ==
  /\ phase[n] = "sync" /\ phase[c] = "sync"
  /\ parent[c] = n
  /\ ~(table[c] \subseteq table[n])
  /\ RunDijkstra(n, table[n] \cup table[c])
  /\ UNCHANGED <<roundVars, round, phase, parent, claim, firstIT, rep,
                 block, now, packetVars>>

\* The links of the nodes that take part in the round.
Complete == {l \in links : \A n \in l : round[n] = current}

\* Fault: the routes are computed before the reputations are updated.
RoutesOfEarly(n, new) == NextHops(Complete, NodeReputation(n), n)

\* The routes of the end of a round, with the reputations new.
RoutesOf(n, new) == NextHops(Complete, new, n)

\* UpdateFileHistory at the end of a round: the new reputations and the block.
UpdateFileHistory(n, new) ==
  /\ firstIT' = [firstIT EXCEPT ![n] = FALSE]
  /\ rep' = [rep EXCEPT ![n] = new]
  /\ block' = [block EXCEPT ![n] = AddBlock(Complete, new)]

\* The end of InverseSetRec: the root when all reports have come up, the others
\* when the missing tuples come down.
InverseSetRec(n) ==
  LET new == UpdateReputationLocally(GenerateRepMap(rep[n], Complete))
  IN  /\ phase[n] = "sync"
      /\ IF n = Root
           THEN \A m \in Nodes : round[m] = current => phase[m] = "sync"
           ELSE phase[parent[n]] = "idle"
      /\ phase' = [phase EXCEPT ![n] = "idle"]
      /\ table' = [table EXCEPT ![n] = Complete]
      /\ UpdateFileHistory(n, new)
      /\ hops' = [hops EXCEPT ![n] = RoutesOf(n, new)]
      /\ UNCHANGED <<roundVars, round, parent, claim, now, packetVars>>

-----------------------------------------------------------------------------
(* Packets. *)

\* RouteOutput: without a route the packet gets the sender as gateway and
\* 0.0.0.0 as source, and is lost.
RouteOutput(p) ==
  /\ p \in unsent
  /\ unsent' = unsent \ {p}
  /\ air' = air \cup Sent(Origin[p], p, hops[Origin[p]][Target[p]])
  /\ UNCHANGED <<routeVars, now, queue, lookup, delivered, refused>>

\* RouteInput at the node f.at.
RouteInput(f) ==
  LET n == f.at
      p == f.pkt
      hop == hops[n][Target[p]]
  IN  /\ CASE n = Origin[p] ->
                /\ air' = air \ {f}
                /\ UNCHANGED <<queue, delivered, refused>>
           [] n = Target[p] ->
                /\ air' = air \ {f}
                /\ delivered' = delivered \cup {p}
                /\ UNCHANGED <<queue, refused>>
           [] n \notin {Origin[p], Target[p]} /\ hop = NoAddress ->
                /\ air' = air \ {f}
                /\ Enqueue(n, p)
                /\ UNCHANGED delivered
           [] n \notin {Origin[p], Target[p]} /\ hop # NoAddress ->
                /\ air' = (air \ {f}) \cup Sent(n, p, hop)
                /\ UNCHANGED <<queue, delivered, refused>>
      /\ UNCHANGED <<routeVars, now, lookup, unsent>>

\* The channel loses a packet, or a compromised node deletes it in RouteInput.
Lose(f) ==
  /\ air' = air \ {f}
  /\ UNCHANGED <<routeVars, now, queue, lookup, unsent, delivered, refused>>

\* Fault: packets are sent without a look at their time.
ToSendExpired(n) == {e \in queue[n] : hops[n][Target[e.pkt]] # NoAddress}

\* The entries SendPacketFromQueue takes out of the queue of n.
ToSend(n) == {e \in Unexpired(queue[n]) : hops[n][Target[e.pkt]] # NoAddress}

\* Fault: the packets sent stay in the queue.
DequeueCopies(n, sending) == [queue EXCEPT ![n] = Unexpired(@)]

Dequeue(n, sending) == [queue EXCEPT ![n] = Unexpired(@) \ sending]

\* A node that looks its queue up after 0 ms keeps the simulated time, and all
\* that is to happen later, from going on.
Polling(n) == lookup[n] = "polling"
NobodyPolls == \A n \in Nodes : ~Polling(n)

\* LookupQueue, first in the order of addresses: it runs again after 0 ms if it found a packet, and never if not.
LookupQueue(n) ==
  /\ \/ Polling(n)
     \/ /\ NobodyPolls
        /\ lookup[n] = "scheduled" /\ now = LookupStart
        /\ \A m \in Nodes : lookup[m] = "scheduled" => n <= m
  /\ lookup' = [lookup EXCEPT ![n] = IF Unexpired(queue[n]) = {} THEN "off" ELSE "polling"]
  /\ queue' = Dequeue(n, ToSend(n))
  /\ air' = air \cup UNION {Sent(n, e.pkt, hops[n][Target[e.pkt]]) : e \in ToSend(n)}
  /\ UNCHANGED <<routeVars, now, unsent, delivered, refused>>

Tick ==
  /\ now < bounds.time
  /\ now = LookupStart => \A n \in Nodes : lookup[n] = "off"
  /\ now' = now + 1
  /\ UNCHANGED <<routeVars, packetVars>>

-----------------------------------------------------------------------------
\* Everything but the lookup of the queues.
Event ==
  \/ StartTopologyBuilding
  \/ \E n, p \in Nodes : ProcessHello(n, p)
  \/ \E n \in Nodes : SlotEnded(n)
  \/ \E n, c \in Nodes : ProcessReceivedMissing(n, c)
  \/ \E n \in Nodes : InverseSetRec(n)
  \/ \E p \in Packets : RouteOutput(p)
  \/ \E f \in air : RouteInput(f)
  \/ \E f \in air : Lose(f)
  \/ Tick

Next ==
  \/ \E n \in Nodes : LookupQueue(n)
  \/ NobodyPolls /\ Event

Spec == Init /\ [][Next]_vars

\* Time goes on, and with it come the lookups of the queues.
Fairness ==
  /\ \A n \in Nodes : WF_vars(LookupQueue(n))
  /\ WF_vars(NobodyPolls /\ Tick)

FairSpec == Spec /\ Fairness

-----------------------------------------------------------------------------
(* Properties. *)

\* A packet is in one place: not sent yet, under way, waiting in one queue under
\* one entry, or at its destination.
Places(p) ==
  {<<"air", f.at>> : f \in {g \in air : g.pkt = p}}
    \cup (UNION {{<<"queue", n, e.expire>> : e \in {x \in queue[n] : x.pkt = p}} : n \in Nodes})
    \cup (IF p \in unsent THEN {<<"unsent">>} ELSE {})
    \cup (IF p \in delivered THEN {<<"delivered">>} ELSE {})

OneCopy == \A p \in Packets : Cardinality(Places(p)) <= 1

\* A queue refuses a packet only while as many other packets as it may hold, for
\* the same destination or at all, have waited there for less than the timeout.
RefusedOnlyWhenFull ==
  [][\A p \in refused' \ refused : \E n \in Nodes :
       LET waiting == {e.pkt : e \in Unexpired(queue[n])} \ {p}
       IN  \/ Cardinality({o \in waiting : Target[o] = Target[p]}) >= MaxLenPerDst
           \/ Cardinality(waiting) >= MaxLen]_vars

\* A packet that waited for longer than the timeout is not sent on.
SentBeforeTimeout ==
  [][\A n \in Nodes : \A e \in queue[n] :
       e \notin queue'[n] /\ (\E f \in air' : f.pkt = e.pkt) => now <= e.expire]_vars

\* Nodes that wrote a block for the same round wrote the same lines to their files,
\* links and reputations, whichever rounds they missed before.
ReputationsAgree ==
  \A n, p \in Nodes :
    block[n].round = block[p].round =>
      StoreToFile(block[n]) = StoreToFile(block[p])

\* Nodes that have ended the same round, and not entered the next, never send a
\* packet round and round among themselves.
Settled(r) == {n \in Nodes : phase[n] = "idle" /\ round[n] = r}

LoopFree ==
  \A r \in 1..current : \A S \in (SUBSET Settled(r)) \ {{}} : \A d \in Nodes \ S :
    \E n \in S : hops[n][d] \notin S

\* The routes a node computes are cheapest paths over the links it knows then, at
\* the reputations it holds then, but for its neighbours.
ShortestRoutes ==
  [][\A n \in Nodes :
       hops'[n] # hops[n] /\ table'[n] # {} =>
         Cheapest(table'[n], NodeReputation(n)', n, hops'[n])]_vars

\* A packet does not wait for ever at a node that has a route for it.
RoutedLeaves ==
  \A n \in Nodes : \A p \in Packets :
    ~<>[](/\ \E e \in queue[n] : e.pkt = p
          /\ hops[n][Target[p]] # NoAddress)

=============================================================================
