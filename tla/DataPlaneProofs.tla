--------------------------- MODULE DataPlaneProofs ---------------------------
(***************************************************************************)
(* Proofs about DataPlane, for every network, course of rounds and votes,  *)
(* set of packets and limits of the queues.                                *)
(***************************************************************************)
EXTENDS DataPlane, ShortestPathsProofs, FiniteSetTheorems

-----------------------------------------------------------------------------
(***************************************************************************)
(* Type correctness.                                                       *)
(***************************************************************************)
LEMMA ElementType ==
  ASSUME NEW S, NEW s \in Seq(S), NEW i \in 1..Len(s)
  PROVE  s[i] \in S
OBVIOUS

\* A scenario has links between nodes and votes about nodes.
LEMMA ScenarioType ==
  ASSUME TypeOK
  PROVE  /\ links \in SUBSET Links
         /\ current # 0 => verdict \in Votes
<1>1. /\ bounds.course \in Seq([links : SUBSET Links, votes : Votes])
      /\ bounds.course # <<>>
  BY ScenariosAssumption DEF TypeOK
<1>2. Len(bounds.course) \in Nat /\ Len(bounds.course) # 0
  BY <1>1
<1>3. \A i \in 1..Len(bounds.course) :
        bounds.course[i] \in [links : SUBSET Links, votes : Votes]
  BY <1>1, ElementType
<1>4. current \in Nat /\ current <= Len(bounds.course)
  BY <1>2 DEF TypeOK
<1>5. (IF current = 0 THEN 1 ELSE current) \in 1..Len(bounds.course)
  BY <1>2, <1>4
<1>6. links \in SUBSET Links
  BY <1>3, <1>5 DEF links
<1>7. ASSUME current # 0 PROVE verdict \in Votes
  BY <1>3, <1>5, <1>7 DEF verdict
<1>8. QED
  BY <1>6, <1>7

\* A packet goes to a node.
LEMMA SentType ==
  ASSUME TypeOK, NEW n \in Nodes, NEW p \in Packets, NEW hop
  PROVE  Sent(n, p, hop) \subseteq Frame
<1>1. ASSUME {n, hop} \in links PROVE hop \in Nodes
  BY <1>1, ScenarioType DEF Links
<1>2. QED
  BY <1>1 DEF Sent, Frame

\* The reputations of the end of a round are numbers of 8 bits.
LEMMA ReputationType ==
  ASSUME TypeOK, current # 0, NEW n \in Nodes, NEW known
  PROVE  UpdateReputationLocally(GenerateRepMap(rep[n], known)) \in [Nodes -> 0..255]
<1> DEFINE r == GenerateRepMap(rep[n], known)
<1>1. r \in [Nodes -> 0..255]
  <2>1. rep[n] \in [Nodes -> 0..255] /\ claim \in [Nodes -> 0..255]
    BY DEF TypeOK
  <2>2. r = [m \in Nodes |-> IF m \in UNION known THEN claim[m] ELSE rep[n][m]]
    BY DEF GenerateRepMap
  <2>3. QED
    BY <2>1, <2>2
<1> HIDE DEF r
<1>2. \A m \in Nodes : verdict[m] \in {Down, Up, NoVerdict}
  BY ScenarioType DEF Votes
<1>3. ASSUME NEW m \in Nodes PROVE UpdateReputationLocally(r)[m] \in 0..255
  <2>1. r[m] \in 0..255
    BY <1>1
  <2>2. (7 * r[m]) \div 10 \in 0..255 /\ (11 * r[m]) \div 10 \in Nat
    BY <2>1
  <2>3. (IF (11 * r[m]) \div 10 > 255 THEN 255 ELSE (11 * r[m]) \div 10) \in 0..255
    BY <2>2
  <2>4. Down # Up /\ Down # NoVerdict /\ Up # NoVerdict
    BY DEF Down, Up, NoVerdict
  <2>5. UpdateReputationLocally(r)[m] =
          CASE verdict[m] = Down -> (7 * r[m]) \div 10
            [] verdict[m] = Up -> IF (11 * r[m]) \div 10 > 255 THEN 255 ELSE (11 * r[m]) \div 10
            [] verdict[m] = NoVerdict -> r[m]
    BY DEF UpdateReputationLocally
  <2>6. QED
    BY <1>2, <2>1, <2>2, <2>3, <2>4, <2>5
<1>4. QED
  BY <1>3 DEF UpdateReputationLocally, r

LEMMA NodeReputationType ==
  ASSUME TypeOK, NEW n \in Nodes
  PROVE  NodeReputation(n) \in [Nodes -> 0..255]
BY DEF TypeOK, NodeReputation

LEMMA NextHopsDomain ==
  ASSUME NEW known, NEW r, NEW n
  PROVE  DOMAIN NextHops(known, r, n) = Nodes
BY DEF NextHops

LEMMA EnqueueType ==
  ASSUME TypeOK, NEW n \in Nodes, NEW p \in Packets, Enqueue(n, p)
  PROVE  /\ queue' \in [Nodes -> SUBSET Entry]
         /\ refused' \subseteq Packets
<1>1. now + Timeout \in Nat
  BY LimitsAssumption DEF TypeOK
<1>2. [pkt |-> p, expire |-> now + Timeout] \in Entry
  BY <1>1 DEF Entry
<1>3. Unexpired(queue[n]) \subseteq Entry
  BY DEF TypeOK, Unexpired
<1>4. QED
  BY <1>2, <1>3 DEF TypeOK, Enqueue

\* What becomes of a packet in RouteInput: deleted, delivered, queued or forwarded.
LEMMA RouteInputCases ==
  ASSUME NEW f \in air, RouteInput(f)
  PROVE  /\ \/ air' = air \ {f} /\ UNCHANGED <<queue, delivered, refused>>
            \/ /\ air' = air \ {f} /\ delivered' = delivered \cup {f.pkt}
               /\ UNCHANGED <<queue, refused>>
            \/ air' = air \ {f} /\ Enqueue(f.at, f.pkt) /\ UNCHANGED delivered
            \/ /\ air' = (air \ {f}) \cup Sent(f.at, f.pkt, hops[f.at][Target[f.pkt]])
               /\ UNCHANGED <<queue, delivered, refused>>
         /\ UNCHANGED <<routeVars, now, lookup, unsent>>
<1> DEFINE hop == hops[f.at][Target[f.pkt]]
<1>1. CASE f.at = Origin[f.pkt]
  BY <1>1 DEF RouteInput
<1>2. CASE f.at # Origin[f.pkt] /\ f.at = Target[f.pkt]
  BY <1>2 DEF RouteInput
<1>3. CASE f.at \notin {Origin[f.pkt], Target[f.pkt]} /\ hop = NoAddress
  BY <1>3 DEF RouteInput
<1>4. CASE f.at \notin {Origin[f.pkt], Target[f.pkt]} /\ hop # NoAddress
  BY <1>4 DEF RouteInput
<1>5. QED
  BY <1>1, <1>2, <1>3, <1>4

LEMMA ResetType ==
  ASSUME TypeOK, NEW n \in Nodes, NEW p \in Nodes \cup {NoAddress},
         NEW r, r \in 0..current',
         current' \in 0..Len(bounds.course), current <= current', bounds' = bounds,
         ResetVariablesUpdate(n, p, r), UNCHANGED <<now, packetVars>>
  PROVE  TypeOK'
<1>1. NodeReputation(n)[n] \in 0..255
  BY NodeReputationType
<1>2. 0..current \subseteq 0..current'
  BY DEF TypeOK
<1>3. round' \in [Nodes -> 0..current']
  BY <1>2 DEF TypeOK, ResetVariablesUpdate
<1>4. block' \in [Nodes -> [round : 0..current', links : SUBSET Links,
                          rep : [Nodes -> 0..255]]]
  BY <1>2 DEF TypeOK, ResetVariablesUpdate
<1>5. DOMAIN hops' = Nodes /\ \A m \in Nodes : DOMAIN hops'[m] = Nodes
  BY DEF TypeOK, ResetVariablesUpdate, NoHops
<1>6. /\ phase' \in [Nodes -> Phase] /\ parent' \in [Nodes -> Nodes \cup {NoAddress}]
      /\ table' \in [Nodes -> SUBSET Links] /\ claim' \in [Nodes -> 0..255]
  BY <1>1 DEF TypeOK, ResetVariablesUpdate, Phase
<1>7. QED
  BY <1>3, <1>4, <1>5, <1>6 DEF TypeOK, ResetVariablesUpdate, packetVars

LEMMA TypeInitially == Init => TypeOK
<1> SUFFICES ASSUME Init PROVE TypeOK
  OBVIOUS
<1>1. bounds \in Scenarios /\ current = 0
  BY DEF Init
<1>2. Len(bounds.course) \in Nat /\ bounds.packets \subseteq Packets
  BY <1>1, ScenariosAssumption
<1>3. 0 \in 0..Len(bounds.course) /\ 0 \in 0..0 /\ 0 \in 0..255
  BY <1>2
<1>4. NoBlock \in [round : 0..0, links : SUBSET Links, rep : [Nodes -> 0..255]]
  BY <1>3 DEF NoBlock
<1>5. round \in [Nodes -> 0..current] /\ phase \in [Nodes -> Phase]
  BY <1>1, <1>3 DEF Init, Phase
<1>6. QED
  BY <1>1, <1>2, <1>3, <1>4, <1>5 DEF Init, DoInitialize, TypeOK, NoHops

\* Before the first round every node is idle.
Begun == current = 0 => \A n \in Nodes : phase[n] = "idle"

LEMMA BegunStep == TypeOK /\ Begun /\ [Next]_vars => Begun'
<1> SUFFICES ASSUME TypeOK, Begun, [Next]_vars PROVE Begun'
  OBVIOUS
<1>1. current \in Nat
  <2>1. Len(bounds.course) \in Nat
    BY ScenariosAssumption DEF TypeOK
  <2>2. QED
    BY <2>1 DEF TypeOK
<1>2. CASE StartTopologyBuilding
  BY <1>1, <1>2 DEF StartTopologyBuilding, Begun
<1>3. ASSUME NEW n \in Nodes, NEW p \in Nodes, ProcessHello(n, p) PROVE Begun'
  <2>1. round[n] < current /\ round[n] \in 0..current
    BY <1>3 DEF ProcessHello, TypeOK
  <2>2. current # 0
    BY <1>1, <2>1
  <2>3. QED
    BY <1>3, <2>2 DEF ProcessHello, roundVars, Begun
<1>4. ASSUME NEW n \in Nodes, SlotEnded(n) PROVE Begun'
  BY <1>4 DEF SlotEnded, roundVars, Begun
<1>5. ASSUME NEW n \in Nodes, InverseSetRec(n) PROVE Begun'
  BY <1>5 DEF InverseSetRec, roundVars, Begun
<1>6. ASSUME UNCHANGED <<current, phase>> PROVE Begun'
  BY <1>6 DEF Begun
<1>7. ASSUME NEW n \in Nodes, NEW c \in Nodes, ProcessReceivedMissing(n, c)
      PROVE  UNCHANGED <<current, phase>>
  BY <1>7 DEF ProcessReceivedMissing, roundVars
<1>8. ASSUME NEW f \in air, RouteInput(f) \/ Lose(f) PROVE UNCHANGED <<current, phase>>
  BY <1>8 DEF RouteInput, Lose, routeVars, roundVars
<1>9. ASSUME \/ \E p \in Packets : RouteOutput(p)
             \/ \E n \in Nodes : LookupQueue(n)
             \/ Tick
             \/ UNCHANGED vars
      PROVE  UNCHANGED <<current, phase>>
  BY <1>9 DEF RouteOutput, LookupQueue, Tick, vars, routeVars, roundVars
<1>10. QED
  BY <1>2, <1>3, <1>4, <1>5, <1>6, <1>7, <1>8, <1>9 DEF Next, Event

LEMMA TypeStep == TypeOK /\ Begun /\ [Next]_vars => TypeOK'
<1> SUFFICES ASSUME TypeOK, Begun, [Next]_vars PROVE TypeOK'
  OBVIOUS
<1>1. Len(bounds.course) \in Nat /\ current \in Nat /\ current <= Len(bounds.course)
  <2>1. bounds.course \in Seq([links : SUBSET Links, votes : Votes])
    BY ScenariosAssumption DEF TypeOK
  <2>2. Len(bounds.course) \in Nat
    BY <2>1
  <2>3. QED
    BY <2>2 DEF TypeOK
<1>2. CASE StartTopologyBuilding
  <2>1. current' = current + 1 /\ bounds' = bounds
    BY <1>2 DEF StartTopologyBuilding
  <2>2. current' \in 0..Len(bounds.course) /\ current <= current' /\ current + 1 \in 0..current'
    BY <1>1, <1>2, <2>1 DEF StartTopologyBuilding
  <2>3. QED
    BY <1>2, <2>1, <2>2, RootAssumption, ResetType DEF StartTopologyBuilding
<1>3. ASSUME NEW n \in Nodes, NEW p \in Nodes, ProcessHello(n, p) PROVE TypeOK'
  <2>1. current' = current /\ bounds' = bounds
    BY <1>3 DEF ProcessHello, roundVars
  <2>2. current \in 0..current' /\ current' \in 0..Len(bounds.course) /\ current <= current'
    BY <1>1, <2>1
  <2>3. QED
    BY <1>3, <2>1, <2>2, ResetType DEF ProcessHello
<1>4. ASSUME NEW n \in Nodes, SlotEnded(n) PROVE TypeOK'
  <2>1. {l \in links : n \in l} \subseteq Links
    BY ScenarioType
  <2>2. DOMAIN hops' = Nodes /\ \A m \in Nodes : DOMAIN hops'[m] = Nodes
    BY <1>4, NextHopsDomain DEF SlotEnded, RunDijkstra, TypeOK
  <2>3. QED
    BY <1>4, <2>1, <2>2 DEF SlotEnded, RunDijkstra, TypeOK, Phase, roundVars, packetVars
<1>5. ASSUME NEW n \in Nodes, NEW c \in Nodes, ProcessReceivedMissing(n, c) PROVE TypeOK'
  <2>1. table[n] \cup table[c] \subseteq Links
    BY DEF TypeOK
  <2>2. DOMAIN hops' = Nodes /\ \A m \in Nodes : DOMAIN hops'[m] = Nodes
    BY <1>5, NextHopsDomain DEF ProcessReceivedMissing, RunDijkstra, TypeOK
  <2>3. QED
    BY <1>5, <2>1, <2>2 DEF ProcessReceivedMissing, RunDijkstra, TypeOK, roundVars, packetVars
<1>6. ASSUME NEW n \in Nodes, InverseSetRec(n) PROVE TypeOK'
  <2> DEFINE new == UpdateReputationLocally(GenerateRepMap(rep[n], Complete))
  <2>1. current # 0
    BY <1>6 DEF InverseSetRec, Begun
  <2>2. QED
    <3>1. new \in [Nodes -> 0..255]
      BY <2>1, ReputationType
    <3> HIDE DEF new
    <3>2. Complete \subseteq Links
      BY ScenarioType DEF Complete
    <3>3. /\ phase' = [phase EXCEPT ![n] = "idle"]
          /\ table' = [table EXCEPT ![n] = Complete]
          /\ UpdateFileHistory(n, new)
          /\ hops' = [hops EXCEPT ![n] = RoutesOf(n, new)]
          /\ UNCHANGED <<roundVars, round, parent, claim, now, packetVars>>
      BY <1>6 DEF InverseSetRec, new
    <3>4. DOMAIN hops' = Nodes /\ \A m \in Nodes : DOMAIN hops'[m] = Nodes
      BY <3>3, NextHopsDomain DEF RoutesOf, TypeOK
    <3>5. AddBlock(Complete, new) \in [round : 0..current, links : SUBSET Links,
                                       rep : [Nodes -> 0..255]]
      <4>1. current \in 0..current
        BY <1>1
      <4>2. QED
        BY <4>1, <3>1, <3>2 DEF AddBlock
    <3>6. block' \in [Nodes -> [round : 0..current, links : SUBSET Links,
                               rep : [Nodes -> 0..255]]]
      BY <3>3, <3>5 DEF TypeOK, UpdateFileHistory
    <3>7. rep' \in [Nodes -> [Nodes -> 0..255]] /\ firstIT' \in [Nodes -> BOOLEAN]
      BY <3>1, <3>3 DEF TypeOK, UpdateFileHistory
    <3>8. phase' \in [Nodes -> Phase] /\ table' \in [Nodes -> SUBSET Links]
      BY <3>2, <3>3 DEF TypeOK, Phase
    <3>9. QED
      BY <3>3, <3>4, <3>6, <3>7, <3>8 DEF TypeOK, roundVars, packetVars
<1>7. ASSUME NEW p \in Packets, RouteOutput(p) PROVE TypeOK'
  <2>1. Sent(Origin[p], p, hops[Origin[p]][Target[p]]) \subseteq Frame
    BY SentType, PacketsAssumption
  <2>2. QED
    BY <1>7, <2>1 DEF TypeOK, RouteOutput, routeVars, roundVars
<1>8. ASSUME NEW f \in air, RouteInput(f) PROVE TypeOK'
  <2>1. f.at \in Nodes /\ f.pkt \in Packets
    BY DEF TypeOK, Frame
  <2>2. Sent(f.at, f.pkt, hops[f.at][Target[f.pkt]]) \subseteq Frame
    BY <2>1, SentType
  <2>3. queue' \in [Nodes -> SUBSET Entry] /\ refused' \subseteq Packets
    BY <1>8, <2>1, RouteInputCases, EnqueueType DEF TypeOK
  <2>4. air' \subseteq Frame /\ delivered' \subseteq Packets
    <3>1. air \subseteq Frame /\ delivered \subseteq Packets
      BY DEF TypeOK
    <3>2. PICK s : s = Sent(f.at, f.pkt, hops[f.at][Target[f.pkt]])
      OBVIOUS
    <3>3. air' \subseteq air \cup s /\ delivered' \subseteq delivered \cup {f.pkt}
      BY <1>8, <3>2, RouteInputCases
    <3>4. QED
      BY <2>1, <2>2, <3>1, <3>2, <3>3
  <2>5. UNCHANGED <<routeVars, now, lookup, unsent>>
    BY <1>8 DEF RouteInput
  <2>6. QED
    BY <2>3, <2>4, <2>5 DEF TypeOK, routeVars, roundVars
<1>9. ASSUME NEW f \in air, Lose(f) PROVE TypeOK'
  BY <1>9 DEF TypeOK, Lose, routeVars, roundVars
<1>10. ASSUME NEW n \in Nodes, LookupQueue(n) PROVE TypeOK'
  <2>1. ToSend(n) \subseteq queue[n] /\ Unexpired(queue[n]) \subseteq queue[n]
    BY DEF ToSend, Unexpired
  <2>2. queue[n] \subseteq Entry
    BY DEF TypeOK
  <2>3. \A e \in ToSend(n) : Sent(n, e.pkt, hops[n][Target[e.pkt]]) \subseteq Frame
    BY <2>1, <2>2, SentType DEF Entry
  <2>4. air' \subseteq Frame
    BY <1>10, <2>3 DEF LookupQueue, TypeOK
  <2>5. queue' \in [Nodes -> SUBSET Entry]
    BY <1>10, <2>1, <2>2 DEF LookupQueue, Dequeue, TypeOK
  <2>6. lookup' \in [Nodes -> {"scheduled", "polling", "off"}]
    BY <1>10 DEF LookupQueue, TypeOK
  <2>7. QED
    BY <1>10, <2>4, <2>5, <2>6 DEF LookupQueue, TypeOK, routeVars, roundVars
<1>11. CASE Tick
  BY <1>11 DEF TypeOK, Tick, routeVars, roundVars, packetVars
<1>12. CASE UNCHANGED vars
  BY <1>12 DEF TypeOK, vars, routeVars, roundVars, packetVars
<1>13. QED
  BY <1>2, <1>3, <1>4, <1>5, <1>6, <1>7, <1>8, <1>9, <1>10, <1>11, <1>12 DEF Next, Event

\* The state stays well typed, whatever the rounds and packets do: reputations stay
\* within their 8 bits and the rounds within the course.
THEOREM TypeCorrect == Spec => []TypeOK
<1>1. Init => TypeOK /\ Begun
  BY TypeInitially DEF Init, Begun
<1>2. TypeOK /\ Begun /\ [Next]_vars => (TypeOK /\ Begun)'
  BY TypeStep, BegunStep
<1>3. QED
  BY <1>1, <1>2, PTL DEF Spec

-----------------------------------------------------------------------------
(***************************************************************************)
(* Packets.                                                                *)
(***************************************************************************)
\* OneCopy in terms of the packets, which every step keeps.
Single ==
  /\ \A f, g \in air : f.pkt = g.pkt => f = g
  /\ \A n, m \in Nodes : \A e \in queue[n], x \in queue[m] :
       e.pkt = x.pkt => n = m /\ e = x
  /\ \A f \in air : \A n \in Nodes : \A e \in queue[n] : e.pkt # f.pkt
  /\ \A f \in air : f.pkt \notin unsent /\ f.pkt \notin delivered
  /\ \A n \in Nodes : \A e \in queue[n] : e.pkt \notin unsent /\ e.pkt \notin delivered
  /\ \A p \in unsent : p \notin delivered

LEMMA SingleInitially == Init => Single
BY DEF Init, DoInitialize, Single

\* A packet that is sent makes no frame or one, of itself.
LEMMA SentFrame ==
  ASSUME NEW n, NEW p, NEW hop, NEW f \in Sent(n, p, hop)
  PROVE  f = [pkt |-> p, at |-> hop]
BY DEF Sent

\* What Enqueue leaves in the queue: entries of before, and one of p unless it had one.
LEMMA EnqueueEntries ==
  ASSUME TypeOK, NEW n \in Nodes, NEW p, Enqueue(n, p), NEW m \in Nodes, NEW e \in queue'[m]
  PROVE  \/ e \in queue[m]
         \/ m = n /\ e.pkt = p /\ \A x \in queue'[n] : x # e => x \in queue[n]
<1>1. m # n => queue'[m] = queue[m]
  BY DEF Enqueue, TypeOK
<1>2. \/ queue'[n] = Unexpired(queue[n])
      \/ queue'[n] = Unexpired(queue[n]) \cup {[pkt |-> p, expire |-> now + Timeout]}
  BY DEF Enqueue, TypeOK
<1>3. Unexpired(queue[n]) \subseteq queue[n]
  BY DEF Unexpired
<1>4. QED
  BY <1>1, <1>2, <1>3

LEMMA SingleStep == TypeOK /\ Single /\ [Next]_vars => Single'
<1> SUFFICES ASSUME TypeOK, Single, [Next]_vars PROVE Single'
  OBVIOUS
<1>1. ASSUME UNCHANGED <<air, queue, unsent, delivered>> PROVE Single'
  BY <1>1 DEF Single
<1>2. ASSUME NEW p \in Packets, RouteOutput(p) PROVE Single'
  <2>1. /\ p \in unsent /\ unsent' = unsent \ {p}
        /\ air' = air \cup Sent(Origin[p], p, hops[Origin[p]][Target[p]])
        /\ queue' = queue /\ delivered' = delivered
    BY <1>2 DEF RouteOutput
  <2>2. \A f \in air' : f \in air \/ f = [pkt |-> p, at |-> hops[Origin[p]][Target[p]]]
    BY <2>1, SentFrame
  <2>3. QED
    BY <2>1, <2>2 DEF Single
<1>3. ASSUME NEW f \in air, RouteInput(f) PROVE Single'
  <2>1. unsent' = unsent
    BY <1>3 DEF RouteInput
  <2>2. CASE air' = air \ {f} /\ UNCHANGED <<queue, delivered, refused>>
    BY <2>1, <2>2 DEF Single
  <2>3. CASE /\ air' = air \ {f} /\ delivered' = delivered \cup {f.pkt}
             /\ UNCHANGED <<queue, refused>>
    BY <2>1, <2>3 DEF Single
  <2>4. CASE air' = air \ {f} /\ Enqueue(f.at, f.pkt) /\ UNCHANGED delivered
    <3>1. f.at \in Nodes
      BY DEF TypeOK, Frame
    <3>2. \A m \in Nodes : \A e \in queue'[m] :
            \/ e \in queue[m]
            \/ m = f.at /\ e.pkt = f.pkt /\ \A x \in queue'[f.at] : x # e => x \in queue[f.at]
      BY <2>4, <3>1, EnqueueEntries
    <3>3. \A m \in Nodes : \A e \in queue[m] : e.pkt # f.pkt
      BY DEF Single
    <3>4. QED
      BY <2>1, <2>4, <3>2, <3>3 DEF Single
  <2>5. CASE /\ air' = (air \ {f}) \cup Sent(f.at, f.pkt, hops[f.at][Target[f.pkt]])
             /\ UNCHANGED <<queue, delivered, refused>>
    <3>1. \A g \in air' : \/ g \in air \ {f}
                          \/ g = [pkt |-> f.pkt, at |-> hops[f.at][Target[f.pkt]]]
      BY <2>5, SentFrame
    <3>2. QED
      BY <2>1, <2>5, <3>1 DEF Single
  <2>6. QED
    BY <1>3, <2>2, <2>3, <2>4, <2>5, RouteInputCases
<1>4. ASSUME NEW f \in air, Lose(f) PROVE Single'
  BY <1>4 DEF Single, Lose
<1>5. ASSUME NEW n \in Nodes, LookupQueue(n) PROVE Single'
  <2>1. /\ queue' = [queue EXCEPT ![n] = Unexpired(@) \ ToSend(n)]
        /\ air' = air \cup UNION {Sent(n, e.pkt, hops[n][Target[e.pkt]]) : e \in ToSend(n)}
        /\ unsent' = unsent /\ delivered' = delivered
    BY <1>5 DEF LookupQueue, Dequeue
  <2>2. ToSend(n) \subseteq queue[n] /\ Unexpired(queue[n]) \subseteq queue[n]
    BY DEF ToSend, Unexpired
  <2>3. /\ \A m \in Nodes : queue'[m] \subseteq queue[m]
        /\ \A e \in queue'[n] : e \notin ToSend(n)
    BY <2>1, <2>2 DEF TypeOK
  <2>4. \A f \in air' : \/ f \in air
                        \/ \E e \in ToSend(n) :
                             f = [pkt |-> e.pkt, at |-> hops[n][Target[e.pkt]]]
    BY <2>1, SentFrame
  <2>5. \A f, g \in air' : f.pkt = g.pkt => f = g
    BY <2>2, <2>4 DEF Single
  <2>6. \A f \in air' : \A m \in Nodes : \A e \in queue'[m] : e.pkt # f.pkt
    BY <2>2, <2>3, <2>4 DEF Single
  <2>7. \A f \in air' : f.pkt \notin unsent /\ f.pkt \notin delivered
    BY <2>2, <2>4 DEF Single
  <2>8. QED
    BY <2>1, <2>3, <2>5, <2>6, <2>7 DEF Single
<1>6. ASSUME NEW n \in Nodes,
             \/ SlotEnded(n)
             \/ InverseSetRec(n)
             \/ \E c \in Nodes : ProcessHello(n, c) \/ ProcessReceivedMissing(n, c)
      PROVE  UNCHANGED <<air, queue, unsent, delivered>>
  BY <1>6 DEF SlotEnded, InverseSetRec, ProcessHello, ProcessReceivedMissing, packetVars
<1>7. ASSUME StartTopologyBuilding \/ Tick \/ UNCHANGED vars
      PROVE  UNCHANGED <<air, queue, unsent, delivered>>
  BY <1>7 DEF StartTopologyBuilding, Tick, vars, packetVars
<1>8. QED
  BY <1>1, <1>2, <1>3, <1>4, <1>5, <1>6, <1>7 DEF Next, Event

LEMMA SingleImpliesOneCopy == Single => OneCopy
<1> SUFFICES ASSUME Single, NEW p \in Packets PROVE Cardinality(Places(p)) <= 1
  BY DEF OneCopy
<1>1. ASSUME NEW x \in Places(p), NEW y \in Places(p) PROVE x = y
  <2> DEFINE Place(z) ==
        \/ \E f \in air : f.pkt = p /\ z = <<"air", f.at>>
        \/ \E n \in Nodes : \E e \in queue[n] : e.pkt = p /\ z = <<"queue", n, e.expire>>
        \/ p \in unsent /\ z = <<"unsent">>
        \/ p \in delivered /\ z = <<"delivered">>
  <2>1. Place(x) /\ Place(y)
    <3> SUFFICES ASSUME NEW z \in Places(p) PROVE Place(z)
      OBVIOUS
    <3>1. CASE z \in {<<"air", f.at>> : f \in {g \in air : g.pkt = p}}
      BY <3>1
    <3>2. CASE z \in UNION {{<<"queue", n, e.expire>> : e \in {q \in queue[n] : q.pkt = p}} :
                            n \in Nodes}
      BY <3>2
    <3>3. CASE z \in IF p \in unsent THEN {<<"unsent">>} ELSE {}
      BY <3>3
    <3>4. CASE z \in IF p \in delivered THEN {<<"delivered">>} ELSE {}
      BY <3>4
    <3>5. QED
      BY <3>1, <3>2, <3>3, <3>4 DEF Places
  <2>2. CASE p \in unsent \/ p \in delivered
    <3>1. /\ \A f \in air : f.pkt # p
          /\ \A n \in Nodes : \A e \in queue[n] : e.pkt # p
          /\ ~(p \in unsent /\ p \in delivered)
      BY <2>2 DEF Single
    <3>2. QED
      BY <2>1, <3>1
  <2>3. CASE \E f \in air : f.pkt = p
    <3>1. PICK f \in air : f.pkt = p
      BY <2>3
    <3>2. /\ \A g \in air : g.pkt = p => g = f
          /\ \A n \in Nodes : \A e \in queue[n] : e.pkt # p
          /\ p \notin unsent /\ p \notin delivered
      BY <3>1 DEF Single
    <3>3. QED
      BY <2>1, <3>2
  <2>4. CASE \E n \in Nodes : \E e \in queue[n] : e.pkt = p
    <3>1. PICK n \in Nodes : \E e \in queue[n] : e.pkt = p
      BY <2>4
    <3>2. PICK e \in queue[n] : e.pkt = p
      BY <3>1
    <3>3. /\ \A m \in Nodes : \A g \in queue[m] : g.pkt = p => m = n /\ g = e
          /\ \A f \in air : f.pkt # p
          /\ p \notin unsent /\ p \notin delivered
      BY <3>2 DEF Single
    <3>4. QED
      BY <2>1, <3>3
  <2>5. QED
    BY <2>1, <2>2, <2>3, <2>4
<1>2. CASE Places(p) = {}
  BY <1>2, FS_EmptySet
<1>3. CASE Places(p) # {}
  <2>1. PICK x : x \in Places(p)
    BY <1>3
  <2>2. Places(p) = {x}
    BY <1>1, <2>1
  <2>3. Cardinality({x}) = 1
    BY FS_Singleton
  <2>4. QED
    BY <2>2, <2>3
<1>4. QED
  BY <1>2, <1>3

LEMMA PacketsInvariant == Spec => [](TypeOK /\ Single)
<1>1. Init => TypeOK /\ Begun /\ Single
  BY TypeInitially, SingleInitially DEF Init, Begun
<1>2. (TypeOK /\ Begun /\ Single) /\ [Next]_vars => (TypeOK /\ Begun /\ Single)'
  BY TypeStep, BegunStep, SingleStep
<1>3. QED
  BY <1>1, <1>2, PTL DEF Spec

\* A packet is never in two places: no queue, and no node on its way, doubles it.
THEOREM NeverDoubled == Spec => []OneCopy
BY PacketsInvariant, SingleImpliesOneCopy, PTL

LEMMA SentBeforeTimeoutStep ==
  ASSUME TypeOK, Single, [Next]_vars,
         NEW n \in Nodes, NEW e \in queue[n], e \notin queue'[n],
         NEW f \in air', f.pkt = e.pkt
  PROVE  now <= e.expire
<1>1. \A g \in air : g.pkt # e.pkt
  BY DEF Single
<1>2. e.pkt \notin unsent
  BY DEF Single
<1>3. f \notin air
  BY <1>1
<1>4. CASE \E m \in Nodes : LookupQueue(m)
  <2>1. PICK m \in Nodes : LookupQueue(m)
    BY <1>4
  <2>2. PICK x \in ToSend(m) : f \in Sent(m, x.pkt, hops[m][Target[x.pkt]])
    BY <1>3, <2>1 DEF LookupQueue
  <2>3. f.pkt = x.pkt /\ x \in queue[m] /\ now <= x.expire
    BY <2>2, SentFrame DEF ToSend, Unexpired
  <2>4. x = e
    BY <2>3 DEF Single
  <2>5. QED
    BY <2>3, <2>4
<1>5. CASE \E p \in Packets : RouteOutput(p)
  <2>1. PICK p \in Packets : RouteOutput(p)
    BY <1>5
  <2>2. p \in unsent /\ f \in Sent(Origin[p], p, hops[Origin[p]][Target[p]])
    BY <1>3, <2>1 DEF RouteOutput
  <2>3. f.pkt = p
    BY <2>2, SentFrame
  <2>4. QED
    BY <1>2, <2>2, <2>3
<1>6. CASE \E g \in air : RouteInput(g)
  <2>1. PICK g \in air : RouteInput(g)
    BY <1>6
  <2>2. f \in Sent(g.at, g.pkt, hops[g.at][Target[g.pkt]])
    BY <1>3, <2>1, RouteInputCases
  <2>3. f.pkt = g.pkt
    BY <2>2, SentFrame
  <2>4. QED
    BY <1>1, <2>3
<1>7. ASSUME air' \subseteq air PROVE FALSE
  BY <1>3, <1>7
<1>8. ASSUME \/ \E m \in Nodes : \/ SlotEnded(m) \/ InverseSetRec(m)
                                 \/ \E c \in Nodes : ProcessHello(m, c)
                                 \/ \E c \in Nodes : ProcessReceivedMissing(m, c)
             \/ \E g \in air : Lose(g)
             \/ StartTopologyBuilding \/ Tick \/ UNCHANGED vars
      PROVE  air' \subseteq air
  BY <1>8 DEF SlotEnded, InverseSetRec, ProcessHello, ProcessReceivedMissing, Lose,
              StartTopologyBuilding, Tick, vars, packetVars
<1>9. QED
  BY <1>4, <1>5, <1>6, <1>7, <1>8 DEF Next, Event

\* LookupQueue sends no packet that has waited for longer than the timeout, however
\* late its route is found.
THEOREM ExpiredNeverSent == Spec => SentBeforeTimeout
<1>1. TypeOK /\ Single /\ [Next]_vars =>
        [\A n \in Nodes : \A e \in queue[n] :
           e \notin queue'[n] /\ (\E f \in air' : f.pkt = e.pkt) => now <= e.expire]_vars
  BY SentBeforeTimeoutStep
<1>2. QED
  BY <1>1, PacketsInvariant, PTL DEF Spec, SentBeforeTimeout

\* Entries of different packets are as many as their packets.
LEMMA EntriesCount ==
  ASSUME NEW S \in SUBSET Entry, \A e, x \in S : e.pkt = x.pkt => e = x
  PROVE  Cardinality({e.pkt : e \in S}) = Cardinality(S)
<1> DEFINE T == {e.pkt : e \in S}
           g == [p \in T |-> CHOOSE e \in S : e.pkt = p]
<1>1. T \in SUBSET Packets
  BY DEF Entry
<1>2. IsFiniteSet(T)
  BY <1>1, PacketsAssumption, FS_Subset
<1>3. \A p \in T : g[p] \in S /\ g[p].pkt = p
  OBVIOUS
<1>4. \A e \in S : e.pkt \in T /\ g[e.pkt] = e
  BY <1>3
<1>5. g \in Bijection(T, S)
  <2>1. g \in [T -> S]
    BY <1>3
  <2>2. \A p, q \in T : g[p] = g[q] => p = q
    BY <1>3
  <2>3. \A e \in S : \E p \in T : g[p] = e
    BY <1>4
  <2> HIDE DEF g, T
  <2>4. QED
    BY <2>1, <2>2, <2>3 DEF Bijection, Injection, Surjection, IsInjective
<1>6. ExistsBijection(T, S)
  BY <1>5 DEF ExistsBijection
<1>7. QED
  BY <1>2, <1>6, FS_Bijection

LEMMA RefusedStep ==
  ASSUME TypeOK, Single, [Next]_vars, NEW p \in refused' \ refused
  PROVE  \E n \in Nodes :
           LET waiting == {e.pkt : e \in Unexpired(queue[n])} \ {p}
           IN  \/ Cardinality({o \in waiting : Target[o] = Target[p]}) >= MaxLenPerDst
               \/ Cardinality(waiting) >= MaxLen
<1>1. \E f \in air : RouteInput(f)
  <2>1. refused' # refused
    OBVIOUS
  <2>2. ASSUME ~\E f \in air : RouteInput(f) PROVE refused' = refused
    BY <2>2 DEF Next, Event, SlotEnded, InverseSetRec, ProcessHello, ProcessReceivedMissing,
                Lose, LookupQueue, RouteOutput, StartTopologyBuilding, Tick, vars, packetVars
  <2>3. QED
    BY <2>1, <2>2
<1>2. PICK f \in air : RouteInput(f)
  BY <1>1
<1>3. Enqueue(f.at, f.pkt)
  BY <1>2, RouteInputCases
<1> DEFINE n == f.at
           q == Unexpired(queue[n])
           same == For(q, Target[p])
<1>4. n \in Nodes
  BY DEF TypeOK, Frame
<1>5. p = f.pkt /\ Full(q, Target[p]) /\ ~(\E e \in q : e.pkt = p)
  BY <1>3 DEF Enqueue
<1>6. q \in SUBSET Entry /\ \A e, x \in q : e.pkt = x.pkt => e = x
  BY <1>4 DEF TypeOK, Single, Unexpired
<1> DEFINE waiting == {e.pkt : e \in q} \ {p}
<1>7. waiting = {e.pkt : e \in q}
  BY <1>5
<1>8. {o \in waiting : Target[o] = Target[p]} = {e.pkt : e \in same}
  BY <1>7 DEF For
<1>9. Cardinality(waiting) = Cardinality(q)
  BY <1>6, <1>7, EntriesCount
<1>10. Cardinality({o \in waiting : Target[o] = Target[p]}) = Cardinality(same)
  <2>1. same \in SUBSET Entry /\ \A e, x \in same : e.pkt = x.pkt => e = x
    BY <1>6 DEF For
  <2> HIDE DEF same
  <2>2. Cardinality({e.pkt : e \in same}) = Cardinality(same)
    BY <2>1, EntriesCount
  <2>3. QED
    BY <1>8, <2>2
<1>11. Cardinality(same) >= MaxLenPerDst \/ Cardinality(q) >= MaxLen
  BY <1>5 DEF Full
<1>12. \/ Cardinality({o \in waiting : Target[o] = Target[p]}) >= MaxLenPerDst
       \/ Cardinality(waiting) >= MaxLen
  BY <1>9, <1>10, <1>11
<1>13. QED
  BY <1>4, <1>12

\* Enqueue refuses a packet only for the sake of as many others as the limits allow
\* that may still be sent: expired packets keep no place.
THEOREM FullWhenRefused == Spec => RefusedOnlyWhenFull
<1>1. TypeOK /\ Single /\ [Next]_vars =>
        [\A p \in refused' \ refused : \E n \in Nodes :
           LET waiting == {e.pkt : e \in Unexpired(queue[n])} \ {p}
           IN  \/ Cardinality({o \in waiting : Target[o] = Target[p]}) >= MaxLenPerDst
               \/ Cardinality(waiting) >= MaxLen]_vars
  BY RefusedStep
<1>2. QED
  BY <1>1, PacketsInvariant, PTL DEF Spec, RefusedOnlyWhenFull

-----------------------------------------------------------------------------
(***************************************************************************)
(* Rounds.  No node joins a round in which a block has been written, so    *)
(* that all who write one see the same links and the same announcements.   *)
(***************************************************************************)
\* A node that is not idle takes part in the round, as its parent does.
TakesPart ==
  \A n \in Nodes : phase[n] # "idle" =>
    /\ round[n] = current
    /\ n # Root => parent[n] \in Nodes /\ round[parent[n]] = current

\* A node that has left the hellos of the round has heard all its neighbours.
HeardAll ==
  \A n \in Nodes : round[n] = current /\ phase[n] # "hello" /\ current # 0 =>
    \A p \in Linked(links, n) : round[p] = current

\* A node that has ended the round has written its block.
EndsWithBlock ==
  \A n \in Nodes : round[n] = current /\ phase[n] = "idle" /\ current # 0 =>
    block[n].round = current

\* Once a block of the round is written nobody waits for hellos any more.
HellosBeforeBlocks ==
  \A n, m \in Nodes : block[n].round = current /\ current # 0 /\ round[m] = current =>
    phase[m] # "hello"

\* What the blocks of the round have in them.
RoundLines == StoreToFile(AddBlock(Complete, UpdateReputationLocally(claim)))

WritesRoundLines ==
  \A n \in Nodes : block[n].round = current /\ current # 0 =>
    StoreToFile(block[n]) = RoundLines

RoundInv ==
  /\ Begun /\ TakesPart /\ HeardAll /\ EndsWithBlock /\ HellosBeforeBlocks
  /\ WritesRoundLines /\ ReputationsAgree

LEMMA CurrentType ==
  ASSUME TypeOK
  PROVE  /\ current \in Nat
         /\ \A n \in Nodes : /\ round[n] \in Nat /\ round[n] <= current
                             /\ block[n].round \in Nat /\ block[n].round <= current
<1>1. Len(bounds.course) \in Nat
  BY ScenariosAssumption DEF TypeOK
<1>2. current \in Nat
  BY <1>1 DEF TypeOK
<1>3. ASSUME NEW n \in Nodes PROVE round[n] \in 0..current /\ block[n].round \in 0..current
  BY DEF TypeOK
<1>4. QED
  BY <1>2, <1>3

LEMMA RoundInitially == Init => RoundInv
<1> SUFFICES ASSUME Init PROVE RoundInv
  OBVIOUS
<1>1. current = 0 /\ \A n \in Nodes : phase[n] = "idle" /\ block[n] = NoBlock
  BY DEF Init
<1>2. QED
  BY <1>1 DEF RoundInv, Begun, TakesPart, HeardAll, EndsWithBlock, HellosBeforeBlocks,
              WritesRoundLines, ReputationsAgree

\* A step that leaves the rounds and blocks alone keeps the invariant.
LEMMA RoundUnchanged ==
  ASSUME RoundInv, UNCHANGED <<bounds, current, round, phase, parent, claim, block>>
  PROVE  RoundInv'
<1>1. links' = links /\ verdict' = verdict
  BY DEF links, verdict
<1>2. Complete' = Complete
  BY <1>1 DEF Complete
<1>3. UpdateReputationLocally(claim)' = UpdateReputationLocally(claim)
  BY <1>1 DEF UpdateReputationLocally
<1>4. RoundLines' = RoundLines
  BY <1>2, <1>3 DEF RoundLines, AddBlock, StoreToFile
<1>5. QED
  BY <1>1, <1>4 DEF RoundInv, Begun, TakesPart, HeardAll, EndsWithBlock, HellosBeforeBlocks,
                    WritesRoundLines, ReputationsAgree, Linked, StoreToFile

\* The round and the announcements of those in it fix the lines of its blocks.
LEMMA LinesUnchanged ==
  ASSUME UNCHANGED <<bounds, current, round, claim>>
  PROVE  links' = links /\ RoundLines' = RoundLines
<1>1. links' = links /\ verdict' = verdict
  BY DEF links, verdict
<1>2. Complete' = Complete
  BY <1>1 DEF Complete
<1>3. UpdateReputationLocally(claim)' = UpdateReputationLocally(claim)
  BY <1>1 DEF UpdateReputationLocally
<1>4. QED
  BY <1>1, <1>2, <1>3 DEF RoundLines, AddBlock, StoreToFile

LEMMA RoundStart ==
  ASSUME TypeOK, RoundInv, StartTopologyBuilding
  PROVE  RoundInv'
<1>1. /\ current' = current + 1 /\ block' = block
      /\ round' = [round EXCEPT ![Root] = current + 1]
      /\ phase' = [phase EXCEPT ![Root] = "hello"]
      /\ \A n \in Nodes : phase[n] = "idle"
  BY DEF StartTopologyBuilding, ResetVariablesUpdate
<1>2. Root \in Nodes /\ current' # 0
  BY <1>1, RootAssumption, CurrentType
<1>3. \A n \in Nodes \ {Root} : phase'[n] = "idle" /\ round'[n] = round[n] /\ round[n] # current'
  BY <1>1, CurrentType DEF TypeOK
<1>4. round'[Root] = current' /\ phase'[Root] = "hello"
  BY <1>1, <1>2 DEF TypeOK
<1>5. \A n \in Nodes : block'[n].round # current'
  BY <1>1, CurrentType
<1>6. ReputationsAgree'
  BY <1>1 DEF RoundInv, ReputationsAgree, StoreToFile
<1>7. Begun' /\ TakesPart' /\ HeardAll' /\ EndsWithBlock'
  BY <1>2, <1>3, <1>4 DEF Begun, TakesPart, HeardAll, EndsWithBlock
<1>8. QED
  BY <1>5, <1>6, <1>7 DEF RoundInv, HellosBeforeBlocks, WritesRoundLines

LEMMA RoundHello ==
  ASSUME TypeOK, RoundInv, NEW n \in Nodes, NEW p \in Nodes, ProcessHello(n, p)
  PROVE  RoundInv'
<1>1. /\ {n, p} \in links /\ round[n] < current /\ round[p] = current
      /\ UNCHANGED <<bounds, current, block>>
      /\ round' = [round EXCEPT ![n] = current]
      /\ phase' = [phase EXCEPT ![n] = "hello"]
      /\ parent' = [parent EXCEPT ![n] = p]
  BY DEF ProcessHello, ResetVariablesUpdate, roundVars
<1>2. current # 0 /\ round[n] # current
  BY <1>1, CurrentType
<1>3. n \in Linked(links, p)
  BY <1>1 DEF Linked
<1>4. phase[p] = "hello"
  BY <1>1, <1>2, <1>3 DEF RoundInv, HeardAll
<1>5. \A m \in Nodes : block[m].round # current
  BY <1>1, <1>2, <1>4 DEF RoundInv, HellosBeforeBlocks
<1>6. links' = links
  BY <1>1 DEF links
<1>7. /\ round'[n] = current /\ phase'[n] = "hello" /\ parent'[n] = p
      /\ \A m \in Nodes \ {n} : /\ round'[m] = round[m] /\ phase'[m] = phase[m]
                                /\ parent'[m] = parent[m]
  BY <1>1 DEF TypeOK
<1>8. \A m \in Nodes : round[m] = current => round'[m] = current
  BY <1>7
<1>9. TakesPart'
  BY <1>1, <1>7, <1>8 DEF RoundInv, TakesPart
<1>10. HeardAll'
  <2> SUFFICES ASSUME NEW m \in Nodes, round'[m] = current, phase'[m] # "hello",
                      NEW o \in Linked(links, m)
               PROVE  round'[o] = current
    BY <1>1, <1>6 DEF HeardAll, Linked
  <2>1. m # n
    BY <1>7
  <2>2. round[m] = current /\ phase[m] # "hello"
    BY <1>7, <2>1
  <2>3. round[o] = current
    BY <1>2, <2>2 DEF RoundInv, HeardAll
  <2>4. o \in Nodes
    BY DEF Linked
  <2>5. QED
    BY <1>8, <2>3, <2>4
<1>11. EndsWithBlock'
  BY <1>1, <1>7 DEF RoundInv, EndsWithBlock
<1>12. HellosBeforeBlocks' /\ WritesRoundLines'
  BY <1>1, <1>5 DEF HellosBeforeBlocks, WritesRoundLines
<1>13. ReputationsAgree'
  BY <1>1 DEF RoundInv, ReputationsAgree, StoreToFile
<1>14. Begun'
  BY <1>1, <1>2 DEF Begun
<1>15. QED
  BY <1>9, <1>10, <1>11, <1>12, <1>13, <1>14 DEF RoundInv

LEMMA RoundSlotEnded ==
  ASSUME TypeOK, RoundInv, NEW n \in Nodes, SlotEnded(n)
  PROVE  RoundInv'
<1>1. /\ phase[n] = "hello" /\ \A p \in Linked(links, n) : round[p] = current
      /\ UNCHANGED <<bounds, current, round, parent, claim, block>>
      /\ phase' = [phase EXCEPT ![n] = "sync"]
  BY DEF SlotEnded, roundVars
<1>2. links' = links /\ RoundLines' = RoundLines
  BY <1>1, LinesUnchanged
<1>3. phase'[n] = "sync" /\ \A m \in Nodes \ {n} : phase'[m] = phase[m]
  BY <1>1 DEF TypeOK
<1>4. current # 0
  BY <1>1 DEF RoundInv, Begun
<1>5. Begun' /\ TakesPart'
  BY <1>1, <1>3, <1>4 DEF RoundInv, Begun, TakesPart
<1>6. HeardAll'
  BY <1>1, <1>2, <1>3 DEF RoundInv, HeardAll, Linked
<1>7. EndsWithBlock' /\ HellosBeforeBlocks'
  BY <1>1, <1>3 DEF RoundInv, EndsWithBlock, HellosBeforeBlocks
<1>8. WritesRoundLines' /\ ReputationsAgree'
  BY <1>1, <1>2 DEF RoundInv, WritesRoundLines, ReputationsAgree, StoreToFile
<1>9. QED
  BY <1>5, <1>6, <1>7, <1>8 DEF RoundInv

\* The reputations that a node remembers do not matter for the lines of its block.
LEMMA OwnLines ==
  ASSUME TypeOK, NEW n \in Nodes
  PROVE  StoreToFile(AddBlock(Complete, UpdateReputationLocally(GenerateRepMap(rep[n], Complete))))
           = RoundLines
<1> DEFINE r == GenerateRepMap(rep[n], Complete)
           new == UpdateReputationLocally(r)
           all == UpdateReputationLocally(claim)
<1>1. \A m \in Nodes : m \in UNION Complete => r[m] = claim[m]
  BY DEF GenerateRepMap
<1>2. ASSUME NEW m \in Nodes, m \in UNION Complete PROVE new[m] = all[m]
  <2>1. r[m] = claim[m]
    BY <1>1, <1>2
  <2> DEFINE F(x) ==
        CASE verdict[m] = Down -> (7 * x) \div 10
          [] verdict[m] = Up -> IF (11 * x) \div 10 > 255 THEN 255 ELSE (11 * x) \div 10
          [] verdict[m] = NoVerdict -> x
  <2> HIDE DEF r
  <2>2. new[m] = F(r[m]) /\ all[m] = F(claim[m])
    BY DEF UpdateReputationLocally
  <2> HIDE DEF F
  <2>3. QED
    BY <2>1, <2>2
<1>3. \A l \in Complete : l \subseteq Nodes
  BY ScenarioType DEF Complete, Links
<1> HIDE DEF new, all
<1>4. \A l \in Complete : [m \in l |-> new[m]] = [m \in l |-> all[m]]
  BY <1>2, <1>3
<1>5. {[link |-> l, rep |-> [m \in l |-> new[m]]] : l \in Complete}
        = {[link |-> l, rep |-> [m \in l |-> all[m]]] : l \in Complete}
  BY <1>4
<1>6. QED
  BY <1>5 DEF RoundLines, StoreToFile, AddBlock, new, all

LEMMA RoundEnd ==
  ASSUME TypeOK, RoundInv, NEW n \in Nodes, InverseSetRec(n)
  PROVE  RoundInv'
<1> DEFINE new == UpdateReputationLocally(GenerateRepMap(rep[n], Complete))
<1>1. /\ phase[n] = "sync"
      /\ IF n = Root
           THEN \A m \in Nodes : round[m] = current => phase[m] = "sync"
           ELSE phase[parent[n]] = "idle"
      /\ UNCHANGED <<bounds, current, round, parent, claim>>
      /\ phase' = [phase EXCEPT ![n] = "idle"]
      /\ block' = [block EXCEPT ![n] = AddBlock(Complete, new)]
  BY DEF InverseSetRec, UpdateFileHistory, roundVars
<1>2. links' = links /\ RoundLines' = RoundLines
  BY <1>1, LinesUnchanged
<1>3. current # 0 /\ round[n] = current
  BY <1>1 DEF RoundInv, Begun, TakesPart
<1>4. /\ phase'[n] = "idle" /\ \A m \in Nodes \ {n} : phase'[m] = phase[m]
      /\ block'[n] = AddBlock(Complete, new) /\ \A m \in Nodes \ {n} : block'[m] = block[m]
  BY <1>1 DEF TypeOK
<1>5. block'[n].round = current /\ StoreToFile(block'[n]) = RoundLines
  BY <1>4, OwnLines DEF AddBlock
<1>6. \A m \in Nodes : round[m] = current => phase[m] # "hello"
  <2>1. CASE n = Root
    BY <1>1, <2>1
  <2>2. CASE n # Root
    <3>1. parent[n] \in Nodes /\ round[parent[n]] = current
      BY <1>1, <2>2 DEF RoundInv, TakesPart
    <3>2. block[parent[n]].round = current
      BY <1>1, <1>3, <2>2, <3>1 DEF RoundInv, EndsWithBlock
    <3>3. QED
      BY <1>3, <3>1, <3>2 DEF RoundInv, HellosBeforeBlocks
  <2>3. QED
    BY <2>1, <2>2
<1>7. Begun' /\ TakesPart'
  BY <1>1, <1>3, <1>4 DEF RoundInv, Begun, TakesPart
<1>8. HeardAll'
  BY <1>1, <1>2, <1>4 DEF RoundInv, HeardAll, Linked
<1>9. EndsWithBlock'
  BY <1>1, <1>4, <1>5 DEF RoundInv, EndsWithBlock
<1>10. HellosBeforeBlocks'
  BY <1>1, <1>4, <1>6 DEF HellosBeforeBlocks
<1> HIDE DEF new
<1>11. \A m \in Nodes : block'[m].round = current => StoreToFile(block'[m]) = RoundLines
  BY <1>3, <1>4, <1>5 DEF RoundInv, WritesRoundLines
<1>12. WritesRoundLines'
  BY <1>1, <1>2, <1>11 DEF WritesRoundLines, StoreToFile
<1>13. ReputationsAgree'
  <2> SUFFICES ASSUME NEW m \in Nodes, NEW o \in Nodes, block'[m].round = block'[o].round
               PROVE  StoreToFile(block'[m]) = StoreToFile(block'[o])
    BY DEF ReputationsAgree, StoreToFile
  <2>1. CASE m # n /\ o # n
    BY <1>4, <2>1 DEF RoundInv, ReputationsAgree
  <2>2. CASE m = n \/ o = n
    <3>1. block'[m].round = current /\ block'[o].round = current
      BY <1>5, <2>2
    <3>2. QED
      BY <1>11, <3>1
  <2>3. QED
    BY <2>1, <2>2
<1>14. QED
  BY <1>7, <1>8, <1>9, <1>10, <1>12, <1>13 DEF RoundInv

LEMMA RoundStep == TypeOK /\ RoundInv /\ [Next]_vars => RoundInv'
<1> SUFFICES ASSUME TypeOK, RoundInv, [Next]_vars PROVE RoundInv'
  OBVIOUS
<1>1. ASSUME NEW n \in Nodes, NEW c \in Nodes, ProcessReceivedMissing(n, c) PROVE RoundInv'
  BY <1>1, RoundUnchanged DEF ProcessReceivedMissing, roundVars
<1>2. ASSUME NEW f \in air, RouteInput(f) \/ Lose(f) PROVE RoundInv'
  BY <1>2, RoundUnchanged DEF RouteInput, Lose, routeVars, roundVars
<1>3. ASSUME \/ \E p \in Packets : RouteOutput(p)
             \/ \E n \in Nodes : LookupQueue(n)
             \/ Tick
             \/ UNCHANGED vars
      PROVE  RoundInv'
  BY <1>3, RoundUnchanged DEF RouteOutput, LookupQueue, Tick, vars, routeVars, roundVars
<1>4. QED
  BY <1>1, <1>2, <1>3, RoundStart, RoundHello, RoundSlotEnded, RoundEnd DEF Next, Event

\* All nodes that write a block for a round write the same links and reputations,
\* whatever they remember of earlier rounds and in whatever order they end it.
THEOREM BlocksAgreeOnReputations == Spec => []ReputationsAgree
<1>1. Init => TypeOK /\ RoundInv
  BY TypeInitially, RoundInitially
<1>2. TypeOK /\ RoundInv /\ [Next]_vars => (TypeOK /\ RoundInv)'
  BY TypeStep, RoundStep DEF RoundInv
<1>3. RoundInv => ReputationsAgree
  BY DEF RoundInv
<1>4. QED
  BY <1>1, <1>2, <1>3, PTL DEF Spec

-----------------------------------------------------------------------------
(***************************************************************************)
(* Routes: what the rounds, the blocks and the shortest paths of all nodes *)
(* make of them together.                                                  *)
(***************************************************************************)
\* Networks in which no path can cost as much as the largest 16-bit number,
\* however low the reputations fall: up to 65 nodes.
PathsFit == 1000 * Cardinality(Nodes) < Word

LEMMA PathsHold ==
  ASSUME PathsFit, NEW r \in Reputations8
  PROVE  Holds(r, 1000)
BY CostBounds DEF PathsFit, Holds

LEMMA LinksArePairs == Links = Pairs
BY DEF Links, Pairs

-----------------------------------------------------------------------------
(***************************************************************************)
(* A node's routes are those of the links it knows.                        *)
(***************************************************************************)
LEMMA RunDijkstraShortest ==
  ASSUME PathsFit, TypeOK, NEW n \in Nodes, NEW known \in SUBSET Links,
         RunDijkstra(n, known), UNCHANGED <<firstIT, rep>>,
         NEW m \in Nodes, hops'[m] # hops[m]
  PROVE  Cheapest(table'[m], NodeReputation(m)', m, hops'[m])
<1> DEFINE r == NodeReputation(n)
<1>1. /\ table' = [table EXCEPT ![n] = known]
      /\ hops' = [hops EXCEPT ![n] = NextHops(known, r, n)]
  BY DEF RunDijkstra
<1>2. m = n /\ table'[n] = known /\ hops'[n] = NextHops(known, r, n)
  BY <1>1 DEF TypeOK
<1>3. NodeReputation(n)' = r
  BY DEF NodeReputation
<1>4. r \in Reputations8
  BY NodeReputationType DEF Reputations8
<1> HIDE DEF r
<1>5. Cheapest(known, r, n, NextHops(known, r, n))
  BY <1>4, PathsHold, LinksArePairs, NextHopsCheapest
<1>6. QED
  BY <1>2, <1>3, <1>5

LEMMA ShortestStep ==
  ASSUME PathsFit, TypeOK, Begun, [Next]_vars
  PROVE  \A n \in Nodes : hops'[n] # hops[n] /\ table'[n] # {} =>
           Cheapest(table'[n], NodeReputation(n)', n, hops'[n])
<1> SUFFICES ASSUME NEW m \in Nodes, hops'[m] # hops[m], table'[m] # {}
             PROVE  Cheapest(table'[m], NodeReputation(m)', m, hops'[m])
  OBVIOUS
<1>1. links \in SUBSET Links /\ table \in [Nodes -> SUBSET Links]
  BY ScenarioType DEF TypeOK
<1>2. ASSUME NEW n \in Nodes, NEW p, NEW r, ResetVariablesUpdate(n, p, r) PROVE FALSE
  BY <1>2 DEF ResetVariablesUpdate, TypeOK
<1>3. CASE StartTopologyBuilding
  BY <1>2, <1>3, RootAssumption DEF StartTopologyBuilding
<1>4. ASSUME NEW n \in Nodes, NEW p \in Nodes, ProcessHello(n, p) PROVE FALSE
  BY <1>2, <1>4 DEF ProcessHello
<1>5. ASSUME NEW n \in Nodes, SlotEnded(n)
      PROVE  Cheapest(table'[m], NodeReputation(m)', m, hops'[m])
  <2> DEFINE known == {l \in links : n \in l}
  <2>1. RunDijkstra(n, known) /\ UNCHANGED <<firstIT, rep>>
    BY <1>5 DEF SlotEnded
  <2>2. known \in SUBSET Links
    BY <1>1
  <2> HIDE DEF known
  <2>3. QED
    BY <2>1, <2>2, RunDijkstraShortest
<1>6. ASSUME NEW n \in Nodes, NEW c \in Nodes, ProcessReceivedMissing(n, c)
      PROVE  Cheapest(table'[m], NodeReputation(m)', m, hops'[m])
  <2> DEFINE known == table[n] \cup table[c]
  <2>1. RunDijkstra(n, known) /\ UNCHANGED <<firstIT, rep>>
    BY <1>6 DEF ProcessReceivedMissing
  <2>2. known \in SUBSET Links
    BY <1>1
  <2> HIDE DEF known
  <2>3. QED
    BY <2>1, <2>2, RunDijkstraShortest
<1>7. ASSUME NEW n \in Nodes, InverseSetRec(n)
      PROVE  Cheapest(table'[m], NodeReputation(m)', m, hops'[m])
  <2> DEFINE new == UpdateReputationLocally(GenerateRepMap(rep[n], Complete))
  <2>1. /\ phase[n] = "sync"
        /\ table' = [table EXCEPT ![n] = Complete]
        /\ firstIT' = [firstIT EXCEPT ![n] = FALSE]
        /\ rep' = [rep EXCEPT ![n] = new]
        /\ hops' = [hops EXCEPT ![n] = NextHops(Complete, new, n)]
    BY <1>7 DEF InverseSetRec, UpdateFileHistory, RoutesOf
  <2>2. current # 0
    BY <2>1 DEF Begun
  <2>3. new \in Reputations8
    BY <2>2, ReputationType DEF Reputations8
  <2>4. Complete \in SUBSET Links
    BY <1>1 DEF Complete
  <2> HIDE DEF new
  <2>5. Cheapest(Complete, new, n, NextHops(Complete, new, n))
    BY <2>3, <2>4, PathsHold, LinksArePairs, NextHopsCheapest
  <2>6. /\ m = n /\ table'[n] = Complete /\ firstIT'[n] = FALSE /\ rep'[n] = new
        /\ hops'[n] = NextHops(Complete, new, n)
    BY <2>1 DEF TypeOK
  <2>7. NodeReputation(n)' = new
    BY <2>6 DEF NodeReputation
  <2>8. QED
    BY <2>5, <2>6, <2>7
<1>8. ASSUME NEW f \in air, RouteInput(f) \/ Lose(f) PROVE FALSE
  BY <1>8 DEF RouteInput, Lose, routeVars
<1>9. ASSUME \/ \E p \in Packets : RouteOutput(p)
             \/ \E n \in Nodes : LookupQueue(n)
             \/ Tick
             \/ UNCHANGED vars
      PROVE  FALSE
  BY <1>9 DEF RouteOutput, LookupQueue, Tick, vars, routeVars
<1>10. QED
  BY <1>3, <1>4, <1>5, <1>6, <1>7, <1>8, <1>9 DEF Next, Event

\* Whenever the routes of a node change to those of a table, RunDijkstra leads it along
\* cheapest paths over the links in the table: in networks of up to 65 nodes.
THEOREM RoutesShortest ==
  ASSUME PathsFit
  PROVE  Spec => ShortestRoutes
<1>1. TypeOK /\ RoundInv /\ [Next]_vars =>
        [\A n \in Nodes : hops'[n] # hops[n] /\ table'[n] # {} =>
           Cheapest(table'[n], NodeReputation(n)', n, hops'[n])]_vars
  BY ShortestStep DEF RoundInv
<1>2. Spec => [](TypeOK /\ RoundInv)
  <2>1. Init => TypeOK /\ RoundInv
    BY TypeInitially, RoundInitially
  <2>2. TypeOK /\ RoundInv /\ [Next]_vars => (TypeOK /\ RoundInv)'
    BY TypeStep, RoundStep DEF RoundInv
  <2>3. QED
    BY <2>1, <2>2, PTL DEF Spec
<1>3. QED
  BY <1>1, <1>2, PTL DEF Spec, ShortestRoutes

-----------------------------------------------------------------------------
(***************************************************************************)
(* The routes of all nodes together.  A node that has ended a round has    *)
(* the routes of its block; the blocks of a round agree on links and on    *)
(* what these cost; so the nodes agree on the distance to a destination,   *)
(* and each route takes a packet nearer to it.                             *)
(***************************************************************************)
RoutesOfBlock ==
  \A n \in Nodes : phase[n] = "idle" /\ round[n] # 0 =>
    block[n].round = round[n] /\ hops[n] = NextHops(block[n].links, block[n].rep, n)

RoutesInv == TypeOK /\ RoundInv /\ RoutesOfBlock

LEMMA RoutesOfBlockStep == RoutesInv /\ [Next]_vars => RoutesOfBlock'
<1> SUFFICES ASSUME RoutesInv, [Next]_vars PROVE RoutesOfBlock'
  OBVIOUS
<1>1. TypeOK /\ RoundInv /\ RoutesOfBlock
  BY DEF RoutesInv
<1>2. ASSUME UNCHANGED <<round, phase, hops, block>> PROVE RoutesOfBlock'
  BY <1>1, <1>2 DEF RoutesOfBlock
<1>3. ASSUME NEW n \in Nodes, phase'[n] # "idle", UNCHANGED block,
             \A m \in Nodes \ {n} : UNCHANGED <<phase[m], round[m], hops[m]>>
      PROVE  RoutesOfBlock'
  BY <1>1, <1>3 DEF RoutesOfBlock
<1>4. ASSUME NEW n \in Nodes, NEW p, NEW r, ResetVariablesUpdate(n, p, r)
      PROVE  RoutesOfBlock'
  BY <1>1, <1>3, <1>4 DEF ResetVariablesUpdate, TypeOK
<1>5. CASE StartTopologyBuilding
  BY <1>4, <1>5, RootAssumption DEF StartTopologyBuilding
<1>6. ASSUME NEW n \in Nodes, NEW p \in Nodes, ProcessHello(n, p) PROVE RoutesOfBlock'
  BY <1>4, <1>6 DEF ProcessHello
<1>7. ASSUME NEW n \in Nodes, SlotEnded(n) PROVE RoutesOfBlock'
  BY <1>1, <1>3, <1>7 DEF SlotEnded, RunDijkstra, TypeOK
<1>8. ASSUME NEW n \in Nodes, NEW c \in Nodes, ProcessReceivedMissing(n, c)
      PROVE  RoutesOfBlock'
  BY <1>1, <1>3, <1>8 DEF ProcessReceivedMissing, RunDijkstra, TypeOK
<1>9. ASSUME NEW n \in Nodes, InverseSetRec(n) PROVE RoutesOfBlock'
  <2> DEFINE new == UpdateReputationLocally(GenerateRepMap(rep[n], Complete))
  <2>1. /\ phase[n] = "sync"
        /\ UNCHANGED round
        /\ phase' = [phase EXCEPT ![n] = "idle"]
        /\ block' = [block EXCEPT ![n] = AddBlock(Complete, new)]
        /\ hops' = [hops EXCEPT ![n] = NextHops(Complete, new, n)]
    BY <1>9 DEF InverseSetRec, UpdateFileHistory, RoutesOf
  <2>2. round[n] = current
    BY <1>1, <2>1 DEF RoundInv, TakesPart
  <2> HIDE DEF new
  <2>3. DOMAIN hops = Nodes /\ DOMAIN phase = Nodes /\ DOMAIN block = Nodes
    BY <1>1 DEF TypeOK
  <2>4. \A m \in Nodes \ {n} : UNCHANGED <<phase[m], hops[m], block[m]>>
    BY <2>1, <2>3
  <2>5. block'[n].links = Complete /\ block'[n].rep = new /\ block'[n].round = current
    BY <2>1, <2>3 DEF AddBlock
  <2>6. block'[n].round = round'[n]
        /\ hops'[n] = NextHops(block'[n].links, block'[n].rep, n)
    BY <2>1, <2>2, <2>3, <2>5
  <2>7. QED
    BY <1>1, <2>1, <2>4, <2>6 DEF RoutesOfBlock
<1>10. ASSUME NEW f \in air, RouteInput(f) \/ Lose(f) PROVE RoutesOfBlock'
  BY <1>2, <1>10 DEF RouteInput, Lose, routeVars
<1>11. ASSUME \/ \E p \in Packets : RouteOutput(p)
              \/ \E n \in Nodes : LookupQueue(n)
              \/ Tick
              \/ UNCHANGED vars
       PROVE  RoutesOfBlock'
  BY <1>2, <1>11 DEF RouteOutput, LookupQueue, Tick, vars, routeVars
<1>12. QED
  BY <1>5, <1>6, <1>7, <1>8, <1>9, <1>10, <1>11 DEF Next, Event

LEMMA RoutesInvariant == Spec => []RoutesInv
<1>1. Init => RoutesInv
  <2>1. Init => RoutesOfBlock
    BY DEF Init, RoutesOfBlock
  <2>2. QED
    BY <2>1, TypeInitially, RoundInitially DEF RoutesInv
<1>2. RoutesInv /\ [Next]_vars => RoutesInv'
  BY TypeStep, RoundStep, RoutesOfBlockStep DEF RoutesInv, RoundInv
<1>3. QED
  BY <1>1, <1>2, PTL DEF Spec

\* Blocks with the same lines have the same links, and these cost the same.
LEMMA SameLines ==
  ASSUME NEW b, NEW o, b.links \in SUBSET Links, o.links \in SUBSET Links,
         StoreToFile(b) = StoreToFile(o)
  PROVE  /\ b.links = o.links
         /\ \A l \in b.links : \A m \in l : b.rep[m] = o.rep[m]
<1>1. ASSUME NEW x, NEW y, StoreToFile(x) = StoreToFile(y), NEW l \in x.links
      PROVE  l \in y.links /\ \A m \in l : x.rep[m] = y.rep[m]
  <2>1. [link |-> l, rep |-> [m \in l |-> x.rep[m]]] \in StoreToFile(y)
    BY <1>1 DEF StoreToFile
  <2>2. PICK k \in y.links : [link |-> l, rep |-> [m \in l |-> x.rep[m]]]
                               = [link |-> k, rep |-> [m \in k |-> y.rep[m]]]
    BY <2>1 DEF StoreToFile
  <2>3. l = k /\ [m \in l |-> x.rep[m]] = [m \in k |-> y.rep[m]]
    BY <2>2
  <2>4. \A m \in l : x.rep[m] = y.rep[m]
    BY <2>3
  <2>5. QED
    BY <2>3, <2>4
<1>2. \A l \in b.links : l \in o.links /\ \A m \in l : b.rep[m] = o.rep[m]
  BY <1>1
<1>3. \A l \in o.links : l \in b.links
  BY <1>1
<1>4. QED
  BY <1>2, <1>3

LEMMA SameDistances ==
  ASSUME PathsFit, NEW known \in SUBSET Pairs, NEW r \in Reputations8, NEW s \in Reputations8,
         \A l \in known : \A m \in l : r[m] = s[m], NEW d \in Nodes
  PROVE  /\ \A n \in Nodes : \A h \in Linked(known, n) : Cost(r, n, h) = Cost(s, n, h)
         /\ Distances(known, r, d) = Distances(known, s, d)
<1>1. ASSUME NEW n \in Nodes, NEW h \in Linked(known, n) PROVE Cost(r, n, h) = Cost(s, n, h)
  <2>1. {n, h} \in known
    BY LinkedNodes
  <2>2. r[n] = s[n] /\ r[h] = s[h]
    BY <2>1
  <2>3. QED
    BY <2>2 DEF Cost
<1> DEFINE w == Distances(known, s, d)
<1>2. Shortest(known, s, d, w)
  BY PathsHold, DistancesFound
<1> HIDE DEF w
<1>3. Shortest(known, r, d, w)
  BY <1>1, <1>2 DEF Shortest
<1>4. Distances(known, r, d) = w
  BY <1>3, DistancesShortest
<1>5. QED
  BY <1>1, <1>4 DEF w

\* Nodes that agree on distances do not send a packet round among themselves.
LEMMA NearerHops ==
  ASSUME NEW S, S # {}, NEW w \in [Nodes -> Nat], S \subseteq Nodes, NEW next,
         \A n \in S : next[n] \in S => w[next[n]] < w[n]
  PROVE  \E n \in S : next[n] \notin S
<1> SUFFICES ASSUME \A n \in S : next[n] \in S PROVE FALSE
  OBVIOUS
<1> DEFINE V == {w[n] : n \in S}
<1>1. V \in SUBSET Nat /\ V # {}
  OBVIOUS
<1>2. PICK k \in V : \A l \in V : k <= l
  <2> HIDE DEF V
  <2>1. QED
    BY <1>1, LeastNatural
<1>3. PICK n \in S : k = w[n]
  OBVIOUS
<1>4. w[next[n]] \in V /\ w[next[n]] < k /\ w[next[n]] \in Nat
  BY <1>3
<1>5. QED
  BY <1>2, <1>3, <1>4

LEMMA LoopFreeHolds ==
  ASSUME PathsFit, RoutesInv
  PROVE  LoopFree
<1> SUFFICES ASSUME NEW r \in 1..current, NEW S \in (SUBSET Settled(r)) \ {{}},
                    NEW d \in Nodes \ S
             PROVE  \E n \in S : hops[n][d] \notin S
  BY DEF LoopFree
<1>1. TypeOK /\ RoundInv /\ RoutesOfBlock /\ ReputationsAgree
  BY DEF RoutesInv, RoundInv
<1>2. S \subseteq Nodes /\ r # 0 /\ \A n \in S : phase[n] = "idle" /\ round[n] = r
  BY DEF Settled
<1>3. \A n \in S : /\ block[n].round = r
                   /\ hops[n] = NextHops(block[n].links, block[n].rep, n)
  BY <1>1, <1>2 DEF RoutesOfBlock
<1>4. \A n \in S : /\ block[n].links \in SUBSET Links /\ block[n].rep \in Reputations8
  <2>1. \A n \in Nodes : block[n] \in [round : 0..current, links : SUBSET Links,
                                       rep : [Nodes -> 0..255]]
    BY <1>1 DEF TypeOK
  <2>2. \A n \in Nodes : block[n].links \in SUBSET Links /\ block[n].rep \in [Nodes -> 0..255]
    BY <2>1
  <2>3. QED
    BY <1>2, <2>2 DEF Reputations8
<1>5. PICK o \in S : TRUE
  OBVIOUS
<1> DEFINE known == block[o].links
           w == Distances(known, block[o].rep, d)
<1>6. \A n \in S : StoreToFile(block[n]) = StoreToFile(block[o])
  BY <1>1, <1>2, <1>3, <1>5 DEF ReputationsAgree
<1>7. Shortest(known, block[o].rep, d, w)
  BY <1>4, <1>5, PathsHold, LinksArePairs, DistancesFound
<1>8. w \in [Nodes -> Nat] /\ w[d] = 0
  <2> HIDE DEF w
  <2>1. QED
    BY <1>7, UnboundedType DEF Shortest
<1>9. ASSUME NEW n \in S, hops[n][d] \in S PROVE w[hops[n][d]] < w[n]
  <2> DEFINE rn == block[n].rep
             h == hops[n][d]
  <2>1. block[n].links = known /\ \A l \in known : \A m \in l : rn[m] = block[o].rep[m]
    BY <1>4, <1>5, <1>6, SameLines
  <2>2. known \in SUBSET Pairs /\ rn \in Reputations8 /\ block[o].rep \in Reputations8
    BY <1>4, <1>5, LinksArePairs
  <2>3. Distances(known, rn, d) = w
    BY <2>1, <2>2, SameDistances
  <2>4. Cheapest(known, rn, n, hops[n])
    BY <1>2, <1>3, <2>1, <2>2, PathsHold, NextHopsCheapest
  <2>5. n \in Nodes /\ d \in Nodes \ {n} /\ h \in Nodes /\ h # d /\ h # NoAddress
    BY <1>2, <1>9, AddressNotNode
  <2> HIDE DEF known, w, rn
  <2>6. /\ h \in Linked(known, n)
        /\ w[n] = w[h] + Cost(rn, n, h)
    BY <2>3, <2>4, <2>5 DEF Cheapest
  <2>7. Cost(rn, n, h) \in Nat /\ 0 < Cost(rn, n, h)
    BY <2>2, <2>5, CostBounds
  <2> DEFINE c == Cost(rn, n, h)
  <2>8. c \in Nat /\ 0 < c /\ w[n] = w[h] + c /\ w[n] \in Nat /\ w[h] \in Nat
    BY <1>8, <2>5, <2>6, <2>7
  <2> HIDE DEF c, h
  <2>9. w[h] < w[n]
    BY <2>8
  <2>10. QED
    BY <2>9 DEF h
<1> DEFINE next == [n \in S |-> hops[n][d]]
<1>10. \A n \in S : next[n] \in S => w[next[n]] < w[n]
  <2> HIDE DEF w
  <2>1. QED
    BY <1>9
<1>11. \E n \in S : next[n] \notin S
  <2> HIDE DEF next, w
  <2>1. QED
    BY <1>2, <1>5, <1>8, <1>10, NearerHops
<1>12. QED
  BY <1>11

\* Nodes that have ended the same round never send a packet round and round among
\* themselves, whatever rounds and votes each of them missed: in networks of up to 65
\* nodes.
THEOREM SettledNodesLoopFree ==
  ASSUME PathsFit
  PROVE  Spec => []LoopFree
<1>1. RoutesInv => LoopFree
  BY LoopFreeHolds
<1>2. QED
  BY <1>1, RoutesInvariant, PTL
=============================================================================
