-------------------------- MODULE SaharaSyncProofs --------------------------
(***************************************************************************)
(* Proofs about SaharaSync, for every network, loss and number of rounds.   *)
(***************************************************************************)
EXTENDS SaharaSync, TLAPS, FiniteSetTheorems

-----------------------------------------------------------------------------
(***************************************************************************)
(* The operators that build messages and tables keep their types.          *)
(***************************************************************************)
Types == HelloTypes \cup UpTypes \cup DownTypes

\* A message put together from a type, two addresses, tuples and authors is a
\* message of net (the SaharaHeader that each sender fills in).
LEMMA MsgType ==
  ASSUME NEW t \in Types, NEW s \in Nodes, NEW d \in Authors,
         NEW l \in SUBSET Edges, NEW v \in SUBSET Authors
  PROVE  Msg(t, s, d, l, v) \in Message
BY DEF Msg, Message, Types

\* What GetListVotesIP and GetMissingVotePackets put into a message are authors.
LEMMA VoteTypes ==
  ASSUME NEW vs \in SUBSET (Authors \X Authors), NEW as \in SUBSET Authors
  PROVE  /\ Keys(vs) \in SUBSET Authors
         /\ Packets(vs) \in SUBSET Authors
         /\ MissingVotes(vs, as) \in SUBSET Authors
         /\ StoreVotes(vs, as) \in SUBSET (Authors \X Authors)
         /\ \A k, a \in Authors : StoreVote(vs, k, a) \in SUBSET (Authors \X Authors)
<1>1. \A v \in vs : v[1] \in Authors /\ v[2] \in Authors
  OBVIOUS
<1>2. Keys(vs) \in SUBSET Authors /\ Packets(vs) \in SUBSET Authors
  BY <1>1 DEF Keys, Packets
<1>3. MissingVotes(vs, as) \in SUBSET Authors
  BY <1>1 DEF MissingVotes, Packets
<1>4. StoreVotes(vs, as) \in SUBSET (Authors \X Authors)
  <2>1. \A a \in as : <<a, a>> \in Authors \X Authors
    OBVIOUS
  <2>2. {v \in vs : v[1] \notin as} \subseteq Authors \X Authors
    OBVIOUS
  <2>3. QED
    BY <2>1, <2>2 DEF StoreVotes
<1>5. \A k, a \in Authors : StoreVote(vs, k, a) \in SUBSET (Authors \X Authors)
  BY DEF StoreVote
<1>6. QED
  BY <1>2, <1>3, <1>4, <1>5

\* The tuples that ProcessSetReconciliationDynamic finds missing are tuples of
\* the node, whatever the filter reports.
LEMMA MissingTuplesType ==
  ASSUME NEW known \in SUBSET Edges, NEW filter,
         NEW missing \in MissingTuples(known, filter)
  PROVE  missing \in SUBSET known
BY FilterAssumption DEF MissingTuples

\* A node that clears a variable leaves it in its range.
LEMMA ClearedType ==
  ASSUME NEW S, NEW T, NEW f \in [Nodes -> T], NEW empty \in T
  PROVE  Cleared(S, f, empty) \in [Nodes -> T]
BY DEF Cleared

\* A broadcast can miss only finitely many receivers.
LEMMA HearType ==
  ASSUME NEW m \in Message, NEW R, losses \in Nat, Hear(m, R)
  PROVE  losses' \in Nat /\ R \in SUBSET Nodes
<1>1. Neighbours(m.src) \ R \in SUBSET Nodes
  BY DEF Neighbours
<1>2. IsFiniteSet(Neighbours(m.src) \ R)
  BY <1>1, FS_Subset, NodesAssumption
<1>3. Cardinality(Neighbours(m.src) \ R) \in Nat
  BY <1>2, FS_CardinalityType
<1>4. losses' \in Nat
  BY <1>3 DEF Hear
<1>5. R \in SUBSET Nodes
  BY DEF Hear, Neighbours
<1>6. QED
  BY <1>4, <1>5

\* A node finds paths to nodes only.
LEMMA RoutesType ==
  ASSUME NEW n, NEW links
  PROVE  RunDijkstra(n, links) \in SUBSET Nodes
BY DEF RunDijkstra

\* What leaves a node is some of what it sends.
LEMMA RoutedType ==
  ASSUME NEW known, NEW msgs \in SUBSET Message
  PROVE  Routed(msgs, known) \in SUBSET Message
BY DEF Routed

\* The answer of a parent that serves a child.
LEMMA SendBFType ==
  ASSUME NEW n \in Nodes, NEW c \in Nodes, NEW links \in SUBSET Edges,
         NEW vs \in SUBSET (Authors \X Authors)
  PROVE  SendBF(n, c, links, vs) \in SUBSET Message
<1>1. Msg("SEND_BF", n, c, links, Keys(vs)) \in Message
  BY MsgType, VoteTypes DEF Types, UpTypes, Authors
<1>2. {Msg("SEND_BF", n, c, links, Keys(vs))} \in SUBSET Message
  BY <1>1
<1>3. QED
  BY <1>2, RoutedType DEF SendBF

-----------------------------------------------------------------------------
(***************************************************************************)
(* Type correctness.                                                       *)
(***************************************************************************)
LEMMA InitTypeOK == Init => TypeOK
BY NodesAssumption DEF Init, TypeOK, Authors

\* ResetVariablesUpdate keeps the types of the variables that only it assigns.
LEMMA ResetTypeOK ==
  ASSUME TypeOK, NEW S, ResetVariablesUpdate(S)
  PROVE  /\ bfKids' \in [Nodes -> SUBSET Nodes]
         /\ idle' \in [Nodes -> BOOLEAN]
         /\ requests' \in [Nodes -> Seq(Nodes)]
         /\ reset' \in [Nodes -> BOOLEAN]
         /\ srCompleted' \in [Nodes -> BOOLEAN]
         /\ alreadyDone' \in [Nodes -> BOOLEAN]
         /\ routes' \in [Nodes -> SUBSET Nodes]
<1>1. bfKids' \in [Nodes -> SUBSET Nodes] /\ routes' \in [Nodes -> SUBSET Nodes]
  BY ClearedType DEF TypeOK, ResetVariablesUpdate
<1>2. idle' \in [Nodes -> BOOLEAN]
  BY ClearedType, Zenon DEF TypeOK, ResetVariablesUpdate
<1>3. requests' \in [Nodes -> Seq(Nodes)]
  <2>1. <<>> \in Seq(Nodes)
    OBVIOUS
  <2>2. Cleared(S, requests, <<>>) \in [Nodes -> Seq(Nodes)]
    BY <2>1, ClearedType DEF TypeOK
  <2>3. QED
    BY <2>2 DEF ResetVariablesUpdate
<1>4. reset' \in [Nodes -> BOOLEAN]
  BY ClearedType, Zenon DEF TypeOK, ResetVariablesUpdate
<1>5. srCompleted' \in [Nodes -> BOOLEAN]
  BY ClearedType, Zenon DEF TypeOK, ResetVariablesUpdate
<1>6. alreadyDone' \in [Nodes -> BOOLEAN]
  BY ClearedType, Zenon DEF TypeOK, ResetVariablesUpdate
<1>7. QED
  BY <1>1, <1>2, <1>3, <1>4, <1>5, <1>6

LEMMA StartTypeOK == TypeOK /\ StartTopologyBuilding => TypeOK'
<1> SUFFICES ASSUME TypeOK, StartTopologyBuilding PROVE TypeOK'
  OBVIOUS
<1>1. Msg("ROOT_SR_HELLO", Root, NoNode, {}, {Root}) \in Message
  BY MsgType, NodesAssumption DEF Types, HelloTypes, Authors
<1>2. early' \in Nat
  BY DEF TypeOK, StartTopologyBuilding, Expires
<1>3. /\ net' \in SUBSET Message
      /\ round' \in Nat
      /\ parent' \in [Nodes -> Authors]
  BY <1>1, NodesAssumption DEF TypeOK, StartTopologyBuilding, Authors
<1>4. /\ tuples' \in [Nodes -> SUBSET Edges]
      /\ votes' \in [Nodes -> SUBSET (Authors \X Authors)]
      /\ kids' \in [Nodes -> SUBSET Nodes]
      /\ done' \in [Nodes -> SUBSET Nodes] /\ \A n \in Nodes : done'[n] \subseteq kids'[n]
  BY DEF TypeOK, StartTopologyBuilding, Cleared
<1>5. /\ bfKids' \in [Nodes -> SUBSET Nodes]
      /\ idle' \in [Nodes -> BOOLEAN]
      /\ requests' \in [Nodes -> Seq(Nodes)]
      /\ reset' \in [Nodes -> BOOLEAN]
      /\ srCompleted' \in [Nodes -> BOOLEAN]
      /\ alreadyDone' \in [Nodes -> BOOLEAN]
      /\ routes' \in [Nodes -> SUBSET Nodes]
  BY ResetTypeOK DEF StartTopologyBuilding
<1>6. UNCHANGED <<srTimer, askTimer, invTimer, upDue, downDue, chain, losses>>
  BY DEF StartTopologyBuilding, timerVars, dueVars
<1>7. QED
  BY <1>2, <1>3, <1>4, <1>5, <1>6 DEF TypeOK

\* A hello adds links of its sender and one vote packet to the tables.
LEMMA StoreHelloTypeOK ==
  ASSUME TypeOK, NEW S, NEW o \in Nodes, NEW R \in SUBSET Neighbours(o),
         NEW author \in Authors, StoreHello(S, R, o, author)
  PROVE  /\ tuples' \in [Nodes -> SUBSET Edges]
         /\ votes' \in [Nodes -> SUBSET (Authors \X Authors)]
<1>1. \A n \in R : {n, o} \in Edges
  BY DEF Neighbours
<1>2. Cleared(S, tuples, {}) \in [Nodes -> SUBSET Edges]
  BY ClearedType DEF TypeOK
<1>3. Cleared(S, votes, {}) \in [Nodes -> SUBSET (Authors \X Authors)]
  BY ClearedType DEF TypeOK
<1>4. \A n \in Nodes :
        StoreVote(Cleared(S, votes, {})[n], o, author) \in SUBSET (Authors \X Authors)
  BY <1>3, VoteTypes DEF Authors
<1>5. QED
  BY <1>1, <1>2, <1>4 DEF StoreHello, TypeOK

LEMMA RootHelloTypeOK ==
  ASSUME TypeOK, NEW m \in net, NEW R, ProcessRootHello(m, R)
  PROVE  TypeOK'
<1> DEFINE S == Resetting(R)
<1>1. m \in Message /\ m.src \in Nodes
  BY DEF TypeOK, Message
<1>2. losses' \in Nat /\ R \in SUBSET Nodes /\ R \subseteq Neighbours(m.src)
  BY <1>1, HearType DEF TypeOK, ProcessRootHello, Hear
<1>3. parent' \in [Nodes -> Authors]
  BY <1>1 DEF TypeOK, ProcessRootHello, Authors
<1>4. /\ kids' \in [Nodes -> SUBSET Nodes]
      /\ done' \in [Nodes -> SUBSET Nodes] /\ \A n \in Nodes : done'[n] \subseteq kids'[n]
  BY DEF TypeOK, ProcessRootHello, Cleared
<1>5. /\ bfKids' \in [Nodes -> SUBSET Nodes]
      /\ idle' \in [Nodes -> BOOLEAN]
      /\ requests' \in [Nodes -> Seq(Nodes)]
      /\ reset' \in [Nodes -> BOOLEAN]
      /\ srCompleted' \in [Nodes -> BOOLEAN]
      /\ alreadyDone' \in [Nodes -> BOOLEAN]
      /\ routes' \in [Nodes -> SUBSET Nodes]
  BY ResetTypeOK DEF ProcessRootHello
<1>6. /\ tuples' \in [Nodes -> SUBSET Edges]
      /\ votes' \in [Nodes -> SUBSET (Authors \X Authors)]
  <2>1. StoreHello(S, R, m.src, m.src)
    BY DEF ProcessRootHello
  <2>2. QED
    BY <1>1, <1>2, <2>1, StoreHelloTypeOK DEF Authors
<1>7. srTimer' \in [Nodes -> BOOLEAN]
  BY Zenon DEF ProcessRootHello
<1>8. net' \in SUBSET Message
  <2>1. \A n \in R : Msg("SR_HELLO", n, m.src, {}, {NoNode}) \in Message
    BY <1>1, <1>2, MsgType DEF Types, HelloTypes, Authors
  <2>2. QED
    BY <2>1 DEF TypeOK, ProcessRootHello
<1>9. UNCHANGED <<askTimer, invTimer, upDue, downDue, chain, round, early>>
  BY DEF ProcessRootHello, dueVars
<1>10. QED
  BY <1>2, <1>3, <1>4, <1>5, <1>6, <1>7, <1>8, <1>9 DEF TypeOK

LEMMA SRHelloTypeOK ==
  ASSUME TypeOK, NEW m \in net, NEW R, ProcessSRHello(m, R)
  PROVE  TypeOK'
<1> DEFINE S == Resetting(R)
<1>1. m \in Message /\ m.src \in Nodes /\ m.votes \in SUBSET Authors
  BY DEF TypeOK, Message
<1>2. losses' \in Nat /\ R \in SUBSET Nodes /\ R \subseteq Neighbours(m.src)
  BY <1>1, HearType DEF TypeOK, ProcessSRHello, Hear
<1>3. parent' \in [Nodes -> Authors]
  BY <1>1 DEF TypeOK, ProcessSRHello, Cleared, Authors
<1>4. /\ kids' \in [Nodes -> SUBSET Nodes]
      /\ done' \in [Nodes -> SUBSET Nodes] /\ \A n \in Nodes : done'[n] \subseteq kids'[n]
  BY <1>1 DEF TypeOK, ProcessSRHello, Cleared
<1>5. /\ bfKids' \in [Nodes -> SUBSET Nodes]
      /\ idle' \in [Nodes -> BOOLEAN]
      /\ requests' \in [Nodes -> Seq(Nodes)]
      /\ reset' \in [Nodes -> BOOLEAN]
      /\ srCompleted' \in [Nodes -> BOOLEAN]
      /\ alreadyDone' \in [Nodes -> BOOLEAN]
      /\ routes' \in [Nodes -> SUBSET Nodes]
  BY ResetTypeOK DEF ProcessSRHello
<1>6. /\ tuples' \in [Nodes -> SUBSET Edges]
      /\ votes' \in [Nodes -> SUBSET (Authors \X Authors)]
  <2>1. PICK author \in m.votes : StoreHello(S, R, m.src, author)
    BY DEF ProcessSRHello
  <2>2. QED
    BY <1>1, <1>2, <2>1, StoreHelloTypeOK
<1>7. srTimer' \in [Nodes -> BOOLEAN]
  BY Zenon DEF ProcessSRHello
<1>8. net' \in SUBSET Message
  <2>1. \A n \in Adopters(m, R) : Msg("SR_HELLO", n, m.src, {}, {n}) \in Message
    BY <1>1, <1>2, MsgType DEF Types, HelloTypes, Authors, Adopters
  <2>2. QED
    BY <2>1 DEF TypeOK, ProcessSRHello
<1>9. UNCHANGED <<askTimer, invTimer, upDue, downDue, chain, round, early>>
  BY DEF ProcessSRHello, dueVars
<1>10. QED
  BY <1>2, <1>3, <1>4, <1>5, <1>6, <1>7, <1>8, <1>9 DEF TypeOK

\* Writing a block extends the chain by a block.
LEMMA WriteBlockTypeOK ==
  ASSUME TypeOK, NEW n \in Nodes, WriteBlock(n)
  PROVE  /\ chain' \in [Nodes -> Seq(Block)]
         /\ reset' \in [Nodes -> BOOLEAN]
         /\ routes' \in [Nodes -> SUBSET Nodes]
<1>1. Packets(votes[n]) \in SUBSET Authors
  BY VoteTypes DEF TypeOK
<1>2. [round |-> round, links |-> tuples[n], votes |-> Packets(votes[n]) \ {NoNode}] \in Block
  BY <1>1 DEF TypeOK, Block
<1>3. RunDijkstra(n, tuples[n]) \in SUBSET Nodes
  BY RoutesType
<1>4. QED
  BY <1>2, <1>3 DEF TypeOK, WriteBlock

\* InverseSetRec, whoever calls it, with the children acked marked done.
LEMMA InverseSetRecTypeOK ==
  ASSUME TypeOK, NEW n \in Nodes, NEW acked \in SUBSET kids[n], NEW running \in BOOLEAN,
         NEW known \in SUBSET Nodes, InverseSetRec(n, acked, running, known)
  PROVE  /\ kids' \in [Nodes -> SUBSET Nodes]
         /\ done' \in [Nodes -> SUBSET Nodes]
         /\ \A k \in Nodes : done'[k] \subseteq kids'[k]
         /\ reset' \in [Nodes -> BOOLEAN]
         /\ srCompleted' \in [Nodes -> BOOLEAN]
         /\ alreadyDone' \in [Nodes -> BOOLEAN]
         /\ invTimer' \in [Nodes -> BOOLEAN]
         /\ chain' \in [Nodes -> Seq(Block)]
         /\ routes' \in [Nodes -> SUBSET Nodes]
         /\ net' \in SUBSET Message
<1>1. CASE NoChildrenToServe(n)
  <2>1. /\ WriteBlock(n)
        /\ srCompleted' = [srCompleted EXCEPT ![n] = TRUE]
        /\ done' = [done EXCEPT ![n] = acked]
        /\ invTimer' = [invTimer EXCEPT ![n] = running]
        /\ UNCHANGED <<kids, alreadyDone, net>>
    BY <1>1 DEF InverseSetRec
  <2>2. QED
    BY <2>1, WriteBlockTypeOK DEF TypeOK
<1>2. CASE ~NoChildrenToServe(n)
  <2> DEFINE children == kids[n] \cup bfKids[n]
  <2>1. /\ kids' = [kids EXCEPT ![n] = children]
        /\ done' = [done EXCEPT ![n] = acked]
        /\ net' = net \cup Routed({Msg("ASK_BF_P2C", n, c, {}, {}) : c \in ToAsk(n, acked)},
                                  routes'[n])
        /\ invTimer' = [invTimer EXCEPT ![n] = running \/ children # acked]
        /\ UNCHANGED srCompleted
    BY <1>2 DEF InverseSetRec
  <2>2. \/ UNCHANGED <<reset, alreadyDone, chain>> /\ routes' = [routes EXCEPT ![n] = known]
        \/ WriteBlock(n) /\ alreadyDone' = [alreadyDone EXCEPT ![n] = TRUE]
    BY <1>2 DEF InverseSetRec
  <2>3. /\ kids' \in [Nodes -> SUBSET Nodes]
        /\ done' \in [Nodes -> SUBSET Nodes]
        /\ \A k \in Nodes : done'[k] \subseteq kids'[k]
    BY <2>1 DEF TypeOK
  <2>4. /\ reset' \in [Nodes -> BOOLEAN]
        /\ alreadyDone' \in [Nodes -> BOOLEAN]
        /\ chain' \in [Nodes -> Seq(Block)]
        /\ routes' \in [Nodes -> SUBSET Nodes]
    BY <2>2, WriteBlockTypeOK DEF TypeOK
  <2>5. net' \in SUBSET Message
    <3>1. \A c \in ToAsk(n, acked) : Msg("ASK_BF_P2C", n, c, {}, {}) \in Message
      BY MsgType DEF TypeOK, ToAsk, Types, DownTypes, Authors
    <3>2. Routed({Msg("ASK_BF_P2C", n, c, {}, {}) : c \in ToAsk(n, acked)}, routes'[n])
            \in SUBSET Message
      BY <3>1, RoutedType
    <3>3. QED
      BY <2>1, <3>2 DEF TypeOK
  <2>6. (running \/ children # acked) \in BOOLEAN
    OBVIOUS
  <2>7. QED
    BY <2>1, <2>3, <2>4, <2>5, <2>6 DEF TypeOK
<1>3. QED
  BY <1>1, <1>2

LEMMA InverseCallsTypeOK ==
  ASSUME TypeOK, NEW n \in Nodes, InverseSetRecDue(n) \/ InverseTimeout(n)
  PROVE  TypeOK'
<1>1. /\ done[n] \in SUBSET kids[n] /\ invTimer[n] \in BOOLEAN /\ downDue[n] \in Nat
      /\ routes[n] \in SUBSET Nodes
  BY DEF TypeOK
<1>2. CASE InverseSetRecDue(n)
  <2>1. InverseSetRec(n, done[n], invTimer[n], routes[n])
    BY <1>2 DEF InverseSetRecDue
  <2>2. downDue' \in [Nodes -> Nat]
    <3>1. downDue[n] - 1 \in Nat /\ downDue' = [downDue EXCEPT ![n] = downDue[n] - 1]
      BY <1>1, <1>2 DEF InverseSetRecDue
    <3>2. QED
      BY <3>1 DEF TypeOK
  <2>3. UNCHANGED <<parent, bfKids, idle, requests, tuples, votes, srTimer, askTimer, upDue,
                    round, losses, early>>
    BY <1>2 DEF InverseSetRecDue, serviceVars, tableVars
  <2>4. /\ kids' \in [Nodes -> SUBSET Nodes]
        /\ done' \in [Nodes -> SUBSET Nodes]
        /\ \A k \in Nodes : done'[k] \subseteq kids'[k]
        /\ reset' \in [Nodes -> BOOLEAN]
        /\ srCompleted' \in [Nodes -> BOOLEAN]
        /\ alreadyDone' \in [Nodes -> BOOLEAN]
        /\ invTimer' \in [Nodes -> BOOLEAN]
        /\ chain' \in [Nodes -> Seq(Block)]
        /\ routes' \in [Nodes -> SUBSET Nodes]
        /\ net' \in SUBSET Message
    BY <1>1, <2>1, InverseSetRecTypeOK, Zenon
  <2>5. QED
    BY <2>2, <2>3, <2>4 DEF TypeOK
<1>3. CASE InverseTimeout(n)
  <2>1. InverseSetRec(n, done[n], FALSE, routes[n])
    BY <1>3 DEF InverseTimeout
  <2>2. early' \in Nat
    BY <1>3 DEF TypeOK, InverseTimeout, Expires
  <2>3. UNCHANGED <<parent, bfKids, idle, requests, tuples, votes, srTimer, askTimer, upDue,
                    downDue, round, losses>>
    BY <1>3 DEF InverseTimeout, serviceVars, tableVars, dueVars
  <2>4. QED
    BY <1>1, <2>1, <2>2, <2>3, InverseSetRecTypeOK DEF TypeOK
<1>4. QED
  BY <1>2, <1>3

\* A child that is marked done is in m_listSetRecDone.
LEMMA MarkDoneTypeOK ==
  ASSUME TypeOK, NEW n \in Nodes, NEW c \in Nodes, MarkDone(n, c)
  PROVE  /\ kids' \in [Nodes -> SUBSET Nodes]
         /\ done' \in [Nodes -> SUBSET Nodes]
         /\ \A k \in Nodes : done'[k] \subseteq kids'[k]
BY DEF TypeOK, MarkDone

LEMMA DownTypeOK ==
  ASSUME TypeOK, NEW m \in net, m.dst # NoNode,
         \/ SendBFC2P(m)
         \/ ReceivedFromChildBF(m)
         \/ ProcessReceivedMissingInverse(m)
         \/ ProcessInverseAck(m)
  PROVE  TypeOK'
<1> DEFINE n == m.dst
<1>1. /\ m \in Message /\ n \in Nodes /\ m.src \in Nodes
      /\ m.links \in SUBSET Edges /\ m.votes \in SUBSET Authors
  BY DEF TypeOK, Message, Authors
<1>2. /\ tuples[n] \in SUBSET Edges
      /\ votes[n] \in SUBSET (Authors \X Authors)
      /\ parent[n] \in Authors
  BY <1>1 DEF TypeOK
<1> USE DEF TypeOK, treeVars, serviceVars, flagVars, tableVars, timerVars, dueVars
<1>3. CASE SendBFC2P(m)
  <2>1. Msg("SEND_BF_C2P", n, m.src, tuples[n], Keys(votes[n])) \in Message
    BY <1>1, <1>2, MsgType, VoteTypes DEF Types, DownTypes, Authors
  <2>2. net' \in SUBSET Message
    BY <1>3, <2>1, RoutedType DEF SendBFC2P
  <2>3. QED
    BY <1>3, <2>2 DEF SendBFC2P
<1>4. CASE ReceivedFromChildBF(m)
  <2>1. PICK missing \in MissingTuples(tuples[n], m.links) :
          net' = (net \ {m}) \cup
            Routed({Msg("SEND_MISSING_P2C", n, m.src, missing,
                        MissingVotes(votes[n], m.votes))}, routes[n])
    BY <1>4 DEF ReceivedFromChildBF
  <2>2. missing \in SUBSET Edges /\ MissingVotes(votes[n], m.votes) \in SUBSET Authors
    <3>1. missing \in SUBSET tuples[n]
      BY <1>2, <2>1, MissingTuplesType
    <3>2. QED
      BY <1>1, <1>2, <3>1, VoteTypes
  <2>3. Msg("SEND_MISSING_P2C", n, m.src, missing, MissingVotes(votes[n], m.votes)) \in Message
    BY <1>1, <2>2, MsgType DEF Types, DownTypes, Authors
  <2>4. net' \in SUBSET Message
    BY <2>1, <2>3, RoutedType
  <2>5. bfKids' \in [Nodes -> SUBSET Nodes]
    BY <1>1, <1>4 DEF ReceivedFromChildBF
  <2>6. QED
    BY <1>4, <2>4, <2>5 DEF ReceivedFromChildBF
<1>5. CASE ProcessReceivedMissingInverse(m)
  <2>1. Msg("SEND_MISSING_P2C_ACK", n, parent[n], {}, {}) \in Message
    BY <1>1, <1>2, MsgType DEF Types, DownTypes
  <2>2. votes' \in [Nodes -> SUBSET (Authors \X Authors)]
    <3>1. StoreVotes(votes[n], m.votes) \in SUBSET (Authors \X Authors)
      BY <1>1, <1>2, VoteTypes
    <3>2. QED
      BY <1>5, <3>1 DEF ProcessReceivedMissingInverse
  <2>3. tuples' \in [Nodes -> SUBSET Edges] /\ downDue' \in [Nodes -> Nat]
    BY <1>1, <1>2, <1>5 DEF ProcessReceivedMissingInverse
  <2>4. net' \in SUBSET Message
    BY <1>5, <2>1, RoutedType DEF ProcessReceivedMissingInverse
  <2>5. done' \in [Nodes -> SUBSET Nodes] /\ \A k \in Nodes : done'[k] \subseteq kids[k]
    BY <1>5 DEF ProcessReceivedMissingInverse
  <2>6. QED
    BY <1>5, <2>2, <2>3, <2>4, <2>5 DEF ProcessReceivedMissingInverse
<1>6. CASE ProcessInverseAck(m)
  <2>1. /\ kids' \in [Nodes -> SUBSET Nodes]
        /\ done' \in [Nodes -> SUBSET Nodes]
        /\ \A k \in Nodes : done'[k] \subseteq kids'[k]
    BY <1>1, <1>6, MarkDoneTypeOK DEF ProcessInverseAck
  <2>2. net' \in SUBSET Message
    BY <1>6 DEF ProcessInverseAck
  <2>3. QED
    BY <1>6, <2>1, <2>2 DEF ProcessInverseAck
<1>7. QED
  BY <1>3, <1>4, <1>5, <1>6

\* AskToParentBF of a node, whoever calls it.
LEMMA AskTypeOK ==
  ASSUME TypeOK, NEW n \in Nodes, AskToParentBF(n)
  PROVE  net' \in SUBSET Message /\ askTimer' \in [Nodes -> BOOLEAN]
<1>1. Msg("ASK_BF", n, parent[n], {}, {}) \in Message
  BY MsgType DEF TypeOK, Types, UpTypes
<1>2. Routed({Msg("ASK_BF", n, parent[n], {}, {})}, routes'[n]) \in SUBSET Message
  BY <1>1, RoutedType
<1>3. QED
  BY <1>2 DEF TypeOK, AskToParentBF

\* NoChildren of a node, whoever calls it.
LEMMA NoChildrenTypeOK ==
  ASSUME TypeOK, NEW n \in Nodes, NoChildren(n)
  PROVE  /\ kids' \in [Nodes -> SUBSET Nodes]
         /\ done' \in [Nodes -> SUBSET Nodes]
         /\ \A k \in Nodes : done'[k] \subseteq kids'[k]
         /\ reset' \in [Nodes -> BOOLEAN]
         /\ srCompleted' \in [Nodes -> BOOLEAN]
         /\ alreadyDone' \in [Nodes -> BOOLEAN]
         /\ invTimer' \in [Nodes -> BOOLEAN]
         /\ askTimer' \in [Nodes -> BOOLEAN]
         /\ chain' \in [Nodes -> Seq(Block)]
         /\ routes' \in [Nodes -> SUBSET Nodes]
         /\ net' \in SUBSET Message
<1>1. CASE n = Root
  <2>1. InverseSetRec(n, {}, invTimer[n], RunDijkstra(n, tuples[n])) /\ UNCHANGED askTimer
    BY <1>1 DEF NoChildren
  <2>2. RunDijkstra(n, tuples[n]) \in SUBSET Nodes
    BY RoutesType
  <2>3. {} \in SUBSET kids[n] /\ invTimer[n] \in BOOLEAN /\ askTimer \in [Nodes -> BOOLEAN]
    BY DEF TypeOK
  <2>4. QED
    BY <2>1, <2>2, <2>3, InverseSetRecTypeOK, Zenon
<1>2. CASE n # Root
  <2>1. AskToParentBF(n) /\ UNCHANGED <<kids, done, reset, srCompleted, alreadyDone, invTimer, chain>>
    BY <1>2 DEF NoChildren, flagVars
  <2>2. routes' \in [Nodes -> SUBSET Nodes]
    <3>1. routes' = [routes EXCEPT ![n] = RunDijkstra(n, tuples[n])]
      BY <1>2 DEF NoChildren
    <3>2. RunDijkstra(n, tuples[n]) \in SUBSET Nodes
      BY RoutesType
    <3>3. QED
      BY <3>1, <3>2 DEF TypeOK
  <2>3. QED
    BY <2>1, <2>2, AskTypeOK DEF TypeOK
<1>3. QED
  BY <1>1, <1>2

LEMMA UpCallsTypeOK ==
  ASSUME TypeOK, NEW n \in Nodes, NoChildrenNew(n) \/ NoChildrenDue(n) \/ AskTimeout(n)
  PROVE  TypeOK'
<1> USE DEF TypeOK, treeVars, serviceVars, flagVars, tableVars, dueVars
<1>1. CASE NoChildrenNew(n)
  <2>1. srTimer' \in [Nodes -> BOOLEAN]
    BY <1>1 DEF NoChildrenNew
  <2>2. UNCHANGED <<parent, bfKids, idle, requests, tuples, votes, upDue, downDue,
                    round, losses, early>>
    BY <1>1 DEF NoChildrenNew
  <2>3. NoChildren(n)
    BY <1>1 DEF NoChildrenNew
  <2>4. QED
    BY <2>1, <2>2, <2>3, NoChildrenTypeOK
<1>2. CASE NoChildrenDue(n)
  <2>1. upDue' \in [Nodes -> Nat]
    <3>1. upDue[n] - 1 \in Nat /\ upDue' = [upDue EXCEPT ![n] = upDue[n] - 1]
      BY <1>2 DEF NoChildrenDue
    <3>2. QED
      BY <3>1
  <2>2. UNCHANGED <<parent, bfKids, idle, requests, tuples, votes, srTimer, downDue,
                    round, losses, early>>
    BY <1>2 DEF NoChildrenDue
  <2>3. NoChildren(n)
    BY <1>2 DEF NoChildrenDue
  <2>4. QED
    BY <2>1, <2>2, <2>3, NoChildrenTypeOK
<1>3. CASE AskTimeout(n)
  <2>1. net' \in SUBSET Message /\ askTimer' \in [Nodes -> BOOLEAN]
    BY <1>3, AskTypeOK DEF AskTimeout
  <2>2. early' \in Nat
    BY <1>3 DEF AskTimeout, Expires
  <2>3. QED
    BY <1>3, <2>1, <2>2 DEF AskTimeout
<1>4. QED
  BY <1>1, <1>2, <1>3

LEMMA UpTypeOK ==
  ASSUME TypeOK, NEW m \in net, m.dst # NoNode,
         \/ SendToChildBF(m)
         \/ EnqueueChild(m)
         \/ ReceivedFromParentBF(m)
         \/ ProcessReceivedMissing(m)
  PROVE  TypeOK'
<1> DEFINE n == m.dst
<1>1. /\ m \in Message /\ n \in Nodes /\ m.src \in Nodes
      /\ m.links \in SUBSET Edges /\ m.votes \in SUBSET Authors
  BY DEF TypeOK, Message, Authors
<1>2. /\ tuples[n] \in SUBSET Edges
      /\ votes[n] \in SUBSET (Authors \X Authors)
      /\ parent[n] \in Authors
      /\ requests[n] \in Seq(Nodes)
  BY <1>1 DEF TypeOK
<1> USE DEF TypeOK, treeVars, serviceVars, flagVars, tableVars, timerVars, dueVars
<1>3. CASE SendToChildBF(m)
  <2>1. SendBF(n, m.src, tuples[n], votes[n]) \in SUBSET Message
    BY <1>1, <1>2, SendBFType
  <2>2. bfKids' \in [Nodes -> SUBSET Nodes] /\ idle' \in [Nodes -> BOOLEAN]
    BY <1>1, <1>3 DEF SendToChildBF
  <2>3. routes' \in [Nodes -> SUBSET Nodes]
    BY <1>3, RoutesType DEF SendToChildBF
  <2>4. QED
    BY <1>3, <2>1, <2>2, <2>3 DEF SendToChildBF
<1>4. CASE EnqueueChild(m)
  <2>1. Append(requests[n], m.src) \in Seq(Nodes)
    BY <1>1, <1>2
  <2>2. requests' \in [Nodes -> Seq(Nodes)]
    BY <1>4, <2>1 DEF EnqueueChild
  <2>3. QED
    BY <1>4, <2>2 DEF EnqueueChild
<1>5. CASE ReceivedFromParentBF(m)
  <2>1. PICK missing \in MissingTuples(tuples[n], m.links) :
          net' = (net \ {m}) \cup
            Routed({Msg("SEND_MISSING_C2P", n, parent[n], missing,
                        MissingVotes(votes[n], m.votes))}, routes[n])
    BY <1>5 DEF ReceivedFromParentBF
  <2>2. missing \in SUBSET tuples[n]
    BY <1>2, <2>1, MissingTuplesType
  <2>3. MissingVotes(votes[n], m.votes) \in SUBSET Authors
    BY <1>1, <1>2, VoteTypes
  <2>4. Msg("SEND_MISSING_C2P", n, parent[n], missing, MissingVotes(votes[n], m.votes))
          \in Message
    BY <1>1, <1>2, <2>2, <2>3, MsgType DEF Types, UpTypes
  <2>5. net' \in SUBSET Message
    BY <2>1, <2>4, RoutedType
  <2>6. askTimer' \in [Nodes -> BOOLEAN]
    BY <1>5 DEF ReceivedFromParentBF
  <2>7. QED
    BY <1>5, <2>5, <2>6 DEF ReceivedFromParentBF
<1>6. CASE ProcessReceivedMissing(m)
  <2>1. votes' \in [Nodes -> SUBSET (Authors \X Authors)]
    <3>1. StoreVotes(votes[n], m.votes) \in SUBSET (Authors \X Authors)
      BY <1>1, <1>2, VoteTypes
    <3>2. QED
      BY <1>6, <3>1 DEF ProcessReceivedMissing
  <2>2. tuples' \in [Nodes -> SUBSET Edges]
    BY <1>1, <1>2, <1>6 DEF ProcessReceivedMissing
  <2>3. /\ kids' \in [Nodes -> SUBSET Nodes]
        /\ done' \in [Nodes -> SUBSET Nodes]
        /\ \A k \in Nodes : done'[k] \subseteq kids'[k]
    BY <1>1, <1>6, MarkDoneTypeOK DEF ProcessReceivedMissing
  <2>4. /\ upDue' \in [Nodes -> Nat]
        /\ net' \in SUBSET Message
        /\ bfKids' \in [Nodes -> SUBSET Nodes]
        /\ idle' \in [Nodes -> BOOLEAN]
        /\ requests' \in [Nodes -> Seq(Nodes)]
        /\ routes' \in [Nodes -> SUBSET Nodes]
    <3>1. CASE OnChildResponseReceived(n, net \ {m}) /\ UNCHANGED upDue
      <4>1. CASE requests[n] = <<>>
        BY <3>1, <4>1 DEF OnChildResponseReceived
      <4>2. CASE requests[n] # <<>>
        <5>1. Head(requests[n]) \in Nodes /\ Tail(requests[n]) \in Seq(Nodes)
          BY <1>2, <4>2
        <5>2. tuples'[n] \in SUBSET Edges /\ votes'[n] \in SUBSET (Authors \X Authors)
          BY <1>1, <2>1, <2>2
        <5>3. SendBF(n, Head(requests[n]), tuples'[n], votes'[n]) \in SUBSET Message
          BY <1>1, <5>1, <5>2, SendBFType
        <5>4. net' \in SUBSET Message
          BY <3>1, <4>2, <5>3 DEF OnChildResponseReceived
        <5>5. bfKids' = [bfKids EXCEPT ![n] = @ \cup {Head(requests[n])}]
          BY <3>1, <4>2 DEF OnChildResponseReceived
        <5>6. /\ idle' = [idle EXCEPT ![n] = FALSE]
              /\ requests' = [requests EXCEPT ![n] = Tail(@)]
          BY <3>1, <4>2 DEF OnChildResponseReceived
        <5>7. bfKids' \in [Nodes -> SUBSET Nodes]
          BY <1>1, <5>1, <5>5
        <5>8. idle' \in [Nodes -> BOOLEAN] /\ requests' \in [Nodes -> Seq(Nodes)]
          BY <5>1, <5>6
        <5>9. routes' \in [Nodes -> SUBSET Nodes]
          <6>1. routes' = [routes EXCEPT ![n] = RunDijkstra(n, tuples'[n])]
            BY <3>1, <4>2 DEF OnChildResponseReceived
          <6>2. RunDijkstra(n, tuples'[n]) \in SUBSET Nodes
            BY RoutesType
          <6>3. QED
            BY <6>1, <6>2
        <5>10. QED
          BY <3>1, <5>4, <5>7, <5>8, <5>9
      <4>3. QED
        BY <4>1, <4>2
    <3>2. CASE /\ upDue' = [upDue EXCEPT ![n] = @ + 1]
               /\ net' = net \ {m}
               /\ UNCHANGED <<serviceVars, routes>>
      <4>1. upDue' \in [Nodes -> Nat]
        <5>1. upDue[n] + 1 \in Nat
          BY <1>1
        <5>2. QED
          BY <3>2, <5>1
      <4>2. QED
        BY <3>2, <4>1
    <3>3. QED
      BY <1>6, <3>1, <3>2 DEF ProcessReceivedMissing
  <2>5. UNCHANGED <<parent, reset, srCompleted, alreadyDone, srTimer, askTimer, invTimer,
                    downDue, chain, round, losses, early>>
    BY <1>6 DEF ProcessReceivedMissing
  <2>6. QED
    BY <2>1, <2>2, <2>3, <2>4, <2>5
<1>7. QED
  BY <1>3, <1>4, <1>5, <1>6

LEMMA FailuresTypeOK ==
  ASSUME TypeOK, NEW m \in net, SendFails(m) \/ LoseUnicast(m)
  PROVE  TypeOK'
<1> USE DEF TypeOK, treeVars, serviceVars, flagVars, tableVars, timerVars, dueVars
<1>1. CASE SendFails(m)
  BY <1>1 DEF SendFails
<1>2. CASE LoseUnicast(m)
  BY <1>2 DEF LoseUnicast
<1>3. QED
  BY <1>1, <1>2

LEMMA NextTypeOK == TypeOK /\ [Next]_vars => TypeOK'
<1> SUFFICES ASSUME TypeOK, [Next]_vars PROVE TypeOK'
  OBVIOUS
<1>1. CASE StartTopologyBuilding
  BY <1>1, StartTypeOK
<1>2. ASSUME NEW m \in net, ReceiveHello(m) PROVE TypeOK'
  BY <1>2, RootHelloTypeOK, SRHelloTypeOK DEF ReceiveHello
<1>3. ASSUME NEW m \in net, m.dst # NoNode, ReceiveUnicast(m) PROVE TypeOK'
  BY <1>3, UpTypeOK, DownTypeOK DEF ReceiveUnicast
<1>4. ASSUME NEW m \in net, SendFails(m) \/ LoseUnicast(m) PROVE TypeOK'
  BY <1>4, FailuresTypeOK
<1>5. ASSUME NEW n \in Nodes, Timeout(n) \/ DelayedCall(n) PROVE TypeOK'
  BY <1>5, UpCallsTypeOK, InverseCallsTypeOK DEF Timeout, DelayedCall
<1>6. CASE UNCHANGED vars
  BY <1>6 DEF TypeOK, vars, treeVars, serviceVars, flagVars, tableVars, timerVars, dueVars
<1>7. QED
  BY <1>1, <1>2, <1>3, <1>4, <1>5, <1>6 DEF Next, RecvPacket

\* Every reachable state is well typed; in particular no handler marks a child
\* done in m_listSetRecDone without having entered it (ProcessReceivedMissing,
\* ProcessInverseAck, InverseSetRec, the hellos).
THEOREM TypeCorrect == Spec => []TypeOK
<1>1. Init => TypeOK
  BY InitTypeOK
<1>2. TypeOK /\ [Next]_vars => TypeOK'
  BY NextTypeOK
<1>3. QED
  BY <1>1, <1>2, PTL DEF Spec

-----------------------------------------------------------------------------
(***************************************************************************)
(* The queue of the children that wait.                                    *)
(***************************************************************************)
NoRepeats(q) == \A i, j \in DOMAIN q : q[i] = q[j] => i = j

\* A request is pushed only when IsAlreadyEnqueued does not find it.
LEMMA AppendNoRepeats ==
  ASSUME NEW T, NEW q \in Seq(T), NEW c \in T, NoRepeats(q),
         ~ \E i \in DOMAIN q : q[i] = c
  PROVE  NoRepeats(Append(q, c))
<1>1. DOMAIN Append(q, c) = 1 .. Len(q) + 1 /\ DOMAIN q = 1 .. Len(q) /\ Len(q) \in Nat
  OBVIOUS
<1>2. \A i \in 1 .. Len(q) : Append(q, c)[i] = q[i]
  OBVIOUS
<1>3. Append(q, c)[Len(q) + 1] = c
  OBVIOUS
<1>4. QED
  BY <1>1, <1>2, <1>3 DEF NoRepeats

\* front and pop of OnChildResponseReceived.
LEMMA TailNoRepeats ==
  ASSUME NEW T, NEW q \in Seq(T), q # <<>>, NoRepeats(q)
  PROVE  NoRepeats(Tail(q))
<1>1. DOMAIN Tail(q) = 1 .. Len(q) - 1 /\ DOMAIN q = 1 .. Len(q) /\ Len(q) \in Nat
  OBVIOUS
<1>2. \A i \in 1 .. Len(q) - 1 : Tail(q)[i] = q[i + 1] /\ i + 1 \in 1 .. Len(q)
  OBVIOUS
<1>3. QED
  BY <1>1, <1>2 DEF NoRepeats

LEMMA ServiceUnchanged ==
  ASSUME ServiceInv, UNCHANGED <<idle, requests>>
  PROVE  ServiceInv'
BY DEF ServiceInv

\* ResetVariablesUpdate empties the queue of the nodes it makes idle.
LEMMA ServiceReset ==
  ASSUME TypeOK, ServiceInv, NEW S, ResetVariablesUpdate(S)
  PROVE  ServiceInv'
<1> SUFFICES ASSUME NEW n \in Nodes
             PROVE  /\ idle'[n] => requests'[n] = <<>>
                    /\ NoRepeats(requests'[n])
  BY DEF ServiceInv, NoRepeats
<1>1. CASE n \in S
  BY <1>1 DEF ResetVariablesUpdate, Cleared, NoRepeats
<1>2. CASE n \notin S
  BY <1>2 DEF ResetVariablesUpdate, Cleared, NoRepeats, ServiceInv
<1>3. QED
  BY <1>1, <1>2

LEMMA ServiceUp ==
  ASSUME TypeOK, ServiceInv, NEW m \in net, m.dst # NoNode,
         \/ SendToChildBF(m)
         \/ EnqueueChild(m)
         \/ ReceivedFromParentBF(m)
         \/ ProcessReceivedMissing(m)
  PROVE  ServiceInv'
<1> DEFINE n == m.dst
<1>1. n \in Nodes /\ m.src \in Nodes /\ requests[n] \in Seq(Nodes)
  BY DEF TypeOK, Message, Authors
<1>2. /\ idle \in [Nodes -> BOOLEAN] /\ requests \in [Nodes -> Seq(Nodes)]
      /\ NoRepeats(requests[n]) /\ (idle[n] => requests[n] = <<>>)
  BY <1>1 DEF TypeOK, ServiceInv, NoRepeats
<1>3. CASE SendToChildBF(m)
  BY <1>2, <1>3 DEF SendToChildBF, ServiceInv
<1>4. CASE EnqueueChild(m)
  <2>1. CASE AlreadyEnqueued(n, m.src)
    BY <1>4, <2>1, ServiceUnchanged DEF EnqueueChild
  <2>2. CASE ~AlreadyEnqueued(n, m.src)
    <3>1. /\ ~idle[n] /\ idle' = idle
          /\ requests' = [requests EXCEPT ![n] = Append(requests[n], m.src)]
      BY <1>4, <2>2 DEF EnqueueChild
    <3>2. NoRepeats(Append(requests[n], m.src))
      BY <1>1, <1>2, <2>2, AppendNoRepeats DEF AlreadyEnqueued
    <3>3. QED
      BY <1>1, <1>2, <3>1, <3>2 DEF ServiceInv, NoRepeats
  <2>3. QED
    BY <2>1, <2>2
<1>5. CASE ReceivedFromParentBF(m)
  BY <1>5, ServiceUnchanged DEF ReceivedFromParentBF, serviceVars
<1>6. CASE ProcessReceivedMissing(m)
  <2>1. CASE UNCHANGED serviceVars
    BY <2>1, ServiceUnchanged DEF serviceVars
  <2>2. CASE OnChildResponseReceived(n, net \ {m})
    <3>1. CASE requests[n] = <<>>
      BY <1>2, <2>2, <3>1 DEF OnChildResponseReceived, ServiceInv
    <3>2. CASE requests[n] # <<>>
      <4>1. /\ idle' = [idle EXCEPT ![n] = FALSE]
            /\ requests' = [requests EXCEPT ![n] = Tail(requests[n])]
        BY <2>2, <3>2 DEF OnChildResponseReceived
      <4>2. NoRepeats(Tail(requests[n]))
        BY <1>1, <1>2, <3>2, TailNoRepeats
      <4>3. QED
        BY <1>1, <1>2, <4>1, <4>2 DEF ServiceInv, NoRepeats
    <3>3. QED
      BY <3>1, <3>2
  <2>3. QED
    BY <1>6, <2>1, <2>2 DEF ProcessReceivedMissing
<1>7. QED
  BY <1>3, <1>4, <1>5, <1>6

LEMMA ServiceNext == TypeOK /\ ServiceInv /\ [Next]_vars => ServiceInv'
<1> SUFFICES ASSUME TypeOK, ServiceInv, [Next]_vars PROVE ServiceInv'
  OBVIOUS
<1>1. CASE StartTopologyBuilding
  BY <1>1, ServiceReset DEF StartTopologyBuilding
<1>2. ASSUME NEW m \in net, ReceiveHello(m) PROVE ServiceInv'
  BY <1>2, ServiceReset DEF ReceiveHello, ProcessRootHello, ProcessSRHello
<1>3. ASSUME NEW m \in net, m.dst # NoNode, ReceiveUnicast(m) PROVE ServiceInv'
  <2>1. CASE \/ SendBFC2P(m)
             \/ ReceivedFromChildBF(m)
             \/ ProcessReceivedMissingInverse(m)
             \/ ProcessInverseAck(m)
    <3>1. UNCHANGED <<idle, requests>>
      BY <2>1 DEF SendBFC2P, ReceivedFromChildBF, ProcessReceivedMissingInverse,
                  ProcessInverseAck, serviceVars
    <3>2. QED
      BY <3>1, ServiceUnchanged
  <2>2. QED
    BY <1>3, <2>1, ServiceUp DEF ReceiveUnicast
<1>4. ASSUME NEW m \in net, SendFails(m) \/ LoseUnicast(m) PROVE ServiceInv'
  BY <1>4, ServiceUnchanged DEF SendFails, LoseUnicast, serviceVars
<1>5. ASSUME NEW n \in Nodes, Timeout(n) \/ DelayedCall(n) PROVE ServiceInv'
  <2>1. UNCHANGED <<idle, requests>>
    BY <1>5 DEF Timeout, DelayedCall, NoChildrenNew, AskTimeout, InverseTimeout,
                NoChildrenDue, InverseSetRecDue, serviceVars
  <2>2. QED
    BY <2>1, ServiceUnchanged
<1>6. CASE UNCHANGED vars
  BY <1>6, ServiceUnchanged DEF vars, serviceVars
<1>7. QED
  BY <1>1, <1>2, <1>3, <1>4, <1>5, <1>6 DEF Next, RecvPacket

\* SendToChildBF and OnChildResponseReceived never leave a child waiting at an
\* idle parent, nor a child in the queue twice: for every network, whatever is
\* lost, repeated or left over from an earlier round.
THEOREM ServiceCorrect == Spec => []ServiceInv
<1>1. Init => ServiceInv
  BY DEF Init, ServiceInv
<1>2. TypeOK /\ ServiceInv /\ [Next]_vars => ServiceInv'
  BY ServiceNext
<1>3. QED
  BY <1>1, <1>2, TypeCorrect, PTL DEF Spec

-----------------------------------------------------------------------------
(***************************************************************************)
(* The flags of a round.  BlockOncePerReset alone does not carry over: the  *)
(* branch of InverseSetRec that finds no children looks at m_SRCompleted    *)
(* and not at m_alreadyDone, and is harmless because a node that wrote its  *)
(* block in the other branch has children until it is reset.                *)
(***************************************************************************)
FlagInv ==
  \A n \in Nodes : /\ reset[n] <=> ~(alreadyDone[n] \/ srCompleted[n])
                   /\ alreadyDone[n] => bfKids[n] # {}

\* The steps that write no block.
NoBlock == UNCHANGED <<reset, srCompleted, alreadyDone, chain>>

LEMMA FlagKept ==
  ASSUME FlagInv, NoBlock, \A n \in Nodes : bfKids[n] \subseteq bfKids'[n]
  PROVE  FlagInv'
BY DEF FlagInv, NoBlock

LEMMA FlagReset ==
  ASSUME FlagInv, NEW S, ResetVariablesUpdate(S)
  PROVE  FlagInv'
<1> SUFFICES ASSUME NEW n \in Nodes
             PROVE  /\ reset'[n] <=> ~(alreadyDone'[n] \/ srCompleted'[n])
                    /\ alreadyDone'[n] => bfKids'[n] # {}
  BY DEF FlagInv
<1>1. CASE n \in S
  BY <1>1 DEF ResetVariablesUpdate, Cleared
<1>2. CASE n \notin S
  BY <1>2 DEF ResetVariablesUpdate, Cleared, FlagInv
<1>3. QED
  BY <1>1, <1>2

\* InverseSetRec writes at most one block, in a node with m_reset set.
LEMMA FlagInverse ==
  ASSUME TypeOK, FlagInv, UNCHANGED bfKids,
         NEW n \in Nodes, NEW acked, NEW running, NEW known,
         InverseSetRec(n, acked, running, known)
  PROVE  /\ FlagInv'
         /\ \A k \in Nodes : chain'[k] # chain[k] => reset[k] /\ ~reset'[k]
<1>1. CASE NoChildrenToServe(n)
  <2>1. ~alreadyDone[n] /\ ~srCompleted[n]
    BY <1>1 DEF NoChildrenToServe, FlagInv
  <2>2. /\ WriteBlock(n)
        /\ srCompleted' = [srCompleted EXCEPT ![n] = TRUE]
        /\ UNCHANGED alreadyDone
    BY <1>1 DEF InverseSetRec
  <2>3. QED
    BY <2>1, <2>2 DEF WriteBlock, FlagInv, TypeOK
<1>2. CASE ~NoChildrenToServe(n)
  <2>1. UNCHANGED srCompleted
    BY <1>2 DEF InverseSetRec
  <2>2. CASE UNCHANGED <<reset, alreadyDone, chain>>
    BY <2>1, <2>2 DEF FlagInv
  <2>3. CASE /\ ~Terminated(n)
             /\ WriteBlock(n)
             /\ alreadyDone' = [alreadyDone EXCEPT ![n] = TRUE]
    <3>1. ~alreadyDone[n] /\ ~srCompleted[n] /\ bfKids[n] # {}
      BY <1>2, <2>3 DEF Terminated, NoChildrenToServe
    <3>2. reset[n] /\ ~reset'[n] /\ alreadyDone'[n]
      BY <2>3, <3>1 DEF WriteBlock, FlagInv, TypeOK
    <3>3. \A k \in Nodes \ {n} : /\ reset'[k] = reset[k] /\ chain'[k] = chain[k]
                                 /\ alreadyDone'[k] = alreadyDone[k]
      BY <2>3 DEF WriteBlock, TypeOK
    <3>4. srCompleted' = srCompleted /\ bfKids' = bfKids
      BY <2>1
    <3>5. FlagInv'
      <4> SUFFICES ASSUME NEW k \in Nodes
                   PROVE  /\ reset'[k] <=> ~(alreadyDone'[k] \/ srCompleted'[k])
                          /\ alreadyDone'[k] => bfKids'[k] # {}
        BY DEF FlagInv
      <4>1. CASE k = n
        BY <3>1, <3>2, <3>4, <4>1
      <4>2. CASE k # n
        BY <3>3, <3>4, <4>2 DEF FlagInv
      <4>3. QED
        BY <4>1, <4>2
    <3>6. \A k \in Nodes : chain'[k] # chain[k] => reset[k] /\ ~reset'[k]
      BY <3>2, <3>3
    <3>7. QED
      BY <3>5, <3>6
  <2>4. QED
    BY <1>2, <2>2, <2>3 DEF InverseSetRec
<1>3. QED
  BY <1>1, <1>2

LEMMA FlagNoChildren ==
  ASSUME TypeOK, FlagInv, UNCHANGED bfKids, NEW n \in Nodes, NoChildren(n)
  PROVE  /\ FlagInv'
         /\ \A k \in Nodes : chain'[k] # chain[k] => reset[k] /\ ~reset'[k]
<1>1. CASE n = Root
  BY <1>1, FlagInverse, Zenon DEF NoChildren
<1>2. CASE n # Root
  BY <1>2, FlagKept DEF NoChildren, NoBlock, flagVars
<1>3. QED
  BY <1>1, <1>2

LEMMA FlagNext ==
  ASSUME TypeOK, FlagInv, [Next]_vars
  PROVE  /\ FlagInv'
         /\ \A k \in Nodes : chain'[k] # chain[k] => reset[k] /\ ~reset'[k]
<1> DEFINE Once == \A k \in Nodes : chain'[k] # chain[k] => reset[k] /\ ~reset'[k]
<1>1. CASE StartTopologyBuilding
  BY <1>1, FlagReset DEF StartTopologyBuilding
<1>2. ASSUME NEW m \in net, ReceiveHello(m) PROVE FlagInv' /\ Once
  BY <1>2, FlagReset DEF ReceiveHello, ProcessRootHello, ProcessSRHello
<1>3. ASSUME NEW m \in net, m.dst # NoNode, ReceiveUnicast(m) PROVE FlagInv' /\ Once
  <2>1. NoBlock
    BY <1>3 DEF ReceiveUnicast, SendToChildBF, EnqueueChild, ReceivedFromParentBF,
                ProcessReceivedMissing, SendBFC2P, ReceivedFromChildBF,
                ProcessReceivedMissingInverse, ProcessInverseAck, flagVars, NoBlock
  <2>2. \A n \in Nodes : bfKids[n] \subseteq bfKids'[n]
    <3>1. bfKids \in [Nodes -> SUBSET Nodes]
      BY DEF TypeOK
    <3>2. \/ UNCHANGED bfKids
          \/ \E c : bfKids' = [bfKids EXCEPT ![m.dst] = @ \cup {c}]
      BY <1>3 DEF ReceiveUnicast, SendToChildBF, EnqueueChild, ReceivedFromParentBF,
                  ProcessReceivedMissing, OnChildResponseReceived, SendBFC2P,
                  ReceivedFromChildBF, ProcessReceivedMissingInverse,
                  ProcessInverseAck, serviceVars
    <3>3. QED
      BY <3>1, <3>2
  <2>3. QED
    BY <2>1, <2>2, FlagKept DEF NoBlock
<1>4. ASSUME NEW m \in net, SendFails(m) \/ LoseUnicast(m) PROVE FlagInv' /\ Once
  BY <1>4, FlagKept DEF SendFails, LoseUnicast, serviceVars, flagVars, NoBlock
<1>5. ASSUME NEW n \in Nodes, Timeout(n) \/ DelayedCall(n) PROVE FlagInv' /\ Once
  <2>1. CASE NoChildrenNew(n) \/ NoChildrenDue(n)
    BY <2>1, FlagNoChildren DEF NoChildrenNew, NoChildrenDue, serviceVars
  <2>2. CASE AskTimeout(n)
    BY <2>2, FlagKept DEF AskTimeout, serviceVars, flagVars, NoBlock
  <2>3. CASE InverseSetRecDue(n)
    <3>1. UNCHANGED bfKids /\ InverseSetRec(n, done[n], invTimer[n], routes[n])
      BY <2>3 DEF InverseSetRecDue, serviceVars
    <3>2. QED
      BY <3>1, FlagInverse
  <2>4. CASE InverseTimeout(n)
    <3>1. UNCHANGED bfKids /\ InverseSetRec(n, done[n], FALSE, routes[n])
      BY <2>4 DEF InverseTimeout, serviceVars
    <3>2. QED
      BY <3>1, FlagInverse
  <2>5. QED
    BY <1>5, <2>1, <2>2, <2>3, <2>4 DEF Timeout, DelayedCall
<1>6. CASE UNCHANGED vars
  BY <1>6, FlagKept DEF vars, serviceVars, flagVars, NoBlock
<1>7. QED
  BY <1>1, <1>2, <1>3, <1>4, <1>5, <1>6 DEF Next, RecvPacket

\* InverseSetRec is called by delayed calls, by its own timer and, at the root,
\* by NoChildren: between two resets of a node all of them together write one
\* block, since m_reset is set when a block is written and clear afterwards.
THEOREM OneBlockBetweenResets == Spec => BlockOncePerReset
<1>1. Init => FlagInv
  BY DEF Init, FlagInv
<1>2. TypeOK /\ FlagInv /\ [Next]_vars => FlagInv'
  BY FlagNext
<1>3. TypeOK /\ FlagInv /\ [Next]_vars
        => [\A n \in Nodes : chain'[n] # chain[n] => reset[n] /\ ~reset'[n]]_vars
  BY FlagNext
<1>4. QED
  BY <1>1, <1>2, <1>3, TypeCorrect, PTL DEF Spec, BlockOncePerReset

-----------------------------------------------------------------------------
(***************************************************************************)
(* What a node learned.                                                    *)
(***************************************************************************)
Keeps(n) == ~(tuples[n] \subseteq tuples'[n]) => ~reset[n] /\ reset'[n]

LEMMA KeptUnchanged ==
  ASSUME UNCHANGED tuples, NEW n \in Nodes
  PROVE  Keeps(n)
BY DEF Keeps

\* A hello clears the tables of those of its receivers that ended their round.
LEMMA KeptByHello ==
  ASSUME TypeOK, NEW R, NEW o, NEW author,
         ResetVariablesUpdate(Resetting(R)), StoreHello(Resetting(R), R, o, author),
         NEW n \in Nodes
  PROVE  Keeps(n)
<1>1. CASE n \in Resetting(R)
  <2>1. ~reset[n]
    BY <1>1 DEF Resetting
  <2>2. reset'[n]
    BY <1>1 DEF ResetVariablesUpdate, Cleared
  <2>3. QED
    BY <2>1, <2>2 DEF Keeps
<1>2. CASE n \notin Resetting(R)
  BY <1>2 DEF StoreHello, Cleared, Keeps
<1>3. QED
  BY <1>1, <1>2

LEMMA KeptNext ==
  ASSUME TypeOK, [Next]_vars, NEW n \in Nodes
  PROVE  Keeps(n)
<1>1. CASE StartTopologyBuilding
  <2>1. CASE n \in Resetting({Root})
    <3>1. ~reset[n]
      BY <2>1 DEF Resetting
    <3>2. reset'[n]
      BY <1>1, <2>1 DEF StartTopologyBuilding, ResetVariablesUpdate, Cleared
    <3>3. QED
      BY <3>1, <3>2 DEF Keeps
  <2>2. CASE n \notin Resetting({Root})
    BY <1>1, <2>2 DEF StartTopologyBuilding, Cleared, Keeps
  <2>3. QED
    BY <2>1, <2>2
<1>2. ASSUME NEW m \in net, ReceiveHello(m) PROVE Keeps(n)
  <2>1. ASSUME NEW R, ProcessRootHello(m, R) PROVE Keeps(n)
    BY <2>1, KeptByHello DEF ProcessRootHello
  <2>2. ASSUME NEW R, ProcessSRHello(m, R) PROVE Keeps(n)
    BY <2>2, KeptByHello DEF ProcessSRHello
  <2>3. QED
    BY <1>2, <2>1, <2>2 DEF ReceiveHello
<1>3. ASSUME NEW m \in net, m.dst # NoNode, ReceiveUnicast(m) PROVE Keeps(n)
  <2>1. tuples \in [Nodes -> SUBSET Edges]
    BY DEF TypeOK
  <2>2. \/ UNCHANGED tuples
        \/ tuples' = [tuples EXCEPT ![m.dst] = @ \cup m.links]
    BY <1>3 DEF ReceiveUnicast, SendToChildBF, EnqueueChild, ReceivedFromParentBF,
                ProcessReceivedMissing, SendBFC2P, ReceivedFromChildBF,
                ProcessReceivedMissingInverse, ProcessInverseAck, tableVars
  <2>3. QED
    BY <2>1, <2>2 DEF Keeps
<1>4. ASSUME NEW m \in net, SendFails(m) \/ LoseUnicast(m) PROVE Keeps(n)
  BY <1>4, KeptUnchanged DEF SendFails, LoseUnicast, tableVars
<1>5. ASSUME NEW k \in Nodes, Timeout(k) \/ DelayedCall(k) PROVE Keeps(n)
  <2>1. UNCHANGED tuples
    BY <1>5 DEF Timeout, DelayedCall, NoChildrenNew, AskTimeout, InverseTimeout,
                NoChildrenDue, InverseSetRecDue, tableVars
  <2>2. QED
    BY <2>1, KeptUnchanged
<1>6. CASE UNCHANGED vars
  BY <1>6, KeptUnchanged DEF vars, tableVars
<1>7. QED
  BY <1>1, <1>2, <1>3, <1>4, <1>5, <1>6 DEF Next, RecvPacket

\* A hello that reaches a node in the middle of its round adds to its table: only
\* a node that wrote its block (m_reset clear) starts again from an empty one.
THEOREM TuplesKept == Spec => KeepsTuples
<1>1. TypeOK /\ [Next]_vars
        => [\A n \in Nodes : ~(tuples[n] \subseteq tuples'[n])
                               => ~reset[n] /\ reset'[n]]_vars
  BY KeptNext DEF Keeps
<1>2. QED
  BY <1>1, TypeCorrect, PTL DEF Spec, KeepsTuples

=============================================================================
