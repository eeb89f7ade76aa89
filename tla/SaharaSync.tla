----------------------------- MODULE SaharaSync -----------------------------
(***************************************************************************)
(* SAHARA Sync, the set reconciliation of saharaRouting.cc.  A round has    *)
(* three phases:                                                           *)
(*                                                                         *)
(*  hello   the root broadcasts ROOT_SR_HELLO; a node that hears a hello    *)
(*          and has no parent adopts its sender and broadcasts SR_HELLO,    *)
(*          which names that parent.  Every hello a node hears is a link    *)
(*          (a "tuple") of its table.                                      *)
(*  up      a node that heard no child in its time slot asks its parent     *)
(*          for a Bloom filter (ASK_BF, SEND_BF) and returns the tuples     *)
(*          and votes the parent lacks (SEND_MISSING_C2P).  A parent serves *)
(*          one child at a time, queues the others, and turns to its own    *)
(*          parent when every child has reported.                          *)
(*  down    the root, then every node that received the missing tuples of   *)
(*          its parent, asks each child for a filter (ASK_BF_P2C,           *)
(*          SEND_BF_C2P), sends what it lacks (SEND_MISSING_P2C) and waits   *)
(*          for its acknowledgement.  Then it writes a block.              *)
(*                                                                         *)
(* Abstractions: a tuple is the link it describes, a vote packet is its     *)
(* author, a Bloom filter is the set of tuples it was built from, a delayed *)
(* send is a message in flight from the moment it is scheduled.  Identical  *)
(* messages in flight at the same time are one element of net.  All         *)
(* addresses are allowed (GlobalData::IpAllowed), and the reconciliation    *)
(* is the dynamic one (m_sr_dynamic_ON, the default).                       *)
(***************************************************************************)
EXTENDS Integers, Sequences, FiniteSets

CONSTANTS
  Nodes,          \* the nodes of the network
  Root,           \* the node whose m_intNodeID is 12
  NoNode,         \* Ipv4Address("0.0.0.0"), and the evaluator of a default VotePacket
  Edges,          \* the pairs of nodes within radio range of each other
  MaxRounds,      \* bound: rounds of set reconciliation that are started
  MaxLoss,        \* bound: receptions that fail
  MaxDue,         \* bound: pending runs of one delayed call of a node
  MaxEarly,       \* bound: timers that expire before the exchange they wait for ends
  FalsePositives  \* a Bloom filter may report a tuple it does not hold

ASSUME NodesAssumption == IsFiniteSet(Nodes) /\ Root \in Nodes /\ NoNode \notin Nodes
ASSUME EdgesAssumption ==
  Edges \subseteq {e \in SUBSET Nodes : \E a, b \in Nodes : a # b /\ e = {a, b}}
ASSUME BoundsAssumption ==
  /\ MaxRounds \in Nat
  /\ MaxLoss \in Nat
  /\ MaxEarly \in Nat
  /\ MaxDue \in Nat \ {0}
ASSUME FilterAssumption == FalsePositives \in BOOLEAN

VARIABLES
  parent,        \* m_parentIP
  kids,          \* the keys of m_listSetRecDone
  done,          \* the keys of m_listSetRecDone that are mapped to true
  bfKids,        \* the keys of m_listBFChildren
  idle,          \* m_previousChildProcessed
  requests,      \* m_childRequestQueue, as the origins of the requests
  reset,         \* m_reset
  srCompleted,   \* m_SRCompleted
  alreadyDone,   \* m_alreadyDone
  tuples,        \* RoutingTable::m_tuples
  votes,         \* RoutingTable::m_globalVotes, as pairs <<key, author of the packet>>
  routes,        \* the keys of RoutingTable::m_shortestPaths
  srTimer,       \* m_auditTimeoutAckSRNEW is running
  askTimer,      \* m_ackTimeoutAskToParentBF is running
  invTimer,      \* m_auditTimeoutAckInverseSR is running
  upDue,         \* delayed calls of NoChildren (ProcessReceivedMissing)
  downDue,       \* delayed calls of InverseSetRec (ProcessReceivedMissingInverse)
  chain,         \* the blocks the node has written
  net,           \* the messages in flight
  round,         \* the number of rounds the root has started
  losses,        \* the number of receptions that failed
  early          \* the number of timers that expired early

treeVars == <<parent, kids, done>>
serviceVars == <<bfKids, idle, requests>>
flagVars == <<reset, srCompleted, alreadyDone>>
tableVars == <<tuples, votes>>
timerVars == <<srTimer, askTimer, invTimer>>
dueVars == <<upDue, downDue>>
vars == <<treeVars, serviceVars, flagVars, tableVars, routes, timerVars, dueVars,
          chain, net, round, losses, early>>

HelloTypes == {"ROOT_SR_HELLO", "SR_HELLO"}
UpTypes == {"ASK_BF", "SEND_BF", "SEND_MISSING_C2P"}
DownTypes == {"ASK_BF_P2C", "SEND_BF_C2P", "SEND_MISSING_P2C", "SEND_MISSING_P2C_ACK"}
Authors == Nodes \cup {NoNode}

\* The SaharaHeader of a message.  Of a hello, dst is the parent it names and
\* votes holds the author of its vote packet; of a filter, links are the tuples
\* it was built from and votes the evaluators its sender knows (ListVotesIP).
Message == [type  : HelloTypes \cup UpTypes \cup DownTypes,
            src   : Nodes,
            dst   : Authors,
            links : SUBSET Edges,
            votes : SUBSET Authors]

Block == [round : Nat, links : SUBSET Edges, votes : SUBSET Authors]

TypeOK ==
  /\ parent \in [Nodes -> Authors]
  /\ kids \in [Nodes -> SUBSET Nodes]
  /\ done \in [Nodes -> SUBSET Nodes] /\ \A n \in Nodes : done[n] \subseteq kids[n]
  /\ bfKids \in [Nodes -> SUBSET Nodes]
  /\ idle \in [Nodes -> BOOLEAN]
  /\ requests \in [Nodes -> Seq(Nodes)]
  /\ reset \in [Nodes -> BOOLEAN]
  /\ srCompleted \in [Nodes -> BOOLEAN]
  /\ alreadyDone \in [Nodes -> BOOLEAN]
  /\ tuples \in [Nodes -> SUBSET Edges]
  /\ votes \in [Nodes -> SUBSET (Authors \X Authors)]
  /\ routes \in [Nodes -> SUBSET Nodes]
  /\ srTimer \in [Nodes -> BOOLEAN]
  /\ askTimer \in [Nodes -> BOOLEAN]
  /\ invTimer \in [Nodes -> BOOLEAN]
  /\ upDue \in [Nodes -> Nat]
  /\ downDue \in [Nodes -> Nat]
  /\ chain \in [Nodes -> Seq(Block)]
  /\ net \in SUBSET Message
  /\ round \in Nat
  /\ losses \in Nat
  /\ early \in Nat

Init ==
  /\ parent = [n \in Nodes |-> NoNode]
  /\ kids = [n \in Nodes |-> {}]
  /\ done = [n \in Nodes |-> {}]
  /\ bfKids = [n \in Nodes |-> {}]
  /\ idle = [n \in Nodes |-> TRUE]
  /\ requests = [n \in Nodes |-> <<>>]
  /\ reset = [n \in Nodes |-> TRUE]
  /\ srCompleted = [n \in Nodes |-> FALSE]
  /\ alreadyDone = [n \in Nodes |-> FALSE]
  /\ tuples = [n \in Nodes |-> {}]
  /\ votes = [n \in Nodes |-> {}]
  /\ routes = [n \in Nodes |-> {}]
  /\ srTimer = [n \in Nodes |-> FALSE]
  /\ askTimer = [n \in Nodes |-> FALSE]
  /\ invTimer = [n \in Nodes |-> FALSE]
  /\ upDue = [n \in Nodes |-> 0]
  /\ downDue = [n \in Nodes |-> 0]
  /\ chain = [n \in Nodes |-> <<>>]
  /\ net = {}
  /\ round = 0
  /\ losses = 0
  /\ early = 0

-----------------------------------------------------------------------------
(***************************************************************************)
(* Messages and tables.                                                    *)
(***************************************************************************)
Neighbours(n) == {m \in Nodes : {n, m} \in Edges}

Msg(t, s, d, l, v) == [type |-> t, src |-> s, dst |-> d, links |-> l, votes |-> v]

\* The evaluators a node holds a vote packet of (GetListVotesIP).
Keys(vs) == {v[1] : v \in vs}

\* The authors of the vote packets in m_globalVotes.
Packets(vs) == {v[2] : v \in vs}

\* m_globalVotes[k] = the packet of a.
StoreVote(vs, k, a) == {v \in vs : v[1] # k} \cup {<<k, a>>}

\* Fault: the received packets are not stored.
StoreVotesForgets(vs, as) == vs

\* AddReceivedMissingVotePackets: every packet under the key of its author.
StoreVotes(vs, as) == {v \in vs : v[1] \notin as} \cup {<<a, a>> : a \in as}

\* Fault: only the packets of the authors the other side lists are sent.
MissingVotesKnown(vs, ks) == Packets({v \in vs : v[1] \in ks})

\* GetMissingVotePackets: the packets kept under keys the other side does not list.
MissingVotes(vs, ks) == Packets({v \in vs : v[1] \notin ks})

\* Fault: the difference is taken the wrong way round.
MissingTuplesSwapped(known, filter) == {filter \ known}

\* ProcessSetReconciliationDynamic: the tuples the filter does not report.  A
\* false positive hides a tuple the other side lacks.
MissingTuples(known, filter) ==
  IF FalsePositives THEN SUBSET (known \ filter) ELSE {known \ filter}

\* m_listSetRecDone[c] = true, which enters c when its hello was not heard.
MarkDone(n, c) ==
  /\ kids' = [kids EXCEPT ![n] = @ \cup {c}]
  /\ done' = [done EXCEPT ![n] = @ \cup {c}]

\* The nodes RunDijkstra finds a path to from n over the tuples in links: a link
\* leads out of every set that holds n and not the node.
RunDijkstra(n, links) ==
  {x \in Nodes \ {n} :
     \A S \in SUBSET (Nodes \ {x}) :
       n \in S => \E e \in links : e \cap S # {} /\ ~(e \subseteq S)}

\* The messages of msgs that leave a node with routes to the nodes in known.  One
\* without a route is handed back to the node itself (RouteOutput), with source
\* 0.0.0.0, which RouteInput drops.
Routed(msgs, known) == {m \in msgs : m.dst \in known \cup {NoNode}}

\* A variable of the nodes after the nodes in S have cleared it.
Cleared(S, f, empty) == [n \in Nodes |-> IF n \in S THEN empty ELSE f[n]]

-----------------------------------------------------------------------------
(***************************************************************************)
(* Time.  The hello of the root leaves after 10 ms, another 2 ms times the   *)
(* node id, at most 510 ms, after the hello it answers; a slot is 800 ms or  *)
(* more.  So the slot of a node ends after the hellos that answer the node   *)
(* or one of its ancestors, not after those of the rest of the network.    *)
(* The delays of the other exchanges add up with the ids and the number of *)
(* children: the timers that repeat them, and the 15 s of a round, expire  *)
(* when the exchange they wait for is over, except that MaxEarly expire     *)
(* before, or in the hello phase of the next round.                        *)
(***************************************************************************)
\* n, its parent, the parent of that ... up to the root.
Ancestors(n) ==
  LET up[k \in Nat] == IF k = 0 THEN {n}
                       ELSE up[k - 1] \cup {parent[x] : x \in up[k - 1] \cap Nodes}
  IN  up[Cardinality(Nodes)]

SlotOver(n) ==
  \A m \in net : m.type \in HelloTypes => m.src # n /\ m.dst \notin Ancestors(n)

\* A timer that expires when the hello phase and the exchange it waits for are
\* over, or an early one.  None is taken to expire in the 10 ms before the hello
\* of the root is heard: no exchange ends in them.
Expires(over) ==
  LET hellos == {m \in net : m.type \in HelloTypes} IN
  /\ \A m \in hellos : m.type # "ROOT_SR_HELLO"
  /\ (over /\ hellos = {}) \/ early < MaxEarly
  /\ early' = IF over /\ hellos = {} THEN early ELSE early + 1

\* Nothing is in flight or scheduled except retries.
Quiet ==
  /\ net = {}
  /\ \A n \in Nodes : ~srTimer[n] /\ upDue[n] = 0 /\ downDue[n] = 0

Queued(n) == \E p \in Nodes : \E i \in DOMAIN requests[p] : requests[p][i] = n

\* No request of n to its parent is still to be answered, or it never will be.
AskOver(n) ==
  \/ Quiet
  \/ /\ \A m \in net : /\ m.type = "ASK_BF" => m.src # n
                       /\ m.type = "SEND_BF" => m.dst # n
     /\ ~Queued(n)

\* No exchange of n with a child, on the way down, is still under way.
DownOver(n) ==
  \A m \in net : /\ m.type \in {"ASK_BF_P2C", "SEND_MISSING_P2C"} => m.src # n
                 /\ m.type \in {"SEND_BF_C2P", "SEND_MISSING_P2C_ACK"} => m.dst # n

\* The retries that still run change nothing: the request of the node waits in
\* the queue of its parent, or it waits for children it does not ask.
RoundOver ==
  \A n \in Nodes : /\ askTimer[n] => Queued(n)
                   /\ invTimer[n] => /\ bfKids[n] \subseteq done[n]
                                     /\ done[n] # kids[n]

-----------------------------------------------------------------------------
(***************************************************************************)
(* The hello phase.  A broadcast is heard by its receivers at one moment;  *)
(* each of them may miss it.                                               *)
(***************************************************************************)
\* The part of ResetVariablesUpdate that no handler touches afterwards, for
\* the nodes in S.  Timers and delayed calls are left alone.
ResetVariablesUpdate(S) ==
  /\ reset' = Cleared(S, reset, TRUE)
  /\ bfKids' = Cleared(S, bfKids, {})
  /\ idle' = Cleared(S, idle, TRUE)
  /\ requests' = Cleared(S, requests, <<>>)
  /\ srCompleted' = Cleared(S, srCompleted, FALSE)
  /\ alreadyDone' = Cleared(S, alreadyDone, FALSE)
  /\ routes' = Cleared(S, routes, {})

\* Fault: every hello resets its receivers.
ResettingAlways(S) == S

\* A node that wrote its block resets at the next message of a hello phase;
\* one that did not still has m_reset set, and keeps what it has.
Resetting(S) == {n \in S : ~reset[n]}

StartTopologyBuilding ==
  LET S == Resetting({Root}) IN
  /\ round < MaxRounds
  /\ Quiet
  /\ Expires(RoundOver)
  /\ ResetVariablesUpdate(S)
  /\ parent' = [parent EXCEPT ![Root] = Root]
  /\ kids' = Cleared(S, kids, {})
  /\ done' = Cleared(S, done, {})
  /\ tuples' = Cleared(S, tuples, {})
  /\ votes' = Cleared(S, votes, {})
  /\ net' = net \cup {Msg("ROOT_SR_HELLO", Root, NoNode, {}, {Root})}
  /\ round' = round + 1
  /\ UNCHANGED <<timerVars, dueVars, chain, losses>>

\* The receivers that hear a broadcast of m; the others cost a loss each.
Hear(m, R) ==
  /\ R \subseteq Neighbours(m.src)
  /\ losses' = losses + Cardinality(Neighbours(m.src) \ R)
  /\ losses' <= MaxLoss

\* Fault: the tuple is made with the address in the vote packet of the hello.
StoreHelloAuthor(S, R, o, author) ==
  /\ tuples' = [n \in Nodes |-> IF n \in R
                                THEN Cleared(S, tuples, {})[n] \cup {{n, author}}
                                ELSE tuples[n]]
  /\ votes' = [n \in Nodes |-> IF n \in R
                               THEN StoreVote(Cleared(S, votes, {})[n], o, author)
                               ELSE votes[n]]

\* What a receiver of a hello of o stores about its sender.
StoreHello(S, R, o, author) ==
  /\ tuples' = [n \in Nodes |-> IF n \in R
                                THEN Cleared(S, tuples, {})[n] \cup {{n, o}}
                                ELSE tuples[n]]
  /\ votes' = [n \in Nodes |-> IF n \in R
                               THEN StoreVote(Cleared(S, votes, {})[n], o, author)
                               ELSE votes[n]]

\* The answer of a child of the root carries a default VotePacket.
ProcessRootHello(m, R) ==
  LET S == Resetting(R) IN
  /\ m.type = "ROOT_SR_HELLO"
  /\ Hear(m, R)
  /\ ResetVariablesUpdate(S)
  /\ parent' = [n \in Nodes |-> IF n \in R THEN m.src ELSE parent[n]]
  /\ kids' = Cleared(S, kids, {})
  /\ done' = Cleared(S, done, {})
  /\ StoreHello(S, R, m.src, m.src)
  /\ srTimer' = [n \in Nodes |-> n \in R \/ srTimer[n]]
  /\ net' = (net \ {m}) \cup {Msg("SR_HELLO", n, m.src, {}, {NoNode}) : n \in R}
  /\ UNCHANGED <<askTimer, invTimer, dueVars, chain, round, early>>

\* Fault: a node adopts the sender of every hello.
AdoptersAlways(m, R) == R \ {m.dst}

\* The receivers of the hello of m that it names as its parent, and those that
\* have no parent yet, once they are reset.
NamedParent(m, R) == R \cap {m.dst}
Adopters(m, R) ==
  {n \in R \ {m.dst} : Cleared(Resetting(R), parent, NoNode)[n] = NoNode}

ProcessSRHello(m, R) ==
  LET S == Resetting(R)
      P == NamedParent(m, R)
      A == Adopters(m, R) IN
  /\ m.type = "SR_HELLO"
  /\ Hear(m, R)
  /\ ResetVariablesUpdate(S)
  /\ parent' = [n \in Nodes |-> IF n \in A THEN m.src
                                ELSE Cleared(S, parent, NoNode)[n]]
  /\ kids' = [n \in Nodes |-> Cleared(S, kids, {})[n] \cup
                                (IF n \in P THEN {m.src} ELSE {})]
  /\ done' = [n \in Nodes |-> Cleared(S, done, {})[n] \
                                (IF n \in P THEN {m.src} ELSE {})]
  /\ \E author \in m.votes : StoreHello(S, R, m.src, author)
  /\ srTimer' = [n \in Nodes |-> (srTimer[n] \/ n \in A) /\ n \notin P]
  /\ net' = (net \ {m}) \cup {Msg("SR_HELLO", n, m.src, {}, {n}) : n \in A}
  /\ UNCHANGED <<askTimer, invTimer, dueVars, chain, round, early>>

-----------------------------------------------------------------------------
(***************************************************************************)
(* The way down: InverseSetRec.                                            *)
(***************************************************************************)
\* GenerateRepMap ... LoadLastBlock: the block holds the table of the node, and
\* the next hello resets the node.
WriteBlock(n) ==
  /\ chain' = [chain EXCEPT ![n] = Append(@,
       [round |-> round, links |-> tuples[n], votes |-> Packets(votes[n]) \ {NoNode}])]
  /\ reset' = [reset EXCEPT ![n] = FALSE]
  /\ routes' = [routes EXCEPT ![n] = RunDijkstra(n, tuples[n])]

\* Whether InverseSetRec goes on waiting: it returns when it finds a child to
\* wait for and starts the timer, not when the timer is running.
KeepsWaiting(children, acked, running) == children # acked /\ ~running

\* The children InverseSetRec asks (again) for their filter.
ToAsk(n, acked) == bfKids[n] \ acked

\* Fault: a block that was written while there were children is not noticed.
TerminatedForgets(n) == srCompleted[n]

\* The node has written the block of this round.
Terminated(n) == alreadyDone[n] \/ srCompleted[n]

NoChildrenToServe(n) == bfKids[n] = {} /\ ~srCompleted[n]

\* InverseSetRec of n when acked is mapped to true in m_listSetRecDone, running
\* says whether the timer of the acknowledgements runs, and n has routes to the
\* nodes in known.
InverseSetRec(n, acked, running, known) ==
  \/ /\ NoChildrenToServe(n)
     /\ WriteBlock(n)
     /\ srCompleted' = [srCompleted EXCEPT ![n] = TRUE]
     /\ done' = [done EXCEPT ![n] = acked]
     /\ invTimer' = [invTimer EXCEPT ![n] = running]
     /\ UNCHANGED <<kids, alreadyDone, net>>
  \/ LET children == kids[n] \cup bfKids[n] IN
     /\ ~NoChildrenToServe(n)
     /\ kids' = [kids EXCEPT ![n] = children]
     /\ done' = [done EXCEPT ![n] = acked]
     /\ invTimer' = [invTimer EXCEPT ![n] = running \/ children # acked]
     /\ IF KeepsWaiting(children, acked, running) \/ Terminated(n)
        THEN /\ routes' = [routes EXCEPT ![n] = known]
             /\ UNCHANGED <<reset, alreadyDone, chain>>
        ELSE WriteBlock(n) /\ alreadyDone' = [alreadyDone EXCEPT ![n] = TRUE]
     /\ net' = net \cup Routed({Msg("ASK_BF_P2C", n, c, {}, {}) : c \in ToAsk(n, acked)},
                               routes'[n])
     /\ UNCHANGED srCompleted

\* The delayed call of InverseSetRec, and the timer that repeats it.
InverseSetRecDue(n) ==
  /\ downDue[n] > 0
  /\ downDue' = [downDue EXCEPT ![n] = @ - 1]
  /\ InverseSetRec(n, done[n], invTimer[n], routes[n])
  /\ UNCHANGED <<parent, serviceVars, tableVars, srTimer, askTimer, upDue, round, losses, early>>

InverseTimeout(n) ==
  /\ invTimer[n]
  /\ Expires(DownOver(n))
  /\ InverseSetRec(n, done[n], FALSE, routes[n])
  /\ UNCHANGED <<parent, serviceVars, tableVars, srTimer, askTimer, dueVars, round, losses>>

SendBFC2P(m) ==
  LET n == m.dst IN
  /\ m.type = "ASK_BF_P2C"
  /\ net' = (net \ {m}) \cup
       Routed({Msg("SEND_BF_C2P", n, m.src, tuples[n], Keys(votes[n]))}, routes[n])
  /\ UNCHANGED <<treeVars, serviceVars, flagVars, tableVars, routes, timerVars, dueVars,
                 chain, round, losses, early>>

ReceivedFromChildBF(m) ==
  LET n == m.dst IN
  /\ m.type = "SEND_BF_C2P"
  /\ bfKids' = [bfKids EXCEPT ![n] = @ \cup {m.src}]
  /\ \E missing \in MissingTuples(tuples[n], m.links) :
       net' = (net \ {m}) \cup
         Routed({Msg("SEND_MISSING_P2C", n, m.src, missing, MissingVotes(votes[n], m.votes))},
                routes[n])
  /\ UNCHANGED <<treeVars, idle, requests, flagVars, tableVars, routes, timerVars, dueVars,
                 chain, round, losses, early>>

\* The acknowledgement goes to the parent the node has now.
ProcessReceivedMissingInverse(m) ==
  LET n == m.dst IN
  /\ m.type = "SEND_MISSING_P2C"
  /\ downDue[n] < MaxDue
  /\ tuples' = [tuples EXCEPT ![n] = @ \cup m.links]
  /\ votes' = [votes EXCEPT ![n] = StoreVotes(@, m.votes)]
  /\ done' = [done EXCEPT ![n] = {}]
  /\ downDue' = [downDue EXCEPT ![n] = @ + 1]
  /\ net' = (net \ {m}) \cup
       Routed({Msg("SEND_MISSING_P2C_ACK", n, parent[n], {}, {})}, routes[n])
  /\ UNCHANGED <<parent, kids, serviceVars, flagVars, routes, timerVars, upDue,
                 chain, round, losses, early>>

ProcessInverseAck(m) ==
  LET n == m.dst IN
  /\ m.type = "SEND_MISSING_P2C_ACK"
  /\ MarkDone(n, m.src)
  /\ net' = net \ {m}
  /\ UNCHANGED <<parent, serviceVars, flagVars, tableVars, routes, timerVars, dueVars,
                 chain, round, losses, early>>

-----------------------------------------------------------------------------
(***************************************************************************)
(* The way up.                                                             *)
(***************************************************************************)
AskToParentBF(n) ==
  /\ net' = net \cup Routed({Msg("ASK_BF", n, parent[n], {}, {})}, routes'[n])
  /\ askTimer' = [askTimer EXCEPT ![n] = TRUE]

\* NoChildren: the root turns the reconciliation round, another node reports to
\* its parent.
NoChildren(n) ==
  \/ /\ n = Root
     /\ InverseSetRec(n, {}, invTimer[n], RunDijkstra(n, tuples[n]))
     /\ UNCHANGED askTimer
  \/ /\ n # Root
     /\ routes' = [routes EXCEPT ![n] = RunDijkstra(n, tuples[n])]
     /\ AskToParentBF(n)
     /\ UNCHANGED <<kids, done, flagVars, invTimer, chain>>

\* NoChildrenNew: no child answered the hello within the slot.
NoChildrenNew(n) ==
  /\ srTimer[n]
  /\ SlotOver(n)
  /\ srTimer' = [srTimer EXCEPT ![n] = FALSE]
  /\ NoChildren(n)
  /\ UNCHANGED <<parent, serviceVars, tableVars, dueVars, round, losses, early>>

\* The call of NoChildren that ProcessReceivedMissing delays.
NoChildrenDue(n) ==
  /\ upDue[n] > 0
  /\ upDue' = [upDue EXCEPT ![n] = @ - 1]
  /\ NoChildren(n)
  /\ UNCHANGED <<parent, serviceVars, tableVars, srTimer, downDue, round, losses, early>>

AskTimeout(n) ==
  /\ askTimer[n]
  /\ Expires(AskOver(n))
  /\ UNCHANGED routes
  /\ AskToParentBF(n)
  /\ UNCHANGED <<treeVars, serviceVars, flagVars, tableVars, srTimer, invTimer, dueVars,
                 chain, round, losses>>

\* SEND_BF of n to c: the filter of n and the evaluators it knows.
SendBF(n, c, links, vs) ==
  Routed({Msg("SEND_BF", n, c, links, Keys(vs))}, RunDijkstra(n, links))

\* Fault: a request is queued again.
AlreadyEnqueuedNever(n, c) == FALSE

AlreadyEnqueued(n, c) == \E i \in DOMAIN requests[n] : requests[n][i] = c

\* Fault: a busy parent serves as well.
SendToChildBFBusy(m) ==
  LET n == m.dst IN
  /\ m.type = "ASK_BF"
  /\ idle' = [idle EXCEPT ![n] = FALSE]
  /\ bfKids' = [bfKids EXCEPT ![n] = @ \cup {m.src}]
  /\ routes' = [routes EXCEPT ![n] = RunDijkstra(n, tuples[n])]
  /\ net' = (net \ {m}) \cup SendBF(n, m.src, tuples[n], votes[n])
  /\ UNCHANGED <<treeVars, requests, flagVars, tableVars, timerVars, dueVars,
                 chain, round, losses, early>>

\* SendToChildBF: an idle parent serves the child that asks.
SendToChildBF(m) ==
  LET n == m.dst IN
  /\ m.type = "ASK_BF"
  /\ idle[n]
  /\ idle' = [idle EXCEPT ![n] = FALSE]
  /\ bfKids' = [bfKids EXCEPT ![n] = @ \cup {m.src}]
  /\ routes' = [routes EXCEPT ![n] = RunDijkstra(n, tuples[n])]
  /\ net' = (net \ {m}) \cup SendBF(n, m.src, tuples[n], votes[n])
  /\ UNCHANGED <<treeVars, requests, flagVars, tableVars, timerVars, dueVars,
                 chain, round, losses, early>>

\* SendToChildBF: a busy parent queues the request, once.
EnqueueChild(m) ==
  LET n == m.dst IN
  /\ m.type = "ASK_BF"
  /\ ~idle[n]
  /\ requests' = IF AlreadyEnqueued(n, m.src) THEN requests
                 ELSE [requests EXCEPT ![n] = Append(@, m.src)]
  /\ net' = net \ {m}
  /\ UNCHANGED <<treeVars, bfKids, idle, flagVars, tableVars, routes, timerVars, dueVars,
                 chain, round, losses, early>>

\* The missing tuples go to the parent the node has now.
ReceivedFromParentBF(m) ==
  LET n == m.dst IN
  /\ m.type = "SEND_BF"
  /\ askTimer' = [askTimer EXCEPT ![n] = FALSE]
  /\ \E missing \in MissingTuples(tuples[n], m.links) :
       net' = (net \ {m}) \cup
         Routed({Msg("SEND_MISSING_C2P", n, parent[n], missing,
                     MissingVotes(votes[n], m.votes))}, routes[n])
  /\ UNCHANGED <<treeVars, serviceVars, flagVars, tableVars, routes, srTimer, invTimer, dueVars,
                 chain, round, losses, early>>

\* Fault: the queue is not looked at.
OnChildResponseReceivedIdles(n, msgs) ==
  /\ idle' = [idle EXCEPT ![n] = TRUE]
  /\ net' = msgs
  /\ UNCHANGED <<bfKids, requests, routes>>

\* OnChildResponseReceived: the next queued child is served, with the tables
\* the report of this one has just extended.
OnChildResponseReceived(n, msgs) ==
  IF requests[n] = <<>>
  THEN /\ idle' = [idle EXCEPT ![n] = TRUE]
       /\ net' = msgs
       /\ UNCHANGED <<bfKids, requests, routes>>
  ELSE LET next == Head(requests[n]) IN
       /\ idle' = [idle EXCEPT ![n] = FALSE]
       /\ requests' = [requests EXCEPT ![n] = Tail(@)]
       /\ bfKids' = [bfKids EXCEPT ![n] = @ \cup {next}]
       /\ routes' = [routes EXCEPT ![n] = RunDijkstra(n, tuples'[n])]
       /\ net' = msgs \cup SendBF(n, next, tuples'[n], votes'[n])

\* Faults: one report is enough, no report is.
AllReportedAlways(children, reported) == TRUE
AllReportedNever(children, reported) == FALSE

\* Whether every child of the list has reported.
AllReported(children, reported) == children = reported

\* ProcessReceivedMissing: with the last report the node turns to its own
\* parent, and leaves m_previousChildProcessed and the queue as they are.
ProcessReceivedMissing(m) ==
  LET n == m.dst IN
  /\ m.type = "SEND_MISSING_C2P"
  /\ upDue[n] < MaxDue
  /\ tuples' = [tuples EXCEPT ![n] = @ \cup m.links]
  /\ votes' = [votes EXCEPT ![n] = StoreVotes(@, m.votes)]
  /\ MarkDone(n, m.src)
  /\ \/ /\ ~AllReported(kids'[n], done'[n])
        /\ OnChildResponseReceived(n, net \ {m})
        /\ UNCHANGED upDue
     \/ /\ AllReported(kids'[n], done'[n])
        /\ upDue' = [upDue EXCEPT ![n] = @ + 1]
        /\ net' = net \ {m}
        /\ UNCHANGED <<serviceVars, routes>>
  /\ UNCHANGED <<parent, flagVars, timerVars, downDue, chain, round, losses, early>>

-----------------------------------------------------------------------------
(***************************************************************************)
(* Failures of a unicast message.                                          *)
(***************************************************************************)
Unicast(m) == m.type \notin HelloTypes

\* SendPacketToDest to a parent that is not set: RouteOutput has no route to
\* 0.0.0.0, and the timer of the acknowledgements is cancelled.
SendFails(m) ==
  /\ Unicast(m) /\ m.dst = NoNode
  /\ net' = net \ {m}
  /\ invTimer' = [invTimer EXCEPT ![m.src] = FALSE]
  /\ UNCHANGED <<treeVars, serviceVars, flagVars, tableVars, routes, srTimer, askTimer, dueVars,
                 chain, round, losses, early>>

LoseUnicast(m) ==
  /\ Unicast(m) /\ m.dst # NoNode
  /\ losses < MaxLoss
  /\ losses' = losses + 1
  /\ net' = net \ {m}
  /\ UNCHANGED <<treeVars, serviceVars, flagVars, tableVars, routes, timerVars, dueVars,
                 chain, round, early>>

-----------------------------------------------------------------------------
ReceiveHello(m) == \E R \in SUBSET Nodes : ProcessRootHello(m, R) \/ ProcessSRHello(m, R)

ReceiveUnicast(m) ==
  \/ SendToChildBF(m)
  \/ EnqueueChild(m)
  \/ ReceivedFromParentBF(m)
  \/ ProcessReceivedMissing(m)
  \/ SendBFC2P(m)
  \/ ReceivedFromChildBF(m)
  \/ ProcessReceivedMissingInverse(m)
  \/ ProcessInverseAck(m)

\* RecvPacket: the handler of the type of the message.
RecvPacket(m) ==
  \/ ReceiveHello(m)
  \/ m.dst # NoNode /\ ReceiveUnicast(m)

Timeout(n) == NoChildrenNew(n) \/ AskTimeout(n) \/ InverseTimeout(n)
DelayedCall(n) == NoChildrenDue(n) \/ InverseSetRecDue(n)

Next ==
  \/ StartTopologyBuilding
  \/ \E m \in net : RecvPacket(m) \/ SendFails(m) \/ LoseUnicast(m)
  \/ \E n \in Nodes : Timeout(n) \/ DelayedCall(n)

\* The simulator runs every scheduled event: a timer or a delayed call that is
\* pending fires, and a message in flight arrives.
Fairness ==
  /\ WF_vars(StartTopologyBuilding)
  /\ \A n \in Nodes :
       /\ WF_vars(NoChildrenNew(n))
       /\ WF_vars(AskTimeout(n))
       /\ WF_vars(InverseTimeout(n))
       /\ WF_vars(NoChildrenDue(n))
       /\ WF_vars(InverseSetRecDue(n))
       /\ WF_vars(\E m \in net : m.src = n /\ m.type \in HelloTypes /\ RecvPacket(m))
       /\ WF_vars(\E m \in net : m.src = n /\ SendFails(m))
       /\ WF_vars(\E m \in net : m.dst = n /\ m.type \in UpTypes /\ RecvPacket(m))
       /\ WF_vars(\E m \in net : m.dst = n /\ m.type \in DownTypes /\ RecvPacket(m))

Spec == Init /\ [][Next]_vars
FairSpec == Spec /\ Fairness

-----------------------------------------------------------------------------
(***************************************************************************)
(* Properties.                                                             *)
(***************************************************************************)
\* The queue of SendToChildBF and OnChildResponseReceived: a parent whose
\* m_previousChildProcessed is set has nobody waiting, and no child waits twice
\* (IsAlreadyEnqueued), whatever is repeated by timers or left from a round.
ServiceInv ==
  \A n \in Nodes :
    /\ idle[n] => requests[n] = <<>>
    /\ \A i, j \in DOMAIN requests[n] : requests[n][i] = requests[n][j] => i = j

\* The messages of a service: the filter n sent, or the report on its way back.
InService(n) == {m \in net : (m.type = "SEND_BF" /\ m.src = n)
                          \/ (m.type = "SEND_MISSING_C2P" /\ m.dst = n)}

\* A parent serves one child at a time, so that the next child is given a filter
\* that holds what the child before it reported.
OneInService == \A n \in Nodes : Cardinality(InService(n)) <= 1

\* Nobody waits in the queue of a parent that serves nobody: only the report of
\* the child in service makes OnChildResponseReceived look at the queue.
BusyServes == \A n \in Nodes : requests[n] # <<>> => InService(n) # {}

\* The parents that ProcessRootHello and ProcessSRHello choose form a tree: a node
\* that has a parent is led to the root, also when nodes of two rounds are mixed.
TreeRooted == \A n \in Nodes : parent[n] # NoNode => Root \in Ancestors(n)

\* No hello finds the slot timer running at a node that will schedule it: the
\* simulator stops at Timer::Schedule on a running timer.
TimerNeverRearmed ==
  \A m \in net : \A n \in Neighbours(m.src) :
    \/ m.type \notin HelloTypes
    \/ m.type = "SR_HELLO" /\ n \notin Adopters(m, Neighbours(m.src))
    \/ ~srTimer[n]

\* The way down starts after the way up has ended: whoever asks a child for its
\* filter, or sends it what it lacks, knows every link of the network.
DownAfterUp ==
  \A m \in net : m.type \in {"ASK_BF_P2C", "SEND_MISSING_P2C"} => tuples[m.src] = Edges

\* The blocks that two nodes write in a round hold the same links and were made
\* from the same votes.
BlocksAgree ==
  \A n, m \in Nodes : \A i \in DOMAIN chain[n], j \in DOMAIN chain[m] :
    chain[n][i].round = chain[m][j].round => chain[n][i] = chain[m][j]

\* The votes of every node count in every block.  This does not hold: the answer
\* of a neighbour of the root carries an empty packet, as ProcessRootHello never
\* calls SetVotes on it, and no later message replaces it.
VotesReach ==
  \A n \in Nodes : \A i \in DOMAIN chain[n] : chain[n][i].votes = Nodes

\* The votes of the nodes that answer an SR_HELLO, and those of the root, count in
\* every block: what filters, reports and missing tuples leave out of the packets
\* that are sent is what the receiver has.
FarVotesReach ==
  \A n \in Nodes : \A i \in DOMAIN chain[n] :
    Nodes \ Neighbours(Root) \subseteq chain[n][i].votes

\* A node writes at most one block in a round.
OneBlockPerRound ==
  \A n \in Nodes : \A i, j \in DOMAIN chain[n] :
    chain[n][i].round = chain[n][j].round => i = j

\* Between two resets of a node InverseSetRec writes one block, however often
\* timers and delayed calls repeat it: a block is written by a node with m_reset
\* set, and clears it.
BlockOncePerReset ==
  [][\A n \in Nodes : chain'[n] # chain[n] => reset[n] /\ ~reset'[n]]_vars

\* A node loses tuples only when it has written its block and a hello resets it:
\* no other handler, and no hello in the middle of a round, drops what it learned.
KeepsTuples ==
  [][\A n \in Nodes : ~(tuples[n] \subseteq tuples'[n]) => ~reset[n] /\ reset'[n]]_vars

\* The table a node writes is complete: it holds every link of the network.
TablesComplete == \A n \in Nodes : \A i \in DOMAIN chain[n] : chain[n][i].links = Edges

\* Every round starts from empty tables: after the hello of the root a neighbour
\* of the root knows its link to the root and nothing of the last round.
StartsClean ==
  [][\A m \in net \ net' : \A n \in Neighbours(m.src) :
       m.type = "ROOT_SR_HELLO" /\ losses' = losses => tuples'[n] = {{n, m.src}}]_vars

\* A node that asks a parent that has it in its list for a filter gets it in
\* the end: the retries of AskToParentBF make up for what was lost.
AskAnswered ==
  \A n \in Nodes :
    askTimer[n] /\ parent[n] \in Nodes /\ n \in kids[parent[n]] ~> ~askTimer[n]

\* Every round that the root starts ends with a block of every node.
EveryRoundCompletes ==
  \A k \in 1 .. MaxRounds :
    round = k ~> \A n \in Nodes : \E i \in DOMAIN chain[n] : chain[n][i].round = k

Abstract == INSTANCE SetReconciliation WITH
  Links <- Edges,
  known <- tuples,
  finished <- [n \in Nodes |-> ~reset[n]],
  committed <- [n \in Nodes |-> Len(chain[n])]

\* SAHARA Sync implements SetReconciliation: a node commits once per round and
\* with every link, learns only what a neighbour of the same round knows, and
\* begins no round before every node has ended the last.
ReconcilesSets == Abstract!Spec

=============================================================================
