--------------------------- MODULE RoundInvariant ---------------------------
(***************************************************************************)
(* A round, stage by stage: the inductive invariant of SAHARA Sync on a    *)
(* connected network that loses nothing. Where every node is in the round  *)
(* is not in the state of the program: it is spread over the flags, timers *)
(* and lists of the node, those of its parent, and the messages in flight. *)
(* The invariant says that a function st from nodes to stages exists that  *)
(* explains all of them, and a set Q of nodes whose subtree no hello is to *)
(* enlarge any more. RoundControl and RoundProofs show that every step     *)
(* leads to such stages again.                                             *)
(***************************************************************************)
EXTENDS SaharaSync

\* What the theorems of RoundProofs assume: no reception fails, no timer expires
\* before its exchange is over, and the network is connected and not the root alone.
Nominal ==
  /\ MaxLoss = 0 /\ MaxEarly = 0
  /\ Nodes # {Root}
  /\ \A S \in SUBSET Nodes :
       Root \in S /\ S # Nodes => \E x \in S : \E y \in Nodes \ S : {x, y} \in Edges

-----------------------------------------------------------------------------
(***************************************************************************)
(* The stages of a node, in the order in which a round goes through them.  *)
(* The root goes from Hello through Gather and Due to Awaiting and End; a  *)
(* leaf from Gather to Asking.                                             *)
(***************************************************************************)
Out     == 0    \* has not heard a hello of the round
Hello   == 1    \* has sent its hello, which nobody has heard yet
Gather  == 2    \* its slot runs, or its children report
Due     == 3    \* the last child has reported; NoChildren is scheduled
Asking  == 4    \* has asked its parent for a filter, or waits in its queue
Served  == 5    \* its parent serves it
Up      == 6    \* has reported to its parent
Asked   == 7    \* its parent has turned and asks it for its filter
Down    == 8    \* has the missing tuples; InverseSetRec is scheduled
Awaiting == 9   \* waits for the acknowledgements of its children
End     == 10   \* has written its block

\* The children of p, by the parent that they chose, that are at stage k or
\* later.
Below(st, p, k) == {c \in Nodes \ {Root} : parent[c] = p /\ st[c] >= k}

\* The stages a child may be in beside its parent.
Follows(c, p) ==
  /\ c <= Served => p = Gather
  /\ c = Up => Gather <= p /\ p <= Down
  /\ c = Asked => p = Awaiting
  /\ c >= Down => p >= Awaiting

\* The tree of the round: who is in it has a parent in it, at a stage that fits,
\* and past Hello every neighbour of a node is in the tree.
TreeInv(st) ==
  /\ st \in [Nodes -> Nat] /\ \A n \in Nodes : st[n] <= End
  /\ parent[Root] = Root /\ st[Root] \in {Hello, Gather, Due, Awaiting, End}
  /\ \A n \in Nodes \ {Root} : st[n] # Out =>
       /\ parent[n] \in Nodes /\ {n, parent[n]} \in Edges /\ st[parent[n]] # Out
       /\ Follows(st[n], st[parent[n]])
  /\ \A n \in Nodes : st[n] >= Gather => \A y \in Neighbours(n) : st[y] # Out
  /\ st[Root] = Hello => \A n \in Nodes \ {Root} : st[n] = Out
  /\ st[Root] # Hello => \A y \in Neighbours(Root) : parent[y] = Root

\* No set of nodes has its parents within itself: from every node the parents
\* lead to the root. The set of a cycle would be one.
RootedInv ==
  /\ \A n \in Nodes : parent[n] \in Nodes => parent[parent[n]] \in Nodes
  /\ \A C \in SUBSET (Nodes \ {Root}) :
       C # {} /\ (\A n \in C : parent[n] \in Nodes) => \E n \in C : parent[n] \notin C

\* The acknowledgement of c is on its way.
Acking(c) == \E m \in net : m.type = "SEND_MISSING_P2C_ACK" /\ m.src = c

\* A node that is not in the round and has reset, or never been in one, is
\* blank.
FreshInv(st) ==
  \A n \in Nodes : st[n] = Out /\ reset[n] =>
    /\ parent[n] = NoNode /\ kids[n] = {} /\ done[n] = {} /\ bfKids[n] = {}
    /\ idle[n] /\ requests[n] = <<>> /\ tuples[n] = {} /\ votes[n] = {}

\* The lists of a node against the stages of its children: m_listSetRecDone
\* holds those whose hello was heard, m_listBFChildren those that were served; a
\* child is marked done by its report, and after the reset of the marks by its
\* acknowledgement.
ListInv(st) ==
  \A n \in Nodes : st[n] # Out =>
    /\ reset[n] <=> st[n] # End
    /\ kids[n] = Below(st, n, Gather)
    /\ bfKids[n] = Below(st, n, Served)
    /\ st[n] <= Asked => done[n] = Below(st, n, Up)
    /\ st[n] = Down => done[n] = {}
    /\ st[n] >= Awaiting => done[n] = {c \in Below(st, n, Down) : ~Acking(c)}

\* The messages of an exchange of a child, its Client, with its parent, its
\* Server, and the stage of the child while such a message is in flight.
Exchange(m) == m.type \in {"ASK_BF", "SEND_BF", "SEND_MISSING_C2P",
                           "ASK_BF_P2C", "SEND_BF_C2P", "SEND_MISSING_P2C"}
Client(m) == IF m.type \in {"SEND_BF", "ASK_BF_P2C", "SEND_MISSING_P2C"} THEN m.dst ELSE m.src
Server(m) == IF m.type \in {"SEND_BF", "ASK_BF_P2C", "SEND_MISSING_P2C"} THEN m.src ELSE m.dst
StageOf(t) == IF t = "ASK_BF" THEN Asking
              ELSE IF t \in {"SEND_BF", "SEND_MISSING_C2P"} THEN Served ELSE Asked

\* An exchange of c with its parent has a message in flight.
Talks(c) == \E m \in net : Exchange(m) /\ Client(m) = c

\* The children in the queue of n.
Waits(n) == {requests[n][i] : i \in DOMAIN requests[n]}

\* m_previousChildProcessed is set when no child is being served.
IdleServes(st) ==
  \A n \in Nodes : st[n] \in {Hello, Gather} =>
    (idle[n] <=> \A c \in Below(st, n, Hello) : st[c] # Served)

\* One child is served at a time.
OneServed(st) ==
  \A n \in Nodes : \A c, o \in Below(st, n, Hello) : st[c] = Served /\ st[o] = Served => c = o

\* Who is in the queue is a child that has asked and has no message in flight.
QueuedAsk(st) ==
  \A n \in Nodes : \A c \in Waits(n) : c \in Below(st, n, Hello) /\ st[c] = Asking /\ ~Talks(c)

\* Who has asked is in the queue, or its request is on its way.
AskingQueued(st) ==
  \A c \in Nodes \ {Root} : st[c] = Asking => c \in Waits(parent[c]) \/ Talks(c)

\* An exchange that goes on has its next message in flight: nothing is lost.
ServedTalk(st) ==
  \A c \in Nodes \ {Root} : st[c] \in {Served, Asked} => Talks(c)

\* Who gathers reports and has children waits for one of them.
GatherWaits(st) ==
  \A n \in Nodes : st[n] = Gather /\ Below(st, n, Hello) # {} =>
    \E c \in Below(st, n, Hello) : st[c] < Up

ServeInv(st) ==
  /\ IdleServes(st) /\ OneServed(st) /\ QueuedAsk(st) /\ AskingQueued(st)
  /\ ServedTalk(st) /\ GatherWaits(st)

\* A node has routes to the children it has served and to the parent it has
\* asked, and knows its links to its children and its parent.
RouteInv(st) ==
  \A n \in Nodes : st[n] # Out =>
    /\ bfKids[n] \subseteq routes[n]
    /\ n # Root /\ st[n] >= Asking => parent[n] \in routes[n]
    /\ \A c \in kids[n] : {n, c} \in tuples[n]
    /\ n # Root => {n, parent[n]} \in tuples[n]

\* The timers and delayed calls against the stages. The slot timer runs until
\* the first child is heard or the slot is over.
TimerInv(st) ==
  \A n \in Nodes :
    /\ srTimer[n] <=> n # Root /\ st[n] \in {Hello, Gather} /\ kids[n] = {}
    /\ askTimer[n] => \/ st[n] = Asking
                      \/ \E m \in net : m.type = "SEND_BF" /\ m.dst = n
    /\ invTimer[n] <=> st[n] = Awaiting
    /\ upDue[n] = IF st[n] = Due THEN 1 ELSE 0
    /\ downDue[n] = IF st[n] = Down THEN 1 ELSE 0

\* The author of the vote packet in the hello of x: that of a neighbour of the
\* root is empty.
Vote(x) == IF x \in Neighbours(Root) THEN NoNode ELSE x

\* The hellos in flight are those of the nodes at stage Hello.
HelloInv(st) ==
  /\ \A m \in net : m.type = "ROOT_SR_HELLO" =>
       st[Root] = Hello /\ m = Msg("ROOT_SR_HELLO", Root, NoNode, {}, {Root})
  /\ \A m \in net : m.type = "SR_HELLO" =>
       /\ m.src # Root /\ st[m.src] = Hello
       /\ m = Msg("SR_HELLO", m.src, parent[m.src], {}, {Vote(m.src)})
  /\ \A n \in Nodes : st[n] = Hello => \E m \in net : m.type \in HelloTypes /\ m.src = n

\* A child has one message of an exchange in flight at most, of the type of its
\* stage, from or to its parent. Acknowledgements go from nodes that have the
\* missing tuples to parents that wait for them.
TalkInv(st) ==
  /\ \A m \in net : Exchange(m) => /\ Client(m) \in Nodes \ {Root} /\ Server(m) = parent[Client(m)]
                                   /\ st[Client(m)] = StageOf(m.type)
  /\ \A m, o \in net : Exchange(m) /\ Exchange(o) /\ Client(m) = Client(o) => m = o
  /\ \A m \in net : m.type = "SEND_MISSING_P2C_ACK" =>
       /\ m.src # Root /\ st[m.src] >= Down /\ st[parent[m.src]] = Awaiting
       /\ m = Msg(m.type, m.src, parent[m.src], {}, {})

\* What a node knows and what a message carries, links and votes as items of one
\* kind; the items that every table is to hold at the end (a filter that errs may
\* keep a link from a node); those of a node x.
Holds(n) == {<<"link", e>> : e \in tuples[n]} \cup {<<"vote", k>> : k \in Keys(votes[n])}
Carries(m) == {<<"link", e>> : e \in m.links} \cup {<<"vote", k>> : k \in m.votes}
Wanted ==
  {<<"link", e>> : e \in IF FalsePositives THEN {} ELSE Edges}
    \cup {<<"vote", k>> : k \in Nodes \ Neighbours(Root)}
About(x) == {<<"link", {x, y}>> : y \in Neighbours(x)} \cup {<<"vote", x>>}

\* What travels in a message is known where it comes from, a filter holds only
\* what its sender knows, the missing tuples of a parent complete the table of
\* the child, and past Asked a node knows everything.
DataInv(st) ==
  /\ \A m \in net :
      /\ m.type \in {"SEND_BF", "SEND_BF_C2P"} => Carries(m) \subseteq Holds(m.src)
      /\ m.type \in {"SEND_MISSING_C2P", "SEND_MISSING_P2C"} =>
           m.links \subseteq tuples[m.src] /\ m.votes \cap Neighbours(Root) = {}
      /\ m.type = "SEND_MISSING_P2C" => Wanted \subseteq Holds(m.dst) \cup Carries(m)
  /\ \A n \in Nodes : st[n] # Out => \A v \in votes[n] : v[2] = Vote(v[1])
  /\ \A n \in Nodes : st[n] >= Down => Wanted \subseteq Holds(n)

\* The report of z is on its way.
Reports(z) == \E m \in net : m.type = "SEND_MISSING_C2P" /\ m.src = z

\* Someone below who has not reported yet, or a report on its way, carries the
\* item.
Carried(st, i) ==
  \/ \E z \in Nodes : st[z] # Out /\ st[z] <= Served /\ ~Reports(z) /\ i \in Holds(z)
  \/ \E m \in net : m.type = "SEND_MISSING_C2P" /\ i \in Carries(m)

\* Until the root turns, no item about a node past Hello has been dropped on its
\* way up.
CoverInv(st) ==
  st[Root] <= Due =>
    \A x \in Nodes : st[x] >= Gather => \A i \in Wanted \cap About(x) : Carried(st, i)

\* Q is closed under parents, and no hello of a child of a node of Q is on its
\* way: a slot ends only when that is so of the node and all its ancestors.
\* Whoever has reported is in Q, so that nobody joins below it afterwards.
SettledInv(st, Q) ==
  /\ Q \in SUBSET Nodes
  /\ \A x \in Q : st[x] >= Gather /\ parent[x] \in Q
  /\ \A c \in Nodes \ {Root} : st[c] = Hello => parent[c] \notin Q
  /\ \A n \in Nodes : st[n] >= Due => n \in Q

\* Where everybody is and which messages are in flight.
Control(st, Q) ==
  /\ TreeInv(st) /\ RootedInv /\ FreshInv(st) /\ ListInv(st) /\ ServeInv(st)
  /\ RouteInv(st) /\ TimerInv(st) /\ HelloInv(st) /\ TalkInv(st) /\ SettledInv(st, Q)

\* The blocks of a node: one for each round it has ended, made from every vote but
\* those of the neighbours of the root, whose packets are empty as the code stands,
\* and, unless filters err, every link.
ChainInv(st) ==
  \A n \in Nodes :
    /\ Len(chain[n]) = IF st[n] = End THEN round ELSE round - 1
    /\ \A i \in 1..Len(chain[n]) :
         /\ chain[n][i].round = i
         /\ chain[n][i].votes = Nodes \ Neighbours(Root)
         /\ ~FalsePositives => chain[n][i].links = Edges
=============================================================================
