-------------------------- MODULE LightMonitorProofs --------------------------
(***************************************************************************)
(* Proofs about LightMonitor, for every network, set of messages, round    *)
(* and node whose monitor is followed.                                     *)
(***************************************************************************)
EXTENDS LightMonitor, TLAPS, FiniteSetTheorems, WellFoundedInduction

-----------------------------------------------------------------------------
(***************************************************************************)
(* Paths and votes.                                                        *)
(***************************************************************************)
\* A set of naturals that is not empty has a least element.
LEMMA LeastNatural ==
  ASSUME NEW S \in SUBSET Nat, S # {}
  PROVE  \E k \in S : \A l \in S : k <= l
<1>1. PICK k \in S : \A l \in S : ~(<<l, k>> \in OpToRel(<, Nat))
  BY NatLessThanWellFounded, WFMin
<1>2. \A l \in S : ~(l < k)
  BY <1>1 DEF OpToRel
<1>3. \A l \in S : k <= l
  BY <1>2
<1>4. QED
  BY <1>3

\* GetPathFromSourceToDestination returns nothing, or a path between the two
\* nodes over the links of the table.
LEMMA PathFromType ==
  ASSUME NEW links \in SUBSET Edges, NEW s \in Nodes, NEW d \in Nodes,
         PathFrom(links, s, d) # <<>>
  PROVE  \E k \in 2..Cardinality(Nodes) : PathFrom(links, s, d) \in Paths(links, s, d, k)
<1> DEFINE lengths == {k \in 2..Cardinality(Nodes) : Paths(links, s, d, k) # {}}
           shortest == CHOOSE k \in lengths : \A l \in lengths : k <= l
<1>2. lengths # {}
  BY DEF PathFrom
<1>3. lengths \in SUBSET Nat
  BY NetworkAssumption, FS_CardinalityType
<1>4. shortest \in lengths
  <2> HIDE DEF lengths
  <2>1. \E k \in lengths : \A l \in lengths : k <= l
    BY <1>2, <1>3, LeastNatural
  <2>2. QED
    BY <2>1
<1>5. PathFrom(links, s, d) = CHOOSE w \in Paths(links, s, d, shortest) : TRUE
  BY <1>2 DEF PathFrom
<1>6. Paths(links, s, d, shortest) # {}
  BY <1>4
<1>7. PathFrom(links, s, d) \in Paths(links, s, d, shortest)
  BY <1>5, <1>6
<1>8. QED
  BY <1>4, <1>7

\* The next hop LookUpAddr finds is a node.
LEMMA NextHopType ==
  ASSUME NEW links \in SUBSET Edges, NEW s \in Nodes, NEW d \in Nodes,
         PathFrom(links, s, d) # <<>>
  PROVE  PathFrom(links, s, d)[2] \in Nodes
<1>1. PICK k \in 2..Cardinality(Nodes) :
        PathFrom(links, s, d) \in Paths(links, s, d, k)
  BY PathFromType
<1>2. PathFrom(links, s, d) \in [1..k -> Nodes]
  BY <1>1 DEF Paths, Walks
<1>3. 2 \in 1..k
  BY NetworkAssumption, FS_CardinalityType
<1>4. QED
  BY <1>2, <1>3

\* The votes that a credit or a penalty leaves are votes.
LEMMA VotesType ==
  ASSUME TypeOK, NEW S
  PROVE  /\ UpdateNodeReputation(S) \in [Nodes -> Vote \cup {NoVote}]
         /\ UpdateNodeReputationPositive(S) \in [Nodes -> Vote \cup {NoVote}]
<1>1. rep[me] \in 0..255
  BY NetworkAssumption, ReputationsAssumption DEF TypeOK
<1>2. \A n \in Nodes : Entry(n) \in Vote
  BY <1>1 DEF TypeOK, Entry, Vote
<1>3. ASSUME NEW v \in Vote
      PROVE  /\ [v EXCEPT !.den = 2 * @, !.cast = TRUE] \in Vote
             /\ [v EXCEPT !.num = 11 * @, !.den = 10 * @, !.cast = TRUE] \in Vote
  <2>1. v.num \in Nat /\ v.den \in Nat \ {0}
    BY DEF Vote
  <2>2. 11 * v.num \in Nat /\ 10 * v.den \in Nat \ {0} /\ 2 * v.den \in Nat \ {0}
    BY <2>1
  <2>3. QED
    BY <2>2 DEF Vote
<1>4. QED
  BY <1>2, <1>3 DEF TypeOK, UpdateNodeReputation, UpdateNodeReputationPositive

\* LoadLastBlock leaves votes.
LEMMA LoadLastBlockType ==
  ASSUME NEW n \in Nodes, NEW r \in Reputations
  PROVE  LoadLastBlock(n, r) \in [Nodes -> Vote \cup {NoVote}]
BY ReputationsAssumption DEF LoadLastBlock, Vote

-----------------------------------------------------------------------------
(***************************************************************************)
(* Type correctness.                                                       *)
(***************************************************************************)
\* The types of what the sub-actions of the monitor assign.
MonitorTypes ==
  /\ me \in Watched
  /\ timers \subseteq Messages
  /\ running \subseteq timers
  /\ stray \subseteq Messages
  /\ votes \in [Nodes -> Vote \cup {NoVote}]
  /\ stuck \in BOOLEAN
  /\ heard \subseteq Messages
  /\ credited \subseteq Messages
  /\ missed \subseteq Messages

\* A captured message or acknowledgement keeps the monitor well typed.
LEMMA CaptureTypes ==
  ASSUME TypeOK, NEW m \in Messages, StartTimer(m) \/ StopTimer(m)
  PROVE  MonitorTypes'
<1>1. CASE StartTimer(m)
  BY <1>1 DEF TypeOK, StartTimer, MonitorTypes
<1>2. CASE StopTimer(m)
  <2>1. votes' \in [Nodes -> Vote \cup {NoVote}]
    BY <1>2, VotesType DEF TypeOK, StopTimer
  <2>2. stuck' \in BOOLEAN
    BY <1>2 DEF TypeOK, StopTimer, LookupReturns
  <2>3. /\ heard' \subseteq Messages
        /\ credited' \subseteq Messages
        /\ running' \subseteq timers'
    BY <1>2 DEF TypeOK, StopTimer
  <2>4. QED
    BY <1>2, <2>1, <2>2, <2>3 DEF TypeOK, StopTimer, MonitorTypes
<1>3. QED
  BY <1>1, <1>2

\* A penalty keeps the variables it assigns well typed.
LEMMA PenaltyTypes ==
  ASSUME TypeOK, NEW m \in Messages, UpdatePathReputation(m)
  PROVE  /\ votes' \in [Nodes -> Vote \cup {NoVote}]
         /\ stuck' \in BOOLEAN
         /\ missed' \subseteq Messages
<1>1. votes' \in [Nodes -> Vote \cup {NoVote}]
  BY VotesType DEF TypeOK, UpdatePathReputation
<1>2. stuck' \in BOOLEAN /\ missed' \subseteq Messages
  BY DEF TypeOK, UpdatePathReputation, LookupReturns
<1>3. QED
  BY <1>1, <1>2

LEMMA InitTypeOK == Init => TypeOK
<1>1. ASSUME Init PROVE TypeOK
  <2>1. PICK r \in Reputations : rep = [n \in Nodes |-> r]
    BY <1>1 DEF Init
  <2>2. votes \in [Nodes -> Vote \cup {NoVote}]
    BY <1>1, <2>1, NetworkAssumption, LoadLastBlockType DEF Init
  <2>3. rep \in [Nodes -> Reputations]
    BY <2>1
  <2>4. round \in [Nodes -> 0..MaxRounds]
    BY <1>1, MonitorBoundsAssumption DEF Init
  <2>5. QED
    BY <1>1, <2>2, <2>3, <2>4 DEF Init, TypeOK
<1>2. QED
  BY <1>1

\* What a packet becomes on its way is a packet.
LEMMA AirType ==
  ASSUME TypeOK, NEW f \in air, NEW received \in BOOLEAN, NEW captured \in BOOLEAN,
         Forward(f, received, captured)
  PROVE  air' \subseteq Packet
<1> DEFINE hop == PathFrom(table[f.at], f.at, Final(f))[2]
<1>1. f \in Packet /\ Final(f) \in Nodes
  BY MessagesAssumption DEF TypeOK, Packet, Final
<1>2. table[f.at] \in SUBSET Edges /\ f.at \in Nodes
  BY <1>1 DEF TypeOK, Packet
<1>3. hop \in Nodes
  BY <1>1, <1>2, NextHopType DEF Forward
<1>4. [f EXCEPT !.at = hop] \in Packet
  BY <1>1, <1>3 DEF Packet
<1>5. \A k \in Copies : [f EXCEPT !.copy = k, !.at = Target[f.msg]] \in Packet
  BY <1>1, MessagesAssumption DEF Packet
<1>6. Received(f) \subseteq Packet
  BY <1>5 DEF Received
<1>7. QED
  BY <1>4, <1>6 DEF Forward, TypeOK

LEMMA NextTypeOK == TypeOK /\ [Next]_vars => TypeOK'
<1> SUFFICES ASSUME TypeOK, [Next]_vars PROVE TypeOK'
  OBVIOUS
<1> USE DEF roundVars, monitorVars
<1>1. CASE StartRound
  BY <1>1, NetworkAssumption, MonitorBoundsAssumption DEF TypeOK, StartRound, Enter
<1>2. ASSUME NEW n \in Nodes, NEW p \in Nodes, HearHello(n, p) PROVE TypeOK'
  <2>1. {n, p} \in Edges
    BY <1>2 DEF HearHello, Neighbours
  <2>2. CASE round[n] < round[p]
    <3>1. round[n] + 1 \in 0..MaxRounds
      BY <2>2, MonitorBoundsAssumption DEF TypeOK
    <3>2. Enter(n, {{n, p}})
      BY <1>2, <2>2 DEF HearHello
    <3>3. table' \in [Nodes -> SUBSET Edges]
      BY <2>1, <3>2 DEF TypeOK, Enter
    <3>4. round' \in [Nodes -> 0..MaxRounds] /\ inRound' \in [Nodes -> BOOLEAN]
      BY <3>1, <3>2 DEF TypeOK, Enter
    <3>5. QED
      BY <1>2, <3>3, <3>4 DEF TypeOK, HearHello
  <2>3. CASE ~(round[n] < round[p])
    <3>1. table' = [table EXCEPT ![n] = @ \cup {{n, p}}]
      BY <1>2, <2>3 DEF HearHello
    <3>2. table' \in [Nodes -> SUBSET Edges]
      BY <2>1, <3>1 DEF TypeOK
    <3>3. QED
      BY <1>2, <2>3, <3>2 DEF TypeOK, HearHello
  <2>4. QED
    BY <2>2, <2>3
<1>3. ASSUME NEW n \in Nodes, NEW p \in Nodes, Learn(n, p) PROVE TypeOK'
  <2>1. table' \in [Nodes -> SUBSET Edges]
    BY <1>3 DEF TypeOK, Learn
  <2>2. QED
    BY <1>3, <2>1 DEF TypeOK, Learn
<1>4. ASSUME NEW n \in Nodes, NEW r \in Reputations, EndRound(n, r) PROVE TypeOK'
  <2>1. CASE n = me
    BY <1>4, <2>1, LoadLastBlockType DEF TypeOK, EndRound, ResetVariables
  <2>2. CASE n # me
    BY <1>4, <2>2 DEF TypeOK, EndRound
  <2>3. QED
    BY <2>1, <2>2
<1>5. ASSUME NEW m \in Messages, Send(m) PROVE TypeOK'
  <2>1. [msg |-> m, copy |-> 0, at |-> Origin[m]] \in Packet
    BY MessagesAssumption DEF Packet, Copies
  <2>2. QED
    BY <1>5, <2>1 DEF TypeOK, Send
<1>6. ASSUME NEW f \in air, NEW received \in BOOLEAN, NEW captured \in BOOLEAN,
             Forward(f, received, captured)
      PROVE  TypeOK'
  <2>1. air' \subseteq Packet
    BY <1>6, AirType
  <2>2. f.msg \in Messages
    BY DEF TypeOK, Packet
  <2>3. MonitorTypes'
    <3>1. CASE UNCHANGED monitorVars
      BY <3>1 DEF TypeOK, MonitorTypes
    <3>2. CASE ~UNCHANGED monitorVars
      BY <1>6, <2>2, <3>2, CaptureTypes DEF Forward, PromiscuousCallback
    <3>3. QED
      BY <3>1, <3>2
  <2>4. QED
    BY <1>6, <2>1, <2>3 DEF TypeOK, MonitorTypes, Forward
<1>7. ASSUME NEW f \in air, Drop(f) PROVE TypeOK'
  BY <1>7 DEF TypeOK, Drop
<1>8. ASSUME NEW m \in Messages, Expire(m) PROVE TypeOK'
  <2>1. UpdatePathReputation(m)
    BY <1>8 DEF Expire
  <2>2. QED
    BY <1>8, <2>1, PenaltyTypes DEF TypeOK, Expire, UpdatePathReputation
<1>9. ASSUME NEW m \in Messages, ExpireStray(m) PROVE TypeOK'
  <2>1. UpdatePathReputation(m)
    BY <1>9 DEF ExpireStray
  <2>2. QED
    BY <1>9, <2>1, PenaltyTypes DEF TypeOK, ExpireStray, UpdatePathReputation
<1>10. CASE UNCHANGED vars
  BY <1>10 DEF TypeOK, vars
<1>11. QED
  BY <1>1, <1>2, <1>3, <1>4, <1>5, <1>6, <1>7, <1>8, <1>9, <1>10 DEF Next, Step

\* Every reachable state is well typed; a timer that runs and is not lost is in
\* the map.
THEOREM MonitorTypeCorrect == Spec => []TypeOK
<1>1. QED
  BY InitTypeOK, NextTypeOK, PTL DEF Spec

-----------------------------------------------------------------------------
(***************************************************************************)
(* Only a forgotten timer penalises an acknowledged message.               *)
(***************************************************************************)
\* A message under way is one packet until it arrives, and is gone from then on;
\* an acknowledgement the monitor captured found its timer, or the timer was
\* forgotten, and no capture of the message can start another.
AckInv ==
  /\ \A f \in air : f.msg \notin unsent
  /\ \A f, g \in air : f.copy = 0 /\ f.msg = g.msg => f = g
  /\ \A m \in heard : m \notin unsent /\ m \notin running
  /\ \A m \in heard : \A f \in air : f.msg = m => f.copy # 0

LEMMA InitAckInv == Init => AckInv
BY DEF Init, AckInv

\* The packets that a step of f leaves: some others of air, and packets of the
\* same message, f on its way or its acknowledgements.
LEMMA ForwardAir ==
  ASSUME TypeOK, NEW f \in air, NEW received \in BOOLEAN, NEW captured \in BOOLEAN,
         Forward(f, received, captured), NEW g \in air'
  PROVE  \/ g \in air /\ g # f
         \/ g.msg = f.msg /\ (g.copy = 0 => f.copy = 0)
<1> DEFINE hop == PathFrom(table[f.at], f.at, Final(f))[2]
<1>1. f \in Packet
  BY DEF TypeOK
<1>2. \/ g \in air /\ g # f
      \/ g = [f EXCEPT !.at = hop]
      \/ f.copy = 0 /\ g \in Received(f)
  BY DEF Forward, Received
<1>3. CASE g = [f EXCEPT !.at = hop]
  BY <1>1, <1>3 DEF Packet
<1>4. CASE f.copy = 0 /\ g \in Received(f)
  BY <1>1, <1>4 DEF Packet, Received
<1>5. QED
  BY <1>2, <1>3, <1>4

\* Of the packets that a step of f leaves at most one is the message itself.
LEMMA ForwardMessage ==
  ASSUME TypeOK, AckInv, NEW f \in air, NEW received \in BOOLEAN,
         NEW captured \in BOOLEAN, Forward(f, received, captured),
         NEW g \in air', NEW h \in air', g.copy = 0, g.msg = h.msg
  PROVE  g = h
<1> DEFINE hop == PathFrom(table[f.at], f.at, Final(f))[2]
<1>1. f \in Packet
  BY DEF TypeOK
<1>2. CASE g.msg # f.msg
  BY <1>2, ForwardAir DEF AckInv
<1>3. CASE g.msg = f.msg
  <2>1. f.copy = 0
    BY <1>3, ForwardAir DEF AckInv
  <2>2. \A e \in air : e.msg = f.msg => e = f
    BY <2>1 DEF AckInv
  <2>3. \A k \in Copies \ {0} : [f EXCEPT !.copy = k, !.at = Target[f.msg]].copy = k
    BY <1>1 DEF Packet
  <2>4. g \notin Received(f)
    BY <2>3 DEF Received
  <2>5. g = [f EXCEPT !.at = hop] /\ air' = (air \ {f}) \cup {g}
    BY <1>3, <2>2, <2>4 DEF Forward
  <2>6. QED
    BY <1>3, <2>2, <2>5
<1>4. QED
  BY <1>2, <1>3

LEMMA NextAckInv == TypeOK /\ AckInv /\ [Next]_vars => AckInv'
<1> SUFFICES ASSUME TypeOK, AckInv, [Next]_vars PROVE AckInv'
  OBVIOUS
<1> USE DEF roundVars, monitorVars
<1>1. CASE StartRound
  BY <1>1 DEF AckInv, StartRound
<1>2. ASSUME NEW n \in Nodes, NEW p \in Nodes, HearHello(n, p) PROVE AckInv'
  BY <1>2 DEF AckInv, HearHello
<1>3. ASSUME NEW n \in Nodes, NEW p \in Nodes, Learn(n, p) PROVE AckInv'
  BY <1>3 DEF AckInv, Learn
<1>4. ASSUME NEW n \in Nodes, NEW r \in Reputations, EndRound(n, r) PROVE AckInv'
  BY <1>4 DEF AckInv, EndRound, ResetVariables
<1>5. ASSUME NEW m \in Messages, Send(m) PROVE AckInv'
  <2> DEFINE sent == [msg |-> m, copy |-> 0, at |-> Origin[m]]
  <2>1. m \in unsent /\ unsent' = unsent \ {m} /\ air' = air \cup {sent}
        /\ heard' = heard /\ running' = running
    BY <1>5 DEF Send
  <2>2. \A f \in air : f.msg # sent.msg
    BY <2>1 DEF AckInv
  <2>3. QED
    BY <2>1, <2>2 DEF AckInv
<1>6. ASSUME NEW f \in air, NEW received \in BOOLEAN, NEW captured \in BOOLEAN,
             Forward(f, received, captured)
      PROVE  AckInv'
  <2>1. unsent' = unsent
    BY <1>6 DEF Forward
  <2>2. \A g \in air' : g.msg \notin unsent'
    BY <1>6, <2>1, ForwardAir DEF AckInv
  <2>3. \A g, h \in air' : g.copy = 0 /\ g.msg = h.msg => g = h
    BY <1>6, ForwardMessage
  <2>4. CASE f.copy = 0
    <3>1. f.msg \notin heard
      BY <2>4 DEF AckInv
    <3>2. heard' = heard /\ running' \subseteq running \cup {f.msg}
      BY <1>6, <2>4 DEF Forward, PromiscuousCallback, StartTimer
    <3>3. \A m \in heard' : m \notin unsent' /\ m \notin running'
      BY <2>1, <3>1, <3>2 DEF AckInv
    <3>4. \A m \in heard' : \A g \in air' : g.msg = m => g.copy # 0
      BY <1>6, <3>1, <3>2, ForwardAir DEF AckInv
    <3>5. QED
      BY <2>2, <2>3, <3>3, <3>4 DEF AckInv
  <2>5. CASE f.copy # 0
    <3>1. heard' \subseteq heard \cup {f.msg} /\ running' \subseteq running
      BY <1>6, <2>5 DEF Forward, PromiscuousCallback, StopTimer
    <3>2. f.msg \in heard' \ heard => f.msg \notin running'
      BY <1>6, <2>5 DEF Forward, PromiscuousCallback, StopTimer, TypeOK
    <3>3. \A m \in heard' : m \notin unsent' /\ m \notin running'
      BY <2>1, <3>1, <3>2 DEF AckInv
    <3>4. \A g \in air : g.msg = f.msg => g.copy # 0
      BY <2>5 DEF AckInv
    <3>5. \A m \in heard' : \A g \in air' : g.msg = m => g.copy # 0
      BY <1>6, <2>5, <3>1, <3>4, ForwardAir DEF AckInv
    <3>6. QED
      BY <2>2, <2>3, <3>3, <3>5 DEF AckInv
  <2>6. QED
    BY <2>4, <2>5
<1>7. ASSUME NEW f \in air, Drop(f) PROVE AckInv'
  BY <1>7 DEF AckInv, Drop
<1>8. ASSUME NEW m \in Messages, Expire(m) PROVE AckInv'
  BY <1>8 DEF AckInv, Expire, UpdatePathReputation
<1>9. ASSUME NEW m \in Messages, ExpireStray(m) PROVE AckInv'
  BY <1>9 DEF AckInv, ExpireStray, UpdatePathReputation
<1>10. CASE UNCHANGED vars
  BY <1>10 DEF AckInv, vars
<1>11. QED
  BY <1>1, <1>2, <1>3, <1>4, <1>5, <1>6, <1>7, <1>8, <1>9, <1>10 DEF Next, Step

\* No step penalises a path for an acknowledged message with the timer that is
\* in the map; only one that a reset took out of it can.
LEMMA PenaltyStep ==
  ASSUME AckInv, [Next]_vars, NEW m \in missed' \ missed, m \in heard
  PROVE  m \in stray
<1> USE DEF roundVars, monitorVars
<1>1. m \notin running
  BY DEF AckInv
<1>2. CASE StartRound
  BY <1>2 DEF StartRound
<1>3. ASSUME NEW n \in Nodes, NEW p \in Nodes, HearHello(n, p) \/ Learn(n, p) PROVE FALSE
  BY <1>3 DEF HearHello, Learn
<1>4. ASSUME NEW n \in Nodes, NEW r \in Reputations, EndRound(n, r) PROVE FALSE
  BY <1>4 DEF EndRound, ResetVariables
<1>5. ASSUME NEW k \in Messages, Send(k) PROVE FALSE
  BY <1>5 DEF Send
<1>6. ASSUME NEW f \in air, NEW received \in BOOLEAN, NEW captured \in BOOLEAN,
             Forward(f, received, captured) \/ Drop(f)
      PROVE  FALSE
  BY <1>6 DEF Forward, PromiscuousCallback, StartTimer, StopTimer, Drop
<1>7. ASSUME NEW k \in Messages, Expire(k) PROVE m \in running
  BY <1>7 DEF Expire, UpdatePathReputation
<1>8. ASSUME NEW k \in Messages, ExpireStray(k) PROVE m \in stray
  BY <1>8 DEF ExpireStray, UpdatePathReputation
<1>9. CASE UNCHANGED vars
  BY <1>9 DEF vars
<1>10. QED
  BY <1>1, <1>2, <1>3, <1>4, <1>5, <1>6, <1>7, <1>8, <1>9 DEF Next, Step

\* The monitor penalises a path for a message whose acknowledgement it captured
\* only if its reset made it forget the timer in between.
THEOREM PenaltyCorrect == Spec => PenaltyWasDue
<1>1. Init => TypeOK /\ AckInv
  BY InitTypeOK, InitAckInv
<1>2. TypeOK /\ AckInv /\ [Next]_vars => TypeOK' /\ AckInv'
  BY NextTypeOK, NextAckInv
<1>3. TypeOK /\ AckInv /\ [Next]_vars
        => [\A m \in missed' \ missed : m \in heard => m \in stray]_vars
  BY PenaltyStep
<1>4. QED
  BY <1>1, <1>2, <1>3, PTL DEF Spec, PenaltyWasDue
-----------------------------------------------------------------------------
(***************************************************************************)
(* What votes rest on.                                                     *)
(***************************************************************************)
Acked(n) == \E m \in credited : n \in OnPath(Edges, Target[m], Origin[m])
Blamed(n) == \E m \in missed : n \in OnPath(Edges, Origin[m], Target[m])

\* An entry that stands at num / den since a reset to the reputation r: without an
\* acknowledgement it has not grown, and has lost half if it was cast; without a
\* penalty it has not shrunk.
Rests(v, r, acked, blamed) ==
  /\ ~acked => v.num <= r * v.den /\ (v.cast => 2 * v.num <= r * v.den)
  /\ ~blamed => r * v.den <= v.num

VotesInv ==
  ~inRound[me] =>
    /\ table[me] = Edges
    /\ \A n \in Nodes : votes[n] # NoVote => Rests(votes[n], rep[me], Acked(n), Blamed(n))

\* An entry just made from the reputation r rests on nothing.
LEMMA RestsFresh ==
  ASSUME NEW r \in Nat, NEW acked \in BOOLEAN, NEW blamed \in BOOLEAN
  PROVE  Rests([num |-> r, den |-> 1, cast |-> FALSE], r, acked, blamed)
BY DEF Rests

\* A credit takes the acknowledgement as its ground.
LEMMA RestsCredited ==
  ASSUME NEW v \in Vote, NEW r \in Nat, NEW acked \in BOOLEAN, NEW blamed \in BOOLEAN,
         Rests(v, r, acked, blamed)
  PROVE  Rests([v EXCEPT !.num = 11 * @, !.den = 10 * @, !.cast = TRUE], r, TRUE, blamed)
<1> DEFINE w == [v EXCEPT !.num = 11 * @, !.den = 10 * @, !.cast = TRUE]
<1>1. v.num \in Nat /\ v.den \in Nat /\ w.num = 11 * v.num /\ w.den = 10 * v.den
  BY DEF Vote
<1>2. r * v.den \in Nat /\ r * w.den = 10 * (r * v.den)
  BY <1>1
<1>3. ~blamed => r * w.den <= w.num
  BY <1>1, <1>2 DEF Rests
<1>4. QED
  BY <1>3 DEF Rests

\* A penalty takes the expired timer as its ground.
LEMMA RestsBlamed ==
  ASSUME NEW v \in Vote, NEW r \in Nat, NEW acked \in BOOLEAN, NEW blamed \in BOOLEAN,
         Rests(v, r, acked, blamed)
  PROVE  Rests([v EXCEPT !.den = 2 * @, !.cast = TRUE], r, acked, TRUE)
<1> DEFINE w == [v EXCEPT !.den = 2 * @, !.cast = TRUE]
<1>1. v.num \in Nat /\ v.den \in Nat /\ w.num = v.num /\ w.den = 2 * v.den
  BY DEF Vote
<1>2. r * v.den \in Nat /\ r * w.den = 2 * (r * v.den)
  BY <1>1
<1>3. ~acked => 2 * w.num <= r * w.den /\ w.num <= r * w.den
  BY <1>1, <1>2 DEF Rests
<1>4. QED
  BY <1>3 DEF Rests

\* What a reset leaves of the monitor of me, with the reputation r.
LEMMA VotesReset ==
  ASSUME NEW r \in Reputations, me \in Nodes, NEW n \in Nodes,
         NEW v, v = LoadLastBlock(me, r)[n], v # NoVote,
         NEW acked \in BOOLEAN, NEW blamed \in BOOLEAN
  PROVE  Rests(v, r, acked, blamed)
<1>1. v = [num |-> r, den |-> 1, cast |-> FALSE]
  BY DEF LoadLastBlock
<1>2. r \in Nat
  BY ReputationsAssumption
<1>3. QED
  BY <1>1, <1>2, RestsFresh

\* The entry that a credit or a penalty begins with.
LEMMA EntryRests ==
  ASSUME TypeOK, VotesInv, ~inRound[me], NEW n \in Nodes
  PROVE  Entry(n) \in Vote /\ rep[me] \in Nat /\ Rests(Entry(n), rep[me], Acked(n), Blamed(n))
<1>1. rep[me] \in 0..255
  BY NetworkAssumption, ReputationsAssumption DEF TypeOK
<1>2. Acked(n) \in BOOLEAN /\ Blamed(n) \in BOOLEAN
  BY DEF Acked, Blamed
<1>3. CASE votes[n] = NoVote
  BY <1>1, <1>2, <1>3, RestsFresh DEF Entry, Vote
<1>4. CASE votes[n] # NoVote
  BY <1>1, <1>4 DEF Entry, VotesInv, TypeOK
<1>5. QED
  BY <1>1, <1>3, <1>4

LEMMA InitVotesInv == Init => VotesInv
<1> SUFFICES ASSUME Init PROVE VotesInv
  OBVIOUS
<1>1. PICK r \in Reputations : rep = [n \in Nodes |-> r]
  BY DEF Init
<1>2. me \in Nodes /\ rep[me] = r /\ table[me] = Edges
  BY <1>1, NetworkAssumption DEF Init
<1>3. votes = LoadLastBlock(me, r)
  BY <1>2 DEF Init
<1>4. \A n \in Nodes : Acked(n) \in BOOLEAN /\ Blamed(n) \in BOOLEAN
  BY DEF Acked, Blamed
<1>5. QED
  BY <1>2, <1>3, <1>4, VotesReset DEF VotesInv

\* A captured acknowledgement keeps the invariant.
LEMMA StopVotesInv ==
  ASSUME TypeOK, VotesInv, NEW m \in Messages, StopTimer(m), UNCHANGED roundVars
  PROVE  VotesInv'
<1> SUFFICES ASSUME ~inRound'[me'] PROVE VotesInv'
  BY DEF VotesInv
<1>1. me' = me /\ ~inRound[me] /\ missed' = missed /\ rep' = rep /\ table' = table
  BY DEF StopTimer, roundVars
<1>2. table[me] = Edges
  BY <1>1 DEF VotesInv
<1> DEFINE S == OnPath(Edges, Target[m], Origin[m])
<1>3. CASE UNCHANGED <<votes, credited>>
  BY <1>1, <1>3 DEF VotesInv, Acked, Blamed
<1>4. CASE votes' = UpdateNodeReputationPositive(S) /\ credited' = credited \cup {m}
  <2>1. \A n \in S : Acked(n)'
    BY <1>4 DEF Acked
  <2>2. \A n \in Nodes : (Acked(n) => Acked(n)') /\ Blamed(n)' = Blamed(n)
    BY <1>1, <1>4 DEF Acked, Blamed
  <2>3. ASSUME NEW n \in Nodes, votes'[n] # NoVote
        PROVE  Rests(votes'[n], rep[me], Acked(n)', Blamed(n)')
    <3>1. Acked(n) \in BOOLEAN /\ Acked(n)' \in BOOLEAN /\ Blamed(n) \in BOOLEAN
      BY DEF Acked, Blamed
    <3>2. CASE n \in S
      <4>1. votes'[n] = [Entry(n) EXCEPT !.num = 11 * @, !.den = 10 * @, !.cast = TRUE]
        BY <1>4, <3>2 DEF UpdateNodeReputationPositive
      <4>2. /\ Entry(n) \in Vote /\ rep[me] \in Nat
            /\ Rests(Entry(n), rep[me], Acked(n), Blamed(n))
        BY <1>1, EntryRests
      <4>3. Rests([Entry(n) EXCEPT !.num = 11 * @, !.den = 10 * @, !.cast = TRUE],
                  rep[me], TRUE, Blamed(n))
        BY <3>1, <4>2, RestsCredited
      <4>4. Rests(votes'[n], rep[me], TRUE, Blamed(n))
        BY <4>1, <4>3
      <4>5. QED
        BY <2>1, <2>2, <3>2, <4>4
    <3>3. CASE n \notin S
      <4>1. votes'[n] = votes[n]
        BY <1>4, <3>3 DEF UpdateNodeReputationPositive
      <4>2. QED
        BY <1>1, <2>2, <2>3, <4>1 DEF VotesInv, Rests
    <3>4. QED
      BY <3>2, <3>3
  <2>4. QED
    BY <1>1, <1>2, <2>3 DEF VotesInv
<1>5. QED
  BY <1>1, <1>2, <1>3, <1>4 DEF StopTimer

\* A penalty keeps the invariant.
LEMMA PenaltyVotesInv ==
  ASSUME TypeOK, VotesInv, NEW m \in Messages, UpdatePathReputation(m), UNCHANGED roundVars
  PROVE  VotesInv'
<1> SUFFICES ASSUME ~inRound'[me'] PROVE VotesInv'
  BY DEF VotesInv
<1>1. me' = me /\ ~inRound[me] /\ credited' = credited /\ rep' = rep /\ table' = table
  BY DEF UpdatePathReputation, roundVars
<1>2. table[me] = Edges
  BY <1>1 DEF VotesInv
<1> DEFINE S == OnPath(Edges, Origin[m], Target[m])
<1>3. CASE UNCHANGED <<votes, missed>>
  BY <1>1, <1>3 DEF VotesInv, Acked, Blamed
<1>4. CASE votes' = UpdateNodeReputation(S) /\ missed' = missed \cup {m}
  <2>1. \A n \in S : Blamed(n)'
    BY <1>4 DEF Blamed
  <2>2. \A n \in Nodes : (Blamed(n) => Blamed(n)') /\ Acked(n)' = Acked(n)
    BY <1>1, <1>4 DEF Acked, Blamed
  <2>3. ASSUME NEW n \in Nodes, votes'[n] # NoVote
        PROVE  Rests(votes'[n], rep[me], Acked(n)', Blamed(n)')
    <3>1. Acked(n) \in BOOLEAN /\ Blamed(n) \in BOOLEAN /\ Blamed(n)' \in BOOLEAN
      BY DEF Acked, Blamed
    <3>2. CASE n \in S
      <4>1. votes'[n] = [Entry(n) EXCEPT !.den = 2 * @, !.cast = TRUE]
        BY <1>4, <3>2 DEF UpdateNodeReputation
      <4>2. /\ Entry(n) \in Vote /\ rep[me] \in Nat
            /\ Rests(Entry(n), rep[me], Acked(n), Blamed(n))
        BY <1>1, EntryRests
      <4>3. Rests([Entry(n) EXCEPT !.den = 2 * @, !.cast = TRUE],
                  rep[me], Acked(n), TRUE)
        BY <3>1, <4>2, RestsBlamed
      <4>4. Rests(votes'[n], rep[me], Acked(n), TRUE)
        BY <4>1, <4>3
      <4>5. QED
        BY <2>1, <2>2, <3>2, <4>4
    <3>3. CASE n \notin S
      <4>1. votes'[n] = votes[n]
        BY <1>4, <3>3 DEF UpdateNodeReputation
      <4>2. QED
        BY <1>1, <2>2, <2>3, <4>1 DEF VotesInv, Rests
    <3>4. QED
      BY <3>2, <3>3
  <2>4. QED
    BY <1>1, <1>2, <2>3 DEF VotesInv
<1>5. QED
  BY <1>1, <1>2, <1>3, <1>4 DEF UpdatePathReputation

\* A node that enters a round changes no other node.
LEMMA EnterOthers ==
  ASSUME TypeOK, NEW n \in Nodes, NEW known, Enter(n, known)
  PROVE  inRound'[me] \/ (inRound'[me] = inRound[me] /\ table'[me] = table[me])
<1>1. me \in Nodes
  BY NetworkAssumption DEF TypeOK
<1>2. CASE n = me
  <2>1. inRound'[me] = TRUE
    BY <1>1, <1>2 DEF Enter, TypeOK
  <2>2. QED
    BY <2>1
<1>3. CASE n # me
  BY <1>1, <1>3 DEF Enter, TypeOK
<1>4. QED
  BY <1>2, <1>3

LEMMA NextVotesInv == TypeOK /\ VotesInv /\ [Next]_vars => VotesInv'
<1> SUFFICES ASSUME TypeOK, VotesInv, [Next]_vars PROVE VotesInv'
  OBVIOUS
<1>1. ASSUME UNCHANGED <<inRound, table, rep, me, votes, credited, missed>> PROVE VotesInv'
  BY <1>1 DEF VotesInv, Acked, Blamed
<1>2. CASE StartRound
  <2>1. UNCHANGED <<rep, me, votes, credited, missed>>
    BY <1>2 DEF StartRound, monitorVars
  <2>2. inRound'[me'] \/ (inRound'[me] = inRound[me] /\ table'[me] = table[me])
    BY <1>2, <2>1, EnterOthers, NetworkAssumption DEF StartRound
  <2>3. QED
    BY <2>1, <2>2 DEF VotesInv, Acked, Blamed
<1>3. ASSUME NEW n \in Nodes, NEW p \in Nodes, HearHello(n, p) \/ Learn(n, p) PROVE VotesInv'
  <2>1. UNCHANGED <<rep, me, votes, credited, missed>>
    BY <1>3 DEF HearHello, Learn, monitorVars
  <2>2. inRound'[me'] \/ (inRound'[me] = inRound[me] /\ table'[me] = table[me])
    <3>1. me \in Nodes
      BY NetworkAssumption DEF TypeOK
    <3>2. CASE Enter(n, {{n, p}})
      BY <2>1, <3>2, EnterOthers
    <3>3. CASE inRound[n] /\ inRound' = inRound /\ \E t : table' = [table EXCEPT ![n] = t]
      <4>1. CASE n = me
        BY <2>1, <3>3, <4>1
      <4>2. CASE n # me
        BY <3>1, <3>3, <4>2 DEF TypeOK
      <4>3. QED
        BY <4>1, <4>2
    <3>4. QED
      BY <1>3, <3>2, <3>3 DEF HearHello, Learn
  <2>3. QED
    BY <2>1, <2>2 DEF VotesInv, Acked, Blamed
<1>4. ASSUME NEW n \in Nodes, NEW r \in Reputations, EndRound(n, r) PROVE VotesInv'
  <2>1. me \in Nodes /\ me' = me /\ table' = table
    BY <1>4, NetworkAssumption DEF EndRound, ResetVariables, monitorVars, TypeOK
  <2>2. CASE n = me
    <3>1. table'[me] = Edges /\ rep'[me] = r /\ votes' = LoadLastBlock(me, r)
      BY <1>4, <2>1, <2>2 DEF EndRound, ResetVariables, TypeOK
    <3>2. \A k \in Nodes : Acked(k)' \in BOOLEAN /\ Blamed(k)' \in BOOLEAN
      BY DEF Acked, Blamed
    <3>3. QED
      BY <2>1, <3>1, <3>2, VotesReset DEF VotesInv
  <2>3. CASE n # me
    <3>1. /\ rep'[me] = rep[me] /\ inRound'[me] = inRound[me]
          /\ UNCHANGED <<votes, credited, missed>>
      BY <1>4, <2>1, <2>3 DEF EndRound, monitorVars, TypeOK
    <3>2. QED
      BY <2>1, <3>1 DEF VotesInv, Acked, Blamed
  <2>4. QED
    BY <2>2, <2>3
<1>5. ASSUME NEW m \in Messages, Send(m) PROVE VotesInv'
  BY <1>1, <1>5 DEF Send, roundVars, monitorVars
<1>6. ASSUME NEW f \in air, NEW received \in BOOLEAN, NEW captured \in BOOLEAN,
             Forward(f, received, captured)
      PROVE  VotesInv'
  <2>1. f.msg \in Messages /\ UNCHANGED roundVars
    BY <1>6 DEF Forward, TypeOK, Packet
  <2>2. StartTimer(f.msg) \/ StopTimer(f.msg) \/ UNCHANGED monitorVars
    BY <1>6 DEF Forward, PromiscuousCallback
  <2>3. CASE StartTimer(f.msg) \/ UNCHANGED monitorVars
    BY <1>1, <2>1, <2>3 DEF StartTimer, roundVars, monitorVars
  <2>4. CASE StopTimer(f.msg)
    BY <2>1, <2>4, StopVotesInv
  <2>5. QED
    BY <2>2, <2>3, <2>4
<1>7. ASSUME NEW f \in air, Drop(f) PROVE VotesInv'
  BY <1>1, <1>7 DEF Drop, roundVars, monitorVars
<1>8. ASSUME NEW m \in Messages, Expire(m) \/ ExpireStray(m) PROVE VotesInv'
  BY <1>8, PenaltyVotesInv DEF Expire, ExpireStray
<1>9. CASE UNCHANGED vars
  BY <1>1, <1>9 DEF vars, roundVars, monitorVars
<1>10. QED
  BY <1>2, <1>3, <1>4, <1>5, <1>6, <1>7, <1>8, <1>9 DEF Next, Step

\* What my vote about n says of its entry.
LEMMA VoteGrounds ==
  ASSUME TypeOK, VotesInv, ~inRound[me], NEW n \in Nodes
  PROVE  /\ MyVote(n) = "Positive" => Acked(n)
         /\ MyVote(n) = "Negative" => rep[me] < 50 \/ Blamed(n)
<1> DEFINE v == votes[n]
<1>1. rep[me] \in 0..255
  BY NetworkAssumption, ReputationsAssumption DEF TypeOK
<1>2. CASE votes[n] = NoVote
  BY <1>2 DEF MyVote
<1>3. CASE votes[n] # NoVote
  <2>1. v \in Vote /\ Rests(v, rep[me], Acked(n), Blamed(n))
    BY <1>3 DEF VotesInv, TypeOK
  <2>2. v.num \in Nat /\ v.den \in Nat \ {0} /\ rep[me] * v.den \in Nat
    BY <1>1, <2>1 DEF Vote
  <2>3. rep[me] * v.den <= 255 * v.den
    BY <1>1, <2>2
  <2>4. ASSUME MyVote(n) = "Positive" PROVE Acked(n)
    <3>1. v.cast /\ v.num > 250 * v.den
      BY <1>3, <2>4 DEF MyVote, VoteState, Above
    <3>2. 2 * v.num > 255 * v.den
      BY <2>2, <3>1
    <3>3. QED
      BY <2>1, <2>2, <2>3, <3>1, <3>2 DEF Rests
  <2>5. ASSUME MyVote(n) = "Negative", ~Blamed(n) PROVE rep[me] < 50
    <3>1. v.num < 50 * v.den
      BY <1>3, <2>5 DEF MyVote, VoteState, Below
    <3>2. rep[me] * v.den < 50 * v.den
      BY <2>1, <2>2, <2>5, <3>1 DEF Rests
    <3>3. QED
      BY <1>1, <2>2, <3>2
  <2>6. QED
    BY <2>4, <2>5
<1>4. QED
  BY <1>2, <1>3

\* Between rounds, a positive vote about n rests on an acknowledgement that came
\* along n and was captured since the last reset.
THEOREM PositiveVotesEarned == Spec => []PositiveNeedsAck
<1>1. Init => TypeOK /\ VotesInv
  BY InitTypeOK, InitVotesInv
<1>2. TypeOK /\ VotesInv /\ [Next]_vars => TypeOK' /\ VotesInv'
  BY NextTypeOK, NextVotesInv
<1>3. TypeOK /\ VotesInv => PositiveNeedsAck
  BY VoteGrounds DEF PositiveNeedsAck, Acked
<1>4. QED
  BY <1>1, <1>2, <1>3, PTL DEF Spec

\* Between rounds, a negative vote about n rests on the timer of a message along
\* n that expired since the last reset, or on a reputation that was low before.
THEOREM NegativeVotesEarned == Spec => []NegativeNeedsMiss
<1>1. Init => TypeOK /\ VotesInv
  BY InitTypeOK, InitVotesInv
<1>2. TypeOK /\ VotesInv /\ [Next]_vars => TypeOK' /\ VotesInv'
  BY NextTypeOK, NextVotesInv
<1>3. TypeOK /\ VotesInv => NegativeNeedsMiss
  BY VoteGrounds DEF NegativeNeedsMiss, Blamed
<1>4. QED
  BY <1>1, <1>2, <1>3, PTL DEF Spec
-----------------------------------------------------------------------------
(***************************************************************************)
(* One timer for a message.                                                *)
(***************************************************************************)
\* GetPathFromSourceToDestination returns a path no longer than any other.
LEMMA PathFromShortest ==
  ASSUME NEW links \in SUBSET Edges, NEW s \in Nodes, NEW d \in Nodes,
         PathFrom(links, s, d) # <<>>
  PROVE  \E k \in 2..Cardinality(Nodes) :
           /\ PathFrom(links, s, d) \in Paths(links, s, d, k)
           /\ \A l \in 2..k : Paths(links, s, d, l) # {} => l = k
<1> DEFINE lengths == {k \in 2..Cardinality(Nodes) : Paths(links, s, d, k) # {}}
           shortest == CHOOSE k \in lengths : \A l \in lengths : k <= l
<1>1. Cardinality(Nodes) \in Nat
  BY NetworkAssumption, FS_CardinalityType
<1>2. lengths # {}
  BY DEF PathFrom
<1>3. shortest \in lengths /\ \A l \in lengths : shortest <= l
  <2>1. lengths \in SUBSET Nat
    BY <1>1
  <2> HIDE DEF lengths
  <2>2. \E k \in lengths : \A l \in lengths : k <= l
    BY <1>2, <2>1, LeastNatural
  <2>3. QED
    BY <2>2
<1>4. PathFrom(links, s, d) = CHOOSE w \in Paths(links, s, d, shortest) : TRUE
  BY <1>2 DEF PathFrom
<1>5. PathFrom(links, s, d) \in Paths(links, s, d, shortest)
  BY <1>3, <1>4
<1>6. ASSUME NEW l \in 2..shortest, Paths(links, s, d, l) # {} PROVE l = shortest
  <2>1. shortest \in 2..Cardinality(Nodes)
    BY <1>3
  <2>2. l \in lengths
    BY <1>1, <1>6, <2>1
  <2>3. shortest <= l
    BY <1>3, <2>2
  <2>4. QED
    BY <1>1, <2>1, <2>3
<1>7. QED
  BY <1>3, <1>5, <1>6

\* What is left of a path from its node i on.
LEMMA PathSuffix ==
  ASSUME NEW links, NEW s, NEW d, NEW k \in Nat, NEW w \in Paths(links, s, d, k),
         NEW i \in 1..k
  PROVE  Paths(links, w[i], d, k - i + 1) # {}
<1> DEFINE v == [j \in 1..(k - i + 1) |-> w[j + i - 1]]
<1>1. w \in [1..k -> Nodes] /\ w[k] = d /\ \A j \in 1..(k - 1) : {w[j], w[j + 1]} \in links
  BY DEF Paths, Walks
<1>2. \A j \in 1..(k - i + 1) : j + i - 1 \in 1..k
  OBVIOUS
<1>3. v \in Walks(k - i + 1)
  BY <1>1, <1>2 DEF Walks
<1>4. v[1] = w[i]
  <2>1. 1 \in 1..(k - i + 1) /\ 1 + i - 1 = i
    OBVIOUS
  <2>2. QED
    BY <2>1
<1>5. v[k - i + 1] = d
  <2>1. k - i + 1 \in 1..(k - i + 1) /\ (k - i + 1) + i - 1 = k
    OBVIOUS
  <2>2. QED
    BY <1>1, <2>1
<1>6. ASSUME NEW j \in 1..(k - i + 1 - 1) PROVE {v[j], v[j + 1]} \in links
  <2>1. /\ j \in 1..(k - i + 1) /\ j + 1 \in 1..(k - i + 1)
        /\ j + i - 1 \in 1..(k - 1) /\ (j + 1) + i - 1 = (j + i - 1) + 1
    OBVIOUS
  <2>2. v[j] = w[j + i - 1] /\ v[j + 1] = w[(j + i - 1) + 1]
    BY <2>1
  <2>3. QED
    BY <1>1, <2>1, <2>2
<1>7. v \in Paths(links, w[i], d, k - i + 1)
  <2> HIDE DEF v
  <2>1. PICK l : l = k - i + 1
    OBVIOUS
  <2>2. v \in Walks(l) /\ v[1] = w[i] /\ v[l] = d
    BY <1>3, <1>4, <1>5, <2>1
  <2>3. \A j \in 1..(l - 1) : {v[j], v[j + 1]} \in links
    BY <1>6, <2>1
  <2>4. v \in Paths(links, w[i], d, l)
    BY <2>2, <2>3 DEF Paths
  <2>5. QED
    BY <2>1, <2>4
<1>8. QED
  BY <1>7

\* A link to its first node makes a path longer by one.
LEMMA PathPrefix ==
  ASSUME NEW links, NEW s \in Nodes, NEW x, NEW d, NEW k \in Nat \ {0},
         Paths(links, x, d, k) # {}, {s, x} \in links
  PROVE  Paths(links, s, d, k + 1) # {}
<1>1. PICK w : w \in Paths(links, x, d, k)
  OBVIOUS
<1> DEFINE v == [j \in 1..(k + 1) |-> IF j = 1 THEN s ELSE w[j - 1]]
<1>2. /\ w \in [1..k -> Nodes] /\ w[1] = x /\ w[k] = d
      /\ \A j \in 1..(k - 1) : {w[j], w[j + 1]} \in links
  BY <1>1 DEF Paths, Walks
<1>3. v \in Walks(k + 1)
  BY <1>2 DEF Walks
<1>4. v[1] = s /\ v[2] = x /\ v[k + 1] = d
  BY <1>2
<1>5. ASSUME NEW j \in 1..(k + 1 - 1) PROVE {v[j], v[j + 1]} \in links
  <2>1. CASE j = 1
    <3>1. j + 1 = 2
      BY <2>1
    <3>2. v[j] = s /\ v[j + 1] = x
      BY <1>4, <2>1, <3>1
    <3>3. QED
      BY <3>2
  <2>2. CASE j # 1
    <3>1. /\ j \in 1..(k + 1) /\ j + 1 \in 1..(k + 1) /\ j + 1 # 1
          /\ j - 1 \in 1..(k - 1) /\ (j + 1) - 1 = (j - 1) + 1
      BY <2>2
    <3>2. v[j] = w[j - 1] /\ v[j + 1] = w[(j - 1) + 1]
      BY <2>2, <3>1
    <3>3. QED
      BY <1>2, <3>1, <3>2
  <2>3. QED
    BY <2>1, <2>2
<1>6. v \in Paths(links, s, d, k + 1)
  <2> HIDE DEF v
  <2>1. PICK l : l = k + 1
    OBVIOUS
  <2>2. v \in Walks(l) /\ v[1] = s /\ v[l] = d
    BY <1>3, <1>4, <2>1
  <2>3. \A j \in 1..(l - 1) : {v[j], v[j + 1]} \in links
    BY <1>5, <2>1
  <2>4. v \in Paths(links, s, d, l)
    BY <2>2, <2>3 DEF Paths
  <2>5. QED
    BY <2>1, <2>4
<1>7. QED
  BY <1>6

\* GetPathFromSourceToDestination never leads away from the node it is asked at and
\* back to it, and goes at once to a node it has a link to, if it goes there.
LEMMA ShortestPath ==
  ASSUME NEW links \in SUBSET Edges, NEW s \in Nodes, NEW d \in Nodes, s # d,
         PathFrom(links, s, d) # <<>>
  PROVE  \E k \in 2..Cardinality(Nodes) :
           /\ PathFrom(links, s, d) \in Paths(links, s, d, k)
           /\ \A i \in 1..k : PathFrom(links, s, d)[i] = s => i = 1
           /\ \A i \in 2..k : {s, PathFrom(links, s, d)[i]} \in links => i = 2
<1> DEFINE w == PathFrom(links, s, d)
<1>1. PICK k \in 2..Cardinality(Nodes) :
        /\ w \in Paths(links, s, d, k)
        /\ \A l \in 2..k : Paths(links, s, d, l) # {} => l = k
  BY PathFromShortest
<1>2. k \in Nat /\ w[k] = d
  BY <1>1, NetworkAssumption, FS_CardinalityType DEF Paths
<1> HIDE DEF w
<1>3. ASSUME NEW i \in 1..k, w[i] = s PROVE i = 1
  <2>1. Paths(links, s, d, k - i + 1) # {}
    BY <1>1, <1>2, <1>3, PathSuffix
  <2>2. i # k
    BY <1>2, <1>3
  <2>3. k - i + 1 \in 2..k
    BY <1>2, <2>2
  <2>4. k - i + 1 = k
    BY <1>1, <2>1, <2>3
  <2>5. QED
    BY <1>2, <2>4
<1>4. ASSUME NEW i \in 2..k, {s, w[i]} \in links PROVE i = 2
  <2>1. i \in 1..k
    OBVIOUS
  <2>2. Paths(links, w[i], d, k - i + 1) # {}
    BY <1>1, <1>2, <2>1, PathSuffix
  <2>3. k - i + 1 \in Nat \ {0} /\ (k - i + 1) + 1 \in 2..k
    BY <1>2
  <2>4. Paths(links, s, d, (k - i + 1) + 1) # {}
    BY <1>4, <2>2, <2>3, PathPrefix
  <2>5. (k - i + 1) + 1 = k
    BY <1>1, <2>3, <2>4
  <2>6. QED
    BY <1>2, <2>5
<1>5. QED
  BY <1>1, <1>3, <1>4 DEF w

\* A path from a node outside of C to one in C enters C somewhere.
LEMMA PathEnters ==
  ASSUME NEW links, NEW s, NEW d, NEW k \in Nat, NEW w \in Paths(links, s, d, k),
         NEW C, NEW a \in 1..k, w[a] \notin C, d \in C
  PROVE  \E i \in a..(k - 1) : w[i] \notin C /\ w[i + 1] \in C
<1> DEFINE S == {j \in Nat : j \in a..k /\ w[j] \in C}
<1>1. w[k] = d
  BY DEF Paths
<1>2. k \in S
  BY <1>1
<1>3. PICK j \in S : \A l \in S : j <= l
  <2> HIDE DEF S
  <2>1. S \in SUBSET Nat /\ S # {}
    BY <1>2 DEF S
  <2>2. QED
    BY <2>1, LeastNatural
<1>4. j # a /\ j \in a..k
  BY <1>3
<1>5. j - 1 \in a..(k - 1) /\ (j - 1) + 1 = j
  BY <1>4
<1>6. w[j - 1] \notin C
  <2>1. j - 1 \notin S
    BY <1>3, <1>4
  <2>2. QED
    BY <1>5, <2>1
<1>7. w[(j - 1) + 1] \in C
  BY <1>3, <1>5
<1>8. QED
  BY <1>5, <1>6, <1>7
\* No link leads from a node to itself.
LEMMA EdgeEnds ==
  ASSUME NEW n, NEW p, {n, p} \in Edges
  PROVE  n # p
<1>1. PICK a, b \in Nodes : a # b /\ {n, p} = {a, b}
  BY NetworkAssumption
<1>2. a \in {n, p} /\ b \in {n, p}
  BY <1>1
<1>3. QED
  BY <1>1, <1>2

\* What a table holds before the slot of n has ended, its own links at most, and what
\* it holds then, all of them.
OwnLinks(links, n) ==
  \/ \A e \in links : n \in e
  \/ \A p \in Neighbours(n) : {n, p} \in links

\* The first hop of a packet is a neighbour of the source through which C is entered.
LEMMA HopFromSource ==
  ASSUME NEW m \in Messages, NEW C \in SUBSET Nodes, NEW y \in Nodes, Cut(m, C, y),
         NEW links \in SUBSET Edges, OwnLinks(links, Origin[m]),
         PathFrom(links, Origin[m], Target[m]) # <<>>
  PROVE  {PathFrom(links, Origin[m], Target[m])[2], y} \in Edges
<1> DEFINE o == Origin[m]
           d == Target[m]
           w == PathFrom(links, o, d)
<1>1. o \in Nodes /\ d \in Nodes /\ o # d /\ o \notin C /\ d \in C
  BY MessagesAssumption DEF Cut
<1> HIDE DEF o, d
<1>2. PICK k \in 2..Cardinality(Nodes) :
        /\ w \in Paths(links, o, d, k)
        /\ \A i \in 2..k : {o, w[i]} \in links => i = 2
  BY <1>1, ShortestPath DEF o, d
<1> HIDE DEF w
<1>3. k \in Nat \ {0} /\ 1 \in 1..k
  BY NetworkAssumption, FS_CardinalityType
<1>4. /\ w \in [1..k -> Nodes] /\ w[1] = o
      /\ \A i \in 1..(k - 1) : {w[i], w[i + 1]} \in links
  BY <1>2 DEF Paths, Walks
<1>5. PICK i \in 1..(k - 1) : w[i] \notin C /\ w[i + 1] \in C
  BY <1>1, <1>2, <1>3, <1>4, PathEnters
<1>6. {w[i], w[i + 1]} \in links /\ w[i] \in Nodes /\ w[i + 1] \in Nodes
  BY <1>3, <1>4
<1>7. w[i + 1] = y /\ {o, w[i]} \in Edges
  BY <1>5, <1>6 DEF Cut, o
<1>8. w[i] # o
  BY <1>7, EdgeEnds
<1>9. {o, w[i]} \in links
  <2>1. o \notin {w[i], w[i + 1]}
    BY <1>1, <1>5, <1>8
  <2>2. \A p \in Neighbours(o) : {o, p} \in links
    BY <1>6, <2>1 DEF OwnLinks, o
  <2>3. QED
    BY <1>6, <1>7, <2>2 DEF Neighbours
<1>10. i \in 2..k
  BY <1>3, <1>4, <1>8
<1>11. i = 2
  BY <1>2, <1>9, <1>10
<1>12. {w[2], y} \in Edges
  BY <1>6, <1>7, <1>11
<1>13. QED
  BY <1>12 DEF w, o, d

\* A node outside of C with a link to y sends a packet to y.
LEMMA HopIntoFar ==
  ASSUME NEW m \in Messages, NEW C \in SUBSET Nodes, NEW y \in Nodes, Cut(m, C, y),
         NEW s \in Nodes, s \notin C, {s, y} \in Edges,
         NEW links \in SUBSET Edges, OwnLinks(links, s),
         PathFrom(links, s, Target[m]) # <<>>
  PROVE  PathFrom(links, s, Target[m])[2] \in C
<1> DEFINE d == Target[m]
           w == PathFrom(links, s, d)
<1>1. d \in Nodes /\ s # d /\ d \in C /\ y \in C
  BY MessagesAssumption DEF Cut
<1> HIDE DEF d
<1>2. PICK k \in 2..Cardinality(Nodes) :
        /\ w \in Paths(links, s, d, k)
        /\ \A i \in 1..k : w[i] = s => i = 1
        /\ \A i \in 2..k : {s, w[i]} \in links => i = 2
  BY <1>1, ShortestPath DEF d
<1> HIDE DEF w
<1>3. k \in Nat \ {0} /\ 1 \in 1..k
  BY NetworkAssumption, FS_CardinalityType
<1>4. /\ w \in [1..k -> Nodes] /\ w[1] = s
      /\ \A i \in 1..(k - 1) : {w[i], w[i + 1]} \in links
  BY <1>2 DEF Paths, Walks
<1>5. PICK i \in 1..(k - 1) : w[i] \notin C /\ w[i + 1] \in C
  BY <1>1, <1>2, <1>3, <1>4, PathEnters
<1>6. /\ {w[i], w[i + 1]} \in links /\ w[i] \in Nodes /\ w[i + 1] \in Nodes
      /\ i \in 1..k /\ i + 1 \in 2..k
  BY <1>3, <1>4
<1>7. w[i + 1] = y
  BY <1>5, <1>6 DEF Cut
<1>8. CASE \A e \in links : s \in e
  <2>1. s = w[i]
    BY <1>1, <1>6, <1>7, <1>8
  <2>2. i = 1
    BY <1>2, <1>6, <2>1
  <2>3. QED
    BY <1>5, <2>2 DEF w, d
<1>9. CASE \A p \in Neighbours(s) : {s, p} \in links
  <2>1. {s, w[i + 1]} \in links
    BY <1>7, <1>9 DEF Neighbours
  <2>2. i + 1 = 2
    BY <1>2, <1>6, <2>1
  <2>3. QED
    BY <1>5, <2>2 DEF w, d
<1>10. QED
  BY <1>8, <1>9 DEF OwnLinks

\* A packet in C stays in C.
LEMMA HopStaysFar ==
  ASSUME NEW m \in Messages, NEW C \in SUBSET Nodes, NEW y \in Nodes, Cut(m, C, y),
         NEW s \in C, s # Target[m], NEW links \in SUBSET Edges,
         PathFrom(links, s, Target[m]) # <<>>
  PROVE  PathFrom(links, s, Target[m])[2] \in C
<1> DEFINE d == Target[m]
           w == PathFrom(links, s, d)
<1>1. d \in Nodes /\ s # d /\ d \in C /\ s \in Nodes
  BY MessagesAssumption DEF Cut
<1> HIDE DEF d
<1>2. PICK k \in 2..Cardinality(Nodes) :
        /\ w \in Paths(links, s, d, k)
        /\ \A i \in 1..k : w[i] = s => i = 1
  BY <1>1, ShortestPath DEF d
<1> HIDE DEF w
<1>3. k \in Nat /\ 1 \in 1..(k - 1) /\ 2 \in 1..k /\ 1 + 1 = 2
  BY NetworkAssumption, FS_CardinalityType
<1>4. /\ w \in [1..k -> Nodes] /\ w[1] = s
      /\ \A i \in 1..(k - 1) : {w[i], w[i + 1]} \in links
  BY <1>2 DEF Paths, Walks
<1>5. {w[2], s} \in links
  <2>1. {w[1], w[2]} \in links
    BY <1>3, <1>4
  <2>2. {w[1], w[2]} = {w[2], s}
    BY <1>4
  <2>3. QED
    BY <2>1, <2>2
<1>6. ASSUME w[2] \notin C PROVE FALSE
  <2>1. s = y
    BY <1>3, <1>4, <1>5, <1>6 DEF Cut
  <2>2. PICK i \in 2..(k - 1) : w[i] \notin C /\ w[i + 1] \in C
    BY <1>1, <1>2, <1>3, <1>6, PathEnters
  <2>3. /\ {w[i], w[i + 1]} \in links /\ w[i] \in Nodes /\ w[i + 1] \in Nodes
        /\ i + 1 \in 1..k /\ i + 1 # 1
    BY <1>3, <1>4
  <2>4. w[i + 1] = y
    BY <2>2, <2>3 DEF Cut
  <2>5. QED
    BY <1>2, <2>1, <2>3, <2>4
<1>7. QED
  BY <1>6 DEF w, d

\* A source sends a packet to a neighbour straight to it.
LEMMA HopToNeighbour ==
  ASSUME NEW m \in Messages, {Origin[m], Target[m]} \in Edges,
         NEW links \in SUBSET Edges, OwnLinks(links, Origin[m]),
         PathFrom(links, Origin[m], Target[m]) # <<>>
  PROVE  PathFrom(links, Origin[m], Target[m])[2] = Target[m]
<1> DEFINE o == Origin[m]
           d == Target[m]
           w == PathFrom(links, o, d)
<1>1. o \in Nodes /\ d \in Nodes /\ o # d
  BY MessagesAssumption
<1> HIDE DEF o, d
<1>2. PICK k \in 2..Cardinality(Nodes) :
        /\ w \in Paths(links, o, d, k)
        /\ \A i \in 1..k : w[i] = o => i = 1
        /\ \A i \in 2..k : {o, w[i]} \in links => i = 2
  BY <1>1, ShortestPath DEF o, d
<1> HIDE DEF w
<1>3. k \in Nat /\ k - 1 \in 1..(k - 1) /\ k - 1 \in 1..k /\ k \in 2..k /\ (k - 1) + 1 = k
  BY NetworkAssumption, FS_CardinalityType
<1>4. w[k] = d /\ \A i \in 1..(k - 1) : {w[i], w[i + 1]} \in links
  BY <1>2 DEF Paths
<1>5. {w[k - 1], d} \in links
  BY <1>3, <1>4
<1>6. CASE \A e \in links : o \in e
  <2>1. w[k - 1] = o
    BY <1>1, <1>5, <1>6
  <2>2. k - 1 = 1
    BY <1>2, <1>3, <2>1
  <2>3. k = 2
    BY <1>3, <2>2
  <2>4. QED
    BY <1>4, <2>3 DEF w, o, d
<1>7. CASE \A p \in Neighbours(o) : {o, p} \in links
  <2>1. {o, w[k]} \in links
    BY <1>1, <1>4, <1>7 DEF Neighbours, o, d
  <2>2. k = 2
    BY <1>2, <1>3, <2>1
  <2>3. QED
    BY <1>4, <2>2 DEF w, o, d
<1>8. QED
  BY <1>6, <1>7 DEF OwnLinks, o

\* The monitor watches the message itself only when a neighbour of its source sends it.
LEMMA WatchedSender ==
  ASSUME TypeOK, NEW f \in air, me \in Neighbours(f.at), Watches(Origin[f.msg], f.at)
  PROVE  {Origin[f.msg], f.at} \in Edges
<1>1. table[me] \subseteq Edges
  BY NetworkAssumption DEF TypeOK
<1>2. CASE me = Origin[f.msg]
  <2>1. {f.at, me} = {me, f.at}
    OBVIOUS
  <2>2. QED
    BY <1>2, <2>1 DEF Neighbours
<1>3. CASE me # Origin[f.msg]
  BY <1>1, <1>3 DEF Watches, IsIPInNeigh
<1>4. QED
  BY <1>2, <1>3
\* The messages with a timer.
Timed == running \cup stray

\* The message f has not arrived; unless it is past the neighbours of its source, none
\* of them has been heard to send it on, so that it is not one of those timed.
OnTheWay(f, timed) ==
  /\ f.at # Target[f.msg]
  /\ {Origin[f.msg], Target[f.msg]} \in Edges => f.at = Origin[f.msg] /\ f.msg \notin timed
  /\ \A C \in SUBSET Nodes, y \in Nodes :
       Cut(f.msg, C, y) =>
         \/ f.at \in C
         \/ /\ f.msg \notin timed
            /\ f.at = Origin[f.msg] \/ {f.at, y} \in Edges

\* A message with two timers is one that two neighbours of its source may relay.
SecondTimerNeedsRelay == \A m \in running \cap stray : ~OneRelay(m)

RelayInv ==
  /\ \A n \in Nodes : OwnLinks(table[n], n)
  /\ unsent \cap Timed = {}
  /\ \A f \in air : f.copy = 0 => OnTheWay(f, Timed)
  /\ SecondTimerNeedsRelay

LEMMA InitRelayInv == Init => RelayInv
BY DEF Init, RelayInv, OwnLinks, Neighbours, Timed, SecondTimerNeedsRelay

\* A message on its way stays so while no timer starts for it.
LEMMA StillOnTheWay ==
  ASSUME NEW f, NEW timed, NEW later, OnTheWay(f, timed), f.msg \notin timed => f.msg \notin later
  PROVE  OnTheWay(f, later)
BY DEF OnTheWay

\* A step that starts no timer and moves no packet keeps the invariant.
LEMMA RelayStays ==
  ASSUME RelayInv, Timed' \subseteq Timed, running' \cap stray' \subseteq running \cap stray,
         unsent' \subseteq unsent, air' \subseteq air,
         \A n \in Nodes : OwnLinks(table'[n], n)
  PROVE  RelayInv'
<1>1. ASSUME NEW f \in air', f.copy = 0 PROVE OnTheWay(f, Timed')
  <2>1. OnTheWay(f, Timed)
    BY <1>1 DEF RelayInv
  <2>2. QED
    BY <2>1, StillOnTheWay
<1>2. QED
  BY <1>1 DEF RelayInv, SecondTimerNeedsRelay

\* The message on its way to the next hop, once the messages of later are timed.
LEMMA NextOnTheWay ==
  ASSUME TypeOK, RelayInv, NEW f \in air, f.copy = 0,
         PathFrom(table[f.at], f.at, Final(f)) # <<>>,
         NEW hop, hop = PathFrom(table[f.at], f.at, Final(f))[2], hop # Final(f),
         NEW later, f.msg \notin Timed => f.msg \notin later \/ {Origin[f.msg], f.at} \in Edges
  PROVE  OnTheWay([f EXCEPT !.at = hop], later)
<1> DEFINE m == f.msg
           o == Origin[m]
           d == Target[m]
           g == [f EXCEPT !.at = hop]
<1>1. f \in Packet /\ m \in Messages /\ f.at \in Nodes /\ Final(f) = d
  BY DEF TypeOK, Packet, Final
<1>2. g.at = hop /\ g.msg = m /\ hop \in Nodes /\ d \in Nodes
  <2>1. table[f.at] \in SUBSET Edges
    BY <1>1 DEF TypeOK
  <2>2. d \in Nodes
    BY <1>1, MessagesAssumption
  <2>3. hop \in Nodes
    BY <1>1, <2>1, <2>2, NextHopType
  <2>4. QED
    BY <1>1, <2>2, <2>3 DEF Packet
<1>3. OnTheWay(f, Timed) /\ table[f.at] \in SUBSET Edges /\ OwnLinks(table[f.at], f.at)
  BY <1>1 DEF RelayInv, TypeOK
<1>4. {o, d} \notin Edges
  <2>1. SUFFICES ASSUME {o, d} \in Edges PROVE FALSE
    OBVIOUS
  <2>2. f.at = o
    BY <1>3, <2>1 DEF OnTheWay
  <2>3. hop = d
    BY <1>1, <1>3, <2>1, <2>2, HopToNeighbour
  <2>4. QED
    BY <1>1, <2>3
<1>5. ASSUME NEW C \in SUBSET Nodes, NEW y \in Nodes, Cut(m, C, y)
      PROVE  hop \in C \/ (m \notin later /\ {hop, y} \in Edges)
  <2>1. CASE f.at \in C
    <3>1. f.at # d
      BY <1>3 DEF OnTheWay
    <3>2. QED
      BY <1>1, <1>3, <1>5, <2>1, <3>1, HopStaysFar
  <2>2. CASE f.at \notin C /\ f.at = o
    <3>1. {hop, y} \in Edges
      BY <1>1, <1>3, <1>5, <2>2, HopFromSource
    <3>2. {o, f.at} \notin Edges
      BY <2>2, EdgeEnds
    <3>3. m \notin later
      BY <1>3, <1>5, <2>2, <3>2 DEF OnTheWay
    <3>4. QED
      BY <3>1, <3>3
  <2>3. CASE f.at \notin C /\ f.at # o
    <3>1. {f.at, y} \in Edges
      BY <1>3, <1>5, <2>3 DEF OnTheWay
    <3>2. hop \in C
      BY <1>1, <1>3, <1>5, <2>3, <3>1, HopIntoFar
    <3>3. QED
      BY <3>2
  <2>4. QED
    BY <2>1, <2>2, <2>3
<1> HIDE DEF g
<1>6. QED
  BY <1>1, <1>2, <1>4, <1>5 DEF OnTheWay, g

\* What a captured message or acknowledgement does to the timers.
LEMMA CaptureTimers ==
  ASSUME TypeOK, RelayInv,
         NEW f \in air, NEW received \in BOOLEAN, NEW captured \in BOOLEAN,
         Forward(f, received, captured)
  PROVE  \/ Timed' \subseteq Timed /\ running' \cap stray' \subseteq running \cap stray
         \/ /\ f.copy = 0 /\ {Origin[f.msg], f.at} \in Edges
            /\ Timed' = Timed \cup {f.msg}
            /\ \A m \in running' \cap stray' :
                 m \in running \cap stray \/ (m = f.msg /\ ~OneRelay(m))
<1>1. CASE UNCHANGED monitorVars
  BY <1>1 DEF monitorVars, Timed
<1>2. CASE StopTimer(f.msg)
  BY <1>2 DEF StopTimer, Timed
<1>3. CASE /\ captured /\ f.copy = 0
           /\ Watches(Origin[f.msg], f.at) /\ StartTimer(f.msg)
  <2>1. {Origin[f.msg], f.at} \in Edges
    BY <1>3, WatchedSender DEF Forward
  <2>2. OnTheWay(f, Timed) /\ f.msg \in Messages
    BY <1>3 DEF RelayInv, TypeOK, Packet
  <2>3. f.at # Origin[f.msg]
    BY <2>1, EdgeEnds
  <2>4. ASSUME OneRelay(f.msg) PROVE f.msg \notin Timed
    <3>1. CASE {Origin[f.msg], Target[f.msg]} \in Edges
      BY <2>2, <3>1 DEF OnTheWay
    <3>2. ASSUME NEW C \in SUBSET Nodes, NEW y \in Nodes, Cut(f.msg, C, y)
          PROVE  f.msg \notin Timed
      <4>1. Origin[f.msg] \in Nodes
        BY <2>2, MessagesAssumption
      <4>2. ASSUME f.at \in C PROVE FALSE
        <5>1. {Origin[f.msg], Origin[f.msg]} \in Edges
          BY <2>1, <3>2, <4>1, <4>2 DEF Cut
        <5>2. QED
          BY <5>1, EdgeEnds
      <4>3. QED
        BY <2>2, <3>2, <4>2 DEF OnTheWay
    <3>3. QED
      BY <2>4, <3>1, <3>2 DEF OneRelay
  <2>5. running' = running \cup {f.msg} /\ stray' = stray \cup (running \cap {f.msg})
    BY <1>3 DEF StartTimer
  <2>6. QED
    BY <1>3, <2>1, <2>4, <2>5 DEF Timed
<1>4. QED
  BY <1>1, <1>2, <1>3 DEF Forward, PromiscuousCallback

LEMMA ForwardRelayInv ==
  ASSUME TypeOK, AckInv, RelayInv,
         NEW f \in air, NEW received \in BOOLEAN, NEW captured \in BOOLEAN,
         Forward(f, received, captured)
  PROVE  RelayInv'
<1> DEFINE hop == PathFrom(table[f.at], f.at, Final(f))[2]
           g == [f EXCEPT !.at = hop]
<1>1. UNCHANGED <<round, inRound, table, unsent>> /\ f \in Packet
  BY DEF Forward, roundVars, TypeOK
<1>2. CASE f.copy # 0
  <2>1. Timed' \subseteq Timed /\ running' \cap stray' \subseteq running \cap stray
    BY <1>2, CaptureTimers
  <2>2. ASSUME NEW h \in air', h.copy = 0 PROVE OnTheWay(h, Timed')
    <3>1. h \in air
      <4>1. h \in air \/ h = g \/ h \in Received(f)
        BY DEF Forward
      <4>2. QED
        BY <1>1, <1>2, <2>2, <4>1 DEF Received, Packet
    <3>2. OnTheWay(h, Timed)
      BY <2>2, <3>1 DEF RelayInv
    <3>3. QED
      BY <2>1, <3>2, StillOnTheWay
  <2>3. QED
    BY <1>1, <2>1, <2>2 DEF RelayInv, SecondTimerNeedsRelay
<1>3. CASE f.copy = 0
  <2>1. /\ Timed' \subseteq Timed \cup {f.msg}
        /\ f.msg \notin Timed => f.msg \notin Timed' \/ {Origin[f.msg], f.at} \in Edges
        /\ SecondTimerNeedsRelay'
    BY CaptureTimers DEF RelayInv, SecondTimerNeedsRelay
  <2>2. \A h \in air : h # f => h.msg # f.msg
    BY <1>3 DEF AckInv
  <2>3. unsent' \cap Timed' = {}
    BY <1>1, <2>1 DEF RelayInv, AckInv
  <2>4. ASSUME NEW h \in air, h # f, h.copy = 0 PROVE OnTheWay(h, Timed')
    <3>1. h.msg \notin Timed => h.msg \notin Timed'
      BY <2>1, <2>2, <2>4
    <3>2. OnTheWay(h, Timed)
      BY <2>4 DEF RelayInv
    <3>3. QED
      BY <3>1, <3>2, StillOnTheWay
  <2>5. ASSUME hop # Final(f) PROVE OnTheWay(g, Timed')
    <3>1. PathFrom(table[f.at], f.at, Final(f)) # <<>>
      BY DEF Forward
    <3>2. hop = PathFrom(table[f.at], f.at, Final(f))[2]
      OBVIOUS
    <3> HIDE DEF hop
    <3>3. QED
      BY <1>3, <2>1, <2>5, <3>1, <3>2, NextOnTheWay
  <2>6. ASSUME NEW h \in air', h.copy = 0 PROVE OnTheWay(h, Timed')
    <3>1. h \notin Received(f)
      BY <1>1, <2>6 DEF Received, Packet
    <3>2. (h \in air /\ h # f) \/ (h = g /\ hop # Final(f))
      BY <3>1 DEF Forward
    <3> HIDE DEF hop, g
    <3>3. QED
      BY <2>4, <2>5, <2>6, <3>2
  <2>7. QED
    BY <1>1, <2>1, <2>3, <2>6 DEF RelayInv
<1>4. QED
  BY <1>2, <1>3

\* A node that enters a round empties its table but for the link it hears of.
LEMMA EnterOwnLinks ==
  ASSUME TypeOK, RelayInv, NEW n \in Nodes, NEW known, Enter(n, known),
         \A e \in known : n \in e, NEW p \in Nodes
  PROVE  OwnLinks(table'[p], p)
<1>1. table'[p] = IF p = n THEN known ELSE table[p]
  BY DEF Enter, TypeOK
<1>2. QED
  BY <1>1 DEF RelayInv, OwnLinks

LEMMA NextRelayInv ==
  ASSUME TypeOK, AckInv, RelayInv, [Next]_vars
  PROVE  RelayInv'
<1>1. ASSUME UNCHANGED <<table, running, stray>>, unsent' \subseteq unsent, air' \subseteq air
      PROVE  RelayInv'
  BY <1>1, RelayStays DEF RelayInv, Timed
<1>2. ASSUME NEW n \in Nodes, NEW p \in Nodes, Enter(n, {}) \/ Enter(n, {{n, p}}),
             UNCHANGED <<air, unsent, running, stray>>
      PROVE  RelayInv'
  <2>1. \A q \in Nodes : OwnLinks(table'[q], q)
    BY <1>2, EnterOwnLinks
  <2>2. QED
    BY <1>2, <2>1, RelayStays DEF Timed
<1>3. CASE StartRound
  BY <1>2, <1>3, NetworkAssumption DEF StartRound, monitorVars
<1>4. ASSUME NEW n \in Nodes, NEW known, table' = [table EXCEPT ![n] = @ \cup known],
             (\A e \in known : n \in e) \/ SlotEnded(n),
             UNCHANGED <<air, unsent, running, stray>>
      PROVE  RelayInv'
  <2>1. ASSUME NEW q \in Nodes PROVE OwnLinks(table'[q], q)
    <3>1. table'[q] = IF q = n THEN table[q] \cup known ELSE table[q]
      BY <1>4 DEF TypeOK
    <3>2. OwnLinks(table[q], q)
      BY DEF RelayInv
    <3>3. CASE \A e \in known : n \in e
      BY <3>1, <3>2, <3>3 DEF OwnLinks
    <3>4. CASE SlotEnded(n)
      BY <3>1, <3>2, <3>4 DEF OwnLinks, SlotEnded
    <3>5. QED
      BY <1>4, <3>3, <3>4
  <2>2. QED
    BY <1>4, <2>1, RelayStays DEF Timed
<1>5. ASSUME NEW n \in Nodes, NEW p \in Nodes, HearHello(n, p) PROVE RelayInv'
  <2>1. UNCHANGED <<air, unsent, running, stray>>
    BY <1>5 DEF HearHello, monitorVars
  <2>2. CASE round[n] < round[p]
    BY <1>2, <1>5, <2>1, <2>2 DEF HearHello
  <2>3. CASE ~(round[n] < round[p])
    <3>1. table' = [table EXCEPT ![n] = @ \cup {{n, p}}]
      BY <1>5, <2>3 DEF HearHello
    <3>2. PICK known : known = {{n, p}}
      OBVIOUS
    <3>3. table' = [table EXCEPT ![n] = @ \cup known] /\ \A e \in known : n \in e
      BY <3>1, <3>2
    <3>4. QED
      BY <1>4, <2>1, <3>3
  <2>4. QED
    BY <2>2, <2>3
<1>6. ASSUME NEW n \in Nodes, NEW p \in Nodes, Learn(n, p) PROVE RelayInv'
  BY <1>4, <1>6 DEF Learn, monitorVars
<1>7. ASSUME NEW n \in Nodes, NEW r \in Reputations, EndRound(n, r) PROVE RelayInv'
  <2>1. UNCHANGED <<table, air, unsent>>
    BY <1>7 DEF EndRound
  <2>2. (running' = {} /\ stray' = stray \cup running) \/ UNCHANGED <<running, stray>>
    BY <1>7 DEF EndRound, ResetVariables, monitorVars
  <2>3. QED
    BY <2>1, <2>2, RelayStays DEF RelayInv, Timed
<1>8. ASSUME NEW m \in Messages, Send(m) PROVE RelayInv'
  <2> DEFINE sent == [msg |-> m, copy |-> 0, at |-> Origin[m]]
  <2>1. /\ m \in unsent /\ unsent' \subseteq unsent /\ air' = air \cup {sent}
        /\ UNCHANGED <<table, running, stray>>
    BY <1>8 DEF Send, roundVars, monitorVars
  <2>2. m \notin Timed /\ Timed' = Timed /\ Origin[m] # Target[m]
    BY <2>1, MessagesAssumption DEF RelayInv, Timed
  <2>3. OnTheWay(sent, Timed')
    BY <2>2 DEF OnTheWay
  <2> HIDE DEF sent
  <2>4. QED
    BY <2>1, <2>2, <2>3 DEF RelayInv, SecondTimerNeedsRelay
<1>9. ASSUME NEW f \in air, NEW received \in BOOLEAN, NEW captured \in BOOLEAN,
             Forward(f, received, captured)
      PROVE  RelayInv'
  BY <1>9, ForwardRelayInv
<1>10. ASSUME NEW f \in air, Drop(f) PROVE RelayInv'
  BY <1>1, <1>10 DEF Drop, roundVars, monitorVars
<1>11. ASSUME NEW m \in Messages, Expire(m) \/ ExpireStray(m) PROVE RelayInv'
  <2>1. UNCHANGED <<table, air, unsent>>
    BY <1>11 DEF Expire, ExpireStray, roundVars
  <2>2. running' \subseteq running /\ stray' \subseteq stray
    BY <1>11 DEF Expire, ExpireStray
  <2>3. QED
    BY <2>1, <2>2, RelayStays DEF RelayInv, Timed
<1>12. CASE UNCHANGED vars
  BY <1>1, <1>12 DEF vars, roundVars, monitorVars
<1>13. QED
  BY <1>3, <1>5, <1>6, <1>7, <1>8, <1>9, <1>10, <1>11, <1>12 DEF Next, Step

\* On every network, whatever the monitor captures, however rounds change the tables
\* while a message is under way, and although a reset forgets its timer: the monitor
\* never runs two timers for a message that one neighbour of its source at most relays.
THEOREM SecondTimerCorrect == Spec => []SecondTimerNeedsRelay
<1>1. Init => TypeOK /\ AckInv /\ RelayInv
  BY InitTypeOK, InitAckInv, InitRelayInv
<1>2. TypeOK /\ AckInv /\ RelayInv /\ [Next]_vars => TypeOK' /\ AckInv' /\ RelayInv'
  BY NextTypeOK, NextAckInv, NextRelayInv
<1>3. RelayInv => SecondTimerNeedsRelay
  BY DEF RelayInv
<1>4. QED
  BY <1>1, <1>2, <1>3, PTL DEF Spec

\* The monitor runs one timer for a message, whatever it captures, on every network and
\* for all messages that one neighbour of their source at most relays.
THEOREM OneTimerCorrect ==
  ASSUME \A m \in Messages : OneRelay(m)
  PROVE  Spec => []OneTimerPerMessage
<1>1. TypeOK /\ SecondTimerNeedsRelay => OneTimerPerMessage
  BY DEF TypeOK, SecondTimerNeedsRelay, OneTimerPerMessage
<1>2. QED
  BY <1>1, MonitorTypeCorrect, SecondTimerCorrect, PTL
=============================================================================
