---------------------------- MODULE BloomExchange ----------------------------
(***************************************************************************)
(* How one parent and one child of the tree that SAHARA Sync builds make   *)
(* their tables equal: hellos, then the parent's Bloom filter and what the *)
(* child has beyond it, then the child's filter and what the parent has    *)
(* beyond it.  Messages cross in the packets that Wire describes, and a    *)
(* handler sees what it reads from the packet.  Both ways of sizing the    *)
(* filters are here: of a fixed size (m_sr_dynamic_ON false) or for the    *)
(* number of tuples.                                                       *)
(*                                                                         *)
(* Losses, timers, retries and the requests of several children are        *)
(* SaharaSync's; here one message is under way at a time, while other      *)
(* neighbours make themselves heard.                                       *)
(***************************************************************************)
EXTENDS Wire, FiniteSets

CONSTANTS
  Child, Parent,  \* the addresses of the two
  Others,         \* those of their other neighbours
  Elder,          \* the parent of Parent, when that is not the root
  Infos,          \* reputations, positions and batteries
  Info,           \* those of each node, the same for a whole round
  Ballots,        \* the vote packet of each node
  HashFunctions,  \* m_num_hash_functions
  Digest(_, _),   \* the number made of the hash of a prefix and a tuple
  StaticBits,     \* m_optimalNumberBits
  BitsPer(_),     \* bits of a dynamic filter for so many tuples
  MaxTuples       \* bound: the tuples of both tables when they grow by hellos

Ends == {Child, Parent}
Peer(e) == IF e = Child THEN Parent ELSE Child
Addresses == Ends \cup Others
NoAddress == 0   \* what Ipv4Address() makes: the address of nobody

Tuples ==
  {t \in [one : Addresses, other : Addresses, infoOne : Infos, infoOther : Infos] :
     t.one < t.other}

ASSUME NodesAssumption ==
  /\ IsFiniteSet(Others) /\ Addresses \subseteq Nat \ {NoAddress}
  /\ Child # Parent /\ Ends \cap Others = {} /\ Elder \in Others
  /\ Info \in [Addresses -> Infos]

VotePacket == [evaluator : Addresses \cup {NoAddress},
               votes     : Seq(Addresses \X {"Negative", "Positive"}),
               signature : Seq(Nat)]

ASSUME BallotsAssumption ==
  \A a \in Addresses : Ballots[a] \in VotePacket /\ Ballots[a].evaluator = a

\* 16 bits cut no filter down to nothing, as 12.364... bits a tuple make a multiple of
\* 65536 for no number of tuples up to 13000, twice m_nTuplesWorstCase and more.
ASSUME FiltersAssumption ==
  /\ HashFunctions \in Nat \ {0}
  /\ \A k \in 1..HashFunctions, t \in Tuples : Digest(k, t) \in Nat
  /\ StaticBits \in 1..(Word - 1)
  /\ \A n \in 1..(MaxTuples + 2) : BitsPer(n) \in Nat /\ BitsPer(n) % Word # 0

\* 16 bits count the tuples of a table, of which there are 6000 at most
\* (m_nTuplesWorstCase), and the addresses of the network.
ASSUME CountsAssumption ==
  /\ MaxTuples \in Nat \ {0} /\ MaxTuples + 2 < Word
  /\ Cardinality(Addresses) + 1 < Word

VARIABLES
  mode,     \* dynamic: m_sr_dynamic_ON; root: Parent is the root
  step,     \* how far the exchange is, when nothing is under way
  table,    \* m_tuples
  votes,    \* m_globalVotes: the vote packet stored under an address
  stored,   \* the last filter received: m_parentBF, m_listBFChildren
  air,      \* the message under way: its receiver, the message, the packet
  shown,    \* history: the tuples in the last filter of each that fits 16 bits
  tried     \* history: the tuples each compared with the other's filter

vars == <<mode, step, table, votes, stored, air, shown, tried>>

Nobody == [a \in {} |-> {}]
NoBallot == [evaluator |-> NoAddress, votes |-> <<>>, signature |-> <<>>]

-----------------------------------------------------------------------------
(* Tables and filters.                                                     *)

\* What WriteDataToFile wrote when a started, and its reputation; nothing in the
\* program writes the file again.
ReadDataFromFile(a) == Info[a]

\* UpdateAllowedIPs took in the addresses of all nodes.
IpAllowed(a) == a \in Addresses

\* Fault: the addresses are put in order and the data are not.
OrderedSwapped(origin, hop, infoO, infoH) ==
  IF origin > hop
    THEN [one |-> hop, other |-> origin, infoOne |-> infoO, infoOther |-> infoH]
    ELSE [one |-> origin, other |-> hop, infoOne |-> infoO, infoOther |-> infoH]

\* Fault: the addresses are not put in order.
Unordered(origin, hop, infoO, infoH) ==
  [one |-> origin, other |-> hop, infoOne |-> infoO, infoOther |-> infoH]

\* The lower address first, each with its data.
Ordered(origin, hop, infoO, infoH) ==
  IF origin > hop
    THEN [one |-> hop, other |-> origin, infoOne |-> infoH, infoOther |-> infoO]
    ELSE [one |-> origin, other |-> hop, infoOne |-> infoO, infoOther |-> infoH]

\* Tuples that are there already are not looked for.
AddTuple(tuples, origin, hop, infoO, infoH) ==
  IF IpAllowed(origin) /\ IpAllowed(hop)
    THEN Append(tuples, Ordered(origin, hop, infoO, infoH))
    ELSE tuples

AddMissing(tuples, missing) ==
  FoldLeft(LAMBDA ts, t : AddTuple(ts, t.one, t.other, t.infoOne, t.infoOther),
           tuples, missing)

Index(k, t, size) == (Digest(k, t) % size) + 1

\* Fault: the maker of a filter uses the first hash function alone.
FilterOfOneHash(tuples, size) ==
  LET ones == {Index(1, tuples[i], size) : i \in DOMAIN tuples}
  IN  [i \in 1..size |-> i \in ones]

FilterOf(tuples, size) ==
  LET ones == {Index(k, tuples[i], size) : k \in 1..HashFunctions, i \in DOMAIN tuples}
  IN  [i \in 1..size |-> i \in ones]

CreateBloomFilter(tuples) == FilterOf(tuples, StaticBits)

\* For the tuples of both ends, or (isForward) for those of the asking one.
CreateDynamicBloomFilter(tuples, sizeRTSender, isForward) ==
  FilterOf(tuples, BitsPer(sizeRTSender + (IF isForward THEN 0 ELSE Len(tuples))))

\* Those of a sequence of tuples that are in a set.
Among(tuples, some) ==
  FoldLeft(LAMBDA ts, t : IF t \in some THEN Append(ts, t) ELSE ts, <<>>, tuples)

\* Fault: only the first hash function is tried.
ProcessSetReconciliationOneHash(tuples, filter) ==
  Among(tuples, {t \in Tuples : ~filter[Index(1, t, Len(filter))]})

\* The tuples with a bit that the filter lacks.
ProcessSetReconciliation(tuples, filter) ==
  Among(tuples, {t \in Tuples : \E k \in 1..HashFunctions : ~filter[Index(k, t, Len(filter))]})

\* The order of the keys of a std::map.
Ascending(keys) ==
  [i \in 1..Cardinality(keys) |->
     CHOOSE a \in keys : Cardinality({b \in keys : b < a}) = i - 1]

GetListVotesIP(packets) == Ascending(DOMAIN packets)

\* The packets stored under an address that list does not have.
GetMissingVotePackets(packets, list) ==
  LET missing == Ascending({a \in DOMAIN packets : ~Contains(list, a)})
  IN  [i \in DOMAIN missing |-> packets[missing[i]]]

SetVotes(packets, a, packet) ==
  [b \in DOMAIN packets \cup {a} |-> IF b = a THEN packet ELSE packets[b]]

AddReceivedMissingVotePackets(packets, missing) ==
  FoldLeft(LAMBDA ps, packet : SetVotes(ps, packet.evaluator, packet), packets, missing)

-----------------------------------------------------------------------------
Fits16(size) == size < Word

Elements(s) == {s[i] : i \in DOMAIN s}

Send(to, m) == air' = <<[to |-> to, sent |-> m, packet |-> Serialize(m)]>>

\* RecvPacket: what e reads from the packet, and that it is of this type.
Read == Deserialize(air[1].packet)
RecvPacket(e, type) == air # <<>> /\ air[1].to = e /\ Read.type = type

\* The child's first table is empty, and a parent that is not the root knows its own.
Init ==
  /\ mode \in [dynamic : BOOLEAN, root : BOOLEAN]
  /\ step = "start"
  /\ table = [e \in Ends |->
                IF e = Parent /\ ~mode.root
                THEN AddTuple(<<>>, Parent, Elder, ReadDataFromFile(Parent), ReadDataFromFile(Elder))
                ELSE <<>>]
  /\ votes = [e \in Ends |->
                IF e = Parent /\ ~mode.root THEN SetVotes(Nobody, Elder, Ballots[Elder])
                ELSE Nobody]
  /\ stored = [e \in Ends |-> <<>>]
  /\ air = <<>>
  /\ shown = [e \in Ends |-> {}]
  /\ tried = [e \in Ends |-> {}]

-----------------------------------------------------------------------------
(* The hellos.                                                             *)

\* StartTopologyBuilding at the root, SendDataNew at another parent.
SendHello ==
  /\ step = "start" /\ air = <<>>
  /\ step' = "hello"
  /\ Send(Child,
          IF mode.root
          THEN [type |-> "ROOT_SR_HELLO", origin |-> Parent, info |-> ReadDataFromFile(Parent),
                votes |-> Ballots[Parent]]
          ELSE [type |-> "SR_HELLO", origin |-> Parent, parent |-> Elder,
                info |-> ReadDataFromFile(Parent), votes |-> Ballots[Parent]])
  /\ UNCHANGED <<mode, table, votes, stored, shown, tried>>

\* A neighbour's hello: its votes and the tuple of the two are stored.
StoreHello(e, sh) ==
  /\ votes' = [votes EXCEPT ![e] = SetVotes(@, sh.origin, sh.votes)]
  /\ table' = [table EXCEPT ![e] = AddTuple(@, sh.origin, e, sh.info, ReadDataFromFile(e))]

\* The child adopts the root; its own hello carries no votes.
ProcessRootHello ==
  /\ RecvPacket(Child, "ROOT_SR_HELLO")
  /\ StoreHello(Child, Read)
  /\ Send(Parent, [type |-> "SR_HELLO", origin |-> Child, parent |-> Read.origin,
                   info |-> ReadDataFromFile(Child), votes |-> NoBallot])
  /\ UNCHANGED <<mode, step, stored, shown, tried>>

\* The child adopts the sender, and says so with its votes (SendDataNew).
ProcessSRHelloAdopt ==
  /\ RecvPacket(Child, "SR_HELLO")
  /\ StoreHello(Child, Read)
  /\ Send(Parent, [type |-> "SR_HELLO", origin |-> Child, parent |-> Read.origin,
                   info |-> ReadDataFromFile(Child), votes |-> Ballots[Child]])
  /\ UNCHANGED <<mode, step, stored, shown, tried>>

\* The hello names the parent, which has a child now.
ProcessSRHelloOfChild ==
  /\ RecvPacket(Parent, "SR_HELLO")
  /\ Read.parent = Parent
  /\ StoreHello(Parent, Read)
  /\ air' = <<>>
  /\ step' = "up"
  /\ UNCHANGED <<mode, stored, shown, tried>>

\* The hello of another neighbour, at a node that has its parent.
ProcessSRHelloOfOther(e, o) ==
  /\ IF e = Child THEN table[Child] # <<>> ELSE step # "start"
  /\ o \notin DOMAIN votes[e]
  /\ Len(table[Child]) + Len(table[Parent]) < MaxTuples
  /\ StoreHello(e, [origin |-> o, info |-> ReadDataFromFile(o), votes |-> Ballots[o]])
  /\ UNCHANGED <<mode, step, stored, air, shown, tried>>

-----------------------------------------------------------------------------
(* Up: the child sends what the parent lacks.                              *)

\* With dynamic sizes the child's filter comes later; this one has a single bit.
AskToParentBF ==
  /\ step = "up" /\ air = <<>>
  /\ Send(Parent,
          [type |-> "ASK_BF", origin |-> Child, dim |-> Len(table[Child]),
           filter |-> IF mode.dynamic THEN <<TRUE>> ELSE CreateBloomFilter(table[Child])])
  /\ shown' = [shown EXCEPT ![Child] = IF mode.dynamic THEN {} ELSE Elements(table[Child])]
  /\ UNCHANGED <<mode, step, table, votes, stored, tried>>

SendToChildBF ==
  /\ RecvPacket(Parent, "ASK_BF")
  /\ stored' = [stored EXCEPT ![Parent] = Read.filter]
  /\ LET filter == IF mode.dynamic
                   THEN CreateDynamicBloomFilter(table[Parent], Read.dim, FALSE)
                   ELSE CreateBloomFilter(table[Parent])
     IN  /\ Send(Read.origin, [type |-> "SEND_BF", filter |-> filter,
                               list |-> GetListVotesIP(votes[Parent])])
         /\ shown' = [shown EXCEPT ![Parent] =
                        IF Fits16(Len(filter)) THEN Elements(table[Parent]) ELSE {}]
  /\ UNCHANGED <<mode, step, table, votes, tried>>

\* e compares its table with the filter it has read and sends what that lacks.
SendMissing(e, type, filter, packets) ==
  /\ Send(Peer(e), [type |-> type, from |-> e, packets |-> packets,
                    tuples |-> ProcessSetReconciliation(table[e], filter)])
  /\ tried' = [tried EXCEPT ![e] = Elements(table[e])]

ReceivedFromParentBF ==
  /\ RecvPacket(Child, "SEND_BF")
  /\ stored' = [stored EXCEPT ![Child] = Read.filter]
  /\ SendMissing(Child, "SEND_MISSING_C2P", Read.filter,
                 GetMissingVotePackets(votes[Child], Read.list))
  /\ UNCHANGED <<mode, step, table, votes, shown>>

StoreMissing(e) ==
  /\ table' = [table EXCEPT ![e] = AddMissing(@, Read.tuples)]
  /\ votes' = [votes EXCEPT ![e] = AddReceivedMissingVotePackets(@, Read.packets)]

ProcessReceivedMissing ==
  /\ RecvPacket(Parent, "SEND_MISSING_C2P")
  /\ StoreMissing(Parent)
  /\ air' = <<>>
  /\ step' = "down"
  /\ UNCHANGED <<mode, stored, shown, tried>>

-----------------------------------------------------------------------------
(* Down: the parent sends what the child lacks.                            *)

\* Bound: a filter for more tuples than 16 bits can size is not asked for; the
\* child would send it, and the parent would read its last bits as addresses.
AskBF2C ==
  /\ step = "down" /\ air = <<>> /\ mode.dynamic
  /\ Fits16(BitsPer(Len(table[Parent])))
  /\ Send(Child, [type |-> "ASK_BF_P2C", origin |-> Parent, dim |-> Len(table[Parent])])
  /\ UNCHANGED <<mode, step, table, votes, stored, shown, tried>>

\* With a fixed size the filter of the child's ASK_BF is used, and no votes go down.
InverseSetRecStatic ==
  /\ step = "down" /\ air = <<>> /\ ~mode.dynamic
  /\ SendMissing(Parent, "SEND_MISSING_P2C", stored[Parent], <<>>)
  /\ UNCHANGED <<mode, step, table, votes, stored, shown>>

SendBFC2P ==
  /\ RecvPacket(Child, "ASK_BF_P2C")
  /\ Send(Read.origin,
          [type |-> "SEND_BF_C2P", origin |-> Child, list |-> GetListVotesIP(votes[Child]),
           filter |-> CreateDynamicBloomFilter(table[Child], Read.dim, TRUE)])
  /\ shown' = [shown EXCEPT ![Child] = Elements(table[Child])]
  /\ UNCHANGED <<mode, step, table, votes, stored, tried>>

ReceivedFromChildBF ==
  /\ RecvPacket(Parent, "SEND_BF_C2P")
  /\ stored' = [stored EXCEPT ![Parent] = Read.filter]
  /\ SendMissing(Parent, "SEND_MISSING_P2C", Read.filter,
                 GetMissingVotePackets(votes[Parent], Read.list))
  /\ UNCHANGED <<mode, step, table, votes, shown>>

ProcessReceivedMissingInverse ==
  /\ RecvPacket(Child, "SEND_MISSING_P2C")
  /\ StoreMissing(Child)
  /\ Send(Parent, [type |-> "SEND_MISSING_P2C_ACK", origin |-> Child])
  /\ UNCHANGED <<mode, step, stored, shown, tried>>

ProcessInverseAck ==
  /\ RecvPacket(Parent, "SEND_MISSING_P2C_ACK")
  /\ air' = <<>>
  /\ step' = "done"
  /\ UNCHANGED <<mode, table, votes, stored, shown, tried>>

-----------------------------------------------------------------------------
Next ==
  \/ SendHello \/ ProcessRootHello \/ ProcessSRHelloAdopt \/ ProcessSRHelloOfChild
  \/ \E e \in Ends, o \in Others : ProcessSRHelloOfOther(e, o)
  \/ AskToParentBF \/ SendToChildBF \/ ReceivedFromParentBF \/ ProcessReceivedMissing
  \/ AskBF2C \/ InverseSetRecStatic \/ SendBFC2P \/ ReceivedFromChildBF
  \/ ProcessReceivedMissingInverse \/ ProcessInverseAck

Spec == Init /\ [][Next]_vars

-----------------------------------------------------------------------------
TypeOK ==
  /\ mode \in [dynamic : BOOLEAN, root : BOOLEAN]
  /\ step \in {"start", "hello", "up", "down", "done"}
  /\ \A e \in Ends :
       /\ table[e] \in Seq(Tuples)
       /\ DOMAIN votes[e] \subseteq Addresses \cup {NoAddress}
       /\ \A a \in DOMAIN votes[e] : votes[e][a] \in {NoBallot} \cup {Ballots[o] : o \in Addresses}
       /\ stored[e] \in Seq(BOOLEAN)
       /\ shown[e] \subseteq Tuples
       /\ tried[e] \subseteq Tuples
  /\ air # <<>> => Len(air) = 1 /\ air[1].to \in Ends

\* What Serialize writes never exceeds what GetSerializedSize announced: no message
\* is written past the end of its packet, whatever it carries.
AnnouncedCovers ==
  air # <<>> => Size(Written(air[1].sent)) <= GetSerializedSize(air[1].sent)

\* A message is read as it was sent, through all the counts, bytes and lists of both
\* sides, unless it has a filter that 16 bits cannot size.
ReadAsWritten ==
  air # <<>> =>
    LET m == air[1].sent
    IN  (m.type \in {"ASK_BF", "SEND_BF", "SEND_BF_C2P"} => Fits16(Len(m.filter)))
          => Read = m

\* No tuple is sent to a node that had it when it made its filter: tables that agree
\* exchange nothing, although each end makes and reads filters by code of its own.
OnlyMissingSent ==
  air # <<>> /\ Read.type \in {"SEND_MISSING_C2P", "SEND_MISSING_P2C"} =>
    Elements(Read.tuples) \cap shown[air[1].to] = {}

\* When a direction is over, the peer of e has every tuple that e had when it compared,
\* but those whose bits were all set in the filter that e read.
NothingLost ==
  \A e \in Ends :
    (e = Child /\ step \in {"down", "done"}) \/ (e = Parent /\ step = "done") =>
      \A t \in tried[e] \ Elements(table[Peer(e)]) :
        \A k \in 1..HashFunctions : stored[e][Index(k, t, Len(stored[e]))]

\* No table has two tuples for one link: the two ends of a link, and hellos and
\* missing tuples, make the same tuple of it.
OneTuplePerLink ==
  \A e \in Ends : \A s, t \in Elements(table[e]) :
    {s.one, s.other} = {t.one, t.other} => s = t
=============================================================================
