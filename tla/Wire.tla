--------------------------------- MODULE Wire ---------------------------------
(***************************************************************************)
(* The format of SaharaHeader: what each message occupies in a packet      *)
(* buffer, what GetSerializedSize announces for it, and how it is read.    *)
(* A buffer is the sequence of the values written to it, each with the     *)
(* bytes it takes; addresses, tuples, a node's own data and votes are      *)
(* values of one field each.  Numbers of items and filter sizes are        *)
(* written in 16 bits.                                                     *)
(*                                                                         *)
(* Left out: the readers' checks that enough bytes remain, which           *)
(* AnnouncedCovers of BloomExchange makes redundant; the number of bytes   *)
(* that Deserialize returns, which is uninitialised for hellos and missing *)
(* tuples (nothing reads the packet again); HELLO_MESSAGE, which belongs   *)
(* to flooding; and ENCRYPTED, which nobody sends.                         *)
(***************************************************************************)
EXTENDS Integers, SequencesExt

CONSTANT Word   \* the values of a 16-bit field, 2^16

ASSUME WordAssumption == Word \in Nat \ {0}

Field(width, value) == [width |-> width, value |-> value]
U8(v) == Field(1, v)
U16(v) == Field(2, v % Word)
U32(v) == Field(4, v)
Address(a) == Field(4, a)

\* The bytes of a sequence of fields.
Size(fields) == FoldLeft(LAMBDA n, f : n + f.width, 0, fields)

-----------------------------------------------------------------------------
(* A Bloom filter: eight bits to a byte, the last byte filled with zeros.  *)

Ceil(n, d) == (n + d - 1) \div d

Bytes(filter) == Ceil(Len(filter), 8)

WriteBits(filter) ==
  [k \in 1..Bytes(filter) |->
     U8([j \in 1..8 |-> 8 * (k - 1) + j <= Len(filter) /\ filter[8 * (k - 1) + j]])]

\* The first of the bits that the bytes from b[first] on hold.
BitsFrom(b, first, count) ==
  [i \in 1..count |-> b[first + (i - 1) \div 8].value[((i - 1) % 8) + 1]]

\* Fault: the reader takes every bit of the bytes it reads.
ReadAllBits(b, first, last, size) == BitsFrom(b, first, 8 * (last - first + 1))

\* The first size bits of the bytes from b[first] to b[last].
ReadBits(b, first, last, size) ==
  LET all == 8 * (last - first + 1)
  IN  BitsFrom(b, first, IF size < all THEN size ELSE all)

-----------------------------------------------------------------------------
(* Vote packets: the evaluator, its votes, its signature.                  *)

WriteVotesIntoBuffer(packet) ==
  <<Address(packet.evaluator), U32(Len(packet.votes))>>
  \o [i \in DOMAIN packet.votes |-> Field(5, packet.votes[i])]
  \o <<U32(Len(packet.signature)), Field(Len(packet.signature), packet.signature)>>

WriteVotesIntoBuffer2(packets) ==
  FoldLeft(LAMBDA b, packet : b \o WriteVotesIntoBuffer(packet), <<>>, packets)

\* The packet that begins at b[at], and where the next field is.
ReadVotesFromBuffer(b, at) ==
  LET n == b[at + 1].value
  IN  [packet |-> [evaluator |-> b[at].value,
                   votes |-> [i \in 1..n |-> b[at + 1 + i].value],
                   signature |-> b[at + n + 3].value],
       next |-> at + n + 4]

ReadVotesFromBuffer2(b, at, size) ==
  LET read[i \in 0..size] ==
        IF i = 0 THEN [packets |-> <<>>, next |-> at]
        ELSE LET before == read[i - 1]
                 one == ReadVotesFromBuffer(b, before.next)
             IN  [packets |-> Append(before.packets, one.packet), next |-> one.next]
  IN  read[size].packets

\* Fault: the signature is not counted.
GetSizeVotesListUnsigned(packet) == 4 + 4 + 5 * Len(packet.votes) + 4

GetSizeVotesList(packet) == 4 + 4 + 5 * Len(packet.votes) + 4 + Len(packet.signature)

GetSizeVotesList2(packets) ==
  FoldLeft(LAMBDA n, packet : n + GetSizeVotesList(packet), 4, packets)

-----------------------------------------------------------------------------
(* The bytes that each message announces.                                  *)

GetSerializedSize(m) ==
  CASE m.type = "ROOT_SR_HELLO" -> 11 + GetSizeVotesList(m.votes)
    [] m.type = "SR_HELLO" -> 15 + GetSizeVotesList(m.votes)
    [] m.type = "ASK_BF" -> 1 + 4 + 4 + 4 + Bytes(m.filter)
    [] m.type = "SEND_BF" -> 1 + 4 + 2 + 4 * Len(m.list) + Len(m.filter) \div 8
    [] m.type = "ASK_BF_P2C" -> 1 + 4 + 4
    [] m.type = "SEND_BF_C2P" -> 1 + 4 + 4 + Bytes(m.filter) + 2 + 4 * Len(m.list)
    [] m.type \in {"SEND_MISSING_C2P", "SEND_MISSING_P2C"} ->
         1 + 4 + 2 + 20 * Len(m.tuples) + 2 + GetSizeVotesList2(m.packets)
    [] m.type = "SEND_MISSING_P2C_ACK" -> 5


-----------------------------------------------------------------------------
(* Writing, one operator for the messages that are written alike.          *)

\* ROOT_SR_HELLO and SR_HELLO: the second names the parent too.
WriteHello(m) ==
  <<U8(m.type), Address(m.origin)>>
  \o (IF m.type = "SR_HELLO" THEN <<Address(m.parent)>> ELSE <<>>)
  \o <<Field(6, m.info)>> \o WriteVotesIntoBuffer(m.votes)

WriteAskBF(m) ==
  <<U8(m.type), Address(m.origin), U16(Len(m.filter)), U16(m.dim)>> \o WriteBits(m.filter)

Addresses16(list) == <<U16(Len(list))>> \o [i \in DOMAIN list |-> Address(list[i])]

WriteSendBF(m) ==
  <<U8(m.type), U16(Len(m.filter))>> \o Addresses16(m.list) \o WriteBits(m.filter)

WriteAskBFP2C(m) == <<U8(m.type), Address(m.origin), U16(m.dim)>>

WriteSendBFC2P(m) ==
  <<U8(m.type), Address(m.origin), U16(Len(m.filter))>> \o WriteBits(m.filter)
  \o Addresses16(m.list)

\* SEND_MISSING_C2P names the child, SEND_MISSING_P2C the parent.
WriteMissing(m) ==
  <<U8(m.type), Address(m.from), U16(Len(m.tuples))>>
  \o [i \in DOMAIN m.tuples |-> Field(20, m.tuples[i])]
  \o <<U16(Len(m.packets))>> \o WriteVotesIntoBuffer2(m.packets)

Written(m) ==
  CASE m.type \in {"ROOT_SR_HELLO", "SR_HELLO"} -> WriteHello(m)
    [] m.type = "ASK_BF" -> WriteAskBF(m)
    [] m.type = "SEND_BF" -> WriteSendBF(m)
    [] m.type = "ASK_BF_P2C" -> WriteAskBFP2C(m)
    [] m.type = "SEND_BF_C2P" -> WriteSendBFC2P(m)
    [] m.type \in {"SEND_MISSING_C2P", "SEND_MISSING_P2C"} -> WriteMissing(m)
    [] m.type = "SEND_MISSING_P2C_ACK" -> <<U8(m.type), Address(m.origin)>>

\* The packet: what is written, and zeros in the announced bytes after it.
Serialize(m) ==
  Written(m) \o [i \in 1..(GetSerializedSize(m) - Size(Written(m)))
                   |-> U8([j \in 1..8 |-> FALSE])]

-----------------------------------------------------------------------------
(* Reading.                                                                *)

ReadHello(b) ==
  IF b[1].value = "SR_HELLO"
  THEN [type |-> b[1].value, origin |-> b[2].value, parent |-> b[3].value,
        info |-> b[4].value, votes |-> ReadVotesFromBuffer(b, 5).packet]
  ELSE [type |-> b[1].value, origin |-> b[2].value,
        info |-> b[3].value, votes |-> ReadVotesFromBuffer(b, 4).packet]

ReadAskBF(b) ==
  [type |-> b[1].value, origin |-> b[2].value, dim |-> b[4].value,
   filter |-> ReadBits(b, 5, 4 + Ceil(b[3].value, 8), b[3].value)]

\* The list comes before the filter, and every byte after it is read.
ReadSendBF(b) ==
  LET n == b[3].value
  IN  [type |-> b[1].value, list |-> [i \in 1..n |-> b[3 + i].value],
       filter |-> ReadBits(b, 4 + n, Len(b), b[2].value)]

ReadAskBFP2C(b) == [type |-> b[1].value, origin |-> b[2].value, dim |-> b[3].value]

\* The list comes after the filter's last byte.
ReadSendBFC2P(b) ==
  LET last == 3 + Ceil(b[3].value, 8)
  IN  [type |-> b[1].value, origin |-> b[2].value,
       filter |-> ReadBits(b, 4, last, b[3].value),
       list |-> [i \in 1..b[last + 1].value |-> b[last + 1 + i].value]]

ReadMissing(b) ==
  LET n == b[3].value
  IN  [type |-> b[1].value, from |-> b[2].value,
       tuples |-> [i \in 1..n |-> b[3 + i].value],
       packets |-> ReadVotesFromBuffer2(b, n + 5, b[n + 4].value)]


Deserialize(b) ==
  LET type == b[1].value
  IN  CASE type \in {"ROOT_SR_HELLO", "SR_HELLO"} -> ReadHello(b)
        [] type = "ASK_BF" -> ReadAskBF(b)
        [] type = "SEND_BF" -> ReadSendBF(b)
        [] type = "ASK_BF_P2C" -> ReadAskBFP2C(b)
        [] type = "SEND_BF_C2P" -> ReadSendBFC2P(b)
        [] type \in {"SEND_MISSING_C2P", "SEND_MISSING_P2C"} -> ReadMissing(b)
        [] type = "SEND_MISSING_P2C_ACK" -> [type |-> type, origin |-> b[2].value]
=============================================================================
