------------------------- MODULE BloomExchangeProofs -------------------------
(***************************************************************************)
(* Proofs about BloomExchange and the packets of Wire, for all addresses,  *)
(* data, votes, sizes of filters, hash functions and 16-bit ranges.        *)
(*                                                                         *)
(* First what the folds of the code compute, element by element; then      *)
(* packets: how long what is written is (Wide), where it stands in the     *)
(* packet (Holds), and that each kind of message is read as it was written *)
(* (Arrives); then filters and comparisons (Covers, Lacking); and last the *)
(* invariant, which says what is under way at each step of the exchange,   *)
(* and that every handler keeps it.                                        *)
(***************************************************************************)
EXTENDS BloomExchange, Induction, SequenceTheorems, FiniteSetTheorems

-----------------------------------------------------------------------------
(***************************************************************************)
(* Folds over sequences.                                                   *)
(***************************************************************************)
\* The largest of the first k + 1 positions, and of a set of positions.
LEMMA MaxOfFirst ==
  ASSUME NEW k \in Nat
  PROVE  Max(1..(k + 1)) = k + 1 /\ (1..(k + 1)) \ {k + 1} = 1..k
<1>1. \A x \in 1..(k + 1) : (\A y \in 1..(k + 1) : x >= y) <=> x = k + 1
  OBVIOUS
<1>2. k + 1 \in 1..(k + 1)
  OBVIOUS
<1>3. Max(1..(k + 1)) = k + 1
  BY <1>1, <1>2 DEF Max
<1>4. QED
  BY <1>3

\* A set of positions that is not empty has a largest one, which Max finds.
LEMMA MaxOfSome ==
  ASSUME NEW n \in Nat, NEW s \in SUBSET (1..n), s # {}
  PROVE  Max(s) \in s /\ \A y \in s : Max(s) >= y
<1> DEFINE Above == {b \in Nat : \A y \in s : b >= y}
<1>1. n \in Above
  OBVIOUS
<1>2. PICK b \in Above : \A c \in Above : b <= c
  <2>1. Above # {} /\ Above \in SUBSET Nat
    BY <1>1
  <2> HIDE DEF Above
  <2>2. QED
    BY <2>1, LeastNatural
<1>3. b \in s
  <2> SUFFICES ASSUME b \notin s PROVE FALSE
    OBVIOUS
  <2>1. \A y \in s : b > y
    BY <1>2
  <2>2. PICK y \in s : TRUE
    OBVIOUS
  <2>3. b - 1 \in Nat /\ \A z \in s : b - 1 >= z
    BY <2>1, <2>2
  <2>4. QED
    BY <1>2, <2>3
<1>4. \E x \in s : \A y \in s : x >= y
  BY <1>2, <1>3
<1>5. QED
  BY <1>4 DEF Max

\* The function that a fold over n positions is the last value of.
Folding(f, n, base, act) ==
  f = [s \in SUBSET (1..n) |-> IF s = {} THEN base ELSE act[<<f[s \ {Max(s)}], Max(s)>>]]

\* The function that folds every set of positions, its largest one last, exists.
LEMMA FoldExists ==
  ASSUME NEW n \in Nat, NEW A, NEW base \in A, NEW act \in [A \X (1..n) -> A]
  PROVE  \E f \in [SUBSET (1..n) -> A] : Folding(f, n, base, act)
<1> DEFINE Part(k) == {f \in [SUBSET (1..k) -> A] :
                         \A s \in SUBSET (1..k) :
                           f[s] = IF s = {} THEN base ELSE act[<<f[s \ {Max(s)}], Max(s)>>]}
           Built == {k \in Nat : k <= n => Part(k) # {}}
<1>1. 0 \in Built
  <2> DEFINE g == [s \in SUBSET (1..0) |-> base]
  <2>1. \A s \in SUBSET (1..0) : s = {}
    OBVIOUS
  <2>2. g \in [SUBSET (1..0) -> A]
    OBVIOUS
  <2>3. \A s \in SUBSET (1..0) : g[s] = base
    OBVIOUS
  <2>4. g \in Part(0)
    <3> HIDE DEF g
    <3>1. QED
      BY <2>1, <2>2, <2>3
  <2>5. QED
    BY <2>4
<1>2. ASSUME NEW k \in Nat, k \in Built PROVE k + 1 \in Built
  <2> SUFFICES ASSUME k + 1 <= n PROVE Part(k + 1) # {}
    <3> HIDE DEF Part
    <3>1. QED
      OBVIOUS
  <2>1. PICK f \in [SUBSET (1..k) -> A] :
               \A s \in SUBSET (1..k) :
                 f[s] = IF s = {} THEN base ELSE act[<<f[s \ {Max(s)}], Max(s)>>]
    <3>1. Part(k) # {}
      <4> HIDE DEF Part
      <4>1. k <= n
        OBVIOUS
      <4>2. QED
        BY <1>2, <4>1
    <3>2. QED
      BY <3>1
  <2> DEFINE g == [s \in SUBSET (1..(k + 1)) |->
                     IF k + 1 \in s THEN act[<<f[s \ {k + 1}], k + 1>>] ELSE f[s]]
  <2>2. \A s \in SUBSET (1..(k + 1)) : s \ {k + 1} \in SUBSET (1..k)
    <3>1. SUFFICES ASSUME NEW s \in SUBSET (1..(k + 1)), NEW x \in s, x # k + 1
                   PROVE  x \in 1..k
      OBVIOUS
    <3>2. x \in 1..(k + 1)
      BY <3>1
    <3>3. QED
      BY <3>1, <3>2
  <2>3. \A s \in SUBSET (1..(k + 1)) : k + 1 \notin s => s \in SUBSET (1..k)
    <3>1. SUFFICES ASSUME NEW s \in SUBSET (1..(k + 1)), k + 1 \notin s, NEW x \in s
                   PROVE  x \in 1..k
      OBVIOUS
    <3>2. x \in 1..(k + 1) /\ x # k + 1
      BY <3>1
    <3>3. QED
      BY <3>2
  <2>4. k + 1 \in 1..n
    OBVIOUS
  <2>5. g \in [SUBSET (1..(k + 1)) -> A]
    <3>1. ASSUME NEW s \in SUBSET (1..(k + 1)) PROVE g[s] \in A
      <4>1. CASE k + 1 \in s
        <5>1. <<f[s \ {k + 1}], k + 1>> \in A \X (1..n)
          BY <2>1, <2>2, <2>4
        <5>2. QED
          BY <4>1, <5>1
      <4>2. CASE k + 1 \notin s
        BY <2>1, <2>3, <4>2
      <4>3. QED
        BY <4>1, <4>2
    <3>2. QED
      BY <3>1
  <2>6. ASSUME NEW s \in SUBSET (1..(k + 1))
        PROVE  g[s] = IF s = {} THEN base ELSE act[<<g[s \ {Max(s)}], Max(s)>>]
    <3>1. CASE k + 1 \in s
      <4>1. Max(s) = k + 1
        <5>1. k + 1 \in Nat /\ s # {}
          BY <3>1
        <5>2. Max(s) \in s /\ \A y \in s : Max(s) >= y
          BY <5>1, MaxOfSome
        <5>3. Max(s) \in 1..(k + 1) /\ Max(s) >= k + 1
          BY <3>1, <5>2
        <5>4. QED
          BY <5>3
      <4>2. g[s] = act[<<f[s \ {k + 1}], k + 1>>]
        BY <3>1
      <4>3. g[s \ {k + 1}] = f[s \ {k + 1}]
        OBVIOUS
      <4>4. QED
        <5> HIDE DEF g
        <5>1. QED
          BY <3>1, <4>1, <4>2, <4>3
    <3>2. CASE k + 1 \notin s
      <4>1. s \in SUBSET (1..k) /\ g[s] = f[s]
        BY <2>3, <3>2
      <4>2. g[s \ {Max(s)}] = f[s \ {Max(s)}]
        <5>1. s \ {Max(s)} \in SUBSET (1..(k + 1)) /\ k + 1 \notin s \ {Max(s)}
          BY <3>2
        <5>2. QED
          BY <5>1
      <4>3. QED
        <5> HIDE DEF g
        <5>1. QED
          BY <2>1, <4>1, <4>2
    <3>3. QED
      BY <3>1, <3>2
  <2>7. g \in Part(k + 1)
    <3> HIDE DEF g
    <3>1. QED
      BY <2>5, <2>6
  <2>8. QED
    BY <2>7
<1>3. \A k \in Nat : k \in Built
  <2> HIDE DEF Built
  <2>1. QED
    BY <1>1, <1>2, SetInduction
<1>4. Part(n) # {}
  <2> HIDE DEF Part
  <2>1. QED
    BY <1>3
<1>5. QED
  BY <1>4 DEF Folding

\* The values after each position.
Chain(g, n, base, act) == g[0] = base /\ \A k \in 0..n : k # n => g[k + 1] = act[<<g[k], k + 1>>]

\* Both, as they are used: for what satisfies the recursion of a fold, typed or not.
FoldPair(f, g, n, A, base, act) ==
  /\ f \in [SUBSET (1..n) -> A] /\ Folding(f, n, base, act)
  /\ g \in [0..n -> A] /\ Chain(g, n, base, act)

\* Along the first positions such a function takes one step after the other.
LEMMA FoldChain ==
  ASSUME NEW n \in Nat, NEW A, NEW base, NEW act, NEW f,
         f \in [SUBSET (1..n) -> A], Folding(f, n, base, act)
  PROVE  \E g : FoldPair(f, g, n, A, base, act)
<1> DEFINE g == [k \in 0..n |-> f[1..k]]
<1>1. \A k \in 0..n : 1..k \in SUBSET (1..n)
  OBVIOUS
<1>2. \A s \in SUBSET (1..n) : f[s] = IF s = {} THEN base ELSE act[<<f[s \ {Max(s)}], Max(s)>>]
  BY DEF Folding
<1>3. g \in [0..n -> A]
  BY <1>1
<1>4. g[0] = base
  <2>1. 1..0 = {} /\ 0 \in 0..n
    OBVIOUS
  <2>2. QED
    BY <1>2, <2>1
<1>5. ASSUME NEW k \in 0..n, k # n PROVE g[k + 1] = act[<<g[k], k + 1>>]
  <2>1. k \in Nat /\ k + 1 \in 0..n /\ 1 \in 1..(k + 1)
    BY <1>5
  <2>2. Max(1..(k + 1)) = k + 1 /\ (1..(k + 1)) \ {k + 1} = 1..k
    BY <2>1, MaxOfFirst
  <2>3. f[1..(k + 1)] = act[<<f[1..k], k + 1>>]
    BY <1>1, <1>2, <2>1, <2>2
  <2>4. QED
    BY <2>1, <2>3
<1>6. QED
  <2> HIDE DEF g
  <2>1. QED
    BY <1>3, <1>4, <1>5 DEF Chain, FoldPair

\* Such a function and its values along the first positions.
LEMMA FoldPairExists ==
  ASSUME NEW n \in Nat, NEW A, NEW base \in A, NEW act \in [A \X (1..n) -> A]
  PROVE  \E f, g : FoldPair(f, g, n, A, base, act)
<1>1. PICK f \in [SUBSET (1..n) -> A] : Folding(f, n, base, act)
  BY FoldExists
<1>2. \E g : FoldPair(f, g, n, A, base, act)
  BY <1>1, FoldChain
<1>3. QED
  BY <1>2

\* There is one sequence of values only.
LEMMA FoldUnique ==
  ASSUME NEW n \in Nat, NEW A, NEW base, NEW act, NEW f, NEW g, FoldPair(f, g, n, A, base, act),
         NEW it, it[{}] = base,
         \A k \in 0..n : k # n /\ it[1..k] \in A => it[1..(k + 1)] = act[<<it[1..k], k + 1>>]
  PROVE  it[1..n] = g[n]
<1> DEFINE Same == {k \in Nat : k <= n => it[1..k] = g[k]}
<1>1. 0 \in Same
  <2>1. 1..0 = {}
    OBVIOUS
  <2>2. QED
    BY <2>1 DEF FoldPair, Chain
<1>2. ASSUME NEW k \in Nat, k \in Same PROVE k + 1 \in Same
  <2> SUFFICES ASSUME k + 1 <= n PROVE it[1..(k + 1)] = g[k + 1]
    OBVIOUS
  <2>1. it[1..k] = g[k] /\ k \in 0..n /\ k # n
    BY <1>2
  <2>2. g[k] \in A /\ g[k + 1] = act[<<g[k], k + 1>>]
    BY <2>1 DEF FoldPair, Chain
  <2>3. QED
    BY <2>1, <2>2
<1>3. \A k \in Nat : k \in Same
  <2> HIDE DEF Same
  <2>1. QED
    BY <1>1, <1>2, SetInduction
<1>4. QED
  BY <1>3

\* A fold that has been unfolded is the last value of a chain.
Unfolded(it, n, A, base, act, last) ==
  /\ last = it[1..n] /\ it[{}] = base
  /\ \A d \in SUBSET (1..n) :
       d # {} /\ it[d \ {Max(d)}] \in A => it[d] = act[<<it[d \ {Max(d)}], Max(d)>>]

Leads(g, n, A, base, act, last) == g \in [0..n -> A] /\ Chain(g, n, base, act) /\ last = g[n]

\* A fold of the library is the last of those values.
LEMMA FoldLast ==
  ASSUME NEW n \in Nat, NEW A, NEW base \in A, NEW act \in [A \X (1..n) -> A],
         NEW it, NEW last, Unfolded(it, n, A, base, act, last)
  PROVE  \E g : Leads(g, n, A, base, act, last)
<1>1. PICK f, g : FoldPair(f, g, n, A, base, act)
  BY FoldPairExists
<1>2. ASSUME NEW k \in 0..n, k # n, it[1..k] \in A PROVE it[1..(k + 1)] = act[<<it[1..k], k + 1>>]
  <2>1. k + 1 \in 1..n /\ 1 \in 1..(k + 1) /\ 1..(k + 1) \in SUBSET (1..n)
    BY <1>2
  <2>2. Max(1..(k + 1)) = k + 1 /\ (1..(k + 1)) \ {k + 1} = 1..k
    <3>1. k \in Nat
      OBVIOUS
    <3>2. QED
      BY <3>1, MaxOfFirst
  <2>3. QED
    BY <1>2, <2>1, <2>2 DEF Unfolded
<1>3. it[1..n] = g[n]
  BY <1>1, <1>2, FoldUnique DEF Unfolded
<1>4. QED
  BY <1>1, <1>3 DEF FoldPair, Leads, Unfolded

-----------------------------------------------------------------------------
(***************************************************************************)
(* What tables and lists of votes hold.                                    *)
(***************************************************************************)
BallotSet == {NoBallot} \cup {Ballots[o] : o \in Addresses}
Named == Addresses \cup {NoAddress}
Canonical == {t \in Tuples : t.infoOne = Info[t.one] /\ t.infoOther = Info[t.other]}
Ledgers == UNION {[D -> BallotSet] : D \in SUBSET Named}

\* A ballot is a vote packet.
LEMMA Ballot ==
  ASSUME NEW p \in BallotSet
  PROVE  p \in VotePacket /\ p.evaluator \in Named
<1>1. CASE p = NoBallot
  BY <1>1 DEF NoBallot, VotePacket, Named
<1>2. CASE p # NoBallot
  BY <1>2, BallotsAssumption DEF BallotSet, VotePacket, Named
<1>3. QED
  BY <1>1, <1>2

\* Storing a vote packet leaves the votes of addresses.
LEMMA SetVotesLedger ==
  ASSUME NEW packets \in Ledgers, NEW a \in Named, NEW p \in BallotSet
  PROVE  SetVotes(packets, a, p) \in Ledgers
<1>1. PICK D \in SUBSET Named : packets \in [D -> BallotSet]
  BY DEF Ledgers
<1>2. SetVotes(packets, a, p) \in [D \cup {a} -> BallotSet]
  BY <1>1 DEF SetVotes
<1>3. D \cup {a} \in SUBSET Named
  OBVIOUS
<1>4. QED
  BY <1>2, <1>3 DEF Ledgers

LEMMA CanonicalTuple ==
  ASSUME NEW t \in Canonical
  PROVE  /\ t.one \in Addresses /\ t.other \in Addresses /\ t.one < t.other
         /\ t = [one |-> t.one, other |-> t.other, infoOne |-> t.infoOne, infoOther |-> t.infoOther]
         /\ t.infoOne = Info[t.one] /\ t.infoOther = Info[t.other]
BY DEF Canonical, Tuples

\* The tuple of two addresses has the data of both, the lower address first.
LEMMA OrderedCanonical ==
  ASSUME NEW a \in Addresses, NEW b \in Addresses, a # b
  PROVE  Ordered(a, b, Info[a], Info[b]) \in Canonical
<1>1. a \in Nat /\ b \in Nat /\ Info[a] \in Infos /\ Info[b] \in Infos
  BY NodesAssumption
<1>2. QED
  BY <1>1 DEF Ordered, Canonical, Tuples

\* A tuple that is made from such a tuple is that tuple.
LEMMA AddCanonical ==
  ASSUME NEW tuples \in Seq(Canonical), NEW t \in Canonical
  PROVE  /\ AddTuple(tuples, t.one, t.other, t.infoOne, t.infoOther) = Append(tuples, t)
         /\ Append(tuples, t) \in Seq(Canonical)
<1>1. t.one \in Nat /\ t.other \in Nat /\ ~(t.one > t.other)
  BY CanonicalTuple, NodesAssumption
<1>2. Ordered(t.one, t.other, t.infoOne, t.infoOther) = t
  BY <1>1, CanonicalTuple DEF Ordered
<1>3. QED
  BY <1>2, CanonicalTuple DEF AddTuple, IpAllowed

-----------------------------------------------------------------------------
(***************************************************************************)
(* The folds of the program.                                               *)
(***************************************************************************)
\* Size adds the widths.
Widths(s, n) == n \in Nat /\ DOMAIN s = 1..n /\ \A i \in 1..n : s[i].width \in Nat

Adds(g, s, n) ==
  /\ g \in [0..n -> Nat]
  /\ g[0] = 0 /\ \A k \in 0..n : k # n => g[k + 1] = g[k] + s[k + 1].width
  /\ Size(s) = g[n]

\* Size is the last of the sums of the widths.
LEMMA SizeFold ==
  ASSUME NEW n, NEW s, Widths(s, n)
  PROVE  \E g : Adds(g, s, n)
<1> USE DEF Widths
<1> DEFINE act == [p \in Nat \X (1..n) |-> p[1] + s[p[2]].width]
           Is(h) == h = [d \in SUBSET (1..n) |->
                           IF d = {} THEN 0 ELSE h[d \ {Max(d)}] + s[Max(d)].width]
           it == CHOOSE h : Is(h)
<1>1. Size(s) = it[1..n]
  BY DEF Size, FoldLeft, MapThenFoldSet
<1>2. act \in [Nat \X (1..n) -> Nat]
  OBVIOUS
<1>3. \A r \in Nat, i \in 1..n : act[<<r, i>>] = r + s[i].width
  OBVIOUS
<1>4. ASSUME NEW d \in SUBSET (1..n), d # {} PROVE Max(d) \in 1..n
  <2>1. Max(d) \in d
    BY <1>4, MaxOfSome
  <2>2. QED
    BY <2>1
<1> HIDE DEF act
<1>5. \E f : Is(f)
  <2>1. PICK f \in [SUBSET (1..n) -> Nat] : Folding(f, n, 0, act)
    BY <1>2, FoldExists
  <2>2. \A d \in SUBSET (1..n) :
          d # {} => act[<<f[d \ {Max(d)}], Max(d)>>] = f[d \ {Max(d)}] + s[Max(d)].width
    BY <1>3, <1>4, <2>1
  <2>3. Is(f)
    BY <2>1, <2>2 DEF Folding
  <2>4. QED
    BY <2>3
<1>6. Is(it)
  <2> HIDE DEF Is
  <2>1. QED
    BY <1>5
<1>7. \A d \in SUBSET (1..n) :
        it[d] = IF d = {} THEN 0 ELSE it[d \ {Max(d)}] + s[Max(d)].width
  <2> HIDE DEF it
  <2>1. QED
    BY <1>6
<1> HIDE DEF it
<1>8. PICK g : Leads(g, n, Nat, 0, act, Size(s))
  <2>1. it[{}] = 0
    BY <1>7
  <2>2. \A d \in SUBSET (1..n) :
          d # {} /\ it[d \ {Max(d)}] \in Nat => it[d] = act[<<it[d \ {Max(d)}], Max(d)>>]
    BY <1>3, <1>4, <1>7
  <2>3. Unfolded(it, n, Nat, 0, act, Size(s))
    BY <1>1, <2>1, <2>2 DEF Unfolded
  <2>4. QED
    BY <1>2, <2>3, FoldLast
<1>9. \A k \in 0..n : k # n => g[k + 1] = g[k] + s[k + 1].width
  <2>1. \A k \in 0..n : k # n => k + 1 \in 1..n
    OBVIOUS
  <2>2. QED
    BY <1>3, <1>8, <2>1 DEF Chain, Leads
<1>10. QED
  BY <1>8, <1>9 DEF Chain, Leads, Adds

\* The tuples of a sequence that are in a set, one after the other.
Sifted(g, s, some, S, n) ==
  /\ g \in [0..n -> Seq(S)] /\ g[0] = <<>> /\ Among(s, some) = g[n]
  /\ \A k \in 0..n : k # n =>
       g[k + 1] = IF s[k + 1] \in some THEN Append(g[k], s[k + 1]) ELSE g[k]

LEMMA AmongFold ==
  ASSUME NEW n \in Nat, NEW S, NEW s \in Seq(S), Len(s) = n, NEW some
  PROVE  \E g : Sifted(g, s, some, S, n)
<1> DEFINE act == [p \in Seq(S) \X (1..n) |-> IF s[p[2]] \in some THEN Append(p[1], s[p[2]]) ELSE p[1]]
           Is(h) == h = [d \in SUBSET (1..n) |->
                           IF d = {} THEN <<>> ELSE IF s[Max(d)] \in some THEN Append(h[d \ {Max(d)}], s[Max(d)]) ELSE h[d \ {Max(d)}]]
           it == CHOOSE h : Is(h)
<1>1. Among(s, some) = it[1..n]
  BY DEF Among, FoldLeft, MapThenFoldSet
<1>2. act \in [Seq(S) \X (1..n) -> Seq(S)]
  OBVIOUS
<1>3. \A r \in Seq(S), i \in 1..n : act[<<r, i>>] = IF s[i] \in some THEN Append(r, s[i]) ELSE r
  OBVIOUS
<1>4. ASSUME NEW d \in SUBSET (1..n), d # {} PROVE Max(d) \in 1..n
  <2>1. Max(d) \in d
    BY <1>4, MaxOfSome
  <2>2. QED
    BY <2>1
<1>5. <<>> \in Seq(S)
  OBVIOUS
<1> HIDE DEF act
<1>6. \E f : Is(f)
  <2>1. PICK f \in [SUBSET (1..n) -> Seq(S)] : Folding(f, n, <<>>, act)
    BY <1>2, <1>5, FoldExists
  <2>2. \A d \in SUBSET (1..n) :
          d # {} => act[<<f[d \ {Max(d)}], Max(d)>>] = IF s[Max(d)] \in some THEN Append(f[d \ {Max(d)}], s[Max(d)]) ELSE f[d \ {Max(d)}]
    BY <1>3, <1>4, <2>1
  <2>3. Is(f)
    BY <2>1, <2>2 DEF Folding
  <2>4. QED
    BY <2>3
<1>7. Is(it)
  <2> HIDE DEF Is
  <2>1. QED
    BY <1>6
<1>8. \A d \in SUBSET (1..n) :
        it[d] = IF d = {} THEN <<>> ELSE IF s[Max(d)] \in some THEN Append(it[d \ {Max(d)}], s[Max(d)]) ELSE it[d \ {Max(d)}]
  <2> HIDE DEF it
  <2>1. QED
    BY <1>7
<1> HIDE DEF it
<1>9. PICK g : Leads(g, n, Seq(S), <<>>, act, Among(s, some))
  <2>1. it[{}] = <<>>
    BY <1>8
  <2>2. \A d \in SUBSET (1..n) :
          d # {} /\ it[d \ {Max(d)}] \in Seq(S) => it[d] = act[<<it[d \ {Max(d)}], Max(d)>>]
    BY <1>3, <1>4, <1>8
  <2>3. Unfolded(it, n, Seq(S), <<>>, act, Among(s, some))
    BY <1>1, <2>1, <2>2 DEF Unfolded
  <2>4. QED
    BY <1>2, <1>5, <2>3, FoldLast
<1>10. \A k \in 0..n : k # n => g[k + 1] = IF s[k + 1] \in some THEN Append(g[k], s[k + 1]) ELSE g[k]
  <2>1. \A k \in 0..n : k # n => k + 1 \in 1..n
    OBVIOUS
  <2>2. QED
    BY <1>3, <1>9, <2>1 DEF Chain, Leads
<1>11. QED
  BY <1>9, <1>10 DEF Chain, Leads, Sifted

\* Tuples that are added one after the other.
Plus(ts, t) == AddTuple(ts, t.one, t.other, t.infoOne, t.infoOther)

Extended(g, s, tuples, n) ==
  /\ g \in [0..n -> Seq(Canonical)] /\ g[0] = tuples /\ AddMissing(tuples, s) = g[n]
  /\ \A k \in 0..n : k # n => g[k + 1] = Plus(g[k], s[k + 1])

LEMMA MissingFold ==
  ASSUME NEW n \in Nat, NEW s \in Seq(Canonical), Len(s) = n, NEW tuples \in Seq(Canonical)
  PROVE  \E g : Extended(g, s, tuples, n)
<1> DEFINE act == [p \in Seq(Canonical) \X (1..n) |-> Plus(p[1], s[p[2]])]
           Is(h) == h = [d \in SUBSET (1..n) |->
                           IF d = {} THEN tuples ELSE Plus(h[d \ {Max(d)}], s[Max(d)])]
           it == CHOOSE h : Is(h)
<1>1. AddMissing(tuples, s) = it[1..n]
  BY DEF AddMissing, FoldLeft, MapThenFoldSet, Plus
<1>2. act \in [Seq(Canonical) \X (1..n) -> Seq(Canonical)]
  <2>1. ASSUME NEW ts \in Seq(Canonical), NEW i \in 1..n
        PROVE  Plus(ts, s[i]) \in Seq(Canonical)
    <3>1. s[i] \in Canonical
      OBVIOUS
    <3>2. QED
      BY <3>1, AddCanonical DEF Plus
  <2>2. QED
    BY <2>1
<1>3. \A r \in Seq(Canonical), i \in 1..n : act[<<r, i>>] = Plus(r, s[i])
  OBVIOUS
<1>4. ASSUME NEW d \in SUBSET (1..n), d # {} PROVE Max(d) \in 1..n
  <2>1. Max(d) \in d
    BY <1>4, MaxOfSome
  <2>2. QED
    BY <2>1
<1> HIDE DEF act
<1>5. \E f : Is(f)
  <2>1. PICK f \in [SUBSET (1..n) -> Seq(Canonical)] : Folding(f, n, tuples, act)
    BY <1>2, FoldExists
  <2>2. \A d \in SUBSET (1..n) :
          d # {} => act[<<f[d \ {Max(d)}], Max(d)>>] = Plus(f[d \ {Max(d)}], s[Max(d)])
    BY <1>3, <1>4, <2>1
  <2>3. Is(f)
    BY <2>1, <2>2 DEF Folding
  <2>4. QED
    BY <2>3
<1>6. Is(it)
  <2> HIDE DEF Is
  <2>1. QED
    BY <1>5
<1>7. \A d \in SUBSET (1..n) :
        it[d] = IF d = {} THEN tuples ELSE Plus(it[d \ {Max(d)}], s[Max(d)])
  <2> HIDE DEF it
  <2>1. QED
    BY <1>6
<1> HIDE DEF it
<1>8. PICK g : Leads(g, n, Seq(Canonical), tuples, act, AddMissing(tuples, s))
  <2>1. it[{}] = tuples
    BY <1>7
  <2>2. \A d \in SUBSET (1..n) :
          d # {} /\ it[d \ {Max(d)}] \in Seq(Canonical) => it[d] = act[<<it[d \ {Max(d)}], Max(d)>>]
    BY <1>3, <1>4, <1>7
  <2>3. Unfolded(it, n, Seq(Canonical), tuples, act, AddMissing(tuples, s))
    BY <1>1, <2>1, <2>2 DEF Unfolded
  <2>4. QED
    BY <1>2, <2>3, FoldLast
<1>9. \A k \in 0..n : k # n => g[k + 1] = Plus(g[k], s[k + 1])
  <2>1. \A k \in 0..n : k # n => k + 1 \in 1..n
    OBVIOUS
  <2>2. QED
    BY <1>3, <1>8, <2>1 DEF Chain, Leads
<1>10. QED
  BY <1>8, <1>9 DEF Chain, Leads, Extended

\* Vote packets that are stored one after the other.
LEMMA LedgerFold ==
  ASSUME NEW n \in Nat, NEW s \in Seq(BallotSet), Len(s) = n, NEW packets \in Ledgers
  PROVE  \E g \in [0..n -> Ledgers] :
           /\ g[0] = packets
           /\ \A k \in 0..n : k # n => g[k + 1] = SetVotes(g[k], s[k + 1].evaluator, s[k + 1])
           /\ AddReceivedMissingVotePackets(packets, s) = g[n]
<1> DEFINE act == [p \in Ledgers \X (1..n) |-> SetVotes(p[1], s[p[2]].evaluator, s[p[2]])]
           Is(h) == h = [d \in SUBSET (1..n) |->
                           IF d = {} THEN packets ELSE SetVotes(h[d \ {Max(d)}], s[Max(d)].evaluator, s[Max(d)])]
           it == CHOOSE h : Is(h)
<1>1. AddReceivedMissingVotePackets(packets, s) = it[1..n]
  BY DEF AddReceivedMissingVotePackets, FoldLeft, MapThenFoldSet
<1>2. act \in [Ledgers \X (1..n) -> Ledgers]
  <2>1. ASSUME NEW ps \in Ledgers, NEW i \in 1..n
        PROVE  SetVotes(ps, s[i].evaluator, s[i]) \in Ledgers
    <3>1. s[i] \in BallotSet
      OBVIOUS
    <3>2. QED
      BY <3>1, Ballot, SetVotesLedger
  <2>2. QED
    BY <2>1
<1>3. \A r \in Ledgers, i \in 1..n : act[<<r, i>>] = SetVotes(r, s[i].evaluator, s[i])
  OBVIOUS
<1>4. ASSUME NEW d \in SUBSET (1..n), d # {} PROVE Max(d) \in 1..n
  <2>1. Max(d) \in d
    BY <1>4, MaxOfSome
  <2>2. QED
    BY <2>1
<1> HIDE DEF act
<1>5. \E f : Is(f)
  <2>1. PICK f \in [SUBSET (1..n) -> Ledgers] : Folding(f, n, packets, act)
    BY <1>2, FoldExists
  <2>2. \A d \in SUBSET (1..n) :
          d # {} => act[<<f[d \ {Max(d)}], Max(d)>>] = SetVotes(f[d \ {Max(d)}], s[Max(d)].evaluator, s[Max(d)])
    BY <1>3, <1>4, <2>1
  <2>3. Is(f)
    BY <2>1, <2>2 DEF Folding
  <2>4. QED
    BY <2>3
<1>6. Is(it)
  <2> HIDE DEF Is
  <2>1. QED
    BY <1>5
<1>7. \A d \in SUBSET (1..n) :
        it[d] = IF d = {} THEN packets ELSE SetVotes(it[d \ {Max(d)}], s[Max(d)].evaluator, s[Max(d)])
  <2> HIDE DEF it
  <2>1. QED
    BY <1>6
<1> HIDE DEF it
<1>8. PICK g : Leads(g, n, Ledgers, packets, act, AddReceivedMissingVotePackets(packets, s))
  <2>1. it[{}] = packets
    BY <1>7
  <2>2. \A d \in SUBSET (1..n) :
          d # {} /\ it[d \ {Max(d)}] \in Ledgers => it[d] = act[<<it[d \ {Max(d)}], Max(d)>>]
    BY <1>3, <1>4, <1>7
  <2>3. Unfolded(it, n, Ledgers, packets, act, AddReceivedMissingVotePackets(packets, s))
    BY <1>1, <2>1, <2>2 DEF Unfolded
  <2>4. QED
    BY <1>2, <2>3, FoldLast
<1>9. \A k \in 0..n : k # n => g[k + 1] = SetVotes(g[k], s[k + 1].evaluator, s[k + 1])
  <2>1. \A k \in 0..n : k # n => k + 1 \in 1..n
    OBVIOUS
  <2>2. QED
    BY <1>3, <1>8, <2>1 DEF Chain, Leads
<1>10. QED
  BY <1>8, <1>9 DEF Chain, Leads
-----------------------------------------------------------------------------
(***************************************************************************)
(* Buffers: n fields that take z bytes.                                    *)
(***************************************************************************)
Wide(b, n, z) ==
  /\ n \in Nat /\ Len(b) = n /\ DOMAIN b = 1..n /\ \A i \in 1..n : b[i].width \in Nat
  /\ z \in Nat /\ Size(b) = z

\* Fields of one width.
Even(b, n, w) ==
  n \in Nat /\ w \in Nat /\ Len(b) = n /\ DOMAIN b = 1..n /\ \A i \in 1..n : b[i].width = w

\* Fields of one width each.
LEMMA WideSame ==
  ASSUME NEW b, NEW n, NEW w, Even(b, n, w)
  PROVE  Wide(b, n, w * n)
<1> USE DEF Even
<1>1. PICK g : Adds(g, b, n)
  <2>1. Widths(b, n)
    BY DEF Widths
  <2>2. QED
    BY <2>1, SizeFold
<1> DEFINE So == {k \in Nat : k <= n => g[k] = w * k}
<1>2. 0 \in So
  BY <1>1 DEF Adds
<1>3. ASSUME NEW k \in Nat, k \in So PROVE k + 1 \in So
  <2> SUFFICES ASSUME k + 1 <= n PROVE g[k + 1] = w * (k + 1)
    OBVIOUS
  <2>1. g[k] = w * k /\ k \in 0..n /\ k # n /\ k + 1 \in 1..n
    BY <1>3
  <2>2. g[k + 1] = w * k + w
    BY <1>1, <2>1 DEF Adds
  <2>3. QED
    BY <2>2
<1>4. \A k \in Nat : k \in So
  <2> HIDE DEF So
  <2>1. QED
    BY <1>2, <1>3, SetInduction
<1>5. Size(b) = w * n /\ w * n \in Nat
  BY <1>1, <1>4 DEF Adds
<1>6. QED
  BY <1>5 DEF Wide

LEMMA WideOne ==
  ASSUME NEW a, a.width \in Nat
  PROVE  Wide(<<a>>, 1, a.width)
<1> DEFINE s == <<a>>
<1>1. Len(s) = 1 /\ DOMAIN s = 1..1 /\ s[1] = a
  OBVIOUS
<1> HIDE DEF s
<1>2. \A i \in 1..1 : s[i].width \in Nat
  <2>1. \A i \in 1..1 : i = 1
    OBVIOUS
  <2>2. QED
    BY <1>1, <2>1
<1>3. PICK g : Adds(g, s, 1)
  <2>1. Widths(s, 1)
    BY <1>1, <1>2 DEF Widths
  <2>2. QED
    BY <2>1, SizeFold
<1>4. g[0 + 1] = g[0] + a.width
  BY <1>1, <1>3 DEF Adds
<1>5. g[1] \in Nat /\ Size(s) = g[1] /\ g[1] = a.width
  BY <1>3, <1>4 DEF Adds
<1>6. Wide(s, 1, a.width)
  BY <1>1, <1>2, <1>5 DEF Wide
<1>7. QED
  BY <1>6 DEF s

LEMMA WideTwo ==
  ASSUME NEW a, NEW b, a.width \in Nat, b.width \in Nat
  PROVE  Wide(<<a, b>>, 2, a.width + b.width)
<1> DEFINE s == <<a, b>>
<1>1. Len(s) = 2 /\ DOMAIN s = 1..2 /\ s[1] = a /\ s[2] = b
  OBVIOUS
<1> HIDE DEF s
<1>2. \A i \in 1..2 : s[i].width \in Nat
  <2>1. \A i \in 1..2 : i = 1 \/ i = 2
    OBVIOUS
  <2>2. QED
    BY <1>1, <2>1
<1>3. PICK g : Adds(g, s, 2)
  <2>1. Widths(s, 2)
    BY <1>1, <1>2 DEF Widths
  <2>2. QED
    BY <2>1, SizeFold
<1>4. g[0 + 1] = g[0] + a.width /\ g[1 + 1] = g[1] + b.width
  BY <1>1, <1>3 DEF Adds
<1>5. g[2] \in Nat /\ Size(s) = g[2] /\ g[2] = a.width + b.width
  BY <1>3, <1>4 DEF Adds
<1>6. Wide(s, 2, a.width + b.width)
  BY <1>1, <1>2, <1>5 DEF Wide
<1>7. QED
  BY <1>6 DEF s

LEMMA WideThree ==
  ASSUME NEW a, NEW b, NEW c, a.width \in Nat, b.width \in Nat, c.width \in Nat
  PROVE  Wide(<<a, b, c>>, 3, a.width + b.width + c.width)
<1> DEFINE s == <<a, b, c>>
<1>1. Len(s) = 3 /\ DOMAIN s = 1..3 /\ s[1] = a /\ s[2] = b /\ s[3] = c
  OBVIOUS
<1> HIDE DEF s
<1>2. \A i \in 1..3 : s[i].width \in Nat
  <2>1. \A i \in 1..3 : i = 1 \/ i = 2 \/ i = 3
    OBVIOUS
  <2>2. QED
    BY <1>1, <2>1
<1>3. PICK g : Adds(g, s, 3)
  <2>1. Widths(s, 3)
    BY <1>1, <1>2 DEF Widths
  <2>2. QED
    BY <2>1, SizeFold
<1>4. g[0 + 1] = g[0] + a.width /\ g[1 + 1] = g[1] + b.width /\ g[2 + 1] = g[2] + c.width
  BY <1>1, <1>3 DEF Adds
<1>5. g[3] \in Nat /\ Size(s) = g[3] /\ g[3] = a.width + b.width + c.width
  BY <1>3, <1>4 DEF Adds
<1>6. Wide(s, 3, a.width + b.width + c.width)
  BY <1>1, <1>2, <1>5 DEF Wide
<1>7. QED
  BY <1>6 DEF s

LEMMA WideFour ==
  ASSUME NEW a, NEW b, NEW c, NEW d, a.width \in Nat, b.width \in Nat, c.width \in Nat, d.width \in Nat
  PROVE  Wide(<<a, b, c, d>>, 4, a.width + b.width + c.width + d.width)
<1> DEFINE s == <<a, b, c, d>>
<1>1. Len(s) = 4 /\ DOMAIN s = 1..4 /\ s[1] = a /\ s[2] = b /\ s[3] = c /\ s[4] = d
  OBVIOUS
<1> HIDE DEF s
<1>2. \A i \in 1..4 : s[i].width \in Nat
  <2>1. \A i \in 1..4 : i = 1 \/ i = 2 \/ i = 3 \/ i = 4
    OBVIOUS
  <2>2. QED
    BY <1>1, <2>1
<1>3. PICK g : Adds(g, s, 4)
  <2>1. Widths(s, 4)
    BY <1>1, <1>2 DEF Widths
  <2>2. QED
    BY <2>1, SizeFold
<1>4. g[0 + 1] = g[0] + a.width /\ g[1 + 1] = g[1] + b.width /\ g[2 + 1] = g[2] + c.width /\ g[3 + 1] = g[3] + d.width
  BY <1>1, <1>3 DEF Adds
<1>5. g[4] \in Nat /\ Size(s) = g[4] /\ g[4] = a.width + b.width + c.width + d.width
  BY <1>3, <1>4 DEF Adds
<1>6. Wide(s, 4, g[4])
  BY <1>1, <1>2, <1>5 DEF Wide
<1>7. Wide(s, 4, a.width + b.width + c.width + d.width)
  BY <1>5, <1>6
<1>8. QED
  BY <1>7 DEF s

\* One buffer after another.
LEMMA WideJoin ==
  ASSUME NEW s, NEW n, NEW y, Wide(s, n, y), NEW t, NEW m, NEW z, Wide(t, m, z)
  PROVE  Wide(s \o t, n + m, y + z)
<1> DEFINE b == s \o t
<1>1. n \in Nat /\ m \in Nat /\ y \in Nat /\ z \in Nat /\ Len(s) = n /\ Len(t) = m
  BY DEF Wide
<1>2. Len(b) = n + m /\ DOMAIN b = 1..(n + m)
  BY <1>1
<1>3. \A i \in 1..n : b[i] = s[i]
  BY <1>1
<1>4. \A i \in 1..m : b[n + i] = t[i]
  BY <1>1
<1> HIDE DEF b
<1>5. ASSUME NEW i \in 1..(n + m) PROVE b[i].width \in Nat
  <2>1. CASE i <= n
    BY <1>1, <1>3, <2>1 DEF Wide
  <2>2. CASE ~(i <= n)
    <3>1. i - n \in 1..m /\ i = n + (i - n)
      BY <1>1, <2>2
    <3>2. QED
      BY <1>4, <3>1 DEF Wide
  <2>3. QED
    BY <2>1, <2>2
<1>6. PICK f : Adds(f, s, n)
  <2>1. Widths(s, n)
    BY DEF Wide, Widths
  <2>2. QED
    BY <2>1, SizeFold
<1>7. PICK g : Adds(g, t, m)
  <2>1. Widths(t, m)
    BY DEF Wide, Widths
  <2>2. QED
    BY <2>1, SizeFold
<1>8. PICK h : Adds(h, b, n + m)
  <2>1. n + m \in Nat
    BY <1>1
  <2>2. Widths(b, n + m)
    BY <1>2, <1>5, <2>1 DEF Widths
  <2>3. QED
    BY <2>2, SizeFold
<1>9. h[n] = y
  <2> DEFINE So == {k \in Nat : k <= n => h[k] = f[k]}
  <2>1. 0 \in So
    BY <1>6, <1>8 DEF Adds
  <2>2. ASSUME NEW k \in Nat, k \in So PROVE k + 1 \in So
    <3> SUFFICES ASSUME k + 1 <= n PROVE h[k + 1] = f[k + 1]
      OBVIOUS
    <3>1. /\ h[k] = f[k] /\ k \in 0..n /\ k # n /\ k + 1 \in 1..n
          /\ k \in 0..(n + m) /\ k # n + m
      BY <1>1, <2>2
    <3>2. h[k + 1] = h[k] + s[k + 1].width
      BY <1>3, <1>8, <3>1 DEF Adds
    <3>3. QED
      BY <1>6, <3>1, <3>2 DEF Adds
  <2>3. \A k \in Nat : k \in So
    <3> HIDE DEF So
    <3>1. QED
      BY <2>1, <2>2, SetInduction
  <2>4. h[n] = f[n]
    BY <1>1, <2>3
  <2>5. QED
    BY <1>6, <2>4 DEF Wide, Adds
<1>10. h[n + m] = y + z
  <2> DEFINE So == {k \in Nat : k <= m => h[n + k] = y + g[k]}
  <2>1. 0 \in So
    BY <1>1, <1>7, <1>9 DEF Adds
  <2>2. ASSUME NEW k \in Nat, k \in So PROVE k + 1 \in So
    <3> SUFFICES ASSUME k + 1 <= m PROVE h[n + (k + 1)] = y + g[k + 1]
      OBVIOUS
    <3>1. /\ h[n + k] = y + g[k] /\ k \in 0..m /\ k # m /\ k + 1 \in 1..m
          /\ n + k \in 0..(n + m) /\ n + k # n + m /\ (n + k) + 1 = n + (k + 1)
      BY <1>1, <2>2
    <3>2. h[n + (k + 1)] = h[n + k] + b[n + (k + 1)].width
      BY <1>8, <3>1 DEF Adds
    <3>3. h[n + (k + 1)] = h[n + k] + t[k + 1].width
      BY <1>4, <3>1, <3>2
    <3>4. g[k + 1] = g[k] + t[k + 1].width /\ g[k] \in Nat
      BY <1>7, <3>1 DEF Adds
    <3>5. t[k + 1].width \in Nat
      BY <3>1 DEF Wide
    <3>6. PICK w \in Nat : w = t[k + 1].width
      BY <3>5
    <3>7. \A a \in Nat : (y + a) + w = y + (a + w)
      BY <1>1
    <3>8. QED
      BY <3>1, <3>3, <3>4, <3>6, <3>7
  <2>3. \A k \in Nat : k \in So
    <3> HIDE DEF So
    <3>1. QED
      BY <2>1, <2>2, SetInduction
  <2>4. h[n + m] = y + g[m]
    BY <1>1, <2>3
  <2>5. QED
    BY <1>7, <2>4 DEF Wide, Adds
<1>11. Wide(b, n + m, y + z)
  BY <1>1, <1>2, <1>5, <1>8, <1>10 DEF Wide, Adds
<1>12. QED
  BY <1>11 DEF b
\* b has the fields of s after the first at.
Holds(b, at, s) == \A i \in 1..Len(s) : b[at + i] = s[i]

\* What holds two parts holds each of them.
LEMMA HoldsParts ==
  ASSUME NEW s, NEW n, NEW y, Wide(s, n, y), NEW t, NEW m, NEW z, Wide(t, m, z),
         NEW b, NEW at \in Nat, Holds(b, at, s \o t)
  PROVE  Holds(b, at, s) /\ Holds(b, at + n, t)
<1>1. n \in Nat /\ m \in Nat /\ Len(s) = n /\ Len(t) = m
  BY DEF Wide
<1>2. ASSUME NEW i \in 1..n PROVE b[at + i] = s[i]
  <2>1. i \in 1..Len(s \o t) /\ (s \o t)[i] = s[i]
    BY <1>1
  <2>2. QED
    BY <2>1 DEF Holds
<1>3. ASSUME NEW i \in 1..m PROVE b[(at + n) + i] = t[i]
  <2>1. n + i \in 1..Len(s \o t) /\ (s \o t)[n + i] = t[i] /\ at + (n + i) = (at + n) + i
    BY <1>1
  <2>2. QED
    BY <2>1 DEF Holds
<1>4. QED
  BY <1>1, <1>2, <1>3 DEF Holds

LEMMA WideNone == Wide(<<>>, 0, 0)
<1>1. Len(<<>>) = 0 /\ DOMAIN <<>> = 1..0
  OBVIOUS
<1>2. PICK b : b = <<>>
  OBVIOUS
<1>3. Len(b) = 0 /\ DOMAIN b = 1..0 /\ \A i \in 1..0 : b[i].width = 0
  BY <1>1, <1>2
<1>4. Wide(b, 0, 0 * 0)
  <2>1. Even(b, 0, 0)
    BY <1>3 DEF Even
  <2>2. QED
    BY <2>1, WideSame
<1>5. 0 * 0 = 0
  OBVIOUS
<1>6. QED
  BY <1>2, <1>4, <1>5

-----------------------------------------------------------------------------
(***************************************************************************)
(* Votes in a buffer.                                                      *)
(***************************************************************************)
VoteField ==
  [width : Nat,
   value : Addresses \cup {NoAddress} \cup Nat \cup (Addresses \X {"Negative", "Positive"}) \cup Seq(Nat)]

\* What WriteVotesIntoBuffer writes of a packet with n votes.
HoldsVotes(b, at, p, n) ==
  /\ b[at + 1].value = p.evaluator /\ b[at + 2].value = n
  /\ \A i \in 1..n : b[at + 2 + i].value = p.votes[i]
  /\ b[at + n + 4].value = p.signature

\* How long a vote packet is, and what its fields are.
LEMMA VotesWritten ==
  ASSUME NEW p \in VotePacket, NEW n \in Nat, n = Len(p.votes), NEW w, w = WriteVotesIntoBuffer(p)
  PROVE  /\ w \in Seq(VoteField) /\ Wide(w, n + 4, GetSizeVotesList(p))
         /\ \A b, at : at \in Nat /\ Holds(b, at, w) => HoldsVotes(b, at, p, n)
<1> DEFINE head == <<Address(p.evaluator), U32(Len(p.votes))>>
           body == [i \in DOMAIN p.votes |-> Field(5, p.votes[i])]
           tail == <<U32(Len(p.signature)), Field(Len(p.signature), p.signature)>>
<1>1. /\ p.evaluator \in Addresses \cup {NoAddress}
      /\ p.votes \in Seq(Addresses \X {"Negative", "Positive"}) /\ p.signature \in Seq(Nat)
      /\ n \in Nat /\ Len(p.signature) \in Nat /\ DOMAIN p.votes = 1..n
  BY DEF VotePacket
<1>2. w = (head \o body) \o tail
  BY DEF WriteVotesIntoBuffer
<1>3. Address(p.evaluator) \in VoteField /\ Address(p.evaluator).width = 4
      /\ Address(p.evaluator).value = p.evaluator
  BY <1>1 DEF Address, Field, VoteField
<1>4. U32(Len(p.votes)) \in VoteField /\ U32(Len(p.votes)).width = 4 /\ U32(Len(p.votes)).value = n
  BY <1>1 DEF U32, Field, VoteField
<1>5. U32(Len(p.signature)) \in VoteField /\ U32(Len(p.signature)).width = 4
  BY <1>1 DEF U32, Field, VoteField
<1>6. /\ Field(Len(p.signature), p.signature) \in VoteField
      /\ Field(Len(p.signature), p.signature).width = Len(p.signature)
      /\ Field(Len(p.signature), p.signature).value = p.signature
  BY <1>1 DEF Field, VoteField
<1>7. ASSUME NEW i \in 1..n
      PROVE  Field(5, p.votes[i]) \in VoteField /\ Field(5, p.votes[i]).width = 5
             /\ Field(5, p.votes[i]).value = p.votes[i]
  BY <1>1 DEF Field, VoteField
<1>8. Wide(head, 2, 8) /\ head \in Seq(VoteField) /\ Len(head) = 2
  <2>1. Wide(head, 2, Address(p.evaluator).width + U32(Len(p.votes)).width)
    BY <1>3, <1>4, WideTwo
  <2>2. Address(p.evaluator).width + U32(Len(p.votes)).width = 8
    BY <1>3, <1>4
  <2>3. head \in Seq(VoteField) /\ Len(head) = 2
    BY <1>3, <1>4
  <2>4. QED
    BY <2>1, <2>2, <2>3
<1>9. Wide(body, n, 5 * n) /\ body \in Seq(VoteField) /\ Len(body) = n
  <2>1. DOMAIN body = 1..n /\ Len(body) = n /\ \A i \in 1..n : body[i] = Field(5, p.votes[i])
    BY <1>1
  <2>2. body \in Seq(VoteField)
    <3>1. \A i \in DOMAIN p.votes : Field(5, p.votes[i]) \in VoteField
      BY <1>1, <1>7
    <3>2. body \in [1..n -> VoteField]
      BY <1>1, <3>1
    <3>3. QED
      <4> HIDE DEF body
      <4>1. QED
        BY <3>2
  <2> HIDE DEF body
  <2>3. Even(body, n, 5)
    BY <1>7, <2>1 DEF Even
  <2>4. QED
    BY <2>1, <2>2, <2>3, WideSame
<1>10. /\ Wide(tail, 2, 4 + Len(p.signature)) /\ tail \in Seq(VoteField) /\ Len(tail) = 2
       /\ tail[2].value = p.signature
  <2>1. Wide(tail, 2, U32(Len(p.signature)).width + Field(Len(p.signature), p.signature).width)
    BY <1>1, <1>5, <1>6, WideTwo
  <2>2. tail \in Seq(VoteField) /\ Len(tail) = 2 /\ tail[2].value = p.signature
    BY <1>5, <1>6
  <2>3. QED
    BY <1>5, <1>6, <2>1, <2>2
<1>11. head[1].value = p.evaluator /\ head[2].value = n /\ \A i \in 1..n : body[i].value = p.votes[i]
  BY <1>1, <1>3, <1>4, <1>7
<1> HIDE DEF head, body, tail
<1>12. Wide(w, (2 + n) + 2, (8 + 5 * n) + (4 + Len(p.signature)))
  BY <1>2, <1>8, <1>9, <1>10, WideJoin
<1>13. (2 + n) + 2 = n + 4 /\ (8 + 5 * n) + (4 + Len(p.signature)) = GetSizeVotesList(p)
  <2>1. \A a, m \in Nat : (2 + a) + 2 = a + 4 /\ (8 + 5 * a) + (4 + m) = 4 + 4 + 5 * a + 4 + m
    OBVIOUS
  <2>2. QED
    BY <1>1, <2>1 DEF GetSizeVotesList
<1>14. w \in Seq(VoteField)
  BY <1>2, <1>8, <1>9, <1>10
<1>15. ASSUME NEW b, NEW at \in Nat, Holds(b, at, w) PROVE HoldsVotes(b, at, p, n)
  <2>1. Wide(head \o body, 2 + n, 8 + 5 * n)
    BY <1>8, <1>9, WideJoin
  <2>2. Holds(b, at, head \o body) /\ Holds(b, at + (2 + n), tail)
    <3>1. Holds(b, at, (head \o body) \o tail)
      BY <1>2, <1>15
    <3>2. QED
      BY <1>10, <2>1, <3>1, HoldsParts
  <2>3. Holds(b, at, head) /\ Holds(b, at + 2, body)
    BY <1>8, <1>9, <2>2, HoldsParts
  <2>4. b[at + 1] = head[1] /\ b[at + 2] = head[2]
    BY <1>8, <2>3 DEF Holds
  <2>5. b[at + (2 + n) + 2] = tail[2] /\ at + (2 + n) + 2 = at + n + 4
    BY <1>10, <2>2 DEF Holds
  <2>6. QED
    BY <1>9, <1>10, <1>11, <2>3, <2>4, <2>5 DEF Holds, HoldsVotes
<1>16. QED
  BY <1>12, <1>13, <1>14, <1>15

-----------------------------------------------------------------------------
(***************************************************************************)
(* Lists of vote packets in a buffer.                                      *)
(***************************************************************************)
Packets(s, n) == n \in Nat /\ s \in Seq(VotePacket) /\ n = Len(s)

\* What GetSizeVotesList2 announces, and what WriteVotesIntoBuffer2 writes, step by step.
Announced(g, s, n) ==
  /\ g \in [0..n -> Nat] /\ g[0] = 4 /\ GetSizeVotesList2(s) = g[n]
  /\ \A k \in 0..n : k # n => g[k + 1] = g[k] + GetSizeVotesList(s[k + 1])

Enlisted(g, s, n) ==
  /\ g \in [0..n -> Seq(VoteField)] /\ g[0] = <<>> /\ WriteVotesIntoBuffer2(s) = g[n]
  /\ \A k \in 0..n : k # n => g[k + 1] = g[k] \o WriteVotesIntoBuffer(s[k + 1])

\* A packet of m votes, and what it takes.
OnePacket(p, m, l, z) ==
  /\ p \in VotePacket /\ m \in Nat /\ m = Len(p.votes) /\ l \in Nat /\ l = m + 4
  /\ z \in Nat /\ z = GetSizeVotesList(p)
  /\ WriteVotesIntoBuffer(p) \in Seq(VoteField) /\ Wide(WriteVotesIntoBuffer(p), l, z)

LEMMA EachPacket ==
  ASSUME NEW p \in VotePacket
  PROVE  \E m, l, z : OnePacket(p, m, l, z)
<1>1. PICK m \in Nat : m = Len(p.votes)
  BY DEF VotePacket
<1>2. /\ WriteVotesIntoBuffer(p) \in Seq(VoteField)
      /\ Wide(WriteVotesIntoBuffer(p), m + 4, GetSizeVotesList(p))
  BY <1>1, VotesWritten
<1>3. PICK l \in Nat : l = m + 4
  OBVIOUS
<1>4. OnePacket(p, m, l, GetSizeVotesList(p))
  BY <1>1, <1>2, <1>3 DEF OnePacket, Wide
<1>5. QED
  BY <1>4

\* ReadVotesFromBuffer reads it, wherever it is, and stops after it.
ReadsOne(b, at, p, l) ==
  /\ ReadVotesFromBuffer(b, at + 1).packet = p
  /\ ReadVotesFromBuffer(b, at + 1).next = (at + 1) + l

\* A vote packet is read where it was written.
LEMMA VotesRead ==
  ASSUME NEW p, NEW n, NEW l, NEW z, OnePacket(p, n, l, z), NEW b, NEW at \in Nat,
         Holds(b, at, WriteVotesIntoBuffer(p))
  PROVE  ReadsOne(b, at, p, l)
<1>1. p \in VotePacket /\ n \in Nat /\ n = Len(p.votes) /\ l = n + 4
  BY DEF OnePacket
<1>2. HoldsVotes(b, at, p, n)
  <2>1. Holds(b, at, WriteVotesIntoBuffer(p))
    BY <1>1
  <2>2. QED
    BY <1>1, <2>1, VotesWritten
<1>3. b[at + 1].value = p.evaluator /\ b[(at + 1) + 1].value = n /\ b[(at + 1) + n + 3].value = p.signature
  <2>1. \A a, m \in Nat : (a + 1) + 1 = a + 2 /\ (a + 1) + m + 3 = a + m + 4
    OBVIOUS
  <2>2. QED
    BY <1>1, <1>2, <2>1 DEF HoldsVotes
<1>4. ASSUME NEW i \in 1..n PROVE b[(at + 1) + 1 + i].value = p.votes[i]
  <2>1. (at + 1) + 1 + i = at + 2 + i
    OBVIOUS
  <2>2. QED
    BY <1>1, <1>2, <2>1 DEF HoldsVotes
<1>5. p = [evaluator |-> p.evaluator, votes |-> p.votes, signature |-> p.signature]
      /\ p.votes = [i \in 1..n |-> p.votes[i]]
  BY <1>1 DEF VotePacket
<1>6. \A a, m \in Nat : (a + 1) + m + 4 = (a + 1) + (m + 4)
  OBVIOUS
<1>7. QED
  BY <1>1, <1>3, <1>4, <1>5, <1>6 DEF ReadVotesFromBuffer, ReadsOne

LEMMA PacketFacts ==
  ASSUME NEW s, NEW n, Packets(s, n)
  PROVE  /\ n \in Nat /\ DOMAIN s = 1..n
         /\ \A i \in 1..n : /\ s[i] \in VotePacket
                            /\ GetSizeVotesList(s[i]) \in Nat
                            /\ WriteVotesIntoBuffer(s[i]) \in Seq(VoteField)
<1>1. n \in Nat /\ DOMAIN s = 1..n /\ \A i \in 1..n : s[i] \in VotePacket
  BY DEF Packets
<1>2. ASSUME NEW p \in VotePacket
      PROVE  GetSizeVotesList(p) \in Nat /\ WriteVotesIntoBuffer(p) \in Seq(VoteField)
  BY EachPacket DEF OnePacket
<1>3. QED
  BY <1>1, <1>2

\* What a list of vote packets announces.
LEMMA VotesSizeFold ==
  ASSUME NEW s, NEW n, Packets(s, n)
  PROVE  \E g : Announced(g, s, n)
<1>0. n \in Nat /\ DOMAIN s = 1..n /\ \A i \in 1..n : GetSizeVotesList(s[i]) \in Nat
  BY PacketFacts
<1> DEFINE act == [p \in Nat \X (1..n) |-> p[1] + GetSizeVotesList(s[p[2]])]
           Is(h) == h = [d \in SUBSET (1..n) |->
                           IF d = {} THEN 4 ELSE h[d \ {Max(d)}] + GetSizeVotesList(s[Max(d)])]
           it == CHOOSE h : Is(h)
<1>1. GetSizeVotesList2(s) = it[1..n]
  BY <1>0 DEF GetSizeVotesList2, FoldLeft, MapThenFoldSet
<1> USE <1>0
<1>2. act \in [Nat \X (1..n) -> Nat]
  OBVIOUS
<1>3. \A r \in Nat, i \in 1..n : act[<<r, i>>] = r + GetSizeVotesList(s[i])
  OBVIOUS
<1>4. ASSUME NEW d \in SUBSET (1..n), d # {} PROVE Max(d) \in 1..n
  <2>1. Max(d) \in d
    BY <1>4, MaxOfSome
  <2>2. QED
    BY <2>1
<1> HIDE DEF act
<1>5. \E f : Is(f)
  <2>1. PICK f \in [SUBSET (1..n) -> Nat] : Folding(f, n, 4, act)
    BY <1>2, FoldExists
  <2>2. \A d \in SUBSET (1..n) :
          d # {} => act[<<f[d \ {Max(d)}], Max(d)>>] = f[d \ {Max(d)}] + GetSizeVotesList(s[Max(d)])
    BY <1>3, <1>4, <2>1
  <2>3. Is(f)
    BY <2>1, <2>2 DEF Folding
  <2>4. QED
    BY <2>3
<1>6. Is(it)
  <2> HIDE DEF Is
  <2>1. QED
    BY <1>5
<1>7. \A d \in SUBSET (1..n) :
        it[d] = IF d = {} THEN 4 ELSE it[d \ {Max(d)}] + GetSizeVotesList(s[Max(d)])
  <2> HIDE DEF it
  <2>1. QED
    BY <1>6
<1> HIDE DEF it
<1>8. PICK g : Leads(g, n, Nat, 4, act, GetSizeVotesList2(s))
  <2>1. it[{}] = 4
    BY <1>7
  <2>2. \A d \in SUBSET (1..n) :
          d # {} /\ it[d \ {Max(d)}] \in Nat => it[d] = act[<<it[d \ {Max(d)}], Max(d)>>]
    BY <1>3, <1>4, <1>7
  <2>3. Unfolded(it, n, Nat, 4, act, GetSizeVotesList2(s))
    BY <1>1, <2>1, <2>2 DEF Unfolded
  <2>4. QED
    BY <1>2, <2>3, FoldLast
<1>9. \A k \in 0..n : k # n => g[k + 1] = g[k] + GetSizeVotesList(s[k + 1])
  <2>1. \A k \in 0..n : k # n => k + 1 \in 1..n
    OBVIOUS
  <2>2. QED
    BY <1>3, <1>8, <2>1 DEF Chain, Leads
<1>10. QED
  BY <1>8, <1>9 DEF Chain, Leads, Announced

\* The buffer that a list of vote packets makes.
LEMMA VotesFold ==
  ASSUME NEW s, NEW n, Packets(s, n)
  PROVE  \E g : Enlisted(g, s, n)
<1>0. /\ n \in Nat /\ DOMAIN s = 1..n
      /\ \A i \in 1..n : WriteVotesIntoBuffer(s[i]) \in Seq(VoteField)
  BY PacketFacts
<1> DEFINE act == [p \in Seq(VoteField) \X (1..n) |-> p[1] \o WriteVotesIntoBuffer(s[p[2]])]
           Is(h) == h = [d \in SUBSET (1..n) |->
                           IF d = {} THEN <<>> ELSE h[d \ {Max(d)}] \o WriteVotesIntoBuffer(s[Max(d)])]
           it == CHOOSE h : Is(h)
<1>1. WriteVotesIntoBuffer2(s) = it[1..n]
  BY <1>0 DEF WriteVotesIntoBuffer2, FoldLeft, MapThenFoldSet
<1> USE <1>0
<1>2. act \in [Seq(VoteField) \X (1..n) -> Seq(VoteField)]
  OBVIOUS
<1>3. \A r \in Seq(VoteField), i \in 1..n : act[<<r, i>>] = r \o WriteVotesIntoBuffer(s[i])
  OBVIOUS
<1>4. ASSUME NEW d \in SUBSET (1..n), d # {} PROVE Max(d) \in 1..n
  <2>1. Max(d) \in d
    BY <1>4, MaxOfSome
  <2>2. QED
    BY <2>1
<1>5. <<>> \in Seq(VoteField)
  OBVIOUS
<1> HIDE DEF act
<1>6. \E f : Is(f)
  <2>1. PICK f \in [SUBSET (1..n) -> Seq(VoteField)] : Folding(f, n, <<>>, act)
    BY <1>2, <1>5, FoldExists
  <2>2. \A d \in SUBSET (1..n) :
          d # {} => act[<<f[d \ {Max(d)}], Max(d)>>] = f[d \ {Max(d)}] \o WriteVotesIntoBuffer(s[Max(d)])
    BY <1>3, <1>4, <2>1
  <2>3. Is(f)
    BY <2>1, <2>2 DEF Folding
  <2>4. QED
    BY <2>3
<1>7. Is(it)
  <2> HIDE DEF Is
  <2>1. QED
    BY <1>6
<1>8. \A d \in SUBSET (1..n) :
        it[d] = IF d = {} THEN <<>> ELSE it[d \ {Max(d)}] \o WriteVotesIntoBuffer(s[Max(d)])
  <2> HIDE DEF it
  <2>1. QED
    BY <1>7
<1> HIDE DEF it
<1>9. PICK g : Leads(g, n, Seq(VoteField), <<>>, act, WriteVotesIntoBuffer2(s))
  <2>1. it[{}] = <<>>
    BY <1>8
  <2>2. \A d \in SUBSET (1..n) :
          d # {} /\ it[d \ {Max(d)}] \in Seq(VoteField) => it[d] = act[<<it[d \ {Max(d)}], Max(d)>>]
    BY <1>3, <1>4, <1>8
  <2>3. Unfolded(it, n, Seq(VoteField), <<>>, act, WriteVotesIntoBuffer2(s))
    BY <1>1, <2>1, <2>2 DEF Unfolded
  <2>4. QED
    BY <1>2, <1>5, <2>3, FoldLast
<1>10. \A k \in 0..n : k # n => g[k + 1] = g[k] \o WriteVotesIntoBuffer(s[k + 1])
  <2>1. \A k \in 0..n : k # n => k + 1 \in 1..n
    OBVIOUS
  <2>2. QED
    BY <1>3, <1>9, <2>1 DEF Chain, Leads
<1>11. QED
  BY <1>9, <1>10 DEF Chain, Leads, Enlisted

\* Both together.
Listed(g, f, ps, n) == Packets(ps, n) /\ Enlisted(g, ps, n) /\ Announced(f, ps, n)

LEMMA ListSteps ==
  ASSUME NEW ps, NEW n, Packets(ps, n)
  PROVE  \E g, f : Listed(g, f, ps, n)
BY VotesFold, VotesSizeFold DEF Listed

\* One step: what it writes, and how many bytes.
OneMore(g, f, ps, k, j, m, l, z) ==
  /\ j = k + 1 /\ j \in Nat /\ OnePacket(ps[j], m, l, z)
  /\ g[j] = g[k] \o WriteVotesIntoBuffer(ps[j]) /\ f[k] \in Nat /\ f[j] = f[k] + z

LEMMA ListStep ==
  ASSUME NEW ps, NEW n, NEW g, NEW f, Listed(g, f, ps, n), NEW k \in 0..n, k # n
  PROVE  \E j \in 1..n : \E m, l, z : OneMore(g, f, ps, k, j, m, l, z)
<1>1. n \in Nat /\ DOMAIN ps = 1..n /\ \A i \in 1..n : ps[i] \in VotePacket
  <2>1. Packets(ps, n)
    BY DEF Listed
  <2>2. QED
    BY <2>1, PacketFacts
<1>2. PICK j \in 1..n : j = k + 1
  BY <1>1
<1>3. PICK m, l, z : OnePacket(ps[j], m, l, z)
  BY <1>1, EachPacket
<1>4. g[j] = g[k] \o WriteVotesIntoBuffer(ps[j])
  BY <1>2 DEF Listed, Enlisted
<1>5. f[k] \in Nat /\ f[j] = f[k] + GetSizeVotesList(ps[j])
  BY <1>1, <1>2 DEF Listed, Announced
<1>6. OneMore(g, f, ps, k, j, m, l, z)
  BY <1>1, <1>2, <1>3, <1>4, <1>5 DEF OneMore, OnePacket
<1>7. QED
  BY <1>6

LEMMA ListWidth ==
  ASSUME NEW ps, NEW n, NEW g, NEW f, Listed(g, f, ps, n)
  PROVE  n \in Nat /\ \A k \in 0..n : \E l \in Nat, z \in Nat : Wide(g[k], l, z) /\ f[k] = z + 4
<1> DEFINE So == {k \in Nat : k <= n => \E l \in Nat, z \in Nat : Wide(g[k], l, z) /\ f[k] = z + 4}
<1>1. n \in Nat
  BY DEF Listed, Packets
<1>2. 0 \in So
  <2>1. PICK o \in Nat : o = 0
    OBVIOUS
  <2>2. Wide(g[0], o, o) /\ f[0] = o + 4
    BY <2>1, WideNone DEF Listed, Enlisted, Announced
  <2>3. QED
    BY <2>2
<1>3. ASSUME NEW k \in Nat, k \in So PROVE k + 1 \in So
  <2> SUFFICES ASSUME k + 1 <= n
               PROVE  \E l \in Nat, z \in Nat : Wide(g[k + 1], l, z) /\ f[k + 1] = z + 4
    OBVIOUS
  <2>1. k \in 0..n /\ k # n
    BY <1>1
  <2>2. PICK l \in Nat, z \in Nat : Wide(g[k], l, z) /\ f[k] = z + 4
    BY <1>1, <1>3
  <2>3. PICK j, m, r, s : j \in 1..n /\ OneMore(g, f, ps, k, j, m, r, s)
    BY <2>1, ListStep
  <2>4. Wide(WriteVotesIntoBuffer(ps[j]), r, s) /\ r \in Nat /\ s \in Nat
    BY <2>3 DEF OneMore, OnePacket
  <2>5. Wide(g[k] \o WriteVotesIntoBuffer(ps[j]), l + r, z + s)
    BY <2>2, <2>4, WideJoin
  <2>6. j = k + 1 /\ g[j] = g[k] \o WriteVotesIntoBuffer(ps[j]) /\ f[j] = f[k] + s
    BY <2>3 DEF OneMore
  <2>7. f[j] = (z + s) + 4 /\ l + r \in Nat /\ z + s \in Nat
    BY <2>2, <2>4, <2>6
  <2>8. QED
    BY <2>5, <2>6, <2>7
<1>4. \A k \in Nat : k \in So
  <2> HIDE DEF So
  <2>1. QED
    BY <1>2, <1>3, SetInduction
<1>5. QED
  BY <1>1, <1>4

\* A buffer that holds what one step leaves holds what was there and the packet after it.
HeldStep(g, ps, b, at, k, j, l) ==
  /\ j = k + 1 /\ l \in Nat /\ \E m, z : OnePacket(ps[j], m, l, z)
  /\ Len(g[k]) \in Nat /\ Len(g[j]) = Len(g[k]) + l
  /\ Holds(b, at, g[k])
  /\ Holds(b, at + Len(g[k]), WriteVotesIntoBuffer(ps[j]))

\* Where a step of writing has put its packet.
LEMMA ListStepHeld ==
  ASSUME NEW ps, NEW n, NEW g, NEW f, Listed(g, f, ps, n), NEW k \in 0..n, k # n,
         NEW b, NEW at \in Nat, Holds(b, at, g[k + 1])
  PROVE  \E j \in 1..n, l \in Nat : HeldStep(g, ps, b, at, k, j, l)
<1>1. PICK l \in Nat, z \in Nat : Wide(g[k], l, z)
  BY ListWidth
<1>2. PICK j, m, r, s : j \in 1..n /\ OneMore(g, f, ps, k, j, m, r, s)
  BY ListStep
<1>3. /\ j = k + 1 /\ g[j] = g[k] \o WriteVotesIntoBuffer(ps[j]) /\ ps[j] \in VotePacket
      /\ m \in Nat /\ m = Len(ps[j].votes) /\ r \in Nat /\ r = m + 4
      /\ Wide(WriteVotesIntoBuffer(ps[j]), r, s)
  BY <1>2 DEF OneMore, OnePacket
<1>4. Wide(g[k] \o WriteVotesIntoBuffer(ps[j]), l + r, z + s)
  BY <1>1, <1>3, WideJoin
<1>5. PICK q \in Nat : q = l + r
  BY <1>3
<1>6. Len(g[k]) = l /\ Len(g[j]) = q
  BY <1>1, <1>3, <1>4, <1>5 DEF Wide
<1>7. Holds(b, at, g[k] \o WriteVotesIntoBuffer(ps[j]))
  <2>1. Holds(b, at, g[j])
    BY <1>3
  <2>2. QED
    BY <1>3, <1>6, <2>1
<1>8. Holds(b, at, g[k]) /\ Holds(b, at + l, WriteVotesIntoBuffer(ps[j]))
  BY <1>1, <1>3, <1>7, HoldsParts
<1>9. HeldStep(g, ps, b, at, k, j, r)
  <2>1. OnePacket(ps[j], m, r, s)
    BY <1>2 DEF OneMore
  <2>2. QED
    BY <1>3, <1>5, <1>6, <1>8, <2>1 DEF HeldStep
<1>10. QED
  BY <1>2, <1>3, <1>9

\* So a buffer that holds all of them holds each where the ones before it end.
LEMMA ListHeld ==
  ASSUME NEW ps, NEW n, NEW g, NEW f, Listed(g, f, ps, n),
         NEW b, NEW at \in Nat, Holds(b, at, g[n])
  PROVE  \A k \in 0..n : k # n => \E j \in 1..n, l \in Nat : HeldStep(g, ps, b, at, k, j, l)
<1> DEFINE So == {i \in Nat : i <= n => Holds(b, at, g[n - i])}
<1>1. n \in Nat
  BY ListWidth
<1>2. 0 \in So
  BY <1>1
<1>3. ASSUME NEW i \in Nat, i \in So PROVE i + 1 \in So
  <2> SUFFICES ASSUME i + 1 <= n PROVE Holds(b, at, g[n - (i + 1)])
    OBVIOUS
  <2>1. PICK k \in 0..n : k = n - (i + 1)
    BY <1>1
  <2>2. k # n /\ k + 1 = n - i
    BY <1>1, <2>1
  <2>3. Holds(b, at, g[k + 1])
    BY <1>1, <1>3, <2>2
  <2>4. PICK j \in 1..n, l \in Nat : HeldStep(g, ps, b, at, k, j, l)
    BY <2>2, <2>3, ListStepHeld
  <2>5. QED
    BY <2>1, <2>4 DEF HeldStep
<1>4. \A i \in Nat : i \in So
  <2> HIDE DEF So
  <2>1. QED
    BY <1>2, <1>3, SetInduction
<1>5. ASSUME NEW k \in 0..n, k # n PROVE Holds(b, at, g[k + 1])
  <2>1. PICK i \in Nat : i = n - (k + 1)
    BY <1>1, <1>5
  <2>2. n - i = k + 1 /\ i <= n
    BY <1>1, <2>1
  <2>3. QED
    BY <1>4, <2>2
<1>6. QED
  BY <1>5, ListStepHeld
\* Where the next packet begins.
Offset(a, c, l, q, d) ==
  a \in Nat /\ c \in Nat /\ l \in Nat /\ q = a + c /\ d = c + l

LEMMA Offsets ==
  ASSUME NEW a, NEW c, NEW l, NEW q, NEW d, Offset(a, c, l, q, d)
  PROVE  (a + 1) + c = q + 1 /\ (a + 1) + d = (q + 1) + l
BY DEF Offset

\* ReadVotesFromBuffer2 reads the packets that a buffer holds.
LEMMA VotesListRead ==
  ASSUME NEW ps, NEW n, NEW g, NEW f, Listed(g, f, ps, n),
         NEW b, NEW at \in Nat, Holds(b, at, g[n])
  PROVE  ReadVotesFromBuffer2(b, at + 1, n) = ps
<1> DEFINE Is(h) ==
             h = [i \in 0..n |->
                    IF i = 0 THEN [packets |-> <<>>, next |-> at + 1]
                    ELSE LET before == h[i - 1]
                             one == ReadVotesFromBuffer(b, before.next)
                         IN  [packets |-> Append(before.packets, one.packet), next |-> one.next]]
           it == CHOOSE h : Is(h)
           r == [i \in 0..n |-> [packets |-> SubSeq(ps, 1, i), next |-> (at + 1) + Len(g[i])]]
<1>1. ReadVotesFromBuffer2(b, at + 1, n) = it[n].packets
  BY DEF ReadVotesFromBuffer2
<1>2. n \in Nat /\ ps \in Seq(VotePacket) /\ Len(ps) = n
  BY DEF Listed, Packets
<1>3. r[0] = [packets |-> <<>>, next |-> at + 1]
  <2>1. PICK l \in Nat, z \in Nat : Wide(g[0], l, z)
    BY <1>2, ListWidth
  <2>2. g[0] = <<>>
    BY DEF Listed, Enlisted
  <2>3. SubSeq(ps, 1, 0) = <<>> /\ (at + 1) + Len(g[0]) = at + 1
    BY <1>2, <2>2
  <2>4. QED
    BY <1>2, <2>3
<1>4. ASSUME NEW k \in 0..n, NEW j, k # n, j = k + 1
      PROVE  r[j] = [packets |-> Append(r[k].packets, ReadVotesFromBuffer(b, r[k].next).packet),
                     next |-> ReadVotesFromBuffer(b, r[k].next).next]
  <2> HIDE DEF Is, it
  <2>1. PICK i \in 1..n, l \in Nat : HeldStep(g, ps, b, at, k, i, l)
    BY <1>4, ListHeld
  <2>2. PICK c \in Nat, d \in Nat : c = Len(g[k]) /\ d = Len(g[j]) /\ d = c + l
    BY <1>4, <2>1 DEF HeldStep
  <2>3. PICK q \in Nat : q = at + c
    OBVIOUS
  <2>4. ReadsOne(b, q, ps[j], l)
    <3>1. Holds(b, q, WriteVotesIntoBuffer(ps[j])) /\ \E m, z : OnePacket(ps[j], m, l, z)
      BY <1>4, <2>1, <2>2, <2>3 DEF HeldStep
    <3>2. QED
      BY <3>1, VotesRead
  <2>5. (at + 1) + c = q + 1 /\ (at + 1) + d = (q + 1) + l
    <3>1. Offset(at, c, l, q, d)
      BY <2>2, <2>3 DEF Offset
    <3>2. QED
      BY <3>1, Offsets
  <2>6. SubSeq(ps, 1, j) = Append(SubSeq(ps, 1, k), ps[j])
    BY <1>2, <1>4
  <2>7. r[k] = [packets |-> SubSeq(ps, 1, k), next |-> q + 1]
    BY <2>2, <2>5
  <2>8. r[j] = [packets |-> SubSeq(ps, 1, j), next |-> (q + 1) + l]
    <3>1. j \in 0..n
      BY <1>2, <1>4
    <3>2. QED
      BY <2>2, <2>5, <3>1
  <2>9. QED
    <3> HIDE DEF r
    <3>1. r[k].packets = SubSeq(ps, 1, k) /\ r[k].next = q + 1
      BY <2>7
    <3>2. /\ ReadVotesFromBuffer(b, r[k].next).packet = ps[j]
          /\ ReadVotesFromBuffer(b, r[k].next).next = (q + 1) + l
      BY <2>4, <3>1 DEF ReadsOne
    <3>3. QED
      BY <2>6, <2>8, <3>1, <3>2
<1>5. Is(r)
  <2>1. ASSUME NEW i \in 0..n, i # 0
        PROVE  r[i] = [packets |-> Append(r[i - 1].packets, ReadVotesFromBuffer(b, r[i - 1].next).packet),
                       next |-> ReadVotesFromBuffer(b, r[i - 1].next).next]
    <3>1. PICK k \in 0..n : k = i - 1
      BY <1>2, <2>1
    <3>2. k # n /\ i = k + 1
      BY <1>2, <3>1
    <3> HIDE DEF r
    <3>3. QED
      BY <1>4, <3>1, <3>2
  <2>2. r = [i \in 0..n |-> r[i]]
    OBVIOUS
  <2> HIDE DEF r
  <2>3. QED
    BY <1>3, <2>1, <2>2
<1>6. Is(it)
  <2> HIDE DEF Is, r
  <2>1. QED
    BY <1>5
<1>7. /\ it[0] = [packets |-> <<>>, next |-> at + 1]
      /\ \A i \in 0..n : i # 0 =>
           it[i] = [packets |-> Append(it[i - 1].packets, ReadVotesFromBuffer(b, it[i - 1].next).packet),
                    next |-> ReadVotesFromBuffer(b, it[i - 1].next).next]
  <2> HIDE DEF it, r
  <2>1. 0 \in 0..n
    BY <1>2
  <2>2. \A i \in 0..n :
          it[i] = IF i = 0 THEN [packets |-> <<>>, next |-> at + 1]
                  ELSE LET before == it[i - 1]
                           one == ReadVotesFromBuffer(b, before.next)
                       IN  [packets |-> Append(before.packets, one.packet), next |-> one.next]
    BY <1>6
  <2>3. QED
    BY <2>1, <2>2
<1> HIDE DEF it, Is
<1> DEFINE So == {k \in Nat : k <= n => it[k] = r[k]}
<1>8. 0 \in So
  BY <1>3, <1>7
<1>9. ASSUME NEW k \in Nat, k \in So PROVE k + 1 \in So
  <2> SUFFICES ASSUME k + 1 <= n PROVE it[k + 1] = r[k + 1]
    OBVIOUS
  <2>1. k \in 0..n /\ k # n /\ k + 1 \in 0..n /\ k + 1 # 0 /\ (k + 1) - 1 = k /\ it[k] = r[k]
    BY <1>2, <1>9
  <2>2. it[k + 1] = [packets |-> Append(it[k].packets, ReadVotesFromBuffer(b, it[k].next).packet),
                     next |-> ReadVotesFromBuffer(b, it[k].next).next]
    BY <1>7, <2>1
  <2> HIDE DEF r
  <2>3. QED
    BY <1>4, <2>1, <2>2
<1>10. \A k \in Nat : k \in So
  <2> HIDE DEF So
  <2>1. QED
    BY <1>8, <1>9, SetInduction
<1>11. it[n] = r[n]
  <2> HIDE DEF r
  <2>1. n \in So /\ n <= n
    BY <1>2, <1>10
  <2>2. QED
    BY <2>1
<1>12. r[n].packets = ps
  <2>1. r[n].packets = SubSeq(ps, 1, n)
    BY <1>2
  <2>2. QED
    BY <1>2, <2>1
<1>13. QED
  BY <1>1, <1>11, <1>12

\* A list of n vote packets, in l fields that take z bytes.
VotesList(ps, n, l, z) ==
  /\ l \in Nat /\ z \in Nat /\ Wide(WriteVotesIntoBuffer2(ps), l, z)
  /\ GetSizeVotesList2(ps) = z + 4
  /\ \A b, at : at \in Nat /\ Holds(b, at, WriteVotesIntoBuffer2(ps)) =>
       ReadVotesFromBuffer2(b, at + 1, n) = ps

\* How long a list of vote packets is.
LEMMA VotesListWritten ==
  ASSUME NEW ps, NEW n, Packets(ps, n)
  PROVE  \E l, z : VotesList(ps, n, l, z)
<1>1. PICK g, f : Listed(g, f, ps, n)
  BY ListSteps
<1>2. WriteVotesIntoBuffer2(ps) = g[n] /\ GetSizeVotesList2(ps) = f[n]
  BY <1>1 DEF Listed, Enlisted, Announced
<1>3. PICK l \in Nat, z \in Nat : Wide(g[n], l, z) /\ f[n] = z + 4
  <2>1. n \in 0..n
    BY DEF Packets
  <2>2. QED
    BY <1>1, <2>1, ListWidth
<1>4. Len(g[n]) = l
  BY <1>3 DEF Wide
<1>5. ASSUME NEW b, NEW at \in Nat, Holds(b, at, WriteVotesIntoBuffer2(ps))
      PROVE  ReadVotesFromBuffer2(b, at + 1, n) = ps
  BY <1>1, <1>2, <1>4, <1>5, VotesListRead
<1>6. QED
  BY <1>2, <1>3, <1>5 DEF VotesList
-----------------------------------------------------------------------------
(***************************************************************************)
(* Filters in a buffer.                                                    *)
(***************************************************************************)
LEMMA Eights ==
  ASSUME NEW n \in Nat
  PROVE  Ceil(n, 8) \in Nat /\ n <= 8 * Ceil(n, 8) /\ 8 * Ceil(n, 8) <= n + 7
BY DEF Ceil

\* The bits of the byte in which a bit is.
LEMMA Eighth ==
  ASSUME NEW i \in Nat, i # 0
  PROVE  \E k \in Nat, j \in 1..8 : k = (i - 1) \div 8 /\ j = ((i - 1) % 8) + 1 /\ i = 8 * k + j
OBVIOUS

\* A filter of n bits in c bytes.
Filtered(filter, n, c) ==
  /\ filter \in Seq(BOOLEAN) /\ n \in Nat /\ n = Len(filter)
  /\ c \in Nat /\ c = Bytes(filter) /\ c = Ceil(n, 8) /\ n <= 8 * c /\ 8 * c <= n + 7
  /\ Wide(WriteBits(filter), c, c)

\* A filter is written in as many bytes as its bits fill.
LEMMA FilterWritten ==
  ASSUME NEW filter \in Seq(BOOLEAN)
  PROVE  \E n, c : Filtered(filter, n, c)
<1>1. PICK n \in Nat : n = Len(filter)
  OBVIOUS
<1>2. PICK c \in Nat : c = Bytes(filter) /\ c = Ceil(n, 8) /\ n <= 8 * c /\ 8 * c <= n + 7
  BY <1>1, Eights DEF Bytes
<1>3. Even(WriteBits(filter), c, 1)
  BY <1>2 DEF WriteBits, Even, U8, Field
<1>4. Wide(WriteBits(filter), c, 1 * c)
  BY <1>3, WideSame
<1>5. 1 * c = c
  OBVIOUS
<1>6. QED
  BY <1>1, <1>2, <1>4, <1>5 DEF Filtered

\* The bytes from b[first] to b[last] have size bits and more, and a filter of n too.
Spans(at, first, last, size, n) ==
  /\ at \in Nat /\ first \in Nat /\ last \in Nat /\ size \in Nat
  /\ first = at + 1 /\ size <= n /\ size <= 8 * (last - first + 1)

\* ReadBits reads the first bits of it, though more bytes may follow.
LEMMA FilterRead ==
  ASSUME NEW filter, NEW n, NEW c, Filtered(filter, n, c), NEW b, NEW at,
         Holds(b, at, WriteBits(filter)),
         NEW first, NEW last, NEW size, Spans(at, first, last, size, n)
  PROVE  ReadBits(b, first, last, size) = [i \in 1..size |-> filter[i]]
<1>0. /\ at \in Nat /\ first \in Nat /\ last \in Nat /\ size \in Nat
      /\ first = at + 1 /\ size <= n /\ size <= 8 * (last - first + 1)
  BY DEF Spans
<1>1. /\ n \in Nat /\ c \in Nat /\ n = Len(filter) /\ n <= 8 * c /\ filter \in Seq(BOOLEAN)
      /\ c = Bytes(filter) /\ Len(WriteBits(filter)) = c
  BY DEF Filtered, Wide
<1>2. ReadBits(b, first, last, size) = BitsFrom(b, first, size)
  BY <1>0 DEF ReadBits
<1>3. ASSUME NEW i \in 1..size
      PROVE  b[first + (i - 1) \div 8].value[((i - 1) % 8) + 1] = filter[i]
  <2>1. i \in Nat /\ i # 0
    BY <1>0
  <2>2. PICK k \in Nat, j \in 1..8 :
          k = (i - 1) \div 8 /\ j = ((i - 1) % 8) + 1 /\ i = 8 * k + j
    BY <2>1, Eighth
  <2>3. k + 1 \in 1..c /\ 8 * ((k + 1) - 1) + j = i
    BY <1>0, <1>1, <2>2
  <2>4. WriteBits(filter)[k + 1] = U8([l \in 1..8 |-> 8 * ((k + 1) - 1) + l <= n /\ filter[8 * ((k + 1) - 1) + l]])
    BY <1>1, <2>3 DEF WriteBits
  <2>5. WriteBits(filter)[k + 1].value[j] = (i <= n /\ filter[i])
    BY <2>2, <2>3, <2>4 DEF U8, Field
  <2>6. b[first + k] = WriteBits(filter)[k + 1]
    <3>1. first + k = at + (k + 1)
      BY <1>0, <2>2
    <3>2. QED
      BY <1>1, <2>3, <3>1 DEF Holds
  <2>7. filter[i] \in BOOLEAN /\ i <= n
    BY <1>0, <1>1
  <2>8. QED
    BY <2>2, <2>5, <2>6, <2>7
<1>4. QED
  BY <1>2, <1>3 DEF BitsFrom
-----------------------------------------------------------------------------
(***************************************************************************)
(* The messages: what each announces covers what is written, and what is   *)
(* read of it.                                                             *)
(***************************************************************************)
Begins(b, s) == \A i \in 1..Len(s) : b[i] = s[i]

\* What begins with two parts begins with the first and holds the second.
LEMMA BeginsParts ==
  ASSUME NEW s, NEW n, NEW y, Wide(s, n, y), NEW t, NEW m, NEW z, Wide(t, m, z),
         NEW b, Begins(b, s \o t)
  PROVE  Begins(b, s) /\ Holds(b, n, t)
<1>1. n \in Nat /\ m \in Nat /\ Len(s) = n /\ Len(t) = m
  BY DEF Wide
<1>2. ASSUME NEW i \in 1..n PROVE b[i] = s[i]
  <2>1. i \in 1..Len(s \o t) /\ (s \o t)[i] = s[i]
    BY <1>1
  <2>2. QED
    BY <2>1 DEF Begins
<1>3. ASSUME NEW i \in 1..m PROVE b[n + i] = t[i]
  <2>1. n + i \in 1..Len(s \o t) /\ (s \o t)[n + i] = t[i]
    BY <1>1
  <2>2. QED
    BY <2>1 DEF Begins
<1>4. QED
  BY <1>1, <1>2, <1>3 DEF Begins, Holds

\* A packet begins with what was written to it.
LEMMA Packed ==
  ASSUME NEW m, NEW l, NEW z, Wide(Written(m), l, z),
         NEW size \in Nat, size = GetSerializedSize(m), z <= size
  PROVE  /\ Size(Written(m)) <= GetSerializedSize(m)
         /\ Begins(Serialize(m), Written(m))
         /\ Len(Serialize(m)) \in Nat /\ l <= Len(Serialize(m))
<1>1. l \in Nat /\ z \in Nat /\ Size(Written(m)) = z /\ Len(Written(m)) = l
  BY DEF Wide
<1>2. PICK k \in Nat : k = size - z
  BY <1>1
<1> DEFINE zeros == [i \in 1..k |-> U8([j \in 1..8 |-> FALSE])]
<1>3. Serialize(m) = Written(m) \o zeros
  BY <1>1, <1>2 DEF Serialize
<1>4. Wide(zeros, k, 1 * k)
  <2>1. Even(zeros, k, 1)
    BY DEF Even, U8, Field
  <2>2. QED
    BY <2>1, WideSame
<1> HIDE DEF zeros
<1>5. Wide(Serialize(m), l + k, z + 1 * k)
  BY <1>3, <1>4, WideJoin
<1>6. Len(Serialize(m)) = l + k
  BY <1>5 DEF Wide
<1>7. \A i \in 1..l : Serialize(m)[i] = Written(m)[i]
  <2>1. Len(zeros) = k
    BY <1>4 DEF Wide
  <2>2. QED
    BY <1>1, <1>3, <2>1
<1>8. QED
  BY <1>1, <1>6, <1>7 DEF Begins

\* The same for a message written in two parts.
Laid(m, s, n, y, t, l, z) ==
  Wide(s, n, y) /\ Wide(t, l, z) /\ Written(m) = s \o t
  /\ GetSerializedSize(m) \in Nat /\ y + z <= GetSerializedSize(m)

\* A message in two parts of known length is announced and packed whole.
LEMMA SentParts ==
  ASSUME NEW m, NEW s, NEW n, NEW y, NEW t, NEW l, NEW z, Laid(m, s, n, y, t, l, z)
  PROVE  /\ Size(Written(m)) <= GetSerializedSize(m)
         /\ Begins(Serialize(m), s) /\ Holds(Serialize(m), n, t)
         /\ Len(Serialize(m)) \in Nat /\ n + l <= Len(Serialize(m))
<1>1. Wide(s, n, y) /\ Wide(t, l, z) /\ Written(m) = s \o t
  BY DEF Laid
<1>2. PICK k \in Nat, x \in Nat : k = n + l /\ x = y + z
  BY <1>1 DEF Wide
<1>3. PICK size \in Nat : size = GetSerializedSize(m)
  BY DEF Laid
<1>4. x <= size
  BY <1>2, <1>3 DEF Laid
<1>5. Wide(Written(m), k, x)
  <2>1. Wide(s \o t, n + l, y + z)
    BY <1>1, WideJoin
  <2>2. QED
    BY <1>1, <1>2, <2>1
<1>6. /\ Size(Written(m)) <= GetSerializedSize(m) /\ Begins(Serialize(m), Written(m))
      /\ Len(Serialize(m)) \in Nat /\ k <= Len(Serialize(m))
  BY <1>3, <1>4, <1>5, Packed
<1>7. Begins(Serialize(m), s) /\ Holds(Serialize(m), n, t)
  <2>1. Begins(Serialize(m), s \o t)
    BY <1>1, <1>6
  <2>2. QED
    BY <1>1, <2>1, BeginsParts
<1>8. QED
  BY <1>2, <1>6, <1>7

LEMMA OneAfterTwo ==
  ASSUME NEW x, NEW y, NEW z
  PROVE  <<x, y>> \o <<z>> = <<x, y, z>>
<1>1. PICK S : S = {x, y, z}
  OBVIOUS
<1>2. <<x, y>> \in Seq(S) /\ <<z>> \in Seq(S) /\ <<x, y, z>> \in Seq(S)
  BY <1>1
<1>3. Len(<<x, y>>) = 2 /\ Len(<<z>>) = 1 /\ Len(<<x, y, z>>) = 3
  OBVIOUS
<1>4. PICK s : s = <<x, y>> \o <<z>>
  OBVIOUS
<1>5. PICK t : t = <<x, y, z>>
  OBVIOUS
<1>6. s \in Seq(S) /\ Len(s) = 3 /\ s[1] = x /\ s[2] = y /\ s[3] = z
  BY <1>2, <1>3, <1>4, ConcatProperties
<1>7. t \in Seq(S) /\ Len(t) = 3 /\ t[1] = x /\ t[2] = y /\ t[3] = z
  BY <1>2, <1>3, <1>5
<1>8. \A i \in 1..Len(s) : s[i] = t[i]
  <2>1. \A i \in 1..3 : i = 1 \/ i = 2 \/ i = 3
    OBVIOUS
  <2>2. QED
    BY <1>6, <1>7, <2>1
<1>9. s = t
  BY <1>6, <1>7, <1>8, SeqEqual
<1>10. QED
  BY <1>4, <1>5, <1>9

Arrives(m, r) ==
  Size(Written(m)) <= GetSerializedSize(m) /\ Deserialize(Serialize(m)) = r

\* The hello of the root.
LEMMA RootHelloArrives ==
  ASSUME NEW o, NEW i, NEW p \in VotePacket, NEW m,
         m = [type |-> "ROOT_SR_HELLO", origin |-> o, info |-> i, votes |-> p]
  PROVE  Arrives(m, m)
<1>1. PICK n, l, z : OnePacket(p, n, l, z)
  BY EachPacket
<1>2. l \in Nat /\ z \in Nat /\ z = GetSizeVotesList(p) /\ Wide(WriteVotesIntoBuffer(p), l, z)
  BY <1>1 DEF OnePacket
<1> DEFINE head == <<U8(m.type), Address(m.origin)>>
           data == <<Field(6, m.info)>>
           b == Serialize(m)
<1>3. /\ Wide(head, 2, 5) /\ head[1].value = "ROOT_SR_HELLO" /\ head[2].value = o
      /\ Wide(data, 1, 6) /\ data[1].value = i
  <2>1. U8(m.type).width = 1 /\ Address(m.origin).width = 4 /\ Field(6, m.info).width = 6
    BY DEF U8, Address, Field
  <2>2. Wide(head, 2, 1 + 4) /\ Wide(data, 1, 6)
    BY <2>1, WideOne, WideTwo
  <2>3. QED
    BY <2>2 DEF U8, Address, Field
<1>4. Written(m) = (head \o data) \o WriteVotesIntoBuffer(p)
  <2>1. head \o <<>> = head
    OBVIOUS
  <2>2. Written(m) = WriteHello(m)
    BY DEF Written
  <2>3. QED
    BY <2>1, <2>2 DEF WriteHello
<1> HIDE DEF head, data
<1>5. Wide(head \o data, 3, 11)
  <2>1. Wide(head \o data, 2 + 1, 5 + 6)
    BY <1>3, WideJoin
  <2>2. QED
    BY <2>1
<1>6. Laid(m, head \o data, 3, 11, WriteVotesIntoBuffer(p), l, z)
  <2>1. GetSerializedSize(m) = 11 + z
    BY <1>2 DEF GetSerializedSize
  <2>2. QED
    BY <1>2, <1>4, <1>5, <2>1 DEF Laid
<1>7. Size(Written(m)) <= GetSerializedSize(m)
      /\ Begins(b, head \o data) /\ Holds(b, 3, WriteVotesIntoBuffer(p))
  BY <1>6, SentParts
<1> HIDE DEF b
<1>8. Begins(b, head) /\ Holds(b, 2, data)
  BY <1>3, <1>7, BeginsParts
<1>9. b[1].value = "ROOT_SR_HELLO" /\ b[2].value = o /\ b[3].value = i
  BY <1>3, <1>8 DEF Begins, Holds, Wide
<1>10. ReadVotesFromBuffer(b, 4).packet = p
  <2>1. PICK at \in Nat : at = 3
    OBVIOUS
  <2>2. ReadsOne(b, at, p, l)
    BY <1>1, <1>7, <2>1, VotesRead
  <2>3. QED
    BY <2>1, <2>2 DEF ReadsOne
<1>11. Deserialize(b) = m
  BY <1>9, <1>10 DEF Deserialize, ReadHello
<1>12. QED
  BY <1>7, <1>11 DEF Arrives, b

\* The hello of another node.
LEMMA HelloArrives ==
  ASSUME NEW o, NEW a, NEW i, NEW p \in VotePacket, NEW m,
         m = [type |-> "SR_HELLO", origin |-> o, parent |-> a, info |-> i, votes |-> p]
  PROVE  Arrives(m, m)
<1>1. PICK n, l, z : OnePacket(p, n, l, z)
  BY EachPacket
<1>2. l \in Nat /\ z \in Nat /\ z = GetSizeVotesList(p) /\ Wide(WriteVotesIntoBuffer(p), l, z)
  BY <1>1 DEF OnePacket
<1> DEFINE head == <<U8(m.type), Address(m.origin), Address(m.parent)>>
           data == <<Field(6, m.info)>>
           b == Serialize(m)
<1>3. /\ Wide(head, 3, 9) /\ head[1].value = "SR_HELLO" /\ head[2].value = o /\ head[3].value = a
      /\ Wide(data, 1, 6) /\ data[1].value = i
  <2>1. /\ U8(m.type).width = 1 /\ Address(m.origin).width = 4 /\ Address(m.parent).width = 4
        /\ Field(6, m.info).width = 6
    BY DEF U8, Address, Field
  <2>2. Wide(head, 3, 1 + 4 + 4) /\ Wide(data, 1, 6)
    BY <2>1, WideOne, WideThree
  <2>3. QED
    BY <2>2 DEF U8, Address, Field
<1>4. Written(m) = (head \o data) \o WriteVotesIntoBuffer(p)
  <2>1. <<U8(m.type), Address(m.origin)>> \o <<Address(m.parent)>> = head
    <3> HIDE DEF data, b
    <3>1. QED
      BY OneAfterTwo
  <2>2. Written(m) = WriteHello(m)
    BY DEF Written
  <2>3. QED
    BY <2>1, <2>2 DEF WriteHello
<1> HIDE DEF head, data
<1>5. Wide(head \o data, 4, 15)
  <2>1. Wide(head \o data, 3 + 1, 9 + 6)
    BY <1>3, WideJoin
  <2>2. QED
    BY <2>1
<1>6. Laid(m, head \o data, 4, 15, WriteVotesIntoBuffer(p), l, z)
  <2>1. GetSerializedSize(m) = 15 + z
    BY <1>2 DEF GetSerializedSize
  <2>2. QED
    BY <1>2, <1>4, <1>5, <2>1 DEF Laid
<1>7. Size(Written(m)) <= GetSerializedSize(m)
      /\ Begins(b, head \o data) /\ Holds(b, 4, WriteVotesIntoBuffer(p))
  BY <1>6, SentParts
<1> HIDE DEF b
<1>8. Begins(b, head) /\ Holds(b, 3, data)
  BY <1>3, <1>7, BeginsParts
<1>9. b[1].value = "SR_HELLO" /\ b[2].value = o /\ b[3].value = a /\ b[4].value = i
  BY <1>3, <1>8 DEF Begins, Holds, Wide
<1>10. ReadVotesFromBuffer(b, 5).packet = p
  <2>1. PICK at \in Nat : at = 4
    OBVIOUS
  <2>2. ReadsOne(b, at, p, l)
    BY <1>1, <1>7, <2>1, VotesRead
  <2>3. QED
    BY <2>1, <2>2 DEF ReadsOne
<1>11. Deserialize(b) = m
  BY <1>9, <1>10 DEF Deserialize, ReadHello
<1>12. QED
  BY <1>7, <1>11 DEF Arrives, b

\* Numbers that 16 bits hold, and the sizes of the messages with a filter.
LEMMA Kept ==
  ASSUME NEW n \in Nat, Fits16(n)
  PROVE  U16(n).width = 2 /\ U16(n).value = n
<1>1. n % Word = n
  BY WordAssumption DEF Fits16
<1>2. QED
  BY <1>1 DEF U16, Field

\* ASK_BF.
LEMMA AskArrives ==
  ASSUME NEW o, NEW d \in Nat, Fits16(d), NEW f, NEW n, NEW c, Filtered(f, n, c), Fits16(n),
         NEW m, m = [type |-> "ASK_BF", origin |-> o, dim |-> d, filter |-> f]
  PROVE  Arrives(m, m)
<1>1. /\ n \in Nat /\ n = Len(f) /\ c \in Nat /\ c = Bytes(f) /\ c = Ceil(n, 8) /\ n <= 8 * c
      /\ Wide(WriteBits(f), c, c) /\ f \in Seq(BOOLEAN)
  BY DEF Filtered
<1> DEFINE head == <<U8(m.type), Address(m.origin), U16(Len(m.filter)), U16(m.dim)>>
           b == Serialize(m)
<1>2. /\ U16(Len(m.filter)).width = 2 /\ U16(Len(m.filter)).value = n
      /\ U16(m.dim).width = 2 /\ U16(m.dim).value = d
  BY <1>1, Kept
<1>3. /\ Wide(head, 4, 9) /\ head[1].value = "ASK_BF" /\ head[2].value = o
      /\ head[3].value = n /\ head[4].value = d
  <2>1. U8(m.type).width = 1 /\ Address(m.origin).width = 4
    BY DEF U8, Address, Field
  <2>2. Wide(head, 4, 1 + 4 + 2 + 2)
    BY <1>2, <2>1, WideFour
  <2>3. QED
    BY <1>2, <2>2 DEF U8, Address, Field
<1>4. Written(m) = head \o WriteBits(f)
  BY DEF Written, WriteAskBF
<1> HIDE DEF head
<1>5. PICK size \in Nat : size = GetSerializedSize(m) /\ 9 + c <= size
  <2>1. GetSerializedSize(m) = 1 + 4 + 4 + 4 + Bytes(f)
    BY DEF GetSerializedSize
  <2>2. QED
    BY <1>1, <2>1
<1>6. Laid(m, head, 4, 9, WriteBits(f), c, c)
  BY <1>1, <1>3, <1>4, <1>5 DEF Laid
<1>7. Size(Written(m)) <= GetSerializedSize(m) /\ Begins(b, head) /\ Holds(b, 4, WriteBits(f))
  BY <1>6, SentParts
<1> HIDE DEF b
<1>8. b[1].value = "ASK_BF" /\ b[2].value = o /\ b[3].value = n /\ b[4].value = d
  BY <1>3, <1>7 DEF Begins, Wide
<1>9. ReadBits(b, 5, 4 + c, n) = f
  <2>1. PICK last \in Nat : last = 4 + c
    BY <1>1
  <2>2. Spans(4, 5, last, n, n)
    BY <1>1, <2>1 DEF Spans
  <2>3. ReadBits(b, 5, last, n) = [i \in 1..n |-> f[i]]
    BY <1>7, <2>2, FilterRead
  <2>4. f = [i \in 1..n |-> f[i]]
    BY <1>1
  <2>5. QED
    BY <2>1, <2>3, <2>4
<1>10. Deserialize(b) = m
  BY <1>1, <1>8, <1>9 DEF Deserialize, ReadAskBF
<1>11. QED
  BY <1>7, <1>10 DEF Arrives, b

\* The addresses of a list in a buffer, after their number.
HoldsList(b, at, list, k) ==
  b[at + 1].value = k /\ \A i \in 1..k : b[at + 1 + i].value = list[i]

\* A list of k addresses, in l fields that take z bytes.
Addressed(list, k, l, z) ==
  /\ k \in Nat /\ DOMAIN list = 1..k /\ Len(list) = k
  /\ l \in Nat /\ z \in Nat /\ l = k + 1 /\ z = 2 + 4 * k
  /\ Wide(Addresses16(list), l, z)
  /\ \A b, at : at \in Nat /\ Holds(b, at, Addresses16(list)) => HoldsList(b, at, list, k)

\* A list of addresses, its length first.
LEMMA AddressesWritten ==
  ASSUME NEW S, NEW list \in Seq(S), NEW k, k = Len(list), Fits16(k)
  PROVE  \E l, z : Addressed(list, k, l, z)
<1>1. k \in Nat /\ DOMAIN list = 1..k
  OBVIOUS
<1> DEFINE head == <<U16(Len(list))>>
           body == [i \in DOMAIN list |-> Address(list[i])]
<1>2. U16(Len(list)).width = 2 /\ U16(Len(list)).value = k
  BY <1>1, Kept
<1>3. Wide(head, 1, 2) /\ head[1].value = k
  BY <1>2, WideOne
<1>4. Wide(body, k, 4 * k) /\ \A i \in 1..k : body[i].value = list[i]
  <2>1. Even(body, k, 4) /\ \A i \in 1..k : body[i].value = list[i]
    BY <1>1 DEF Even, Address, Field
  <2>2. QED
    BY <1>1, <2>1, WideSame
<1>5. Addresses16(list) = head \o body
  BY DEF Addresses16
<1> HIDE DEF head, body
<1>6. PICK l \in Nat, y \in Nat, z \in Nat : l = k + 1 /\ y = 4 * k /\ z = 2 + y
  BY <1>1
<1>7. Wide(Addresses16(list), l, z)
  <2>1. Wide(head \o body, 1 + k, 2 + 4 * k)
    BY <1>3, <1>4, WideJoin
  <2>2. 1 + k = l /\ 2 + 4 * k = z
    BY <1>1, <1>6
  <2>3. QED
    BY <1>5, <2>1, <2>2
<1>8. ASSUME NEW b, NEW at \in Nat, Holds(b, at, Addresses16(list)) PROVE HoldsList(b, at, list, k)
  <2>1. Holds(b, at, head \o body)
    BY <1>5, <1>8
  <2>2. Holds(b, at, head) /\ Holds(b, at + 1, body)
    BY <1>3, <1>4, <2>1, HoldsParts
  <2>3. b[at + 1] = head[1]
    BY <1>3, <2>2 DEF Holds, Wide
  <2>4. \A i \in 1..k : b[at + 1 + i] = body[i]
    BY <1>4, <2>2 DEF Holds, Wide
  <2>5. QED
    BY <1>3, <1>4, <2>3, <2>4 DEF HoldsList
<1>9. Addressed(list, k, l, z)
  BY <1>1, <1>6, <1>7, <1>8 DEF Addressed
<1>10. QED
  BY <1>9

\* ASK_BF_P2C.
LEMMA AskDownArrives ==
  ASSUME NEW o, NEW d \in Nat, Fits16(d),
         NEW m, m = [type |-> "ASK_BF_P2C", origin |-> o, dim |-> d]
  PROVE  Arrives(m, m)
<1> DEFINE head == <<U8(m.type), Address(m.origin), U16(m.dim)>>
           b == Serialize(m)
<1>1. Wide(head, 3, 7) /\ head[1].value = "ASK_BF_P2C" /\ head[2].value = o /\ head[3].value = d
  <2>1. U16(m.dim).width = 2 /\ U16(m.dim).value = d
    BY Kept
  <2>2. U8(m.type).width = 1 /\ Address(m.origin).width = 4
    BY DEF U8, Address, Field
  <2>3. Wide(head, 3, 1 + 4 + 2)
    BY <2>1, <2>2, WideThree
  <2>4. QED
    BY <2>1, <2>3 DEF U8, Address, Field
<1>2. Written(m) = head
  BY DEF Written, WriteAskBFP2C
<1> HIDE DEF head
<1>3. GetSerializedSize(m) = 9
  BY DEF GetSerializedSize
<1>4. Size(Written(m)) <= GetSerializedSize(m) /\ Begins(b, head)
  <2>1. PICK size \in Nat : size = GetSerializedSize(m) /\ 7 <= size
    BY <1>3
  <2>2. QED
    BY <1>1, <1>2, <2>1, Packed
<1> HIDE DEF b
<1>5. b[1].value = "ASK_BF_P2C" /\ b[2].value = o /\ b[3].value = d
  BY <1>1, <1>4 DEF Begins, Wide
<1>6. Deserialize(b) = m
  BY <1>5 DEF Deserialize, ReadAskBFP2C
<1>7. QED
  BY <1>4, <1>6 DEF Arrives, b

\* SEND_MISSING_P2C_ACK.
LEMMA AckArrives ==
  ASSUME NEW o, NEW m, m = [type |-> "SEND_MISSING_P2C_ACK", origin |-> o]
  PROVE  Arrives(m, m)
<1> DEFINE head == <<U8(m.type), Address(m.origin)>>
           b == Serialize(m)
<1>1. Wide(head, 2, 5) /\ head[1].value = "SEND_MISSING_P2C_ACK" /\ head[2].value = o
  <2>1. U8(m.type).width = 1 /\ Address(m.origin).width = 4
    BY DEF U8, Address, Field
  <2>2. Wide(head, 2, 1 + 4)
    BY <2>1, WideTwo
  <2>3. QED
    BY <2>2 DEF U8, Address, Field
<1>2. Written(m) = head
  BY DEF Written
<1> HIDE DEF head
<1>3. GetSerializedSize(m) = 5
  BY DEF GetSerializedSize
<1>4. Size(Written(m)) <= GetSerializedSize(m) /\ Begins(b, head)
  <2>1. PICK size \in Nat : size = GetSerializedSize(m) /\ 5 <= size
    BY <1>3
  <2>2. QED
    BY <1>1, <1>2, <2>1, Packed
<1> HIDE DEF b
<1>5. b[1].value = "SEND_MISSING_P2C_ACK" /\ b[2].value = o
  BY <1>1, <1>4 DEF Begins, Wide
<1>6. Deserialize(b) = m
  BY <1>5 DEF Deserialize
<1>7. QED
  BY <1>4, <1>6 DEF Arrives, b

\* The sizes of a filter that 16 bits may cut.
LEMMA Cut ==
  ASSUME NEW n \in Nat
  PROVE  U16(n).width = 2 /\ U16(n).value \in Nat /\ U16(n).value <= n
BY WordAssumption DEF U16, Field

Bytewise(n, c) == n \in Nat /\ c \in Nat /\ n <= 8 * c /\ 8 * c <= n + 7

LEMMA ByteAnnounced ==
  ASSUME NEW n, NEW c, Bytewise(n, c)
  PROVE  n \div 8 \in Nat /\ c <= (n \div 8) + 1
BY DEF Bytewise

\* What is read of a filter with as many bits as 16 bits tell.
ReadFilter(filter) == [i \in 1..U16(Len(filter)).value |-> filter[i]]

\* SEND_BF, whose filter ends with the packet.
LEMMA FilterArrives ==
  ASSUME NEW f, NEW n, NEW c, Filtered(f, n, c), NEW list, NEW k, NEW l, NEW z, Addressed(list, k, l, z),
         NEW m, m = [type |-> "SEND_BF", filter |-> f, list |-> list]
  PROVE  Arrives(m, [type |-> "SEND_BF", list |-> [i \in 1..k |-> list[i]], filter |-> ReadFilter(f)])
<1>1. /\ n \in Nat /\ n = Len(f) /\ c \in Nat /\ c = Bytes(f) /\ c = Ceil(n, 8) /\ Bytewise(n, c)
      /\ Wide(WriteBits(f), c, c) /\ f \in Seq(BOOLEAN)
  BY DEF Filtered, Bytewise
<1>2. /\ k \in Nat /\ Len(list) = k /\ l \in Nat /\ z \in Nat /\ l = k + 1 /\ z = 2 + 4 * k
      /\ Wide(Addresses16(list), l, z)
  BY DEF Addressed
<1> DEFINE head == <<U8(m.type), U16(Len(m.filter))>>
           b == Serialize(m)
           size == U16(Len(m.filter)).value
<1>3. U16(Len(m.filter)).width = 2 /\ size \in Nat /\ size <= n
  BY <1>1, Cut
<1>4. Wide(head, 2, 3) /\ head[1].value = "SEND_BF" /\ head[2].value = size
  <2>1. U8(m.type).width = 1 /\ U8(m.type).value = "SEND_BF"
    BY DEF U8, Field
  <2>2. Wide(head, 2, 1 + 2)
    BY <1>3, <2>1, WideTwo
  <2>3. QED
    BY <2>1, <2>2
<1>5. Written(m) = (head \o Addresses16(list)) \o WriteBits(f)
  BY DEF Written, WriteSendBF
<1>6. ReadFilter(f) = [i \in 1..size |-> f[i]]
  BY DEF ReadFilter
<1> HIDE DEF head, size
<1>7. PICK p \in Nat, y \in Nat : p = 2 + l /\ y = 3 + z /\ Wide(head \o Addresses16(list), p, y)
  <2>1. Wide(head \o Addresses16(list), 2 + l, 3 + z)
    BY <1>2, <1>4, WideJoin
  <2>2. 2 + l \in Nat /\ 3 + z \in Nat
    BY <1>2
  <2>3. QED
    BY <2>1, <2>2
<1>8. PICK sum \in Nat : sum = GetSerializedSize(m) /\ y + c <= sum
  <2>1. GetSerializedSize(m) = 1 + 4 + 2 + 4 * k + n \div 8
    BY <1>1, <1>2 DEF GetSerializedSize
  <2>2. n \div 8 \in Nat /\ c <= (n \div 8) + 1
    BY <1>1, ByteAnnounced
  <2>3. PICK q \in Nat : q = n \div 8
    BY <2>2
  <2>4. QED
    BY <1>1, <1>2, <1>7, <2>1, <2>2, <2>3
<1>9. Laid(m, head \o Addresses16(list), p, y, WriteBits(f), c, c)
  BY <1>1, <1>5, <1>7, <1>8 DEF Laid
<1>10. /\ Size(Written(m)) <= GetSerializedSize(m)
       /\ Begins(b, head \o Addresses16(list)) /\ Holds(b, p, WriteBits(f))
       /\ Len(b) \in Nat /\ p + c <= Len(b)
  BY <1>9, SentParts
<1> HIDE DEF b
<1>11. Begins(b, head) /\ Holds(b, 2, Addresses16(list))
  BY <1>2, <1>4, <1>10, BeginsParts
<1>12. b[1].value = "SEND_BF" /\ b[2].value = size
  BY <1>4, <1>11 DEF Begins, Wide
<1>13. HoldsList(b, 2, list, k)
  BY <1>11 DEF Addressed
<1>14. b[3].value = k /\ \A i \in 1..k : b[3 + i].value = list[i]
  <2>1. \A i \in 1..k : 3 + i = 2 + 1 + i
    OBVIOUS
  <2>2. QED
    BY <1>13, <2>1 DEF HoldsList
<1>15. ReadBits(b, 4 + k, Len(b), size) = [i \in 1..size |-> f[i]]
  <2>1. PICK last \in Nat, first \in Nat : last = Len(b) /\ first = 4 + k
    BY <1>2, <1>10
  <2>2. Spans(p, first, last, size, n)
    <3>1. first = p + 1 /\ c <= last - first + 1
      BY <1>1, <1>2, <1>7, <1>10, <2>1
    <3>2. size <= 8 * (last - first + 1)
      BY <1>1, <1>3, <3>1 DEF Bytewise
    <3>3. QED
      BY <1>3, <3>1, <3>2 DEF Spans
  <2>3. ReadBits(b, first, last, size) = [i \in 1..size |-> f[i]]
    BY <1>10, <2>2, FilterRead
  <2>4. QED
    BY <2>1, <2>3
<1>16. Deserialize(b) = [type |-> "SEND_BF", list |-> [i \in 1..k |-> list[i]], filter |-> ReadFilter(f)]
  BY <1>6, <1>12, <1>14, <1>15 DEF Deserialize, ReadSendBF
<1>17. QED
  BY <1>10, <1>16 DEF Arrives, b

\* SEND_BF_C2P, whose list comes after the filter.
LEMMA FilterDownArrives ==
  ASSUME NEW o, NEW f, NEW n, NEW c, Filtered(f, n, c), Fits16(n),
         NEW list, NEW k, NEW l, NEW z, Addressed(list, k, l, z),
         NEW m, m = [type |-> "SEND_BF_C2P", origin |-> o, list |-> list, filter |-> f]
  PROVE  Arrives(m, [type |-> "SEND_BF_C2P", origin |-> o, filter |-> f, list |-> [i \in 1..k |-> list[i]]])
<1>1. /\ n \in Nat /\ n = Len(f) /\ c \in Nat /\ c = Bytes(f) /\ c = Ceil(n, 8) /\ Bytewise(n, c)
      /\ Wide(WriteBits(f), c, c) /\ f \in Seq(BOOLEAN)
  BY DEF Filtered, Bytewise
<1>2. /\ k \in Nat /\ Len(list) = k /\ l \in Nat /\ z \in Nat /\ l = k + 1 /\ z = 2 + 4 * k
      /\ Wide(Addresses16(list), l, z)
  BY DEF Addressed
<1> DEFINE head == <<U8(m.type), Address(m.origin), U16(Len(m.filter))>>
           b == Serialize(m)
<1>3. U16(Len(m.filter)).width = 2 /\ U16(Len(m.filter)).value = n
  BY <1>1, Kept
<1>4. Wide(head, 3, 7) /\ head[1].value = "SEND_BF_C2P" /\ head[2].value = o /\ head[3].value = n
  <2>1. U8(m.type).width = 1 /\ Address(m.origin).width = 4
    BY DEF U8, Address, Field
  <2>2. Wide(head, 3, 1 + 4 + 2)
    BY <1>3, <2>1, WideThree
  <2>3. QED
    BY <1>3, <2>2 DEF U8, Address, Field
<1>5. Written(m) = (head \o WriteBits(f)) \o Addresses16(list)
  BY DEF Written, WriteSendBFC2P
<1> HIDE DEF head
<1>6. PICK p \in Nat, y \in Nat : p = 3 + c /\ y = 7 + c /\ Wide(head \o WriteBits(f), p, y)
  <2>1. Wide(head \o WriteBits(f), 3 + c, 7 + c)
    BY <1>1, <1>4, WideJoin
  <2>2. 3 + c \in Nat /\ 7 + c \in Nat
    BY <1>1
  <2>3. QED
    BY <2>1, <2>2
<1>7. PICK sum \in Nat : sum = GetSerializedSize(m) /\ y + z <= sum
  <2>1. GetSerializedSize(m) = 1 + 4 + 4 + c + 2 + 4 * k
    BY <1>1, <1>2 DEF GetSerializedSize
  <2>2. PICK q \in Nat : q = 4 * k
    BY <1>2
  <2>3. \A a, u \in Nat : /\ 1 + 4 + 4 + a + 2 + u \in Nat
                         /\ (7 + a) + (2 + u) <= 1 + 4 + 4 + a + 2 + u
    OBVIOUS
  <2>4. PICK sum \in Nat : sum = 1 + 4 + 4 + c + 2 + q /\ (7 + c) + (2 + q) <= sum
    BY <1>1, <2>2, <2>3
  <2>5. y = 7 + c /\ z = 2 + q /\ sum = GetSerializedSize(m)
    BY <1>2, <1>6, <2>1, <2>2, <2>4
  <2>6. QED
    BY <2>4, <2>5
<1>8. Laid(m, head \o WriteBits(f), p, y, Addresses16(list), l, z)
  BY <1>2, <1>5, <1>6, <1>7 DEF Laid
<1>9. /\ Size(Written(m)) <= GetSerializedSize(m)
      /\ Begins(b, head \o WriteBits(f)) /\ Holds(b, p, Addresses16(list))
  BY <1>8, SentParts
<1> HIDE DEF b
<1>10. Begins(b, head) /\ Holds(b, 3, WriteBits(f))
  BY <1>1, <1>4, <1>9, BeginsParts
<1>11. b[1].value = "SEND_BF_C2P" /\ b[2].value = o /\ b[3].value = n
  BY <1>4, <1>10 DEF Begins, Wide
<1>12. HoldsList(b, p, list, k)
  BY <1>9 DEF Addressed
<1>13. b[p + 1].value = k /\ \A i \in 1..k : b[p + 1 + i].value = list[i]
  BY <1>12 DEF HoldsList
<1>14. ReadBits(b, 4, p, n) = f
  <2>1. Spans(3, 4, p, n, n)
    BY <1>1, <1>6 DEF Spans, Bytewise
  <2>2. ReadBits(b, 4, p, n) = [i \in 1..n |-> f[i]]
    BY <1>10, <2>1, FilterRead
  <2>3. f = [i \in 1..n |-> f[i]]
    BY <1>1
  <2>4. QED
    BY <2>2, <2>3
<1>15. Deserialize(b) = [type |-> "SEND_BF_C2P", origin |-> o, filter |-> f, list |-> [i \in 1..k |-> list[i]]]
  <2>1. 3 + Ceil(b[3].value, 8) = p
    BY <1>1, <1>6, <1>11
  <2>2. QED
    BY <1>11, <1>13, <1>14, <2>1 DEF Deserialize, ReadSendBFC2P
<1>16. QED
  BY <1>9, <1>15 DEF Arrives, b

\* SEND_MISSING_C2P and SEND_MISSING_P2C.
LEMMA MissingArrives ==
  ASSUME NEW o, NEW S, NEW ts \in Seq(S), NEW j \in Nat, j = Len(ts), Fits16(j),
         NEW ps, NEW n, Packets(ps, n), Fits16(n),
         NEW type \in {"SEND_MISSING_C2P", "SEND_MISSING_P2C"},
         NEW m, m = [type |-> type, from |-> o, packets |-> ps, tuples |-> ts]
  PROVE  Arrives(m, m)
<1>1. PICK l, z : VotesList(ps, n, l, z)
  BY VotesListWritten
<1>2. /\ l \in Nat /\ z \in Nat /\ Wide(WriteVotesIntoBuffer2(ps), l, z)
      /\ GetSizeVotesList2(ps) = z + 4
  BY <1>1 DEF VotesList
<1>3. n \in Nat /\ Len(ps) = n /\ DOMAIN ts = 1..j
  BY DEF Packets
<1> DEFINE head == <<U8(m.type), Address(m.from), U16(Len(m.tuples))>>
           body == [i \in DOMAIN m.tuples |-> Field(20, m.tuples[i])]
           count == <<U16(Len(m.packets))>>
           b == Serialize(m)
<1>4. Wide(head, 3, 7) /\ head[1].value = type /\ head[2].value = o /\ head[3].value = j
  <2>1. U16(Len(m.tuples)).width = 2 /\ U16(Len(m.tuples)).value = j
    BY Kept
  <2>2. /\ U8(m.type).width = 1 /\ Address(m.from).width = 4
        /\ U8(m.type).value = type /\ Address(m.from).value = o
    BY DEF U8, Address, Field
  <2> HIDE DEF body, count, b
  <2>3. Wide(head, 3, 1 + 4 + 2)
    BY <2>1, <2>2, WideThree
  <2>4. QED
    BY <2>1, <2>2, <2>3
<1>5. Wide(body, j, 20 * j) /\ \A i \in 1..j : body[i].value = ts[i]
  <2>1. Even(body, j, 20) /\ \A i \in 1..j : body[i].value = ts[i]
    BY <1>3 DEF Even, Field
  <2>2. QED
    BY <2>1, WideSame
<1>6. Wide(count, 1, 2) /\ count[1].value = n
  <2>1. U16(Len(m.packets)).width = 2 /\ U16(Len(m.packets)).value = n
    BY <1>3, Kept
  <2>2. QED
    BY <2>1, WideOne
<1>7. Written(m) = ((head \o body) \o count) \o WriteVotesIntoBuffer2(ps)
  BY DEF Written, WriteMissing
<1> HIDE DEF head, body, count
<1>8. PICK p \in Nat, y \in Nat : p = 3 + j /\ y = 7 + 20 * j /\ Wide(head \o body, p, y)
  <2>1. Wide(head \o body, 3 + j, 7 + 20 * j)
    BY <1>4, <1>5, WideJoin
  <2>2. 3 + j \in Nat /\ 7 + 20 * j \in Nat
    OBVIOUS
  <2>3. QED
    BY <2>1, <2>2
<1>9. PICK q \in Nat, x \in Nat : q = p + 1 /\ x = y + 2 /\ Wide((head \o body) \o count, q, x)
  <2>1. Wide((head \o body) \o count, p + 1, y + 2)
    BY <1>6, <1>8, WideJoin
  <2>2. p + 1 \in Nat /\ y + 2 \in Nat
    BY <1>8
  <2>3. QED
    BY <2>1, <2>2
<1>10. PICK sum \in Nat : sum = GetSerializedSize(m) /\ x + z <= sum
  <2>1. GetSerializedSize(m) = 1 + 4 + 2 + 20 * j + 2 + (z + 4)
    BY <1>2 DEF GetSerializedSize
  <2>2. QED
    BY <1>2, <1>8, <1>9, <2>1
<1>11. Laid(m, (head \o body) \o count, q, x, WriteVotesIntoBuffer2(ps), l, z)
  BY <1>2, <1>7, <1>9, <1>10 DEF Laid
<1>12. /\ Size(Written(m)) <= GetSerializedSize(m)
       /\ Begins(b, (head \o body) \o count) /\ Holds(b, q, WriteVotesIntoBuffer2(ps))
  BY <1>11, SentParts
<1> HIDE DEF b
<1>13. Begins(b, head \o body) /\ Holds(b, p, count)
  BY <1>6, <1>8, <1>12, BeginsParts
<1>14. Begins(b, head) /\ Holds(b, 3, body)
  BY <1>4, <1>5, <1>13, BeginsParts
<1>15. b[1].value = type /\ b[2].value = o /\ b[3].value = j
  BY <1>4, <1>14 DEF Begins, Wide
<1>16. \A i \in 1..j : b[3 + i].value = ts[i]
  BY <1>5, <1>14 DEF Holds, Wide
<1>17. b[j + 4].value = n
  <2>1. j + 4 = p + 1
    BY <1>8
  <2>2. QED
    BY <1>6, <1>13, <2>1 DEF Holds, Wide
<1>18. ReadVotesFromBuffer2(b, j + 5, n) = ps
  <2>1. ReadVotesFromBuffer2(b, q + 1, n) = ps
    BY <1>1, <1>12 DEF VotesList
  <2>2. q + 1 = j + 5
    BY <1>8, <1>9
  <2>3. QED
    BY <2>1, <2>2
<1>19. ts = [i \in 1..j |-> ts[i]]
  OBVIOUS
<1>20. Deserialize(b) = m
  BY <1>15, <1>16, <1>17, <1>18, <1>19 DEF Deserialize, ReadMissing
<1>21. QED
  BY <1>12, <1>20 DEF Arrives, b

-----------------------------------------------------------------------------
(***************************************************************************)
(* The operators on tables, lists and filters.                             *)
(***************************************************************************)
LEMMA AppendElements ==
  ASSUME NEW S, NEW t \in Seq(S), NEW x \in S
  PROVE  Elements(Append(t, x)) = Elements(t) \cup {x} /\ Len(Append(t, x)) = Len(t) + 1
<1>1. PICK n \in Nat : n = Len(t)
  OBVIOUS
<1>2. /\ DOMAIN t = 1..n /\ DOMAIN Append(t, x) = 1..(n + 1) /\ 1..(n + 1) = (1..n) \cup {n + 1}
      /\ Append(t, x)[n + 1] = x /\ \A i \in 1..n : Append(t, x)[i] = t[i]
  BY <1>1
<1>3. QED
  BY <1>1, <1>2 DEF Elements

\* Among keeps the tuples that are in the set.
LEMMA AmongKeeps ==
  ASSUME NEW S, NEW s \in Seq(S), NEW some
  PROVE  /\ Among(s, some) \in Seq(S) /\ Elements(Among(s, some)) = Elements(s) \cap some
         /\ Len(Among(s, some)) <= Len(s)
<1>1. PICK n \in Nat : n = Len(s)
  OBVIOUS
<1>2. PICK g : Sifted(g, s, some, S, n)
  BY <1>1, AmongFold
<1>3. /\ g \in [0..n -> Seq(S)] /\ g[0] = <<>> /\ Among(s, some) = g[n]
      /\ \A k \in 0..n : k # n =>
           g[k + 1] = IF s[k + 1] \in some THEN Append(g[k], s[k + 1]) ELSE g[k]
  BY <1>2 DEF Sifted
<1> DEFINE First(k) == {s[i] : i \in 1..k}
           So == {k \in Nat : k <= n => Elements(g[k]) = First(k) \cap some /\ Len(g[k]) <= k}
<1>4. 0 \in So
  <2>1. Elements(<<>>) = {} /\ Len(<<>>) = 0 /\ First(0) = {}
    BY DEF Elements
  <2>2. QED
    BY <1>3, <2>1
<1>5. ASSUME NEW k \in Nat, k \in So PROVE k + 1 \in So
  <2> SUFFICES ASSUME k + 1 <= n
               PROVE  Elements(g[k + 1]) = First(k + 1) \cap some /\ Len(g[k + 1]) <= k + 1
    OBVIOUS
  <2>1. PICK j \in 1..n : j = k + 1 /\ k \in 0..n /\ k # n
    <3> HIDE DEF So, First
    <3>1. k + 1 \in 1..n /\ k \in 0..n /\ k # n
      BY <1>1
    <3>2. QED
      BY <3>1
  <2>2. g[k] \in Seq(S) /\ s[j] \in S
    BY <1>1, <1>3, <2>1
  <2>3. PICK t : t = g[k]
    OBVIOUS
  <2>4. Elements(t) = First(k) \cap some /\ Len(t) <= k
    BY <1>1, <1>5, <2>1, <2>3
  <2>5. First(j) = First(k) \cup {s[j]}
    <3>1. 1..j = (1..k) \cup {j}
      BY <2>1
    <3>2. QED
      BY <3>1
  <2>6. CASE s[j] \in some
    <3>1. g[j] = Append(t, s[j])
      BY <1>3, <2>1, <2>3, <2>6
    <3>2. Elements(Append(t, s[j])) = Elements(t) \cup {s[j]} /\ Len(Append(t, s[j])) = Len(t) + 1
      <4>1. t \in Seq(S) /\ s[j] \in S
        BY <2>2, <2>3
      <4>2. QED
        BY <4>1, AppendElements
    <3>3. Len(t) \in Nat
      BY <2>2, <2>3
    <3> HIDE DEF First
    <3>4. QED
      BY <2>1, <2>4, <2>5, <2>6, <3>1, <3>2, <3>3
  <2>7. CASE s[j] \notin some
    <3>1. g[j] = t
      BY <1>3, <2>1, <2>3, <2>7
    <3>2. Len(t) \in Nat
      BY <2>2, <2>3
    <3> HIDE DEF First
    <3>3. QED
      BY <2>1, <2>4, <2>5, <2>7, <3>1, <3>2
  <2>8. QED
    BY <2>6, <2>7
<1>6. \A k \in Nat : k \in So
  <2> HIDE DEF So
  <2>1. QED
    BY <1>4, <1>5, SetInduction
<1>7. First(n) = Elements(s)
  BY <1>1 DEF Elements
<1>8. QED
  <2> HIDE DEF First
  <2>1. n \in 0..n /\ Elements(g[n]) = First(n) \cap some /\ Len(g[n]) <= n
    BY <1>6
  <2>2. g[n] \in Seq(S)
    BY <1>3, <2>1
  <2>3. QED
    BY <1>1, <1>3, <1>7, <2>1, <2>2

\* Missing tuples are appended.
LEMMA MissingAppended ==
  ASSUME NEW tuples \in Seq(Canonical), NEW s \in Seq(Canonical)
  PROVE  /\ AddMissing(tuples, s) \in Seq(Canonical)
         /\ Elements(AddMissing(tuples, s)) = Elements(tuples) \cup Elements(s)
         /\ Len(AddMissing(tuples, s)) = Len(tuples) + Len(s)
<1>1. PICK n \in Nat, c \in Nat : n = Len(s) /\ c = Len(tuples)
  OBVIOUS
<1>2. PICK g : Extended(g, s, tuples, n)
  BY <1>1, MissingFold
<1>3. /\ g \in [0..n -> Seq(Canonical)] /\ g[0] = tuples /\ AddMissing(tuples, s) = g[n]
      /\ \A k \in 0..n : k # n => g[k + 1] = Plus(g[k], s[k + 1])
  BY <1>2 DEF Extended
<1> DEFINE First(k) == {s[i] : i \in 1..k}
           So == {k \in Nat : k <= n => Elements(g[k]) = Elements(tuples) \cup First(k) /\ Len(g[k]) = c + k}
<1>4. 0 \in So
  <2>1. First(0) = {}
    OBVIOUS
  <2> HIDE DEF First
  <2>2. QED
    BY <1>1, <1>3, <2>1
<1>5. ASSUME NEW k \in Nat, k \in So PROVE k + 1 \in So
  <2> SUFFICES ASSUME k + 1 <= n
               PROVE  Elements(g[k + 1]) = Elements(tuples) \cup First(k + 1) /\ Len(g[k + 1]) = c + (k + 1)
    OBVIOUS
  <2>1. PICK j \in 1..n : j = k + 1 /\ k \in 0..n /\ k # n
    <3> HIDE DEF So, First
    <3>1. k + 1 \in 1..n /\ k \in 0..n /\ k # n
      BY <1>1
    <3>2. QED
      BY <3>1
  <2>2. PICK t \in Seq(Canonical) : t = g[k]
    BY <1>3, <2>1
  <2>3. s[j] \in Canonical
    BY <1>1, <2>1
  <2>4. Elements(t) = Elements(tuples) \cup First(k) /\ Len(t) = c + k
    BY <1>1, <1>5, <2>1, <2>2
  <2>5. First(j) = First(k) \cup {s[j]}
    <3>1. 1..j = (1..k) \cup {j}
      BY <2>1
    <3>2. QED
      BY <3>1
  <2>6. g[j] = Append(t, s[j])
    <3>1. g[j] = Plus(t, s[j])
      BY <1>3, <2>1, <2>2
    <3>2. QED
      BY <2>2, <2>3, <3>1, AddCanonical DEF Plus
  <2>7. Elements(Append(t, s[j])) = Elements(t) \cup {s[j]} /\ Len(Append(t, s[j])) = Len(t) + 1
    BY <2>2, <2>3, AppendElements
  <2> HIDE DEF First
  <2>8. QED
    BY <1>1, <2>1, <2>4, <2>5, <2>6, <2>7
<1>6. \A k \in Nat : k \in So
  <2> HIDE DEF So
  <2>1. QED
    BY <1>4, <1>5, SetInduction
<1>7. First(n) = Elements(s)
  BY <1>1 DEF Elements
<1>8. QED
  <2> HIDE DEF First
  <2>1. n \in 0..n /\ Elements(g[n]) = Elements(tuples) \cup First(n) /\ Len(g[n]) = c + n
    BY <1>6
  <2>2. g[n] \in Seq(Canonical)
    BY <1>3, <2>1
  <2>3. QED
    BY <1>1, <1>3, <1>7, <2>1, <2>2

\* Received votes leave the votes of addresses.
LEMMA ReceivedLedger ==
  ASSUME NEW packets \in Ledgers, NEW s \in Seq(BallotSet)
  PROVE  AddReceivedMissingVotePackets(packets, s) \in Ledgers
<1>1. PICK n \in Nat : n = Len(s)
  OBVIOUS
<1>2. PICK g \in [0..n -> Ledgers] : AddReceivedMissingVotePackets(packets, s) = g[n]
  BY <1>1, LedgerFold
<1>3. n \in 0..n
  OBVIOUS
<1>4. QED
  BY <1>2, <1>3

\* The largest of finitely many numbers.
LEMMA FiniteLargest ==
  ASSUME NEW S, IsFiniteSet(S), S \subseteq Nat, S # {}
  PROVE  \E m \in S : \A x \in S : x <= m
<1>1. PICK n \in Nat : n = Cardinality(S)
  BY FS_CardinalityType
<1> DEFINE So == {k \in Nat : \A T \in SUBSET Nat :
                    IsFiniteSet(T) /\ Cardinality(T) = k /\ T # {} => \E m \in T : \A x \in T : x <= m}
<1>2. 0 \in So
  BY FS_EmptySet
<1>3. ASSUME NEW k \in Nat, k \in So PROVE k + 1 \in So
  <2> SUFFICES ASSUME NEW T \in SUBSET Nat, IsFiniteSet(T), Cardinality(T) = k + 1, T # {}
               PROVE  \E m \in T : \A x \in T : x <= m
    OBVIOUS
  <2>1. PICK y \in T : TRUE
    OBVIOUS
  <2>2. IsFiniteSet(T \ {y}) /\ Cardinality(T \ {y}) = k
    <3>1. IsFiniteSet(T \ {y}) /\ Cardinality(T \ {y}) = Cardinality(T) - 1
      BY <2>1, FS_RemoveElement
    <3>2. QED
      BY <3>1
  <2>3. CASE T \ {y} = {}
    BY <2>1, <2>3
  <2>4. CASE T \ {y} # {}
    <3>1. PICK m \in T \ {y} : \A x \in T \ {y} : x <= m
      BY <1>3, <2>2, <2>4
    <3>2. \A x \in T : x <= IF y <= m THEN m ELSE y
      BY <2>1, <3>1
    <3>3. (IF y <= m THEN m ELSE y) \in T
      BY <2>1, <3>1
    <3>4. QED
      BY <3>2, <3>3
  <2>5. QED
    BY <2>3, <2>4
<1>4. \A k \in Nat : k \in So
  <2> HIDE DEF So
  <2>1. QED
    BY <1>2, <1>3, SetInduction
<1>5. QED
  BY <1>1, <1>4

\* Every place of the order has one of the keys.
LEMMA Placed ==
  ASSUME NEW S, IsFiniteSet(S), S \subseteq Nat, NEW i \in 1..Cardinality(S)
  PROVE  \E a \in S : Cardinality({b \in S : b < a}) = i - 1
<1>1. PICK n \in Nat : n = Cardinality(S)
  BY FS_CardinalityType
<1> DEFINE So == {k \in Nat : \A T \in SUBSET Nat : IsFiniteSet(T) /\ Cardinality(T) = k =>
                    \A j \in 1..k : \E a \in T : Cardinality({b \in T : b < a}) = j - 1}
<1>2. 0 \in So
  OBVIOUS
<1>3. ASSUME NEW k \in Nat, k \in So PROVE k + 1 \in So
  <2> SUFFICES ASSUME NEW T \in SUBSET Nat, IsFiniteSet(T), Cardinality(T) = k + 1,
                      NEW j \in 1..(k + 1)
               PROVE  \E a \in T : Cardinality({b \in T : b < a}) = j - 1
    OBVIOUS
  <2>1. PICK m \in T : \A x \in T : x <= m
    <3>1. T # {}
      BY FS_EmptySet
    <3>2. QED
      BY <3>1, FiniteLargest
  <2>2. IsFiniteSet(T \ {m}) /\ Cardinality(T \ {m}) = k
    <3>1. IsFiniteSet(T \ {m}) /\ Cardinality(T \ {m}) = Cardinality(T) - 1
      BY <2>1, FS_RemoveElement
    <3>2. QED
      BY <3>1
  <2>3. CASE j = k + 1
    <3>1. \A x \in T : x < m <=> x # m
      <4>1. m \in Nat /\ \A x \in T : x \in Nat
        OBVIOUS
      <4>2. QED
        BY <2>1, <4>1
    <3>2. {b \in T : b < m} = T \ {m}
      BY <3>1
    <3>3. QED
      BY <2>2, <2>3, <3>2
  <2>4. CASE j # k + 1
    <3>1. j \in 1..k
      BY <2>4
    <3>2. PICK a \in T \ {m} : Cardinality({b \in T \ {m} : b < a}) = j - 1
      BY <1>3, <2>2, <3>1
    <3>3. {b \in T : b < a} = {b \in T \ {m} : b < a}
      BY <2>1, <3>2
    <3>4. QED
      BY <3>2, <3>3
  <2>5. QED
    BY <2>3, <2>4
<1>4. \A k \in Nat : k \in So
  <2> HIDE DEF So
  <2>1. QED
    BY <1>2, <1>3, SetInduction
<1>5. QED
  BY <1>1, <1>4

\* A list of addresses, and of those without a vote, fits 16 bits.
LEMMA AscendingKeys ==
  ASSUME NEW keys \in SUBSET Named
  PROVE  Ascending(keys) \in Seq(keys) /\ Len(Ascending(keys)) \in Nat /\ Fits16(Len(Ascending(keys)))
<1>1. IsFiniteSet(Addresses) /\ IsFiniteSet(Named) /\ Cardinality(Named) <= Cardinality(Addresses) + 1
  <2>1. IsFiniteSet(Others)
    BY NodesAssumption
  <2>2. IsFiniteSet(Ends)
    <3>1. IsFiniteSet({Child}) /\ Ends = {Child} \cup {Parent}
      BY FS_Singleton DEF Ends
    <3>2. QED
      BY <3>1, FS_AddElement
  <2>3. IsFiniteSet(Addresses)
    BY <2>1, <2>2, FS_Union DEF Addresses
  <2>4. /\ IsFiniteSet(Named)
        /\ Cardinality(Named) = IF NoAddress \in Addresses THEN Cardinality(Addresses)
                                ELSE Cardinality(Addresses) + 1
    BY <2>3, FS_AddElement DEF Named
  <2>5. Cardinality(Addresses) \in Nat
    BY <2>3, FS_CardinalityType
  <2>6. QED
    BY <2>3, <2>4, <2>5
<1>2. IsFiniteSet(keys) /\ Cardinality(keys) \in Nat /\ Cardinality(keys) <= Cardinality(Named)
  BY <1>1, FS_Subset, FS_CardinalityType
<1>3. keys \subseteq Nat
  BY NodesAssumption DEF Named, NoAddress
<1>4. PICK n \in Nat : n = Cardinality(keys)
  BY <1>2
<1>5. \A i \in 1..n : \E a \in keys : Cardinality({b \in keys : b < a}) = i - 1
  BY <1>2, <1>3, <1>4, Placed
<1>6. Ascending(keys) \in [1..n -> keys]
  BY <1>4, <1>5 DEF Ascending
<1>7. Ascending(keys) \in Seq(keys) /\ Len(Ascending(keys)) = n
  BY <1>6
<1>8. Fits16(n)
  <2>1. Cardinality(Addresses) \in Nat /\ Cardinality(Named) \in Nat
    BY <1>1, FS_CardinalityType
  <2>2. QED
    BY <1>1, <1>2, <1>4, <2>1, CountsAssumption, WordAssumption DEF Fits16
<1>9. QED
  BY <1>7, <1>8

\* The lists of addresses and the vote packets that are sent.
LEMMA MissingVotes ==
  ASSUME NEW packets \in Ledgers, NEW list
  PROVE  /\ GetListVotesIP(packets) \in Seq(Named) /\ Fits16(Len(GetListVotesIP(packets)))
         /\ GetMissingVotePackets(packets, list) \in Seq(BallotSet)
         /\ Fits16(Len(GetMissingVotePackets(packets, list)))
<1>1. PICK D \in SUBSET Named : packets \in [D -> BallotSet]
  BY DEF Ledgers
<1> DEFINE lacking == {a \in DOMAIN packets : ~Contains(list, a)}
<1>2. DOMAIN packets \in SUBSET Named /\ lacking \in SUBSET Named
  BY <1>1
<1>3. GetListVotesIP(packets) \in Seq(Named) /\ Fits16(Len(GetListVotesIP(packets)))
  <2>1. Ascending(DOMAIN packets) \in Seq(DOMAIN packets) /\ Fits16(Len(Ascending(DOMAIN packets)))
    BY <1>2, AscendingKeys
  <2>2. QED
    BY <1>2, <2>1 DEF GetListVotesIP
<1>4. Ascending(lacking) \in Seq(lacking) /\ Len(Ascending(lacking)) \in Nat /\ Fits16(Len(Ascending(lacking)))
  BY <1>2, AscendingKeys
<1>5. PICK missing \in Seq(lacking), n \in Nat : missing = Ascending(lacking) /\ n = Len(missing)
  BY <1>4
<1>6. GetMissingVotePackets(packets, list) = [i \in DOMAIN missing |-> packets[missing[i]]]
  BY <1>5 DEF GetMissingVotePackets
<1>7. \A i \in 1..n : packets[missing[i]] \in BallotSet
  <2>1. \A a \in lacking : packets[a] \in BallotSet
    BY <1>1
  <2> HIDE DEF lacking
  <2>2. QED
    BY <1>5, <2>1
<1>8. GetMissingVotePackets(packets, list) \in [1..n -> BallotSet]
  <2> HIDE DEF lacking
  <2>1. QED
    BY <1>5, <1>6, <1>7
<1>9. GetMissingVotePackets(packets, list) \in Seq(BallotSet) /\ Len(GetMissingVotePackets(packets, list)) = n
  BY <1>8
<1>10. QED
  BY <1>3, <1>4, <1>5, <1>9

\* The bits of a tuple are all set.
Marked(filter, t) == \A k \in 1..HashFunctions : filter[Index(k, t, Len(filter))]

Covers(filter, some) == \A t \in some : Marked(filter, t)

\* A filter that has bits, also when it is cut.
IsFilter(filter) == filter \in Seq(BOOLEAN) /\ Len(filter) % Word # 0

\* A hash picks a bit of the filter.
LEMMA IndexInside ==
  ASSUME NEW size \in Nat, size # 0, NEW t \in Tuples, NEW k \in 1..HashFunctions
  PROVE  Index(k, t, size) \in 1..size
<1>1. PICK d \in Nat : d = Digest(k, t)
  BY FiltersAssumption
<1>2. d % size \in 0..(size - 1)
  OBVIOUS
<1>3. QED
  BY <1>1, <1>2 DEF Index

\* A filter is as long as it was asked to be, and has every tuple it was made of.
LEMMA FilterMade ==
  ASSUME NEW tuples \in Seq(Canonical), NEW size \in Nat, size % Word # 0
  PROVE  /\ IsFilter(FilterOf(tuples, size)) /\ Len(FilterOf(tuples, size)) = size
         /\ Covers(FilterOf(tuples, size), Elements(tuples))
<1>1. size # 0
  <2>1. 0 % Word = 0
    BY WordAssumption
  <2>2. QED
    BY <2>1
<1> DEFINE ones == {Index(k, tuples[i], size) : k \in 1..HashFunctions, i \in DOMAIN tuples}
           f == [i \in 1..size |-> i \in ones]
<1>2. FilterOf(tuples, size) = f
  BY DEF FilterOf
<1>3. f \in [1..size -> BOOLEAN] /\ f \in Seq(BOOLEAN) /\ Len(f) = size
  <2>1. f \in [1..size -> BOOLEAN]
    <3> HIDE DEF ones
    <3>1. QED
      OBVIOUS
  <2> HIDE DEF f
  <2>2. QED
    BY <2>1
<1>4. ASSUME NEW t \in Elements(tuples), NEW k \in 1..HashFunctions PROVE f[Index(k, t, size)]
  <2>1. PICK i \in DOMAIN tuples : t = tuples[i]
    BY DEF Elements
  <2>2. t \in Tuples
    BY <2>1 DEF Canonical
  <2>3. PICK j \in 1..size : j = Index(k, t, size)
    BY <1>1, <2>2, IndexInside
  <2>4. j \in ones
    BY <2>1, <2>3
  <2>5. f[j] = (j \in ones)
    <3> HIDE DEF ones
    <3>1. QED
      OBVIOUS
  <2> HIDE DEF ones, f
  <2>6. QED
    BY <2>3, <2>4, <2>5
<1> HIDE DEF f
<1>5. QED
  BY <1>2, <1>3, <1>4 DEF IsFilter, Covers, Marked

\* What the comparison with a filter leaves.
Lacking(sent, tuples, filter) ==
  /\ sent \in Seq(Canonical) /\ Len(sent) <= Len(tuples)
  /\ Covers(filter, Elements(tuples) \ Elements(sent))
  /\ \A t \in Elements(sent) : ~Marked(filter, t)

\* What the comparison sends has a bit that the filter lacks, and the rest has none.
LEMMA Compared ==
  ASSUME NEW tuples \in Seq(Canonical), NEW filter \in Seq(BOOLEAN), Len(filter) # 0
  PROVE  Lacking(ProcessSetReconciliation(tuples, filter), tuples, filter)
<1> DEFINE some == {t \in Tuples : \E k \in 1..HashFunctions : ~filter[Index(k, t, Len(filter))]}
<1>1. ProcessSetReconciliation(tuples, filter) = Among(tuples, some)
  BY DEF ProcessSetReconciliation
<1>2. Elements(tuples) \subseteq Tuples
  BY DEF Elements, Canonical
<1>3. \A t \in Tuples : t \in some <=> ~Marked(filter, t)
  BY DEF Marked
<1> HIDE DEF some
<1>4. /\ Among(tuples, some) \in Seq(Canonical)
      /\ Elements(Among(tuples, some)) = Elements(tuples) \cap some
      /\ Len(Among(tuples, some)) <= Len(tuples)
  BY AmongKeeps
<1>5. QED
  BY <1>1, <1>2, <1>3, <1>4 DEF Lacking, Covers

\* A filter read from a packet has bits, and is the one that was sent if 16 bits tell its size.
LEMMA FilterReadBack ==
  ASSUME NEW filter, IsFilter(filter)
  PROVE  /\ Len(filter) \in Nat /\ Len(filter) # 0
         /\ ReadFilter(filter) \in Seq(BOOLEAN) /\ Len(ReadFilter(filter)) # 0
         /\ Fits16(Len(filter)) => ReadFilter(filter) = filter
<1>1. PICK n \in Nat : n = Len(filter) /\ n % Word # 0 /\ filter \in Seq(BOOLEAN) /\ DOMAIN filter = 1..n
  BY DEF IsFilter
<1>2. PICK c \in Nat : c = U16(n).value /\ c <= n /\ c = n % Word
  BY <1>1, Cut DEF U16, Field
<1>3. ReadFilter(filter) = [i \in 1..c |-> filter[i]]
  BY <1>1, <1>2 DEF ReadFilter
<1>4. ReadFilter(filter) \in [1..c -> BOOLEAN]
  BY <1>1, <1>2, <1>3
<1>5. ReadFilter(filter) \in Seq(BOOLEAN) /\ Len(ReadFilter(filter)) = c
  BY <1>4
<1>6. n # 0
  <2>1. 0 % Word = 0
    BY WordAssumption
  <2>2. QED
    BY <1>1, <2>1
<1>7. ASSUME Fits16(n) PROVE ReadFilter(filter) = filter
  <2>1. c = n
    BY <1>2, <1>7, Kept
  <2>2. QED
    BY <1>1, <1>3, <2>1
<1>8. QED
  BY <1>1, <1>2, <1>5, <1>6, <1>7

-----------------------------------------------------------------------------
(***************************************************************************)
(* The messages that the two send.                                         *)
(***************************************************************************)
Ask(d, f) == [type |-> "ASK_BF", origin |-> Child, dim |-> d, filter |-> f]
FilterFor(f, list) == [type |-> "SEND_BF", filter |-> f, list |-> list]
FilterDown(f, list) == [type |-> "SEND_BF_C2P", origin |-> Child, list |-> list, filter |-> f]
MissingOf(e, ps, ts) ==
  [type |-> IF e = Child THEN "SEND_MISSING_C2P" ELSE "SEND_MISSING_P2C",
   from |-> e, packets |-> ps, tuples |-> ts]

LEMMA AskSent ==
  ASSUME NEW d \in Nat, Fits16(d), NEW f \in Seq(BOOLEAN), Fits16(Len(f))
  PROVE  Arrives(Ask(d, f), Ask(d, f))
<1>1. PICK n, c : Filtered(f, n, c)
  BY FilterWritten
<1>2. Fits16(n)
  BY <1>1 DEF Filtered
<1>3. QED
  BY <1>1, <1>2, AskArrives DEF Ask

LEMMA ListKept ==
  ASSUME NEW S, NEW list \in Seq(S)
  PROVE  [i \in 1..Len(list) |-> list[i]] = list
OBVIOUS

LEMMA FilterSent ==
  ASSUME NEW f, IsFilter(f), NEW S, NEW list \in Seq(S), Fits16(Len(list))
  PROVE  Arrives(FilterFor(f, list), FilterFor(ReadFilter(f), list))
<1>1. PICK n, c : Filtered(f, n, c)
  BY FilterWritten DEF IsFilter
<1>2. PICK k : k = Len(list)
  OBVIOUS
<1>3. PICK l, z : Addressed(list, k, l, z)
  BY <1>2, AddressesWritten
<1>4. PICK m : m = FilterFor(f, list)
  OBVIOUS
<1>5. Arrives(m, [type |-> "SEND_BF", list |-> [i \in 1..k |-> list[i]], filter |-> ReadFilter(f)])
  BY <1>1, <1>3, <1>4, FilterArrives DEF FilterFor
<1>6. QED
  BY <1>2, <1>4, <1>5, ListKept DEF FilterFor

LEMMA FilterDownSent ==
  ASSUME NEW f, IsFilter(f), Fits16(Len(f)), NEW S, NEW list \in Seq(S), Fits16(Len(list))
  PROVE  Arrives(FilterDown(f, list), FilterDown(f, list))
<1>1. PICK n, c : Filtered(f, n, c)
  BY FilterWritten DEF IsFilter
<1>2. PICK k : k = Len(list)
  OBVIOUS
<1>3. PICK l, z : Addressed(list, k, l, z)
  BY <1>2, AddressesWritten
<1>4. PICK m : m = FilterDown(f, list)
  OBVIOUS
<1>5. Fits16(n)
  BY <1>1 DEF Filtered
<1>6. Arrives(m, [type |-> "SEND_BF_C2P", origin |-> Child, filter |-> f, list |-> [i \in 1..k |-> list[i]]])
  BY <1>1, <1>3, <1>4, <1>5, FilterDownArrives DEF FilterDown
<1>7. QED
  BY <1>2, <1>4, <1>6, ListKept DEF FilterDown

LEMMA MissingSent ==
  ASSUME NEW e \in Ends, NEW ts \in Seq(Canonical), Fits16(Len(ts)),
         NEW ps \in Seq(BallotSet), Fits16(Len(ps))
  PROVE  Arrives(MissingOf(e, ps, ts), MissingOf(e, ps, ts))
<1>1. PICK j \in Nat, n \in Nat : j = Len(ts) /\ n = Len(ps)
  OBVIOUS
<1>2. ps \in Seq(VotePacket)
  <2>1. \A i \in 1..n : ps[i] \in VotePacket
    BY <1>1, Ballot
  <2>2. QED
    BY <1>1, <2>1
<1>3. Packets(ps, n)
  BY <1>1, <1>2 DEF Packets
<1>4. PICK type \in {"SEND_MISSING_C2P", "SEND_MISSING_P2C"} :
        type = IF e = Child THEN "SEND_MISSING_C2P" ELSE "SEND_MISSING_P2C"
  OBVIOUS
<1>5. PICK m : m = MissingOf(e, ps, ts)
  OBVIOUS
<1>6. Arrives(m, m)
  BY <1>1, <1>3, <1>4, <1>5, MissingArrives DEF MissingOf
<1>7. QED
  BY <1>5, <1>6

-----------------------------------------------------------------------------
(***************************************************************************)
(* The invariant: what is under way at each step, and what the two know.   *)
(***************************************************************************)
LC == Len(table[Child])
LP == Len(table[Parent])

UnderWay(to, m, r) ==
  air = <<[to |-> to, sent |-> m, packet |-> Serialize(m)]>> /\ Arrives(m, r)

HelloUnderWay ==
  /\ step = "hello" /\ LC = 0 /\ LP <= MaxTuples
  /\ \/ \E m : /\ m = [type |-> "ROOT_SR_HELLO", origin |-> Parent, info |-> Info[Parent],
                       votes |-> Ballots[Parent]]
               /\ UnderWay(Child, m, m)
     \/ \E m : /\ m = [type |-> "SR_HELLO", origin |-> Parent, parent |-> Elder,
                       info |-> Info[Parent], votes |-> Ballots[Parent]]
               /\ UnderWay(Child, m, m)

ChildHelloUnderWay ==
  /\ step = "hello" /\ LC # 0 /\ LC + LP <= MaxTuples + 1
  /\ \E v \in BallotSet : \E m :
       /\ m = [type |-> "SR_HELLO", origin |-> Child, parent |-> Parent, info |-> Info[Child],
               votes |-> v]
       /\ UnderWay(Parent, m, m)

AskUnderWay ==
  /\ step = "up"
  /\ \E d \in Nat, f \in Seq(BOOLEAN) :
       /\ d # 0 /\ d <= LC /\ Len(f) # 0 /\ Fits16(Len(f))
       /\ ~mode.dynamic => Covers(f, shown[Child])
       /\ UnderWay(Parent, Ask(d, f), Ask(d, f))

\* A filter of fixed size that the parent keeps until the way down.
StaticKept ==
  ~mode.dynamic => Len(stored[Parent]) # 0 /\ Covers(stored[Parent], shown[Child])

FilterUnderWay ==
  /\ step = "up" /\ StaticKept
  /\ \E f \in Seq(BOOLEAN), list \in Seq(Named) :
       /\ IsFilter(f)
       /\ IF Fits16(Len(f)) THEN Covers(f, shown[Parent]) ELSE shown[Parent] = {}
       /\ UnderWay(Child, FilterFor(f, list), FilterFor(ReadFilter(f), list))

MissingUnderWay(e) ==
  \E ps \in Seq(BallotSet), ts \in Seq(Canonical) :
    /\ Len(ts) <= Len(table[e])
    /\ Elements(ts) \cap shown[Peer(e)] = {}
    /\ Covers(stored[e], tried[e] \ Elements(ts))
    /\ UnderWay(Peer(e), MissingOf(e, ps, ts), MissingOf(e, ps, ts))

MissingUp == step = "up" /\ StaticKept /\ MissingUnderWay(Child)

AskDown(d) == [type |-> "ASK_BF_P2C", origin |-> Parent, dim |-> d]

AskDownUnderWay ==
  /\ step = "down" /\ mode.dynamic
  /\ \E d \in 1..(MaxTuples + 2) :
       Fits16(BitsPer(d)) /\ UnderWay(Child, AskDown(d), AskDown(d))

FilterDownUnderWay ==
  /\ step = "down" /\ mode.dynamic
  /\ \E f \in Seq(BOOLEAN), list \in Seq(Named) :
       /\ IsFilter(f) /\ Fits16(Len(f)) /\ Covers(f, shown[Child])
       /\ UnderWay(Parent, FilterDown(f, list), FilterDown(f, list))

MissingDown == step = "down" /\ MissingUnderWay(Parent)

\* The peer has what e had when it compared, but what the filter that e read has.
Reached(e) == Covers(stored[e], tried[e] \ Elements(table[Peer(e)]))

Ack == [type |-> "SEND_MISSING_P2C_ACK", origin |-> Child]

AckUnderWay == step = "down" /\ Reached(Parent) /\ UnderWay(Parent, Ack, Ack)

AirInv ==
  \/ air = <<>>
  \/ HelloUnderWay \/ ChildHelloUnderWay
  \/ AskUnderWay \/ FilterUnderWay \/ MissingUp
  \/ AskDownUnderWay \/ FilterDownUnderWay \/ MissingDown \/ AckUnderWay

StepInv ==
  /\ step = "start" => LC = 0 /\ LP <= 1 /\ air = <<>>
  /\ step = "hello" => air # <<>>
  /\ step = "up" => LC # 0 /\ LP # 0 /\ LC + LP <= MaxTuples + 2
  /\ step = "down" => LP # 0 /\ LP <= MaxTuples + 2 /\ StaticKept
  /\ step \in {"down", "done"} => Reached(Child)
  /\ step = "done" => Reached(Parent) /\ air = <<>>

DataInv ==
  /\ mode \in [dynamic : BOOLEAN, root : BOOLEAN]
  /\ step \in {"start", "hello", "up", "down", "done"}
  /\ table \in [Ends -> Seq(Canonical)]
  /\ votes \in [Ends -> Ledgers]
  /\ stored \in [Ends -> Seq(BOOLEAN)]
  /\ shown \in [Ends -> SUBSET Canonical]
  /\ tried \in [Ends -> SUBSET Canonical]

Inv == DataInv /\ StepInv /\ AirInv

LEMMA EndsTwo ==
  /\ Child \in Ends /\ Parent \in Ends /\ Child # Parent
  /\ Peer(Child) = Parent /\ Peer(Parent) = Child
  /\ Child \in Addresses /\ Parent \in Addresses /\ Elder \in Addresses
  /\ Elder # Child /\ Elder # Parent
  /\ \A e \in Ends : e = Child \/ e = Parent
BY NodesAssumption DEF Ends, Addresses, Peer

\* The packet under way is read as r.
LEMMA UnderWaySeen ==
  ASSUME NEW to, NEW m, NEW r, UnderWay(to, m, r)
  PROVE  /\ air # <<>> /\ Len(air) = 1 /\ air[1].to = to /\ air[1].sent = m /\ Read = r
         /\ Size(Written(m)) <= GetSerializedSize(m)
BY DEF UnderWay, Arrives, Read

LEMMA TableFacts ==
  ASSUME DataInv
  PROVE  /\ LC \in Nat /\ LP \in Nat /\ MaxTuples \in Nat /\ MaxTuples # 0
         /\ \A e \in Ends : /\ table[e] \in Seq(Canonical) /\ Len(table[e]) \in Nat
                            /\ Elements(table[e]) \subseteq Canonical
BY CountsAssumption, EndsTwo DEF DataInv, LC, LP, Elements

LEMMA Bounded ==
  ASSUME NEW n \in Nat, n <= MaxTuples + 2
  PROVE  Fits16(n)
BY CountsAssumption, WordAssumption DEF Fits16

\* The tuple that a hello adds.
LEMMA HelloAdded ==
  ASSUME NEW tuples \in Seq(Canonical), NEW a \in Addresses, NEW b \in Addresses, a # b
  PROVE  /\ AddTuple(tuples, a, b, Info[a], Info[b]) \in Seq(Canonical)
         /\ Len(AddTuple(tuples, a, b, Info[a], Info[b])) = Len(tuples) + 1
         /\ Elements(tuples) \subseteq Elements(AddTuple(tuples, a, b, Info[a], Info[b]))
<1>1. PICK t \in Canonical : t = Ordered(a, b, Info[a], Info[b])
  BY OrderedCanonical
<1>2. AddTuple(tuples, a, b, Info[a], Info[b]) = Append(tuples, t)
  BY <1>1 DEF AddTuple, IpAllowed
<1>3. Elements(Append(tuples, t)) = Elements(tuples) \cup {t} /\ Len(Append(tuples, t)) = Len(tuples) + 1
  BY AppendElements
<1>4. Append(tuples, t) \in Seq(Canonical)
  OBVIOUS
<1>5. QED
  BY <1>2, <1>3, <1>4

\* What the handling of a hello leaves.
Heard(e) ==
  /\ table' \in [Ends -> Seq(Canonical)] /\ votes' \in [Ends -> Ledgers]
  /\ Len(table'[e]) = Len(table[e]) + 1
  /\ \A x \in Ends : /\ Elements(table[x]) \subseteq Elements(table'[x])
                     /\ x # e => table'[x] = table[x]

\* Hearing a hello adds one tuple and one vote packet.
LEMMA HelloStored ==
  ASSUME DataInv, NEW e \in Ends, NEW sh, StoreHello(e, sh),
         sh.origin \in Addresses, sh.origin # e, sh.info = Info[sh.origin], sh.votes \in BallotSet
  PROVE  Heard(e)
<1>1. table \in [Ends -> Seq(Canonical)] /\ votes \in [Ends -> Ledgers]
  BY DEF DataInv
<1>2. PICK o \in Addresses, v \in BallotSet : o = sh.origin /\ v = sh.votes /\ o # e /\ sh.info = Info[o]
  OBVIOUS
<1>3. PICK t : t = AddTuple(table[e], o, e, Info[o], Info[e])
  OBVIOUS
<1>4. /\ t \in Seq(Canonical) /\ Len(t) = Len(table[e]) + 1
      /\ Elements(table[e]) \subseteq Elements(t)
  BY <1>1, <1>2, <1>3, HelloAdded DEF Addresses
<1>5. table' = [table EXCEPT ![e] = t] /\ votes' = [votes EXCEPT ![e] = SetVotes(votes[e], o, v)]
  BY <1>2, <1>3 DEF StoreHello, ReadDataFromFile
<1>6. SetVotes(votes[e], o, v) \in Ledgers
  BY <1>1, SetVotesLedger DEF Named
<1>7. QED
  BY <1>1, <1>4, <1>5, <1>6 DEF Heard

-----------------------------------------------------------------------------
(***************************************************************************)
(* What a handler reads tells what is under way.                           *)
(***************************************************************************)
LEMMA Kinds ==
  ASSUME AirInv, air # <<>>
  PROVE  \/ HelloUnderWay /\ air[1].to = Child /\ Read.type \in {"ROOT_SR_HELLO", "SR_HELLO"}
         \/ ChildHelloUnderWay /\ air[1].to = Parent /\ Read.type = "SR_HELLO"
         \/ AskUnderWay /\ air[1].to = Parent /\ Read.type = "ASK_BF"
         \/ FilterUnderWay /\ air[1].to = Child /\ Read.type = "SEND_BF"
         \/ MissingUp /\ air[1].to = Parent /\ Read.type = "SEND_MISSING_C2P"
         \/ AskDownUnderWay /\ air[1].to = Child /\ Read.type = "ASK_BF_P2C"
         \/ FilterDownUnderWay /\ air[1].to = Parent /\ Read.type = "SEND_BF_C2P"
         \/ MissingDown /\ air[1].to = Child /\ Read.type = "SEND_MISSING_P2C"
         \/ AckUnderWay /\ air[1].to = Parent /\ Read.type = "SEND_MISSING_P2C_ACK"
<1>1. CASE HelloUnderWay
  <2>1. PICK m : m.type \in {"ROOT_SR_HELLO", "SR_HELLO"} /\ UnderWay(Child, m, m)
    BY <1>1 DEF HelloUnderWay
  <2>2. QED
    BY <1>1, <2>1, UnderWaySeen
<1>2. CASE ChildHelloUnderWay
  <2>1. PICK m : m.type = "SR_HELLO" /\ UnderWay(Parent, m, m)
    BY <1>2 DEF ChildHelloUnderWay
  <2>2. QED
    BY <1>2, <2>1, UnderWaySeen
<1>3. CASE AskUnderWay
  <2>1. PICK m : m.type = "ASK_BF" /\ UnderWay(Parent, m, m)
    BY <1>3 DEF AskUnderWay, Ask
  <2>2. QED
    BY <1>3, <2>1, UnderWaySeen
<1>4. CASE FilterUnderWay
  <2>1. PICK m, r : r.type = "SEND_BF" /\ UnderWay(Child, m, r)
    BY <1>4 DEF FilterUnderWay, FilterFor
  <2>2. QED
    BY <1>4, <2>1, UnderWaySeen
<1>5. CASE MissingUp
  <2>1. PICK m : m.type = "SEND_MISSING_C2P" /\ UnderWay(Parent, m, m)
    BY <1>5, EndsTwo DEF MissingUp, MissingUnderWay, MissingOf
  <2>2. QED
    BY <1>5, <2>1, UnderWaySeen
<1>6. CASE AskDownUnderWay
  <2>1. PICK m : m.type = "ASK_BF_P2C" /\ UnderWay(Child, m, m)
    BY <1>6 DEF AskDownUnderWay, AskDown
  <2>2. QED
    BY <1>6, <2>1, UnderWaySeen
<1>7. CASE FilterDownUnderWay
  <2>1. PICK m : m.type = "SEND_BF_C2P" /\ UnderWay(Parent, m, m)
    BY <1>7 DEF FilterDownUnderWay, FilterDown
  <2>2. QED
    BY <1>7, <2>1, UnderWaySeen
<1>8. CASE MissingDown
  <2>1. PICK m : m.type = "SEND_MISSING_P2C" /\ UnderWay(Child, m, m)
    BY <1>8, EndsTwo DEF MissingDown, MissingUnderWay, MissingOf
  <2>2. QED
    BY <1>8, <2>1, UnderWaySeen
<1>9. CASE AckUnderWay
  <2>1. PICK m : m.type = "SEND_MISSING_P2C_ACK" /\ UnderWay(Parent, m, m)
    BY <1>9 DEF AckUnderWay, Ack
  <2>2. QED
    BY <1>9, <2>1, UnderWaySeen
<1>10. QED
  BY <1>1, <1>2, <1>3, <1>4, <1>5, <1>6, <1>7, <1>8, <1>9 DEF AirInv

-----------------------------------------------------------------------------
(***************************************************************************)
(* Every step keeps the invariant.                                         *)
(***************************************************************************)
LEMMA BallotOf ==
  ASSUME NEW a \in Addresses
  PROVE  Ballots[a] \in BallotSet /\ Ballots[a] \in VotePacket
BY BallotsAssumption DEF BallotSet

\* The first state.
LEMMA InitInv ==
  ASSUME Init
  PROVE  Inv
<1> USE DEF Init
<1>1. <<>> \in Seq(Canonical) /\ <<>> \in Seq(BOOLEAN) /\ Len(<<>>) = 0
  OBVIOUS
<1>2. PICK t : t = AddTuple(<<>>, Parent, Elder, Info[Parent], Info[Elder])
  OBVIOUS
<1>3. t \in Seq(Canonical) /\ Len(t) = 1
  <2>1. Len(t) = Len(<<>>) + 1 /\ t \in Seq(Canonical)
    BY <1>1, <1>2, EndsTwo, HelloAdded
  <2>2. QED
    BY <1>1, <2>1
<1>4. table = [e \in Ends |-> IF e = Parent /\ ~mode.root THEN t ELSE <<>>]
  BY <1>2 DEF ReadDataFromFile
<1>5. Nobody \in Ledgers
  <2>1. Nobody \in [{} -> BallotSet] /\ {} \in SUBSET Named
    BY DEF Nobody
  <2>2. QED
    BY <2>1 DEF Ledgers
<1>6. SetVotes(Nobody, Elder, Ballots[Elder]) \in Ledgers
  BY <1>5, EndsTwo, BallotOf, SetVotesLedger DEF Named
<1>7. DataInv
  <2>1. table \in [Ends -> Seq(Canonical)]
    BY <1>1, <1>3, <1>4
  <2>2. votes \in [Ends -> Ledgers]
    BY <1>5, <1>6
  <2>3. stored \in [Ends -> Seq(BOOLEAN)]
    BY <1>1
  <2>4. shown \in [Ends -> SUBSET Canonical] /\ tried \in [Ends -> SUBSET Canonical]
    OBVIOUS
  <2>5. QED
    BY <2>1, <2>2, <2>3, <2>4 DEF DataInv
<1>8. LC = 0 /\ LP <= 1
  <2>1. table[Child] = <<>> /\ table[Parent] \in {t, <<>>}
    BY <1>4, EndsTwo
  <2>2. Len(table[Child]) = 0
    BY <1>1, <2>1
  <2>3. Len(table[Parent]) <= 1
    <3>1. Len(table[Parent]) \in {0, 1}
      BY <1>1, <1>3, <2>1
    <3> HIDE DEF Init
    <3>2. \A i \in {0, 1} : i <= 1
      OBVIOUS
    <3>3. QED
      BY <3>1, <3>2
  <2>4. QED
    BY <2>2, <2>3 DEF LC, LP
<1>9. StepInv
  BY <1>8 DEF StepInv
<1>10. QED
  BY <1>7, <1>9 DEF Inv, AirInv

LEMMA SendHelloStep ==
  ASSUME Inv, SendHello
  PROVE  Inv'
<1> USE DEF SendHello
<1>1. DataInv /\ LC = 0 /\ LP <= 1 /\ LC' = LC /\ LP' = LP
  BY DEF Inv, StepInv, LC, LP
<1>2. DataInv'
  BY <1>1 DEF DataInv
<1>3. LP <= MaxTuples
  BY <1>1, TableFacts
<1>4. PICK m : /\ air' = <<[to |-> Child, sent |-> m, packet |-> Serialize(m)]>>
               /\ \/ m = [type |-> "ROOT_SR_HELLO", origin |-> Parent, info |-> Info[Parent],
                          votes |-> Ballots[Parent]]
                  \/ m = [type |-> "SR_HELLO", origin |-> Parent, parent |-> Elder,
                          info |-> Info[Parent], votes |-> Ballots[Parent]]
  BY DEF Send, ReadDataFromFile
<1>5. Arrives(m, m)
  <2>1. Ballots[Parent] \in VotePacket
    BY EndsTwo, BallotOf
  <2>2. QED
    BY <1>4, <2>1, RootHelloArrives, HelloArrives
<1>6. UnderWay(Child, m, m)'
  BY <1>4, <1>5 DEF UnderWay
<1>7. HelloUnderWay'
  BY <1>1, <1>3, <1>4, <1>6 DEF HelloUnderWay
<1>8. StepInv'
  BY <1>4 DEF StepInv
<1>9. QED
  BY <1>2, <1>7, <1>8 DEF Inv, AirInv

\* The child answers the hello it adopts.
LEMMA ChildAnswers ==
  ASSUME Inv, HelloUnderWay, NEW v \in BallotSet, step' = step, mode' = mode,
         UNCHANGED <<stored, shown, tried>>, StoreHello(Child, Read),
         Send(Parent, [type |-> "SR_HELLO", origin |-> Child, parent |-> Read.origin,
                       info |-> ReadDataFromFile(Child), votes |-> v])
  PROVE  Inv'
<1>1. DataInv /\ step = "hello" /\ LC = 0 /\ LP <= MaxTuples /\ LC \in Nat /\ LP \in Nat /\ MaxTuples \in Nat
  BY TableFacts DEF Inv, HelloUnderWay
<1>2. Read.origin = Parent /\ Read.info = Info[Parent] /\ Read.votes = Ballots[Parent]
  <2>1. PICK m : UnderWay(Child, m, m) /\ m.origin = Parent /\ m.info = Info[Parent] /\ m.votes = Ballots[Parent]
    BY DEF HelloUnderWay
  <2>2. QED
    BY <2>1, UnderWaySeen
<1>3. Heard(Child)
  BY <1>1, <1>2, EndsTwo, BallotOf, HelloStored
<1>4. LC' = LC + 1 /\ LP' = LP
  BY <1>3, EndsTwo DEF Heard, LC, LP
<1>5. DataInv'
  BY <1>1, <1>3 DEF DataInv, Heard
<1>6. PICK m : /\ m = [type |-> "SR_HELLO", origin |-> Child, parent |-> Parent, info |-> Info[Child],
                       votes |-> v]
               /\ air' = <<[to |-> Parent, sent |-> m, packet |-> Serialize(m)]>>
  BY <1>2 DEF Send, ReadDataFromFile
<1>7. Arrives(m, m)
  <2>1. v \in VotePacket
    BY Ballot
  <2>2. QED
    BY <1>6, <2>1, HelloArrives
<1>8. UnderWay(Parent, m, m)'
  BY <1>6, <1>7 DEF UnderWay
<1>9. ChildHelloUnderWay'
  <2>1. LC' # 0 /\ LC' + LP' <= MaxTuples + 1
    BY <1>1, <1>4
  <2>2. QED
    BY <1>1, <1>6, <1>8, <2>1 DEF ChildHelloUnderWay
<1>10. StepInv'
  BY <1>1, <1>6 DEF StepInv
<1>11. QED
  BY <1>5, <1>9, <1>10 DEF Inv, AirInv

LEMMA ProcessRootHelloStep ==
  ASSUME Inv, ProcessRootHello
  PROVE  Inv'
<1> USE DEF ProcessRootHello
<1>1. HelloUnderWay
  BY Kinds, EndsTwo DEF Inv, RecvPacket
<1>2. NoBallot \in BallotSet
  BY DEF BallotSet
<1>3. QED
  BY <1>1, <1>2, ChildAnswers

LEMMA ProcessSRHelloAdoptStep ==
  ASSUME Inv, ProcessSRHelloAdopt
  PROVE  Inv'
<1> USE DEF ProcessSRHelloAdopt
<1>1. HelloUnderWay
  BY Kinds, EndsTwo DEF Inv, RecvPacket
<1>2. Ballots[Child] \in BallotSet
  BY EndsTwo, BallotOf
<1>3. QED
  BY <1>1, <1>2, ChildAnswers

LEMMA ProcessSRHelloOfChildStep ==
  ASSUME Inv, ProcessSRHelloOfChild
  PROVE  Inv'
<1> USE DEF ProcessSRHelloOfChild
<1>1. ChildHelloUnderWay
  BY Kinds, EndsTwo DEF Inv, RecvPacket
<1>2. DataInv /\ LC # 0 /\ LC + LP <= MaxTuples + 1 /\ LC \in Nat /\ LP \in Nat /\ MaxTuples \in Nat
  BY <1>1, TableFacts DEF Inv, ChildHelloUnderWay
<1>3. PICK v \in BallotSet : Read.origin = Child /\ Read.info = Info[Child] /\ Read.votes = v
  <2>1. PICK v, m : v \in BallotSet /\ UnderWay(Parent, m, m) /\ m.origin = Child /\ m.info = Info[Child] /\ m.votes = v
    BY <1>1 DEF ChildHelloUnderWay
  <2>2. QED
    BY <2>1, UnderWaySeen
<1>4. Heard(Parent)
  BY <1>2, <1>3, EndsTwo, HelloStored
<1>5. LP' = LP + 1 /\ LC' = LC
  BY <1>4, EndsTwo DEF Heard, LC, LP
<1>6. DataInv'
  BY <1>2, <1>4 DEF DataInv, Heard
<1>7. LP' # 0 /\ LC' # 0 /\ LC' + LP' <= MaxTuples + 2
  BY <1>2, <1>5
<1>8. StepInv'
  BY <1>7 DEF StepInv
<1>9. QED
  BY <1>6, <1>8 DEF Inv, AirInv

\* A table that grows by one tuple within a bound.
Grown(c, p, x, y, b) ==
  /\ x + y <= b /\ x + y <= b + 1 /\ x + y <= b + 2 /\ y <= b /\ y <= b + 2
  /\ x \in Nat /\ y \in Nat /\ c <= x /\ p <= y /\ (c # 0 => x # 0) /\ (p # 0 => y # 0)

LEMMA GrownByOne ==
  ASSUME NEW c \in Nat, NEW p \in Nat, NEW b \in Nat, c + p < b, NEW x, NEW y,
         (x = c + 1 /\ y = p) \/ (x = c /\ y = p + 1)
  PROVE  Grown(c, p, x, y, b)
BY DEF Grown

LEMMA ProcessSRHelloOfOtherStep ==
  ASSUME Inv, NEW e \in Ends, NEW o \in Others, ProcessSRHelloOfOther(e, o)
  PROVE  Inv'
<1> USE DEF ProcessSRHelloOfOther
<1>1. /\ DataInv /\ LC \in Nat /\ LP \in Nat /\ MaxTuples \in Nat /\ LC + LP < MaxTuples
      /\ e = Child => LC # 0
      /\ e = Parent => step # "start"
  <2>1. e = Child => LC # 0
    <3>1. table[Child] \in Seq(Canonical)
      BY EndsTwo, TableFacts DEF Inv
    <3>2. QED
      BY <3>1, EndsTwo DEF LC
  <2>2. QED
    BY <2>1, EndsTwo, TableFacts DEF Inv, LC, LP
<1>2. Heard(e)
  <2>1. o \in Addresses /\ o # e
    BY NodesAssumption DEF Addresses
  <2>2. QED
    BY <1>1, <2>1, BallotOf, HelloStored DEF ReadDataFromFile
<1>3. DataInv'
  BY <1>1, <1>2 DEF DataInv, Heard
<1>4. /\ Grown(LC, LP, LC', LP', MaxTuples)
      /\ e = Parent => LC' = LC
      /\ e = Child => LP' = LP
  <2>1. \/ e = Child /\ LC' = LC + 1 /\ LP' = LP
        \/ e = Parent /\ LC' = LC /\ LP' = LP + 1
    BY <1>2, EndsTwo DEF Heard, LC, LP
  <2>2. Grown(LC, LP, LC', LP', MaxTuples)
    <3> HIDE DEF ProcessSRHelloOfOther
    <3>1. PICK c \in Nat, p \in Nat, b \in Nat : c = LC /\ p = LP /\ b = MaxTuples
      BY <1>1
    <3>2. PICK x, y : x = LC' /\ y = LP'
      OBVIOUS
    <3>3. c + p < b
      BY <1>1, <3>1
    <3>4. (x = c + 1 /\ y = p) \/ (x = c /\ y = p + 1)
      <4>1. CASE e = Child
        BY <2>1, <3>1, <3>2, <4>1, EndsTwo
      <4>2. CASE e = Parent
        BY <2>1, <3>1, <3>2, <4>2, EndsTwo
      <4>3. QED
        BY <4>1, <4>2, EndsTwo
    <3>5. Grown(c, p, x, y, b)
      BY <3>3, <3>4, GrownByOne
    <3>6. QED
      BY <3>1, <3>2, <3>5
  <2>3. QED
    BY <2>1, <2>2, EndsTwo
<1>5. \A x \in Ends : /\ Elements(table[x]) \subseteq Elements(table'[x])
                      /\ Len(table[x]) <= Len(table'[x])
  <2>1. \A x \in Ends : Elements(table[x]) \subseteq Elements(table'[x])
    BY <1>2 DEF Heard
  <2>2. \A x \in Ends : Len(table[x]) <= Len(table'[x])
    <3>1. LC <= LC' /\ LP <= LP'
      BY <1>4 DEF Grown
    <3>2. QED
      BY <3>1, EndsTwo DEF LC, LP
  <2>3. QED
    BY <2>1, <2>2
<1>6. \A x \in Ends : Reached(x) => Reached(x)'
  <2>1. \A x \in Ends : Peer(x) \in Ends
    BY EndsTwo
  <2>2. QED
    BY <1>5, <2>1 DEF Reached, Covers
<1>7. StaticKept => StaticKept'
  BY DEF StaticKept
<1>8. \A to, m, r : UnderWay(to, m, r) => UnderWay(to, m, r)'
  BY DEF UnderWay
<1>u. UNCHANGED <<mode, step, stored, air, shown, tried>>
  OBVIOUS
<1> HIDE DEF ProcessSRHelloOfOther
<1> USE <1>u
<1>9. StepInv'
  <2>1. StepInv
    BY DEF Inv
  <2>2. step = "start" => LC = 0
    BY <2>1 DEF StepInv
  <2>3. step # "start"
    BY <1>1, <2>2, EndsTwo
  <2>4. step = "up" => LC' # 0 /\ LP' # 0 /\ LC' + LP' <= MaxTuples + 2
    <3>1. step = "up" => LC # 0 /\ LP # 0
      BY <2>1 DEF StepInv
    <3>2. (LC # 0 => LC' # 0) /\ (LP # 0 => LP' # 0) /\ LC' + LP' <= MaxTuples + 2
      BY <1>4 DEF Grown
    <3>3. QED
      BY <3>1, <3>2
  <2>5. step = "down" => LP' # 0 /\ LP' <= MaxTuples + 2 /\ StaticKept'
    <3>1. step = "down" => LP # 0 /\ StaticKept'
      BY <1>7, <2>1 DEF StepInv
    <3>2. (LP # 0 => LP' # 0) /\ LP' <= MaxTuples + 2
      BY <1>4 DEF Grown
    <3>3. QED
      BY <3>1, <3>2
  <2>6. step \in {"down", "done"} => Reached(Child)'
    BY <1>6, <2>1, EndsTwo DEF StepInv
  <2>7. step = "done" => Reached(Parent)' /\ air' = <<>>
    BY <1>6, <2>1, EndsTwo DEF StepInv
  <2>8. (step = "hello" => air' # <<>>) /\ step' = step
    BY <2>1 DEF StepInv
  <2>9. QED
    BY <2>3, <2>4, <2>5, <2>6, <2>7, <2>8 DEF StepInv
<1>10. ASSUME NEW x \in Ends, MissingUnderWay(x) PROVE MissingUnderWay(x)'
  <2>1. PICK ps \in Seq(BallotSet), ts \in Seq(Canonical) :
          /\ Len(ts) <= Len(table[x])
          /\ Elements(ts) \cap shown[Peer(x)] = {}
          /\ Covers(stored[x], tried[x] \ Elements(ts))
          /\ UnderWay(Peer(x), MissingOf(x, ps, ts), MissingOf(x, ps, ts))
    BY <1>10 DEF MissingUnderWay
  <2>2. Len(ts) <= Len(table'[x])
    <3>1. Len(ts) \in Nat /\ Len(table[x]) \in Nat /\ Len(table'[x]) \in Nat
      BY <1>3, <1>1, TableFacts DEF DataInv
    <3>2. QED
      BY <1>5, <2>1, <3>1
  <2>3. UnderWay(Peer(x), MissingOf(x, ps, ts), MissingOf(x, ps, ts))'
    BY <1>8, <2>1
  <2>4. Elements(ts) \cap shown'[Peer(x)] = {} /\ Covers(stored'[x], tried'[x] \ Elements(ts))
    BY <2>1
  <2>5. QED
    BY <2>2, <2>3, <2>4 DEF MissingUnderWay
<1>11. AirInv'
  <2>1. CASE air = <<>>
    BY <2>1 DEF AirInv
  <2>2. CASE HelloUnderWay
    <3>1. LC' = 0 /\ LP' <= MaxTuples
      <4>1. LC = 0
        BY <2>2 DEF HelloUnderWay
      <4>2. LC' = LC
        BY <1>1, <1>4, <4>1, EndsTwo
      <4>3. LP' <= MaxTuples
        BY <1>4 DEF Grown
      <4>4. QED
        BY <4>1, <4>2, <4>3
    <3>2. HelloUnderWay'
      BY <1>8, <2>2, <3>1 DEF HelloUnderWay
    <3>3. QED
      BY <3>2 DEF AirInv
  <2>3. CASE ChildHelloUnderWay
    <3>1. LC' # 0 /\ LC' + LP' <= MaxTuples + 1
      <4>1. LC # 0
        BY <2>3 DEF ChildHelloUnderWay
      <4>2. QED
        BY <1>4, <4>1 DEF Grown
    <3>2. ChildHelloUnderWay'
      BY <1>8, <2>3, <3>1 DEF ChildHelloUnderWay
    <3>3. QED
      BY <3>2 DEF AirInv
  <2>4. CASE AskUnderWay
    <3>1. PICK d \in Nat, f \in Seq(BOOLEAN) :
            /\ d # 0 /\ d <= LC /\ Len(f) # 0 /\ Fits16(Len(f))
            /\ ~mode.dynamic => Covers(f, shown[Child])
            /\ UnderWay(Parent, Ask(d, f), Ask(d, f))
      BY <2>4 DEF AskUnderWay
    <3>2. d <= LC' /\ UnderWay(Parent, Ask(d, f), Ask(d, f))'
      <4>1. LC <= LC' /\ LC' \in Nat
        BY <1>4 DEF Grown
      <4>2. \A x, y, z \in Nat : x <= y /\ y <= z => x <= z
        OBVIOUS
      <4>3. d <= LC'
        BY <1>1, <3>1, <4>1, <4>2
      <4>4. QED
        BY <1>8, <3>1, <4>3
    <3>3. AskUnderWay'
      BY <2>4, <3>1, <3>2 DEF AskUnderWay
    <3>4. QED
      BY <3>3 DEF AirInv
  <2>5. CASE FilterUnderWay
    <3>1. FilterUnderWay'
      BY <1>7, <1>8, <2>5 DEF FilterUnderWay
    <3>2. QED
      BY <3>1 DEF AirInv
  <2>6. CASE MissingUp
    BY <1>7, <1>10, <2>6, EndsTwo DEF AirInv, MissingUp
  <2>7. CASE AskDownUnderWay
    <3>1. AskDownUnderWay'
      BY <1>8, <2>7 DEF AskDownUnderWay
    <3>2. QED
      BY <3>1 DEF AirInv
  <2>8. CASE FilterDownUnderWay
    <3>1. FilterDownUnderWay'
      BY <1>8, <2>8 DEF FilterDownUnderWay
    <3>2. QED
      BY <3>1 DEF AirInv
  <2>9. CASE MissingDown
    BY <1>10, <2>9, EndsTwo DEF AirInv, MissingDown
  <2>10. CASE AckUnderWay
    <3>1. AckUnderWay'
      BY <1>6, <1>8, <2>10, EndsTwo DEF AckUnderWay
    <3>2. QED
      BY <3>1 DEF AirInv
  <2>11. QED
    BY <2>1, <2>2, <2>3, <2>4, <2>5, <2>6, <2>7, <2>8, <2>9, <2>10 DEF Inv, AirInv
<1>12. QED
  BY <1>3, <1>9, <1>11 DEF Inv

\* A filter of fixed size.
LEMMA StaticMade ==
  ASSUME NEW tuples \in Seq(Canonical)
  PROVE  /\ IsFilter(CreateBloomFilter(tuples)) /\ Fits16(Len(CreateBloomFilter(tuples)))
         /\ Covers(CreateBloomFilter(tuples), Elements(tuples))
<1>1. StaticBits \in Nat /\ StaticBits % Word # 0 /\ Fits16(StaticBits)
  BY FiltersAssumption, WordAssumption DEF Fits16
<1>2. PICK f : f = CreateBloomFilter(tuples)
  OBVIOUS
<1>3. IsFilter(f) /\ Len(f) = StaticBits /\ Covers(f, Elements(tuples))
  BY <1>1, <1>2, FilterMade DEF CreateBloomFilter
<1>4. QED
  BY <1>1, <1>2, <1>3

LEMMA AskToParentBFStep ==
  ASSUME Inv, AskToParentBF
  PROVE  Inv'
<1> USE DEF AskToParentBF
<1>1. /\ DataInv /\ LC \in Nat /\ LP \in Nat /\ MaxTuples \in Nat
      /\ LC # 0 /\ LP # 0 /\ LC + LP <= MaxTuples + 2
      /\ table[Child] \in Seq(Canonical) /\ Elements(table[Child]) \subseteq Canonical
  BY EndsTwo, TableFacts DEF Inv, StepInv
<1>2. PICK f : f = IF mode.dynamic THEN <<TRUE>> ELSE CreateBloomFilter(table[Child])
  OBVIOUS
<1>3. /\ f \in Seq(BOOLEAN) /\ Len(f) # 0 /\ Fits16(Len(f))
      /\ ~mode.dynamic => Covers(f, Elements(table[Child]))
  <2>1. CASE mode.dynamic
    <3>1. f = <<TRUE>> /\ f \in Seq(BOOLEAN) /\ Len(f) = 1
      <4>1. <<TRUE>> \in Seq(BOOLEAN) /\ Len(<<TRUE>>) = 1
        OBVIOUS
      <4>2. QED
        BY <1>2, <2>1, <4>1
    <3>2. Fits16(1)
      BY <1>1, Bounded
    <3>3. QED
      BY <2>1, <3>1, <3>2
  <2>2. CASE ~mode.dynamic
    <3>1. IsFilter(f) /\ Fits16(Len(f)) /\ Covers(f, Elements(table[Child]))
      BY <1>1, <1>2, <2>2, StaticMade
    <3>2. QED
      BY <3>1, FilterReadBack DEF IsFilter
  <2>3. QED
    BY <2>1, <2>2
<1>4. Fits16(LC)
  BY <1>1, Bounded
<1>5. Arrives(Ask(LC, f), Ask(LC, f))
  BY <1>1, <1>3, <1>4, AskSent
<1>6. UnderWay(Parent, Ask(LC, f), Ask(LC, f))'
  <2>1. air' = <<[to |-> Parent, sent |-> Ask(LC, f), packet |-> Serialize(Ask(LC, f))]>>
    BY <1>2 DEF Send, Ask, LC
  <2>2. PICK d : d = LC
    OBVIOUS
  <2>3. UnderWay(Parent, Ask(d, f), Ask(d, f))'
    BY <1>5, <2>1, <2>2 DEF UnderWay
  <2>4. LC' = LC
    BY DEF LC
  <2>5. QED
    BY <2>2, <2>3, <2>4
<1>7. LC' = LC /\ LP' = LP
  BY DEF LC, LP
<1>8. ~mode.dynamic => shown'[Child] = Elements(table[Child])
  BY <1>1, EndsTwo DEF DataInv
<1>9. DataInv'
  BY <1>1 DEF DataInv
<1>10. AskUnderWay'
  BY <1>1, <1>3, <1>6, <1>7, <1>8 DEF AskUnderWay
<1>11. StepInv'
  BY <1>1, <1>7 DEF StepInv
<1>12. QED
  BY <1>9, <1>10, <1>11 DEF Inv, AirInv

\* A filter for both tables, or one of fixed size, made by the parent.
LEMMA ParentMakes ==
  ASSUME DataInv, NEW d \in Nat, d # 0, d + LP <= MaxTuples + 2, NEW filter,
         filter = IF mode.dynamic THEN CreateDynamicBloomFilter(table[Parent], d, FALSE)
                                  ELSE CreateBloomFilter(table[Parent])
  PROVE  IsFilter(filter) /\ Covers(filter, Elements(table[Parent]))
<1>1. table[Parent] \in Seq(Canonical) /\ LP \in Nat /\ MaxTuples \in Nat
  BY EndsTwo, TableFacts
<1>2. CASE ~mode.dynamic
  BY <1>1, <1>2, StaticMade
<1>3. CASE mode.dynamic
  <2>1. PICK n \in 1..(MaxTuples + 2) : n = d + LP
    BY <1>1
  <2>2. BitsPer(n) \in Nat /\ BitsPer(n) % Word # 0
    BY FiltersAssumption
  <2>3. filter = FilterOf(table[Parent], BitsPer(n))
    BY <1>3, <2>1 DEF CreateDynamicBloomFilter, LP
  <2>4. QED
    BY <1>1, <2>2, <2>3, FilterMade
<1>4. QED
  BY <1>2, <1>3

LEMMA SendToChildBFStep ==
  ASSUME Inv, SendToChildBF
  PROVE  Inv'
<1> USE DEF SendToChildBF
<1>1. AskUnderWay
  BY Kinds, EndsTwo DEF Inv, RecvPacket
<1>2. PICK d \in Nat, f \in Seq(BOOLEAN) :
        /\ d # 0 /\ d <= LC /\ Len(f) # 0 /\ Fits16(Len(f))
        /\ ~mode.dynamic => Covers(f, shown[Child])
        /\ UnderWay(Parent, Ask(d, f), Ask(d, f))
  BY <1>1 DEF AskUnderWay
<1>3. Read.origin = Child /\ Read.dim = d /\ Read.filter = f
  BY <1>2, UnderWaySeen DEF Ask
<1>4. /\ DataInv /\ LC \in Nat /\ LP \in Nat /\ MaxTuples \in Nat /\ step = "up"
      /\ LC # 0 /\ LP # 0 /\ LC + LP <= MaxTuples + 2
      /\ Elements(table[Parent]) \subseteq Canonical /\ votes[Parent] \in Ledgers
  BY <1>1, EndsTwo, TableFacts DEF Inv, StepInv, AskUnderWay, DataInv
<1>5. PICK filter : filter = IF mode.dynamic THEN CreateDynamicBloomFilter(table[Parent], d, FALSE)
                                             ELSE CreateBloomFilter(table[Parent])
  OBVIOUS
<1>6. IsFilter(filter) /\ Covers(filter, Elements(table[Parent]))
  <2>1. d + LP <= MaxTuples + 2
    BY <1>2, <1>4
  <2>2. QED
    BY <1>2, <1>4, <1>5, <2>1, ParentMakes
<1>7. PICK list \in Seq(Named) : list = GetListVotesIP(votes[Parent]) /\ Fits16(Len(list))
  BY <1>4, MissingVotes
<1>8. Arrives(FilterFor(filter, list), FilterFor(ReadFilter(filter), list))
  BY <1>6, <1>7, FilterSent
<1>9. UnderWay(Child, FilterFor(filter, list), FilterFor(ReadFilter(filter), list))'
  <2>1. air' = <<[to |-> Child, sent |-> FilterFor(filter, list),
                  packet |-> Serialize(FilterFor(filter, list))]>>
    BY <1>3, <1>5, <1>7 DEF Send, FilterFor
  <2>2. QED
    BY <1>8, <2>1 DEF UnderWay
<1>10. /\ stored' = [stored EXCEPT ![Parent] = f]
       /\ shown' = [shown EXCEPT ![Parent] = IF Fits16(Len(filter)) THEN Elements(table[Parent]) ELSE {}]
  <2>1. stored' = [stored EXCEPT ![Parent] = f]
    BY <1>3
  <2>2. shown' = [shown EXCEPT ![Parent] = IF Fits16(Len(filter)) THEN Elements(table[Parent]) ELSE {}]
    BY <1>3, <1>5
  <2>3. QED
    BY <2>1, <2>2
<1>11. DataInv'
  <2>1. stored' \in [Ends -> Seq(BOOLEAN)]
    BY <1>4, <1>10 DEF DataInv
  <2>2. shown' \in [Ends -> SUBSET Canonical]
    <3>1. (IF Fits16(Len(filter)) THEN Elements(table[Parent]) ELSE {}) \in SUBSET Canonical
      BY <1>4
    <3>2. QED
      BY <1>4, <1>10, <3>1 DEF DataInv
  <2>3. QED
    BY <1>4, <2>1, <2>2 DEF DataInv
<1>12. StaticKept'
  <2>1. stored'[Parent] = f /\ shown'[Child] = shown[Child]
    BY <1>4, <1>10, EndsTwo DEF DataInv
  <2>2. QED
    BY <1>2, <2>1 DEF StaticKept
<1>13. FilterUnderWay'
  <2>1. IF Fits16(Len(filter)) THEN Covers(filter, shown'[Parent]) ELSE shown'[Parent] = {}
    BY <1>4, <1>6, <1>10, EndsTwo DEF DataInv
  <2>2. filter \in Seq(BOOLEAN)
    BY <1>6 DEF IsFilter
  <2>3. QED
    BY <1>4, <1>6, <1>9, <1>12, <2>1, <2>2 DEF FilterUnderWay
<1>14. LC' = LC /\ LP' = LP
  BY DEF LC, LP
<1>15. StepInv'
  BY <1>4, <1>14 DEF StepInv
<1>16. QED
  BY <1>11, <1>13, <1>15 DEF Inv, AirInv

\* e compares with a filter g that the peer made of the tuples it has shown, or that was cut.
LEMMA MissingMade ==
  ASSUME DataInv, NEW e \in Ends, NEW g \in Seq(BOOLEAN), Len(g) # 0,
         Covers(g, shown[Peer(e)]) \/ shown[Peer(e)] = {}, Len(table[e]) <= MaxTuples + 2,
         NEW ps \in Seq(BallotSet), Fits16(Len(ps)),
         stored'[e] = g, shown' = shown,
         SendMissing(e, IF e = Child THEN "SEND_MISSING_C2P" ELSE "SEND_MISSING_P2C", g, ps),
         table' = table
  PROVE  MissingUnderWay(e)' /\ tried' \in [Ends -> SUBSET Canonical]
<1>1. /\ table[e] \in Seq(Canonical) /\ Len(table[e]) \in Nat /\ MaxTuples \in Nat
      /\ Elements(table[e]) \subseteq Canonical /\ tried \in [Ends -> SUBSET Canonical]
  BY TableFacts DEF DataInv
<1>2. PICK ts : ts = ProcessSetReconciliation(table[e], g)
  OBVIOUS
<1>3. Lacking(ts, table[e], g)
  BY <1>1, <1>2, Compared
<1>4. /\ ts \in Seq(Canonical) /\ Len(ts) <= Len(table[e]) /\ Len(ts) \in Nat
      /\ Covers(g, Elements(table[e]) \ Elements(ts)) /\ \A t \in Elements(ts) : ~Marked(g, t)
  BY <1>3 DEF Lacking
<1>5. Elements(ts) \cap shown[Peer(e)] = {}
  BY <1>4 DEF Covers
<1>6. Fits16(Len(ts))
  <2>1. Len(ts) <= MaxTuples + 2
    BY <1>1, <1>4
  <2>2. QED
    BY <1>4, <2>1, Bounded
<1>7. Arrives(MissingOf(e, ps, ts), MissingOf(e, ps, ts))
  BY <1>4, <1>6, MissingSent
<1>8. air' = <<[to |-> Peer(e), sent |-> MissingOf(e, ps, ts), packet |-> Serialize(MissingOf(e, ps, ts))]>>
  BY <1>2 DEF SendMissing, Send, MissingOf
<1>9. UnderWay(Peer(e), MissingOf(e, ps, ts), MissingOf(e, ps, ts))'
  BY <1>7, <1>8 DEF UnderWay
<1>10. tried' = [tried EXCEPT ![e] = Elements(table[e])]
  BY DEF SendMissing
<1>11. tried'[e] = Elements(table[e])
  BY <1>1, <1>10
<1>12. MissingUnderWay(e)'
  BY <1>4, <1>5, <1>9, <1>11 DEF MissingUnderWay
<1>13. QED
  BY <1>1, <1>10, <1>12

LEMMA ReceivedFromParentBFStep ==
  ASSUME Inv, ReceivedFromParentBF
  PROVE  Inv'
<1> USE DEF ReceivedFromParentBF
<1>1. FilterUnderWay
  BY Kinds, EndsTwo DEF Inv, RecvPacket
<1>2. PICK f \in Seq(BOOLEAN), list \in Seq(Named) :
        /\ IsFilter(f)
        /\ IF Fits16(Len(f)) THEN Covers(f, shown[Parent]) ELSE shown[Parent] = {}
        /\ UnderWay(Child, FilterFor(f, list), FilterFor(ReadFilter(f), list))
  BY <1>1 DEF FilterUnderWay
<1>3. PICK g : g = ReadFilter(f)
  OBVIOUS
<1>4. Read.filter = g /\ Read.list = list
  BY <1>2, <1>3, UnderWaySeen DEF FilterFor
<1>5. /\ g \in Seq(BOOLEAN) /\ Len(g) # 0
      /\ Covers(g, shown[Parent]) \/ shown[Parent] = {}
  BY <1>2, <1>3, FilterReadBack
<1>6. /\ DataInv /\ LC \in Nat /\ LP \in Nat /\ MaxTuples \in Nat /\ step = "up" /\ StaticKept
      /\ LC # 0 /\ LP # 0 /\ LC + LP <= MaxTuples + 2
      /\ Len(table[Child]) <= MaxTuples + 2 /\ votes[Child] \in Ledgers
  BY <1>1, EndsTwo, TableFacts DEF Inv, StepInv, FilterUnderWay, DataInv, LC
<1>7. PICK ps \in Seq(BallotSet) : ps = GetMissingVotePackets(votes[Child], list) /\ Fits16(Len(ps))
  BY <1>6, MissingVotes
<1>8. stored' = [stored EXCEPT ![Child] = g]
  BY <1>4
<1>9. stored'[Child] = g /\ stored'[Parent] = stored[Parent]
  BY <1>6, <1>8, EndsTwo DEF DataInv
<1>10. SendMissing(Child, "SEND_MISSING_C2P", g, ps)
  BY <1>4, <1>7
<1>11. MissingUnderWay(Child)' /\ tried' \in [Ends -> SUBSET Canonical]
  BY <1>5, <1>6, <1>7, <1>9, <1>10, EndsTwo, MissingMade
<1>12. DataInv'
  BY <1>5, <1>6, <1>8, <1>11 DEF DataInv
<1>13. StaticKept'
  BY <1>6, <1>9 DEF StaticKept
<1>14. MissingUp'
  BY <1>6, <1>11, <1>13 DEF MissingUp
<1>15. LC' = LC /\ LP' = LP
  BY DEF LC, LP
<1>16. StepInv'
  BY <1>6, <1>15 DEF StepInv
<1>17. QED
  BY <1>12, <1>14, <1>16 DEF Inv, AirInv

\* What the storing of the missing tuples that e has sent leaves.
Taken(e) ==
  /\ table' \in [Ends -> Seq(Canonical)] /\ votes' \in [Ends -> Ledgers]
  /\ \E k \in Nat : k <= Len(table[e]) /\ Len(table'[Peer(e)]) = Len(table[Peer(e)]) + k
  /\ table'[e] = table[e]
  /\ Covers(stored[e], tried[e] \ Elements(table'[Peer(e)]))

\* The peer of e stores what e has sent.
LEMMA MissingStored ==
  ASSUME DataInv, NEW e \in Ends, MissingUnderWay(e), StoreMissing(Peer(e))
  PROVE  Taken(e)
<1>1. PICK p \in Ends : p = Peer(e) /\ p # e
  BY EndsTwo
<1>2. PICK ps \in Seq(BallotSet), ts \in Seq(Canonical) :
        /\ Len(ts) <= Len(table[e])
        /\ Covers(stored[e], tried[e] \ Elements(ts))
        /\ UnderWay(p, MissingOf(e, ps, ts), MissingOf(e, ps, ts))
  BY <1>1 DEF MissingUnderWay
<1>3. Read.tuples = ts /\ Read.packets = ps
  BY <1>2, UnderWaySeen DEF MissingOf
<1>4. /\ table \in [Ends -> Seq(Canonical)] /\ votes \in [Ends -> Ledgers]
      /\ table[p] \in Seq(Canonical) /\ votes[p] \in Ledgers
  BY DEF DataInv
<1>5. PICK t : t = AddMissing(table[p], ts)
  OBVIOUS
<1>6. PICK v : v = AddReceivedMissingVotePackets(votes[p], ps)
  OBVIOUS
<1>7. /\ t \in Seq(Canonical) /\ Elements(t) = Elements(table[p]) \cup Elements(ts)
      /\ Len(t) = Len(table[p]) + Len(ts)
  BY <1>4, <1>5, MissingAppended
<1>8. v \in Ledgers
  BY <1>4, <1>6, ReceivedLedger
<1>9. table' = [table EXCEPT ![p] = t] /\ votes' = [votes EXCEPT ![p] = v]
  BY <1>1, <1>3, <1>5, <1>6 DEF StoreMissing
<1>10. table'[p] = t /\ table'[e] = table[e] /\ Len(ts) \in Nat
  BY <1>1, <1>4, <1>9
<1>11. Covers(stored[e], tried[e] \ Elements(t))
  BY <1>2, <1>7 DEF Covers
<1>12. table' \in [Ends -> Seq(Canonical)] /\ votes' \in [Ends -> Ledgers]
  BY <1>4, <1>7, <1>8, <1>9
<1>13. \E k \in Nat : k <= Len(table[e]) /\ Len(table'[p]) = Len(table[p]) + k
  BY <1>2, <1>7, <1>10
<1>14. QED
  BY <1>1, <1>10, <1>11, <1>12, <1>13 DEF Taken

\* As many tuples more as the peer has.
LEMMA GrownBySome ==
  ASSUME NEW c \in Nat, NEW p \in Nat, NEW b \in Nat, c + p <= b + 2, p # 0,
         NEW k \in Nat, k <= c, NEW x, x = p + k
  PROVE  x # 0 /\ x <= b + 2
OBVIOUS

LEMMA ProcessReceivedMissingStep ==
  ASSUME Inv, ProcessReceivedMissing
  PROVE  Inv'
<1>1. /\ air # <<>> /\ air[1].to = Parent /\ Read.type = "SEND_MISSING_C2P"
      /\ StoreMissing(Parent) /\ air' = <<>> /\ step' = "down"
      /\ mode' = mode /\ stored' = stored /\ shown' = shown /\ tried' = tried
  BY DEF ProcessReceivedMissing, RecvPacket
<1>2. MissingUp
  BY <1>1, Kinds, EndsTwo DEF Inv
<1>3. /\ DataInv /\ LC \in Nat /\ LP \in Nat /\ MaxTuples \in Nat
      /\ LP # 0 /\ LC + LP <= MaxTuples + 2 /\ StaticKept /\ MissingUnderWay(Child)
  BY <1>2, TableFacts DEF Inv, StepInv, MissingUp
<1>4. Taken(Child)
  BY <1>1, <1>3, EndsTwo, MissingStored
<1>5. DataInv'
  BY <1>1, <1>3, <1>4 DEF DataInv, Taken
<1>6. Reached(Child)'
  BY <1>1, <1>4, EndsTwo DEF Reached, Taken
<1>7. LP' # 0 /\ LP' <= MaxTuples + 2
  <2>1. PICK k \in Nat : k <= LC /\ LP' = LP + k
    BY <1>4, EndsTwo DEF Taken, LC, LP
  <2>2. PICK c \in Nat, p \in Nat, b \in Nat : c = LC /\ p = LP /\ b = MaxTuples
    BY <1>3
  <2>3. PICK x : x = LP'
    OBVIOUS
  <2>4. c + p <= b + 2 /\ p # 0 /\ k <= c /\ x = p + k
    BY <1>3, <2>1, <2>2, <2>3
  <2>5. x # 0 /\ x <= b + 2
    BY <2>4, GrownBySome
  <2>6. QED
    BY <2>2, <2>3, <2>5
<1>8. StaticKept'
  BY <1>1, <1>3 DEF StaticKept
<1>9. StepInv'
  BY <1>1, <1>6, <1>7, <1>8 DEF StepInv
<1>10. QED
  BY <1>1, <1>5, <1>9 DEF Inv, AirInv

LEMMA AskBF2CStep ==
  ASSUME Inv, AskBF2C
  PROVE  Inv'
<1>1. /\ step = "down" /\ step' = step /\ mode' = mode /\ mode.dynamic
      /\ Fits16(BitsPer(LP))
      /\ table' = table /\ votes' = votes /\ stored' = stored /\ shown' = shown /\ tried' = tried
      /\ air' = <<[to |-> Child, sent |-> AskDown(LP), packet |-> Serialize(AskDown(LP))]>>
  BY DEF AskBF2C, Send, AskDown, LP
<1>2. DataInv /\ LP \in Nat /\ MaxTuples \in Nat /\ LP # 0 /\ LP <= MaxTuples + 2 /\ Reached(Child)
  BY <1>1, TableFacts DEF Inv, StepInv
<1>3. PICK d \in 1..(MaxTuples + 2) : d = LP
  BY <1>2
<1>4. Arrives(AskDown(d), AskDown(d))
  <2>1. d \in Nat /\ Fits16(d)
    BY <1>2, <1>3, Bounded
  <2>2. QED
    BY <2>1, AskDownArrives DEF AskDown
<1>5. UnderWay(Child, AskDown(d), AskDown(d))'
  BY <1>1, <1>3, <1>4 DEF UnderWay
<1>6. AskDownUnderWay'
  BY <1>1, <1>3, <1>5 DEF AskDownUnderWay
<1>7. DataInv'
  BY <1>1, <1>2 DEF DataInv
<1>8. LP' = LP /\ Reached(Child)' /\ StaticKept'
  BY <1>1, <1>2 DEF LP, Reached, StaticKept
<1>9. StepInv'
  BY <1>1, <1>2, <1>8 DEF StepInv
<1>10. QED
  BY <1>6, <1>7, <1>9 DEF Inv, AirInv

\* The parent compares with a filter g, and what the child is known to have reached stays.
LEMMA ParentCompares ==
  ASSUME Inv, step = "down", step' = step, mode' = mode, table' = table, votes' = votes,
         shown' = shown, NEW g \in Seq(BOOLEAN), Len(g) # 0, Covers(g, shown[Child]),
         stored' = [stored EXCEPT ![Parent] = g], NEW ps \in Seq(BallotSet), Fits16(Len(ps)),
         SendMissing(Parent, "SEND_MISSING_P2C", g, ps)
  PROVE  Inv'
<1>1. DataInv /\ LP # 0 /\ LP <= MaxTuples + 2 /\ Reached(Child) /\ Len(table[Parent]) <= MaxTuples + 2
  BY DEF Inv, StepInv, LP
<1>2. stored'[Parent] = g /\ stored'[Child] = stored[Child] /\ stored' \in [Ends -> Seq(BOOLEAN)]
  BY <1>1, EndsTwo DEF DataInv
<1>3. MissingUnderWay(Parent)' /\ tried' \in [Ends -> SUBSET Canonical]
  BY <1>1, <1>2, EndsTwo, MissingMade
<1>4. tried'[Child] = tried[Child]
  BY <1>1, EndsTwo DEF SendMissing, DataInv
<1>5. DataInv'
  BY <1>1, <1>2, <1>3 DEF DataInv
<1>6. LP' = LP /\ Reached(Child)' /\ StaticKept'
  BY <1>1, <1>2, <1>4, EndsTwo DEF LP, Reached, StaticKept
<1>7. StepInv'
  BY <1>1, <1>6 DEF StepInv
<1>8. MissingDown'
  BY <1>3 DEF MissingDown
<1>9. QED
  BY <1>5, <1>7, <1>8 DEF Inv, AirInv

LEMMA InverseSetRecStaticStep ==
  ASSUME Inv, InverseSetRecStatic
  PROVE  Inv'
<1>1. /\ step = "down" /\ step' = step /\ mode' = mode /\ ~mode.dynamic
      /\ table' = table /\ votes' = votes /\ stored' = stored /\ shown' = shown
      /\ SendMissing(Parent, "SEND_MISSING_P2C", stored[Parent], <<>>)
  BY DEF InverseSetRecStatic
<1>2. DataInv /\ StaticKept
  BY <1>1 DEF Inv, StepInv
<1>3. PICK g \in Seq(BOOLEAN) : g = stored[Parent] /\ Len(g) # 0 /\ Covers(g, shown[Child])
  BY <1>1, <1>2, EndsTwo DEF StaticKept, DataInv
<1>4. stored' = [stored EXCEPT ![Parent] = g]
  BY <1>1, <1>2, <1>3 DEF DataInv
<1>5. PICK ps \in Seq(BallotSet) : ps = <<>> /\ Fits16(Len(ps))
  <2>1. <<>> \in Seq(BallotSet) /\ Len(<<>>) = 0 /\ Fits16(0)
    BY WordAssumption DEF Fits16
  <2>2. QED
    BY <2>1
<1>6. SendMissing(Parent, "SEND_MISSING_P2C", g, ps)
  BY <1>1, <1>3, <1>5
<1>7. QED
  BY <1>1, <1>3, <1>4, <1>5, <1>6, ParentCompares

LEMMA SendBFC2PStep ==
  ASSUME Inv, SendBFC2P
  PROVE  Inv'
<1>1. /\ air # <<>> /\ air[1].to = Child /\ Read.type = "ASK_BF_P2C"
      /\ Send(Read.origin,
              [type |-> "SEND_BF_C2P", origin |-> Child, list |-> GetListVotesIP(votes[Child]),
               filter |-> CreateDynamicBloomFilter(table[Child], Read.dim, TRUE)])
      /\ shown' = [shown EXCEPT ![Child] = Elements(table[Child])]
      /\ step' = step /\ mode' = mode /\ table' = table /\ votes' = votes
      /\ stored' = stored /\ tried' = tried
  BY DEF SendBFC2P, RecvPacket
<1>2. AskDownUnderWay
  BY <1>1, Kinds, EndsTwo DEF Inv
<1>3. PICK d \in 1..(MaxTuples + 2) : Fits16(BitsPer(d)) /\ UnderWay(Child, AskDown(d), AskDown(d))
  BY <1>2 DEF AskDownUnderWay
<1>4. Read.origin = Parent /\ Read.dim = d
  BY <1>3, UnderWaySeen DEF AskDown
<1>5. /\ DataInv /\ step = "down" /\ mode.dynamic /\ LP # 0 /\ LP <= MaxTuples + 2 /\ Reached(Child)
      /\ table[Child] \in Seq(Canonical) /\ Elements(table[Child]) \in SUBSET Canonical
      /\ votes[Child] \in Ledgers
  BY <1>2, EndsTwo, TableFacts DEF Inv, StepInv, AskDownUnderWay, DataInv
<1>6. PICK f : f = FilterOf(table[Child], BitsPer(d))
  OBVIOUS
<1>7. IsFilter(f) /\ Fits16(Len(f)) /\ Covers(f, Elements(table[Child])) /\ f \in Seq(BOOLEAN)
  <2>1. BitsPer(d) \in Nat /\ BitsPer(d) % Word # 0
    BY FiltersAssumption
  <2>2. QED
    BY <1>3, <1>5, <1>6, <2>1, FilterMade DEF IsFilter
<1>8. f = CreateDynamicBloomFilter(table[Child], d, TRUE)
  <2>1. d + 0 = d
    BY <1>3, TableFacts, <1>5
  <2>2. QED
    BY <1>6, <2>1 DEF CreateDynamicBloomFilter
<1>9. PICK list \in Seq(Named) : list = GetListVotesIP(votes[Child]) /\ Fits16(Len(list))
  BY <1>5, MissingVotes
<1>10. Arrives(FilterDown(f, list), FilterDown(f, list))
  BY <1>7, <1>9, FilterDownSent
<1>11. UnderWay(Parent, FilterDown(f, list), FilterDown(f, list))'
  <2>1. air' = <<[to |-> Parent, sent |-> FilterDown(f, list), packet |-> Serialize(FilterDown(f, list))]>>
    BY <1>1, <1>4, <1>8, <1>9 DEF Send, FilterDown
  <2>2. QED
    BY <1>10, <2>1 DEF UnderWay
<1>12. shown' \in [Ends -> SUBSET Canonical] /\ shown'[Child] = Elements(table[Child])
  BY <1>1, <1>5, EndsTwo DEF DataInv
<1>13. FilterDownUnderWay'
  BY <1>1, <1>5, <1>7, <1>11, <1>12 DEF FilterDownUnderWay
<1>14. DataInv'
  BY <1>1, <1>5, <1>12 DEF DataInv
<1>15. LP' = LP /\ Reached(Child)' /\ StaticKept'
  BY <1>1, <1>5 DEF LP, Reached, StaticKept
<1>16. StepInv'
  BY <1>1, <1>5, <1>15 DEF StepInv
<1>17. QED
  BY <1>13, <1>14, <1>16 DEF Inv, AirInv

LEMMA ReceivedFromChildBFStep ==
  ASSUME Inv, ReceivedFromChildBF
  PROVE  Inv'
<1>1. /\ air # <<>> /\ air[1].to = Parent /\ Read.type = "SEND_BF_C2P"
      /\ stored' = [stored EXCEPT ![Parent] = Read.filter]
      /\ SendMissing(Parent, "SEND_MISSING_P2C", Read.filter,
                     GetMissingVotePackets(votes[Parent], Read.list))
      /\ mode' = mode /\ step' = step /\ table' = table /\ votes' = votes /\ shown' = shown
  BY DEF ReceivedFromChildBF, RecvPacket
<1>2. FilterDownUnderWay
  BY <1>1, Kinds, EndsTwo DEF Inv
<1>3. PICK f \in Seq(BOOLEAN), list \in Seq(Named) :
        /\ IsFilter(f) /\ Covers(f, shown[Child])
        /\ UnderWay(Parent, FilterDown(f, list), FilterDown(f, list))
  BY <1>2 DEF FilterDownUnderWay
<1>4. Read.filter = f /\ Read.list = list /\ Len(f) # 0
  BY <1>3, UnderWaySeen, FilterReadBack DEF FilterDown
<1>5. votes[Parent] \in Ledgers /\ step = "down"
  BY <1>2, EndsTwo DEF Inv, DataInv, FilterDownUnderWay
<1>6. PICK ps \in Seq(BallotSet) : ps = GetMissingVotePackets(votes[Parent], list) /\ Fits16(Len(ps))
  BY <1>5, MissingVotes
<1>7. SendMissing(Parent, "SEND_MISSING_P2C", f, ps) /\ stored' = [stored EXCEPT ![Parent] = f]
  BY <1>1, <1>4, <1>6
<1>8. QED
  BY <1>1, <1>3, <1>4, <1>5, <1>6, <1>7, ParentCompares

LEMMA ProcessReceivedMissingInverseStep ==
  ASSUME Inv, ProcessReceivedMissingInverse
  PROVE  Inv'
<1>1. /\ air # <<>> /\ air[1].to = Child /\ Read.type = "SEND_MISSING_P2C"
      /\ StoreMissing(Child)
      /\ air' = <<[to |-> Parent, sent |-> Ack, packet |-> Serialize(Ack)]>>
      /\ mode' = mode /\ step' = step /\ stored' = stored /\ shown' = shown /\ tried' = tried
  BY DEF ProcessReceivedMissingInverse, RecvPacket, Send, Ack
<1>2. MissingDown
  BY <1>1, Kinds, EndsTwo DEF Inv
<1>3. /\ DataInv /\ step = "down" /\ LP # 0 /\ LP <= MaxTuples + 2 /\ StaticKept /\ Reached(Child)
      /\ MissingUnderWay(Parent)
  BY <1>2 DEF Inv, StepInv, MissingDown
<1>4. Taken(Parent)
  BY <1>1, <1>3, EndsTwo, MissingStored
<1>5. DataInv'
  BY <1>1, <1>3, <1>4 DEF DataInv, Taken
<1>6. Reached(Parent)' /\ Reached(Child)'
  BY <1>1, <1>3, <1>4, EndsTwo DEF Reached, Taken
<1>7. LP' = LP /\ StaticKept'
  BY <1>1, <1>3, <1>4 DEF LP, StaticKept, Taken
<1>8. StepInv'
  BY <1>1, <1>3, <1>6, <1>7 DEF StepInv
<1>9. UnderWay(Parent, Ack, Ack)'
  <2>1. Arrives(Ack, Ack)
    BY AckArrives DEF Ack
  <2>2. QED
    BY <1>1, <2>1 DEF UnderWay
<1>10. AckUnderWay'
  BY <1>1, <1>3, <1>6, <1>9 DEF AckUnderWay
<1>11. QED
  BY <1>5, <1>8, <1>10 DEF Inv, AirInv

LEMMA ProcessInverseAckStep ==
  ASSUME Inv, ProcessInverseAck
  PROVE  Inv'
<1>1. /\ air # <<>> /\ air[1].to = Parent /\ Read.type = "SEND_MISSING_P2C_ACK"
      /\ air' = <<>> /\ step' = "done"
      /\ mode' = mode /\ table' = table /\ votes' = votes /\ stored' = stored
      /\ shown' = shown /\ tried' = tried
  BY DEF ProcessInverseAck, RecvPacket
<1>2. AckUnderWay
  BY <1>1, Kinds, EndsTwo DEF Inv
<1>3. DataInv /\ Reached(Child) /\ Reached(Parent)
  BY <1>2 DEF Inv, StepInv, AckUnderWay
<1>4. DataInv'
  BY <1>1, <1>3 DEF DataInv
<1>5. Reached(Child)' /\ Reached(Parent)'
  BY <1>1, <1>3 DEF Reached
<1>6. StepInv'
  BY <1>1, <1>5 DEF StepInv
<1>7. QED
  BY <1>1, <1>4, <1>6 DEF Inv, AirInv

\* Every step.
LEMMA NextInv ==
  ASSUME Inv, [Next]_vars
  PROVE  Inv'
<1>1. CASE SendHello
  BY <1>1, SendHelloStep
<1>2. CASE ProcessRootHello
  BY <1>2, ProcessRootHelloStep
<1>3. CASE ProcessSRHelloAdopt
  BY <1>3, ProcessSRHelloAdoptStep
<1>4. CASE ProcessSRHelloOfChild
  BY <1>4, ProcessSRHelloOfChildStep
<1>5. ASSUME NEW e \in Ends, NEW o \in Others, ProcessSRHelloOfOther(e, o)
      PROVE  Inv'
  BY <1>5, ProcessSRHelloOfOtherStep
<1>6. CASE AskToParentBF
  BY <1>6, AskToParentBFStep
<1>7. CASE SendToChildBF
  BY <1>7, SendToChildBFStep
<1>8. CASE ReceivedFromParentBF
  BY <1>8, ReceivedFromParentBFStep
<1>9. CASE ProcessReceivedMissing
  BY <1>9, ProcessReceivedMissingStep
<1>10. CASE AskBF2C
  BY <1>10, AskBF2CStep
<1>11. CASE InverseSetRecStatic
  BY <1>11, InverseSetRecStaticStep
<1>12. CASE SendBFC2P
  BY <1>12, SendBFC2PStep
<1>13. CASE ReceivedFromChildBF
  BY <1>13, ReceivedFromChildBFStep
<1>14. CASE ProcessReceivedMissingInverse
  BY <1>14, ProcessReceivedMissingInverseStep
<1>15. CASE ProcessInverseAck
  BY <1>15, ProcessInverseAckStep
<1>16. CASE UNCHANGED vars
  <2>1. /\ mode' = mode /\ step' = step /\ table' = table /\ votes' = votes /\ stored' = stored
        /\ air' = air /\ shown' = shown /\ tried' = tried
    BY <1>16 DEF vars
  <2>2. DataInv'
    BY <2>1 DEF Inv, DataInv
  <2>3. StepInv'
    BY <2>1 DEF Inv, StepInv, LC, LP, StaticKept, Reached
  <2>4. AirInv'
    BY <2>1 DEF Inv, AirInv, LC, LP, StaticKept, Reached, UnderWay, HelloUnderWay, ChildHelloUnderWay,
                AskUnderWay, FilterUnderWay, MissingUp, MissingUnderWay, AskDownUnderWay,
                FilterDownUnderWay, MissingDown, AckUnderWay
  <2>5. QED
    BY <2>2, <2>3, <2>4 DEF Inv
<1>17. QED
  BY <1>1, <1>2, <1>3, <1>4, <1>5, <1>6, <1>7, <1>8, <1>9, <1>10, <1>11, <1>12, <1>13, <1>14,
     <1>15, <1>16 DEF Next

-----------------------------------------------------------------------------
(***************************************************************************)
(* What the invariant says of messages and tables.                         *)
(***************************************************************************)
\* A message is read as it was sent, but for a filter that 16 bits cannot size.
Faithful(m, r) ==
  (m.type \in {"ASK_BF", "SEND_BF", "SEND_BF_C2P"} => Fits16(Len(m.filter))) => r = m

\* What is under way is read faithfully, whichever message it is.
LEMMA Delivered ==
  ASSUME AirInv, air # <<>>
  PROVE  \E to \in Ends : \E m, r : UnderWay(to, m, r) /\ Faithful(m, r)
<1>1. CASE FilterUnderWay
  <2>1. PICK f, list : IsFilter(f) /\ UnderWay(Child, FilterFor(f, list), FilterFor(ReadFilter(f), list))
    BY <1>1 DEF FilterUnderWay
  <2>2. Fits16(Len(f)) => ReadFilter(f) = f
    BY <2>1, FilterReadBack
  <2>3. FilterFor(f, list).type = "SEND_BF" /\ FilterFor(f, list).filter = f
    BY DEF FilterFor
  <2>4. Faithful(FilterFor(f, list), FilterFor(ReadFilter(f), list))
    BY <2>2, <2>3 DEF Faithful
  <2>5. QED
    BY <2>1, <2>4, EndsTwo
<1>2. \A m : Faithful(m, m)
  BY DEF Faithful
<1>3. CASE ~FilterUnderWay
  <2>1. \E to \in Ends : \E m : UnderWay(to, m, m)
    <3>1. CASE HelloUnderWay
      BY <3>1, EndsTwo DEF HelloUnderWay
    <3>2. CASE ChildHelloUnderWay
      BY <3>2, EndsTwo DEF ChildHelloUnderWay
    <3>3. CASE AskUnderWay
      BY <3>3, EndsTwo DEF AskUnderWay
    <3>4. CASE MissingUp
      BY <3>4, EndsTwo DEF MissingUp, MissingUnderWay
    <3>5. CASE AskDownUnderWay
      BY <3>5, EndsTwo DEF AskDownUnderWay
    <3>6. CASE FilterDownUnderWay
      BY <3>6, EndsTwo DEF FilterDownUnderWay
    <3>7. CASE MissingDown
      BY <3>7, EndsTwo DEF MissingDown, MissingUnderWay
    <3>8. CASE AckUnderWay
      BY <3>8, EndsTwo DEF AckUnderWay
    <3>9. QED
      BY <1>3, <3>1, <3>2, <3>3, <3>4, <3>5, <3>6, <3>7, <3>8 DEF AirInv
  <2>2. QED
    BY <1>2, <2>1
<1>4. QED
  BY <1>1, <1>3

LEMMA InvTypeOK ==
  ASSUME Inv
  PROVE  TypeOK
<1>1. DataInv /\ AirInv
  BY DEF Inv
<1>2. ASSUME NEW e \in Ends
      PROVE  /\ table[e] \in Seq(Tuples)
             /\ DOMAIN votes[e] \subseteq Addresses \cup {NoAddress}
             /\ \A a \in DOMAIN votes[e] : votes[e][a] \in {NoBallot} \cup {Ballots[o] : o \in Addresses}
             /\ stored[e] \in Seq(BOOLEAN) /\ shown[e] \subseteq Tuples /\ tried[e] \subseteq Tuples
  <2>1. Canonical \subseteq Tuples
    BY DEF Canonical
  <2>2. table[e] \in Seq(Canonical) /\ votes[e] \in Ledgers /\ stored[e] \in Seq(BOOLEAN)
        /\ shown[e] \subseteq Canonical /\ tried[e] \subseteq Canonical
    BY <1>1 DEF DataInv
  <2>3. table[e] \in Seq(Tuples)
    BY <2>1, <2>2
  <2>4. PICK D \in SUBSET Named : votes[e] \in [D -> BallotSet]
    BY <2>2 DEF Ledgers
  <2>5. DOMAIN votes[e] \subseteq Named /\ \A a \in DOMAIN votes[e] : votes[e][a] \in BallotSet
    BY <2>4
  <2>6. QED
    BY <2>1, <2>2, <2>3, <2>5 DEF Named, BallotSet
<1>3. air # <<>> => Len(air) = 1 /\ air[1].to \in Ends
  <2>1. SUFFICES ASSUME air # <<>> PROVE Len(air) = 1 /\ air[1].to \in Ends
    OBVIOUS
  <2>2. PICK to, m, r : to \in Ends /\ UnderWay(to, m, r)
    BY <1>1, <2>1, Delivered
  <2>3. QED
    BY <2>2, UnderWaySeen
<1>4. QED
  BY <1>1, <1>2, <1>3 DEF TypeOK, DataInv

LEMMA InvMessages ==
  ASSUME Inv
  PROVE  AnnouncedCovers /\ ReadAsWritten
<1>1. SUFFICES ASSUME air # <<>>
               PROVE  AnnouncedCovers /\ ReadAsWritten
  BY DEF AnnouncedCovers, ReadAsWritten
<1>2. PICK to, m, r : to \in Ends /\ UnderWay(to, m, r) /\ Faithful(m, r)
  BY <1>1, Delivered DEF Inv
<1>3. air[1].sent = m /\ Read = r /\ Size(Written(m)) <= GetSerializedSize(m)
  BY <1>2, UnderWaySeen
<1>4. QED
  BY <1>2, <1>3 DEF AnnouncedCovers, ReadAsWritten, Faithful

LEMMA InvOnlyMissingSent ==
  ASSUME Inv
  PROVE  OnlyMissingSent
<1>1. SUFFICES ASSUME air # <<>>, Read.type \in {"SEND_MISSING_C2P", "SEND_MISSING_P2C"}
               PROVE  Elements(Read.tuples) \cap shown[air[1].to] = {}
  BY DEF OnlyMissingSent
<1>2. PICK e \in Ends : MissingUnderWay(e)
  BY <1>1, Kinds, EndsTwo DEF Inv, MissingUp, MissingDown
<1>3. PICK ps, ts : /\ Elements(ts) \cap shown[Peer(e)] = {}
                    /\ UnderWay(Peer(e), MissingOf(e, ps, ts), MissingOf(e, ps, ts))
  BY <1>2 DEF MissingUnderWay
<1>4. air[1].to = Peer(e) /\ Read = MissingOf(e, ps, ts)
  BY <1>3, UnderWaySeen
<1>5. QED
  BY <1>3, <1>4 DEF MissingOf

LEMMA InvNothingLost ==
  ASSUME Inv
  PROVE  NothingLost
<1>1. SUFFICES ASSUME NEW e \in Ends,
                      (e = Child /\ step \in {"down", "done"}) \/ (e = Parent /\ step = "done")
               PROVE  \A t \in tried[e] \ Elements(table[Peer(e)]) : Marked(stored[e], t)
  BY DEF NothingLost, Marked
<1>2. Reached(e)
  BY <1>1 DEF Inv, StepInv
<1>3. QED
  BY <1>2 DEF Reached, Covers

LEMMA InvOneTuplePerLink ==
  ASSUME Inv
  PROVE  OneTuplePerLink
<1>1. SUFFICES ASSUME NEW e \in Ends, NEW s \in Elements(table[e]), NEW t \in Elements(table[e]),
                      {s.one, s.other} = {t.one, t.other}
               PROVE  s = t
  BY DEF OneTuplePerLink
<1>2. s \in Canonical /\ t \in Canonical
  BY TableFacts DEF Inv
<1>3. /\ s.one \in Nat /\ s.other \in Nat /\ s.one < s.other
      /\ t.one \in Nat /\ t.other \in Nat /\ t.one < t.other
  BY <1>2, CanonicalTuple, NodesAssumption
<1>4. s.one = t.one /\ s.other = t.other
  BY <1>1, <1>3
<1>5. QED
  BY <1>2, <1>4, CanonicalTuple

-----------------------------------------------------------------------------
(***************************************************************************)
(* The theorems, for every number of neighbours, data, votes, filter size, *)
(* hash function and 16-bit range.                                         *)
(***************************************************************************)
\* What is under way agrees with how far the exchange is, and what it carries with the
\* tables and filters of the two: the inductive invariant of the exchange.
THEOREM ExchangeInv == Spec => []Inv
<1>1. Init => Inv
  BY InitInv
<1>2. Inv /\ [Next]_vars => Inv'
  BY NextInv
<1>3. QED
  BY <1>1, <1>2, PTL DEF Spec

\* The tables, votes, filters and the message under way are of their types.
THEOREM Typed == Spec => []TypeOK
<1>1. Inv => TypeOK
  BY InvTypeOK
<1>2. QED
  BY <1>1, ExchangeInv, PTL

\* GetSerializedSize announces at least the bytes that Serialize writes, for every message
\* with every number of votes, tuples, addresses and filter bits.
THEOREM NothingPastTheEnd == Spec => []AnnouncedCovers
<1>1. Inv => AnnouncedCovers
  BY InvMessages
<1>2. QED
  BY <1>1, ExchangeInv, PTL

\* Deserialize reads what Serialize wrote, unless the message has a filter that 16 bits
\* cannot size.
THEOREM ReadBack == Spec => []ReadAsWritten
<1>1. Inv => ReadAsWritten
  BY InvMessages
<1>2. QED
  BY <1>1, ExchangeInv, PTL

\* The comparison with a filter never sends a tuple that the filter was made with.
THEOREM NothingSentTwice == Spec => []OnlyMissingSent
<1>1. Inv => OnlyMissingSent
  BY InvOnlyMissingSent
<1>2. QED
  BY <1>1, ExchangeInv, PTL

\* After each direction the peer has every tuple but those that the filter had by chance.
THEOREM AllButFalsePositives == Spec => []NothingLost
<1>1. Inv => NothingLost
  BY InvNothingLost
<1>2. QED
  BY <1>1, ExchangeInv, PTL

\* Hellos and missing tuples make one and the same tuple of a link, at both ends.
THEOREM LinksOnce == Spec => []OneTuplePerLink
<1>1. Inv => OneTuplePerLink
  BY InvOneTuplePerLink
<1>2. QED
  BY <1>1, ExchangeInv, PTL
====
