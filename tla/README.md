# SAHARA in TLA+

A verification project for the SAHARA ns-3 model of `src/ns3_simul/Sahara4.0/Model`:
specifications of its protocols, model-checked with TLC on small networks, and
theorems about them that TLAPS proves for every network. File and line references
are to that directory unless a path is given.

## The system

SAHARA is a routing protocol for mobile ad-hoc networks in which nodes vote on each
other's behaviour. Every 15 s the root (the node with id 12) starts a round of
*SAHARA Sync*, a distributed set reconciliation: nodes find their neighbours, build a
tree, and exchange over it, with Bloom filters, the links and votes the others lack.
At the end of a round each node computes reputations from the votes, appends its table
to its chain of blocks and computes shortest paths. Between rounds data packets are
routed along those paths, and the nodes watch their acknowledgements to form the votes
of the next round.

| component | state | operations | hard behaviour |
|---|---|---|---|
| SAHARA Sync (`saharaRouting.cc`) | parent, children, queue of requests, flags of the round, three timers | hello handlers, `NoChildren`, `AskToParentBF`, `SendToChildBF`, `ProcessReceivedMissing`, `InverseSetRec`, ... | messages of many nodes interleave; lost hellos and reports; retries; timers and state left from the round before |
| routing table (`routingTable.cc`) | tuples (links with reputation, position, battery), votes, paths | `AddTuple`, missing tuples and votes, `RunDijkstra`, `ResetVariables` | 16-bit costs, stale paths, agreement of all nodes |
| votes and reputation (`saharaSecurity.cc`, `routingTable.cc`) | `m_idVotes`, `m_globalVotes`, `m_mapIDRep` | ×0.5, ×1.1, thresholds, `UpdateReputationLocally` | truncation, cap, votes kept under another key |
| data plane (`saharaRouting.cc`, `saharaQueue.cc`) | packet queue, lookup timer | `RouteOutput`, `RouteInput`, `LookupQueue`, `Enqueue`, `Dequeue`, `Purge` | limits, expiry, a timer that stops or never waits, tables of different age |
| light monitor (`saharaSecurity.cc`) | timers per message | `PromiscuousCallback`, `VerifyDropAndTemperLight`, `DropTimeoutExpiredLight` | acknowledgement against timeout, reset in between |
| shared files (`globalData.cc`) | a node's data, allowed addresses | `WriteDataToFile`, `ReadDataFromFile`, `UpdateAllowedIPs`, `IpAllowed` | |
| strong monitor, key rotation | timers per hop, allowed addresses | `VerifyDrop`, `GenerateNewKey` | never reached |
| block chain (`saharaBlock.cc`) | chain of hashes | `addBlock`, `storeToFile` | one block per round, equal at all nodes, with equal reputations |
| packet format (`saharaPacket.cc`) | - | `GetSerializedSize`, `Serialize`, `Deserialize` | announced size against bytes written; filters longer than a 16-bit size can say |
| Bloom filter (`routingTable.cc`) | bit array | `CreateBloomFilter`, `CreateDynamicBloomFilter`, `ProcessSetReconciliation` | false positives; maker and reader compute the bits apart |
| flooding, mobility, encryption, drivers, scripts | | | off by default, geometry, or set-up |

Components call each other as follows. `RecvPacket` dispatches a message to its handler
in `SaharaRouting`; the handlers read and write the `RoutingTable`; `InverseSetRec` ends
a round by calling the table (`GenerateRepMap`, `UpdateFileHistory`, which appends the
block), `Dijkstra`, and `SaharaSecurity` (`ResetVariables`, `LoadMacIdMap`,
`LoadLastBlock`). `SaharaSecurity` gives `SendDataNew` the votes for a hello. Every
unicast message, of the protocol too, is routed by `RouteOutput` and `RouteInput` with
the paths of the table. The nodes share nothing but messages, the text files that
`globalData.cc` reads, and its list of allowed addresses.

What makes each part correct: Sync - every round ends, all blocks of a round are equal
and complete, one block per node and round, no child waits for ever, nothing learned is
lost; table and reputation - equal votes give equal reputations in range; data plane -
packets are forwarded towards their destination, none is doubled or sent past its time,
none waits although a route is known; filters and packets - what is written is what is
read, what a node lacks is sent and what it has is not; monitor - a path is penalised only for a message whose
acknowledgement did not come.

## Modules

| module | what it is |
|---|---|
| `SaharaSync` | SAHARA Sync at all nodes: one action per handler, timer and delayed call, and their properties |
| `SetReconciliation` | what SAHARA Sync promises on a network that loses nothing; the abstract specification |
| `MCSaharaSync` | the networks on which `SaharaSync` is checked |
| `SaharaSyncProofs` | theorems about `SaharaSync` on every network, with losses, proved with TLAPS |
| `RoundInvariant` | the stages of a round of `SaharaSync` that loses nothing, and the invariant that explains the state by them |
| `RoundControl` | proofs: every step of such a round keeps stages, lists, timers and messages in agreement |
| `RoundProofs` | proofs: hellos, the start of a round, what is known and carried; the theorems about such rounds and the refinement of `SetReconciliation` |
| `Induction` | proofs: induction over numbers and ranks, and recursive functions, as lemmas about sets |
| `LightMonitor` | the light monitor of one node while messages travel and rounds pass |
| `MCLightMonitor` | the network on which `LightMonitor` is checked |
| `LightMonitorProofs` | theorems about `LightMonitor`, proved with TLAPS |
| `ShortestPaths` | `RunDijkstraNew` and `LookUpAddr` as operators, and the cheapest paths they are checked against |
| `DataPlane` | data packets, packet queues and reputations at all nodes while rounds change the tables; extends `ShortestPaths` |
| `MCDataPlane` | the courses of rounds and packets on which `DataPlane` is checked |
| `DataPlaneProofs` | theorems about `DataPlane`, among them that every route computed is a cheapest path and that settled nodes forward without loops |
| `ShortestPathsProofs` | theorem: the priority queue of `RunDijkstraNew` finds cheapest paths on every network |
| `Wire` | the nine message types: size announced, fields written, fields read |
| `BloomExchange` | one child and one parent that make their tables equal with the filters and packets of `Wire` |
| `MCBloomExchange` | the addresses, data and hash function with which `BloomExchange` is checked |
| `BloomExchangeProofs` | theorems about `BloomExchange` and `Wire`: packets are announced and read as written, tuples are neither lost nor sent twice |

The modules meet at a round. `SaharaSync` shows that and how a round ends at every node
with tables and votes; `LightMonitor` and `DataPlane` take rounds as the coarse steps
that `SaharaSync` without losses allows (a table is emptied, partial, complete), at every
node at its own time; `BloomExchange` opens up one exchange of `SaharaSync` between
parent and child, where a filter is a set of tuples.

### SaharaSync and the code

The state is that of `saharaRouting.h:167-179` for each node (`parent`, `kids` and `done`
for the map `m_listSetRecDone`, `bfKids`, `idle` for `m_previousChildProcessed`,
`requests`, `reset`, `srCompleted`, `alreadyDone`), the timers (`srTimer`, `askTimer`,
`invTimer`), the calls scheduled with a delay (`upDue`, `downDue`), the table (`tuples`,
`votes`, `routes`), the chain, and the messages in flight. Actions have the names of
their handlers. `SendToChildBF` is split into the branches of its `if` (`SendToChildBF`,
`EnqueueChild`); `InverseSetRec(n, acked, running, known)` is the body that the delayed
call, the timer and, at the root, `NoChildren` run.

What is abstracted:

* A tuple is the link it describes, a vote packet its author, a Bloom filter the set of
  tuples it was built from. Both ends of a link are taken to record the same
  reputation, position and battery, so that they store the same tuple. With
  `FalsePositives` a filter may report tuples it does not hold.
* A block is the round, the links and the authors of the votes it was made from.
* A message is in flight from the moment its sending is scheduled; its receiver and
  route are determined then. Two identical messages in flight at once are one.
* `routes` is the set of destinations with a path. A message to a destination without
  a path is dropped at the sender, as `RouteOutput` and `RouteInput` do (the packet comes
  back to its sender with source 0.0.0.0, which is not an allowed address). A message
  with a path of several hops is taken to arrive.
* All addresses are allowed; `m_sr_dynamic_ON` is true, its default.

Time. The actions are ordered by causes, not by clocks, with three exceptions that the
delays in the code justify. The slot of a node (800 ms or more) ends after the hellos
that answer it: a hello leaves at most 510 ms after the one it answers (2 ms times the
id). A repeating timer and the 15 s of a round expire when the exchange they wait for is
over - *except* `MaxEarly` times, when they expire in the middle of it or in the hello
phase that follows: delays add up with ids, hops and numbers of children, so retries do
overlap with late answers. No retry expires in the 10 ms before the first hello of a
round is heard. The root starts a round when nothing is in flight.

Bounds (every one a constant): `MaxRounds` rounds, `MaxLoss` failed receptions (a
broadcast costs one for each neighbour that misses it), `MaxDue` pending runs of one
delayed call, `MaxEarly` early expiries. Two rounds show everything that one round can
leave to the next; the runs below fix the others.

Fairness, for liveness only: the simulator runs every event it has scheduled, so each
timer, delayed call and round is weakly fair per node, and so is the reception of hellos
by sender and of unicast messages by receiver and direction. Losses are not fair.

### LightMonitor and the code

When a relay forwards a data packet, its source and the neighbours that source and relay
share (`Watches`, `saharaSecurity.cc:560,583`) start a timer. An acknowledgement they
capture stops it and credits the path; the end of the timer penalises the path. The
paths are looked up in the table of the monitor, which a round of SAHARA Sync empties at
its first hello, fills again, and at whose end `ResetVariables` forgets timers and votes.

Monitors only listen, so one is followed: `me`, any node of `Watched`. `timers` are the
keys of `m_mapTimersLight`, which an expired or cancelled timer does not leave; `running`
are those whose timer runs, and `stray` the messages of timers that run although the map
has lost them (a `Timer` on the heap that nobody deletes). `votes` is `m_idVotes`; a
score, a reputation multiplied by 1.1 and 0.5, is kept exactly, as a fraction.
`Forward` is `RouteInput` or `RouteOutput` at the holder of a packet with the
`PromiscuousCallback` at the monitor; a next hop captures what it receives, another
neighbour may miss it. `heard`, `credited` and `missed` are history variables.

What is abstracted:

* There are no clocks: a timer may expire at any time after its start, before, between or
  after the acknowledgements. A message may be under way across a round.
* The rounds are those of `SaharaSync` without losses: the table of a node is emptied at
  its first hello, gets the links to the neighbours it hears, then what its neighbours
  know once both have ended their slots, and is complete when the round ends there. The
  order of reports is left open.
* All links cost the same, as with equal reputations; a round gives all nodes one
  reputation. The choice among equal paths is fixed.
* A packet without a route is dropped. In the code it may wait in the packet queue, where
  the monitors do not hear it.
* Two timers of one message that the map has lost count as one.

Bounds: `MaxRounds` rounds; the run has one message, four nodes and one round, which
suffices for a message to be sent, captured and acknowledged on each side of a reset.

Two consequences of the code that the properties do not catch. An acknowledged
message is penalised if the reset came between its capture and its acknowledgement
(`PenaltyWasDue` names the exception, `m \in stray`): `saharaSecurity.cc:543-547` gives as
reasons for a penalty only a missing or altered acknowledgement. And the receiver sends
two acknowledgements, each of which credits the path (`UpdateNodeReputationPositive` runs
for a timer that is in the map, whether or not it runs).

### DataPlane, ShortestPaths and the code

`round`, `phase`, `table`, `claim`, `rep`, `firstIT`, `hops` and `block` are what a round
of SAHARA Sync leaves at a node at each of its stages: `ResetVariablesUpdate` empties
table and routes and announces the node's own reputation (`claim`), `RunDijkstra` after
the slot and after each report works with a part of the links and the old reputations,
and `InverseSetRec` ends the round with all links, the new reputations
(`GenerateRepMap`, `UpdateReputationLocally`), the block and the routes, in this order.
`queue`, `lookup`, `air`, `unsent`, `delivered` are the data packets. `RouteInput` has the
branches of the code: a packet that is back at its origin or was sent without a route is
lost, one at its destination is delivered, one without a route is queued, another goes to
the next hop. `LookupQueue` is the body of `m_auditLookUpPacketQueue` with
`SendPacketFromQueue`; `Enqueue` and `Dequeue` purge first, as in `saharaQueue.cc`.

`NextHops` runs the loop of `RunDijkstraNew` on a priority queue of (distance, address),
with the costs `(1000/(rep+1) + 1000/(rep'+1)) / 2` in integers and sums modulo `Word`.
`LookUpAddr` reads the next hop; a neighbour is always its own next hop, whatever the
link costs.

What is abstracted:

* The rounds come from a scenario (`course`): for each the links in range and the sign of
  the votes about each node. How votes and tuples get to a node is `SaharaSync`'s.
* Time is a number of ticks that matters to the queue only. A node whose lookup found a
  packet looks again after 0 ms (`saharaRouting.cc:794`): until its queue is empty
  simulated time, and with it everything else, stands still (`NobodyPolls /\ Event`).
* The loss of a packet, by the channel or by a compromised node, is one action. A packet
  has no TTL.

Bounds: the scenarios' rounds, packets and moments; queue limits of 2 and 1 and a timeout
of 1 tick make full queues and expiry happen with three packets.

Fairness (`FairSpec`, for `RoutedLeaves` only): the scheduled lookups run and time goes
on, as the ns-3 scheduler guarantees. Rounds and packets are not fair: the counterexample
needs none of them to happen again.

### Wire, BloomExchange and the code

A buffer is the sequence of values written with the bytes each takes. `Written` and
`Deserialize` follow `Serialize` and `Deserialize` field by field, with counts and filter
sizes cut to 16 bits; `GetSerializedSize` is the code's own sum, kept apart, and
`Serialize` fills what is announced and not written with zeros, as ns-3 does.
`BloomExchange` has the handlers of both ends between the hellos and the acknowledgement
of the missing tuples, each of which sees what it reads from the packet. `mode` chooses
between static and dynamic filters and whether the parent is the root, whose hello has
another type. Other neighbours make themselves heard at any moment
(`ProcessSRHelloOfOther`), which lets tables grow between a filter and its answer.

What is abstracted: a tuple's reputation, position and battery are one value; the hash is
a number per hash function and tuple (`Digest`), the size of a dynamic filter a function
of the number of tuples (`BitsPer`, 12.364 bits a tuple in the code). Losses, timers and
several children are `SaharaSync`'s. Every address is allowed: `GenerateNewKey`, the only
call that would withdraw one, is never reached.

Bounds: `MaxTuples` limits how far hellos grow the tables; that 16 bits count the tuples
of a table is `CountsAssumption`, which the 6000 of `m_nTuplesWorstCase` justify.
`Word = 16` and seven bits for two tuples put filters of five and more tuples beyond the
size a field can hold, which in the code happens from 5301 tuples on (65536 / 12.364),
below the 6000 of `m_nTuplesWorstCase`.

What the properties say of the code that its authors may not know: a filter longer than
its size field is read in part, at the wrong bits. `NothingLost` still holds (a tuple is
left out only if its bits are set in what was read), while `OnlyMissingSent` is claimed
for filters that fit only. The announced size exceeds what is written by up to 4 bytes,
and `SEND_BF` reads every byte that follows; only the cut to the announced number of bits
(`ReadBits`) keeps the rest from being taken for filter.

A `SEND_BF_C2P` whose filter is longer than 16 bits can size is *not* covered by any
property. There the list of addresses follows the filter, and the parent would read the
number of addresses and the addresses from within the filter. The guard of `AskBF2C`
(`Fits16`) cuts the case away: the parent asks for no filter that long.

### Runs

| run | network and bounds | shows |
|---|---|---|
| `sync_rounds` | `Tree`: 5 nodes, 3 levels, two cycles, two children that queue at one parent; 2 rounds, no loss, no early timer | every round ends with a block at every node (`EveryRoundCompletes`); nobody queues at a parent that serves nobody (`BusyServes`); the votes of the root and of all nodes that are not its neighbours count in every block (`FarVotesReach`); `SaharaSync` implements `SetReconciliation` (`ReconcilesSets`) |
| `sync_races` | `Kite`: 4 nodes with a cycle; 2 rounds, 1 early timer | the parents form a tree, no running timer is scheduled, the way down starts after the way up has ended, all blocks of a round are equal, one block per round, one child in service, no child queued twice |
| `sync_losses` | `Line`: 3 nodes; 2 rounds, 1 loss, 2 early timers | types (every tuple is a link of the network), one block between two resets, no tuple lost in the middle of a round |
| `sync_ask_unanswered` | `Star`: 3 nodes; 1 loss | finding 1 |
| `sync_lost_votes` | `Triangle`; 1 round, no loss | finding 2 |
| `sync_duplicate_block` | `Line`; 2 rounds, 1 loss, 2 early timers | finding 3 |
| `sync_false_positives` | `Star`; 1 round, false positives | finding 4 |
| `monitor_verdicts` | `Diamond`: a witness that hears the source and the relay of a message; 1 round, reputations 90 and 255 | types (a table holds links of the network only); one timer per message, of which `OneRelay` is true here; a penalty is due or a reset orphaned its timer; between rounds, a positive vote rests on an acknowledgement and a negative one on an expired timer, both since the reset and along a path through the node |
| `monitor_lookup` | `Diamond`; 1 round | finding 5 |
| `data_plane` | two scenarios: 7 rounds on a ring of 5 nodes, in which one node loses its reputation and another is out of range for four rounds; 2 rounds on a chain of 3 with 3 packets, 2 ticks, timeout 1, queue limits 2 and 1 | types, with reputations in a byte; a packet is in one place; a queue refuses only when unexpired packets fill it; nothing expired is sent; nodes that wrote the same block agree on every reputation in it; nodes that ended the same round forward without loops; routes are cheapest paths |
| `data_queue_off` | 2 rounds on a chain of 3, 1 packet | finding 6 |
| `bloom_exchange` | a child, a parent, three more neighbours; filters of 3.5 bits a tuple, 16-valued sizes, 6 tuples | types; the announced size covers what is written; a message is read as written; nothing is sent that the receiver had in its filter; what a direction leaves out had all its bits set; one tuple per link |

Deadlock is not checked: after the last round, exchange or packet the system stops; in
`LightMonitor` also when a lookup does not return. Reputation 90 is near enough
to the threshold of 50 that one penalty makes a negative vote, 255 to that of 250.

`VotesReach` (all votes count in every block) and `FarVotesReach` (those of the root and
of the nodes that answer an `SR_HELLO` do) belong together: the first is what the notes of
the authors ask for and is false (finding 2); the second is the part that holds, and would
hold after a correction too.

`StartsClean` (a round starts from empty tables) is proved where nothing is lost. With one
loss on `Triangle` TLC finds it violated: the comment at `saharaRouting.cc:1669` says that
`ResetVariablesUpdate` runs "every time a new round of SR is perfomed", but the condition
at line 934 resets only a node that wrote its block, and one that did not mixes the tables,
children and parent of two rounds. No run shows it; the root of finding 3 is such a node.

The properties that hold with `sync_races` and `sync_rounds` are not claimed under
losses: with a lost hello and an early timer on `Line` the parents can form a cycle; on
`Triangle` a hello can find `m_auditTimeoutAckSRNEW` running, where ns-3 stops; with an
early timer on `Kite` a round can end without a block at some node.

`LoopFree` speaks of nodes that have ended the same round: in the middle of a round nodes
route on partial tables (`saharaRouting.cc:570`), and two may name each other as next hop
until one goes on. `ShortestRoutes` is checked where sums of costs stay below 2^16; a wrap
needs a path of some 66 nodes of reputation 0. In `data_plane` reputations reach the cap
of 255 and are truncated on the way down and up; a reputation of 9 or less never grows
again, which is what `routingTable.cc:846` computes.

### Findings

1. `AskAnswered` (`saharaRouting.cc:834`, "Partial solution: send again BF and/or ack"). A
   parent that has sent its filter is busy until a report arrives. If the filter or the
   report is lost, the request is repeated every 800 ms and queued at the busy parent;
   nothing makes the parent look at its queue again.
2. `VotesReach` (`saharaRouting.cc:971`, "set vote and signatures"; `To_Do:70`, "tutti i
   voti, anche quelli undefined bisogna considerare": all votes must be considered). The
   statements below that comment are commented out, and `ProcessRootHello` answers with a
   header on which `SetVotes` was never called, as it is in `SendDataNew`. So the neighbours
   of the root vote with an empty packet from 0.0.0.0; it is stored under their own
   address, which keeps the others from asking for the real one.
3. `OneBlockPerRound` (`toDo.txt:16`, "Timer fix in set reconciliation in order to avoid
   duplicate blocks"). The root did not end round 1 since a hello was lost;
   `m_auditTimeoutAckInverseSR`, which no reset cancels, expires in the hello phase of
   round 2 and writes a block; the next hello resets the root, and the end of round 2
   writes another.
4. `TablesComplete` (`saharaRouting.cc:1783`, "Since every node knows the complete routing
   table"). A tuple that a filter reports by mistake is not sent, and the block of the
   node that lacks it is incomplete.
5. `LookupsReturn` (`routingTable.cc:552`, "Return the path from sourceIP to
   destinationIP"). `GetPathFromSourceToDestination` gives a destination that no tuple
   mentions the distance 0 (`distances[destinationIP]`, line 537) and follows predecessors
   that never reach the source, appending to `path` for ever. A timer of the light monitor
   that expires just after a hello has emptied the table gets there.

6. `RoutedLeaves` (`saharaQueue.h:290-291`, "The maximum period of time that a routing
   protocol is allowed to buffer a packet for"). `LookupQueue` returns without scheduling
   itself again when the queue is empty (`saharaRouting.cc:780`), which it is at its only
   start, 20 s into the simulation, unless packets came before. A packet queued later is
   never sent, though a route for it may come, and leaves only when a later `Enqueue`
   purges it.

### Proofs

`SaharaSyncProofs` proves for every finite network, root, number of rounds, losses, early
timers, and with or without false positives:

* `TypeCorrect`: `Spec => []TypeOK`: among the types, every tuple of a table, a message or
  a block is a link between two nodes in range. `TypeOK` is inductive as it stands.
* `ServiceCorrect`: `Spec => []ServiceInv`. No child waits at an idle parent and none
  waits twice. Inductive with the types of the queue; the lemmas `AppendNoRepeats` and
  `TailNoRepeats` carry the sequence reasoning.
* `OneBlockBetweenResets`: `Spec => BlockOncePerReset`. Not inductive alone: a branch of
  `InverseSetRec` looks at `m_SRCompleted` and not at `m_alreadyDone`. The invariant
  `FlagInv` says that `m_reset` is set exactly when neither is, and that a node with
  `m_alreadyDone` has children, which keeps that branch from being taken again.
* `TuplesKept`: `Spec => KeepsTuples`, from `TypeOK` and a case for each handler that
  writes the table.

`RoundProofs` proves the other safety properties of `SaharaSync` for every finite network, root
and number of rounds under `Nominal`: the network is connected and has a node besides the root,
`MaxLoss = 0` and `MaxEarly = 0`. Those are the runs the protocol is made for, and the
properties need them. With more, TLC finds them violated: `TreeRooted` and
`TimerNeverRearmed` on `Kite` with two early timers, `BusyServes`, `DownAfterUp` and
`FarVotesReach` on `Line` with one loss, `BlocksAgree` with two,
`StartsClean` on `Triangle` with one; `OneBlockPerRound` and `TablesComplete` are findings
3 and 4. (`sync_races` has one early
timer on `Kite`; that case stays with TLC.) `Nominal` is satisfied by every network of
`MCSaharaSync`, and `MaxDue` and `MaxRounds` stay arbitrary.

| theorem | property | also assumes |
|---|---|---|
| `RoundsProceed` | the inductive invariant `RoundInv` | |
| `QueueServed` | `BusyServes` | |
| `ServiceExclusive` | `OneInService` | |
| `ParentsRooted` | `TreeRooted` | |
| `SlotScheduledOnce` | `TimerNeverRearmed` | |
| `OneBlockEach` | `OneBlockPerRound` | |
| `VotesCounted` | `FarVotesReach` | |
| `RoundsStartClean` | `StartsClean` | |
| `UpThenDown` | `DownAfterUp` | `~FalsePositives` |
| `SameBlocks` | `BlocksAgree` | `~FalsePositives` |
| `BlocksComplete` | `TablesComplete` | `~FalsePositives` |
| `SyncReconciles` | `ReconcilesSets` | `~FalsePositives` |

*The inductive invariant.* None of these is inductive, for one reason: no variable of the
program says where a node is in the round. That is spread over its flags, lists and
timers, the lists of its parent, and the messages in flight; `m_previousChildProcessed`
is false of a node that serves a child and of one that has finished. `RoundInv` says that
the state is initial or that a function `st` from nodes to stages (`Out`, `Hello`,
`Gather`, `Due`, `Asking`, `Served`, `Up`, `Asked`, `Down`, `Awaiting`, `End`) exists that
explains all of it (`Underway`). Its parts, in `RoundInvariant`:

* `Control`: stages of parents and children fit (`TreeInv`), parents lead to the root
  (`RootedInv`, over sets of nodes: no set is its own set of parents), lists, queues,
  routes, timers and messages are those of the stages (`ListInv`, `ServeInv`, `RouteInv`,
  `TimerInv`, `HelloInv`, `TalkInv`), and nobody can join below a node that has reported
  (`SettledInv`, which is where the length of a slot is used).
* `DataInv`: a message carries what its sender knows, the answer to a filter completes
  the table of the child, and past `Asked` a node knows all.
* `CoverInv`: until the root turns, whatever is known about a node is on its way to the
  root, at a node that has not reported or in a report.
* `ChainInv`: every block so far is complete, except for the votes of finding 2.

`RoundControl` proves the preservation of `Control` from lemmas about kinds of moves that
handlers share; `RoundProofs` adds the hello phase, the start of a round and the other
parts, one lemma for each handler. The queue of a parent is why losses break it: in
`ServeInv` a child that is served has the next message of its exchange in flight.

*The refinement.* `SyncReconciles` maps `known` to the tables, `finished` to `~m_reset`
and `committed` to the number of blocks. A hello is a step `Observe` of those who hear it;
a report or the missing tuples of a parent are `Learn`; the end of `InverseSetRec` is
`Commit`, which needs that the table is complete (`DataInv`); the start of a round is
`Begin` of the root, which like `Observe` needs that every node has ended the last; all
other steps stutter.

`LightMonitorProofs` proves for every finite network, choice of messages and monitor, and
number of rounds:

* `MonitorTypeCorrect`: `Spec => []TypeOK`. The work is in the lookups: the lemmas
  `LeastNatural` (from well-founded induction) and `PathFromType` show that the shortest
  length exists, so that a path is a sequence of nodes and its second node the next hop.
* `PenaltyCorrect`: `Spec => PenaltyWasDue`. The property speaks of one step, but why it
  holds needs the history of the message: the invariant `AckInv` says that a message whose
  acknowledgement was captured has been sent, that no packet under way is still the message
  itself (so no timer for it can start again), and that no timer in the map runs for it.
  TLC checked `AckInv` on the instance of `monitor_verdicts` before it was proved.

* `PositiveVotesEarned`, `NegativeVotesEarned`: `Spec => []PositiveNeedsAck` and
  `Spec => []NegativeNeedsMiss`. Neither is inductive: a vote is a threshold on a score,
  and a credit may follow a penalty. `VotesInv` gives bounds on the score instead
  (`Rests`): without an acknowledgement along a node its score has not grown above its
  reputation at the reset, and is at most half of it once it was changed; without an
  expired timer it has not shrunk. It is claimed between rounds, where the table is known to be
  complete, so that the path a verdict fell on is the path the property names.

* `SecondTimerCorrect`: on every network, the monitor never has two timers for a message
  of which `OneRelay` is true; and `OneTimerCorrect`: `Spec => []OneTimerPerMessage`, if it
  is true of all messages.

*Why `OneRelay`.* A node that routes on a partial table may send a message back where it
came from, and when a second neighbour of the source relays it, or the same one again, the
monitor of the source starts a second timer and loses the first. That happens on a ring of
six, for a message to the opposite node, in the one round that `MaxRounds = 1` allows:
the message is at the first relay when a round empties the tables, the relay learns
the links of the other side first, and sends the message back to the source, which sends
it on by its other neighbour. (TLC finds this behaviour, of 20 states, when the model is
given that ring.) So the property is one of the network, and `OneRelay` says of which, by
the links alone: the destination is a neighbour of the source, or there is a set of nodes
that holds it and that is entered at one node only, which neighbours of the source alone
lead to. It is true of all messages on a line or a tree, where the link behind the first
relay is a bridge, of a message to a node all of whose neighbours are neighbours of the
source, as on a ring of four, and of the message of `Diamond`, of which TLC evaluates it
(`OneRelayAssumption`). Bigger meshes have messages of which it is false, and of these
nothing is claimed.

*The invariant.* `OneTimerPerMessage` says nothing of the packet that may start the next
timer. `RelayInv` does: before its slot ends a table holds links of its node only, from then
on all of them (`OwnLinks`), and a message is behind the entry (`Cut`), or at the source or
a node that leads to the entry and no timer runs for it (`OnTheWay`). What a hop does to
that is in the lemmas on shortest paths: one never comes back to where it began and goes at
once to a node it has a link to (`ShortestPath`), so that from the source it goes to
a neighbour of the entry (`HopFromSource`), from there to the entry (`HopIntoFar`), and
stays behind it (`HopStaysFar`). TLC checked `RelayInv` on `Diamond` and on a ring of four
before it was proved.

`DataPlaneProofs` proves for every finite set of nodes, every set of scenarios, packets,
queue limits and timeouts:

* `TypeCorrect`: `Spec => []TypeOK`, so that reputations stay in a byte whatever the
  votes. Inductive with `Begun` (no node is in a round before the first begins).
* `NeverDoubled`: `Spec => []OneCopy`. `OneCopy` counts the places of one packet, and a
  step moves one; the inductive form `Single` says pairwise that frames, queue entries,
  unsent and delivered packets exclude each other, also entries of different queues.
* `ExpiredNeverSent`: `Spec => SentBeforeTimeout`, with `Single`: what is sent from a
  queue is known to come from there.
* `FullWhenRefused`: `Spec => RefusedOnlyWhenFull`, by the cardinalities of the entries
  and of their packets, which differ unless every entry is of another packet (`Single`).
* `BlocksAgreeOnReputations`: `Spec => []ReputationsAgree`. A node's remembered
  reputations may be old, so that agreement is not a matter of equal starts. `RoundInv`
  says why it is reached: a node that is in the round has entered it before any block of
  it is written (`TakesPart`, `HeardAll`, `EndsWithBlock`, `HellosBeforeBlocks`), so that
  the claims of all nodes in `Complete` are fixed when the first block of the round is
  written and every block is the same function of them (`WritesRoundLines`).

`ShortestPathsProofs` and the last part of `DataPlaneProofs` prove what `RunDijkstraNew`
computes:

* `NextHopsCheapest`: for all links and all reputations, the loop on the priority queue is
  empty after the turns that the model counts and every node reached has a next hop on a
  cheapest path, provided that no simple path costs as much as the largest 16-bit number
  (`Holds`). The loop invariant `Searching` is that of Dijkstra's algorithm with entries
  that are out of date left in the queue; that sums do not wrap is part of it.
* `RoutesShortest`: `Spec => ShortestRoutes`, and `SettledNodesLoopFree`:
  `Spec => []LoopFree`, under `PathsFit`: a thousand per node, the cost of a link between
  two nodes of reputation 0, fits 16 bits. That is up to 65 nodes; the drivers use 6, 30,
  32 and 36 nodes, while `alphaTest.cc` (70) and `manet-routing-compare.cc` (100) are
  beyond it, if reputations fall as far. For loops, `RoutesOfBlock` says that a node that
  has ended a round has the routes of its block, `BlocksAgreeOnReputations` that the
  blocks agree on what links cost, so that each hop brings a packet nearer.

`BloomExchangeProofs` proves the six invariants of `BloomExchange` for all addresses,
data, votes, sizes of filters, hash functions and neighbours that are heard meanwhile:

* `ExchangeInv`: `Spec => []Inv`. The six are not inductive: that a message is read as it
  was sent says nothing of what the reader does with it. `Inv` names the nine messages
  that can be under way with what is known while they are (`HelloUnderWay` to
  `AckUnderWay`, in `AirInv`): a filter covers the tuples in `shown` or is longer than 16
  bits can size; what is sent as missing has a bit that the filter lacks, and the rest of
  the table has none. `StepInv` keeps the counts of tuples that let sizes fit 16 bits and
  what a finished direction leaves (`Reached`); `DataInv` says that every tuple is made of
  the data of its two nodes, in order (`Canonical`). TLC checked `Inv` on the instance of
  `bloom_exchange` before it was proved.
* `NothingPastTheEnd` and `ReadBack`: `AnnouncedCovers` and `ReadAsWritten`. For each type
  of message a lemma (`HelloArrives` to `MissingArrives`) says that what is written has
  the width that is announced, and that each field stands where it is read (`Wide`,
  `Holds`), through vote packets of any length and the eight bits of each byte.
* `NothingSentTwice` and `AllButFalsePositives`: `OnlyMissingSent` and `NothingLost`, from
  `FilterMade` (a filter has every tuple it was made of) and `Compared`; a filter that is
  cut still compares.
* `LinksOnce` and `Typed`: `OneTuplePerLink` and `TypeOK`.

`Size`, `Among` and the other folds are the library's `FoldLeft`, which chooses a
recursive function on sets of positions. `FoldExists` to `FoldLast` show that the function
exists and goes through the positions in order, so that each fold is a chain of its steps
(`SizeFold`, `AmongFold`, `MissingFold`, `LedgerFold`, `VotesFold`).

The recursive functions in these (`Run`, `NextHops`, `Ancestors`) are reasoned about
through `Induction`: the library's induction theorems take an operator, which the provers
cannot instantiate, so its lemmas speak of sets of numbers (`SetInduction`,
`RankInduction`) and say that functions with a recursive equation exist (`Recursion`,
`RankRecursion`).

The proofs rest on the named assumptions on the constants (`NodesAssumption`,
`EdgesAssumption`, `BoundsAssumption`, `FilterAssumption`; `NetworkAssumption`,
`MessagesAssumption`, `ReputationsAssumption`, `MonitorBoundsAssumption`;
`RootAssumption`, `ScenariosAssumption`, `PacketsAssumption`, `LimitsAssumption`;
`WordAssumption`, `BallotsAssumption`, `FiltersAssumption`, `CountsAssumption`), which
TLC evaluates in the runs, and on `Nominal` and `PathsFit` where said.

Only model-checked are:

* liveness under fairness: `EveryRoundCompletes`, which is out of the prover's reach;
* the properties of the findings, which are false (`AskAnswered`, `LookupsReturn` and so on);
* the rounds of `SaharaSync` with an early timer (`sync_races`).

The invariants and action properties of all other runs are theorems.

## Plan

Done: `SaharaSync` with `SetReconciliation`, `LightMonitor`, `ShortestPaths` and
`DataPlane`, `Wire` and `BloomExchange`, and the proofs above. What is left, in order of
worth:

1. The rounds of `SaharaSync` with early timers but no losses: which of the properties of
   `RoundProofs` hold with one early timer on every network, as `sync_races` shows on
   `Kite`.
2. `OneTimerPerMessage` off `OneRelay`: whether some message gets two timers on every
   other network.

## Not modelled

* The strong monitor and key rotation: `m_lightActive` is a constant true that nothing
  sets (`SaharaSecurity.h:79`), so `VerifyDrop` is never called, and
  `UpdateNodeReputation` always returns true, so `GenerateNewKey` is not called.
* Flooding, with `HELLO_MESSAGE` and `AddTupleFlooding`: `m_flooding_ON` is a constant
  false. Encryption: its calls are commented out.
* The chain of hashes: it depends on the order in which a node learned its tuples.
* Movement, which changes the links between rounds only (the scenarios of `DataPlane` do
  so by hand); the set-up of the simulation drivers and their statistics;
  `routingTableNew`, the helper, the Python scripts and the result files.
* Functions that nothing calls: `DropPacketWithDst`, `Find`, `getDist`, `CheckDubleEntry`,
  `HashTuple`, `WriteStringToBuffer`, `ReadStringFromBuffer`, `BroadcastPacketSET`.
* Packet contents and logging.

Two things seen on the way that no property is about. The comment at
`saharaQueue.h:168-170` says of a full queue that its front is dropped; `Enqueue` rejects
the new packet, which is what the model does. And `Deserialize` returns a
distance that it never sets for hellos and missing tuples; nothing reads it.
