# Seanet in ns-3: a TLA+ model of the protocols

The repository is ns-3 3.32 with the Seanet experiments built into it: entity
identifiers (EIDs) resolved to network addresses, a storage service that finds
data by EID, and a multicast protocol that builds trees per EID. Seanet's own code
is in `src/src/applications/model` (switches, resolution servers, clients), in a
changed `src/src/nix-vector-routing` that shows packets in transit to the switches
they cross, and in the experiment `src/scratch/multicast.cc`. The rest is upstream
ns-3 and is taken as given, but for two of its programs that have threads of their
own and that the experiments are run with: the test driver `src/test.py` and the
live visualizer `src/src/visualizer`.

The protocols run in one discrete-event simulator. There are no threads in it, but
every packet, timer and start or stop time is an event, and which comes first depends
on topology, delays and queues. One event is one atomic action of those models. In the
models of the two threaded programs an action is what a thread does between two points
where another may come in.

## 1. Inventory

| Part | State | Operations | Talks to |
|---|---|---|---|
| Switch, IPv4 (`switch-application-v4.cc`) | three tables **shared by all switches**: `UnicastTable`, `MultiCastTable` (address and interface -> EIDs), `ResolutionTable` (EID -> addresses); a delay table of its own | start, stop, `DetecAllNeighborDelay`, `NeighInfoDetec`, `FrontEnd` with a branch per message kind, at the destination and in transit | clients, other switches, routing |
| Multicast client, IPv4 (`multicast-client-application-v4.cc`) | `m_sent`, `m_count`, scheduled calls | start, stop, `Write`, `Read` | its designated router (DR), a switch |
| Nix-vector routing (`ipv4-nix-vector-routing.cc`, `nix-vector.cc`) | nix-vector cache and route cache per node, `g_isCacheDirty`, `m_totalNeighbors` | `RouteOutput`, `RouteInput`, interface and address notifications | every packet |
| Switch, resolution server, client, IPv6 (`switch-application.cc`, `storage-resolution-application.cc`, `storage-client-application.cc`) | per server the queues `packetin` and `addressin`; stored EIDs; at most three addresses per EID; two events per client | `FrontEnd`, `AferEnd` and the handlers under it; `Write`, `Read`, `ReceiveCallback`; start, stop | one another |
| Resolution server and storage client, IPv4 (`resolution-application-v4.cc`, `storage-client-application-v4.cc`) | registered lists; `m_sent`, two events | registration, replies cut into packets of ten addresses; `Write`, `Read` | one another, the switch |
| Experiment (`scratch/multicast.cc`) | owns the shared tables | topology, start times: detection at 0 s, writers from 15000 s, readers from 20000 s | all |
| Test driver (`test.py`) | `input_queue`, `output_queue`, `thread_exit`, the jobs, `results.xml`, counters | main thread: dispatch, collect, join, report, exit status; worker threads: take, skip, run, hand back; `sigint_hook` | child processes, the user |
| Live visualizer (`visualizer/core.py`, `pyviz.cc`) | `lock`, `go`, `quit`, `target_time`, `pause_messages`; timers of the GTK main loop | simulation thread: wait, run a slice; GUI thread: `update_view_timeout`, `update_model`, play, speed, queries, `_quit` | the simulator, the user |
| EID and address types, headers, helpers, upstream ns-3 | values | conversion, construction | not modelled |

**What is hard.** A graft changes every switch it crosses before it has reached its
target; another reader may be sent to such a half-joined switch. Nothing is
acknowledged or retried, so a lost packet leaves what the earlier hops did. A switch
chooses a root from loads that registrations still under way have not yet changed.
Cached routes override the vector a packet carries. The IPv6 servers pair a packet
with its sender through two queues that each drop silently. Counters and chunk sizes
meet their limits. The test driver is interrupted by a signal at any point, its children
end in any way and in any order, and it must neither hang nor call a broken run a
success. The visualizer's timer callback runs the event loop inside itself while it waits
for the lock, so callbacks nest and find timers and flags changed under them. `PROJECT.json` lists these hazards at their lines.

**What makes each part correct.** Multicast: a branch has no gaps, data is sent only
along a complete branch, the tree is connected when it is at rest, registered switches
have joined, joins are answered. Routing: packets arrive, by a shortest way, where
their vector says. Storage: a packet keeps its sender, addresses are given out only
for stored data, the answer reaches who asked. Client: every group is written once
and read. Test driver: success means that everything passed, every test is reported, it
ends. Visualizer: the simulator stays close to what is shown, messages are shown once,
playing advances, quitting ends.

## 2. Modules

| Module | Models | Checked by | Proved in |
|---|---|---|---|
| `SeanetNetwork` | nodes, routes, packets under way | (used below) | |
| `SeanetTables` | the switch tables and the functions on them | (used below) | |
| `SeanetMulticast` | all IPv4 switches and multicast clients; the core | `MCMulticast`, `MCMulticastRing` | `SeanetMulticastProofs`, `SeanetTableProofs` |
| `EidRegistry` | abstract: what a resolution table promises | as `ImplementsRegistry` | `SeanetTableProofs` |
| `NixVector` | the bits of a nix-vector in words | (used below) | `NixVectorRoutingProofs` |
| `NixVectorRouting` | search, routing and its caches | `MCNix` | `NixVectorRoutingProofs` |
| `SeanetStorage` | the IPv6 storage service | `MCStorage` | `SeanetStorageProofs` |
| `SeanetStorageV4` | IPv4 resolution server, storage client, the switch's part | `MCStorageV4` | `SeanetStorageV4Proofs` |
| `MulticastClient` | the client's counter and EID bytes | `MCClient` | `MulticastClientProofs` |
| `TestRunner` | the threads of `test.py` | `MCTestRunner` | `TestRunnerProofs` |
| `TestReport` | abstract: what `test.py` promises its caller | as `ImplementsReport` | `TestRunnerProofs` |
| `Visualizer` | the two threads of the live visualizer | `MCVisualizer` | `VisualizerProofs` |
| `MCTopology` | interface numbers and shortest routes of a small network | | |

`SeanetMulticast` extends `SeanetTables`, which extends `SeanetNetwork`.
`NixVectorRouting` supplies what `SeanetNetwork` assumes of routes: a shortest path
that does not depend on other traffic (run `nix`, theorems `ShortestWays` and `VectorsFollowed`). `MulticastClient` supplies
what `SeanetMulticast` has as `WriteEid` and `ReadEid`.

### SeanetMulticast

A `FrontEnd` call runs to its end, so each of its branches is one action:
`RegistToSourceDR` (a client's write; picks the root node RN), `RegistToRN`,
`RegistToDestDR` (a client's join; picks the switch to graft to), `GraftRequest`,
`MulticastDataTrans`, `NeighInfoReceive`, `NeighInfoReply`. `RouteInput` gives a copy
of a packet in transit to the switch application of that node and then hands it on,
in one event: `TransitRegistToRN`, `TransitGraft`, and `Forward` where the node has no
running switch or the kind is ignored. `Unread` and `Drop` are external: a socket
without callback, and a queue that drops.

| Model | Code |
|---|---|
| `unicast_table[s][i]`, `multicast_table[s][i]` | lists under the key (address of s, interface i); key 0 is the whole switch. `AddCastTable` keeps no duplicates and only lengths are read, so a set will do |
| `resolution_table[e]` | the list in order of registration |
| `delay_table[s][t]` | `NoDelay` if t is not a key |
| `probes`, `scheduled` | events of neighbour detection that are yet to run |
| `net` | packets in device queues, at the `hop`-th node of their route |
| `Nil` | the uninitialised `Ipv4Address` that `FindNearestNode` returns for an unknown EID, and the RN of an RPT; it routes nowhere |
| `served` | observer, not in the code: who got data from whom |

`tree_type` is the attribute `TreeType` of the switches, chosen at the start from `TreeTypes`: Seanet, SPT or RPT.

Nondeterministic: the delay measured (it depends on queues), the order in which
`GetRootNode` walks its hash table when scores tie, and the order of all packets.
`Sampled` is the set of every tenth key that detection probes. `Phased` makes clients
wait as the start times of `multicast.cc` do; without it they start at any time.

Abstractions: the packets under way are a set, so two equal packets at the same hop
merge; the only equal ones are delay replies and repeated joins, whose handling twice
adds nothing to the tables but another delay measurement, which the choice of delay
covers. Routes are constants.
Packet contents other than the EID, and statistics and logging, are left out.

### NixVectorRouting

`neighbors` gives every node the nodes at the other ends of its devices, in the order of the devices; a
new link appends to both lists. `BFS` follows the grey queue of the code: `order` is the sequence of nodes ever pushed, those
from `head` on are still grey, `Turn` is one turn of the loop and `Visit` its inner body. `BuildNixVector` climbs the parents,
`Climb` by `Climb`. The loops are functions of the number of turns, taken at the number of nodes, after which nothing is
left to do. In `NixVector` a vector is its words
and its three counters; `AddNeighborIndex` and `ExtractNeighborIndex` shift and carry as the
code does, for words of `WordSize` bits (32 in the code). Where the code shifts by the full
width of a word, which C++ leaves undefined, the model takes the count modulo the width, as the
processors do that ns-3 is built for. `RouteOutput`, `RouteInput`, `LocalDeliver` and `Refuse` flush first if
`g_isCacheDirty`, and `RouteInput` prefers the cached route, as the code does. `m_totalNeighbors` is counted at a node's first
packet and kept, also when the node gains a link; new vectors are built with the true number. `fatal` is
`NS_FATAL_ERROR` when a vector has too few bits. Not modelled: a requested output
interface (Seanet binds none), bridges and shared channels, parallel links, and removal of
an address. A scenario is a network, the packets to send and the number of changes allowed,
so that one run has both traffic over many networks and changes under traffic.

### SeanetStorage

`FrontEnd` puts packet and sender into two queues; `AferEnd`, every 0.1 s, takes one of
each and calls the handler. `StopServer` leaves `FrontEnd` active, as the code removes
only the IPv4 callback. `Write` and `Read` schedule one another in `m_sendEvent` and
`m_readEvent`. A packet's `id` names the exchange it belongs to and `answered` collects
replies: both are observers. `sends` is only the bound `MaxSends`: the code's `m_sent` is never
incremented.

### SeanetStorageV4

`RepliesTo` is what `RequestHandle` sends: `Turn` is one turn of its loop, which cuts a list into
packets of `Chunk` (10) addresses, `Loop` the state after the last turn. The client's `ResolutionReplyHandle` takes byte 20, where the server puts the
finish flag, for the number of addresses; it does so in the model, and asks no switch.
The IPv4 switch's registration with the server is commented out, so `Register` comes from
registrants that are any sender of that message.

### MulticastClient

EID bytes 16 to 18 are counted from '1'. `Call` is one link of a chain: it stops at
`m_count` or counts, sends and reschedules itself. `StopApplication` cancels two events
that were never assigned, and so changes nothing but the status.

### TestRunner

A test is its kind, whether it stays out of valgrind runs, and whether it lacks a
prerequisite; the list of tests and the options are chosen at the start. The main thread
dispatches while the workers already run. A worker's turn is `Take`, then `Interrupted`,
`Skip`, or `GoAhead`, `Launch`, `run_job_synchronously`, `HandBack`; between any two of them
SIGINT may come or another thread may run. `returncode` starts as `False`, which equals 0,
and `is_break` marks a job that was not run. `ChildEnd` (external) is how a child may end:
its exit status, the results file it leaves, and whether its output can be decoded; what a
suite leaves follows from `test.cc`, which opens the file, runs and writes at the end, so that a crash leaves
no file, an empty one, part of one ("partial") or all of it.
`LaunchFails` is an exception of `Popen`, at most `MaxLost` times: the thread is gone with its job.
`Collect` is one turn of the loop over results; reading a results file that is missing raises and
ends the program with status 1. A partial file that was copied makes `results.xml` no XML: if a report is asked for, parsing it
raises (`ParseFails`). `ended`, `signalled` and `late` are observers: how a child
really ended, that the signal came, and how many children a worker launched since. `counted` gives each
job the status under which it was counted; for jobs that were handed back unrun it is
"broken", which the code has no name for.

`TestReport` is the promise: every test gets one verdict that never changes, and
status 0 if and only if all are PASS or SKIP. The refinement maps `verdict` to `counted`.

### Visualizer

`sim` is where the simulation thread is between two accesses to shared state (`quit`, `go`, the
lock). `gui` is the stack of callbacks that have not returned: while `update_view_timeout` finds
the lock taken it dispatches other callbacks ("spin"), and one of these may be another timer's
`update_view_timeout`. GLib (external) does not call a source again while its callback runs, so the depth
is bounded by the timers. `timers` are the sources attached, `update_timeout_id` is the one remembered; the
two may differ, as the code keeps the id of a removed source and forgets that of a live one.
`AskSimulator` stands for every callback that blocks on the lock for a query (selection, drag,
information windows). A slice ends at its target (`EndSlice`) or when the
script's own `Simulator::Stop` is due (`StopInSlice`, at `StopTime`). Time counts shortest sample periods; `AtMost` caps it at `MaxTime`.
`shown`, `dialogs` and `raised` are observers.

## 3. Runs

All state spaces are exhausted. `CHECK_DEADLOCK FALSE` everywhere, because a simulation
ends when no events are left, and the two programs end too.

| Run | Shows |
|---|---|
| `ring` | safety of the multicast protocol on a ring with a node that runs no switch, with loss, a switch that stops, and clients that start at any time, one of them both writing and reading, for each of the three tree types; `ImplementsRegistry` is the refinement to `EidRegistry` |
| `tree` | with the experiment's start times and no loss, for the tree types Seanet and SPT: the tree of a group is connected whenever no graft is under way, the load that root selection reads is that of the interfaces, registrations leave complete paths, and in an SPT the source DR is first in every list, whatever grafts follow; with fairness, every written group gets registered and every join of one is answered |
| `spt_source` | *violation*: SPT grafts do not go to the source (finding 1) |
| `nix` | for every order in which the links of two networks may be created, flows that share caches arrive by shortest ways and are not lost, through vectors of up to three words, and no cached route contradicts a packet's vector; when interfaces go down and up under traffic, a cached vector that may be used leads to its destination over open interfaces, and also when links appear, as long as no node has outgrown the width it remembers |
| `nix_links` | *violation*: a node that gained a link keeps its old count of neighbours (finding 3) |
| `storage` | loss, reordering, overflowing queues, a switch, the resolution server and a client that stop: packets keep their senders, only stored data is registered, answers reach who asked, a client's two events exclude each other and end with it |
| `storage_live` | without loss and overflow, a read of a registered EID is answered |
| `storage_v4` | lists of up to five addresses in packets of two are sent whole, in order, with one final packet; a client's counter and events keep within bounds |
| `client` | groups are written once, readers ask for written groups and sweep them all, every client falls silent; the two ends of the numbering are left out, see section 5 |
| `tests` | SIGINT, failing, crashing and unreadable children, partial results files and a lost worker in every interleaving with two workers: `SuccessMeansPassed`, `ReportCoversAll`, `InterruptStops`, the refinement `ImplementsReport`, and `Returns`: unless a worker is lost the program and its threads end |
| `tests_valgrind` | *violation*: a suite with valgrind errors has no VALGR entry (finding 2) |
| `viz` | every sequence of four user actions, a message from the simulator, a script that stops the simulator, and quitting at any time: `NeverFarAhead`, `MessagesShownOnce`, `PlayingHasTimer`, `PlayAdvances`, `QuitEnds` |

| Run | Distinct states | | Run | Distinct states |
|---|---|---|---|---|
| `ring` | 572646 | | `storage_v4` | 523559 |
| `tree` | 94341 | | `client` | 81291 |
| `nix` | 103030 | | `tests` | 416477 |
| `storage` | 603835 | | `viz` | 547553 |
| `storage_live` | 158172 | | | |

**Bounds, and why they are enough.**
- Tree: four switches around one, a writer and two readers, so that branches meet at an inner switch and a
  second reader can be sent to it while the first graft is under way. Two groups, so that loads differ; in `tree` one
  reader joins both, the other one.
  `ScoreBound` 3 lets every comparison of loads happen; the ring has 1, so that the case where no switch is below the bound
  (10000 in the code) happens too; in `tree` one always is. `DelayBound` 2 with delays 1 and 2: below the bound and at it.
- Ring: two ways of different length, so a branch and its answer may use different interfaces; a bare
  node on one of them.
- Nix: a square with tails, where equally short ways compete, and rings of five and six
  nodes; degrees 1 to 3 give indices of one and two bits; two changes give down and up again. Words of two bits: indices
  fit into a word, fill it, start a new one and lie across the border of two, and every shift by the full width happens.
- Storage: queues of length 1, so the second packet overflows; two slots instead of three, so that two writers fill the
  table; three sends per client, so Write, Read and Write again.
- IPv4 storage: packets of two for lists of 0 to 5: empty, short, full, full and more.
- Client: `EID_UNIT` 4 and `Base` 2 stand for 7000 and 100. `Byte` 5 stands for 256: it holds the
  hundreds of both writers. Larger tables wrap; see section 5.
- Test driver: two workers; no test, fewer tests than workers, as many and more; each kind, each reason to skip; one lost worker
  leaves one that works. A third worker or a fourth test adds no new situation, as a worker only meets the
  queues.
- Visualizer: two sample periods, so that a timer of one speed can be on the stack when the speed changes; three time
  steps; four user actions, which reach pause, speed change and play inside a nested event loop; one message.

**Fairness.** The simulator runs every event that is scheduled. Therefore weak fairness
on start-up events, on each client's `Write` and `Read`, and on `\E p : RouteInput(p)` (a packet
reaches the end of its link). Fairness for *some* packet suffices, as there are finitely many
and none is handled for ever. In `SeanetStorage` the same for `FrontEnd` and the client's
callback, and for each server's `AferEnd`, which reschedules itself every 0.1 s. No liveness
is claimed with loss: the code never retries.

`TestRunner`: weak fairness of the main thread and of each worker: the operating system
schedules threads and every child ends. No fairness of the signal or of `Popen` failing.
`Visualizer`: weak fairness of the simulation thread (a slice ends: it runs to a fixed time) and of the
callback on top of the stack; strong fairness of `Spin` and of the timers' expiry: an event loop
that handles events runs out of them now and again, because timers have a period and
the user's actions are bounded, and a timer that is again and again due is served. No fairness
of the user.

**Mutants.** Each property of each passing run has a mutant of a mapped definition (defined just
before it and marked as such) under which TLC finds it violated.

## 4. Proofs

The theorems hold for every value of the constants that the modules' named assumptions admit: any topology, any number of
switches, clients, EIDs, workers, tests or user actions, any queue, packet or table size, with and without loss and
stops. Where a theorem needs more it says so as a hypothesis, and the instance of the run that checks the property satisfies
that hypothesis. Every inductive invariant was first checked by TLC on the instances of section 3, except that of the routing, which
quantifies over sets that TLC cannot enumerate; there TLC checked what it implies.

| Theorem | States |
|---|---|
| **`SeanetMulticastProofs`** `TypeCorrect` | `TypeOK`; includes that each packet is on its route, short of its end, for a switch |
| `GraftLeavesBranchAlways` | switches a graft has crossed hold the group for the way back |
| `DataFollowsBranchAlways` | data under way or received means that the whole branch is in place |
| `RegistrationLeavesPathAlways` | the same as the first for RN registrations and unicast entries |
| `RegisteredAlways` | registered switches have joined; grafts go only to registered ones |
| **`SeanetTableProofs`** `LoadAlways` | `LoadIsWhatInterfacesHold` |
| `ImplementsRegistryAlways` | `Spec => ImplementsRegistry`: the refinement of `EidRegistry` |
| `SptRootIsSourceAlways` | `SptRootIsSource`, which speaks of SPTs |
| `TreeConnectedAlways` | without loss and stops, if routes between switches use links between switches and no group is written twice, `TreeConnected` |
| **`NixVectorRoutingProofs`** `NixTypes` | `TypeOK`; includes that vectors are filled to their last bit and never read beyond it |
| `CachesLive` | `CachedVectorsLive`, whatever interfaces go down and up; once links were added, as long as no node has outgrown the width it remembers |
| `VectorsFollowed`, `ShortestWays`, `NoPacketLost` | `FollowsVector`, `DeliveredByShortestWay`, `NothingLost`: until the network changes, packets go the way of their own vector, it is a shortest one, and none is lost |
| **`SeanetStorageProofs`** `StorageTypeCorrect`, `QueuesInStepAlways`, `RegisteredHaveStoredAlways`, `AnswersReachAskerAlways`, `EventsAlternateAlways` | the five invariants of run `storage` |
| **`SeanetStorageV4Proofs`** `StorageV4TypeCorrect`, `RepliesCarryTheListAlways` | both invariants of run `storage_v4` |
| **`MulticastClientProofs`** `GroupsWrittenOnceAlways` | if writers have different numbers below the range of a byte |
| `ReadsNameGroupsAlways` | if every number below `total_switch_num` is a writer's |
| `SweepCompleteAlways` | if a reader's number plus that of the writers stays within a byte, and the hundreds of all groups fit into one: three writers of 7000 groups at most, so not the shipped experiment |
| **`TestRunnerProofs`** `RunnerTypeCorrect`, `SuccessMeansPassedAlways`, `InterruptStopsAlways`, `ReportCoversAllAlways` | the four invariants of run `tests` |
| `RunnerImplementsReport` | `Spec => ImplementsReport`: the refinement of `TestReport` |
| **`VisualizerProofs`** `VisualizerTypeCorrect`, `MessagesShownOnceAlways`, `NeverFarAheadAlways`, `PlayingHasTimerAlways` | the four invariants of run `viz` |

**Branches** (`SeanetMulticastProofs`). From `TopologyAssumption` (a route is a path that starts and ends where it should and
crosses no client and neither end; interfaces are numbered from 1), `TablesAssumption`
and `MulticastAssumption` (a client is a neighbour of its DR). The invariant is `TreeInv`: `TypeOK`, the properties of
the table and `QuietBeforeStart`. The
last is what makes it inductive. `StartApplication` empties the switch's key (s, 0); if a table
could be filled before the start, that would undo a join. `QuietBeforeStart` says that nothing
is under way or entered until all switches have started, which the simulator's order of events at
time 0 gives. From it follows `Grows` (in a step, tables only grow and stopped stays
stopped), so that a branch once entered stays. `Origin` lists where a packet in `net'` can come from
(it was there, it was one hop earlier and its node entered it, or a handler sent it now).
`EnteredGrows` and `EnteredExtends` carry a branch over a step and over a hop. `DataFollowsBranch`
then follows from `GraftLeavesBranch` at the moment the graft is answered.

**Tables** (`SeanetTableProofs`). `LoadInv` again needs `QuietBeforeStart`, and that `AddCastTable` always comes in pairs, for the
interface and for key 0. The registry is a step simulation: all calls of `AddEIDNAINFO` append one new address or
nothing. `SptInv` adds that in an SPT the registrations under way go to a source DR and none to an RN; as `TreeInv` sends grafts
only to registered switches, what a graft registers comes after the source.

**The connected tree.** `ConnectedInv` strengthens `TreeInv` by `Explained`: every address in a group's list except the first is on
a branch that leads to one *earlier in the list*, joined to its end or with its graft still beyond that switch.
It needs `RegisteredOnce` (one packet at most carries the first registration of a group, and until it is handled the
list is empty), which is why two writers of one group are excluded; without that two trees could be begun.
At rest all these branches are joined, so a least exception, first along the list, then along the
branch, cannot exist. `ReachedFrom` is defined as the least closed set for this reason. Loss or a stop would
leave a branch short, and the theorem, like the code, claims nothing then.

**Routing.** From `WordAssumption` (a word has at least one bit) and `NixAssumption` (finitely many nodes; links are
point-to-point, at most one between two nodes, and no node has more of them than a word can number, which with 32 bits is no restriction). The
argument has four parts.
- *Bits.* `AddReadsBack`: the index that `AddNeighborIndex` puts in is what `ExtractNeighborIndex` reads when the rest of the vector is
  as long as it was after that call, whether the index fits, fills a word, opens one or lies across two, and the words
  below give the same answers as before. The shifts by a full width, which C++ leaves undefined, come out right with the count
  taken modulo the width. This is arithmetic of `Pow`, `\div` and `%` for every `WordSize`.
- *Search.* `Ball` is the set of nodes within k hops, `Near` the distance. `Tree` and `Scanned` are the invariant of the loop: in `order` each
  node comes after its parent, and of two nodes that one is first whose parent was scanned earlier, or by an earlier device; what has been scanned
  has all its neighbours in `order`. `BFSFound` is what this leaves when the queue is empty or dest at its head: dest
  has a parent (then the order of `order` makes the way to it a shortest one) or, by `NotFound`, cannot be reached.
- *The way.* `Best` is the first open device of a node that leads nearer to a destination; it depends on the network only and
  not on where the search began. `ParentBest`: the parents that the climb follows from dest are joined by best devices. That is why
  a cached route agrees with every packet's vector, whoever sent it. If a grey node could change its parent (the mutant
  `VisitAgain`), this would fail, and with it the shortest ways. `ClimbStep` and `ClimbEnds` give `GetNixVectorLeads`: the vector that
  is built makes every node on the way read its best device, and ends at dest; `FreshEnds` that `EndOf` then walks there.
- *Caches.* `IInv` is `TypeOK` with four parts. `Live`: unless a flush is due, cached vectors lead to their destinations.
  `Counted`: no node remembers fewer neighbours than it started with, so that before a link is added it reads
  with the true width (`WidthsBefore`). `Original`: the network is the initial one before the first change. `Steady`: until then
  every cached route is a best one, every packet is led to its destination with its hops and the way that is left
  adding up to the distance, and every packet sent is under way, has arrived, or had nowhere to go. None of the
  properties is inductive without them: `FollowsVector`, for one, says nothing of caches that no packet is at.

Both the existence of the recursive functions in `Pow`, `Turn`, `BFS`, `BuildNixVector`, `EndOf` and `Within` (`Recursion`) and induction over
them (`Inductive`) are stated of sets, as for the reply packets below.

**Storage.** `SoundPacket` says of *every* packet, under way or queued, who sent it, to whom, and that whoever it names stores the data;
together with `QueuesInStep` a handler that takes a packet from one queue and a sender from the other has matching ones.
`EnqueueProperties` is the lemma about a queue that drops. Stored EIDs are never removed, so soundness of a
packet survives every step.

**Reply packets.** `RequestHandle`'s loop is a recursive function; the provers neither know that it exists nor can apply
the library's induction schema. Both are done with sets: `Inductive` (from well-foundedness of the numbers, `WFMin`) says that a set
holding 0 and closed under successor holds all numbers; `RunExists` applies it to the set of numbers of turns for which a
function exists that satisfies the recursion, `LoopFacts` to those after which the loop is as `LoopOK` says: i = `Chunk` * sent
packets + addresses in `res`. `Place` gives each position of the list its packet.

**Client.** The arithmetic of `Write` and `Read` with division, remainder and the cut to a byte, for every `EID_UNIT` that is a
multiple of `Base` and whose hundreds fit into a byte. `NumbersUsedOnce` and `NoneLeftOut` in the invariant say that the chains of a client use
consecutive numbers, each once, also when a client of type All runs two of them on one counter. `AllCount <= EID_UNIT` is
met by the code's 10 and 7000.

**Test driver.** `OnePlace` (a job is in one queue, with one worker, or counted, never in two of these) is what keeps a verdict final;
`Evidence` ties what is handed back to how the child ended; `Progress` that the exit status is only set when all are counted.
Then each `Collect` is `Decide` of `TestReport`, `Finish` is `Return`, all else stutters. For the report, `ReportInv` adds `Gathered`
(`results.xml` shows each counted, readable job, and no other; once, unless valgrind found an error in it) and `Children` (a suite that did not crash leaves no
empty file; nothing is marked broken without a signal). `findall` is a recursive function and is treated like the reply loop.

**Visualizer.** `Stack` (all callbacks but the innermost wait in the event loop and hold no messages), `Ahead` (the target was set
one sample period past what was shown, for some period that exists), and `FewTimers`: the timers attached, being
called or remembered are at most one more than what the user has done, so a source id is always free and
`Fresh` is defined. `MessagesShownOnce` is inductive given these.

**Only model-checked.** Liveness (`WrittenGetsRegistered`, `JoinGetsServed`, `ReadAnswered`, `ChainsEnd`, `Returns`, `PlayAdvances`,
`QuitEnds`): it rests on fairness and ENABLED, which are beyond this prover. Every invariant and both refinements that the passing
runs check are proved.

## 5. Where code and text disagree

Checked by a run that ends in a violation:

1. `spt_source`. A comment in `FindNearestNode` says that in an SPT the first registered point is
   the source; the code takes `list.back()`. Transit switches register on every graft, so the second
   reader is sent to one of them.
2. `tests_valgrind`. A comment in `test.py` says that a suite in which valgrind found an error gets an
   entry with the result VALGR after its own. The code copies the suite's results and adds none, so
   the text and HTML reports show PASS; the summary and the exit status do count the error.
   `ReportCoversAll` leaves room for the second entry.
3. `nix_links`. The header of the routing says that upon a change of topology the total number of neighbours is
   reset to zero; `ResetTotalNeighbors` is neither defined nor called. A node that gains links reads indices with its old width,
   while `BuildNixVector` writes them with the new one. `CachedVectorsLive` fails in that case and therefore excludes it.

Seen while modelling, and part of the models, but without a run of their own:

- The routing documentation says a node sends a packet by the index it extracts from its vector; `RouteInput` lets
  a cached route override it. Without changes of the network the two agree (`FollowsVector`, which says so for
  `changes = 0`). With caches refilled after a change they differ for packets sent before it.
- `TreeType` RPT is offered and has no branch: the RN stays uninitialised and no group is registered.
- `MaxPackets` bounds no client as documented: the IPv6 storage client never counts, the IPv4 one
  counts pairs, the multicast client overwrites the attribute at its start. No property claims that clients go on.
- The multicast client keeps no `EventId`, so stopping it cancels nothing: it sends up to `m_count`, against the documented
  meaning of the stop time. `ChainsEnd` says only that it falls silent.
- Readers number groups 0 to `EID_UNIT` - 1 and writers 1 to `EID_UNIT`: the last group of a writer is never read.
- With more than three writers the hundreds of a reader's counter exceed a byte and it
  no longer sweeps all groups. The shipped experiment has more, and one writer whose groups no reader is told of.
- The IPv4 storage client misreads the resolution reply, see above.
- A worker thread of `test.py` that dies of an exception leaves the main thread waiting for its job for ever
  (the exception in `Returns`).
- Undecodable output turns the exit status of a crashed suite into 1, and its results file is then read, if it is
  there; if not, or if it is partial and a report is asked for, `test.py` ends by an exception.
- After pausing and changing the speed inside a nested event loop, the visualizer may run with two timers, one of which it
  can no longer remove. `NeverFarAhead` holds all the same.
- An EID's three slots in the IPv6 resolution table may all hold the same switch.

## 6. Not modelled

`ResolutionProtocolHandle` of the IPv4 switch is dead code; `REQUEST_DATA` reaches no IPv4 switch. Value types,
header serialisation, helpers, topology reading and address assignment have no behaviour of their own. Statistics, tracing
and logging. Upstream ns-3, except what the modules mark external, and except the two programs above.

The Python bindings (`modulegen__gcc_*.py`, two per module) are generated declarations: nearly all of the repository's 760000
lines of Python, and nothing in them changes state. A share of lines of the whole repository therefore says little
about this project, whose subject is the C++ of the protocols and the two Python programs. Of the visualizer, drawing and
plug-ins are left out: they read simulator state under the lock or, in `autoscale_view` and the OLSR menu, without it, which
Python's interpreter lock does not make safe and no model of the shared state could
decide without the simulator's internals. `grid.py`, `check-style.py`, `create-module.py` and the waf
scripts are single-threaded conversions.

## 7. Plan

The inventory is covered as far as section 6 says, and its invariants are proved. Extensions, if more is
wanted: routes of `NixVectorRouting` composed with the
multicast protocol; comparison and hashing of EIDs and addresses; readers beyond the range of a byte.
