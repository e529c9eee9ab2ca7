# Verification of the Routerless NoC simulator

This directory holds a TLA+ model of the simulator under `src/src`, the TLC
runs that check it on small networks, and proofs, checked by TLAPS, that every
safety property of these runs holds for all topologies, traffic, buffer sizes,
simulation times and configurations.
`PROJECT.json` lists components, runs, findings, hazards and theorems, and maps
every definition to the source lines it stands for.

## 1. The system

A routerless network-on-chip has no routers: its nodes are crossed by
unidirectional rings on which flits move one hop in every cycle.  A node takes
flits addressed to it off the rings (ejection), puts its own on them
(injection), and may park a passing flit in an *extension buffer* (EXB) while
its own packet takes the slot.  The simulator is single-threaded, but a cycle
is a long chain of steps on shared state: the rings move one after the other,
then the nodes run one after the other, and packets, rings, EXBs and nodes
point into one another.

| Component | State it keeps | Operations | Talks to |
|---|---|---|---|
| Main loop, `Noc` | `global_cycle`, nodes, rings | `run`, `init_ring`, `init_routing_table`, `stat_gather` | moves the rings, then runs the nodes in order |
| `Node` | single buffers, `m_ej_order`, `m_ej_record`, `m_forward_exb_length`, routing tables | `recv_flit`, `ej_arbitrator`, `inject_eject`, `continue_inject_packet`, `handle_rest_flit`, `ejection`, `forward` | reads rings, drives `Injection` and `ExbManager` |
| `Injection` | injection queue, ongoing packet and its ring, interrupt flag | `packetinfo_generator`, `inject_new_packet`, `controlpacket_generator` | draws from `Traffic`, attaches packets to rings |
| `ExbManager` | slot arrays; `occupied`, `single_buffer_index`, `indicator` of each EXB | `exb_available`, `set_exb_status`, `check_exb_bound`, `push`, `pop`, `pop_and_push`, `interrupt_pop`, `release_exb`, `cal_forward_packet_length` | sets the status of flits |
| `Ring` | attached packets, order of its nodes | `attach`, `dettach`, `flit_check`, `update_curr_hop` | owns packets and flits, deletes them when the last flit is ejected |
| `Flit`, `Packet` | status, current node, sequence number, creation time | constructors, setters | owned by rings, referred to by EXBs and injections |
| Topology, `RlrecAlgorithms` | none | `topology_generate` | gives rings their corners |
| Routing tables | per destination: rings and hops | `update_routing_table`, `table_sort` | filled by control packets that travel once round every ring |
| `Traffic` | `packet_id` | four patterns, weighted sizes | gives a node at most one packetinfo a cycle |
| Configuration | `GlobalParameter` | `configure`, `readParam`, `get_exb_size`, checks | read by all others, never changed once the network runs |
| Statistics | `Stat` of every node and of the network, `warm_up_packet`, `unrecv_packet_num` | `update_flit_stat`, `update_packet_stat`, `reset_stat`, `stat_gather` | written by ejections and destructors; nothing in the network reads them |
| Random numbers, logging, `main` | | | |

What is hard here is not concurrency but *coincidence*: an injection, a
forwarded flit and a flit popped from an EXB compete for one slot in one
cycle; a flit that loses the ejection links comes back a lap later, behind its
successors; an interrupted injection counts flits that arrive while it counts;
a packet is deleted when its last flit is ejected, whoever still refers to it.
Such states need several nodes, full buffers and the right cycle, and the
repository has no tests.  What makes each component correct:

* rings: no two flits in one slot of a ring (`WireExclusive`);
* EXBs: bounded FIFO queues that hold each parked flit once, never overflow, are
  never popped empty and are given back (`BufferedOnce`, `ExbInUse`,
  `PoolService`, `StatusConsistent`, `OccupiedInUse`);
* injection: packets start in order, a packet leaves its node header first and
  tail last, an interrupt stops on what one packet has in the buffer
  (`OngoingConsistent`, `InterruptWindow`, `ForwardWindow`);
* ejection: later flits before earlier ones, older before younger, and always
  the next flit of a packet (`LaterFlitsFirst`, `OldestHeaderWins`,
  `OldestWinsAlone`, `EjectedInOrder`);
* start: as many rings as there are places, each a cycle without repetition;
  every control packet comes back and is the one deleted; the tables hold every
  way and the shortest first (`RingsAsAllocated`, `OwnPacketDetached`,
  `TablesComplete`, `Starts`);
* traffic: destinations exist and have a route, patterns are permutations, draws
  follow the weights (`DestinationKnown`, `PartnersArePaired`, `WeightsCount`);
* statistics: the summary is that of the cycles after the warm-up, and the
  numbers of packets sent, received and left over add up (`SummaryExact`,
  `PhasesBalance`, `EjectionRate`, `NeverEarly`);
* the network: flits arrive where they were sent to, in order and never twice
  (`DeliveryService`), every packet generated is accounted for at any moment
  (`Conservation`), and the network runs empty (`Drains`).

## 2. The modules

| Module | What it is |
|---|---|
| `Arbitration` | the choice `ej_arbitrator` makes, as operators on the arrivals |
| `Arbiter`, `MCArbiter` | one node's single buffers through a cycle, with any arrivals |
| `Topology` | RLrec rings of a k x k mesh, successor on a ring, order of the routing tables |
| `Traffic` | what the four patterns and the packet sizes may draw |
| `Configuration` | `configure`: defaults, derived parameters and checks |
| `Startup`, `MCStartup` | the program up to its main loop: configuration, rings, control packets, routing tables, first draws |
| `Noc` | the network: the nodes' cycles and the movement of the rings |
| `Delivery` | what the network promises its users: each flit of a packet at its destination, in order, counted once; `Noc` is shown to implement it |
| `MCNoc` | instances of `Noc` on RLrec topologies |
| `Simulation`, `MCSimulation` | `Noc` with its clock, from cycle 0 to `sim_time`: warm-up, statistics, summary, destructors |
| `ExbManager`, `MCExbManager` | the arrays and status fields of a node's EXBs under the calls of `Node` |
| `ExbPool` | a bounded pool of bounded FIFO queues; `ExbManager` is shown to implement it |
| `ExbManagerProofs` | the proofs about `ExbManager`, and that it implements `ExbPool` |
| `NocSteps`, `NocProofs` | the proofs of `Noc`'s invariants, and that it implements `Delivery` |
| `SimulationProofs` | the proofs about clock and statistics |
| `StartupLemmas`, `StartupProofs` | the proofs about configuration, rings, control packets, tables and draws |
| `ArbiterProofs` | the proofs about the arbitration |
| `NumberLemmas` | finite sums, induction over a set of numbers, iteration, quotients and remainders |

### Noc and the code

| `Noc` | code |
|---|---|
| `turn`, `cycle` | the loop over the nodes in `Noc::run`, `global_cycle` |
| `packet`, `flit` | packets attached to rings with the status and node of their flits; `DOMAIN packet` is what is in memory |
| `queue`, `ongoing`, `interrupt` | `m_injection_queue`, `m_ongoing_packet`, `m_interrupt` |
| `exb` | bound EXBs of a node by ring, each as the queue `ExbPool` says it is |
| `forward_length`, `record` | `m_forward_exb_length`, `m_ej_record` |
| `received_flit`, `received` | what `update_flit_stat` and `update_packet_stat` count, never reset (`Simulation` has the reset) |
| `RunNode` | `Node::run` of one node: generate, receive, arbitrate, inject or continue, handle the rest |
| `Idle`, `Inject` | `inject_eject` without an ongoing packet |
| `InterruptPop`, `InjectFree`, `InterruptPopAndPush`, `StartInterrupt`, `InjectPush` | the five branches of `continue_inject_packet`, in its order |
| `RestExb`, `RestPopped`, `RestPushed` | `handle_rest_flit` for all rings but the one handled |
| `Settle`, `Detach` | `ejection` with the record and the deletion of packets, and the status of all flits touched |
| `MoveRings` | `update_curr_hop` of every ring and the next cycle |

One action is the whole run of one node, as in the code, where nothing comes
between its steps.  The single buffers are filled at its start and cleared at
its end, so they are an operator (`Arrival`) and no variable.  A packet is
known by its id and a flit by packet and sequence number; hop counts, arrival
times and latencies are left out, because only statistics read them.

`Arrival` picks the flit that `flit_check` finds first.  That there is only one
is not assumed: `WireExclusive` says so.

`Arbitration` keeps the counters and loop bounds of `ej_arbitrator`.  `std::sort`
does not define the order of equal keys, so `EjectSets` holds every outcome some
order allows; `Noc` and `Arbiter` choose from it.

The rings of a node are tried in the order of its routing table.  In `Noc` that
order is the constant `Route`; `Topology` computes it for RLrec from hop counts,
and from the order in which control packets return.  The proofs about `Noc` ask of
`Route` only that its rings lead through both nodes, in whatever order.

### Startup and the code

`stage` is where the program is: `configure` (`Configuration`), `topology` and
`rings` (`init_ring`, with one `BuildRing` per constructor of `Ring`), `inject`
(`controlpacket_generator`, one node a step), `move` (`update_curr_hop`) and
`handle` (`handle_control_packet`, one node a step) in turn until no ring holds
a packet, `sort` (`table_sort`), and `ready`; or `exit` where the program ends by
a check and `crash` where it follows a null pointer.

A ring keeps its control packets in the order they were attached, because all of
them have id 0 and `dettach` takes the first: which packet goes depends on that
order, and `OwnPacketDetached` says it is always the right one.  A table is a
function from destinations to sequences of rings and hops, since an entry is
looked up by its node id.  `TablesComplete` compares the tables, once sorted,
with `RingsVia` of `Topology`: the order of the rings in the network models is
therefore derived from the control packets, ties included.

`std::sort` as it is built keeps the order of equal keys in up to 16 elements
(`StableSort`).  On meshes from 10 x 10 on some nodes are on more rings than that.
There the model leaves the order of equal keys open: `ReturnOrders` has any order
in which packets that return together may be handled, and `Sorted` is any
order by hops (it is a `CHOOSE`, so that the proofs can use nothing else of it).
`TablesComplete` then says that the table has the same ways and the shortest
first, and says nothing of ties.  The meshes of the runs are below this limit;
beyond it there are only the proofs.

In `ready` the model draws packetinfos of single nodes, to compare the patterns
with the tables.

### Simulation and the code

`Simulation` takes `Noc` with its actions as it is and adds what they leave out:
`time` is `global_cycle`, `stat` the `Stat` of the nodes, updated by
`SimulateNode` with the flits the run of the node ejects, in any order the
arbitrator may take them.  `EndOfWarmup` is the test at the end of each cycle,
`Finish` the last cycle with `stat_gather`, `Destroy` the destructors that count
packets in queues and on rings.  `ejected` and `backlog` are history variables:
every flit ejected since the last reset with its delay and its way, and the
packets under way at the reset.  The statistics are compared with them.

### What the bounds are

* `MaxPackets`: packets generated in a behaviour.  `MaxCycle`: traffic is
  generated in cycles 0 to `MaxCycle - 1`, after which the network runs on
  without new packets (`cycle` then stays at its bound, and nothing reads it).
  In `Simulation`, `time` goes on and gives the delays.
* `SimWarmup`, `SimTime`: `sim_warmup` and `sim_time` of `Simulation`; the last is
  `sim_time` of the configuration plus the warm-up, as `configure` adds it.
* `Files` (`Configuration`): the configuration files a run tries.
* `MaxTime` (`Arbiter`): creation times of arrivals.
* In `MCExbManager`: numbers of single buffers, packets, EXBs and slots.

`Noc` itself has no `sim_time`: a behaviour may stop after any step as far as
safety is concerned, and only `Simulation` asks what is true at the end.

## 3. The runs

| Run | Instance | Shows |
|---|---|---|
| `arbiter` | four rings, two ejection links, any arrivals | `LaterFlitsFirst`, `OldestHeaderWins`, and `OldestWinsAlone`, the priority by age where it does hold |
| `arbiter_oldest` | the same | a violation of `OldestWins`, see Findings |
| `exb_manager` | two EXBs | the status fields agree, no empty EXB is popped, the forward count fits, and the arrays implement `ExbPool` |
| `exb_forward_join` | the same | a violation of `SamePacketJoins`, see Findings |
| `noc_max` | 2 x 2 mesh, mode Max, every node to every other, lengths 1 and 3, three packets | types, fresh ids, exclusive slots, exact buffers, conservation, delivery |
| `noc_avg` | 2 x 2 mesh, mode Avg, one EXB of three slots, lengths 1 and 5, four packets; all nodes send to node 0, which sends across the mesh | interrupted injections with several packets in one EXB; order, window, delivery |
| `noc_drain` | as `noc_avg` with three packets | the network runs empty |
| `noc_oversize` | mode Max, packets of five flits, EXBs of one | packets that `packet_ratio` makes longer than the EXB: no overflow, and it still runs empty |
| `noc_self` | `Simulation`: BitReverse on four nodes, mode Avg, lengths 1 and 5, four packets sent in cycles 0 to 3, warm-up to cycle 2 of 10 | packets of a node to itself; the statistics, with packets sent before and after the end of the warm-up, and under way when it and when the simulation ends; delivery |
| `startup` | 48 configuration files: all patterns, sizes and modes on 2 x 2 and 4 x 4 meshes, and files that are refused | rings, control packets, tables, draws, EXB sizes; the main loop is reached |
| `traffic_self` | BitReverse on 2 x 2 | a violation of `NeverToItself`, see Findings |
| `noc_mesh` | ten rings of a 4 x 4 mesh, four sources, one ejection link | contention where eight rings meet, losers circulate and come back |

Why the bounds are enough.  The smallest RLrec network has four nodes and two
opposite rings; a packet of five flits is longer than the whole ring, so its
header comes back to its source before its tail has left, a single flit and a
long packet meet in one EXB, and every branch of `continue_inject_packet` is
taken.  Two packets are enough for contention between an injection and a
passing packet, three for a third packet that shares the EXB, four for a lap
lost at ejection with the others under way.  The 4 x 4 mesh adds rings of
different length, a choice of rings and many arrivals in one cycle.  Every
invariant of a passing run is also proved without bounds, and so are
`DeliveryService` and `PoolService`; only `Drains` and `Starts` rest on the bounds.

The initialization has no bound but the size of the mesh.  2 x 2 is the base of
the recursion of RLrec and 4 x 4 its first real step, with ten rings of different
length, most of which meet at the inner nodes, so that control packets return in
the same cycle and in different ones.  The warm-up of `noc_self` ends after cycle 2 while packets
are queued, on rings and in EXBs; packets are sent in the cycle after it too, and
ten cycles are enough for a packet to arrive on either side of the reset and for
one to be still under way at the end.

Each property of a passing run has a faulty variant of a definition (marked
*Faulty* in the modules) under which TLC finds the property violated.

### Fairness

`FairSpec` adds `WF_vars(Next)` and nothing else: the main loop goes on, as
`Noc::run` does until `sim_time`.  There is no fairness for a node, a ring or a
packet; that every node gets its turn follows from `turn`, as in the code.
`FairSpec` of `Startup` is weak fairness of `Next` as long as it changes the
stage, the node a loop is at, or the rings built: a single thread that waits for
nothing goes on.  It leaves out the draws in `ready`, which may go on for ever.
`Starts` then says that the loop of `init_routing_table` ends, which has no
bound of its own: it goes on until no ring holds a packet.

`Drains` needs the traffic to end, which `MaxPackets` and `MaxCycle` see to; no
fairness is assumed of the arbitration, so it holds however equal keys are
ordered.

## 4. What is proved

The theorems hold for every number of nodes, rings, EXBs, slots and ejection
links, every routing and traffic, packets of any length, every warm-up and
simulation time, and, for the start, every configuration file.  What they assume
are the named assumptions of the modules.  `NocAssumption` asks of the topology
only that a ring's successor stays on the ring and is injective, and that a
route leads over rings through both its ends; of the EXBs that they hold at
least one flit.  `ExbAssumption` is the same for one node, `SimulationAssumption`
adds that the warm-up ends before the simulation does, and `FilesAssumption` is
what `configure` takes for granted of a file (section 6).  Every invariant and
every implementation a passing run checks is stated by a theorem.

**Noc.**  `NocProofs!Invariance` proves the invariant `IInv` (in `NocSteps`):
`TypeOK`, `FreshIds`, `WireExclusive`, `BufferedOnce`, `ExbInUse`, `BoundFinite`,
`OngoingConsistent`, `EjectedInOrder` and `InterruptWindow`.  None of these is
inductive alone.  A slot stays exclusive because the EXBs put only buffered flits
on the wire and each of them once (`BufferedOnce`); buffered flits are not in a
deleted packet because its last flit leaves last (`EjectedInOrder`), which needs
the record to be exact; the ongoing packet is not deleted because its tail is
still to be injected (`OngoingConsistent`); and an EXB has a flit to forward
because the count fits it (`InterruptWindow`).  `BoundFinite` is only there for
the cardinality in `ExbInUse`.

The seven actions of a node differ in what they put where, but have a common
shape, `NodeStep` in `NocSteps`: sets of flits that go onto a wire, off it, are
ejected, or are created, with the conditions under which these sets are
disjoint and hit free slots.  `NocSteps` proves that each action makes such a
step, `NocProofs` that such a step keeps each conjunct, and that `MoveRings`
does; moving rings keeps slots exclusive because successors are injective.

**Conservation.**  `NocProofs!PacketsAreConserved` proves that the packets
generated are those in queues, on rings and received.  It is a balance between
`next_id`, the lengths of all queues, the number of attached packets and the sum
of `received`, and a run of one node moves packets between three of these at
most: it may generate one (`next_id` and its queue grow), may start one (from
the queue to the rings) and may complete several (from the rings to `received`,
one for each packet whose last flit it ejects).  `BalancedBy` states the balance
by the changes of a step, `RunBalance` shows it for a run.  Sums over nodes
are handled by the lemmas of `NumberLemmas`: a sum changes as its one changed
term does.

**Delivery.**  `NocProofs!ImplementsDelivery` proves `Spec => DeliveryService`
from `IInv`.  The mapping shows the queues as they are, for every attached packet
its destination and *which* of its flits are not yet ejected, and the nodes'
counts of flits and packets.  `Delivery` takes from a packet only the flit with
the lowest sequence number that is still owed (`Due`), so that two flits of a
packet ejected in the wrong order are no step of it, and counts with every flit
taken in, so that one ejected twice, which leaves what is owed as it is, is none
either.  What has to be shown of a run of a node is that each flit ejected is the
one due of its packet and addressed to this node, for which `EjectedInOrder` and
the record are needed (`ArrivalInOrder`); that a packet gives at most one flit,
since arrivals are on different rings and a packet is on one, so that the node
counts as many flits as packets take part (`EjectedCount`); that a packet
disappears, and is counted, exactly when nothing else of it is owed; that a
packet that starts is the head of the queue, with all its flits to come; and
that no more packets than `EjPorts` take part, which a bijection between them
and the rings chosen shows.  Rings, EXBs and
interrupts only occur as steps that change none of this.

**Simulation.**  `SimulationProofs!SimulationInvariance` proves `SimInv`, which is
`IInv` and, for the statistics: the types and ranges of clock and counters
(`Ranges`); that no packet was created after the present cycle (`Created`);
that a flit that has entered the network has made no more hops than cycles
passed since its packet was created, its place in the packet counted too
(`Underway`), from which `NeverEarly` follows; that an ejected flit belongs to
no packet still to be sent and is marked as ejected for as long as it is in memory
(`Gone`), so that it is not counted twice; that the counters of the nodes together
are the number and the sums of delays of the ejections since the reset (`Sums`)
and their maxima those of the ejections (`Maxima`); the bound by cycles and links
(`EjectionRate`); the balance of packets sent and received since the reset with
those under way at the reset (`Balance`); and what the summary is after the last
cycle (`Final`).  The step that needs work is a run of a node: it may
eject several flits, which the model adds to `stat` one after the other in an
order it chooses.  `Adds` says what any number of ejections together make of a
`Stat`; one more ejection keeps it, and by induction over their number it holds
for the run.  The reset and the summary then only replace or sum up terms.

**ExbManager.**  `ExbManagerProofs!Invariance` proves the conjunction of the four
invariants the run checks, for any sequence of calls a node makes.
`ExbManagerProofs!ImplementsPool` proves `Spec => PoolService`: the arrays behave
as the queues that `Noc` uses in their place.

**Start: configuration and draws.**  `ConfInv` is what the checks of `configure`
leave of the parameters; `ExbFits` follows by the rounding of `GetExbSize`.  It
covers the lengths from short to long, and says of those in `packet_ratio` only
that the ones beyond long do not fit an EXB in mode Max; what the network then
does is `noc_oversize` and `ExbInUse`.
`DrawsFollowWeights` needs that the weights up to an entry grow with the entry,
so that the numbers that select it are an interval.  For `PartnersInvariance`,
transposing is swapping quotient and remainder by the side of the mesh; for bit
reversal, the state of the loop after i shifts is written as the i lowest bits
that have gone to the destination and the rest (`MovesAre`): a second reversal
then returns the bits where they came from, for any number of bits
(`ReversedFacts`).  `Pow2` is a recursive function and not the built-in power,
which the provers do not interpret.

**Start: rings.**  `BuildInv` says that the rings built are the first of the
tuples of RLrec, and that nodes know those they are on.  The rest is geometry.
The four runs of the constructor of `Ring`, put together, visit the border of a
rectangle, clockwise or not: a node of the border has one place, and consecutive
places, the last and the first too, are neighbours (`IsCycle`).  A layer of the
recursion adds 6 l - 4 rings for a square of side 2 l, and any two nodes with
one of them on the border of the square share one (`LayerConnects`); so any two
nodes of the mesh share a ring, and `cal_ringnum` is 3 m^2 - m for a mesh of
side 2 m (`RingNumEven`).  `RingsInvariance` follows.

**Start: control packets and tables.**  `SendInv` gives the position and notes of
every control packet after m moves: the packets on a ring of length l are those
of all its nodes, each m hops from its node with the m nodes behind it noted,
in the order they were attached, and after l moves they leave in this very order
as the nodes are served in theirs (`Circulating`, `PacketOf`).  Therefore the
packet that has returned is always the first of the list, which is what
`DetachInvariance` needs: `dettach` deletes the first.  The table of a node then
holds the ways over exactly the rings whose packets are back (`TableOf`), the
shorter rings first.  When no packet is left these are all its rings, and
`table_sort` puts them into the order of `RingsVia` (`SortedWays`), which gives
`TablesInvariance`; `DestinationInvariance` adds what destinations the patterns
draw, all of which are nodes of the mesh.

**Arbiter.**  The three priority properties are proved for any number of rings
and links (`ArbiterProofs`).  They only need that the rings chosen are one of
`EjectSets` (`ChosenAlways`); the rest is about that operator: which part of a
group is aged when no later group is present, and what the last sort compares.

**How induction is done.**  Theorems with an operator as a parameter cannot be
used here, so `NumberLemmas!Induction` is about a set of numbers: a set that holds
0 and with n also n + 1 holds all.  A proof by induction defines the set of
numbers for which its claim is true.  Sums and folds over finite sets are shown to
be what they are by counting the elements of the sets in the same way.  The lemmas
about sums, orders and sequences put together are stated for all sets and
sequences, not for those of the model.

**Only model-checked.**  Liveness under fairness, which the proof system does not
handle: `Drains` and `Starts`.  The three runs that show a violation have nothing
to prove.

## 5. Findings

1. `arbiter_oldest`: `ej_arbitrator` is documented to let the oldest flit of each
   group win (`Node.h:233`).  The loops that replace the tag of payloads and
   tails by their creation time (`Node.cpp:307`, `312`) end at the size of the
   group instead of its end, so a payload that arrives together with headers
   keeps the constant 1 and its age does not count; tails likewise.  Headers are
   not affected.  `OldestWinsAlone` states what remains true.
2. `exb_forward_join`: `ExbManager.h:93` says the forward count is recalculated
   when an arriving flit belongs to the packet being forwarded.  It is only while
   it equals `exb_size` (`ExbManager.cpp:130`): after one flit went into a free
   slot, later flits of that packet are not counted, and the interrupt ends in
   the middle of a packet.  It is a matter of performance: delivery still holds.
3. `traffic_self`: `Injection.h:90-91` says that a packetinfo whose source and
   destination are the same is abandoned.  `TrafficBitReverse` compares the
   destination with `local_id` after its loop has shifted `local_id` to zero
   (`Traffic.cpp:85`): node 0 generates nothing, as it should, but every other node
   whose number reads the same backwards sends to itself.  `noc_self` shows that
   the network delivers such packets all the same.

Smaller divergences met while modelling, without a run:

* "Number of Packet sent during warm up phrase" is one more than were sent:
  `warm_up_packet` is `packet_id + 1` (`Noc.cpp:48`), and `packet_id` already is the
  number of packets.  The number for the simulation phase adds the one again
  and is right, as `PhasesBalance` shows.
* With `sim_time` 0 in the configuration the loop ends before the cycle
  `sim_warmup`: nothing is reset and the number of packets of the simulation
  phase is one too large.  `SimulationAssumption` leaves this case out.  The
  check behind "must be greater" lets equal values pass (`Accepted`).
* The statistics are reset at the end of cycle `sim_warmup`, so that one cycle
  less is measured than the divisor of the throughput says.
* `random_int` includes its upper bound: the last hotspot and the last packet
  size weigh one more than configured (`WeightsCount` states the exact law).
* `Transpose` wants a number of nodes that is an even power of two, but tests only
  the logarithm rounded down: a 10 x 10 mesh passes.
* An unknown word for `ring_strategy` means IMR, whose generator is empty: the
  program goes on and follows a null ring (`MissingRing`).

## 6. Not modelled

* Random number generators: vendored; a draw is a choice in the models.  The
  injection rate is therefore the choice whether a node gets a packet at all,
  which covers every rate.
* Throughput and average latency: quotients, in floating point, of the counters
  that `Simulation` has; output, logging and tracing (`packet_tracer` and
  `stat_correction` are never called).
* Configurations that `configure` does not check and goes wrong on: a short packet
  longer than a long one, a hotspot pattern without hotspots, a
  `method_size_generator` of 1 without a `packet_ratio` or other than 0 and 1 (both
  read the last entry of an empty list), negative weights, values that are no
  numbers (`FilesAssumption`); meshes that are not square.
* Memory: `new` and `delete` are the domains of functions; that no flit of a
  deleted packet is used is `BufferedOnce` and `EjectedInOrder`.
* `ImrAlgorithms`, which is empty, beyond what it leads to.

Most of the source lines of the repository are not the simulator's: of about
10 400, plog under `src/lib` and the output of CMake under `src/cmake-build-debug`
and `src/lib/plog/samples` are two thirds.  They have no part in the behaviour
described here, and the map covers the simulator's own files.

What would be worth adding: `Noc`'s EXBs as an instance of `ExbPool`, so that the
two models are joined by a refinement and not only by their definitions; and a
theorem that the rings and tables of `Startup` satisfy `NocAssumption`, so that the
proofs about the network apply to RLrec by proof and not by evaluation.
