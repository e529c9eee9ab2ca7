------------------------------ MODULE Startup ------------------------------
(***************************************************************************)
(* The program from its start to the first packets: configure(), init_ring *)
(* and init_routing_table.  The rings are built one by one; then every     *)
(* node sends a control packet round each of its rings, and learns its     *)
(* routing table from those that come back.                                *)
(***************************************************************************)
EXTENDS Configuration, Topology

VARIABLES
  tuples,     \* m_tuple: the corners and directions of the rings to build
  order,      \* the rings built so far, as the nodes in ring order; ring ids
              \* count from 0, so that ring r is order[r + 1]
  curr_ring,  \* node -> m_curr_ring_id
  attached,   \* ring -> its control packets, in the order they were attached
  table,      \* node -> m_table: destination -> its <<ring, hops>> in order
  turn,       \* the node a loop over the nodes is at
  drawn       \* the packetinfo a node got last, as <<src, dst, length>>
vars == <<stage, conf, tuples, order, curr_ring, attached, table, turn, drawn>>

Node == 0..(Nodes(conf) - 1)
LastNode == Nodes(conf) - 1
\* GlobalParameter::ring has a place for as many rings as Noc::Noc allocates.
Ring == 0..(CalRingNum[conf.mesh_dim] - 1)
Built == 0..(Len(order) - 1)
NodesOf(r) == order[r + 1]

RlrecUsed == conf.ring_strategy = "RLrec"

Occurrences(seq, x) == {i \in DOMAIN seq : seq[i] = x}

-----------------------------------------------------------------------------
(* init_ring.                                                              *)

\* topology_generate; that of IMR is empty.
GenerateTopology ==
  /\ stage = "topology"
  /\ tuples' = IF RlrecUsed THEN RlrecTuples(conf.mesh_dim) ELSE <<>>
  /\ stage' = "rings"
  /\ UNCHANGED <<conf, order, curr_ring, attached, table, turn, drawn>>

\* The constructor of Ring: the ring's id is recorded at a node as often as
\* the ring comes by.
BuildRing ==
  /\ stage = "rings"
  /\ Len(order) < Len(tuples)
  /\ LET r == Len(order)
         nodes == NodeOrder(conf.mesh_dim, tuples[r + 1])
     IN  /\ order' = Append(order, nodes)
         /\ curr_ring' = [n \in Node |->
              (IF r = 0 THEN <<>> ELSE curr_ring[n])
                \o [i \in 1..Cardinality(Occurrences(nodes, n)) |-> r]]
  /\ UNCHANGED <<stage, conf, tuples, attached, table, turn, drawn>>

\* Node::init; the tables are still empty.
RingsDone ==
  /\ stage = "rings"
  /\ Len(order) = Len(tuples)
  /\ stage' = "inject"
  /\ curr_ring' = IF order = <<>> THEN [n \in Node |-> <<>>] ELSE curr_ring
  /\ attached' = [r \in Ring |-> <<>>]
  /\ table' = [n \in Node |-> <<>>]
  /\ UNCHANGED <<conf, tuples, order, turn, drawn>>

-----------------------------------------------------------------------------
(* Control packets: one flit each, and all with packet id 0.               *)
\* Faulty: the header starts at the first node of the mesh.
NewControlAtFirst(n) == [src |-> n, node |-> 0, status |-> "Routing", hop |-> 0, sniffed |-> <<>>]
NewControl(n) == [src |-> n, node |-> n, status |-> "Routing", hop |-> 0, sniffed |-> <<>>]

\* The turn of a loop over the nodes, and the stage that follows it.
NodeLoop(next) ==
  /\ turn' = IF turn = LastNode THEN 0 ELSE turn + 1
  /\ stage' = IF turn = LastNode THEN next ELSE stage

\* Faulty: the nodes inject from the last to the first.
InjectingFromLast == LastNode - turn
InjectingNode == turn

\* controlpacket_generator of one node.
InjectControl ==
  /\ stage = "inject"
  /\ LET n == InjectingNode
     IN  attached' = [r \in Ring |->
           attached[r] \o [i \in 1..Cardinality(Occurrences(curr_ring[n], r)) |->
                             NewControl(n)]]
  /\ NodeLoop("move")
  /\ UNCHANGED <<conf, tuples, order, curr_ring, table, drawn>>

\* update_curr_hop of every ring.
MoveControl ==
  /\ stage = "move"
  /\ Ring \subseteq Built
  /\ attached' = [r \in Ring |-> [i \in DOMAIN attached[r] |->
       IF attached[r][i].status = "Routing"
       THEN [attached[r][i] EXCEPT !.node = Successor(NodesOf(r))[@]]
       ELSE attached[r][i]]]
  /\ stage' = "handle"
  /\ UNCHANGED <<conf, tuples, order, curr_ring, table, turn, drawn>>

\* A place for a ring that was never built is a null pointer.
MissingRing ==
  /\ stage = "move"
  /\ ~(Ring \subseteq Built)
  /\ stage' = "crash"
  /\ UNCHANGED <<conf, tuples, order, curr_ring, attached, table, turn, drawn>>

\* flit_check: the first packet of a ring that is at the node.
Here(n, r) ==
  {i \in DOMAIN attached[r] : attached[r][i].node = n /\ attached[r][i].status = "Routing"}
First(n, r) == CHOOSE i \in Here(n, r) : \A j \in Here(n, r) : i <= j
Arrived(n, r) == r \in ToSet(curr_ring[n]) /\ Here(n, r) # {}
Returned(n, r) == Arrived(n, r) /\ attached[r][First(n, r)].src = n

\* forward: the packet notes the node and the hops it took to get there.
Forwarded(packet) ==
  [packet EXCEPT !.hop = @ + 1,
                 !.sniffed = Append(@, [node |-> packet.node, hop |-> packet.hop + 1])]

\* dettach(0): the first packet of the ring goes, whichever came back.
Detached(packets) == Tail(packets)

\* ej_fwd_control_packet for the packet at place i of ring r.
Handled(n, r) ==
  LET i == First(n, r)
      packets == attached[r]
  IN  IF Returned(n, r)
      THEN Detached([packets EXCEPT ![i].hop = @ + 1, ![i].status = "Ejected"])
      ELSE [packets EXCEPT ![i] = Forwarded(packets[i])]

\* std::sort keeps the order of equal keys in a vector of up to this many.
StableSort == 16
Reorderings(seq) ==
  {[i \in DOMAIN seq |-> seq[by[i]]] : by \in Bijection(DOMAIN seq, DOMAIN seq)}

\* Faulty: the packets that return in one cycle are handled in ring order.
ReturnOrdersForward(n) == {curr_ring[n]}
\* m_ej_order has equal keys in the reverse of the order of the node's rings; at
\* a node on more rings than the sort keeps in order they are in any order.
ReturnOrders(n) ==
  IF Len(curr_ring[n]) <= StableSort THEN {Reverse(curr_ring[n])}
  ELSE Reorderings(curr_ring[n])

\* update_routing_table: the ways to node d that the packets at node n, which
\* have returned there, noted.
Noted(n, r) == attached[r][First(n, r)].sniffed
NewDestinations(n) ==
  {note.node : note \in UNION {IF Returned(n, r) THEN ToSet(Noted(n, r)) ELSE {} : r \in Ring}}
WaysTo(d, r, notes) ==
  FlattenSeq([i \in DOMAIN notes |->
                IF notes[i].node = d THEN <<<<r, notes[i].hop>>>> ELSE <<>>])
NewRouting(n, d, ret) ==
  FlattenSeq([k \in DOMAIN ret |->
                LET r == ret[k]
                IN  IF Returned(n, r) THEN WaysTo(d, r, Noted(n, r)) ELSE <<>>])

\* handle_control_packet of one node.
HandleControl ==
  /\ stage = "handle"
  /\ LET n == turn
         left == [r \in Ring |-> IF Arrived(n, r) THEN Handled(n, r) ELSE attached[r]]
     IN  /\ attached' = left
         /\ \E ret \in ReturnOrders(n) :
              table' = [table EXCEPT ![n] =
                [d \in DOMAIN @ \cup NewDestinations(n) |->
                   (IF d \in DOMAIN @ THEN @[d] ELSE <<>>) \o NewRouting(n, d, ret)]]
         /\ NodeLoop(IF \A r \in Ring : left[r] = <<>> THEN "sort" ELSE "move")
  /\ UNCHANGED <<conf, tuples, order, curr_ring, drawn>>

\* Faulty: the sort compares ring ids only.
SortedById(routing) == SortSeq(routing, LAMBDA a, b : a[1] < b[1])
\* table_sort: by hops.
InHops(routing) == \A i, j \in DOMAIN routing : i < j => routing[i][2] <= routing[j][2]
SortedStably(routing) ==
  LET places == DOMAIN routing
      Before(i, j) == routing[i][2] < routing[j][2]
                      \/ (routing[i][2] = routing[j][2] /\ i < j)
      by == InOrder(places, [j \in places |-> {i \in places : Before(i, j)}])
  IN  [i \in places |-> routing[by[i]]]
Sorted(routing) ==
  IF Len(routing) <= StableSort THEN SortedStably(routing)
  ELSE CHOOSE sorted \in Reorderings(routing) : InHops(sorted)

SortTables ==
  /\ stage = "sort"
  /\ table' = [n \in Node |-> [d \in DOMAIN table[n] |-> Sorted(table[n][d])]]
  /\ stage' = "ready"
  /\ UNCHANGED <<conf, tuples, order, curr_ring, attached, turn, drawn>>

-----------------------------------------------------------------------------
\* traffic_generator of a node in the main loop; the packetinfo it returns is
\* gone when another one is generated.
Draw(n) ==
  \E d \in Destinations(conf.traffic_type, Nodes(conf), conf.hotspot, n),
     l \in PacketLengths(conf.method, conf.packet_ratio, conf.short, conf.long) :
       drawn' = <<n, d, l>>
Generate ==
  /\ stage = "ready"
  /\ IF drawn = <<>> THEN \E n \in Node : Draw(n) ELSE drawn' = <<>>
  /\ UNCHANGED <<stage, conf, tuples, order, curr_ring, attached, table, turn>>

Init ==
  /\ stage = "configure" /\ conf = Default
  /\ tuples = <<>> /\ order = <<>> /\ curr_ring = <<>> /\ attached = <<>> /\ table = <<>>
  /\ turn = 0 /\ drawn = <<>>

Next ==
  \/ (NoFile \/ Refuse \/ Configure)
       /\ UNCHANGED <<tuples, order, curr_ring, attached, table, turn, drawn>>
  \/ GenerateTopology \/ BuildRing \/ RingsDone \/ InjectControl \/ MoveControl \/ MissingRing
  \/ HandleControl \/ SortTables \/ Generate

Spec == Init /\ [][Next]_vars
\* One thread and no waiting: until the main loop every step changes one of
\* these, and the next one is always taken.
FairSpec == Spec /\ WF_<<stage, turn, order>>(Next)

-----------------------------------------------------------------------------
RingsBuilt == stage \in {"inject", "move", "handle", "sort", "ready"} /\ RlrecUsed

\* The ranges of the variables once the rings are there.
TypeOK ==
  RingsBuilt =>
    /\ turn \in Node
    /\ order \in Seq(Seq(Node))
    /\ curr_ring \in [Node -> Seq(Ring)]
    /\ \A r \in Ring : \A i \in DOMAIN attached[r] :
         /\ attached[r][i].node \in ToSet(NodesOf(r))
         /\ attached[r][i].src \in ToSet(NodesOf(r))
    /\ \A n \in Node : DOMAIN table[n] \subseteq Node
    /\ \A n \in Node : \A d \in DOMAIN table[n] : table[n][d] \in Seq(Ring \X Nat)

Neighbours(m, n) ==
  LET k == conf.mesh_dim
  IN  \/ m \div k = n \div k /\ (m - n) \in {1, -1}
      \/ m % k = n % k /\ (m - n) \in {k, -k}

\* The recursion makes exactly as many rings as the network has places for;
\* each is a cycle of mesh neighbours that visits no node twice, so that a
\* node has one single buffer a ring, and every node knows the rings it is on.
RingsAsAllocated ==
  RingsBuilt =>
    /\ Built = Ring
    /\ \A r \in Ring :
         /\ IsInjective(NodesOf(r))
         /\ \A n \in ToSet(NodesOf(r)) : Neighbours(n, Successor(NodesOf(r))[n])
    /\ \A n \in Node :
         /\ ToSet(curr_ring[n]) = {r \in Ring : n \in ToSet(NodesOf(r))}
         /\ \A i \in 2..Len(curr_ring[n]) : curr_ring[n][i - 1] < curr_ring[n][i]

\* A node that takes its control packet off a ring deletes this very packet,
\* though all packets have the same id and dettach takes the first: no packet
\* that has been ejected stays on a ring, and none that circulates is gone
\* before its node has learnt from it.
OwnPacketDetached ==
  RingsBuilt =>
    \A r \in Ring :
      /\ \A i \in DOMAIN attached[r] : attached[r][i].status = "Routing"
      /\ stage \in {"move", "handle"} =>
           \A n \in ToSet(NodesOf(r)) :
             \/ \E i \in DOMAIN attached[r] : attached[r][i].src = n
             \/ \E d \in DOMAIN table[n] : \E j \in DOMAIN table[n][d] : table[n][d][j][1] = r

\* The finished tables: every node knows a way to every other node and none to
\* itself, all rings they share and no others, with the hops of each and the
\* shortest way first.  Ties are in the order the network model assumes, unless
\* the node is on more rings than std::sort keeps in order.
TablesComplete ==
  stage = "ready" =>
    LET orders == [r \in Ring |-> NodesOf(r)]
    IN  \A n \in Node :
          /\ DOMAIN table[n] = Node \ {n}
          /\ \A d \in DOMAIN table[n] :
               LET rings == RingsVia(orders, n, d)
                   ways == [j \in DOMAIN rings |->
                              <<rings[j], Distance(orders[rings[j]], n, d)>>]
               IN  /\ rings # <<>>
                   /\ IF Len(curr_ring[n]) <= StableSort THEN table[n][d] = ways
                      ELSE table[n][d] \in Reorderings(ways) /\ InHops(table[n][d])

\* The program comes to its main loop, or ends before it: the control packets
\* all come back.
Starts == <>(stage \in {"ready", "exit", "crash"})

\* search_routing_table finds the destination of every packet, whatever the
\* pattern, the mesh and the hotspots of a configuration that was accepted.
DestinationKnown ==
  drawn # <<>> => drawn[2] = drawn[1] \/ drawn[2] \in DOMAIN table[drawn[1]]

\* Transpose and BitReverse are permutations of the nodes: the partner of the
\* partner is the node itself, wherever the number of nodes is a power of two
\* that the pattern takes.
PartnersArePaired ==
  drawn # <<>> /\ conf.traffic_type \in {"Transpose", "BitReverse"}
               /\ Nodes(conf) = Pow2[Halvings(Nodes(conf))] =>
    drawn[2] \in Node /\ Partner(conf.traffic_type, Nodes(conf), drawn[2]) = drawn[1]

\* Of all numbers a weighted draw may give, every entry but the last is
\* selected by as many as its weight, and the last by one more.
DrawnByWeight(list) ==
  \A i \in DOMAIN list :
    Cardinality({pct \in Percents(list) : Entry(list, pct) = i}) =
      WeightOf(list, i) + (IF i = Len(list) THEN 1 ELSE 0)
WeightsCount ==
  stage = "ready" => DrawnByWeight(conf.hotspot) /\ DrawnByWeight(conf.packet_ratio)

\* Which packets fit an EXB: in mode Max, where nothing interrupts an injection,
\* those no longer than long, which are all of the lengths short to long but
\* not those that packet_ratio names beyond; in mode Avg one of the average
\* length of short to long, and a slot less would not do.
ExbFitsPackets ==
  stage = "topology" =>
    IF conf.enable_interrupt
    THEN 2 * conf.exb_size \in {conf.short + conf.long, conf.short + conf.long + 1}
    ELSE /\ \A l \in conf.short..conf.long : l <= conf.exb_size
         /\ \A i \in DOMAIN conf.packet_ratio :
              conf.packet_ratio[i][1] <= conf.exb_size
                <=> conf.packet_ratio[i][1] <= conf.long

\* Injection.h says that packets of a node to itself are abandoned.
NeverToItself == drawn # <<>> => drawn[1] # drawn[2]
=============================================================================
