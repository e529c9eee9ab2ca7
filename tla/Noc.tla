-------------------------------- MODULE Noc --------------------------------
(***************************************************************************)
(* The simulated network: Noc::run, Node::run and what they call.  Flits   *)
(* circulate on unidirectional rings, one hop a cycle.  In every cycle the *)
(* nodes run one after the other; a node ejects flits that are addressed   *)
(* to it, injects at most one flit of its own, and parks in an extension   *)
(* buffer (EXB) the flits that an injection pushes off their ring.         *)
(***************************************************************************)
EXTENDS Arbitration, Sequences, Functions

CONSTANTS
  N,                \* number of nodes; nodes are 0 .. N-1
  Ring,             \* ring ids
  NodesOn,          \* ring -> the nodes it passes
  NextNode,         \* ring -> node -> the next node on the ring
  Route,            \* node -> destination -> rings to try, in order
  Offer,            \* node -> the [dst, length] its traffic pattern may draw
  EjPorts,          \* ejection links of a node, ej_port_nu
  ExbNum,           \* extension buffers of a node, exb_num
  ExbSize,          \* flits an extension buffer holds, exb_size
  EnableInterrupt,  \* enable_interrupt: TRUE for EXB mode Avg, FALSE for Max
  MaxPackets,       \* bound: packets the traffic generates
  MaxCycle          \* bound: traffic is generated in cycles 0 .. MaxCycle-1

Node == 0..(N - 1)
PacketId == 0..(MaxPackets - 1)

\* No packet, no ring.
None == -1

ASSUME NocAssumption ==
  /\ N \in Nat \ {0}
  /\ None \notin Ring
  /\ NodesOn \in [Ring -> SUBSET Node]
  /\ \A r \in Ring :
       /\ NextNode[r] \in [NodesOn[r] -> NodesOn[r]]
       /\ \A m, n \in NodesOn[r] : NextNode[r][m] = NextNode[r][n] => m = n
  /\ Route \in [Node -> [Node -> Seq(Ring)]]
  /\ \A n, d \in Node : \A i \in 1..Len(Route[n][d]) :
       {n, d} \subseteq NodesOn[Route[n][d][i]]
  /\ \A n \in Node : Offer[n] \subseteq [dst : Node, length : Nat \ {0}]
  /\ EjPorts \in Nat /\ ExbNum \in Nat /\ ExbSize \in Nat \ {0}
  /\ EnableInterrupt \in BOOLEAN
  /\ MaxPackets \in Nat /\ MaxCycle \in Nat

VARIABLES
  cycle,           \* global_cycle, kept at MaxCycle once generation is over
  turn,            \* the node about to run; N when the rings are to move
  next_id,         \* GlobalParameter::packet_id
  queue,           \* node -> m_injection_queue, its packetinfos
  packet,          \* the packets attached to a ring, by id
  flit,            \* <<packet id, sequence>> -> status and current node
  exb,             \* node -> bound ring -> the flits of its EXB, oldest first
  ongoing,         \* node -> m_ongoing_packet
  interrupt,       \* node -> m_interrupt
  forward_length,  \* node -> m_forward_exb_length
  record,          \* node -> m_ej_record: <<packet id, expected sequence>>
  received,        \* node -> received_packet
  received_flit    \* node -> received_flit
node_vars == <<queue, exb, ongoing, interrupt, forward_length, record,
               received, received_flit>>
vars == <<cycle, turn, next_id, packet, flit, node_vars>>

-----------------------------------------------------------------------------
(* Flits.                                                                  *)
FlitIds(p, length) == {p} \X (0..(length - 1))
LastSeq(p) == packet[p].length - 1
Live(p) == p \in DOMAIN packet

\* Flit::get_flit_type, as the tag the arbitrator gives it.
Type(f) == IF f[2] = 0 THEN HeaderFlit
           ELSE IF f[2] = LastSeq(f[1]) THEN TailFlit ELSE PayloadFlit

\* Faulty: a flit that was ejected is found again.
OnWireAgain(n, r) ==
  {f \in DOMAIN flit : /\ packet[f[1]].ring = r
                       /\ flit[f].node = n
                       /\ flit[f].status \in {"Routing", "Ejected"}}
\* flit_check: the flits on the wire of ring r at node n.
OnWire(n, r) ==
  {f \in DOMAIN flit : /\ packet[f[1]].ring = r
                       /\ flit[f] = [status |-> "Routing", node |-> n]}
RingsWithFlit(n) == {r \in Ring : OnWire(n, r) # {}}
Arrival(n, r) == CHOOSE f \in OnWire(n, r) : TRUE

\* Faulty: the record is not consulted, any flit is ejected as it comes.
EjectableAnyFlit(n, r) == packet[Arrival(n, r)[1]].dst = n
\* The arrivals ej_arbitrator lets compete: addressed to n, and a header or
\* the very flit the ejection record expects next.
Ejectable(n, r) ==
  LET f == Arrival(n, r)
  IN  /\ packet[f[1]].dst = n
      /\ f[2] = 0 \/ f \in record[n]
Candidates(n) ==
  [r \in {q \in RingsWithFlit(n) : Ejectable(n, q)} |->
     [tag |-> Type(Arrival(n, r)), ctime |-> packet[Arrival(n, r)[1]].ctime]]
\* Faulty: the number of ejection links is ignored.
EjectAll(n) == {DOMAIN Candidates(n)}
EjectChoices(n) == EjectSets(Candidates(n), EjPorts)

\* Actions -2 and -3 leave the slot of ring r free, the others do not.
SlotFree(n, r, E) == r \in E \/ OnWire(n, r) = {}

-----------------------------------------------------------------------------
(* Traffic: at most one new packetinfo per node and cycle.                 *)
NoOffer == [dst |-> None, length |-> 0]
Offers(n) ==
  {NoOffer} \cup
    (IF cycle < MaxCycle /\ next_id < MaxPackets THEN Offer[n] ELSE {})

\* Faulty: the newest packetinfo is put in front.
QueueNewestFirst(n, o) ==
  IF o = NoOffer THEN queue[n]
  ELSE <<[id |-> next_id, dst |-> o.dst,
          length |-> o.length, ctime |-> cycle]>> \o queue[n]
\* packetinfo_generator: the queue after the offer o.
QueueWith(n, o) ==
  IF o = NoOffer THEN queue[n]
  ELSE Append(queue[n], [id |-> next_id, dst |-> o.dst,
                         length |-> o.length, ctime |-> cycle])
\* Faulty: the id counter moves without a packet, or does not move.
GenerateAlways(o) == next_id' = IF next_id < MaxPackets THEN next_id + 1 ELSE next_id
GenerateNever(o) == next_id' = next_id
Generate(o) == next_id' = IF o = NoOffer THEN next_id ELSE next_id + 1

-----------------------------------------------------------------------------
(* Where the head of the queue can enter the network.                      *)
Bound(n) == DOMAIN exb[n]
\* Faulty: the last EXB is never given out.
ExbAvailableShort(n) == Cardinality(Bound(n)) + 1 < ExbNum
ExbAvailable(n) == Cardinality(Bound(n)) < ExbNum

\* Faulty: the slot of the ring, or its EXB, is not looked at.
UsableIfUnbound(n, q, E) ==
  {i \in 1..Len(Route[n][Head(q).dst]) : Route[n][Head(q).dst][i] \notin Bound(n)}
UsableIfFree(n, q, E) ==
  {i \in 1..Len(Route[n][Head(q).dst]) : SlotFree(n, Route[n][Head(q).dst][i], E)}
UsableRings(n, q, E) ==
  LET route == Route[n][Head(q).dst]
  IN  {i \in 1..Len(route) : SlotFree(n, route[i], E) /\ route[i] \notin Bound(n)}

\* ring_selection stops at the first usable ring; a long packet that finds no
\* EXB there waits for the next cycle.
CanInject(n, q, E) ==
  /\ q # <<>>
  /\ UsableRings(n, q, E) # {}
  /\ Head(q).length = 1 \/ ExbAvailable(n)
InjectRing(n, q, E) ==
  Route[n][Head(q).dst][CHOOSE i \in UsableRings(n, q, E) :
                          \A j \in UsableRings(n, q, E) : i <= j]

-----------------------------------------------------------------------------
(* The EXBs of the rings other than h, which inject_eject has handled.     *)
RestBound(n, h) == Bound(n) \ {h}
RestPopped(n, h) == {Head(exb[n][r]) : r \in RestBound(n, h)}
RestPushed(n, h, E) ==
  {Arrival(n, r) : r \in {q \in RestBound(n, h) : ~SlotFree(n, q, E)}}
\* Faulty: the front stays in the buffer when a flit is pushed.
RestBufferNoPop(n, r, E) ==
  IF SlotFree(n, r, E) THEN Tail(exb[n][r])
                       ELSE Append(exb[n][r], Arrival(n, r))
RestBuffer(n, r, E) ==
  IF SlotFree(n, r, E) THEN Tail(exb[n][r])
                       ELSE Append(Tail(exb[n][r]), Arrival(n, r))
\* Faulty: an empty EXB stays bound.
RestKeptAlways(n, h, E) == RestBound(n, h)
\* An EXB that runs empty is released.
RestKept(n, h, E) == {r \in RestBound(n, h) : RestBuffer(n, r, E) # <<>>}
RestExb(n, h, E) == [r \in RestKept(n, h, E) |-> RestBuffer(n, r, E)]
RestExbWith(n, h, E, buffer) ==
  [r \in RestKept(n, h, E) \cup {h} |->
     IF r = h THEN buffer ELSE RestBuffer(n, r, E)]

-----------------------------------------------------------------------------
(* What every run of a node ends with: ejection of the flits chosen, the   *)
(* new status of all flits touched, and the turn of the next node.         *)
Ejected(n, E) == {Arrival(n, r) : r \in E}
\* The last flit of a packet detaches it from its ring and deletes it.
Finished(n, E) == {f[1] : f \in {g \in Ejected(n, E) : g[2] = LastSeq(g[1])}}
\* Faulty: a payload does not advance the expected sequence number.
RecordStuck(n, E) ==
  {f \in record[n] : f \notin Ejected(n, E) \/ f[2] # LastSeq(f[1])}
    \cup {<<f[1], 1>> : f \in {g \in Ejected(n, E) : g[2] = 0 /\ LastSeq(g[1]) # 0}}
RecordAfter(n, E) ==
  (record[n] \ Ejected(n, E))
    \cup {<<f[1], f[2] + 1>> :
            f \in {g \in Ejected(n, E) : g[2] # LastSeq(g[1])}}

StatusAfter(n, f, E, onto, off) ==
  CASE f \in Ejected(n, E)  -> "Ejected"
    [] f \in off            -> "Buffered"
    [] f \in onto           -> "Routing"
    [] OTHER                -> IF f \in DOMAIN flit THEN flit[f].status
                               ELSE "Injecting"
NodeAfter(n, f) == IF f \in DOMAIN flit THEN flit[f].node ELSE n

\* onto: the flits put on the wire, off: those taken off it into an EXB,
\* created: the flits of a packet injected now.
Settle(n, E, onto, off, created) ==
  /\ flit' = [f \in {g \in DOMAIN flit \cup created :
                       g[1] \notin Finished(n, E)} |->
                [status |-> StatusAfter(n, f, E, onto, off),
                 node |-> NodeAfter(n, f)]]
  /\ record' = [record EXCEPT ![n] = RecordAfter(n, E)]
  /\ received' = [received EXCEPT ![n] = @ + Cardinality(Finished(n, E))]
  /\ received_flit' = [received_flit EXCEPT ![n] = @ + Cardinality(Ejected(n, E))]
  /\ turn' = turn + 1
  /\ UNCHANGED cycle

\* Faulty: a delivered packet stays attached to its ring.
DetachNothing(n, E) == UNCHANGED packet
Detach(n, E) ==
  packet' = [p \in DOMAIN packet \ Finished(n, E) |-> packet[p]]

-----------------------------------------------------------------------------
(* inject_eject without an ongoing packet.                                 *)

\* Nothing to inject, or no ring and EXB for the head of the queue.
Idle(n, o, E) ==
  /\ ongoing[n] = None
  /\ ~CanInject(n, QueueWith(n, o), E)
  /\ queue' = [queue EXCEPT ![n] = QueueWith(n, o)]
  /\ exb' = [exb EXCEPT ![n] = RestExb(n, None, E)]
  /\ Detach(n, E)
  /\ Settle(n, E, RestPopped(n, None), RestPushed(n, None, E), {})
  /\ UNCHANGED <<ongoing, interrupt, forward_length>>

\* The head of the queue becomes a packet on ring r and its header goes onto
\* the wire; a long packet binds an EXB to r until its flits are out.
Inject(n, o, E) ==
  LET q == QueueWith(n, o)
      i == Head(q)
      r == InjectRing(n, q, E)
      new == [dst |-> i.dst, length |-> i.length, ctime |-> i.ctime,
              src |-> n, ring |-> r]
  IN  /\ ongoing[n] = None
      /\ CanInject(n, q, E)
      /\ queue' = [queue EXCEPT ![n] = Tail(q)]
      /\ packet' = [p \in (DOMAIN packet \ Finished(n, E)) \cup {i.id} |->
                      IF p = i.id THEN new ELSE packet[p]]
      /\ exb' = [exb EXCEPT ![n] = IF i.length = 1 THEN RestExb(n, r, E)
                                   ELSE RestExbWith(n, r, E, <<>>)]
      /\ ongoing' = [ongoing EXCEPT ![n] = IF i.length = 1 THEN None ELSE i.id]
      /\ Settle(n, E, RestPopped(n, r) \cup {<<i.id, 0>>},
                RestPushed(n, r, E), FlitIds(i.id, i.length))
      /\ UNCHANGED <<interrupt, forward_length>>

-----------------------------------------------------------------------------
(* continue_inject_packet: the rest of a long packet.                      *)
OngoingRing(n) == packet[ongoing[n]].ring
OngoingExb(n) == exb[n][OngoingRing(n)]
\* Faulty: the rest of the packet is injected from its tail.
LastInjecting(n) ==
  CHOOSE f \in FlitIds(ongoing[n], packet[ongoing[n]].length) :
    /\ flit[f].status = "Injecting"
    /\ \A g \in FlitIds(ongoing[n], packet[ongoing[n]].length) :
         flit[g].status = "Injecting" => g[2] <= f[2]
NextFlit(n) ==
  CHOOSE f \in FlitIds(ongoing[n], packet[ongoing[n]].length) :
    /\ flit[f].status = "Injecting"
    /\ \A i \in 0..(f[2] - 1) : flit[<<f[1], i>>].status # "Injecting"
\* Faulty: one flit more than there are slots.
ExbOverFull(n) == Len(OngoingExb(n)) = ExbSize + 1
ExbFull(n) == Len(OngoingExb(n)) = ExbSize
Interrupted(n) == EnableInterrupt /\ interrupt[n] /\ forward_length[n] # 0

\* Faulty: all flits of the EXB are counted, whatever their packet.
WholeBuffer(buffer) == Len(buffer)
\* cal_forward_packet_length with two arguments: the flits of one packet at
\* the front of the EXB, and the arriving flit if they fill the EXB.
FrontRun(buffer) ==
  CHOOSE k \in 1..Len(buffer) :
    /\ \A i \in 1..k : buffer[i][1] = buffer[1][1]
    /\ k < Len(buffer) => buffer[k + 1][1] # buffer[1][1]
ForwardLength(buffer, f) ==
  IF FrontRun(buffer) = ExbSize /\ f[1] = buffer[1][1]
  THEN FrontRun(buffer) + 1 ELSE FrontRun(buffer)
\* The same with three arguments, while the interrupt lasts.
ExtendedLength(buffer, f, length) ==
  IF length = ExbSize /\ f[1] = buffer[1][1] THEN length + 1 ELSE length

\* The part all five cases share.
Continue(n, o, E) ==
  /\ ongoing[n] # None
  /\ queue' = [queue EXCEPT ![n] = QueueWith(n, o)]
  /\ Detach(n, E)

\* Puts the first flit that is still to be injected on the wire; the tail ends
\* the injection and releases the EXB if it stayed empty.
InjectNext(n, E, buffer, off) ==
  LET r == OngoingRing(n)
      f == NextFlit(n)
      last == f[2] = LastSeq(f[1])
  IN  /\ interrupt' = [interrupt EXCEPT ![n] = @ /\ ~EnableInterrupt]
      /\ ongoing' = [ongoing EXCEPT ![n] = IF last THEN None ELSE @]
      /\ exb' = [exb EXCEPT ![n] = IF last /\ buffer = <<>>
                                   THEN RestExb(n, r, E)
                                   ELSE RestExbWith(n, r, E, buffer)]
      /\ Settle(n, E, RestPopped(n, r) \cup {f}, RestPushed(n, r, E) \cup off, {})
      /\ UNCHANGED forward_length

\* Lets the front of the EXB out instead of the next flit of the packet.
ForwardFront(n, E, buffer, off, length) ==
  LET r == OngoingRing(n)
  IN  /\ exb' = [exb EXCEPT ![n] = RestExbWith(n, r, E, buffer)]
      /\ forward_length' = [forward_length EXCEPT ![n] = length - 1]
      /\ Settle(n, E, RestPopped(n, r) \cup {Head(OngoingExb(n))},
                RestPushed(n, r, E) \cup off, {})
      /\ UNCHANGED ongoing

InterruptPop(n, o, E) ==
  /\ Continue(n, o, E)
  /\ Interrupted(n)
  /\ SlotFree(n, OngoingRing(n), E)
  /\ ForwardFront(n, E, Tail(OngoingExb(n)), {}, forward_length[n])
  /\ UNCHANGED interrupt

InjectFree(n, o, E) ==
  /\ Continue(n, o, E)
  /\ ~Interrupted(n)
  /\ SlotFree(n, OngoingRing(n), E)
  /\ InjectNext(n, E, OngoingExb(n), {})

InterruptPopAndPush(n, o, E) ==
  LET a == Arrival(n, OngoingRing(n))
  IN  /\ Continue(n, o, E)
      /\ Interrupted(n)
      /\ ~SlotFree(n, OngoingRing(n), E)
      /\ ForwardFront(n, E, Append(Tail(OngoingExb(n)), a), {a},
                      ExtendedLength(OngoingExb(n), a, forward_length[n]))
      /\ UNCHANGED interrupt

\* No room for the arriving flit: interrupt the injection.
StartInterrupt(n, o, E) ==
  LET a == Arrival(n, OngoingRing(n))
  IN  /\ Continue(n, o, E)
      /\ ~Interrupted(n)
      /\ ~SlotFree(n, OngoingRing(n), E)
      /\ ExbFull(n)
      /\ ForwardFront(n, E, Append(Tail(OngoingExb(n)), a), {a},
                      ForwardLength(OngoingExb(n), a))
      /\ interrupt' = [interrupt EXCEPT ![n] = TRUE]

InjectPush(n, o, E) ==
  LET a == Arrival(n, OngoingRing(n))
  IN  /\ Continue(n, o, E)
      /\ ~Interrupted(n)
      /\ ~SlotFree(n, OngoingRing(n), E)
      /\ ~ExbFull(n)
      /\ InjectNext(n, E, Append(OngoingExb(n), a), {a})

-----------------------------------------------------------------------------
\* Node::run of the node whose turn it is.
Run(n, o, E) ==
  \/ Idle(n, o, E)
  \/ Inject(n, o, E)
  \/ InterruptPop(n, o, E)
  \/ InjectFree(n, o, E)
  \/ InterruptPopAndPush(n, o, E)
  \/ StartInterrupt(n, o, E)
  \/ InjectPush(n, o, E)
RunNode ==
  /\ turn < N
  /\ \E o \in Offers(turn), E \in EjectChoices(turn) :
       Generate(o) /\ Run(turn, o, E)

\* The end of a cycle and update_curr_hop of every ring: all flits on a wire
\* move one hop at once.
MoveRings ==
  /\ turn = N
  /\ turn' = 0
  /\ cycle' = IF cycle < MaxCycle THEN cycle + 1 ELSE cycle
  /\ flit' = [f \in DOMAIN flit |->
                IF flit[f].status = "Routing"
                THEN [flit[f] EXCEPT !.node = NextNode[packet[f[1]].ring][@]]
                ELSE flit[f]]
  /\ UNCHANGED <<next_id, packet, node_vars>>

Init ==
  /\ cycle = 0 /\ turn = 0 /\ next_id = 0
  /\ queue = [n \in Node |-> <<>>]
  /\ packet = <<>> /\ flit = <<>>
  /\ exb = [n \in Node |-> <<>>]
  /\ ongoing = [n \in Node |-> None]
  /\ interrupt = [n \in Node |-> FALSE]
  /\ forward_length = [n \in Node |-> 0]
  /\ record = [n \in Node |-> {}]
  /\ received = [n \in Node |-> 0] /\ received_flit = [n \in Node |-> 0]

Next == RunNode \/ MoveRings
\* The main loop never stops before sim_time; the model lets it run on.
Spec == Init /\ [][Next]_vars
FairSpec == Spec /\ WF_vars(Next)

-----------------------------------------------------------------------------
PacketInfo == [id : PacketId, dst : Node, length : Nat \ {0}, ctime : 0..MaxCycle]
Packet == [dst : Node, length : Nat \ {0}, ctime : 0..MaxCycle,
           src : Node, ring : Ring]
Status == {"Injecting", "Routing", "Buffered", "Ejected"}
FlitId == PacketId \X Nat
LiveFlits == UNION {FlitIds(p, packet[p].length) : p \in DOMAIN packet}

\* The ranges of the variables; the flits in memory are those of the attached
\* packets, each at a node of its packet's ring.
TypeOK ==
  /\ cycle \in 0..MaxCycle /\ turn \in 0..N /\ next_id \in 0..MaxPackets
  /\ queue \in [Node -> Seq(PacketInfo)]
  /\ DOMAIN packet \subseteq PacketId /\ packet \in [DOMAIN packet -> Packet]
  /\ \A p \in DOMAIN packet :
       {packet[p].src, packet[p].dst} \subseteq NodesOn[packet[p].ring]
  /\ flit \in [LiveFlits -> [status : Status, node : Node]]
  /\ \A f \in LiveFlits : flit[f].node \in NodesOn[packet[f[1]].ring]
  /\ DOMAIN exb = Node
  /\ \A n \in Node : /\ Bound(n) \subseteq Ring
                     /\ exb[n] \in [Bound(n) -> Seq(FlitId)]
  /\ ongoing \in [Node -> DOMAIN packet \cup {None}]
  /\ interrupt \in [Node -> BOOLEAN] /\ forward_length \in [Node -> Int]
  /\ record \in [Node -> SUBSET FlitId]
  /\ received \in [Node -> Nat] /\ received_flit \in [Node -> Nat]

\* No packet id is in use twice: a queued one is new to the network, queued
\* once, and older than the next one to be given out.
FreshIds ==
  /\ \A n \in Node : \A i \in 1..Len(queue[n]) :
       /\ queue[n][i].id < next_id
       /\ queue[n][i].id \notin DOMAIN packet
       /\ \A m \in Node : \A j \in 1..Len(queue[m]) :
            queue[m][j].id = queue[n][i].id => m = n /\ j = i
  /\ \A p \in DOMAIN packet : p < next_id

\* Two flits never share the slot of a ring at a node: what an injection and
\* the EXBs put on a wire only ever fills slots that are free, or made free.
WireExclusive ==
  \A f, g \in DOMAIN flit :
    /\ flit[f].status = "Routing" /\ flit[g] = flit[f]
    /\ packet[f[1]].ring = packet[g[1]].ring
    => f = g

\* The EXBs hold exactly the flits marked Buffered, each once, at the node and
\* for the ring where it was taken off the wire; none points into a packet
\* that has been deleted.
BufferedOnce ==
  /\ \A n \in Node : \A r \in Bound(n) : \A i \in 1..Len(exb[n][r]) :
       LET f == exb[n][r][i]
       IN  /\ f \in DOMAIN flit
           /\ flit[f] = [status |-> "Buffered", node |-> n]
           /\ packet[f[1]].ring = r
           /\ \A j \in 1..Len(exb[n][r]) : exb[n][r][j] = f => j = i
  /\ \A f \in DOMAIN flit :
       flit[f].status = "Buffered" =>
         LET n == flit[f].node
             r == packet[f[1]].ring
         IN  r \in Bound(n) /\ \E i \in 1..Len(exb[n][r]) : exb[n][r][i] = f

\* An EXB never overflows, no more are bound than exist, and one that is bound
\* is either filled by the injection going on or holds flits: pop never reads
\* the front of an empty buffer, and no EXB stays bound for nothing.
ExbInUse ==
  \A n \in Node :
    /\ Cardinality(Bound(n)) <= ExbNum
    /\ \A r \in Bound(n) :
         /\ Len(exb[n][r]) <= ExbSize
         /\ exb[n][r] # <<>> \/ (ongoing[n] # None /\ OngoingRing(n) = r)

\* A packet with flits still in the injection module is the ongoing packet of
\* its source and holds an EXB there; the flits left are a suffix of it, so
\* that the tail is the last to enter the network.
OngoingConsistent ==
  /\ \A f \in DOMAIN flit :
       flit[f].status = "Injecting" =>
         /\ flit[f].node = packet[f[1]].src
         /\ ongoing[packet[f[1]].src] = f[1]
         /\ flit[<<f[1], LastSeq(f[1])>>].status = "Injecting"
         /\ f[2] # LastSeq(f[1]) => flit[<<f[1], f[2] + 1>>].status = "Injecting"
  /\ \A n \in Node :
       ongoing[n] # None =>
         /\ packet[ongoing[n]].src = n
         /\ OngoingRing(n) \in Bound(n)
         /\ flit[<<ongoing[n], LastSeq(ongoing[n])>>].status = "Injecting"
         /\ flit[<<ongoing[n], 0>>].status # "Injecting"

\* Flits are ejected in the order of their sequence numbers even when an EXB
\* or a lost arbitration lets later ones pass: the ejected flits of a packet
\* are a prefix of it, and the records are exactly the next flits of the
\* packets under way, at their destinations.
EjectedInOrder ==
  /\ \A f \in DOMAIN flit :
       flit[f].status = "Ejected" =>
         /\ flit[f].node = packet[f[1]].dst
         /\ f[2] # LastSeq(f[1])
         /\ \A i \in 0..f[2] : flit[<<f[1], i>>].status = "Ejected"
  /\ \A n \in Node :
       record[n] = {f \in DOMAIN flit :
                      /\ packet[f[1]].dst = n
                      /\ f[2] # 0
                      /\ flit[f].status # "Ejected"
                      /\ flit[<<f[1], f[2] - 1>>].status = "Ejected"}

\* With the interrupt mechanism (EXB mode Avg), while an injection is
\* interrupted its EXB still holds the flits counted for forwarding, and they
\* belong to one packet: the interrupt ends on the boundary of a packet, or of
\* what had arrived of it, and does not outlive the injection.
InterruptWindow ==
  EnableInterrupt =>
    \A n \in Node :
      /\ interrupt[n] => ongoing[n] # None
      /\ forward_length[n] # 0 =>
           /\ interrupt[n]
           /\ forward_length[n] \in 1..Len(OngoingExb(n))
           /\ \A i \in 1..forward_length[n] :
                OngoingExb(n)[i][1] = OngoingExb(n)[1][1]

\* Packets in the queues of the injection modules, and on the rings.
Queued == SumFunction([n \in Node |-> Len(queue[n])])
Attached == Cardinality(DOMAIN packet)

\* Packets are neither lost nor duplicated: all ids handed out are queued, in
\* the network, or counted as received by some node.
Conservation == next_id = SumFunction(received) + Queued + Attached

Quiet ==
  /\ next_id = MaxPackets \/ cycle = MaxCycle
  /\ DOMAIN packet = {}
  /\ \A n \in Node : queue[n] = <<>> /\ Bound(n) = {}

\* When the traffic ends the network drains: no flit circulates for ever, no
\* injection waits for ever, every EXB is released.
Drains == <>[]Quiet

-----------------------------------------------------------------------------
(* The network as its users see it.                                        *)
Waiting ==
  [n \in Node |-> [i \in 1..Len(queue[n]) |->
     [id |-> queue[n][i].id, dst |-> queue[n][i].dst, length |-> queue[n][i].length]]]
Owed ==
  [p \in DOMAIN packet |->
     [dst |-> packet[p].dst,
      flits |-> {i \in 0..LastSeq(p) : flit[<<p, i>>].status # "Ejected"}]]
Users == INSTANCE Delivery WITH waiting <- Waiting, owed <- Owed

\* Every run of a node is one cycle of the delivery service, and the movement
\* of the rings changes nothing in it: packets start in the order they were
\* generated; a node ejects, and counts, nothing but the flits that packets
\* addressed to it have next in their sequence, each once, and it counts a
\* packet with the last of them, whatever rings, EXBs and interrupts do to it.
DeliveryService == Users!Spec
=============================================================================
