----------------------------- MODULE Simulation -----------------------------
(***************************************************************************)
(* The network with its clock and its statistics: the main loop from cycle *)
(* 0 to sim_time, the reset at the end of the warm-up, stat_gather, and    *)
(* what the destructors count as not received.                             *)
(***************************************************************************)
EXTENDS Noc, FiniteSetsExt

CONSTANTS
  SimWarmup,   \* sim_warmup
  SimTime      \* sim_time after configure(), which adds the warm-up

ASSUME SimulationAssumption ==
  SimWarmup \in Nat /\ SimTime \in Nat /\ SimWarmup < SimTime

VARIABLES
  stage,           \* "loop", "gathered" or "destroyed"
  time,            \* global_cycle
  stat,            \* node -> m_stat
  m_stat,          \* the Stat of the network
  warm_up_packet,  \* set when the warm-up ends
  unrecv,          \* unrecv_packet_num
  ejected,         \* history: the flits ejected since the last reset
  backlog          \* history: the packets under way at the last reset
sim_vars == <<stage, time, stat, m_stat, warm_up_packet, unrecv, ejected, backlog>>
all_vars == <<vars, sim_vars>>

-----------------------------------------------------------------------------
(* Stat.                                                                   *)
NoStat ==
  [received_flit |-> 0, flit_delay |-> 0, max_flit_delay |-> 0,
   received_packet |-> 0, packet_delay |-> 0, max_packet_delay |-> 0,
   packet_id_for_max_delay |-> 0]

\* Faulty: the cycle of the ejection does not count.
LatencyExclusive(f) == time - packet[f[1]].ctime - 1
\* calc_flit_latency of a flit that is ejected now.
Latency(f) == time - packet[f[1]].ctime

\* update_flit_stat.
WithFlit(s, latency) ==
  [s EXCEPT !.received_flit = @ + 1,
            !.flit_delay = @ + latency,
            !.max_flit_delay = IF latency > @ THEN latency ELSE @]
\* Faulty: the packet is noted whatever its delay.
WithPacketLatest(s, latency, id) ==
  [s EXCEPT !.received_packet = @ + 1,
            !.packet_delay = @ + latency,
            !.max_packet_delay = IF latency > @ THEN latency ELSE @,
            !.packet_id_for_max_delay = id]
\* update_packet_stat.
WithPacket(s, latency, id) ==
  [s EXCEPT !.received_packet = @ + 1,
            !.packet_delay = @ + latency,
            !.max_packet_delay = IF latency > @ THEN latency ELSE @,
            !.packet_id_for_max_delay = IF latency > s.max_packet_delay THEN id ELSE @]
\* ejection: the last flit of a packet counts the packet as well.
WithEjection(s, f) ==
  IF f[2] = LastSeq(f[1])
  THEN WithPacket(WithFlit(s, Latency(f)), Latency(f), f[1])
  ELSE WithFlit(s, Latency(f))
\* A node's Stat after the ejection of flits in the order o, and of the flits F
\* in any order.
StatAfter(s, o) ==
  LET after[i \in 0..Len(o)] == IF i = 0 THEN s ELSE WithEjection(after[i - 1], o[i])
  IN  after[Len(o)]
StatsAfter(s, F) ==
  LET orders == {o \in [1..Cardinality(F) -> F] : {o[i] : i \in DOMAIN o} = F}
  IN  {StatAfter(s, o) : o \in orders}

\* Where a flit is k hops after node a of ring r, and the hops until it is at b.
Places(r, a) ==
  LET at[k \in Nat] == IF k = 0 THEN a ELSE NextNode[r][at[k - 1]] IN at
Hops(r, a, b) ==
  CHOOSE k \in 1..Cardinality(NodesOn[r]) :
    Places(r, a)[k] = b /\ \A j \in 1..(k - 1) : Places(r, a)[j] # b
Noted(f) ==
  LET p == packet[f[1]]
  IN  [flit |-> f, last |-> f[2] = LastSeq(f[1]), delay |-> Latency(f),
       hops |-> Hops(p.ring, p.src, p.dst)]

-----------------------------------------------------------------------------
(* The main loop.                                                          *)
SimulateNode ==
  /\ stage = "loop" /\ turn < N
  /\ \E o \in Offers(turn), E \in EjectChoices(turn) :
       /\ Generate(o) /\ Run(turn, o, E)
       /\ \E s \in StatsAfter(stat[turn], Ejected(turn, E)) :
            stat' = [stat EXCEPT ![turn] = s]
       /\ ejected' = ejected \cup {Noted(f) : f \in Ejected(turn, E)}
  /\ UNCHANGED <<stage, time, m_stat, warm_up_packet, unrecv, backlog>>

\* Faulty: the counter is taken for the number of packets.
WarmUpPacketPlain == next_id
WarmUpPacket == next_id + 1

\* Faulty: the statistics go on.
ResetNothing == stat
\* reset_stat.
Reset == [n \in Node |-> NoStat]

EndOfWarmup ==
  IF time = SimWarmup
  THEN /\ stat' = Reset
       /\ warm_up_packet' = WarmUpPacket
       /\ ejected' = {} /\ backlog' = Queued + Attached
  ELSE UNCHANGED <<stat, warm_up_packet, ejected, backlog>>

\* The end of a cycle, and the movement of the rings the next one starts with.
EndCycle ==
  /\ stage = "loop" /\ time + 1 < SimTime
  /\ MoveRings
  /\ EndOfWarmup
  /\ time' = time + 1
  /\ UNCHANGED <<stage, m_stat, unrecv>>

\* The first of the nodes with the largest packet delay.
Slowest ==
  CHOOSE n \in Node :
    /\ \A m \in Node : stat'[m].max_packet_delay <= stat'[n].max_packet_delay
    /\ \A m \in 0..(n - 1) : stat'[m].max_packet_delay < stat'[n].max_packet_delay
\* stat_gather.
Gathered ==
  [received_flit |-> SumFunction([n \in Node |-> stat'[n].received_flit]),
   flit_delay |-> SumFunction([n \in Node |-> stat'[n].flit_delay]),
   max_flit_delay |-> Max({stat'[n].max_flit_delay : n \in Node}),
   received_packet |-> SumFunction([n \in Node |-> stat'[n].received_packet]),
   packet_delay |-> SumFunction([n \in Node |-> stat'[n].packet_delay]),
   max_packet_delay |-> stat'[Slowest].max_packet_delay,
   packet_id_for_max_delay |-> stat'[Slowest].packet_id_for_max_delay]

\* The end of the last cycle.
Finish ==
  /\ stage = "loop" /\ turn = N /\ time + 1 = SimTime
  /\ EndOfWarmup
  /\ time' = time + 1
  /\ m_stat' = Gathered
  /\ stage' = "gathered"
  /\ UNCHANGED <<vars, unrecv>>

\* The destructors of the injection modules and of the rings.
Destroy ==
  /\ stage = "gathered"
  /\ unrecv' = Queued + Attached
  /\ stage' = "destroyed"
  /\ UNCHANGED <<vars, time, stat, m_stat, warm_up_packet, ejected, backlog>>

SimInit ==
  /\ Init
  /\ stage = "loop" /\ time = 0
  /\ stat = [n \in Node |-> NoStat] /\ m_stat = NoStat
  /\ warm_up_packet = 0 /\ unrecv = 0 /\ ejected = {} /\ backlog = 0

SimNext == SimulateNode \/ EndCycle \/ Finish \/ Destroy
SimSpec == SimInit /\ [][SimNext]_all_vars

-----------------------------------------------------------------------------
MaxDelay(F) == IF F = {} THEN 0 ELSE Max({e.delay : e \in F})

\* The summary is that of the flits and packets that were ejected after the
\* warm-up, and of no others: their numbers, the sums and the maxima of their
\* delays, and a packet that really has the largest one.
SummaryExact ==
  stage # "loop" =>
    LET packets == {e \in ejected : e.last}
    IN  /\ m_stat.received_flit = Cardinality(ejected)
        /\ m_stat.flit_delay = SumFunction([e \in ejected |-> e.delay])
        /\ m_stat.max_flit_delay = MaxDelay(ejected)
        /\ m_stat.received_packet = Cardinality(packets)
        /\ m_stat.packet_delay = SumFunction([e \in packets |-> e.delay])
        /\ m_stat.max_packet_delay = MaxDelay(packets)
        /\ packets # {} =>
             \E e \in packets : /\ e.delay = m_stat.max_packet_delay
                                /\ e.flit[1] = m_stat.packet_id_for_max_delay

\* "Number of Packet sent during sim phrase".
SentInSimulation == next_id - warm_up_packet + 1

\* What the program prints adds up: the packets sent after the warm-up and
\* those under way when it ended are the packets received since, and the ones
\* found in queues and on rings in the end.
PhasesBalance ==
  stage = "destroyed" =>
    SentInSimulation + backlog = m_stat.received_packet + unrecv

\* The cycles a node's statistics stand for: those after the cycle sim_warmup,
\* or all of them while it is not over.
Counted(n) ==
  (IF time > SimWarmup THEN time - SimWarmup - 1 ELSE time)
    + (IF stage = "loop" /\ n < turn THEN 1 ELSE 0)

\* No node counts more flits than its ejection links could take in the cycles
\* its statistics stand for: the reset leaves nothing of the warm-up behind.
EjectionRate == \A n \in Node : stat[n].received_flit <= EjPorts * Counted(n)

\* Delays are times a flit can have taken: its hops from source to destination,
\* or once round the ring back to the source, after the flits before it.
NeverEarly == \A e \in ejected : e.delay >= e.hops + e.flit[2]
=============================================================================
