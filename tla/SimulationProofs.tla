-------------------------- MODULE SimulationProofs --------------------------
(***************************************************************************)
(* What the statistics are worth, for every network, traffic, warm-up and  *)
(* length of the simulation: the summary is exact, the phases balance, no  *)
(* node counts more than its ejection links could take, and no flit is     *)
(* delivered earlier than its way and its place in the packet allow.       *)
(***************************************************************************)
EXTENDS Simulation, NocProofs

-----------------------------------------------------------------------------
(* The inductive invariant.                                                *)

TotalOf(k) == SumFunctionOnSet([n \in Node |-> stat[n][k]], Node)
Delays(S) == SumFunctionOnSet([e \in S |-> e.delay], S)
LastOf(S) == {e \in S : e.last}

StatType ==
  [received_flit : Nat, flit_delay : Nat, max_flit_delay : Nat,
   received_packet : Nat, packet_delay : Nat, max_packet_delay : Nat,
   packet_id_for_max_delay : Nat]

Ranges ==
  /\ stage \in {"loop", "gathered", "destroyed"}
  /\ time \in 0..SimTime
  /\ stage = "loop" <=> time < SimTime
  /\ stat \in [Node -> StatType]
  /\ warm_up_packet \in Nat /\ backlog \in Int
  /\ IsFiniteSet(ejected)
  /\ \A e \in ejected :
       e.flit \in FlitId /\ e.delay \in Nat \ {0} /\ e.last \in BOOLEAN

\* Nothing was created after the present cycle.
Created ==
  /\ cycle <= time
  /\ \A n \in Node : \A i \in 1..Len(queue[n]) : queue[n][i].ctime <= cycle
  /\ \A p \in DOMAIN packet : packet[p].ctime <= time

\* A flit that has entered the network is a number of hops from its source,
\* one for every cycle since then at the most; it entered in a cycle of its
\* own, after the flits before it.
OnItsWay(f) ==
  LET p == packet[f[1]]
  IN  /\ \E k \in 0..time :
           /\ Places(p.ring, p.src)[k] = flit[f].node
           /\ k + f[2] <= time - p.ctime
           /\ flit[f].status = "Routing" /\ turn <= flit[f].node => k >= 1
      /\ f[2] + (IF turn <= p.src THEN 1 ELSE 0) <= time - p.ctime
Underway ==
  \A f \in DOMAIN flit : flit[f].status # "Injecting" => OnItsWay(f)

\* What was ejected is not ejected again.
Gone ==
  \A e \in ejected :
    /\ e.flit[1] < next_id
    /\ \A n \in Node : \A i \in 1..Len(queue[n]) : queue[n][i].id # e.flit[1]
    /\ e.flit \in DOMAIN flit => flit[e.flit].status = "Ejected"

\* The counters and sums of the nodes together are those of the history.
Sums ==
  /\ TotalOf("received_flit") = Cardinality(ejected)
  /\ TotalOf("flit_delay") = Delays(ejected)
  /\ TotalOf("received_packet") = Cardinality(LastOf(ejected))
  /\ TotalOf("packet_delay") = Delays(LastOf(ejected))

\* The maxima are reached and not exceeded.
Maxima ==
  /\ \A e \in ejected :
       /\ \E n \in Node : e.delay <= stat[n].max_flit_delay
       /\ e.last => \E n \in Node : e.delay <= stat[n].max_packet_delay
  /\ \A n \in Node :
       /\ \/ stat[n].max_flit_delay = 0
          \/ \E e \in ejected : e.delay = stat[n].max_flit_delay
       /\ \/ stat[n].max_packet_delay = 0
          \/ \E e \in LastOf(ejected) :
               /\ e.delay = stat[n].max_packet_delay
               /\ e.flit[1] = stat[n].packet_id_for_max_delay

\* The packets of the phase the statistics stand for.
Balance ==
  (IF time <= SimWarmup THEN next_id ELSE SentInSimulation + backlog)
    = TotalOf("received_packet") + Queued + Attached

\* Once the loop is over the summary is final.
Final ==
  stage # "loop" =>
    /\ turn = N
    /\ SummaryExact /\ m_stat.received_packet = TotalOf("received_packet")
    /\ stage = "destroyed" => unrecv = Queued + Attached

SimInv ==
  /\ IInv /\ Ranges /\ Created /\ Underway /\ NeverEarly /\ Gone
  /\ Sums /\ Maxima /\ EjectionRate /\ Balance /\ Final
-----------------------------------------------------------------------------
(* What the ejections of a cycle make of the Stat of a node.               *)

\* s is the Stat s0 and what the ejections noted in G add to it.
Adds(s0, s, G) ==
  /\ s \in StatType
  /\ s.received_flit = s0.received_flit + Cardinality(G)
  /\ s.flit_delay = s0.flit_delay + Delays(G)
  /\ s.received_packet = s0.received_packet + Cardinality(LastOf(G))
  /\ s.packet_delay = s0.packet_delay + Delays(LastOf(G))
  /\ s.max_flit_delay >= s0.max_flit_delay
  /\ \A e \in G : e.delay <= s.max_flit_delay
  /\ \/ s.max_flit_delay = s0.max_flit_delay
     \/ \E e \in G : e.delay = s.max_flit_delay
  /\ s.max_packet_delay >= s0.max_packet_delay
  /\ \A e \in LastOf(G) : e.delay <= s.max_packet_delay
  /\ \/ /\ s.max_packet_delay = s0.max_packet_delay
        /\ s.packet_id_for_max_delay = s0.packet_id_for_max_delay
     \/ \E e \in LastOf(G) : /\ e.delay = s.max_packet_delay
                             /\ e.flit[1] = s.packet_id_for_max_delay

\* Sums of delays of finite sets of records.
LEMMA DelayFacts ==
  ASSUME NEW S, IsFiniteSet(S), \A e \in S : e.delay \in Int
  PROVE  /\ Delays(S) \in Int
         /\ \A T : IsFiniteSet(T) /\ (\A e \in T : e.delay \in Int) /\ S \cap T = {}
                   => Delays(S \cup T) = Delays(S) + Delays(T)
         /\ \A e : e.delay \in Int => Delays({e}) = e.delay
<1>1. \A T : IsFiniteSet(T) /\ (\A e \in T : e.delay \in Int) => Delays(T) \in Int
  <2> TAKE T
  <2> HAVE IsFiniteSet(T) /\ \A e \in T : e.delay \in Int
  <2>1. PICK f : f = [e \in T |-> e.delay]
    OBVIOUS
  <2>2. \A e \in T : f[e] \in Int
    BY <2>1
  <2>3. SumFunctionOnSet(f, T) \in Int
    BY <2>2, SumType
  <2> QED BY <2>1, <2>3 DEF Delays
<1>2. ASSUME NEW T, IsFiniteSet(T), \A e \in T : e.delay \in Int, S \cap T = {}
      PROVE  Delays(S \cup T) = Delays(S) + Delays(T)
  <2>1. PICK f : f = [e \in S \cup T |-> e.delay]
    OBVIOUS
  <2>2. PICK g : g = [e \in S |-> e.delay]
    OBVIOUS
  <2>3. PICK h : h = [e \in T |-> e.delay]
    OBVIOUS
  <2>4. SumFunctionOnSet(f, S) = SumFunctionOnSet(g, S)
    BY <2>1, <2>2, SumCongruence
  <2>5. SumFunctionOnSet(f, T) = SumFunctionOnSet(h, T)
    BY <1>2, <2>1, <2>3, SumCongruence
  <2>6. \A e \in S \cup T : f[e] \in Int
    BY <1>2, <2>1
  <2>7. SumFunctionOnSet(f, S \cup T) = SumFunctionOnSet(f, S) + SumFunctionOnSet(f, T)
    BY <1>2, <2>6, SumUnion
  <2> QED BY <2>1, <2>2, <2>3, <2>4, <2>5, <2>7 DEF Delays
<1>3. ASSUME NEW e, e.delay \in Int PROVE Delays({e}) = e.delay
  <2>1. PICK f : f = [x \in {e} |-> x.delay]
    OBVIOUS
  <2>2. IsFiniteSet({e}) /\ \A x \in {e} : f[x] \in Int
    BY <1>3, <2>1, FS_Singleton
  <2>3. PICK rest : rest = {e} \ {e}
    OBVIOUS
  <2>4. SumFunctionOnSet(f, {e}) = f[e] + SumFunctionOnSet(f, rest) /\ rest = {}
    BY <2>2, <2>3, SumRemove
  <2>5. SumFunctionOnSet(f, {}) = 0
    BY SumEmpty
  <2>6. f[e] = e.delay
    BY <2>1
  <2>7. SumFunctionOnSet(f, {e}) = e.delay
    BY <1>3, <2>4, <2>5, <2>6
  <2>8. Delays({e}) = SumFunctionOnSet(f, {e})
    BY <2>1 DEF Delays
  <2> QED BY <2>7, <2>8
<1> QED BY <1>1, <1>2, <1>3

\* One more record.
LEMMA DelayAdded ==
  ASSUME NEW G, IsFiniteSet(G), \A e \in G : e.delay \in Int,
         NEW e, e.delay \in Int, e \notin G
  PROVE  /\ IsFiniteSet(G \cup {e})
         /\ Cardinality(G) \in Nat /\ Cardinality(G \cup {e}) = Cardinality(G) + 1
         /\ Delays(G) \in Int /\ Delays(G \cup {e}) = Delays(G) + e.delay
<1>1. IsFiniteSet({e}) /\ G \cap {e} = {} /\ \A x \in {e} : x.delay \in Int
  BY FS_Singleton
<1>2. Delays(G \cup {e}) = Delays(G) + Delays({e}) /\ Delays({e}) = e.delay
  BY <1>1, DelayFacts
<1>3. Delays(G) \in Int
  BY DelayFacts
<1> QED BY <1>2, <1>3, FS_AddElement, FS_CardinalityType

\* No ejection changes nothing.
LEMMA AddsNothing == ASSUME NEW s \in StatType PROVE Adds(s, s, {})
<1>1. Cardinality({}) = 0 /\ LastOf({}) = {} /\ Delays({}) = 0
  BY FS_EmptySet, SumEmpty DEF LastOf, Delays
<1> QED BY <1>1 DEF Adds, StatType

\* What update_flit_stat and update_packet_stat change.
FlitCount1(s, l, t) ==
  /\ t.received_flit = s.received_flit + 1
  /\ t.flit_delay = s.flit_delay + l
  /\ t.max_flit_delay = IF l > s.max_flit_delay THEN l ELSE s.max_flit_delay
  /\ t.received_packet = s.received_packet
  /\ t.packet_delay = s.packet_delay
  /\ t.max_packet_delay = s.max_packet_delay
  /\ t.packet_id_for_max_delay = s.packet_id_for_max_delay
PacketCount1(s, l, id, t) ==
  /\ t.received_flit = s.received_flit
  /\ t.flit_delay = s.flit_delay
  /\ t.max_flit_delay = s.max_flit_delay
  /\ t.received_packet = s.received_packet + 1
  /\ t.packet_delay = s.packet_delay + l
  /\ t.max_packet_delay = IF l > s.max_packet_delay THEN l ELSE s.max_packet_delay
  /\ t.packet_id_for_max_delay =
       IF l > s.max_packet_delay THEN id ELSE s.packet_id_for_max_delay

\* One flit more.
LEMMA FlitCounted ==
  ASSUME NEW s \in StatType, NEW l \in Nat
  PROVE  WithFlit(s, l) \in StatType /\ FlitCount1(s, l, WithFlit(s, l))
<1>1. /\ s.received_flit + 1 \in Nat /\ s.flit_delay + l \in Nat
      /\ (IF l > s.max_flit_delay THEN l ELSE s.max_flit_delay) \in Nat
  BY DEF StatType
<1>2. WithFlit(s, l) \in StatType
  BY <1>1 DEF WithFlit, StatType
<1>3. FlitCount1(s, l, WithFlit(s, l))
  BY DEF WithFlit, StatType, FlitCount1
<1> QED BY <1>2, <1>3

\* One packet more.
LEMMA PacketCounted ==
  ASSUME NEW s \in StatType, NEW l \in Nat, NEW id \in Nat
  PROVE  /\ WithPacket(s, l, id) \in StatType
         /\ PacketCount1(s, l, id, WithPacket(s, l, id))
<1>1. /\ s.received_packet + 1 \in Nat /\ s.packet_delay + l \in Nat
      /\ (IF l > s.max_packet_delay THEN l ELSE s.max_packet_delay) \in Nat
      /\ (IF l > s.max_packet_delay THEN id ELSE s.packet_id_for_max_delay) \in Nat
  BY DEF StatType
<1>2. WithPacket(s, l, id) \in StatType
  BY <1>1 DEF WithPacket, StatType
<1>3. PacketCount1(s, l, id, WithPacket(s, l, id))
  BY DEF WithPacket, StatType, PacketCount1
<1> QED BY <1>2, <1>3

\* A further ejection adds its record.
LEMMA AddsOne ==
  ASSUME NEW s0 \in StatType, NEW s, NEW G, Adds(s0, s, G), IsFiniteSet(G),
         \A e \in G : e.delay \in Nat /\ e.last \in BOOLEAN,
         NEW f, Latency(f) \in Nat, f[1] \in Nat, Noted(f) \notin G
  PROVE  Adds(s0, WithEjection(s, f), G \cup {Noted(f)})
<1>a. PICK e : e = Noted(f)
  OBVIOUS
<1>b. PICK l \in Nat : l = Latency(f)
  OBVIOUS
<1>c. PICK H : H = G \cup {e}
  OBVIOUS
<1>d. PICK t : t = WithEjection(s, f)
  OBVIOUS
<1>1. /\ e.flit = f /\ e.delay = l /\ e.last \in BOOLEAN
      /\ e.last <=> f[2] = LastSeq(f[1])
  BY <1>a, <1>b DEF Noted
<1>2. /\ s \in StatType /\ s.received_flit \in Nat /\ s.max_flit_delay \in Nat
      /\ s.max_packet_delay \in Nat /\ s.flit_delay \in Nat
      /\ s.received_packet \in Nat /\ s.packet_delay \in Nat
  BY DEF Adds, StatType
<1>3. /\ s0.received_flit \in Nat /\ s0.max_flit_delay \in Nat
      /\ s0.max_packet_delay \in Nat /\ s0.flit_delay \in Nat
      /\ s0.received_packet \in Nat /\ s0.packet_delay \in Nat
  BY DEF StatType
<1>4. /\ IsFiniteSet(H) /\ Cardinality(G) \in Nat
      /\ Cardinality(H) = Cardinality(G) + 1
      /\ Delays(G) \in Int /\ Delays(H) = Delays(G) + l
  BY <1>a, <1>c, <1>1, DelayAdded
<1>5. PICK w : w = WithFlit(s, l)
  OBVIOUS
<1>6. /\ w \in StatType
      /\ w.received_flit = s.received_flit + 1
      /\ w.flit_delay = s.flit_delay + l
      /\ w.max_flit_delay = IF l > s.max_flit_delay THEN l ELSE s.max_flit_delay
      /\ w.received_packet = s.received_packet
      /\ w.packet_delay = s.packet_delay
      /\ w.max_packet_delay = s.max_packet_delay
      /\ w.packet_id_for_max_delay = s.packet_id_for_max_delay
  BY <1>2, <1>5, FlitCounted DEF FlitCount1
\* The part about flits.
<1>7. /\ w.received_flit = s0.received_flit + Cardinality(H)
      /\ w.flit_delay = s0.flit_delay + Delays(H)
      /\ w.max_flit_delay >= s0.max_flit_delay
      /\ \A x \in H : x.delay <= w.max_flit_delay
      /\ \/ w.max_flit_delay = s0.max_flit_delay
         \/ \E x \in H : x.delay = w.max_flit_delay
  <2>1. /\ s.received_flit = s0.received_flit + Cardinality(G)
        /\ s.flit_delay = s0.flit_delay + Delays(G)
        /\ s.max_flit_delay >= s0.max_flit_delay
        /\ \A x \in G : x.delay <= s.max_flit_delay
        /\ \/ s.max_flit_delay = s0.max_flit_delay
           \/ \E x \in G : x.delay = s.max_flit_delay
    BY DEF Adds
  <2>2. \A x \in H : x.delay <= w.max_flit_delay
    <3> TAKE x \in H
    <3>1. x.delay \in Nat /\ (x = e \/ x \in G)
      BY <1>c, <1>1
    <3> QED BY <1>1, <1>2, <1>6, <2>1, <3>1
  <2>3. \/ w.max_flit_delay = s0.max_flit_delay
        \/ \E x \in H : x.delay = w.max_flit_delay
    <3>1. e \in H /\ G \subseteq H
      BY <1>c
    <3>2. w.max_flit_delay = l \/ w.max_flit_delay = s.max_flit_delay
      BY <1>6
    <3> QED BY <1>1, <2>1, <3>1, <3>2
  <2>4. w.max_flit_delay >= s0.max_flit_delay
    BY <1>2, <1>3, <1>6, <2>1
  <2>5. /\ w.received_flit = s0.received_flit + Cardinality(H)
        /\ w.flit_delay = s0.flit_delay + Delays(H)
    BY <1>3, <1>4, <1>6, <2>1
  <2> QED BY <2>2, <2>3, <2>4, <2>5
<1>8. /\ s.received_packet = s0.received_packet + Cardinality(LastOf(G))
      /\ s.packet_delay = s0.packet_delay + Delays(LastOf(G))
      /\ s.max_packet_delay >= s0.max_packet_delay
      /\ \A x \in LastOf(G) : x.delay <= s.max_packet_delay
      /\ \/ /\ s.max_packet_delay = s0.max_packet_delay
            /\ s.packet_id_for_max_delay = s0.packet_id_for_max_delay
         \/ \E x \in LastOf(G) : /\ x.delay = s.max_packet_delay
                                 /\ x.flit[1] = s.packet_id_for_max_delay
  BY DEF Adds
<1>9. CASE ~e.last
  <2>1. LastOf(H) = LastOf(G)
    BY <1>c, <1>9 DEF LastOf
  <2>2. t = w
    BY <1>b, <1>d, <1>1, <1>5, <1>9 DEF WithEjection
  <2>3. Adds(s0, w, H)
    BY <1>6, <1>7, <1>8, <2>1 DEF Adds
  <2> QED BY <1>a, <1>c, <1>d, <2>2, <2>3
<1>10. CASE e.last
  <2>1. LastOf(H) = LastOf(G) \cup {e} /\ e \notin LastOf(G)
    BY <1>a, <1>c, <1>10 DEF LastOf
  <2>2. IsFiniteSet(LastOf(G)) /\ \A x \in LastOf(G) : x.delay \in Nat
    <3>1. LastOf(G) \subseteq G
      BY DEF LastOf
    <3> QED BY <3>1, FS_Subset
  <2>3. /\ Cardinality(LastOf(G)) \in Nat
        /\ Cardinality(LastOf(H)) = Cardinality(LastOf(G)) + 1
        /\ Delays(LastOf(G)) \in Int
        /\ Delays(LastOf(H)) = Delays(LastOf(G)) + l
    <3>1. \A x \in LastOf(G) : x.delay \in Int
      BY <2>2
    <3>2. e.delay = l /\ e.delay \in Int
      BY <1>1
    <3> QED BY <2>1, <2>2, <3>1, <3>2, DelayAdded
  <2>4. t = WithPacket(w, l, f[1])
    BY <1>b, <1>d, <1>1, <1>5, <1>10 DEF WithEjection
  <2>5. /\ t \in StatType
        /\ t.received_flit = w.received_flit
        /\ t.flit_delay = w.flit_delay
        /\ t.max_flit_delay = w.max_flit_delay
        /\ t.received_packet = w.received_packet + 1
        /\ t.packet_delay = w.packet_delay + l
        /\ t.max_packet_delay =
             IF l > w.max_packet_delay THEN l ELSE w.max_packet_delay
        /\ t.packet_id_for_max_delay =
             IF l > w.max_packet_delay THEN f[1] ELSE w.packet_id_for_max_delay
    <3>1. /\ w \in StatType /\ l \in Nat /\ f[1] \in Nat
      BY <1>6
    <3>2. WithPacket(w, l, f[1]) \in StatType /\ PacketCount1(w, l, f[1], WithPacket(w, l, f[1]))
      BY <3>1, PacketCounted
    <3>3. t \in StatType /\ PacketCount1(w, l, f[1], t)
      BY <2>4, <3>2
    <3> QED BY <3>3 DEF PacketCount1
  <2>6. /\ t.received_packet = s0.received_packet + Cardinality(LastOf(H))
        /\ t.packet_delay = s0.packet_delay + Delays(LastOf(H))
    BY <1>3, <1>6, <1>8, <2>3, <2>5
  <2>7. t.max_packet_delay >= s0.max_packet_delay
    BY <1>2, <1>3, <1>6, <1>8, <2>5
  <2>8. \A x \in LastOf(H) : x.delay <= t.max_packet_delay
    <3> TAKE x \in LastOf(H)
    <3>1. x.delay \in Nat /\ (x = e \/ x \in LastOf(G))
      BY <1>1, <2>1, <2>2
    <3> QED BY <1>1, <1>2, <1>6, <1>8, <2>5, <3>1
  <2>9. \/ /\ t.max_packet_delay = s0.max_packet_delay
           /\ t.packet_id_for_max_delay = s0.packet_id_for_max_delay
        \/ \E x \in LastOf(H) : /\ x.delay = t.max_packet_delay
                                /\ x.flit[1] = t.packet_id_for_max_delay
    <3>1. CASE l > w.max_packet_delay
      BY <1>1, <2>1, <2>5, <3>1
    <3>2. CASE ~(l > w.max_packet_delay)
      <4>1. /\ t.max_packet_delay = s.max_packet_delay
            /\ t.packet_id_for_max_delay = s.packet_id_for_max_delay
        BY <1>6, <2>5, <3>2
      <4> QED BY <1>8, <2>1, <4>1
    <3> QED BY <3>1, <3>2
  <2>10. Adds(s0, t, H)
    BY <1>7, <2>5, <2>6, <2>7, <2>8, <2>9 DEF Adds
  <2> QED BY <1>a, <1>c, <1>d, <2>10
<1> QED BY <1>9, <1>10

-----------------------------------------------------------------------------
(* The ejections of a cycle, in whatever order they are counted.           *)

IsCount(g, s, o, S) ==
  g = [i \in S |-> IF i = 0 THEN s ELSE WithEjection(g[i - 1], o[i])]

\* The recursive definition defines a function.
LEMMA CountExists ==
  ASSUME NEW s, NEW o, NEW k \in Nat
  PROVE  \E g : IsCount(g, s, o, 0..k)
<1> DEFINE Some(n) == \E h : IsCount(h, s, o, 0..n)
           Done == {n \in Nat : Some(n)}
<1>1. Some(0)
  <2> DEFINE h == [i \in 0..0 |-> s]
  <2>1. IsCount(h, s, o, 0..0)
    BY DEF IsCount
  <2> QED BY <2>1
<1>2. ASSUME NEW n \in Nat, Some(n) PROVE Some(n + 1)
  <2>1. PICK h : IsCount(h, s, o, 0..n)
    BY <1>2
  <2> DEFINE g == [i \in 0..(n + 1) |-> IF i = 0 THEN s ELSE WithEjection(h[i - 1], o[i])]
  <2>2. ASSUME NEW i \in 0..(n + 1), i # 0
        PROVE  h[i - 1] = g[i - 1]
    <3>1. i - 1 \in 0..n /\ i - 1 \in 0..(n + 1)
      BY <2>2
    <3> QED BY <2>1, <3>1 DEF IsCount
  <2>3. IsCount(g, s, o, 0..(n + 1))
    BY <2>2 DEF IsCount
  <2> QED BY <2>3
<1>3. 0 \in Done /\ \A n \in Nat : n \in Done => n + 1 \in Done
  <2> HIDE DEF Some
  <2> QED BY <1>1, <1>2
<1>4. \A n \in Nat : n \in Done
  <2> HIDE DEF Done
  <2> QED BY <1>3, Induction
<1> QED BY <1>4

\* The recursion of StatAfter, unfolded.
Counts(s, o, k, t) ==
  \E g : /\ g[0] = s
         /\ \A i \in 1..k : g[i] = WithEjection(g[i - 1], o[i])
         /\ t = g[k]
\* The Stat of a node after a sequence of ejections, one by one.
LEMMA StatAfterFacts ==
  ASSUME NEW s, NEW o, Len(o) \in Nat
  PROVE  Counts(s, o, Len(o), StatAfter(s, o))
<1>1. PICK k \in Nat : k = Len(o)
  OBVIOUS
<1>2. PICK g : g = CHOOSE h : IsCount(h, s, o, 0..k)
  OBVIOUS
<1>3. IsCount(g, s, o, 0..k)
  BY <1>2, CountExists
<1>4. StatAfter(s, o) = g[k]
  BY <1>1, <1>2 DEF StatAfter, IsCount
<1>5. \A i \in 0..k : g[i] = IF i = 0 THEN s ELSE WithEjection(g[i - 1], o[i])
  BY <1>3 DEF IsCount
<1>6. 0 \in 0..k /\ \A i \in 1..k : i \in 0..k /\ i # 0
  OBVIOUS
<1>7. Counts(s, o, k, StatAfter(s, o))
  BY <1>4, <1>5, <1>6 DEF Counts
<1> QED BY <1>1, <1>7

\* A node's Stat after the ejections of a cycle is what it was and what these
\* add, in whatever order they come.
LEMMA StatsAfterFacts ==
  ASSUME NEW F, IsFiniteSet(F), NEW s0 \in StatType,
         \A f \in F : Latency(f) \in Nat /\ f[1] \in Nat,
         NEW s \in StatsAfter(s0, F)
  PROVE  Adds(s0, s, {Noted(f) : f \in F})
<1>1. PICK k \in Nat : k = Cardinality(F)
  BY FS_CardinalityType
<1>2. PICK o \in [1..k -> F] :
        {o[i] : i \in DOMAIN o} = F /\ s = StatAfter(s0, o)
  BY <1>1 DEF StatsAfter
<1>3. PICK g : /\ g[0] = s0
               /\ \A i \in 1..k : g[i] = WithEjection(g[i - 1], o[i])
               /\ s = g[k]
  <2>1. Len(o) = k
    BY LenProperties
  <2>2. Counts(s0, o, Len(o), StatAfter(s0, o))
    BY <2>1, StatAfterFacts
  <2> QED BY <1>2, <2>1, <2>2 DEF Counts
<1>4. \A i, j \in 1..k : o[i] = o[j] => i = j
  <2>1. o \in Surjection(1..k, F)
    BY <1>2 DEF Surjection
  <2>2. IsFiniteSet(1..k) /\ Cardinality(1..k) = k
    BY FS_Interval
  <2>3. o \in Injection(1..k, F)
    BY <1>1, <2>1, <2>2, FS_SurjSameCardinalityImpliesInj
  <2> QED BY <2>3 DEF Injection, IsInjective
<1> DEFINE R(j) == {Noted(o[i]) : i \in 1..j}
           Good(j) == IsFiniteSet(R(j)) /\ Adds(s0, g[j], R(j))
           Done == {j \in Nat : j <= k => Good(j)}
<1>5. Good(0)
  <2>1. R(0) = {}
    OBVIOUS
  <2> HIDE DEF R
  <2> QED BY <1>3, <2>1, AddsNothing, FS_EmptySet
<1>6. ASSUME NEW j \in Nat, j + 1 <= k, Good(j) PROVE Good(j + 1)
  <2>1. PICK f : f = o[j + 1]
    OBVIOUS
  <2>2. f \in F /\ Latency(f) \in Nat /\ f[1] \in Nat
    <3>1. j + 1 \in 1..k
      BY <1>6
    <3> QED BY <2>1, <3>1
  <2>3. R(j + 1) = R(j) \cup {Noted(f)}
    <3>1. 1..(j + 1) = (1..j) \cup {j + 1}
      OBVIOUS
    <3> QED BY <2>1, <3>1
  <2>4. Noted(f) \notin R(j)
    <3> SUFFICES ASSUME NEW i \in 1..j, Noted(o[i]) = Noted(f) PROVE FALSE
      OBVIOUS
    <3>1. o[i] = f
      BY DEF Noted
    <3>2. i \in 1..k /\ j + 1 \in 1..k /\ i # j + 1
      BY <1>6
    <3> QED BY <1>4, <2>1, <3>1, <3>2
  <2>5. \A e \in R(j) : e.delay \in Nat /\ e.last \in BOOLEAN
    <3> SUFFICES ASSUME NEW i \in 1..j
                 PROVE  Noted(o[i]).delay \in Nat /\ Noted(o[i]).last \in BOOLEAN
      OBVIOUS
    <3>1. i \in 1..k
      BY <1>6
    <3>2. Latency(o[i]) \in Nat
      BY <3>1
    <3> QED BY <3>2 DEF Noted
  <2>6. g[j + 1] = WithEjection(g[j], f)
    <3>1. j + 1 \in 1..k /\ (j + 1) - 1 = j
      BY <1>6
    <3> QED BY <1>3, <2>1, <3>1
  <2>7. IsFiniteSet(R(j)) /\ Adds(s0, g[j], R(j))
    BY <1>6
  <2> HIDE DEF R
  <2>8. Adds(s0, WithEjection(g[j], f), R(j) \cup {Noted(f)})
    BY <2>2, <2>4, <2>5, <2>7, AddsOne
  <2>9. IsFiniteSet(R(j) \cup {Noted(f)})
    BY <2>7, FS_AddElement
  <2> QED BY <2>3, <2>6, <2>8, <2>9
<1>7. \A j \in Nat : j \in Done
  <2> HIDE DEF Good
  <2>1. 0 \in Done
    BY <1>5
  <2>2. \A j \in Nat : j \in Done => j + 1 \in Done
    BY <1>6
  <2> HIDE DEF Done
  <2> QED BY <2>1, <2>2, Induction
<1>8. Good(k)
  <2> HIDE DEF Good
  <2> QED BY <1>7
<1>9. R(k) = {Noted(f) : f \in F}
  BY <1>2
<1> QED BY <1>3, <1>8, <1>9

-----------------------------------------------------------------------------
(* The way along a ring.                                                   *)

\* The recursion of Places, unfolded.
LEMMA PlacesFacts ==
  ASSUME NEW r, NEW a
  PROVE  /\ Places(r, a)[0] = a
         /\ \A k \in Nat : Places(r, a)[k + 1] = NextNode[r][Places(r, a)[k]]
<1>1. PICK next : next = NextNode[r]
  OBVIOUS
<1>2. PICK g : g = CHOOSE h : IsOrbit(h, next, a, Nat)
  OBVIOUS
<1>3. IsOrbit(g, next, a, Nat)
  BY <1>2, OrbitExists
<1>4. Places(r, a) = g
  BY <1>1, <1>2 DEF Places, IsOrbit
<1>5. \A k \in Nat : g[k] = IF k = 0 THEN a ELSE next[g[k - 1]]
  BY <1>3 DEF IsOrbit
<1>6. 0 \in Nat /\ \A k \in Nat : k + 1 \in Nat /\ k + 1 # 0 /\ (k + 1) - 1 = k
  OBVIOUS
<1> QED BY <1>1, <1>4, <1>5, <1>6

\* A flit stays on its ring.
LEMMA PlacesOnRing ==
  ASSUME NEW r \in Ring, NEW a \in NodesOn[r]
  PROVE  \A k \in Nat : Places(r, a)[k] \in NodesOn[r]
<1> DEFINE Done == {k \in Nat : Places(r, a)[k] \in NodesOn[r]}
<1>1. \A m \in NodesOn[r] : NextNode[r][m] \in NodesOn[r]
  BY NocAssumption
<1>2. 0 \in Done /\ \A k \in Nat : k \in Done => k + 1 \in Done
  BY <1>1, PlacesFacts
<1>3. \A k \in Nat : k \in Done
  <2> HIDE DEF Done
  <2> QED BY <1>2, Induction
<1> QED BY <1>3

\* From the same place the way is the same.
LEMMA SameWay ==
  ASSUME NEW r \in Ring, NEW a \in NodesOn[r], NEW i \in Nat, NEW j \in Nat,
         Places(r, a)[i] = Places(r, a)[j]
  PROVE  \A m \in Nat : Places(r, a)[i + m] = Places(r, a)[j + m]
<1>1. PICK P : P = Places(r, a)
  OBVIOUS
<1> DEFINE Done == {m \in Nat : P[i + m] = P[j + m]}
<1>2. \A k \in Nat : P[k + 1] = NextNode[r][P[k]]
  BY <1>1, PlacesFacts
<1>3. 0 \in Done
  BY <1>1
<1>4. ASSUME NEW m \in Nat, m \in Done PROVE m + 1 \in Done
  <2>1. /\ i + m \in Nat /\ j + m \in Nat
        /\ i + (m + 1) = (i + m) + 1 /\ j + (m + 1) = (j + m) + 1
    OBVIOUS
  <2>2. P[i + m] = P[j + m]
    BY <1>4
  <2>3. P[(i + m) + 1] = P[(j + m) + 1]
    BY <1>2, <2>1, <2>2
  <2> QED BY <2>1, <2>3
<1>5. \A m \in Nat : m \in Done
  <2> HIDE DEF Done
  <2> QED BY <1>3, <1>4, Induction
<1> QED BY <1>1, <1>5

\* The first visit to a node, counted from the first hop, is within one round.
LEMMA FirstVisit ==
  ASSUME NEW r \in Ring, NEW a \in NodesOn[r], NEW b,
         NEW k \in Nat \ {0}, Places(r, a)[k] = b
  PROVE  \E j \in 1..k : /\ j <= Cardinality(NodesOn[r])
                         /\ Places(r, a)[j] = b
                         /\ \A i \in 1..(j - 1) : Places(r, a)[i] # b
<1>1. PICK P : P = Places(r, a)
  OBVIOUS
<1>2. PICK c \in Nat : c = Cardinality(NodesOn[r]) /\ IsFiniteSet(NodesOn[r])
  <2>1. N \in Nat /\ N - 1 \in Int
    BY Numbers
  <2>2. IsFiniteSet(Node)
    BY <2>1, FS_Interval DEF Node
  <2>3. NodesOn[r] \subseteq Node
    BY NocAssumption
  <2> QED BY <2>2, <2>3, FS_Subset, FS_CardinalityType
<1>3. PICK S : S = {j \in Nat \ {0} : P[j] = b}
  OBVIOUS
<1>4. k \in S /\ S \in SUBSET Nat
  BY <1>1, <1>3
<1>5. PICK j \in S : \A i \in S : j <= i
  BY <1>4, LeastNatural
<1>6. j \in Nat \ {0} /\ P[j] = b /\ j <= k
  BY <1>3, <1>4, <1>5
<1>7. \A i \in 1..(j - 1) : P[i] # b
  <2> SUFFICES ASSUME NEW i \in 1..(j - 1), P[i] = b PROVE FALSE
    OBVIOUS
  <2>1. i \in S /\ ~(j <= i)
    BY <1>3, <1>6
  <2> QED BY <1>5, <2>1
<1>8. ASSUME c < j PROVE FALSE
  <2>1. PICK f : f = [i \in 1..j |-> P[i]]
    OBVIOUS
  <2>2. f \in [1..j -> NodesOn[r]]
    <3>1. \A i \in 1..j : P[i] \in NodesOn[r]
      BY <1>1, PlacesOnRing
    <3> QED BY <2>1, <3>1
  <2>3. IsFiniteSet(1..j) /\ Cardinality(1..j) = j
    BY <1>6, FS_Interval
  <2>4. \E x, y \in 1..j : x # y /\ f[x] = f[y]
    <3>1. PICK J : J = 1..j
      OBVIOUS
    <3>2. PICK T : T = NodesOn[r]
      OBVIOUS
    <3>3. /\ IsFiniteSet(J) /\ IsFiniteSet(T) /\ f \in [J -> T]
          /\ Cardinality(T) < Cardinality(J)
      BY <1>2, <1>8, <2>2, <2>3, <3>1, <3>2
    <3>4. \E x, y \in J : x # y /\ f[x] = f[y]
      <4> SUFFICES ASSUME \A x, y \in J : f[x] = f[y] => x = y PROVE FALSE
        OBVIOUS
      <4>1. f \in Injection(J, T)
        BY <3>3 DEF Injection, IsInjective
      <4>2. Cardinality(J) <= Cardinality(T)
        BY <3>3, <4>1, FS_Injection
      <4> QED BY <3>3, <4>2, FS_CardinalityType
    <3> QED BY <3>1, <3>4
  <2>5. PICK x, y \in 1..j : x < y /\ P[x] = P[y]
    <3>1. PICK x, y \in 1..j : x # y /\ f[x] = f[y]
      BY <2>4
    <3>2. P[x] = P[y] /\ (x < y \/ y < x)
      BY <2>1, <3>1, <1>6
    <3> QED BY <3>2
  <2>6. x \in Nat /\ y \in Nat /\ j - y \in Nat /\ y + (j - y) = j
        /\ x + (j - y) \in 1..(j - 1)
    BY <1>6, <2>5
  <2>7. \A m \in Nat : P[x + m] = P[y + m]
    BY <1>1, <2>5, <2>6, SameWay
  <2>8. P[x + (j - y)] = P[j]
    BY <2>6, <2>7
  <2> QED BY <1>6, <1>7, <2>6, <2>8
<1>9. j \in 1..k /\ j <= c
  BY <1>6, <1>8
<1> QED BY <1>1, <1>2, <1>6, <1>7, <1>9

\* The hops from a to b are no more than any number of hops that leads there.
LEMMA HopsFacts ==
  ASSUME NEW r \in Ring, NEW a \in NodesOn[r], NEW b,
         NEW k \in Nat \ {0}, Places(r, a)[k] = b
  PROVE  Hops(r, a, b) \in Nat /\ Hops(r, a, b) <= k
<1>1. PICK j \in 1..k : /\ j <= Cardinality(NodesOn[r])
                        /\ Places(r, a)[j] = b
                        /\ \A i \in 1..(j - 1) : Places(r, a)[i] # b
  BY FirstVisit
<1>2. PICK P : P = Places(r, a)
  OBVIOUS
<1>3. PICK c : c = Cardinality(NodesOn[r])
  OBVIOUS
<1>4. c \in Nat
  <2>1. N \in Nat /\ N - 1 \in Int
    BY Numbers
  <2>2. IsFiniteSet(Node)
    BY <2>1, FS_Interval DEF Node
  <2>3. NodesOn[r] \subseteq Node
    BY NocAssumption
  <2> QED BY <1>3, <2>2, <2>3, FS_Subset, FS_CardinalityType
<1>5. PICK h : h = CHOOSE i \in 1..c : P[i] = b /\ \A m \in 1..(i - 1) : P[m] # b
  OBVIOUS
<1>6. \E i \in 1..c : P[i] = b /\ \A m \in 1..(i - 1) : P[m] # b
  BY <1>1, <1>2, <1>3, <1>4
<1>7. h \in 1..c /\ P[h] = b /\ \A m \in 1..(h - 1) : P[m] # b
  BY <1>5, <1>6
<1>8. h <= j
  <2> SUFFICES ASSUME j < h PROVE FALSE
    BY <1>4, <1>7
  <2>1. j \in 1..(h - 1)
    BY <1>4, <1>7
  <2> QED BY <1>1, <1>2, <1>7, <2>1
<1>9. Hops(r, a, b) = h
  BY <1>2, <1>3, <1>5 DEF Hops
<1> QED BY <1>4, <1>7, <1>8, <1>9

-----------------------------------------------------------------------------
(* A run of a node with its statistics.                                    *)

SimStep(n, E, s) ==
  /\ stage = "loop" /\ n = turn
  /\ \E o \in Offers(n) : Generate(o) /\ Run(n, o, E)
  /\ s \in StatsAfter(stat[n], Ejected(n, E))
  /\ stat' = [stat EXCEPT ![n] = s]
  /\ ejected' = ejected \cup {Noted(f) : f \in Ejected(n, E)}
  /\ UNCHANGED <<stage, time, m_stat, warm_up_packet, unrecv, backlog>>

\* What SimulateNode does, apart from the choices it makes.
LEMMA SimulateNodeIsStep ==
  ASSUME IInv, SimulateNode
  PROVE  \E n \in Node : \E E \in EjectChoices(n) : \E s : SimStep(n, E, s)
<1>1. PICK n : n = turn
  OBVIOUS
<1>2. PICK o \in Offers(n), E \in EjectChoices(n) :
        /\ Generate(o) /\ Run(n, o, E)
        /\ \E s \in StatsAfter(stat[n], Ejected(n, E)) :
             stat' = [stat EXCEPT ![n] = s]
        /\ ejected' = ejected \cup {Noted(f) : f \in Ejected(n, E)}
  BY <1>1 DEF SimulateNode
<1>3. PICK s : s \in StatsAfter(stat[n], Ejected(n, E)) /\ stat' = [stat EXCEPT ![n] = s]
  BY <1>2
<1>4. n \in Node
  BY <1>1, Numbers DEF IInv, TypeOK, SimulateNode, Node
<1>5. SimStep(n, E, s)
  BY <1>1, <1>2, <1>3 DEF SimulateNode, SimStep
<1> QED BY <1>4, <1>5

NoneOlder(n) ==
  /\ \A i \in 1..Len(queue'[n]) :
       \/ queue'[n][i].ctime = cycle
       \/ \E j \in 1..Len(queue[n]) : queue'[n][i].ctime = queue[n][j].ctime
  /\ \A p \in DOMAIN packet' \ DOMAIN packet :
       \/ packet'[p].ctime = cycle
       \/ \E j \in 1..Len(queue[n]) : packet'[p].ctime = queue[n][j].ctime
\* The entries of the queue and the packets after a run were there before, or
\* have been generated in this cycle.
LEMMA CreationTimes ==
  ASSUME IInv, NEW n \in Node, NEW o \in Offers(n), NEW E \in EjectChoices(n),
         Generate(o), Run(n, o, E)
  PROVE  NoneOlder(n)
<1>1. PICK q : q = QueueWith(n, o)
  OBVIOUS
<1>2. q \in Seq(PacketInfo) /\ Len(q) \in Nat /\ queue \in [Node -> Seq(PacketInfo)]
  BY <1>1, QueueFacts DEF IInv, TypeOK
<1>3. ASSUME NEW i \in 1..Len(q)
      PROVE  \/ q[i].ctime = cycle
             \/ \E j \in 1..Len(queue[n]) : q[i].ctime = queue[n][j].ctime
  <2>1. queue[n] \in Seq(PacketInfo)
    BY <1>2
  <2>2. CASE o = NoOffer
    BY <1>1, <2>2 DEF QueueWith
  <2>3. CASE o # NoOffer
    <3>1. PICK x : x.ctime = cycle /\ q = Append(queue[n], x)
      BY <1>1, <2>3 DEF QueueWith
    <3>2. i \in 1..Len(queue[n]) \/ i = Len(queue[n]) + 1
      BY <2>1, <3>1
    <3> QED BY <2>1, <3>1, <3>2
  <2> QED BY <2>2, <2>3
<1>4. CASE Inject(n, o, E)
  <2>1. /\ q # <<>> /\ queue'[n] = Tail(q)
        /\ packet' = [p \in (DOMAIN packet \ Finished(n, E)) \cup {Head(q).id} |->
             IF p = Head(q).id
             THEN [dst |-> Head(q).dst, length |-> Head(q).length,
                   ctime |-> Head(q).ctime, src |-> n, ring |-> InjectRing(n, q, E)]
             ELSE packet[p]]
    BY <1>1, <1>2, <1>4 DEF Inject, CanInject
  <2>2. 1 \in 1..Len(q) /\ Head(q) = q[1]
    BY <1>2, <2>1, EmptySeq
  <2>3. \A i \in 1..Len(Tail(q)) : i + 1 \in 1..Len(q) /\ Tail(q)[i] = q[i + 1]
    BY <1>2, <2>1
  <2>4. \A p \in DOMAIN packet' \ DOMAIN packet : packet'[p].ctime = q[1].ctime
    BY <2>1, <2>2
  <2>5. ASSUME NEW i \in 1..Len(queue'[n])
        PROVE  \/ queue'[n][i].ctime = cycle
               \/ \E j \in 1..Len(queue[n]) : queue'[n][i].ctime = queue[n][j].ctime
    <3>1. i + 1 \in 1..Len(q) /\ queue'[n][i] = q[i + 1]
      BY <2>1, <2>3
    <3> QED BY <1>3, <3>1
  <2>6. \A p \in DOMAIN packet' \ DOMAIN packet :
          \/ packet'[p].ctime = cycle
          \/ \E j \in 1..Len(queue[n]) : packet'[p].ctime = queue[n][j].ctime
    BY <1>3, <2>2, <2>4
  <2> QED BY <2>5, <2>6 DEF NoneOlder
<1>5. CASE ~Inject(n, o, E)
  <2>1. queue'[n] = q /\ Detach(n, E)
    BY <1>1, <1>2, <1>5 DEF Run, Idle, InterruptPop, InjectFree,
       InterruptPopAndPush, StartInterrupt, InjectPush, Continue
  <2>2. DOMAIN packet' = DOMAIN packet \ Finished(n, E)
    BY <2>1 DEF Detach
  <2> QED BY <1>3, <2>1, <2>2 DEF NoneOlder
<1> QED BY <1>4, <1>5

\* The number of flits a node ejects in a cycle.
LEMMA FewEjected ==
  ASSUME IInv, NEW n \in Node, NEW E \in EjectChoices(n)
  PROVE  /\ IsFiniteSet(Ejected(n, E)) /\ Cardinality(Ejected(n, E)) \in Nat
         /\ Cardinality(Ejected(n, E)) <= EjPorts
<1>1. /\ TypeOK /\ EjectFacts(n, E)
      /\ \A r \in E : OnWire(n, r) # {}
  BY EjectChoiceFacts DEF IInv
<1>2. PICK S : S = {f[1] : f \in Ejected(n, E)}
  OBVIOUS
<1>3. PICK F : F = Ejected(n, E)
  OBVIOUS
<1>4. \A f \in F : /\ f \in DOMAIN flit /\ f[1] \in PacketId
                   /\ \E r \in E : f = Arrival(n, r)
  BY <1>1, <1>3, FlitFacts DEF EjectFacts, Ejected
<1>5. \A r \in E : Arrival(n, r) \in F /\ packet[Arrival(n, r)[1]].ring = r
  BY <1>1, <1>3, ArrivalFacts DEF Ejected
<1>6. PICK g : g = [f \in F |-> packet[f[1]].ring]
  OBVIOUS
<1>7. g \in Bijection(F, E)
  <2>1. g \in [F -> E]
    BY <1>4, <1>5, <1>6
  <2>2. \A f, h \in F : g[f] = g[h] => f = h
    BY <1>4, <1>5, <1>6
  <2>3. \A r \in E : \E f \in F : g[f] = r
    BY <1>5, <1>6
  <2> QED BY <2>1, <2>2, <2>3 DEF Bijection, Injection, Surjection, IsInjective
<1>8. PICK h : h = [f \in F |-> f[1]]
  OBVIOUS
<1>9. IsFiniteSet(PacketId)
  BY FS_Interval, Numbers DEF PacketId
<1>10. h \in Injection(F, PacketId)
  <2>1. h \in [F -> PacketId]
    BY <1>4, <1>8
  <2>2. \A x, y \in F : h[x] = h[y] => x = y
    BY <1>1, <1>3, <1>8 DEF EjectFacts
  <2> QED BY <2>1, <2>2 DEF Injection, IsInjective
<1>11. IsFiniteSet(F)
  BY <1>9, <1>10, FS_Injection
<1>12. Cardinality(E) = Cardinality(F) /\ Cardinality(F) \in Nat
  <2>1. ExistsBijection(F, E)
    BY <1>7 DEF ExistsBijection
  <2> QED BY <1>11, <2>1, FS_Bijection, FS_CardinalityType
<1>13. Cardinality(F) <= EjPorts
  <2>1. PICK c : c = Cardinality(DOMAIN Candidates(n))
    OBVIOUS
  <2>2. Cardinality(E) = IF EjPorts < c THEN EjPorts ELSE c
    BY <2>1 DEF EjectChoices, EjectSets
  <2>3. EjPorts \in Nat
    BY NocAssumption
  <2>4. CASE EjPorts < c
    BY <1>12, <2>2, <2>3, <2>4
  <2>5. CASE ~(EjPorts < c)
    BY <1>12, <2>2, <2>3, <2>5
  <2> QED BY <2>4, <2>5
<1> QED BY <1>3, <1>11, <1>12, <1>13

\* An ejected flit has come its whole way, and after the flits before it.
LEMMA EjectedOnTime ==
  ASSUME SimInv, NEW n \in Node, n = turn, NEW E \in EjectChoices(n),
         NEW f \in Ejected(n, E)
  PROVE  /\ f \in DOMAIN flit /\ f \in FlitId /\ f[1] \in DOMAIN packet /\ f[1] \in Nat
         /\ Latency(f) \in Nat \ {0}
         /\ Noted(f).delay >= Noted(f).hops + f[2]
<1>1. /\ TypeOK /\ EjectFacts(n, E) /\ Underway /\ Ranges
  BY EjectChoiceFacts DEF IInv, SimInv
<1>2. /\ f \in DOMAIN flit /\ flit[f].status = "Routing" /\ flit[f].node = n
      /\ packet[f[1]].dst = n
  BY <1>1 DEF EjectFacts
<1>3. /\ f \in FlitId /\ f[1] \in DOMAIN packet /\ f[1] \in PacketId
      /\ packet[f[1]] \in Packet /\ f[2] \in Nat
  BY <1>1, <1>2, FlitFacts
<1>4. PICK p : p = packet[f[1]]
  OBVIOUS
<1>5. p.ring \in Ring /\ p.src \in NodesOn[p.ring] /\ p.ctime \in Nat /\ p.dst = n
  <2>1. p.ring \in Ring /\ p.ctime \in 0..MaxCycle
    BY <1>3, <1>4 DEF Packet
  <2>2. {packet[f[1]].src, packet[f[1]].dst} \subseteq NodesOn[packet[f[1]].ring]
    BY <1>1, <1>3 DEF TypeOK
  <2> QED BY <1>2, <1>4, <2>1, <2>2, Numbers
<1>6. PICK k \in 0..time :
        /\ Places(p.ring, p.src)[k] = n
        /\ k + f[2] <= time - p.ctime
        /\ k >= 1
  <2>1. OnItsWay(f)
    BY <1>1, <1>2 DEF Underway
  <2>2. turn <= flit[f].node
    BY <1>2, Numbers
  <2> QED BY <1>2, <1>4, <2>1, <2>2 DEF OnItsWay
<1>7. k \in Nat \ {0} /\ time \in Nat
  BY <1>1, <1>6 DEF Ranges
<1>8. PICK h : h = Hops(p.ring, p.src, n)
  OBVIOUS
<1>9. h \in Nat /\ h <= k
  BY <1>5, <1>6, <1>7, <1>8, HopsFacts
<1>10. Latency(f) = time - p.ctime
  BY <1>4 DEF Latency
<1>11. Latency(f) \in Nat \ {0}
  BY <1>3, <1>5, <1>6, <1>7, <1>10
<1>12. Noted(f).delay = Latency(f) /\ Noted(f).hops = h
  BY <1>4, <1>5, <1>8 DEF Noted
<1>13. Noted(f).delay >= Noted(f).hops + f[2]
  BY <1>3, <1>5, <1>6, <1>7, <1>9, <1>10, <1>12
<1>14. f[1] \in Nat
  BY <1>3, Numbers
<1> QED BY <1>2, <1>3, <1>11, <1>13, <1>14

\* The records of the ejections of a run.
NewRecords(n, E) == {Noted(f) : f \in Ejected(n, E)}
RecordFacts(n, E, G) ==
  /\ IsFiniteSet(G) /\ Cardinality(G) \in Nat /\ Cardinality(G) <= EjPorts
  /\ \A e \in G :
       /\ e.flit \in FlitId /\ e.delay \in Nat \ {0} /\ e.last \in BOOLEAN
       /\ e.delay >= e.hops + e.flit[2]
       /\ e.flit \in Ejected(n, E) /\ e.flit \in DOMAIN flit
       /\ e.flit[1] \in DOMAIN packet
  /\ G \cap ejected = {}
  /\ Cardinality(LastOf(G)) = Cardinality(Finished(n, E))

\* They are new, one for each flit, and one of them is the last of its packet
\* for each packet that is finished.
LEMMA NewRecordFacts ==
  ASSUME SimInv, NEW n \in Node, n = turn, NEW E \in EjectChoices(n)
  PROVE  RecordFacts(n, E, NewRecords(n, E))
<1>1. PICK F : F = Ejected(n, E)
  OBVIOUS
<1>2. PICK G : G = NewRecords(n, E)
  OBVIOUS
<1>3. PICK note : note = [f \in F |-> Noted(f)]
  OBVIOUS
<1>4. \A f \in F : /\ note[f].flit = f /\ note[f].delay = Latency(f)
                   /\ note[f].last = (f[2] = LastSeq(f[1]))
                   /\ note[f].last \in BOOLEAN /\ note[f].hops = Noted(f).hops
                   /\ note[f].delay = Noted(f).delay
  BY <1>3 DEF Noted
<1>5. G = {note[f] : f \in F}
  BY <1>1, <1>2, <1>3 DEF NewRecords
<1>6. IsFiniteSet(F) /\ Cardinality(F) \in Nat /\ Cardinality(F) <= EjPorts
  BY <1>1, FewEjected DEF SimInv
<1>7. note \in Bijection(F, G)
  <2>1. note \in [F -> G]
    BY <1>3, <1>5
  <2>2. \A f, g \in F : note[f] = note[g] => f = g
    BY <1>4
  <2>3. \A e \in G : \E f \in F : note[f] = e
    BY <1>5
  <2> QED BY <2>1, <2>2, <2>3 DEF Bijection, Injection, Surjection, IsInjective
<1>8. IsFiniteSet(G) /\ Cardinality(G) = Cardinality(F)
  <2>1. ExistsBijection(F, G)
    BY <1>7 DEF ExistsBijection
  <2> QED BY <1>6, <2>1, FS_Bijection
<1>9. ASSUME NEW e \in G
      PROVE  /\ e.flit \in FlitId /\ e.delay \in Nat \ {0} /\ e.last \in BOOLEAN
             /\ e.delay >= e.hops + e.flit[2]
             /\ e.flit \in F /\ e.flit \in DOMAIN flit
             /\ e.flit[1] \in DOMAIN packet
  <2>1. PICK f \in F : e = note[f]
    BY <1>5, <1>9
  <2>2. /\ f \in DOMAIN flit /\ f \in FlitId /\ f[1] \in DOMAIN packet
        /\ Latency(f) \in Nat \ {0}
        /\ Noted(f).delay >= Noted(f).hops + f[2]
    BY <1>1, EjectedOnTime
  <2> QED BY <1>4, <2>1, <2>2
<1>10. G \cap ejected = {}
  <2> SUFFICES ASSUME NEW e \in G, e \in ejected PROVE FALSE
    OBVIOUS
  <2>1. e.flit \in F /\ e.flit \in DOMAIN flit
    BY <1>9
  <2>2. flit[e.flit].status = "Routing"
    BY <1>1, <2>1, EjectChoiceFacts DEF EjectFacts, SimInv
  <2>3. flit[e.flit].status = "Ejected"
    BY <2>1 DEF SimInv, Gone
  <2> QED BY <2>2, <2>3
<1>11. Cardinality(LastOf(G)) = Cardinality(Finished(n, E))
  <2>1. PICK P : P = Finished(n, E)
    OBVIOUS
  <2>2. PICK L : L = LastOf(G)
    OBVIOUS
  <2>3. PICK b : b = [e \in L |-> e.flit[1]]
    OBVIOUS
  <2>4. \A e \in L : e.flit \in F /\ e.flit[2] = LastSeq(e.flit[1]) /\ e = note[e.flit]
    BY <1>4, <1>5, <2>2 DEF LastOf
  <2>5. \A p \in P : \E f \in F : f[2] = LastSeq(f[1]) /\ p = f[1]
    BY <1>1, <2>1 DEF Finished
  <2>6. \A f \in F : f[2] = LastSeq(f[1]) => f[1] \in P /\ note[f] \in L
    <3> TAKE f \in F
    <3> HAVE f[2] = LastSeq(f[1])
    <3>1. f[1] \in P
      BY <1>1, <2>1 DEF Finished
    <3>2. note[f].last /\ note[f] \in G
      BY <1>4, <1>5
    <3> QED BY <2>2, <3>1, <3>2 DEF LastOf
  <2>7. \A f, g \in F : f[1] = g[1] => f = g
    BY <1>1, EjectChoiceFacts DEF EjectFacts, SimInv
  <2>8. b \in Bijection(L, P)
    <3>1. b \in [L -> P]
      BY <2>3, <2>4, <2>6
    <3>2. \A e, d \in L : b[e] = b[d] => e = d
      <4> TAKE e, d \in L
      <4> HAVE b[e] = b[d]
      <4>1. e.flit = d.flit
        BY <2>3, <2>4, <2>7
      <4>2. e = note[e.flit] /\ d = note[d.flit]
        BY <2>4
      <4> QED BY <4>1, <4>2
    <3>3. \A p \in P : \E e \in L : b[e] = p
      <4> TAKE p \in P
      <4>1. PICK f \in F : f[2] = LastSeq(f[1]) /\ p = f[1]
        BY <2>5
      <4>2. note[f] \in L /\ note[f].flit = f
        BY <1>4, <2>6, <4>1
      <4> QED BY <2>3, <4>1, <4>2
    <3> QED BY <3>1, <3>2, <3>3 DEF Bijection, Injection, Surjection, IsInjective
  <2>9. IsFiniteSet(L)
    BY <1>8, <2>2, FS_Subset DEF LastOf
  <2>10. ExistsBijection(L, P)
    BY <2>8 DEF ExistsBijection
  <2> QED BY <2>1, <2>2, <2>9, <2>10, FS_Bijection
<1>12. RecordFacts(n, E, G)
  BY <1>1, <1>6, <1>8, <1>9, <1>10, <1>11 DEF RecordFacts
<1> QED BY <1>2, <1>12

\* What a run adds to the Stat of its node.
LEMMA StatStep ==
  ASSUME SimInv, NEW n \in Node, NEW E \in EjectChoices(n), NEW s, SimStep(n, E, s)
  PROVE  /\ Adds(stat[n], s, NewRecords(n, E))
         /\ stat \in [Node -> StatType]
         /\ stat' = [stat EXCEPT ![n] = s] /\ stat' \in [Node -> StatType]
         /\ s \in StatType
         /\ ejected' = ejected \cup NewRecords(n, E)
<1>1. PICK F : F = Ejected(n, E)
  OBVIOUS
<1>2. IsFiniteSet(F)
  BY <1>1, FewEjected DEF SimInv
<1>3. \A f \in F : Latency(f) \in Nat /\ f[1] \in Nat
  BY <1>1, EjectedOnTime DEF SimStep
<1>4. stat \in [Node -> StatType]
  BY DEF SimInv, Ranges
<1>5. PICK s0 \in StatType : s0 = stat[n]
  BY <1>4
<1>6. s \in StatsAfter(s0, F)
  BY <1>1, <1>5 DEF SimStep
<1>7. Adds(s0, s, {Noted(f) : f \in F})
  BY <1>2, <1>3, <1>6, StatsAfterFacts
<1>8. s \in StatType
  BY <1>7 DEF Adds
<1> QED BY <1>1, <1>4, <1>5, <1>7, <1>8 DEF NewRecords, SimStep

\* What the theorems about the network say of such a run.
LEMMA RunFacts ==
  ASSUME SimInv, NEW n \in Node, NEW E \in EjectChoices(n), NEW s, SimStep(n, E, s)
  PROVE  /\ IInv' /\ EjectFacts(n, E) /\ NoneOlder(n)
         /\ \E started \in {0, 1} : BalancedBy(n, E, started)
         /\ \E onto, off, new : NodeStep(n, E, onto, off, new)
<1>1. IInv /\ n = turn
  BY DEF SimInv, SimStep
<1>2. PICK o \in Offers(n) : Generate(o) /\ Run(n, o, E)
  BY DEF SimStep
<1>3. IInv'
  <2>1. turn < N
    BY <1>1, Numbers
  <2>2. RunNode
    BY <1>1, <1>2, <2>1 DEF RunNode
  <2> QED BY <1>1, <2>2, NextIInv DEF Next
<1>4. EjectFacts(n, E)
  BY <1>1, EjectChoiceFacts
<1>5. NoneOlder(n)
  BY <1>1, <1>2, CreationTimes
<1>6. \E started \in {0, 1} : BalancedBy(n, E, started)
  BY <1>1, <1>2, RunBalance
<1>7. \E onto, off, new : NodeStep(n, E, onto, off, new)
  BY <1>1, <1>2, RunSteps
<1> QED BY <1>3, <1>4, <1>5, <1>6, <1>7

-----------------------------------------------------------------------------
(* A run of a node preserves each part of the invariant.                   *)

\* The ranges of the statistics and of the records.
LEMMA StepRanges ==
  ASSUME SimInv, NEW n \in Node, NEW E \in EjectChoices(n), NEW s, SimStep(n, E, s)
  PROVE  Ranges'
<1>1. PICK G : G = NewRecords(n, E)
  OBVIOUS
<1>2. RecordFacts(n, E, G)
  BY <1>1, NewRecordFacts DEF SimStep
<1>3. stat' \in [Node -> StatType] /\ ejected' = ejected \cup G
  BY <1>1, StatStep
<1>4. IsFiniteSet(ejected')
  BY <1>2, <1>3, FS_Union DEF SimInv, Ranges, RecordFacts
<1>5. \A e \in ejected' :
        e.flit \in FlitId /\ e.delay \in Nat \ {0} /\ e.last \in BOOLEAN
  BY <1>2, <1>3 DEF SimInv, Ranges, RecordFacts
<1>6. FlitId' = FlitId
  BY DEF FlitId, PacketId
<1> QED BY <1>3, <1>4, <1>5, <1>6 DEF SimInv, Ranges, SimStep, StatType

\* No packet is created later than now.
LEMMA StepCreated ==
  ASSUME SimInv, NEW n \in Node, NEW E \in EjectChoices(n), NEW s, SimStep(n, E, s)
  PROVE  Created'
<1>1. PICK onto, off, new : NodeStep(n, E, onto, off, new)
  BY RunFacts
<1>2. NoneOlder(n) /\ cycle' = cycle /\ time' = time
  BY <1>1, RunFacts DEF NodeStep, RecordStep, SimStep
<1>3. /\ cycle <= time /\ cycle \in Nat /\ time \in Nat
      /\ \A m \in Node : \A i \in 1..Len(queue[m]) :
           queue[m][i].ctime <= cycle /\ queue[m][i].ctime \in Nat
      /\ \A p \in DOMAIN packet : packet[p].ctime <= time
  <2>1. cycle \in Nat /\ time \in Nat /\ MaxCycle \in Nat
    BY Numbers DEF SimInv, IInv, TypeOK, Ranges
  <2>2. ASSUME NEW m \in Node, NEW i \in 1..Len(queue[m])
        PROVE  queue[m][i].ctime \in Nat
    <3>1. queue[m] \in Seq(PacketInfo)
      BY DEF SimInv, IInv, TypeOK
    <3>2. queue[m][i] \in PacketInfo
      BY <3>1
    <3> QED BY <2>1, <3>2 DEF PacketInfo
  <2> QED BY <2>1, <2>2 DEF SimInv, Created
<1>4. ASSUME NEW m \in Node, NEW i \in 1..Len(queue'[m])
      PROVE  queue'[m][i].ctime <= cycle
  <2>1. CASE m = n
    <3>1. i \in 1..Len(queue'[n])
      BY <2>1
    <3>2. \/ queue'[n][i].ctime = cycle
          \/ \E j \in 1..Len(queue[n]) : queue'[n][i].ctime = queue[n][j].ctime
      BY <1>2, <3>1 DEF NoneOlder
    <3>3. \A j \in 1..Len(queue[n]) : queue[n][j].ctime <= cycle
      BY <1>3
    <3>4. queue'[n][i].ctime <= cycle
      BY <1>3, <3>2, <3>3
    <3> QED BY <2>1, <3>4
  <2>2. CASE m # n
    <3>1. queue'[m] = queue[m]
      BY <1>1, <2>2 DEF NodeStep, QueueStep, SimInv, IInv, TypeOK
    <3> QED BY <1>3, <3>1
  <2> QED BY <2>1, <2>2
<1>5. ASSUME NEW p \in DOMAIN packet'
      PROVE  packet'[p].ctime <= time
  <2>1. CASE p \in DOMAIN packet
    <3>1. packet'[p] = packet[p]
      BY <1>1, <2>1 DEF NodeStep, PacketStep
    <3> QED BY <1>3, <2>1, <3>1
  <2>2. CASE p \notin DOMAIN packet
    <3>1. \/ packet'[p].ctime = cycle
          \/ \E j \in 1..Len(queue[n]) : packet'[p].ctime = queue[n][j].ctime
      BY <1>2, <2>2 DEF NoneOlder
    <3> QED BY <1>3, <3>1
  <2> QED BY <2>1, <2>2
<1> QED BY <1>2, <1>3, <1>4, <1>5 DEF Created

\* A flit that enters the network follows the one before it.
LEMMA NextFollows ==
  ASSUME SimInv, NEW n \in Node, n = turn, NEW f, IsNext(n, f)
  PROVE  f[2] <= time - packet[f[1]].ctime
<1>1. IInv /\ TypeOK /\ OngoingConsistent /\ Underway /\ Ranges
  BY DEF SimInv, IInv
<1>2. PICK p : p = f[1]
  OBVIOUS
<1>3. /\ f \in DOMAIN flit /\ p = ongoing[n] /\ ongoing[n] # None
      /\ packet[p].src = n /\ flit[f].status = "Injecting"
  BY <1>1, <1>2, NextIsAtHome
<1>4. /\ f = <<p, f[2]>> /\ f[2] \in 0..LastSeq(p) /\ LastSeq(p) \in Nat
      /\ \A i \in 0..LastSeq(p) : <<p, i>> \in DOMAIN flit
      /\ packet[p] \in Packet
  BY <1>1, <1>2, <1>3, FlitFacts
<1>5. f[2] # 0
  BY <1>1, <1>3, <1>4 DEF OngoingConsistent
<1>6. PICK i \in Nat : i = f[2] - 1
  BY <1>4, <1>5
<1>7. PICK g : g = <<p, i>>
  OBVIOUS
<1>8. g \in DOMAIN flit /\ flit[g].status # "Injecting" /\ g[1] = p /\ g[2] = i
  <2>1. i \in 0..LastSeq(p) /\ i \in 0..(f[2] - 1)
    BY <1>4, <1>6
  <2> QED BY <1>2, <1>4, <1>7, <2>1 DEF IsNext
<1>9. OnItsWay(g)
  BY <1>1, <1>8 DEF Underway
<1>10. i + (IF turn <= n THEN 1 ELSE 0) <= time - packet[p].ctime
  BY <1>3, <1>8, <1>9 DEF OnItsWay
<1>11. turn <= n
  BY Numbers
<1>12. time \in Nat /\ packet[p].ctime \in Nat
  BY <1>1, <1>4, Numbers DEF Ranges, Packet
<1> QED BY <1>2, <1>4, <1>6, <1>10, <1>11, <1>12

\* No flit is further on its way than the time since its packet was created
\* allows.
LEMMA StepUnderway ==
  ASSUME SimInv, NEW n \in Node, NEW E \in EjectChoices(n), NEW s, SimStep(n, E, s)
  PROVE  Underway'
<1>1. PICK onto, off, new : NodeStep(n, E, onto, off, new)
  BY RunFacts
<1>2. /\ n = turn /\ time' = time /\ turn' = turn + 1 /\ n \in Nat
      /\ time \in Nat
  BY <1>1, Numbers DEF SimStep, SimInv, Ranges, NodeStep, RecordStep
<1>3. IInv /\ TypeOK /\ Underway /\ IInv' /\ TypeOK'
  BY RunFacts DEF SimInv, IInv
<1> SUFFICES ASSUME NEW f \in DOMAIN flit', flit'[f].status # "Injecting"
             PROVE  OnItsWay(f)'
  BY DEF Underway
<1>4. PICK q : q = packet'[f[1]]
  OBVIOUS
<1>5. f[2] \in Nat /\ q.ctime \in Nat /\ q.src \in Nat
  <2>1. f[1] \in DOMAIN packet' /\ f \in LiveFlits'
    BY <1>1, <1>3, AfterStep
  <2>2. packet'[f[1]] \in Packet
    BY <1>1, <2>1 DEF NodeStep, PacketStep
  <2>3. f[2] \in Nat
    <3>1. PICK p \in DOMAIN packet' : f \in FlitIds(p, packet'[p].length)
      BY <2>1 DEF LiveFlits
    <3> QED BY <3>1 DEF FlitIds
  <2> QED BY <1>4, <2>2, <2>3, Numbers DEF Packet
<1>6. /\ f[1] \in DOMAIN packet'
      /\ \/ f \in DOMAIN flit /\ f[1] \notin Finished(n, E)
         \/ f \notin DOMAIN flit /\ f[1] \in new /\ flit'[f].node = n
  BY <1>1, <1>3, AfterStep
<1>7. SUFFICES /\ \E k \in 0..time :
                    /\ Places(q.ring, q.src)[k] = flit'[f].node
                    /\ k + f[2] <= time - q.ctime
                    /\ flit'[f].status = "Routing" /\ turn + 1 <= flit'[f].node
                       => k >= 1
               /\ f[2] + (IF turn + 1 <= q.src THEN 1 ELSE 0) <= time - q.ctime
  BY <1>2, <1>4 DEF OnItsWay
\* A flit of this node that enters now.
<1>8. ASSUME q.src = n, flit'[f].node = n, f[2] <= time - q.ctime
      PROVE  /\ \E k \in 0..time :
                  /\ Places(q.ring, q.src)[k] = flit'[f].node
                  /\ k + f[2] <= time - q.ctime
                  /\ flit'[f].status = "Routing" /\ turn + 1 <= flit'[f].node
                     => k >= 1
             /\ f[2] + (IF turn + 1 <= q.src THEN 1 ELSE 0) <= time - q.ctime
  <2>1. ~(turn + 1 <= n)
    BY <1>2
  <2>2. 0 \in 0..time /\ Places(q.ring, q.src)[0] = flit'[f].node
    BY <1>2, <1>8, PlacesFacts
  <2>3. 0 + f[2] <= time - q.ctime
    BY <1>5, <1>8
  <2> QED BY <1>5, <1>8, <2>1, <2>2, <2>3
<1>9. CASE f \notin DOMAIN flit
  <2>1. f[1] \in new /\ flit'[f].node = n
    BY <1>6, <1>9
  <2>2. q.src = n
    BY <1>1, <1>4, <2>1 DEF NodeStep, PacketStep
  <2>3. f[2] = 0
    BY <1>1, <1>3, <1>9, StatusFacts DEF EjectFacts, NodeStep, WireStep
  <2>4. q.ctime <= time
    BY <1>2, <1>4, <1>6, StepCreated DEF Created
  <2> QED BY <1>2, <1>5, <1>8, <2>1, <2>2, <2>3, <2>4
<1>10. CASE f \in DOMAIN flit
  <2>1. packet[f[1]] = q /\ flit'[f].node = flit[f].node
    BY <1>1, <1>3, <1>4, <1>6, <1>10, AfterStep
  <2>2. CASE flit[f].status = "Injecting"
    <3>1. f \in onto /\ IsNext(n, f)
      BY <1>1, <1>3, <1>10, <2>2, StatusFacts
    <3>2. packet[f[1]].src = n /\ flit[f].node = n
      BY <1>3, <3>1, NextIsAtHome
    <3>3. f[2] <= time - q.ctime
      BY <1>2, <2>1, <3>1, NextFollows
    <3> QED BY <1>8, <2>1, <3>2, <3>3
  <2>3. CASE flit[f].status # "Injecting"
    <3>1. OnItsWay(f)
      BY <1>3, <1>10, <2>3 DEF Underway
    <3>2. PICK k \in 0..time :
            /\ Places(q.ring, q.src)[k] = flit[f].node
            /\ k + f[2] <= time - q.ctime
            /\ flit[f].status = "Routing" /\ turn <= flit[f].node => k >= 1
      BY <2>1, <3>1 DEF OnItsWay
    <3>3. flit'[f].status = "Routing" => flit[f].status = "Routing" \/ flit[f].node = n
      BY <1>1, <1>3, <1>10, <2>3, StatusFacts DEF IsNext
    <3>4. flit[f].node \in Nat
      BY <1>3, <1>10, FlitFacts, Numbers
    <3>5. f[2] + (IF turn <= q.src THEN 1 ELSE 0) <= time - q.ctime
      BY <2>1, <3>1 DEF OnItsWay
    <3>6. f[2] + (IF turn + 1 <= q.src THEN 1 ELSE 0) <= time - q.ctime
      BY <1>2, <1>5, <3>5
    <3>7. flit'[f].status = "Routing" /\ turn + 1 <= flit'[f].node => k >= 1
      BY <1>2, <2>1, <3>2, <3>3, <3>4
    <3> QED BY <2>1, <3>2, <3>6, <3>7
  <2> QED BY <2>2, <2>3
<1> QED BY <1>9, <1>10

\* What is ejected has had the time to come.
LEMMA StepNeverEarly ==
  ASSUME SimInv, NEW n \in Node, NEW E \in EjectChoices(n), NEW s, SimStep(n, E, s)
  PROVE  NeverEarly'
<1>1. PICK G : G = NewRecords(n, E)
  OBVIOUS
<1>2. RecordFacts(n, E, G)
  BY <1>1, NewRecordFacts DEF SimStep
<1>3. ejected' = ejected \cup G
  BY <1>1, StatStep
<1> QED BY <1>2, <1>3 DEF SimInv, NeverEarly, RecordFacts

\* A flit is recorded once, and is then neither on a ring nor in an EXB.
LEMMA StepGone ==
  ASSUME SimInv, NEW n \in Node, NEW E \in EjectChoices(n), NEW s, SimStep(n, E, s)
  PROVE  Gone'
<1>1. PICK onto, off, new : NodeStep(n, E, onto, off, new)
  BY RunFacts
<1>2. PICK G : G = NewRecords(n, E)
  OBVIOUS
<1>3. RecordFacts(n, E, G) /\ ejected' = ejected \cup G
  BY <1>2, NewRecordFacts, StatStep DEF SimStep
<1>4. IInv /\ TypeOK /\ FreshIds /\ Gone /\ Ranges /\ QueueStep(n, new)
  BY <1>1 DEF SimInv, IInv, NodeStep
<1>5. next_id \in Nat /\ next_id' \in {next_id, next_id + 1}
  BY <1>4, Numbers DEF TypeOK, QueueStep
<1> SUFFICES ASSUME NEW e \in ejected'
             PROVE  /\ e.flit[1] < next_id'
                    /\ \A m \in Node : \A i \in 1..Len(queue'[m]) :
                         queue'[m][i].id # e.flit[1]
                    /\ e.flit \in DOMAIN flit' => flit'[e.flit].status = "Ejected"
  BY DEF Gone
<1>6. PICK f : f = e.flit
  OBVIOUS
<1>7. f \in FlitId /\ f[1] \in Nat
  <2>1. f \in FlitId
    BY <1>3, <1>4, <1>6 DEF Ranges, RecordFacts
  <2> QED BY <2>1, Numbers DEF FlitId
\* Neither in the queues nor to come.
<1>8. /\ f[1] < next_id
      /\ \A m \in Node : \A i \in 1..Len(queue[m]) : queue[m][i].id # f[1]
  <2>1. CASE e \in ejected
    BY <1>4, <1>6, <2>1 DEF Gone
  <2>2. CASE e \in G
    <3>1. f[1] \in DOMAIN packet
      BY <1>3, <1>6, <2>2 DEF RecordFacts
    <3> QED BY <1>4, <3>1 DEF FreshIds
  <2> QED BY <1>3, <2>1, <2>2
<1>9. f[1] < next_id'
  BY <1>5, <1>7, <1>8
<1>10. ASSUME NEW m \in Node, NEW i \in 1..Len(queue'[m])
       PROVE  queue'[m][i].id # f[1]
  <2>1. CASE m # n
    <3>1. queue'[m] = queue[m]
      BY <1>4, <2>1 DEF QueueStep, TypeOK
    <3> QED BY <1>8, <3>1
  <2>2. CASE m = n
    <3>1. i \in 1..Len(queue'[n])
      BY <2>2
    <3>2. \/ queue'[n][i].id = next_id
          \/ \E j \in 1..Len(queue[n]) : queue'[n][i].id = queue[n][j].id
      BY <1>4, <3>1 DEF QueueStep
    <3>3. queue'[n][i].id # f[1]
      BY <1>5, <1>7, <1>8, <3>2
    <3> QED BY <2>2, <3>3
  <2> QED BY <2>1, <2>2
<1>11. ASSUME f \in DOMAIN flit' PROVE flit'[f].status = "Ejected"
  <2>1. CASE e \in G
    <3>1. f \in Ejected(n, E)
      BY <1>3, <1>6, <2>1 DEF RecordFacts
    <3> QED BY <1>1, <1>4, <1>11, <3>1, StatusFacts
  <2>2. CASE e \in ejected
    <3>1. f \in DOMAIN flit
      <4>1. f[1] \notin new
        BY <1>4, <1>5, <1>7, <1>8 DEF QueueStep
      <4> QED BY <1>1, <1>4, <1>11, <4>1, AfterStep
    <3>2. flit[f].status = "Ejected"
      BY <1>4, <1>6, <2>2, <3>1 DEF Gone
    <3> QED BY <1>1, <1>4, <1>11, <3>1, <3>2, StatusFacts DEF IsNext
  <2> QED BY <1>3, <2>1, <2>2
<1> QED BY <1>6, <1>9, <1>10, <1>11

\* The total of a counter changes by what a node's counter does.
Counters == {"received_flit", "flit_delay", "received_packet", "packet_delay"}

\* The counters of a Stat are natural numbers.
LEMMA CounterType ==
  ASSUME NEW t \in StatType, NEW k \in Counters
  PROVE  t[k] \in Nat
<1>1. /\ t["received_flit"] \in Nat /\ t["flit_delay"] \in Nat
      /\ t["received_packet"] \in Nat /\ t["packet_delay"] \in Nat
  BY DEF StatType
<1> QED BY <1>1 DEF Counters

\* Their sum over the nodes is a number.
LEMMA TotalType ==
  ASSUME stat \in [Node -> StatType], NEW k \in Counters
  PROVE  TotalOf(k) \in Int
<1>1. PICK fun : fun = [m \in Node |-> stat[m][k]]
  OBVIOUS
<1>2. \A m \in Node : fun[m] \in Int
  BY <1>1, CounterType
<1>3. IsFiniteSet(Node)
  BY FS_Interval, Numbers DEF Node
<1> QED BY <1>1, <1>2, <1>3, SumType DEF TotalOf

\* The sum over the nodes when the Stat of one of them changes.
LEMMA TotalUpdate ==
  ASSUME stat \in [Node -> StatType], NEW n \in Node, NEW s \in StatType,
         stat' = [stat EXCEPT ![n] = s], NEW k \in Counters
  PROVE  /\ TotalOf(k) \in Int
         /\ TotalOf(k)' = TotalOf(k) - stat[n][k] + s[k]
<1>1. PICK fun : fun = [m \in Node |-> stat[m][k]]
  OBVIOUS
<1>2. PICK gun : gun = [m \in Node |-> stat'[m][k]]
  OBVIOUS
<1>3. \A m \in Node : fun[m] \in Int /\ gun[m] \in Int
  <2>1. stat' \in [Node -> StatType]
    OBVIOUS
  <2>2. \A m \in Node : stat[m] \in StatType /\ stat'[m] \in StatType
    BY <2>1
  <2> QED BY <1>1, <1>2, <2>2, CounterType
<1>4. gun[n] = s[k] /\ fun[n] = stat[n][k] /\ \A m \in Node \ {n} : gun[m] = fun[m]
  BY <1>1, <1>2
<1>5. IsFiniteSet(Node)
  BY FS_Interval, Numbers DEF Node
<1>6. SumFunctionOnSet(gun, Node) = SumFunctionOnSet(fun, Node) - fun[n] + gun[n]
  BY <1>3, <1>4, <1>5, SumUpdate
<1>7. TotalOf(k) = SumFunctionOnSet(fun, Node)
  BY <1>1 DEF TotalOf
<1>8. TotalOf(k)' = SumFunctionOnSet(gun, Node)
  BY <1>2 DEF TotalOf
<1>9. TotalOf(k) \in Int
  BY TotalType
<1> QED BY <1>4, <1>6, <1>7, <1>8, <1>9

\* The totals after a run.
LEMMA TotalsAfter ==
  ASSUME SimInv, NEW n \in Node, NEW E \in EjectChoices(n), NEW s, SimStep(n, E, s),
         NEW G, G = NewRecords(n, E)
  PROVE  /\ TotalOf("received_flit")' = TotalOf("received_flit") + Cardinality(G)
         /\ TotalOf("flit_delay")' = TotalOf("flit_delay") + Delays(G)
         /\ TotalOf("received_packet")'
              = TotalOf("received_packet") + Cardinality(LastOf(G))
         /\ TotalOf("packet_delay")' = TotalOf("packet_delay") + Delays(LastOf(G))
<1>1. /\ Adds(stat[n], s, G) /\ stat \in [Node -> StatType] /\ s \in StatType
      /\ stat' = [stat EXCEPT ![n] = s]
  BY StatStep
<1>2. \A k \in Counters : /\ TotalOf(k) \in Int
                          /\ TotalOf(k)' = TotalOf(k) - stat[n][k] + s[k]
  BY <1>1, TotalUpdate
<1>3. /\ "received_flit" \in Counters /\ "flit_delay" \in Counters
      /\ "received_packet" \in Counters /\ "packet_delay" \in Counters
  BY DEF Counters
<1>4. PICK t \in StatType : t = stat[n]
  BY <1>1
<1>5. /\ t.received_flit \in Nat /\ t.flit_delay \in Nat
      /\ t.received_packet \in Nat /\ t.packet_delay \in Nat
  BY DEF StatType
<1>6. RecordFacts(n, E, G)
  BY NewRecordFacts DEF SimStep
<1>7. IsFiniteSet(LastOf(G)) /\ LastOf(G) \subseteq G
  BY <1>6, FS_Subset DEF LastOf, RecordFacts
<1>8. /\ Cardinality(G) \in Int /\ Cardinality(LastOf(G)) \in Int
      /\ Delays(G) \in Int /\ Delays(LastOf(G)) \in Int
  <2>1. \A e \in G : e.delay \in Int
    BY <1>6 DEF RecordFacts
  <2>2. \A e \in LastOf(G) : e.delay \in Int
    BY <1>7, <2>1
  <2> QED BY <1>6, <1>7, <2>1, <2>2, DelayFacts, FS_CardinalityType DEF RecordFacts
<1>9. /\ s.received_flit = t.received_flit + Cardinality(G)
      /\ s.flit_delay = t.flit_delay + Delays(G)
      /\ s.received_packet = t.received_packet + Cardinality(LastOf(G))
      /\ s.packet_delay = t.packet_delay + Delays(LastOf(G))
  BY <1>1, <1>4 DEF Adds
<1>10. TotalOf("received_flit")' = TotalOf("received_flit") + Cardinality(G)
  <2>1. TotalOf("received_flit")'
          = TotalOf("received_flit") - t.received_flit + s.received_flit
    BY <1>2, <1>3, <1>4
  <2> QED BY <1>2, <1>3, <1>5, <1>8, <1>9, <2>1
<1>11. TotalOf("flit_delay")' = TotalOf("flit_delay") + Delays(G)
  <2>1. TotalOf("flit_delay")' = TotalOf("flit_delay") - t.flit_delay + s.flit_delay
    BY <1>2, <1>3, <1>4
  <2> QED BY <1>2, <1>3, <1>5, <1>8, <1>9, <2>1
<1>12. TotalOf("received_packet")'
         = TotalOf("received_packet") + Cardinality(LastOf(G))
  <2>1. TotalOf("received_packet")'
          = TotalOf("received_packet") - t.received_packet + s.received_packet
    BY <1>2, <1>3, <1>4
  <2> QED BY <1>2, <1>3, <1>5, <1>8, <1>9, <2>1
<1>13. TotalOf("packet_delay")' = TotalOf("packet_delay") + Delays(LastOf(G))
  <2>1. TotalOf("packet_delay")'
          = TotalOf("packet_delay") - t.packet_delay + s.packet_delay
    BY <1>2, <1>3, <1>4
  <2> QED BY <1>2, <1>3, <1>5, <1>8, <1>9, <2>1
<1> QED BY <1>10, <1>11, <1>12, <1>13

\* Number and delays of two disjoint sets of records.
LEMMA CountOfUnion ==
  ASSUME NEW S, NEW T, IsFiniteSet(S), IsFiniteSet(T), S \cap T = {},
         \A e \in S \cup T : e.delay \in Int
  PROVE  /\ Cardinality(S \cup T) = Cardinality(S) + Cardinality(T)
         /\ Delays(S \cup T) = Delays(S) + Delays(T)
<1>1. /\ Cardinality(S \cup T) = Cardinality(S) + Cardinality(T) - Cardinality(S \cap T)
      /\ Cardinality(S \cap T) = 0
      /\ Cardinality(S) \in Nat /\ Cardinality(T) \in Nat
  BY FS_Union, FS_EmptySet, FS_CardinalityType
<1>2. Delays(S \cup T) = Delays(S) + Delays(T)
  BY DelayFacts
<1> QED BY <1>1, <1>2

\* The counters remain those of the records.
LEMMA StepSums ==
  ASSUME SimInv, NEW n \in Node, NEW E \in EjectChoices(n), NEW s, SimStep(n, E, s)
  PROVE  Sums'
<1>1. PICK G : G = NewRecords(n, E)
  OBVIOUS
<1>2. PICK D : D = ejected
  OBVIOUS
<1>3. RecordFacts(n, E, G) /\ ejected' = D \cup G
  BY <1>1, <1>2, NewRecordFacts, StatStep DEF SimStep
<1>4. /\ IsFiniteSet(D) /\ IsFiniteSet(G) /\ D \cap G = {}
      /\ \A e \in D \cup G : e.delay \in Int
  BY <1>2, <1>3 DEF SimInv, Ranges, RecordFacts
<1>5. /\ LastOf(D \cup G) = LastOf(D) \cup LastOf(G)
      /\ LastOf(D) \subseteq D /\ LastOf(G) \subseteq G
  BY DEF LastOf
<1>6. /\ IsFiniteSet(LastOf(D)) /\ IsFiniteSet(LastOf(G))
      /\ LastOf(D) \cap LastOf(G) = {}
      /\ \A e \in LastOf(D) \cup LastOf(G) : e.delay \in Int
  BY <1>4, <1>5, FS_Subset
<1>7. /\ Cardinality(D \cup G) = Cardinality(D) + Cardinality(G)
      /\ Delays(D \cup G) = Delays(D) + Delays(G)
  BY <1>4, CountOfUnion
<1>8. /\ Cardinality(LastOf(D \cup G)) = Cardinality(LastOf(D)) + Cardinality(LastOf(G))
      /\ Delays(LastOf(D \cup G)) = Delays(LastOf(D)) + Delays(LastOf(G))
  BY <1>5, <1>6, CountOfUnion
<1>9. /\ TotalOf("received_flit") = Cardinality(D)
      /\ TotalOf("flit_delay") = Delays(D)
      /\ TotalOf("received_packet") = Cardinality(LastOf(D))
      /\ TotalOf("packet_delay") = Delays(LastOf(D))
  BY <1>2 DEF SimInv, Sums
<1>10. /\ TotalOf("received_flit")' = TotalOf("received_flit") + Cardinality(G)
       /\ TotalOf("flit_delay")' = TotalOf("flit_delay") + Delays(G)
       /\ TotalOf("received_packet")'
            = TotalOf("received_packet") + Cardinality(LastOf(G))
       /\ TotalOf("packet_delay")' = TotalOf("packet_delay") + Delays(LastOf(G))
  BY <1>1, TotalsAfter
<1>11. /\ TotalOf("received_flit")' = Cardinality(D \cup G)
       /\ TotalOf("flit_delay")' = Delays(D \cup G)
       /\ TotalOf("received_packet")' = Cardinality(LastOf(D \cup G))
       /\ TotalOf("packet_delay")' = Delays(LastOf(D \cup G))
  BY <1>7, <1>8, <1>9, <1>10
<1>12. Delays(ejected') = Delays(ejected)' /\ LastOf(ejected') = LastOf(ejected)'
  BY DEF Delays, LastOf
<1>13. Delays(LastOf(ejected')) = Delays(LastOf(ejected))'
  BY DEF Delays, LastOf
<1> QED BY <1>3, <1>11, <1>12, <1>13 DEF Sums

\* The maxima remain those of the records.
LEMMA StepMaxima ==
  ASSUME SimInv, NEW n \in Node, NEW E \in EjectChoices(n), NEW s, SimStep(n, E, s)
  PROVE  Maxima'
<1>1. PICK G : G = NewRecords(n, E)
  OBVIOUS
<1>2. PICK t : t = stat[n]
  OBVIOUS
<1>3. /\ Adds(t, s, G) /\ stat \in [Node -> StatType] /\ s \in StatType
      /\ stat' = [stat EXCEPT ![n] = s] /\ ejected' = ejected \cup G
  BY <1>1, <1>2, StatStep
<1>4. /\ \A e \in G : e.delay \in Nat /\ e.last \in BOOLEAN
      /\ \A e \in ejected : e.delay \in Nat
  BY <1>1, NewRecordFacts DEF RecordFacts, SimInv, Ranges, SimStep
<1>5. stat'[n] = s /\ \A m \in Node : m # n => stat'[m] = stat[m]
  BY <1>3
<1>6. /\ s.max_flit_delay \in Nat /\ s.max_packet_delay \in Nat
      /\ t.max_flit_delay \in Nat /\ t.max_packet_delay \in Nat
      /\ s.max_flit_delay >= t.max_flit_delay
      /\ s.max_packet_delay >= t.max_packet_delay
  <2>1. t \in StatType
    BY <1>2, <1>3
  <2> QED BY <1>3, <2>1 DEF Adds, StatType
<1>7. \A e \in ejected : /\ \E m \in Node : e.delay <= stat[m].max_flit_delay
                         /\ e.last => \E m \in Node : e.delay <= stat[m].max_packet_delay
  BY DEF SimInv, Maxima
<1>8. ASSUME NEW e \in ejected'
      PROVE  \E m \in Node : e.delay <= stat'[m].max_flit_delay
  <2>1. CASE e \in G
    BY <1>3, <1>5, <2>1 DEF Adds
  <2>2. CASE e \in ejected
    <3>1. PICK m \in Node : e.delay <= stat[m].max_flit_delay
      BY <1>7, <2>2
    <3>2. CASE m = n
      BY <1>2, <1>4, <1>5, <1>6, <2>2, <3>1, <3>2
    <3>3. CASE m # n
      BY <1>5, <3>1, <3>3
    <3> QED BY <3>2, <3>3
  <2> QED BY <1>3, <2>1, <2>2
<1>9. ASSUME NEW e \in ejected', e.last
      PROVE  \E m \in Node : e.delay <= stat'[m].max_packet_delay
  <2>1. CASE e \in G
    <3>1. e \in LastOf(G)
      BY <1>9, <2>1 DEF LastOf
    <3> QED BY <1>3, <1>5, <3>1 DEF Adds
  <2>2. CASE e \in ejected
    <3>1. PICK m \in Node : e.delay <= stat[m].max_packet_delay
      BY <1>7, <1>9, <2>2
    <3>2. CASE m = n
      BY <1>2, <1>4, <1>5, <1>6, <2>2, <3>1, <3>2
    <3>3. CASE m # n
      BY <1>5, <3>1, <3>3
    <3> QED BY <3>2, <3>3
  <2> QED BY <1>3, <2>1, <2>2
<1>10. /\ ejected \subseteq ejected' /\ G \subseteq ejected'
       /\ LastOf(ejected) \subseteq LastOf(ejected') /\ LastOf(G) \subseteq LastOf(ejected')
       /\ LastOf(ejected') = LastOf(ejected)'
  BY <1>3 DEF LastOf
<1>11. \A m \in Node :
         /\ \/ stat[m].max_flit_delay = 0
            \/ \E e \in ejected : e.delay = stat[m].max_flit_delay
         /\ \/ stat[m].max_packet_delay = 0
            \/ \E e \in LastOf(ejected) :
                 /\ e.delay = stat[m].max_packet_delay
                 /\ e.flit[1] = stat[m].packet_id_for_max_delay
  BY DEF SimInv, Maxima
<1>12. ASSUME NEW m \in Node
       PROVE  \/ stat'[m].max_flit_delay = 0
              \/ \E e \in ejected' : e.delay = stat'[m].max_flit_delay
  <2>1. CASE m # n
    BY <1>5, <1>10, <1>11, <2>1
  <2>2. CASE m = n
    <3>1. \/ s.max_flit_delay = t.max_flit_delay
          \/ \E e \in G : e.delay = s.max_flit_delay
      BY <1>3 DEF Adds
    <3> QED BY <1>2, <1>5, <1>10, <1>11, <2>2, <3>1
  <2> QED BY <2>1, <2>2
<1>13. ASSUME NEW m \in Node
       PROVE  \/ stat'[m].max_packet_delay = 0
              \/ \E e \in LastOf(ejected') :
                   /\ e.delay = stat'[m].max_packet_delay
                   /\ e.flit[1] = stat'[m].packet_id_for_max_delay
  <2>1. CASE m # n
    BY <1>5, <1>10, <1>11, <2>1
  <2>2. CASE m = n
    <3>1. \/ /\ s.max_packet_delay = t.max_packet_delay
             /\ s.packet_id_for_max_delay = t.packet_id_for_max_delay
          \/ \E e \in LastOf(G) : /\ e.delay = s.max_packet_delay
                                  /\ e.flit[1] = s.packet_id_for_max_delay
      BY <1>3 DEF Adds
    <3> QED BY <1>2, <1>5, <1>10, <1>11, <2>2, <3>1
  <2> QED BY <2>1, <2>2
<1> QED BY <1>8, <1>9, <1>10, <1>12, <1>13 DEF Maxima

\* A node ejects no more than it has links for.
LEMMA StepEjectionRate ==
  ASSUME SimInv, NEW n \in Node, NEW E \in EjectChoices(n), NEW s, SimStep(n, E, s)
  PROVE  EjectionRate'
<1>1. PICK G : G = NewRecords(n, E)
  OBVIOUS
<1>2. /\ Adds(stat[n], s, G) /\ stat \in [Node -> StatType] /\ s \in StatType
      /\ stat' = [stat EXCEPT ![n] = s]
  BY <1>1, StatStep
<1>3. Cardinality(G) \in Nat /\ Cardinality(G) <= EjPorts /\ EjPorts \in Nat
  BY <1>1, NewRecordFacts, NocAssumption DEF RecordFacts, SimStep
<1>4. turn' = turn + 1
  BY RunFacts DEF NodeStep, RecordStep
<1>5. /\ stage = "loop" /\ stage' = stage /\ time' = time /\ n = turn
      /\ time \in Nat /\ SimWarmup \in Nat /\ n \in Nat
  BY SimulationAssumption, Numbers DEF SimStep, SimInv, Ranges
<1>a. PICK c : c = IF time > SimWarmup THEN time - SimWarmup - 1 ELSE time
  OBVIOUS
<1>6. c \in Int
  BY <1>5, <1>a
<1>7. \A m \in Node : /\ Counted(m) = c + (IF m < n THEN 1 ELSE 0)
                      /\ Counted(m)' = c + (IF m < n + 1 THEN 1 ELSE 0)
  BY <1>4, <1>5, <1>a DEF Counted
<1>8. \A m \in Node : stat[m].received_flit <= EjPorts * Counted(m)
  BY DEF SimInv, EjectionRate
<1>9. ASSUME NEW m \in Node
      PROVE  stat'[m].received_flit <= EjPorts * Counted(m)'
  <2>1. CASE m = n
    <3>1. Counted(m) = c /\ Counted(m)' = c + 1
      BY <1>5, <1>6, <1>7, <2>1
    <3>2. stat'[m].received_flit = stat[n].received_flit + Cardinality(G)
      BY <1>2, <2>1 DEF Adds
    <3>3. stat[n].received_flit \in Nat
      BY <1>2 DEF StatType
    <3>4. stat[n].received_flit <= EjPorts * c
      BY <1>8, <2>1, <3>1
    <3>5. EjPorts * (c + 1) = EjPorts * c + EjPorts /\ EjPorts * c \in Int
      BY <1>3, <1>6
    <3> QED BY <1>3, <3>1, <3>2, <3>3, <3>4, <3>5
  <2>2. CASE m # n
    <3>1. m < n <=> m < n + 1
      BY <1>5, <2>2, Numbers
    <3>2. Counted(m)' = Counted(m)
      BY <1>7, <3>1
    <3>3. stat'[m] = stat[m]
      BY <1>2, <2>2
    <3> QED BY <1>8, <3>2, <3>3
  <2> QED BY <2>1, <2>2
<1> QED BY <1>9 DEF EjectionRate

\* No packet is lost or counted twice.
LEMMA StepBalance ==
  ASSUME SimInv, NEW n \in Node, NEW E \in EjectChoices(n), NEW s, SimStep(n, E, s)
  PROVE  Balance'
<1>1. PICK G : G = NewRecords(n, E)
  OBVIOUS
<1>2. TotalOf("received_packet")'
        = TotalOf("received_packet") + Cardinality(LastOf(G))
  BY <1>1, TotalsAfter
<1>3. Cardinality(LastOf(G)) = Cardinality(Finished(n, E))
  BY <1>1, NewRecordFacts DEF RecordFacts, SimStep
<1>4. PICK started \in {0, 1} : BalancedBy(n, E, started)
  BY RunFacts
<1>5. IInv /\ IInv' /\ EjectFacts(n, E) /\ next_id \in Nat /\ next_id' \in Nat
  <2>1. IInv /\ IInv' /\ EjectFacts(n, E)
    BY RunFacts DEF SimInv
  <2>2. next_id \in 0..MaxPackets /\ next_id' \in 0..MaxPackets
    BY <2>1 DEF IInv, TypeOK
  <2> QED BY <2>1, <2>2, Numbers
<1>6. /\ Queued \in Int /\ Queued' \in Int
      /\ Queued' + started = Queued + (next_id' - next_id)
  BY <1>4, <1>5, QueuedAfter
<1>7. /\ Attached \in Nat /\ Cardinality(Finished(n, E)) \in Nat
      /\ Attached' = Attached - Cardinality(Finished(n, E)) + started
  BY <1>4, <1>5, PacketsFinite DEF BalancedBy
<1>8. TotalOf("received_packet") \in Int
  <2>1. "received_packet" \in Counters
    BY DEF Counters
  <2> QED BY <2>1, TotalType DEF SimInv, Ranges
<1>9. /\ time' = time /\ warm_up_packet' = warm_up_packet /\ backlog' = backlog
      /\ warm_up_packet \in Nat /\ backlog \in Int
  BY DEF SimStep, SimInv, Ranges
<1>11. TotalOf("received_packet")' + Queued' + Attached'
         = TotalOf("received_packet") + Queued + Attached + (next_id' - next_id)
  <2>1. PICK f \in Int : f = Cardinality(Finished(n, E))
    BY <1>7
  <2>2. PICK t \in Int : t = TotalOf("received_packet")
    BY <1>8
  <2>3. PICK a \in Int : a = Attached
    BY <1>7
  <2>4. TotalOf("received_packet")' = t + f
    BY <1>2, <1>3, <2>1, <2>2
  <2>5. Attached' = a - f + started
    BY <1>7, <2>1, <2>3
  <2> QED BY <1>5, <1>6, <2>2, <2>3, <2>4, <2>5
<1>12. (IF time <= SimWarmup THEN next_id ELSE SentInSimulation + backlog)
         = TotalOf("received_packet") + Queued + Attached
  BY DEF SimInv, Balance
<1>13. CASE time <= SimWarmup
  <2>1. next_id' = TotalOf("received_packet")' + Queued' + Attached'
    BY <1>5, <1>6, <1>7, <1>8, <1>11, <1>12, <1>13
  <2> QED BY <1>9, <1>13, <2>1 DEF Balance
<1>14. CASE ~(time <= SimWarmup)
  <2>1. SentInSimulation = next_id - warm_up_packet + 1
    BY DEF SentInSimulation
  <2>2. SentInSimulation' = next_id' - warm_up_packet + 1
    BY <1>9 DEF SentInSimulation
  <2>3. SentInSimulation + backlog = TotalOf("received_packet") + Queued + Attached
    BY <1>12, <1>14
  <2>4. SentInSimulation' + backlog = TotalOf("received_packet")' + Queued' + Attached'
    BY <1>5, <1>6, <1>7, <1>8, <1>9, <1>11, <2>1, <2>2, <2>3
  <2> QED BY <1>9, <1>14, <2>4 DEF Balance
<1> QED BY <1>13, <1>14

\* All parts of the invariant.
LEMMA SimulateNodeSimInv == SimInv /\ SimulateNode => SimInv'
<1> SUFFICES ASSUME SimInv, SimulateNode PROVE SimInv'
  OBVIOUS
<1>a. PICK n \in Node : \E E \in EjectChoices(n) : \E s : SimStep(n, E, s)
  BY SimulateNodeIsStep DEF SimInv
<1>b. PICK E \in EjectChoices(n) : \E s : SimStep(n, E, s)
  BY <1>a
<1>1. PICK s : SimStep(n, E, s)
  BY <1>b
<1>2. IInv' /\ Ranges' /\ Created' /\ Underway' /\ NeverEarly' /\ Gone'
  BY <1>1, RunFacts, StepRanges, StepCreated, StepUnderway, StepNeverEarly, StepGone
<1>3. Sums' /\ Maxima' /\ EjectionRate' /\ Balance'
  BY <1>1, StepSums, StepMaxima, StepEjectionRate, StepBalance
<1>4. stage' = "loop"
  BY <1>1 DEF SimStep
<1>5. Final'
  BY <1>4 DEF Final
<1> QED BY <1>2, <1>3, <1>5 DEF SimInv

-----------------------------------------------------------------------------
(* The end of a cycle, with the reset at the end of the warm-up.           *)

\* What every end of a cycle has in common.
CycleEnds ==
  /\ stage = "loop" /\ turn = N
  /\ EndOfWarmup
  /\ time' = time + 1
  /\ UNCHANGED <<next_id, packet, queue>>

\* Packets and queues alone tell how many are waiting and under way.
LEMMA CountsUnchanged ==
  ASSUME UNCHANGED <<packet, queue>>
  PROVE  Queued' = Queued /\ Attached' = Attached
BY DEF Queued, Attached

\* The number of packets waiting is a number.
LEMMA QueuedType == ASSUME IInv PROVE Queued \in Int
<1>1. PICK fun : fun = [m \in Node |-> Len(queue[m])]
  OBVIOUS
<1>2. IsFiniteSet(Node)
  BY FS_Interval, Numbers DEF Node
<1>3. queue \in [Node -> Seq(PacketInfo)]
  BY DEF IInv, TypeOK
<1>4. \A m \in Node : fun[m] \in Int
  BY <1>1, <1>3, LenProperties
<1>5. SumFunctionOnSet(fun, Node) \in Int
  BY <1>2, <1>4, SumType
<1> QED BY <1>1, <1>5 DEF Queued, SumFunction

\* So is that of the packets on the rings.
LEMMA AttachedType == ASSUME IInv PROVE Attached \in Nat
<1>1. IsFiniteSet(PacketId)
  BY FS_Interval, Numbers DEF PacketId
<1>2. IsFiniteSet(DOMAIN packet)
  BY <1>1, FS_Subset DEF IInv, TypeOK
<1> QED BY <1>2, FS_CardinalityType DEF Attached

\* The statistics after the reset are those of no ejection at all.
Cleared ==
  /\ stat' = [n \in Node |-> NoStat] /\ ejected' = {}
  /\ warm_up_packet' = next_id + 1 /\ backlog' = Queued + Attached

\* The end of a cycle clears all statistics or leaves them alone.
LEMMA ResetOrNot ==
  ASSUME CycleEnds
  PROVE  \/ time = SimWarmup /\ Cleared
         \/ time # SimWarmup /\ UNCHANGED <<stat, ejected, warm_up_packet, backlog>>
BY DEF CycleEnds, EndOfWarmup, Cleared, Reset, WarmUpPacket

\* Their types.
CountTypes ==
  /\ stat \in [Node -> StatType]
  /\ warm_up_packet \in Nat /\ backlog \in Int
  /\ IsFiniteSet(ejected)
  /\ \A e \in ejected :
       e.flit \in FlitId /\ e.delay \in Nat \ {0} /\ e.last \in BOOLEAN

\* After the reset the statistics are those of no record.
LEMMA ClearedCounts ==
  ASSUME IInv, Cleared
  PROVE  /\ CountTypes'
         /\ \A k \in Counters : TotalOf(k)' = 0
         /\ Sums' /\ Maxima'
<1>1. NoStat \in StatType /\ \A k \in Counters : NoStat[k] = 0
  <2>1. NoStat \in StatType
    BY DEF NoStat, StatType
  <2>2. /\ NoStat["received_flit"] = 0 /\ NoStat["flit_delay"] = 0
        /\ NoStat["received_packet"] = 0 /\ NoStat["packet_delay"] = 0
    BY DEF NoStat
  <2> QED BY <2>1, <2>2 DEF Counters
<1>2. \A m \in Node : stat'[m] = NoStat
  BY DEF Cleared
<1>3. IsFiniteSet(Node)
  BY FS_Interval, Numbers DEF Node
<1>4. ASSUME NEW k \in Counters PROVE TotalOf(k)' = 0
  <2>1. PICK gun : gun = [m \in Node |-> stat'[m][k]]
    OBVIOUS
  <2>2. \A m \in Node : gun[m] = 0
    BY <1>1, <1>2, <2>1
  <2>3. SumFunctionOnSet(gun, Node) = 0
    BY <1>3, <2>2, SumZero
  <2> QED BY <2>1, <2>3 DEF TotalOf
<1>5. CountTypes'
  <2>1. next_id \in Nat
    BY Numbers DEF IInv, TypeOK
  <2>2. Queued + Attached \in Int
    BY QueuedType, AttachedType
  <2>3. IsFiniteSet({})
    BY FS_EmptySet
  <2>4. stat' \in [Node -> StatType]
    BY <1>1 DEF Cleared
  <2>5. StatType' = StatType
    BY DEF StatType
  <2> QED BY <2>1, <2>2, <2>3, <2>4, <2>5 DEF CountTypes, Cleared
<1>6. Sums'
  <2>1. /\ Cardinality(ejected') = 0 /\ Delays(ejected)' = 0
        /\ LastOf(ejected)' = {}
    BY FS_EmptySet, SumEmpty DEF Cleared, Delays, LastOf
  <2>2. Cardinality(LastOf(ejected)') = 0 /\ Delays(LastOf(ejected))' = 0
    <3>1. Delays(LastOf(ejected))' = Delays({})
      BY <2>1 DEF Delays
    <3> QED BY <2>1, <3>1, FS_EmptySet, SumEmpty DEF Delays
  <2>3. /\ "received_flit" \in Counters /\ "flit_delay" \in Counters
        /\ "received_packet" \in Counters /\ "packet_delay" \in Counters
    BY DEF Counters
  <2> QED BY <1>4, <2>1, <2>2, <2>3 DEF Sums
<1>7. Maxima'
  <2>1. NoStat.max_flit_delay = 0 /\ NoStat.max_packet_delay = 0
    BY DEF NoStat
  <2>2. \A m \in Node : stat'[m].max_flit_delay = 0 /\ stat'[m].max_packet_delay = 0
    BY <1>2, <2>1
  <2> QED BY <2>2 DEF Maxima, Cleared
<1> QED BY <1>4, <1>5, <1>6, <1>7

\* Without a reset nothing changes.
LEMMA SameCounts ==
  ASSUME CountTypes, Sums, Maxima, UNCHANGED <<stat, ejected, warm_up_packet, backlog>>
  PROVE  /\ CountTypes' /\ Sums' /\ Maxima'
         /\ \A k \in Counters : TotalOf(k)' = TotalOf(k)
<1>1. \A k \in Counters : TotalOf(k)' = TotalOf(k)
  BY DEF TotalOf
<1>2. Delays(ejected)' = Delays(ejected) /\ LastOf(ejected)' = LastOf(ejected)
  BY DEF Delays, LastOf
<1>3. Delays(LastOf(ejected))' = Delays(LastOf(ejected))
  BY DEF Delays, LastOf
<1>4. /\ "received_flit" \in Counters /\ "flit_delay" \in Counters
      /\ "received_packet" \in Counters /\ "packet_delay" \in Counters
  BY DEF Counters
<1>5. Sums'
  BY <1>1, <1>2, <1>3, <1>4 DEF Sums
<1>6. Maxima'
  BY <1>2 DEF Maxima
<1>7. CountTypes'
  BY DEF CountTypes, FlitId, PacketId, StatType
<1> QED BY <1>1, <1>5, <1>6, <1>7

\* Either way the statistics are those of the records that are left.
LEMMA EndCounts ==
  ASSUME SimInv, CycleEnds
  PROVE  /\ CountTypes' /\ Sums' /\ Maxima'
         /\ ejected' \subseteq ejected
         /\ TotalOf("received_packet")'
              = IF time = SimWarmup THEN 0 ELSE TotalOf("received_packet")
<1>1. CountTypes /\ Sums /\ Maxima /\ IInv
  BY DEF SimInv, Ranges, CountTypes
<1>2. "received_packet" \in Counters
  BY DEF Counters
<1>3. CASE time = SimWarmup /\ Cleared
  BY <1>1, <1>2, <1>3, ClearedCounts DEF Cleared
<1>4. CASE time # SimWarmup /\ UNCHANGED <<stat, ejected, warm_up_packet, backlog>>
  BY <1>1, <1>2, <1>4, SameCounts
<1> QED BY <1>3, <1>4, ResetOrNot

\* The end of a cycle adds no record.
LEMMA EndNeverEarly == ASSUME SimInv, CycleEnds PROVE NeverEarly'
BY EndCounts DEF SimInv, NeverEarly

\* With every cycle a node may have ejected that many flits more.
LEMMA EndEjectionRate ==
  ASSUME SimInv, CycleEnds,
         (stage' = "loop" /\ turn' = 0) \/ stage' = "gathered"
  PROVE  EjectionRate'
<1>1. /\ time \in Nat /\ SimWarmup \in Nat /\ EjPorts \in Nat
      /\ time' = time + 1 /\ stage = "loop" /\ turn = N
  BY SimulationAssumption, NocAssumption DEF SimInv, Ranges, CycleEnds
<1>2. \A m \in Node : m \in Nat /\ m < N
  BY Numbers
<1>3. \A m \in Node : Counted(m)' = IF time >= SimWarmup THEN time - SimWarmup ELSE time + 1
  <2> TAKE m \in Node
  <2>1. ~(stage' = "loop" /\ m < turn')
    BY <1>2
  <2>2. Counted(m)' = (IF time + 1 > SimWarmup THEN (time + 1) - SimWarmup - 1
                       ELSE time + 1) + 0
    BY <1>1, <2>1 DEF Counted
  <2> QED BY <1>1, <2>2
<1>4. CASE time = SimWarmup /\ Cleared
  <2>1. \A m \in Node : stat'[m].received_flit = 0
    BY <1>4 DEF Cleared, NoStat
  <2>2. \A m \in Node : Counted(m)' = 0
    BY <1>1, <1>3, <1>4
  <2> QED BY <1>1, <2>1, <2>2 DEF EjectionRate
<1>5. CASE time # SimWarmup /\ UNCHANGED <<stat, ejected, warm_up_packet, backlog>>
  <2>1. ASSUME NEW m \in Node PROVE Counted(m)' = Counted(m)
    <3>1. Counted(m) = (IF time > SimWarmup THEN time - SimWarmup - 1 ELSE time) + 1
      BY <1>1, <1>2 DEF Counted
    <3> QED BY <1>1, <1>3, <1>5, <3>1
  <2>2. \A m \in Node : stat'[m].received_flit <= EjPorts * Counted(m)
    BY <1>5 DEF SimInv, EjectionRate
  <2> QED BY <2>1, <2>2 DEF EjectionRate
<1> QED BY <1>4, <1>5, ResetOrNot

\* The reset forgets the packets received, and counts those under way.
LEMMA EndBalance == ASSUME SimInv, CycleEnds PROVE Balance'
<1>1. /\ time \in Nat /\ SimWarmup \in Nat /\ time' = time + 1 /\ next_id' = next_id
  BY SimulationAssumption DEF SimInv, Ranges, CycleEnds
<1>2. next_id \in Nat /\ warm_up_packet \in Nat /\ backlog \in Int
  BY Numbers DEF SimInv, IInv, TypeOK, Ranges
<1>3. PICK q \in Int : q = Queued
  BY QueuedType DEF SimInv
<1>4. PICK a \in Int : a = Attached
  BY AttachedType DEF SimInv
<1>5. Queued' = q /\ Attached' = a
  BY <1>3, <1>4, CountsUnchanged DEF CycleEnds
<1>6. PICK t : t = TotalOf("received_packet")
  OBVIOUS
<1>7. TotalOf("received_packet")' = IF time = SimWarmup THEN 0 ELSE t
  BY <1>6, EndCounts
<1>8. (IF time <= SimWarmup THEN next_id ELSE next_id - warm_up_packet + 1 + backlog)
         = t + q + a
  BY <1>3, <1>4, <1>6 DEF SimInv, Balance, SentInSimulation
<1>9. SentInSimulation' = next_id - warm_up_packet' + 1
  BY <1>1 DEF SentInSimulation
<1>10. CASE time = SimWarmup /\ Cleared
  <2>1. warm_up_packet' = next_id + 1 /\ backlog' = q + a
    BY <1>3, <1>4, <1>10 DEF Cleared
  <2>2. SentInSimulation' + backlog' = 0 + q + a
    BY <1>2, <1>9, <2>1
  <2>3. ~(time' <= SimWarmup)
    BY <1>1, <1>10
  <2> QED BY <1>5, <1>7, <1>10, <2>2, <2>3 DEF Balance
<1>11. CASE time # SimWarmup /\ UNCHANGED <<stat, ejected, warm_up_packet, backlog>>
  <2>1. time' <= SimWarmup <=> time <= SimWarmup
    BY <1>1, <1>11
  <2>2. SentInSimulation' + backlog' = next_id - warm_up_packet + 1 + backlog
    BY <1>9, <1>11
  <2>3. (IF time' <= SimWarmup THEN next_id' ELSE SentInSimulation' + backlog')
          = t + q + a
    BY <1>1, <1>8, <2>1, <2>2
  <2> QED BY <1>5, <1>7, <1>11, <2>3 DEF Balance
<1> QED BY <1>10, <1>11, ResetOrNot

\* A flit's way after the cycle, whether the rings have moved or not.
LEMMA EndUnderway ==
  ASSUME SimInv, CycleEnds,
         \/ MoveRings
         \/ UNCHANGED <<turn, flit>>
  PROVE  Underway'
<1>1. /\ time \in Nat /\ time' = time + 1 /\ packet' = packet /\ turn = N
      /\ N \in Nat
  BY Numbers DEF SimInv, Ranges, CycleEnds
<1>2. DOMAIN flit' = DOMAIN flit
  BY DEF MoveRings
<1> SUFFICES ASSUME NEW f \in DOMAIN flit', flit'[f].status # "Injecting"
             PROVE  OnItsWay(f)'
  BY DEF Underway
<1>3. f \in DOMAIN flit
  BY <1>2
<1>4. PICK p : p = packet[f[1]]
  OBVIOUS
<1>5. /\ f[2] \in Nat /\ p.ctime \in Nat /\ p.src \in Nat /\ p.src < N
      /\ flit[f].node \in Nat /\ flit[f].node < N
  <2>1. p \in Packet /\ f[2] \in 0..LastSeq(f[1]) /\ flit[f].node \in Node
    BY <1>3, <1>4, FlitFacts DEF SimInv, IInv
  <2> QED BY <2>1, Numbers DEF Packet
<1>6. flit'[f].status = flit[f].status
  <2>1. CASE MoveRings
    <3>1. flit[f] = [status |-> flit[f].status, node |-> flit[f].node]
      BY <1>3, FlitFacts DEF SimInv, IInv
    <3>2. flit'[f] = IF flit[f].status = "Routing"
                     THEN [flit[f] EXCEPT !.node = NextNode[packet[f[1]].ring][@]]
                     ELSE flit[f]
      BY <1>3, <2>1 DEF MoveRings
    <3> QED BY <3>1, <3>2
  <2>2. CASE UNCHANGED <<turn, flit>>
    BY <2>2
  <2> QED BY <2>1, <2>2
<1>7. OnItsWay(f)
  BY <1>3, <1>6 DEF SimInv, Underway
<1>8. PICK k \in 0..time :
        /\ Places(p.ring, p.src)[k] = flit[f].node
        /\ k + f[2] <= time - p.ctime
  BY <1>4, <1>7 DEF OnItsWay
<1>9. f[2] + 0 <= time - p.ctime
  <2>1. ~(turn <= p.src)
    BY <1>1, <1>5
  <2> QED BY <1>4, <1>7, <2>1 DEF OnItsWay
<1>10. f[2] + (IF turn' <= p.src THEN 1 ELSE 0) <= (time + 1) - p.ctime
  BY <1>1, <1>5, <1>9
\* The place after the cycle.
<1>11. \E j \in 0..(time + 1) :
         /\ Places(p.ring, p.src)[j] = flit'[f].node
         /\ j + f[2] <= (time + 1) - p.ctime
         /\ flit'[f].status = "Routing" /\ turn' <= flit'[f].node => j >= 1
  <2>1. CASE MoveRings /\ flit[f].status = "Routing"
    <3>1. flit'[f].node = NextNode[p.ring][flit[f].node]
      <4>1. flit'[f] = [flit[f] EXCEPT !.node = NextNode[packet[f[1]].ring][@]]
        BY <1>3, <2>1 DEF MoveRings
      <4>2. flit[f] = [status |-> flit[f].status, node |-> flit[f].node]
        BY <1>3, FlitFacts DEF SimInv, IInv
      <4> QED BY <1>4, <4>1, <4>2
    <3>2. Places(p.ring, p.src)[k + 1] = flit'[f].node
      BY <1>8, <3>1, PlacesFacts
    <3>3. /\ k + 1 \in 0..(time + 1) /\ k + 1 >= 1
          /\ (k + 1) + f[2] <= (time + 1) - p.ctime
      BY <1>1, <1>5, <1>8
    <3> QED BY <3>2, <3>3
  <2>2. CASE MoveRings /\ flit[f].status # "Routing"
    <3>1. flit'[f] = flit[f]
      BY <1>3, <2>2 DEF MoveRings
    <3>2. k \in 0..(time + 1) /\ k + f[2] <= (time + 1) - p.ctime
      BY <1>1, <1>5, <1>8
    <3> QED BY <1>8, <2>2, <3>1, <3>2
  <2>3. CASE UNCHANGED <<turn, flit>>
    <3>1. ~(turn' <= flit'[f].node)
      BY <1>1, <1>5, <2>3
    <3>2. k \in 0..(time + 1) /\ k + f[2] <= (time + 1) - p.ctime
      BY <1>1, <1>5, <1>8
    <3> QED BY <1>8, <2>3, <3>1, <3>2
  <2> QED BY <2>1, <2>2, <2>3
<1> QED BY <1>1, <1>4, <1>10, <1>11 DEF OnItsWay

\* Time goes on for packets and for the clock alike.
LEMMA EndCreated ==
  ASSUME SimInv, CycleEnds, cycle' \in {cycle, cycle + 1}
  PROVE  Created'
<1>1. /\ cycle \in Nat /\ time \in Nat /\ MaxCycle \in Nat
      /\ time' = time + 1 /\ packet' = packet /\ queue' = queue
  BY Numbers DEF SimInv, IInv, TypeOK, Ranges, CycleEnds
<1>2. ASSUME NEW m \in Node, NEW i \in 1..Len(queue[m])
      PROVE  queue[m][i].ctime <= cycle'
  <2>1. queue[m] \in Seq(PacketInfo)
    BY DEF SimInv, IInv, TypeOK
  <2>2. queue[m][i] \in PacketInfo
    BY <2>1
  <2>3. queue[m][i].ctime \in Nat
    BY <1>1, <2>2 DEF PacketInfo
  <2>4. queue[m][i].ctime <= cycle
    BY DEF SimInv, Created
  <2> QED BY <1>1, <2>3, <2>4
<1>3. ASSUME NEW p \in DOMAIN packet PROVE packet[p].ctime <= time + 1
  <2>1. packet[p] \in Packet
    BY DEF SimInv, IInv, TypeOK
  <2>2. packet[p].ctime \in Nat
    BY <1>1, <2>1 DEF Packet
  <2> QED BY <1>1, <2>2 DEF SimInv, Created
<1>4. cycle' <= time + 1
  BY <1>1 DEF SimInv, Created
<1> QED BY <1>1, <1>2, <1>3, <1>4 DEF Created

\* Flits that are recorded do not come back when the rings move.
LEMMA EndGone ==
  ASSUME SimInv, CycleEnds, DOMAIN flit' = DOMAIN flit,
         \A f \in DOMAIN flit : flit'[f].status = flit[f].status
  PROVE  Gone'
<1>1. ejected' \subseteq ejected /\ queue' = queue /\ next_id' = next_id
  BY EndCounts DEF CycleEnds
<1> QED BY <1>1 DEF SimInv, Gone

\* The clock.
LEMMA EndClock ==
  ASSUME SimInv, CycleEnds,
         \/ stage' = "loop" /\ time + 1 < SimTime
         \/ stage' = "gathered" /\ time + 1 = SimTime
  PROVE  Ranges'
<1>1. time \in Nat /\ SimTime \in Nat /\ time' = time + 1
  BY SimulationAssumption DEF SimInv, Ranges, CycleEnds
<1>2. /\ time' \in 0..SimTime
      /\ stage' \in {"loop", "gathered", "destroyed"}
      /\ stage' = "loop" <=> time' < SimTime
  BY <1>1
<1> QED BY <1>2, EndCounts DEF Ranges, CountTypes

\* Hence a cycle that is followed by another preserves the invariant.
LEMMA EndCycleSimInv == SimInv /\ EndCycle => SimInv'
<1> SUFFICES ASSUME SimInv, EndCycle PROVE SimInv'
  OBVIOUS
<1>1. CycleEnds /\ MoveRings /\ stage' = "loop" /\ turn' = 0 /\ time + 1 < SimTime
  BY DEF EndCycle, CycleEnds, MoveRings, node_vars
<1>2. IInv'
  BY <1>1, MoveRingsIInv DEF SimInv
<1>3. cycle' \in {cycle, cycle + 1}
  BY <1>1 DEF MoveRings
<1>4. DOMAIN flit' = DOMAIN flit /\ \A f \in DOMAIN flit : flit'[f].status = flit[f].status
  BY <1>1 DEF MoveRings
<1>5. Ranges' /\ Created' /\ Underway' /\ NeverEarly' /\ Gone'
  BY <1>1, <1>3, <1>4, EndClock, EndCreated, EndUnderway, EndNeverEarly, EndGone
<1>6. Sums' /\ Maxima' /\ EjectionRate' /\ Balance'
  BY <1>1, EndCounts, EndEjectionRate, EndBalance
<1>7. Final'
  BY <1>1 DEF Final
<1> QED BY <1>2, <1>5, <1>6, <1>7 DEF SimInv

-----------------------------------------------------------------------------
(* stat_gather.                                                            *)

\* The node whose packet delay is gathered exists and has the largest one.
LEMMA SlowestFacts ==
  ASSUME stat' \in [Node -> StatType]
  PROVE  /\ Slowest \in Node
         /\ \A m \in Node : stat'[m].max_packet_delay <= stat'[Slowest].max_packet_delay
<1>1. PICK d : d = [m \in Node |-> stat'[m].max_packet_delay]
  OBVIOUS
<1>2. \A m \in Node : d[m] \in Nat
  BY <1>1 DEF StatType
<1>3. IsFiniteSet(Node) /\ 0 \in Node /\ \A m \in Node : m \in Nat
  BY FS_Interval, Numbers DEF Node
<1>4. PICK S : S = {d[m] : m \in Node}
  OBVIOUS
<1>5. S \in SUBSET Int /\ S # {} /\ IsFiniteSet(S)
  <2>1. d \in Surjection(Node, S)
    BY <1>1, <1>4 DEF Surjection
  <2> QED BY <1>2, <1>3, <1>4, <2>1, FS_Surjection
<1>6. PICK a \in Node : \A m \in Node : d[m] <= d[a]
  <2>1. PICK x : x = Max(S)
    OBVIOUS
  <2>2. x \in S /\ \A y \in S : x >= y
    BY <1>5, <2>1, MaxFacts
  <2>3. PICK a \in Node : x = d[a]
    BY <1>4, <2>2
  <2>4. \A m \in Node : d[m] <= d[a]
    BY <1>2, <1>4, <2>2, <2>3
  <2> QED BY <2>4
<1>7. PICK T : T = {m \in Node : d[m] = d[a]}
  OBVIOUS
<1>8. PICK b \in T : \A m \in T : b <= m
  <2>1. T \in SUBSET Nat /\ T # {}
    BY <1>3, <1>6, <1>7
  <2> QED BY <2>1, LeastNatural
<1>9. b \in Node /\ \A m \in Node : d[m] <= d[b]
  BY <1>6, <1>7, <1>8
<1>10. \A m \in 0..(b - 1) : d[m] < d[b]
  <2> SUFFICES ASSUME NEW m \in 0..(b - 1) PROVE d[m] < d[b]
    OBVIOUS
  <2>1. m \in Node /\ m < b
    BY <1>9, Numbers DEF Node
  <2>2. d[m] # d[a] /\ d[b] = d[a]
    BY <1>3, <1>7, <1>8, <2>1
  <2> QED BY <1>2, <1>6, <1>9, <2>1, <2>2
<1>11. \E n \in Node :
         /\ \A m \in Node : stat'[m].max_packet_delay <= stat'[n].max_packet_delay
         /\ \A m \in 0..(n - 1) : stat'[m].max_packet_delay < stat'[n].max_packet_delay
  <2>1. \A m \in 0..(b - 1) : m \in Node
    BY <1>9, Numbers DEF Node
  <2> QED BY <1>1, <1>9, <1>10, <2>1
<1> QED BY <1>11 DEF Slowest

\* The largest value of a finite set is the only bound it contains.
LEMMA MaxIs ==
  ASSUME NEW S \in SUBSET Int, IsFiniteSet(S), NEW x \in S, \A y \in S : y <= x
  PROVE  Max(S) = x
<1>1. PICK m : m = Max(S)
  OBVIOUS
<1>2. m \in S /\ \A y \in S : m >= y
  BY <1>1, MaxFacts
<1>3. m \in Int /\ x \in Int /\ m <= x /\ x <= m
  BY <1>2
<1> QED BY <1>1, <1>3

\* The largest delay of the records.
LEMMA MaxDelayIs ==
  ASSUME NEW S, IsFiniteSet(S), \A e \in S : e.delay \in Nat,
         NEW d \in Nat, \A e \in S : e.delay <= d,
         \/ \E e \in S : e.delay = d
         \/ S = {} /\ d = 0
  PROVE  MaxDelay(S) = d
<1>1. CASE S = {}
  BY <1>1 DEF MaxDelay
<1>2. CASE S # {}
  <2>1. PICK g : g = [e \in S |-> e.delay]
    OBVIOUS
  <2>2. PICK T : T = {g[e] : e \in S}
    OBVIOUS
  <2>3. g \in Surjection(S, T)
    BY <2>1, <2>2 DEF Surjection
  <2>4. IsFiniteSet(T)
    BY <2>3, FS_Surjection
  <2>5. T \in SUBSET Int /\ d \in T /\ \A y \in T : y <= d
    BY <1>2, <2>1, <2>2
  <2>6. Max(T) = d
    BY <2>4, <2>5, MaxIs
  <2>7. T = {e.delay : e \in S}
    BY <2>1, <2>2
  <2> QED BY <1>2, <2>6, <2>7 DEF MaxDelay
<1> QED BY <1>1, <1>2

\* The summary of the network is exact when the cycle has ended.
LEMMA GatheredIsExact ==
  ASSUME CountTypes', Sums', Maxima', m_stat' = Gathered
  PROVE  SummaryExact' /\ m_stat'.received_packet = TotalOf("received_packet")'
<1>1. PICK D : D = ejected'
  OBVIOUS
<1>2. PICK P : P = {e \in D : e.last}
  OBVIOUS
<1>3. PICK z : z = m_stat'
  OBVIOUS
<1>4. /\ stat' \in [Node -> StatType] /\ IsFiniteSet(D)
      /\ \A e \in D : e.delay \in Nat \ {0} /\ e.last \in BOOLEAN
  <2>1. StatType' = StatType
    BY DEF StatType
  <2> QED BY <1>1, <2>1 DEF CountTypes
<1>5. IsFiniteSet(P) /\ P \subseteq D
  BY <1>2, <1>4, FS_Subset
<1>6. \A m \in Node : stat'[m].max_flit_delay \in Nat /\ stat'[m].max_packet_delay \in Nat
  BY <1>4 DEF StatType
\* The numbers and the sums.
<1>7. /\ TotalOf("received_flit")' = Cardinality(D)
      /\ TotalOf("flit_delay")' = SumFunction([e \in D |-> e.delay])
      /\ TotalOf("received_packet")' = Cardinality(P)
      /\ TotalOf("packet_delay")' = SumFunction([e \in P |-> e.delay])
  <2>1. LastOf(ejected)' = P
    BY <1>1, <1>2 DEF LastOf
  <2>2. Delays(ejected)' = SumFunction([e \in D |-> e.delay])
    BY <1>1 DEF Delays, SumFunction
  <2>3. Delays(LastOf(ejected))' = SumFunction([e \in P |-> e.delay])
    BY <2>1 DEF Delays, SumFunction
  <2> QED BY <1>1, <2>1, <2>2, <2>3 DEF Sums
<1>8. /\ TotalOf("received_flit")' = SumFunction([n \in Node |-> stat'[n].received_flit])
      /\ TotalOf("flit_delay")' = SumFunction([n \in Node |-> stat'[n].flit_delay])
      /\ TotalOf("received_packet")'
           = SumFunction([n \in Node |-> stat'[n].received_packet])
      /\ TotalOf("packet_delay")' = SumFunction([n \in Node |-> stat'[n].packet_delay])
  BY DEF TotalOf, SumFunction
<1>9. /\ z.received_flit = TotalOf("received_flit")'
      /\ z.flit_delay = TotalOf("flit_delay")'
      /\ z.received_packet = TotalOf("received_packet")'
      /\ z.packet_delay = TotalOf("packet_delay")'
      /\ z.max_flit_delay = Max({stat'[n].max_flit_delay : n \in Node})
      /\ z.max_packet_delay = stat'[Slowest].max_packet_delay
      /\ z.packet_id_for_max_delay = stat'[Slowest].packet_id_for_max_delay
  BY <1>3, <1>8 DEF Gathered
\* The maxima.
<1>10. /\ \A e \in D : \E n \in Node : e.delay <= stat'[n].max_flit_delay
       /\ \A n \in Node : \/ stat'[n].max_flit_delay = 0
                          \/ \E e \in D : e.delay = stat'[n].max_flit_delay
       /\ \A e \in P : \E n \in Node : e.delay <= stat'[n].max_packet_delay
       /\ \A n \in Node :
            \/ stat'[n].max_packet_delay = 0
            \/ \E e \in P : /\ e.delay = stat'[n].max_packet_delay
                            /\ e.flit[1] = stat'[n].packet_id_for_max_delay
  <2>1. LastOf(ejected)' = P
    BY <1>1, <1>2 DEF LastOf
  <2> QED BY <1>1, <1>2, <2>1 DEF Maxima
<1>11. MaxDelay(D) = z.max_flit_delay
  <2>1. PICK d : d = [n \in Node |-> stat'[n].max_flit_delay]
    OBVIOUS
  <2>2. PICK S : S = {d[n] : n \in Node}
    OBVIOUS
  <2>3. IsFiniteSet(Node) /\ 0 \in Node
    BY FS_Interval, Numbers DEF Node
  <2>4. S \in SUBSET Int /\ IsFiniteSet(S) /\ S # {}
    <3>1. d \in Surjection(Node, S)
      BY <2>1, <2>2 DEF Surjection
    <3> QED BY <1>6, <2>1, <2>2, <2>3, <3>1, FS_Surjection
  <2>5. PICK x : x = Max(S)
    OBVIOUS
  <2>6. x \in S /\ \A y \in S : x >= y
    BY <2>4, <2>5, MaxFacts
  <2>7. PICK a \in Node : x = stat'[a].max_flit_delay
    BY <2>1, <2>2, <2>6
  <2>8. x \in Nat /\ \A n \in Node : stat'[n].max_flit_delay <= x
    BY <1>6, <2>1, <2>2, <2>6, <2>7
  <2>9. \A e \in D : e.delay \in Nat /\ e.delay <= x
    BY <1>4, <1>6, <1>10, <2>8
  <2>10. (\E e \in D : e.delay = x) \/ (D = {} /\ x = 0)
    <3>1. CASE x = 0
      <4>1. D = {}
        BY <1>4, <2>9, <3>1
      <4> QED BY <3>1, <4>1
    <3>2. CASE x # 0
      BY <1>10, <2>7, <3>2
    <3> QED BY <3>1, <3>2
  <2>11. MaxDelay(D) = x
    BY <1>4, <2>8, <2>9, <2>10, MaxDelayIs
  <2>12. S = {stat'[n].max_flit_delay : n \in Node}
    BY <2>1, <2>2
  <2> QED BY <1>9, <2>5, <2>11, <2>12
<1>12. PICK w \in Node : /\ w = Slowest
                         /\ \A n \in Node : stat'[n].max_packet_delay
                                             <= stat'[w].max_packet_delay
  BY <1>4, SlowestFacts
<1>13. PICK x \in Nat : x = stat'[w].max_packet_delay /\ x = z.max_packet_delay
  BY <1>6, <1>9, <1>12
<1>14. \A e \in P : e.delay \in Nat /\ e.delay # 0 /\ e.delay <= x
  <2> TAKE e \in P
  <2>1. PICK n \in Node : e.delay <= stat'[n].max_packet_delay
    BY <1>10
  <2>2. e.delay \in Nat \ {0}
    BY <1>4, <1>5
  <2> QED BY <1>6, <1>12, <1>13, <2>1, <2>2
<1>15. P # {} => \E e \in P : /\ e.delay = x
                              /\ e.flit[1] = z.packet_id_for_max_delay
  <2> HAVE P # {}
  <2>1. x # 0
    BY <1>14
  <2> QED BY <1>9, <1>10, <1>12, <1>13, <2>1
<1>16. P = {} => x = 0
  BY <1>10, <1>12, <1>13
<1>17. MaxDelay(P) = x
  BY <1>5, <1>13, <1>14, <1>15, <1>16, MaxDelayIs
<1>18. SummaryExact'
  <2>1. /\ z.received_flit = Cardinality(D)
        /\ z.flit_delay = SumFunction([e \in D |-> e.delay])
        /\ z.max_flit_delay = MaxDelay(D)
        /\ z.received_packet = Cardinality(P)
        /\ z.packet_delay = SumFunction([e \in P |-> e.delay])
        /\ z.max_packet_delay = MaxDelay(P)
        /\ P # {} => \E e \in P : /\ e.delay = z.max_packet_delay
                                  /\ e.flit[1] = z.packet_id_for_max_delay
    BY <1>7, <1>9, <1>11, <1>13, <1>15, <1>17
  <2>2. MaxDelay(D) = MaxDelay(ejected)' /\ MaxDelay(P) = MaxDelay({e \in ejected : e.last})'
    BY <1>1, <1>2 DEF MaxDelay
  <2> QED BY <1>1, <1>2, <1>3, <2>1, <2>2 DEF SummaryExact
<1> QED BY <1>3, <1>9, <1>18

\* So does the last cycle, with the statistics it gathers.
LEMMA FinishSimInv == SimInv /\ Finish => SimInv'
<1> SUFFICES ASSUME SimInv, Finish PROVE SimInv'
  OBVIOUS
<1>1. /\ CycleEnds /\ UNCHANGED vars /\ stage' = "gathered" /\ time + 1 = SimTime
      /\ m_stat' = Gathered
  BY DEF Finish, CycleEnds, vars, node_vars
<1>2. /\ IInv' /\ cycle' = cycle /\ turn' = turn /\ flit' = flit /\ turn = N
      /\ UNCHANGED <<packet, queue>>
  BY <1>1, StutterIInv DEF SimInv, vars, node_vars, CycleEnds
<1>3. Ranges' /\ Created' /\ Underway' /\ NeverEarly' /\ Gone'
  BY <1>1, <1>2, EndClock, EndCreated, EndUnderway, EndNeverEarly, EndGone
<1>4. CountTypes' /\ Sums' /\ Maxima' /\ EjectionRate' /\ Balance'
  BY <1>1, EndCounts, EndEjectionRate, EndBalance
<1>5. SummaryExact' /\ m_stat'.received_packet = TotalOf("received_packet")'
  BY <1>1, <1>4, GatheredIsExact
<1>6. Final'
  BY <1>1, <1>2, <1>5 DEF Final
<1> QED BY <1>2, <1>3, <1>4, <1>6 DEF SimInv

-----------------------------------------------------------------------------
(* The destructors, stuttering and the initial states.                     *)

\* What neither the network nor its statistics change.
Quiescent ==
  UNCHANGED <<vars, time, stat, m_stat, warm_up_packet, ejected, backlog>>

\* After it most of the variables do not change any more.
LEMMA QuiescentFacts ==
  ASSUME SimInv, Quiescent
  PROVE  /\ IInv' /\ CountTypes' /\ Created' /\ Underway' /\ NeverEarly' /\ Gone'
         /\ Sums' /\ Maxima' /\ Balance'
         /\ Queued' = Queued /\ Attached' = Attached
         /\ TotalOf("received_packet")' = TotalOf("received_packet")
<1>1. /\ UNCHANGED vars /\ cycle' = cycle /\ turn' = turn /\ next_id' = next_id
      /\ packet' = packet /\ flit' = flit /\ queue' = queue
      /\ time' = time /\ stat' = stat /\ ejected' = ejected
      /\ warm_up_packet' = warm_up_packet /\ backlog' = backlog
  BY DEF Quiescent, vars, node_vars
<1>2. IInv'
  BY <1>1, StutterIInv DEF SimInv
<1>3. CountTypes /\ Sums /\ Maxima
  BY DEF SimInv, Ranges, CountTypes
<1>4. /\ CountTypes' /\ Sums' /\ Maxima'
      /\ TotalOf("received_packet")' = TotalOf("received_packet")
  BY <1>1, <1>3, SameCounts DEF Counters
<1>5. Queued' = Queued /\ Attached' = Attached
  BY <1>1, CountsUnchanged
<1>6. Created' /\ NeverEarly' /\ Gone'
  BY <1>1 DEF SimInv, Created, NeverEarly, Gone
<1>7. Underway'
  BY <1>1 DEF SimInv, Underway, OnItsWay
<1>8. Balance'
  BY <1>1, <1>4, <1>5 DEF SimInv, Balance, SentInSimulation
<1> QED BY <1>2, <1>4, <1>5, <1>6, <1>7, <1>8

\* The summary stays what it was.
LEMMA SameSummary ==
  ASSUME SummaryExact, stage # "loop", stage' # "loop", UNCHANGED <<m_stat, ejected>>
  PROVE  SummaryExact'
BY DEF SummaryExact, MaxDelay

\* Counting what has not been received preserves the invariant.
LEMMA DestroySimInv == SimInv /\ Destroy => SimInv'
<1> SUFFICES ASSUME SimInv, Destroy PROVE SimInv'
  OBVIOUS
<1>1. /\ Quiescent /\ stage = "gathered" /\ stage' = "destroyed" /\ time' = time
      /\ unrecv' = Queued + Attached /\ m_stat' = m_stat /\ ejected' = ejected
      /\ stat' = stat /\ turn' = turn
  BY DEF Destroy, Quiescent, vars
<1>2. /\ IInv' /\ CountTypes' /\ Created' /\ Underway' /\ NeverEarly' /\ Gone'
      /\ Sums' /\ Maxima' /\ Balance'
      /\ Queued' = Queued /\ Attached' = Attached
      /\ TotalOf("received_packet")' = TotalOf("received_packet")
  BY <1>1, QuiescentFacts
<1>3. Ranges'
  BY <1>1, <1>2 DEF SimInv, Ranges, CountTypes
<1>4. EjectionRate'
  BY <1>1 DEF SimInv, EjectionRate, Counted
<1>5. Final'
  <2>1. SummaryExact'
    BY <1>1, SameSummary DEF SimInv, Final
  <2> QED BY <1>1, <1>2, <2>1 DEF SimInv, Final
<1> QED BY <1>2, <1>3, <1>4, <1>5 DEF SimInv

\* The invariant only speaks of the variables.
LEMMA StutterSimInv == SimInv /\ UNCHANGED all_vars => SimInv'
<1> SUFFICES ASSUME SimInv, UNCHANGED all_vars PROVE SimInv'
  OBVIOUS
<1>1. /\ Quiescent /\ stage' = stage /\ time' = time /\ turn' = turn
      /\ unrecv' = unrecv /\ m_stat' = m_stat /\ ejected' = ejected /\ stat' = stat
  BY DEF all_vars, sim_vars, Quiescent, vars
<1>2. /\ IInv' /\ CountTypes' /\ Created' /\ Underway' /\ NeverEarly' /\ Gone'
      /\ Sums' /\ Maxima' /\ Balance'
      /\ Queued' = Queued /\ Attached' = Attached
      /\ TotalOf("received_packet")' = TotalOf("received_packet")
  BY <1>1, QuiescentFacts
<1>3. Ranges'
  BY <1>1, <1>2 DEF SimInv, Ranges, CountTypes
<1>4. EjectionRate'
  BY <1>1 DEF SimInv, EjectionRate, Counted
<1>5. Final'
  <2>1. stage # "loop" => SummaryExact'
    BY <1>1, SameSummary DEF SimInv, Final
  <2> QED BY <1>1, <1>2, <2>1 DEF SimInv, Final
<1> QED BY <1>2, <1>3, <1>4, <1>5 DEF SimInv

\* It holds at the start.
LEMMA InitSimInv == SimInit => SimInv
<1> SUFFICES ASSUME SimInit PROVE SimInv
  OBVIOUS
<1>1. /\ Init /\ stage = "loop" /\ time = 0 /\ stat = [n \in Node |-> NoStat]
      /\ warm_up_packet = 0 /\ ejected = {} /\ backlog = 0
      /\ cycle = 0 /\ turn = 0 /\ next_id = 0
      /\ queue = [n \in Node |-> <<>>] /\ packet = <<>> /\ flit = <<>>
  BY DEF SimInit, Init
<1>2. IInv
  BY <1>1, InitIInv
<1>3. NoStat \in StatType
  BY DEF NoStat, StatType
<1>4. Ranges
  <2>1. time \in 0..SimTime /\ time < SimTime
    BY <1>1, SimulationAssumption
  <2> QED BY <1>1, <1>3, <2>1, FS_EmptySet DEF Ranges
<1>5. Created /\ Underway /\ NeverEarly /\ Gone
  <2>1. \A m \in Node : Len(queue[m]) = 0
    BY <1>1
  <2>2. DOMAIN packet = {} /\ DOMAIN flit = {}
    BY <1>1
  <2> QED BY <1>1, <2>1, <2>2 DEF Created, Underway, NeverEarly, Gone
<1>6. IsFiniteSet(Node)
  BY FS_Interval, Numbers DEF Node
<1>7. ASSUME NEW k \in Counters PROVE TotalOf(k) = 0
  <2>1. /\ NoStat["received_flit"] = 0 /\ NoStat["flit_delay"] = 0
        /\ NoStat["received_packet"] = 0 /\ NoStat["packet_delay"] = 0
    BY DEF NoStat
  <2>2. NoStat[k] = 0
    BY <2>1 DEF Counters
  <2>3. PICK fun : fun = [m \in Node |-> stat[m][k]]
    OBVIOUS
  <2>4. \A m \in Node : fun[m] = 0
    BY <1>1, <2>2, <2>3
  <2>5. SumFunctionOnSet(fun, Node) = 0
    BY <1>6, <2>4, SumZero
  <2> QED BY <2>3, <2>5 DEF TotalOf
<1>8. /\ TotalOf("received_flit") = 0 /\ TotalOf("flit_delay") = 0
      /\ TotalOf("received_packet") = 0 /\ TotalOf("packet_delay") = 0
  BY <1>7 DEF Counters
<1>9. Sums
  <2>1. Delays({}) = 0 /\ LastOf({}) = {} /\ Cardinality({}) = 0
    BY FS_EmptySet, SumEmpty DEF Delays, LastOf
  <2> QED BY <1>1, <1>8, <2>1 DEF Sums
<1>10. Maxima /\ EjectionRate
  <2>1. \A m \in Node : /\ stat[m].max_flit_delay = 0 /\ stat[m].max_packet_delay = 0
                        /\ stat[m].received_flit = 0
    BY <1>1 DEF NoStat
  <2>2. \A m \in Node : Counted(m) = 0
    BY <1>1, SimulationAssumption, Numbers DEF Counted
  <2>3. EjPorts * 0 = 0
    BY NocAssumption
  <2> QED BY <1>1, <2>1, <2>2, <2>3 DEF Maxima, EjectionRate
<1>11. Balance
  <2>1. Queued = 0
    <3>1. PICK fun : fun = [m \in Node |-> Len(queue[m])]
      OBVIOUS
    <3>2. \A m \in Node : fun[m] = 0
      BY <1>1, <3>1
    <3>3. SumFunctionOnSet(fun, Node) = 0
      BY <1>6, <3>2, SumZero
    <3> QED BY <3>1, <3>3 DEF Queued, SumFunction
  <2>2. Attached = 0
    BY <1>1, FS_EmptySet DEF Attached
  <2> QED BY <1>1, <1>8, <2>1, <2>2, SimulationAssumption DEF Balance
<1>12. Final
  BY <1>1 DEF Final
<1> QED BY <1>2, <1>4, <1>5, <1>9, <1>10, <1>11, <1>12 DEF SimInv

-----------------------------------------------------------------------------
(* The theorems.                                                           *)

\* Every step of the simulation preserves the invariant.
LEMMA NextSimInv == SimInv /\ [SimNext]_all_vars => SimInv'
BY SimulateNodeSimInv, EndCycleSimInv, FinishSimInv, DestroySimInv, StutterSimInv
   DEF SimNext

\* The inductive invariant of the simulation holds in every state it reaches,
\* for every network, traffic, warm-up and length: it includes that of the
\* network itself.
THEOREM SimulationInvariance == SimSpec => []SimInv
BY InitSimInv, NextSimInv, PTL DEF SimSpec

\* The summary is that of the flits and packets ejected after the warm-up: the
\* counts, sums and maxima of all nodes, and the packet the longest delay is
\* attributed to (Noc::stat_gather, reset_stat, Node::update_flit_stat).
THEOREM SummaryIsExact == SimSpec => []SummaryExact
<1>1. SimInv => SummaryExact
  BY DEF SimInv, Final, SummaryExact
<1> QED BY <1>1, SimulationInvariance, PTL

\* The packets sent, received and not received that the program prints add up
\* with those under way at the end of the warm-up (the destructors, main).
THEOREM PhasesAreBalanced == SimSpec => []PhasesBalance
<1>1. SimInv => PhasesBalance
  <2> SUFFICES ASSUME SimInv, stage = "destroyed"
               PROVE  SentInSimulation + backlog = m_stat.received_packet + unrecv
    BY DEF PhasesBalance
  <2>1. /\ m_stat.received_packet = TotalOf("received_packet")
        /\ unrecv = Queued + Attached
    BY DEF SimInv, Final
  <2>2. ~(time <= SimWarmup)
    BY SimulationAssumption DEF SimInv, Ranges
  <2>3. SentInSimulation + backlog = TotalOf("received_packet") + Queued + Attached
    BY <2>2 DEF SimInv, Balance
  <2>4. Queued \in Int /\ Attached \in Nat /\ TotalOf("received_packet") \in Int
    BY QueuedType, AttachedType, TotalType DEF SimInv, Ranges, Counters
  <2> QED BY <2>1, <2>3, <2>4
<1> QED BY <1>1, SimulationInvariance, PTL

\* No node counts more flits than its ejection links can take in the cycles
\* since the reset (Node::ej_arbitrator, Noc::reset_stat).
THEOREM EjectionIsBounded == SimSpec => []EjectionRate
<1>1. SimInv => EjectionRate
  BY DEF SimInv
<1> QED BY <1>1, SimulationInvariance, PTL

\* No delay is shorter than the way of the flit along its ring and its place in
\* the packet (Node::run, Ring::update_curr_hop, calc_flit_latency).
THEOREM DelaysAreReal == SimSpec => []NeverEarly
<1>1. SimInv => NeverEarly
  BY DEF SimInv
<1> QED BY <1>1, SimulationInvariance, PTL
=============================================================================
