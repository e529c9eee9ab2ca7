------------------------------ MODULE NocSteps ------------------------------
(***************************************************************************)
(* What a run of a node does, in terms of sets of flits: the facts that    *)
(* all seven actions of Noc share, from which its invariants follow.       *)
(***************************************************************************)
EXTENDS Noc, NumberLemmas, SequenceTheorems

Elems(s) == {s[i] : i \in 1..Len(s)}
Distinct(s) == \A i, j \in 1..Len(s) : s[i] = s[j] => i = j

BoundFinite == \A n \in Node : IsFiniteSet(Bound(n))

\* The invariants of Noc are inductive only together: an ejected flit stays
\* out of the EXBs because flits leave in order, they leave in order because
\* the records are exact, and an injection goes on only while its packet lives
\* because its tail has not entered the network.
IInv ==
  /\ TypeOK /\ FreshIds /\ WireExclusive /\ BufferedOnce
  /\ ExbInUse /\ BoundFinite /\ OngoingConsistent /\ EjectedInOrder
  /\ InterruptWindow

-----------------------------------------------------------------------------
\* The constants are numbers, and None is no packet id.
LEMMA Numbers ==
  /\ N \in Nat \ {0} /\ MaxPackets \in Nat /\ MaxCycle \in Nat
  /\ ExbNum \in Nat /\ ExbSize \in Nat \ {0} /\ EnableInterrupt \in BOOLEAN
  /\ \A p \in PacketId : p \in Nat /\ p # None
  /\ \A n \in Node : n \in Nat /\ n < N
BY NocAssumption DEF PacketId, Node, None

-----------------------------------------------------------------------------
(* Sequences without duplicates, as the EXBs hold them.                    *)

\* Taking the front off a sequence of distinct elements removes it from its
\* elements.
LEMMA TailFacts ==
  ASSUME NEW S, NEW s \in Seq(S), s # <<>>, Distinct(s)
  PROVE  /\ Tail(s) \in Seq(S) /\ Len(Tail(s)) = Len(s) - 1
         /\ Head(s) \in Elems(s)
         /\ Distinct(Tail(s))
         /\ Elems(Tail(s)) = Elems(s) \ {Head(s)}
<1>1. /\ Tail(s) \in Seq(S) /\ Len(Tail(s)) = Len(s) - 1
      /\ Len(s) \in Nat /\ Len(s) >= 1 /\ Head(s) = s[1]
      /\ \A i \in 1..(Len(s) - 1) : Tail(s)[i] = s[i + 1]
  BY HeadTailProperties, EmptySeq
<1>2. Distinct(Tail(s))
  BY <1>1 DEF Distinct
<1>3. ASSUME NEW x \in Elems(Tail(s)) PROVE x \in Elems(s) \ {Head(s)}
  <2>1. PICK i \in 1..(Len(s) - 1) : x = s[i + 1]
    BY <1>1, <1>3 DEF Elems
  <2>2. i + 1 \in 1..Len(s) /\ i + 1 # 1 /\ 1 \in 1..Len(s)
    BY <1>1
  <2> QED BY <1>1, <2>1, <2>2 DEF Elems, Distinct
<1>4. ASSUME NEW x \in Elems(s) \ {Head(s)} PROVE x \in Elems(Tail(s))
  <2>1. PICK i \in 1..Len(s) : x = s[i] /\ i # 1
    BY <1>1 DEF Elems
  <2>2. i - 1 \in 1..(Len(s) - 1) /\ Tail(s)[i - 1] = x
    <3>1. i - 1 \in 1..(Len(s) - 1) /\ (i - 1) + 1 = i
      BY <1>1, <2>1
    <3> QED BY <1>1, <2>1, <3>1
  <2> QED BY <1>1, <2>2 DEF Elems
<1>5. Elems(Tail(s)) = Elems(s) \ {Head(s)}
  BY <1>3, <1>4
<1>6. Head(s) \in Elems(s)
  BY <1>1 DEF Elems
<1> QED
  BY <1>1, <1>2, <1>5, <1>6

\* Appending a new element keeps the elements distinct and adds it to them.
LEMMA AppendFacts ==
  ASSUME NEW S, NEW s \in Seq(S), NEW a \in S, Distinct(s), a \notin Elems(s)
  PROVE  /\ Append(s, a) \in Seq(S) /\ Len(Append(s, a)) = Len(s) + 1
         /\ Append(s, a) # <<>>
         /\ Distinct(Append(s, a))
         /\ Elems(Append(s, a)) = Elems(s) \cup {a}
<1> DEFINE t == Append(s, a)
<1>1. /\ t \in Seq(S) /\ Len(t) = Len(s) + 1 /\ Len(s) \in Nat
      /\ \A i \in 1..Len(s) : t[i] = s[i]
      /\ t[Len(s) + 1] = a
  BY AppendProperties
<1> HIDE DEF t
<1>2. \A i \in 1..Len(t) : i \in 1..Len(s) \/ i = Len(s) + 1
  BY <1>1
<1>3. Distinct(t)
  BY <1>1, <1>2 DEF Distinct, Elems
<1>4. Elems(t) = Elems(s) \cup {a}
  <2>1. Elems(t) \subseteq Elems(s) \cup {a}
    BY <1>1, <1>2 DEF Elems
  <2>2. Elems(s) \cup {a} \subseteq Elems(t)
    <3>1. \A i \in 1..Len(s) : i \in 1..Len(t)
      BY <1>1
    <3>2. Len(s) + 1 \in 1..Len(t)
      BY <1>1
    <3> QED BY <1>1, <3>1, <3>2 DEF Elems
  <2> QED BY <2>1, <2>2
<1>5. t # <<>>
  BY <1>1
<1> QED
  BY <1>1, <1>3, <1>4, <1>5 DEF t

-----------------------------------------------------------------------------
(* The EXBs as sets.                                                       *)
BufferedSets ==
  /\ \A n \in Node : \A r \in Bound(n) :
       /\ Distinct(exb[n][r])
       /\ \A f \in Elems(exb[n][r]) :
            /\ f \in DOMAIN flit
            /\ flit[f] = [status |-> "Buffered", node |-> n]
            /\ packet[f[1]].ring = r
  /\ \A f \in DOMAIN flit :
       flit[f].status = "Buffered" =>
         /\ packet[f[1]].ring \in Bound(flit[f].node)
         /\ f \in Elems(exb[flit[f].node][packet[f[1]].ring])

\* BufferedOnce says of positions what BufferedSets says of elements.
LEMMA BufferedAsSets == BufferedOnce <=> BufferedSets
<1>1. BufferedOnce => BufferedSets
  BY SMTT(30) DEF BufferedOnce, BufferedSets, Distinct, Elems
<1>2. BufferedSets => BufferedOnce
  BY SMTT(30) DEF BufferedOnce, BufferedSets, Distinct, Elems
<1> QED
  BY <1>1, <1>2

-----------------------------------------------------------------------------
(* The flits that arrive.                                                  *)

\* The flit a ring brings is on the wire here and belongs to that ring.
LEMMA ArrivalFacts ==
  ASSUME NEW n \in Node, NEW r, OnWire(n, r) # {}
  PROVE  /\ Arrival(n, r) \in OnWire(n, r)
         /\ Arrival(n, r) \in DOMAIN flit
         /\ flit[Arrival(n, r)] = [status |-> "Routing", node |-> n]
         /\ packet[Arrival(n, r)[1]].ring = r
<1>1. Arrival(n, r) \in OnWire(n, r)
  BY DEF Arrival
<1> QED
  BY <1>1 DEF OnWire

\* Flits, packets and their sequence numbers.
LEMMA FlitFacts ==
  ASSUME TypeOK, NEW f \in DOMAIN flit
  PROVE  /\ f = <<f[1], f[2]>>
         /\ f[1] \in DOMAIN packet /\ f[1] \in PacketId
         /\ packet[f[1]] \in Packet
         /\ packet[f[1]].length \in Nat \ {0}
         /\ LastSeq(f[1]) = packet[f[1]].length - 1 /\ LastSeq(f[1]) \in Nat
         /\ f[2] \in 0..LastSeq(f[1])
         /\ f \in FlitId
         /\ \A i \in 0..LastSeq(f[1]) : <<f[1], i>> \in DOMAIN flit
         /\ flit[f].status \in Status /\ flit[f].node \in Node
         /\ flit[f] = [status |-> flit[f].status, node |-> flit[f].node]
<1>1. PICK p \in DOMAIN packet : f \in FlitIds(p, packet[p].length)
  BY DEF TypeOK, LiveFlits
<1>2. f = <<p, f[2]>> /\ f[1] = p /\ f[2] \in 0..(packet[p].length - 1)
  BY <1>1 DEF FlitIds
<1>3. packet[p] \in Packet /\ p \in PacketId
  BY DEF TypeOK
<1>4. packet[p].length \in Nat \ {0}
  BY <1>3 DEF Packet
<1>5. \A i \in 0..(packet[p].length - 1) : <<p, i>> \in DOMAIN flit
  BY DEF TypeOK, LiveFlits, FlitIds
<1>6. flit[f] \in [status : Status, node : Node]
  BY DEF TypeOK
<1> QED
  BY <1>2, <1>3, <1>4, <1>5, <1>6 DEF LastSeq, FlitId

\* The flits of an attached packet are in memory.
LEMMA PacketFlits ==
  ASSUME TypeOK, NEW p \in DOMAIN packet
  PROVE  /\ \A f \in FlitIds(p, packet[p].length) : f \in DOMAIN flit
         /\ \A f \in DOMAIN flit : f[1] = p => f \in FlitIds(p, packet[p].length)
         /\ packet[p].length \in Nat \ {0} /\ LastSeq(p) \in Nat
         /\ <<p, LastSeq(p)>> \in DOMAIN flit /\ <<p, 0>> \in DOMAIN flit
<1>1. packet[p] \in Packet
  BY DEF TypeOK
<1>2. packet[p].length \in Nat \ {0}
  BY <1>1 DEF Packet
<1>3. \A f \in FlitIds(p, packet[p].length) : f \in DOMAIN flit
  BY DEF TypeOK, LiveFlits
<1>4. \A f \in DOMAIN flit : f[1] = p => f \in FlitIds(p, packet[p].length)
  BY DEF TypeOK, LiveFlits, FlitIds
<1> QED
  BY <1>2, <1>3, <1>4 DEF FlitIds, LastSeq

-----------------------------------------------------------------------------
(* The facts about a step.  E: the rings whose arrival is ejected; onto and *)
(* off: the flits put on the wire and taken off it; new: the packet the     *)
(* node starts, if any.                                                     *)
EjectFacts(n, E) ==
  /\ \A f \in Ejected(n, E) :
       /\ f \in DOMAIN flit
       /\ flit[f].status = "Routing" /\ flit[f].node = n
       /\ packet[f[1]].dst = n
       /\ f[2] # 0 => f \in record[n]
       /\ f[2] = LastSeq(f[1]) => f[1] \in Finished(n, E)
  /\ \A f, g \in Ejected(n, E) : f[1] = g[1] => f = g
  /\ \A p \in Finished(n, E) :
       /\ p \in DOMAIN packet
       /\ packet[p].dst = n
       /\ <<p, LastSeq(p)>> \in Ejected(n, E)
       /\ \A f \in DOMAIN flit :
            f[1] = p => f \in Ejected(n, E) \/ flit[f].status = "Ejected"

\* The first flit of the ongoing packet that has not entered the network.
IsNext(n, f) ==
  /\ f \in DOMAIN flit
  /\ ongoing[n] = f[1]
  /\ flit[f].status = "Injecting"
  /\ \A i \in 0..(f[2] - 1) : flit[<<f[1], i>>].status # "Injecting"

PacketStep(n, E, new) ==
  /\ new \subseteq PacketId
  /\ new \cap DOMAIN packet = {}
  /\ packet' \in [DOMAIN packet' -> Packet]
  /\ DOMAIN packet' = (DOMAIN packet \ Finished(n, E)) \cup new
  /\ \A p \in DOMAIN packet \ Finished(n, E) : packet'[p] = packet[p]
  /\ \A p \in new : /\ packet'[p].src = n
                    /\ {n, packet'[p].dst} \subseteq NodesOn[packet'[p].ring]
                    /\ \A q \in new : p = q

WireStep(n, E, onto, off, new) ==
  /\ \A f \in off : /\ f \in DOMAIN flit /\ f \notin Ejected(n, E)
                    /\ flit[f].status = "Routing" /\ flit[f].node = n
  /\ \A f \in onto : \/ /\ f \in DOMAIN flit
                        /\ flit[f].status = "Buffered" /\ flit[f].node = n
                     \/ IsNext(n, f)
                     \/ f[1] \in new /\ f = <<f[1], 0>>
  /\ \A p \in new : <<p, 0>> \in onto
  /\ \A f, g \in onto : packet'[f[1]].ring = packet'[g[1]].ring => f = g
  /\ \A f \in onto : \A g \in OnWire(n, packet'[f[1]].ring) :
       g \in Ejected(n, E) \cup off

FlitStep(n, E, onto, off) ==
  flit' = [f \in LiveFlits' |->
             [status |-> StatusAfter(n, f, E, onto, off),
              node |-> NodeAfter(n, f)]]

BufferStep(n, onto, off) ==
  /\ exb' = [exb EXCEPT ![n] = exb'[n]]
  /\ Bound(n)' \subseteq Ring
  /\ \A r \in Bound(n)' :
       /\ exb'[n][r] \in Seq(FlitId)
       /\ Distinct(exb'[n][r])
       /\ \A f : f \in Elems(exb'[n][r]) <=>
                   \/ r \in Bound(n) /\ f \in Elems(exb[n][r]) /\ f \notin onto
                   \/ f \in off /\ packet[f[1]].ring = r
  /\ exb'[n] \in [Bound(n)' -> Seq(FlitId)]
  /\ \A f \in off : packet[f[1]].ring \in Bound(n)'
  /\ \A r \in Bound(n) : \A f \in Elems(exb[n][r]) :
       f \notin onto => r \in Bound(n)'

PoolStep(n) ==
  /\ IsFiniteSet(Bound(n)') /\ Cardinality(Bound(n)') <= ExbNum
  /\ \A r \in Bound(n)' :
       /\ Len(exb'[n][r]) <= ExbSize
       /\ exb'[n][r] # <<>> \/ (ongoing'[n] # None /\ OngoingRing(n)' = r)

InjectionStep(n, onto, new) ==
  /\ ongoing' = [ongoing EXCEPT ![n] = ongoing'[n]]
  /\ \/ /\ ongoing'[n] = ongoing[n] /\ new = {}
        /\ \A f \in onto : ~IsNext(n, f)
     \/ \E f \in onto : /\ IsNext(n, f) /\ new = {}
                        /\ ongoing'[n] = IF f[2] = LastSeq(f[1]) THEN None
                                         ELSE ongoing[n]
     \/ \E p \in new : /\ ongoing[n] = None
                       /\ ongoing'[n] = IF packet'[p].length = 1 THEN None
                                        ELSE p
  /\ ongoing'[n] # None => OngoingRing(n)' \in Bound(n)'

QueueStep(n, new) ==
  /\ queue' = [queue EXCEPT ![n] = queue'[n]]
  /\ queue'[n] \in Seq(PacketInfo)
  /\ next_id' \in {next_id, next_id + 1} /\ next_id' <= MaxPackets
  /\ \A p \in new : p < next_id'
  /\ \A i \in 1..Len(queue'[n]) :
       /\ queue'[n][i].id \notin new
       /\ \/ queue'[n][i].id = next_id /\ next_id' = next_id + 1
          \/ \E j \in 1..Len(queue[n]) : queue'[n][i].id = queue[n][j].id
       /\ \A j \in 1..Len(queue'[n]) : queue'[n][i].id = queue'[n][j].id => i = j
  /\ \A p \in new : \/ p = next_id
                    \/ \E j \in 1..Len(queue[n]) : p = queue[n][j].id

WindowStep(n) ==
  /\ interrupt' = [interrupt EXCEPT ![n] = interrupt'[n]]
  /\ interrupt'[n] \in BOOLEAN
  /\ forward_length' = [forward_length EXCEPT ![n] = forward_length'[n]]
  /\ forward_length'[n] \in Int
  /\ EnableInterrupt =>
       /\ interrupt'[n] => ongoing'[n] # None
       /\ forward_length'[n] # 0 =>
            /\ interrupt'[n]
            /\ forward_length'[n] \in 1..Len(OngoingExb(n)')
            /\ \A i \in 1..forward_length'[n] :
                 OngoingExb(n)'[i][1] = OngoingExb(n)'[1][1]

RecordStep(n, E) ==
  /\ record' = [record EXCEPT ![n] = RecordAfter(n, E)]
  /\ received' = [received EXCEPT ![n] = @ + Cardinality(Finished(n, E))]
  /\ received_flit' = [received_flit EXCEPT ![n] = @ + Cardinality(Ejected(n, E))]
  /\ turn' = turn + 1
  /\ UNCHANGED cycle

NodeStep(n, E, onto, off, new) ==
  /\ EjectFacts(n, E)
  /\ PacketStep(n, E, new)
  /\ WireStep(n, E, onto, off, new)
  /\ FlitStep(n, E, onto, off)
  /\ BufferStep(n, onto, off)
  /\ PoolStep(n)
  /\ InjectionStep(n, onto, new)
  /\ QueueStep(n, new)
  /\ WindowStep(n)
  /\ RecordStep(n, E)

-----------------------------------------------------------------------------
(* The injection going on at a node.                                       *)

\* The packet a node injects lives on: its tail is still at the source.
LEMMA OngoingLives ==
  ASSUME IInv, NEW n \in Node, NEW E, EjectFacts(n, E),
         NEW m \in Node, ongoing[m] # None
  PROVE  /\ ongoing[m] \in DOMAIN packet
         /\ ongoing[m] \notin Finished(n, E)
         /\ packet[ongoing[m]].src = m
<1>1. TypeOK /\ OngoingConsistent
  BY DEF IInv
<1>2. ongoing[m] \in DOMAIN packet
  BY <1>1 DEF TypeOK
<1>3. /\ packet[ongoing[m]].src = m
      /\ flit[<<ongoing[m], LastSeq(ongoing[m])>>].status = "Injecting"
  BY <1>1 DEF OngoingConsistent
<1>4. <<ongoing[m], LastSeq(ongoing[m])>> \in DOMAIN flit
  BY <1>1, <1>2, PacketFlits
<1>5. ongoing[m] \notin Finished(n, E)
  BY <1>3, <1>4 DEF EjectFacts
<1> QED
  BY <1>2, <1>3, <1>5

\* A flit starts from the wire or the injection module of its own node, so a
\* node touches no flit of another one.
LEMMA NextIsAtHome ==
  ASSUME IInv, NEW n \in Node, NEW f, IsNext(n, f)
  PROVE  /\ f \in DOMAIN flit /\ flit[f].status = "Injecting"
         /\ f[1] = ongoing[n] /\ ongoing[n] # None
         /\ packet[f[1]].src = n /\ flit[f].node = n
<1>1. TypeOK /\ OngoingConsistent
  BY DEF IInv
<1>2. f \in DOMAIN flit /\ ongoing[n] = f[1] /\ flit[f].status = "Injecting"
  BY DEF IsNext
<1>3. ongoing[n] # None
  BY <1>1, <1>2, FlitFacts, Numbers
<1>4. packet[f[1]].src = n
  BY <1>1, <1>2, <1>3 DEF OngoingConsistent
<1>5. flit[f].node = packet[f[1]].src
  BY <1>1, <1>2 DEF OngoingConsistent
<1> QED
  BY <1>2, <1>3, <1>4, <1>5

-----------------------------------------------------------------------------
(***************************************************************************)
(* Each of the seven actions of a node makes a step of the shape NodeStep. *)
(***************************************************************************)

-----------------------------------------------------------------------------
(* Ejection.                                                               *)

\* Two flits are never on the wire of a ring at the same node.
LEMMA OneArrival ==
  ASSUME IInv, NEW n \in Node, NEW r, NEW f \in OnWire(n, r)
  PROVE  f = Arrival(n, r)
<1>1. OnWire(n, r) # {}
  OBVIOUS
<1>2. /\ Arrival(n, r) \in DOMAIN flit
      /\ flit[Arrival(n, r)] = [status |-> "Routing", node |-> n]
      /\ packet[Arrival(n, r)[1]].ring = r
  BY <1>1, ArrivalFacts
<1>3. /\ f \in DOMAIN flit /\ packet[f[1]].ring = r
      /\ flit[f] = [status |-> "Routing", node |-> n]
  BY DEF OnWire
<1>4. WireExclusive
  BY DEF IInv
<1> QED
  BY <1>2, <1>3, <1>4 DEF WireExclusive

\* Whatever the arbitrator chooses, the flits it ejects are at their
\* destination and expected there, they belong to different packets, and a
\* packet it ends has nothing left in the network.
LEMMA EjectChoiceFacts ==
  ASSUME IInv, NEW n \in Node, NEW E \in EjectChoices(n)
  PROVE  /\ EjectFacts(n, E)
         /\ \A r \in E : OnWire(n, r) # {}
<1>1. TypeOK /\ WireExclusive /\ EjectedInOrder
  BY DEF IInv
<1>2. \A r \in E : OnWire(n, r) # {} /\ Ejectable(n, r)
  BY DEF EjectChoices, EjectSets, Candidates, RingsWithFlit
<1>3. ASSUME NEW f \in Ejected(n, E)
      PROVE  /\ f \in DOMAIN flit
             /\ flit[f] = [status |-> "Routing", node |-> n]
             /\ packet[f[1]].dst = n
             /\ f[2] # 0 => f \in record[n]
  <2>1. PICK r \in E : f = Arrival(n, r)
    BY DEF Ejected
  <2> QED BY <1>2, <2>1, ArrivalFacts DEF Ejectable
<1>4. ASSUME NEW f \in Ejected(n, E), NEW g \in Ejected(n, E), f[1] = g[1]
      PROVE  f = g
  BY <1>1, <1>3, <1>4 DEF WireExclusive
<1>5. ASSUME NEW p \in Finished(n, E)
      PROVE  /\ p \in DOMAIN packet
             /\ packet[p].dst = n
             /\ <<p, LastSeq(p)>> \in Ejected(n, E)
             /\ \A f \in DOMAIN flit :
                  f[1] = p => f \in Ejected(n, E) \/ flit[f].status = "Ejected"
  <2>1. PICK g \in Ejected(n, E) : p = g[1] /\ g[2] = LastSeq(g[1])
    BY DEF Finished
  <2>2. /\ g \in DOMAIN flit /\ packet[p].dst = n
        /\ g[2] # 0 => g \in record[n]
    BY <1>3, <2>1
  <2>3. /\ g = <<p, LastSeq(p)>> /\ p \in DOMAIN packet /\ LastSeq(p) \in Nat
        /\ \A i \in 0..LastSeq(p) : <<p, i>> \in DOMAIN flit
    BY <1>1, <2>1, <2>2, FlitFacts
  <2>4. ASSUME NEW f \in DOMAIN flit, f[1] = p
        PROVE  f \in Ejected(n, E) \/ flit[f].status = "Ejected"
    <3>1. f = <<p, f[2]>> /\ f[2] \in 0..LastSeq(p)
      BY <1>1, <2>4, FlitFacts
    <3>2. CASE f[2] = LastSeq(p)
      BY <2>1, <2>3, <3>1, <3>2
    <3>3. CASE f[2] # LastSeq(p)
      <4>1. g[2] # 0 /\ f[2] \in 0..(g[2] - 1) /\ g[2] - 1 \in 0..LastSeq(p)
        BY <2>1, <2>3, <3>1, <3>3
      <4>2. flit[<<g[1], g[2] - 1>>].status = "Ejected"
        BY <1>1, <2>2, <4>1 DEF EjectedInOrder
      <4>3. <<p, g[2] - 1>> \in DOMAIN flit
        BY <2>3, <4>1
      <4>4. \A i \in 0..(g[2] - 1) : flit[<<p, i>>].status = "Ejected"
        BY <1>1, <2>1, <4>2, <4>3 DEF EjectedInOrder
      <4> QED BY <3>1, <4>1, <4>4
    <3> QED BY <3>2, <3>3
  <2> QED BY <2>1, <2>2, <2>3, <2>4
<1>6. \A f \in Ejected(n, E) : f[2] = LastSeq(f[1]) => f[1] \in Finished(n, E)
  BY DEF Finished
<1> QED
  BY <1>2, <1>3, <1>4, <1>5, <1>6 DEF EjectFacts

\* A ring whose slot is not free brings a flit that stays in the network.
LEMMA TakenSlot ==
  ASSUME IInv, NEW n \in Node, NEW E \in EjectChoices(n), NEW r,
         ~SlotFree(n, r, E)
  PROVE  /\ Arrival(n, r) \in DOMAIN flit
         /\ flit[Arrival(n, r)].status = "Routing"
         /\ flit[Arrival(n, r)].node = n
         /\ packet[Arrival(n, r)[1]].ring = r
         /\ Arrival(n, r) \notin Ejected(n, E)
         /\ Arrival(n, r) \in FlitId
<1>1. r \notin E /\ OnWire(n, r) # {}
  BY DEF SlotFree
<1>2. /\ Arrival(n, r) \in DOMAIN flit
      /\ flit[Arrival(n, r)] = [status |-> "Routing", node |-> n]
      /\ packet[Arrival(n, r)[1]].ring = r
  BY <1>1, ArrivalFacts
<1>3. \A q \in E : packet[Arrival(n, q)[1]].ring = q
  <2>1. \A q \in E : OnWire(n, q) # {}
    BY EjectChoiceFacts
  <2> QED BY <2>1, ArrivalFacts
<1>4. Arrival(n, r) \notin Ejected(n, E)
  BY <1>1, <1>2, <1>3 DEF Ejected
<1> QED
  BY <1>2, <1>4, FlitFacts DEF IInv

\* Whatever is on the wire of a free slot is ejected.
LEMMA FreeSlot ==
  ASSUME IInv, NEW n \in Node, NEW E, NEW r, SlotFree(n, r, E),
         NEW g \in OnWire(n, r)
  PROVE  g \in Ejected(n, E)
BY OneArrival DEF SlotFree, Ejected

-----------------------------------------------------------------------------
(* The packets and flits in memory.                                        *)

\* Without an injection only the packets that end disappear.
LEMMA DetachStep ==
  ASSUME IInv, NEW n \in Node, NEW E \in EjectChoices(n), Detach(n, E)
  PROVE  PacketStep(n, E, {})
BY DEF Detach, PacketStep, IInv, TypeOK

\* The flits Settle keeps and creates are those of the attached packets.
LEMMA SettledFlits ==
  ASSUME IInv, NEW n \in Node, NEW E \in EjectChoices(n), NEW onto, NEW off,
         NEW created, NEW new,
         PacketStep(n, E, new), Settle(n, E, onto, off, created),
         \A f : f \in created <=>
           \E p \in new : f \in FlitIds(p, packet'[p].length)
  PROVE  FlitStep(n, E, onto, off) /\ RecordStep(n, E)
<1>1. TypeOK /\ EjectFacts(n, E)
  BY EjectChoiceFacts DEF IInv
<1>2. \A f : f \in DOMAIN flit <=>
               /\ f[1] \in DOMAIN packet
               /\ f \in FlitIds(f[1], packet[f[1]].length)
  BY <1>1 DEF TypeOK, LiveFlits, FlitIds
<1>3. \A f : f \in LiveFlits' <=>
               /\ f[1] \in DOMAIN packet'
               /\ f \in FlitIds(f[1], packet'[f[1]].length)
  <2>1. \A f : f \in LiveFlits' <=>
            \E p \in DOMAIN packet' : f \in FlitIds(p, packet'[p].length)
    BY DEF LiveFlits, FlitIds
  <2>2. \A f, p : f \in FlitIds(p, packet'[p].length) => f[1] = p
    BY DEF FlitIds
  <2> QED BY <2>1, <2>2
<1>4. \A f : f \in created <=>
               f[1] \in new /\ f \in FlitIds(f[1], packet'[f[1]].length)
  BY DEF FlitIds
<1>5. \A p \in new : p \notin Finished(n, E)
  BY <1>1 DEF EjectFacts, PacketStep
<1>6. {g \in DOMAIN flit \cup created : g[1] \notin Finished(n, E)} = LiveFlits'
  BY <1>2, <1>3, <1>4, <1>5 DEF PacketStep
<1> QED
  BY <1>6 DEF Settle, FlitStep, RecordStep

-----------------------------------------------------------------------------
(* The rings of a node.  h is the ring inject_eject has handled, None if   *)
(* there is none; hon and hoff are the flits put on its wire and taken off  *)
(* it, new is the packet that starts.                                      *)
OwnExb(n) ==
  /\ exb' = [exb EXCEPT ![n] = exb'[n]]
  /\ exb'[n] = [r \in Bound(n)' |-> exb'[n][r]]
HandledRing(n, E, h, hon, hoff, new) ==
  /\ h \in Ring \cup {None}
  /\ \A r \in RestBound(n, h) : exb[n][r] # <<>>
  /\ OwnExb(n)
  /\ Bound(n)' \ {h} = RestKept(n, h, E)
  /\ \A r \in RestKept(n, h, E) : exb'[n][r] = RestBuffer(n, r, E)
  /\ h \in Bound(n)' =>
       /\ h \in Ring
       /\ h \in Bound(n) \/ ExbAvailable(n)
       /\ exb'[n][h] \in Seq(FlitId) /\ Len(exb'[n][h]) <= ExbSize
       /\ Distinct(exb'[n][h])
       /\ \A f : f \in Elems(exb'[n][h]) <=>
                   \/ h \in Bound(n) /\ f \in Elems(exb[n][h]) /\ f \notin hon
                   \/ f \in hoff
       /\ exb'[n][h] # <<>> \/ (ongoing'[n] # None /\ OngoingRing(n)' = h)
  /\ h \in Bound(n) =>
       \A f \in Elems(exb[n][h]) : f \notin hon => h \in Bound(n)'
  /\ \A f \in hon :
       /\ packet'[f[1]].ring = h
       /\ f \in DOMAIN flit => packet[f[1]].ring = h
       /\ \/ f \in DOMAIN flit /\ flit[f].status = "Buffered" /\ flit[f].node = n
          \/ IsNext(n, f)
          \/ f[1] \in new /\ f = <<f[1], 0>>
       /\ \A g \in hon : f = g
       /\ SlotFree(n, h, E) \/ Arrival(n, h) \in hoff
  /\ \A p \in new : <<p, 0>> \in hon
  /\ \A f \in hoff : /\ f = Arrival(n, h) /\ ~SlotFree(n, h, E)
                     /\ h \in Bound(n)'

\* An EXB of another ring lets its front out and takes in the flit that comes.
LEMMA RestRing ==
  ASSUME IInv, NEW n \in Node, NEW E \in EjectChoices(n), NEW h,
         NEW r \in RestBound(n, h), exb[n][r] # <<>>
  PROVE  /\ r \in Ring /\ r \in Bound(n) /\ r # h
         /\ Head(exb[n][r]) \in Elems(exb[n][r])
         /\ RestBuffer(n, r, E) \in Seq(FlitId)
         /\ Len(RestBuffer(n, r, E)) <= ExbSize
         /\ Distinct(RestBuffer(n, r, E))
         /\ \A f : f \in Elems(RestBuffer(n, r, E)) <=>
                     \/ f \in Elems(exb[n][r]) /\ f # Head(exb[n][r])
                     \/ f = Arrival(n, r) /\ ~SlotFree(n, r, E)
         /\ r \notin RestKept(n, h, E) =>
              /\ SlotFree(n, r, E)
              /\ \A f \in Elems(exb[n][r]) : f = Head(exb[n][r])
<1> DEFINE b == exb[n][r]
           a == Arrival(n, r)
<1>1. TypeOK /\ BufferedSets /\ ExbInUse
  BY BufferedAsSets DEF IInv
<1>2. r \in Bound(n) /\ r # h /\ r \in Ring
  BY <1>1 DEF RestBound, TypeOK
<1>3. /\ b \in Seq(FlitId) /\ Distinct(b) /\ Len(b) <= ExbSize /\ Len(b) \in Nat
      /\ \A f \in Elems(b) : f \in DOMAIN flit /\ flit[f].status = "Buffered"
  <2>1. b \in Seq(FlitId)
    BY <1>1, <1>2 DEF TypeOK
  <2>2. Distinct(b) /\ Len(b) <= ExbSize
    BY <1>1, <1>2 DEF BufferedSets, ExbInUse
  <2>3. ASSUME NEW f \in Elems(b)
        PROVE  f \in DOMAIN flit /\ flit[f] = [status |-> "Buffered", node |-> n]
    BY <1>1, <1>2, <2>3 DEF BufferedSets
  <2> QED BY <2>1, <2>2, <2>3
<1>4. /\ Tail(b) \in Seq(FlitId) /\ Len(Tail(b)) = Len(b) - 1
      /\ Head(b) \in Elems(b) /\ Distinct(Tail(b))
      /\ Elems(Tail(b)) = Elems(b) \ {Head(b)}
  BY <1>3, TailFacts
<1>5. CASE SlotFree(n, r, E)
  <2>1. RestBuffer(n, r, E) = Tail(b)
    BY <1>5 DEF RestBuffer
  <2>2. Tail(b) = <<>> => Elems(Tail(b)) = {}
    BY DEF Elems
  <2>3. Len(Tail(b)) <= ExbSize
    BY <1>3, <1>4, Numbers
  <2> QED BY <1>2, <1>4, <1>5, <2>1, <2>2, <2>3 DEF RestKept
<1>6. CASE ~SlotFree(n, r, E)
  <2>1. RestBuffer(n, r, E) = Append(Tail(b), a)
    BY <1>6 DEF RestBuffer
  <2>2. a \in FlitId /\ flit[a].status = "Routing"
    BY <1>6, TakenSlot
  <2>3. a \notin Elems(Tail(b))
    BY <1>3, <1>4, <2>2
  <2>4. /\ Append(Tail(b), a) \in Seq(FlitId)
        /\ Len(Append(Tail(b), a)) = Len(Tail(b)) + 1
        /\ Append(Tail(b), a) # <<>>
        /\ Distinct(Append(Tail(b), a))
        /\ Elems(Append(Tail(b), a)) = Elems(Tail(b)) \cup {a}
    <3>1. PICK t \in Seq(FlitId) : t = Tail(b)
      BY <1>4
    <3>2. PICK x \in FlitId : x = a
      BY <2>2
    <3>3. Distinct(t) /\ x \notin Elems(t)
      BY <1>4, <2>3, <3>1, <3>2
    <3>4. /\ Append(t, x) \in Seq(FlitId) /\ Len(Append(t, x)) = Len(t) + 1
          /\ Append(t, x) # <<>>
          /\ Distinct(Append(t, x))
          /\ Elems(Append(t, x)) = Elems(t) \cup {x}
      BY <3>3, AppendFacts
    <3> QED BY <3>1, <3>2, <3>4
  <2>5. Len(Append(Tail(b), a)) <= ExbSize
    BY <1>3, <1>4, <2>4, Numbers
  <2>6. r \in RestKept(n, h, E)
    BY <2>1, <2>4 DEF RestKept
  <2> QED BY <1>2, <1>4, <1>6, <2>1, <2>4, <2>5, <2>6
<1> QED
  BY <1>5, <1>6

\* A buffered flit is of the ring of its EXB, and its packet stays.
LEMMA BufferedFlit ==
  ASSUME IInv, NEW n \in Node, NEW E \in EjectChoices(n), NEW new,
         PacketStep(n, E, new),
         NEW r \in Bound(n), NEW f \in Elems(exb[n][r])
  PROVE  /\ f \in DOMAIN flit /\ flit[f].status = "Buffered" /\ flit[f].node = n
         /\ packet[f[1]].ring = r /\ packet'[f[1]].ring = r
         /\ f \notin Ejected(n, E) /\ ~IsNext(n, f)
<1>1. TypeOK /\ BufferedSets /\ EjectFacts(n, E)
  BY BufferedAsSets, EjectChoiceFacts DEF IInv
<1>2. /\ f \in DOMAIN flit /\ flit[f] = [status |-> "Buffered", node |-> n]
      /\ packet[f[1]].ring = r
  BY <1>1 DEF BufferedSets
<1>3. f \notin Ejected(n, E) /\ ~IsNext(n, f)
  BY <1>1, <1>2 DEF EjectFacts, IsNext
<1>4. f[1] \notin Finished(n, E) /\ f[1] \in DOMAIN packet
  <2>1. f[1] \in DOMAIN packet /\ flit[f].status # "Ejected"
    BY <1>1, <1>2, FlitFacts
  <2> QED BY <1>1, <1>2, <1>3, <2>1 DEF EjectFacts
<1>5. packet'[f[1]] = packet[f[1]]
  BY <1>4 DEF PacketStep
<1> QED
  BY <1>2, <1>3, <1>5

\* What the rings of a node do together is a step as NodeStep describes it:
\* every flit put on a wire finds its slot free or vacated in this very cycle.
LEMMA RingSteps ==
  ASSUME IInv, NEW n \in Node, NEW E \in EjectChoices(n),
         NEW h, NEW hon, NEW hoff, NEW new,
         PacketStep(n, E, new), HandledRing(n, E, h, hon, hoff, new),
         NEW onto, onto = RestPopped(n, h) \cup hon,
         NEW off, off = RestPushed(n, h, E) \cup hoff
  PROVE  WireStep(n, E, onto, off, new) /\ BufferStep(n, onto, off) /\ PoolStep(n)
<1>1. /\ TypeOK /\ BufferedSets /\ ExbInUse /\ BoundFinite
      /\ EjectFacts(n, E)
  BY BufferedAsSets, EjectChoiceFacts DEF IInv
<1>2. /\ Bound(n)' \ {h} = RestKept(n, h, E)
      /\ \A r \in RestKept(n, h, E) : exb'[n][r] = RestBuffer(n, r, E)
      /\ RestKept(n, h, E) \subseteq RestBound(n, h)
      /\ RestBound(n, h) = Bound(n) \ {h}
  BY DEF HandledRing, RestKept, RestBound
<1>3. ASSUME NEW r \in RestBound(n, h)
      PROVE  /\ r \in Ring /\ r \in Bound(n) /\ r # h
             /\ Head(exb[n][r]) \in Elems(exb[n][r])
             /\ RestBuffer(n, r, E) \in Seq(FlitId)
             /\ Len(RestBuffer(n, r, E)) <= ExbSize
             /\ Distinct(RestBuffer(n, r, E))
             /\ \A f : f \in Elems(RestBuffer(n, r, E)) <=>
                         \/ f \in Elems(exb[n][r]) /\ f # Head(exb[n][r])
                         \/ f = Arrival(n, r) /\ ~SlotFree(n, r, E)
             /\ r \notin RestKept(n, h, E) =>
                  /\ SlotFree(n, r, E)
                  /\ \A f \in Elems(exb[n][r]) : f = Head(exb[n][r])
  <2>1. exb[n][r] # <<>>
    BY DEF HandledRing
  <2> QED BY <2>1, RestRing
<1>4. ASSUME NEW r \in Bound(n), NEW f \in Elems(exb[n][r])
      PROVE  /\ f \in DOMAIN flit /\ flit[f].status = "Buffered"
             /\ flit[f].node = n
             /\ packet[f[1]].ring = r /\ packet'[f[1]].ring = r
             /\ f \notin Ejected(n, E)
  BY <1>4, BufferedFlit
<1>5. ASSUME NEW r, ~SlotFree(n, r, E)
      PROVE  /\ Arrival(n, r) \in DOMAIN flit
             /\ flit[Arrival(n, r)].status = "Routing"
             /\ flit[Arrival(n, r)].node = n
             /\ packet[Arrival(n, r)[1]].ring = r
             /\ Arrival(n, r) \notin Ejected(n, E)
  BY <1>5, TakenSlot
<1>6. \A f \in off : \/ f \in hoff
                     \/ \E r \in RestBound(n, h) : /\ ~SlotFree(n, r, E)
                                                   /\ f = Arrival(n, r)
  BY DEF RestPushed
<1>7. \A f \in onto : \/ f \in hon
                      \/ \E r \in RestBound(n, h) : f = Head(exb[n][r])
  BY DEF RestPopped
<1>8. \A r \in RestBound(n, h) : /\ Head(exb[n][r]) \in onto
                                 /\ ~SlotFree(n, r, E) => Arrival(n, r) \in off
  BY DEF RestPopped, RestPushed
<1>9. \A f \in hoff : f = Arrival(n, h) /\ ~SlotFree(n, h, E) /\ h \in Bound(n)'
  BY DEF HandledRing
<1>10. \A f \in hon :
         /\ packet'[f[1]].ring = h
         /\ f \in DOMAIN flit => packet[f[1]].ring = h
         /\ \/ f \in DOMAIN flit /\ flit[f].status = "Buffered" /\ flit[f].node = n
            \/ IsNext(n, f)
            \/ f[1] \in new /\ f = <<f[1], 0>>
         /\ \A g \in hon : f = g
         /\ SlotFree(n, h, E) \/ Arrival(n, h) \in hoff
  BY DEF HandledRing
<1>11. WireStep(n, E, onto, off, new)
  <2>1. ASSUME NEW f \in off
        PROVE  /\ f \in DOMAIN flit /\ f \notin Ejected(n, E)
               /\ flit[f].status = "Routing" /\ flit[f].node = n
    BY <1>5, <1>6, <1>9
  <2>2. ASSUME NEW f \in onto
        PROVE  \/ /\ f \in DOMAIN flit
                  /\ flit[f].status = "Buffered" /\ flit[f].node = n
               \/ IsNext(n, f)
               \/ f[1] \in new /\ f = <<f[1], 0>>
    BY <1>3, <1>4, <1>7, <1>10
  <2>3. \A p \in new : <<p, 0>> \in onto
    BY DEF HandledRing
  <2>4. \A r \in RestBound(n, h) : packet'[Head(exb[n][r])[1]].ring = r /\ r # h
    BY <1>3, <1>4
  <2>5. ASSUME NEW f \in onto, NEW g \in onto,
               packet'[f[1]].ring = packet'[g[1]].ring
        PROVE  f = g
    BY <1>7, <1>10, <2>4, <2>5
  <2>6. ASSUME NEW f \in onto, NEW g \in OnWire(n, packet'[f[1]].ring)
        PROVE  g \in Ejected(n, E) \cup off
    <3>1. CASE f \in hon
      <4>1. g \in OnWire(n, h)
        BY <1>10, <2>6, <3>1
      <4>2. CASE SlotFree(n, h, E)
        BY <4>1, <4>2, FreeSlot
      <4>3. CASE Arrival(n, h) \in hoff
        BY <4>1, <4>3, OneArrival
      <4> QED BY <1>10, <3>1, <4>2, <4>3
    <3>2. CASE \E r \in RestBound(n, h) : f = Head(exb[n][r])
      <4>1. PICK r \in RestBound(n, h) : f = Head(exb[n][r])
        BY <3>2
      <4>2. g \in OnWire(n, r)
        BY <2>4, <2>6, <4>1
      <4>3. CASE SlotFree(n, r, E)
        BY <4>2, <4>3, FreeSlot
      <4>4. CASE ~SlotFree(n, r, E)
        BY <1>8, <4>2, <4>4, OneArrival
      <4> QED BY <4>3, <4>4
    <3> QED BY <1>7, <3>1, <3>2
  <2> QED BY <2>1, <2>2, <2>3, <2>5, <2>6 DEF WireStep
<1>12. BufferStep(n, onto, off)
  <2>1. \A r \in RestBound(n, h) : \A f \in Elems(exb[n][r]) :
          f \in onto <=> f = Head(exb[n][r])
    <3>1. ASSUME NEW r \in RestBound(n, h), NEW f \in Elems(exb[n][r]), f \in onto
          PROVE  f = Head(exb[n][r])
      <4>1. packet[f[1]].ring = r /\ f \in DOMAIN flit /\ r # h
        BY <1>3, <1>4, <3>1
      <4>2. f \notin hon
        BY <1>10, <4>1
      <4>3. PICK q \in RestBound(n, h) : f = Head(exb[n][q])
        BY <1>7, <3>1, <4>2
      <4>4. packet[f[1]].ring = q
        BY <1>3, <1>4, <4>3
      <4> QED BY <4>1, <4>3, <4>4
    <3> QED BY <1>8, <3>1
  <2>2. \A r \in RestBound(n, h) : \A f :
          f \in off /\ packet[f[1]].ring = r
            <=> f = Arrival(n, r) /\ ~SlotFree(n, r, E)
    BY <1>3, <1>5, <1>6, <1>8, <1>9
  <2>3. \A f \in off : packet[f[1]].ring = h => f \in hoff
    BY <1>3, <1>5, <1>6
  <2>4. \A f \in hoff : f \in off /\ packet[f[1]].ring = h
    BY <1>5, <1>9
  <2>5. h \in Bound(n) => \A f \in Elems(exb[n][h]) : f \in onto <=> f \in hon
    <3>1. ASSUME h \in Bound(n), NEW f \in Elems(exb[n][h]), f \in onto
          PROVE  f \in hon
      <4>1. packet[f[1]].ring = h
        BY <1>4, <3>1
      <4> QED BY <1>3, <1>4, <1>7, <3>1, <4>1
    <3> QED BY <3>1
  <2>6. ASSUME NEW r \in Bound(n)'
        PROVE  /\ r \in Ring
               /\ exb'[n][r] \in Seq(FlitId)
               /\ Distinct(exb'[n][r])
               /\ \A f : f \in Elems(exb'[n][r]) <=>
                    \/ r \in Bound(n) /\ f \in Elems(exb[n][r]) /\ f \notin onto
                    \/ f \in off /\ packet[f[1]].ring = r
    <3>1. CASE r = h
      <4>1. /\ h \in Ring /\ exb'[n][h] \in Seq(FlitId) /\ Distinct(exb'[n][h])
            /\ \A f : f \in Elems(exb'[n][h]) <=>
                 \/ h \in Bound(n) /\ f \in Elems(exb[n][h]) /\ f \notin hon
                 \/ f \in hoff
        BY <2>6, <3>1 DEF HandledRing
      <4> QED BY <2>3, <2>4, <2>5, <3>1, <4>1
    <3>2. CASE r # h
      <4>1. /\ r \in RestBound(n, h) /\ exb'[n][r] = RestBuffer(n, r, E)
            /\ r \in Bound(n)
        BY <1>2, <2>6, <3>2
      <4>2. \A f : f \in Elems(exb'[n][r]) <=>
                     \/ f \in Elems(exb[n][r]) /\ f # Head(exb[n][r])
                     \/ f = Arrival(n, r) /\ ~SlotFree(n, r, E)
        BY <1>3, <4>1
      <4>3. \A f : f \in Elems(exb[n][r]) /\ f # Head(exb[n][r]) <=>
                     f \in Elems(exb[n][r]) /\ f \notin onto
        BY <2>1, <4>1
      <4>4. r \in Ring /\ exb'[n][r] \in Seq(FlitId) /\ Distinct(exb'[n][r])
        BY <1>3, <4>1
      <4> QED BY <2>2, <4>1, <4>2, <4>3, <4>4
    <3> QED BY <3>1, <3>2
  <2>7. exb'[n] \in [Bound(n)' -> Seq(FlitId)]
    BY <2>6 DEF HandledRing, OwnExb
  <2>8. ASSUME NEW f \in off PROVE packet[f[1]].ring \in Bound(n)'
    BY <1>2, <1>3, <1>5, <1>6, <1>9
  <2>9. ASSUME NEW r \in Bound(n), NEW f \in Elems(exb[n][r]), f \notin onto
        PROVE  r \in Bound(n)'
    <3>1. CASE r = h
      BY <2>5, <2>9, <3>1 DEF HandledRing
    <3>2. CASE r # h
      BY <1>2, <1>3, <2>1, <2>9, <3>2
    <3> QED BY <3>1, <3>2
  <2>10. exb' = [exb EXCEPT ![n] = exb'[n]]
    BY DEF HandledRing, OwnExb
  <2> QED BY <2>6, <2>7, <2>8, <2>9, <2>10 DEF BufferStep
<1>13. PoolStep(n)
  <2>1. IsFiniteSet(Bound(n)) /\ Cardinality(Bound(n)) <= ExbNum
        /\ Cardinality(Bound(n)) \in Nat
    BY <1>1, FS_CardinalityType DEF BoundFinite, ExbInUse
  <2>2. IsFiniteSet(Bound(n)') /\ Cardinality(Bound(n)') <= ExbNum
    <3>1. CASE Bound(n)' \subseteq Bound(n)
      <4>1. /\ IsFiniteSet(Bound(n)')
            /\ Cardinality(Bound(n)') <= Cardinality(Bound(n))
            /\ Cardinality(Bound(n)') \in Nat
        BY <2>1, <3>1, FS_Subset, FS_CardinalityType
      <4> QED BY <2>1, <4>1, Numbers
    <3>2. CASE ~(Bound(n)' \subseteq Bound(n))
      <4>1. h \notin Bound(n) /\ h \in Bound(n)'
        BY <1>2, <3>2
      <4>2. Cardinality(Bound(n)) < ExbNum
        BY <4>1 DEF HandledRing, ExbAvailable
      <4>3. Bound(n)' \subseteq Bound(n) \cup {h}
        BY <1>2
      <4>4. /\ IsFiniteSet(Bound(n) \cup {h})
            /\ Cardinality(Bound(n) \cup {h}) = Cardinality(Bound(n)) + 1
        BY <2>1, <4>1, FS_AddElement
      <4>5. /\ IsFiniteSet(Bound(n)')
            /\ Cardinality(Bound(n)') <= Cardinality(Bound(n)) + 1
            /\ Cardinality(Bound(n)') \in Nat
        BY <4>3, <4>4, FS_Subset, FS_CardinalityType
      <4> QED BY <2>1, <4>2, <4>5, Numbers
    <3> QED BY <3>1, <3>2
  <2>3. ASSUME NEW r \in Bound(n)'
        PROVE  /\ Len(exb'[n][r]) <= ExbSize
               /\ exb'[n][r] # <<>> \/ (ongoing'[n] # None /\ OngoingRing(n)' = r)
    <3>1. CASE r = h
      BY <2>3, <3>1 DEF HandledRing
    <3>2. CASE r # h
      <4>1. r \in RestKept(n, h, E)
        BY <1>2, <2>3, <3>2
      <4>2. exb'[n][r] = RestBuffer(n, r, E) /\ RestBuffer(n, r, E) # <<>>
        BY <1>2, <4>1 DEF RestKept
      <4> QED BY <1>2, <1>3, <4>1, <4>2
    <3> QED BY <3>1, <3>2
  <2> QED BY <2>2, <2>3 DEF PoolStep
<1> QED
  BY <1>11, <1>12, <1>13

-----------------------------------------------------------------------------
(* The injection queue.                                                    *)

\* What packetinfo_generator leaves in the queue: packets no one has an id in
\* common with.
LEMMA QueueFacts ==
  ASSUME IInv, NEW n \in Node, NEW o \in Offers(n), Generate(o),
         NEW q, q = QueueWith(n, o)
  PROVE  /\ q \in Seq(PacketInfo) /\ Len(q) \in Nat
         /\ next_id' \in {next_id, next_id + 1} /\ next_id' <= MaxPackets
         /\ \A i \in 1..Len(q) :
              /\ q[i] \in PacketInfo
              /\ q[i].id < next_id' /\ q[i].id \notin DOMAIN packet
              /\ \/ q[i].id = next_id /\ next_id' = next_id + 1
                 \/ \E j \in 1..Len(queue[n]) : q[i].id = queue[n][j].id
              /\ \A j \in 1..Len(q) : q[i].id = q[j].id => i = j
<1>1. /\ TypeOK /\ FreshIds
  BY DEF IInv
<1>2. /\ queue[n] \in Seq(PacketInfo) /\ Len(queue[n]) \in Nat
      /\ \A i \in 1..Len(queue[n]) : queue[n][i] \in PacketInfo
      /\ next_id \in Nat /\ next_id <= MaxPackets
  BY <1>1, Numbers DEF TypeOK
<1>3. \A i \in 1..Len(queue[n]) :
        /\ queue[n][i].id < next_id /\ queue[n][i].id \notin DOMAIN packet
        /\ \A j \in 1..Len(queue[n]) : queue[n][i].id = queue[n][j].id => i = j
  BY <1>1 DEF FreshIds
<1>4. CASE o = NoOffer
  <2>1. q = queue[n] /\ next_id' = next_id
    BY <1>4 DEF QueueWith, Generate
  <2> QED BY <1>2, <1>3, <2>1
<1>5. CASE o # NoOffer
  <2>1. /\ o \in Offer[n] /\ cycle < MaxCycle /\ next_id < MaxPackets
    BY <1>5 DEF Offers
  <2>2. o \in [dst : Node, length : Nat \ {0}]
    BY <2>1, NocAssumption
  <2> DEFINE i0 == [id |-> next_id, dst |-> o.dst,
                    length |-> o.length, ctime |-> cycle]
  <2>3. i0 \in PacketInfo /\ i0.id = next_id
    <3>1. next_id \in PacketId
      BY <1>2, <2>1, Numbers DEF PacketId
    <3>2. cycle \in 0..MaxCycle
      BY <1>1 DEF TypeOK
    <3> QED BY <2>2, <3>1, <3>2 DEF PacketInfo
  <2>4. q = Append(queue[n], i0) /\ next_id' = next_id + 1
    BY <1>5 DEF QueueWith, Generate
  <2> HIDE DEF i0
  <2>5. /\ q \in Seq(PacketInfo) /\ Len(q) = Len(queue[n]) + 1
        /\ \A i \in 1..Len(queue[n]) : q[i] = queue[n][i]
        /\ q[Len(queue[n]) + 1] = i0
    BY <1>2, <2>3, <2>4, AppendProperties
  <2>6. \A i \in 1..Len(q) : i \in 1..Len(queue[n]) \/ i = Len(queue[n]) + 1
    BY <1>2, <2>5
  <2>7. next_id \notin DOMAIN packet
    BY <1>1, <1>2 DEF FreshIds
  <2>8. ASSUME NEW i \in 1..Len(q)
        PROVE  /\ q[i] \in PacketInfo
               /\ q[i].id < next_id' /\ q[i].id \notin DOMAIN packet
               /\ \/ q[i].id = next_id /\ next_id' = next_id + 1
                  \/ \E j \in 1..Len(queue[n]) : q[i].id = queue[n][j].id
               /\ \A j \in 1..Len(q) : q[i].id = q[j].id => i = j
    <3>1. CASE i \in 1..Len(queue[n])
      <4>1. q[i] = queue[n][i] /\ queue[n][i] \in PacketInfo
            /\ queue[n][i].id < next_id /\ queue[n][i].id \notin DOMAIN packet
        BY <1>2, <1>3, <2>5, <3>1
      <4>2. queue[n][i].id \in Nat
        BY <4>1, Numbers DEF PacketInfo
      <4>3. \A j \in 1..Len(q) : q[i].id = q[j].id => i = j
        BY SMTT(30), <1>2, <1>3, <2>3, <2>5, <2>6, <3>1, <4>1, <4>2
      <4>4. queue[n][i].id < next_id'
        BY <1>2, <2>4, <4>1, <4>2
      <4>5. \E j \in 1..Len(queue[n]) : q[i].id = queue[n][j].id
        BY <3>1, <4>1
      <4> QED BY <4>1, <4>3, <4>4, <4>5
    <3>2. CASE i = Len(queue[n]) + 1
      <4>1. q[i] = i0
        BY <2>5, <3>2
      <4>2. \A j \in 1..Len(queue[n]) : q[j].id < next_id
        BY <1>3, <2>5
      <4>3. \A j \in 1..Len(q) : q[i].id = q[j].id => i = j
        BY <1>2, <2>3, <2>6, <3>2, <4>1, <4>2
      <4> QED BY <1>2, <2>3, <2>4, <2>7, <4>1, <4>3
    <3> QED BY <2>6, <3>1, <3>2
  <2> QED BY <1>2, <2>1, <2>4, <2>5, <2>8, Numbers
<1> QED
  BY <1>4, <1>5

\* A queue that nothing leaves.
LEMMA QueueKept ==
  ASSUME IInv, NEW n \in Node, NEW o \in Offers(n), Generate(o),
         queue' = [queue EXCEPT ![n] = QueueWith(n, o)]
  PROVE  QueueStep(n, {})
<1>1. queue'[n] = QueueWith(n, o) /\ queue' = [queue EXCEPT ![n] = queue'[n]]
  BY DEF IInv, TypeOK
<1> QED
  BY <1>1, QueueFacts DEF QueueStep

\* A queue whose head enters the network.
LEMMA QueueServed ==
  ASSUME IInv, NEW n \in Node, NEW o \in Offers(n), Generate(o),
         NEW q, q = QueueWith(n, o), q # <<>>,
         queue' = [queue EXCEPT ![n] = Tail(q)]
  PROVE  QueueStep(n, {Head(q).id}) /\ Head(q) \in PacketInfo
         /\ Head(q).id \notin DOMAIN packet
<1>1. queue'[n] = Tail(q) /\ queue' = [queue EXCEPT ![n] = queue'[n]]
  BY DEF IInv, TypeOK
<1>2. /\ q \in Seq(PacketInfo) /\ Len(q) \in Nat
      /\ next_id' \in {next_id, next_id + 1} /\ next_id' <= MaxPackets
      /\ \A i \in 1..Len(q) :
           /\ q[i] \in PacketInfo
           /\ q[i].id < next_id' /\ q[i].id \notin DOMAIN packet
           /\ \/ q[i].id = next_id /\ next_id' = next_id + 1
              \/ \E j \in 1..Len(queue[n]) : q[i].id = queue[n][j].id
           /\ \A j \in 1..Len(q) : q[i].id = q[j].id => i = j
  BY QueueFacts
<1>3. PICK t : t = Tail(q) /\ t = queue'[n]
  BY <1>1
<1>4. /\ t \in Seq(PacketInfo) /\ Len(t) = Len(q) - 1
      /\ Len(q) >= 1 /\ Head(q) = q[1]
      /\ \A i \in 1..(Len(q) - 1) : t[i] = q[i + 1]
  BY <1>2, <1>3, HeadTailProperties, EmptySeq
<1>5. /\ 1 \in 1..Len(q)
      /\ \A i \in 1..Len(t) : /\ t[i] = q[i + 1]
                              /\ i + 1 \in 1..Len(q) /\ i + 1 # 1
  BY <1>2, <1>4
<1>6. ASSUME NEW i \in 1..Len(t)
      PROVE  /\ t[i].id # Head(q).id
             /\ \/ t[i].id = next_id /\ next_id' = next_id + 1
                \/ \E j \in 1..Len(queue[n]) : t[i].id = queue[n][j].id
             /\ \A j \in 1..Len(t) : t[i].id = t[j].id => i = j
  <2>1. t[i].id # Head(q).id
    BY <1>2, <1>4, <1>5
  <2>2. \/ t[i].id = next_id /\ next_id' = next_id + 1
        \/ \E j \in 1..Len(queue[n]) : t[i].id = queue[n][j].id
    BY <1>2, <1>5
  <2>3. ASSUME NEW j \in 1..Len(t), t[i].id = t[j].id PROVE i = j
    <3>1. q[i + 1].id = q[j + 1].id
      BY <1>5, <2>3
    <3>2. i + 1 = j + 1
      BY <1>2, <1>5, <3>1
    <3> QED BY <3>2
  <2> QED BY <2>1, <2>2, <2>3
<1>7. /\ Head(q) \in PacketInfo /\ Head(q).id \notin DOMAIN packet
      /\ Head(q).id < next_id'
      /\ \/ Head(q).id = next_id
         \/ \E j \in 1..Len(queue[n]) : Head(q).id = queue[n][j].id
  BY <1>2, <1>4, <1>5
<1>8. /\ queue'[n] \in Seq(PacketInfo)
      /\ \A i \in 1..Len(queue'[n]) :
           /\ queue'[n][i].id \notin {Head(q).id}
           /\ \/ queue'[n][i].id = next_id /\ next_id' = next_id + 1
              \/ \E j \in 1..Len(queue[n]) : queue'[n][i].id = queue[n][j].id
           /\ \A j \in 1..Len(queue'[n]) :
                queue'[n][i].id = queue'[n][j].id => i = j
  <2>1. \A s : s = t =>
          /\ s \in Seq(PacketInfo)
          /\ \A i \in 1..Len(s) :
               /\ s[i].id \notin {Head(q).id}
               /\ \/ s[i].id = next_id /\ next_id' = next_id + 1
                  \/ \E j \in 1..Len(queue[n]) : s[i].id = queue[n][j].id
               /\ \A j \in 1..Len(s) : s[i].id = s[j].id => i = j
    BY <1>4, <1>6
  <2> QED BY <1>3, <2>1, Zenon
<1>9. QueueStep(n, {Head(q).id})
  BY <1>1, <1>2, <1>7, <1>8, Zenon DEF QueueStep
<1> QED
  BY <1>7, <1>9

-----------------------------------------------------------------------------
(* The actions.                                                            *)

\* A node that injects nothing only lets its EXBs run.
LEMMA IdleStep ==
  ASSUME IInv, NEW n \in Node, NEW o \in Offers(n), NEW E \in EjectChoices(n),
         Generate(o), Idle(n, o, E)
  PROVE  \E onto, off, new : NodeStep(n, E, onto, off, new)
<1> DEFINE onto == RestPopped(n, None)
           off == RestPushed(n, None, E)
<1>1. /\ TypeOK /\ ExbInUse /\ EjectFacts(n, E)
      /\ ongoing[n] = None /\ ongoing' = ongoing
      /\ interrupt' = interrupt /\ forward_length' = forward_length
  BY EjectChoiceFacts DEF IInv, Idle
<1>2. PacketStep(n, E, {})
  BY DetachStep DEF Idle
<1>3. FlitStep(n, E, onto, off) /\ RecordStep(n, E)
  <2>1. Settle(n, E, onto, off, {})
    BY DEF Idle
  <2> HIDE DEF onto, off
  <2> QED BY <1>2, <2>1, SettledFlits
<1>4. HandledRing(n, E, None, {}, {}, {})
  <2>1. exb'[n] = RestExb(n, None, E)
    BY <1>1 DEF Idle, TypeOK
  <2>2. Bound(n)' = RestKept(n, None, E)
        /\ \A r \in RestKept(n, None, E) : exb'[n][r] = RestBuffer(n, r, E)
    BY <2>1 DEF RestExb, Bound
  <2>3. None \notin Bound(n) /\ None \notin RestKept(n, None, E)
    BY NocAssumption, <1>1 DEF TypeOK, RestKept, RestBound
  <2>4. \A r \in RestBound(n, None) : exb[n][r] # <<>>
    BY <1>1 DEF ExbInUse, RestBound
  <2>5. None \notin Bound(n)' /\ Bound(n)' \ {None} = RestKept(n, None, E)
    BY <2>2, <2>3
  <2> HIDE DEF onto, off
  <2>6. OwnExb(n)
    <3>1. exb' = [exb EXCEPT ![n] = exb'[n]]
      BY <1>1 DEF Idle, TypeOK
    <3>2. exb'[n] = [r \in Bound(n)' |-> exb'[n][r]]
      BY <2>1 DEF RestExb, Bound
    <3> QED BY <3>1, <3>2, Zenon DEF OwnExb
  <2>7. \A r \in RestKept(n, None, E) : exb'[n][r] = RestBuffer(n, r, E)
    BY <2>2
  <2> QED BY <2>3, <2>4, <2>5, <2>6, <2>7 DEF HandledRing
<1>5. WireStep(n, E, onto, off, {}) /\ BufferStep(n, onto, off) /\ PoolStep(n)
  BY <1>2, <1>4, RingSteps
<1>6. InjectionStep(n, onto, {})
  <2>1. \A f \in onto : ~IsNext(n, f)
    BY <1>1, <1>5, FlitFacts, Numbers DEF IsNext
  <2> QED BY <1>1, <2>1 DEF InjectionStep, TypeOK
<1>7. QueueStep(n, {})
  BY QueueKept DEF Idle
<1>8. WindowStep(n)
  BY <1>1 DEF IInv, InterruptWindow, WindowStep, TypeOK
<1> QED
  BY <1>1, <1>2, <1>3, <1>5, <1>6, <1>7, <1>8 DEF NodeStep

\* The ring chosen for a new packet is on its route, free, and has no EXB.
LEMMA InjectRingFacts ==
  ASSUME IInv, NEW n \in Node, NEW q \in Seq(PacketInfo), NEW E,
         CanInject(n, q, E), Head(q) \in PacketInfo
  PROVE  /\ InjectRing(n, q, E) \in Ring
         /\ {n, Head(q).dst} \subseteq NodesOn[InjectRing(n, q, E)]
         /\ SlotFree(n, InjectRing(n, q, E), E)
         /\ InjectRing(n, q, E) \notin Bound(n)
<1> DEFINE U == UsableRings(n, q, E)
           d == Head(q).dst
<1>1. U # {} /\ U \in SUBSET (1..Len(Route[n][d])) /\ d \in Node
  BY DEF CanInject, UsableRings, PacketInfo
<1>2. Route[n][d] \in Seq(Ring) /\ Len(Route[n][d]) \in Nat
  BY <1>1, NocAssumption
<1>3. U \in SUBSET Nat
  BY <1>1, <1>2
<1> HIDE DEF U
<1>4. \E i \in U : \A j \in U : i <= j
  BY <1>1, <1>3, LeastNatural
<1>5. PICK i \in U : InjectRing(n, q, E) = Route[n][d][i]
  <2>1. (CHOOSE i \in U : \A j \in U : i <= j) \in U
    BY <1>4
  <2> QED BY <2>1 DEF InjectRing, U
<1>6. i \in 1..Len(Route[n][d]) /\ Route[n][d][i] \in Ring
  BY <1>1, <1>2
<1>7. {n, d} \subseteq NodesOn[Route[n][d][i]]
  BY <1>1, <1>6, NocAssumption
<1> QED
  BY <1>5, <1>6, <1>7 DEF U, UsableRings

\* A new packet enters by its header, and a long one binds an EXB.
LEMMA InjectStep ==
  ASSUME IInv, NEW n \in Node, NEW o \in Offers(n), NEW E \in EjectChoices(n),
         Generate(o), Inject(n, o, E)
  PROVE  \E onto, off, new : NodeStep(n, E, onto, off, new)
<1> DEFINE q == QueueWith(n, o)
           i == Head(q)
           r == InjectRing(n, q, E)
           p == i.id
           onto == RestPopped(n, r) \cup {<<p, 0>>}
           off == RestPushed(n, r, E)
<1>1. /\ TypeOK /\ ExbInUse /\ EjectFacts(n, E)
      /\ ongoing[n] = None
      /\ ongoing' = [ongoing EXCEPT ![n] = IF i.length = 1 THEN None ELSE p]
      /\ interrupt' = interrupt /\ forward_length' = forward_length
      /\ CanInject(n, q, E) /\ q # <<>>
  BY EjectChoiceFacts DEF IInv, Inject, CanInject
<1>2. /\ i \in PacketInfo /\ p \notin DOMAIN packet /\ QueueStep(n, {p})
  <2>1. queue' = [queue EXCEPT ![n] = Tail(q)]
    BY DEF Inject
  <2> QED BY <1>1, <2>1, QueueServed
<1>3. q \in Seq(PacketInfo)
  BY QueueFacts
<1>4. /\ r \in Ring /\ {n, i.dst} \subseteq NodesOn[r]
      /\ SlotFree(n, r, E) /\ r \notin Bound(n)
  BY <1>1, <1>2, <1>3, InjectRingFacts
<1>5. /\ packet' = [k \in (DOMAIN packet \ Finished(n, E)) \cup {p} |->
                      IF k = p THEN [dst |-> i.dst, length |-> i.length,
                                     ctime |-> i.ctime, src |-> n, ring |-> r]
                      ELSE packet[k]]
      /\ exb' = [exb EXCEPT ![n] = IF i.length = 1 THEN RestExb(n, r, E)
                                   ELSE RestExbWith(n, r, E, <<>>)]
      /\ Settle(n, E, onto, off, FlitIds(p, i.length))
      /\ i.length = 1 \/ ExbAvailable(n)
  BY DEF Inject, CanInject
<1> HIDE DEF q, r
<1>6. i.length \in Nat \ {0} /\ p \in PacketId /\ p \in Nat /\ p # None
  BY <1>2, Numbers DEF PacketInfo
<1>7. PacketStep(n, E, {p}) /\ packet'[p].length = i.length /\ packet'[p].ring = r
      /\ p \in DOMAIN packet'
  <2>1. [dst |-> i.dst, length |-> i.length,
         ctime |-> i.ctime, src |-> n, ring |-> r] \in Packet
    BY <1>2, <1>4 DEF Packet, PacketInfo
  <2>2. \A k \in DOMAIN packet : packet[k] \in Packet
    BY <1>1 DEF TypeOK
  <2> QED BY <1>2, <1>4, <1>5, <1>6, <2>1, <2>2 DEF PacketStep
<1>8. FlitStep(n, E, onto, off) /\ RecordStep(n, E)
  <2>1. \A f : f \in FlitIds(p, i.length) <=>
          \E k \in {p} : f \in FlitIds(k, packet'[k].length)
    BY <1>7
  <2> HIDE DEF onto, off, p, i
  <2> QED BY <1>5, <1>7, <2>1, SettledFlits
<1>9. /\ ongoing'[n] = IF i.length = 1 THEN None ELSE p
      /\ ongoing'[n] # None => OngoingRing(n)' = r /\ r \in Bound(n)'
      /\ ongoing' = [ongoing EXCEPT ![n] = ongoing'[n]]
  <2>1. /\ ongoing'[n] = IF i.length = 1 THEN None ELSE p
        /\ ongoing' = [ongoing EXCEPT ![n] = ongoing'[n]]
    BY <1>1 DEF TypeOK
  <2>2. ongoing'[n] # None => OngoingRing(n)' = r
    BY <1>7, <2>1 DEF OngoingRing
  <2>3. ongoing'[n] # None => r \in Bound(n)'
    BY <1>1, <1>5, <2>1 DEF TypeOK, Bound, RestExbWith
  <2> QED BY <2>1, <2>2, <2>3
<1>10. HandledRing(n, E, r, {<<p, 0>>}, {}, {p})
  <2>1. /\ exb'[n] = IF i.length = 1 THEN RestExb(n, r, E)
                     ELSE RestExbWith(n, r, E, <<>>)
        /\ exb' = [exb EXCEPT ![n] = exb'[n]]
    BY <1>1, <1>5 DEF TypeOK
  <2>2. r \notin RestKept(n, r, E)
    BY DEF RestKept, RestBound
  <2>3. /\ Bound(n)' \ {r} = RestKept(n, r, E)
        /\ \A x \in RestKept(n, r, E) : exb'[n][x] = RestBuffer(n, x, E)
        /\ exb'[n] = [x \in Bound(n)' |-> exb'[n][x]]
        /\ r \in Bound(n)' => i.length # 1 /\ exb'[n][r] = <<>>
    BY <2>1, <2>2 DEF RestExb, RestExbWith, Bound
  <2>4. \A x \in RestBound(n, r) : exb[n][x] # <<>>
    BY <1>1 DEF ExbInUse, RestBound
  <2>5. r \in Bound(n)' =>
          /\ r \in Ring /\ ExbAvailable(n)
          /\ exb'[n][r] \in Seq(FlitId) /\ Len(exb'[n][r]) <= ExbSize
          /\ Distinct(exb'[n][r])
          /\ Elems(exb'[n][r]) = {}
          /\ ongoing'[n] # None /\ OngoingRing(n)' = r
    <3>1. Distinct(<<>>) /\ Elems(<<>>) = {} /\ <<>> \in Seq(FlitId) /\ Len(<<>>) = 0
      BY DEF Distinct, Elems
    <3>2. 0 <= ExbSize
      BY Numbers
    <3> QED BY <1>4, <1>5, <1>6, <1>9, <2>3, <3>1, <3>2
  <2>6. <<p, 0>> \notin DOMAIN flit
    BY <1>1, <1>2, FlitFacts
  <2>7. OwnExb(n)
    BY <2>1, <2>3, Zenon DEF OwnExb
  <2>8. /\ Bound(n)' \ {r} = RestKept(n, r, E)
        /\ \A x \in RestKept(n, r, E) : exb'[n][x] = RestBuffer(n, x, E)
    BY <2>3
  <2> QED BY <1>4, <1>7, <2>4, <2>5, <2>6, <2>7, <2>8 DEF HandledRing
<1>11. /\ WireStep(n, E, onto, off, {p}) /\ BufferStep(n, onto, off)
       /\ PoolStep(n)
  <2>1. off = RestPushed(n, r, E) \cup {}
    OBVIOUS
  <2> HIDE DEF off
  <2> QED BY <1>7, <1>10, <2>1, RingSteps
<1>12. InjectionStep(n, onto, {p})
  BY <1>1, <1>7, <1>9 DEF InjectionStep
<1>13. WindowStep(n)
  BY <1>1 DEF IInv, InterruptWindow, WindowStep, TypeOK
<1> QED
  BY <1>1, <1>2, <1>7, <1>8, <1>11, <1>12, <1>13 DEF NodeStep

\* While a packet is injected its ring is bound, and all other EXBs are filled.
LEMMA ContinueFacts ==
  ASSUME IInv, NEW n \in Node, NEW E \in EjectChoices(n), ongoing[n] # None,
         NEW h, h = OngoingRing(n), NEW b, b = OngoingExb(n),
         PacketStep(n, E, {})
  PROVE  /\ h \in Ring /\ h \in Bound(n) /\ b = exb[n][h]
         /\ b \in Seq(FlitId) /\ Distinct(b)
         /\ Len(b) \in Nat /\ Len(b) <= ExbSize
         /\ \A r \in RestBound(n, h) : exb[n][r] # <<>>
         /\ ongoing[n] \in DOMAIN packet
         /\ packet'[ongoing[n]] = packet[ongoing[n]]
         /\ ongoing'[n] = ongoing[n] => OngoingRing(n)' = h
<1>1. /\ TypeOK /\ ExbInUse /\ BufferedSets /\ OngoingConsistent
      /\ EjectFacts(n, E)
  BY BufferedAsSets, EjectChoiceFacts DEF IInv
<1>2. h \in Bound(n) /\ h \in Ring /\ b = exb[n][h]
  BY <1>1 DEF OngoingConsistent, TypeOK, OngoingExb
<1>3. b \in Seq(FlitId) /\ Len(b) \in Nat
  BY <1>1, <1>2 DEF TypeOK
<1>4. Distinct(b) /\ Len(b) <= ExbSize
  <2>1. Distinct(exb[n][h])
    BY <1>1, <1>2 DEF BufferedSets
  <2>2. Len(exb[n][h]) <= ExbSize
    BY <1>1, <1>2 DEF ExbInUse
  <2> QED BY <1>2, <2>1, <2>2
<1>5. \A r \in RestBound(n, h) : exb[n][r] # <<>>
  BY <1>1 DEF ExbInUse, RestBound
<1>6. /\ ongoing[n] \in DOMAIN packet
      /\ packet'[ongoing[n]] = packet[ongoing[n]]
  BY <1>1, OngoingLives DEF PacketStep
<1>7. ongoing'[n] = ongoing[n] => OngoingRing(n)' = h
  BY <1>6 DEF OngoingRing
<1> QED
  BY <1>2, <1>3, <1>4, <1>5, <1>6, <1>7

\* The ring h of the injection when its EXB b stays bound, as "buffer".
KeptBound(n, E, h, b, buffer, hon, hoff) ==
  /\ buffer \in Seq(FlitId) /\ Distinct(buffer) /\ Len(buffer) <= ExbSize
  /\ \A f : f \in Elems(buffer) <=>
              (f \in Elems(b) /\ f \notin hon) \/ f \in hoff
  /\ buffer # <<>> \/ ongoing'[n] = ongoing[n]
  /\ \A f \in hon :
       /\ packet'[f[1]].ring = h /\ packet[f[1]].ring = h
       /\ \/ f \in DOMAIN flit /\ flit[f].status = "Buffered" /\ flit[f].node = n
          \/ IsNext(n, f)
       /\ \A g \in hon : f = g
       /\ SlotFree(n, h, E) \/ Arrival(n, h) \in hoff
  /\ \A f \in hoff : f = Arrival(n, h) /\ ~SlotFree(n, h, E)

\* Such a ring is handled as HandledRing says.
LEMMA KeptRing ==
  ASSUME IInv, NEW n \in Node, NEW E \in EjectChoices(n), ongoing[n] # None,
         NEW h, h = OngoingRing(n), NEW b, b = OngoingExb(n),
         PacketStep(n, E, {}), NEW hon, NEW hoff, NEW buffer,
         exb' = [exb EXCEPT ![n] = RestExbWith(n, h, E, buffer)],
         KeptBound(n, E, h, b, buffer, hon, hoff)
  PROVE  /\ HandledRing(n, E, h, hon, hoff, {})
         /\ h \in Bound(n)' /\ exb'[n][h] = buffer
<1>1. TypeOK
  BY DEF IInv
<1>2. /\ h \in Ring /\ h \in Bound(n) /\ b = exb[n][h]
      /\ \A r \in RestBound(n, h) : exb[n][r] # <<>>
      /\ ongoing'[n] = ongoing[n] => OngoingRing(n)' = h
  BY ContinueFacts
<1>3. exb'[n] = RestExbWith(n, h, E, buffer)
  BY <1>1 DEF TypeOK
<1>4. h \notin RestKept(n, h, E)
  BY DEF RestKept, RestBound
<1>5. Bound(n)' = RestKept(n, h, E) \cup {h}
  BY <1>3 DEF RestExbWith, Bound
<1>6. exb'[n][h] = buffer
  BY <1>3 DEF RestExbWith
<1>7. \A r \in RestKept(n, h, E) : exb'[n][r] = RestBuffer(n, r, E)
  BY <1>3, <1>4 DEF RestExbWith
<1>8. OwnExb(n)
  <2>1. exb' = [exb EXCEPT ![n] = exb'[n]]
    BY <1>1 DEF TypeOK
  <2>2. exb'[n] = [r \in Bound(n)' |-> exb'[n][r]]
    BY <1>3 DEF RestExbWith, Bound
  <2> QED BY <2>1, <2>2, Zenon DEF OwnExb
<1>9. h \in Bound(n)' /\ Bound(n)' \ {h} = RestKept(n, h, E)
  BY <1>4, <1>5
<1>10. \A x : x = exb'[n][h] =>
         /\ x \in Seq(FlitId) /\ Len(x) <= ExbSize /\ Distinct(x)
         /\ \A f : f \in Elems(x) <=>
                     \/ h \in Bound(n) /\ f \in Elems(exb[n][h]) /\ f \notin hon
                     \/ f \in hoff
         /\ x # <<>> \/ (ongoing'[n] # None /\ OngoingRing(n)' = h)
  BY <1>2, <1>6 DEF KeptBound
<1> QED
  BY <1>2, <1>6, <1>7, <1>8, <1>9, <1>10 DEF HandledRing, KeptBound

\* The front of the EXB goes out instead of the next flit, and the arriving
\* flit, if it stays, goes in behind.
LEMMA ForwardStep ==
  ASSUME IInv, NEW n \in Node, NEW o \in Offers(n), NEW E \in EjectChoices(n),
         Generate(o), Continue(n, o, E), NEW buffer, NEW hoff, NEW length,
         ForwardFront(n, E, buffer, hoff, length), WindowStep(n),
         OngoingExb(n) # <<>>,
         \/ /\ SlotFree(n, OngoingRing(n), E)
            /\ hoff = {} /\ buffer = Tail(OngoingExb(n))
         \/ /\ ~SlotFree(n, OngoingRing(n), E)
            /\ hoff = {Arrival(n, OngoingRing(n))}
            /\ buffer = Append(Tail(OngoingExb(n)), Arrival(n, OngoingRing(n)))
  PROVE  \E onto, off, new : NodeStep(n, E, onto, off, new)
<1>1. PICK h : h = OngoingRing(n)
  OBVIOUS
<1>2. PICK b : b = OngoingExb(n)
  OBVIOUS
<1>3. PICK a : a = Arrival(n, h)
  OBVIOUS
<1>4. /\ TypeOK /\ BufferedSets /\ EjectFacts(n, E) /\ ongoing[n] # None
  BY BufferedAsSets, EjectChoiceFacts DEF IInv, Continue
<1>5. PacketStep(n, E, {})
  BY DetachStep DEF Continue
<1>6. /\ h \in Ring /\ h \in Bound(n) /\ b = exb[n][h]
      /\ b \in Seq(FlitId) /\ Distinct(b) /\ Len(b) \in Nat /\ Len(b) <= ExbSize
  BY <1>1, <1>2, <1>4, <1>5, ContinueFacts
<1>7. /\ Tail(b) \in Seq(FlitId) /\ Len(Tail(b)) = Len(b) - 1
      /\ Head(b) \in Elems(b) /\ Distinct(Tail(b))
      /\ Elems(Tail(b)) = Elems(b) \ {Head(b)}
  BY <1>2, <1>6, TailFacts
<1>8. \A f \in Elems(b) :
        /\ f \in DOMAIN flit /\ flit[f].status = "Buffered" /\ flit[f].node = n
        /\ packet[f[1]].ring = h /\ packet'[f[1]].ring = h
  BY <1>5, <1>6, BufferedFlit
<1>9. \/ SlotFree(n, h, E) /\ hoff = {} /\ buffer = Tail(b)
      \/ ~SlotFree(n, h, E) /\ hoff = {a} /\ buffer = Append(Tail(b), a)
  BY <1>1, <1>2, <1>3
<1>10. /\ buffer \in Seq(FlitId) /\ Distinct(buffer) /\ Len(buffer) <= ExbSize
       /\ Elems(buffer) = (Elems(b) \ {Head(b)}) \cup hoff
       /\ \A f \in hoff : f \notin Elems(b)
  <2>1. CASE SlotFree(n, h, E) /\ hoff = {} /\ buffer = Tail(b)
    BY <1>6, <1>7, <2>1, Numbers
  <2>2. CASE ~SlotFree(n, h, E) /\ hoff = {a} /\ buffer = Append(Tail(b), a)
    <3>1. a \in FlitId /\ flit[a].status = "Routing"
      BY <1>3, <2>2, TakenSlot
    <3>2. PICK t \in Seq(FlitId) : t = Tail(b)
      BY <1>7
    <3>3. Distinct(t) /\ a \notin Elems(t) /\ a \notin Elems(b)
      BY <1>7, <1>8, <3>1, <3>2
    <3>4. /\ Append(t, a) \in Seq(FlitId) /\ Len(Append(t, a)) = Len(t) + 1
          /\ Distinct(Append(t, a))
          /\ Elems(Append(t, a)) = Elems(t) \cup {a}
      BY <3>1, <3>3, AppendFacts
    <3>5. buffer = Append(t, a) /\ Len(t) + 1 <= ExbSize
      BY SMTT(30), <1>6, <1>7, <2>2, <3>2, Numbers
    <3> QED BY <1>7, <2>2, <3>2, <3>3, <3>4, <3>5
  <2> QED BY <1>9, <2>1, <2>2
<1>11. /\ exb' = [exb EXCEPT ![n] = RestExbWith(n, h, E, buffer)]
       /\ ongoing' = ongoing
       /\ Settle(n, E, RestPopped(n, h) \cup {Head(b)},
                 RestPushed(n, h, E) \cup hoff, {})
  BY <1>1, <1>2 DEF ForwardFront
<1>12. HandledRing(n, E, h, {Head(b)}, hoff, {}) /\ h \in Bound(n)'
  <2>1. PICK hon : hon = {Head(b)}
    OBVIOUS
  <2>2. \A f : f \in Elems(buffer) <=>
                 (f \in Elems(b) /\ f \notin hon) \/ f \in hoff
    BY <1>10, <2>1
  <2>3. \A f \in hon :
          /\ packet'[f[1]].ring = h /\ packet[f[1]].ring = h
          /\ \/ /\ f \in DOMAIN flit
                /\ flit[f].status = "Buffered" /\ flit[f].node = n
             \/ IsNext(n, f)
          /\ \A g \in hon : f = g
          /\ SlotFree(n, h, E) \/ Arrival(n, h) \in hoff
    BY <1>3, <1>7, <1>8, <1>9, <2>1
  <2>4. \A f \in hoff : f = Arrival(n, h) /\ ~SlotFree(n, h, E)
    BY <1>3, <1>9
  <2>5. ongoing'[n] = ongoing[n]
    BY <1>11
  <2>6. KeptBound(n, E, h, b, buffer, hon, hoff)
    BY <1>10, <2>2, <2>3, <2>4, <2>5 DEF KeptBound
  <2>7. exb' = [exb EXCEPT ![n] = RestExbWith(n, h, E, buffer)]
    BY <1>11
  <2>8. HandledRing(n, E, h, hon, hoff, {}) /\ h \in Bound(n)'
    BY <1>1, <1>2, <1>4, <1>5, <2>6, <2>7, KeptRing
  <2> QED BY <2>1, <2>8
<1>13. PICK onto : onto = RestPopped(n, h) \cup {Head(b)}
  OBVIOUS
<1>14. PICK off : off = RestPushed(n, h, E) \cup hoff
  OBVIOUS
<1>15. FlitStep(n, E, onto, off) /\ RecordStep(n, E)
  BY <1>5, <1>11, <1>13, <1>14, SettledFlits
<1>16. /\ WireStep(n, E, onto, off, {}) /\ BufferStep(n, onto, off)
       /\ PoolStep(n)
  BY <1>5, <1>12, <1>13, <1>14, RingSteps
<1>17. InjectionStep(n, onto, {})
  <2>1. \A r \in RestBound(n, h) : exb[n][r] # <<>> /\ r \in Bound(n)
    BY <1>1, <1>2, <1>4, <1>5, ContinueFacts DEF RestBound
  <2>2. \A f \in onto : ~IsNext(n, f)
    <3>1. ASSUME NEW r \in RestBound(n, h)
          PROVE  ~IsNext(n, Head(exb[n][r]))
      <4>1. Head(exb[n][r]) \in Elems(exb[n][r])
        BY <2>1, <3>1, RestRing
      <4> QED BY <1>5, <2>1, <4>1, BufferedFlit
    <3>2. ~IsNext(n, Head(b))
      BY <1>7, <1>8 DEF IsNext
    <3> QED BY <1>13, <3>1, <3>2 DEF RestPopped
  <2>3. OngoingRing(n)' = h
    BY <1>1, <1>2, <1>4, <1>5, <1>11, ContinueFacts
  <2> QED BY <1>4, <1>11, <1>12, <2>2, <2>3 DEF InjectionStep, TypeOK
<1>18. QueueStep(n, {})
  BY QueueKept DEF Continue
<1> QED
  BY <1>4, <1>5, <1>15, <1>16, <1>17, <1>18 DEF NodeStep

\* There is a next flit as long as the injection goes on: the tail at least.
LEMMA NextFlitFacts ==
  ASSUME IInv, NEW n \in Node, ongoing[n] # None
  PROVE  IsNext(n, NextFlit(n))
<1> DEFINE p == ongoing[n]
           S == {i \in 0..LastSeq(p) : flit[<<p, i>>].status = "Injecting"}
           First(f) == /\ flit[f].status = "Injecting"
                       /\ \A i \in 0..(f[2] - 1) :
                            flit[<<f[1], i>>].status # "Injecting"
<1>1. TypeOK /\ OngoingConsistent
  BY DEF IInv
<1>2. p \in DOMAIN packet
  BY <1>1 DEF TypeOK
<1>3. /\ LastSeq(p) \in Nat /\ LastSeq(p) = packet[p].length - 1
      /\ \A f \in FlitIds(p, packet[p].length) : f \in DOMAIN flit
  BY <1>1, <1>2, PacketFlits DEF LastSeq
<1>4. LastSeq(p) \in S
  <2>1. flit[<<p, LastSeq(p)>>].status = "Injecting"
    BY <1>1 DEF OngoingConsistent
  <2>2. LastSeq(p) \in 0..LastSeq(p)
    BY <1>3
  <2> QED BY <2>1, <2>2
<1>5. S \in SUBSET Nat /\ S # {}
  BY <1>4
<1>6. PICK k \in S : \A j \in S : k <= j
  <2> HIDE DEF S
  <2> QED BY <1>5, LeastNatural
<1>7. k \in 0..LastSeq(p) /\ k \in Nat /\ flit[<<p, k>>].status = "Injecting"
  BY <1>3, <1>6
<1>8. <<p, k>> \in FlitIds(p, packet[p].length)
  BY <1>3, <1>7 DEF FlitIds
<1>9. First(<<p, k>>)
  <2>1. ASSUME NEW i \in 0..(k - 1) PROVE flit[<<p, i>>].status # "Injecting"
    <3>1. i \in 0..LastSeq(p) /\ ~(k <= i)
      BY <1>3, <1>7, <2>1
    <3> QED BY <1>6, <3>1
  <2> QED BY <1>7, <2>1
<1>10. \E f \in FlitIds(p, packet[p].length) : First(f)
  BY <1>8, <1>9
<1>11. NextFlit(n) \in FlitIds(p, packet[p].length) /\ First(NextFlit(n))
  BY <1>10 DEF NextFlit
<1>12. NextFlit(n)[1] = p
  BY <1>11 DEF FlitIds
<1> QED
  BY <1>3, <1>11, <1>12 DEF IsNext

\* The next flit of the packet goes out; the arriving flit, if it stays, goes
\* into the EXB, which is released with the tail if it is empty.
LEMMA InjectNextStep ==
  ASSUME IInv, NEW n \in Node, NEW o \in Offers(n), NEW E \in EjectChoices(n),
         Generate(o), Continue(n, o, E), NEW buffer, NEW hoff,
         InjectNext(n, E, buffer, hoff), ~Interrupted(n),
         \/ /\ SlotFree(n, OngoingRing(n), E)
            /\ hoff = {} /\ buffer = OngoingExb(n)
         \/ /\ ~SlotFree(n, OngoingRing(n), E) /\ ~ExbFull(n)
            /\ hoff = {Arrival(n, OngoingRing(n))}
            /\ buffer = Append(OngoingExb(n), Arrival(n, OngoingRing(n)))
  PROVE  \E onto, off, new : NodeStep(n, E, onto, off, new)
<1>1. PICK h : h = OngoingRing(n)
  OBVIOUS
<1>2. PICK b : b = OngoingExb(n)
  OBVIOUS
<1>3. PICK a : a = Arrival(n, h)
  OBVIOUS
<1>4. PICK f : f = NextFlit(n)
  OBVIOUS
<1>5. /\ TypeOK /\ BufferedSets /\ EjectFacts(n, E) /\ ongoing[n] # None
  BY BufferedAsSets, EjectChoiceFacts DEF IInv, Continue
<1>6. PacketStep(n, E, {})
  BY DetachStep DEF Continue
<1>7. /\ h \in Ring /\ h \in Bound(n) /\ b = exb[n][h]
      /\ b \in Seq(FlitId) /\ Distinct(b) /\ Len(b) \in Nat /\ Len(b) <= ExbSize
      /\ \A r \in RestBound(n, h) : exb[n][r] # <<>>
      /\ packet'[ongoing[n]] = packet[ongoing[n]]
      /\ ongoing'[n] = ongoing[n] => OngoingRing(n)' = h
  BY <1>1, <1>2, <1>5, <1>6, ContinueFacts
<1>8. /\ IsNext(n, f) /\ f \in DOMAIN flit /\ f[1] = ongoing[n]
      /\ flit[f].status = "Injecting"
      /\ packet[f[1]].ring = h /\ packet'[f[1]].ring = h
  <2>1. IsNext(n, f)
    BY <1>4, <1>5, NextFlitFacts
  <2> QED BY <1>1, <1>7, <2>1 DEF IsNext, OngoingRing
<1>9. \A g \in Elems(b) : g \in DOMAIN flit /\ flit[g].status = "Buffered"
  BY <1>6, <1>7, BufferedFlit
<1>10. \/ SlotFree(n, h, E) /\ hoff = {} /\ buffer = b
       \/ /\ ~SlotFree(n, h, E) /\ Len(b) # ExbSize
          /\ hoff = {a} /\ buffer = Append(b, a)
  BY <1>1, <1>2, <1>3 DEF ExbFull
<1>11. /\ buffer \in Seq(FlitId) /\ Distinct(buffer) /\ Len(buffer) <= ExbSize
       /\ Elems(buffer) = Elems(b) \cup hoff
       /\ buffer = <<>> => b = <<>> /\ hoff = {}
  <2>1. CASE SlotFree(n, h, E) /\ hoff = {} /\ buffer = b
    BY <1>7, <2>1
  <2>2. CASE /\ ~SlotFree(n, h, E) /\ Len(b) # ExbSize
             /\ hoff = {a} /\ buffer = Append(b, a)
    <3>1. a \in FlitId /\ flit[a].status = "Routing"
      BY <1>3, <2>2, TakenSlot
    <3>2. a \notin Elems(b)
      BY <1>9, <3>1
    <3>3. /\ Append(b, a) \in Seq(FlitId) /\ Len(Append(b, a)) = Len(b) + 1
          /\ Append(b, a) # <<>>
          /\ Distinct(Append(b, a))
          /\ Elems(Append(b, a)) = Elems(b) \cup {a}
      BY <1>7, <3>1, <3>2, AppendFacts
    <3>4. Len(b) + 1 <= ExbSize
      BY <1>7, <2>2, Numbers
    <3> QED BY <2>2, <3>3, <3>4
  <2> QED BY <1>10, <2>1, <2>2
<1>12. PICK last \in BOOLEAN : last <=> f[2] = LastSeq(f[1])
  BY DEF LastSeq
<1>13. /\ interrupt' = [interrupt EXCEPT ![n] = @ /\ ~EnableInterrupt]
       /\ ongoing' = [ongoing EXCEPT ![n] = IF last THEN None ELSE @]
       /\ exb' = [exb EXCEPT ![n] = IF last /\ buffer = <<>>
                                    THEN RestExb(n, h, E)
                                    ELSE RestExbWith(n, h, E, buffer)]
       /\ Settle(n, E, RestPopped(n, h) \cup {f},
                 RestPushed(n, h, E) \cup hoff, {})
       /\ forward_length' = forward_length
  BY <1>1, <1>4, <1>12 DEF InjectNext
<1>14. /\ ongoing'[n] = IF last THEN None ELSE ongoing[n]
       /\ ongoing' = [ongoing EXCEPT ![n] = ongoing'[n]]
  BY <1>5, <1>13 DEF TypeOK
<1>15. PICK hon : hon = {f}
  OBVIOUS
<1>16. HandledRing(n, E, h, hon, hoff, {})
       /\ (ongoing'[n] # None => h \in Bound(n)' /\ OngoingRing(n)' = h)
  <2>1. SlotFree(n, h, E) \/ Arrival(n, h) \in hoff
    BY <1>3, <1>10
  <2>2. CASE ~(last /\ buffer = <<>>)
    <3>1. exb' = [exb EXCEPT ![n] = RestExbWith(n, h, E, buffer)]
      BY <1>13, <2>2
    <3>2. KeptBound(n, E, h, b, buffer, hon, hoff)
      <4>1. \A g : g \in Elems(buffer) <=>
                     (g \in Elems(b) /\ g \notin hon) \/ g \in hoff
        BY <1>8, <1>9, <1>11, <1>15
      <4>2. buffer # <<>> \/ ongoing'[n] = ongoing[n]
        BY <1>14, <2>2
      <4>3. \A g \in hon :
              /\ packet'[g[1]].ring = h /\ packet[g[1]].ring = h
              /\ IsNext(n, g)
              /\ \A k \in hon : g = k
        BY <1>8, <1>15
      <4>4. \A g \in hoff : g = Arrival(n, h) /\ ~SlotFree(n, h, E)
        BY <1>3, <1>10
      <4> QED BY <1>11, <2>1, <4>1, <4>2, <4>3, <4>4 DEF KeptBound
    <3>3. HandledRing(n, E, h, hon, hoff, {}) /\ h \in Bound(n)'
      BY <1>1, <1>2, <1>5, <1>6, <3>1, <3>2, KeptRing
    <3> QED BY <1>7, <1>14, <3>3
  <2>3. CASE last /\ buffer = <<>>
    <3>1. exb'[n] = RestExb(n, h, E)
      BY <1>5, <1>13, <2>3 DEF TypeOK
    <3>2. h \notin RestKept(n, h, E)
      BY DEF RestKept, RestBound
    <3>3. Bound(n)' = RestKept(n, h, E)
          /\ \A r \in RestKept(n, h, E) : exb'[n][r] = RestBuffer(n, r, E)
      BY <3>1 DEF RestExb, Bound
    <3>4. OwnExb(n)
      <4>1. exb' = [exb EXCEPT ![n] = exb'[n]]
        BY <1>5, <1>13, <2>3 DEF TypeOK
      <4>2. exb'[n] = [r \in Bound(n)' |-> exb'[n][r]]
        BY <3>1 DEF RestExb, Bound
      <4> QED BY <4>1, <4>2, Zenon DEF OwnExb
    <3>5. h \notin Bound(n)' /\ Bound(n)' \ {h} = RestKept(n, h, E)
      BY <3>2, <3>3
    <3>6. Elems(exb[n][h]) = {} /\ hoff = {}
      <4>1. exb[n][h] = <<>> /\ hoff = {}
        BY <1>7, <1>11, <2>3
      <4>2. Elems(<<>>) = {}
        BY DEF Elems
      <4> QED BY <4>1, <4>2
    <3>7. \A g \in hon :
            /\ packet'[g[1]].ring = h /\ packet[g[1]].ring = h
            /\ IsNext(n, g)
            /\ \A k \in hon : g = k
      BY <1>8, <1>15
    <3>8. \A r \in RestKept(n, h, E) : exb'[n][r] = RestBuffer(n, r, E)
      BY <3>3
    <3>9. HandledRing(n, E, h, hon, hoff, {})
      BY <1>7, <2>1, <3>4, <3>5, <3>6, <3>7, <3>8 DEF HandledRing
    <3> QED BY <1>14, <2>3, <3>9
  <2> QED BY <2>2, <2>3
<1>17. PICK onto : onto = RestPopped(n, h) \cup hon
  OBVIOUS
<1>18. PICK off : off = RestPushed(n, h, E) \cup hoff
  OBVIOUS
<1>19. FlitStep(n, E, onto, off) /\ RecordStep(n, E)
  BY <1>6, <1>13, <1>15, <1>17, <1>18, SettledFlits
<1>20. /\ WireStep(n, E, onto, off, {}) /\ BufferStep(n, onto, off)
       /\ PoolStep(n)
  BY <1>6, <1>16, <1>17, <1>18, RingSteps
<1>21. InjectionStep(n, onto, {})
  <2>1. f \in onto /\ IsNext(n, f)
    BY <1>8, <1>15, <1>17
  <2>2. ongoing'[n] # None => OngoingRing(n)' \in Bound(n)'
    BY <1>16
  <2> QED BY <1>12, <1>14, <2>1, <2>2 DEF InjectionStep
<1>22. QueueStep(n, {})
  BY QueueKept DEF Continue
<1>23. WindowStep(n)
  <2>1. /\ interrupt'[n] = (interrupt[n] /\ ~EnableInterrupt)
        /\ interrupt' = [interrupt EXCEPT ![n] = interrupt'[n]]
    BY <1>5, <1>13 DEF TypeOK
  <2>2. interrupt'[n] \in BOOLEAN
    BY <2>1
  <2>3. EnableInterrupt => forward_length[n] = 0
    BY DEF IInv, InterruptWindow, Interrupted
  <2>4. /\ forward_length' = [forward_length EXCEPT ![n] = forward_length'[n]]
        /\ forward_length'[n] \in Int /\ forward_length'[n] = forward_length[n]
    BY <1>5, <1>13 DEF TypeOK
  <2> QED BY <2>1, <2>2, <2>3, <2>4 DEF WindowStep
<1> QED
  BY <1>5, <1>6, <1>19, <1>20, <1>21, <1>22, <1>23 DEF NodeStep

\* The flits at the front of an EXB that belong to one packet are counted.
LEMMA FrontRunFacts ==
  ASSUME NEW S, NEW b \in Seq(S), b # <<>>
  PROVE  /\ FrontRun(b) \in 1..Len(b)
         /\ \A i \in 1..FrontRun(b) : b[i][1] = b[1][1]
<1> DEFINE D == {k \in 1..Len(b) : k = Len(b) \/ b[k + 1][1] # b[1][1]}
           Run1(k) == /\ \A i \in 1..k : b[i][1] = b[1][1]
                      /\ k < Len(b) => b[k + 1][1] # b[1][1]
<1>1. Len(b) \in Nat /\ Len(b) >= 1
  BY EmptySeq
<1>2. Len(b) \in D /\ D \in SUBSET Nat
  BY <1>1
<1>3. PICK k \in D : \A j \in D : k <= j
  <2> HIDE DEF D
  <2> QED BY <1>2, LeastNatural
<1>4. k \in 1..Len(b) /\ (k = Len(b) \/ b[k + 1][1] # b[1][1])
  BY <1>3
<1>5. ASSUME NEW i \in 1..k PROVE b[i][1] = b[1][1]
  <2>1. CASE i = 1
    BY <2>1
  <2>2. CASE i # 1
    <3>1. i - 1 \in 1..Len(b) /\ ~(k <= i - 1) /\ (i - 1) + 1 = i
      BY <1>1, <1>4, <1>5, <2>2
    <3>2. i - 1 \notin D
      BY <1>3, <3>1
    <3> QED BY <3>1, <3>2
  <2> QED BY <2>1, <2>2
<1>6. \E m \in 1..Len(b) : Run1(m)
  BY <1>1, <1>4, <1>5
<1>7. FrontRun(b) \in 1..Len(b) /\ Run1(FrontRun(b))
  BY <1>6 DEF FrontRun
<1> QED
  BY <1>7

\* count flits of one packet are at the front of b, and t is what is left of b
\* when the front has gone, and a may have come; "after" counts on.
Counting(b, a, count, t, after) ==
  /\ count \in 1..Len(b)
  /\ \A i \in 1..count : b[i][1] = b[1][1]
  /\ \/ t = Tail(b) /\ after = count
     \/ t = Append(Tail(b), a) /\ after = ExtendedLength(b, a, count)

\* What is left to forward after the front has gone and a flit may have come:
\* the count still covers flits of one packet.
LEMMA WindowAfter ==
  ASSUME NEW b \in Seq(FlitId), b # <<>>, Len(b) <= ExbSize,
         NEW a \in FlitId, NEW length, NEW t, NEW after,
         Counting(b, a, length, t, after)
  PROVE  /\ after \in Nat
         /\ after - 1 # 0 => after - 1 \in 1..Len(t)
         /\ \A i \in 1..(after - 1) : t[i][1] = t[1][1]
<1>1. /\ Len(b) \in Nat /\ Len(b) >= 1 /\ ExbSize \in Nat \ {0}
      /\ length \in Nat /\ length >= 1 /\ length <= Len(b)
  BY EmptySeq, Numbers DEF Counting
<1>2. PICK s \in Seq(FlitId) : s = Tail(b)
  BY HeadTailProperties
<1>3. /\ Len(s) = Len(b) - 1
      /\ \A i \in 1..(Len(b) - 1) : s[i] = b[i + 1]
  BY <1>2, HeadTailProperties
<1>4. ASSUME NEW i \in 1..(length - 1)
      PROVE  i \in 1..Len(s) /\ s[i][1] = b[1][1]
  <2>1. /\ i \in 1..(Len(b) - 1) /\ i \in 1..Len(s)
        /\ i + 1 \in 1..length
    BY <1>1, <1>3
  <2>2. s[i] = b[i + 1]
    BY <1>3, <2>1
  <2>3. b[i + 1][1] = b[1][1]
    BY <2>1 DEF Counting
  <2> QED BY <2>1, <2>2, <2>3
<1>5. CASE t = Tail(b) /\ after = length
  <2>1. t = s
    BY <1>2, <1>5
  <2>2. after - 1 # 0 => after - 1 \in 1..Len(s)
    BY <1>1, <1>3, <1>5
  <2>3. ASSUME NEW i \in 1..(after - 1) PROVE s[i][1] = s[1][1]
    <3>1. 1 \in 1..(length - 1) /\ i \in 1..(length - 1)
      BY <1>1, <1>5, <2>3
    <3> QED BY <1>4, <3>1
  <2> QED BY <1>1, <1>5, <2>1, <2>2, <2>3
<1>6. CASE t = Append(Tail(b), a) /\ after = ExtendedLength(b, a, length)
  <2>1. /\ Len(t) = Len(s) + 1
        /\ \A i \in 1..Len(s) : t[i] = s[i]
        /\ t[Len(s) + 1] = a
    BY <1>2, <1>6, AppendProperties
  <2>2. CASE length = ExbSize /\ a[1] = b[1][1]
    <3>1. after = length + 1 /\ Len(t) = length /\ Len(s) = length - 1
      BY <1>1, <1>3, <1>6, <2>1, <2>2 DEF ExtendedLength
    <3>2. after \in Nat /\ after - 1 = length /\ after - 1 \in 1..Len(t)
      BY <1>1, <3>1
    <3>3. \A i \in 1..length : i \in 1..(length - 1) \/ i = Len(s) + 1
      BY <1>1, <3>1
    <3>4. \A i \in 1..length : t[i][1] = b[1][1]
      BY <1>4, <2>1, <2>2, <3>3
    <3>5. 1 \in 1..length
      BY <1>1
    <3> QED BY <3>2, <3>4, <3>5
  <2>3. CASE ~(length = ExbSize /\ a[1] = b[1][1])
    <3>1. after = length
      BY <1>6, <2>3 DEF ExtendedLength
    <3>2. after - 1 # 0 => after - 1 \in 1..Len(t)
      BY <1>1, <1>3, <2>1, <3>1
    <3>3. ASSUME NEW i \in 1..(after - 1) PROVE t[i][1] = t[1][1]
      <4>1. 1 \in 1..(length - 1) /\ i \in 1..(length - 1)
        BY <1>1, <3>1, <3>3
      <4>2. /\ i \in 1..Len(s) /\ s[i][1] = b[1][1]
            /\ 1 \in 1..Len(s) /\ s[1][1] = b[1][1]
        BY <1>4, <4>1
      <4>3. t[i] = s[i] /\ t[1] = s[1]
        BY <2>1, <4>2
      <4> QED BY <4>2, <4>3
    <3> QED BY <1>1, <3>1, <3>2, <3>3
  <2> QED BY <2>2, <2>3
<1> QED
  BY <1>5, <1>6 DEF Counting

\* A forwarding step leaves the window of the interrupt as WindowStep says.
LEMMA ForwardKeepsWindow ==
  ASSUME IInv, NEW n \in Node, NEW o \in Offers(n), NEW E \in EjectChoices(n),
         Continue(n, o, E), NEW t, NEW hoff, NEW after,
         ForwardFront(n, E, t, hoff, after),
         interrupt' = [interrupt EXCEPT ![n] = TRUE],
         NEW b, b = OngoingExb(n), b # <<>>,
         NEW count, NEW a \in FlitId, Counting(b, a, count, t, after)
  PROVE  WindowStep(n)
<1>1. PICK h : h = OngoingRing(n)
  OBVIOUS
<1>2. TypeOK /\ ongoing[n] # None /\ PacketStep(n, E, {})
  BY DetachStep DEF IInv, Continue
<1>3. /\ exb' = [exb EXCEPT ![n] = RestExbWith(n, h, E, t)]
      /\ forward_length' = [forward_length EXCEPT ![n] = after - 1]
      /\ ongoing' = ongoing
  BY <1>1 DEF ForwardFront
<1>4. b \in Seq(FlitId) /\ Len(b) <= ExbSize /\ OngoingRing(n)' = h
  <2>1. ongoing'[n] = ongoing[n]
    BY <1>3
  <2> QED BY <1>1, <1>2, <2>1, ContinueFacts
<1>5. OngoingExb(n)' = t
  BY <1>2, <1>3, <1>4 DEF OngoingExb, TypeOK, RestExbWith
<1>6. /\ after \in Nat
      /\ after - 1 # 0 => after - 1 \in 1..Len(t)
      /\ \A i \in 1..(after - 1) : t[i][1] = t[1][1]
  BY <1>4, WindowAfter
<1>7. /\ forward_length'[n] = after - 1
      /\ forward_length' = [forward_length EXCEPT ![n] = forward_length'[n]]
      /\ forward_length'[n] \in Int
  BY <1>2, <1>3, <1>6 DEF TypeOK
<1>8. /\ interrupt'[n] = TRUE
      /\ interrupt' = [interrupt EXCEPT ![n] = interrupt'[n]]
  BY <1>2 DEF TypeOK
<1>9. ongoing'[n] # None
  BY <1>2, <1>3
<1>10. forward_length'[n] # 0 =>
         /\ forward_length'[n] \in 1..Len(OngoingExb(n)')
         /\ \A i \in 1..forward_length'[n] :
              OngoingExb(n)'[i][1] = OngoingExb(n)'[1][1]
  BY <1>5, <1>6, <1>7
<1> QED
  BY <1>7, <1>8, <1>9, <1>10 DEF WindowStep

\* While the interrupt lasts its window says what is counted.
LEMMA InterruptedFacts ==
  ASSUME IInv, NEW n \in Node, Interrupted(n), ongoing[n] # None,
         NEW b, b = OngoingExb(n), b \in Seq(FlitId)
  PROVE  /\ b # <<>> /\ b[1] \in FlitId
         /\ forward_length[n] \in 1..Len(b)
         /\ \A i \in 1..forward_length[n] : b[i][1] = b[1][1]
         /\ interrupt = [interrupt EXCEPT ![n] = TRUE]
<1>1. /\ forward_length[n] \in 1..Len(b)
      /\ \A i \in 1..forward_length[n] : b[i][1] = b[1][1]
  BY DEF IInv, InterruptWindow, Interrupted
<1>2. b # <<>> /\ b[1] \in FlitId
  <2>1. Len(b) >= 1 /\ Len(b) \in Nat
    BY <1>1
  <2> QED BY <2>1, ElementOfSeq
<1>3. interrupt = [interrupt EXCEPT ![n] = TRUE]
  BY DEF IInv, TypeOK, Interrupted
<1> QED
  BY <1>1, <1>2, <1>3

\* The EXB of the injection is a sequence of flits.
LEMMA OngoingBuffer ==
  ASSUME IInv, NEW n \in Node, NEW E \in EjectChoices(n), NEW o,
         Continue(n, o, E)
  PROVE  /\ OngoingExb(n) \in Seq(FlitId) /\ Len(OngoingExb(n)) \in Nat
         /\ ongoing[n] # None
<1>1. PacketStep(n, E, {}) /\ ongoing[n] # None
  BY DetachStep DEF Continue
<1> QED
  BY <1>1, ContinueFacts

\* The interrupted injection lets one flit out of the EXB.
LEMMA InterruptPopStep ==
  ASSUME IInv, NEW n \in Node, NEW o \in Offers(n), NEW E \in EjectChoices(n),
         Generate(o), InterruptPop(n, o, E)
  PROVE  \E onto, off, new : NodeStep(n, E, onto, off, new)
<1>1. PICK b : b = OngoingExb(n)
  OBVIOUS
<1>2. /\ Continue(n, o, E) /\ Interrupted(n) /\ SlotFree(n, OngoingRing(n), E)
      /\ ForwardFront(n, E, Tail(b), {}, forward_length[n])
      /\ interrupt' = interrupt
  BY <1>1 DEF InterruptPop
<1>3. b \in Seq(FlitId) /\ ongoing[n] # None
  BY <1>1, <1>2, OngoingBuffer
<1>4. /\ b # <<>> /\ b[1] \in FlitId
      /\ forward_length[n] \in 1..Len(b)
      /\ \A i \in 1..forward_length[n] : b[i][1] = b[1][1]
      /\ interrupt' = [interrupt EXCEPT ![n] = TRUE]
  BY <1>1, <1>2, <1>3, InterruptedFacts
<1>5. PICK t, count : t = Tail(b) /\ count = forward_length[n]
  OBVIOUS
<1>6. Counting(b, b[1], count, t, count)
  BY <1>4, <1>5 DEF Counting
<1>7. WindowStep(n)
  BY <1>1, <1>2, <1>4, <1>5, <1>6, ForwardKeepsWindow
<1> QED
  BY <1>1, <1>2, <1>4, <1>7, ForwardStep

\* The interrupted injection lets one flit out and takes the arriving one in.
LEMMA InterruptPopAndPushStep ==
  ASSUME IInv, NEW n \in Node, NEW o \in Offers(n), NEW E \in EjectChoices(n),
         Generate(o), InterruptPopAndPush(n, o, E)
  PROVE  \E onto, off, new : NodeStep(n, E, onto, off, new)
<1>1. PICK b : b = OngoingExb(n)
  OBVIOUS
<1>2. PICK a : a = Arrival(n, OngoingRing(n))
  OBVIOUS
<1>3. PICK t : t = Append(Tail(b), a)
  OBVIOUS
<1>4. PICK after : after = ExtendedLength(b, a, forward_length[n])
  OBVIOUS
<1>5. /\ Continue(n, o, E) /\ Interrupted(n) /\ ~SlotFree(n, OngoingRing(n), E)
      /\ ForwardFront(n, E, t, {a}, after)
      /\ interrupt' = interrupt
  BY <1>1, <1>2, <1>3, <1>4 DEF InterruptPopAndPush
<1>6. b \in Seq(FlitId) /\ ongoing[n] # None
  BY <1>1, <1>5, OngoingBuffer
<1>7. /\ b # <<>>
      /\ forward_length[n] \in 1..Len(b)
      /\ \A i \in 1..forward_length[n] : b[i][1] = b[1][1]
      /\ interrupt' = [interrupt EXCEPT ![n] = TRUE]
  BY <1>1, <1>5, <1>6, InterruptedFacts
<1>8. a \in FlitId
  BY <1>2, <1>5, TakenSlot
<1>9. PICK count : count = forward_length[n]
  OBVIOUS
<1>10. Counting(b, a, count, t, after)
  BY <1>3, <1>4, <1>7, <1>9 DEF Counting
<1>11. WindowStep(n)
  BY <1>1, <1>5, <1>7, <1>8, <1>10, ForwardKeepsWindow
<1> QED
  BY <1>1, <1>2, <1>3, <1>5, <1>7, <1>11, ForwardStep

\* A full EXB interrupts the injection.
LEMMA StartInterruptStep ==
  ASSUME IInv, NEW n \in Node, NEW o \in Offers(n), NEW E \in EjectChoices(n),
         Generate(o), StartInterrupt(n, o, E)
  PROVE  \E onto, off, new : NodeStep(n, E, onto, off, new)
<1>1. PICK b : b = OngoingExb(n)
  OBVIOUS
<1>2. PICK a : a = Arrival(n, OngoingRing(n))
  OBVIOUS
<1>3. PICK t : t = Append(Tail(b), a)
  OBVIOUS
<1>4. PICK count : count = FrontRun(b)
  OBVIOUS
<1>5. PICK after : after = ForwardLength(b, a)
  OBVIOUS
<1>6. /\ Continue(n, o, E) /\ ~SlotFree(n, OngoingRing(n), E)
      /\ ForwardFront(n, E, t, {a}, after) /\ Len(b) = ExbSize
      /\ interrupt' = [interrupt EXCEPT ![n] = TRUE]
  BY <1>1, <1>2, <1>3, <1>5 DEF StartInterrupt, ExbFull
<1>7. b \in Seq(FlitId) /\ b # <<>>
  <2>1. b \in Seq(FlitId) /\ Len(b) # 0
    BY <1>1, <1>6, OngoingBuffer, Numbers
  <2> QED BY <2>1
<1>8. count \in 1..Len(b) /\ \A i \in 1..count : b[i][1] = b[1][1]
  BY <1>4, <1>7, FrontRunFacts
<1>9. after = ExtendedLength(b, a, count)
  BY <1>4, <1>5 DEF ForwardLength, ExtendedLength
<1>10. a \in FlitId
  BY <1>2, <1>6, TakenSlot
<1>11. Counting(b, a, count, t, after)
  BY <1>3, <1>8, <1>9 DEF Counting
<1>12. WindowStep(n)
  BY <1>1, <1>6, <1>7, <1>10, <1>11, ForwardKeepsWindow
<1> QED
  BY <1>1, <1>2, <1>3, <1>6, <1>7, <1>12, ForwardStep

\* The next flit goes into a free slot.
LEMMA InjectFreeStep ==
  ASSUME IInv, NEW n \in Node, NEW o \in Offers(n), NEW E \in EjectChoices(n),
         Generate(o), InjectFree(n, o, E)
  PROVE  \E onto, off, new : NodeStep(n, E, onto, off, new)
BY InjectNextStep DEF InjectFree

\* The next flit goes into the slot of the arriving flit, which is parked.
LEMMA InjectPushStep ==
  ASSUME IInv, NEW n \in Node, NEW o \in Offers(n), NEW E \in EjectChoices(n),
         Generate(o), InjectPush(n, o, E)
  PROVE  \E onto, off, new : NodeStep(n, E, onto, off, new)
BY InjectNextStep DEF InjectPush

\* Every run of a node is a step of this shape.
LEMMA RunSteps ==
  ASSUME IInv, NEW n \in Node, NEW o \in Offers(n), NEW E \in EjectChoices(n),
         Generate(o), Run(n, o, E)
  PROVE  \E onto, off, new : NodeStep(n, E, onto, off, new)
<1>1. CASE Idle(n, o, E)
  BY <1>1, IdleStep
<1>2. CASE Inject(n, o, E)
  BY <1>2, InjectStep
<1>3. CASE InterruptPop(n, o, E)
  BY <1>3, InterruptPopStep
<1>4. CASE InjectFree(n, o, E)
  BY <1>4, InjectFreeStep
<1>5. CASE InterruptPopAndPush(n, o, E)
  BY <1>5, InterruptPopAndPushStep
<1>6. CASE StartInterrupt(n, o, E)
  BY <1>6, StartInterruptStep
<1>7. CASE InjectPush(n, o, E)
  BY <1>7, InjectPushStep
<1> QED
  BY <1>1, <1>2, <1>3, <1>4, <1>5, <1>6, <1>7 DEF Run
=============================================================================
