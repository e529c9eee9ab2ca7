----------------------------- MODULE NocProofs ------------------------------
(***************************************************************************)
(* The invariants of Noc for every topology, routing table, traffic and    *)
(* number and size of links and buffers; and that Noc implements Delivery. *)
(***************************************************************************)
EXTENDS NocSteps

-----------------------------------------------------------------------------
(* What a step makes of a flit.                                            *)

\* The flits in memory after a step are those of the packets that stay and of
\* the packet that starts; where each is and in which state.
LEMMA AfterStep ==
  ASSUME IInv, NEW n \in Node, NEW E, NEW onto, NEW off, NEW new,
         NodeStep(n, E, onto, off, new)
  PROVE  /\ DOMAIN flit' = LiveFlits'
         /\ \A f \in DOMAIN flit :
              f[1] \notin Finished(n, E) =>
                /\ f \in DOMAIN flit'
                /\ packet'[f[1]] = packet[f[1]]
                /\ f[1] \in DOMAIN packet'
                /\ flit'[f].node = flit[f].node
         /\ \A f \in DOMAIN flit' :
              /\ f[1] \in DOMAIN packet'
              /\ \/ f \in DOMAIN flit /\ f[1] \notin Finished(n, E)
                 \/ f \notin DOMAIN flit /\ f[1] \in new /\ flit'[f].node = n
              /\ flit'[f].status = StatusAfter(n, f, E, onto, off)
              /\ flit'[f] = [status |-> flit'[f].status, node |-> flit'[f].node]
<1>1. TypeOK /\ PacketStep(n, E, new) /\ FlitStep(n, E, onto, off)
  BY DEF IInv, NodeStep
<1>2. DOMAIN flit' = LiveFlits'
  BY <1>1 DEF FlitStep
<1>3. \A f : f \in LiveFlits' <=>
          /\ f[1] \in DOMAIN packet'
          /\ f \in FlitIds(f[1], packet'[f[1]].length)
  <2>1. \A f : f \in LiveFlits' <=>
            \E p \in DOMAIN packet' : f \in FlitIds(p, packet'[p].length)
    BY DEF LiveFlits, FlitIds
  <2>2. \A f, p : f \in FlitIds(p, packet'[p].length) => f[1] = p
    BY DEF FlitIds
  <2> QED BY <2>1, <2>2
<1>4. ASSUME NEW f \in DOMAIN flit, f[1] \notin Finished(n, E)
      PROVE  /\ f \in DOMAIN flit'
             /\ packet'[f[1]] = packet[f[1]]
             /\ f[1] \in DOMAIN packet'
             /\ flit'[f].node = flit[f].node
  <2>1. f[1] \in DOMAIN packet
    BY <1>1, FlitFacts
  <2>2. f \in FlitIds(f[1], packet[f[1]].length)
    BY <1>1, <2>1, PacketFlits
  <2>3. f[1] \in DOMAIN packet' /\ packet'[f[1]] = packet[f[1]]
    BY <1>1, <1>4, <2>1 DEF PacketStep
  <2>4. f \in LiveFlits'
    BY <1>3, <2>2, <2>3
  <2>5. flit'[f] = [status |-> StatusAfter(n, f, E, onto, off),
                    node |-> NodeAfter(n, f)]
    BY <1>1, <2>4 DEF FlitStep
  <2> QED
    BY <1>2, <2>3, <2>4, <2>5 DEF NodeAfter
<1>5. ASSUME NEW f \in DOMAIN flit'
      PROVE  /\ f[1] \in DOMAIN packet'
             /\ \/ f \in DOMAIN flit /\ f[1] \notin Finished(n, E)
                \/ f \notin DOMAIN flit /\ f[1] \in new /\ flit'[f].node = n
             /\ flit'[f].status = StatusAfter(n, f, E, onto, off)
             /\ flit'[f] = [status |-> flit'[f].status, node |-> flit'[f].node]
  <2>1. f \in LiveFlits' /\ f[1] \in DOMAIN packet'
    BY <1>2, <1>3, <1>5
  <2>2. flit'[f] = [status |-> StatusAfter(n, f, E, onto, off),
                    node |-> NodeAfter(n, f)]
    BY <1>1, <2>1 DEF FlitStep
  <2>3. flit'[f] = [status |-> flit'[f].status, node |-> flit'[f].node]
    BY <2>2
  <2>4. CASE f[1] \in new
    <3>1. f \notin DOMAIN flit
      BY <1>1, <2>4, FlitFacts DEF PacketStep
    <3> QED BY <2>1, <2>2, <2>3, <2>4, <3>1 DEF NodeAfter
  <2>5. CASE f[1] \notin new
    <3>1. f[1] \in DOMAIN packet /\ f[1] \notin Finished(n, E)
          /\ packet'[f[1]] = packet[f[1]]
      BY <1>1, <2>1, <2>5 DEF PacketStep
    <3>2. f \in DOMAIN flit
      BY <1>1, <1>3, <2>1, <3>1, PacketFlits
    <3> QED BY <2>1, <2>2, <2>3, <3>1, <3>2
  <2> QED BY <2>4, <2>5
<1> QED
  BY <1>2, <1>4, <1>5

\* The sets of flits a step touches are disjoint, and each tells where its
\* flits were before and are after the step.
LEMMA StatusFacts ==
  ASSUME IInv, NEW n \in Node, NEW E, NEW onto, NEW off, NEW new,
         NodeStep(n, E, onto, off, new), NEW f \in DOMAIN flit'
  PROVE  /\ f \in Ejected(n, E) => /\ flit'[f].status = "Ejected"
                                   /\ f \in DOMAIN flit
                                   /\ flit[f].status = "Routing"
         /\ f \in off => /\ flit'[f].status = "Buffered"
                         /\ f \in DOMAIN flit
                         /\ flit[f].status = "Routing"
         /\ f \in onto => flit'[f].status = "Routing"
         /\ f \notin Ejected(n, E) /\ f \notin off /\ f \notin onto =>
              flit'[f].status = IF f \in DOMAIN flit THEN flit[f].status
                                ELSE "Injecting"
         /\ f \in onto /\ f \in DOMAIN flit =>
              \/ flit[f].status = "Buffered" /\ flit[f].node = n
              \/ IsNext(n, f)
         /\ f \in onto /\ f \notin DOMAIN flit => f[2] = 0
         /\ f \notin DOMAIN flit /\ f[2] = 0 => f \in onto
<1>1. /\ TypeOK /\ EjectFacts(n, E) /\ WireStep(n, E, onto, off, new)
      /\ PacketStep(n, E, new)
  BY DEF IInv, NodeStep
<1>2. flit'[f].status = StatusAfter(n, f, E, onto, off)
  BY AfterStep
<1>3. f \in Ejected(n, E) => f \in DOMAIN flit /\ flit[f].status = "Routing"
  BY <1>1 DEF EjectFacts
<1>4. f \in off => /\ f \in DOMAIN flit /\ flit[f].status = "Routing"
                   /\ f \notin Ejected(n, E)
  BY <1>1 DEF WireStep
<1>5. f[1] \in new => f \notin DOMAIN flit
  BY <1>1, FlitFacts DEF PacketStep
<1>6. f \in onto => \/ /\ f \in DOMAIN flit
                       /\ flit[f].status = "Buffered" /\ flit[f].node = n
                    \/ IsNext(n, f)
                    \/ f \notin DOMAIN flit /\ f[2] = 0
  <2>1. f = <<f[1], 0>> => f[2] = 0
    OBVIOUS
  <2> QED BY <1>1, <1>5, <2>1 DEF WireStep
<1>7. f \in onto => f \notin Ejected(n, E) /\ f \notin off
  BY <1>3, <1>4, <1>6 DEF IsNext
<1>8. f \notin DOMAIN flit /\ f[2] = 0 => f \in onto
  <2> SUFFICES ASSUME f \notin DOMAIN flit, f[2] = 0 PROVE f \in onto
    OBVIOUS
  <2>1. f[1] \in new
    BY AfterStep
  <2>2. f = <<f[1], f[2]>>
    <3>1. f \in LiveFlits'
      BY AfterStep
    <3> QED BY <3>1 DEF LiveFlits, FlitIds
  <2> QED BY <1>1, <2>1, <2>2 DEF WireStep
<1> QED
  BY <1>2, <1>3, <1>4, <1>6, <1>7, <1>8 DEF StatusAfter, IsNext

-----------------------------------------------------------------------------
(* What a node ejects in a run.                                            *)

\* The packets a flit of which is ejected.
Arrived(n, E) == {f[1] : f \in Ejected(n, E)}

\* The flits ejected are finitely many, and each is of another packet.
LEMMA EjectedCount ==
  ASSUME TypeOK, NEW n \in Node, NEW E, EjectFacts(n, E)
  PROVE  /\ IsFiniteSet(Arrived(n, E)) /\ IsFiniteSet(Ejected(n, E))
         /\ Cardinality(Ejected(n, E)) \in Nat
         /\ Cardinality(Ejected(n, E)) = Cardinality(Arrived(n, E))
<1> DEFINE S == Arrived(n, E)
           F == Ejected(n, E)
           g == [p \in S |-> CHOOSE f \in F : f[1] = p]
<1>1. \A p \in S : g[p] \in F /\ g[p][1] = p
  BY DEF Arrived
<1>2. \A f \in F : f[1] \in S /\ g[f[1]] = f
  BY <1>1 DEF Arrived, EjectFacts
<1>3. IsFiniteSet(S)
  <2>1. IsFiniteSet(PacketId)
    BY FS_Interval, Numbers DEF PacketId
  <2>2. S \subseteq PacketId
    BY FlitFacts DEF Arrived, EjectFacts
  <2> QED BY <2>1, <2>2, FS_Subset
<1> HIDE DEF S, F, g
<1>4. g \in Bijection(S, F)
  <2>1. g \in [S -> F]
    BY <1>1 DEF g
  <2> QED BY <1>1, <1>2, <2>1 DEF Bijection, Injection, Surjection, IsInjective
<1>5. ExistsBijection(S, F)
  BY <1>4 DEF ExistsBijection
<1>6. IsFiniteSet(F) /\ Cardinality(F) = Cardinality(S) /\ Cardinality(F) \in Nat
  BY <1>3, <1>5, FS_Bijection, FS_CardinalityType
<1> QED BY <1>3, <1>6 DEF S, F

-----------------------------------------------------------------------------
(* A run of a node preserves each part of the invariant.                   *)

\* Every node step keeps the types.
LEMMA StepTypeOK ==
  ASSUME IInv, NEW n \in Node, turn = n, NEW E, NEW onto, NEW off, NEW new,
         NodeStep(n, E, onto, off, new)
  PROVE  TypeOK'
<1>1. TypeOK
  BY DEF IInv
<1>2. cycle' \in 0..MaxCycle /\ turn' \in 0..N
  BY SMTT(30), <1>1, NocAssumption DEF NodeStep, RecordStep, TypeOK, Node
<1>3. next_id' \in 0..MaxPackets /\ queue' \in [Node -> Seq(PacketInfo)]
  <2>1. QueueStep(n, new)
    BY DEF NodeStep
  <2>2. next_id' \in 0..MaxPackets
    BY SMTT(30), <1>1, <2>1, NocAssumption DEF QueueStep, TypeOK
  <2>3. queue' \in [Node -> Seq(PacketInfo)]
    BY ZenonT(30), <1>1, <2>1 DEF QueueStep, TypeOK
  <2> QED BY <2>2, <2>3
<1>4. /\ DOMAIN packet' \subseteq PacketId /\ packet' \in [DOMAIN packet' -> Packet]
      /\ \A p \in DOMAIN packet' :
           {packet'[p].src, packet'[p].dst} \subseteq NodesOn[packet'[p].ring]
  BY <1>1 DEF NodeStep, PacketStep, TypeOK
<1>5. /\ flit' \in [LiveFlits' -> [status : Status, node : Node]]
      /\ \A f \in LiveFlits' : flit'[f].node \in NodesOn[packet'[f[1]].ring]
  <2>1. ASSUME NEW f \in LiveFlits'
        PROVE  /\ flit'[f].status \in Status
               /\ flit'[f].node \in Node
               /\ flit'[f].node \in NodesOn[packet'[f[1]].ring]
               /\ flit'[f] = [status |-> flit'[f].status, node |-> flit'[f].node]
    <3>1. /\ f \in DOMAIN flit' /\ f[1] \in DOMAIN packet'
          /\ \/ f \in DOMAIN flit /\ f[1] \notin Finished(n, E)
             \/ f \notin DOMAIN flit /\ f[1] \in new /\ flit'[f].node = n
          /\ flit'[f].status = StatusAfter(n, f, E, onto, off)
          /\ flit'[f] = [status |-> flit'[f].status, node |-> flit'[f].node]
      BY <2>1, AfterStep
    <3>2. f \in DOMAIN flit => flit[f].status \in Status
      BY <1>1, FlitFacts
    <3>3. flit'[f].status \in Status
      BY <3>1, <3>2 DEF StatusAfter, Status
    <3>4. CASE f \in DOMAIN flit /\ f[1] \notin Finished(n, E)
      <4>1. flit'[f].node = flit[f].node /\ packet'[f[1]] = packet[f[1]]
        BY <3>4, AfterStep
      <4>2. flit[f].node \in Node /\ flit[f].node \in NodesOn[packet[f[1]].ring]
        BY <1>1, <3>4, FlitFacts DEF TypeOK
      <4> QED BY <3>1, <3>3, <4>1, <4>2
    <3>5. CASE f[1] \in new /\ flit'[f].node = n
      BY <3>1, <3>3, <3>5 DEF NodeStep, PacketStep
    <3> QED BY <3>1, <3>4, <3>5
  <2>2. DOMAIN flit' = LiveFlits' /\ flit' = [f \in LiveFlits' |-> flit'[f]]
    BY DEF NodeStep, FlitStep
  <2> QED BY <2>1, <2>2
<1>6. /\ DOMAIN exb' = Node
      /\ \A m \in Node : /\ Bound(m)' \subseteq Ring
                         /\ exb'[m] \in [Bound(m)' -> Seq(FlitId)]
  BY <1>1 DEF NodeStep, BufferStep, TypeOK, Bound
<1>7. ongoing' \in [Node -> DOMAIN packet' \cup {None}]
  <2>1. InjectionStep(n, onto, new) /\ PacketStep(n, E, new) /\ EjectFacts(n, E)
    BY DEF NodeStep
  <2>2. \A m \in Node : ongoing[m] \in DOMAIN packet' \cup {None}
    BY <1>1, <2>1, OngoingLives DEF PacketStep
  <2>3. ongoing'[n] \in DOMAIN packet' \cup {None}
    BY <2>1, <2>2 DEF InjectionStep, PacketStep
  <2> QED BY <1>1, <2>1, <2>2, <2>3 DEF InjectionStep, TypeOK
<1>8. interrupt' \in [Node -> BOOLEAN] /\ forward_length' \in [Node -> Int]
  BY <1>1 DEF NodeStep, WindowStep, TypeOK
<1>9. record' \in [Node -> SUBSET FlitId]
  <2>1. record' = [record EXCEPT ![n] = RecordAfter(n, E)]
    BY DEF NodeStep, RecordStep
  <2>2. \A f \in Ejected(n, E) : <<f[1], f[2] + 1>> \in FlitId
    <3>1. \A f \in Ejected(n, E) : f \in DOMAIN flit
      BY DEF NodeStep, EjectFacts
    <3>2. \A f \in DOMAIN flit : <<f[1], f[2] + 1>> \in FlitId
      BY <1>1, FlitFacts DEF FlitId
    <3> QED BY <3>1, <3>2
  <2>3. RecordAfter(n, E) \in SUBSET FlitId
    BY <1>1, <2>2 DEF RecordAfter, TypeOK
  <2> QED BY <1>1, <2>1, <2>3 DEF TypeOK
<1>10. received' \in [Node -> Nat]
  <2>1. Cardinality(Finished(n, E)) \in Nat
    <3>1. Finished(n, E) \in SUBSET (0..(MaxPackets - 1))
      BY <1>1 DEF NodeStep, EjectFacts, TypeOK, PacketId
    <3>2. IsFiniteSet(0..(MaxPackets - 1))
      BY FS_Interval, NocAssumption
    <3> QED BY <3>1, <3>2, FS_Subset, FS_CardinalityType
  <2> QED BY <1>1, <2>1 DEF NodeStep, RecordStep, TypeOK
<1>11. received_flit' \in [Node -> Nat]
  <2>1. Cardinality(Ejected(n, E)) \in Nat
    BY <1>1, EjectedCount DEF NodeStep
  <2> QED BY <1>1, <2>1 DEF NodeStep, RecordStep, TypeOK
<1> QED
  BY <1>2, <1>3, <1>4, <1>5, <1>6, <1>7, <1>8, <1>9, <1>10, <1>11 DEF TypeOK

\* Every node step keeps packet ids fresh.
LEMMA StepFreshIds ==
  ASSUME IInv, NEW n \in Node, NEW E, NEW onto, NEW off, NEW new,
         NodeStep(n, E, onto, off, new)
  PROVE  FreshIds'
<1>1. TypeOK /\ FreshIds /\ QueueStep(n, new) /\ PacketStep(n, E, new)
  BY DEF IInv, NodeStep
<1>2. /\ next_id \in Int /\ next_id' \in {next_id, next_id + 1}
      /\ \A p \in DOMAIN packet : p \in Int
      /\ \A m \in Node : \A i \in 1..Len(queue[m]) : queue[m][i].id \in Int
  <2>1. \A m \in Node : \A i \in 1..Len(queue[m]) : queue[m][i] \in PacketInfo
    BY <1>1, ElementOfSeq DEF TypeOK
  <2>2. next_id \in Int /\ next_id' \in {next_id, next_id + 1}
    BY <1>1, Numbers DEF TypeOK, QueueStep
  <2>3. \A p \in DOMAIN packet : p \in Int
    BY <1>1, Numbers DEF TypeOK
  <2>4. \A q \in PacketInfo : q.id \in Int
    BY Numbers DEF PacketInfo
  <2> QED BY <2>1, <2>2, <2>3, <2>4
<1>3. \A m \in Node : m # n => queue'[m] = queue[m]
  BY <1>1 DEF QueueStep, TypeOK
<1>4. ASSUME NEW i \in 1..Len(queue'[n])
      PROVE  /\ queue'[n][i].id < next_id'
             /\ queue'[n][i].id \notin DOMAIN packet'
             /\ \A m \in Node : m # n =>
                  \A j \in 1..Len(queue[m]) : queue[m][j].id # queue'[n][i].id
  <2>1. queue'[n][i].id \notin new
    BY <1>1 DEF QueueStep
  <2>2. CASE queue'[n][i].id = next_id /\ next_id' = next_id + 1
    BY <1>1, <1>2, <2>1, <2>2 DEF FreshIds, PacketStep
  <2>3. CASE \E j \in 1..Len(queue[n]) : queue'[n][i].id = queue[n][j].id
    <3>1. PICK j \in 1..Len(queue[n]) : queue'[n][i].id = queue[n][j].id
      BY <2>3
    <3>2. queue'[n][i].id < next_id' /\ queue'[n][i].id \notin DOMAIN packet
      BY <1>1, <1>2, <3>1 DEF FreshIds
    <3>3. \A m \in Node : m # n =>
            \A k \in 1..Len(queue[m]) : queue[m][k].id # queue'[n][i].id
      BY <1>1, <3>1 DEF FreshIds
    <3> QED BY <1>1, <2>1, <3>2, <3>3 DEF PacketStep
  <2> QED BY <1>1, <2>2, <2>3 DEF QueueStep
<1>5. ASSUME NEW m \in Node, m # n, NEW i \in 1..Len(queue[m])
      PROVE  /\ queue[m][i].id < next_id'
             /\ queue[m][i].id \notin DOMAIN packet'
             /\ \A k \in Node : k # n =>
                  \A j \in 1..Len(queue[k]) :
                    queue[k][j].id = queue[m][i].id => k = m /\ j = i
  <2>1. queue[m][i].id \notin new
    <3> SUFFICES ASSUME queue[m][i].id \in new PROVE FALSE
      OBVIOUS
    <3>1. queue[m][i].id < next_id
      BY <1>1 DEF FreshIds
    <3>2. queue[m][i].id # next_id
      BY <1>2, <3>1
    <3>3. PICK j \in 1..Len(queue[n]) : queue[m][i].id = queue[n][j].id
      BY <1>1, <3>2 DEF QueueStep
    <3> QED BY <1>1, <1>5, <3>3 DEF FreshIds
  <2>2. queue[m][i].id < next_id' /\ queue[m][i].id \notin DOMAIN packet
    BY <1>1, <1>2 DEF FreshIds
  <2>3. \A k \in Node : \A j \in 1..Len(queue[k]) :
          queue[k][j].id = queue[m][i].id => k = m /\ j = i
    BY <1>1 DEF FreshIds
  <2> QED BY <1>1, <2>1, <2>2, <2>3 DEF PacketStep
<1>6. \A p \in DOMAIN packet' : p < next_id'
  BY <1>1, <1>2 DEF FreshIds, PacketStep, QueueStep
<1>7. \A i, j \in 1..Len(queue'[n]) : queue'[n][i].id = queue'[n][j].id => i = j
  BY <1>1 DEF QueueStep
<1>8. ASSUME NEW m \in Node, NEW i \in 1..Len(queue'[m])
      PROVE  /\ queue'[m][i].id < next_id'
             /\ queue'[m][i].id \notin DOMAIN packet'
             /\ \A k \in Node : \A j \in 1..Len(queue'[k]) :
                  queue'[k][j].id = queue'[m][i].id => k = m /\ j = i
  <2>1. CASE m = n
    BY <1>3, <1>4, <1>7, <2>1
  <2>2. CASE m # n
    <3>1. i \in 1..Len(queue[m]) /\ queue'[m] = queue[m]
      BY <1>3, <2>2
    <3>2. \A j \in 1..Len(queue'[n]) : queue'[n][j].id # queue[m][i].id
      BY <1>4, <2>2, <3>1
    <3> QED BY <1>3, <1>5, <2>2, <3>1, <3>2
  <2> QED BY <2>1, <2>2
<1> QED
  BY <1>6, <1>8 DEF FreshIds

\* Every node step keeps the slots of the rings exclusive.
LEMMA StepWireExclusive ==
  ASSUME IInv, NEW n \in Node, NEW E, NEW onto, NEW off, NEW new,
         NodeStep(n, E, onto, off, new)
  PROVE  WireExclusive'
<1>1. /\ TypeOK /\ WireExclusive /\ OngoingConsistent
      /\ EjectFacts(n, E) /\ WireStep(n, E, onto, off, new)
  BY DEF IInv, NodeStep
\* A flit put on the wire is at node n.
<1>2. ASSUME NEW f \in DOMAIN flit', f \in onto
      PROVE  flit'[f].node = n
  <2>1. CASE f \notin DOMAIN flit
    BY <2>1, AfterStep
  <2>2. CASE f \in DOMAIN flit
    <3>1. f[1] \notin Finished(n, E)
      BY <2>2, AfterStep
    <3>2. flit'[f].node = flit[f].node
      BY <2>2, <3>1, AfterStep
    <3>3. CASE flit[f].node = n
      BY <3>2, <3>3
    <3>4. CASE IsNext(n, f)
      <4>1. /\ flit[f].node = packet[f[1]].src /\ ongoing[n] = f[1]
            /\ ongoing[n] # None
        <5>1. f[1] # None
          BY <1>1, <2>2, FlitFacts, Numbers
        <5>2. ongoing[n] = f[1] /\ flit[f].status = "Injecting"
          BY <3>4 DEF IsNext
        <5>3. flit[f].node = packet[f[1]].src
          BY <1>1, <2>2, <5>2 DEF OngoingConsistent
        <5> QED BY <5>1, <5>2, <5>3
      <4>2. packet[f[1]].src = n
        BY <4>1, <1>1 DEF OngoingConsistent
      <4> QED BY <3>2, <4>1, <4>2
    <3> QED BY <1>2, <2>2, <3>3, <3>4, StatusFacts
  <2> QED BY <2>1, <2>2
\* A flit on a wire after the step was there before or has just been put there.
<1>3. ASSUME NEW f \in DOMAIN flit', flit'[f].status = "Routing", f \notin onto
      PROVE  /\ f \in DOMAIN flit /\ flit[f].status = "Routing"
             /\ f \notin Ejected(n, E) /\ f \notin off
             /\ flit'[f].node = flit[f].node
             /\ packet'[f[1]] = packet[f[1]]
             /\ flit[f] = [status |-> "Routing", node |-> flit[f].node]
  <2>1. f \in DOMAIN flit /\ flit[f].status = "Routing"
        /\ f \notin Ejected(n, E) /\ f \notin off
    BY <1>3, StatusFacts
  <2>2. flit'[f].node = flit[f].node /\ packet'[f[1]] = packet[f[1]]
    BY <2>1, AfterStep
  <2>3. flit[f] = [status |-> flit[f].status, node |-> flit[f].node]
    BY <1>1, <2>1, FlitFacts
  <2> QED BY <2>1, <2>2, <2>3
<1>4. ASSUME NEW f \in DOMAIN flit', NEW g \in DOMAIN flit',
             f \in onto, g \notin onto,
             flit'[g].status = "Routing", flit'[g].node = flit'[f].node,
             packet'[f[1]].ring = packet'[g[1]].ring
      PROVE  FALSE
  <2>1. flit'[f].node = n
    BY <1>2, <1>4
  <2>2. /\ g \in DOMAIN flit /\ g \notin Ejected(n, E) /\ g \notin off
        /\ flit[g] = [status |-> "Routing", node |-> n]
        /\ packet[g[1]].ring = packet'[f[1]].ring
    BY <1>3, <1>4, <2>1
  <2>3. g \in OnWire(n, packet'[f[1]].ring)
    BY <2>2 DEF OnWire
  <2> QED BY <1>1, <1>4, <2>2, <2>3 DEF WireStep
<1>5. ASSUME NEW f \in DOMAIN flit', NEW g \in DOMAIN flit',
             flit'[f].status = "Routing", flit'[g] = flit'[f],
             packet'[f[1]].ring = packet'[g[1]].ring
      PROVE  f = g
  <2>1. CASE f \in onto /\ g \in onto
    BY <1>1, <1>5, <2>1 DEF WireStep
  <2>2. CASE f \in onto /\ g \notin onto
    BY <1>4, <1>5, <2>2
  <2>3. CASE f \notin onto /\ g \in onto
    BY <1>4, <1>5, <2>3
  <2>4. CASE f \notin onto /\ g \notin onto
    <3>1. /\ f \in DOMAIN flit /\ g \in DOMAIN flit
          /\ flit[f].status = "Routing" /\ flit[g] = flit[f]
          /\ packet[f[1]].ring = packet[g[1]].ring
      <4>1. flit'[g].status = "Routing" /\ flit'[g].node = flit'[f].node
        BY <1>5
      <4>2. /\ f \in DOMAIN flit /\ flit'[f].node = flit[f].node
            /\ packet'[f[1]] = packet[f[1]]
            /\ flit[f] = [status |-> "Routing", node |-> flit[f].node]
        BY <1>3, <1>5, <2>4
      <4>3. /\ g \in DOMAIN flit /\ flit'[g].node = flit[g].node
            /\ packet'[g[1]] = packet[g[1]]
            /\ flit[g] = [status |-> "Routing", node |-> flit[g].node]
        BY <1>3, <2>4, <4>1
      <4> QED BY <1>5, <4>1, <4>2, <4>3
    <3> QED BY <1>1, <3>1 DEF WireExclusive
  <2> QED BY <2>1, <2>2, <2>3, <2>4
<1> QED
  BY <1>5 DEF WireExclusive

\* A flit that is not ejected belongs to a packet that stays.
LEMMA UnejectedStays ==
  ASSUME IInv, NEW n \in Node, NEW E, EjectFacts(n, E),
         NEW f \in DOMAIN flit, flit[f].status # "Ejected", f \notin Ejected(n, E)
  PROVE  f[1] \notin Finished(n, E)
BY DEF EjectFacts

\* Every node step keeps the EXBs exact: what they hold is what is Buffered.
LEMMA StepBufferedOnce ==
  ASSUME IInv, NEW n \in Node, NEW E, NEW onto, NEW off, NEW new,
         NodeStep(n, E, onto, off, new)
  PROVE  BufferedOnce'
<1>1. /\ TypeOK /\ BufferedSets /\ EjectFacts(n, E)
      /\ WireStep(n, E, onto, off, new) /\ BufferStep(n, onto, off)
  BY BufferedAsSets DEF IInv, NodeStep
<1>2. \A m \in Node : m # n => exb'[m] = exb[m] /\ Bound(m)' = Bound(m)
  BY <1>1 DEF BufferStep, TypeOK, Bound
\* A flit that was buffered and is not let out stays as it was.
<1>3. ASSUME NEW f \in DOMAIN flit, flit[f].status = "Buffered", f \notin onto
      PROVE  /\ f \in DOMAIN flit' /\ flit'[f].status = "Buffered"
             /\ flit'[f].node = flit[f].node
             /\ packet'[f[1]] = packet[f[1]]
             /\ flit'[f] = [status |-> "Buffered", node |-> flit[f].node]
  <2>1. f \notin Ejected(n, E) /\ f \notin off
    BY <1>1, <1>3 DEF EjectFacts, WireStep
  <2>2. f[1] \notin Finished(n, E)
    BY <1>1, <1>3, <2>1, UnejectedStays
  <2>3. /\ f \in DOMAIN flit' /\ flit'[f].node = flit[f].node
        /\ packet'[f[1]] = packet[f[1]]
    BY <2>2, AfterStep
  <2>4. flit'[f].status = "Buffered"
    BY <1>3, <2>1, <2>3, StatusFacts
  <2>5. flit'[f] = [status |-> flit'[f].status, node |-> flit'[f].node]
    BY <2>3, AfterStep
  <2> QED BY <2>3, <2>4, <2>5
\* A flit taken off the wire becomes a buffered flit of node n.
<1>4. ASSUME NEW f \in off
      PROVE  /\ f \in DOMAIN flit' /\ flit'[f].status = "Buffered"
             /\ packet'[f[1]] = packet[f[1]]
             /\ flit'[f] = [status |-> "Buffered", node |-> n]
  <2>1. /\ f \in DOMAIN flit /\ f \notin Ejected(n, E)
        /\ flit[f].status = "Routing" /\ flit[f].node = n
    BY <1>1 DEF WireStep
  <2>2. f[1] \notin Finished(n, E)
    BY <1>1, <2>1, UnejectedStays
  <2>3. /\ f \in DOMAIN flit' /\ flit'[f].node = n
        /\ packet'[f[1]] = packet[f[1]]
    BY <2>1, <2>2, AfterStep
  <2>4. flit'[f].status = "Buffered"
    BY <1>4, <2>3, StatusFacts
  <2>5. flit'[f] = [status |-> flit'[f].status, node |-> flit'[f].node]
    BY <2>3, AfterStep
  <2> QED BY <2>3, <2>4, <2>5
\* A flit put on the wire was not buffered at another node.
<1>5. ASSUME NEW f \in onto, f \in DOMAIN flit, flit[f].status = "Buffered"
      PROVE  flit[f].node = n
  <2>1. ~IsNext(n, f)
    BY <1>5 DEF IsNext
  <2>2. \A g \in DOMAIN flit : g[1] \notin new
    BY <1>1, FlitFacts DEF NodeStep, PacketStep
  <2> QED BY <1>1, <1>5, <2>1, <2>2 DEF WireStep
<1>6. ASSUME NEW m \in Node, NEW r \in Bound(m)'
      PROVE  /\ Distinct(exb'[m][r])
             /\ \A f \in Elems(exb'[m][r]) :
                  /\ f \in DOMAIN flit'
                  /\ flit'[f] = [status |-> "Buffered", node |-> m]
                  /\ packet'[f[1]].ring = r
  <2>1. CASE m # n
    <3>1. r \in Bound(m) /\ exb'[m] = exb[m]
      BY <1>2, <2>1
    <3>2. Distinct(exb'[m][r])
      BY <1>1, <3>1 DEF BufferedSets
    <3>3. ASSUME NEW f \in Elems(exb[m][r])
          PROVE  /\ f \in DOMAIN flit'
                 /\ flit'[f] = [status |-> "Buffered", node |-> m]
                 /\ packet'[f[1]].ring = r
      <4>1. /\ f \in DOMAIN flit
            /\ flit[f] = [status |-> "Buffered", node |-> m]
            /\ packet[f[1]].ring = r
        BY <1>1, <3>1 DEF BufferedSets
      <4>2. f \notin onto
        BY <1>5, <2>1, <4>1
      <4> QED BY <1>3, <4>1, <4>2
    <3> QED BY <3>1, <3>2, <3>3
  <2>2. CASE m = n
    <3>1. Distinct(exb'[n][r])
      BY <1>1, <2>2 DEF BufferStep
    <3>2. ASSUME NEW f \in Elems(exb'[n][r])
          PROVE  /\ f \in DOMAIN flit'
                 /\ flit'[f] = [status |-> "Buffered", node |-> n]
                 /\ packet'[f[1]].ring = r
      <4>1. \/ r \in Bound(n) /\ f \in Elems(exb[n][r]) /\ f \notin onto
            \/ f \in off /\ packet[f[1]].ring = r
        BY <1>1, <2>2, <3>2 DEF BufferStep
      <4>2. CASE f \in off /\ packet[f[1]].ring = r
        BY <1>4, <4>2
      <4>3. CASE r \in Bound(n) /\ f \in Elems(exb[n][r]) /\ f \notin onto
        <5>1. /\ f \in DOMAIN flit
              /\ flit[f] = [status |-> "Buffered", node |-> n]
              /\ packet[f[1]].ring = r
          BY <1>1, <4>3 DEF BufferedSets
        <5> QED BY <1>3, <4>3, <5>1
      <4> QED BY <4>1, <4>2, <4>3
    <3> QED BY <2>2, <3>1, <3>2
  <2> QED BY <2>1, <2>2
<1>7. ASSUME NEW f \in DOMAIN flit', flit'[f].status = "Buffered"
      PROVE  /\ packet'[f[1]].ring \in DOMAIN exb'[flit'[f].node]
             /\ f \in Elems(exb'[flit'[f].node][packet'[f[1]].ring])
  <2>1. CASE f \in off
    <3>1. flit'[f].node = n /\ packet'[f[1]] = packet[f[1]]
      BY <1>4, <2>1
    <3>2. packet[f[1]].ring \in DOMAIN exb'[n]
      BY <1>1, <2>1 DEF BufferStep, Bound
    <3>3. f \in Elems(exb'[n][packet[f[1]].ring])
      BY <1>1, <2>1, <3>2 DEF BufferStep, Bound
    <3> QED BY <3>1, <3>2, <3>3
  <2>2. CASE f \notin off
    <3>1. f \in DOMAIN flit /\ flit[f].status = "Buffered" /\ f \notin onto
      BY <1>7, <2>2, StatusFacts
    <3>2. flit'[f].node = flit[f].node /\ packet'[f[1]] = packet[f[1]]
      BY <1>3, <3>1
    <3>3. PICK m \in Node : /\ m = flit[f].node
                            /\ packet[f[1]].ring \in Bound(m)
                            /\ f \in Elems(exb[m][packet[f[1]].ring])
      BY <1>1, <3>1, FlitFacts DEF BufferedSets
    <3>4. PICK r \in Bound(m) : r = packet[f[1]].ring /\ f \in Elems(exb[m][r])
      BY <3>3
    <3>5. r \in DOMAIN exb'[m] /\ f \in Elems(exb'[m][r])
      <4>1. CASE m # n
        BY <1>2, <3>4, <4>1 DEF Bound
      <4>2. CASE m = n
        BY <1>1, <3>1, <3>4, <4>2 DEF BufferStep, Bound
      <4> QED BY <4>1, <4>2
    <3> QED BY <3>2, <3>3, <3>4, <3>5
  <2> QED BY <2>1, <2>2
<1>8. BufferedSets'
  BY <1>6, <1>7 DEF BufferedSets, Bound
<1> QED
  BY <1>8, BufferedAsSets, PTL

\* What a run of node n leaves alone at another node m.
LEMMA OtherNodes ==
  ASSUME IInv, NEW n \in Node, NEW E, NEW onto, NEW off, NEW new,
         NodeStep(n, E, onto, off, new), NEW m \in Node, m # n
  PROVE  /\ exb'[m] = exb[m] /\ Bound(m)' = Bound(m)
         /\ ongoing'[m] = ongoing[m]
         /\ ongoing[m] # None => /\ packet'[ongoing[m]] = packet[ongoing[m]]
                                 /\ ongoing[m] \in DOMAIN packet'
         /\ interrupt'[m] = interrupt[m]
         /\ forward_length'[m] = forward_length[m]
         /\ record'[m] = record[m]
<1>1. TypeOK /\ EjectFacts(n, E) /\ PacketStep(n, E, new)
  BY DEF IInv, NodeStep
<1>2. exb'[m] = exb[m] /\ Bound(m)' = Bound(m)
  BY <1>1 DEF NodeStep, BufferStep, TypeOK, Bound
<1>3. ongoing'[m] = ongoing[m]
  BY <1>1 DEF NodeStep, InjectionStep, TypeOK
<1>4. interrupt'[m] = interrupt[m] /\ forward_length'[m] = forward_length[m]
  BY <1>1 DEF NodeStep, WindowStep, TypeOK
<1>5. record'[m] = record[m]
  BY <1>1 DEF NodeStep, RecordStep, TypeOK
<1>6. ongoing[m] # None => /\ packet'[ongoing[m]] = packet[ongoing[m]]
                           /\ ongoing[m] \in DOMAIN packet'
  BY <1>1, OngoingLives DEF PacketStep
<1> QED
  BY <1>2, <1>3, <1>4, <1>5, <1>6

\* Every node step keeps the EXBs within their bounds and in use.
LEMMA StepExbInUse ==
  ASSUME IInv, NEW n \in Node, NEW E, NEW onto, NEW off, NEW new,
         NodeStep(n, E, onto, off, new)
  PROVE  ExbInUse' /\ BoundFinite'
<1>1. ExbInUse /\ BoundFinite /\ PoolStep(n)
  BY DEF IInv, NodeStep
<1>2. ASSUME NEW m \in Node
      PROVE  /\ IsFiniteSet(Bound(m)') /\ Cardinality(Bound(m)') <= ExbNum
             /\ \A r \in Bound(m)' :
                  /\ Len(exb'[m][r]) <= ExbSize
                  /\ \/ exb'[m][r] # <<>>
                     \/ ongoing'[m] # None /\ OngoingRing(m)' = r
  <2>1. CASE m = n
    BY <1>1, <2>1 DEF PoolStep
  <2>2. CASE m # n
    <3>1. /\ exb'[m] = exb[m] /\ Bound(m)' = Bound(m)
          /\ ongoing'[m] = ongoing[m]
          /\ ongoing[m] # None => packet'[ongoing[m]] = packet[ongoing[m]]
      BY <2>2, OtherNodes
    <3> QED
      BY <1>1, <3>1 DEF ExbInUse, BoundFinite, OngoingRing
  <2> QED BY <2>1, <2>2
<1> QED
  BY <1>2 DEF ExbInUse, BoundFinite

\* Every node step keeps the window of an interrupted injection.
LEMMA StepWindow ==
  ASSUME IInv, NEW n \in Node, NEW E, NEW onto, NEW off, NEW new,
         NodeStep(n, E, onto, off, new), EnableInterrupt
  PROVE  InterruptWindow'
<1>1. InterruptWindow /\ WindowStep(n)
  BY DEF IInv, NodeStep
<1>2. ASSUME NEW m \in Node
      PROVE  /\ interrupt'[m] => ongoing'[m] # None
             /\ forward_length'[m] # 0 =>
                  /\ interrupt'[m]
                  /\ forward_length'[m] \in 1..Len(OngoingExb(m)')
                  /\ \A i \in 1..forward_length'[m] :
                       OngoingExb(m)'[i][1] = OngoingExb(m)'[1][1]
  <2>1. CASE m = n
    BY <1>1, <2>1 DEF WindowStep
  <2>2. CASE m # n
    <3>1. /\ exb'[m] = exb[m] /\ ongoing'[m] = ongoing[m]
          /\ ongoing[m] # None => packet'[ongoing[m]] = packet[ongoing[m]]
          /\ interrupt'[m] = interrupt[m]
          /\ forward_length'[m] = forward_length[m]
      BY <2>2, OtherNodes
    <3>2. interrupt[m] => OngoingExb(m)' = OngoingExb(m)
      BY <1>1, <3>1 DEF InterruptWindow, OngoingExb, OngoingRing
    <3> QED
      BY <1>1, <3>1, <3>2 DEF InterruptWindow
  <2> QED BY <2>1, <2>2
<1> QED
  BY <1>2 DEF InterruptWindow

\* Every node step keeps the ongoing packets consistent with the flits that are
\* still to be injected.
LEMMA StepOngoingConsistent ==
  ASSUME IInv, NEW n \in Node, NEW E, NEW onto, NEW off, NEW new,
         NodeStep(n, E, onto, off, new)
  PROVE  OngoingConsistent'
<1>1. /\ TypeOK /\ OngoingConsistent /\ EjectFacts(n, E)
      /\ WireStep(n, E, onto, off, new) /\ PacketStep(n, E, new)
      /\ InjectionStep(n, onto, new)
  BY DEF IInv, NodeStep
\* A flit waits in the injection module after the step if it did before and
\* was not injected, or belongs to the new packet and is not its header.
<1>2. ASSUME NEW f \in DOMAIN flit, flit[f].status = "Injecting", f \notin onto
      PROVE  /\ f \in DOMAIN flit' /\ flit'[f].status = "Injecting"
             /\ flit'[f].node = flit[f].node
             /\ packet'[f[1]] = packet[f[1]]
  <2>1. f \notin Ejected(n, E) /\ f \notin off
    BY <1>1, <1>2 DEF EjectFacts, WireStep
  <2>2. f[1] \notin Finished(n, E)
    BY <1>1, <1>2, <2>1, UnejectedStays
  <2>3. /\ f \in DOMAIN flit' /\ flit'[f].node = flit[f].node
        /\ packet'[f[1]] = packet[f[1]]
    BY <2>2, AfterStep
  <2> QED BY <1>2, <2>1, <2>3, StatusFacts
<1>3. ASSUME NEW p \in new
      PROVE  /\ p \in DOMAIN packet' /\ packet'[p].src = n
             /\ p \notin DOMAIN packet
             /\ packet'[p].length \in Nat \ {0}
             /\ ongoing[n] = None
             /\ ongoing'[n] = IF packet'[p].length = 1 THEN None ELSE p
             /\ \A i \in 0..(packet'[p].length - 1) :
                  /\ <<p, i>> \in DOMAIN flit'
                  /\ i = 0 => flit'[<<p, i>>].status = "Routing"
                  /\ i # 0 => flit'[<<p, i>>].status = "Injecting"
  <2>1. p \in DOMAIN packet' /\ packet'[p].src = n /\ p \notin DOMAIN packet
    BY <1>1 DEF PacketStep
  <2>2. packet'[p].length \in Nat \ {0}
    BY <1>1, <2>1 DEF PacketStep, Packet
  <2>3. ongoing[n] = None
        /\ ongoing'[n] = IF packet'[p].length = 1 THEN None ELSE p
    BY <1>1 DEF InjectionStep, PacketStep
  <2>4. ASSUME NEW i \in 0..(packet'[p].length - 1)
        PROVE  /\ <<p, i>> \in DOMAIN flit'
               /\ i = 0 => flit'[<<p, i>>].status = "Routing"
               /\ i # 0 => flit'[<<p, i>>].status = "Injecting"
    <3>1. <<p, i>> \in LiveFlits'
      BY <2>1, <2>4 DEF LiveFlits, FlitIds
    <3>2. <<p, i>> \in DOMAIN flit'
      BY <3>1, AfterStep
    <3>3. <<p, i>> \notin DOMAIN flit
      BY <1>1, <2>1, FlitFacts
    <3>4. <<p, i>> \in onto <=> i = 0
      BY <3>2, <3>3, StatusFacts
    <3>5. <<p, i>> \notin Ejected(n, E) /\ <<p, i>> \notin off
      BY <1>1, <3>3 DEF EjectFacts, WireStep
    <3> QED BY <3>2, <3>3, <3>4, <3>5, StatusFacts
  <2> QED BY <2>1, <2>2, <2>3, <2>4
<1>4. ASSUME NEW f \in DOMAIN flit', flit'[f].status = "Injecting"
      PROVE  /\ f \notin onto
             /\ \/ f \in DOMAIN flit /\ flit[f].status = "Injecting"
                \/ f \notin DOMAIN flit /\ f[1] \in new /\ flit'[f].node = n
  BY <1>4, StatusFacts, AfterStep
\* Only the next flit of the packet the node itself injects is injected.
<1>5. ASSUME NEW f \in DOMAIN flit, flit[f].status = "Injecting", f \in onto
      PROVE  IsNext(n, f)
  <2>1. f[1] \notin new
    BY <1>1, FlitFacts DEF PacketStep
  <2> QED BY <1>1, <1>5, <2>1 DEF WireStep
\* Of the flits of a packet that wait, the ones behind a waiting one wait too.
<1>6. ASSUME NEW f \in DOMAIN flit, flit[f].status = "Injecting", f \notin onto
      PROVE  /\ ongoing'[packet[f[1]].src] = f[1]
             /\ <<f[1], LastSeq(f[1])>> \notin onto
             /\ f[2] # LastSeq(f[1]) => <<f[1], f[2] + 1>> \notin onto
  <2>1. /\ ongoing[packet[f[1]].src] = f[1]
        /\ <<f[1], LastSeq(f[1])>> \in DOMAIN flit
        /\ flit[<<f[1], LastSeq(f[1])>>].status = "Injecting"
        /\ f[2] # LastSeq(f[1]) =>
             /\ <<f[1], f[2] + 1>> \in DOMAIN flit
             /\ flit[<<f[1], f[2] + 1>>].status = "Injecting"
        /\ packet[f[1]].src \in Node /\ f[1] # None
        /\ f = <<f[1], f[2]>> /\ f[2] \in Nat /\ LastSeq(f[1]) \in Nat
        /\ f[2] <= LastSeq(f[1])
    <3>1. /\ f[2] \in 0..LastSeq(f[1]) /\ LastSeq(f[1]) \in Nat
          /\ \A i \in 0..LastSeq(f[1]) : <<f[1], i>> \in DOMAIN flit
          /\ packet[f[1]] \in Packet /\ f[1] \in PacketId
          /\ f = <<f[1], f[2]>>
      BY <1>1, FlitFacts
    <3>2. packet[f[1]].src \in Node /\ f[1] # None
      BY <3>1, Numbers DEF Packet
    <3>3. f[2] # LastSeq(f[1]) => f[2] + 1 \in 0..LastSeq(f[1])
      BY <3>1
    <3> QED BY <1>1, <1>6, <3>1, <3>2, <3>3 DEF OngoingConsistent
  <2>2. ASSUME NEW g \in onto, g \in DOMAIN flit, flit[g].status = "Injecting",
               g[1] = f[1]
        PROVE  /\ packet[f[1]].src = n /\ g[2] < f[2]
    <3>1. IsNext(n, g)
      BY <1>5, <2>2
    <3>2. packet[f[1]].src = n
      BY <2>2, <3>1, NextIsAtHome
    <3>3. g = <<g[1], g[2]>> /\ g[2] \in Nat
      BY <1>1, <2>2, FlitFacts
    <3>4. ~(f[2] < g[2])
      <4> SUFFICES ASSUME f[2] < g[2] PROVE FALSE
        OBVIOUS
      <4>1. f[2] \in 0..(g[2] - 1)
        BY <2>1, <3>3
      <4> QED BY <1>6, <2>1, <2>2, <3>1, <4>1 DEF IsNext
    <3>5. f[2] # g[2]
      BY <1>6, <2>1, <2>2, <3>3
    <3> QED BY <2>1, <3>2, <3>3, <3>4, <3>5
  <2>3. <<f[1], LastSeq(f[1])>> \notin onto
    BY <2>1, <2>2
  <2>4. f[2] # LastSeq(f[1]) => <<f[1], f[2] + 1>> \notin onto
    BY <2>1, <2>2
  <2>5. ongoing'[packet[f[1]].src] = f[1]
    <3>1. CASE packet[f[1]].src # n
      BY <2>1, <3>1, OtherNodes
    <3>2. CASE packet[f[1]].src = n
      <4>1. ongoing[n] = f[1] /\ ongoing[n] # None
        BY <2>1, <3>2
      <4>2. ASSUME NEW g \in onto, IsNext(n, g)
            PROVE  g[2] # LastSeq(g[1])
        BY <2>1, <2>2, <4>1, <4>2 DEF IsNext
      <4>3. ongoing'[n] = ongoing[n]
        BY <1>1, <4>1, <4>2 DEF InjectionStep
      <4> QED BY <3>2, <4>1, <4>3
    <3> QED BY <3>1, <3>2
  <2> QED BY <2>3, <2>4, <2>5
<1>7. ASSUME NEW f \in DOMAIN flit', flit'[f].status = "Injecting"
      PROVE  /\ flit'[f].node = packet'[f[1]].src
             /\ ongoing'[packet'[f[1]].src] = f[1]
             /\ flit'[<<f[1], packet'[f[1]].length - 1>>].status = "Injecting"
             /\ f[2] # packet'[f[1]].length - 1 =>
                  flit'[<<f[1], f[2] + 1>>].status = "Injecting"
  <2>1. CASE f \in DOMAIN flit /\ flit[f].status = "Injecting"
    <3>1. /\ f \notin onto
          /\ flit'[f].node = flit[f].node /\ packet'[f[1]] = packet[f[1]]
          /\ flit[f].node = packet[f[1]].src
          /\ LastSeq(f[1]) = packet[f[1]].length - 1
      BY <1>1, <1>2, <1>4, <1>7, <2>1 DEF OngoingConsistent, LastSeq
    <3>2. /\ <<f[1], LastSeq(f[1])>> \in DOMAIN flit
          /\ f[2] # LastSeq(f[1]) => <<f[1], f[2] + 1>> \in DOMAIN flit
      <4>1. /\ f[2] \in 0..LastSeq(f[1]) /\ LastSeq(f[1]) \in Nat
            /\ \A i \in 0..LastSeq(f[1]) : <<f[1], i>> \in DOMAIN flit
        BY <1>1, <2>1, FlitFacts
      <4>2. f[2] # LastSeq(f[1]) => f[2] + 1 \in 0..LastSeq(f[1])
        BY <4>1
      <4> QED BY <4>1, <4>2
    <3>3. /\ flit[<<f[1], LastSeq(f[1])>>].status = "Injecting"
          /\ f[2] # LastSeq(f[1]) => flit[<<f[1], f[2] + 1>>].status = "Injecting"
      BY <1>1, <2>1 DEF OngoingConsistent
    <3>4. flit'[<<f[1], LastSeq(f[1])>>].status = "Injecting"
      BY <1>2, <1>6, <2>1, <3>1, <3>2, <3>3
    <3>5. f[2] # LastSeq(f[1]) => flit'[<<f[1], f[2] + 1>>].status = "Injecting"
      BY <1>2, <1>6, <2>1, <3>1, <3>2, <3>3
    <3> QED BY <1>6, <2>1, <3>1, <3>4, <3>5
  <2>2. CASE f \notin DOMAIN flit /\ f[1] \in new /\ flit'[f].node = n
    <3> DEFINE p == f[1]
    <3>1. /\ f = <<p, f[2]>> /\ f[2] \in 0..(packet'[p].length - 1)
      <4>1. f \in LiveFlits'
        BY AfterStep
      <4> QED BY <4>1 DEF LiveFlits, FlitIds
    <3>2. /\ packet'[p].src = n /\ packet'[p].length \in Nat \ {0}
          /\ ongoing'[n] = IF packet'[p].length = 1 THEN None ELSE p
          /\ \A i \in 0..(packet'[p].length - 1) :
               /\ i = 0 => flit'[<<p, i>>].status = "Routing"
               /\ i # 0 => flit'[<<p, i>>].status = "Injecting"
      BY <1>3, <2>2
    <3>3. f[2] # 0
      BY <1>7, <3>1, <3>2
    <3>4. packet'[p].length # 1 /\ packet'[p].length - 1 # 0
      BY <3>1, <3>2, <3>3
    <3>5. packet'[p].length - 1 \in 0..(packet'[p].length - 1)
      BY <3>2
    <3>6. f[2] # packet'[p].length - 1 =>
            f[2] + 1 \in 0..(packet'[p].length - 1) /\ f[2] + 1 # 0
      BY <3>1, <3>2
    <3> QED BY <2>2, <3>2, <3>4, <3>5, <3>6
  <2> QED BY <1>4, <1>7, <2>1, <2>2
<1>8. ASSUME NEW m \in Node, ongoing'[m] # None
      PROVE  /\ packet'[ongoing'[m]].src = m
             /\ packet'[ongoing'[m]].ring \in DOMAIN exb'[m]
             /\ flit'[<<ongoing'[m], packet'[ongoing'[m]].length - 1>>].status
                  = "Injecting"
             /\ flit'[<<ongoing'[m], 0>>].status # "Injecting"
  \* The packet was ongoing before, and its tail has not been injected now.
  <2>1. ASSUME ongoing'[m] = ongoing[m],
               <<ongoing[m], LastSeq(ongoing[m])>> \notin onto
        PROVE  /\ packet'[ongoing'[m]].src = m
               /\ packet'[ongoing[m]] = packet[ongoing[m]]
               /\ flit'[<<ongoing'[m], packet'[ongoing'[m]].length - 1>>].status
                    = "Injecting"
               /\ flit'[<<ongoing'[m], 0>>].status # "Injecting"
    <3>1. /\ ongoing[m] \in DOMAIN packet /\ packet[ongoing[m]].src = m
          /\ ongoing[m] \notin Finished(n, E)
      BY <1>1, <1>8, <2>1, OngoingLives
    <3>2. packet'[ongoing[m]] = packet[ongoing[m]]
      BY <1>1, <3>1 DEF PacketStep
    <3>3. /\ <<ongoing[m], LastSeq(ongoing[m])>> \in DOMAIN flit
          /\ <<ongoing[m], 0>> \in DOMAIN flit
      BY <1>1, <3>1, PacketFlits
    <3>4. /\ flit[<<ongoing[m], LastSeq(ongoing[m])>>].status = "Injecting"
          /\ flit[<<ongoing[m], 0>>].status # "Injecting"
      BY <1>1, <1>8, <2>1 DEF OngoingConsistent
    <3>5. flit'[<<ongoing[m], LastSeq(ongoing[m])>>].status = "Injecting"
      BY <1>2, <2>1, <3>3, <3>4
    <3>6. <<ongoing[m], 0>> \in DOMAIN flit'
      <4>1. <<ongoing[m], 0>>[1] \notin Finished(n, E)
        BY <3>1
      <4> QED BY <3>3, <4>1, AfterStep
    <3>7. flit'[<<ongoing[m], 0>>].status # "Injecting"
      BY <1>4, <3>3, <3>4, <3>6
    <3> QED BY <2>1, <3>1, <3>2, <3>5, <3>7 DEF LastSeq
  <2>2. CASE m # n
    <3>1. /\ ongoing'[m] = ongoing[m] /\ exb'[m] = exb[m]
      BY <2>2, OtherNodes
    <3>2. <<ongoing[m], LastSeq(ongoing[m])>> \notin onto
      <4> SUFFICES ASSUME <<ongoing[m], LastSeq(ongoing[m])>> \in onto PROVE FALSE
        OBVIOUS
      <4>1. /\ ongoing[m] \in DOMAIN packet /\ packet[ongoing[m]].src = m
        BY <1>1, <1>8, <3>1, OngoingLives
      <4>2. /\ <<ongoing[m], LastSeq(ongoing[m])>> \in DOMAIN flit
            /\ flit[<<ongoing[m], LastSeq(ongoing[m])>>].status = "Injecting"
        BY <1>1, <1>8, <3>1, <4>1, PacketFlits DEF OngoingConsistent
      <4>3. IsNext(n, <<ongoing[m], LastSeq(ongoing[m])>>)
        BY <1>5, <4>2
      <4>4. packet[ongoing[m]].src = n
        BY <4>3, NextIsAtHome
      <4> QED BY <2>2, <4>1, <4>4
    <3>3. packet[ongoing[m]].ring \in DOMAIN exb[m]
      BY <1>1, <1>8, <3>1 DEF OngoingConsistent, OngoingRing, Bound
    <3> QED BY <2>1, <3>1, <3>2, <3>3
  <2>3. CASE m = n
    <3>1. packet'[ongoing'[n]].ring \in DOMAIN exb'[n]
      BY <1>1, <1>8, <2>3 DEF InjectionStep, OngoingRing, Bound
    <3>2. CASE new # {}
      <4>1. PICK p \in new : TRUE
        BY <3>2
      <4>2. /\ packet'[p].src = n /\ packet'[p].length \in Nat \ {0}
            /\ ongoing'[n] = p /\ packet'[p].length # 1
            /\ \A i \in 0..(packet'[p].length - 1) :
                 /\ i = 0 => flit'[<<p, i>>].status = "Routing"
                 /\ i # 0 => flit'[<<p, i>>].status = "Injecting"
        BY <1>3, <1>8, <2>3, <4>1
      <4>3. /\ packet'[p].length - 1 \in 0..(packet'[p].length - 1)
            /\ packet'[p].length - 1 # 0
            /\ 0 \in 0..(packet'[p].length - 1)
        BY <4>2
      <4> QED BY <2>3, <3>1, <4>2, <4>3
    <3>3. CASE new = {}
      <4>1. ongoing'[n] = ongoing[n]
        BY <1>1, <1>8, <2>3, <3>3 DEF InjectionStep
      <4>2. <<ongoing[n], LastSeq(ongoing[n])>> \notin onto
        <5> SUFFICES ASSUME <<ongoing[n], LastSeq(ongoing[n])>> \in onto
                     PROVE  FALSE
          OBVIOUS
        <5>1. ongoing[n] \in DOMAIN packet
          BY <1>1, <1>8, <2>3, <4>1, OngoingLives
        <5>2. /\ <<ongoing[n], LastSeq(ongoing[n])>> \in DOMAIN flit
              /\ flit[<<ongoing[n], LastSeq(ongoing[n])>>].status = "Injecting"
          BY <1>1, <1>8, <2>3, <4>1, <5>1, PacketFlits DEF OngoingConsistent
        <5>3. IsNext(n, <<ongoing[n], LastSeq(ongoing[n])>>)
          BY <1>5, <5>2
        <5>4. PICK f \in onto : /\ IsNext(n, f)
                                /\ f[2] # LastSeq(f[1])
          BY <1>1, <1>8, <2>3, <3>3, <4>1, <5>3 DEF InjectionStep
        <5>5. /\ f[1] = ongoing[n] /\ f \in DOMAIN flit
              /\ flit[f].status = "Injecting"
          BY <5>4 DEF IsNext
        <5>6. f[2] \in 0..(LastSeq(ongoing[n]) - 1) /\ f = <<ongoing[n], f[2]>>
          BY <1>1, <5>4, <5>5, FlitFacts
        <5> QED BY <5>3, <5>5, <5>6 DEF IsNext
      <4> QED BY <2>1, <2>3, <3>1, <4>1, <4>2
    <3> QED BY <3>2, <3>3
  <2> QED BY <2>2, <2>3
<1> QED
  BY <1>7, <1>8 DEF OngoingConsistent, OngoingRing, Bound, LastSeq
\* Ejection stays in order: a flit leaves only as header or as the one its
\* record expects, and the record then expects the flit behind it.
LEMMA StepEjectedInOrder ==
  ASSUME IInv, NEW n \in Node, NEW E, NEW onto, NEW off, NEW new,
         NodeStep(n, E, onto, off, new)
  PROVE  EjectedInOrder'
<1> DEFINE X == Ejected(n, E)
<1> DEFINE Pred(f) == <<f[1], f[2] - 1>>
<1>1. /\ TypeOK /\ EjectedInOrder /\ EjectFacts(n, E)
      /\ PacketStep(n, E, new) /\ RecordStep(n, E)
  BY DEF IInv, NodeStep
<1>2. ASSUME NEW f \in DOMAIN flit, flit[f].status = "Ejected",
             f[1] \notin Finished(n, E)
      PROVE  f \in DOMAIN flit' /\ flit'[f].status = "Ejected"
  <2>1. f \in DOMAIN flit'
    BY <1>2, AfterStep
  <2> QED BY <1>2, <2>1, StatusFacts DEF IsNext
\* The flits ejected after the step.
<1>3. ASSUME NEW f \in DOMAIN flit', flit'[f].status = "Ejected"
      PROVE  /\ f \in DOMAIN flit /\ f[1] \notin Finished(n, E)
             /\ packet'[f[1]] = packet[f[1]] /\ flit'[f].node = flit[f].node
             /\ f \in X \/ flit[f].status = "Ejected"
  <2>1. f \in DOMAIN flit /\ (f \in X \/ flit[f].status = "Ejected")
    BY <1>3, StatusFacts
  <2>2. f[1] \notin Finished(n, E)
    BY <2>1, AfterStep
  <2> QED BY <2>1, <2>2, AfterStep
<1>4. ASSUME NEW f \in record[n]
      PROVE  /\ f \in DOMAIN flit /\ f[2] \in Nat \ {0}
             /\ f[2] <= LastSeq(f[1])
             /\ Pred(f) \in DOMAIN flit /\ flit[Pred(f)].status = "Ejected"
  <2>1. /\ f \in DOMAIN flit /\ f[2] # 0 /\ flit[Pred(f)].status = "Ejected"
    BY <1>1, <1>4 DEF EjectedInOrder
  <2>2. /\ f[2] \in 0..LastSeq(f[1]) /\ LastSeq(f[1]) \in Nat
        /\ \A i \in 0..LastSeq(f[1]) : <<f[1], i>> \in DOMAIN flit
    BY <1>1, <2>1, FlitFacts
  <2>3. f[2] - 1 \in 0..LastSeq(f[1])
    BY <2>1, <2>2
  <2> QED BY <2>1, <2>2, <2>3
<1>5. ASSUME NEW f \in DOMAIN flit', flit'[f].status = "Ejected"
      PROVE  /\ flit'[f].node = packet'[f[1]].dst
             /\ f[2] # packet'[f[1]].length - 1
             /\ \A i \in 0..f[2] : flit'[<<f[1], i>>].status = "Ejected"
  <2>1. /\ f = <<f[1], f[2]>> /\ f[2] \in 0..LastSeq(f[1])
        /\ LastSeq(f[1]) = packet[f[1]].length - 1 /\ LastSeq(f[1]) \in Nat
        /\ \A i \in 0..LastSeq(f[1]) : <<f[1], i>> \in DOMAIN flit
    BY <1>1, <1>3, <1>5, FlitFacts
  <2>2. \A i \in 0..LastSeq(f[1]) :
          flit[<<f[1], i>>].status = "Ejected" =>
            flit'[<<f[1], i>>].status = "Ejected"
    BY <1>2, <1>3, <1>5, <2>1
  <2>3. CASE flit[f].status = "Ejected"
    <3>1. /\ flit[f].node = packet[f[1]].dst /\ f[2] # LastSeq(f[1])
          /\ \A i \in 0..f[2] : flit[<<f[1], i>>].status = "Ejected"
      BY <1>1, <1>3, <1>5, <2>3 DEF EjectedInOrder
    <3>2. \A i \in 0..f[2] : i \in 0..LastSeq(f[1])
      BY <2>1
    <3> QED BY <1>3, <1>5, <2>1, <2>2, <3>1, <3>2
  <2>4. CASE f \in X
    <3>1. /\ flit[f].node = n /\ packet[f[1]].dst = n
          /\ f[2] # 0 => f \in record[n]
          /\ f[2] # LastSeq(f[1])
      BY <1>1, <1>3, <1>5, <2>4 DEF EjectFacts
    <3>2. ASSUME NEW i \in 0..(f[2] - 1)
          PROVE  flit[<<f[1], i>>].status = "Ejected"
      <4>1. f[2] # 0
        BY <2>1, <3>2
      <4>2. Pred(f) \in DOMAIN flit /\ flit[Pred(f)].status = "Ejected"
        BY <1>4, <3>1, <4>1
      <4>3. \A j \in 0..Pred(f)[2] : flit[<<Pred(f)[1], j>>].status = "Ejected"
        BY <1>1, <4>2 DEF EjectedInOrder
      <4> QED BY <3>2, <4>3
    <3>3. \A i \in 0..f[2] : i \in 0..LastSeq(f[1]) /\ (i = f[2] \/ i \in 0..(f[2] - 1))
      BY <2>1
    <3> QED BY <1>3, <1>5, <2>1, <2>2, <3>1, <3>2, <3>3
  <2> QED BY <1>3, <1>5, <2>3, <2>4
\* What a record expects is still to come.
<1>6. ASSUME NEW m \in Node, NEW f \in record[m], f \notin X
      PROVE  /\ f \in DOMAIN flit' /\ packet'[f[1]].dst = m /\ f[2] # 0
             /\ flit'[f].status # "Ejected"
             /\ flit'[Pred(f)].status = "Ejected"
  <2>1. /\ f \in DOMAIN flit /\ packet[f[1]].dst = m /\ f[2] # 0
        /\ flit[f].status # "Ejected" /\ flit[Pred(f)].status = "Ejected"
    BY SMTT(30), <1>1, <1>6 DEF EjectedInOrder
  <2>2. f[1] \notin Finished(n, E)
    BY <1>1, <1>6, <2>1, UnejectedStays
  <2>3. f \in DOMAIN flit' /\ packet'[f[1]] = packet[f[1]]
    BY <2>1, <2>2, AfterStep
  <2>4. flit'[f].status # "Ejected"
    BY <1>3, <1>6, <2>1, <2>3
  <2>5. Pred(f) \in DOMAIN flit
    <3>1. /\ f[2] \in 0..LastSeq(f[1]) /\ LastSeq(f[1]) \in Nat
          /\ \A i \in 0..LastSeq(f[1]) : <<f[1], i>> \in DOMAIN flit
      BY <1>1, <2>1, FlitFacts
    <3>2. f[2] - 1 \in 0..LastSeq(f[1])
      BY <2>1, <3>1
    <3> QED BY <3>1, <3>2
  <2>6. flit'[Pred(f)].status = "Ejected"
    BY <1>2, <2>1, <2>2, <2>5
  <2> QED BY <2>1, <2>3, <2>4, <2>6
\* Behind an ejected flit that is no tail comes the next of its packet.
<1>7. ASSUME NEW f \in X, f[2] # LastSeq(f[1]), NEW g, g = <<f[1], f[2] + 1>>
      PROVE  /\ g \in DOMAIN flit' /\ packet'[g[1]].dst = n /\ g[2] # 0
             /\ flit'[g].status # "Ejected"
             /\ Pred(g) = f /\ flit'[f].status = "Ejected"
  <2>1. /\ f \in DOMAIN flit /\ packet[f[1]].dst = n
        /\ flit[f].status = "Routing"
    BY <1>1, <1>7 DEF EjectFacts
  <2>2. /\ f = <<f[1], f[2]>> /\ f[2] \in 0..LastSeq(f[1])
        /\ LastSeq(f[1]) \in Nat
        /\ \A i \in 0..LastSeq(f[1]) : <<f[1], i>> \in DOMAIN flit
    BY <1>1, <2>1, FlitFacts
  <2>3. f[1] \notin Finished(n, E)
    <3> SUFFICES ASSUME f[1] \in Finished(n, E) PROVE FALSE
      OBVIOUS
    <3>1. <<f[1], LastSeq(f[1])>> \in X
      BY <1>1 DEF EjectFacts
    <3>2. f = <<f[1], LastSeq(f[1])>>
      <4>1. \A h \in X : f[1] = h[1] => f = h
        BY <1>1 DEF EjectFacts
      <4> QED BY <3>1, <4>1
    <3> QED BY <1>7, <3>2
  <2>4. /\ g[1] = f[1] /\ g[2] = f[2] + 1 /\ g[2] # 0 /\ g # f
        /\ g[2] \in 0..LastSeq(f[1]) /\ Pred(g) = f
    BY <1>7, <2>2
  <2>5. g \in DOMAIN flit
    BY <1>7, <2>2, <2>4
  <2>6. g \notin X
    BY <1>1, <2>4 DEF EjectFacts
  <2>7. flit[g].status # "Ejected"
    <3>1. f[2] \in 0..g[2]
      BY <2>2, <2>4
    <3>2. flit[g].status = "Ejected" => flit[<<g[1], f[2]>>].status = "Ejected"
      BY <1>1, <2>5, <3>1 DEF EjectedInOrder
    <3> QED BY <2>1, <2>2, <2>4, <3>2
  <2>8. g \in DOMAIN flit' /\ packet'[g[1]] = packet[f[1]]
    BY <2>3, <2>4, <2>5, AfterStep
  <2>9. flit'[g].status # "Ejected"
    BY <1>3, <2>6, <2>7, <2>8
  <2>10. f \in DOMAIN flit'
    BY <2>1, <2>3, AfterStep
  <2>11. flit'[f].status = "Ejected"
    BY <2>10, <1>7, StatusFacts
  <2> QED BY <2>1, <2>4, <2>8, <2>9, <2>11
\* Nothing else follows an ejected flit.
<1>8. ASSUME NEW m \in Node, NEW g \in DOMAIN flit', packet'[g[1]].dst = m,
             g[2] # 0, flit'[g].status # "Ejected",
             flit'[Pred(g)].status = "Ejected"
      PROVE  /\ g \notin X
             /\ \/ g \in record[m]
                \/ m = n /\ \E f \in X : f[2] # LastSeq(f[1]) /\ g = <<f[1], f[2] + 1>>
  <2>1. /\ g = <<g[1], g[2]>> /\ g[1] \in DOMAIN packet'
        /\ g[2] \in 0..(packet'[g[1]].length - 1)
        /\ packet'[g[1]].length \in Nat
    <3>1. g \in LiveFlits' /\ g[1] \in DOMAIN packet'
      BY AfterStep
    <3>2. packet'[g[1]] \in Packet
      BY <1>1, <3>1 DEF PacketStep
    <3> QED BY <3>1, <3>2 DEF LiveFlits, FlitIds, Packet
  <2>2. Pred(g) \in DOMAIN flit'
    <3>1. g[2] - 1 \in 0..(packet'[g[1]].length - 1)
      BY <1>8, <2>1
    <3>2. Pred(g) \in LiveFlits'
      BY <2>1, <3>1 DEF LiveFlits, FlitIds
    <3> QED BY <3>2, AfterStep
  <2>3. /\ Pred(g) \in DOMAIN flit /\ g[1] \notin Finished(n, E)
        /\ packet'[g[1]] = packet[g[1]]
        /\ Pred(g) \in X \/ flit[Pred(g)].status = "Ejected"
    BY <1>3, <1>8, <2>2
  <2>4. g \in DOMAIN flit
    <3>1. g[1] \in DOMAIN packet
      BY <1>1, <2>3, FlitFacts
    <3>2. g[1] \notin new
      BY <1>1, <3>1 DEF PacketStep
    <3> QED BY <3>2, AfterStep
  <2>5. g \notin X /\ flit[g].status # "Ejected"
    BY <1>2, <1>8, <2>3, <2>4, StatusFacts
  <2>6. CASE flit[Pred(g)].status = "Ejected"
    BY <1>1, <1>8, <2>3, <2>4, <2>5, <2>6 DEF EjectedInOrder
  <2>7. CASE Pred(g) \in X
    <3>1. m = n
      BY <1>1, <1>8, <2>3, <2>7 DEF EjectFacts
    <3>2. Pred(g)[2] # LastSeq(Pred(g)[1])
      BY <1>8, <2>1, <2>3 DEF LastSeq
    <3>3. g = <<Pred(g)[1], Pred(g)[2] + 1>>
      BY <2>1
    <3> QED BY <2>5, <2>7, <3>1, <3>2, <3>3
  <2> QED BY <2>3, <2>6, <2>7
<1>9. ASSUME NEW m \in Node
      PROVE  record'[m] = {f \in DOMAIN flit' :
                             /\ packet'[f[1]].dst = m
                             /\ f[2] # 0
                             /\ flit'[f].status # "Ejected"
                             /\ flit'[<<f[1], f[2] - 1>>].status = "Ejected"}
  <2>1. \A f : f \in record'[m] <=>
                 \/ f \in record[m] /\ f \notin X
                 \/ m = n /\ \E g \in X : /\ g[2] # LastSeq(g[1])
                                          /\ f = <<g[1], g[2] + 1>>
    <3>1. CASE m = n
      <4>1. record'[n] = RecordAfter(n, E)
        BY <1>1 DEF RecordStep, TypeOK
      <4> QED BY <3>1, <4>1 DEF RecordAfter
    <3>2. CASE m # n
      <4>1. record'[m] = record[m]
        BY <1>1, <3>2 DEF RecordStep, TypeOK
      <4>2. ASSUME NEW f \in record[m] PROVE f \notin X
        <5>1. packet[f[1]].dst = m
          BY <1>1, <4>2 DEF EjectedInOrder
        <5>2. f \in X => packet[f[1]].dst = n
          BY <1>1 DEF EjectFacts
        <5> QED BY <3>2, <5>1, <5>2
      <4> QED BY <3>2, <4>1, <4>2
    <3> QED BY <3>1, <3>2
  <2>2. ASSUME NEW f \in record'[m]
        PROVE  /\ f \in DOMAIN flit' /\ packet'[f[1]].dst = m /\ f[2] # 0
               /\ flit'[f].status # "Ejected"
               /\ flit'[Pred(f)].status = "Ejected"
    BY <1>6, <1>7, <2>1, <2>2
  <2>3. \A f \in DOMAIN flit' :
          /\ packet'[f[1]].dst = m /\ f[2] # 0
          /\ flit'[f].status # "Ejected"
          /\ flit'[Pred(f)].status = "Ejected"
          => f \in record'[m]
    BY <1>8, <2>1
  <2> QED BY <2>2, <2>3
<1> QED
  BY <1>5, <1>9 DEF EjectedInOrder, LastSeq
-----------------------------------------------------------------------------
(* The initial states, and the movement of the rings.                      *)

\* The empty network satisfies the invariant.
LEMMA InitIInv == Init => IInv
<1> SUFFICES ASSUME Init PROVE IInv
  OBVIOUS
<1>1. /\ packet = <<>> /\ flit = <<>> /\ DOMAIN packet = {} /\ DOMAIN flit = {}
      /\ \A n \in Node : /\ queue[n] = <<>> /\ Len(queue[n]) = 0
                         /\ exb[n] = <<>> /\ Bound(n) = {}
                         /\ ongoing[n] = None /\ interrupt[n] = FALSE
                         /\ forward_length[n] = 0 /\ record[n] = {}
  BY DEF Init, Bound
<1>2. LiveFlits = {}
  BY <1>1 DEF LiveFlits
<1>3. TypeOK
  <2>1. cycle \in 0..MaxCycle /\ turn \in 0..N /\ next_id \in 0..MaxPackets
    BY Numbers DEF Init
  <2>2. queue \in [Node -> Seq(PacketInfo)]
    <3>1. <<>> \in Seq(PacketInfo)
      OBVIOUS
    <3> QED BY <3>1 DEF Init
  <2>3. /\ packet \in [DOMAIN packet -> Packet] /\ DOMAIN packet \subseteq PacketId
        /\ \A p \in DOMAIN packet :
             {packet[p].src, packet[p].dst} \subseteq NodesOn[packet[p].ring]
    BY <1>1
  <2>4. /\ flit \in [LiveFlits -> [status : Status, node : Node]]
        /\ \A f \in LiveFlits : flit[f].node \in NodesOn[packet[f[1]].ring]
    BY <1>1, <1>2
  <2>5. /\ DOMAIN exb = Node
        /\ \A n \in Node : /\ Bound(n) \subseteq Ring
                           /\ exb[n] \in [Bound(n) -> Seq(FlitId)]
    BY <1>1 DEF Init
  <2>6. /\ ongoing \in [Node -> DOMAIN packet \cup {None}]
        /\ interrupt \in [Node -> BOOLEAN] /\ forward_length \in [Node -> Int]
        /\ record \in [Node -> SUBSET FlitId]
        /\ received \in [Node -> Nat] /\ received_flit \in [Node -> Nat]
    BY <1>1 DEF Init
  <2> QED BY <2>1, <2>2, <2>3, <2>4, <2>5, <2>6 DEF TypeOK
<1>4. FreshIds /\ WireExclusive /\ BufferedOnce
  BY <1>1 DEF FreshIds, WireExclusive, BufferedOnce
<1>5. ExbInUse /\ BoundFinite
  <2>1. IsFiniteSet({}) /\ Cardinality({}) = 0
    BY FS_EmptySet
  <2>2. \A n \in Node : IsFiniteSet(Bound(n)) /\ Cardinality(Bound(n)) = 0
    BY <1>1, <2>1
  <2> QED BY <1>1, <2>2, Numbers DEF ExbInUse, BoundFinite
<1>6. OngoingConsistent /\ EjectedInOrder /\ InterruptWindow
  BY <1>1 DEF OngoingConsistent, EjectedInOrder, InterruptWindow
<1> QED
  BY <1>3, <1>4, <1>5, <1>6 DEF IInv

\* The rings move all flits on a wire one hop on, and nothing else: no flit
\* leaves its ring, and two of them never meet.
LEMMA MoveRingsIInv == IInv /\ MoveRings => IInv'
<1> SUFFICES ASSUME IInv, MoveRings PROVE IInv'
  OBVIOUS
<1>1. /\ TypeOK /\ FreshIds /\ WireExclusive /\ BufferedSets /\ ExbInUse
      /\ BoundFinite /\ OngoingConsistent /\ EjectedInOrder
      /\ InterruptWindow
  BY BufferedAsSets DEF IInv
<1>2. /\ next_id' = next_id /\ packet' = packet /\ queue' = queue /\ exb' = exb
      /\ ongoing' = ongoing /\ interrupt' = interrupt
      /\ forward_length' = forward_length /\ record' = record
      /\ received' = received /\ received_flit' = received_flit
      /\ DOMAIN flit' = DOMAIN flit
      /\ turn' = 0
  BY DEF MoveRings, node_vars
<1>3. ASSUME NEW f \in DOMAIN flit
      PROVE  /\ flit'[f].status = flit[f].status
             /\ flit[f].status # "Routing" => flit'[f] = flit[f]
             /\ flit[f].status = "Routing" =>
                  flit'[f].node = NextNode[packet[f[1]].ring][flit[f].node]
             /\ flit'[f].node \in NodesOn[packet[f[1]].ring]
             /\ flit[f].node \in NodesOn[packet[f[1]].ring]
             /\ packet[f[1]].ring \in Ring
             /\ flit'[f] = [status |-> flit'[f].status, node |-> flit'[f].node]
  <2>1. flit[f] = [status |-> flit[f].status, node |-> flit[f].node]
    BY <1>1, FlitFacts
  <2>2. packet[f[1]].ring \in Ring
    BY <1>1, FlitFacts DEF Packet
  <2>3. flit[f].node \in NodesOn[packet[f[1]].ring]
    BY <1>1 DEF TypeOK
  <2>4. NextNode[packet[f[1]].ring][flit[f].node] \in NodesOn[packet[f[1]].ring]
    BY <2>2, <2>3, NocAssumption
  <2>5. flit'[f] = IF flit[f].status = "Routing"
                   THEN [flit[f] EXCEPT !.node = NextNode[packet[f[1]].ring][@]]
                   ELSE flit[f]
    BY DEF MoveRings
  <2> QED BY <2>1, <2>2, <2>3, <2>4, <2>5
<1>4. TypeOK'
  <2>1. LiveFlits' = LiveFlits /\ DOMAIN flit = LiveFlits
    BY <1>1, <1>2 DEF LiveFlits, TypeOK
  <2>2. cycle' \in 0..MaxCycle /\ turn' \in 0..N
    BY <1>1, <1>2, Numbers DEF MoveRings, TypeOK
  <2>3. ASSUME NEW f \in DOMAIN flit
        PROVE  /\ flit'[f].status \in Status /\ flit'[f].node \in Node
               /\ flit'[f] = [status |-> flit'[f].status, node |-> flit'[f].node]
    <3>1. flit[f].status \in Status
      BY <1>1, FlitFacts
    <3>2. flit'[f].node \in Node
      BY <1>3, NocAssumption
    <3> QED BY <1>3, <3>1, <3>2
  <2>4. flit' = [f \in DOMAIN flit |-> flit'[f]]
    <3>1. \E F : flit' = [f \in DOMAIN flit |-> F[f]]
      BY DEF MoveRings
    <3> QED BY <3>1
  <2>5. /\ flit' \in [LiveFlits' -> [status : Status, node : Node]]
        /\ \A f \in LiveFlits' : flit'[f].node \in NodesOn[packet'[f[1]].ring]
    BY <1>2, <1>3, <2>1, <2>3, <2>4
  <2> QED BY <1>1, <1>2, <2>2, <2>5 DEF TypeOK, Bound
<1>5. WireExclusive'
  <2>1. ASSUME NEW f \in DOMAIN flit, NEW g \in DOMAIN flit,
               flit'[f].status = "Routing", flit'[g] = flit'[f],
               packet[f[1]].ring = packet[g[1]].ring
        PROVE  f = g
    <3>1. flit[f].status = "Routing" /\ flit[g].status = "Routing"
      BY <1>3, <2>1
    <3> DEFINE r == packet[f[1]].ring
    <3>2. /\ flit[f].node \in NodesOn[r] /\ flit[g].node \in NodesOn[r]
          /\ NextNode[r][flit[f].node] = NextNode[r][flit[g].node]
          /\ r \in Ring
      BY ZenonT(30), <1>3, <2>1, <3>1
    <3>3. flit[f].node = flit[g].node
      <4> HIDE DEF r
      <4> QED BY <3>2, NocAssumption
    <3>4. flit[f] = flit[g]
      BY <1>1, <3>1, <3>3, FlitFacts
    <3> QED BY <1>1, <2>1, <3>1, <3>4 DEF WireExclusive
  <2> QED BY <1>2, <2>1 DEF WireExclusive
<1>6. BufferedOnce'
  <2>1. BufferedSets'
    BY <1>1, <1>2, <1>3 DEF BufferedSets, Bound
  <2> QED BY <2>1, BufferedAsSets, PTL
<1>7. OngoingConsistent'
  <2>1. ASSUME NEW f \in DOMAIN flit, flit[f].status = "Injecting"
        PROVE  /\ flit'[f].node = packet[f[1]].src
               /\ flit'[<<f[1], LastSeq(f[1])>>].status = "Injecting"
               /\ f[2] # LastSeq(f[1]) =>
                    flit'[<<f[1], f[2] + 1>>].status = "Injecting"
    <3>1. /\ f[2] \in 0..LastSeq(f[1]) /\ LastSeq(f[1]) \in Nat
          /\ \A i \in 0..LastSeq(f[1]) : <<f[1], i>> \in DOMAIN flit
      BY <1>1, FlitFacts
    <3>2. /\ LastSeq(f[1]) \in 0..LastSeq(f[1])
          /\ f[2] # LastSeq(f[1]) => f[2] + 1 \in 0..LastSeq(f[1])
      BY <3>1
    <3>3. /\ <<f[1], LastSeq(f[1])>> \in DOMAIN flit
          /\ f[2] # LastSeq(f[1]) => <<f[1], f[2] + 1>> \in DOMAIN flit
      BY <3>1, <3>2
    <3>4. /\ flit[f].node = packet[f[1]].src
          /\ flit[<<f[1], LastSeq(f[1])>>].status = "Injecting"
          /\ f[2] # LastSeq(f[1]) =>
               flit[<<f[1], f[2] + 1>>].status = "Injecting"
      BY <1>1, <2>1 DEF OngoingConsistent
    <3> QED BY <1>3, <2>1, <3>3, <3>4
  <2>2. ASSUME NEW n \in Node, ongoing[n] # None
        PROVE  /\ flit'[<<ongoing[n], LastSeq(ongoing[n])>>].status = "Injecting"
               /\ flit'[<<ongoing[n], 0>>].status # "Injecting"
    <3>1. ongoing[n] \in DOMAIN packet
      BY <1>1, <2>2 DEF TypeOK
    <3>2. /\ <<ongoing[n], LastSeq(ongoing[n])>> \in DOMAIN flit
          /\ <<ongoing[n], 0>> \in DOMAIN flit
      BY <1>1, <3>1, PacketFlits
    <3> QED BY <1>1, <1>3, <2>2, <3>2 DEF OngoingConsistent
  <2> QED
    BY <1>1, <1>2, <1>3, <2>1, <2>2
       DEF OngoingConsistent, OngoingRing, Bound, LastSeq
<1>8. EjectedInOrder'
  <2>1. ASSUME NEW f \in DOMAIN flit
        PROVE  /\ \A i \in 0..f[2] : <<f[1], i>> \in DOMAIN flit
               /\ f[2] # 0 => <<f[1], f[2] - 1>> \in DOMAIN flit
    <3>1. /\ f[2] \in 0..LastSeq(f[1]) /\ LastSeq(f[1]) \in Nat
          /\ \A i \in 0..LastSeq(f[1]) : <<f[1], i>> \in DOMAIN flit
      BY <1>1, FlitFacts
    <3>2. \A i \in 0..f[2] : i \in 0..LastSeq(f[1])
      BY <3>1
    <3>3. f[2] # 0 => f[2] - 1 \in 0..LastSeq(f[1])
      BY <3>1
    <3> QED BY <3>1, <3>2, <3>3
  <2>2. ASSUME NEW f \in DOMAIN flit, flit'[f].status = "Ejected"
        PROVE  /\ flit'[f].node = packet[f[1]].dst
               /\ f[2] # LastSeq(f[1])
               /\ \A i \in 0..f[2] : flit'[<<f[1], i>>].status = "Ejected"
    BY ZenonT(30), <1>1, <1>3, <2>1, <2>2 DEF EjectedInOrder
  <2>3. ASSUME NEW n \in Node
        PROVE  record[n] = {f \in DOMAIN flit :
                              /\ packet[f[1]].dst = n
                              /\ f[2] # 0
                              /\ flit'[f].status # "Ejected"
                              /\ flit'[<<f[1], f[2] - 1>>].status = "Ejected"}
    <3>1. \A f \in DOMAIN flit :
            /\ flit'[f].status = flit[f].status
            /\ f[2] # 0 => flit'[<<f[1], f[2] - 1>>].status
                             = flit[<<f[1], f[2] - 1>>].status
      BY <1>3, <2>1
    <3>2. record[n] = {f \in DOMAIN flit :
                         /\ packet[f[1]].dst = n
                         /\ f[2] # 0
                         /\ flit[f].status # "Ejected"
                         /\ flit[<<f[1], f[2] - 1>>].status = "Ejected"}
      <4>1. EjectedInOrder
        BY <1>1
      <4> QED BY ONLY <4>1, n \in Node DEF EjectedInOrder
    <3>3. \A f \in DOMAIN flit :
            (/\ f[2] # 0
             /\ flit[f].status # "Ejected"
             /\ flit[<<f[1], f[2] - 1>>].status = "Ejected")
            <=> (/\ f[2] # 0
                 /\ flit'[f].status # "Ejected"
                 /\ flit'[<<f[1], f[2] - 1>>].status = "Ejected")
      BY <3>1
    <3> QED BY <3>2, <3>3
  <2> QED BY <1>2, <2>2, <2>3 DEF EjectedInOrder, LastSeq
<1>9. FreshIds' /\ ExbInUse' /\ BoundFinite' /\ InterruptWindow'
  BY SMTT(30), <1>1, <1>2 DEF FreshIds, ExbInUse, BoundFinite, InterruptWindow, Bound,
                    OngoingRing, OngoingExb
<1> QED
  BY <1>4, <1>5, <1>6, <1>7, <1>8, <1>9 DEF IInv

\* A step that changes nothing preserves the invariant.
LEMMA StutterIInv == IInv /\ UNCHANGED vars => IInv'
<1> SUFFICES ASSUME IInv, UNCHANGED vars PROVE IInv'
  OBVIOUS
<1>1. /\ cycle' = cycle /\ turn' = turn /\ next_id' = next_id
      /\ packet' = packet /\ flit' = flit /\ queue' = queue /\ exb' = exb
      /\ ongoing' = ongoing /\ interrupt' = interrupt
      /\ forward_length' = forward_length /\ record' = record
      /\ received' = received /\ received_flit' = received_flit
  BY DEF vars, node_vars
<1>2. TypeOK' /\ FreshIds' /\ WireExclusive' /\ BufferedOnce'
  <2>1. LiveFlits' = LiveFlits /\ \A n \in Node : Bound(n)' = Bound(n)
    BY <1>1 DEF LiveFlits, Bound
  <2>2. TypeOK'
    BY <1>1, <2>1 DEF IInv, TypeOK
  <2>3. FreshIds'
    BY <1>1 DEF IInv, FreshIds
  <2>4. WireExclusive'
    BY <1>1 DEF IInv, WireExclusive
  <2>5. BufferedOnce'
    BY SMTT(30), <1>1 DEF IInv, BufferedOnce, Bound
  <2> QED BY <2>2, <2>3, <2>4, <2>5
<1>3. ExbInUse' /\ BoundFinite' /\ InterruptWindow'
  BY <1>1 DEF IInv, ExbInUse, BoundFinite, InterruptWindow, Bound, OngoingRing,
              OngoingExb
<1>4. OngoingConsistent' /\ EjectedInOrder'
  BY <1>1 DEF IInv, OngoingConsistent, EjectedInOrder, Bound, OngoingRing, LastSeq
<1> QED
  BY <1>2, <1>3, <1>4 DEF IInv

-----------------------------------------------------------------------------
(* The theorems.                                                           *)

\* Every step preserves the invariant.
LEMMA NextIInv == IInv /\ [Next]_vars => IInv'
<1> SUFFICES ASSUME IInv, [Next]_vars PROVE IInv'
  OBVIOUS
<1>1. CASE RunNode
  <2>1. PICK n \in Node : n = turn
    <3>1. turn \in 0..N /\ turn < N
      BY <1>1 DEF IInv, TypeOK, RunNode
    <3> QED BY <3>1, Numbers DEF Node
  <2>2. PICK o \in Offers(n), E \in EjectChoices(n) : Generate(o) /\ Run(n, o, E)
    BY <1>1, <2>1 DEF RunNode
  <2>3. PICK onto, off, new : NodeStep(n, E, onto, off, new)
    BY <2>2, RunSteps
  <2>4. TypeOK' /\ FreshIds' /\ WireExclusive' /\ BufferedOnce'
    BY <2>1, <2>3, StepTypeOK, StepFreshIds, StepWireExclusive, StepBufferedOnce
  <2>5. ExbInUse' /\ BoundFinite' /\ InterruptWindow'
    <3>1. EnableInterrupt => InterruptWindow'
      BY <2>3, StepWindow
    <3>2. InterruptWindow'
      BY <3>1 DEF InterruptWindow
    <3>3. ExbInUse' /\ BoundFinite'
      BY <2>3, StepExbInUse
    <3> QED BY <3>2, <3>3
  <2>6. OngoingConsistent' /\ EjectedInOrder'
    BY <2>3, StepOngoingConsistent, StepEjectedInOrder
  <2> QED BY <2>4, <2>5, <2>6 DEF IInv
<1>2. CASE MoveRings
  BY <1>2, MoveRingsIInv
<1>3. CASE UNCHANGED vars
  BY <1>3, StutterIInv
<1> QED
  BY <1>1, <1>2, <1>3 DEF Next

\* The inductive invariant holds in every state the network reaches, for every
\* topology, routing, traffic, and number and size of links and buffers.
THEOREM Invariance == Spec => []IInv
<1>1. Init => IInv
  BY InitIInv
<1>2. IInv /\ [Next]_vars => IInv'
  BY NextIInv
<1> QED
  BY <1>1, <1>2, PTL DEF Spec

\* The variables keep their ranges, and every flit in memory is at a node of
\* the ring of its packet (Node::run, Ring::update_curr_hop).
THEOREM TypeCorrect == Spec => []TypeOK
<1>1. IInv => TypeOK
  BY DEF IInv
<1> QED
  BY <1>1, Invariance, PTL

\* No packet id is in use twice (Traffic::packetinfo_generator).
THEOREM IdsAreFresh == Spec => []FreshIds
<1>1. IInv => FreshIds
  BY DEF IInv
<1> QED
  BY <1>1, Invariance, PTL

\* Two flits never share the slot of a ring at a node, whatever injections,
\* EXBs and interrupts put on the wires (Node::inject_eject, EXBManager::pop).
THEOREM SlotsAreExclusive == Spec => []WireExclusive
<1>1. IInv => WireExclusive
  BY DEF IInv
<1> QED
  BY <1>1, Invariance, PTL

\* The EXBs hold exactly the flits marked Buffered, each once, and no flit of
\* a packet that has been deleted (EXBManager::push, Ring::dettach).
THEOREM BuffersAreExact == Spec => []BufferedOnce
<1>1. IInv => BufferedOnce
  BY DEF IInv
<1> QED
  BY <1>1, Invariance, PTL

\* No EXB overflows, is popped when empty, or stays bound for nothing
\* (EXBManager::push, pop and release as Node calls them).
THEOREM BuffersAreInUse == Spec => []ExbInUse
<1>1. IInv => ExbInUse
  BY DEF IInv
<1> QED
  BY <1>1, Invariance, PTL

\* What is left of a packet in the injection module is a suffix of it, and the
\* packet holds an EXB until its tail is out (Node::continue_inject_packet).
THEOREM InjectionIsConsistent == Spec => []OngoingConsistent
<1>1. IInv => OngoingConsistent
  BY DEF IInv
<1> QED
  BY <1>1, Invariance, PTL

\* The flits of every packet are ejected in order at its destination, and the
\* ejection records are exact (Node::ej_arbitrator, Node::eject_flit).
THEOREM EjectionIsInOrder == Spec => []EjectedInOrder
<1>1. IInv => EjectedInOrder
  BY DEF IInv
<1> QED
  BY <1>1, Invariance, PTL

\* With the interrupt mechanism the flits counted for forwarding are at the
\* front of the EXB and of one packet (EXBManager::cal_forward_packet_length).
THEOREM WindowIsExact == Spec => []InterruptWindow
<1>1. IInv => InterruptWindow
  BY DEF IInv
<1> QED
  BY <1>1, Invariance, PTL

-----------------------------------------------------------------------------
(* Packets are conserved.                                                  *)

\* What a run of a node changes of the packets in the queues and on the rings:
\* started is the number of packets it starts, 0 or 1.
BalancedBy(n, E, started) ==
  /\ Len(queue'[n]) + started = Len(queue[n]) + (next_id' - next_id)
  /\ Attached' = Attached - Cardinality(Finished(n, E)) + started
  /\ received' = [received EXCEPT ![n] = @ + Cardinality(Finished(n, E))]
  /\ queue' = [queue EXCEPT ![n] = queue'[n]]

\* The packets on the rings, and those a node finishes, are finitely many.
LEMMA PacketsFinite ==
  ASSUME IInv, NEW n \in Node, NEW E, EjectFacts(n, E)
  PROVE  /\ IsFiniteSet(DOMAIN packet) /\ Attached \in Nat
         /\ IsFiniteSet(Finished(n, E)) /\ Cardinality(Finished(n, E)) \in Nat
         /\ IsFiniteSet(DOMAIN packet \ Finished(n, E))
         /\ Cardinality(DOMAIN packet \ Finished(n, E))
              = Attached - Cardinality(Finished(n, E))
<1>1. DOMAIN packet \subseteq PacketId /\ Finished(n, E) \subseteq DOMAIN packet
  BY DEF IInv, TypeOK, EjectFacts
<1>2. IsFiniteSet(PacketId)
  BY FS_Interval, Numbers DEF PacketId
<1>3. IsFiniteSet(DOMAIN packet) /\ IsFiniteSet(Finished(n, E))
  BY <1>1, <1>2, FS_Subset
<1>4. DOMAIN packet \cap Finished(n, E) = Finished(n, E)
  BY <1>1
<1> QED
  BY <1>3, <1>4, FS_Difference, FS_CardinalityType DEF Attached

\* A run of a node starts at most one packet, and the packets it generates are
\* in the queue, started or finished.
LEMMA RunBalance ==
  ASSUME IInv, NEW n \in Node, NEW o \in Offers(n), NEW E \in EjectChoices(n),
         Generate(o), Run(n, o, E)
  PROVE  \E started \in {0, 1} : BalancedBy(n, E, started)
<1>1. PICK onto, off, new : NodeStep(n, E, onto, off, new)
  BY RunSteps
<1>2. PICK q : q = QueueWith(n, o)
  OBVIOUS
<1>3. /\ q \in Seq(PacketInfo) /\ Len(q) \in Nat
      /\ \A i \in 1..Len(q) : q[i].id \notin DOMAIN packet
      /\ queue \in [Node -> Seq(PacketInfo)] /\ next_id \in Nat
  BY SMTT(30), <1>2, QueueFacts DEF IInv, TypeOK
<1>4. Len(q) = Len(queue[n]) + (next_id' - next_id)
  <2>1. queue[n] \in Seq(PacketInfo)
    BY <1>3
  <2>2. CASE o = NoOffer
    <3>1. q = queue[n] /\ next_id' = next_id
      BY <1>2, <2>2 DEF QueueWith, Generate
    <3> QED BY <1>3, <3>1
  <2>3. CASE o # NoOffer
    <3>1. PICK x : q = Append(queue[n], x)
      BY <1>2, <2>3 DEF QueueWith
    <3>2. Len(q) = Len(queue[n]) + 1
      BY <2>1, <3>1
    <3>3. next_id' = next_id + 1
      BY <2>3 DEF Generate
    <3> QED BY <1>3, <3>2, <3>3
  <2> QED BY <2>2, <2>3
<1>5. /\ EjectFacts(n, E)
      /\ DOMAIN packet' = (DOMAIN packet \ Finished(n, E)) \cup new
      /\ received' = [received EXCEPT ![n] = @ + Cardinality(Finished(n, E))]
      /\ queue' = [queue EXCEPT ![n] = queue'[n]]
      /\ new \cap DOMAIN packet = {}
  BY <1>1 DEF NodeStep, PacketStep, RecordStep, QueueStep
<1>6. /\ IsFiniteSet(DOMAIN packet \ Finished(n, E)) /\ Attached \in Nat
      /\ Cardinality(Finished(n, E)) \in Nat
      /\ Cardinality(DOMAIN packet \ Finished(n, E))
           = Attached - Cardinality(Finished(n, E))
  BY <1>5, PacketsFinite
<1>7. CASE Inject(n, o, E)
  <2>1. /\ q # <<>> /\ queue'[n] = Tail(q)
        /\ DOMAIN packet' = (DOMAIN packet \ Finished(n, E)) \cup {Head(q).id}
    BY <1>2, <1>3, <1>7 DEF Inject, CanInject
  <2>2. Head(q).id \notin DOMAIN packet
    BY <1>3, <2>1, EmptySeq
  <2>3. Len(queue'[n]) = Len(q) - 1
    BY <1>3, <2>1
  <2>4. Attached' = Cardinality(DOMAIN packet \ Finished(n, E)) + 1
    BY <1>6, <2>1, <2>2, FS_AddElement DEF Attached
  <2>5. BalancedBy(n, E, 1)
    BY <1>3, <1>4, <1>5, <1>6, <2>3, <2>4 DEF BalancedBy
  <2> QED BY <2>5
<1>8. CASE ~Inject(n, o, E)
  <2>1. queue'[n] = q /\ Detach(n, E)
    BY <1>2, <1>3, <1>8 DEF Run, Idle, InterruptPop, InjectFree,
       InterruptPopAndPush, StartInterrupt, InjectPush, Continue
  <2>2. DOMAIN packet' = DOMAIN packet \ Finished(n, E)
    BY <2>1 DEF Detach
  <2>3. Attached' = Attached - Cardinality(Finished(n, E))
    BY <1>6, <2>2 DEF Attached
  <2>4. BalancedBy(n, E, 0)
    BY <1>3, <1>4, <1>5, <1>6, <2>1, <2>3 DEF BalancedBy
  <2> QED BY <2>4
<1> QED BY <1>7, <1>8

\* A queue grows by what is generated and not started.
LEMMA QueuedAfter ==
  ASSUME IInv, NEW n \in Node, NEW E, NEW started \in {0, 1},
         BalancedBy(n, E, started), next_id' \in Nat,
         IInv'
  PROVE  /\ Queued \in Int /\ Queued' \in Int
         /\ Queued' + started = Queued + (next_id' - next_id)
<1> DEFINE before == [m \in Node |-> Len(queue[m])]
           after == [m \in Node |-> Len(queue'[m])]
<1>1. IsFiniteSet(Node)
  BY FS_Interval, Numbers DEF Node
<1>2. /\ queue \in [Node -> Seq(PacketInfo)] /\ queue' \in [Node -> Seq(PacketInfo)]
      /\ next_id \in Nat
  BY DEF IInv, TypeOK
<1>3. \A m \in Node : before[m] \in Int /\ after[m] \in Int
  BY <1>2, LenProperties
<1>4. \A m \in Node \ {n} : after[m] = before[m]
  BY <1>2 DEF BalancedBy
<1>5. after[n] + started = before[n] + (next_id' - next_id)
  BY DEF BalancedBy
<1>6. /\ Queued = SumFunctionOnSet(before, Node)
      /\ Queued' = SumFunctionOnSet(after, Node)
  BY DEF Queued, SumFunction
<1> HIDE DEF before, after
<1>7. /\ SumFunctionOnSet(before, Node) \in Int
      /\ SumFunctionOnSet(after, Node) \in Int
  BY <1>1, <1>3, SumType
<1>8. SumFunctionOnSet(after, Node)
        = SumFunctionOnSet(before, Node) - before[n] + after[n]
  BY <1>1, <1>3, <1>4, SumUpdate
<1>9. before[n] \in Int /\ after[n] \in Int /\ next_id \in Int /\ started \in Int
  BY <1>2, <1>3
<1> QED
  BY <1>5, <1>6, <1>7, <1>8, <1>9

\* Every step keeps the balance.
LEMMA NextConservation == IInv /\ IInv' /\ Conservation /\ [Next]_vars => Conservation'
<1> SUFFICES ASSUME IInv, IInv', Conservation, [Next]_vars PROVE Conservation'
  OBVIOUS
<1>a. IsFiniteSet(Node)
  BY FS_Interval, Numbers DEF Node
<1>b. /\ next_id \in Nat /\ next_id' \in Nat
      /\ received \in [Node -> Nat] /\ received' \in [Node -> Nat]
  BY Numbers DEF IInv, TypeOK
<1>1. /\ IsFiniteSet(Node) /\ next_id \in Nat /\ next_id' \in Nat
      /\ received \in [Node -> Nat] /\ received' \in [Node -> Nat]
  BY <1>a, <1>b
<1>2. CASE RunNode
  <2>1. PICK n \in Node : n = turn
    <3>1. turn \in 0..N /\ turn < N
      BY <1>2 DEF IInv, TypeOK, RunNode
    <3> QED BY <3>1, Numbers DEF Node
  <2>2. PICK o \in Offers(n), E \in EjectChoices(n) : Generate(o) /\ Run(n, o, E)
    BY <1>2, <2>1 DEF RunNode
  <2>3. PICK started \in {0, 1} : BalancedBy(n, E, started)
    BY <2>2, RunBalance
  <2>4. /\ Queued \in Int /\ Queued' \in Int
        /\ Queued' + started = Queued + (next_id' - next_id)
    BY <1>1, <2>3, QueuedAfter
  <2>5. Cardinality(Finished(n, E)) \in Nat /\ Attached \in Nat
    BY EjectChoiceFacts, PacketsFinite
  <2>6. /\ received'[n] = received[n] + Cardinality(Finished(n, E))
        /\ \A m \in Node \ {n} : received'[m] = received[m]
        /\ \A m \in Node : received[m] \in Int /\ received'[m] \in Int
    BY <1>1, <2>3 DEF BalancedBy
  <2>7. /\ SumFunctionOnSet(received', Node)
             = SumFunctionOnSet(received, Node) - received[n] + received'[n]
        /\ SumFunctionOnSet(received, Node) \in Int
    BY <1>1, <2>6, SumUpdate, SumType
  <2>8. /\ SumFunction(received) = SumFunctionOnSet(received, Node)
        /\ SumFunction(received)' = SumFunctionOnSet(received', Node)
    BY <1>1 DEF SumFunction
  <2>9. Attached' = Attached - Cardinality(Finished(n, E)) + started
    BY <2>3 DEF BalancedBy
  <2>10. PICK done \in Nat : done = Cardinality(Finished(n, E))
    BY <2>5
  <2> QED
    <3>1. SumFunction(received)' = SumFunction(received) + done
      BY <2>6, <2>7, <2>8, <2>10
    <3>2. SumFunction(received) \in Int
      BY <2>7, <2>8
    <3> QED BY <1>1, <2>4, <2>5, <2>9, <2>10, <3>1, <3>2 DEF Conservation
<1>3. CASE MoveRings \/ UNCHANGED vars
  BY <1>3 DEF MoveRings, vars, node_vars, Conservation, Queued, Attached
<1> QED
  BY <1>2, <1>3 DEF Next

\* There are no packets before the first cycle.
LEMMA InitConservation == Init => Conservation
<1> SUFFICES ASSUME Init PROVE Conservation
  OBVIOUS
<1>1. IsFiniteSet(Node)
  BY FS_Interval, Numbers DEF Node
<1>2. /\ next_id = 0 /\ DOMAIN packet = {} /\ DOMAIN received = Node
      /\ \A n \in Node : received[n] = 0 /\ Len(queue[n]) = 0
  BY DEF Init
<1>3. SumFunction(received) = 0
  BY <1>1, <1>2, SumZero DEF SumFunction
<1>4. Queued = 0
  <2>1. PICK f : f = [n \in Node |-> Len(queue[n])]
    OBVIOUS
  <2>2. SumFunctionOnSet(f, Node) = 0
    BY <1>1, <1>2, <2>1, SumZero
  <2> QED BY <2>1, <2>2 DEF Queued, SumFunction
<1>5. Attached = 0
  BY <1>2, FS_EmptySet DEF Attached
<1> QED BY <1>2, <1>3, <1>4, <1>5 DEF Conservation

\* No packet is lost or duplicated: every id handed out is queued, on a ring,
\* or received (Traffic::packetinfo_generator, Ring::attach, Ring::dettach).
THEOREM PacketsAreConserved == Spec => []Conservation
<1>1. Init => IInv /\ Conservation
  BY InitIInv, InitConservation
<1>2. (IInv /\ Conservation) /\ [Next]_vars => (IInv /\ Conservation)'
  BY NextIInv, NextConservation
<1> QED
  BY <1>1, <1>2, PTL DEF Spec

-----------------------------------------------------------------------------
(* The refinement of Delivery: whatever rings, extension buffers and          *)
(* interrupts do to the flits, a run of a node is one cycle of the service     *)
(* its users see, and the movement of the rings changes nothing in it.         *)

\* The flits of packet p that have not arrived, by their sequence numbers.
Coming(p) == {i \in 0..LastSeq(p) : flit[<<p, i>>].status # "Ejected"}

\* Delivery counts as the library does.
LEMMA SameCount == \A S : Users!Cardinality(S) = Cardinality(S)
BY DEF Users!Cardinality, Cardinality

\* What the users are owed, packet by packet.
LEMMA OwedFacts ==
  /\ DOMAIN Owed = DOMAIN packet
  /\ \A p \in DOMAIN packet :
       Owed[p] = [dst |-> packet[p].dst, flits |-> Coming(p)]
BY DEF Owed, Coming

-----------------------------------------------------------------------------
(* The packets that arrive at a node in one cycle.                         *)

\* They are addressed to the node and no more than its ejection links.
LEMMA ArrivedFacts ==
  ASSUME IInv, NEW n \in Node, NEW E \in EjectChoices(n)
  PROVE  Arrived(n, E) \in Users!Arriving(n)
<1>1. /\ TypeOK /\ EjectFacts(n, E)
      /\ \A r \in E : OnWire(n, r) # {}
  BY EjectChoiceFacts DEF IInv
<1> DEFINE S == Arrived(n, E)
           g == [p \in S |-> packet[p].ring]
<1>2. \A p \in S : p \in DOMAIN packet /\ p \in PacketId /\ packet[p].dst = n
  BY <1>1, FlitFacts DEF Arrived, EjectFacts
<1>3. IsFiniteSet(S)
  BY <1>1, EjectedCount
<1>4. \A r \in E : /\ Arrival(n, r) \in Ejected(n, E)
                   /\ packet[Arrival(n, r)[1]].ring = r
  BY <1>1, ArrivalFacts DEF Ejected
<1>5. \A p \in S : \E r \in E : p = Arrival(n, r)[1] /\ packet[p].ring = r
  BY <1>4 DEF Arrived, Ejected
<1>6. \A r \in E : \E p \in S : packet[p].ring = r
  BY <1>4 DEF Arrived
<1>7. g \in Bijection(S, E)
  <2> HIDE DEF S
  <2>1. g \in [S -> E]
    BY <1>5
  <2>2. \A p, q \in S : packet[p].ring = packet[q].ring => p = q
    BY <1>5
  <2> QED
    BY <1>6, <2>1, <2>2 DEF Bijection, Injection, Surjection, IsInjective
<1>8. Cardinality(E) = Cardinality(S) /\ Cardinality(S) \in Nat
  <2> HIDE DEF S, g
  <2>1. ExistsBijection(S, E)
    BY <1>7 DEF ExistsBijection
  <2> QED BY <1>3, <2>1, FS_Bijection, FS_CardinalityType
<1>9. Cardinality(S) <= EjPorts
  <2> DEFINE C == Cardinality(DOMAIN Candidates(n))
  <2>1. Cardinality(E) = IF EjPorts < C THEN EjPorts ELSE C
    BY DEF EjectChoices, EjectSets
  <2> HIDE DEF C, S
  <2>2. EjPorts \in Nat
    BY NocAssumption
  <2>3. CASE EjPorts < C
    BY <1>8, <2>1, <2>2, <2>3
  <2>4. CASE ~(EjPorts < C)
    BY <1>8, <2>1, <2>2, <2>4
  <2> QED BY <2>3, <2>4
<1>10. S \subseteq {p \in DOMAIN Owed : Owed[p].dst = n}
  BY <1>2, OwedFacts
<1> QED
  BY <1>9, <1>10, SameCount DEF Users!Arriving
-----------------------------------------------------------------------------
(* What a step of a node does to the flits to come.                        *)

\* Exactly the flits ejected in the step arrive, and a packet that starts has
\* all of its flits to come.
LEMMA ComingAfter ==
  ASSUME IInv, NEW n \in Node, NEW E, NEW onto, NEW off, NEW new,
         NodeStep(n, E, onto, off, new)
  PROVE  /\ \A p \in DOMAIN packet \ Finished(n, E) :
              /\ p \in DOMAIN packet' /\ packet'[p] = packet[p]
              /\ Coming(p)' = {i \in Coming(p) : <<p, i>> \notin Ejected(n, E)}
         /\ \A p \in new : Coming(p)' = 0..(packet'[p].length - 1)
<1>1. TypeOK /\ EjectFacts(n, E) /\ PacketStep(n, E, new)
  BY DEF IInv, NodeStep
<1>2. ASSUME NEW f \in DOMAIN flit'
      PROVE  flit'[f].status = "Ejected" <=>
               \/ f \in Ejected(n, E)
               \/ f \in DOMAIN flit /\ flit[f].status = "Ejected"
  <2>1. \/ f \in Ejected(n, E) \/ f \in off \/ f \in onto
        \/ f \notin Ejected(n, E) /\ f \notin off /\ f \notin onto
    OBVIOUS
  <2> QED BY <2>1, StatusFacts DEF IsNext
<1>3. ASSUME NEW p \in DOMAIN packet \ Finished(n, E)
      PROVE  /\ p \in DOMAIN packet' /\ packet'[p] = packet[p]
             /\ Coming(p)' = {i \in Coming(p) : <<p, i>> \notin Ejected(n, E)}
  <2>1. p \in DOMAIN packet' /\ packet'[p] = packet[p]
    BY <1>1 DEF PacketStep
  <2>2. \A i \in 0..LastSeq(p) : <<p, i>> \in DOMAIN flit
    BY <1>1, PacketFlits DEF FlitIds, LastSeq
  <2>3. \A i \in 0..LastSeq(p) : <<p, i>> \in DOMAIN flit'
    BY <2>2, AfterStep
  <2>4. LastSeq(p)' = LastSeq(p)
    BY <2>1 DEF LastSeq
  <2> QED BY <1>2, <2>1, <2>2, <2>3, <2>4 DEF Coming
<1>4. ASSUME NEW p \in new
      PROVE  Coming(p)' = 0..(packet'[p].length - 1)
  <2>1. p \in DOMAIN packet' /\ p \notin DOMAIN packet
    BY <1>1 DEF PacketStep
  <2>2. \A i \in 0..(packet'[p].length - 1) : <<p, i>> \in LiveFlits'
    BY <2>1 DEF LiveFlits, FlitIds
  <2>3. \A i \in 0..(packet'[p].length - 1) :
          /\ <<p, i>> \in DOMAIN flit' /\ <<p, i>> \notin DOMAIN flit
          /\ <<p, i>> \notin Ejected(n, E)
    <3>1. \A f \in DOMAIN flit : f[1] \in DOMAIN packet
      BY <1>1, FlitFacts
    <3>2. \A i : <<p, i>> \notin DOMAIN flit
      BY <2>1, <3>1
    <3> QED BY <1>1, <2>2, <3>2, AfterStep DEF EjectFacts
  <2> QED BY <1>2, <2>3 DEF Coming, LastSeq
<1> QED
  BY <1>3, <1>4

\* The flit of a packet that arrives is the first to come, and the only one
\* of its packet; it finishes the packet if no other is to come.
ArrivesInOrder(n, E, p, i) ==
  /\ p \in DOMAIN packet /\ i \in Coming(p)
  /\ \A j \in Coming(p) : i <= j
  /\ \A j \in Coming(p) : <<p, j>> \in Ejected(n, E) <=> j = i
  /\ p \in Finished(n, E) <=> Coming(p) = {i}

LEMMA ArrivalInOrder ==
  ASSUME IInv, NEW n \in Node, NEW E, EjectFacts(n, E), NEW p \in Arrived(n, E)
  PROVE  \E i : ArrivesInOrder(n, E, p, i)
<1>1. TypeOK /\ EjectedInOrder
  BY DEF IInv
<1>2. PICK f \in Ejected(n, E) : p = f[1]
  BY DEF Arrived
<1>3. /\ f \in DOMAIN flit /\ flit[f].status # "Ejected" /\ p \in DOMAIN packet
      /\ f = <<p, f[2]>> /\ f[2] \in 0..LastSeq(p) /\ LastSeq(p) \in Nat
      /\ f[2] # 0 => f \in record[n]
      /\ \A i \in 0..LastSeq(p) : <<p, i>> \in DOMAIN flit
  BY <1>1, <1>2, FlitFacts DEF EjectFacts
<1>4. PICK i \in 0..LastSeq(p) : i = f[2] /\ f = <<p, i>>
  BY <1>3
<1>5. i \in Coming(p)
  BY <1>3, <1>4 DEF Coming
<1>6. \A j \in 0..(i - 1) : flit[<<p, j>>].status = "Ejected"
  <2>1. CASE i = 0
    BY <2>1
  <2>2. CASE i # 0
    <3>1. flit[<<p, i - 1>>].status = "Ejected"
      BY <1>1, <1>3, <1>4, <2>2 DEF EjectedInOrder
    <3>2. i - 1 \in 0..LastSeq(p) /\ <<p, i - 1>> \in DOMAIN flit
      BY <1>3, <2>2
    <3>3. \A j \in 0..(i - 1) : flit[<<p, j>>].status = "Ejected"
      BY <1>1, <3>1, <3>2 DEF EjectedInOrder
    <3> QED BY <3>3
  <2> QED BY <2>1, <2>2
<1>7. \A j \in Coming(p) : i <= j
  <2>1. \A j \in 0..LastSeq(p) : i <= j \/ j \in 0..(i - 1)
    BY <1>3
  <2> QED BY <1>6, <2>1 DEF Coming
<1>8. \A j \in Coming(p) : <<p, j>> \in Ejected(n, E) <=> j = i
  BY <1>2, <1>4 DEF EjectFacts
<1>9. ASSUME p \in Finished(n, E) PROVE Coming(p) = {i}
  <2>1. \A g \in DOMAIN flit :
          g[1] = p => g \in Ejected(n, E) \/ flit[g].status = "Ejected"
    BY <1>9 DEF EjectFacts
  <2>2. \A j \in Coming(p) : <<p, j>> \in Ejected(n, E)
    BY <1>3, <2>1 DEF Coming
  <2> QED BY <1>5, <1>8, <2>2
<1>10. ASSUME Coming(p) = {i} PROVE p \in Finished(n, E)
  <2>1. flit[<<p, LastSeq(p)>>].status # "Ejected"
    BY <1>1, <1>3 DEF EjectedInOrder
  <2>2. LastSeq(p) \in Coming(p)
    BY <1>3, <2>1 DEF Coming
  <2>3. f[2] = LastSeq(f[1])
    BY <1>2, <1>4, <1>10, <2>2
  <2> QED BY <1>2, <2>3 DEF EjectFacts
<1> QED
  BY <1>3, <1>5, <1>7, <1>8, <1>9, <1>10 DEF ArrivesInOrder

\* The flit due of a packet that arrives is the one ejected, and the packets
\* completed are those finished.
LEMMA DueFacts ==
  ASSUME IInv, NEW n \in Node, NEW E, EjectFacts(n, E)
  PROVE  /\ \A p \in Arrived(n, E) : ArrivesInOrder(n, E, p, Users!Due(p))
         /\ Users!Completed(Arrived(n, E)) = Finished(n, E)
<1>1. ASSUME NEW p \in Arrived(n, E)
      PROVE  /\ ArrivesInOrder(n, E, p, Users!Due(p))
             /\ Owed[p].flits = Coming(p)
  <2>1. PICK i : ArrivesInOrder(n, E, p, i)
    BY ArrivalInOrder
  <2>2. Owed[p].flits = Coming(p)
    BY <2>1, OwedFacts DEF ArrivesInOrder
  <2>3. \A j \in Coming(p) : j \in Int
    <3>1. LastSeq(p) \in Nat
      BY <2>1, PacketFlits DEF IInv, ArrivesInOrder
    <3> QED BY <3>1 DEF Coming
  <2>4. i \in Coming(p) /\ \A j \in Coming(p) : i <= j
    BY <2>1 DEF ArrivesInOrder
  <2>5. \A k \in Coming(p) : (\A j \in Coming(p) : k <= j) => k = i
    BY <2>3, <2>4
  <2>6. Users!Due(p) = CHOOSE k \in Coming(p) : \A j \in Coming(p) : k <= j
    BY <2>2 DEF Users!Due
  <2>7. Users!Due(p) = i
    BY <2>4, <2>5, <2>6
  <2> QED BY <2>1, <2>2, <2>7
<1>2. Finished(n, E) \subseteq Arrived(n, E)
  BY DEF Finished, Arrived
<1>3. \A p \in Arrived(n, E) :
        p \in Finished(n, E) <=> Owed[p].flits = {Users!Due(p)}
  BY <1>1 DEF ArrivesInOrder
<1> QED
  BY <1>1, <1>2, <1>3 DEF Users!Completed

\* After a step the flit due of each packet that arrived is no longer owed, and
\* all flits of a packet that started are; finished packets are forgotten.
OwedAsPromised(n, E, new) ==
  LET S == Arrived(n, E)
      still == DOMAIN packet \ Finished(n, E)
  IN  /\ DOMAIN Owed \ Users!Completed(S) = still
      /\ \A p \in still :
           Owed'[p] = [Owed[p] EXCEPT !.flits = IF p \in S THEN @ \ {Users!Due(p)} ELSE @]
      /\ \A p \in new :
           Owed'[p] = [dst |-> packet'[p].dst, flits |-> 0..(packet'[p].length - 1)]
      /\ DOMAIN Owed' = still \cup new
      /\ Owed' = [p \in DOMAIN Owed' |-> Owed'[p]]

\* Every step of a node keeps what the users are owed that way.
LEMMA OwedStep ==
  ASSUME IInv, NEW n \in Node, NEW E, NEW onto, NEW off, NEW new,
         NodeStep(n, E, onto, off, new)
  PROVE  OwedAsPromised(n, E, new)
<1> DEFINE S == Arrived(n, E)
<1>1. TypeOK /\ EjectFacts(n, E) /\ PacketStep(n, E, new)
  BY DEF IInv, NodeStep
<1>2. /\ DOMAIN Owed' = DOMAIN packet'
      /\ \A p \in DOMAIN packet' :
           Owed'[p] = [dst |-> packet'[p].dst, flits |-> Coming(p)']
  BY DEF Owed, Coming
<1>3. DOMAIN Owed \ Users!Completed(S) = DOMAIN packet \ Finished(n, E)
  BY <1>1, DueFacts, OwedFacts
<1>4. ASSUME NEW p \in DOMAIN packet \ Finished(n, E)
      PROVE  Owed'[p] = [Owed[p] EXCEPT !.flits = IF p \in S THEN @ \ {Users!Due(p)} ELSE @]
  <2>1. /\ p \in DOMAIN packet' /\ packet'[p] = packet[p]
        /\ Coming(p)' = {i \in Coming(p) : <<p, i>> \notin Ejected(n, E)}
    BY ComingAfter
  <2>2. /\ Owed[p] = [dst |-> packet[p].dst, flits |-> Coming(p)]
        /\ Owed'[p] = [dst |-> packet[p].dst, flits |-> Coming(p)']
    BY <1>2, <2>1, OwedFacts
  <2>3. CASE p \in S
    <3>1. \A j \in Coming(p) : <<p, j>> \in Ejected(n, E) <=> j = Users!Due(p)
      BY <1>1, <2>3, DueFacts DEF ArrivesInOrder
    <3>2. Coming(p)' = Coming(p) \ {Users!Due(p)}
      BY <2>1, <3>1
    <3> QED BY <2>2, <2>3, <3>2
  <2>4. CASE p \notin S
    <3>1. \A j \in Coming(p) : <<p, j>> \notin Ejected(n, E)
      BY <2>4 DEF Arrived
    <3>2. Coming(p)' = Coming(p)
      BY <2>1, <3>1
    <3> QED BY <2>2, <2>4, <3>2
  <2> QED BY <2>3, <2>4
<1>5. ASSUME NEW p \in new
      PROVE  Owed'[p] = [dst |-> packet'[p].dst, flits |-> 0..(packet'[p].length - 1)]
  <2>1. p \in DOMAIN packet'
    BY <1>1 DEF PacketStep
  <2> QED BY <1>2, <2>1, ComingAfter
<1>6. Owed' = [p \in DOMAIN Owed' |-> Owed'[p]]
  BY DEF Owed
<1> QED
  BY <1>1, <1>2, <1>3, <1>4, <1>5, <1>6 DEF PacketStep, OwedAsPromised
-----------------------------------------------------------------------------
(* Queues.                                                                 *)

\* What the users see of a queued packet, and of a queue.
ShownEntry(i) == [id |-> i.id, dst |-> i.dst, length |-> i.length]
Shown(q) == [i \in 1..Len(q) |-> ShownEntry(q[i])]
Entries == [id : PacketId, dst : Node, length : Nat \ {0}]

\* A shown queue is a sequence of entries, and shows what Head, Tail and
\* Append do to the queue.
LEMMA ShownFacts ==
  ASSUME NEW q \in Seq(PacketInfo)
  PROVE  /\ Shown(q) \in Seq(Entries) /\ Len(Shown(q)) = Len(q)
         /\ Len(q) \in Nat
         /\ SubSeq(Shown(q), 1, Len(q)) = Shown(q)
         /\ SubSeq(Shown(q), 1, 0) = <<>>
         /\ \A x \in PacketInfo :
              Shown(Append(q, x)) = Shown(q) \o <<ShownEntry(x)>>
         /\ q # <<>> =>
              /\ 1 <= Len(q)
              /\ SubSeq(Shown(q), 2, Len(q)) = Shown(Tail(q))
              /\ SubSeq(Shown(q), 1, 1) = <<ShownEntry(Head(q))>>
<1>1. /\ Len(q) \in Nat
      /\ \A i \in 1..Len(q) : q[i] \in PacketInfo
  BY LenProperties, ElementOfSeq
<1>2. \A x \in PacketInfo : ShownEntry(x) \in Entries
  BY DEF ShownEntry, PacketInfo, Entries
<1>3. Shown(q) \in [1..Len(q) -> Entries]
  BY <1>1, <1>2 DEF Shown
<1>4. Shown(q) \in Seq(Entries) /\ Len(Shown(q)) = Len(q)
  BY <1>1, <1>3
<1>5. \A i \in 1..Len(q) : Shown(q)[i] = ShownEntry(q[i])
  BY DEF Shown
<1>6. SubSeq(Shown(q), 1, Len(q)) = Shown(q)
  BY <1>4, SubSeqFull
<1>7. SubSeq(Shown(q), 1, 0) = <<>>
  BY SubSeqEmpty
<1>8. ASSUME NEW x \in PacketInfo
      PROVE  Shown(Append(q, x)) = Shown(q) \o <<ShownEntry(x)>>
  <2> DEFINE a == Append(q, x)
             s == Append(Shown(q), ShownEntry(x))
  <2>1. /\ a \in Seq(PacketInfo) /\ Len(a) = Len(q) + 1
        /\ \A i \in 1..Len(q) : a[i] = q[i]
        /\ a[Len(q) + 1] = x
    BY AppendProperties
  <2>2. /\ s \in Seq(Entries) /\ Len(s) = Len(q) + 1
        /\ \A i \in 1..Len(q) : s[i] = Shown(q)[i]
        /\ s[Len(q) + 1] = ShownEntry(x)
    BY <1>2, <1>4, AppendProperties
  <2>3. s = Shown(q) \o <<ShownEntry(x)>>
    BY <1>2, <1>4, AppendIsConcat
  <2> HIDE DEF a, s
  <2>4. /\ Shown(a) \in Seq(Entries) /\ Len(Shown(a)) = Len(a)
    <3>1. Len(a) \in Nat /\ \A i \in 1..Len(a) : a[i] \in PacketInfo
      BY <1>1, <2>1
    <3>2. Shown(a) \in [1..Len(a) -> Entries]
      BY <1>2, <3>1 DEF Shown
    <3> QED BY <3>1, <3>2
  <2>5. ASSUME NEW i \in 1..Len(a) PROVE Shown(a)[i] = s[i]
    <3>1. Shown(a)[i] = ShownEntry(a[i])
      BY DEF Shown
    <3>2. i \in 1..Len(q) \/ i = Len(q) + 1
      BY <1>1, <2>1
    <3> QED BY <1>5, <2>1, <2>2, <3>1, <3>2
  <2>6. Shown(a) = s
    BY <2>1, <2>2, <2>4, <2>5, SeqEqual
  <2> QED BY <2>3, <2>6 DEF a
<1>9. ASSUME q # <<>>
      PROVE  /\ 1 <= Len(q)
             /\ SubSeq(Shown(q), 2, Len(q)) = Shown(Tail(q))
             /\ SubSeq(Shown(q), 1, 1) = <<ShownEntry(Head(q))>>
  <2>1. 1 <= Len(q) /\ Shown(q) # <<>> /\ 1 \in 1..Len(q)
    BY <1>1, <1>4, <1>9, EmptySeq
  <2>2. /\ Tail(q) \in Seq(PacketInfo) /\ Len(Tail(q)) = Len(q) - 1
        /\ \A i \in 1..Len(Tail(q)) : Tail(q)[i] = q[i + 1]
    BY <1>9, HeadTailProperties
  <2>3. SubSeq(Shown(q), 2, Len(q)) = Tail(Shown(q))
    BY <1>4, <2>1, TailIsSubSeq
  <2>4. /\ Tail(Shown(q)) \in Seq(Entries) /\ Len(Tail(Shown(q))) = Len(q) - 1
        /\ \A i \in 1..(Len(q) - 1) : Tail(Shown(q))[i] = Shown(q)[i + 1]
    BY <1>4, <2>1, HeadTailProperties
  <2>5. Shown(Tail(q)) \in Seq(Entries) /\ Len(Shown(Tail(q))) = Len(q) - 1
    <3>1. /\ Len(q) - 1 \in Nat
          /\ \A i \in 1..(Len(q) - 1) : Tail(q)[i] \in PacketInfo
      BY <1>1, <2>1, <2>2
    <3>2. Shown(Tail(q)) \in [1..(Len(q) - 1) -> Entries]
      BY <1>2, <2>2, <3>1 DEF Shown
    <3> QED BY <3>1, <3>2
  <2>6. ASSUME NEW i \in 1..(Len(q) - 1)
        PROVE  Shown(Tail(q))[i] = Tail(Shown(q))[i]
    <3>1. i + 1 \in 1..Len(q)
      BY <1>1, <2>1
    <3>2. Shown(Tail(q))[i] = ShownEntry(Tail(q)[i])
      BY <2>2 DEF Shown
    <3> QED BY <1>5, <2>2, <2>4, <3>1, <3>2
  <2>7. Shown(Tail(q)) = Tail(Shown(q))
    BY <2>4, <2>5, <2>6, SeqEqual
  <2>8. SubSeq(Shown(q), 1, 1) = <<Shown(q)[1]>> /\ Head(q) = q[1]
    <3>1. Shown(q)[1] \in Entries
      BY <1>3, <2>1
    <3>2. /\ SubSeq(Shown(q), 1, 1) \in Seq(Entries)
          /\ Len(SubSeq(Shown(q), 1, 1)) = 1
          /\ SubSeq(Shown(q), 1, 1)[1] = Shown(q)[1]
      <4>1. \A i \in 1..1 : Shown(q)[i] \in Entries
        BY <3>1
      <4>2. /\ SubSeq(Shown(q), 1, 1) \in Seq(Entries)
            /\ Len(SubSeq(Shown(q), 1, 1)) = IF 1 <= 1 THEN 1 - 1 + 1 ELSE 0
            /\ \A i \in 1..(1 - 1 + 1) : SubSeq(Shown(q), 1, 1)[i] = Shown(q)[1 + i - 1]
        BY <4>1, SubSeqProperties
      <4> QED BY <4>2
    <3>3. /\ <<Shown(q)[1]>> \in Seq(Entries) /\ Len(<<Shown(q)[1]>>) = 1
          /\ <<Shown(q)[1]>>[1] = Shown(q)[1]
      BY <3>1
    <3>4. SubSeq(Shown(q), 1, 1) = <<Shown(q)[1]>>
      <4>1. \A s, t \in Seq(Entries) :
              Len(s) = 1 /\ Len(t) = 1 /\ s[1] = t[1] => s = t
        BY SeqEqual
      <4> QED BY <3>2, <3>3, <4>1
    <3> QED BY <1>9, <3>4
  <2> QED BY <1>5, <2>1, <2>3, <2>7, <2>8
<1> QED
  BY <1>1, <1>4, <1>6, <1>7, <1>8, <1>9

\* The waiting packets are the shown queues.
LEMMA WaitingFacts ==
  /\ Waiting = [n \in Node |-> Shown(queue[n])]
  /\ Waiting' = [n \in Node |-> Shown(queue'[n])]
BY DEF Waiting, Shown, ShownEntry
-----------------------------------------------------------------------------
(* The refinement.                                                         *)

\* What is owed after a step is what the service prescribes when the sequence
\* s, empty or a single entry, names the packet that starts.
LEMMA OwedIsOwedAfter ==
  ASSUME IInv, NEW n \in Node, NEW E, NEW onto, NEW off, NEW new,
         NodeStep(n, E, onto, off, new),
         NEW s, {s[i].id : i \in DOMAIN s} = new,
         \A p \in new : /\ packet'[p].dst = s[1].dst
                        /\ packet'[p].length = s[1].length
  PROVE  Owed' = Users!OwedAfter(Arrived(n, E), s)
<1>a. PICK S : S = Arrived(n, E)
  OBVIOUS
<1>b. PICK still : still = DOMAIN packet \ Finished(n, E)
  OBVIOUS
<1>1. /\ DOMAIN Owed \ Users!Completed(S) = still
      /\ \A p \in still :
           Owed'[p] = [Owed[p] EXCEPT !.flits = IF p \in S THEN @ \ {Users!Due(p)} ELSE @]
      /\ \A p \in new :
           Owed'[p] = [dst |-> packet'[p].dst, flits |-> 0..(packet'[p].length - 1)]
      /\ DOMAIN Owed' = still \cup new
      /\ Owed' = [p \in DOMAIN Owed' |-> Owed'[p]]
  <2>1. OwedAsPromised(n, E, new)
    BY OwedStep
  <2> QED BY <1>a, <1>b, <2>1 DEF OwedAsPromised
<1>2. new \cap still = {}
  BY <1>b DEF NodeStep, PacketStep
<1>3. Users!OwedAfter(S, s) =
        [p \in still \cup new |->
           IF p \in new THEN [dst |-> s[1].dst, flits |-> 0..(s[1].length - 1)]
           ELSE [Owed[p] EXCEPT !.flits = IF p \in S THEN @ \ {Users!Due(p)} ELSE @]]
  BY <1>1, Zenon DEF Users!OwedAfter
<1>4. \A p \in still \cup new :
        Owed'[p] = IF p \in new THEN [dst |-> s[1].dst, flits |-> 0..(s[1].length - 1)]
                   ELSE [Owed[p] EXCEPT !.flits = IF p \in S THEN @ \ {Users!Due(p)} ELSE @]
  BY <1>1, <1>2, Zenon
<1>5. Owed' = [p \in still \cup new |->
                 IF p \in new THEN [dst |-> s[1].dst, flits |-> 0..(s[1].length - 1)]
                 ELSE [Owed[p] EXCEPT !.flits = IF p \in S THEN @ \ {Users!Due(p)} ELSE @]]
  BY <1>1, <1>4, Zenon
<1> QED
  BY <1>a, <1>3, <1>5

\* What a node accepts shows at the end of its queue.
LEMMA AcceptedFacts ==
  ASSUME IInv, NEW n \in Node, NEW o \in Offers(n), Generate(o)
  PROVE  \E new \in Users!Accepted(n) :
           /\ Waiting[n] \o new = Shown(QueueWith(n, o))
           /\ next_id' = next_id + Len(new)
<1>1. /\ queue[n] \in Seq(PacketInfo) /\ next_id \in 0..MaxPackets
      /\ cycle \in 0..MaxCycle
  BY DEF IInv, TypeOK
<1>2. Waiting[n] = Shown(queue[n])
  BY WaitingFacts
<1>3. CASE o = NoOffer
  <2>1. Shown(queue[n]) \o <<>> = Shown(queue[n])
    BY <1>1, ShownFacts, ConcatEmptySeq
  <2>2. QueueWith(n, o) = queue[n] /\ next_id' = next_id + Len(<<>>)
    BY <1>1, <1>3, Numbers DEF QueueWith, Generate
  <2>3. <<>> \in Users!Accepted(n)
    BY DEF Users!Accepted
  <2> QED BY <1>2, <2>1, <2>2, <2>3
<1>4. CASE o # NoOffer
  <2> DEFINE x == [id |-> next_id, dst |-> o.dst,
                   length |-> o.length, ctime |-> cycle]
             new == <<[id |-> next_id, dst |-> o.dst, length |-> o.length]>>
  <2>1. cycle < MaxCycle /\ next_id < MaxPackets /\ o \in Offer[n]
    BY <1>4 DEF Offers
  <2>2. o \in [dst : Node, length : Nat \ {0}]
    BY <2>1, NocAssumption
  <2>3. x \in PacketInfo
    <3>1. next_id \in PacketId /\ cycle \in 0..MaxCycle
      BY <1>1, <2>1, Numbers DEF PacketId
    <3> QED BY <2>2, <3>1 DEF PacketInfo
  <2>4. QueueWith(n, o) = Append(queue[n], x) /\ new = <<ShownEntry(x)>>
    BY <1>4 DEF QueueWith, ShownEntry
  <2>5. Shown(QueueWith(n, o)) = Shown(queue[n]) \o new
    <3> HIDE DEF x, new
    <3> QED BY <1>1, <2>3, <2>4, ShownFacts
  <2>6. next_id' = next_id + Len(new)
    BY <1>1, <1>4 DEF Generate
  <2>7. new \in Users!Accepted(n)
    BY <2>1 DEF Users!Accepted
  <2> HIDE DEF new
  <2> QED BY <1>2, <2>5, <2>6, <2>7
<1> QED
  BY <1>3, <1>4

\* A run of a node is a cycle of the service.
LEMMA RunIsCycle ==
  ASSUME IInv, NEW n \in Node, NEW o \in Offers(n), NEW E \in EjectChoices(n),
         Generate(o), Run(n, o, E)
  PROVE  Users!Cycle(n)
<1>1. PICK onto, off, started : NodeStep(n, E, onto, off, started)
  BY RunSteps
<1>2. PICK q : q = QueueWith(n, o)
  OBVIOUS
<1>3. PICK new \in Users!Accepted(n) :
        Waiting[n] \o new = Shown(q) /\ next_id' = next_id + Len(new)
  BY <1>2, AcceptedFacts
<1>4. PICK S \in Users!Arriving(n) : S = Arrived(n, E)
  BY ArrivedFacts
<1>5. /\ q \in Seq(PacketInfo) /\ Len(q) \in Nat
      /\ \A i \in 1..Len(q) : q[i].id \notin DOMAIN packet
      /\ queue \in [Node -> Seq(PacketInfo)]
  BY <1>2, QueueFacts DEF IInv, TypeOK
<1>6. /\ started \cap DOMAIN packet = {}
      /\ DOMAIN packet' = (DOMAIN packet \ Finished(n, E)) \cup started
  BY <1>1 DEF NodeStep, PacketStep
<1>7. /\ received_flit' = [received_flit EXCEPT ![n] = @ + Users!Cardinality(S)]
      /\ received' = [received EXCEPT ![n] = @ + Users!Cardinality(Users!Completed(S))]
  <2>1. EjectFacts(n, E) /\ RecordStep(n, E) /\ TypeOK
    BY <1>1 DEF NodeStep, IInv
  <2>2. Users!Cardinality(S) = Cardinality(Ejected(n, E))
    BY <1>4, <2>1, EjectedCount, SameCount
  <2>3. Users!Cardinality(Users!Completed(S)) = Cardinality(Finished(n, E))
    BY <1>4, <2>1, DueFacts, SameCount
  <2> QED BY <2>1, <2>2, <2>3 DEF RecordStep
<1>8. CASE Inject(n, o, E)
  <2>1. /\ q # <<>> /\ queue' = [queue EXCEPT ![n] = Tail(q)]
        /\ DOMAIN packet' = (DOMAIN packet \ Finished(n, E)) \cup {Head(q).id}
        /\ packet'[Head(q).id].dst = Head(q).dst
        /\ packet'[Head(q).id].length = Head(q).length
    BY <1>2, <1>8 DEF Inject, CanInject
  <2>2. Head(q).id \notin DOMAIN packet
    BY <1>5, <2>1, EmptySeq
  <2>3. started = {Head(q).id}
    BY <1>6, <2>1, <2>2
  <2> DEFINE s == SubSeq(Shown(q), 1, 1)
  <2>4. s = <<ShownEntry(Head(q))>>
    BY <1>5, <2>1, ShownFacts
  <2>5. /\ {s[i].id : i \in DOMAIN s} = started
        /\ s[1].dst = Head(q).dst /\ s[1].length = Head(q).length
    <3> HIDE DEF s
    <3>1. DOMAIN s = {1} /\ s[1] = ShownEntry(Head(q))
      BY <2>4
    <3>2. /\ ShownEntry(Head(q)).id = Head(q).id
          /\ ShownEntry(Head(q)).dst = Head(q).dst
          /\ ShownEntry(Head(q)).length = Head(q).length
      BY DEF ShownEntry
    <3> QED BY <2>3, <3>1, <3>2
  <2>6. Owed' = Users!OwedAfter(S, s)
    <3> HIDE DEF s
    <3> QED BY <1>1, <1>4, <2>1, <2>3, <2>5, OwedIsOwedAfter
  <2>7. Waiting' = [Waiting EXCEPT ![n] = Shown(Tail(q))]
    BY <1>5, <2>1, WaitingFacts
  <2>8. /\ 1 \in {0, 1} /\ 1 <= Len(Shown(q))
        /\ Waiting' = [Waiting EXCEPT ![n] = SubSeq(Shown(q), 1 + 1, Len(Shown(q)))]
    <3>1. /\ Len(Shown(q)) = Len(q) /\ 1 <= Len(q)
          /\ SubSeq(Shown(q), 2, Len(q)) = Shown(Tail(q))
      BY <1>5, <2>1, ShownFacts
    <3>2. SubSeq(Shown(q), 1 + 1, Len(Shown(q))) = Shown(Tail(q))
      BY <3>1
    <3> QED BY <2>7, <3>1, <3>2
  <2> QED BY <1>3, <1>4, <1>7, <2>6, <2>8 DEF Users!Cycle
<1>9. CASE ~Inject(n, o, E)
  <2>1. queue' = [queue EXCEPT ![n] = q] /\ Detach(n, E)
    BY <1>2, <1>9 DEF Run, Idle, InterruptPop, InjectFree, InterruptPopAndPush,
                      StartInterrupt, InjectPush, Continue
  <2>2. started = {}
    BY <1>6, <2>1 DEF Detach
  <2> DEFINE s == SubSeq(Shown(q), 1, 0)
  <2>3. s = <<>>
    BY <1>5, ShownFacts
  <2>4. {s[i].id : i \in DOMAIN s} = started
    BY <2>2, <2>3
  <2>5. Owed' = Users!OwedAfter(S, s)
    <3> HIDE DEF s
    <3> QED BY <1>1, <1>4, <2>2, <2>4, OwedIsOwedAfter
  <2>6. Waiting' = [Waiting EXCEPT ![n] = Shown(q)]
    BY <1>5, <2>1, WaitingFacts
  <2>7. /\ 0 \in {0, 1} /\ 0 <= Len(Shown(q))
        /\ Waiting' = [Waiting EXCEPT ![n] = SubSeq(Shown(q), 0 + 1, Len(Shown(q)))]
    <3>1. /\ Len(Shown(q)) = Len(q) /\ SubSeq(Shown(q), 1, Len(q)) = Shown(q)
      BY <1>5, ShownFacts
    <3>2. SubSeq(Shown(q), 0 + 1, Len(Shown(q))) = Shown(q)
      BY <3>1
    <3>3. 0 <= Len(Shown(q))
      BY <1>5, <3>1
    <3> QED BY <2>6, <3>2, <3>3
  <2> QED BY <1>3, <1>4, <1>7, <2>5, <2>7 DEF Users!Cycle
<1> QED
  BY <1>8, <1>9

\* The rings take flits on, but none to its users.
LEMMA MoveIsInvisible ==
  ASSUME IInv, MoveRings
  PROVE  UNCHANGED <<next_id, Waiting, Owed, received_flit, received>>
<1>1. /\ next_id' = next_id /\ queue' = queue /\ packet' = packet
      /\ received_flit' = received_flit /\ received' = received
      /\ \A f \in DOMAIN flit : flit'[f].status = flit[f].status
  BY FlitFacts DEF IInv, MoveRings, node_vars
<1>2. Waiting' = Waiting
  BY <1>1, WaitingFacts
<1>3. \A p \in DOMAIN packet : Coming(p)' = Coming(p)
  <2>1. \A p \in DOMAIN packet : \A i \in 0..LastSeq(p) : <<p, i>> \in DOMAIN flit
    BY PacketFlits DEF IInv, FlitIds, LastSeq
  <2> QED BY <1>1, <2>1 DEF Coming, LastSeq
<1>4. Owed' = Owed
  BY <1>1, <1>3 DEF Owed, Coming
<1> QED
  BY <1>1, <1>2, <1>4

\* Every step of the network is a step of the service or none.
LEMMA NextIsService == IInv /\ [Next]_vars => [Users!Next]_(Users!vars)
<1> SUFFICES ASSUME IInv, [Next]_vars PROVE [Users!Next]_(Users!vars)
  OBVIOUS
<1>1. CASE RunNode
  <2>1. PICK n \in Node : n = turn
    <3>1. turn \in 0..N /\ turn < N
      BY <1>1 DEF IInv, TypeOK, RunNode
    <3> QED BY <3>1, Numbers DEF Node
  <2>2. PICK o \in Offers(n), E \in EjectChoices(n) : Generate(o) /\ Run(n, o, E)
    BY <1>1, <2>1 DEF RunNode
  <2> QED BY <2>2, RunIsCycle DEF Users!Next
<1>2. CASE MoveRings
  BY <1>2, MoveIsInvisible DEF Users!vars
<1>3. CASE UNCHANGED vars
  <2>1. /\ next_id' = next_id /\ queue' = queue /\ packet' = packet /\ flit' = flit
        /\ received_flit' = received_flit /\ received' = received
    BY <1>3 DEF vars, node_vars
  <2> QED BY <2>1 DEF Users!vars, Waiting, Owed, LastSeq
<1> QED
  BY <1>1, <1>2, <1>3 DEF Next

\* At first nothing waits and nothing is owed.
LEMMA InitIsService == Init => Users!Init
<1> SUFFICES ASSUME Init PROVE Users!Init
  OBVIOUS
<1>1. /\ next_id = 0 /\ queue = [n \in Node |-> <<>>] /\ packet = <<>>
      /\ received = [n \in Node |-> 0] /\ received_flit = [n \in Node |-> 0]
  BY DEF Init
<1>2. Waiting = [n \in Node |-> <<>>]
  <2>1. Shown(<<>>) = <<>>
    BY DEF Shown
  <2> QED BY <1>1, <2>1, WaitingFacts
<1>3. Owed = <<>>
  <2>1. DOMAIN packet = {}
    BY <1>1
  <2>2. Owed = [p \in {} |-> Owed[p]]
    BY <2>1 DEF Owed
  <2> QED BY <2>2
<1> QED
  BY <1>1, <1>2, <1>3 DEF Users!Init

\* The network delivers what it accepts: packets start in the order they were
\* generated; in every cycle a node takes in at most ej_port_nu flits, each the
\* first still to come of a packet addressed to it; its counts of flits and
\* packets grow by just these and by the packets they complete, so that no flit
\* is taken in twice (Noc::run, Node::run, Node::ejection, Ring::dettach).
THEOREM ImplementsDelivery == Spec => DeliveryService
<1>1. Init => Users!Init
  BY InitIsService
<1>2. IInv /\ [Next]_vars => [Users!Next]_(Users!vars)
  BY NextIsService
<1> QED
  BY <1>1, <1>2, Invariance, PTL DEF Spec, DeliveryService, Users!Spec
=============================================================================
