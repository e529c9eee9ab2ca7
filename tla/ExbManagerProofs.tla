-------------------------- MODULE ExbManagerProofs --------------------------
(***************************************************************************)
(* The invariants of ExbManager for any number and size of EXBs, any set   *)
(* of single buffers and any packets: they are inductive taken together.   *)
(***************************************************************************)
EXTENDS ExbManager, NumberLemmas, SequenceTheorems

IInv == TypeOK /\ StatusConsistent /\ OccupiedInUse /\ ForwardWindow

\* The searches of exb_available and check_exb_bound return an element of the
\* set they search, and "none" only if it is empty.
LEMMA FirstFacts ==
  ASSUME NEW S \in SUBSET Exb
  PROVE  /\ S = {} => First(S) = None
         /\ S # {} => First(S) \in S
<1>1. S \in SUBSET Nat
  BY ExbAssumption DEF Exb
<1>2. S # {} => \E i \in S : \A j \in S : i <= j
  BY <1>1, LeastNatural
<1> QED
  BY <1>2 DEF First

\* None is neither an EXB nor a single buffer nor a packet.
LEMMA NoneFacts == None \notin Exb /\ None \notin Buffer /\ None \notin Packet
BY ExbAssumption DEF Exb, None

\* check_exb_bound finds the EXB of a single buffer whenever it has one, and
\* that EXB is the only one it has.
LEMMA BoundFacts ==
  ASSUME TypeOK, StatusConsistent, NEW b \in Buffer
  PROVE  /\ (\E i \in Exb : single_buffer_index[i] = b) => ExbBound(b) # None
         /\ ExbBound(b) # None =>
              /\ ExbBound(b) \in Exb
              /\ single_buffer_index[ExbBound(b)] = b
              /\ occupied[ExbBound(b)]
              /\ \A i \in Exb : single_buffer_index[i] = b => i = ExbBound(b)
<1> DEFINE S == {i \in Exb : single_buffer_index[i] = b}
<1>1. ExbBound(b) = First(S)
  BY DEF ExbBound
<1>2. /\ S = {} => First(S) = None
      /\ S # {} => First(S) \in S
  <2>1. S \in SUBSET Exb OBVIOUS
  <2> HIDE DEF S
  <2> QED BY <2>1, FirstFacts
<1>3. None \notin Exb /\ b # None
  BY NoneFacts
<1>4. (\E i \in Exb : single_buffer_index[i] = b) => ExbBound(b) # None
  BY <1>1, <1>2, <1>3
<1>5. ASSUME ExbBound(b) # None
      PROVE  ExbBound(b) \in Exb /\ single_buffer_index[ExbBound(b)] = b
  BY <1>1, <1>2, <1>5
<1>6. ASSUME ExbBound(b) # None
      PROVE  /\ occupied[ExbBound(b)]
             /\ \A i \in Exb : single_buffer_index[i] = b => i = ExbBound(b)
  BY <1>5, <1>6, <1>3 DEF StatusConsistent
<1> QED
  BY <1>4, <1>5, <1>6

\* exb_available returns an EXB that is free.
LEMMA AvailableFacts ==
  ExbAvailable # None => ExbAvailable \in Exb /\ ~occupied[ExbAvailable]
<1> DEFINE S == {i \in Exb : ~occupied[i]}
<1>1. S = {} \/ First(S) \in S
  <2>1. S \in SUBSET Exb OBVIOUS
  <2> HIDE DEF S
  <2> QED BY <2>1, FirstFacts
<1> QED
  BY <1>1 DEF ExbAvailable, First

\* The EXB of the ongoing injection.
LEMMA InjectingFacts ==
  ASSUME TypeOK, StatusConsistent, OccupiedInUse, injecting # None
  PROVE  /\ injecting \in Buffer
         /\ ExbBound(injecting) \in Exb
         /\ single_buffer_index[ExbBound(injecting)] = injecting
         /\ occupied[ExbBound(injecting)]
         /\ \A i \in Exb : single_buffer_index[i] = injecting => i = ExbBound(injecting)
<1>1. injecting \in Buffer
  BY DEF TypeOK
<1>2. \E i \in Exb : single_buffer_index[i] = injecting
  BY DEF OccupiedInUse
<1> QED
  BY <1>1, <1>2, BoundFacts

\* The run of one packet at the front of a non-empty EXB exists: its length is
\* the first index that holds another packet, or the fill of the EXB.
LEMMA FrontRunFacts ==
  ASSUME TypeOK, NEW i \in Exb, indicator[i] >= 0
  PROVE  /\ FrontRun(i) \in 1..(indicator[i] + 1)
         /\ \A j \in 0..(FrontRun(i) - 1) : m_exb[i][j] = m_exb[i][0]
<1> DEFINE n == indicator[i] + 1
           S == {k \in 1..n : k = n \/ m_exb[i][k] # m_exb[i][0]}
<1>1. n \in Nat /\ n >= 1
  BY ExbAssumption DEF TypeOK
<1>2. n \in S /\ S \subseteq Nat
  BY <1>1
<1>3. PICK k \in S : \A j \in S : k <= j
  <2> HIDE DEF S, n
  <2> QED BY <1>2, LeastNatural
<1>4. \A j \in 0..(k - 1) : m_exb[i][j] = m_exb[i][0]
  <2> SUFFICES ASSUME NEW j \in 0..(k - 1) PROVE m_exb[i][j] = m_exb[i][0]
    OBVIOUS
  <2>1. CASE j = 0 BY <2>1
  <2>2. CASE j # 0
    <3>1. j \in 1..n /\ j # n /\ j \notin S
      BY <1>1, <1>3, <2>2
    <3> QED BY <3>1
  <2> QED BY <2>1, <2>2
<1>5. k <= indicator[i] => m_exb[i][k] # m_exb[i][0]
  BY <1>3, <1>1 DEF TypeOK
<1>6. k \in 1..(indicator[i] + 1)
  BY <1>3
<1> QED
  BY <1>4, <1>5, <1>6 DEF FrontRun

-----------------------------------------------------------------------------
\* What the array moves do to types and to the slots in use.
LEMMA ShiftedFacts ==
  ASSUME TypeOK, StatusConsistent, NEW i \in Exb, indicator[i] >= 0,
         NEW x \in Packet \cup {None}
  PROVE  /\ Shifted(i, x) \in [Slot -> Packet \cup {None}]
         /\ \A j \in Slot : j < indicator[i] => Shifted(i, x)[j] = m_exb[i][j + 1]
         /\ Shifted(i, x)[indicator[i]] = x
         /\ \A j \in Slot : Shifted(i, x)[j] # None <=>
                              IF x = None THEN j < indicator[i] ELSE j <= indicator[i]
<1>1. /\ m_exb[i] \in [Slot -> Packet \cup {None}]
      /\ indicator[i] \in 0..(ExbSize - 1) /\ ExbSize \in Nat
      /\ \A j \in Slot : m_exb[i][j] # None <=> j <= indicator[i]
  BY ExbAssumption DEF TypeOK, StatusConsistent
<1>2. \A j \in Slot : j < indicator[i] => j + 1 \in Slot
  BY <1>1 DEF Slot
<1>3. Shifted(i, x) \in [Slot -> Packet \cup {None}]
  BY <1>1, <1>2 DEF Shifted
<1>4. \A j \in Slot : j < indicator[i] => Shifted(i, x)[j] = m_exb[i][j + 1]
  BY DEF Shifted
<1>5. Shifted(i, x)[indicator[i]] = x
  BY <1>1 DEF Shifted, Slot
<1>6. ASSUME NEW j \in Slot
      PROVE  Shifted(i, x)[j] # None <=>
               IF x = None THEN j < indicator[i] ELSE j <= indicator[i]
  <2>1. CASE j < indicator[i]
    <3>1. m_exb[i][j + 1] # None
      BY <1>1, <1>2, <2>1 DEF Slot
    <3> QED BY <3>1, <1>4, <2>1, <1>1 DEF Slot
  <2>2. CASE j = indicator[i]
    BY <1>5, <2>2, <1>1
  <2>3. CASE j > indicator[i]
    <3>1. Shifted(i, x)[j] = m_exb[i][j]
      BY <2>3, <1>1 DEF Shifted, Slot
    <3>2. m_exb[i][j] = None
      BY <1>1, <2>3 DEF Slot
    <3> QED BY <3>1, <3>2, <2>3, <1>1 DEF Slot
  <2> QED BY <2>1, <2>2, <2>3, <1>1 DEF Slot
<1> QED
  BY <1>3, <1>4, <1>5, <1>6

-----------------------------------------------------------------------------
(* Each operation preserves the invariant.                                 *)
LEMMA InitIInv == Init => IInv
<1> SUFFICES ASSUME Init PROVE IInv
  OBVIOUS
<1> USE ExbAssumption DEF Init
<1>1. TypeOK
  <2>1. indicator \in [Exb -> -1..(ExbSize - 1)]
    OBVIOUS
  <2>2. m_exb \in [Exb -> [Slot -> Packet \cup {None}]]
    BY Zenon
  <2>3. /\ occupied \in [Exb -> BOOLEAN]
        /\ single_buffer_index \in [Exb -> Buffer \cup {None}]
        /\ injecting \in Buffer \cup {None}
        /\ interrupt \in BOOLEAN
    BY Zenon
  <2>4. forward_length \in Int
    OBVIOUS
  <2> QED BY <2>1, <2>2, <2>3, <2>4, Zenon DEF TypeOK
<1>2. StatusConsistent BY DEF StatusConsistent, None, Slot
<1>3. OccupiedInUse BY DEF OccupiedInUse
<1>4. ForwardWindow BY DEF ForwardWindow
<1> QED BY <1>1, <1>2, <1>3, <1>4 DEF IInv

\* Binding a free EXB to the ring of a long packet keeps the invariant.
LEMMA BindAndInjectIInv ==
  ASSUME IInv, NEW b \in Buffer, BindAndInject(b)
  PROVE  IInv'
<1> DEFINE i == ExbAvailable
<1>1. /\ TypeOK /\ StatusConsistent /\ OccupiedInUse /\ ForwardWindow
      /\ injecting = None /\ injecting' = b
      /\ occupied' = [occupied EXCEPT ![i] = TRUE]
      /\ single_buffer_index' = [single_buffer_index EXCEPT ![i] = b]
      /\ UNCHANGED <<m_exb, indicator, interrupt, forward_length>>
  BY DEF IInv, BindAndInject, SetStatus
<1>2. i \in Exb /\ ~occupied[i]
  BY AvailableFacts DEF BindAndInject
<1>3. \A k \in Exb : single_buffer_index[k] # b
  BY <1>1, BoundFacts DEF BindAndInject
<1>4. b # None
  BY NoneFacts
<1> HIDE DEF i
<1>5. TypeOK'
  BY <1>1, <1>2 DEF TypeOK
<1>6. StatusConsistent'
  BY <1>1, <1>2, <1>3, <1>4 DEF StatusConsistent, TypeOK
<1>7. OccupiedInUse'
  BY <1>1, <1>2, <1>4 DEF OccupiedInUse, TypeOK, StatusConsistent
<1>8. ForwardWindow'
  BY <1>1, <1>4 DEF ForwardWindow
<1> QED
  BY <1>5, <1>6, <1>7, <1>8 DEF IInv

\* A flit of the ongoing packet goes out: no interrupt survives it.
LEMMA InjectedFacts ==
  ASSUME IInv, NEW last \in BOOLEAN, Injected(last)
  PROVE  /\ injecting' \in {injecting, None}
         /\ interrupt' \in BOOLEAN
         /\ forward_length' = forward_length
         /\ EnableInterrupt => ~interrupt' /\ forward_length' = 0
<1> QED
  BY ExbAssumption DEF IInv, TypeOK, ForwardWindow, Injected, Interrupted

\* Injecting a flit into a free slot, and releasing an EXB left empty by the
\* tail, keeps the invariant.
LEMMA InjectFreeIInv ==
  ASSUME IInv, NEW last \in BOOLEAN, InjectFree(last)
  PROVE  IInv'
<1> DEFINE i == ExbBound(injecting)
<1>1. /\ TypeOK /\ StatusConsistent /\ OccupiedInUse /\ ForwardWindow
      /\ injecting # None
      /\ injecting' = IF last THEN None ELSE injecting
  BY DEF IInv, InjectFree, Injected
<1>2. /\ interrupt' \in BOOLEAN
      /\ forward_length' = forward_length
      /\ EnableInterrupt => ~interrupt' /\ forward_length' = 0
  BY InjectedFacts DEF InjectFree
<1>3. /\ injecting \in Buffer /\ injecting # None /\ i \in Exb /\ occupied[i]
      /\ single_buffer_index[i] = injecting
      /\ \A k \in Exb : single_buffer_index[k] = injecting => k = i
  BY <1>1, InjectingFacts
<1>4. Remaining(i) = ExbSize <=> indicator[i] = -1
  BY <1>1, <1>3, ExbAssumption DEF Remaining, TypeOK
<1>5. CASE last /\ Remaining(i) = ExbSize
  <2>1. /\ occupied' = [occupied EXCEPT ![i] = FALSE]
        /\ single_buffer_index' = [single_buffer_index EXCEPT ![i] = None]
        /\ indicator' = [indicator EXCEPT ![i] = -1]
        /\ UNCHANGED m_exb
    BY <1>5 DEF InjectFree, Release, SetStatus
  <2> HIDE DEF i
  <2>2. TypeOK'
    BY <1>1, <1>2, <1>3, <2>1, ExbAssumption DEF TypeOK
  <2>3. StatusConsistent'
    BY <1>1, <1>3, <1>4, <1>5, <2>1 DEF StatusConsistent, TypeOK
  <2>4. OccupiedInUse'
    BY <1>1, <1>3, <1>5, <2>1 DEF OccupiedInUse, TypeOK
  <2>5. ForwardWindow'
    BY <1>2 DEF ForwardWindow
  <2> QED
    BY <2>2, <2>3, <2>4, <2>5 DEF IInv
<1>6. CASE ~(last /\ Remaining(i) = ExbSize)
  <2>1. UNCHANGED <<m_exb, indicator, occupied, single_buffer_index>>
    BY <1>6 DEF InjectFree, status_vars
  <2> HIDE DEF i
  <2>2. TypeOK'
    BY <1>1, <1>2, <2>1 DEF TypeOK
  <2>3. StatusConsistent'
    BY <1>1, <2>1 DEF StatusConsistent
  <2>4. OccupiedInUse'
    <3>1. last => indicator[i] >= 0
      BY <1>1, <1>3, <1>4, <1>6 DEF TypeOK
    <3> QED
      BY <1>1, <1>3, <2>1, <3>1 DEF OccupiedInUse
  <2>5. ForwardWindow'
    BY <1>2 DEF ForwardWindow
  <2> QED
    BY <2>2, <2>3, <2>4, <2>5 DEF IInv
<1> QED
  BY <1>5, <1>6

\* After a push the slots up to the new indicator are in use.
LEMMA InjectPushIInv ==
  ASSUME IInv, NEW f \in Packet, NEW last \in BOOLEAN, InjectPush(f, last)
  PROVE  IInv'
<1> DEFINE i == ExbBound(injecting)
<1>1. /\ TypeOK /\ StatusConsistent /\ OccupiedInUse /\ ForwardWindow
      /\ injecting # None
      /\ injecting' = IF last THEN None ELSE injecting
      /\ m_exb' = [m_exb EXCEPT ![i][indicator[i] + 1] = f]
      /\ indicator' = [indicator EXCEPT ![i] = @ + 1]
      /\ UNCHANGED <<occupied, single_buffer_index>>
      /\ Remaining(i) # 0
  BY DEF IInv, InjectPush, Injected, Push, status_vars
<1>2. /\ interrupt' \in BOOLEAN
      /\ forward_length' = forward_length
      /\ EnableInterrupt => ~interrupt' /\ forward_length' = 0
  BY InjectedFacts DEF InjectPush
<1>3. /\ injecting \in Buffer /\ i \in Exb /\ occupied[i]
      /\ single_buffer_index[i] = injecting
      /\ \A k \in Exb : single_buffer_index[k] = injecting => k = i
  BY <1>1, InjectingFacts
<1>4. indicator[i] + 1 \in Slot /\ indicator[i] + 1 >= 0
  BY <1>1, <1>3, ExbAssumption DEF Remaining, TypeOK, Slot
<1> HIDE DEF i
<1>5. TypeOK'
  <2>1. indicator' \in [Exb -> -1..(ExbSize - 1)]
    BY <1>1, <1>3, <1>4, ExbAssumption DEF TypeOK, Slot
  <2>2. m_exb' \in [Exb -> [Slot -> Packet \cup {None}]]
    BY <1>1, <1>3, <1>4 DEF TypeOK
  <2> QED
    BY <1>1, <1>2, <2>1, <2>2 DEF TypeOK
<1>6. StatusConsistent'
  <2>1. ASSUME NEW k \in Exb
        PROVE  /\ ~occupied'[k] => indicator'[k] = -1
               /\ \A j \in Slot : m_exb'[k][j] # None <=> j <= indicator'[k]
    <3>1. CASE k # i
      BY <1>1, <2>1, <3>1 DEF StatusConsistent, TypeOK
    <3>2. CASE k = i
      <4>1. f # None
        BY NoneFacts
      <4>2. /\ indicator'[i] = indicator[i] + 1
            /\ m_exb'[i] = [m_exb[i] EXCEPT ![indicator[i] + 1] = f]
        BY <1>1, <1>3 DEF TypeOK
      <4>3. \A j \in Slot : m_exb[i][j] # None <=> j <= indicator[i]
        BY <1>1, <1>3 DEF StatusConsistent
      <4>4. /\ m_exb[i] \in [Slot -> Packet \cup {None}]
            /\ indicator[i] \in Int /\ Slot \subseteq Int
        BY <1>1, <1>3, ExbAssumption DEF TypeOK, Slot
      <4>5. \A j \in Slot : m_exb'[i][j] # None <=> j <= indicator[i] + 1
        BY <1>4, <4>1, <4>2, <4>3, <4>4
      <4> QED
        BY <1>1, <1>3, <3>2, <4>2, <4>5
    <3> QED BY <3>1, <3>2
  <2> QED
    BY <1>1, <2>1 DEF StatusConsistent
<1>7. OccupiedInUse'
  BY <1>1, <1>3, <1>4 DEF OccupiedInUse, TypeOK
<1>8. ForwardWindow'
  BY <1>2 DEF ForwardWindow
<1> QED
  BY <1>5, <1>6, <1>7, <1>8 DEF IInv

\* What dropping the first flit of an EXB does to types and to the slots.
LEMMA DropFirstFacts ==
  ASSUME TypeOK, StatusConsistent, NEW i \in Exb, indicator[i] >= 0, DropFirst(i)
  PROVE  /\ m_exb' \in [Exb -> [Slot -> Packet \cup {None}]]
         /\ indicator' \in [Exb -> -1..(ExbSize - 1)]
         /\ indicator'[i] = indicator[i] - 1
         /\ \A k \in Exb \ {i} : m_exb'[k] = m_exb[k] /\ indicator'[k] = indicator[k]
         /\ \A j \in Slot : j < indicator[i] => m_exb'[i][j] = m_exb[i][j + 1]
         /\ \A k \in Exb, j \in Slot : m_exb'[k][j] # None <=> j <= indicator'[k]
<1>1. /\ m_exb' = [m_exb EXCEPT ![i] = Shifted(i, None)]
      /\ indicator' = [indicator EXCEPT ![i] = @ - 1]
  BY DEF DropFirst
<1>2. /\ Shifted(i, None) \in [Slot -> Packet \cup {None}]
      /\ \A j \in Slot : j < indicator[i] => Shifted(i, None)[j] = m_exb[i][j + 1]
      /\ \A j \in Slot : Shifted(i, None)[j] # None <=> j < indicator[i]
  BY ShiftedFacts
<1>3. /\ m_exb \in [Exb -> [Slot -> Packet \cup {None}]]
      /\ indicator \in [Exb -> -1..(ExbSize - 1)]
  BY DEF TypeOK
<1>4. /\ m_exb' \in [Exb -> [Slot -> Packet \cup {None}]]
      /\ m_exb'[i] = Shifted(i, None)
      /\ \A k \in Exb \ {i} : m_exb'[k] = m_exb[k]
  BY <1>1, <1>2, <1>3
<1>5. /\ indicator' \in [Exb -> -1..(ExbSize - 1)]
      /\ indicator'[i] = indicator[i] - 1
      /\ \A k \in Exb \ {i} : indicator'[k] = indicator[k]
  BY <1>1, <1>3, ExbAssumption
<1>6. ASSUME NEW k \in Exb, NEW j \in Slot
      PROVE  m_exb'[k][j] # None <=> j <= indicator'[k]
  <2>1. CASE k = i
    BY <1>2, <1>3, <1>4, <1>5, <2>1, ExbAssumption DEF Slot
  <2>2. CASE k # i
    BY <1>4, <1>5, <2>2 DEF StatusConsistent
  <2> QED BY <2>1, <2>2
<1> QED
  BY <1>2, <1>4, <1>5, <1>6

\* The same for taking the first flit out and appending another one.
LEMMA PopAndPushFacts ==
  ASSUME TypeOK, StatusConsistent, NEW i \in Exb, indicator[i] >= 0,
         NEW f \in Packet, PopAndPush(i, f)
  PROVE  /\ m_exb' \in [Exb -> [Slot -> Packet \cup {None}]]
         /\ UNCHANGED <<indicator, occupied, single_buffer_index>>
         /\ \A k \in Exb \ {i} : m_exb'[k] = m_exb[k]
         /\ \A j \in Slot : j < indicator[i] => m_exb'[i][j] = m_exb[i][j + 1]
         /\ m_exb'[i][indicator[i]] = f
         /\ \A k \in Exb, j \in Slot : m_exb'[k][j] # None <=> j <= indicator[k]
<1>1. /\ m_exb' = [m_exb EXCEPT ![i] = Shifted(i, f)]
      /\ UNCHANGED <<indicator, occupied, single_buffer_index>>
  BY DEF PopAndPush, status_vars
<1>2. f # None
  BY NoneFacts
<1>3. /\ Shifted(i, f) \in [Slot -> Packet \cup {None}]
      /\ \A j \in Slot : j < indicator[i] => Shifted(i, f)[j] = m_exb[i][j + 1]
      /\ Shifted(i, f)[indicator[i]] = f
      /\ \A j \in Slot : Shifted(i, f)[j] # None <=> j <= indicator[i]
  BY <1>2, ShiftedFacts
<1>4. m_exb \in [Exb -> [Slot -> Packet \cup {None}]]
  BY DEF TypeOK
<1>5. /\ m_exb' \in [Exb -> [Slot -> Packet \cup {None}]]
      /\ m_exb'[i] = Shifted(i, f)
      /\ \A k \in Exb \ {i} : m_exb'[k] = m_exb[k]
  BY <1>1, <1>3, <1>4
<1>6. \A k \in Exb, j \in Slot : m_exb'[k][j] # None <=> j <= indicator[k]
  BY <1>3, <1>5 DEF StatusConsistent
<1> QED
  BY <1>1, <1>3, <1>5, <1>6

\* Forwarding a counted flit into a free slot keeps the invariant: the window
\* and the fill of the EXB shrink together.
LEMMA InterruptPopIInv ==
  ASSUME IInv, InterruptPop
  PROVE  IInv'
<1> DEFINE i == ExbBound(injecting)
<1>1. /\ TypeOK /\ StatusConsistent /\ OccupiedInUse /\ ForwardWindow
      /\ injecting # None /\ Interrupted
      /\ DropFirst(i)
      /\ forward_length' = forward_length - 1
      /\ UNCHANGED <<injecting, interrupt, occupied, single_buffer_index>>
  BY DEF IInv, InterruptPop, InterruptPopOf, status_vars
<1>2. /\ injecting \in Buffer /\ i \in Exb /\ occupied[i]
      /\ single_buffer_index[i] = injecting
      /\ \A k \in Exb : single_buffer_index[k] = injecting => k = i
  BY <1>1, InjectingFacts
<1>3. /\ EnableInterrupt /\ interrupt
      /\ forward_length \in Int /\ forward_length > 0
      /\ indicator[i] \in Int /\ forward_length <= indicator[i] + 1
      /\ \A j \in 0..(forward_length - 1) : m_exb[i][j] = m_exb[i][0]
  BY <1>1, <1>2, ExbAssumption DEF Interrupted, ForwardWindow, TypeOK
<1> HIDE DEF i
<1>4. /\ m_exb' \in [Exb -> [Slot -> Packet \cup {None}]]
      /\ indicator' \in [Exb -> -1..(ExbSize - 1)]
      /\ indicator'[i] = indicator[i] - 1
      /\ \A k \in Exb \ {i} : indicator'[k] = indicator[k]
      /\ \A j \in Slot : j < indicator[i] => m_exb'[i][j] = m_exb[i][j + 1]
      /\ \A k \in Exb, j \in Slot : m_exb'[k][j] # None <=> j <= indicator'[k]
  BY <1>1, <1>2, <1>3, DropFirstFacts
<1>5. TypeOK'
  BY <1>1, <1>3, <1>4 DEF TypeOK
<1>6. StatusConsistent'
  BY <1>1, <1>2, <1>4 DEF StatusConsistent
<1>7. OccupiedInUse'
  BY <1>1, <1>2, <1>4 DEF OccupiedInUse
<1>8. ForwardWindow'
  <2>1. \A j \in 0..(forward_length - 2) : m_exb'[i][j] = m_exb[i][0]
    <3> SUFFICES ASSUME NEW j \in 0..(forward_length - 2)
                 PROVE  m_exb'[i][j] = m_exb[i][0]
      OBVIOUS
    <3>1. indicator[i] <= ExbSize - 1 /\ ExbSize \in Nat
      BY <1>1, <1>2, ExbAssumption DEF TypeOK
    <3>2. j \in Slot /\ j < indicator[i] /\ j + 1 \in 0..(forward_length - 1)
      BY <1>3, <3>1 DEF Slot
    <3>3. m_exb'[i][j] = m_exb[i][j + 1]
      BY <1>4, <3>2
    <3> QED BY <1>3, <3>2, <3>3
  <2>2. forward_length' # 0 =>
          /\ forward_length' <= indicator'[i] + 1
          /\ \A j \in 0..(forward_length' - 1) : m_exb'[i][j] = m_exb'[i][0]
    BY <1>1, <1>3, <1>4, <2>1
  <2> QED
    BY <1>1, <1>2, <1>3, <2>2 DEF ForwardWindow
<1> QED
  BY <1>5, <1>6, <1>7, <1>8 DEF IInv

\* Taking the first flit out and pushing another one while "length" flits of
\* one packet are counted at the front: one less is counted afterwards, or the
\* new flit continues them and fills the EXB.
LEMMA WindowMoves ==
  ASSUME TypeOK, StatusConsistent, NEW i \in Exb, NEW f \in Packet,
         PopAndPush(i, f),
         NEW length \in Int, length > 0, length <= indicator[i] + 1,
         \A j \in 0..(length - 1) : m_exb[i][j] = m_exb[i][0]
  PROVE  LET after == (IF length = ExbSize /\ f = m_exb[i][0]
                       THEN length + 1 ELSE length) - 1
         IN  /\ after \in Nat
             /\ after <= indicator[i] + 1
             /\ after # 0 =>
                  \A j \in 0..(after - 1) : m_exb'[i][j] = m_exb'[i][0]
<1> DEFINE after == (IF length = ExbSize /\ f = m_exb[i][0]
                     THEN length + 1 ELSE length) - 1
<1>1. /\ indicator[i] \in 0..(ExbSize - 1) /\ ExbSize \in Nat
  BY ExbAssumption DEF TypeOK
<1>2. /\ \A j \in Slot : j < indicator[i] => m_exb'[i][j] = m_exb[i][j + 1]
      /\ m_exb'[i][indicator[i]] = f
  BY <1>1, PopAndPushFacts
<1>3. after \in Nat /\ after <= indicator[i] + 1
  BY <1>1
<1>4. ASSUME NEW j \in 0..(after - 1) PROVE m_exb'[i][j] = m_exb[i][0]
  <2>1. CASE j < indicator[i]
    <3>1. j \in Slot /\ j + 1 \in 0..(length - 1)
      BY <1>1, <2>1, <1>4 DEF Slot
    <3> QED BY <3>1, <2>1, <1>2
  <2>2. CASE j >= indicator[i]
    <3>1. j = indicator[i] /\ f = m_exb[i][0]
      BY <1>1, <1>3, <2>2, <1>4
    <3> QED BY <3>1, <1>2
  <2> QED BY <2>1, <2>2, <1>1
<1>5. after # 0 => \A j \in 0..(after - 1) : m_exb'[i][j] = m_exb'[i][0]
  <2>1. after # 0 => 0 \in 0..(after - 1)
    BY <1>3
  <2> HIDE DEF after
  <2> QED BY <1>4, <2>1
<1> QED
  BY <1>3, <1>5

\* Exchanging a counted flit for the arriving one keeps the invariant, also when
\* the arriving flit is added to the count.
LEMMA InterruptPopAndPushIInv ==
  ASSUME IInv, NEW f \in Packet, InterruptPopAndPush(f)
  PROVE  IInv'
<1> DEFINE i == ExbBound(injecting)
<1>1. /\ TypeOK /\ StatusConsistent /\ OccupiedInUse /\ ForwardWindow
      /\ injecting # None /\ Interrupted
      /\ PopAndPush(i, f)
      /\ forward_length' = (IF forward_length = ExbSize /\ f = m_exb[i][0]
                            THEN forward_length + 1 ELSE forward_length) - 1
      /\ UNCHANGED <<injecting, interrupt>>
  BY DEF IInv, InterruptPopAndPush, ExtendedLength
<1>2. /\ injecting \in Buffer /\ i \in Exb /\ occupied[i]
      /\ single_buffer_index[i] = injecting
      /\ \A k \in Exb : single_buffer_index[k] = injecting => k = i
  BY <1>1, InjectingFacts
<1>3. /\ EnableInterrupt /\ interrupt
      /\ forward_length \in Int /\ forward_length > 0
      /\ indicator[i] \in Int /\ forward_length <= indicator[i] + 1
      /\ \A j \in 0..(forward_length - 1) : m_exb[i][j] = m_exb[i][0]
  BY <1>1, <1>2, ExbAssumption DEF Interrupted, ForwardWindow, TypeOK
<1> HIDE DEF i
<1>4. /\ m_exb' \in [Exb -> [Slot -> Packet \cup {None}]]
      /\ UNCHANGED <<indicator, occupied, single_buffer_index>>
      /\ \A k \in Exb, j \in Slot : m_exb'[k][j] # None <=> j <= indicator[k]
  BY <1>1, <1>2, <1>3, PopAndPushFacts
<1>5. /\ forward_length' \in Nat
      /\ forward_length' <= indicator[i] + 1
      /\ forward_length' # 0 =>
           \A j \in 0..(forward_length' - 1) : m_exb'[i][j] = m_exb'[i][0]
  BY <1>1, <1>2, <1>3, WindowMoves
<1>6. TypeOK'
  BY <1>1, <1>4, <1>5 DEF TypeOK
<1>7. StatusConsistent'
  BY <1>1, <1>4 DEF StatusConsistent
<1>8. OccupiedInUse'
  BY <1>1, <1>4 DEF OccupiedInUse
<1>9. ForwardWindow'
  BY <1>1, <1>2, <1>3, <1>4, <1>5 DEF ForwardWindow
<1> QED
  BY <1>6, <1>7, <1>8, <1>9 DEF IInv

\* Raising the interrupt on a full EXB keeps the invariant: the count that is
\* computed covers flits of one packet only.
LEMMA StartInterruptIInv ==
  ASSUME IInv, NEW f \in Packet, StartInterrupt(f)
  PROVE  IInv'
<1> DEFINE i == ExbBound(injecting)
           k == FrontRun(i)
<1>1. /\ TypeOK /\ StatusConsistent /\ OccupiedInUse /\ ForwardWindow
      /\ injecting # None
      /\ Remaining(i) = 0
      /\ PopAndPush(i, f)
      /\ interrupt' = TRUE
      /\ forward_length' = (IF k = ExbSize /\ f = m_exb[i][0]
                            THEN k + 1 ELSE k) - 1
      /\ UNCHANGED injecting
  BY DEF IInv, StartInterrupt, ForwardLength
<1>2. /\ injecting \in Buffer /\ i \in Exb /\ occupied[i]
      /\ single_buffer_index[i] = injecting
      /\ \A l \in Exb : single_buffer_index[l] = injecting => l = i
  BY <1>1, InjectingFacts
<1>3. indicator[i] \in Int /\ indicator[i] >= 0
  BY <1>1, <1>2, ExbAssumption DEF Remaining, TypeOK
<1>4. /\ k \in Int /\ k > 0 /\ k <= indicator[i] + 1
      /\ \A j \in 0..(k - 1) : m_exb[i][j] = m_exb[i][0]
  BY <1>1, <1>2, <1>3, FrontRunFacts
<1> HIDE DEF i, k
<1>5. /\ m_exb' \in [Exb -> [Slot -> Packet \cup {None}]]
      /\ UNCHANGED <<indicator, occupied, single_buffer_index>>
      /\ \A l \in Exb, j \in Slot : m_exb'[l][j] # None <=> j <= indicator[l]
  BY <1>1, <1>2, <1>3, PopAndPushFacts
<1>6. /\ forward_length' \in Nat
      /\ forward_length' <= indicator[i] + 1
      /\ forward_length' # 0 =>
           \A j \in 0..(forward_length' - 1) : m_exb'[i][j] = m_exb'[i][0]
  BY <1>1, <1>2, <1>4, WindowMoves
<1>7. TypeOK'
  BY <1>1, <1>5, <1>6 DEF TypeOK
<1>8. StatusConsistent'
  BY <1>1, <1>5 DEF StatusConsistent
<1>9. OccupiedInUse'
  BY <1>1, <1>5 DEF OccupiedInUse
<1>10. ForwardWindow'
  BY <1>1, <1>2, <1>5, <1>6 DEF ForwardWindow
<1> QED
  BY <1>7, <1>8, <1>9, <1>10 DEF IInv

\* Popping an EXB of another ring, which may release it, keeps the invariant.
LEMMA RestPopIInv ==
  ASSUME IInv, NEW b \in Buffer, RestPop(b)
  PROVE  IInv'
<1> DEFINE i == ExbBound(b)
<1>1. /\ TypeOK /\ StatusConsistent /\ OccupiedInUse /\ ForwardWindow
      /\ b # injecting /\ i # None
      /\ DropFirst(i)
      /\ UNCHANGED <<injecting, interrupt, forward_length>>
  BY DEF IInv, RestPop, Pop, injection_vars
<1>2. /\ IF indicator[i] = 0
         THEN /\ occupied' = [occupied EXCEPT ![i] = FALSE]
              /\ single_buffer_index' = [single_buffer_index EXCEPT ![i] = None]
         ELSE UNCHANGED <<occupied, single_buffer_index>>
  BY DEF RestPop, Pop, SetStatus, status_vars
<1>3. i \in Exb /\ occupied[i] /\ single_buffer_index[i] = b
  BY <1>1, BoundFacts
<1>4. indicator[i] \in Int /\ indicator[i] >= 0
  BY <1>1, <1>3, ExbAssumption DEF OccupiedInUse, TypeOK
<1> HIDE DEF i
<1>5. /\ m_exb' \in [Exb -> [Slot -> Packet \cup {None}]]
      /\ indicator' \in [Exb -> -1..(ExbSize - 1)]
      /\ indicator'[i] = indicator[i] - 1
      /\ \A k \in Exb \ {i} : m_exb'[k] = m_exb[k] /\ indicator'[k] = indicator[k]
      /\ \A k \in Exb, j \in Slot : m_exb'[k][j] # None <=> j <= indicator'[k]
  BY <1>1, <1>3, <1>4, DropFirstFacts
<1>6. TypeOK'
  <2>1. occupied' \in [Exb -> BOOLEAN]
    BY <1>1, <1>2 DEF TypeOK
  <2>2. single_buffer_index' \in [Exb -> Buffer \cup {None}]
    BY <1>1, <1>2 DEF TypeOK
  <2> QED
    BY <1>1, <1>5, <2>1, <2>2 DEF TypeOK
<1>7. StatusConsistent'
  <2>1. CASE indicator[i] = 0
    <3>1. /\ ~occupied'[i] /\ single_buffer_index'[i] = None
          /\ \A k \in Exb \ {i} : /\ occupied'[k] = occupied[k]
                                  /\ single_buffer_index'[k] = single_buffer_index[k]
      BY <1>1, <1>2, <1>3, <2>1 DEF TypeOK
    <3>2. \A k \in Exb : /\ occupied'[k] <=> single_buffer_index'[k] # None
                         /\ ~occupied'[k] => indicator'[k] = -1
      BY <1>1, <1>5, <2>1, <3>1 DEF StatusConsistent
    <3>3. \A k, l \in Exb :
            single_buffer_index'[k] = single_buffer_index'[l] /\ occupied'[k] => k = l
      <4> SUFFICES ASSUME NEW k \in Exb, NEW l \in Exb, occupied'[k],
                          single_buffer_index'[k] = single_buffer_index'[l]
                   PROVE  k = l
        OBVIOUS
      <4>1. k # i
        BY <3>1
      <4>2. l # i
        BY <3>1, <3>2
      <4> QED
        BY <1>1, <3>1, <4>1, <4>2 DEF StatusConsistent
    <3> QED
      BY <1>5, <3>2, <3>3 DEF StatusConsistent
  <2>2. CASE indicator[i] # 0
    BY <1>1, <1>2, <1>3, <1>5, <2>2 DEF StatusConsistent
  <2> QED BY <2>1, <2>2
<1>8. OccupiedInUse'
  <2>1. \A k \in Exb : occupied'[k] /\ single_buffer_index'[k] # injecting
                         => indicator'[k] >= 0
    BY SMTT(30), <1>1, <1>2, <1>3, <1>4, <1>5 DEF OccupiedInUse, TypeOK
  <2>2. injecting # None => \E k \in Exb : single_buffer_index'[k] = injecting
    BY <1>1, <1>2, <1>3 DEF OccupiedInUse, TypeOK
  <2> QED
    BY <1>1, <2>1, <2>2 DEF OccupiedInUse
<1>9. ForwardWindow'
  <2>1. \A k \in Exb : single_buffer_index'[k] = injecting /\ injecting # None
                         => k # i /\ single_buffer_index[k] = injecting
    BY <1>1, <1>2, <1>3 DEF TypeOK
  <2> QED
    BY <1>1, <1>5, <2>1 DEF ForwardWindow
<1> QED
  BY <1>6, <1>7, <1>8, <1>9 DEF IInv

\* Exchanging the front of an EXB of another ring for the arriving flit keeps the
\* invariant.
LEMMA RestPopAndPushIInv ==
  ASSUME IInv, NEW b \in Buffer, NEW f \in Packet, RestPopAndPush(b, f)
  PROVE  IInv'
<1> DEFINE i == ExbBound(b)
<1>1. /\ TypeOK /\ StatusConsistent /\ OccupiedInUse /\ ForwardWindow
      /\ b # injecting /\ i # None
      /\ PopAndPush(i, f)
      /\ UNCHANGED <<injecting, interrupt, forward_length>>
  BY DEF IInv, RestPopAndPush, injection_vars
<1>2. i \in Exb /\ occupied[i] /\ single_buffer_index[i] = b
  BY <1>1, BoundFacts
<1>3. indicator[i] \in Int /\ indicator[i] >= 0
  BY <1>1, <1>2, ExbAssumption DEF OccupiedInUse, TypeOK
<1> HIDE DEF i
<1>4. /\ m_exb' \in [Exb -> [Slot -> Packet \cup {None}]]
      /\ UNCHANGED <<indicator, occupied, single_buffer_index>>
      /\ \A k \in Exb \ {i} : m_exb'[k] = m_exb[k]
      /\ \A k \in Exb, j \in Slot : m_exb'[k][j] # None <=> j <= indicator[k]
  BY <1>1, <1>2, <1>3, PopAndPushFacts
<1>5. TypeOK'
  BY <1>1, <1>4 DEF TypeOK
<1>6. StatusConsistent'
  BY <1>1, <1>4 DEF StatusConsistent
<1>7. OccupiedInUse'
  BY <1>1, <1>4 DEF OccupiedInUse
<1>8. ForwardWindow'
  BY <1>1, <1>2, <1>4 DEF ForwardWindow
<1> QED
  BY <1>5, <1>6, <1>7, <1>8 DEF IInv

\* No call of a node breaks the invariant.
LEMMA NextIInv == IInv /\ [Next]_vars => IInv'
<1> SUFFICES ASSUME IInv, [Next]_vars PROVE IInv'
  OBVIOUS
<1>1. ASSUME NEW b \in Buffer, BindAndInject(b) PROVE IInv'
  BY <1>1, BindAndInjectIInv
<1>2. ASSUME NEW last \in BOOLEAN, InjectFree(last) PROVE IInv'
  BY <1>2, InjectFreeIInv
<1>3. ASSUME NEW f \in Packet, NEW last \in BOOLEAN, InjectPush(f, last)
      PROVE  IInv'
  BY <1>3, InjectPushIInv
<1>4. CASE InterruptPop
  BY <1>4, InterruptPopIInv
<1>5. ASSUME NEW f \in Packet, InterruptPopAndPush(f) PROVE IInv'
  BY <1>5, InterruptPopAndPushIInv
<1>6. ASSUME NEW f \in Packet, StartInterrupt(f) PROVE IInv'
  BY <1>6, StartInterruptIInv
<1>7. ASSUME NEW b \in Buffer, RestPop(b) PROVE IInv'
  BY <1>7, RestPopIInv
<1>8. ASSUME NEW b \in Buffer, NEW f \in Packet, RestPopAndPush(b, f)
      PROVE  IInv'
  BY <1>8, RestPopAndPushIInv
<1>9. CASE UNCHANGED vars
  BY <1>9 DEF vars, status_vars, injection_vars, IInv, TypeOK, StatusConsistent,
              OccupiedInUse, ForwardWindow
<1> QED
  BY <1>1, <1>2, <1>3, <1>4, <1>5, <1>6, <1>7, <1>8, <1>9 DEF Next

\* The invariant holds in every reachable state.
THEOREM Invariance == Spec => []IInv
<1> QED
  BY InitIInv, NextIInv, PTL DEF Spec

\* The arrays and fields of the EXBs keep their ranges: no slot index leaves
\* the array, whatever the calls.
THEOREM TypeCorrect == Spec => []TypeOK
<1>1. IInv => TypeOK
  BY DEF IInv
<1> QED
  BY <1>1, Invariance, PTL

\* exb_available, check_exb_bound and get_remaining_slot never disagree: the
\* status of an EXB, its binding and its slots always tell the same.
THEOREM StatusAgrees == Spec => []StatusConsistent
<1>1. IInv => StatusConsistent
  BY DEF IInv
<1> QED
  BY <1>1, Invariance, PTL

\* A node never pops an empty EXB, and an injection always finds its EXB.
THEOREM NeverPopsEmpty == Spec => []OccupiedInUse
<1>1. IInv => OccupiedInUse
  BY DEF IInv
<1> QED
  BY <1>1, Invariance, PTL

\* The flits an interrupt still has to forward are in the EXB and belong to
\* one packet.
THEOREM ForwardsOnePacket == Spec => []ForwardWindow
<1>1. IInv => ForwardWindow
  BY DEF IInv
<1> QED
  BY <1>1, Invariance, PTL

-----------------------------------------------------------------------------
(***************************************************************************)
(* ExbManager implements ExbPool: the slot arrays and status fields behave *)
(* as a bounded pool of bounded FIFO queues, for every number and size of  *)
(* EXBs.                                                                   *)
(***************************************************************************)

\* The flits of EXB i as a sequence, oldest first.
Contents(i) == [j \in 1..(indicator[i] + 1) |-> m_exb[i][j - 1]]

PoolOfContents ==
  /\ \A b : b \in DOMAIN Pool <=>
              \E i \in Exb : occupied[i] /\ single_buffer_index[i] = b
  /\ \A i \in Exb : occupied[i] => /\ single_buffer_index[i] \in Buffer
                                   /\ Pool[single_buffer_index[i]] = Contents(i)
  /\ Pool = [b \in DOMAIN Pool |-> Pool[b]]

\* The pool holds the contents of the occupied EXBs under the single buffer
\* each is recorded for.
LEMMA PoolFacts == IInv => PoolOfContents
<1> SUFFICES ASSUME IInv PROVE PoolOfContents
  OBVIOUS
<1>1. \A b : b \in DOMAIN Pool <=>
               \E i \in Exb : occupied[i] /\ single_buffer_index[i] = b
  BY DEF Pool
<1>2. ASSUME NEW i \in Exb, occupied[i]
      PROVE  /\ single_buffer_index[i] \in Buffer
             /\ ExbBound(single_buffer_index[i]) = i
  <2>1. single_buffer_index[i] \in Buffer
    BY <1>2 DEF IInv, TypeOK, StatusConsistent
  <2> QED
    BY <1>2, <2>1, BoundFacts DEF IInv
<1>3. ASSUME NEW i \in Exb, occupied[i]
      PROVE  Pool[single_buffer_index[i]] = Contents(i)
  <2>1. single_buffer_index[i] \in DOMAIN Pool
    BY <1>1, <1>3
  <2>2. Pool[single_buffer_index[i]] =
          [j \in 1..(indicator[ExbBound(single_buffer_index[i])] + 1) |->
             m_exb[ExbBound(single_buffer_index[i])][j - 1]]
    BY <2>1 DEF Pool
  <2> QED
    BY <1>2, <1>3, <2>2 DEF Contents
<1>4. Pool = [b \in DOMAIN Pool |-> Pool[b]]
  BY DEF Pool
<1> QED
  BY <1>1, <1>2, <1>3, <1>4 DEF PoolOfContents

ContentsAreQueues ==
  \A i \in Exb :
    /\ Contents(i) \in Seq(Packet)
    /\ Len(Contents(i)) = indicator[i] + 1
    /\ indicator[i] + 1 \in 0..ExbSize
    /\ \A j \in 1..(indicator[i] + 1) : Contents(i)[j] = m_exb[i][j - 1]

\* The contents are a sequence of packets as long as the indicator says.
LEMMA ContentsFacts == IInv => ContentsAreQueues
<1> SUFFICES ASSUME IInv, NEW i \in Exb
             PROVE  /\ Contents(i) \in Seq(Packet)
                    /\ Len(Contents(i)) = indicator[i] + 1
                    /\ indicator[i] + 1 \in 0..ExbSize
                    /\ \A j \in 1..(indicator[i] + 1) :
                         Contents(i)[j] = m_exb[i][j - 1]
  BY DEF ContentsAreQueues
<1>1. /\ m_exb[i] \in [Slot -> Packet \cup {None}]
      /\ indicator[i] \in -1..(ExbSize - 1) /\ ExbSize \in Nat
      /\ \A j \in Slot : m_exb[i][j] # None <=> j <= indicator[i]
  BY ExbAssumption DEF IInv, TypeOK, StatusConsistent
<1>2. ASSUME NEW j \in 1..(indicator[i] + 1) PROVE m_exb[i][j - 1] \in Packet
  <2>1. j - 1 \in Slot /\ j - 1 <= indicator[i]
    BY <1>1 DEF Slot
  <2> QED BY <1>1, <2>1
<1>3. Contents(i) \in [1..(indicator[i] + 1) -> Packet]
  BY <1>2 DEF Contents
<1>4. indicator[i] + 1 \in Nat
  BY <1>1
<1>5. Contents(i) \in Seq(Packet) /\ Len(Contents(i)) = indicator[i] + 1
  BY <1>3, <1>4
<1> QED
  BY <1>1, <1>5 DEF Contents

\* A step that changes one EXB, occupied afterwards, changes one queue.
LEMMA PoolUpdate ==
  ASSUME IInv, IInv', NEW i \in Exb, NEW b,
         occupied'[i], single_buffer_index'[i] = b,
         occupied[i] => single_buffer_index[i] = b,
         \A k \in Exb \ {i} : /\ occupied'[k] = occupied[k]
                              /\ single_buffer_index'[k] = single_buffer_index[k]
                              /\ Contents(k)' = Contents(k)
  PROVE  Pool' = Queues!With(b, Contents(i)')
<1>1. PoolOfContents
  BY PoolFacts
<1>2. PoolOfContents'
  BY PoolFacts, PTL
<1>3. DOMAIN Pool' = DOMAIN Pool \cup {b}
  <2>1. ASSUME NEW c PROVE c \in DOMAIN Pool' <=> c \in DOMAIN Pool \cup {b}
    BY <1>1, <1>2 DEF PoolOfContents
  <2> QED BY <2>1
<1>4. Pool'[b] = Contents(i)'
  BY <1>2 DEF PoolOfContents
<1>5. ASSUME NEW c \in DOMAIN Pool, c # b PROVE Pool'[c] = Pool[c]
  <2>1. PICK k \in Exb : occupied[k] /\ single_buffer_index[k] = c
    BY <1>1 DEF PoolOfContents
  <2>2. k # i
    BY <2>1, <1>5
  <2>3. Pool'[c] = Contents(k)' /\ Pool[c] = Contents(k)
    BY <1>1, <1>2, <2>1, <2>2 DEF PoolOfContents
  <2> QED BY <2>2, <2>3
<1>6. Pool' = [c \in DOMAIN Pool \cup {b} |->
                 IF c = b THEN Contents(i)' ELSE Pool[c]]
  <2>1. Pool' = [c \in DOMAIN Pool' |-> Pool'[c]]
    BY <1>2 DEF PoolOfContents
  <2> QED BY <1>3, <1>4, <1>5, <2>1
<1> QED
  BY <1>6 DEF Queues!With

\* A step that frees an EXB removes its queue and leaves the others alone.
LEMMA PoolRemove ==
  ASSUME IInv, IInv', NEW i \in Exb, NEW b,
         occupied[i], single_buffer_index[i] = b, ~occupied'[i],
         \A k \in Exb \ {i} : /\ occupied'[k] = occupied[k]
                              /\ single_buffer_index'[k] = single_buffer_index[k]
                              /\ Contents(k)' = Contents(k)
  PROVE  Pool' = Queues!Without(b)
<1>1. PoolOfContents
  BY PoolFacts
<1>2. PoolOfContents'
  BY PoolFacts, PTL
<1>3. ASSUME NEW k \in Exb, occupied[k], single_buffer_index[k] = b
      PROVE  k = i
  BY <1>3 DEF IInv, StatusConsistent
<1>4. DOMAIN Pool' = DOMAIN Pool \ {b}
  <2>1. ASSUME NEW c PROVE c \in DOMAIN Pool' <=> c \in DOMAIN Pool \ {b}
    BY <1>1, <1>2, <1>3 DEF PoolOfContents
  <2> QED BY <2>1
<1>5. ASSUME NEW c \in DOMAIN Pool, c # b PROVE Pool'[c] = Pool[c]
  <2>1. PICK k \in Exb : occupied[k] /\ single_buffer_index[k] = c
    BY <1>1 DEF PoolOfContents
  <2>2. k # i
    BY <2>1, <1>5
  <2>3. Pool'[c] = Contents(k)' /\ Pool[c] = Contents(k)
    BY <1>1, <1>2, <2>1, <2>2 DEF PoolOfContents
  <2> QED BY <2>2, <2>3
<1>6. Pool' = [c \in DOMAIN Pool \ {b} |-> Pool[c]]
  <2>1. Pool' = [c \in DOMAIN Pool' |-> Pool'[c]]
    BY <1>2 DEF PoolOfContents
  <2> QED BY <1>4, <1>5, <2>1
<1> QED
  BY <1>6 DEF Queues!Without

\* A single buffer has an EXB exactly if the pool has a queue for it, and the
\* queue is the contents of that EXB.
LEMMA QueueOfExb ==
  ASSUME IInv, NEW i \in Exb, occupied[i]
  PROVE  /\ single_buffer_index[i] \in DOMAIN Pool
         /\ single_buffer_index[i] \in Buffer
         /\ Pool[single_buffer_index[i]] = Contents(i)
BY PoolFacts DEF PoolOfContents

\* While an EXB is free, fewer queues are in use than there are EXBs.
LEMMA FreeExb ==
  ASSUME IInv, NEW i \in Exb, ~occupied[i]
  PROVE  Cardinality(DOMAIN Pool) < ExbNum
<1> DEFINE O == {k \in Exb : occupied[k]}
           bound == [k \in O |-> single_buffer_index[k]]
<1>1. IsFiniteSet(Exb) /\ Cardinality(Exb) = ExbNum
  BY FS_Interval, ExbAssumption DEF Exb
<1>2. IsFiniteSet(O) /\ Cardinality(O) <= ExbNum /\ Cardinality(O) # ExbNum
  <2>1. O \in SUBSET Exb /\ O # Exb
    OBVIOUS
  <2> HIDE DEF O
  <2> QED BY <1>1, <2>1, FS_Subset
<1>3. bound \in Surjection(O, DOMAIN Pool)
  <2>1. \A b : b \in DOMAIN Pool <=> \E k \in O : bound[k] = b
    BY PoolFacts DEF PoolOfContents
  <2>2. bound \in [O -> DOMAIN Pool]
    BY <2>1
  <2> HIDE DEF bound, O
  <2> QED BY <2>1, <2>2 DEF Surjection
<1>4. Cardinality(DOMAIN Pool) <= Cardinality(O) /\ IsFiniteSet(DOMAIN Pool)
  <2> HIDE DEF bound, O
  <2> QED BY <1>2, <1>3, FS_Surjection
<1>5. Cardinality(DOMAIN Pool) \in Nat /\ Cardinality(O) \in Nat
  <2> HIDE DEF O
  <2> QED BY <1>2, <1>4, FS_CardinalityType
<1> QED
  BY <1>2, <1>4, <1>5, ExbAssumption

-----------------------------------------------------------------------------
(* The array moves, seen as operations on the contents.                    *)
LEMMA SameContents ==
  ASSUME NEW k \in Exb, m_exb'[k] = m_exb[k], indicator'[k] = indicator[k]
  PROVE  Contents(k)' = Contents(k)
BY DEF Contents

\* Dropping the first flit of the array takes the head off the queue.
LEMMA DropFirstIsTail ==
  ASSUME IInv, IInv', NEW i \in Exb, indicator[i] >= 0, DropFirst(i)
  PROVE  /\ Contents(i) # <<>>
         /\ Contents(i)' = Tail(Contents(i))
         /\ \A k \in Exb \ {i} : Contents(k)' = Contents(k)
<1>1. ContentsAreQueues /\ ContentsAreQueues'
  BY ContentsFacts, PTL
<1>2. /\ indicator'[i] = indicator[i] - 1
      /\ \A k \in Exb \ {i} : m_exb'[k] = m_exb[k] /\ indicator'[k] = indicator[k]
      /\ \A j \in Slot : j < indicator[i] => m_exb'[i][j] = m_exb[i][j + 1]
  BY DropFirstFacts DEF IInv
<1>3. indicator[i] \in Int /\ indicator[i] < ExbSize /\ ExbSize \in Nat
  BY ExbAssumption DEF IInv, TypeOK
<1> DEFINE s == Contents(i)
           t == Contents(i)'
<1>4. /\ s \in Seq(Packet) /\ Len(s) = indicator[i] + 1
      /\ \A j \in 1..(indicator[i] + 1) : s[j] = m_exb[i][j - 1]
  BY <1>1 DEF ContentsAreQueues
<1>5. /\ t \in Seq(Packet) /\ Len(t) = indicator[i]
      /\ \A j \in 1..indicator[i] : t[j] = m_exb'[i][j - 1]
  BY <1>1, <1>2, <1>3 DEF ContentsAreQueues
<1> HIDE DEF s, t
<1>6. s # <<>>
  BY <1>3, <1>4
<1>7. /\ Tail(s) \in Seq(Packet) /\ Len(Tail(s)) = indicator[i]
      /\ \A j \in 1..indicator[i] : Tail(s)[j] = s[j + 1]
  BY <1>3, <1>4, <1>6, HeadTailProperties
<1>8. ASSUME NEW j \in 1..indicator[i] PROVE t[j] = Tail(s)[j]
  <2>1. j - 1 \in Slot /\ j - 1 < indicator[i] /\ (j - 1) + 1 = j
    BY <1>3 DEF Slot
  <2>2. m_exb'[i][j - 1] = m_exb[i][j]
    BY <1>2, <2>1
  <2>3. s[j + 1] = m_exb[i][j]
    BY SMTT(30), <1>3, <1>4
  <2> QED BY <1>5, <1>7, <2>2, <2>3
<1>9. t = Tail(s)
  BY <1>5, <1>7, <1>8, SeqEqual
<1>10. \A k \in Exb \ {i} : Contents(k)' = Contents(k)
  BY <1>2, SameContents
<1> QED
  BY <1>6, <1>9, <1>10 DEF s, t

\* Moving all flits forward and storing another one behind them is a pop
\* followed by a push.
LEMMA PopAndPushIsBoth ==
  ASSUME IInv, IInv', NEW i \in Exb, indicator[i] >= 0, NEW f \in Packet,
         PopAndPush(i, f)
  PROVE  /\ Contents(i) # <<>>
         /\ Contents(i)' = Append(Tail(Contents(i)), f)
         /\ \A k \in Exb \ {i} : Contents(k)' = Contents(k)
         /\ UNCHANGED <<occupied, single_buffer_index>>
<1>1. ContentsAreQueues /\ ContentsAreQueues'
  BY ContentsFacts, PTL
<1>2. /\ UNCHANGED <<indicator, occupied, single_buffer_index>>
      /\ \A k \in Exb \ {i} : m_exb'[k] = m_exb[k]
      /\ \A j \in Slot : j < indicator[i] => m_exb'[i][j] = m_exb[i][j + 1]
      /\ m_exb'[i][indicator[i]] = f
  BY PopAndPushFacts DEF IInv
<1>3. indicator[i] \in Int /\ indicator[i] < ExbSize /\ ExbSize \in Nat
  BY ExbAssumption DEF IInv, TypeOK
<1> DEFINE s == Contents(i)
           t == Contents(i)'
           u == Append(Tail(s), f)
<1>4. /\ s \in Seq(Packet) /\ Len(s) = indicator[i] + 1
      /\ \A j \in 1..(indicator[i] + 1) : s[j] = m_exb[i][j - 1]
  BY <1>1 DEF ContentsAreQueues
<1>5. /\ t \in Seq(Packet) /\ Len(t) = indicator[i] + 1
      /\ \A j \in 1..(indicator[i] + 1) : t[j] = m_exb'[i][j - 1]
  BY <1>1, <1>2 DEF ContentsAreQueues
<1> HIDE DEF s, t
<1>6. s # <<>>
  BY <1>3, <1>4
<1>7. /\ Tail(s) \in Seq(Packet) /\ Len(Tail(s)) = indicator[i]
      /\ \A j \in 1..indicator[i] : Tail(s)[j] = s[j + 1]
  BY <1>3, <1>4, <1>6, HeadTailProperties
<1>8. /\ u \in Seq(Packet) /\ Len(u) = indicator[i] + 1
      /\ \A j \in 1..indicator[i] : u[j] = Tail(s)[j]
      /\ u[indicator[i] + 1] = f
  BY <1>3, <1>7, AppendProperties
<1> HIDE DEF u
<1>9. ASSUME NEW j \in 1..(indicator[i] + 1) PROVE t[j] = u[j]
  <2>1. CASE j = indicator[i] + 1
    BY <1>2, <1>3, <1>5, <1>8, <2>1
  <2>2. CASE j # indicator[i] + 1
    <3>1. /\ j - 1 \in Slot /\ j - 1 < indicator[i] /\ (j - 1) + 1 = j
          /\ j \in 1..indicator[i]
      BY <1>3, <2>2 DEF Slot
    <3>2. m_exb'[i][j - 1] = m_exb[i][j]
      BY <1>2, <3>1
    <3>3. s[j + 1] = m_exb[i][j]
      BY <1>3, <1>4, <3>1
    <3> QED BY <1>5, <1>7, <1>8, <3>1, <3>2, <3>3
  <2> QED BY <2>1, <2>2
<1>10. t = u
  BY <1>5, <1>8, <1>9, SeqEqual
<1>11. \A k \in Exb \ {i} : Contents(k)' = Contents(k)
  BY <1>2, SameContents
<1> QED
  BY <1>2, <1>6, <1>10, <1>11 DEF s, t, u

\* Storing a flit in the slot behind the last one appends it.
LEMMA PushIsAppend ==
  ASSUME IInv, IInv', NEW i \in Exb, NEW f \in Packet,
         indicator[i] + 1 \in Slot, Push(i, f)
  PROVE  /\ Len(Contents(i)) < ExbSize
         /\ Contents(i)' = Append(Contents(i), f)
         /\ \A k \in Exb \ {i} : Contents(k)' = Contents(k)
         /\ UNCHANGED <<occupied, single_buffer_index>>
<1>1. ContentsAreQueues /\ ContentsAreQueues'
  BY ContentsFacts, PTL
<1>2. /\ m_exb \in [Exb -> [Slot -> Packet \cup {None}]]
      /\ indicator \in [Exb -> -1..(ExbSize - 1)] /\ ExbSize \in Nat
  BY ExbAssumption DEF IInv, TypeOK
<1>3. /\ UNCHANGED <<occupied, single_buffer_index>>
      /\ m_exb' = [m_exb EXCEPT ![i][indicator[i] + 1] = f]
      /\ indicator' = [indicator EXCEPT ![i] = @ + 1]
  BY DEF Push, status_vars
<1>4. /\ \A k \in Exb \ {i} : m_exb'[k] = m_exb[k] /\ indicator'[k] = indicator[k]
      /\ indicator'[i] = indicator[i] + 1
      /\ m_exb'[i][indicator[i] + 1] = f
      /\ \A j \in Slot : j # indicator[i] + 1 => m_exb'[i][j] = m_exb[i][j]
  BY <1>2, <1>3
<1> DEFINE s == Contents(i)
           t == Contents(i)'
           u == Append(s, f)
<1>5. /\ s \in Seq(Packet) /\ Len(s) = indicator[i] + 1
      /\ \A j \in 1..(indicator[i] + 1) : s[j] = m_exb[i][j - 1]
  BY <1>1 DEF ContentsAreQueues
<1>6. /\ t \in Seq(Packet) /\ Len(t) = indicator[i] + 2
      /\ \A j \in 1..(indicator[i] + 2) : t[j] = m_exb'[i][j - 1]
  BY <1>1, <1>2, <1>4 DEF ContentsAreQueues
<1> HIDE DEF s, t
<1>7. /\ u \in Seq(Packet) /\ Len(u) = indicator[i] + 2
      /\ \A j \in 1..(indicator[i] + 1) : u[j] = s[j]
      /\ u[indicator[i] + 2] = f
  BY <1>2, <1>5, AppendProperties
<1> HIDE DEF u
<1>8. ASSUME NEW j \in 1..(indicator[i] + 2) PROVE t[j] = u[j]
  <2>1. CASE j = indicator[i] + 2
    BY <1>2, <1>4, <1>6, <1>7, <2>1
  <2>2. CASE j # indicator[i] + 2
    <3>1. /\ j - 1 \in Slot /\ j - 1 # indicator[i] + 1
          /\ j \in 1..(indicator[i] + 1)
      BY <1>2, <2>2 DEF Slot
    <3> QED BY <1>4, <1>5, <1>6, <1>7, <3>1
  <2> QED BY <2>1, <2>2
<1>9. t = u
  BY <1>2, <1>6, <1>7, <1>8, SeqEqual
<1>10. \A k \in Exb \ {i} : Contents(k)' = Contents(k)
  BY <1>4, SameContents
<1>11. Len(s) < ExbSize
  BY <1>2, <1>5 DEF Slot
<1> QED
  BY <1>3, <1>9, <1>10, <1>11 DEF s, t, u

-----------------------------------------------------------------------------
(* Every call of a node is one operation of the pool, or leaves it alone.  *)
LEMMA BindStep ==
  ASSUME IInv, IInv', NEW b \in Buffer, BindAndInject(b)
  PROVE  Queues!Bind(b)
<1>1. PICK i \in Exb : i = ExbAvailable /\ ~occupied[i]
  BY AvailableFacts DEF BindAndInject
<1>2. /\ occupied' = [occupied EXCEPT ![i] = TRUE]
      /\ single_buffer_index' = [single_buffer_index EXCEPT ![i] = b]
      /\ UNCHANGED <<m_exb, indicator>>
      /\ ExbBound(b) = None
  BY <1>1 DEF BindAndInject, SetStatus
<1>3. /\ occupied'[i] /\ single_buffer_index'[i] = b
      /\ \A k \in Exb \ {i} : /\ occupied'[k] = occupied[k]
                              /\ single_buffer_index'[k] = single_buffer_index[k]
      /\ indicator[i] = -1
  BY <1>1, <1>2 DEF IInv, TypeOK, StatusConsistent
<1>4. b \notin DOMAIN Pool
  <2>1. \A k \in Exb : single_buffer_index[k] # b
    BY <1>2, BoundFacts DEF IInv
  <2> QED BY <2>1, PoolFacts DEF PoolOfContents
<1>5. Cardinality(DOMAIN Pool) < ExbNum
  BY <1>1, FreeExb
<1>6. \A k \in Exb : Contents(k)' = Contents(k)
  BY <1>2, SameContents
<1>7. Contents(i)' = <<>>
  <2>1. ContentsAreQueues
    BY ContentsFacts
  <2>2. Contents(i) \in Seq(Packet) /\ Len(Contents(i)) = 0
    BY <1>1, <1>3, <2>1 DEF ContentsAreQueues
  <2>3. Contents(i) = <<>>
    BY <2>2
  <2> QED BY <1>1, <1>6, <2>3
<1>8. Pool' = Queues!With(b, Contents(i)')
  BY <1>1, <1>3, <1>6, PoolUpdate
<1>9. Queues!Cardinality(DOMAIN Pool) = Cardinality(DOMAIN Pool)
  BY DEF Queues!Cardinality, Cardinality
<1> QED
  BY <1>4, <1>5, <1>7, <1>8, <1>9 DEF Queues!Bind

\* InjectFree is a stutter of the pool, or the release of an empty buffer.
LEMMA InjectFreeStep ==
  ASSUME IInv, IInv', NEW last \in BOOLEAN, InjectFree(last)
  PROVE  Queues!Next \/ UNCHANGED Pool
<1>1. injecting # None /\ TypeOK /\ StatusConsistent /\ OccupiedInUse
  BY DEF IInv, InjectFree
<1>2. PICK i \in Exb : /\ i = ExbBound(injecting) /\ injecting \in Buffer
                       /\ occupied[i] /\ single_buffer_index[i] = injecting
  BY <1>1, InjectingFacts
<1>3. CASE last /\ Remaining(i) = ExbSize
  <2>1. /\ occupied' = [occupied EXCEPT ![i] = FALSE]
        /\ single_buffer_index' = [single_buffer_index EXCEPT ![i] = None]
        /\ indicator' = [indicator EXCEPT ![i] = -1]
        /\ UNCHANGED m_exb
    BY <1>2, <1>3 DEF InjectFree, Release, SetStatus
  <2>2. indicator[i] = -1
    BY <1>1, <1>2, <1>3, ExbAssumption DEF Remaining, TypeOK
  <2>3. /\ ~occupied'[i]
        /\ \A k \in Exb \ {i} : /\ occupied'[k] = occupied[k]
                                /\ single_buffer_index'[k] = single_buffer_index[k]
                                /\ indicator'[k] = indicator[k]
    BY <1>1, <1>2, <2>1 DEF TypeOK
  <2>4. \A k \in Exb \ {i} : Contents(k)' = Contents(k)
    BY <2>1, <2>3, SameContents
  <2>5. Pool' = Queues!Without(injecting)
    BY <1>2, <2>3, <2>4, PoolRemove
  <2>6. Contents(i) = <<>>
    <3>1. ContentsAreQueues
      BY ContentsFacts
    <3>2. Contents(i) \in Seq(Packet) /\ Len(Contents(i)) = 0
      BY <1>2, <2>2, <3>1 DEF ContentsAreQueues
    <3> QED BY <3>2
  <2>7. Queues!Release(injecting)
    BY <1>2, <2>5, <2>6, QueueOfExb DEF Queues!Release
  <2> QED
    BY <1>2, <2>7 DEF Queues!Next
<1>4. CASE ~(last /\ Remaining(i) = ExbSize)
  <2>1. UNCHANGED <<m_exb, indicator, occupied, single_buffer_index>>
    BY <1>2, <1>4 DEF InjectFree, status_vars
  <2> QED
    BY <2>1 DEF Pool, ExbBound, First
<1> QED
  BY <1>3, <1>4

\* InjectPush appends the arriving flit to the buffer of its ring.
LEMMA InjectPushStep ==
  ASSUME IInv, IInv', NEW f \in Packet, NEW last \in BOOLEAN,
         InjectPush(f, last)
  PROVE  Queues!Push(injecting, f) /\ injecting \in Buffer
<1>1. injecting # None /\ TypeOK /\ StatusConsistent /\ OccupiedInUse
  BY DEF IInv, InjectPush
<1>2. PICK i \in Exb : /\ i = ExbBound(injecting) /\ injecting \in Buffer
                       /\ occupied[i] /\ single_buffer_index[i] = injecting
  BY <1>1, InjectingFacts
<1>3. /\ Push(i, f)
      /\ indicator[i] + 1 \in Slot
  <2>1. Remaining(i) # 0 /\ Push(i, f)
    BY <1>2 DEF InjectPush, Push
  <2> QED
    BY <1>1, <1>2, <2>1, ExbAssumption DEF Remaining, TypeOK, Slot
<1>4. /\ Len(Contents(i)) < ExbSize
      /\ Contents(i)' = Append(Contents(i), f)
      /\ \A k \in Exb \ {i} : Contents(k)' = Contents(k)
      /\ UNCHANGED <<occupied, single_buffer_index>>
  BY <1>1, <1>2, <1>3, PushIsAppend
<1>5. Pool' = Queues!With(injecting, Contents(i)')
  BY <1>2, <1>4, PoolUpdate
<1>6. injecting \in DOMAIN Pool /\ Pool[injecting] = Contents(i)
  BY <1>2, QueueOfExb
<1> QED
  BY <1>2, <1>4, <1>5, <1>6 DEF Queues!Push

\* InterruptPop takes the oldest flit out of the buffer and keeps it bound.
LEMMA InterruptPopStep ==
  ASSUME IInv, IInv', InterruptPop
  PROVE  Queues!Pop(injecting) /\ injecting \in Buffer
<1>1. /\ injecting # None /\ Interrupted
      /\ TypeOK /\ StatusConsistent /\ OccupiedInUse /\ ForwardWindow
  BY DEF IInv, InterruptPop
<1>2. PICK i \in Exb : /\ i = ExbBound(injecting) /\ injecting \in Buffer
                       /\ occupied[i] /\ single_buffer_index[i] = injecting
  BY <1>1, InjectingFacts
<1>3. /\ indicator[i] >= 0
      /\ DropFirst(i) /\ UNCHANGED <<occupied, single_buffer_index>>
  <2>1. DropFirst(i) /\ UNCHANGED <<occupied, single_buffer_index>>
    BY <1>2 DEF InterruptPop, InterruptPopOf, DropFirst, status_vars
  <2> QED
    BY <1>1, <1>2, <2>1, ExbAssumption DEF Interrupted, ForwardWindow, TypeOK
<1>4. /\ Contents(i) # <<>>
      /\ Contents(i)' = Tail(Contents(i))
      /\ \A k \in Exb \ {i} : Contents(k)' = Contents(k)
  BY <1>1, <1>2, <1>3, DropFirstIsTail
<1>5. Pool' = Queues!With(injecting, Contents(i)')
  BY <1>2, <1>3, <1>4, PoolUpdate
<1>6. injecting \in DOMAIN Pool /\ Pool[injecting] = Contents(i)
  BY <1>2, QueueOfExb
<1> QED
  BY <1>2, <1>4, <1>5, <1>6 DEF Queues!Pop

\* The three actions that rotate an EXB: of the injection under an interrupt,
\* of the injection that starts one, and of the rest of the rings.
LEMMA RotateStep ==
  ASSUME IInv, IInv', NEW i \in Exb, occupied[i], indicator[i] >= 0,
         NEW f \in Packet, PopAndPush(i, f)
  PROVE  Queues!PopAndPush(single_buffer_index[i], f)
<1>1. /\ Contents(i) # <<>>
      /\ Contents(i)' = Append(Tail(Contents(i)), f)
      /\ \A k \in Exb \ {i} : Contents(k)' = Contents(k)
      /\ UNCHANGED <<occupied, single_buffer_index>>
  BY PopAndPushIsBoth
<1>2. Pool' = Queues!With(single_buffer_index[i], Contents(i)')
  BY <1>1, PoolUpdate
<1>3. /\ single_buffer_index[i] \in DOMAIN Pool
      /\ Pool[single_buffer_index[i]] = Contents(i)
  BY QueueOfExb
<1> QED
  BY <1>1, <1>2, <1>3 DEF Queues!PopAndPush

\* RestPop takes the oldest flit out and releases the buffer if it was the last.
LEMMA RestPopStep ==
  ASSUME IInv, IInv', NEW b \in Buffer, RestPop(b)
  PROVE  Queues!Pop(b) \/ Queues!PopLast(b)
<1>1. TypeOK /\ StatusConsistent /\ OccupiedInUse /\ b # injecting
  BY DEF IInv, RestPop
<1>2. PICK i \in Exb : i = ExbBound(b) /\ occupied[i] /\ single_buffer_index[i] = b
  BY <1>1, BoundFacts DEF RestPop
<1>3. /\ indicator[i] \in Int /\ indicator[i] >= 0
      /\ DropFirst(i)
      /\ IF indicator[i] = 0
         THEN /\ occupied' = [occupied EXCEPT ![i] = FALSE]
              /\ single_buffer_index' = [single_buffer_index EXCEPT ![i] = None]
         ELSE UNCHANGED <<occupied, single_buffer_index>>
  <2>1. indicator[i] \in Int /\ indicator[i] >= 0
    BY <1>1, <1>2, ExbAssumption DEF OccupiedInUse, TypeOK
  <2> QED
    BY <1>2, <2>1 DEF RestPop, Pop, DropFirst, SetStatus, status_vars
<1>4. /\ Contents(i) # <<>>
      /\ Contents(i)' = Tail(Contents(i))
      /\ \A k \in Exb \ {i} : Contents(k)' = Contents(k)
  BY <1>1, <1>2, <1>3, DropFirstIsTail
<1>5. b \in DOMAIN Pool /\ Pool[b] = Contents(i)
  BY <1>2, QueueOfExb
<1>6. CASE indicator[i] = 0
  <2>1. /\ ~occupied'[i]
        /\ \A k \in Exb \ {i} : /\ occupied'[k] = occupied[k]
                                /\ single_buffer_index'[k] = single_buffer_index[k]
    BY <1>1, <1>2, <1>3, <1>6 DEF TypeOK
  <2>2. Pool' = Queues!Without(b)
    BY <1>2, <1>4, <2>1, PoolRemove
  <2>3. Len(Contents(i)) = 1
    <3>1. ContentsAreQueues
      BY ContentsFacts
    <3>2. Len(Contents(i)) = indicator[i] + 1
      BY <3>1 DEF ContentsAreQueues
    <3> QED BY <1>6, <3>2
  <2> QED
    BY <1>5, <2>2, <2>3 DEF Queues!PopLast
<1>7. CASE indicator[i] # 0
  <2>1. Pool' = Queues!With(b, Contents(i)')
    BY <1>2, <1>3, <1>4, <1>7, PoolUpdate
  <2> QED
    BY <1>4, <1>5, <2>1 DEF Queues!Pop
<1> QED
  BY <1>6, <1>7

\* A step of the EXBs is a step of the pool or a stutter.
LEMMA PoolStep ==
  ASSUME IInv, IInv', [Next]_vars
  PROVE  [Queues!Next]_Pool
<1>1. ASSUME NEW b \in Buffer, BindAndInject(b) PROVE Queues!Next
  BY <1>1, BindStep DEF Queues!Next
<1>2. ASSUME NEW last \in BOOLEAN, InjectFree(last)
      PROVE  Queues!Next \/ UNCHANGED Pool
  BY <1>2, InjectFreeStep
<1>3. ASSUME NEW f \in Packet, NEW last \in BOOLEAN, InjectPush(f, last)
      PROVE  Queues!Next
  BY <1>3, InjectPushStep DEF Queues!Next
<1>4. ASSUME InterruptPop PROVE Queues!Next
  BY <1>4, InterruptPopStep DEF Queues!Next
<1>5. ASSUME NEW f \in Packet, InterruptPopAndPush(f) PROVE Queues!Next
  <2>1. /\ injecting # None /\ Interrupted
        /\ TypeOK /\ StatusConsistent /\ OccupiedInUse /\ ForwardWindow
    BY <1>5 DEF IInv, InterruptPopAndPush
  <2>2. PICK i \in Exb : /\ i = ExbBound(injecting) /\ injecting \in Buffer
                         /\ occupied[i] /\ single_buffer_index[i] = injecting
    BY <2>1, InjectingFacts
  <2>3. indicator[i] >= 0 /\ PopAndPush(i, f)
    BY <1>5, <2>1, <2>2, ExbAssumption
       DEF Interrupted, ForwardWindow, TypeOK, InterruptPopAndPush, PopAndPush
  <2>4. Queues!PopAndPush(injecting, f)
    BY <2>1, <2>2, <2>3, RotateStep
  <2> QED
    BY <2>2, <2>4 DEF Queues!Next
<1>6. ASSUME NEW f \in Packet, StartInterrupt(f) PROVE Queues!Next
  <2>1. injecting # None /\ TypeOK /\ StatusConsistent /\ OccupiedInUse
    BY <1>6 DEF IInv, StartInterrupt
  <2>2. PICK i \in Exb : /\ i = ExbBound(injecting) /\ injecting \in Buffer
                         /\ occupied[i] /\ single_buffer_index[i] = injecting
    BY <2>1, InjectingFacts
  <2>3. indicator[i] >= 0 /\ PopAndPush(i, f)
    BY <1>6, <2>1, <2>2, ExbAssumption
       DEF Remaining, TypeOK, StartInterrupt, PopAndPush
  <2>4. Queues!PopAndPush(injecting, f)
    BY <2>1, <2>2, <2>3, RotateStep
  <2> QED
    BY <2>2, <2>4 DEF Queues!Next
<1>7. ASSUME NEW b \in Buffer, RestPop(b) PROVE Queues!Next
  BY <1>7, RestPopStep DEF Queues!Next
<1>8. ASSUME NEW b \in Buffer, NEW f \in Packet, RestPopAndPush(b, f)
      PROVE  Queues!Next
  <2>1. TypeOK /\ StatusConsistent /\ OccupiedInUse /\ b # injecting
    BY <1>8 DEF IInv, RestPopAndPush
  <2>2. PICK i \in Exb : i = ExbBound(b) /\ occupied[i] /\ single_buffer_index[i] = b
    BY <1>8, <2>1, BoundFacts DEF RestPopAndPush
  <2>3. indicator[i] >= 0 /\ PopAndPush(i, f)
    BY <1>8, <2>1, <2>2 DEF OccupiedInUse, RestPopAndPush, PopAndPush
  <2>4. Queues!PopAndPush(b, f)
    BY <2>1, <2>2, <2>3, RotateStep
  <2> QED
    BY <2>4 DEF Queues!Next
<1>9. CASE UNCHANGED vars
  BY <1>9 DEF vars, status_vars, injection_vars, Pool, ExbBound, First
<1> QED
  BY <1>1, <1>2, <1>3, <1>4, <1>5, <1>6, <1>7, <1>8, <1>9 DEF Next

\* At first no EXB is occupied and the pool has no queue.
LEMMA PoolInit == Init => Queues!Init
<1> SUFFICES ASSUME Init PROVE Pool = [b \in {} |-> <<>>]
  BY DEF Queues!Init
<1>1. \A i \in Exb : ~occupied[i]
  BY DEF Init
<1>2. {single_buffer_index[i] : i \in {k \in Exb : occupied[k]}} = {}
  BY <1>1
<1> QED
  BY <1>2 DEF Pool

\* The fixed arrays, indicators and status fields of the extension buffers
\* implement a bounded pool of FIFO queues: no flit is lost, doubled or
\* overtaken in a buffer by push, pop, pop_and_push and the interrupts.
THEOREM ImplementsPool == Spec => PoolService
<1>1. Init => Queues!Init
  BY PoolInit
<1>2. IInv /\ IInv' /\ [Next]_vars => [Queues!Next]_Pool
  BY PoolStep
<1> QED
  BY <1>1, <1>2, Invariance, PTL DEF Spec, PoolService, Queues!Spec
=============================================================================
