---------------------------- MODULE ExbManager -----------------------------
(***************************************************************************)
(* The extension buffers of one node as ExbManager stores them: fixed      *)
(* arrays of slots with a status each, driven by the calls Node makes on   *)
(* them.  Node handles each ring once a cycle, here in any order; a flit   *)
(* is known by its packet.                                                 *)
(***************************************************************************)
EXTENDS Integers, Sequences, FiniteSets

CONSTANTS
  Buffer,           \* indices of the single buffers of the node
  Packet,           \* packet ids of the flits that pass
  ExbNum,           \* exb_num
  ExbSize,          \* exb_size
  EnableInterrupt   \* enable_interrupt

ASSUME ExbAssumption ==
  /\ Buffer \subseteq Nat /\ Packet \subseteq Nat
  /\ ExbNum \in Nat /\ ExbSize \in Nat \ {0}
  /\ EnableInterrupt \in BOOLEAN

Exb  == 0..(ExbNum - 1)
Slot == 0..(ExbSize - 1)
None == -1      \* no buffer, no EXB, and a null slot

VARIABLES
  m_exb,                \* EXB -> slot -> flit or null
  occupied,             \* EXB -> the three fields of its ExbStatus
  single_buffer_index,
  indicator,
  injecting,            \* the single buffer of the ongoing injection
  interrupt,            \* m_interrupt
  forward_length        \* m_forward_exb_length
status_vars == <<occupied, single_buffer_index>>
injection_vars == <<injecting, interrupt, forward_length>>
vars == <<m_exb, indicator, status_vars, injection_vars>>

\* exb_available and check_exb_bound: the first EXB that fits.
First(S) == IF S = {} THEN None ELSE CHOOSE i \in S : \A j \in S : i <= j
ExbAvailable == First({i \in Exb : ~occupied[i]})
ExbBound(b) == First({i \in Exb : single_buffer_index[i] = b})
\* Faulty: one free slot too many.
RemainingPlusOne(i) == ExbSize - indicator[i]
Remaining(i) == ExbSize - indicator[i] - 1

-----------------------------------------------------------------------------
(* The operations of ExbManager on EXB i.                                  *)
SetStatus(i, status, b) ==
  /\ occupied' = [occupied EXCEPT ![i] = status]
  /\ single_buffer_index' = [single_buffer_index EXCEPT ![i] = b]

\* Faulty: the move stops one slot early.
ShiftedShort(i, x) ==
  [j \in Slot |-> IF j < indicator[i] - 1 THEN m_exb[i][j + 1]
                  ELSE IF j = indicator[i] THEN x ELSE m_exb[i][j]]
\* The slots after all flits behind the first have moved forward and the slot
\* of the last one holds x.
Shifted(i, x) ==
  [j \in Slot |-> IF j < indicator[i] THEN m_exb[i][j + 1]
                  ELSE IF j = indicator[i] THEN x ELSE m_exb[i][j]]

Push(i, f) ==
  /\ m_exb' = [m_exb EXCEPT ![i][indicator[i] + 1] = f]
  /\ indicator' = [indicator EXCEPT ![i] = @ + 1]
  /\ UNCHANGED status_vars

PopAndPush(i, f) ==
  /\ m_exb' = [m_exb EXCEPT ![i] = Shifted(i, f)]
  /\ UNCHANGED <<indicator, status_vars>>

DropFirst(i) ==
  /\ m_exb' = [m_exb EXCEPT ![i] = Shifted(i, None)]
  /\ indicator' = [indicator EXCEPT ![i] = @ - 1]

\* Faulty: the EXB is not released when it runs empty.
PopNoRelease(i) == DropFirst(i) /\ UNCHANGED status_vars
Pop(i) ==
  /\ DropFirst(i)
  /\ IF indicator[i] = 0 THEN SetStatus(i, FALSE, None)
                         ELSE UNCHANGED status_vars

InterruptPopOf(i) == DropFirst(i) /\ UNCHANGED status_vars

\* Faulty: the binding is left in the status.
ReleaseKeepsIndex(i) ==
  /\ SetStatus(i, FALSE, single_buffer_index[i])
  /\ indicator' = [indicator EXCEPT ![i] = -1]
  /\ UNCHANGED m_exb
Release(i) ==
  /\ SetStatus(i, FALSE, None)
  /\ indicator' = [indicator EXCEPT ![i] = -1]
  /\ UNCHANGED m_exb

\* Faulty: all flits of the EXB are counted, whatever their packet.
WholeExb(i) == indicator[i] + 1
\* cal_forward_packet_length: the run of one packet at the front, and the
\* arriving flit f if the run fills the EXB and f continues it.
FrontRun(i) ==
  CHOOSE k \in 1..(indicator[i] + 1) :
    /\ \A j \in 0..(k - 1) : m_exb[i][j] = m_exb[i][0]
    /\ k <= indicator[i] => m_exb[i][k] # m_exb[i][0]
ForwardLength(i, f) ==
  IF FrontRun(i) = ExbSize /\ f = m_exb[i][0] THEN FrontRun(i) + 1 ELSE FrontRun(i)
ExtendedLength(i, f, length) ==
  IF length = ExbSize /\ f = m_exb[i][0] THEN length + 1 ELSE length

-----------------------------------------------------------------------------
(* The calls of Node: inject_eject and continue_inject_packet for the ring *)
(* of the injection, handle_rest_flit for the others.                      *)
Interrupted == EnableInterrupt /\ interrupt /\ forward_length # 0

BindAndInject(b) ==
  /\ injecting = None
  /\ ExbBound(b) = None
  /\ ExbAvailable # None
  /\ SetStatus(ExbAvailable, TRUE, b)
  /\ injecting' = b
  /\ UNCHANGED <<m_exb, indicator, interrupt, forward_length>>

\* A flit of the ongoing packet goes out; "last" if it is the tail.
Injected(last) ==
  /\ ~Interrupted
  /\ injecting' = IF last THEN None ELSE injecting
  /\ interrupt' = (interrupt /\ ~EnableInterrupt)
  /\ UNCHANGED forward_length

InjectFree(last) ==
  LET i == ExbBound(injecting)
  IN  /\ injecting # None
      /\ Injected(last)
      /\ IF last /\ Remaining(i) = ExbSize
         THEN Release(i) ELSE UNCHANGED <<m_exb, indicator, status_vars>>

InjectPush(f, last) ==
  LET i == ExbBound(injecting)
  IN  /\ injecting # None
      /\ Remaining(i) # 0
      /\ Injected(last)
      /\ Push(i, f)

InterruptPop ==
  /\ injecting # None
  /\ Interrupted
  /\ InterruptPopOf(ExbBound(injecting))
  /\ forward_length' = forward_length - 1
  /\ UNCHANGED <<injecting, interrupt>>

InterruptPopAndPush(f) ==
  LET i == ExbBound(injecting)
  IN  /\ injecting # None
      /\ Interrupted
      /\ PopAndPush(i, f)
      /\ forward_length' = ExtendedLength(i, f, forward_length) - 1
      /\ UNCHANGED <<injecting, interrupt>>

StartInterrupt(f) ==
  LET i == ExbBound(injecting)
  IN  /\ injecting # None
      /\ ~Interrupted
      /\ Remaining(i) = 0
      /\ PopAndPush(i, f)
      /\ interrupt' = TRUE
      /\ forward_length' = ForwardLength(i, f) - 1
      /\ UNCHANGED injecting

RestPop(b) ==
  /\ b # injecting
  /\ ExbBound(b) # None
  /\ Pop(ExbBound(b))
  /\ UNCHANGED injection_vars

RestPopAndPush(b, f) ==
  /\ b # injecting
  /\ ExbBound(b) # None
  /\ PopAndPush(ExbBound(b), f)
  /\ UNCHANGED injection_vars

Init ==
  /\ m_exb = [i \in Exb |-> [j \in Slot |-> None]]
  /\ occupied = [i \in Exb |-> FALSE]
  /\ single_buffer_index = [i \in Exb |-> None]
  /\ indicator = [i \in Exb |-> -1]
  /\ injecting = None
  /\ interrupt = FALSE
  /\ forward_length = 0

Next ==
  \/ \E b \in Buffer : BindAndInject(b)
  \/ \E last \in BOOLEAN : InjectFree(last)
  \/ \E f \in Packet, last \in BOOLEAN : InjectPush(f, last)
  \/ InterruptPop
  \/ \E f \in Packet : InterruptPopAndPush(f)
  \/ \E f \in Packet : StartInterrupt(f)
  \/ \E b \in Buffer : RestPop(b)
  \/ \E b \in Buffer, f \in Packet : RestPopAndPush(b, f)
Spec == Init /\ [][Next]_vars

-----------------------------------------------------------------------------
TypeOK ==
  /\ m_exb \in [Exb -> [Slot -> Packet \cup {None}]]
  /\ occupied \in [Exb -> BOOLEAN]
  /\ single_buffer_index \in [Exb -> Buffer \cup {None}]
  /\ indicator \in [Exb -> -1..(ExbSize - 1)]
  /\ injecting \in Buffer \cup {None}
  /\ interrupt \in BOOLEAN
  /\ forward_length \in Int

\* The three ways to ask about an EXB agree: it is occupied exactly while a
\* single buffer is recorded for it, no single buffer has two, the slots up to
\* the indicator hold flits and those behind it are null.
StatusConsistent ==
  /\ \A i \in Exb :
       /\ occupied[i] <=> single_buffer_index[i] # None
       /\ ~occupied[i] => indicator[i] = -1
       /\ \A j \in Slot : m_exb[i][j] # None <=> j <= indicator[i]
  /\ \A i, k \in Exb :
       single_buffer_index[i] = single_buffer_index[k] /\ occupied[i] => i = k

\* No flit is asked of an empty EXB: one that is occupied holds a flit unless
\* the ongoing injection keeps it, and the injection always finds its EXB.
OccupiedInUse ==
  /\ \A i \in Exb :
       occupied[i] /\ single_buffer_index[i] # injecting => indicator[i] >= 0
  /\ injecting # None => \E i \in Exb : single_buffer_index[i] = injecting

\* While injection is interrupted, the flits counted for forwarding are still
\* in the EXB and belong to one packet; no count outlives the interrupt, and no
\* interrupt the injection.
ForwardWindow ==
  EnableInterrupt =>
    /\ interrupt => injecting # None
    /\ forward_length >= 0
    /\ forward_length # 0 =>
         /\ interrupt
         /\ \A i \in Exb :
              single_buffer_index[i] = injecting =>
                /\ forward_length <= indicator[i] + 1
                /\ \A j \in 0..(forward_length - 1) : m_exb[i][j] = m_exb[i][0]

-----------------------------------------------------------------------------
Pool ==
  [b \in {single_buffer_index[i] : i \in {k \in Exb : occupied[k]}} |->
     [j \in 1..(indicator[ExbBound(b)] + 1) |-> m_exb[ExbBound(b)][j - 1]]]
Queues == INSTANCE ExbPool WITH pool <- Pool, Flit <- Packet

\* The arrays behave as a bounded pool of FIFO queues.
PoolService == Queues!Spec

\* The comment of the second cal_forward_packet_length: "Recalculate how many
\* flits need to be popped/forwarded. If incoming flits in input buffers belongs
\* to the same packet as flits being forwarded/popped."  When everything in the
\* EXB is being forwarded, an arriving flit of the same packet joins it.
SamePacketJoins ==
  [][\A i \in Exb, f \in Packet :
       /\ EnableInterrupt
       /\ single_buffer_index[i] = injecting
       /\ forward_length = indicator[i] + 1
       /\ f = m_exb[i][0]
       /\ InterruptPopAndPush(f)
       => forward_length' = forward_length]_vars
=============================================================================
