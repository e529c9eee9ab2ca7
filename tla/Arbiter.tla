------------------------------ MODULE Arbiter ------------------------------
(***************************************************************************)
(* One node's ejection arbitration, seen from its single buffers: recv_flit *)
(* fills them from the rings, ej_arbitrator decides which of them are       *)
(* ejected, reset_single_buffer clears them at the end of the cycle.        *)
(***************************************************************************)
EXTENDS Arbitration

CONSTANTS Ring,      \* rings across the node, one single buffer each
          EjPorts,   \* ejection links, GlobalParameter::ej_port_nu
          MaxTime    \* bound on the creation times of the arriving flits

ASSUME ArbiterAssumption ==
  /\ IsFiniteSet(Ring)
  /\ EjPorts \in Nat
  /\ MaxTime \in Nat

VARIABLES single_buffer,   \* ring -> what arrived on it
          ejecting,        \* rings whose entry of m_ej_order is -3
          stage            \* how far the cycle of this node has come
vars == <<single_buffer, ejecting, stage>>

\* An empty buffer and a flit that has to pass on (another destination, or no
\* matching record) are alike for the arbitrator.
Passing == [tag |-> -1, ctime |-> 0]
Arrival == {Passing} \cup [tag : {TailFlit, PayloadFlit, HeaderFlit}, ctime : 0..MaxTime]

Candidates ==
  [r \in {q \in Ring : single_buffer[q] # Passing} |-> single_buffer[r]]

Init ==
  /\ single_buffer = [r \in Ring |-> Passing]
  /\ ejecting = {}
  /\ stage = "idle"

Receive ==
  /\ stage = "idle"
  /\ single_buffer' \in [Ring -> Arrival]
  /\ stage' = "received"
  /\ UNCHANGED ejecting

Arbitrate ==
  /\ stage = "received"
  /\ ejecting' \in EjectSets(Candidates, EjPorts)
  /\ stage' = "arbitrated"
  /\ UNCHANGED single_buffer

Reset ==
  /\ stage = "arbitrated"
  /\ single_buffer' = [r \in Ring |-> Passing]
  /\ ejecting' = {}
  /\ stage' = "idle"

Next == Receive \/ Arbitrate \/ Reset
Spec == Init /\ [][Next]_vars
-----------------------------------------------------------------------------
Losers == DOMAIN Candidates \ ejecting
Count(tag) == Cardinality(Group(Candidates, tag))

\* Every ejection link is used whenever enough flits ask for one, and a flit
\* further along its packet goes first (Node.h: "Tail(on records) >
\* Payload(on records) > Header"): a link never serves a header while a
\* payload or a tail of another packet is turned away.
LaterFlitsFirst ==
  stage = "arbitrated" =>
    /\ Losers # {} => Cardinality(ejecting) = EjPorts
    /\ \A win \in ejecting, lose \in Losers :
         single_buffer[win].tag <= single_buffer[lose].tag

\* Headers are always compared by age: the one that waited longest is ejected
\* first, whatever else arrived with them.
OldestHeaderWins ==
  stage = "arbitrated" =>
    \A win \in ejecting, lose \in Losers :
      /\ single_buffer[win].tag = HeaderFlit
      /\ single_buffer[lose].tag = HeaderFlit
      => single_buffer[win].ctime <= single_buffer[lose].ctime

\* Payloads are compared by age as long as no header arrived in the same
\* cycle, and tails as long as neither a header nor a payload did.
OldestWinsAlone ==
  stage = "arbitrated" =>
    \A win \in ejecting, lose \in Losers :
      /\ single_buffer[win].tag = single_buffer[lose].tag
      /\ \A other \in (single_buffer[win].tag + 1)..HeaderFlit : Count(other) = 0
      => single_buffer[win].ctime <= single_buffer[lose].ctime

\* What the comment of Node::ej_arbitrator promises of each group: "If multiple
\* flits with the same type, sort them with creation time. The oldest flits
\* win".
OldestWins ==
  stage = "arbitrated" =>
    \A win \in ejecting, lose \in Losers :
      single_buffer[win].tag = single_buffer[lose].tag
      => single_buffer[win].ctime <= single_buffer[lose].ctime
=============================================================================
