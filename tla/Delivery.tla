----------------------------- MODULE Delivery ------------------------------
(***************************************************************************)
(* What the network promises its users, without rings and buffers.  A node *)
(* accepts packets and sends them in the order it accepted them; the flits *)
(* of a packet reach its destination, and only it, one by one in the order *)
(* of their sequence numbers; a node takes in at most EjPorts flits a      *)
(* cycle.  A node counts what it takes in: a flit that came twice would    *)
(* count without being owed.                                               *)
(***************************************************************************)
EXTENDS Integers, Sequences, FiniteSets

CONSTANTS Node,       \* the nodes
          Offer,      \* node -> the [dst, length] of packets it may accept
          EjPorts     \* flits a node can take in at once

VARIABLES next_id,        \* the number of packets accepted so far
          waiting,        \* node -> accepted packets that have not started
          owed,           \* packet under way -> destination and flits to come
          received_flit,  \* node -> the number of flits it took in
          received        \* node -> the number of packets it took in entirely
vars == <<next_id, waiting, owed, received_flit, received>>

\* Zero or one new packet for node n.
Accepted(n) ==
  {<<>>} \cup {<<[id |-> next_id, dst |-> o.dst, length |-> o.length]>> :
                 o \in Offer[n]}

\* The packets a flit of which may arrive at node n in one cycle.
Arriving(n) ==
  {S \in SUBSET {p \in DOMAIN owed : owed[p].dst = n} : Cardinality(S) <= EjPorts}

\* The flit of packet p that comes next, and the packets of S it completes.
Due(p) == CHOOSE i \in owed[p].flits : \A j \in owed[p].flits : i <= j
Completed(S) == {p \in S : owed[p].flits = {Due(p)}}

\* The packets under way after the flits due of those in S have arrived and
\* those of the sequence "started" have left their queue.
OwedAfter(S, started) ==
  LET fresh == {started[i].id : i \in DOMAIN started}
  IN  [p \in (DOMAIN owed \ Completed(S)) \cup fresh |->
         IF p \in fresh
         THEN [dst |-> started[1].dst, flits |-> 0..(started[1].length - 1)]
         ELSE [owed[p] EXCEPT !.flits = IF p \in S THEN @ \ {Due(p)} ELSE @]]

\* One cycle of node n: it may accept a packet, take in some flits, and start
\* the packet at the head of its queue.
Cycle(n) ==
  \E new \in Accepted(n), S \in Arriving(n) :
    LET q == waiting[n] \o new
    IN  /\ next_id' = next_id + Len(new)
        /\ received_flit' = [received_flit EXCEPT ![n] = @ + Cardinality(S)]
        /\ received' = [received EXCEPT ![n] = @ + Cardinality(Completed(S))]
        /\ \E k \in {0, 1} :
             /\ k <= Len(q)
             /\ waiting' = [waiting EXCEPT ![n] = SubSeq(q, k + 1, Len(q))]
             /\ owed' = OwedAfter(S, SubSeq(q, 1, k))

Init ==
  /\ next_id = 0
  /\ waiting = [n \in Node |-> <<>>]
  /\ owed = <<>>
  /\ received_flit = [n \in Node |-> 0]
  /\ received = [n \in Node |-> 0]

Next == \E n \in Node : Cycle(n)
Spec == Init /\ [][Next]_vars
=============================================================================
