------------------------------ MODULE ExbPool ------------------------------
(***************************************************************************)
(* What the extension buffers of a node are meant to be: a bounded pool of *)
(* bounded FIFO queues, each bound to one single buffer while in use.      *)
(***************************************************************************)
EXTENDS Integers, Sequences, FiniteSets

CONSTANTS Buffer, Flit, ExbNum, ExbSize

VARIABLE pool   \* bound single buffer -> its queue, oldest flit first

\* Binding b to the queue s, and giving b's EXB back.
With(b, s) ==
  [c \in DOMAIN pool \cup {b} |-> IF c = b THEN s ELSE pool[c]]
Without(b) == [c \in DOMAIN pool \ {b} |-> pool[c]]

Bind(b) ==
  /\ b \notin DOMAIN pool
  /\ Cardinality(DOMAIN pool) < ExbNum
  /\ pool' = With(b, <<>>)

Push(b, f) ==
  /\ b \in DOMAIN pool
  /\ Len(pool[b]) < ExbSize
  /\ pool' = With(b, Append(pool[b], f))

Pop(b) ==
  /\ b \in DOMAIN pool
  /\ pool[b] # <<>>
  /\ pool' = With(b, Tail(pool[b]))

PopLast(b) ==
  /\ b \in DOMAIN pool
  /\ Len(pool[b]) = 1
  /\ pool' = Without(b)

PopAndPush(b, f) ==
  /\ b \in DOMAIN pool
  /\ pool[b] # <<>>
  /\ pool' = With(b, Append(Tail(pool[b]), f))

Release(b) ==
  /\ b \in DOMAIN pool
  /\ pool[b] = <<>>
  /\ pool' = Without(b)

Init == pool = [b \in {} |-> <<>>]
Next ==
  \E b \in Buffer :
    \/ Bind(b) \/ Pop(b) \/ PopLast(b) \/ Release(b)
    \/ \E f \in Flit : Push(b, f) \/ PopAndPush(b, f)
Spec == Init /\ [][Next]_pool
=============================================================================
