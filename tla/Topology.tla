----------------------------- MODULE Topology ------------------------------
(***************************************************************************)
(* The RLrec ring topology of a k x k mesh and the routing tables that     *)
(* follow from it.                                                         *)
(***************************************************************************)
EXTENDS Integers, Sequences, FiniteSets, SequencesExt

Odd(i) == i % 2 = 1

\* The elements of S in order: before[x] are those that come before x.
InOrder(S, before) ==
  [i \in 1..Cardinality(S) |-> CHOOSE x \in S : Cardinality(before[x]) = i - 1]

\* RingTopologyTuple: corners and direction, 0 clockwise, 1 anti-clockwise.
Tuple(ul, lr, dir) == [ul |-> ul, lr |-> lr, dir |-> dir]

\* The corners of the outer ring of a layer, the upper left and the lower right.
UpperLeft(k, layer) == (k * k - 2 * layer * k + k - 2 * layer) \div 2
\* Faulty: one node too far.
LowerRightPast(k, layer) == (k * k + 2 * layer * k - k + 2 * layer) \div 2
LowerRight(k, layer) == (k * k + 2 * layer * k - k + 2 * layer - 2) \div 2

\* The rings one layer of the recursion adds, in the order of the code.
LayerTuples(k, layer) ==
  LET ul == UpperLeft(k, layer)
      lr == LowerRight(k, layer)
      rotate == Odd(k \div 2 - layer)
      GroupBC(i) ==
        IF rotate
        THEN <<Tuple(ul, lr + (1 + i - 2 * layer) * k, 0), Tuple(ul + k * i, lr, 0)>>
        ELSE <<Tuple(ul, lr - 2 * layer + 1 + i, 0), Tuple(ul + i, lr, 0)>>
      GroupD(j) ==
        IF rotate
        THEN Tuple(ul + j, lr - 2 * layer + 2 + j, 0)
        ELSE Tuple(ul + k * j, lr + (2 + j - 2 * layer) * k, 0)
  IN  <<Tuple(ul, lr, 1)>>
      \o FlattenSeq([i \in 1..(2 * layer - 2) |-> GroupBC(i)])
      \o (IF layer = 1 THEN <<Tuple(ul, lr, 0)>>
          ELSE [j \in 1..(2 * layer - 1) |-> GroupD(j - 1)])

RlrecTuples(k) == FlattenSeq([layer \in 1..(k \div 2) |-> LayerTuples(k, layer)])

\* The nodes of a ring in the order a flit visits them: the four sides of the
\* rectangle, clockwise from its upper left corner, or reversed.
NodeOrder(k, t) ==
  LET length == (t.lr - t.ul) % k
      width  == (t.lr - t.ul) \div k
      clockwise ==
        [i \in 1..length |-> t.ul + i - 1]
        \o [j \in 1..width |-> t.ul + length + (j - 1) * k]
        \o [i \in 1..(length + 1) |-> t.lr - (i - 1)]
        \o [q \in 1..(width - 1) |-> t.ul + (width - q) * k]
  IN  IF t.dir = 1 THEN Reverse(clockwise) ELSE clockwise

\* find_next_node.
Successor(order) ==
  [n \in ToSet(order) |->
     LET i == CHOOSE i \in 1..Len(order) : order[i] = n
     IN  order[IF i = Len(order) THEN 1 ELSE i + 1]]

\* Hops a flit needs from a to b on the ring.
Distance(order, a, b) ==
  LET At(n) == CHOOSE i \in 1..Len(order) : order[i] = n
  IN  (At(b) - At(a)) % Len(order)

\* The rings from n to d in the order of the routing table: fewer hops first;
\* the control packet of a smaller ring is back earlier, and of those that
\* return in one cycle the last ring's is handled first.  A packet a node
\* sends to itself tries its rings in the order they were built.
RingsVia(orders, n, d) ==
  LET rings == {r \in DOMAIN orders : {n, d} \subseteq ToSet(orders[r])}
      Key(r) == <<Distance(orders[r], n, d), Len(orders[r]), -r>>
      Shorter(a, b) ==
        LET x == Key(a)  y == Key(b)
        IN  \E i \in 1..3 : x[i] < y[i] /\ \A j \in 1..(i - 1) : x[j] = y[j]
  IN  InOrder(rings, [b \in rings |->
             {a \in rings : IF n = d THEN a < b ELSE Shorter(a, b)}])

\* cal_ring_num: how many rings the network allocates.
CalRingNum[k \in Nat] ==
  IF k = 0 \/ k = 1 THEN 0
  ELSE IF k = 2 THEN 2
  ELSE 1 + 2 * (k - 2) + k - 1 + CalRingNum[k - 2]
=============================================================================
