------------------------------ MODULE Traffic ------------------------------
(***************************************************************************)
(* What the traffic patterns may draw: the destination and the length of a *)
(* packet that a node generates.  Lists of weights are sequences of pairs  *)
(* <<value, weight>>, as packet_ratio and hotspot of the configuration.    *)
(***************************************************************************)
EXTENDS Integers, Sequences, FiniteSetsExt

\* 1 << k.
Pow2[k \in Nat] == IF k = 0 THEN 1 ELSE 2 * Pow2[k - 1]
\* The number of times n can be halved before it is 1 or 0.
Halvings(n) == CHOOSE k \in 0..n : Pow2[k] <= n /\ n < Pow2[k + 1]

-----------------------------------------------------------------------------
(* Weighted draws.                                                         *)
WeightOf(list, i) == list[i][2]
WeightUpTo(list, i) == SumFunctionOnSet([j \in 1..i |-> WeightOf(list, j)], 1..i)
TotalWeight(list) == WeightUpTo(list, Len(list))

\* The numbers random_int(0, total) may give: both ends included.
Percents(list) == 0..TotalWeight(list)
\* Faulty: an entry also takes the first number of the next one.
EntryAtOrBelow(list, pct) ==
  IF \E i \in 1..(Len(list) - 1) : pct <= WeightUpTo(list, i)
  THEN CHOOSE i \in 1..(Len(list) - 1) :
         /\ pct <= WeightUpTo(list, i)
         /\ \A j \in 1..(i - 1) : pct > WeightUpTo(list, j)
  ELSE Len(list)
\* The entry a number selects: the first whose cumulated weight exceeds it;
\* the last one takes what is left.
Entry(list, pct) ==
  IF \E i \in 1..(Len(list) - 1) : pct < WeightUpTo(list, i)
  THEN CHOOSE i \in 1..(Len(list) - 1) :
         /\ pct < WeightUpTo(list, i)
         /\ \A j \in 1..(i - 1) : pct >= WeightUpTo(list, j)
  ELSE Len(list)
\* The values a draw may give; a list of one entry is not drawn from.
Values(list) ==
  IF Len(list) = 1 THEN {list[1][1]}
  ELSE {list[Entry(list, pct)][1] : pct \in Percents(list)}

-----------------------------------------------------------------------------
(* Destinations.                                                           *)

\* TrafficTranspose: m_shift and the exchange of the two halves of the bits.
Shift(nodes) == Halvings(nodes) \div 2
\* Faulty: the shift is all bits of a node number.
TransposedWide(nodes, n) ==
  LET half == Pow2[Halvings(nodes)]
  IN  ((n \div half) % half) + half * (n % half)
Transposed(nodes, n) ==
  LET half == Pow2[Shift(nodes)]
  IN  ((n \div half) % half) + half * (n % half)

\* TrafficBitReverse: the loop moves the low bits of local_id to dst, in
\* reverse order, and leaves the rest of local_id.
MoveBit(x) == [dst |-> 2 * x.dst + (x.id % 2), id |-> x.id \div 2]
Moves(n) ==
  LET at[i \in Nat] == IF i = 0 THEN [dst |-> 0, id |-> n] ELSE MoveBit(at[i - 1]) IN at
Reversed(nodes, n) == Moves(n)[Halvings(nodes)].dst
LeftOfId(nodes, n) == Moves(n)[Halvings(nodes)].id

\* Faulty: the number of nodes is drawn as well.
UniformInclusive(nodes, n) == (0..nodes) \ {n}
\* TrafficUniform draws again until the destination is another node.
UniformDestinations(nodes, n) == (0..(nodes - 1)) \ {n}

\* The destinations of the packetinfos node n may get from its pattern; none
\* where the pattern abandons the packetinfo.
Destinations(type, nodes, hotspot, n) ==
  CASE type = "Uniform"    -> UniformDestinations(nodes, n)
    [] type = "Transpose"  -> {Transposed(nodes, n)} \ {n}
    [] type = "BitReverse" -> {d \in {Reversed(nodes, n)} : d # LeftOfId(nodes, n)}
    [] type = "Hotspot"    -> Values(hotspot) \ {n}

\* Where a pattern sends node n's packets, for the patterns that do not draw.
Partner(type, nodes, n) ==
  IF type = "Transpose" THEN Transposed(nodes, n) ELSE Reversed(nodes, n)

\* The lengths of packets: any from short to long, or weighted.  Only method 1
\* fills the list of weights (configure); with any other that is not zero the
\* program reads the last entry of an empty list (see FilesAssumption).
PacketLengths(method, ratio, short, long) ==
  IF method = 0 THEN short..long ELSE Values(ratio)
=============================================================================
