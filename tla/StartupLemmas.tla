--------------------------- MODULE StartupLemmas ----------------------------
(***************************************************************************)
(* What the operators of the start are worth: the draws, shifts and bit    *)
(* reversals of the traffic patterns, the rings of RLrec as cycles of the  *)
(* mesh and their number, the hops round a ring, and sequences that are put *)
(* together or in order.                                                   *)
(***************************************************************************)
EXTENDS Configuration, Topology, Traffic, NumberLemmas, SequenceTheorems

-----------------------------------------------------------------------------
(* The size of an EXB.                                                     *)

\* The sum that get_exb_size computes, from i to long.
IsTail(g, long) == g = [i \in Int |-> IF i > long THEN 0 ELSE i + g[i + 1]]

\* The recursion defines a function, and it is the sum of an arithmetic series.
LEMMA TailExists == ASSUME NEW long \in Int PROVE \E g : IsTail(g, long)
<1>1. PICK h : h = [i \in Int |-> (long - i + 1) * (long + i)]
  OBVIOUS
<1>2. PICK g : g = [i \in Int |-> IF i > long THEN 0 ELSE h[i] \div 2]
  OBVIOUS
<1>3. ASSUME NEW i \in Int
      PROVE  g[i] = IF i > long THEN 0 ELSE i + g[i + 1]
  <2>1. CASE i > long
    BY <1>2, <2>1
  <2>2. CASE i = long
    <3>1. h[i] = 2 * i
      BY <1>1, <2>2
    <3> QED BY <1>2, <2>2, <3>1
  <2>3. CASE i < long
    <3>1. PICK a \in Int : a = h[i + 1]
      BY <1>1
    <3>2. h[i] = a + 2 * i
      BY <1>1, <3>1
    <3>3. (a + 2 * i) \div 2 = i + (a \div 2)
      OBVIOUS
    <3> QED BY <1>2, <2>3, <3>1, <3>2, <3>3
  <2> QED BY <2>1, <2>2, <2>3
<1>4. g = [i \in Int |-> IF i > long THEN 0 ELSE i + g[i + 1]]
  BY <1>2, <1>3
<1> QED BY <1>4 DEF IsTail

\* The sum of i..long in closed form.
LEMMA TailSum ==
  ASSUME NEW long \in Int, NEW g, IsTail(g, long), NEW i \in Int, i <= long
  PROVE  g[i] \in Int /\ 2 * g[i] = (long - i + 1) * (long + i)
<1> DEFINE Done == {n \in Nat : /\ g[long - n] \in Int
                                /\ 2 * g[long - n] = (n + 1) * (long + (long - n))}
<1>1. \A j \in Int : g[j] = IF j > long THEN 0 ELSE j + g[j + 1]
  BY DEF IsTail
<1>2. 0 \in Done
  <2>1. g[long + 1] = 0 /\ g[long] = long + g[long + 1]
    BY <1>1
  <2> QED BY <2>1
<1>3. ASSUME NEW n \in Nat, n \in Done
      PROVE  n + 1 \in Done
  <2>1. PICK j \in Int : j = long - (n + 1)
    OBVIOUS
  <2>2. j + 1 = long - n /\ ~(j > long)
    BY <2>1
  <2>3. g[j] = j + g[j + 1]
    BY <1>1, <2>2
  <2>4. g[j + 1] \in Int /\ 2 * g[j + 1] = (n + 1) * (long + (j + 1))
    BY <1>3, <2>2
  <2>5. g[j] \in Int /\ 2 * g[j] = 2 * j + (n + 1) * (long + (j + 1))
    BY <2>3, <2>4
  <2>6. 2 * j + (n + 1) * (long + (j + 1)) = (n + 2) * (long + j)
    BY <2>1
  <2> QED BY <2>1, <2>5, <2>6
<1>4. \A n \in Nat : n \in Done
  <2> HIDE DEF Done
  <2> QED BY <1>2, <1>3, Induction
<1>5. PICK n \in Nat : i = long - n
  <2>1. long - i \in Nat /\ i = long - (long - i)
    OBVIOUS
  <2> QED BY <2>1
<1>6. n \in Done
  BY <1>4
<1> QED BY <1>5, <1>6

\* get_exb_size returns the mean of the packet lengths, rounded up.
LEMMA ExbSizeIsMean ==
  ASSUME NEW long \in Nat, NEW short \in 1..long
  PROVE  2 * GetExbSize(short, long) \in {short + long, short + long + 1}
<1>1. PICK g : IsTail(g, long) /\ GetExbSize(short, long)
                = (g[short] + (long - short + 1) - 1) \div (long - short + 1)
  <2>1. PICK g : g = CHOOSE h : IsTail(h, long)
    OBVIOUS
  <2>2. IsTail(g, long)
    BY <2>1, TailExists
  <2>3. GetExbSize(short, long)
          = (g[short] + (long - short + 1) - 1) \div (long - short + 1)
    BY <2>1 DEF GetExbSize, IsTail
  <2> QED BY <2>2, <2>3
<1>2. PICK num \in Nat \ {0} : num = long - short + 1
  <2>1. long - short + 1 \in Nat \ {0}
    OBVIOUS
  <2> QED BY <2>1
<1>3. PICK s \in Int : s = g[short] /\ 2 * s = num * (short + long)
  BY <1>1, <1>2, TailSum
<1>4. PICK m \in Int : short + long = 2 * m \/ short + long = 2 * m + 1
  <2>1. /\ (short + long) \div 2 \in Int
        /\ \/ short + long = 2 * ((short + long) \div 2)
           \/ short + long = 2 * ((short + long) \div 2) + 1
    OBVIOUS
  <2> QED BY <2>1
<1>5. GetExbSize(short, long) = (s + num - 1) \div num
  BY <1>1, <1>2, <1>3
<1>6. CASE short + long = 2 * m
  <2>1. s = m * num
    BY <1>3, <1>6
  <2>2. s + num - 1 = m * num + (num - 1) /\ num - 1 \in 0..(num - 1)
    BY <2>1
  <2>3. GetExbSize(short, long) = m
    BY <1>5, <2>2, Division
  <2> QED BY <1>6, <2>3
<1>7. CASE short + long = 2 * m + 1
  <2>1. PICK j \in Nat \ {0} : num = 2 * j
    <3>1. num = 2 * (m + 1 - short)
      BY <1>2, <1>7
    <3>2. m + 1 - short \in Nat \ {0}
      BY <1>2, <3>1
    <3> QED BY <3>1, <3>2
  <2>2. s = m * num + j
    BY <1>3, <1>7, <2>1
  <2>3. s + num - 1 = (m + 1) * num + (j - 1) /\ j - 1 \in 0..(num - 1)
    BY <2>1, <2>2
  <2>4. GetExbSize(short, long) = m + 1
    BY SMTT(30), <1>5, <2>3, Division
  <2> QED BY <1>7, <2>4
<1> QED BY <1>4, <1>6, <1>7

-----------------------------------------------------------------------------
(* Draws by weight.                                                        *)

\* The weight of the entries up to i grows by that of entry i.
LEMMA WeightStep ==
  ASSUME NEW list \in Seq(Int \X Nat), NEW i \in 1..Len(list)
  PROVE  /\ WeightUpTo(list, i) \in Int /\ WeightUpTo(list, i - 1) \in Int
         /\ WeightOf(list, i) \in Nat
         /\ WeightUpTo(list, i) = WeightUpTo(list, i - 1) + WeightOf(list, i)
<1>1. \A j \in 1..Len(list) : WeightOf(list, j) \in Nat
  BY DEF WeightOf
<1>2. PICK fun : fun = [j \in 1..i |-> WeightOf(list, j)]
  OBVIOUS
<1>3. PICK gun : gun = [j \in 1..(i - 1) |-> WeightOf(list, j)]
  OBVIOUS
<1>4. /\ i \in Int /\ Len(list) \in Nat /\ i \in 1..i
      /\ (1..i) \ {i} = 1..(i - 1)
  BY SMTT(30)
<1>5. IsFiniteSet(1..i) /\ IsFiniteSet(1..(i - 1))
  BY FS_Interval, <1>4
<1>6. /\ \A j \in 1..i : fun[j] \in Int
      /\ \A j \in 1..(i - 1) : gun[j] \in Int /\ fun[j] = gun[j]
      /\ fun[i] = WeightOf(list, i)
  BY <1>1, <1>2, <1>3, <1>4
<1>7. SumFunctionOnSet(fun, 1..i) = fun[i] + SumFunctionOnSet(fun, 1..(i - 1))
  <2>1. PICK S : S = 1..i
    OBVIOUS
  <2>2. SumFunctionOnSet(fun, S) = fun[i] + SumFunctionOnSet(fun, S \ {i})
    BY <1>4, <1>5, <1>6, <2>1, SumRemove
  <2> QED BY <1>4, <2>1, <2>2
<1>8. SumFunctionOnSet(fun, 1..(i - 1)) = SumFunctionOnSet(gun, 1..(i - 1))
  BY <1>5, <1>6, SumCongruence
<1>9. SumFunctionOnSet(gun, 1..(i - 1)) \in Int
  BY <1>5, <1>6, SumType
<1>10. /\ WeightUpTo(list, i) = SumFunctionOnSet(fun, 1..i)
       /\ WeightUpTo(list, i - 1) = SumFunctionOnSet(gun, 1..(i - 1))
  BY <1>2, <1>3 DEF WeightUpTo
<1> QED BY <1>1, <1>6, <1>7, <1>8, <1>9, <1>10

\* Hence it never decreases, and starts with zero.
LEMMA WeightsGrow ==
  ASSUME NEW list \in Seq(Int \X Nat)
  PROVE  /\ WeightUpTo(list, 0) = 0
         /\ \A i \in 0..Len(list) : WeightUpTo(list, i) \in Int
         /\ \A i, j \in 0..Len(list) :
              i <= j => WeightUpTo(list, i) <= WeightUpTo(list, j)
<1>1. WeightUpTo(list, 0) = 0
  <2>1. 1..0 = {}
    OBVIOUS
  <2> QED BY <2>1, SumEmpty DEF WeightUpTo
<1>2. \A i \in 0..Len(list) : WeightUpTo(list, i) \in Int
  <2>1. \A i \in 0..Len(list) : i = 0 \/ i \in 1..Len(list)
    OBVIOUS
  <2> QED BY <1>1, <2>1, WeightStep
<1>3. ASSUME NEW i \in 0..Len(list)
      PROVE  \A j \in 0..Len(list) :
               i <= j => WeightUpTo(list, i) <= WeightUpTo(list, j)
  <2> DEFINE Done == {m \in Nat : i + m <= Len(list) =>
                                    WeightUpTo(list, i) <= WeightUpTo(list, i + m)}
  <2>1. 0 \in Done
    BY <1>2
  <2>2. ASSUME NEW m \in Nat, m \in Done
        PROVE  m + 1 \in Done
    <3> SUFFICES ASSUME i + (m + 1) <= Len(list)
                 PROVE  WeightUpTo(list, i) <= WeightUpTo(list, i + (m + 1))
      OBVIOUS
    <3>1. PICK j \in 1..Len(list) : j = i + (m + 1)
      OBVIOUS
    <3>2. j - 1 = i + m /\ i + m \in 0..Len(list) /\ j \in 0..Len(list)
      BY <3>1
    <3>3. WeightUpTo(list, i) <= WeightUpTo(list, i + m)
      BY <2>2, <3>2
    <3>4. WeightUpTo(list, i + m) <= WeightUpTo(list, j)
      BY <3>2, WeightStep
    <3> QED BY <1>2, <3>1, <3>2, <3>3, <3>4
  <2>3. \A m \in Nat : m \in Done
    <3> HIDE DEF Done
    <3> QED BY <2>1, <2>2, Induction
  <2> SUFFICES ASSUME NEW j \in 0..Len(list), i <= j
               PROVE  WeightUpTo(list, i) <= WeightUpTo(list, j)
    OBVIOUS
  <2>4. PICK m \in Nat : i + m = j
    <3>1. j - i \in Nat /\ i + (j - i) = j
      OBVIOUS
    <3> QED BY <3>1
  <2>5. m \in Done
    BY <2>3
  <2> QED BY SMTT(30), <2>4, <2>5
<1> QED BY <1>1, <1>2, <1>3

\* The numbers that select an entry: from the weight of those before it to
\* below its own cumulated weight; for the last entry to the total.
Selecting(list, i) ==
  IF i < Len(list) THEN WeightUpTo(list, i - 1)..(WeightUpTo(list, i) - 1)
  ELSE WeightUpTo(list, i - 1)..WeightUpTo(list, i)

\* The numbers that draw entry i are those that its weight covers.
LEMMA EntryFacts ==
  ASSUME NEW list \in Seq(Int \X Nat), NEW i \in 1..Len(list)
  PROVE  {pct \in Percents(list) : Entry(list, pct) = i} = Selecting(list, i)
<1>1. PICK n \in Nat : n = Len(list)
  OBVIOUS
<1>2. PICK W : W = [j \in 0..n |-> WeightUpTo(list, j)]
  OBVIOUS
<1>3. /\ W[0] = 0 /\ \A j \in 0..n : W[j] \in Int
      /\ \A j, k \in 0..n : j <= k => W[j] <= W[k]
      /\ \A j \in 0..n : WeightUpTo(list, j) = W[j]
  BY <1>1, <1>2, WeightsGrow
<1>4. Percents(list) = 0..W[n]
  BY SMTT(30), <1>1, <1>3 DEF Percents, TotalWeight
<1>5. ASSUME NEW pct \in 0..W[n]
      PROVE  Entry(list, pct) = i <=> pct \in Selecting(list, i)
  <2> DEFINE Over(j) == pct < WeightUpTo(list, j)
  <2>0. W[n] \in Int /\ pct \in Int
    <3>1. n \in 0..n
      OBVIOUS
    <3> QED BY <1>3, <3>1
  <2>1. \A j \in 1..(n - 1) : Over(j) <=> pct < W[j]
    BY <1>3
  <2>2. CASE \E j \in 1..(n - 1) : Over(j)
    <3>1. PICK S : S = {j \in 1..(n - 1) : Over(j)}
      OBVIOUS
    <3>2. S \in SUBSET Nat /\ S # {}
      <4>1. \A j \in 1..(n - 1) : j \in Nat
        OBVIOUS
      <4> QED BY <2>2, <3>1, <4>1
    <3>3. PICK m \in S : \A j \in S : m <= j
      BY <3>2, LeastNatural
    <3>4. m \in 1..(n - 1) /\ Over(m) /\ \A j \in 1..(m - 1) : pct >= WeightUpTo(list, j)
      <4>1. m \in 1..(n - 1) /\ Over(m)
        BY <3>1
      <4>2. ASSUME NEW j \in 1..(m - 1)
            PROVE  pct >= WeightUpTo(list, j)
        <5>1. j \in 1..(n - 1) /\ j \notin S /\ j \in 0..n
          BY <3>3, <4>1
        <5>2. ~Over(j)
          BY <3>1, <5>1
        <5>3. WeightUpTo(list, j) \in Int
          BY <1>3, <5>1
        <5> QED BY <2>0, <5>2, <5>3
      <4> QED BY <4>1, <4>2
    <3>5. \A e \in 1..(n - 1) :
            Over(e) /\ (\A j \in 1..(e - 1) : pct >= WeightUpTo(list, j)) => e = m
      <4> SUFFICES ASSUME NEW e \in 1..(n - 1), Over(e),
                          \A j \in 1..(e - 1) : pct >= WeightUpTo(list, j)
                   PROVE  e = m
        OBVIOUS
      <4>1. e \in S /\ m <= e
        BY <3>1, <3>3
      <4>2. ~(m < e)
        <5>1. SUFFICES ASSUME m < e PROVE FALSE
          OBVIOUS
        <5>2. m \in 1..(e - 1) /\ m \in 0..n
          BY <3>4, <5>1
        <5>3. pct >= WeightUpTo(list, m) /\ pct < WeightUpTo(list, m)
          BY <3>4, <5>2
        <5>4. WeightUpTo(list, m) \in Int
          BY <1>3, <5>2
        <5> QED BY <2>0, <5>3, <5>4
      <4> QED BY <3>4, <4>1, <4>2
    <3>6. Entry(list, pct) = m
      <4>1. Entry(list, pct) = CHOOSE e \in 1..(n - 1) :
              Over(e) /\ \A j \in 1..(e - 1) : pct >= WeightUpTo(list, j)
        BY <1>1, <2>2 DEF Entry
      <4> QED BY <3>4, <3>5, <4>1
    <3>7. W[m - 1] <= pct /\ pct < W[m]
      <4>1. m - 1 \in 0..n /\ m \in 0..n
        BY <3>4
      <4>2. m - 1 = 0 \/ m - 1 \in 1..(m - 1)
        BY <3>4
      <4> QED BY <1>3, <3>4, <4>1, <4>2
    <3>8. CASE i = m
      <4>2. i - 1 \in 0..n /\ i \in 0..n
        BY <1>1
      <4>3. W[i] \in Int /\ W[i - 1] \in Int
        BY <1>3, <4>2
      <4>4. W[i - 1] <= pct /\ pct < W[i]
        BY <3>7, <3>8
      <4>5. i < Len(list)
        BY <1>1, <3>4, <3>8
      <4>1. pct \in W[i - 1]..(W[i] - 1) /\ i < Len(list)
        BY <2>0, <4>3, <4>4, <4>5
      <4> QED BY <1>3, <3>6, <3>8, <4>1, <4>2 DEF Selecting
    <3>9. CASE i # m
      <4>1. i - 1 \in 0..n /\ i \in 0..n /\ m - 1 \in 0..n /\ m \in 0..n
        BY SMTT(30), <1>1, <3>4
      <4>2. CASE i < m
        <5>1. W[i] <= W[m - 1] /\ i < n
          BY <1>3, <3>4, <4>1, <4>2
        <5>2. pct \notin W[i - 1]..(W[i] - 1)
          BY <1>3, <3>7, <4>1, <5>1
        <5> QED BY <1>1, <1>3, <3>6, <3>9, <4>1, <5>1, <5>2 DEF Selecting
      <4>3. CASE m < i
        <5>1. W[m] <= W[i - 1]
          BY <1>3, <3>4, <4>1, <4>3
        <5>2. /\ pct \notin W[i - 1]..(W[i] - 1)
              /\ pct \notin W[i - 1]..W[i]
          BY <1>3, <3>7, <4>1, <5>1
        <5>3. pct \notin Selecting(list, i)
          BY <1>3, <4>1, <5>2 DEF Selecting
        <5> QED BY <3>6, <3>9, <5>3
      <4> QED BY <3>4, <3>9, <4>2, <4>3
    <3> QED BY <3>8, <3>9
  <2>3. CASE ~\E j \in 1..(n - 1) : Over(j)
    <3>1. Entry(list, pct) = n
      BY <1>1, <2>3 DEF Entry
    <3>2. n - 1 \in 0..n /\ i \in 0..n /\ i - 1 \in 0..n /\ n \in 0..n
      BY <1>1
    <3>3. W[n - 1] <= pct
      <4>1. n - 1 = 0 \/ n - 1 \in 1..(n - 1)
        BY <1>1
      <4> QED BY <1>3, <2>3, <3>2, <4>1
    <3>4. CASE i = n
      <4>1. pct \in W[i - 1]..W[i]
        BY <1>3, <3>2, <3>3, <3>4
      <4>2. ~(i < Len(list))
        BY <1>1, <3>4
      <4>3. WeightUpTo(list, i - 1) = W[i - 1] /\ WeightUpTo(list, i) = W[i]
        BY <1>3, <3>2
      <4>4. Selecting(list, i) = W[i - 1]..W[i]
        BY <4>2, <4>3 DEF Selecting
      <4> QED BY <3>1, <3>4, <4>1, <4>4
    <3>5. CASE i # n
      <4>1. W[i] <= W[n - 1] /\ i < n
        BY <1>1, <1>3, <3>2, <3>5
      <4>2. pct \notin W[i - 1]..(W[i] - 1)
        BY <1>3, <3>2, <3>3, <4>1
      <4> QED BY <1>1, <1>3, <3>1, <3>2, <3>5, <4>1, <4>2 DEF Selecting
    <3> QED BY <3>4, <3>5
  <2> QED BY <2>2, <2>3
<1>6. Selecting(list, i) \subseteq 0..W[n]
  <2>1. i - 1 \in 0..n /\ i \in 0..n /\ n \in 0..n /\ 0 \in 0..n
    BY <1>1
  <2>2. W[0] <= W[i - 1] /\ W[i] <= W[n] /\ W[i - 1] \in Int /\ W[i] \in Int /\ W[n] \in Int
    BY SMTT(30), <1>1, <1>3, <2>1
  <2>3. PICK a \in Int : a = W[i - 1]
    BY <2>2
  <2>4. PICK b \in Int : b = W[i]
    BY <2>2
  <2>5. Selecting(list, i) = IF i < Len(list) THEN a..(b - 1) ELSE a..b
    BY <1>3, <2>1, <2>3, <2>4 DEF Selecting
  <2>6. 0 <= a /\ b <= W[n] /\ W[n] \in Int
    BY <1>3, <2>2, <2>3, <2>4
  <2> QED BY <2>5, <2>6
<1> QED BY <1>4, <1>5, <1>6

\* Every entry is selected by as many numbers as its weight, the last by one
\* more.
LEMMA DrawFacts ==
  ASSUME NEW list \in Seq(Int \X Nat), NEW i \in 1..Len(list)
  PROVE  Cardinality({pct \in Percents(list) : Entry(list, pct) = i})
         = WeightOf(list, i) + (IF i = Len(list) THEN 1 ELSE 0)
<1>1. PICK a \in Int : a = WeightUpTo(list, i - 1)
  BY WeightStep
<1>2. PICK b \in Int : b = WeightUpTo(list, i)
  BY WeightStep
<1>3. b = a + WeightOf(list, i) /\ WeightOf(list, i) \in Nat
  BY <1>1, <1>2, WeightStep
<1>4. CASE i < Len(list)
  <2>1. Selecting(list, i) = a..(b - 1)
    BY <1>1, <1>2, <1>4 DEF Selecting
  <2>2. Cardinality(a..(b - 1)) = IF a > b - 1 THEN 0 ELSE (b - 1) - a + 1
    BY FS_Interval
  <2>3. Cardinality(a..(b - 1)) = b - a
    BY SMTT(30), <1>3, <2>2
  <2>4. Cardinality({pct \in Percents(list) : Entry(list, pct) = i}) = b - a
    BY <2>1, <2>3, EntryFacts
  <2> QED BY <1>3, <1>4, <2>4
<1>5. CASE i = Len(list)
  <2>1. Selecting(list, i) = a..b
    BY <1>1, <1>2, <1>5 DEF Selecting
  <2>2. Cardinality(a..b) = IF a > b THEN 0 ELSE b - a + 1
    BY FS_Interval
  <2>3. Cardinality(a..b) = b - a + 1
    BY <1>3, <2>2
  <2>4. Cardinality({pct \in Percents(list) : Entry(list, pct) = i}) = b - a + 1
    BY <2>1, <2>3, EntryFacts
  <2> QED BY <1>3, <1>5, <2>4
<1> QED BY <1>4, <1>5

-----------------------------------------------------------------------------
(* Powers of two, as the shifts of Traffic.cpp make them.                  *)

\* The recursion of Pow2.
IsPow2(g) == g = [k \in Nat |-> IF k = 0 THEN 1 ELSE 2 * g[k - 1]]

\* Pow2 is that function.
LEMMA Pow2Is == IsPow2(Pow2)
<1>1. PICK double : double = [x \in Int |-> 2 * x]
  OBVIOUS
<1>2. PICK g : IsOrbit(g, double, 1, Nat)
  BY OrbitExists
<1>3. \A k \in Nat : g[k] = IF k = 0 THEN 1 ELSE double[g[k - 1]]
  BY <1>2 DEF IsOrbit
<1> DEFINE Done == {k \in Nat : g[k] \in Int}
<1>4. 0 \in Done
  BY <1>3
<1>5. ASSUME NEW k \in Nat, k \in Done PROVE k + 1 \in Done
  <2>1. g[k + 1] = double[g[k]] /\ g[k] \in Int
    <3>1. k + 1 # 0 /\ (k + 1) - 1 = k
      OBVIOUS
    <3> QED BY <1>3, <1>5, <3>1
  <2> QED BY <1>1, <2>1
<1>6. \A k \in Nat : k \in Done
  <2> HIDE DEF Done
  <2> QED BY <1>4, <1>5, Induction
<1>7. ASSUME NEW k \in Nat
      PROVE  g[k] = IF k = 0 THEN 1 ELSE 2 * g[k - 1]
  <2>1. k # 0 => k - 1 \in Nat
    OBVIOUS
  <2> QED BY <1>1, <1>3, <1>6, <2>1
<1>8. g = [k \in Nat |-> g[k]]
  BY <1>2 DEF IsOrbit
<1>9. IsPow2(g)
  BY <1>7, <1>8 DEF IsPow2
<1> QED BY <1>9 DEF Pow2, IsPow2

\* Powers of two grow.
LEMMA Pow2Facts ==
  ASSUME NEW k, k \in Nat
  PROVE  /\ Pow2[k] \in Nat /\ k < Pow2[k] /\ Pow2[0] = 1
         /\ Pow2[k + 1] = 2 * Pow2[k]
<1>1. \A i \in Nat : Pow2[i] = IF i = 0 THEN 1 ELSE 2 * Pow2[i - 1]
  BY Pow2Is DEF IsPow2
<1>2. \A i \in Nat : Pow2[i + 1] = 2 * Pow2[i]
  <2> TAKE i \in Nat
  <2>1. i + 1 \in Nat /\ i + 1 # 0 /\ (i + 1) - 1 = i
    OBVIOUS
  <2> QED BY <1>1, <2>1
<1> DEFINE Done == {i \in Nat : Pow2[i] \in Nat /\ i < Pow2[i]}
<1>3. 0 \in Done
  BY <1>1
<1>4. ASSUME NEW i \in Nat, i \in Done PROVE i + 1 \in Done
  BY <1>2, <1>4
<1>5. \A i \in Nat : i \in Done
  <2> HIDE DEF Done
  <2> QED BY <1>3, <1>4, Induction
<1> QED BY <1>1, <1>2, <1>5

\* Shifts add up.
LEMMA Pow2Sum ==
  ASSUME NEW a \in Nat, NEW b, b \in Nat
  PROVE  Pow2[a + b] = Pow2[a] * Pow2[b]
<1> DEFINE Done == {i \in Nat : Pow2[a + i] = Pow2[a] * Pow2[i]}
<1>1. 0 \in Done
  BY Pow2Facts
<1>2. ASSUME NEW i \in Nat, i \in Done PROVE i + 1 \in Done
  <2>1. a + (i + 1) = (a + i) + 1 /\ a + i \in Nat
    OBVIOUS
  <2>2. Pow2[(a + i) + 1] = 2 * Pow2[a + i] /\ Pow2[i + 1] = 2 * Pow2[i]
    BY <2>1, Pow2Facts
  <2>3. PICK p \in Nat, q \in Nat : p = Pow2[a] /\ q = Pow2[i]
    BY Pow2Facts
  <2>4. Pow2[a + i] = p * q
    BY <1>2, <2>3
  <2>5. 2 * (p * q) = p * (2 * q)
    OBVIOUS
  <2> QED BY <2>1, <2>2, <2>3, <2>4, <2>5
<1>3. \A i \in Nat : i \in Done
  <2> HIDE DEF Done
  <2> QED BY <1>1, <1>2, Induction
<1> QED BY <1>3

\* The number of halvings is the logarithm, rounded down.
LEMMA HalvingsFacts ==
  ASSUME NEW n \in Nat \ {0}
  PROVE  Halvings(n) \in Nat /\ Pow2[Halvings(n)] <= n /\ n < Pow2[Halvings(n) + 1]
<1>1. PICK S : S = {k \in Nat : n < Pow2[k + 1]}
  OBVIOUS
<1>2. n \in S
  <2>1. n < Pow2[n] /\ Pow2[n] \in Nat /\ Pow2[n + 1] = 2 * Pow2[n]
    BY Pow2Facts
  <2> QED BY <1>1, <2>1
<1>3. PICK k \in S : \A j \in S : k <= j
  <2>1. S \in SUBSET Nat /\ S # {}
    BY <1>1, <1>2
  <2> QED BY <2>1, LeastNatural
<1>4. Pow2[k] <= n
  <2>1. CASE k = 0
    BY <2>1, Pow2Facts
  <2>2. CASE k # 0
    <3>1. PICK j \in Nat : j = k - 1 /\ j + 1 = k
      <4>1. k \in Nat /\ k - 1 \in Nat /\ (k - 1) + 1 = k
        BY <1>1, <2>2
      <4> QED BY <4>1
    <3>2. j \notin S
      BY <1>3, <3>1
    <3>3. ~(n < Pow2[k]) /\ Pow2[k] \in Nat
      BY <1>1, <3>1, <3>2, Pow2Facts
    <3> QED BY <3>3
  <2> QED BY <2>1, <2>2
<1>5. k \in 0..n
  BY <1>1, <1>2, <1>3
<1>6. PICK h : h = CHOOSE j \in 0..n : Pow2[j] <= n /\ n < Pow2[j + 1]
  OBVIOUS
<1>7. h \in 0..n /\ Pow2[h] <= n /\ n < Pow2[h + 1]
  BY <1>1, <1>3, <1>4, <1>5, <1>6
<1> QED BY <1>6, <1>7 DEF Halvings

-----------------------------------------------------------------------------

\* The halves of the bits of a node number.
LEMMA TransposedFacts ==
  ASSUME NEW nodes \in Nat \ {0}, Halvings(nodes) % 2 = 0, NEW n, n \in 0..(nodes - 1)
  PROVE  /\ Transposed(nodes, n) \in 0..(nodes - 1)
         /\ nodes = Pow2[Halvings(nodes)] => Transposed(nodes, Transposed(nodes, n)) = n
<1>1. PICK b \in Nat : b = Halvings(nodes)
  BY HalvingsFacts
<1>2. PICK s \in Nat : s = b \div 2 /\ b = s + s
  <2>1. b % 2 = 0
    BY <1>1
  <2>2. PICK d : d = b \div 2
    OBVIOUS
  <2>3. d \in Int /\ b = d * 2 + (b % 2)
    BY <2>2, DivisionFacts
  <2>4. d \in Nat /\ b = d + d
    BY <2>1, <2>3
  <2> QED BY <2>2, <2>4
<1>3. PICK h \in Nat \ {0} : h = Pow2[s]
  BY Pow2Facts
<1>4. Pow2[b] = h * h /\ h * h <= nodes
  <2>1. Pow2[s + s] = Pow2[s] * Pow2[s]
    BY Pow2Sum
  <2>2. Pow2[b] <= nodes
    BY <1>1, HalvingsFacts
  <2> QED BY <1>2, <1>3, <2>1, <2>2
<1>5. \A x : Transposed(nodes, x) = ((x \div h) % h) + h * (x % h)
  BY <1>1, <1>2, <1>3 DEF Transposed, Shift
<1>d. PICK q : q = n \div h
  OBVIOUS
<1>7. PICK c : c = n % h
  OBVIOUS
<1>e. q \in Int /\ c \in 0..(h - 1) /\ n = q * h + c /\ n \in Int
  <2>1. n \in Int
    OBVIOUS
  <2> QED BY <1>d, <1>7, <2>1, DivisionFacts
<1>6. PICK a : a = q % h
  OBVIOUS
<1>f. a \in 0..(h - 1)
  BY <1>e, <1>6, DivisionFacts
<1>8. PICK t : t = a + h * c /\ t = Transposed(nodes, n)
  BY <1>5, <1>6, <1>7, <1>d
<1>9. t \in 0..(h * h - 1)
  BY <1>8, <1>e, <1>f
<1>10. t \in 0..(nodes - 1)
  <2>1. h * h \in Nat
    OBVIOUS
  <2> QED BY <1>4, <1>9, <2>1
<1>11. ASSUME nodes = Pow2[b]
       PROVE  Transposed(nodes, t) = n
  <2>1. t = c * h + a
    BY <1>8, <1>e, <1>f
  <2>2. t \div h = c /\ t % h = a
    BY <1>e, <1>f, <2>1, Division
  <2>3. c % h = c
    BY <1>e, SmallRemainder
  <2>4. Transposed(nodes, t) = c + h * a
    BY <1>5, <2>2, <2>3
  <2>6. q \in 0..(h - 1)
    <3>1. n < h * h /\ n >= 0
      BY <1>4, <1>11
    <3>2. ~(q < 0)
      <4> SUFFICES ASSUME q < 0 PROVE FALSE
        OBVIOUS
      <4>1. q * h + h <= 0 * h
        BY <1>e, ProductGrows
      <4> QED BY <1>e, <3>1, <4>1
    <3>3. ~(h - 1 < q)
      <4> SUFFICES ASSUME h - 1 < q PROVE FALSE
        OBVIOUS
      <4>1. (h - 1) * h + h <= q * h
        BY <1>e, ProductGrows
      <4>2. (h - 1) * h + h = h * h
        OBVIOUS
      <4> QED BY <1>e, <3>1, <4>1, <4>2
    <3> QED BY <1>e, <3>2, <3>3
  <2>7. a = q
    BY <1>6, <2>6, SmallRemainder
  <2> QED BY <1>e, <2>4, <2>7
<1> QED BY <1>1, <1>8, <1>10, <1>11

-----------------------------------------------------------------------------
(* Bit reversal.                                                           *)

IsMoves(g, n) ==
  g = [i \in Nat |-> IF i = 0 THEN [dst |-> 0, id |-> n] ELSE MoveBit(g[i - 1])]
\* The loop with a number a of bits that are out already, and b those left.
Split(a, b) == [dst |-> a, id |-> b]

\* The two numbers of the loop.
LEMMA SplitFields == \A a, b : Split(a, b).dst = a /\ Split(a, b).id = b
BY DEF Split

\* One bit goes from id to dst.
LEMMA MoveSplit ==
  ASSUME NEW a \in Nat, NEW b \in Nat
  PROVE  /\ MoveBit(Split(a, b)) = Split(2 * a + (b % 2), b \div 2)
         /\ 2 * a + (b % 2) \in Nat /\ b \div 2 \in Nat
         /\ b % 2 \in 0..1 /\ b = 2 * (b \div 2) + (b % 2)
<1>1. /\ 2 * a + (b % 2) \in Nat /\ b \div 2 \in Nat
      /\ b % 2 \in 0..1 /\ b = 2 * (b \div 2) + (b % 2)
  OBVIOUS
<1> QED BY <1>1 DEF MoveBit, Split

\* y follows x in the loop.
IsMove(x, y) ==
  \E a \in Nat, b \in Nat : x = Split(a, b) /\ y = Split(2 * a + (b % 2), b \div 2)

\* The loop, move by move.
LEMMA MovesAre ==
  ASSUME NEW n, n \in Nat
  PROVE  Moves(n)[0] = Split(0, n) /\ \A i \in Nat : IsMove(Moves(n)[i], Moves(n)[i + 1])
<1>1. PICK T : T = [dst : Nat, id : Nat]
  OBVIOUS
<1>t. /\ \A a \in Nat, b \in Nat : Split(a, b) \in T
      /\ \A x \in T : \E a \in Nat, b \in Nat : x = Split(a, b)
  BY <1>1 DEF Split
<1>2. PICK next : next = [x \in T |-> MoveBit(x)]
  OBVIOUS
<1>3. PICK g : IsOrbit(g, next, Split(0, n), Nat)
  BY OrbitExists
<1>4. \A i \in Nat : g[i] = IF i = 0 THEN Split(0, n) ELSE next[g[i - 1]]
  BY <1>3 DEF IsOrbit
<1>5. \A i \in Nat : i + 1 \in Nat /\ i + 1 # 0 /\ (i + 1) - 1 = i
  OBVIOUS
<1>6. ASSUME NEW x \in T
      PROVE  next[x] = MoveBit(x) /\ MoveBit(x) \in T
  <2>1. PICK a \in Nat, b \in Nat : x = Split(a, b)
    BY <1>t
  <2>2. PICK c \in Nat, d \in Nat : c = 2 * a + (b % 2) /\ d = b \div 2
    BY MoveSplit
  <2>3. MoveBit(x) = Split(c, d)
    BY <2>1, <2>2, MoveSplit
  <2> QED BY <1>t, <1>2, <2>3
<1> DEFINE Done == {i \in Nat : g[i] \in T}
<1>7. 0 \in Done
  <2>1. Split(0, n) \in T
    BY <1>t
  <2> QED BY <1>4, <2>1
<1>8. ASSUME NEW i \in Nat, i \in Done PROVE i + 1 \in Done
  <2>1. g[i + 1] = next[g[i]]
    BY <1>4, <1>5
  <2> QED BY <1>5, <1>6, <1>8, <2>1
<1>9. \A i \in Nat : i \in Done
  <2> HIDE DEF Done
  <2> QED BY <1>7, <1>8, Induction
<1>10. ASSUME NEW i \in Nat
       PROVE  g[i] = IF i = 0 THEN Split(0, n) ELSE MoveBit(g[i - 1])
  <2>1. CASE i = 0
    BY <1>4, <2>1
  <2>2. CASE i # 0
    <3>1. i - 1 \in Nat
      BY <2>2
    <3>2. g[i - 1] \in T
      BY <1>9, <3>1
    <3> QED BY <1>4, <1>6, <2>2, <3>2
  <2> QED BY <2>1, <2>2
<1>11. g = [i \in Nat |-> g[i]]
  BY <1>3 DEF IsOrbit
<1>12. IsMoves(g, n)
  BY <1>10, <1>11 DEF IsMoves, Split
<1>13. IsMoves(Moves(n), n)
  BY <1>12 DEF Moves, IsMoves
<1>14. PICK h : h = Moves(n)
  OBVIOUS
<1>15. \A i \in Nat : h[i] = IF i = 0 THEN Split(0, n) ELSE MoveBit(h[i - 1])
  BY <1>13, <1>14 DEF IsMoves, Split
<1> DEFINE Fit == {i \in Nat : h[i] \in T}
<1>16. 0 \in Fit
  <2>1. Split(0, n) \in T
    BY <1>t
  <2> QED BY <1>15, <2>1
<1>17. ASSUME NEW i \in Nat, i \in Fit PROVE i + 1 \in Fit
  <2>1. h[i + 1] = MoveBit(h[i])
    BY <1>5, <1>15
  <2> QED BY <1>5, <1>6, <1>17, <2>1
<1>18. \A i \in Nat : i \in Fit
  <2> HIDE DEF Fit
  <2> QED BY <1>16, <1>17, Induction
<1>19. ASSUME NEW i \in Nat
       PROVE  IsMove(h[i], h[i + 1])
  <2>1. PICK a \in Nat, b \in Nat : h[i] = Split(a, b)
    BY <1>18, <1>t
  <2>2. h[i + 1] = MoveBit(h[i])
    BY <1>5, <1>15
  <2> QED BY <2>1, <2>2, MoveSplit DEF IsMove
<1>20. h[0] = Split(0, n)
  BY <1>15
<1> QED BY <1>14, <1>19, <1>20

\* What is out has no more bits than were moved, and what is left lost as many.
LEMMA MovesBounds ==
  ASSUME NEW n, n \in Nat, NEW i, i \in Nat
  PROVE  \E a \in Nat, b \in Nat :
           Moves(n)[i] = Split(a, b) /\ a < Pow2[i] /\ b * Pow2[i] <= n
<1>1. PICK h : h = Moves(n)
  OBVIOUS
<1> DEFINE Good(j) == \E a \in Nat, b \in Nat :
                        h[j] = Split(a, b) /\ a < Pow2[j] /\ b * Pow2[j] <= n
           Done == {j \in Nat : Good(j)}
<1>2. Good(0)
  <2>1. h[0] = Split(0, n) /\ Pow2[0] = 1 /\ 0 \in Nat /\ 0 < 1 /\ n * 1 <= n
    <3>1. h[0] = Split(0, n)
      BY <1>1, MovesAre
    <3>2. Pow2[0] = 1
      BY Pow2Facts
    <3>3. n * 1 <= n
      OBVIOUS
    <3> QED BY <3>1, <3>2, <3>3
  <2> QED BY <2>1
<1>3. ASSUME NEW j \in Nat, Good(j) PROVE Good(j + 1)
  <2>1. PICK a \in Nat, b \in Nat : h[j] = Split(a, b) /\ a < Pow2[j] /\ b * Pow2[j] <= n
    BY <1>3
  <2>2. h[j + 1] = Split(2 * a + (b % 2), b \div 2)
    <3>1. PICK c \in Nat, d \in Nat : /\ h[j] = Split(c, d)
                                      /\ h[j + 1] = Split(2 * c + (d % 2), d \div 2)
      <4>1. IsMove(h[j], h[j + 1])
        BY <1>1, MovesAre
      <4> QED BY <4>1 DEF IsMove
    <3>2. Split(c, d) = Split(a, b)
      BY <2>1, <3>1
    <3>3. c = a /\ d = b
      BY <3>2, SplitFields
    <3> QED BY <3>1, <3>3
  <2>3. PICK p \in Nat : p = Pow2[j] /\ Pow2[j + 1] = 2 * p
    BY Pow2Facts
  <2>4. PICK q \in Nat, r \in 0..1 : q = b \div 2 /\ r = b % 2 /\ b = 2 * q + r
    BY MoveSplit
  <2>5. PICK c \in Nat : c = 2 * a + r
    OBVIOUS
  <2>6. c < 2 * p
    BY <2>1, <2>3, <2>5
  <2>7. q * (2 * p) <= n
    <3>1. b * p = q * (2 * p) + r * p
      BY <2>4
    <3>2. r * p \in Nat /\ q * (2 * p) \in Nat
      OBVIOUS
    <3>3. b * p <= n
      BY <2>1, <2>3
    <3> QED BY <3>1, <3>2, <3>3
  <2> QED BY <2>2, <2>3, <2>4, <2>5, <2>6, <2>7
<1>4. 0 \in Done
  <2> HIDE DEF Good
  <2> QED BY <1>2
<1>5. ASSUME NEW j \in Nat, j \in Done PROVE j + 1 \in Done
  <2> HIDE DEF Good
  <2> QED BY <1>3, <1>5
<1>6. i \in Done
  <2> HIDE DEF Done
  <2> QED BY <1>4, <1>5, Induction
<1> QED BY <1>1, <1>6

\* Reversing goes back the way it came, with what is out and what is left
\* exchanged.
LEMMA Mirror ==
  ASSUME NEW b \in Nat, NEW n \in Nat, n < Pow2[b], NEW m, m = Moves(n)[b].dst
  PROVE  Moves(m)[b].dst = n
<1>1. PICK h : h = Moves(n)
  OBVIOUS
<1>2. h[b] = Split(m, 0) /\ m \in Nat
  <2>1. PICK c \in Nat, d \in Nat : h[b] = Split(c, d) /\ d * Pow2[b] <= n
    BY <1>1, MovesBounds
  <2>2. PICK p \in Nat : p = Pow2[b] /\ n < p
    BY Pow2Facts
  <2>3. d = 0
    <3> SUFFICES ASSUME d # 0 PROVE FALSE
      OBVIOUS
    <3>1. PICK e \in Nat : d = e + 1
      <4>1. d - 1 \in Nat /\ d = (d - 1) + 1
        OBVIOUS
      <4> QED BY <4>1
    <3>2. d * p = e * p + p /\ e * p \in Nat
      BY <3>1
    <3> QED BY <2>1, <2>2, <3>2
  <2> QED BY <1>1, <2>1, <2>3, SplitFields
<1>3. PICK g : g = Moves(m)
  OBVIOUS
<1> DEFINE Back(j) == j <= b => \E c \in Nat, d \in Nat :
                                  h[b - j] = Split(c, d) /\ g[j] = Split(d, c)
           Done == {j \in Nat : Back(j)}
<1>4. Back(0)
  <2>1. g[0] = Split(0, m) /\ b - 0 = b
    BY <1>2, <1>3, MovesAre
  <2> QED BY <1>2, <2>1
<1>5. ASSUME NEW j \in Nat, Back(j) PROVE Back(j + 1)
  <2> SUFFICES ASSUME j + 1 <= b
               PROVE  \E c \in Nat, d \in Nat :
                        h[b - (j + 1)] = Split(c, d) /\ g[j + 1] = Split(d, c)
    OBVIOUS
  <2>1. PICK c \in Nat, d \in Nat : h[b - j] = Split(c, d) /\ g[j] = Split(d, c)
    BY <1>5
  <2>2. PICK i \in Nat : i = b - (j + 1) /\ i + 1 = b - j
    <3>1. b - (j + 1) \in Nat /\ (b - (j + 1)) + 1 = b - j
      OBVIOUS
    <3> QED BY <3>1
  <2>3. PICK x \in Nat, y \in Nat : h[i] = Split(x, y) /\ h[i + 1] = Split(2 * x + (y % 2), y \div 2)
    <3>1. IsMove(h[i], h[i + 1])
      BY <1>1, MovesAre
    <3> QED BY <3>1 DEF IsMove
  <2>4. c = 2 * x + (y % 2) /\ d = y \div 2
    <3>1. PICK u \in Nat, v \in Nat : u = 2 * x + (y % 2) /\ v = y \div 2
      BY MoveSplit
    <3>2. Split(u, v) = Split(c, d)
      BY <2>1, <2>2, <2>3, <3>1
    <3>3. u = c /\ v = d
      BY <3>2, SplitFields
    <3> QED BY <3>1, <3>3
  <2>5. g[j + 1] = Split(2 * d + (c % 2), c \div 2)
    <3>1. PICK u \in Nat, v \in Nat : /\ g[j] = Split(u, v)
                                      /\ g[j + 1] = Split(2 * u + (v % 2), v \div 2)
      <4>1. m \in Nat
        BY <1>2
      <4>2. IsMove(g[j], g[j + 1])
        BY <1>3, <4>1, MovesAre
      <4> QED BY <4>2 DEF IsMove
    <3>2. Split(u, v) = Split(d, c)
      BY <2>1, <3>1
    <3>3. u = d /\ v = c
      BY <3>2, SplitFields
    <3> QED BY <3>1, <3>3
  <2>6. c % 2 = y % 2 /\ c \div 2 = x
    <3>1. PICK r : r = y % 2
      OBVIOUS
    <3>2. r \in 0..1 /\ c = x * 2 + r
      BY <2>4, <3>1, MoveSplit
    <3>3. (x * 2 + r) \div 2 = x /\ (x * 2 + r) % 2 = r
      BY <3>2, Division
    <3> QED BY <3>1, <3>2, <3>3
  <2>7. 2 * d + (c % 2) = y
    BY <2>4, <2>6, MoveSplit
  <2>8. g[j + 1] = Split(y, x)
    BY <2>5, <2>6, <2>7
  <2> QED BY <2>2, <2>3, <2>8
<1>6. 0 \in Done
  <2> HIDE DEF Back
  <2> QED BY <1>4
<1>7. ASSUME NEW j \in Nat, j \in Done PROVE j + 1 \in Done
  <2> HIDE DEF Back
  <2> QED BY <1>5, <1>7
<1>8. b \in Done
  <2> HIDE DEF Done
  <2> QED BY <1>6, <1>7, Induction
<1>9. PICK c \in Nat, d \in Nat : h[b - b] = Split(c, d) /\ g[b] = Split(d, c)
  BY <1>8
<1>10. b - b = 0 /\ h[0] = Split(0, n)
  BY <1>1, MovesAre
<1>11. d = n
  BY <1>9, <1>10, SplitFields
<1> QED BY <1>3, <1>9, <1>11, SplitFields

\* Bit reversal gives a node, and on a power of two nodes the reverse of the
\* reverse is the node itself.
LEMMA ReversedFacts ==
  ASSUME NEW nodes \in Nat \ {0}, NEW n, n \in 0..(nodes - 1)
  PROVE  /\ Reversed(nodes, n) \in 0..(nodes - 1)
         /\ nodes = Pow2[Halvings(nodes)] => Reversed(nodes, Reversed(nodes, n)) = n
<1>1. PICK b \in Nat : b = Halvings(nodes) /\ Pow2[b] <= nodes /\ Pow2[b] \in Nat
  BY HalvingsFacts, Pow2Facts
<1>2. n \in Nat
  OBVIOUS
<1>3. PICK m : m = Moves(n)[b].dst
  OBVIOUS
<1>4. m \in Nat /\ m < Pow2[b]
  <2>1. PICK x \in Nat, y \in Nat : Moves(n)[b] = Split(x, y) /\ x < Pow2[b]
    BY <1>2, MovesBounds
  <2> QED BY <1>3, <2>1, SplitFields
<1>5. m \in 0..(nodes - 1)
  BY <1>1, <1>4
<1>6. ASSUME nodes = Pow2[b]
      PROVE  Moves(m)[b].dst = n
  <2>1. n < Pow2[b]
    BY <1>1, <1>6
  <2> QED BY <1>2, <1>3, <2>1, Mirror
<1> QED BY <1>1, <1>3, <1>5, <1>6 DEF Reversed

-----------------------------------------------------------------------------
(* Parts put together.                                                     *)

\* The parts of FlattenSeq, put together one by one.
IsFlat(f, seqs, m) ==
  f = [i \in 1..m |-> IF i = 1 THEN seqs[i] ELSE f[i - 1] \o seqs[i]]

\* The parts can be put together up to any number of them.
LEMMA FlatExists == ASSUME NEW seqs PROVE \A m \in Nat \ {0} : \E f : IsFlat(f, seqs, m)
<1> DEFINE Done == {m \in Nat : \E f : IsFlat(f, seqs, m + 1)}
<1>1. 0 \in Done
  <2>1. PICK f : f = [i \in 1..1 |-> seqs[i]]
    OBVIOUS
  <2>2. \A i \in 1..1 : i = 1
    OBVIOUS
  <2>3. f = [i \in 1..1 |-> IF i = 1 THEN seqs[i] ELSE f[i - 1] \o seqs[i]]
    BY <2>1, <2>2
  <2>4. IsFlat(f, seqs, 0 + 1)
    BY <2>3 DEF IsFlat
  <2> QED BY <2>4
<1>2. ASSUME NEW m \in Nat, m \in Done
      PROVE  m + 1 \in Done
  <2>1. PICK f : IsFlat(f, seqs, m + 1)
    BY <1>2
  <2>2. PICK g : g = [i \in 1..(m + 1 + 1) |->
                        IF i = m + 1 + 1 THEN f[m + 1] \o seqs[m + 1 + 1] ELSE f[i]]
    OBVIOUS
  <2>3. \A i \in 1..(m + 1) : f[i] = IF i = 1 THEN seqs[i] ELSE f[i - 1] \o seqs[i]
    BY <2>1 DEF IsFlat
  <2>4. ASSUME NEW i \in 1..(m + 1 + 1)
        PROVE  g[i] = IF i = 1 THEN seqs[i] ELSE g[i - 1] \o seqs[i]
    <3>1. CASE i = m + 1 + 1
      <4>1. i - 1 = m + 1 /\ i - 1 \in 1..(m + 1 + 1) /\ i # 1
        BY <3>1
      <4>2. g[i - 1] = f[m + 1]
        BY <2>2, <4>1
      <4> QED BY <2>2, <3>1, <4>1, <4>2
    <3>2. CASE i \in 1..(m + 1)
      <4>1. g[i] = f[i] /\ i # m + 1 + 1
        BY <2>2, <3>2
      <4>2. CASE i = 1
        BY <2>3, <3>2, <4>1, <4>2
      <4>3. CASE i # 1
        <5>1. i - 1 \in 1..(m + 1 + 1) /\ i - 1 # m + 1 + 1
          BY <3>2, <4>3
        <5>2. g[i - 1] = f[i - 1]
          BY <2>2, <5>1
        <5> QED BY <2>3, <3>2, <4>1, <4>3, <5>2
      <4> QED BY <4>2, <4>3
    <3> QED BY <3>1, <3>2
  <2>5. g = [i \in 1..(m + 1 + 1) |->
               IF i = 1 THEN seqs[i] ELSE g[i - 1] \o seqs[i]]
    BY <2>2, <2>4
  <2>6. IsFlat(g, seqs, m + 1 + 1)
    BY <2>5 DEF IsFlat
  <2> QED BY <2>6
<1>3. \A m \in Nat : m \in Done
  <2> HIDE DEF Done
  <2> QED BY <1>1, <1>2, Induction
<1> SUFFICES ASSUME NEW m \in Nat \ {0}
             PROVE  \E f : IsFlat(f, seqs, m)
  OBVIOUS
<1>4. m - 1 \in Nat /\ (m - 1) + 1 = m
  OBVIOUS
<1>5. m - 1 \in Done
  BY <1>3, <1>4
<1>6. \E f : IsFlat(f, seqs, (m - 1) + 1)
  BY <1>5
<1> QED BY <1>4, <1>6

\* All that FlattenSeq does: f[i] are the first i sequences, one after the
\* other.
Flattens(f, seqs, T) ==
  /\ f[0] = <<>> /\ FlattenSeq(seqs) = f[Len(seqs)]
  /\ \A i \in 0..Len(seqs) : f[i] \in Seq(T)
  /\ \A i \in 1..Len(seqs) : seqs[i] \in Seq(T) /\ f[i] = f[i - 1] \o seqs[i]

\* FlattenSeq has the elements of all parts, and no others, part after part.
LEMMA FlattenFacts ==
  ASSUME NEW T, NEW seqs \in Seq(Seq(T))
  PROVE  \E f : Flattens(f, seqs, T)
<1>1. PICK m \in Nat : m = Len(seqs)
  OBVIOUS
<1>2. \A i \in 1..m : seqs[i] \in Seq(T)
  BY <1>1
<1>3. CASE m = 0
  <2>1. seqs = <<>>
    BY <1>1, <1>3, EmptySeq
  <2>2. FlattenSeq(seqs) = <<>>
    BY <1>1, <1>3, <2>1 DEF FlattenSeq
  <2>3. PICK f : f = [i \in 0..0 |-> <<>>]
    OBVIOUS
  <2>4. /\ f[0] = <<>> /\ f[0] \in Seq(T)
        /\ \A i \in 0..0 : i = 0
        /\ 1..0 = {}
    BY <2>3
  <2>5. Flattens(f, seqs, T)
    BY <1>1, <1>3, <2>2, <2>4 DEF Flattens
  <2> QED BY <2>5
<1>4. CASE m # 0
  <2>1. PICK g : g = CHOOSE h : IsFlat(h, seqs, m)
    OBVIOUS
  <2>2. IsFlat(g, seqs, m)
    BY <1>4, <2>1, FlatExists
  <2>3. FlattenSeq(seqs) = g[m]
    BY <1>1, <1>4, <2>1 DEF FlattenSeq, IsFlat
  <2>4. PICK f : f = [i \in 0..m |-> IF i = 0 THEN <<>> ELSE g[i]]
    OBVIOUS
  <2>5. f[0] = <<>> /\ FlattenSeq(seqs) = f[m] /\ \A i \in 1..m : f[i] = g[i]
    BY <1>4, <2>3, <2>4
  <2>6. \A i \in 1..m : g[i] = IF i = 1 THEN seqs[i] ELSE g[i - 1] \o seqs[i]
    BY <2>2 DEF IsFlat
  <2>7. ASSUME NEW i \in 1..m
        PROVE  f[i] = f[i - 1] \o seqs[i]
    <3>1. CASE i = 1
      <4>1. seqs[1] \in Seq(T) /\ i - 1 = 0
        BY <1>2, <3>1
      <4>2. <<>> \o seqs[1] = seqs[1]
        BY <4>1, ConcatEmptySeq
      <4> QED BY <2>5, <2>6, <3>1, <4>1, <4>2
    <3>2. CASE i # 1
      <4>1. i - 1 \in 1..m
        BY <3>2
      <4> QED BY <2>5, <2>6, <3>2, <4>1
    <3> QED BY <3>1, <3>2
  <2>8. \A i \in 0..m : f[i] \in Seq(T)
    <3> DEFINE Done == {i \in Nat : i <= m => f[i] \in Seq(T)}
    <3>1. 0 \in Done
      BY <2>5, EmptySeq
    <3>2. ASSUME NEW i \in Nat, i \in Done
          PROVE  i + 1 \in Done
      <4> SUFFICES ASSUME i + 1 <= m PROVE f[i + 1] \in Seq(T)
        OBVIOUS
      <4>1. f[i] \in Seq(T) /\ i + 1 \in 1..m /\ (i + 1) - 1 = i
        BY <3>2
      <4>2. f[i + 1] = f[i] \o seqs[i + 1] /\ seqs[i + 1] \in Seq(T)
        BY <1>2, <2>7, <4>1
      <4> QED BY <4>1, <4>2, ConcatProperties
    <3>3. \A i \in Nat : i \in Done
      <4> HIDE DEF Done
      <4> QED BY <3>1, <3>2, Induction
    <3> QED BY <3>3
  <2>9. Flattens(f, seqs, T)
    BY <1>1, <1>2, <2>5, <2>7, <2>8 DEF Flattens
  <2> QED BY <2>9
<1> QED BY <1>3, <1>4

\* The elements of two sequences, one after the other.
LEMMA ConcatElements ==
  ASSUME NEW T, NEW s \in Seq(T), NEW t \in Seq(T)
  PROVE  ToSet(s \o t) = ToSet(s) \cup ToSet(t)
<1>1. PICK u : u = s \o t
  OBVIOUS
<1>2. /\ u \in Seq(T) /\ Len(u) = Len(s) + Len(t)
      /\ \A i \in 1..Len(s) : u[i] = s[i]
      /\ \A i \in 1..Len(t) : u[Len(s) + i] = t[i]
  BY <1>1
<1>3. DOMAIN u = 1..Len(u) /\ DOMAIN s = 1..Len(s) /\ DOMAIN t = 1..Len(t)
  BY <1>2
<1>4. ASSUME NEW i \in DOMAIN u
      PROVE  u[i] \in ToSet(s) \cup ToSet(t)
  <2>1. CASE i <= Len(s)
    <3>1. i \in DOMAIN s /\ u[i] = s[i]
      BY <1>2, <1>3, <2>1
    <3> QED BY <3>1 DEF ToSet
  <2>2. CASE i > Len(s)
    <3>1. PICK j \in DOMAIN t : i = Len(s) + j
      <4>1. i - Len(s) \in DOMAIN t /\ i = Len(s) + (i - Len(s))
        BY <1>2, <1>3, <2>2
      <4> QED BY <4>1
    <3>2. u[i] = t[j]
      BY <1>2, <1>3, <3>1
    <3> QED BY <3>2 DEF ToSet
  <2> QED BY <1>3, <2>1, <2>2
<1>5. ASSUME NEW i \in DOMAIN s
      PROVE  s[i] \in ToSet(u)
  <2>1. i \in DOMAIN u /\ u[i] = s[i]
    BY <1>2, <1>3
  <2> QED BY <2>1 DEF ToSet
<1>6. ASSUME NEW i \in DOMAIN t
      PROVE  t[i] \in ToSet(u)
  <2>1. PICK j : j = Len(s) + i
    OBVIOUS
  <2>2. j \in DOMAIN u /\ u[j] = t[i]
    BY <1>2, <1>3, <2>1
  <2> QED BY <2>2 DEF ToSet
<1>7. ToSet(u) = ToSet(s) \cup ToSet(t)
  BY <1>4, <1>5, <1>6 DEF ToSet
<1> QED BY <1>1, <1>7

\* The elements of a sequence of sequences.
LEMMA FlattenElements ==
  ASSUME NEW T, NEW seqs \in Seq(Seq(T))
  PROVE  /\ FlattenSeq(seqs) \in Seq(T)
         /\ ToSet(FlattenSeq(seqs)) = UNION {ToSet(seqs[i]) : i \in 1..Len(seqs)}
<1>1. PICK f : Flattens(f, seqs, T)
  BY FlattenFacts
<1>2. PICK m \in Nat : m = Len(seqs)
  OBVIOUS
<1> DEFINE Done == {n \in Nat : n <= m =>
                      ToSet(f[n]) = UNION {ToSet(seqs[i]) : i \in 1..n}}
<1>4. 0 \in Done
  <2>1. f[0] = <<>> /\ 1..0 = {}
    BY <1>1 DEF Flattens
  <2>2. ToSet(<<>>) = {}
    BY DEF ToSet
  <2> QED BY <2>1, <2>2
<1>5. ASSUME NEW n \in Nat, n \in Done
      PROVE  n + 1 \in Done
  <2> SUFFICES ASSUME n + 1 <= m
               PROVE  ToSet(f[n + 1]) = UNION {ToSet(seqs[i]) : i \in 1..(n + 1)}
    OBVIOUS
  <2>1. n + 1 \in 1..m /\ (n + 1) - 1 = n /\ n \in 0..m /\ n <= m
    OBVIOUS
  <2>2. /\ f[n + 1] = f[n] \o seqs[n + 1]
        /\ f[n] \in Seq(T) /\ seqs[n + 1] \in Seq(T)
    BY <1>1, <1>2, <2>1 DEF Flattens
  <2>3. ToSet(f[n + 1]) = ToSet(f[n]) \cup ToSet(seqs[n + 1])
    BY <2>2, ConcatElements
  <2>4. ToSet(f[n]) = UNION {ToSet(seqs[i]) : i \in 1..n}
    BY <1>5, <2>1
  <2>5. \A i : i \in 1..(n + 1) <=> i \in 1..n \/ i = n + 1
    OBVIOUS
  <2> QED BY <2>3, <2>4, <2>5
<1>6. \A n \in Nat : n \in Done
  <2> HIDE DEF Done
  <2> QED BY <1>4, <1>5, Induction
<1>7. ToSet(f[m]) = UNION {ToSet(seqs[i]) : i \in 1..m}
  <2>1. m \in Done
    BY <1>6
  <2> QED BY <2>1
<1>8. m \in 0..m
  OBVIOUS
<1> QED BY <1>1, <1>2, <1>7, <1>8 DEF Flattens

\* The length of a sequence of sequences: sum[i] is that of the first i.
LEMMA FlattenLength ==
  ASSUME NEW T, NEW seqs \in Seq(Seq(T)), NEW sum,
         sum[0] = 0, \A i \in 1..Len(seqs) : sum[i] = sum[i - 1] + Len(seqs[i])
  PROVE  Len(FlattenSeq(seqs)) = sum[Len(seqs)]
<1>1. PICK f : Flattens(f, seqs, T)
  BY FlattenFacts
<1>2. PICK m \in Nat : m = Len(seqs)
  OBVIOUS
<1> DEFINE Done == {n \in Nat : n <= m => Len(f[n]) = sum[n]}
<1>3. 0 \in Done
  BY <1>1 DEF Flattens
<1>4. ASSUME NEW n \in Nat, n \in Done
      PROVE  n + 1 \in Done
  <2> SUFFICES ASSUME n + 1 <= m PROVE Len(f[n + 1]) = sum[n + 1]
    OBVIOUS
  <2>1. n + 1 \in 1..m /\ (n + 1) - 1 = n /\ n \in 0..m /\ n <= m
    OBVIOUS
  <2>2. /\ f[n + 1] = f[n] \o seqs[n + 1]
        /\ f[n] \in Seq(T) /\ seqs[n + 1] \in Seq(T)
    BY <1>1, <1>2, <2>1 DEF Flattens
  <2>3. Len(f[n]) = sum[n] /\ sum[n + 1] = sum[n] + Len(seqs[n + 1])
    BY <1>2, <1>4, <2>1
  <2>4. PICK s \in Seq(T) : s = f[n]
    BY <2>2
  <2>5. PICK t \in Seq(T) : t = seqs[n + 1]
    BY <2>2
  <2>6. Len(s \o t) = Len(s) + Len(t)
    OBVIOUS
  <2> QED BY <2>2, <2>3, <2>4, <2>5, <2>6
<1>5. m \in Done
  <2> HIDE DEF Done
  <2> QED BY <1>3, <1>4, Induction
<1> QED BY <1>1, <1>2, <1>5 DEF Flattens

\* A sequence of numbers that grows.
Increasing(seq) == \A i, j \in DOMAIN seq : i < j => seq[i] < seq[j]

\* A growing sequence of numbers grows on with a greater one.
LEMMA AppendGreater ==
  ASSUME NEW old \in Seq(Nat), NEW r \in Nat, NEW new,
         \A i, j \in DOMAIN old : i < j => old[i] < old[j],
         \A x \in ToSet(old) : x < r,
         new = old \o [i \in 1..1 |-> r]
  PROVE  /\ new \in Seq(Nat)
         /\ \A i, j \in DOMAIN new : i < j => new[i] < new[j]
         /\ ToSet(new) = ToSet(old) \cup {r}
<1>1. PICK one : one = [i \in 1..1 |-> r]
  OBVIOUS
<1>2. one \in Seq(Nat) /\ Len(one) = 1 /\ one[1] = r /\ DOMAIN one = 1..1
  <2>1. one \in [1..1 -> Nat] /\ 1 \in Nat
    BY <1>1
  <2> QED BY <1>1, <2>1
<1>3. ToSet(one) = {r}
  BY <1>2 DEF ToSet
<1>4. new = old \o one
  BY <1>1
<1>5. ToSet(new) = ToSet(old) \cup {r}
  BY <1>2, <1>3, <1>4, ConcatElements
<1>6. PICK n \in Nat : n = Len(old)
  OBVIOUS
<1>7. /\ new \in Seq(Nat) /\ Len(new) = n + 1
      /\ \A i \in 1..n : new[i] = old[i]
      /\ new[n + 1] = r
  BY <1>2, <1>4, <1>6
<1>8. ASSUME NEW i \in 1..(n + 1), NEW j \in 1..(n + 1), i < j
      PROVE  new[i] < new[j]
  <2>1. i \in 1..n /\ DOMAIN old = 1..n
    BY <1>6, <1>8
  <2>2. new[i] = old[i] /\ old[i] \in ToSet(old)
    BY <1>7, <2>1 DEF ToSet
  <2>3. CASE j = n + 1
    BY <1>7, <2>2, <2>3
  <2>4. CASE j # n + 1
    <3>1. j \in 1..n
      BY <2>4
    <3> QED BY <1>7, <1>8, <2>1, <2>2, <3>1
  <2> QED BY <2>3, <2>4
<1>9. DOMAIN new = 1..(n + 1)
  BY <1>7
<1> QED BY <1>5, <1>7, <1>8, <1>9

\* One more element of a sequence.
LEMMA OneMore ==
  ASSUME NEW T, NEW old, old \in Seq(T), NEW x, x \in T,
         NEW new, new = old \o [i \in 1..1 |-> x]
  PROVE  /\ new \in Seq(T) /\ Len(new) = Len(old) + 1 /\ DOMAIN new = 1..(Len(old) + 1)
         /\ new = [i \in 1..(Len(old) + 1) |-> IF i = Len(old) + 1 THEN x ELSE old[i]]
<1>1. PICK one : one = [i \in 1..1 |-> x]
  OBVIOUS
<1>2. one \in Seq(T) /\ Len(one) = 1 /\ one[1] = x
  <2>1. one \in [1..1 -> T] /\ 1 \in Nat
    BY <1>1
  <2> QED BY <1>1, <2>1
<1>3. PICK l \in Nat : l = Len(old)
  OBVIOUS
<1>4. /\ new \in Seq(T) /\ Len(new) = Len(old) + Len(one)
      /\ \A i \in 1..Len(new) : new[i] = IF i <= Len(old) THEN old[i] ELSE one[i - Len(old)]
  <2>1. new = old \o one
    BY <1>1
  <2> QED BY <1>2, <2>1, ConcatProperties
<1>5. Len(new) = l + 1 /\ DOMAIN new = 1..(l + 1) /\ new = [i \in 1..(l + 1) |-> new[i]]
  BY <1>2, <1>3, <1>4
<1>6. ASSUME NEW i \in 1..(l + 1)
      PROVE  new[i] = IF i = l + 1 THEN x ELSE old[i]
  <2>1. new[i] = IF i <= l THEN old[i] ELSE one[i - l]
    BY <1>3, <1>4, <1>5
  <2>2. CASE i = l + 1
    <3>1. i - l = 1 /\ ~(i <= l)
      BY <2>2
    <3> QED BY <1>2, <2>1, <2>2, <3>1
  <2>3. CASE i # l + 1
    <3>1. i <= l
      BY <2>3
    <3> QED BY <2>1, <2>3, <3>1
  <2> QED BY <2>2, <2>3
<1> QED BY <1>3, <1>4, <1>5, <1>6

-----------------------------------------------------------------------------
(* Sequences of parts that are empty or have one element.                  *)

\* at are the places of the parts with an element, up to n.
Picks(at, S, x, n, flat) ==
  /\ at \in Seq(Nat) /\ Increasing(at) /\ ToSet(at) = S \cap (1..n)
  /\ flat = [j \in 1..Len(at) |-> x[at[j]]]

\* One more part with an element.
LEMMA PickOne ==
  ASSUME NEW T, NEW n \in Nat, NEW S, NEW x, \A i \in S \cap (1..(n + 1)) : x[i] \in T,
         NEW at, NEW flat, Picks(at, S, x, n, flat), n + 1 \in S,
         NEW new, new = flat \o [j \in 1..1 |-> x[n + 1]]
  PROVE  \E more : Picks(more, S, x, n + 1, new)
<1>1. at \in Seq(Nat) /\ Increasing(at) /\ ToSet(at) = S \cap (1..n)
  BY DEF Picks
<1>2. PICK l \in Nat : l = Len(at) /\ DOMAIN at = 1..l
  BY <1>1
<1>3. flat = [j \in 1..l |-> x[at[j]]]
  BY <1>2 DEF Picks
<1>4. flat \in Seq(T) /\ Len(flat) = l
  <2>1. ASSUME NEW j \in 1..l
        PROVE  x[at[j]] \in T
    <3>1. at[j] \in ToSet(at)
      BY <1>2 DEF ToSet
    <3>2. at[j] \in S \cap (1..(n + 1))
      BY <1>1, <3>1
    <3> QED BY <3>2
  <2>2. flat \in [1..l -> T]
    BY <1>3, <2>1
  <2> QED BY <1>3, <2>2
<1>5. PICK a : a = n + 1
  OBVIOUS
<1>6. a \in Nat /\ x[a] \in T /\ a \in S /\ \A y \in ToSet(at) : y < a
  <2>1. n + 1 \in S \cap (1..(n + 1))
    OBVIOUS
  <2>2. a \in Nat /\ x[a] \in T /\ a \in S
    BY <1>5, <2>1
  <2>3. \A y \in 1..n : y < a
    BY <1>5
  <2> QED BY <1>1, <2>2, <2>3
<1>7. PICK more : more = at \o [i \in 1..1 |-> a]
  OBVIOUS
<1>8. more \in Seq(Nat) /\ Increasing(more) /\ ToSet(more) = ToSet(at) \cup {a}
  BY <1>1, <1>6, <1>7, AppendGreater DEF Increasing
<1>9. /\ Len(more) = l + 1
      /\ more = [i \in 1..(l + 1) |-> IF i = l + 1 THEN a ELSE at[i]]
  BY <1>1, <1>2, <1>6, <1>7, OneMore
<1>10. new = [i \in 1..(l + 1) |-> IF i = l + 1 THEN x[a] ELSE flat[i]]
  <2>1. new = flat \o [j \in 1..1 |-> x[a]]
    BY <1>5
  <2> QED BY <1>4, <1>6, <2>1, OneMore
<1>11. new = [j \in 1..(l + 1) |-> x[more[j]]]
  <2>1. ASSUME NEW j \in 1..(l + 1)
        PROVE  new[j] = x[more[j]]
    <3>1. CASE j = l + 1
      BY <1>9, <1>10, <3>1
    <3>2. CASE j # l + 1
      <4>1. j \in 1..l
        BY <3>2
      <4> QED BY <1>3, <1>9, <1>10, <3>2, <4>1
    <3> QED BY <3>1, <3>2
  <2> QED BY <1>10, <2>1
<1>12. ToSet(more) = S \cap (1..(n + 1))
  <2>1. \A i : i \in 1..(n + 1) <=> i \in 1..n \/ i = a
    BY <1>5
  <2> QED BY <1>1, <1>6, <1>8, <2>1
<1>13. new = [j \in 1..Len(more) |-> x[more[j]]]
  BY <1>9, <1>11
<1>14. Picks(more, S, x, n + 1, new)
  BY <1>8, <1>12, <1>13 DEF Picks
<1> QED BY <1>14

\* One more part without an element.
LEMMA PickNone ==
  ASSUME NEW n \in Nat, NEW S, NEW x, NEW at, NEW flat, Picks(at, S, x, n, flat), n + 1 \notin S
  PROVE  Picks(at, S, x, n + 1, flat)
<1>1. \A i : i \in 1..(n + 1) <=> i \in 1..n \/ i = n + 1
  OBVIOUS
<1>2. S \cap (1..(n + 1)) = S \cap (1..n)
  BY <1>1
<1> QED BY <1>2 DEF Picks

\* FlattenSeq picks the elements of the parts that have one, in their order.
LEMMA FlattenSingles ==
  ASSUME NEW T, NEW l \in Nat, NEW S, NEW x, \A i \in S \cap (1..l) : x[i] \in T,
         NEW seqs, seqs = [i \in 1..l |-> IF i \in S THEN [j \in 1..1 |-> x[i]] ELSE <<>>]
  PROVE  \E at : Picks(at, S, x, l, FlattenSeq(seqs))
<1>1. ASSUME NEW i \in 1..l
      PROVE  seqs[i] \in Seq(T)
  <2>1. CASE i \in S
    <3>1. PICK one : one = [j \in 1..1 |-> x[i]]
      OBVIOUS
    <3>2. one \in [1..1 -> T] /\ 1 \in Nat
      BY <2>1, <3>1
    <3>3. one \in Seq(T)
      BY <3>1, <3>2
    <3> QED BY <2>1, <3>1, <3>3
  <2>2. CASE i \notin S
    <3>1. seqs[i] = <<>>
      BY <2>2
    <3> QED BY <3>1, EmptySeq
  <2> QED BY <2>1, <2>2
<1>2. seqs \in Seq(Seq(T)) /\ Len(seqs) = l
  <2>1. seqs \in [1..l -> Seq(T)]
    BY <1>1
  <2> QED BY <2>1
<1>3. PICK f : Flattens(f, seqs, T)
  BY <1>2, FlattenFacts
<1>4. /\ f[0] = <<>> /\ FlattenSeq(seqs) = f[l]
      /\ \A i \in 0..l : f[i] \in Seq(T)
      /\ \A i \in 1..l : f[i] = f[i - 1] \o seqs[i]
  BY <1>2, <1>3 DEF Flattens
<1> DEFINE Done == {n \in Nat : n <= l => \E at : Picks(at, S, x, n, f[n])}
<1>5. 0 \in Done
  <2>1. PICK at : at = <<>>
    OBVIOUS
  <2>2. at \in Seq(Nat) /\ Len(at) = 0 /\ DOMAIN at = {} /\ Increasing(at) /\ ToSet(at) = {}
    BY <2>1, EmptySeq DEF Increasing, ToSet
  <2>3. f[0] = [j \in 1..0 |-> x[at[j]]] /\ 1..0 = {}
    BY <1>4
  <2> QED BY <2>2, <2>3 DEF Picks
<1>6. ASSUME NEW n \in Nat, n \in Done
      PROVE  n + 1 \in Done
  <2> SUFFICES ASSUME n + 1 <= l PROVE \E at : Picks(at, S, x, n + 1, f[n + 1])
    OBVIOUS
  <2>1. n <= l /\ n + 1 \in 1..l /\ (n + 1) - 1 = n /\ n \in 0..l
    OBVIOUS
  <2>2. PICK at : Picks(at, S, x, n, f[n])
    BY <1>6, <2>1
  <2>3. f[n + 1] = f[n] \o seqs[n + 1] /\ f[n] \in Seq(T)
    BY <1>4, <2>1
  <2>4. CASE n + 1 \in S
    <3>1. f[n + 1] = f[n] \o [j \in 1..1 |-> x[n + 1]]
      BY <2>1, <2>3, <2>4
    <3>2. \A i \in S \cap (1..(n + 1)) : x[i] \in T
      <4>1. \A i \in 1..(n + 1) : i \in 1..l
        OBVIOUS
      <4> QED BY <4>1
    <3> QED BY <2>2, <2>4, <3>1, <3>2, PickOne
  <2>5. CASE n + 1 \notin S
    <3>1. seqs[n + 1] = <<>>
      BY <2>1, <2>5
    <3>2. f[n + 1] = f[n]
      BY <2>3, <3>1, ConcatEmptySeq
    <3>3. Picks(at, S, x, n + 1, f[n])
      BY <2>2, <2>5, PickNone
    <3> QED BY <3>2, <3>3
  <2> QED BY <2>4, <2>5
<1>7. l \in Done
  <2> HIDE DEF Done
  <2> QED BY <1>5, <1>6, Induction
<1>8. \E at : Picks(at, S, x, l, f[l])
  BY <1>7
<1> QED BY <1>4, <1>8

\* The only element of a sequence.
LEMMA OnlyOne ==
  ASSUME NEW at, at \in Seq(Nat), Increasing(at), NEW y, ToSet(at) = {y}
  PROVE  Len(at) = 1 /\ at[1] = y
<1>1. PICK l \in Nat : l = Len(at) /\ DOMAIN at = 1..l
  OBVIOUS
<1>2. ASSUME NEW i \in 1..l
      PROVE  at[i] = y /\ at[i] \in Nat
  <2>1. at[i] \in ToSet(at)
    BY <1>1 DEF ToSet
  <2> QED BY <1>1, <2>1
<1>3. l # 0
  <2> SUFFICES ASSUME l = 0 PROVE FALSE
    OBVIOUS
  <2>1. \A i \in DOMAIN at : FALSE
    BY <1>1
  <2> QED BY <2>1 DEF ToSet
<1>4. ~(l > 1)
  <2> SUFFICES ASSUME l > 1 PROVE FALSE
    OBVIOUS
  <2>1. 1 \in 1..l /\ 2 \in 1..l /\ 1 < 2
    OBVIOUS
  <2>2. at[1] < at[2]
    BY <1>1, <2>1 DEF Increasing
  <2> QED BY <1>2, <2>1, <2>2
<1>5. l = 1 /\ 1 \in 1..l
  BY <1>3, <1>4
<1> QED BY <1>1, <1>2, <1>5

\* A sequence of one element.
LEMMA Single == ASSUME NEW x PROVE <<x>> = [j \in 1..1 |-> x]
<1>1. \A j \in 1..1 : j = 1
  OBVIOUS
<1>2. PICK s : s = <<x>>
  OBVIOUS
<1>3. s \in Seq({x}) /\ Len(s) = 1 /\ s[1] = x
  BY <1>2
<1>4. s = [j \in 1..1 |-> s[j]]
  BY <1>3
<1>5. \A j \in 1..1 : s[j] = x
  BY <1>1, <1>3
<1> QED BY <1>2, <1>4, <1>5

-----------------------------------------------------------------------------
(* Sets that are put in order.                                             *)

\* before[x] are the elements before x in a strict total order of S.
IsOrder(S, before) ==
  /\ \A x \in S : before[x] \subseteq S /\ x \notin before[x]
  /\ \A x, y \in S : x # y => x \in before[y] \/ y \in before[x]
  /\ \A x, y, z \in S : x \in before[y] /\ y \in before[z] => x \in before[z]
\* p lists the elements of S in this order.
Lists(p, c, S, before) ==
  /\ p \in [1..c -> S] /\ S = {p[i] : i \in 1..c}
  /\ \A i, j \in 1..c : i < j => p[i] \in before[p[j]]

\* The size of the image of an interval.
LEMMA ImageSize ==
  ASSUME NEW p, NEW m \in Nat, \A i, j \in 1..m : p[i] = p[j] => i = j
  PROVE  Cardinality({p[i] : i \in 1..m}) = m
<1>1. PICK T : T = {p[i] : i \in 1..m}
  OBVIOUS
<1>2. PICK f : f = [i \in 1..m |-> p[i]]
  OBVIOUS
<1>3. f \in Bijection(1..m, T)
  BY <1>1, <1>2 DEF Bijection, Injection, Surjection, IsInjective
<1>4. IsFiniteSet(1..m) /\ Cardinality(1..m) = m
  <2>1. Cardinality(1..m) = IF 1 > m THEN 0 ELSE m - 1 + 1
    BY FS_Interval
  <2>2. IsFiniteSet(1..m)
    BY FS_Interval
  <2> QED BY <2>1, <2>2
<1>5. ExistsBijection(1..m, T)
  BY <1>3 DEF ExistsBijection
<1> QED BY <1>1, <1>4, <1>5, FS_Bijection

\* What is earlier has fewer elements before it.
LEMMA RankLess ==
  ASSUME NEW S, IsFiniteSet(S), NEW before, IsOrder(S, before),
         NEW x \in S, NEW y \in S, x \in before[y]
  PROVE  /\ Cardinality(before[x]) \in Nat /\ Cardinality(before[y]) \in Nat
         /\ Cardinality(before[x]) < Cardinality(before[y])
<1>1. before[x] \subseteq before[y] /\ before[x] # before[y] /\ before[y] \subseteq S
  BY DEF IsOrder
<1>2. IsFiniteSet(before[y])
  BY <1>1, FS_Subset
<1>3. IsFiniteSet(before[x]) /\ Cardinality(before[x]) <= Cardinality(before[y])
      /\ (Cardinality(before[y]) = Cardinality(before[x]) => before[y] = before[x])
  <2>1. before[x] \in SUBSET before[y]
    BY <1>1
  <2> QED BY <1>2, <2>1, FS_Subset
<1>4. Cardinality(before[x]) \in Nat /\ Cardinality(before[y]) \in Nat
  BY <1>2, <1>3, FS_CardinalityType
<1> QED BY <1>1, <1>3, <1>4

\* There is only one order.
LEMMA InOrderIs ==
  ASSUME NEW S, NEW before, IsOrder(S, before), NEW c \in Nat, NEW p, Lists(p, c, S, before)
  PROVE  IsFiniteSet(S) /\ Cardinality(S) = c /\ InOrder(S, before) = p
<1>1. /\ p \in [1..c -> S] /\ S = {p[i] : i \in 1..c}
      /\ \A i, j \in 1..c : i < j => p[i] \in before[p[j]]
  BY DEF Lists
<1>2. \A i, j \in 1..c : p[i] = p[j] => i = j
  <2> SUFFICES ASSUME NEW i \in 1..c, NEW j \in 1..c, i < j
               PROVE  p[i] # p[j]
    OBVIOUS
  <2> QED BY <1>1 DEF IsOrder
<1>3. Cardinality(S) = c
  BY <1>1, <1>2, ImageSize
<1>4. IsFiniteSet(S)
  <2>1. PICK f : f = [i \in 1..c |-> p[i]]
    OBVIOUS
  <2>2. f \in Surjection(1..c, S)
    BY <1>1, <2>1 DEF Surjection
  <2>3. IsFiniteSet(1..c)
    BY FS_Interval
  <2> QED BY <2>2, <2>3, FS_Surjection
<1>5. ASSUME NEW i \in 1..c
      PROVE  Cardinality(before[p[i]]) = i - 1
  <2>1. PICK m \in Nat : m = i - 1
    OBVIOUS
  <2>2. \A j \in 1..m : j \in 1..c /\ j < i
    BY <2>1
  <2>3. \A j \in 1..c : j < i => j \in 1..m
    BY <2>1
  <2>4. \A j \in 1..m : p[j] \in before[p[i]]
    BY <1>1, <2>2
  <2>5. ASSUME NEW y \in before[p[i]]
        PROVE  \E j \in 1..m : y = p[j]
    <3>1. p[i] \in S
      BY <1>1
    <3>2. y \in S
      BY <3>1 DEF IsOrder
    <3>3. PICK j \in 1..c : y = p[j]
      BY <1>1, <3>2
    <3>4. j # i
      BY <3>1, <3>3 DEF IsOrder
    <3>5. ~(i < j)
      <4> SUFFICES ASSUME i < j PROVE FALSE
        OBVIOUS
      <4>1. p[i] \in before[y]
        BY <1>1, <3>3
      <4>2. p[i] \in before[p[i]]
        BY <3>1, <3>2, <4>1 DEF IsOrder
      <4> QED BY <3>1, <4>2 DEF IsOrder
    <3>6. j \in 1..m
      BY <2>3, <3>4, <3>5
    <3> QED BY <3>3, <3>6
  <2>6. before[p[i]] = {p[j] : j \in 1..m}
    BY <2>4, <2>5
  <2>7. Cardinality({p[j] : j \in 1..m}) = m
    <3>1. \A a, b \in 1..m : p[a] = p[b] => a = b
      BY <1>2, <2>2
    <3> QED BY <3>1, ImageSize
  <2> QED BY <2>1, <2>6, <2>7
<1>6. ASSUME NEW i \in 1..c
      PROVE  (CHOOSE x \in S : Cardinality(before[x]) = i - 1) = p[i]
  <2>1. p[i] \in S /\ Cardinality(before[p[i]]) = i - 1
    BY <1>1, <1>5
  <2>2. ASSUME NEW x \in S, Cardinality(before[x]) = i - 1
        PROVE  x = p[i]
    <3>1. PICK j \in 1..c : x = p[j]
      BY <1>1
    <3>2. Cardinality(before[x]) = j - 1
      BY <1>5, <3>1
    <3>3. i = j
      BY <2>2, <3>2
    <3> QED BY <3>1, <3>3
  <2> QED BY <2>1, <2>2
<1>7. InOrder(S, before) = [i \in 1..c |-> p[i]]
  BY <1>3, <1>6 DEF InOrder
<1> QED BY <1>1, <1>3, <1>4, <1>7

\* And there is one.
LEMMA InOrderLists ==
  ASSUME NEW S, IsFiniteSet(S), NEW before, IsOrder(S, before)
  PROVE  /\ Cardinality(S) \in Nat
         /\ Lists(InOrder(S, before), Cardinality(S), S, before)
<1>1. PICK c \in Nat : c = Cardinality(S)
  BY FS_CardinalityType
<1>2. PICK r : r = [x \in S |-> Cardinality(before[x]) + 1]
  OBVIOUS
<1>3. ASSUME NEW x \in S
      PROVE  r[x] \in 1..c
  <2>1. before[x] \in SUBSET S /\ before[x] # S
    BY DEF IsOrder
  <2>2. IsFiniteSet(before[x]) /\ Cardinality(before[x]) <= Cardinality(S)
        /\ (Cardinality(S) = Cardinality(before[x]) => S = before[x])
    BY <2>1, FS_Subset
  <2>3. Cardinality(before[x]) \in Nat
    BY <2>2, FS_CardinalityType
  <2>4. Cardinality(before[x]) + 1 \in 1..c
    BY <1>1, <2>1, <2>2, <2>3
  <2> QED BY <1>2, <2>4
<1>4. ASSUME NEW x \in S, NEW y \in S, x \in before[y]
      PROVE  r[x] < r[y]
  <2>1. /\ Cardinality(before[x]) \in Nat /\ Cardinality(before[y]) \in Nat
        /\ Cardinality(before[x]) < Cardinality(before[y])
    BY <1>4, RankLess
  <2>2. Cardinality(before[x]) + 1 < Cardinality(before[y]) + 1
    BY <2>1
  <2> QED BY <1>2, <2>2
<1>5. \A x, y \in S : r[x] = r[y] => x = y
  <2> SUFFICES ASSUME NEW x \in S, NEW y \in S, r[x] = r[y], x # y PROVE FALSE
    OBVIOUS
  <2>1. r[x] \in Int /\ r[y] \in Int
    BY <1>3
  <2>2. x \in before[y] \/ y \in before[x]
    BY DEF IsOrder
  <2> QED BY <1>4, <2>1, <2>2
<1>6. r \in Injection(S, 1..c)
  BY <1>2, <1>3, <1>5 DEF Injection, IsInjective
<1>7. r \in Surjection(S, 1..c)
  <2>1. IsFiniteSet(1..c) /\ Cardinality(1..c) = c
    <3>1. Cardinality(1..c) = IF 1 > c THEN 0 ELSE c - 1 + 1
      BY FS_Interval
    <3>2. IsFiniteSet(1..c)
      BY FS_Interval
    <3> QED BY <3>1, <3>2
  <2> QED BY <1>1, <1>6, <2>1, FS_Injection
<1>8. PICK p : p = InOrder(S, before)
  OBVIOUS
<1>9. p = [i \in 1..c |-> CHOOSE x \in S : Cardinality(before[x]) = i - 1]
  BY <1>1, <1>8 DEF InOrder
<1>10. ASSUME NEW i \in 1..c
       PROVE  p[i] \in S /\ r[p[i]] = i
  <2>1. PICK x \in S : r[x] = i
    BY <1>7 DEF Surjection
  <2>2. Cardinality(before[x]) = i - 1
    <3>1. Cardinality(before[x]) \in Nat
      <4>1. before[x] \in SUBSET S
        BY DEF IsOrder
      <4>2. IsFiniteSet(before[x])
        BY <4>1, FS_Subset
      <4> QED BY <4>2, FS_CardinalityType
    <3>2. Cardinality(before[x]) + 1 = i
      BY <1>2, <2>1
    <3> QED BY <3>1, <3>2
  <2>3. PICK z : z = CHOOSE y \in S : Cardinality(before[y]) = i - 1
    OBVIOUS
  <2>4. z \in S /\ Cardinality(before[z]) = i - 1
    BY <2>2, <2>3
  <2>5. p[i] = z
    BY <1>9, <2>3
  <2>6. r[z] = i - 1 + 1
    BY <1>2, <2>4
  <2> QED BY <2>4, <2>5, <2>6
<1>11. S = {p[i] : i \in 1..c}
  <2>1. ASSUME NEW x \in S
        PROVE  \E i \in 1..c : x = p[i]
    <3>1. r[x] \in 1..c
      BY <1>3
    <3>2. r[p[r[x]]] = r[x] /\ p[r[x]] \in S
      BY <1>10, <3>1
    <3>3. x = p[r[x]]
      BY <1>5, <3>2
    <3> QED BY <3>1, <3>3
  <2> QED BY <1>10, <2>1
<1>12. ASSUME NEW i \in 1..c, NEW j \in 1..c, i < j
       PROVE  p[i] \in before[p[j]]
  <2>1. p[i] \in S /\ p[j] \in S /\ r[p[i]] = i /\ r[p[j]] = j
    BY <1>10
  <2>2. p[i] # p[j]
    BY <1>12, <2>1
  <2>3. ~(p[j] \in before[p[i]])
    <3> SUFFICES ASSUME p[j] \in before[p[i]] PROVE FALSE
      OBVIOUS
    <3>1. r[p[j]] < r[p[i]]
      BY <1>4, <2>1
    <3> QED BY <1>12, <2>1, <3>1
  <2> QED BY <2>1, <2>2, <2>3 DEF IsOrder
<1>13. p \in [1..c -> S]
  BY <1>9, <1>10
<1> QED BY <1>1, <1>8, <1>11, <1>12, <1>13 DEF Lists

-----------------------------------------------------------------------------
(* The rings.                                                              *)

\* The rectangle of the mesh whose border a tuple describes.
IsRectangle(k, t, r1, c1, r2, c2) ==
  /\ r1 \in 0..(k - 1) /\ r2 \in 0..(k - 1) /\ r1 < r2
  /\ c1 \in 0..(k - 1) /\ c2 \in 0..(k - 1) /\ c1 < c2
  /\ t.ul = r1 * k + c1 /\ t.lr = r2 * k + c2
\* The row and the column of the p-th node, clockwise from the upper left.
RowAt(r1, c1, r2, c2, p) ==
  IF p <= c2 - c1 THEN r1
  ELSE IF p <= c2 - c1 + r2 - r1 THEN r1 + p - (c2 - c1) - 1
  ELSE IF p <= 2 * (c2 - c1) + r2 - r1 + 1 THEN r2
  ELSE r2 - (p - 2 * (c2 - c1) - (r2 - r1) - 1)
\* The column of the p-th node of the border, clockwise from its upper left corner.
ColumnAt(r1, c1, r2, c2, p) ==
  IF p <= c2 - c1 THEN c1 + p - 1
  ELSE IF p <= c2 - c1 + r2 - r1 THEN c2
  ELSE IF p <= 2 * (c2 - c1) + r2 - r1 + 1
       THEN c2 - (p - (c2 - c1) - (r2 - r1) - 1)
  ELSE c1
\* How many nodes the border has.
LengthOf(r1, c1, r2, c2) == 2 * (c2 - c1 + r2 - r1)
\* s are the nodes of the rectangle's border, clockwise.
GoesRound(k, s, r1, c1, r2, c2) ==
  /\ s \in Seq(0..(k * k - 1))
  /\ Len(s) = LengthOf(r1, c1, r2, c2)
  /\ \A p \in 1..Len(s) :
       s[p] = RowAt(r1, c1, r2, c2, p) * k + ColumnAt(r1, c1, r2, c2, p)
\* The clockwise order of NodeOrder.
Clockwise(k, t) ==
  LET length == (t.lr - t.ul) % k
      width  == (t.lr - t.ul) \div k
  IN  [i \in 1..length |-> t.ul + i - 1]
        \o [j \in 1..width |-> t.ul + length + (j - 1) * k]
        \o [i \in 1..(length + 1) |-> t.lr - (i - 1)]
        \o [q \in 1..(width - 1) |-> t.ul + (width - q) * k]

\* A node of the mesh by its row and column.
LEMMA NodeRange ==
  ASSUME NEW k \in Nat \ {0}, NEW r \in 0..(k - 1), NEW c \in 0..(k - 1)
  PROVE  r * k + c \in 0..(k * k - 1)
<1>1. r * k \in Nat
  OBVIOUS
<1>2. r * k + k <= k * k
  BY ProductGrows
<1>3. k * k \in Nat
  OBVIOUS
<1> QED BY <1>1, <1>2, <1>3

\* s consists of the four parts of a border.
InParts(T, s, a, b, c, d) ==
  /\ s \in Seq(T) /\ Len(s) = Len(a) + Len(b) + Len(c) + Len(d)
  /\ \A p \in 1..Len(s) :
       s[p] = IF p <= Len(a) THEN a[p]
              ELSE IF p <= Len(a) + Len(b) THEN b[p - Len(a)]
              ELSE IF p <= Len(a) + Len(b) + Len(c) THEN c[p - Len(a) - Len(b)]
              ELSE d[p - Len(a) - Len(b) - Len(c)]

\* What each place of a sequence in four parts holds.
LEMMA FourParts ==
  ASSUME NEW T, NEW a, a \in Seq(T), NEW b, b \in Seq(T), NEW c, c \in Seq(T),
         NEW d, d \in Seq(T), NEW s, s = a \o b \o c \o d
  PROVE  InParts(T, s, a, b, c, d)
<1>1. PICK u : u = a \o b
  OBVIOUS
<1>2. PICK v : v = u \o c
  OBVIOUS
<1>3. s = v \o d
  BY <1>1, <1>2
<1>4. /\ u \in Seq(T) /\ Len(u) = Len(a) + Len(b)
      /\ \A p \in 1..Len(u) : u[p] = IF p <= Len(a) THEN a[p] ELSE b[p - Len(a)]
  BY <1>1, ConcatProperties
<1>a. u \in Seq(T)
  BY <1>4
<1>5. /\ v \in Seq(T) /\ Len(v) = Len(u) + Len(c)
      /\ \A p \in 1..Len(v) : v[p] = IF p <= Len(u) THEN u[p] ELSE c[p - Len(u)]
  BY <1>2, <1>a, ConcatProperties
<1>b. v \in Seq(T)
  BY <1>5
<1>6. /\ s \in Seq(T) /\ Len(s) = Len(v) + Len(d)
      /\ \A p \in 1..Len(s) : s[p] = IF p <= Len(v) THEN v[p] ELSE d[p - Len(v)]
  BY <1>3, <1>b, ConcatProperties
<1>7. PICK la \in Nat, lb \in Nat, lc \in Nat, ld \in Nat :
        la = Len(a) /\ lb = Len(b) /\ lc = Len(c) /\ ld = Len(d)
  OBVIOUS
<1>8. Len(u) = la + lb /\ Len(v) = la + lb + lc /\ Len(s) = la + lb + lc + ld
  BY <1>4, <1>5, <1>6, <1>7
<1>9. ASSUME NEW p \in 1..(la + lb + lc + ld)
      PROVE  s[p] = IF p <= la THEN a[p]
                    ELSE IF p <= la + lb THEN b[p - la]
                    ELSE IF p <= la + lb + lc THEN c[p - la - lb]
                    ELSE d[p - la - lb - lc]
  <2>1. s[p] = IF p <= la + lb + lc THEN v[p] ELSE d[p - (la + lb + lc)]
    BY <1>6, <1>8
  <2>2. ASSUME p <= la + lb + lc
        PROVE  v[p] = IF p <= la + lb THEN u[p] ELSE c[p - (la + lb)]
    <3>1. p \in 1..(la + lb + lc)
      BY <2>2
    <3> QED BY <1>5, <1>8, <3>1
  <2>3. ASSUME p <= la + lb
        PROVE  u[p] = IF p <= la THEN a[p] ELSE b[p - la]
    <3>1. p \in 1..(la + lb)
      BY <2>3
    <3> QED BY <1>4, <1>7, <1>8, <3>1
  <2>4. p - (la + lb + lc) = p - la - lb - lc /\ p - (la + lb) = p - la - lb
    OBVIOUS
  <2> QED BY SMTT(30), <2>1, <2>2, <2>3, <2>4
<1> QED BY <1>6, <1>7, <1>8, <1>9 DEF InParts

\* The four runs of Ring's constructor, put together, go once round the border
\* of the rectangle that the tuple describes.
LEMMA ClockwiseFacts ==
  ASSUME NEW k \in Nat \ {0}, NEW t, NEW r1, NEW c1, NEW r2, NEW c2,
         IsRectangle(k, t, r1, c1, r2, c2)
  PROVE  GoesRound(k, Clockwise(k, t), r1, c1, r2, c2)
<1>1. /\ r1 \in 0..(k - 1) /\ r2 \in 0..(k - 1) /\ r1 < r2
      /\ c1 \in 0..(k - 1) /\ c2 \in 0..(k - 1) /\ c1 < c2
      /\ t.ul = r1 * k + c1 /\ t.lr = r2 * k + c2
  BY DEF IsRectangle
<1>2. PICK l \in 1..(k - 1) : l = c2 - c1
  <2>1. c2 - c1 \in 1..(k - 1)
    BY <1>1
  <2> QED BY <2>1
<1>3. PICK w \in 1..(k - 1) : w = r2 - r1
  <2>1. r2 - r1 \in 1..(k - 1)
    BY <1>1
  <2> QED BY <2>1
<1>4. t.lr - t.ul = w * k + l
  BY <1>1, <1>2, <1>3
<1>5. (t.lr - t.ul) % k = l /\ (t.lr - t.ul) \div k = w
  <2>1. w \in Int /\ l \in 0..(k - 1)
    OBVIOUS
  <2> QED BY <1>4, <2>1, Division
<1>6. PICK T : T = 0..(k * k - 1)
  OBVIOUS
<1>7. \A r, c \in 0..(k - 1) : r * k + c \in T
  BY <1>6, NodeRange
<1>8. PICK a : a = [i \in 1..l |-> t.ul + i - 1]
  OBVIOUS
<1>9. PICK b : b = [j \in 1..w |-> t.ul + l + (j - 1) * k]
  OBVIOUS
<1>10. PICK c : c = [i \in 1..(l + 1) |-> t.lr - (i - 1)]
  OBVIOUS
<1>11. PICK d : d = [q \in 1..(w - 1) |-> t.ul + (w - q) * k]
  OBVIOUS
<1>12. PICK s : s = a \o b \o c \o d
  OBVIOUS
<1>13. Clockwise(k, t) = s
  BY <1>5, <1>8, <1>9, <1>10, <1>11, <1>12 DEF Clockwise
<1>14. \A i \in 1..l : a[i] = r1 * k + (c1 + i - 1) /\ c1 + i - 1 \in 0..(k - 1)
  BY <1>1, <1>2, <1>8
<1>15. \A j \in 1..w : b[j] = (r1 + j - 1) * k + c2 /\ r1 + j - 1 \in 0..(k - 1)
  BY <1>1, <1>2, <1>3, <1>9
<1>16. \A i \in 1..(l + 1) : c[i] = r2 * k + (c2 - (i - 1)) /\ c2 - (i - 1) \in 0..(k - 1)
  BY <1>1, <1>2, <1>10
<1>17. \A q \in 1..(w - 1) : d[q] = (r2 - q) * k + c1 /\ r2 - q \in 0..(k - 1)
  BY <1>1, <1>3, <1>11
<1>18. /\ a \in Seq(T) /\ Len(a) = l /\ b \in Seq(T) /\ Len(b) = w
       /\ c \in Seq(T) /\ Len(c) = l + 1 /\ d \in Seq(T) /\ Len(d) = w - 1
  <2>1. \A i \in 1..l : a[i] \in T
    BY <1>1, <1>7, <1>14
  <2>2. \A j \in 1..w : b[j] \in T
    BY <1>1, <1>7, <1>15
  <2>3. \A i \in 1..(l + 1) : c[i] \in T
    BY <1>1, <1>7, <1>16
  <2>4. \A q \in 1..(w - 1) : d[q] \in T
    BY <1>1, <1>7, <1>17
  <2>5. a \in [1..l -> T] /\ b \in [1..w -> T]
        /\ c \in [1..(l + 1) -> T] /\ d \in [1..(w - 1) -> T]
    BY <1>8, <1>9, <1>10, <1>11, <2>1, <2>2, <2>3, <2>4
  <2>6. l \in Nat /\ w \in Nat /\ l + 1 \in Nat /\ w - 1 \in Nat
    OBVIOUS
  <2> QED BY <2>5, <2>6
<1>a. InParts(T, s, a, b, c, d)
  BY <1>12, <1>18, FourParts
<1>19. /\ s \in Seq(T) /\ Len(s) = Len(a) + Len(b) + Len(c) + Len(d)
       /\ \A p \in 1..Len(s) :
            s[p] = IF p <= Len(a) THEN a[p]
                   ELSE IF p <= Len(a) + Len(b) THEN b[p - Len(a)]
                   ELSE IF p <= Len(a) + Len(b) + Len(c) THEN c[p - Len(a) - Len(b)]
                   ELSE d[p - Len(a) - Len(b) - Len(c)]
  BY <1>a DEF InParts
<1>20. Len(s) = LengthOf(r1, c1, r2, c2) /\ Len(s) = 2 * l + 2 * w
  BY <1>1, <1>2, <1>3, <1>18, <1>19 DEF LengthOf
<1>21. ASSUME NEW p \in 1..Len(s)
       PROVE  s[p] = RowAt(r1, c1, r2, c2, p) * k + ColumnAt(r1, c1, r2, c2, p)
  <2>1. p \in Int /\ p >= 1 /\ p <= 2 * l + 2 * w
    BY <1>20
  <2>2. CASE p <= l
    <3>1. s[p] = a[p] /\ p \in 1..l
      BY <1>18, <1>19, <2>1, <2>2
    <3> QED BY <1>2, <1>3, <1>14, <2>2, <3>1 DEF RowAt, ColumnAt
  <2>3. CASE p > l /\ p <= l + w
    <3>1. s[p] = b[p - l] /\ p - l \in 1..w
      BY <1>18, <1>19, <2>1, <2>3
    <3>2. s[p] = (r1 + (p - l) - 1) * k + c2
      BY <1>15, <3>1
    <3>3. /\ ~(p <= c2 - c1) /\ p <= c2 - c1 + r2 - r1
          /\ r1 + p - (c2 - c1) - 1 = r1 + (p - l) - 1
      BY <1>1, <1>2, <1>3, <2>1, <2>3
    <3> QED BY <3>2, <3>3 DEF RowAt, ColumnAt
  <2>4. CASE p > l + w /\ p <= 2 * l + w + 1
    <3>1. s[p] = c[p - l - w] /\ p - l - w \in 1..(l + 1)
      BY SMTT(30), <1>18, <1>19, <2>1, <2>4
    <3>2. s[p] = r2 * k + (c2 - (p - l - w - 1))
      BY <1>16, <3>1
    <3>3. /\ ~(p <= c2 - c1) /\ ~(p <= c2 - c1 + r2 - r1)
          /\ p <= 2 * (c2 - c1) + r2 - r1 + 1
          /\ c2 - (p - (c2 - c1) - (r2 - r1) - 1) = c2 - (p - l - w - 1)
      BY <1>1, <1>2, <1>3, <2>1, <2>4
    <3> QED BY <3>2, <3>3 DEF RowAt, ColumnAt
  <2>5. CASE p > 2 * l + w + 1
    <3>1. s[p] = d[p - l - w - (l + 1)] /\ p - l - w - (l + 1) \in 1..(w - 1)
      BY <1>18, <1>19, <2>1, <2>5
    <3>2. s[p] = (r2 - (p - l - w - (l + 1))) * k + c1
      BY <1>17, <3>1
    <3>3. /\ ~(p <= c2 - c1) /\ ~(p <= c2 - c1 + r2 - r1)
          /\ ~(p <= 2 * (c2 - c1) + r2 - r1 + 1)
          /\ r2 - (p - 2 * (c2 - c1) - (r2 - r1) - 1) = r2 - (p - l - w - (l + 1))
      BY <1>1, <1>2, <1>3, <2>1, <2>5
    <3> QED BY <3>2, <3>3 DEF RowAt, ColumnAt
  <2> QED BY <2>1, <2>2, <2>3, <2>4, <2>5
<1> QED BY <1>6, <1>13, <1>19, <1>20, <1>21 DEF GoesRound

\* A rectangle whose corners differ in row and column.
Corners(r1, c1, r2, c2) ==
  /\ r1 \in Int /\ r2 \in Int /\ c1 \in Int /\ c2 \in Int /\ r1 < r2 /\ c1 < c2
\* The position after p, round a border of n nodes.
After(n, p) == IF p = n THEN 1 ELSE p + 1

\* The places on a border are on it, differ, and follow one another.
LEMMA PlacesRange ==
  ASSUME NEW r1, NEW c1, NEW r2, NEW c2, Corners(r1, c1, r2, c2),
         NEW p \in 1..LengthOf(r1, c1, r2, c2)
  PROVE  RowAt(r1, c1, r2, c2, p) \in r1..r2 /\ ColumnAt(r1, c1, r2, c2, p) \in c1..c2
BY DEF Corners, LengthOf, RowAt, ColumnAt

\* No two places of a border are the same node.
LEMMA PlacesDiffer ==
  ASSUME NEW r1, NEW c1, NEW r2, NEW c2, Corners(r1, c1, r2, c2),
         NEW p \in 1..LengthOf(r1, c1, r2, c2), NEW q \in 1..LengthOf(r1, c1, r2, c2),
         RowAt(r1, c1, r2, c2, p) = RowAt(r1, c1, r2, c2, q),
         ColumnAt(r1, c1, r2, c2, p) = ColumnAt(r1, c1, r2, c2, q)
  PROVE  p = q
BY DEF Corners, LengthOf, RowAt, ColumnAt

\* One step on the mesh, from row a and column b to row c and column d.
IsStep(a, b, c, d) ==
  \/ a = c /\ (b - d) \in {1, -1}
  \/ b = d /\ (a - c) \in {1, -1}

\* From each place of a border it is one row or one column to the next place.
LEMMA PlacesFollow ==
  ASSUME NEW r1, NEW c1, NEW r2, NEW c2, Corners(r1, c1, r2, c2),
         NEW p \in 1..LengthOf(r1, c1, r2, c2),
         NEW q, q = After(LengthOf(r1, c1, r2, c2), p)
  PROVE  IsStep(RowAt(r1, c1, r2, c2, p), ColumnAt(r1, c1, r2, c2, p),
                RowAt(r1, c1, r2, c2, q), ColumnAt(r1, c1, r2, c2, q))
BY DEF Corners, LengthOf, RowAt, ColumnAt, IsStep, After

\* Every node of the border has its place.
OnBorder(r1, c1, r2, c2, r, c) ==
  r \in r1..r2 /\ c \in c1..c2 /\ (r \in {r1, r2} \/ c \in {c1, c2})

\* Every node of a border has its place.
LEMMA PlacesCover ==
  ASSUME NEW r1, NEW c1, NEW r2, NEW c2, Corners(r1, c1, r2, c2),
         NEW r, NEW c, OnBorder(r1, c1, r2, c2, r, c)
  PROVE  \E p \in 1..LengthOf(r1, c1, r2, c2) :
           RowAt(r1, c1, r2, c2, p) = r /\ ColumnAt(r1, c1, r2, c2, p) = c
<1>1. r \in Int /\ c \in Int
  BY DEF OnBorder, Corners
<1> USE DEF Corners, LengthOf, RowAt, ColumnAt, OnBorder
<1>2. CASE r = r1 /\ c # c2
  <2>1. PICK p \in Int : p = c - c1 + 1
    BY <1>1
  <2>2. p \in 1..LengthOf(r1, c1, r2, c2)
    BY <1>2, <2>1
  <2>3. RowAt(r1, c1, r2, c2, p) = r /\ ColumnAt(r1, c1, r2, c2, p) = c
    BY <1>2, <2>1
  <2> QED BY <2>2, <2>3
<1>3. CASE c = c2 /\ r # r2
  <2>1. PICK p \in Int : p = c2 - c1 + 1 + r - r1
    BY <1>1
  <2>2. p \in 1..LengthOf(r1, c1, r2, c2)
    BY <1>3, <2>1
  <2>3. RowAt(r1, c1, r2, c2, p) = r /\ ColumnAt(r1, c1, r2, c2, p) = c
    BY <1>3, <2>1
  <2> QED BY <2>2, <2>3
<1>4. CASE r = r2
  <2>1. PICK p \in Int : p = c2 - c1 + r2 - r1 + 1 + c2 - c
    BY <1>1
  <2>2. p \in 1..LengthOf(r1, c1, r2, c2)
    BY <1>4, <2>1
  <2>3. RowAt(r1, c1, r2, c2, p) = r /\ ColumnAt(r1, c1, r2, c2, p) = c
    BY <1>4, <2>1
  <2> QED BY <2>2, <2>3
<1>5. CASE c = c1 /\ r # r1 /\ r # r2
  <2>1. PICK p \in Int : p = 2 * (c2 - c1) + r2 - r1 + 1 + r2 - r
    BY <1>1
  <2>2. p \in 1..LengthOf(r1, c1, r2, c2)
    BY <1>5, <2>1
  <2>3. RowAt(r1, c1, r2, c2, p) = r /\ ColumnAt(r1, c1, r2, c2, p) = c
    BY <1>5, <2>1
  <2> QED BY <2>2, <2>3
<1> QED BY <1>2, <1>3, <1>4, <1>5

-----------------------------------------------------------------------------

\* Neighbours on the mesh.
NextTo(k, m, n) ==
  \/ m \div k = n \div k /\ (m - n) \in {1, -1}
  \/ m % k = n % k /\ (m - n) \in {k, -k}

\* A step in row or column is a step to a neighbour in the mesh.
LEMMA StepsAreNeighbours ==
  ASSUME NEW k \in Nat \ {0}, NEW a \in 0..(k - 1), NEW b \in 0..(k - 1),
         NEW c \in 0..(k - 1), NEW d \in 0..(k - 1), IsStep(a, b, c, d)
  PROVE  NextTo(k, a * k + b, c * k + d) /\ NextTo(k, c * k + d, a * k + b)
<1>1. PICK m \in Int : m = a * k + b
  OBVIOUS
<1>2. PICK n \in Int : n = c * k + d
  OBVIOUS
<1>3. m \div k = a /\ m % k = b /\ n \div k = c /\ n % k = d
  <2>1. a \in Int /\ c \in Int
    OBVIOUS
  <2>2. (a * k + b) \div k = a /\ (a * k + b) % k = b
    BY <2>1, Division
  <2>3. (c * k + d) \div k = c /\ (c * k + d) % k = d
    BY <2>1, Division
  <2> QED BY <1>1, <1>2, <2>2, <2>3
<1>4. CASE a = c /\ (b - d) \in {1, -1}
  <2>1. m - n = b - d /\ n - m = d - b
    BY <1>1, <1>2, <1>4
  <2>2. (m - n) \in {1, -1} /\ (n - m) \in {1, -1}
    BY <1>4, <2>1
  <2> QED BY <1>1, <1>2, <1>3, <1>4, <2>2 DEF NextTo
<1>5. CASE b = d /\ (a - c) \in {1, -1}
  <2>1. m - n = (a - c) * k /\ n - m = (c - a) * k
    BY <1>1, <1>2, <1>5
  <2>2. (m - n) \in {k, -k} /\ (n - m) \in {k, -k}
    BY <1>5, <2>1
  <2> QED BY <1>1, <1>2, <1>3, <1>5, <2>2 DEF NextTo
<1> QED BY <1>4, <1>5 DEF IsStep

\* A closed walk over the mesh that visits no node twice.
IsCycle(k, s) ==
  /\ s \in Seq(0..(k * k - 1)) /\ Len(s) >= 4
  /\ \A p, q \in 1..Len(s) : s[p] = s[q] => p = q
  /\ \A p \in 1..Len(s) : NextTo(k, s[p], s[After(Len(s), p)])

\* The nodes of a rectangle are one, in either direction, and are all of its
\* border.
LEMMA GoesRoundFacts ==
  ASSUME NEW k \in Nat \ {0}, NEW t, NEW r1, NEW c1, NEW r2, NEW c2,
         IsRectangle(k, t, r1, c1, r2, c2),
         NEW s, GoesRound(k, s, r1, c1, r2, c2)
  PROVE  /\ IsCycle(k, s)
         /\ \A p \in 1..Len(s) : NextTo(k, s[After(Len(s), p)], s[p])
         /\ \A r, c : OnBorder(r1, c1, r2, c2, r, c) =>
              \E p \in 1..Len(s) : s[p] = r * k + c
<1>1. Corners(r1, c1, r2, c2)
  BY DEF IsRectangle, Corners
<1>2. r1 \in 0..(k - 1) /\ r2 \in 0..(k - 1) /\ c1 \in 0..(k - 1) /\ c2 \in 0..(k - 1)
  BY DEF IsRectangle
<1>3. PICK n \in Nat : n = LengthOf(r1, c1, r2, c2) /\ n >= 4
  BY <1>1 DEF Corners, LengthOf
<1>4. PICK row : row = [p \in 1..n |-> RowAt(r1, c1, r2, c2, p)]
  OBVIOUS
<1>5. PICK col : col = [p \in 1..n |-> ColumnAt(r1, c1, r2, c2, p)]
  OBVIOUS
<1>6. s \in Seq(0..(k * k - 1)) /\ Len(s) = n
      /\ \A p \in 1..n : s[p] = row[p] * k + col[p]
  BY <1>3, <1>4, <1>5 DEF GoesRound
<1>7. \A p \in 1..n : row[p] \in 0..(k - 1) /\ col[p] \in 0..(k - 1)
  <2> TAKE p \in 1..n
  <2>1. row[p] \in r1..r2 /\ col[p] \in c1..c2
    BY <1>1, <1>3, <1>4, <1>5, PlacesRange
  <2> QED BY <1>2, <2>1
<1>8. ASSUME NEW p \in 1..n, NEW q \in 1..n, s[p] = s[q]
      PROVE  p = q
  <2>1. row[p] * k + col[p] = row[q] * k + col[q]
    BY <1>6, <1>8
  <2>2. row[p] \in Int /\ row[q] \in Int /\ col[p] \in 0..(k - 1) /\ col[q] \in 0..(k - 1)
    BY <1>7
  <2>3. row[p] = row[q] /\ col[p] = col[q]
    <3>1. PICK a \in Int, b \in Int, c \in 0..(k - 1), d \in 0..(k - 1) :
            a = row[p] /\ b = row[q] /\ c = col[p] /\ d = col[q]
      BY <2>2
    <3>2. (a * k + c) \div k = a /\ (a * k + c) % k = c
      BY Division
    <3>3. (b * k + d) \div k = b /\ (b * k + d) % k = d
      BY Division
    <3>4. a * k + c = b * k + d
      BY <2>1, <3>1
    <3> QED BY <3>1, <3>2, <3>3, <3>4
  <2> QED BY <1>1, <1>3, <1>4, <1>5, <2>3, PlacesDiffer
<1>9. ASSUME NEW p \in 1..n
      PROVE  NextTo(k, s[p], s[After(n, p)]) /\ NextTo(k, s[After(n, p)], s[p])
  <2>1. PICK q \in 1..n : q = After(n, p)
    BY <1>3 DEF After
  <2>2. IsStep(row[p], col[p], row[q], col[q])
    BY <1>1, <1>3, <1>4, <1>5, <2>1, PlacesFollow
  <2>3. NextTo(k, row[p] * k + col[p], row[q] * k + col[q])
        /\ NextTo(k, row[q] * k + col[q], row[p] * k + col[p])
    BY <1>7, <2>2, StepsAreNeighbours
  <2> QED BY <1>6, <2>1, <2>3
<1>10. ASSUME NEW r, NEW c, OnBorder(r1, c1, r2, c2, r, c)
       PROVE  \E p \in 1..n : s[p] = r * k + c
  <2>1. PICK p \in 1..n : row[p] = r /\ col[p] = c
    BY <1>1, <1>3, <1>4, <1>5, <1>10, PlacesCover
  <2> QED BY <1>6, <2>1
<1> QED BY <1>3, <1>6, <1>8, <1>9, <1>10 DEF IsCycle

\* The order in which a ring visits its nodes.
LEMMA NodeOrderFacts ==
  ASSUME NEW k \in Nat \ {0}, NEW t, NEW r1, NEW c1, NEW r2, NEW c2,
         IsRectangle(k, t, r1, c1, r2, c2)
  PROVE  /\ IsCycle(k, NodeOrder(k, t))
         /\ \A r, c : OnBorder(r1, c1, r2, c2, r, c) =>
              r * k + c \in ToSet(NodeOrder(k, t))
<1>1. PICK s : s = Clockwise(k, t)
  OBVIOUS
<1>2. GoesRound(k, s, r1, c1, r2, c2)
  BY <1>1, ClockwiseFacts
<1>3. /\ IsCycle(k, s)
      /\ \A p \in 1..Len(s) : NextTo(k, s[After(Len(s), p)], s[p])
      /\ \A r, c : OnBorder(r1, c1, r2, c2, r, c) =>
           \E p \in 1..Len(s) : s[p] = r * k + c
  BY <1>2, GoesRoundFacts
<1>4. PICK n \in Nat : n = Len(s) /\ n >= 4
  BY <1>3 DEF IsCycle
<1>5. PICK T : T = 0..(k * k - 1)
  OBVIOUS
<1>6. s \in Seq(T)
  BY <1>3, <1>5 DEF IsCycle
<1>7. PICK u : u = Reverse(s)
  OBVIOUS
<1>8. u \in Seq(T) /\ Len(u) = n /\ \A p \in 1..n : u[p] = s[n - p + 1]
  <2>1. u = [p \in 1..n |-> s[(n - p) + 1]]
    BY <1>4, <1>7 DEF Reverse
  <2>2. \A p \in 1..n : s[(n - p) + 1] \in T
    BY <1>4, <1>6
  <2> QED BY <1>4, <2>1, <2>2
<1>9. NodeOrder(k, t) = IF t.dir = 1 THEN u ELSE s
  BY <1>1, <1>7 DEF NodeOrder, Clockwise
<1>10. IsCycle(k, u)
  <2>1. ASSUME NEW p \in 1..n, NEW q \in 1..n, u[p] = u[q]
        PROVE  p = q
    <3>1. n - p + 1 \in 1..n /\ n - q + 1 \in 1..n
      OBVIOUS
    <3>2. s[n - p + 1] = s[n - q + 1]
      BY <1>8, <2>1
    <3>3. n - p + 1 = n - q + 1
      BY <1>3, <1>4, <3>1, <3>2 DEF IsCycle
    <3> QED BY <3>3
  <2>2. ASSUME NEW p \in 1..n
        PROVE  NextTo(k, u[p], u[After(n, p)])
    <3>1. PICK q \in 1..n : q = After(n, p)
      BY <1>4 DEF After
    <3>2. PICK i \in 1..n : i = n - q + 1
      <4>1. n - q + 1 \in 1..n
        OBVIOUS
      <4> QED BY <4>1
    <3>3. n - p + 1 = After(n, i)
      BY <1>4, <3>1, <3>2 DEF After
    <3>4. NextTo(k, s[After(n, i)], s[i])
      BY <1>3, <1>4
    <3> QED BY <1>8, <3>1, <3>2, <3>3, <3>4
  <2> QED BY <1>4, <1>5, <1>8, <2>1, <2>2 DEF IsCycle
<1>11. ASSUME NEW p \in 1..n
       PROVE  s[p] \in ToSet(s) /\ s[p] \in ToSet(u)
  <2>1. DOMAIN s = 1..n /\ DOMAIN u = 1..n
    BY <1>4, <1>6, <1>8
  <2>2. PICK q \in 1..n : p = n - q + 1
    <3>1. n - p + 1 \in 1..n /\ p = n - (n - p + 1) + 1
      OBVIOUS
    <3> QED BY <3>1
  <2>3. u[q] = s[p]
    BY <1>8, <2>2
  <2> QED BY <2>1, <2>3 DEF ToSet
<1> QED BY <1>3, <1>4, <1>9, <1>10, <1>11

-----------------------------------------------------------------------------
(* The rings of a layer.                                                   *)

\* The corners and the direction of a ring.
Tuples == [ul : Int, lr : Int, dir : {0, 1}]

\* What a tuple is made of.
LEMMA TupleFacts ==
  ASSUME NEW ul \in Int, NEW lr \in Int, NEW dir \in {0, 1}
  PROVE  /\ Tuple(ul, lr, dir) \in Tuples
         /\ Tuple(ul, lr, dir).ul = ul /\ Tuple(ul, lr, dir).lr = lr
BY DEF Tuple, Tuples

\* The square of a layer: its first and its last row and column.
FirstOf(k, layer) == k \div 2 - layer
LastOf(k, layer) == k \div 2 + layer - 1
\* The meshes RLrec can cover.
EvenMesh(k) == k \in Nat /\ k > 1 /\ k % 2 = 0

\* The corners of a layer's square lie on the diagonal of the mesh.
LEMMA LayerCorners ==
  ASSUME NEW k, EvenMesh(k), NEW layer \in 1..(k \div 2)
  PROVE  /\ k \div 2 \in Nat \ {0} /\ k = 2 * (k \div 2)
         /\ FirstOf(k, layer) \in 0..(k - 1) /\ LastOf(k, layer) \in 0..(k - 1)
         /\ LastOf(k, layer) = FirstOf(k, layer) + 2 * layer - 1
         /\ UpperLeft(k, layer) = FirstOf(k, layer) * k + FirstOf(k, layer)
         /\ LowerRight(k, layer) = LastOf(k, layer) * k + LastOf(k, layer)
<1>1. PICK m \in Nat \ {0} : k = 2 * m /\ k \div 2 = m
  BY DEF EvenMesh
<1>2. PICK h \in Int : h = m - layer
  OBVIOUS
<1>3. PICK e \in Int : e = m + layer - 1
  OBVIOUS
<1>4. FirstOf(k, layer) = h /\ LastOf(k, layer) = e
  BY <1>1, <1>2, <1>3 DEF FirstOf, LastOf
<1>5. h \in 0..(k - 1) /\ e \in 0..(k - 1) /\ e = h + 2 * layer - 1
  BY <1>1, <1>2, <1>3
<1>6. \A x \in Int : (2 * x) \div 2 = x
  OBVIOUS
<1>7. UpperLeft(k, layer) = h * k + h
  <2>1. PICK x \in Int : x = h * k + h
    BY <1>1
  <2>2. k * k - 2 * layer * k + k - 2 * layer = 2 * x
    BY <1>1, <1>2, <2>1
  <2> QED BY <1>6, <2>1, <2>2 DEF UpperLeft
<1>8. LowerRight(k, layer) = e * k + e
  <2>1. PICK x \in Int : x = e * k + e
    BY <1>1
  <2>2. k * k + 2 * layer * k - k + 2 * layer - 2 = 2 * x
    BY <1>1, <1>3, <2>1
  <2> QED BY <1>6, <2>1, <2>2 DEF LowerRight
<1> QED BY <1>1, <1>4, <1>5, <1>7, <1>8

\* The pairs of rings and the rings of the last group a layer adds.
PairOf(k, layer, i) ==
  LET ul == UpperLeft(k, layer)
      lr == LowerRight(k, layer)
  IN  IF Odd(k \div 2 - layer)
      THEN <<Tuple(ul, lr + (1 + i - 2 * layer) * k, 0), Tuple(ul + k * i, lr, 0)>>
      ELSE <<Tuple(ul, lr - 2 * layer + 1 + i, 0), Tuple(ul + i, lr, 0)>>
\* The rings of a layer that are two columns or two rows wide.
NarrowOf(k, layer, j) ==
  LET ul == UpperLeft(k, layer)
      lr == LowerRight(k, layer)
  IN  IF Odd(k \div 2 - layer)
      THEN Tuple(ul + j, lr - 2 * layer + 2 + j, 0)
      ELSE Tuple(ul + k * j, lr + (2 + j - 2 * layer) * k, 0)

\* RlrecTuples of one layer: the outer ring, the pairs of rings that share a row
\* or column with it, and those that cover its corners.
LEMMA LayerTuplesAre ==
  ASSUME NEW k, NEW layer
  PROVE  LayerTuples(k, layer)
         = <<Tuple(UpperLeft(k, layer), LowerRight(k, layer), 1)>>
           \o FlattenSeq([i \in 1..(2 * layer - 2) |-> PairOf(k, layer, i)])
           \o (IF layer = 1 THEN <<Tuple(UpperLeft(k, layer), LowerRight(k, layer), 0)>>
               ELSE [j \in 1..(2 * layer - 1) |-> NarrowOf(k, layer, j - 1)])
BY DEF LayerTuples, PairOf, NarrowOf

\* t describes the border of that rectangle.
Describes(k, t, r1, c1, r2, c2) == t \in Tuples /\ IsRectangle(k, t, r1, c1, r2, c2)
\* The tuple is a ring of the mesh.
IsRing(k, t) == \E r1, c1, r2, c2 : Describes(k, t, r1, c1, r2, c2)

\* The first ring of a layer goes round its square.
LEMMA OuterRing ==
  ASSUME NEW k, EvenMesh(k), NEW layer \in 1..(k \div 2), NEW dir \in {0, 1}
  PROVE  Describes(k, Tuple(UpperLeft(k, layer), LowerRight(k, layer), dir),
                   FirstOf(k, layer), FirstOf(k, layer), LastOf(k, layer), LastOf(k, layer))
<1>1. k \in Nat /\ layer \in Nat \ {0}
  BY DEF EvenMesh
<1>2. PICK h \in 0..(k - 1) : h = FirstOf(k, layer)
  BY LayerCorners
<1>3. PICK e \in 0..(k - 1) : e = LastOf(k, layer)
  BY LayerCorners
<1>4. h < e
  BY <1>1, <1>2, <1>3, LayerCorners
<1>5. PICK ul \in Int : ul = UpperLeft(k, layer) /\ ul = h * k + h
  BY <1>1, <1>2, LayerCorners
<1>6. PICK lr \in Int : lr = LowerRight(k, layer) /\ lr = e * k + e
  BY <1>1, <1>3, LayerCorners
<1>7. /\ Tuple(ul, lr, dir) \in Tuples
      /\ Tuple(ul, lr, dir).ul = ul /\ Tuple(ul, lr, dir).lr = lr
  BY TupleFacts
<1> QED BY <1>2, <1>3, <1>4, <1>5, <1>6, <1>7 DEF Describes, IsRectangle

\* The others cut it in two, or are two rows or columns wide.
LEMMA PairRings ==
  ASSUME NEW k, EvenMesh(k), NEW layer \in 1..(k \div 2), NEW i \in 1..(2 * layer - 2)
  PROVE  LET h == FirstOf(k, layer)
             e == LastOf(k, layer)
             pair == PairOf(k, layer, i)
         IN  /\ pair = <<pair[1], pair[2]>>
             /\ IF Odd(k \div 2 - layer)
                THEN Describes(k, pair[1], h, h, h + i, e) /\ Describes(k, pair[2], h + i, h, e, e)
                ELSE Describes(k, pair[1], h, h, e, h + i) /\ Describes(k, pair[2], h, h + i, e, e)
<1>1. k \in Nat /\ layer \in Nat \ {0}
  BY DEF EvenMesh
<1>2. PICK h \in 0..(k - 1) : h = FirstOf(k, layer)
  BY LayerCorners
<1>3. PICK e \in 0..(k - 1) : e = LastOf(k, layer)
  BY LayerCorners
<1>4. e = h + 2 * layer - 1
  BY <1>2, <1>3, LayerCorners
<1>5. PICK ul \in Int : ul = UpperLeft(k, layer) /\ ul = h * k + h
  BY <1>1, <1>2, LayerCorners
<1>6. PICK lr \in Int : lr = LowerRight(k, layer) /\ lr = e * k + e
  BY <1>1, <1>3, LayerCorners
<1>7. PICK m \in 0..(k - 1) : m = h + i /\ h < m /\ m < e
  <2>1. h + i \in 0..(k - 1) /\ h < h + i /\ h + i < e
    BY <1>1, <1>4
  <2> QED BY <2>1
<1>8. PICK pair : pair = PairOf(k, layer, i)
  OBVIOUS
<1>9. CASE Odd(k \div 2 - layer)
  <2>1. pair = <<Tuple(ul, lr + (1 + i - 2 * layer) * k, 0), Tuple(ul + k * i, lr, 0)>>
    BY <1>5, <1>6, <1>8, <1>9 DEF PairOf
  <2>2. PICK x \in Int : x = lr + (1 + i - 2 * layer) * k /\ x = m * k + e
    <3>1. lr + (1 + i - 2 * layer) * k = (e + 1 + i - 2 * layer) * k + e
      BY <1>1, <1>6
    <3>2. e + 1 + i - 2 * layer = m
      BY <1>1, <1>4, <1>7
    <3>3. lr + (1 + i - 2 * layer) * k \in Int
      BY <1>1
    <3> QED BY <3>1, <3>2, <3>3
  <2>3. PICK y \in Int : y = ul + k * i /\ y = m * k + h
    <3>1. ul + k * i = (h + i) * k + h /\ ul + k * i \in Int
      BY <1>1, <1>5
    <3> QED BY <1>7, <3>1
  <2>4. pair[1] = Tuple(ul, x, 0) /\ pair[2] = Tuple(y, lr, 0) /\ pair = <<pair[1], pair[2]>>
    BY <2>1, <2>2, <2>3
  <2>5. Describes(k, Tuple(ul, x, 0), h, h, m, e)
    <3>1. /\ Tuple(ul, x, 0) \in Tuples
          /\ Tuple(ul, x, 0).ul = ul /\ Tuple(ul, x, 0).lr = x
      BY TupleFacts
    <3> QED BY <1>5, <1>7, <2>2, <3>1 DEF Describes, IsRectangle
  <2>6. Describes(k, Tuple(y, lr, 0), m, h, e, e)
    <3>1. /\ Tuple(y, lr, 0) \in Tuples
          /\ Tuple(y, lr, 0).ul = y /\ Tuple(y, lr, 0).lr = lr
      BY TupleFacts
    <3> QED BY <1>6, <1>7, <2>3, <3>1 DEF Describes, IsRectangle
  <2> QED BY <1>2, <1>3, <1>7, <1>8, <1>9, <2>4, <2>5, <2>6
<1>10. CASE ~Odd(k \div 2 - layer)
  <2>1. pair = <<Tuple(ul, lr - 2 * layer + 1 + i, 0), Tuple(ul + i, lr, 0)>>
    BY <1>5, <1>6, <1>8, <1>10 DEF PairOf
  <2>2. PICK x \in Int : x = lr - 2 * layer + 1 + i /\ x = e * k + m
    <3>1. lr - 2 * layer + 1 + i = e * k + (e - 2 * layer + 1 + i)
      BY <1>1, <1>6
    <3>2. e - 2 * layer + 1 + i = m
      BY <1>1, <1>4, <1>7
    <3>3. lr - 2 * layer + 1 + i \in Int
      BY <1>1
    <3> QED BY <3>1, <3>2, <3>3
  <2>3. PICK y \in Int : y = ul + i /\ y = h * k + m
    <3>1. ul + i = h * k + (h + i) /\ ul + i \in Int
      BY <1>1, <1>5
    <3> QED BY <1>7, <3>1
  <2>4. pair[1] = Tuple(ul, x, 0) /\ pair[2] = Tuple(y, lr, 0) /\ pair = <<pair[1], pair[2]>>
    BY <2>1, <2>2, <2>3
  <2>5. Describes(k, Tuple(ul, x, 0), h, h, e, m)
    <3>1. /\ Tuple(ul, x, 0) \in Tuples
          /\ Tuple(ul, x, 0).ul = ul /\ Tuple(ul, x, 0).lr = x
      BY TupleFacts
    <3> QED BY <1>5, <1>7, <2>2, <3>1 DEF Describes, IsRectangle
  <2>6. Describes(k, Tuple(y, lr, 0), h, m, e, e)
    <3>1. /\ Tuple(y, lr, 0) \in Tuples
          /\ Tuple(y, lr, 0).ul = y /\ Tuple(y, lr, 0).lr = lr
      BY TupleFacts
    <3> QED BY <1>6, <1>7, <2>3, <3>1 DEF Describes, IsRectangle
  <2> QED BY <1>2, <1>3, <1>7, <1>8, <1>10, <2>4, <2>5, <2>6
<1> QED BY <1>9, <1>10

\* The narrow rings lie inside the mesh.
LEMMA NarrowRing ==
  ASSUME NEW k, EvenMesh(k), NEW layer \in 1..(k \div 2), NEW j \in 0..(2 * layer - 2)
  PROVE  NarrowOf(k, layer, j) \in Tuples /\ IsRing(k, NarrowOf(k, layer, j))
<1>1. k \in Nat /\ layer \in Nat \ {0}
  BY DEF EvenMesh
<1>2. PICK h \in 0..(k - 1) : h = FirstOf(k, layer)
  BY LayerCorners
<1>3. PICK e \in 0..(k - 1) : e = LastOf(k, layer)
  BY LayerCorners
<1>4. e = h + 2 * layer - 1 /\ h < e
  BY <1>1, <1>2, <1>3, LayerCorners
<1>5. PICK ul \in Int : ul = UpperLeft(k, layer) /\ ul = h * k + h
  BY <1>1, <1>2, LayerCorners
<1>6. PICK lr \in Int : lr = LowerRight(k, layer) /\ lr = e * k + e
  BY <1>1, <1>3, LayerCorners
<1>7. PICK m \in 0..(k - 1) : m = h + j
  <2>1. h + j \in 0..(k - 1)
    BY <1>1, <1>4
  <2> QED BY <2>1
<1>8. PICK n \in 0..(k - 1) : n = h + j + 1 /\ m < n
  <2>1. h + j + 1 \in 0..(k - 1) /\ m < h + j + 1
    BY <1>1, <1>4, <1>7
  <2> QED BY <2>1
<1>9. CASE Odd(k \div 2 - layer)
  <2>1. NarrowOf(k, layer, j) = Tuple(ul + j, lr - 2 * layer + 2 + j, 0)
    BY <1>5, <1>6, <1>9 DEF NarrowOf
  <2>2. PICK x \in Int : x = lr - 2 * layer + 2 + j /\ x = e * k + n
    <3>1. lr - 2 * layer + 2 + j = e * k + (e - 2 * layer + 2 + j)
      BY <1>1, <1>6
    <3>2. e - 2 * layer + 2 + j = n
      BY <1>1, <1>4, <1>8
    <3>3. lr - 2 * layer + 2 + j \in Int
      BY <1>1
    <3> QED BY <3>1, <3>2, <3>3
  <2>3. PICK y \in Int : y = ul + j /\ y = h * k + m
    <3>1. ul + j = h * k + (h + j) /\ ul + j \in Int
      BY <1>1, <1>5
    <3> QED BY <1>7, <3>1
  <2>4. Describes(k, Tuple(y, x, 0), h, m, e, n)
    <3>1. /\ Tuple(y, x, 0) \in Tuples
          /\ Tuple(y, x, 0).ul = y /\ Tuple(y, x, 0).lr = x
      BY TupleFacts
    <3> QED BY <1>4, <1>8, <2>2, <2>3, <3>1 DEF Describes, IsRectangle
  <2> QED BY <2>1, <2>2, <2>3, <2>4 DEF IsRing, Describes
<1>10. CASE ~Odd(k \div 2 - layer)
  <2>1. NarrowOf(k, layer, j) = Tuple(ul + k * j, lr + (2 + j - 2 * layer) * k, 0)
    BY <1>5, <1>6, <1>10 DEF NarrowOf
  <2>2. PICK x \in Int : x = lr + (2 + j - 2 * layer) * k /\ x = n * k + e
    <3>1. lr + (2 + j - 2 * layer) * k = (e + 2 + j - 2 * layer) * k + e
      BY <1>1, <1>6
    <3>2. e + 2 + j - 2 * layer = n
      BY <1>1, <1>4, <1>8
    <3>3. lr + (2 + j - 2 * layer) * k \in Int
      BY <1>1
    <3> QED BY <3>1, <3>2, <3>3
  <2>3. PICK y \in Int : y = ul + k * j /\ y = m * k + h
    <3>1. ul + k * j = (h + j) * k + h /\ ul + k * j \in Int
      BY <1>1, <1>5
    <3> QED BY <1>7, <3>1
  <2>4. Describes(k, Tuple(y, x, 0), m, h, n, e)
    <3>1. /\ Tuple(y, x, 0) \in Tuples
          /\ Tuple(y, x, 0).ul = y /\ Tuple(y, x, 0).lr = x
      BY TupleFacts
    <3> QED BY <1>4, <1>8, <2>2, <2>3, <3>1 DEF Describes, IsRectangle
  <2> QED BY <2>1, <2>2, <2>3, <2>4 DEF IsRing, Describes
<1> QED BY <1>9, <1>10

\* What a layer adds: 6 layer - 4 rings, the outer one and all pairs among them.
LayerOf(k, layer, s) ==
  /\ s \in Seq(Tuples) /\ Len(s) = 6 * layer - 4
  /\ \A t \in ToSet(s) : IsRing(k, t)
  /\ Tuple(UpperLeft(k, layer), LowerRight(k, layer), 1) \in ToSet(s)
  /\ \A i \in 1..(2 * layer - 2) :
       PairOf(k, layer, i)[1] \in ToSet(s) /\ PairOf(k, layer, i)[2] \in ToSet(s)

\* A layer adds 6 layer - 4 rings of the mesh, its outer one, and any two nodes
\* of its border are together on one of them.
LEMMA LayerFacts ==
  ASSUME NEW k, EvenMesh(k), NEW layer \in 1..(k \div 2)
  PROVE  LayerOf(k, layer, LayerTuples(k, layer))
<1>1. k \in Nat /\ layer \in Nat \ {0}
  BY DEF EvenMesh
<1>2. PICK outer : outer = Tuple(UpperLeft(k, layer), LowerRight(k, layer), 1)
  OBVIOUS
<1>3. PICK inner : inner = Tuple(UpperLeft(k, layer), LowerRight(k, layer), 0)
  OBVIOUS
<1>4. outer \in Tuples /\ IsRing(k, outer) /\ inner \in Tuples /\ IsRing(k, inner)
  BY <1>2, <1>3, OuterRing DEF IsRing, Describes
<1>5. PICK n \in Nat : n = 2 * layer - 2
  <2>1. 2 * layer - 2 \in Nat
    BY <1>1
  <2> QED BY <2>1
<1>6. PICK pairs : pairs = [i \in 1..n |-> PairOf(k, layer, i)]
  OBVIOUS
<1>7. ASSUME NEW i \in 1..n
      PROVE  /\ pairs[i] \in Seq(Tuples) /\ Len(pairs[i]) = 2
             /\ pairs[i][1] \in Tuples /\ pairs[i][2] \in Tuples
             /\ ToSet(pairs[i]) = {pairs[i][1], pairs[i][2]}
             /\ IsRing(k, pairs[i][1]) /\ IsRing(k, pairs[i][2])
             /\ pairs[i] = PairOf(k, layer, i)
  <2>1. PICK p : p = PairOf(k, layer, i)
    OBVIOUS
  <2>2. /\ p = <<p[1], p[2]>> /\ p[1] \in Tuples /\ p[2] \in Tuples
        /\ IsRing(k, p[1]) /\ IsRing(k, p[2])
    BY <1>5, <2>1, PairRings DEF Describes, IsRing
  <2>3. PICK a \in Tuples, b \in Tuples : a = p[1] /\ b = p[2] /\ p = <<a, b>>
    BY <2>2
  <2>4. <<a, b>> \in Seq(Tuples) /\ Len(<<a, b>>) = 2 /\ ToSet(<<a, b>>) = {a, b}
    BY DEF ToSet
  <2>5. pairs[i] = p
    BY <1>6, <2>1
  <2> QED BY <2>1, <2>2, <2>3, <2>4, <2>5
<1>8. pairs \in Seq(Seq(Tuples)) /\ Len(pairs) = n
  <2>1. pairs \in [1..n -> Seq(Tuples)]
    BY <1>6, <1>7
  <2> QED BY <2>1
<1>9. PICK mid : mid = FlattenSeq(pairs)
  OBVIOUS
<1>10. mid \in Seq(Tuples) /\ ToSet(mid) = UNION {ToSet(pairs[i]) : i \in 1..n}
  BY <1>8, <1>9, FlattenElements
<1>11. Len(mid) = 2 * n
  <2>1. PICK sum : sum = [i \in 0..n |-> 2 * i]
    OBVIOUS
  <2>2. sum[0] = 0 /\ sum[n] = 2 * n
    BY <2>1
  <2>3. \A i \in 1..n : sum[i] = sum[i - 1] + 2
    BY <2>1
  <2>4. \A i \in 1..Len(pairs) : sum[i] = sum[i - 1] + Len(pairs[i])
    BY <1>7, <1>8, <2>3
  <2>5. Len(FlattenSeq(pairs)) = sum[Len(pairs)]
    BY <1>8, <2>2, <2>4, FlattenLength
  <2> QED BY <1>8, <1>9, <2>2, <2>5
<1>12. PICK last : last = IF layer = 1 THEN <<inner>>
                          ELSE [j \in 1..(2 * layer - 1) |-> NarrowOf(k, layer, j - 1)]
  OBVIOUS
<1>13. /\ last \in Seq(Tuples) /\ Len(last) = IF layer = 1 THEN 1 ELSE 2 * layer - 1
       /\ \A t \in ToSet(last) : IsRing(k, t)
  <2>1. CASE layer = 1
    <3>1. last = <<inner>>
      BY <1>12, <2>1
    <3>2. <<inner>> \in Seq(Tuples) /\ Len(<<inner>>) = 1 /\ ToSet(<<inner>>) = {inner}
      BY <1>4 DEF ToSet
    <3> QED BY <1>4, <2>1, <3>1, <3>2
  <2>2. CASE layer # 1
    <3>1. PICK m \in Nat : m = 2 * layer - 1
      <4>1. 2 * layer - 1 \in Nat
        BY <1>1
      <4> QED BY <4>1
    <3>2. last = [j \in 1..m |-> NarrowOf(k, layer, j - 1)]
      BY <1>12, <2>2, <3>1
    <3>3. \A j \in 1..m : last[j] \in Tuples /\ IsRing(k, last[j])
      <4> TAKE j \in 1..m
      <4>1. PICK i \in 0..(2 * layer - 2) : i = j - 1
        <5>1. j - 1 \in 0..(2 * layer - 2)
          BY <1>1, <3>1
        <5> QED BY <5>1
      <4> QED BY <3>2, <4>1, NarrowRing
    <3>4. last \in [1..m -> Tuples] /\ DOMAIN last = 1..m
      BY <3>2, <3>3
    <3> QED BY <2>2, <3>1, <3>3, <3>4 DEF ToSet
  <2> QED BY <2>1, <2>2
<1>14. PICK s : s = <<outer>> \o mid \o last
  OBVIOUS
<1>15. LayerTuples(k, layer) = s
  BY <1>2, <1>3, <1>5, <1>6, <1>9, <1>12, <1>14, LayerTuplesAre
<1>16. /\ <<outer>> \in Seq(Tuples) /\ Len(<<outer>>) = 1 /\ ToSet(<<outer>>) = {outer}
  BY <1>4 DEF ToSet
<1>17. PICK u : u = <<outer>> \o mid
  OBVIOUS
<1>18. u \in Seq(Tuples) /\ Len(u) = 1 + 2 * n
  BY <1>10, <1>11, <1>16, <1>17, ConcatProperties
<1>19. ToSet(u) = {outer} \cup ToSet(mid)
  <2>1. PICK w : w = <<outer>>
    OBVIOUS
  <2>2. w \in Seq(Tuples) /\ mid \in Seq(Tuples) /\ u = w \o mid /\ ToSet(w) = {outer}
    BY <1>10, <1>16, <1>17, <2>1
  <2>3. ToSet(w \o mid) = ToSet(w) \cup ToSet(mid)
    BY <2>2, ConcatElements
  <2> QED BY <2>2, <2>3
<1>20. s = u \o last
  BY <1>14, <1>17
<1>21. s \in Seq(Tuples) /\ Len(s) = Len(u) + Len(last)
  <2>1. u \in Seq(Tuples) /\ last \in Seq(Tuples)
    BY <1>13, <1>18
  <2> QED BY <1>20, <2>1, ConcatProperties
<1>22. ToSet(s) = ToSet(u) \cup ToSet(last)
  <2>1. u \in Seq(Tuples) /\ last \in Seq(Tuples)
    BY <1>13, <1>18
  <2> QED BY <1>20, <2>1, ConcatElements
<1>23. Len(s) = 6 * layer - 4
  BY <1>1, <1>5, <1>13, <1>18, <1>21
<1>24. \A t \in ToSet(s) : IsRing(k, t)
  <2>1. ASSUME NEW t \in ToSet(mid)
        PROVE  IsRing(k, t)
    <3>1. PICK i \in 1..n : t \in ToSet(pairs[i])
      BY <1>10
    <3>2. t = pairs[i][1] \/ t = pairs[i][2]
      BY <1>7, <3>1
    <3> QED BY <1>7, <3>2
  <2> QED BY <1>4, <1>13, <1>19, <1>22, <2>1
<1>25. ASSUME NEW i \in 1..(2 * layer - 2)
       PROVE  PairOf(k, layer, i)[1] \in ToSet(s) /\ PairOf(k, layer, i)[2] \in ToSet(s)
  <2>1. i \in 1..n
    BY <1>5
  <2>2. ToSet(pairs[i]) \subseteq ToSet(mid)
    BY <1>10, <2>1
  <2>3. PairOf(k, layer, i)[1] \in ToSet(pairs[i]) /\ PairOf(k, layer, i)[2] \in ToSet(pairs[i])
    BY <1>7, <2>1
  <2> QED BY <1>19, <1>22, <2>2, <2>3
<1>26. outer \in ToSet(s)
  BY <1>19, <1>22
<1> QED BY <1>2, <1>15, <1>21, <1>23, <1>24, <1>25, <1>26 DEF LayerOf

-----------------------------------------------------------------------------

\* cal_ring_num has a closed form.
IsRingNum(g) ==
  g = [k \in Nat |-> IF k = 0 \/ k = 1 THEN 0
                     ELSE IF k = 2 THEN 2
                     ELSE 1 + 2 * (k - 2) + k - 1 + g[k - 2]]

\* CalRingNum is the recursion of cal_ringnum on the size of the mesh.
LEMMA RingNumIs == IsRingNum(CalRingNum)
<1>1. PICK g : g = [k \in Nat |-> (3 * (k * k) - 2 * k) \div 4]
  OBVIOUS
<1>2. ASSUME NEW k \in Nat
      PROVE  g[k] = IF k = 0 \/ k = 1 THEN 0
                    ELSE IF k = 2 THEN 2
                    ELSE 1 + 2 * (k - 2) + k - 1 + g[k - 2]
  <2>1. g[k] = (3 * (k * k) - 2 * k) \div 4
    BY <1>1
  <2>2. CASE k = 0 \/ k = 1 \/ k = 2
    BY <2>1, <2>2
  <2>3. CASE ~(k = 0 \/ k = 1 \/ k = 2)
    <3>1. PICK j \in Nat : j = k - 2
      <4>1. k - 2 \in Nat
        BY <2>3
      <4> QED BY <4>1
    <3>2. PICK a \in Int : a = 3 * (j * j) - 2 * j
      <4>1. j * j \in Int
        OBVIOUS
      <4>2. 3 * (j * j) - 2 * j \in Int
        BY <4>1
      <4> QED BY <4>2
    <3>3. 3 * (k * k) - 2 * k = a + 4 * (3 * k - 4)
      BY <3>1, <3>2
    <3>4. (a + 4 * (3 * k - 4)) \div 4 = (a \div 4) + (3 * k - 4)
      OBVIOUS
    <3>5. g[j] = a \div 4
      BY <1>1, <3>2
    <3> QED BY <2>1, <2>3, <3>1, <3>3, <3>4, <3>5
  <2> QED BY <2>2, <2>3
<1>3. IsRingNum(g)
  BY <1>1, <1>2 DEF IsRingNum
<1>4. CalRingNum = CHOOSE h : IsRingNum(h)
  BY DEF CalRingNum, IsRingNum
<1> QED BY <1>3, <1>4

\* cal_ringnum in closed form, for the even meshes.
LEMMA RingNumEven ==
  ASSUME NEW m \in Nat PROVE CalRingNum[2 * m] = 3 * (m * m) - m
<1>1. \A k \in Nat : CalRingNum[k] = IF k = 0 \/ k = 1 THEN 0
                                     ELSE IF k = 2 THEN 2
                                     ELSE 1 + 2 * (k - 2) + k - 1 + CalRingNum[k - 2]
  BY RingNumIs DEF IsRingNum
<1> DEFINE Done == {n \in Nat : CalRingNum[2 * n] = 3 * (n * n) - n}
<1>2. 0 \in Done
  BY <1>1
<1>3. ASSUME NEW n \in Nat, n \in Done
      PROVE  n + 1 \in Done
  <2>1. PICK k \in Nat : k = 2 * (n + 1)
    OBVIOUS
  <2>2. CASE n = 0
    <3>1. CalRingNum[2] = 2 /\ n + 1 = 1 /\ 2 * (n + 1) = 2 /\ 3 * ((n + 1) * (n + 1)) - (n + 1) = 2
      BY <1>1, <2>2
    <3> QED BY <3>1
  <2>3. CASE n # 0
    <3>1. k - 2 = 2 * n /\ ~(k = 0 \/ k = 1) /\ k # 2
      BY <2>1, <2>3
    <3>2. CalRingNum[k] = 1 + 2 * (k - 2) + k - 1 + CalRingNum[k - 2]
      BY <1>1, <3>1
    <3>3. CalRingNum[k - 2] = 3 * (n * n) - n
      BY <1>3, <3>1
    <3>4. 1 + 2 * (k - 2) + k - 1 + (3 * (n * n) - n) = 3 * ((n + 1) * (n + 1)) - (n + 1)
      BY <2>1
    <3> QED BY <2>1, <3>2, <3>3, <3>4
  <2> QED BY <2>2, <2>3
<1>4. \A n \in Nat : n \in Done
  <2> HIDE DEF Done
  <2> QED BY <1>2, <1>3, Induction
<1>5. m \in Done
  BY <1>4
<1> QED BY <1>5

-----------------------------------------------------------------------------

\* All rings of a mesh.
LEMMA RlrecFacts ==
  ASSUME NEW k, EvenMesh(k)
  PROVE  /\ RlrecTuples(k) \in Seq(Tuples)
         /\ Len(RlrecTuples(k)) = CalRingNum[k]
         /\ ToSet(RlrecTuples(k)) = UNION {ToSet(LayerTuples(k, layer)) : layer \in 1..(k \div 2)}
         /\ \A t \in ToSet(RlrecTuples(k)) : IsRing(k, t)
<1>1. PICK m \in Nat \ {0} : k = 2 * m /\ k \div 2 = m
  BY DEF EvenMesh
<1>2. PICK layers : layers = [layer \in 1..m |-> LayerTuples(k, layer)]
  OBVIOUS
<1>3. \A i \in 1..m : LayerOf(k, i, layers[i]) /\ layers[i] = LayerTuples(k, i)
  BY <1>1, <1>2, LayerFacts
<1>4. layers \in Seq(Seq(Tuples)) /\ Len(layers) = m
  <2>1. \A i \in 1..m : layers[i] \in Seq(Tuples)
    BY <1>3 DEF LayerOf
  <2>2. layers \in [1..m -> Seq(Tuples)]
    BY <1>2, <2>1
  <2> QED BY <2>2
<1>5. RlrecTuples(k) = FlattenSeq(layers)
  BY <1>1, <1>2 DEF RlrecTuples
<1>6. /\ FlattenSeq(layers) \in Seq(Tuples)
      /\ ToSet(FlattenSeq(layers)) = UNION {ToSet(layers[i]) : i \in 1..m}
  BY <1>4, FlattenElements
<1>7. Len(FlattenSeq(layers)) = 3 * (m * m) - m
  <2>1. PICK sum : sum = [i \in 0..m |-> 3 * (i * i) - i]
    OBVIOUS
  <2>2. sum[0] = 0 /\ sum[m] = 3 * (m * m) - m
    BY <2>1
  <2>3. ASSUME NEW i \in 1..m
        PROVE  sum[i] = sum[i - 1] + Len(layers[i])
    <3>1. Len(layers[i]) = 6 * i - 4
      BY <1>3 DEF LayerOf
    <3>2. sum[i] = 3 * (i * i) - i /\ sum[i - 1] = 3 * ((i - 1) * (i - 1)) - (i - 1)
      BY <2>1
    <3>3. 3 * (i * i) - i = 3 * ((i - 1) * (i - 1)) - (i - 1) + (6 * i - 4)
      OBVIOUS
    <3> QED BY <3>1, <3>2, <3>3
  <2>4. Len(FlattenSeq(layers)) = sum[Len(layers)]
    BY <1>4, <2>2, <2>3, FlattenLength
  <2> QED BY <1>4, <2>2, <2>4
<1>8. ASSUME NEW t \in ToSet(FlattenSeq(layers))
      PROVE  IsRing(k, t)
  <2>1. PICK i \in 1..m : t \in ToSet(layers[i])
    BY <1>6
  <2> QED BY <1>3, <2>1 DEF LayerOf
<1>9. UNION {ToSet(layers[i]) : i \in 1..m} = UNION {ToSet(LayerTuples(k, i)) : i \in 1..m}
  BY <1>3
<1> QED BY <1>1, <1>5, <1>6, <1>7, <1>8, <1>9, RingNumEven

\* Every node is on the border of the square of one layer.
OnSquare(k, layer, r, c) ==
  OnBorder(FirstOf(k, layer), FirstOf(k, layer), LastOf(k, layer), LastOf(k, layer), r, c)

\* Every node is on the border of some layer's square.
LEMMA LayerOfNode ==
  ASSUME NEW k, EvenMesh(k), NEW r \in 0..(k - 1), NEW c \in 0..(k - 1)
  PROVE  \E layer \in 1..(k \div 2) : OnSquare(k, layer, r, c)
<1>1. PICK m \in Nat \ {0} : k = 2 * m /\ k \div 2 = m
  BY DEF EvenMesh
<1>2. PICK i \in {m - r, m - c, r - m + 1, c - m + 1} :
        i >= m - r /\ i >= m - c /\ i >= r - m + 1 /\ i >= c - m + 1
  <2>1. PICK a \in {m - r, r - m + 1} : a >= m - r /\ a >= r - m + 1
    BY <1>1
  <2>2. PICK b \in {m - c, c - m + 1} : b >= m - c /\ b >= c - m + 1
    BY <1>1
  <2>3. CASE a >= b
    BY <1>1, <2>1, <2>2, <2>3
  <2>4. CASE b >= a
    BY <1>1, <2>1, <2>2, <2>4
  <2> QED BY <1>1, <2>1, <2>2, <2>3, <2>4
<1>3. i \in 1..m
  BY <1>1, <1>2
<1>4. OnBorder(m - i, m - i, m + i - 1, m + i - 1, r, c)
  BY <1>1, <1>2, <1>3 DEF OnBorder
<1> QED BY <1>1, <1>3, <1>4 DEF OnSquare, FirstOf, LastOf

\* A node on the square of a layer shares a ring of that layer with every
\* node of that square and within.
Share(k, m, n) ==
  \E t \in ToSet(RlrecTuples(k)) : {m, n} \subseteq ToSet(NodeOrder(k, t))

\* A node on the border of a layer shares a ring with every node of its square.
LEMMA LayerConnects ==
  ASSUME NEW k, EvenMesh(k), NEW layer \in 1..(k \div 2),
         NEW r, NEW c, OnSquare(k, layer, r, c),
         NEW a \in FirstOf(k, layer)..LastOf(k, layer),
         NEW b \in FirstOf(k, layer)..LastOf(k, layer)
  PROVE  Share(k, r * k + c, a * k + b)
<1>1. k \in Nat \ {0} /\ layer \in Nat \ {0}
  BY DEF EvenMesh
<1>2. PICK h \in 0..(k - 1) : h = FirstOf(k, layer)
  BY LayerCorners
<1>3. PICK e \in 0..(k - 1) : e = LastOf(k, layer)
  BY LayerCorners
<1>4. e = h + 2 * layer - 1
  BY <1>2, <1>3, LayerCorners
<1>5. OnBorder(h, h, e, e, r, c)
  BY <1>2, <1>3 DEF OnSquare
<1>6. PICK s : s = LayerTuples(k, layer)
  OBVIOUS
<1>7. LayerOf(k, layer, s)
  BY <1>6, LayerFacts
<1>8. ToSet(s) \subseteq ToSet(RlrecTuples(k))
  BY <1>6, RlrecFacts
<1>9. ASSUME NEW t \in ToSet(s), NEW r1, NEW c1, NEW r2, NEW c2,
             Describes(k, t, r1, c1, r2, c2),
             OnBorder(r1, c1, r2, c2, r, c), OnBorder(r1, c1, r2, c2, a, b)
      PROVE  Share(k, r * k + c, a * k + b)
  <2>1. IsRectangle(k, t, r1, c1, r2, c2)
    BY <1>9 DEF Describes
  <2>2. r * k + c \in ToSet(NodeOrder(k, t))
    BY <1>1, <1>9, <2>1, NodeOrderFacts
  <2>3. a * k + b \in ToSet(NodeOrder(k, t))
    BY <1>1, <1>9, <2>1, NodeOrderFacts
  <2> QED BY <1>8, <1>9, <2>2, <2>3 DEF Share
<1>10. CASE OnBorder(h, h, e, e, a, b)
  <2>1. PICK t : t = Tuple(UpperLeft(k, layer), LowerRight(k, layer), 1)
    OBVIOUS
  <2>2. t \in ToSet(s)
    BY <1>7, <2>1 DEF LayerOf
  <2>3. Describes(k, t, h, h, e, e)
    BY <1>2, <1>3, <2>1, OuterRing
  <2> QED BY <1>5, <1>9, <1>10, <2>2, <2>3
<1>11. CASE ~OnBorder(h, h, e, e, a, b)
  <2>1. a \in (h + 1)..(e - 1) /\ b \in (h + 1)..(e - 1)
    BY <1>2, <1>3, <1>11 DEF OnBorder
  <2>2. CASE Odd(k \div 2 - layer)
    <3>1. PICK i \in 1..(2 * layer - 2) : h + i = a
      <4>1. a - h \in 1..(2 * layer - 2) /\ h + (a - h) = a
        BY <1>1, <1>4, <2>1
      <4> QED BY <4>1
    <3>2. PICK t1, t2 : t1 = PairOf(k, layer, i)[1] /\ t2 = PairOf(k, layer, i)[2]
      OBVIOUS
    <3>3. t1 \in ToSet(s) /\ t2 \in ToSet(s)
      BY <1>7, <3>2 DEF LayerOf
    <3>4. Describes(k, t1, h, h, a, e) /\ Describes(k, t2, a, h, e, e)
      BY <1>2, <1>3, <2>2, <3>1, <3>2, PairRings
    <3>5. OnBorder(h, h, a, e, a, b) /\ OnBorder(a, h, e, e, a, b)
      BY <2>1 DEF OnBorder
    <3>6. OnBorder(h, h, a, e, r, c) \/ OnBorder(a, h, e, e, r, c)
      BY <1>5, <2>1 DEF OnBorder
    <3> QED BY <1>9, <3>3, <3>4, <3>5, <3>6
  <2>3. CASE ~Odd(k \div 2 - layer)
    <3>1. PICK i \in 1..(2 * layer - 2) : h + i = b
      <4>1. b - h \in 1..(2 * layer - 2) /\ h + (b - h) = b
        BY <1>1, <1>4, <2>1
      <4> QED BY <4>1
    <3>2. PICK t1, t2 : t1 = PairOf(k, layer, i)[1] /\ t2 = PairOf(k, layer, i)[2]
      OBVIOUS
    <3>3. t1 \in ToSet(s) /\ t2 \in ToSet(s)
      BY <1>7, <3>2 DEF LayerOf
    <3>4. Describes(k, t1, h, h, e, b) /\ Describes(k, t2, h, b, e, e)
      BY <1>2, <1>3, <2>3, <3>1, <3>2, PairRings
    <3>5. OnBorder(h, h, e, b, a, b) /\ OnBorder(h, b, e, e, a, b)
      BY <2>1 DEF OnBorder
    <3>6. OnBorder(h, h, e, b, r, c) \/ OnBorder(h, b, e, e, r, c)
      BY <1>5, <2>1 DEF OnBorder
    <3> QED BY <1>9, <3>3, <3>4, <3>5, <3>6
  <2> QED BY <2>2, <2>3
<1> QED BY <1>10, <1>11

\* Any two nodes share a ring.
LEMMA RingsConnect ==
  ASSUME NEW k, EvenMesh(k), NEW m \in 0..(k * k - 1), NEW n \in 0..(k * k - 1)
  PROVE  Share(k, m, n)
<1>1. k \in Nat \ {0} /\ k \div 2 \in Nat
  BY DEF EvenMesh
<1>2. ASSUME NEW x \in 0..(k * k - 1)
      PROVE  \E r, c \in 0..(k - 1) : x = r * k + c
  <2>1. PICK r \in Int, c \in 0..(k - 1) : x = r * k + c
    <3>1. x \in Int
      BY <1>1
    <3>2. /\ x \div k \in Int /\ x % k \in 0..(k - 1)
          /\ x = (x \div k) * k + (x % k)
      BY <1>1, <3>1, DivisionFacts
    <3> QED BY <3>2
  <2>2. r * k \in Int /\ k * k \in Int
    BY <1>1
  <2>3. ~(r < 0)
    <3> SUFFICES ASSUME r < 0 PROVE FALSE
      OBVIOUS
    <3>1. r * k + k <= 0 * k
      BY <1>1, ProductGrows
    <3> QED BY <1>1, <2>1, <2>2, <3>1
  <2>4. ~(k - 1 < r)
    <3> SUFFICES ASSUME k - 1 < r PROVE FALSE
      OBVIOUS
    <3>1. (k - 1) * k + k <= r * k
      BY <1>1, ProductGrows
    <3>2. (k - 1) * k + k = k * k
      BY <1>1
    <3> QED BY <1>1, <2>1, <2>2, <3>1, <3>2
  <2>5. r \in 0..(k - 1)
    BY <1>1, <2>3, <2>4
  <2> QED BY <2>1, <2>5
<1>3. PICK r1 \in 0..(k - 1), c1 \in 0..(k - 1) : m = r1 * k + c1
  BY <1>2
<1>4. PICK r2 \in 0..(k - 1), c2 \in 0..(k - 1) : n = r2 * k + c2
  BY <1>2
<1>5. PICK l1 \in 1..(k \div 2) : OnSquare(k, l1, r1, c1)
  BY LayerOfNode
<1>6. PICK l2 \in 1..(k \div 2) : OnSquare(k, l2, r2, c2)
  BY LayerOfNode
<1>7. PICK d \in Nat : d = k \div 2
  BY <1>1
<1>8. /\ r1 \in (d - l1)..(d + l1 - 1) /\ c1 \in (d - l1)..(d + l1 - 1)
      /\ r2 \in (d - l2)..(d + l2 - 1) /\ c2 \in (d - l2)..(d + l2 - 1)
  BY <1>5, <1>6, <1>7 DEF OnSquare, OnBorder, FirstOf, LastOf
<1>9. CASE l2 <= l1
  <2>1. r2 \in FirstOf(k, l1)..LastOf(k, l1) /\ c2 \in FirstOf(k, l1)..LastOf(k, l1)
    BY <1>1, <1>7, <1>8, <1>9 DEF FirstOf, LastOf
  <2> QED BY <1>3, <1>4, <1>5, <2>1, LayerConnects
<1>10. CASE l1 <= l2
  <2>1. r1 \in FirstOf(k, l2)..LastOf(k, l2) /\ c1 \in FirstOf(k, l2)..LastOf(k, l2)
    BY <1>1, <1>7, <1>8, <1>10 DEF FirstOf, LastOf
  <2>2. Share(k, n, m)
    BY <1>3, <1>4, <1>6, <2>1, LayerConnects
  <2> QED BY <2>2 DEF Share
<1> QED BY <1>1, <1>9, <1>10

-----------------------------------------------------------------------------
(* Hops round a ring.                                                      *)

\* Remainders of sums.
LEMMA Remainders ==
  ASSUME NEW l \in Nat \ {0}
  PROVE  /\ \A x \in 0..(l - 1) : x % l = x
         /\ \A x \in Int : (x + l) % l = x % l
         /\ \A x \in Int : (x + 1) % l = IF x % l = l - 1 THEN 0 ELSE (x % l) + 1
         /\ \A a, b \in 0..(l - 1) : (a - b) % l = IF b <= a THEN a - b ELSE a - b + l
<1>1. ASSUME NEW x \in 0..(l - 1) PROVE x % l = x
  <2>1. (0 * l + x) % l = x
    BY Division
  <2> QED BY <2>1
<1>2. ASSUME NEW x \in Int
      PROVE  /\ (x + l) % l = x % l
             /\ (x + 1) % l = IF x % l = l - 1 THEN 0 ELSE (x % l) + 1
  <2>1. PICK q \in Int, m \in 0..(l - 1) : x = q * l + m /\ x % l = m
    BY DivisionFacts
  <2>2. ((q + 1) * l + m) % l = m
    <3>1. q + 1 \in Int
      OBVIOUS
    <3> QED BY <3>1, Division
  <2>3. x + l = (q + 1) * l + m
    BY <2>1
  <2>4. CASE m = l - 1
    <3>1. x + 1 = (q + 1) * l + 0
      BY <2>1, <2>4
    <3>2. ((q + 1) * l + 0) % l = 0
      <4>1. q + 1 \in Int /\ 0 \in 0..(l - 1)
        OBVIOUS
      <4> QED BY <4>1, Division
    <3> QED BY <2>1, <2>2, <2>3, <2>4, <3>1, <3>2
  <2>5. CASE m # l - 1
    <3>1. x + 1 = q * l + (m + 1) /\ m + 1 \in 0..(l - 1)
      BY <2>1, <2>5
    <3>2. (q * l + (m + 1)) % l = m + 1
      BY <3>1, Division
    <3> QED BY <2>1, <2>2, <2>3, <2>5, <3>1, <3>2
  <2> QED BY <2>4, <2>5
<1>3. ASSUME NEW a \in 0..(l - 1), NEW b \in 0..(l - 1)
      PROVE  (a - b) % l = IF b <= a THEN a - b ELSE a - b + l
  <2>1. CASE b <= a
    <3>1. a - b \in 0..(l - 1)
      BY <2>1
    <3> QED BY <1>1, <2>1, <3>1
  <2>2. CASE ~(b <= a)
    <3>1. a - b + l \in 0..(l - 1) /\ a - b \in Int
      BY <2>2
    <3>2. (a - b + l) % l = (a - b) % l
      BY <1>2, <3>1
    <3> QED BY <1>1, <2>2, <3>1, <3>2
  <2> QED BY <2>1, <2>2
<1> QED BY <1>1, <1>2, <1>3

\* The place of a node on a ring, and the node m hops from it.
PlaceOf(s, n) == CHOOSE p \in 1..Len(s) : s[p] = n
Hops(s, n, m) == s[((PlaceOf(s, n) + m - 1) % Len(s)) + 1]

\* On a ring that visits no node twice a node has one place.
LEMMA PlaceFacts ==
  ASSUME NEW k, NEW s, IsCycle(k, s), NEW n \in ToSet(s)
  PROVE  /\ PlaceOf(s, n) \in 1..Len(s) /\ s[PlaceOf(s, n)] = n
         /\ \A p \in 1..Len(s) : s[p] = n => p = PlaceOf(s, n)
<1>1. DOMAIN s = 1..Len(s) /\ \A p, q \in 1..Len(s) : s[p] = s[q] => p = q
  BY DEF IsCycle
<1>2. \E p \in 1..Len(s) : s[p] = n
  BY <1>1 DEF ToSet
<1>3. PICK i : i = PlaceOf(s, n)
  OBVIOUS
<1>4. i \in 1..Len(s) /\ s[i] = n
  BY <1>2, <1>3 DEF PlaceOf
<1> QED BY <1>1, <1>3, <1>4

\* The place m hops from p.
LEMMA HopFacts ==
  ASSUME NEW k, NEW s, IsCycle(k, s), NEW n \in ToSet(s), NEW m \in Nat
  PROVE  /\ Hops(s, n, m) \in ToSet(s)
         /\ PlaceOf(s, Hops(s, n, m)) = ((PlaceOf(s, n) + m - 1) % Len(s)) + 1
         /\ Hops(s, n, 0) = n /\ Hops(s, n, Len(s)) = n
         /\ Hops(s, n, m + 1) = Successor(s)[Hops(s, n, m)]
<1>1. PICK l \in Nat \ {0} : l = Len(s) /\ DOMAIN s = 1..l
  BY DEF IsCycle
<1>2. PICK p \in 1..l : p = PlaceOf(s, n) /\ s[p] = n
  BY <1>1, PlaceFacts
<1>3. PICK i \in 1..l : i = ((p + m - 1) % l) + 1
  <2>1. p + m - 1 \in Int
    OBVIOUS
  <2>2. ((p + m - 1) % l) + 1 \in 1..l
    BY <2>1, DivisionFacts
  <2> QED BY <2>2
<1>4. Hops(s, n, m) = s[i] /\ s[i] \in ToSet(s)
  BY <1>1, <1>2, <1>3 DEF Hops, ToSet
<1>5. PlaceOf(s, s[i]) = i
  BY <1>1, <1>4, PlaceFacts
<1>6. Hops(s, n, 0) = n /\ Hops(s, n, l) = n
  <2>1. p - 1 \in 0..(l - 1) /\ p - 1 \in Int
    OBVIOUS
  <2>2. (p - 1) % l = p - 1 /\ ((p - 1) + l) % l = p - 1
    BY <2>1, Remainders
  <2>3. p + 0 - 1 = p - 1 /\ p + l - 1 = (p - 1) + l /\ (p - 1) + 1 = p
    OBVIOUS
  <2> QED BY <1>1, <1>2, <2>2, <2>3 DEF Hops
<1>7. Hops(s, n, m + 1) = Successor(s)[Hops(s, n, m)]
  <2>1. PICK x \in Int : x = p + m - 1
    OBVIOUS
  <2>2. p + (m + 1) - 1 = x + 1
    BY <2>1
  <2>3. (x + 1) % l = IF x % l = l - 1 THEN 0 ELSE (x % l) + 1
    BY Remainders
  <2>4. x % l = i - 1
    BY <1>3, <2>1, DivisionFacts
  <2>5. ((x + 1) % l) + 1 = IF i = l THEN 1 ELSE i + 1
    BY <2>3, <2>4
  <2>6. Hops(s, n, m + 1) = s[IF i = l THEN 1 ELSE i + 1]
    BY <1>1, <1>2, <2>2, <2>5 DEF Hops
  <2>7. Successor(s)[s[i]] = s[IF i = l THEN 1 ELSE i + 1]
    <3>1. PICK y : y = s[i]
      OBVIOUS
    <3>2. y \in ToSet(s) /\ (CHOOSE j \in 1..Len(s) : s[j] = y) = i
      BY <1>4, <1>5, <3>1 DEF PlaceOf
    <3>3. PICK z : z = CHOOSE j \in 1..Len(s) : s[j] = y
      OBVIOUS
    <3>4. Successor(s)[y] = s[IF z = Len(s) THEN 1 ELSE z + 1]
      BY <3>2, <3>3 DEF Successor
    <3> QED BY <1>1, <3>1, <3>2, <3>3, <3>4
  <2> QED BY <1>4, <2>6, <2>7
<1> QED BY <1>1, <1>2, <1>3, <1>4, <1>5, <1>6, <1>7

\* Nodes that differ stay apart.
LEMMA HopsApart ==
  ASSUME NEW k, NEW s, IsCycle(k, s), NEW n \in ToSet(s), NEW o \in ToSet(s),
         NEW m \in Nat, Hops(s, n, m) = Hops(s, o, m)
  PROVE  n = o
<1>1. PICK l \in Nat \ {0} : l = Len(s)
  BY DEF IsCycle
<1>2. PICK p \in 1..l : p = PlaceOf(s, n) /\ s[p] = n
  BY <1>1, PlaceFacts
<1>3. PICK q \in 1..l : q = PlaceOf(s, o) /\ s[q] = o
  BY <1>1, PlaceFacts
<1>4. ((p + m - 1) % l) + 1 = ((q + m - 1) % l) + 1
  BY <1>1, <1>2, <1>3, HopFacts
<1>5. p + m - 1 \in Int /\ q + m - 1 \in Int
  OBVIOUS
<1>6. PICK a \in Int, c \in 0..(l - 1) : p + m - 1 = a * l + c /\ (p + m - 1) % l = c
  BY <1>5, DivisionFacts
<1>7. PICK b \in Int : q + m - 1 = b * l + c
  <2>1. PICK x \in Int : x = q + m - 1 /\ x % l = c
    BY <1>4, <1>5, <1>6, DivisionFacts
  <2>2. x \div l \in Int /\ x = (x \div l) * l + (x % l)
    BY DivisionFacts
  <2> QED BY <2>1, <2>2
<1>8. ~(a < b)
  <2> SUFFICES ASSUME a < b PROVE FALSE
    OBVIOUS
  <2>1. a * l + l <= b * l /\ a * l \in Int /\ b * l \in Int
    BY ProductGrows
  <2> QED BY <1>6, <1>7, <2>1
<1>9. ~(b < a)
  <2> SUFFICES ASSUME b < a PROVE FALSE
    OBVIOUS
  <2>1. b * l + l <= a * l /\ a * l \in Int /\ b * l \in Int
    BY ProductGrows
  <2> QED BY <1>6, <1>7, <2>1
<1>10. a = b
  BY <1>8, <1>9
<1>11. p = q
  BY <1>6, <1>7, <1>10
<1> QED BY <1>2, <1>3, <1>11

\* The distance is the number of hops.
LEMMA DistanceFacts ==
  ASSUME NEW k, NEW s, IsCycle(k, s), NEW n \in ToSet(s)
  PROVE  /\ \A d \in ToSet(s) : /\ Distance(s, n, d) \in 0..(Len(s) - 1)
                                /\ Hops(s, n, Distance(s, n, d)) = d
                                /\ (Distance(s, n, d) = 0 <=> d = n)
         /\ \A m \in 0..(Len(s) - 1) : Distance(s, n, Hops(s, n, m)) = m
<1>1. PICK l \in Nat \ {0} : l = Len(s)
  BY DEF IsCycle
<1>2. PICK p \in 1..l : p = PlaceOf(s, n) /\ s[p] = n
  BY <1>1, PlaceFacts
<1>3. ASSUME NEW d \in ToSet(s)
      PROVE  Distance(s, n, d) = (PlaceOf(s, d) - p) % l
  BY <1>1, <1>2 DEF Distance, PlaceOf
<1>4. ASSUME NEW d \in ToSet(s)
      PROVE  /\ Distance(s, n, d) \in 0..(l - 1)
             /\ Hops(s, n, Distance(s, n, d)) = d
             /\ (Distance(s, n, d) = 0 <=> d = n)
  <2>1. PICK q \in 1..l : q = PlaceOf(s, d) /\ s[q] = d
    BY <1>1, PlaceFacts
  <2>2. PICK e \in Int : e = Distance(s, n, d) /\ e = (q - p) % l
    <3>1. q - p \in Int
      OBVIOUS
    <3>2. (q - p) % l \in Int
      BY <3>1, DivisionFacts
    <3> QED BY <1>3, <2>1, <3>2
  <2>3. e = IF p <= q THEN q - p ELSE q - p + l
    <3>1. q - 1 \in 0..(l - 1) /\ p - 1 \in 0..(l - 1) /\ (q - 1) - (p - 1) = q - p
      OBVIOUS
    <3>2. ((q - 1) - (p - 1)) % l
            = IF p - 1 <= q - 1 THEN (q - 1) - (p - 1) ELSE (q - 1) - (p - 1) + l
      BY <3>1, Remainders
    <3> QED BY <2>2, <3>1, <3>2
  <2>4. e \in 0..(l - 1) /\ (e = 0 <=> p = q)
    BY <2>3
  <2>5. (p + e - 1) % l = q - 1
    <3>1. q - 1 \in 0..(l - 1) /\ q - 1 \in Int
      OBVIOUS
    <3>2. CASE p <= q
      <4>1. p + e - 1 = q - 1
        BY <2>3, <3>2
      <4> QED BY <3>1, <4>1, Remainders
    <3>3. CASE ~(p <= q)
      <4>1. p + e - 1 = (q - 1) + l
        BY <2>3, <3>3
      <4>2. ((q - 1) + l) % l = (q - 1) % l /\ (q - 1) % l = q - 1
        BY <3>1, Remainders
      <4> QED BY <4>1, <4>2
    <3> QED BY <3>2, <3>3
  <2>6. Hops(s, n, e) = s[(q - 1) + 1]
    BY <1>1, <1>2, <2>5 DEF Hops
  <2>7. Hops(s, n, e) = d
    BY <2>1, <2>6
  <2>8. p = q <=> d = n
    BY <1>1, <1>2, <2>1
  <2> QED BY <2>2, <2>4, <2>7, <2>8
<1>5. ASSUME NEW m \in 0..(l - 1)
      PROVE  Distance(s, n, Hops(s, n, m)) = m
  <2>1. PICK q \in 1..l : q = ((p + m - 1) % l) + 1
    <3>1. p + m - 1 \in Int
      OBVIOUS
    <3>2. ((p + m - 1) % l) + 1 \in 1..l
      BY <3>1, DivisionFacts
    <3> QED BY <3>2
  <2>2. Hops(s, n, m) \in ToSet(s) /\ PlaceOf(s, Hops(s, n, m)) = q
    BY <1>1, <1>2, <2>1, HopFacts
  <2>3. Distance(s, n, Hops(s, n, m)) = (q - p) % l
    BY <1>3, <2>2
  <2>4. q - 1 = IF p + m - 1 < l THEN p + m - 1 ELSE p + m - 1 - l
    <3>1. CASE p + m - 1 < l
      <4>1. p + m - 1 \in 0..(l - 1)
        BY <3>1
      <4>2. (p + m - 1) % l = p + m - 1
        BY <4>1, Remainders
      <4> QED BY <2>1, <3>1, <4>2
    <3>2. CASE ~(p + m - 1 < l)
      <4>1. p + m - 1 - l \in 0..(l - 1) /\ p + m - 1 - l \in Int
        BY <3>2
      <4>2. ((p + m - 1 - l) + l) % l = (p + m - 1 - l) % l
            /\ (p + m - 1 - l) % l = p + m - 1 - l
        BY <4>1, Remainders
      <4>3. (p + m - 1 - l) + l = p + m - 1
        OBVIOUS
      <4> QED BY <2>1, <3>2, <4>2, <4>3
    <3> QED BY <3>1, <3>2
  <2>5. (q - p) % l = m
    <3>1. q - 1 \in 0..(l - 1) /\ p - 1 \in 0..(l - 1) /\ (q - 1) - (p - 1) = q - p
      OBVIOUS
    <3>2. ((q - 1) - (p - 1)) % l
            = IF p - 1 <= q - 1 THEN (q - 1) - (p - 1) ELSE (q - 1) - (p - 1) + l
      BY <3>1, Remainders
    <3> QED BY <2>4, <3>1, <3>2
  <2> QED BY <2>3, <2>5
<1> QED BY <1>1, <1>4, <1>5
=============================================================================
