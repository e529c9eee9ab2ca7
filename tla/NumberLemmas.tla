---------------------------- MODULE NumberLemmas ----------------------------
(***************************************************************************)
(* Facts about natural numbers, sums over finite sets and iteration the    *)
(* other proofs rest on.  Induction is over a set of naturals: what holds  *)
(* of n is the set of those n, so that no lemma takes an operator.         *)
(***************************************************************************)
EXTENDS Integers, FiniteSets, FiniteSetsExt, FiniteSetTheorems,
        WellFoundedInduction, TLAPS

\* Every non-empty set of naturals has a least element: what "the first" of
\* the loops over EXBs, routes and flits means.
THEOREM LeastNatural ==
  ASSUME NEW S \in SUBSET Nat, S # {}
  PROVE  \E x \in S : \A y \in S : x <= y
<1> DEFINE Less == {ss \in Nat \X Nat : ss[1] < ss[2]}
<1>1. IsWellFoundedOn(Less, Nat)
  BY NatLessThanWellFounded DEF OpToRel
<1>2. PICK x \in S : \A y \in S : ~ (<<y, x>> \in Less)
  <2> HIDE DEF Less
  <2> QED BY <1>1, WFMin
<1>3. \A y \in S : ~ (y < x)
  BY <1>2
<1> QED
  BY <1>3

\* Induction: a set of naturals with 0 and every successor has them all.
THEOREM Induction ==
  ASSUME NEW S, 0 \in S, \A n \in Nat : n \in S => n + 1 \in S
  PROVE  \A n \in Nat : n \in S
<1> SUFFICES ASSUME Nat \ S # {} PROVE FALSE
  OBVIOUS
<1>1. PICK m \in Nat \ S : \A k \in Nat \ S : m <= k
  BY LeastNatural
<1>2. m # 0 /\ m - 1 \in Nat /\ m = (m - 1) + 1
  BY <1>1
<1>3. m - 1 \in S
  <2> SUFFICES ASSUME m - 1 \notin S PROVE FALSE
    OBVIOUS
  <2> QED BY <1>1, <1>2
<1> QED BY <1>1, <1>2, <1>3

-----------------------------------------------------------------------------
(* The sum of a function over a finite set, SumFunctionOnSet.              *)

\* The element the fold takes first of a set, and what its recursive function
\* computes of the subsets s of S.
Taken(s) == CHOOSE x \in s : TRUE
SumAt(g, fun, s) ==
  IF s = {} THEN 0 ELSE fun[Taken(s)] + g[s \ {Taken(s)}]
IsSum(g, fun, S) == g = [s \in SUBSET S |-> SumAt(g, fun, s)]

\* The sum, in terms of the recursive function its definition chooses.
LEMMA SumIsChosen ==
  ASSUME NEW fun, NEW S
  PROVE  SumFunctionOnSet(fun, S) = (CHOOSE g : IsSum(g, fun, S))[S]
BY DEF SumFunctionOnSet, FoldFunctionOnSet, MapThenFoldSet, IsSum, SumAt, Taken

\* Taking an element out of a finite set.
LEMMA OneLess ==
  ASSUME NEW s, IsFiniteSet(s), s # {}
  PROVE  /\ Taken(s) \in s /\ IsFiniteSet(s \ {Taken(s)})
         /\ Cardinality(s) \in Nat \ {0}
         /\ Cardinality(s \ {Taken(s)}) = Cardinality(s) - 1
<1>1. Taken(s) \in s
  BY DEF Taken
<1>2. IsFiniteSet(s \ {Taken(s)}) /\ Cardinality(s \ {Taken(s)}) = Cardinality(s) - 1
  BY <1>1, FS_RemoveElement
<1>3. Cardinality(s) \in Nat /\ Cardinality(s) # 0
  BY FS_CardinalityType, FS_EmptySet
<1> QED BY <1>1, <1>2, <1>3

\* The recursion of the fold is well founded: it defines a function.
LEMMA SumExists ==
  ASSUME NEW fun, NEW S, IsFiniteSet(S)
  PROVE  \E g : IsSum(g, fun, S)
<1> DEFINE Small(n) == {s \in SUBSET S : Cardinality(s) <= n}
           Defined(n) == \E g : g = [s \in Small(n) |-> SumAt(g, fun, s)]
           Done == {n \in Nat : Defined(n)}
<1>1. \A s \in SUBSET S : IsFiniteSet(s) /\ Cardinality(s) \in Nat
                           /\ Cardinality(s) <= Cardinality(S)
  BY FS_Subset, FS_CardinalityType
<1>2. 0 \in Done
  <2>1. \A s \in Small(0) : s = {}
    BY <1>1, FS_EmptySet
  <2> DEFINE g == [s \in Small(0) |-> 0]
  <2>2. g = [s \in Small(0) |-> SumAt(g, fun, s)]
    BY <2>1 DEF SumAt
  <2> QED BY <2>2
<1>3. ASSUME NEW n \in Nat, n \in Done
      PROVE  n + 1 \in Done
  <2>1. PICK g : g = [s \in Small(n) |-> SumAt(g, fun, s)]
    BY <1>3
  <2> DEFINE h == [s \in Small(n + 1) |-> SumAt(g, fun, s)]
  <2>2. ASSUME NEW s \in Small(n + 1)
        PROVE  SumAt(g, fun, s) = SumAt(h, fun, s)
    <3>1. CASE s = {}
      BY <3>1 DEF SumAt
    <3>2. CASE s # {}
      <4>1. PICK c : c = Taken(s)
        OBVIOUS
      <4>2. s \ {c} \in Small(n) /\ s \ {c} \in Small(n + 1)
        BY <1>1, <3>2, <4>1, OneLess
      <4>3. g[s \ {c}] = h[s \ {c}]
        BY <2>1, <4>2
      <4> QED BY <3>2, <4>1, <4>3 DEF SumAt
    <3> QED BY <3>1, <3>2
  <2>3. h = [s \in Small(n + 1) |-> SumAt(h, fun, s)]
    BY <2>2
  <2>4. Defined(n + 1)
    BY <2>3
  <2> HIDE DEF Defined
  <2> QED BY <2>4
<1>4. Cardinality(S) \in Done
  <2> HIDE DEF Done
  <2> QED BY <1>1, <1>2, <1>3, Induction
<1>5. Small(Cardinality(S)) = SUBSET S
  BY <1>1
<1> QED BY <1>4, <1>5 DEF IsSum

\* Only the values on the set matter.
LEMMA SumUnique ==
  ASSUME NEW S, IsFiniteSet(S), NEW T \in SUBSET S, NEW fun, NEW gun,
         \A x \in T : fun[x] = gun[x],
         NEW g, IsSum(g, fun, S), NEW h, IsSum(h, gun, T)
  PROVE  \A s \in SUBSET T : g[s] = h[s]
<1> DEFINE Done == {n \in Nat : \A s \in SUBSET T : Cardinality(s) = n => g[s] = h[s]}
<1>1. \A s \in SUBSET T : /\ IsFiniteSet(s) /\ Cardinality(s) \in Nat
                          /\ g[s] = SumAt(g, fun, s) /\ h[s] = SumAt(h, gun, s)
  BY FS_Subset, FS_CardinalityType DEF IsSum
<1>2. 0 \in Done
  BY <1>1, FS_EmptySet DEF SumAt
<1>3. ASSUME NEW n \in Nat, n \in Done
      PROVE  n + 1 \in Done
  <2> SUFFICES ASSUME NEW s \in SUBSET T, Cardinality(s) = n + 1
               PROVE  g[s] = h[s]
    OBVIOUS
  <2>1. s # {}
    BY FS_EmptySet
  <2>2. PICK c : c = Taken(s)
    OBVIOUS
  <2>3. c \in s /\ Cardinality(s \ {c}) = n
    BY <1>1, <2>1, <2>2, OneLess
  <2>4. g[s \ {c}] = h[s \ {c}]
    BY <1>3, <2>3
  <2> QED BY <1>1, <2>1, <2>2, <2>3, <2>4 DEF SumAt
<1>4. \A n \in Nat : n \in Done
  <2> HIDE DEF Done
  <2> QED BY <1>2, <1>3, Induction
<1> QED BY <1>1, <1>4

\* The function that is chosen for a set also holds the sums of its subsets.
LEMMA SumFacts ==
  ASSUME NEW fun, NEW S, IsFiniteSet(S)
  PROVE  \E g : /\ IsSum(g, fun, S)
                /\ \A T \in SUBSET S : g[T] = SumFunctionOnSet(fun, T)
<1>1. PICK g : IsSum(g, fun, S)
  BY SumExists
<1>2. ASSUME NEW T \in SUBSET S
      PROVE  g[T] = SumFunctionOnSet(fun, T)
  <2>1. IsFiniteSet(T)
    BY FS_Subset
  <2>2. PICK h : h = CHOOSE i : IsSum(i, fun, T)
    OBVIOUS
  <2>3. IsSum(h, fun, T)
    BY <2>1, <2>2, SumExists
  <2>4. g[T] = h[T]
    BY <1>1, <2>3, SumUnique
  <2> QED BY <2>2, <2>4, SumIsChosen
<1> QED BY <1>1, <1>2

\* The empty sum, the sum of functions that agree, and of all but one element.
LEMMA SumEmpty == ASSUME NEW fun PROVE SumFunctionOnSet(fun, {}) = 0
<1>1. IsFiniteSet({})
  BY FS_EmptySet
<1>2. PICK g : IsSum(g, fun, {}) /\ g[{}] = SumFunctionOnSet(fun, {})
  BY <1>1, SumFacts
<1> QED BY <1>2 DEF IsSum, SumAt

\* Functions that agree have the same sum.
LEMMA SumCongruence ==
  ASSUME NEW S, IsFiniteSet(S), NEW fun, NEW gun, \A x \in S : fun[x] = gun[x]
  PROVE  SumFunctionOnSet(fun, S) = SumFunctionOnSet(gun, S)
<1>1. PICK g : IsSum(g, fun, S) /\ g[S] = SumFunctionOnSet(fun, S)
  BY SumFacts
<1>2. PICK h : IsSum(h, gun, S) /\ h[S] = SumFunctionOnSet(gun, S)
  BY SumFacts
<1> QED BY <1>1, <1>2, SumUnique

\* A sum is that of the element taken first and that of the others.
LEMMA SumChosen ==
  ASSUME NEW S, IsFiniteSet(S), S # {}, NEW fun
  PROVE  SumFunctionOnSet(fun, S)
         = fun[Taken(S)] + SumFunctionOnSet(fun, S \ {Taken(S)})
<1>1. PICK g : /\ IsSum(g, fun, S)
               /\ \A T \in SUBSET S : g[T] = SumFunctionOnSet(fun, T)
  BY SumFacts
<1>2. g[S] = SumAt(g, fun, S)
  BY <1>1 DEF IsSum
<1>3. g[S] = fun[Taken(S)] + g[S \ {Taken(S)}]
  BY <1>2 DEF SumAt
<1>4. S \ {Taken(S)} \in SUBSET S /\ S \in SUBSET S
  OBVIOUS
<1> QED BY <1>1, <1>3, <1>4

\* A sum of integers is an integer.
LEMMA SumType ==
  ASSUME NEW S, IsFiniteSet(S), NEW fun, \A x \in S : fun[x] \in Int
  PROVE  SumFunctionOnSet(fun, S) \in Int
<1> DEFINE Done == {n \in Nat : \A s \in SUBSET S :
                      Cardinality(s) = n => SumFunctionOnSet(fun, s) \in Int}
<1>1. \A s \in SUBSET S : IsFiniteSet(s) /\ Cardinality(s) \in Nat
  BY FS_Subset, FS_CardinalityType
<1>2. 0 \in Done
  BY <1>1, FS_EmptySet, SumEmpty
<1>3. ASSUME NEW n \in Nat, n \in Done
      PROVE  n + 1 \in Done
  <2> SUFFICES ASSUME NEW s \in SUBSET S, Cardinality(s) = n + 1
               PROVE  SumFunctionOnSet(fun, s) \in Int
    OBVIOUS
  <2>1. s # {}
    BY FS_EmptySet
  <2>2. PICK c : c = Taken(s)
    OBVIOUS
  <2>3. c \in s /\ Cardinality(s \ {c}) = n
    BY <1>1, <2>1, <2>2, OneLess
  <2>4. SumFunctionOnSet(fun, s \ {c}) \in Int
    BY <1>3, <2>3
  <2>5. SumFunctionOnSet(fun, s) = fun[c] + SumFunctionOnSet(fun, s \ {c})
    BY <1>1, <2>1, <2>2, SumChosen
  <2> QED BY <2>3, <2>4, <2>5
<1>4. \A n \in Nat : n \in Done
  <2> HIDE DEF Done
  <2> QED BY <1>2, <1>3, Induction
<1> QED BY <1>1, <1>4

\* The order of the summands does not matter: any element may go first.
LEMMA SumRemove ==
  ASSUME NEW S, IsFiniteSet(S), NEW fun, \A y \in S : fun[y] \in Int, NEW x \in S
  PROVE  SumFunctionOnSet(fun, S) = fun[x] + SumFunctionOnSet(fun, S \ {x})
<1> DEFINE Sum(s) == SumFunctionOnSet(fun, s)
           Done == {n \in Nat : \A s \in SUBSET S : \A y \in s :
                      Cardinality(s) = n => Sum(s) = fun[y] + Sum(s \ {y})}
<1>1. \A s \in SUBSET S : /\ IsFiniteSet(s) /\ Cardinality(s) \in Nat
                          /\ Sum(s) \in Int
  <2> TAKE s \in SUBSET S
  <2>1. IsFiniteSet(s) /\ Cardinality(s) \in Nat
    BY FS_Subset, FS_CardinalityType
  <2>2. \A y \in s : fun[y] \in Int
    OBVIOUS
  <2> QED BY <2>1, <2>2, SumType
<1>2. 0 \in Done
  BY <1>1, FS_EmptySet
<1>3. ASSUME NEW n \in Nat, n \in Done
      PROVE  n + 1 \in Done
  <2> SUFFICES ASSUME NEW s \in SUBSET S, NEW y \in s, Cardinality(s) = n + 1
               PROVE  Sum(s) = fun[y] + Sum(s \ {y})
    OBVIOUS
  <2>2. PICK c : c = Taken(s)
    OBVIOUS
  <2>3. c \in s /\ Cardinality(s \ {c}) = n
    BY <1>1, <2>2, OneLess
  <2>4. Sum(s) = fun[c] + Sum(s \ {c})
    BY <1>1, <2>2, SumChosen
  <2>5. CASE y = c
    BY <2>4, <2>5
  <2>6. CASE y # c
    <3>1. Cardinality(s \ {y}) = n
      BY <1>1, FS_RemoveElement
    <3>2. Sum(s \ {c}) = fun[y] + Sum((s \ {c}) \ {y})
      BY <1>3, <2>3, <2>6
    <3>3. Sum(s \ {y}) = fun[c] + Sum((s \ {y}) \ {c})
      BY <1>3, <2>3, <2>6, <3>1
    <3>4. PICK rest : rest = (s \ {c}) \ {y}
      OBVIOUS
    <3>5. rest = (s \ {y}) \ {c} /\ rest \in SUBSET S
      BY <3>4
    <3>6. Sum(rest) \in Int
      BY <1>1, <3>5
    <3>7. fun[c] \in Int /\ fun[y] \in Int
      BY <2>3
    <3>8. Sum(s) = fun[c] + (fun[y] + Sum(rest))
      BY <2>4, <3>2, <3>4
    <3>9. fun[y] + Sum(s \ {y}) = fun[y] + (fun[c] + Sum(rest))
      BY <3>3, <3>5
    <3> QED BY <3>6, <3>7, <3>8, <3>9
  <2> QED BY <2>5, <2>6
<1>4. \A n \in Nat : n \in Done
  <2> HIDE DEF Done
  <2> QED BY <1>2, <1>3, Induction
<1> QED BY <1>1, <1>4

\* Two functions that differ in one element.
LEMMA SumUpdate ==
  ASSUME NEW S, IsFiniteSet(S), NEW fun, \A y \in S : fun[y] \in Int,
         NEW gun, \A y \in S : gun[y] \in Int,
         NEW x \in S, \A y \in S \ {x} : gun[y] = fun[y]
  PROVE  SumFunctionOnSet(gun, S) = SumFunctionOnSet(fun, S) - fun[x] + gun[x]
<1>1. SumFunctionOnSet(fun, S) = fun[x] + SumFunctionOnSet(fun, S \ {x})
  BY SumRemove
<1>2. SumFunctionOnSet(gun, S) = gun[x] + SumFunctionOnSet(gun, S \ {x})
  BY SumRemove
<1>3. IsFiniteSet(S \ {x})
  BY FS_RemoveElement
<1>4. SumFunctionOnSet(fun, S \ {x}) = SumFunctionOnSet(gun, S \ {x})
  BY <1>3, SumCongruence
<1>5. SumFunctionOnSet(fun, S \ {x}) \in Int
  BY <1>3, SumType
<1> QED BY <1>1, <1>2, <1>4, <1>5

\* A sum of zeros.
LEMMA SumZero ==
  ASSUME NEW S, IsFiniteSet(S), NEW fun, \A x \in S : fun[x] = 0
  PROVE  SumFunctionOnSet(fun, S) = 0
<1> DEFINE Done == {n \in Nat : \A s \in SUBSET S :
                      Cardinality(s) = n => SumFunctionOnSet(fun, s) = 0}
<1>1. \A s \in SUBSET S : IsFiniteSet(s) /\ Cardinality(s) \in Nat
  BY FS_Subset, FS_CardinalityType
<1>2. 0 \in Done
  BY <1>1, FS_EmptySet, SumEmpty
<1>3. ASSUME NEW n \in Nat, n \in Done
      PROVE  n + 1 \in Done
  <2> SUFFICES ASSUME NEW s \in SUBSET S, Cardinality(s) = n + 1
               PROVE  SumFunctionOnSet(fun, s) = 0
    OBVIOUS
  <2>1. s # {}
    BY FS_EmptySet
  <2>2. PICK c : c = Taken(s)
    OBVIOUS
  <2>3. c \in s /\ Cardinality(s \ {c}) = n
    BY <1>1, <2>1, <2>2, OneLess
  <2>4. SumFunctionOnSet(fun, s \ {c}) = 0
    BY <1>3, <2>3
  <2>5. SumFunctionOnSet(fun, s) = fun[c] + SumFunctionOnSet(fun, s \ {c})
    BY <1>1, <2>1, <2>2, SumChosen
  <2> QED BY <2>3, <2>4, <2>5
<1>4. \A n \in Nat : n \in Done
  <2> HIDE DEF Done
  <2> QED BY <1>2, <1>3, Induction
<1> QED BY <1>1, <1>4

\* The sum over two disjoint sets.
LEMMA SumUnion ==
  ASSUME NEW S, IsFiniteSet(S), NEW T, IsFiniteSet(T), S \cap T = {},
         NEW fun, \A x \in S \cup T : fun[x] \in Int
  PROVE  SumFunctionOnSet(fun, S \cup T)
         = SumFunctionOnSet(fun, S) + SumFunctionOnSet(fun, T)
<1> DEFINE Sum(s) == SumFunctionOnSet(fun, s)
           Done == {n \in Nat : \A s \in SUBSET T :
                      Cardinality(s) = n => Sum(S \cup s) = Sum(S) + Sum(s)}
<1>1. \A s \in SUBSET T : /\ IsFiniteSet(s) /\ Cardinality(s) \in Nat
                          /\ IsFiniteSet(S \cup s)
                          /\ Sum(s) \in Int /\ Sum(S) \in Int
  <2> TAKE s \in SUBSET T
  <2>1. IsFiniteSet(s) /\ Cardinality(s) \in Nat /\ IsFiniteSet(S \cup s)
    BY FS_Subset, FS_CardinalityType, FS_Union
  <2>2. \A y \in s : fun[y] \in Int
    OBVIOUS
  <2>3. \A y \in S : fun[y] \in Int
    OBVIOUS
  <2> QED BY <2>1, <2>2, <2>3, SumType
<1>2. 0 \in Done
  <2> SUFFICES ASSUME NEW s \in SUBSET T, Cardinality(s) = 0
               PROVE  Sum(S \cup s) = Sum(S) + Sum(s)
    OBVIOUS
  <2>1. s = {} /\ S \cup s = S
    BY <1>1, FS_EmptySet
  <2>2. Sum(s) = 0
    BY <2>1, SumEmpty
  <2> QED BY <1>1, <2>1, <2>2
<1>3. ASSUME NEW n \in Nat, n \in Done
      PROVE  n + 1 \in Done
  <2> SUFFICES ASSUME NEW s \in SUBSET T, Cardinality(s) = n + 1
               PROVE  Sum(S \cup s) = Sum(S) + Sum(s)
    OBVIOUS
  <2>a. s # {}
    BY <1>1, FS_EmptySet
  <2>1. PICK c : c \in s
    BY <2>a
  <2>2. PICK r \in SUBSET T : r = s \ {c}
    OBVIOUS
  <2>3. Cardinality(r) = n
    <3>1. Cardinality(s \ {c}) = Cardinality(s) - 1
      BY <1>1, <2>1, FS_RemoveElement
    <3> QED BY <2>2, <3>1
  <2>4. Sum(S \cup r) = Sum(S) + Sum(r)
    BY <1>3, <2>3
  <2>5. Sum(s) = fun[c] + Sum(r)
    <3>1. \A y \in s : fun[y] \in Int
      OBVIOUS
    <3>2. IsFiniteSet(s)
      BY <1>1
    <3> QED BY <2>1, <2>2, <3>1, <3>2, SumRemove
  <2>6. Sum(S \cup s) = fun[c] + Sum(S \cup r)
    <3>1. \A y \in S \cup s : fun[y] \in Int
      OBVIOUS
    <3>2. (S \cup s) \ {c} = S \cup r /\ c \in S \cup s
      BY <2>1, <2>2
    <3>3. IsFiniteSet(S \cup s)
      BY <1>1
    <3> QED BY <3>1, <3>2, <3>3, SumRemove
  <2>7. fun[c] \in Int /\ Sum(r) \in Int /\ Sum(S) \in Int
    BY <1>1, <2>1
  <2> HIDE DEF Sum, Done
  <2> QED BY <2>4, <2>5, <2>6, <2>7
<1>4. \A n \in Nat : n \in Done
  <2> HIDE DEF Done
  <2> QED BY <1>2, <1>3, Induction
<1> QED BY <1>1, <1>4

-----------------------------------------------------------------------------
(* Maxima.                                                                 *)

\* A finite set of integers that is not empty has a largest element.
LEMMA MaxFacts ==
  ASSUME NEW S \in SUBSET Int, IsFiniteSet(S), S # {}
  PROVE  Max(S) \in S /\ \A y \in S : Max(S) >= y
<1> DEFINE Largest(s) == \E x \in s : \A y \in s : x >= y
           Done == {n \in Nat : \A s \in SUBSET S :
                      Cardinality(s) = n /\ s # {} => Largest(s)}
<1>1. \A s \in SUBSET S : IsFiniteSet(s) /\ Cardinality(s) \in Nat
  BY FS_Subset, FS_CardinalityType
<1>2. 0 \in Done
  BY <1>1, FS_EmptySet
<1>3. ASSUME NEW n \in Nat, n \in Done
      PROVE  n + 1 \in Done
  <2> SUFFICES ASSUME NEW s \in SUBSET S, Cardinality(s) = n + 1
               PROVE  Largest(s)
    OBVIOUS
  <2>a. s # {}
    BY <1>1, FS_EmptySet
  <2>1. PICK c : c \in s
    BY <2>a
  <2>2. PICK r \in SUBSET S : r = s \ {c}
    OBVIOUS
  <2>3. Cardinality(r) = n
    <3>1. Cardinality(s \ {c}) = Cardinality(s) - 1
      BY <1>1, <2>1, FS_RemoveElement
    <3> QED BY <2>2, <3>1
  <2>4. CASE r = {}
    <3>1. s = {c} /\ c \in Int
      BY <2>1, <2>2, <2>4
    <3> QED BY <3>1
  <2>5. CASE r # {}
    <3>1. PICK x \in r : \A y \in r : x >= y
      BY <1>3, <2>3, <2>5
    <3>2. c \in Int /\ x \in Int /\ c \in s /\ x \in s
      BY <2>1, <2>2
    <3>3. \A y \in s : y \in r \/ y = c
      BY <2>2
    <3>4. CASE c >= x
      <4>1. \A y \in s : c >= y
        <5> TAKE y \in s
        <5>1. y \in Int /\ (y = c \/ x >= y)
          BY <3>1, <3>3
        <5> QED BY <3>2, <3>4, <5>1
      <4> QED BY <3>2, <4>1
    <3>5. CASE x >= c
      <4>1. \A y \in s : x >= y
        BY <3>1, <3>3, <3>5
      <4> QED BY <3>2, <4>1
    <3> QED BY <3>2, <3>4, <3>5
  <2> QED BY <2>4, <2>5
<1>4. Cardinality(S) \in Done
  <2> HIDE DEF Done
  <2> QED BY <1>1, <1>2, <1>3, Induction
<1>5. Largest(S)
  BY <1>4
<1> QED
  BY <1>5 DEF Max

-----------------------------------------------------------------------------
(* Iteration of a function from a start.                                   *)

IsOrbit(g, next, a, S) ==
  g = [k \in S |-> IF k = 0 THEN a ELSE next[g[k - 1]]]

\* The recursive definition defines a function on the naturals.
LEMMA OrbitExists ==
  ASSUME NEW next, NEW a
  PROVE  \E g : IsOrbit(g, next, a, Nat)
<1> DEFINE Some(n) == \E h : IsOrbit(h, next, a, 0..n)
           Done == {n \in Nat : Some(n)}
           Part(n) == CHOOSE h : IsOrbit(h, next, a, 0..n)
<1>1. Some(0)
  <2> DEFINE h == [k \in 0..0 |-> a]
  <2>1. IsOrbit(h, next, a, 0..0)
    BY DEF IsOrbit
  <2> QED BY <2>1
<1>2. ASSUME NEW n \in Nat, Some(n) PROVE Some(n + 1)
  <2>1. PICK h : IsOrbit(h, next, a, 0..n)
    BY <1>2
  <2> DEFINE i == [k \in 0..(n + 1) |-> IF k = 0 THEN a ELSE next[h[k - 1]]]
  <2>2. ASSUME NEW k \in 0..(n + 1), k # 0
        PROVE  h[k - 1] = i[k - 1]
    <3>1. k - 1 \in 0..n /\ k - 1 \in 0..(n + 1)
      BY <2>2
    <3> QED BY <2>1, <3>1 DEF IsOrbit
  <2>3. IsOrbit(i, next, a, 0..(n + 1))
    BY <2>2 DEF IsOrbit
  <2> QED BY <2>3
<1>3. \A n \in Nat : Some(n)
  <2>1. 0 \in Done /\ \A n \in Nat : n \in Done => n + 1 \in Done
    <3> HIDE DEF Some
    <3> QED BY <1>1, <1>2
  <2>2. \A n \in Nat : n \in Done
    <3> HIDE DEF Done
    <3> QED BY <2>1, Induction
  <2> QED BY <2>2
<1>4. \A n \in Nat : IsOrbit(Part(n), next, a, 0..n)
  BY <1>3
<1> HIDE DEF Some, Part
\* The parts agree where both are defined.
<1>5. \A n \in Nat : Part(n + 1)[n] = Part(n)[n]
  <2> DEFINE Same == {k \in Nat : \A n \in Nat : k <= n => Part(n + 1)[k] = Part(n)[k]}
  <2>1. \A n \in Nat : \A k \in 0..n :
          Part(n)[k] = IF k = 0 THEN a ELSE next[Part(n)[k - 1]]
    BY <1>4 DEF IsOrbit
  <2>2. 0 \in Same
    BY <2>1
  <2>3. ASSUME NEW k \in Nat, k \in Same PROVE k + 1 \in Same
    <3> SUFFICES ASSUME NEW n \in Nat, k + 1 <= n
                 PROVE  Part(n + 1)[k + 1] = Part(n)[k + 1]
      OBVIOUS
    <3>1. Part(n + 1)[k] = Part(n)[k]
      BY <2>3
    <3>2. /\ k + 1 \in 0..n /\ k + 1 \in 0..(n + 1) /\ k + 1 # 0
          /\ (k + 1) - 1 = k /\ n + 1 \in Nat
      OBVIOUS
    <3>3. Part(n)[k + 1] = next[Part(n)[k]]
      BY <2>1, <3>2
    <3>4. Part(n + 1)[k + 1] = next[Part(n + 1)[k]]
      BY <2>1, <3>2
    <3> QED BY <3>1, <3>3, <3>4
  <2>4. \A k \in Nat : k \in Same
    <3> HIDE DEF Same
    <3> QED BY <2>2, <2>3, Induction
  <2> QED BY <2>4
<1> DEFINE g == [k \in Nat |-> Part(k)[k]]
<1>6. ASSUME NEW k \in Nat
      PROVE  g[k] = IF k = 0 THEN a ELSE next[g[k - 1]]
  <2>1. Part(k)[k] = IF k = 0 THEN a ELSE next[Part(k)[k - 1]]
    BY <1>4 DEF IsOrbit
  <2>2. k # 0 => k - 1 \in Nat /\ (k - 1) + 1 = k
    OBVIOUS
  <2>3. k # 0 => Part(k)[k - 1] = Part(k - 1)[k - 1]
    BY <1>5, <2>2
  <2> QED BY <2>1, <2>2, <2>3
<1>7. IsOrbit(g, next, a, Nat)
  BY <1>6 DEF IsOrbit
<1> QED BY <1>7

-----------------------------------------------------------------------------
(* Quotients and remainders.                                               *)

\* A product grows with its factor, by at least the other one.
LEMMA ProductGrows ==
  ASSUME NEW k \in Nat \ {0}, NEW a \in Int, NEW b \in Int, a < b
  PROVE  a * k + k <= b * k
<1>1. PICK d \in Nat : b = a + 1 + d
  <2>1. b - a - 1 \in Nat /\ b = a + 1 + (b - a - 1)
    OBVIOUS
  <2> QED BY <2>1
<1>2. b * k = a * k + k + d * k
  BY <1>1
<1>3. d * k \in Nat
  BY <1>1
<1> QED BY <1>2, <1>3

\* Quotient and remainder of a number given by them.
LEMMA DivisionFacts ==
  ASSUME NEW k \in Nat \ {0}, NEW x \in Int
  PROVE  /\ x \div k \in Int /\ x % k \in 0..(k - 1)
         /\ x = (x \div k) * k + (x % k)
OBVIOUS

\* A number written as a quotient and a remainder is divided as written.
LEMMA Division ==
  ASSUME NEW k \in Nat \ {0}, NEW r \in Int, NEW c \in 0..(k - 1)
  PROVE  (r * k + c) \div k = r /\ (r * k + c) % k = c
<1>1. PICK x \in Int : x = r * k + c
  OBVIOUS
<1>2. PICK q \in Int : q = x \div k
  BY DivisionFacts
<1>3. PICK m \in 0..(k - 1) : m = x % k
  BY DivisionFacts
<1>4. r * k + c = q * k + m
  BY <1>1, <1>2, <1>3, DivisionFacts
<1>5. ~(q < r)
  <2> SUFFICES ASSUME q < r PROVE FALSE
    OBVIOUS
  <2>1. q * k + k <= r * k
    BY ProductGrows
  <2>2. q * k \in Int /\ r * k \in Int
    OBVIOUS
  <2> QED BY <1>4, <2>1, <2>2
<1>6. ~(r < q)
  <2> SUFFICES ASSUME r < q PROVE FALSE
    OBVIOUS
  <2>1. r * k + k <= q * k
    BY ProductGrows
  <2>2. q * k \in Int /\ r * k \in Int
    OBVIOUS
  <2> QED BY <1>4, <2>1, <2>2
<1>7. q = r /\ m = c
  BY <1>4, <1>5, <1>6
<1> QED BY <1>1, <1>2, <1>3, <1>7

\* A number below the divisor is its own remainder.
LEMMA SmallRemainder ==
  ASSUME NEW h \in Nat \ {0}, NEW x \in 0..(h - 1)
  PROVE  x % h = x
<1>1. 0 * h + x = x
  OBVIOUS
<1>2. (0 * h + x) % h = x
  BY Division
<1> QED BY <1>1, <1>2
=============================================================================
