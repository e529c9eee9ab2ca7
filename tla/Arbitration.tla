---------------------------- MODULE Arbitration ----------------------------
(***************************************************************************)
(* The choice Node::ej_arbitrator makes among the flits that arrive at a   *)
(* node in one cycle.  The candidates are a function from the rings whose  *)
(* single buffer holds a flit that may leave the network here to the tag   *)
(* and the creation time the arbitrator compares.  std::sort leaves the    *)
(* order of equal keys open, so the choice is a set of possible outcomes.  *)
(***************************************************************************)
EXTENDS Integers, FiniteSets

\* The tags of the three groups of candidates.
TailFlit    == 0
PayloadFlit == 1
HeaderFlit  == 2

Group(cand, tag) == {r \in DOMAIN cand : cand[r].tag = tag}

\* Faulty: no candidate but a header is ever aged.
AgedPartEmpty(group, before) == {{}}
\* The part of a group that receives its creation time as the key before the
\* group is sorted: the loop that ages it starts "before" positions late and
\* ends after as many positions as the group has.
AgedPart(group, before) ==
  {S \in SUBSET group :
     Cardinality(S) = IF before >= Cardinality(group)
                      THEN 0 ELSE Cardinality(group) - before}

\* Faulty: headers keep their tag as the key.
AgedWithoutHeaders(cand) ==
  {P \cup T : P \in AgedPart(Group(cand, PayloadFlit), 0),
              T \in AgedPart(Group(cand, TailFlit), 0)}
AgedSets(cand) ==
  LET h == Cardinality(Group(cand, HeaderFlit))
      p == Cardinality(Group(cand, PayloadFlit))
  IN  {Group(cand, HeaderFlit) \cup P \cup T :
         P \in AgedPart(Group(cand, PayloadFlit), h),
         T \in AgedPart(Group(cand, TailFlit), h + p)}

\* What the last sort of a group compares: the creation time of an aged
\* candidate, the tag of any other.
Key(cand, aged, r) == IF r \in aged THEN cand[r].ctime ELSE cand[r].tag

\* Faulty: the order is not reversed after the sort.
NotReversed(cand, aged, a, b) ==
  \/ cand[a].tag > cand[b].tag
  \/ /\ cand[a].tag = cand[b].tag
     /\ Key(cand, aged, a) >= Key(cand, aged, b)
\* After the reversal lower tags come first and, in a group, lower keys.
NotAfter(cand, aged, a, b) ==
  \/ cand[a].tag < cand[b].tag
  \/ /\ cand[a].tag = cand[b].tag
     /\ Key(cand, aged, a) <= Key(cand, aged, b)

\* The sets of rings that can end with the ejection tag -3.
EjectSets(cand, ports) ==
  {E \in SUBSET (DOMAIN cand) :
     /\ Cardinality(E) = IF ports < Cardinality(DOMAIN cand)
                         THEN ports ELSE Cardinality(DOMAIN cand)
     /\ \E aged \in AgedSets(cand) :
          \A a \in E, b \in (DOMAIN cand) \ E : NotAfter(cand, aged, a, b)}
=============================================================================
