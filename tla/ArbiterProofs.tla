--------------------------- MODULE ArbiterProofs ---------------------------
(***************************************************************************)
(* What the arbitration of a node promises, proved for any number of rings *)
(* and ejection links and flits of any age.                                *)
(***************************************************************************)
EXTENDS Arbiter, FiniteSetTheorems, TLAPS

\* The arrivals that compete.
Flits == [tag : {TailFlit, PayloadFlit, HeaderFlit}, ctime : 0..MaxTime]

\* Between arbitration and reset the rings to eject are a choice the sorts can
\* end with; the three properties only read this choice.
Chosen ==
  /\ single_buffer \in [Ring -> Arrival]
  /\ stage = "arbitrated" => ejecting \in EjectSets(Candidates, EjPorts)

\* The candidates are the flits in the single buffers, finitely many.
LEMMA CandidateFacts ==
  ASSUME single_buffer \in [Ring -> Arrival]
  PROVE  /\ Candidates \in [DOMAIN Candidates -> Flits]
         /\ DOMAIN Candidates \subseteq Ring
         /\ IsFiniteSet(DOMAIN Candidates)
         /\ \A r \in DOMAIN Candidates : Candidates[r] = single_buffer[r]
<1>1. DOMAIN Candidates = {q \in Ring : single_buffer[q] # Passing}
  BY DEF Candidates
<1>2. \A r \in DOMAIN Candidates :
        Candidates[r] = single_buffer[r] /\ single_buffer[r] \in Flits
  BY <1>1 DEF Candidates, Arrival, Flits
<1>3. Candidates = [r \in DOMAIN Candidates |-> Candidates[r]]
  BY DEF Candidates
<1>4. IsFiniteSet(DOMAIN Candidates)
  BY <1>1, FS_Subset, ArbiterAssumption
<1> QED  BY <1>1, <1>2, <1>3, <1>4

\* At first nothing is arbitrated.
LEMMA InitChosen == Init => Chosen
BY DEF Init, Chosen, Arrival

\* Only the arbitration chooses, and nothing disturbs its choice before reset.
LEMMA NextChosen == Chosen /\ [Next]_vars => Chosen'
<1> SUFFICES ASSUME Chosen, [Next]_vars  PROVE Chosen'
  OBVIOUS
<1>1. CASE Receive
  BY <1>1 DEF Receive, Chosen
<1>2. CASE Arbitrate
  <2>1. Candidates' = Candidates
    BY <1>2 DEF Arbitrate, Candidates
  <2> QED  BY <1>2, <2>1 DEF Arbitrate, Chosen
<1>3. CASE Reset
  BY <1>3 DEF Reset, Chosen, Arrival
<1>4. CASE UNCHANGED vars
  <2>1. Candidates' = Candidates
    BY <1>4 DEF vars, Candidates
  <2> QED  BY <1>4, <2>1 DEF vars, Chosen
<1> QED  BY <1>1, <1>2, <1>3, <1>4 DEF Next

\* What ej_arbitrator marks with -3 is always a choice its sorts can end with.
THEOREM ChosenAlways == Spec => []Chosen
<1> QED  BY InitChosen, NextChosen, PTL DEF Spec

-----------------------------------------------------------------------------
\* A winner does not come after a loser, in the order of the last sort.
LEMMA WinnersFirst ==
  ASSUME Chosen, stage = "arbitrated"
  PROVE  /\ ejecting \subseteq DOMAIN Candidates
         /\ \E aged \in AgedSets(Candidates) :
              \A win \in ejecting, lose \in Losers :
                NotAfter(Candidates, aged, win, lose)
BY DEF Chosen, EjectSets, Losers

\* All flits of a group are aged if no flit of a later group came with them.
LEMMA WholeGroupAged ==
  ASSUME NEW group, IsFiniteSet(group), NEW S \in AgedPart(group, 0)
  PROVE  S = group
<1>1. S \subseteq group /\ Cardinality(S) = Cardinality(group)
  <2>1. Cardinality(group) \in Nat
    BY FS_CardinalityType
  <2> QED  BY <2>1 DEF AgedPart
<1> QED  BY <1>1, FS_Subset

\* Headers are always aged; payloads and tails if no later group is present.
LEMMA AgedGroups ==
  ASSUME single_buffer \in [Ring -> Arrival], NEW aged \in AgedSets(Candidates)
  PROVE  /\ Group(Candidates, HeaderFlit) \subseteq aged
         /\ Count(HeaderFlit) = 0 => Group(Candidates, PayloadFlit) \subseteq aged
         /\ Count(HeaderFlit) = 0 /\ Count(PayloadFlit) = 0 =>
              Group(Candidates, TailFlit) \subseteq aged
<1>1. \A tag : IsFiniteSet(Group(Candidates, tag))
  BY CandidateFacts, FS_Subset DEF Group
<1>2. PICK P \in AgedPart(Group(Candidates, PayloadFlit), Count(HeaderFlit)),
           T \in AgedPart(Group(Candidates, TailFlit), Count(HeaderFlit) + Count(PayloadFlit)) :
        aged = Group(Candidates, HeaderFlit) \cup P \cup T
  BY DEF AgedSets, Count
<1>3. Count(HeaderFlit) = 0 => P = Group(Candidates, PayloadFlit)
  BY <1>1, <1>2, WholeGroupAged
<1>4. Count(HeaderFlit) = 0 /\ Count(PayloadFlit) = 0 => T = Group(Candidates, TailFlit)
  <2>1. SUFFICES ASSUME Count(HeaderFlit) = 0, Count(PayloadFlit) = 0
                 PROVE  T = Group(Candidates, TailFlit)
    OBVIOUS
  <2>2. Count(HeaderFlit) + Count(PayloadFlit) = 0
    BY <2>1
  <2> QED  BY <1>1, <2>2, WholeGroupAged
<1> QED  BY <1>2, <1>3, <1>4

\* Of two aged flits of a group the winner is not younger.
LEMMA OldestOfAged ==
  ASSUME single_buffer \in [Ring -> Arrival], NEW aged,
         NEW a \in DOMAIN Candidates \cap aged, NEW b \in DOMAIN Candidates \cap aged,
         NotAfter(Candidates, aged, a, b), single_buffer[a].tag = single_buffer[b].tag
  PROVE  single_buffer[a].ctime <= single_buffer[b].ctime
<1>1. /\ Candidates[a] = single_buffer[a] /\ Candidates[a] \in Flits
      /\ Candidates[b] = single_buffer[b] /\ Candidates[b] \in Flits
  BY CandidateFacts
<1>2. ~(Candidates[a].tag < Candidates[b].tag)
  BY <1>1 DEF Flits, TailFlit, PayloadFlit, HeaderFlit
<1> QED  BY <1>1, <1>2 DEF NotAfter, Key

-----------------------------------------------------------------------------
\* The links are used up, by the groups in their order.
LEMMA ChosenLaterFirst == Chosen => LaterFlitsFirst
<1> SUFFICES ASSUME Chosen, stage = "arbitrated"
             PROVE  /\ Losers # {} => Cardinality(ejecting) = EjPorts
                    /\ \A win \in ejecting, lose \in Losers :
                         single_buffer[win].tag <= single_buffer[lose].tag
  BY DEF LaterFlitsFirst
<1>1. single_buffer \in [Ring -> Arrival] /\ ejecting \subseteq DOMAIN Candidates
  BY WinnersFirst DEF Chosen
<1>2. Losers # {} => Cardinality(ejecting) = EjPorts
  <2>1. Cardinality(ejecting) = IF EjPorts < Cardinality(DOMAIN Candidates)
                                THEN EjPorts ELSE Cardinality(DOMAIN Candidates)
    BY DEF Chosen, EjectSets
  <2>2. Cardinality(ejecting) = Cardinality(DOMAIN Candidates) => Losers = {}
    BY <1>1, CandidateFacts, FS_Subset DEF Losers
  <2> QED  BY <2>1, <2>2
<1>3. ASSUME NEW win \in ejecting, NEW lose \in Losers
      PROVE  single_buffer[win].tag <= single_buffer[lose].tag
  <2>1. PICK aged : NotAfter(Candidates, aged, win, lose)
    BY WinnersFirst
  <2>2. /\ Candidates[win] = single_buffer[win] /\ Candidates[win] \in Flits
        /\ Candidates[lose] = single_buffer[lose] /\ Candidates[lose] \in Flits
    BY <1>1, CandidateFacts DEF Losers
  <2> QED  BY <2>1, <2>2 DEF NotAfter, Flits, TailFlit, PayloadFlit, HeaderFlit
<1> QED  BY <1>2, <1>3

\* Headers are all aged, so that age decides among them.
LEMMA ChosenOldestHeader == Chosen => OldestHeaderWins
<1> SUFFICES ASSUME Chosen, stage = "arbitrated",
                    NEW win \in ejecting, NEW lose \in Losers,
                    single_buffer[win].tag = HeaderFlit, single_buffer[lose].tag = HeaderFlit
             PROVE  single_buffer[win].ctime <= single_buffer[lose].ctime
  BY DEF OldestHeaderWins
<1>1. PICK aged \in AgedSets(Candidates) : NotAfter(Candidates, aged, win, lose)
  BY WinnersFirst
<1>2. /\ single_buffer \in [Ring -> Arrival]
      /\ win \in DOMAIN Candidates /\ lose \in DOMAIN Candidates
  BY WinnersFirst DEF Chosen, Losers
<1>3. win \in aged /\ lose \in aged
  BY <1>1, <1>2, AgedGroups, CandidateFacts DEF Group
<1> QED  BY <1>1, <1>2, <1>3, OldestOfAged

\* So are the flits of a group that no later group accompanies.
LEMMA ChosenOldestAlone == Chosen => OldestWinsAlone
<1> SUFFICES ASSUME Chosen, stage = "arbitrated",
                    NEW win \in ejecting, NEW lose \in Losers,
                    single_buffer[win].tag = single_buffer[lose].tag,
                    \A other \in (single_buffer[win].tag + 1)..HeaderFlit : Count(other) = 0
             PROVE  single_buffer[win].ctime <= single_buffer[lose].ctime
  BY DEF OldestWinsAlone
<1>1. PICK aged \in AgedSets(Candidates) : NotAfter(Candidates, aged, win, lose)
  BY WinnersFirst
<1>2. /\ single_buffer \in [Ring -> Arrival]
      /\ win \in DOMAIN Candidates /\ lose \in DOMAIN Candidates
  BY WinnersFirst DEF Chosen, Losers
<1>3. /\ Candidates[win] = single_buffer[win] /\ Candidates[lose] = single_buffer[lose]
      /\ Candidates[win] \in Flits
  BY <1>2, CandidateFacts
<1>4. \A tag : single_buffer[win].tag = tag =>
        win \in Group(Candidates, tag) /\ lose \in Group(Candidates, tag)
  BY <1>2, <1>3 DEF Group
<1>5. win \in aged /\ lose \in aged
  <2>1. CASE single_buffer[win].tag = HeaderFlit
    BY <2>1, <1>2, <1>4, AgedGroups
  <2>2. CASE single_buffer[win].tag = PayloadFlit
    <3>1. Count(HeaderFlit) = 0
      BY <2>2 DEF PayloadFlit, HeaderFlit
    <3> QED  BY <2>2, <3>1, <1>2, <1>4, AgedGroups
  <2>3. CASE single_buffer[win].tag = TailFlit
    <3>1. Count(HeaderFlit) = 0 /\ Count(PayloadFlit) = 0
      BY <2>3 DEF TailFlit, PayloadFlit, HeaderFlit
    <3> QED  BY <2>3, <3>1, <1>2, <1>4, AgedGroups
  <2> QED  BY <1>3, <2>1, <2>2, <2>3 DEF Flits
<1> QED  BY <1>1, <1>2, <1>5, OldestOfAged

-----------------------------------------------------------------------------
\* No ejection link is idle while a flit is turned away, and none serves a
\* header while a payload or a tail waits, nor a payload while a tail does:
\* the groups of ej_arbitrator, on any number of rings.
THEOREM LaterFlitsGoFirst == Spec => []LaterFlitsFirst
<1> QED  BY ChosenAlways, ChosenLaterFirst, PTL

\* A header never loses to a younger header, whatever arrives with them.
THEOREM OldestHeaderIsEjected == Spec => []OldestHeaderWins
<1> QED  BY ChosenAlways, ChosenOldestHeader, PTL

\* A payload never loses to a younger one if no header arrives in the same
\* cycle, a tail never if neither a header nor a payload does: the loops that
\* age the groups then start where they should.
THEOREM OldestAloneIsEjected == Spec => []OldestWinsAlone
<1> QED  BY ChosenAlways, ChosenOldestAlone, PTL
=============================================================================
