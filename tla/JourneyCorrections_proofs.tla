---------------------- MODULE JourneyCorrections_proofs ----------------------
(***************************************************************************)
(* Proofs about JourneyCorrections, for every number of stewards,          *)
(* reconstructing processes, observations and operations.                  *)
(*                                                                         *)
(* The argument: as long as no commit was based on rows that had changed,  *)
(* the approved correction is the one live row its selection names         *)
(* (OverrideStands), a reconstruction under way keeps such an override and *)
(* chose its event among the rows it read (ReadFaithfully), and the first  *)
(* commit that finds the rows as they were read builds the journey on it.  *)
(***************************************************************************)
EXTENDS JourneyCorrections, Sequences, FiniteSetTheorems, WellFoundedInduction, TLAPS

\* None is no index; a load is a list of observations with their ranks.
LoadsType == None \notin Nat /\ Loads \subseteq Seq([time : Times, rank : Nat])

-----------------------------------------------------------------------------
(* The inductive invariant *)

Occurrence == [index : Nat, time : Times, rank : Nat, superseded : BOOLEAN, quarantined : BOOLEAN]
SelectionRow == [row : Nat, selected : Nat, method : {"AUTOMATIC", "STEWARD_OVERRIDE"}]
StageRow == [run : Nat, by : Stewards \cup Rebuilders, event : Nat \cup {None}]
ReadCorrection == [at : {"read"}, prior : Nat \cup {None}, time : Times, approved : BOOLEAN,
                   seen : SUBSET SelectionRow]
ReadRebuild == [at : {"read"}, event : Nat \cup {None}, seen : SUBSET StageRow,
                from : SUBSET SelectionRow, to : SUBSET SelectionRow, of : SUBSET Occurrence]

JourneyTypeOK ==
    /\ occs \subseteq Occurrence /\ IsFiniteSet(occs)
    /\ selection \subseteq SelectionRow /\ IsFiniteSet(selection)
    /\ stages \subseteq StageRow
    /\ correcting \in [Stewards -> {Idle, [at |-> "committed"]} \cup ReadCorrection]
    /\ rebuilding \in [Stewards \cup Rebuilders -> {Idle} \cup ReadRebuild]
    /\ operations \in Nat
    /\ latest \in Nat \cup {None}
    /\ disturbed \in BOOLEAN

\* What _build_event_instant_map may choose from the rows of a table.
UsableIn(table) == {o \in table : ~o.superseded /\ ~o.quarantined}
SelectedIn(table, rows) == {o \in UsableIn(table) : \E r \in rows : r.selected = o.index}
ChosenFrom(table, rows) ==
    IF UsableIn(table) = {} THEN {None}
    ELSE IF SelectedIn(table, rows) # {} /\ Cardinality(UsableIn(table)) > 1
         THEN {o.index : o \in SelectedIn(table, rows)}
    ELSE {o.index : o \in UsableIn(table)}

Overridden(rows) == \E r \in rows : r.method = "STEWARD_OVERRIDE"

\* The correction approved last is live, and the one row of the selection names it.
OverrideStands ==
    ~disturbed /\ latest # None =>
        /\ \E r \in selection : /\ selection = {r}
                                /\ r.method = "STEWARD_OVERRIDE"
                                /\ r.selected = latest
        /\ \E o \in occs : o.index = latest /\ ~o.superseded

\* A correction between its two commits has been approved.
CommittedIsApproved ==
    \A s \in Stewards : correcting[s].at = "committed" => latest # None

\* A reconstruction keeps an override it read, and chose among the rows it read.
ReadFaithfully ==
    \A p \in Stewards \cup Rebuilders :
        rebuilding[p].at = "read" =>
            /\ IsFiniteSet(rebuilding[p].to)
            /\ Overridden(rebuilding[p].from) => rebuilding[p].to = rebuilding[p].from
            /\ rebuilding[p].event \in ChosenFrom(rebuilding[p].of, rebuilding[p].to)

JourneyInv ==
    /\ JourneyTypeOK /\ OverrideStands /\ CommittedIsApproved /\ ReadFaithfully
    /\ ApprovedCorrectionGoverns

-----------------------------------------------------------------------------
(* Lemmas *)

\* The image of a finite set is finite.
LEMMA FiniteImage ==
  ASSUME NEW S, IsFiniteSet(S), NEW T, NEW f \in [S -> T], \A t \in T : \E s \in S : f[s] = t
  PROVE  IsFiniteSet(T)
BY FS_Surjection DEF Surjection

\* A finite set without two elements is empty or a singleton.
LEMMA AtMostOne ==
  ASSUME NEW S, IsFiniteSet(S), ~(Cardinality(S) > 1)
  PROVE  S = {} \/ \E x \in S : S = {x}
<1>1. Cardinality(S) \in Nat
  BY FS_CardinalityType
<1>2. Cardinality(S) = 0 \/ Cardinality(S) = 1
  BY <1>1
<1>3. CASE Cardinality(S) = 0
  BY <1>3, FS_EmptySet
<1>4. CASE Cardinality(S) = 1
  BY <1>4, FS_Singleton
<1> QED
  BY <1>2, <1>3, <1>4

\* A set of numbers has a least one.
LEMMA LeastNumber ==
  ASSUME NEW S, S \subseteq Nat, S # {}
  PROVE  \E m \in S : \A n \in S : m <= n
<1> DEFINE R == OpToRel(<, Nat)
<1>1. IsWellFoundedOn(R, Nat)
  BY NatLessThanWellFounded
<1>2. \A n, m \in Nat : n < m => <<n, m>> \in R
  BY DEF OpToRel
<1> HIDE DEF R
<1>3. PICK m \in S : \A n \in S : ~(<<n, m>> \in R)
  BY <1>1, WFMin
<1>4. \A n \in S : ~(n < m)
  BY <1>2, <1>3
<1>5. \A n \in S : m <= n
  BY <1>4
<1> QED
  BY <1>5

\* The ranking of competing observations always has a first one.
LEMMA BestIsARow ==
  ASSUME NEW table, table \subseteq Occurrence, table # {}
  PROVE  Best(table) \in table
<1>1. \A o \in table : o.rank \in Nat /\ o.index \in Nat
  BY DEF Occurrence
<1>2. PICK rank \in {o.rank : o \in table} : \A n \in {o.rank : o \in table} : rank <= n
  <2>1. {o.rank : o \in table} \subseteq Nat /\ {o.rank : o \in table} # {}
    BY <1>1
  <2> QED
    BY <2>1, LeastNumber
<1>3. PICK index \in {o.index : o \in {p \in table : p.rank = rank}} :
          \A n \in {o.index : o \in {p \in table : p.rank = rank}} : index <= n
  <2>1. /\ {o.index : o \in {p \in table : p.rank = rank}} \subseteq Nat
        /\ {o.index : o \in {p \in table : p.rank = rank}} # {}
    BY <1>1, <1>2
  <2> QED
    BY <2>1, LeastNumber
<1>4. PICK o \in table : o.rank = rank /\ o.index = index
  BY <1>3
<1>5. \A p \in table : o.rank < p.rank \/ (o.rank = p.rank /\ o.index <= p.index)
  BY <1>1, <1>2, <1>3, <1>4
<1> QED
  BY <1>4, <1>5 DEF Best

\* Types give the fields.
LEMMA RowFields ==
  /\ \A o \in Occurrence : /\ o.index \in Nat /\ o.time \in Times /\ o.rank \in Nat
                           /\ o.superseded \in BOOLEAN /\ o.quarantined \in BOOLEAN
  /\ \A r \in SelectionRow : /\ r.row \in Nat /\ r.selected \in Nat
                             /\ r.method \in {"AUTOMATIC", "STEWARD_OVERRIDE"}
BY DEF Occurrence, SelectionRow

\* A correction and a reconstruction under way are the records their state tells.
LEMMA OperationKinds ==
  ASSUME JourneyTypeOK
  PROVE  /\ \A s \in Stewards : correcting[s].at = "read" => correcting[s] \in ReadCorrection
         /\ \A p \in Stewards \cup Rebuilders : rebuilding[p].at = "read" => rebuilding[p] \in ReadRebuild
BY DEF JourneyTypeOK, Idle, ReadCorrection, ReadRebuild

\* resolve_vessel_call leaves well-formed rows, finitely many, and a steward's override.
LEMMA ResolvedFacts ==
  ASSUME occs \subseteq Occurrence, IsFiniteSet(occs),
         NEW R, R \subseteq SelectionRow, IsFiniteSet(R)
  PROVE  /\ Resolved(R) \subseteq SelectionRow
         /\ IsFiniteSet(Resolved(R))
         /\ Overridden(R) => Resolved(R) = R
<1>1. Overridden(R) => Resolved(R) = R
  BY DEF Overridden, Resolved
<1>2. CASE Cardinality(Live) <= 1 \/ Overridden(R)
  BY <1>1, <1>2 DEF Overridden, Resolved
<1>3. CASE ~(Cardinality(Live) <= 1 \/ Overridden(R))
  <2>1. Live \subseteq occs /\ Live \subseteq Occurrence
    BY DEF Live
  <2>2. Live # {}
    BY <1>3, FS_EmptySet
  <2>3. Best(Live).index \in Nat
    BY <2>1, <2>2, BestIsARow, RowFields
  <2> DEFINE best == Best(Live).index
  <2> HIDE DEF best
  <2>4. CASE R = {}
    <3>1. Resolved(R) = {[row |-> best, selected |-> best, method |-> "AUTOMATIC"]}
      BY <1>3, <2>4 DEF Overridden, Resolved, best
    <3>2. [row |-> best, selected |-> best, method |-> "AUTOMATIC"] \in SelectionRow
      BY <2>3 DEF SelectionRow, best
    <3> DEFINE new == [row |-> best, selected |-> best, method |-> "AUTOMATIC"]
    <3> HIDE DEF new
    <3>3. Resolved(R) = {new} /\ new \in SelectionRow
      BY <3>1, <3>2 DEF new
    <3>4. IsFiniteSet({new})
      BY FS_Singleton
    <3> QED
      BY <1>1, <3>3, <3>4
  <2>5. CASE R # {}
    <3>1. Resolved(R) = {[r EXCEPT !.selected = best] : r \in R}
      BY <1>3, <2>5 DEF Overridden, Resolved, best
    <3>2. Resolved(R) \subseteq SelectionRow
      BY <2>3, <3>1 DEF SelectionRow, best
    <3> DEFINE f == [r \in R |-> [r EXCEPT !.selected = best]]
    <3>3. f \in [R -> Resolved(R)] /\ \A t \in Resolved(R) : \E r \in R : f[r] = t
      BY <3>1
    <3> HIDE DEF f
    <3>4. IsFiniteSet(Resolved(R))
      BY <3>3, FiniteImage
    <3> QED
      BY <1>1, <3>2, <3>4
  <2> QED
    BY <2>4, <2>5
<1> QED
  BY <1>2, <1>3

\* The selected row of a live, unquarantined correction is the only choice.
LEMMA OverrideIsChosen ==
  ASSUME NEW table, table \subseteq Occurrence, IsFiniteSet(table),
         NEW r \in SelectionRow, NEW o \in table,
         o.index = r.selected, ~o.superseded, ~o.quarantined
  PROVE  ChosenFrom(table, {r}) = {r.selected}
<1>1. o \in UsableIn(table) /\ o \in SelectedIn(table, {r})
  BY DEF UsableIn, SelectedIn
<1>2. \A u \in SelectedIn(table, {r}) : u.index = r.selected
  BY DEF SelectedIn
<1>3. {u.index : u \in SelectedIn(table, {r})} = {r.selected}
  BY <1>1, <1>2
<1>4. ASSUME ~(Cardinality(UsableIn(table)) > 1)
      PROVE  {u.index : u \in UsableIn(table)} = {r.selected}
  <2>1. IsFiniteSet(UsableIn(table))
    BY FS_Subset DEF UsableIn
  <2>2. UsableIn(table) = {o}
    BY <1>1, <1>4, <2>1, AtMostOne
  <2> QED
    BY <2>2
<1> QED
  BY <1>1, <1>3, <1>4 DEF ChosenFrom

\* The journey is built on one of the rows the reconstruction read.
LEMMA ChoicesAreRead ==
  ASSUME NEW R
  PROVE  GoverningChoices(R) = ChosenFrom(occs, R)
<1>1. Usable = UsableIn(occs)
  BY DEF Usable, Live, UsableIn
<1> QED
  BY <1>1 DEF GoverningChoices, ChosenFrom, SelectedIn

\* What a reconstruction chooses is the index of a row or nothing.
LEMMA ChoiceType ==
  ASSUME NEW table, table \subseteq Occurrence, NEW R
  PROVE  ChosenFrom(table, R) \subseteq Nat \cup {None}
BY RowFields DEF ChosenFrom, SelectedIn, UsableIn

-----------------------------------------------------------------------------
(* The invariant holds initially and each action preserves it *)

\* A loaded dataset has no correction and nothing superseded.
LEMMA JourneyInitInv ==
  ASSUME LoadsType, JourneyInit
  PROVE  JourneyInv
<1>1. PICK load \in Loads :
          occs = {[index |-> i, time |-> load[i].time, rank |-> load[i].rank,
                   superseded |-> FALSE, quarantined |-> FALSE] : i \in DOMAIN load}
  BY DEF JourneyInit
<1>2. load \in Seq([time : Times, rank : Nat])
  BY DEF LoadsType
<1>3. \A i \in DOMAIN load : i \in Nat /\ load[i].time \in Times /\ load[i].rank \in Nat
  <2> DEFINE S == [time : Times, rank : Nat]
  <2>1. \A x \in S : x.time \in Times /\ x.rank \in Nat
    OBVIOUS
  <2>2. load \in Seq(S)
    BY <1>2
  <2> HIDE DEF S
  <2>3. \A i \in DOMAIN load : i \in Nat /\ load[i] \in S
    BY <2>2
  <2> QED
    BY <2>1, <2>3
<1>4. occs \subseteq Occurrence
  <2>1. \A i \in DOMAIN load :
            [index |-> i, time |-> load[i].time, rank |-> load[i].rank,
             superseded |-> FALSE, quarantined |-> FALSE] \in Occurrence
    BY <1>3 DEF Occurrence
  <2> QED
    BY <1>1, <2>1
<1>5. IsFiniteSet(occs)
  <2> DEFINE f == [i \in 1..Len(load) |->
                      [index |-> i, time |-> load[i].time, rank |-> load[i].rank,
                       superseded |-> FALSE, quarantined |-> FALSE]]
  <2>1. DOMAIN load = 1..Len(load)
    BY <1>2
  <2>2. f \in [1..Len(load) -> occs] /\ \A t \in occs : \E i \in 1..Len(load) : f[i] = t
    BY <1>1, <2>1
  <2>3. IsFiniteSet(1..Len(load))
    BY <1>2, FS_Interval
  <2> HIDE DEF f
  <2> QED
    BY <2>2, <2>3, FiniteImage
<1>6. IsFiniteSet(selection)
  BY FS_EmptySet DEF JourneyInit
<1>7. JourneyTypeOK
  BY <1>4, <1>5, <1>6 DEF JourneyInit, JourneyTypeOK
<1> QED
  BY <1>7 DEF JourneyInit, JourneyInv, OverrideStands, CommittedIsApproved, ReadFaithfully,
              ApprovedCorrectionGoverns, Idle

\* A correction is read: nothing is written.
LEMMA CorrectBeginInv ==
  ASSUME JourneyInv, NEW s \in Stewards, NEW prior \in {o.index : o \in occs} \cup {None},
         NEW t \in Times, NEW a \in BOOLEAN, CorrectBegin(s, prior, t, a)
  PROVE  JourneyInv'
<1>1. prior \in Nat \cup {None}
  BY RowFields DEF JourneyInv, JourneyTypeOK
<1> DEFINE c == [at |-> "read", prior |-> prior, time |-> t, approved |-> a, seen |-> selection]
<1>2. c \in ReadCorrection /\ c.at = "read"
  BY <1>1 DEF JourneyInv, JourneyTypeOK, ReadCorrection
<1>3. /\ correcting' = [correcting EXCEPT ![s] = c]
      /\ operations' \in Nat
      /\ UNCHANGED <<occs, selection, stages, rebuilding, latest, disturbed>>
      /\ correcting[s].at = "idle"
  BY DEF CorrectBegin, Begin, JourneyInv, JourneyTypeOK
<1> HIDE DEF c
<1>4. JourneyTypeOK'
  BY <1>2, <1>3 DEF JourneyInv, JourneyTypeOK
<1>5. \A x \in Stewards : correcting'[x].at = "committed" <=> correcting[x].at = "committed"
  BY <1>2, <1>3 DEF JourneyInv, JourneyTypeOK
<1>6. OverrideStands' /\ CommittedIsApproved' /\ ReadFaithfully'
  BY <1>3, <1>5 DEF JourneyInv, OverrideStands, CommittedIsApproved, ReadFaithfully
<1>7. ApprovedCorrectionGoverns'
  BY <1>3, <1>5 DEF JourneyInv, ApprovedCorrectionGoverns
<1> QED
  BY <1>4, <1>6, <1>7 DEF JourneyInv

\* The rows after a correction: the new one, and the old ones with the prior one superseded.
Corrected(prev, new, time, approved, prior) ==
    {[o EXCEPT !.superseded = @ \/ (approved /\ o.index = prior)] : o \in prev}
        \cup {[index |-> new, time |-> time, rank |-> CorrectionRank,
               superseded |-> FALSE, quarantined |-> FALSE]}

\* A correction adds a live row, keeps every row, and supersedes none unless it is approved.
LEMMA CorrectedRows ==
  ASSUME NEW prev, prev \subseteq Occurrence, IsFiniteSet(prev),
         NEW time \in Times, NEW new \in Nat, NEW approved \in BOOLEAN, NEW prior \in Nat \cup {None},
         NEW table, table = Corrected(prev, new, time, approved, prior)
  PROVE  /\ table \subseteq Occurrence /\ IsFiniteSet(table)
         /\ \E o \in table : o.index = new /\ ~o.superseded
         /\ \A o \in prev : \E q \in table : /\ q.index = o.index /\ q.quarantined = o.quarantined
                                             /\ ~approved => q.superseded = o.superseded
<1> DEFINE row == [index |-> new, time |-> time, rank |-> CorrectionRank,
                   superseded |-> FALSE, quarantined |-> FALSE]
<1> DEFINE old == {[o EXCEPT !.superseded = @ \/ (approved /\ o.index = prior)] : o \in prev}
           f == [o \in prev |-> [o EXCEPT !.superseded = @ \/ (approved /\ o.index = prior)]]
<1>1. row \in Occurrence /\ row.index = new /\ ~row.superseded
  BY DEF Occurrence, CorrectionRank
<1>2. \A o \in prev : /\ f[o] \in Occurrence /\ f[o] \in old
                      /\ f[o].index = o.index /\ f[o].quarantined = o.quarantined
                      /\ ~approved => f[o].superseded = o.superseded
  BY DEF Occurrence
<1>3. f \in [prev -> old] /\ \A t \in old : \E o \in prev : f[o] = t
  OBVIOUS
<1>4. table = old \cup {row}
  BY DEF Corrected
<1> HIDE DEF old, f, row
<1>5. IsFiniteSet(old)
  BY <1>3, FiniteImage
<1>6. IsFiniteSet(table)
  <2>1. \A S, x : IsFiniteSet(S) => IsFiniteSet(S \cup {x})
    BY FS_AddElement
  <2>2. IsFiniteSet(old \cup {row})
    BY <1>5, <2>1, Zenon
  <2> QED
    BY <1>4, <2>2, Zenon
<1>7. table \subseteq Occurrence
  <2>1. old \subseteq Occurrence
    BY <1>2, <1>3
  <2> QED
    BY <1>1, <1>4, <2>1
<1>8. \E o \in table : o.index = new /\ ~o.superseded
  BY <1>1, <1>4
<1>9. \A o \in prev : \E q \in table : /\ q.index = o.index /\ q.quarantined = o.quarantined
                                       /\ ~approved => q.superseded = o.superseded
  BY <1>2, <1>4
<1> QED
  BY <1>6, <1>7, <1>8, <1>9

\* An override of the rows that are there leaves one row, the steward's.
LEMMA OverrideFacts ==
  ASSUME selection \subseteq SelectionRow, IsFiniteSet(selection), NEW new \in Nat,
         ~(Cardinality(selection) > 1)
  PROVE  \E r \in SelectionRow : /\ Override(selection, new) = {r}
                                 /\ r.method = "STEWARD_OVERRIDE"
                                 /\ r.selected = new
<1>1. CASE selection = {}
  <2> DEFINE r == [row |-> new, selected |-> new, method |-> "STEWARD_OVERRIDE"]
  <2>1. r \in SelectionRow /\ r.method = "STEWARD_OVERRIDE" /\ r.selected = new
    BY DEF SelectionRow
  <2>2. Override(selection, new) = {r}
    BY <1>1 DEF Override
  <2> QED
    BY <2>1, <2>2
<1>2. ASSUME NEW x \in selection, selection = {x}
      PROVE  \E r \in SelectionRow : /\ Override(selection, new) = {r}
                                     /\ r.method = "STEWARD_OVERRIDE"
                                     /\ r.selected = new
  <2> DEFINE r == [x EXCEPT !.selected = new, !.method = "STEWARD_OVERRIDE"]
  <2>1. r \in SelectionRow /\ r.method = "STEWARD_OVERRIDE" /\ r.selected = new
    BY DEF SelectionRow
  <2>2. Override(selection, new) = {r}
    BY <1>2 DEF Override
  <2> QED
    BY <2>1, <2>2
<1> QED
  BY <1>1, <1>2, AtMostOne

\* Any override keeps the selection well formed and finite.
LEMMA OverrideType ==
  ASSUME selection \subseteq SelectionRow, IsFiniteSet(selection), NEW new \in Nat,
         NEW seen
  PROVE  Override(seen, new) \subseteq SelectionRow /\ IsFiniteSet(Override(seen, new))
<1>1. CASE seen = {}
  <2> DEFINE r == [row |-> new, selected |-> new, method |-> "STEWARD_OVERRIDE"]
  <2>1. r \in SelectionRow
    BY DEF SelectionRow
  <2>2. Override(seen, new) = selection \cup {r}
    BY <1>1 DEF Override
  <2> HIDE DEF r
  <2> QED
    BY <2>1, <2>2, FS_AddElement
<1>2. CASE seen # {}
  <2> DEFINE f == [r \in selection |-> IF \E q \in seen : q.row = r.row
                                       THEN [r EXCEPT !.selected = new, !.method = "STEWARD_OVERRIDE"] ELSE r]
  <2>1. \A r \in selection : f[r] \in SelectionRow
    BY DEF SelectionRow
  <2>2. /\ f \in [selection -> Override(seen, new)]
        /\ \A t \in Override(seen, new) : \E r \in selection : f[r] = t
    BY <1>2 DEF Override
  <2> HIDE DEF f
  <2> QED
    BY <2>1, <2>2, FiniteImage
<1> QED
  BY <1>1, <1>2

\* The commit of a correction.
LEMMA CorrectCommitInv ==
  ASSUME LoadsType, JourneyInv, NEW s \in Stewards, CorrectCommit(s)
  PROVE  JourneyInv'
<1> DEFINE c == correcting[s]
           new == NewIndex(c.prior)
           fails == (\E o \in occs : o.index = new) \/ (c.approved /\ Cardinality(c.seen) > 1)
<1>1. c \in ReadCorrection /\ c.at = "read"
  BY OperationKinds DEF CorrectCommit, JourneyInv
<1>2. /\ c.prior \in Nat \cup {None} /\ c.time \in Times /\ c.approved \in BOOLEAN
      /\ c.seen \subseteq SelectionRow
  BY <1>1 DEF ReadCorrection
<1>3. new \in Nat
  BY <1>2 DEF NewIndex, IndexStep, LoadsType
<1>4. UNCHANGED <<stages, rebuilding, operations>>
  BY DEF CorrectCommit
<1>5. ReadFaithfully'
  BY <1>4 DEF JourneyInv, ReadFaithfully
<1>6. CASE fails
  <2>1. /\ correcting' = [correcting EXCEPT ![s] = Idle]
        /\ UNCHANGED <<occs, selection, latest, disturbed>>
    BY <1>6 DEF CorrectCommit
  <2>2. \A x \in Stewards : correcting'[x].at = "committed" <=> correcting[x].at = "committed"
    BY <1>1, <2>1 DEF JourneyInv, JourneyTypeOK, Idle
  <2>3. JourneyTypeOK'
    BY <1>4, <2>1 DEF JourneyInv, JourneyTypeOK
  <2>4. OverrideStands' /\ CommittedIsApproved'
    BY <2>1, <2>2 DEF JourneyInv, OverrideStands, CommittedIsApproved
  <2>5. ApprovedCorrectionGoverns'
    BY <1>4, <2>1, <2>2 DEF JourneyInv, ApprovedCorrectionGoverns
  <2> QED
    BY <1>5, <2>3, <2>4, <2>5 DEF JourneyInv
<1>7. CASE ~fails
  <2> DEFINE row == [index |-> new, time |-> c.time, rank |-> CorrectionRank,
                     superseded |-> FALSE, quarantined |-> FALSE]
  <2>1. /\ occs' = {[o EXCEPT !.superseded = @ \/ (c.approved /\ o.index = c.prior)] : o \in occs} \cup {row}
        /\ selection' = IF c.approved THEN Override(c.seen, new) ELSE selection
        /\ correcting' = [correcting EXCEPT ![s] = IF c.approved THEN [at |-> "committed"] ELSE Idle]
        /\ latest' = IF c.approved THEN new ELSE latest
        /\ disturbed' = (disturbed \/ (c.approved /\ c.seen # selection))
    BY <1>7 DEF CorrectCommit
  <2>2. c.approved => ~(Cardinality(c.seen) > 1)
    BY <1>7
  <2>3. /\ occs' \subseteq Occurrence /\ IsFiniteSet(occs')
        /\ \E o \in occs' : o.index = new /\ ~o.superseded
        /\ \A o \in occs : \E q \in occs' : /\ q.index = o.index /\ q.quarantined = o.quarantined
                                            /\ ~c.approved => q.superseded = o.superseded
    <3> HIDE DEF c, new
    <3>1. occs \subseteq Occurrence /\ IsFiniteSet(occs)
      BY DEF JourneyInv, JourneyTypeOK
    <3>2. /\ c.time \in Times /\ c.approved \in BOOLEAN /\ c.prior \in Nat \cup {None}
      BY <1>2 DEF c
    <3>3. occs' = Corrected(occs, new, c.time, c.approved, c.prior)
      BY <2>1 DEF Corrected
    <3> DEFINE time == c.time
               approved == c.approved
               prior == c.prior
               table == occs'
    <3>4. /\ time \in Times /\ approved \in BOOLEAN /\ prior \in Nat \cup {None} /\ new \in Nat
          /\ table = Corrected(occs, new, time, approved, prior)
      BY <1>3, <3>2, <3>3
    <3> HIDE DEF time, approved, prior, table
    <3>5. /\ table \subseteq Occurrence /\ IsFiniteSet(table)
          /\ \E o \in table : o.index = new /\ ~o.superseded
          /\ \A o \in occs : \E q \in table : /\ q.index = o.index /\ q.quarantined = o.quarantined
                                              /\ ~approved => q.superseded = o.superseded
      BY <3>1, <3>4, CorrectedRows
    <3> QED
      BY <3>5 DEF approved, table
  <2> HIDE DEF fails, row, new
  <2>4. selection' \subseteq SelectionRow /\ IsFiniteSet(selection')
    <3>1. selection \subseteq SelectionRow /\ IsFiniteSet(selection)
      BY DEF JourneyInv, JourneyTypeOK
    <3>2. Override(c.seen, new) \subseteq SelectionRow /\ IsFiniteSet(Override(c.seen, new))
      BY <1>3, <3>1, OverrideType
    <3> QED
      BY <2>1, <3>1, <3>2
  <2>5. JourneyTypeOK'
    BY <1>2, <1>3, <1>4, <2>1, <2>3, <2>4 DEF JourneyInv, JourneyTypeOK
  <2>6. CASE c.approved
    <3>1. latest' = new /\ latest' # None
      BY <1>3, <2>1, <2>6 DEF LoadsType
    <3>2. correcting'[s].at = "committed"
      BY <2>1, <2>6 DEF JourneyInv, JourneyTypeOK
    <3>3. CommittedIsApproved' /\ ApprovedCorrectionGoverns'
      BY <3>1, <3>2 DEF CommittedIsApproved, ApprovedCorrectionGoverns
    <3>4. OverrideStands'
      <4> SUFFICES ASSUME ~disturbed'
                   PROVE  /\ \E r \in selection' : /\ selection' = {r}
                                                   /\ r.method = "STEWARD_OVERRIDE"
                                                   /\ r.selected = latest'
                          /\ \E o \in occs' : o.index = latest' /\ ~o.superseded
        BY DEF OverrideStands
      <4>1. c.seen = selection /\ selection' = Override(selection, new)
        BY <2>1, <2>6
      <4>2. PICK r \in SelectionRow : /\ Override(selection, new) = {r}
                                      /\ r.method = "STEWARD_OVERRIDE"
                                      /\ r.selected = new
        <5>1. /\ selection \subseteq SelectionRow /\ IsFiniteSet(selection)
              /\ ~(Cardinality(selection) > 1)
          BY <2>2, <2>6, <4>1 DEF JourneyInv, JourneyTypeOK
        <5> QED
          BY <1>3, <5>1, OverrideFacts
      <4> QED
        BY <2>3, <3>1, <4>1, <4>2
    <3> QED
      BY <1>5, <2>5, <3>3, <3>4 DEF JourneyInv
  <2>7. CASE ~c.approved
    <3>1. UNCHANGED <<selection, latest>> /\ disturbed' = disturbed
      BY <2>1, <2>7 DEF JourneyInv, JourneyTypeOK
    <3>2. correcting' = [correcting EXCEPT ![s] = Idle]
      BY <2>1, <2>7
    <3>3. \A x \in Stewards : correcting'[x].at = "committed" <=> correcting[x].at = "committed"
      BY <1>1, <3>2 DEF JourneyInv, JourneyTypeOK, Idle
    <3>4. OverrideStands' /\ CommittedIsApproved'
      BY <2>3, <2>7, <3>1, <3>3 DEF JourneyInv, OverrideStands, CommittedIsApproved
    <3>5. ApprovedCorrectionGoverns'
      BY <1>4, <2>3, <3>1, <3>3 DEF JourneyInv, ApprovedCorrectionGoverns
    <3> QED
      BY <1>5, <2>5, <3>4, <3>5 DEF JourneyInv
  <2> QED
    BY <2>6, <2>7
<1> QED
  BY <1>6, <1>7

\* A reconstruction reads.  Under an approved correction there is one selection row, so it does
\* not fail on several.
LEMMA RebuildReadInv ==
  ASSUME LoadsType, JourneyInv, NEW p \in Stewards \cup Rebuilders, RebuildRead(p)
  PROVE  JourneyInv'
<1>1. UNCHANGED <<occs, selection, stages, latest, disturbed>> /\ operations' \in Nat
  BY DEF RebuildRead, Begin, JourneyInv, JourneyTypeOK
<1>2. OverrideStands'
  BY <1>1 DEF JourneyInv, OverrideStands
<1>3. CASE Cardinality(Live) > 1 /\ Cardinality(selection) > 1
  <2>1. /\ correcting' = IF p \in Stewards THEN [correcting EXCEPT ![p] = Idle] ELSE correcting
        /\ UNCHANGED rebuilding
    BY <1>3 DEF RebuildRead
  <2>2. JourneyTypeOK'
    BY <1>1, <2>1 DEF JourneyInv, JourneyTypeOK
  <2>3. CommittedIsApproved'
    BY <1>1, <2>1 DEF JourneyInv, CommittedIsApproved, JourneyTypeOK, Idle
  <2>4. ReadFaithfully'
    BY <2>1 DEF JourneyInv, ReadFaithfully
  <2>5. disturbed \/ latest = None
    <3>1. \A x : Cardinality({x}) = 1
      BY FS_Singleton
    <3>2. \A x : selection # {x}
      BY <1>3, <3>1
    <3> QED
      BY <3>2 DEF JourneyInv, OverrideStands
  <2>6. ApprovedCorrectionGoverns'
    BY <1>1, <2>5 DEF ApprovedCorrectionGoverns
  <2> QED
    BY <1>2, <2>2, <2>3, <2>4, <2>6 DEF JourneyInv
<1>4. CASE ~(Cardinality(Live) > 1 /\ Cardinality(selection) > 1)
  <2>1. PICK e \in GoverningChoices(Resolved(selection)) :
            /\ rebuilding' = [rebuilding EXCEPT ![p] = [at |-> "read", event |-> e, seen |-> stages,
                                from |-> selection, to |-> Resolved(selection), of |-> occs]]
            /\ UNCHANGED correcting
    BY <1>4 DEF RebuildRead
  <2> DEFINE r == [at |-> "read", event |-> e, seen |-> stages,
                   from |-> selection, to |-> Resolved(selection), of |-> occs]
  <2>2. /\ occs \subseteq Occurrence /\ IsFiniteSet(occs) /\ stages \subseteq StageRow
        /\ selection \subseteq SelectionRow /\ IsFiniteSet(selection)
    BY DEF JourneyInv, JourneyTypeOK
  <2>3. /\ Resolved(selection) \subseteq SelectionRow
        /\ IsFiniteSet(Resolved(selection))
        /\ Overridden(selection) => Resolved(selection) = selection
    BY <2>2, ResolvedFacts
  <2>4. e \in ChosenFrom(occs, Resolved(selection)) /\ e \in Nat \cup {None}
    BY <2>1, <2>2, ChoicesAreRead, ChoiceType
  <2>5. r \in ReadRebuild
    BY <2>2, <2>3, <2>4 DEF ReadRebuild
  <2>6. /\ IsFiniteSet(r.to)
        /\ Overridden(r.from) => r.to = r.from
        /\ r.event \in ChosenFrom(r.of, r.to)
    BY <2>3, <2>4
  <2>7. rebuilding' = [rebuilding EXCEPT ![p] = r]
    BY <2>1
  <2> HIDE DEF r
  <2>8. JourneyTypeOK'
    BY <1>1, <2>1, <2>5, <2>7 DEF JourneyInv, JourneyTypeOK
  <2>9. ReadFaithfully'
    BY <2>6, <2>7 DEF JourneyInv, JourneyTypeOK, ReadFaithfully
  <2>10. CommittedIsApproved' /\ ApprovedCorrectionGoverns'
    BY <1>1, <2>1 DEF JourneyInv, CommittedIsApproved, ApprovedCorrectionGoverns
  <2> QED
    BY <1>2, <2>8, <2>9, <2>10 DEF JourneyInv
<1> QED
  BY <1>3, <1>4

\* A reconstruction commits.  When nothing changed since it read, it leaves an override alone
\* and builds the journey on it.
LEMMA RebuildCommitInv ==
  ASSUME LoadsType, JourneyInv, NEW p \in Stewards \cup Rebuilders, RebuildCommit(p)
  PROVE  JourneyInv'
<1> DEFINE r == rebuilding[p]
           changed == {n \in r.to : n \notin r.from}
           kept == {o \in selection : \A n \in changed : n.row # o.row}
           merged(n) == LET at == {o \in selection : o.row = n.row}
                        IN  IF at = {} THEN n ELSE [(CHOOSE o \in at : TRUE) EXCEPT !.selected = n.selected]
           stage == [run |-> operations, by |-> p, event |-> r.event]
<1>1. r \in ReadRebuild /\ r.at = "read"
  BY OperationKinds DEF RebuildCommit, JourneyInv
<1>2. /\ r.event \in Nat \cup {None} /\ r.seen \subseteq StageRow /\ r.to \subseteq SelectionRow
      /\ r.from \subseteq SelectionRow /\ r.of \subseteq Occurrence
  BY <1>1 DEF ReadRebuild
<1>3. /\ stages' = (stages \ r.seen) \cup {stage}
      /\ selection' = kept \cup {merged(n) : n \in changed}
      /\ disturbed' = (disturbed \/ r.seen # stages \/ r.from # selection \/ r.of # occs)
      /\ rebuilding' = [rebuilding EXCEPT ![p] = Idle]
      /\ correcting' = IF p \in Stewards THEN [correcting EXCEPT ![p] = Idle] ELSE correcting
      /\ UNCHANGED <<occs, operations, latest>>
  BY DEF RebuildCommit
<1>4. /\ IsFiniteSet(r.to)
      /\ Overridden(r.from) => r.to = r.from
      /\ r.event \in ChosenFrom(r.of, r.to)
  BY <1>1 DEF JourneyInv, ReadFaithfully
<1>5. selection \subseteq SelectionRow /\ IsFiniteSet(selection) /\ occs \subseteq Occurrence /\ IsFiniteSet(occs)
  BY DEF JourneyInv, JourneyTypeOK
<1>6. selection' \subseteq SelectionRow /\ IsFiniteSet(selection')
  <2>1. \A n \in changed : merged(n) \in SelectionRow
    <3> SUFFICES ASSUME NEW n \in changed
                 PROVE  merged(n) \in SelectionRow
      OBVIOUS
    <3> DEFINE at == {o \in selection : o.row = n.row}
    <3>1. n \in SelectionRow
      BY <1>2
    <3>2. CASE at = {}
      BY <3>1, <3>2
    <3>3. CASE at # {}
      <4>1. PICK o \in SelectionRow : o = CHOOSE x \in at : TRUE
        BY <1>5, <3>3
      <4>2. merged(n) = [o EXCEPT !.selected = n.selected]
        BY <3>3, <4>1
      <4> QED
        BY <3>1, <4>2 DEF SelectionRow
    <3> QED
      BY <3>2, <3>3
  <2> DEFINE f == [n \in changed |-> merged(n)]
             written == {merged(n) : n \in changed}
  <2>2. f \in [changed -> written] /\ \A t \in written : \E n \in changed : f[n] = t
    OBVIOUS
  <2>3. written \subseteq SelectionRow
    BY <2>1
  <2>4. IsFiniteSet(changed) /\ IsFiniteSet(kept) /\ kept \subseteq SelectionRow
    <3>1. changed \in SUBSET r.to /\ kept \in SUBSET selection
      OBVIOUS
    <3> HIDE DEF changed, kept, r
    <3> QED
      BY <1>4, <1>5, <3>1, FS_Subset
  <2>5. selection' = kept \cup written
    BY <1>3
  <2> HIDE DEF f, written, changed, kept
  <2>6. IsFiniteSet(written)
    BY <2>2, <2>4, FiniteImage
  <2> QED
    BY <2>3, <2>4, <2>5, <2>6, FS_Union
<1>7. stages' \subseteq StageRow
  <2>1. stage \in StageRow
    BY <1>2 DEF JourneyInv, JourneyTypeOK, StageRow
  <2> QED
    BY <1>3, <2>1 DEF JourneyInv, JourneyTypeOK
<1> HIDE DEF changed, kept, merged, stage, r
<1>8. JourneyTypeOK'
  BY <1>3, <1>6, <1>7 DEF JourneyInv, JourneyTypeOK
<1>9. CommittedIsApproved'
  BY <1>3 DEF JourneyInv, JourneyTypeOK, CommittedIsApproved, Idle
<1>10. ReadFaithfully'
  BY <1>3 DEF JourneyInv, JourneyTypeOK, ReadFaithfully, Idle
<1>11. ASSUME ~disturbed', latest' # None
       PROVE  /\ selection' = selection
              /\ \E x \in selection : /\ selection = {x} /\ x.method = "STEWARD_OVERRIDE"
                                      /\ x.selected = latest
              /\ \E o \in occs : o.index = latest /\ ~o.superseded
              /\ r.event \in ChosenFrom(occs, selection)
              /\ stages' = {stage}
  <2>1. ~disturbed /\ r.seen = stages /\ r.from = selection /\ r.of = occs /\ latest # None
    BY <1>3, <1>11
  <2>2. PICK x \in selection : selection = {x} /\ x.method = "STEWARD_OVERRIDE" /\ x.selected = latest
    BY <2>1 DEF JourneyInv, OverrideStands
  <2>3. r.to = selection
    BY <1>4, <2>1, <2>2 DEF Overridden
  <2>4. changed = {}
    BY <2>1, <2>3 DEF changed
  <2>5. selection' = selection
    BY <1>3, <2>4 DEF kept
  <2>6. \E o \in occs : o.index = latest /\ ~o.superseded
    BY <2>1 DEF JourneyInv, OverrideStands
  <2>7. r.event \in ChosenFrom(occs, selection)
    BY <1>4, <2>1, <2>3
  <2>8. stages' = {stage}
    BY <1>3, <2>1
  <2> QED
    BY <2>2, <2>5, <2>6, <2>7, <2>8
<1>12. OverrideStands'
  BY <1>3, <1>11 DEF OverrideStands
<1>13. ApprovedCorrectionGoverns'
  <2> SUFFICES ASSUME ~disturbed', latest' # None, \A o \in occs' : o.index = latest' => ~o.quarantined
               PROVE  {st.event : st \in stages'} = {latest'} /\ Cardinality(stages') = 1
    BY DEF ApprovedCorrectionGoverns
  <2>1. PICK x \in selection : selection = {x} /\ x.selected = latest
    BY <1>11
  <2>2. PICK o \in occs : o.index = latest /\ ~o.superseded
    BY <1>11
  <2>3. ~o.quarantined
    BY <1>3, <2>2
  <2>4. ChosenFrom(occs, {x}) = {x.selected}
    BY <1>5, <2>1, <2>2, <2>3, OverrideIsChosen
  <2>5. r.event = latest /\ stages' = {stage}
    BY <1>11, <2>1, <2>4
  <2>6. stage.event = latest /\ latest' = latest
    BY <1>3, <2>5 DEF stage
  <2>7. Cardinality({stage}) = 1
    BY FS_Singleton
  <2> QED
    BY <2>5, <2>6, <2>7
<1> QED
  BY <1>8, <1>9, <1>10, <1>12, <1>13 DEF JourneyInv

\* A quality run quarantines a row; when it is the correction, nothing is promised of it.
LEMMA QualityRunInv ==
  ASSUME JourneyInv, NEW o \in occs, QualityRun(o)
  PROVE  JourneyInv'
<1> DEFINE q == [o EXCEPT !.quarantined = TRUE]
<1>1. /\ occs' = (occs \ {o}) \cup {q} /\ operations' \in Nat
      /\ UNCHANGED <<selection, stages, correcting, rebuilding, latest, disturbed>>
  BY DEF QualityRun, Begin, JourneyInv, JourneyTypeOK
<1>2. occs \subseteq Occurrence /\ IsFiniteSet(occs)
  BY DEF JourneyInv, JourneyTypeOK
<1>3. q \in Occurrence /\ q.index = o.index /\ q.superseded = o.superseded /\ q.quarantined
  BY <1>2 DEF Occurrence
<1> HIDE DEF q
<1>4. IsFiniteSet(occs')
  BY <1>1, <1>2, FS_RemoveElement, FS_AddElement
<1>5. JourneyTypeOK'
  BY <1>1, <1>2, <1>3, <1>4 DEF JourneyInv, JourneyTypeOK
<1>6. OverrideStands'
  BY <1>1, <1>3 DEF JourneyInv, OverrideStands
<1>7. CommittedIsApproved' /\ ReadFaithfully'
  BY <1>1 DEF JourneyInv, CommittedIsApproved, ReadFaithfully
<1>8. ApprovedCorrectionGoverns'
  <2>1. (\A x \in occs' : x.index = latest => ~x.quarantined)
        => \A x \in occs : x.index = latest => ~x.quarantined
    BY <1>1, <1>3
  <2> QED
    BY <1>1, <2>1 DEF JourneyInv, ApprovedCorrectionGoverns
<1> QED
  BY <1>5, <1>6, <1>7, <1>8 DEF JourneyInv

\* A stop between the two commits: the journey is excused.
LEMMA StopBetweenCommitsInv ==
  ASSUME JourneyInv, NEW s \in Stewards, StopBetweenCommits(s)
  PROVE  JourneyInv'
<1>1. /\ correcting' = [correcting EXCEPT ![s] = Idle] /\ rebuilding' = [rebuilding EXCEPT ![s] = Idle]
      /\ disturbed' = TRUE /\ UNCHANGED <<occs, selection, stages, operations, latest>>
  BY DEF StopBetweenCommits
<1>2. JourneyTypeOK'
  BY <1>1 DEF JourneyInv, JourneyTypeOK
<1>3. CommittedIsApproved' /\ ReadFaithfully'
  BY <1>1 DEF JourneyInv, JourneyTypeOK, CommittedIsApproved, ReadFaithfully, Idle
<1> QED
  BY <1>1, <1>2, <1>3 DEF JourneyInv, OverrideStands, ApprovedCorrectionGoverns

\* Every step keeps the invariant.
LEMMA JourneyStepInv ==
  ASSUME LoadsType, JourneyInv, [JourneyNext]_journeyVars
  PROVE  JourneyInv'
<1>1. CASE UNCHANGED journeyVars
  BY <1>1 DEF journeyVars, JourneyInv, JourneyTypeOK, OverrideStands, CommittedIsApproved,
              ReadFaithfully, ApprovedCorrectionGoverns
<1>2. CASE JourneyNext
  BY <1>2, CorrectBeginInv, CorrectCommitInv, StopBetweenCommitsInv, RebuildReadInv,
     RebuildCommitInv, QualityRunInv DEF JourneyNext
<1> QED
  BY <1>1, <1>2

-----------------------------------------------------------------------------
(* Theorems *)

\* Every behaviour of the corrections keeps the invariant: well-formed rows, an approved
\* correction that is live and selected, and reconstructions that keep what they read.
THEOREM JourneyInvariant ==
  ASSUME LoadsType
  PROVE  JourneySpec => []JourneyInv
<1>1. JourneyInit => JourneyInv
  BY JourneyInitInv
<1>2. JourneyInv /\ [JourneyNext]_journeyVars => JourneyInv'
  BY JourneyStepInv
<1> QED
  BY <1>1, <1>2, PTL DEF JourneySpec

\* The journey is built on the correction approved last (create_correction and
\* reconstruct_vessel_call), unless commits overlapped or it was quarantined.
THEOREM CorrectionGoverns ==
  ASSUME LoadsType
  PROVE  JourneySpec => []ApprovedCorrectionGoverns
<1>1. JourneyInv => ApprovedCorrectionGoverns
  BY DEF JourneyInv
<1> QED
  BY <1>1, JourneyInvariant, PTL
=============================================================================
