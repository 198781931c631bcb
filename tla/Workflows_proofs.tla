-------------------------- MODULE Workflows_proofs --------------------------
(***************************************************************************)
(* Proofs about Workflows, for every instance of the desks.  A step of one *)
(* desk leaves the tables of the others alone, so a behaviour of all desks *)
(* is, seen by one of them, a behaviour of that desk.  The outlier, delay  *)
(* and dashboard desks are defined in Workflows and proved from their      *)
(* actions; each of the others has a module, whose specification is proved *)
(* about and which the desk is then shown to follow.                       *)
(***************************************************************************)
EXTENDS Workflows, Statistics_proofs

-----------------------------------------------------------------------------
(* Outlier review: a detection carries exclusions over.                    *)

OutlierRow == [key : Keys, gen : Nat, excluded : BOOLEAN]
OutlierRun == [at : {"read", "deleted"}, found : SUBSET Keys, gen : Nat,
               seen : SUBSET OutlierRow, doomed : SUBSET OutlierRow]

OutlierInv ==
    /\ records \subseteq OutlierRow
    /\ detection \in [Detectors -> {OR!Waiting} \cup OutlierRun]
    /\ reviews \in Nat

\* What the outlier desk sees of a step.
LEMMA OutlierSteps ==
  ASSUME [WorkflowsNext]_workflowVars
  PROVE  [OR!OutlierNext]_(OR!outlierVars)
BY DEF WorkflowsNext, Identity, Alerting, Items, Dashboard, Delays, OutlierDesk, JourneyDesk, SessionDesk,
       workflowVars, outlierTables, OR!outlierVars

\* The one earlier row of a rule and call decides what the new row takes over.
LEMMA CarriedOverUnique ==
  ASSUME NEW seen, NEW r \in seen, \A q \in seen : q.key = r.key => q = r
  PROVE  OR!CarriedOver(seen, r.key) = {r.excluded}
<1>1. {q \in seen : q.key = r.key} = {r}
  OBVIOUS
<1>2. {q.excluded : q \in {q \in seen : q.key = r.key}} = {r.excluded}
  BY <1>1
<1> QED
  BY <1>2 DEF OR!CarriedOver

\* Every step of the outlier desk keeps its rows and detections well formed.
LEMMA OutlierStepInv ==
  ASSUME OutlierInv, [OR!OutlierNext]_(OR!outlierVars)
  PROVE  OutlierInv'
<1>1. ASSUME NEW d \in Detectors, NEW found \in SUBSET Keys, OR!DetectRead(d, found)
      PROVE  OutlierInv'
  <2> DEFINE run == [at |-> "read", found |-> found, gen |-> reviews', seen |-> records, doomed |-> {}]
  <2>1. reviews' \in Nat /\ records' = records /\ detection' = [detection EXCEPT ![d] = run]
    BY <1>1 DEF OR!DetectRead, OutlierInv
  <2>2. run \in OutlierRun
    BY <2>1 DEF OutlierInv, OutlierRun
  <2> HIDE DEF run
  <2> QED
    BY <2>1, <2>2 DEF OutlierInv
<1>2. ASSUME NEW d \in Detectors, OR!DetectDelete(d)
      PROVE  OutlierInv'
  <2>1. detection[d] \in OutlierRun
    BY <1>2 DEF OR!DetectDelete, OutlierInv, OR!Waiting
  <2> DEFINE run == [detection[d] EXCEPT !.at = "deleted", !.doomed = records]
  <2>2. run \in OutlierRun
    BY <2>1 DEF OutlierInv, OutlierRun
  <2>3. detection' = [detection EXCEPT ![d] = run] /\ records' = records /\ reviews' = reviews
    BY <1>2, <2>1 DEF OR!DetectDelete, OutlierInv, OutlierRun
  <2> HIDE DEF run
  <2> QED
    BY <2>2, <2>3 DEF OutlierInv
<1>3. ASSUME NEW d \in Detectors, OR!DetectCommit(d)
      PROVE  OutlierInv'
  <2> DEFINE run == detection[d]
  <2>1. run.found \subseteq Keys /\ run.gen \in Nat
    BY <1>3 DEF OR!DetectCommit, OutlierInv, OR!Waiting, OutlierRun
  <2>2. PICK carried \in [run.found -> BOOLEAN] :
            records' = (records \ run.doomed) \cup
                       {[key |-> k, gen |-> run.gen, excluded |-> carried[k]] : k \in run.found}
    BY <1>3 DEF OR!DetectCommit
  <2>3. records' \subseteq OutlierRow
    BY <2>1, <2>2 DEF OutlierInv, OutlierRow
  <2>4. detection' = [detection EXCEPT ![d] = OR!Waiting] /\ reviews' = reviews
    BY <1>3 DEF OR!DetectCommit
  <2> QED
    BY <2>3, <2>4 DEF OutlierInv
<1>4. ASSUME NEW s \in Stewards, NEW r \in records, OR!ToggleRead(s, r)
      PROVE  OutlierInv'
  BY <1>4 DEF OR!ToggleRead, OutlierInv
<1>5. ASSUME NEW s \in Stewards, NEW x \in BOOLEAN, OR!ToggleCommit(s, x)
      PROVE  OutlierInv'
  <2>1. PICK rs \in SUBSET records : records' = (records \ rs) \cup {[r EXCEPT !.excluded = x] : r \in rs}
    BY <1>5 DEF OR!ToggleCommit
  <2>2. records' \subseteq OutlierRow
    BY <2>1 DEF OutlierInv, OutlierRow
  <2> QED
    BY <1>5, <2>2 DEF OR!ToggleCommit, OutlierInv
<1>6. CASE UNCHANGED OR!outlierVars
  BY <1>6 DEF OR!outlierVars, OutlierInv
<1> QED
  BY <1>1, <1>2, <1>3, <1>4, <1>5, <1>6 DEF OR!OutlierNext

\* A step that ends a detection is its commit, which writes what it carried over.
LEMMA DetectionKeepsExclusions ==
  ASSUME OutlierInv, [OR!OutlierNext]_(OR!outlierVars), NEW d \in Detectors,
         detection[d].at = "deleted", detection'[d].at = "idle",
         NEW r \in detection[d].seen, r.key \in detection[d].found,
         \A q \in detection[d].seen : q.key = r.key => q = r
  PROVE  \E n \in records' : n.key = r.key /\ n.gen = detection[d].gen /\ n.excluded = r.excluded
<1>1. ASSUME NEW e \in Detectors, NEW found \in SUBSET Keys, OR!DetectRead(e, found)
      PROVE  FALSE
  BY <1>1 DEF OR!DetectRead, OutlierInv
<1>2. ASSUME NEW e \in Detectors, OR!DetectDelete(e)
      PROVE  FALSE
  BY <1>2 DEF OR!DetectDelete, OutlierInv
<1>3. ASSUME NEW e \in Detectors, OR!DetectCommit(e)
      PROVE  \E n \in records' : n.key = r.key /\ n.gen = detection[d].gen /\ n.excluded = r.excluded
  <2>1. d = e
    BY <1>3 DEF OR!DetectCommit, OutlierInv
  <2>2. PICK carried \in [detection[d].found -> BOOLEAN] :
            /\ \A k \in detection[d].found : carried[k] \in OR!CarriedOver(detection[d].seen, k)
            /\ records' = (records \ detection[d].doomed) \cup
                          {[key |-> k, gen |-> detection[d].gen, excluded |-> carried[k]] : k \in detection[d].found}
    BY <1>3, <2>1 DEF OR!DetectCommit
  <2>3. carried[r.key] = r.excluded
    <3>1. \A seen : \A q \in seen : (\A x \in seen : x.key = q.key => x = q)
                        => OR!CarriedOver(seen, q.key) = {q.excluded}
      BY CarriedOverUnique
    <3>2. OR!CarriedOver(detection[d].seen, r.key) = {r.excluded}
      BY <3>1
    <3> QED
      BY <2>2, <3>2
  <2>4. [key |-> r.key, gen |-> detection[d].gen, excluded |-> r.excluded] \in records'
    BY <2>2, <2>3
  <2> QED
    BY <2>4
<1>4. ASSUME detection' = detection
      PROVE  FALSE
  BY <1>4
<1>5. \/ \E e \in Detectors : \/ \E found \in SUBSET Keys : OR!DetectRead(e, found)
                              \/ OR!DetectDelete(e) \/ OR!DetectCommit(e)
      \/ detection' = detection
  BY DEF OR!OutlierNext, OR!outlierVars, OR!ToggleRead, OR!ToggleCommit
<1> QED
  BY <1>1, <1>2, <1>3, <1>4, <1>5

\* detect_outliers keeps a steward's exclusion across every detection that finds the outlier
\* again.
THEOREM ExclusionsSurvive == WorkflowsSpec => ExclusionOutlivesDetection
<1>1. WorkflowsInit => OutlierInv
  BY DEF WorkflowsInit, OR!OutlierInit, OutlierInv
<1>2. OutlierInv /\ [WorkflowsNext]_workflowVars => OutlierInv'
  BY OutlierSteps, OutlierStepInv
<1>3. OutlierInv /\ [WorkflowsNext]_workflowVars =>
        [\A d \in Detectors :
          detection[d].at = "deleted" /\ detection'[d].at = "idle" /\ detection[d].seen = detection[d].doomed =>
              \A r \in detection[d].seen :
                  /\ r.key \in detection[d].found
                  /\ \A q \in detection[d].seen : q.key = r.key => q = r
                  => \E n \in records' : n.key = r.key /\ n.gen = detection[d].gen /\ n.excluded = r.excluded]_(OR!outlierVars)
  BY OutlierSteps, DetectionKeepsExclusions
<1> QED
  BY <1>1, <1>2, <1>3, PTL DEF WorkflowsSpec, ExclusionOutlivesDetection, OR!ExclusionOutlivesDetection

-----------------------------------------------------------------------------
(* Delay causes: inference never touches a confirmed reason.               *)

Reasons == {"none", "source", "reviewer", DC!DA!ProposedCategory(Records, Stage)}
Header == [cause : {"Confirmed", "Inferred"}, reason : Reasons, closed : BOOLEAN, review : BOOLEAN]

\* A request under way holds the header it read, and a confirmed delay was confirmed then.
DelayInv ==
    /\ delay \in Header
    /\ analysing = [r \in Requests |-> analysing[r]]
    /\ \A r \in Requests :
           \/ analysing[r] = DC!Idle
           \/ /\ analysing[r].delay \in Header
              /\ delay.cause = "Confirmed" => analysing[r].delay.cause = "Confirmed"

\* What the delay desk sees of a step.
LEMMA DelaySteps ==
  ASSUME [WorkflowsNext]_workflowVars
  PROVE  [DC!DelayNext]_(DC!delayVars)
BY DEF WorkflowsNext, Identity, Alerting, Items, Dashboard, Delays, OutlierDesk, JourneyDesk, SessionDesk,
       workflowVars, delayTables, DC!delayVars

\* An attribute the request left as it read it is not written.
LEMMA WrittenFields ==
  ASSUME NEW current \in Header, NEW loaded \in Header, NEW new \in Header,
         new.cause = loaded.cause
  PROVE  /\ DC!Written(current, loaded, new) \in Header
         /\ DC!Written(current, loaded, new).cause = current.cause
         /\ DC!Written(current, loaded, new).reason \in {current.reason, new.reason}
<1>1. DOMAIN current = {"cause", "reason", "closed", "review"}
  BY DEF Header
<1> DEFINE w == DC!Written(current, loaded, new)
<1>2. w = [f \in {"cause", "reason", "closed", "review"} |->
               IF new[f] = loaded[f] THEN current[f] ELSE new[f]]
  BY <1>1 DEF DC!Written
<1> HIDE DEF w
<1>3. w.cause = current.cause /\ w.reason \in {current.reason, new.reason}
  BY <1>2
<1>4. w = [cause |-> w.cause, reason |-> w.reason, closed |-> w.closed, review |-> w.review]
  BY <1>2
<1>5. w.closed \in BOOLEAN /\ w.review \in BOOLEAN /\ w.cause \in {"Confirmed", "Inferred"} /\ w.reason \in Reasons
  BY <1>2 DEF Header
<1> QED
  BY <1>3, <1>4, <1>5 DEF Header, w

\* The effect of a step on the header: what it leaves of the cause and of the reason.
LEMMA DelayStepEffect ==
  ASSUME DelayInv, [DC!DelayNext]_(DC!delayVars)
  PROVE  /\ DelayInv'
         /\ delay.cause = "Confirmed" => /\ delay'.cause = "Confirmed"
                                         /\ delay'.reason \in {delay.reason, "reviewer"}
<1>0. ASSUME NEW r \in Requests, DC!Finish(r), delay' \in Header, delay'.cause = delay.cause
      PROVE  DelayInv'
  <2>1. analysing' = [analysing EXCEPT ![r] = DC!Idle]
    BY <1>0 DEF DC!Finish
  <2>2. \A q \in Requests : analysing'[q] = IF q = r THEN DC!Idle ELSE analysing[q]
    BY <2>1 DEF DelayInv
  <2>3. analysing' = [q \in Requests |-> analysing'[q]]
    BY <2>1 DEF DelayInv
  <2> QED
    BY <1>0, <2>2, <2>3 DEF DelayInv
<1>1. ASSUME NEW r \in Requests, NEW kind, DC!Begin(r, kind)
      PROVE  DelayInv' /\ delay' = delay
  <2> DEFINE q == [kind |-> kind, delay |-> delay, allocs |-> allocs, id |-> nextId]
  <2>1. delay' = delay /\ analysing' = [analysing EXCEPT ![r] = q] /\ q.delay = delay
    BY <1>1 DEF DC!Begin
  <2> HIDE DEF q
  <2>2. \A x \in Requests : analysing'[x] = IF x = r THEN q ELSE analysing[x]
    BY <2>1 DEF DelayInv
  <2>3. analysing' = [x \in Requests |-> analysing'[x]]
    BY <2>1 DEF DelayInv
  <2> QED
    BY <2>1, <2>2, <2>3 DEF DelayInv
<1>2. ASSUME NEW r \in Requests, NEW p \in Payloads, DC!Allocate(r, p)
      PROVE  DelayInv' /\ delay' = delay
  BY <1>0, <1>2 DEF DC!Allocate, DelayInv
<1>3. ASSUME NEW r \in Requests, DC!Infer(r)
      PROVE  /\ DelayInv'
             /\ delay.cause = "Confirmed" => delay' = delay
  <2> DEFINE header == analysing[r].delay
             proposal == [header EXCEPT !.cause = "Inferred", !.reason = DC!DA!ProposedCategory(Records, Stage)]
  <2>1. DC!Finish(r) /\ (delay' = delay \/ (DC!MayInfer(header) /\ delay' = DC!Written(delay, header, proposal)))
    BY <1>3 DEF DC!Infer
  <2>2. analysing[r].kind = "infer"
    BY <1>3 DEF DC!Infer
  <2>3. /\ header \in Header
        /\ delay.cause = "Confirmed" => header.cause = "Confirmed"
    BY <2>2 DEF DelayInv, DC!Idle
  <2>4. CASE delay' = delay
    BY <1>0, <2>1, <2>4 DEF DelayInv
  <2>5. CASE DC!MayInfer(header) /\ delay' = DC!Written(delay, header, proposal)
    <3>1. header.cause = "Inferred" /\ delay.cause # "Confirmed"
      BY <2>3, <2>5 DEF Header, DC!MayInfer
    <3>2. proposal \in Header /\ proposal.cause = header.cause
      <4> HIDE DEF header
      <4>1. DC!DA!ProposedCategory(Records, Stage) \in Reasons
        BY DEF Reasons
      <4>2. \A h \in Header, x \in Reasons :
                LET new == [h EXCEPT !.cause = "Inferred", !.reason = x]
                IN  new \in Header /\ new.cause = "Inferred"
        BY DEF Header
      <4> QED
        BY <2>3, <3>1, <4>1, <4>2
    <3>3. delay' \in Header /\ delay'.cause = delay.cause
      <4> HIDE DEF header, proposal
      <4>1. delay \in Header
        BY DEF DelayInv
      <4> QED
        BY <2>3, <2>5, <3>2, <4>1, WrittenFields
    <3> QED
      BY <1>0, <2>1, <3>1, <3>3
  <2> QED
    BY <2>1, <2>4, <2>5
<1>4. ASSUME NEW r \in Requests, NEW outcome, DC!Review(r, outcome)
      PROVE  DelayInv' /\ delay'.cause = delay.cause /\ delay'.reason \in {delay.reason, "reviewer"}
  <2> DEFINE header == analysing[r].delay
             reviewed == [header EXCEPT !.reason = "reviewer", !.review = FALSE, !.closed = (outcome = "APPROVED")]
  <2>1. DC!Finish(r) /\ (delay' = delay \/ delay' = DC!Written(delay, header, reviewed))
    BY <1>4 DEF DC!Review
  <2>2. analysing[r].kind = "review"
    BY <1>4 DEF DC!Review
  <2>3. header \in Header /\ delay \in Header
    BY <2>2 DEF DelayInv, DC!Idle
  <2>4. CASE delay' = delay
    BY <1>0, <2>1, <2>4 DEF DelayInv
  <2>5. CASE delay' = DC!Written(delay, header, reviewed)
    <3>2. reviewed \in Header /\ reviewed.cause = header.cause /\ reviewed.reason = "reviewer"
      <4> HIDE DEF header
      <4>1. \A h \in Header, x \in BOOLEAN :
                LET new == [h EXCEPT !.reason = "reviewer", !.review = FALSE, !.closed = x]
                IN  new \in Header /\ new.cause = h.cause /\ new.reason = "reviewer"
        BY DEF Header, Reasons
      <4> QED
        BY <2>3, <4>1
    <3>3. /\ delay' \in Header /\ delay'.cause = delay.cause
          /\ delay'.reason \in {delay.reason, "reviewer"}
      <4> HIDE DEF header, reviewed
      <4> QED
        BY <2>3, <2>5, <3>2, WrittenFields
    <3> QED
      BY <1>0, <2>1, <3>3
  <2> QED
    BY <2>1, <2>4, <2>5
<1>5. ASSUME UNCHANGED DC!delayVars
      PROVE  DelayInv' /\ delay' = delay
  BY <1>5 DEF DC!delayVars, DelayInv
<1> QED
  BY <1>1, <1>2, <1>3, <1>4, <1>5 DEF DC!DelayNext

\* The HARD RULE of inference.py: a confirmed delay stays confirmed, and only a reviewer
\* replaces its reason, however requests overlap.
THEOREM ConfirmedReasonIsKept == WorkflowsSpec => ConfirmedReasonKept
<1>1. WorkflowsInit => DelayInv
  BY DEF WorkflowsInit, DC!DelayInit, DC!ImportedDelay, DelayInv, Header, Reasons
<1>2. DelayInv /\ [WorkflowsNext]_workflowVars => DelayInv'
  BY DelaySteps, DelayStepEffect
<1>3. DelayInv /\ [WorkflowsNext]_workflowVars =>
        [delay.cause = "Confirmed" => /\ delay'.cause = "Confirmed"
                                      /\ delay'.reason \in {delay.reason, "reviewer"}]_(DC!delayVars)
  BY DelaySteps, DelayStepEffect
<1> QED
  BY <1>1, <1>2, <1>3, PTL DEF WorkflowsSpec, ConfirmedReasonKept, DC!ConfirmedReasonKept

-----------------------------------------------------------------------------
(* Delay causes: an allocation accounts for the delay.                     *)

\* The sums and enumerations the delay causes use are those of Statistics.
LEMMA DCStatistics ==
  /\ \A s : DC!DA!Total(s) = Total(s)
  /\ \A S : DC!DA!Min(S) = Min(S)
  /\ \A S : DC!Cardinality(S) = Cardinality(S)
  /\ \A S : DC!SetToSeq(S) = Enumeration(S)
<1>1. \A s : DC!DA!Total(s) = Total(s)
  BY DEF DC!DA!Total, DC!DA!SumFunction, DC!DA!SumFunctionOnSet, SumFunctionOnSet, DC!DA!FoldFunctionOnSet,
         FoldFunctionOnSet, DC!DA!MapThenFoldSet, MapThenFoldSet, Total, SumFunction
<1>2. \A S : DC!DA!Min(S) = Min(S)
  BY DEF DC!DA!Min, Min
<1>3. \A S : DC!Cardinality(S) = Cardinality(S)
  BY DEF DC!Cardinality, Cardinality, DC!IsFiniteSet, IsFiniteSet
<1>4. \A S : DC!SetToSeq(S) = Enumeration(S)
  BY <1>3 DEF DC!SetToSeq, Enumeration, DC!IsInjective, IsInjective
<1> QED
  BY <1>1, <1>2, <1>3, <1>4

\* The rows of an allocation list, by the place of the entry they are of.
AllocationRow(payload, id, primary, i) ==
    [id |-> <<id, i>>, hours |-> payload[i].hours, primary |-> i = primary,
     status |-> payload[i].status, state |-> "APPROVED"]
Entry == [hours : Int, primary : BOOLEAN, status : STRING]

\* allocate_causes: the new rows add up to what the analyst sent, and one of them is primary.
LEMMA NewAllocations ==
  ASSUME NEW payload \in Seq(Entry), NEW id
  PROVE  LET new == DC!NewAllocs(payload, id)
         IN  /\ DC!Allocated(new) = Total([i \in DOMAIN payload |-> payload[i].hours])
             /\ Total([i \in DOMAIN payload |-> payload[i].hours]) \in Int
             /\ new # {} => DC!Cardinality(DC!Primary(new)) = 1
<1> DEFINE n == Len(payload)
           T == 1..n
           marked == {i \in DOMAIN payload : payload[i].primary}
           first == IF marked = {} THEN 1 ELSE DC!DA!Min(marked)
           row == [i \in T |-> AllocationRow(payload, id, first, i)]
           R == {row[i] : i \in T}
           hours == [i \in DOMAIN payload |-> payload[i].hours]
           w == [a \in R |-> a.hours]
           s == DC!SetToSeq(R)
           listed == [i \in DOMAIN s |-> s[i].hours]
<1>1. n \in Nat /\ DOMAIN payload = T /\ \A i \in T : payload[i].hours \in Int /\ payload[i].primary \in BOOLEAN
  <2>1. n \in Nat /\ DOMAIN payload = T /\ \A i \in T : payload[i] \in Entry
    OBVIOUS
  <2>2. \A x \in Entry : x.hours \in Int /\ x.primary \in BOOLEAN
    BY DEF Entry
  <2> QED
    BY <2>1, <2>2
<1>2. DC!NewAllocs(payload, id) = R
  <2>1. DC!NewAllocs(payload, id) = {AllocationRow(payload, id, first, i) : i \in DOMAIN payload}
    BY DEF DC!NewAllocs, AllocationRow
  <2> HIDE DEF first
  <2> QED
    BY <1>1, <2>1
<1>3. /\ DOMAIN hours = T
      /\ \A i \in T : hours[i] = payload[i].hours
  BY <1>1
<1>a. \A i \in marked : i \in T
  BY <1>1
<1>4. T # {} => first \in T
  <2>1. CASE marked = {}
    BY <1>1, <2>1
  <2>2. CASE marked # {}
    <3>1. marked \subseteq Nat
      BY <1>1, <1>a
    <3>2. PICK k \in marked : \A x \in marked : k <= x
      BY <2>2, <3>1, LeastNumber
    <3>3. Min(marked) \in marked
      BY <3>2 DEF Min
    <3> QED
      BY <1>a, <2>2, <3>3, DCStatistics
  <2> QED
    BY <2>1, <2>2
<1> HIDE DEF first, marked, n, hours
<1>5. \A i \in T : /\ row[i].hours = payload[i].hours /\ row[i].id = <<id, i>>
                   /\ row[i].primary = (i = first)
  BY DEF AllocationRow
<1>6. \A i, j \in T : row[i] = row[j] => i = j
  BY <1>5
<1>7. IsFiniteSet(T) /\ IsFiniteSet(R)
  <2>1. IsFiniteSet(T)
    BY <1>1, FS_Interval
  <2> HIDE DEF T
  <2>2. row \in Surjection(T, R)
    <3>1. row \in [T -> R]
      OBVIOUS
    <3> HIDE DEF row
    <3> QED
      BY <3>1 DEF Surjection
  <2> HIDE DEF row, R
  <2> QED
    BY <2>1, <2>2, FS_Surjection
<1>8. /\ \A a \in R : w[a] = a.hours /\ w[a] \in Int
      /\ row \in [T -> R] /\ \A y \in R : \E x \in T : row[x] = y
  <2>1. \A i \in T : row[i].hours \in Int
    BY <1>1, <1>5
  <2> HIDE DEF row, T
  <2>2. \A a \in R : a.hours \in Int
    BY <2>1
  <2>3. row \in [T -> R]
    BY DEF row
  <2> QED
    BY <2>2, <2>3
<1>9. \A i \in T : hours[i] = w[row[i]]
  <2> HIDE DEF row, T, w
  <2> QED
    BY <1>3, <1>5, <1>8
<1> HIDE DEF row, T, R, w
<1>10. SumFunctionOnSet(hours, T) = SumFunctionOnSet(w, R)
  BY <1>6, <1>7, <1>8, <1>9, SumMoved
<1>11. DOMAIN listed = 1..Cardinality(R) /\ \A i \in 1..Cardinality(R) : listed[i] = w[Enumeration(R)[i]]
  <2>1. s = Enumeration(R) /\ Enumeration(R) \in [1..Cardinality(R) -> R]
    BY <1>7, DCStatistics, Enumerated
  <2> QED
    BY <1>8, <2>1
<1>12. DC!Allocated(R) = Total(listed)
  BY DCStatistics DEF DC!Allocated
<1> HIDE DEF listed, s
<1>13. SumFunctionOnSet(listed, 1..Cardinality(R)) = SumFunctionOnSet(w, R)
  BY <1>7, <1>8, <1>11, SumEnumerated
<1>14. DC!Allocated(R) = Total(hours)
  BY <1>3, <1>10, <1>11, <1>12, <1>13 DEF Total, SumFunction
<1>15. Total(hours) \in Int
  <2>1. SumFunctionOnSet(hours, T) \in Int
    BY <1>1, <1>3, <1>7, SumIsInt
  <2> QED
    BY <1>3, <2>1 DEF Total, SumFunction
<1>16. R # {} => DC!Cardinality(DC!Primary(R)) = 1
  <2> SUFFICES ASSUME R # {}
               PROVE  DC!Cardinality(DC!Primary(R)) = 1
    OBVIOUS
  <2>1. first \in T
    BY <1>4 DEF R
  <2>2. DC!Primary(R) = {row[first]}
    BY <1>5, <2>1 DEF DC!Primary, R
  <2> QED
    BY <2>2, DCStatistics, FS_Singleton
<1> QED
  BY <1>2, <1>14, <1>15, <1>16 DEF hours

\* The step that ends an allocation which changed the rows it read is its commit.
LEMMA AllocationStep ==
  ASSUME DelayInv, [DC!DelayNext]_(DC!delayVars), NEW r \in Requests,
         analysing[r].kind = "allocate", analysing'[r] = DC!Idle,
         analysing[r].allocs = allocs, allocs' # allocs
  PROVE  DC!Allocated(allocs') <= Duration /\ (allocs' # {} => DC!Cardinality(DC!Primary(allocs')) = 1)
<1>1. ASSUME NEW q \in Requests, DC!Finish(q)
      PROVE  q = r
  <2>1. analysing' = [analysing EXCEPT ![q] = DC!Idle]
    BY <1>1 DEF DC!Finish
  <2>2. q # r => analysing'[r] = analysing[r]
    BY <2>1 DEF DelayInv
  <2> QED
    BY <2>2 DEF DC!Idle
<1>2. PICK p \in Payloads : DC!Allocate(r, p)
  <2>1. ASSUME NEW q \in Requests, NEW kind, DC!Begin(q, kind)
        PROVE  FALSE
    BY <2>1 DEF DC!Begin
  <2>2. ASSUME NEW q \in Requests, DC!Infer(q) \/ \E d \in {"APPROVED", "REJECTED"} : DC!Review(q, d)
        PROVE  FALSE
    <3>1. DC!Finish(q) /\ analysing[q].kind \in {"infer", "review"}
      BY <2>2 DEF DC!Infer, DC!Review
    <3>2. q = r
      BY <1>1, <3>1
    <3> QED
      BY <3>1, <3>2
  <2>3. ASSUME NEW q \in Requests, NEW p \in Payloads, DC!Allocate(q, p)
        PROVE  q = r
    BY <1>1, <2>3 DEF DC!Allocate
  <2>4. ~ UNCHANGED DC!delayVars
    BY DEF DC!delayVars
  <2> QED
    BY <2>1, <2>2, <2>3, <2>4 DEF DC!DelayNext
<1> DEFINE hours == [i \in DOMAIN p |-> p[i].hours]
           id == analysing[r].id
           new == DC!NewAllocs(p, id)
<1>3. ~ (DC!DA!Total(hours) > Duration) /\ allocs' = (allocs \ analysing[r].allocs) \cup new
  BY <1>2 DEF DC!Allocate
<1>4. allocs' = new
  BY <1>3
<1>5. p \in Seq(Entry) /\ Duration \in Nat
  BY DeskAssumption DEF Entry
<1>6. /\ DC!Allocated(new) = Total(hours) /\ Total(hours) \in Int
      /\ new # {} => DC!Cardinality(DC!Primary(new)) = 1
  BY <1>5, NewAllocations
<1>7. DC!DA!Total(hours) = Total(hours)
  BY DCStatistics
<1> HIDE DEF hours, new
<1>8. Total(hours) <= Duration
  BY <1>3, <1>5, <1>6, <1>7
<1> QED
  BY <1>4, <1>6, <1>8

\* allocate_causes: an allocation on the rows it read leaves rows within the duration of the
\* delay, exactly one of them primary, however many entries the analyst sends.
THEOREM AllocationsAccount == WorkflowsSpec => AllocationAccounts
<1> DEFINE A == \A r \in Requests :
             /\ analysing[r].kind = "allocate" /\ analysing'[r] = DC!Idle
             /\ analysing[r].allocs = allocs /\ allocs' # allocs
             => DC!Allocated(allocs') <= Duration /\ (allocs' # {} => DC!Cardinality(DC!Primary(allocs')) = 1)
<1>1. WorkflowsInit => DelayInv
  BY DEF WorkflowsInit, DC!DelayInit, DC!ImportedDelay, DelayInv, Header, Reasons
<1>2. DelayInv /\ [WorkflowsNext]_workflowVars => DelayInv'
  BY DelaySteps, DelayStepEffect
<1>3. DelayInv /\ [WorkflowsNext]_workflowVars => [A]_(DC!delayVars)
  BY DelaySteps, AllocationStep
<1> QED
  BY <1>1, <1>2, <1>3, PTL DEF WorkflowsSpec, AllocationAccounts, DC!AllocationAccounts

-----------------------------------------------------------------------------
(* Dashboard: what is served is what is loaded.                            *)

Contents == [batch : Nat, edit : Nat]
Snapshot == [batch : Nat, payload : Contents, active : BOOLEAN]
View == [pc : {"idle", "computed", "done"}, payload : Contents]

DashboardTypeOK ==
    /\ data \in Contents /\ lastBatch \in Nat /\ rebuilt \in Nat
    /\ snaps \in Seq(Snapshot)
    /\ viewing \in [Requests -> View]
    /\ excused \in BOOLEAN

\* Nothing is served when nothing is loaded, and no request computed a dashboard of nothing.
NothingFromNothing ==
    /\ data = SN!NoData /\ ~excused => SN!Served = 0
    /\ \A r \in Requests : viewing[r].pc = "computed" => viewing[r].payload # SN!NoData

DashboardInv == DashboardTypeOK /\ NothingFromNothing /\ SN!DashboardFollowsData

\* What the dashboard sees of a step.
LEMMA DashboardSteps ==
  ASSUME [WorkflowsNext]_workflowVars
  PROVE  [SN!SnapNext]_(SN!snapVars)
BY DEF WorkflowsNext, Identity, Alerting, Items, Dashboard, Delays, OutlierDesk, JourneyDesk, SessionDesk,
       workflowVars, dashboardTables, SN!snapVars

\* persist_snapshot leaves the new snapshot as the only active one.
LEMMA PersistedIsServed ==
  ASSUME DashboardTypeOK, NEW batch \in Nat, NEW payload \in Contents,
         snaps' = SN!Persisted(snaps, batch, payload)
  PROVE  /\ snaps' \in Seq(Snapshot)
         /\ SN!Served' # 0
         /\ snaps'[SN!Served'].payload = payload
         /\ snaps'[SN!Served'].batch = batch
<1> DEFINE old == [i \in DOMAIN snaps |-> [snaps[i] EXCEPT !.active = FALSE]]
           new == [batch |-> batch, payload |-> payload, active |-> TRUE]
           n == Len(snaps) + 1
<1>1. snaps \in Seq(Snapshot) /\ Len(snaps) \in Nat /\ DOMAIN snaps = 1..Len(snaps)
  BY DEF DashboardTypeOK
<1>2. new \in Snapshot /\ new.payload = payload /\ new.batch = batch /\ new.active
  BY DEF Snapshot
<1>3. \A x \in Snapshot : [x EXCEPT !.active = FALSE] \in Snapshot /\ ~[x EXCEPT !.active = FALSE].active
  BY DEF Snapshot
<1>4. \A i \in 1..Len(snaps) : snaps[i] \in Snapshot
  BY <1>1
<1>5. /\ old \in Seq(Snapshot) /\ Len(old) = Len(snaps)
      /\ \A i \in 1..Len(snaps) : ~old[i].active
  <2>1. \A i \in 1..Len(snaps) : old[i] \in Snapshot /\ ~old[i].active
    BY <1>1, <1>3, <1>4
  <2>2. old = [i \in 1..Len(snaps) |-> old[i]]
    BY <1>1
  <2> HIDE DEF old
  <2> QED
    BY <1>1, <2>1, <2>2
<1>6. snaps' = Append(old, new)
  BY DEF SN!Persisted
<1> HIDE DEF old, new
<1>7. /\ snaps' \in Seq(Snapshot) /\ Len(snaps') = n /\ snaps'[n] = new
      /\ \A i \in 1..Len(snaps) : snaps'[i] = old[i]
  BY <1>1, <1>2, <1>5, <1>6
<1>8. DOMAIN snaps' = 1..n
  BY <1>1, <1>7
<1>9. {i \in DOMAIN snaps' : snaps'[i].active} = {n}
  <2>1. \A i \in 1..n : snaps'[i].active <=> i = n
    BY <1>1, <1>2, <1>5, <1>7
  <2>2. n \in 1..n
    BY <1>1
  <2> QED
    BY <1>8, <2>1, <2>2
<1>10. SN!Served' = n
  <2>1. n <= n
    BY <1>1
  <2> HIDE DEF n
  <2>2. (CHOOSE i \in {n} : \A j \in {n} : j <= i) = n
    BY <2>1
  <2> QED
    BY <1>9, <2>2 DEF SN!Served
<1> QED
  BY <1>1, <1>2, <1>7, <1>10

\* Every step of the dashboard keeps its invariant.
LEMMA DashboardStepInv ==
  ASSUME DashboardInv, [SN!SnapNext]_(SN!snapVars)
  PROVE  DashboardInv'
<1> USE DEF SN!NoData
<1>0. DashboardTypeOK /\ NothingFromNothing /\ SN!DashboardFollowsData
  BY DEF DashboardInv
<1>n. SN!NoData \in Contents
  BY DEF Contents
<1>1. CASE SN!Activate
  <2>1. /\ lastBatch' \in Nat /\ lastBatch' # 0 /\ data' = [batch |-> lastBatch', edit |-> 0]
        /\ snaps' = SN!Persisted(snaps, lastBatch', data')
        /\ excused' \in BOOLEAN /\ rebuilt' = rebuilt /\ viewing' = viewing
    BY <1>0, <1>1 DEF SN!Activate, DashboardTypeOK
  <2>2. data' \in Contents /\ data'.batch = lastBatch' /\ data' # SN!NoData
    BY <2>1 DEF Contents
  <2>3. /\ snaps' \in Seq(Snapshot) /\ SN!Served' # 0
        /\ snaps'[SN!Served'].payload = data' /\ snaps'[SN!Served'].batch = lastBatch'
    BY <1>0, <2>1, <2>2, PersistedIsServed
  <2>4. DashboardTypeOK'
    BY <1>0, <2>1, <2>2, <2>3 DEF DashboardTypeOK
  <2>5. NothingFromNothing'
    BY <1>0, <2>1, <2>2 DEF NothingFromNothing
  <2> QED
    BY <2>2, <2>3, <2>4, <2>5 DEF DashboardInv, SN!DashboardFollowsData
<1>2. CASE SN!LoadOnly
  <2>1. /\ lastBatch' \in Nat /\ lastBatch' # 0 /\ data' = [batch |-> lastBatch', edit |-> 0]
        /\ data = SN!NoData /\ snaps' = snaps /\ excused' = excused /\ rebuilt' = rebuilt /\ viewing' = viewing
    BY <1>0, <1>2 DEF SN!LoadOnly, DashboardTypeOK
  <2>2. data' \in Contents /\ data' # SN!NoData
    BY <2>1 DEF Contents
  <2>3. DashboardTypeOK'
    BY <1>0, <2>1, <2>2 DEF DashboardTypeOK
  <2>4. SN!Served' = SN!Served
    BY <2>1 DEF SN!Served
  <2>5. NothingFromNothing' /\ (~excused' => SN!Served' = 0)
    BY <1>0, <2>1, <2>2, <2>4 DEF NothingFromNothing
  <2> QED
    BY <2>3, <2>5 DEF DashboardInv, SN!DashboardFollowsData
<1>3. CASE SN!RebuildRows \/ SN!StewardEdit
  <2>1. /\ data' = [data EXCEPT !.edit = @ + 1] /\ excused' = TRUE /\ rebuilt' \in {data.batch, rebuilt}
        /\ UNCHANGED <<lastBatch, snaps, viewing>>
    BY <1>3 DEF SN!RebuildRows, SN!StewardEdit
  <2>2. data' \in Contents
    BY <1>0, <2>1 DEF DashboardTypeOK, Contents
  <2>3. rebuilt' \in Nat
    BY <1>0, <2>1 DEF DashboardTypeOK, Contents
  <2>4. DashboardTypeOK'
    BY <1>0, <2>1, <2>2, <2>3 DEF DashboardTypeOK
  <2> QED
    BY <1>0, <2>1, <2>4 DEF DashboardInv, NothingFromNothing, SN!DashboardFollowsData
<1>4. CASE SN!RebuildSnapshot
  <2>1. /\ rebuilt # 0 /\ rebuilt' = 0 /\ snaps' = SN!Persisted(snaps, rebuilt, data)
        /\ excused' \in BOOLEAN /\ (~excused' => rebuilt = data.batch)
        /\ UNCHANGED <<data, lastBatch, viewing>>
    BY <1>4 DEF SN!RebuildSnapshot
  <2>2. /\ snaps' \in Seq(Snapshot) /\ SN!Served' # 0
        /\ snaps'[SN!Served'].payload = data /\ snaps'[SN!Served'].batch = rebuilt
    <3>1. rebuilt \in Nat /\ data \in Contents
      BY <1>0 DEF DashboardTypeOK
    <3> QED
      BY <1>0, <2>1, <3>1, PersistedIsServed
  <2>3. DashboardTypeOK'
    BY <1>0, <2>1, <2>2 DEF DashboardTypeOK
  <2>4. NothingFromNothing'
    BY <1>0, <2>1 DEF NothingFromNothing
  <2> QED
    BY <2>1, <2>2, <2>3, <2>4 DEF DashboardInv, SN!DashboardFollowsData
<1>5. CASE SN!Clear
  <2>1. /\ data' = SN!NoData /\ snaps' = <<>> /\ excused' \in BOOLEAN
        /\ UNCHANGED <<lastBatch, rebuilt, viewing>>
    BY <1>5 DEF SN!Clear
  <2>2. SN!Served' = 0
    BY <2>1 DEF SN!Served
  <2>3. DashboardTypeOK'
    BY <1>0, <1>n, <2>1 DEF DashboardTypeOK
  <2> QED
    BY <1>0, <2>1, <2>2, <2>3 DEF DashboardInv, NothingFromNothing, SN!DashboardFollowsData
<1>6. ASSUME NEW r \in Requests, SN!RequestCompute(r)
      PROVE  DashboardInv'
  <2>1. UNCHANGED <<data, lastBatch, rebuilt, snaps, excused>>
    BY <1>6 DEF SN!RequestCompute
  <2>2. PICK v \in View : /\ viewing' = [viewing EXCEPT ![r] = v]
                          /\ v.pc = "computed" => v.payload # SN!NoData
    <3>1. CASE data = SN!NoData
      <4> DEFINE v == [viewing[r] EXCEPT !.pc = "done"]
      <4>1. v \in View /\ v.pc = "done"
        BY <1>0 DEF DashboardTypeOK, View
      <4>2. viewing' = [viewing EXCEPT ![r] = v]
        BY <1>6, <3>1 DEF SN!RequestCompute
      <4> HIDE DEF v
      <4> QED
        BY <4>1, <4>2
    <3>2. CASE data # SN!NoData
      <4> DEFINE v == [pc |-> "computed", payload |-> data]
      <4>1. v \in View /\ v.payload = data
        BY <1>0 DEF DashboardTypeOK, View
      <4>2. viewing' = [viewing EXCEPT ![r] = v]
        BY <1>6, <3>2 DEF SN!RequestCompute
      <4> HIDE DEF v
      <4> QED
        BY <3>2, <4>1, <4>2
    <3> QED
      BY <3>1, <3>2
  <2>3. DashboardTypeOK'
    BY <1>0, <2>1, <2>2 DEF DashboardTypeOK
  <2>4. SN!Served' = SN!Served
    BY <2>1 DEF SN!Served
  <2>5. NothingFromNothing'
    BY <1>0, <2>1, <2>2, <2>4 DEF NothingFromNothing, DashboardTypeOK
  <2> QED
    BY <1>0, <2>1, <2>3, <2>4, <2>5 DEF DashboardInv, SN!DashboardFollowsData
<1>7. ASSUME NEW r \in Requests, SN!RequestPersist(r)
      PROVE  DashboardInv'
  <2>1. /\ viewing[r].pc = "computed" /\ snaps' = SN!Persisted(snaps, data.batch, viewing[r].payload)
        /\ viewing' = [viewing EXCEPT ![r].pc = "done"]
        /\ excused' = (excused \/ viewing[r].payload # data)
        /\ UNCHANGED <<data, lastBatch, rebuilt>>
    BY <1>7 DEF SN!RequestPersist
  <2>2. /\ snaps' \in Seq(Snapshot) /\ SN!Served' # 0
        /\ snaps'[SN!Served'].payload = viewing[r].payload /\ snaps'[SN!Served'].batch = data.batch
    <3>1. data.batch \in Nat /\ viewing[r].payload \in Contents
      BY <1>0 DEF DashboardTypeOK, Contents, View
    <3> QED
      BY <1>0, <2>1, <3>1, PersistedIsServed
  <2>3. PICK v \in View : viewing' = [viewing EXCEPT ![r] = v] /\ v.pc = "done"
    <3> DEFINE v == [viewing[r] EXCEPT !.pc = "done"]
    <3>1. v \in View /\ v.pc = "done" /\ viewing' = [viewing EXCEPT ![r] = v]
      BY <1>0, <2>1 DEF DashboardTypeOK, View
    <3> HIDE DEF v
    <3> QED
      BY <3>1
  <2>4. DashboardTypeOK'
    BY <1>0, <2>1, <2>2, <2>3 DEF DashboardTypeOK
  <2>5. ~excused' => data # SN!NoData
    BY <1>0, <2>1 DEF NothingFromNothing
  <2>6. NothingFromNothing'
    BY <1>0, <2>1, <2>3, <2>5 DEF NothingFromNothing, DashboardTypeOK
  <2> QED
    BY <2>1, <2>2, <2>4, <2>6 DEF DashboardInv, SN!DashboardFollowsData
<1>8. CASE UNCHANGED SN!snapVars
  BY <1>0, <1>8 DEF SN!snapVars, DashboardInv, DashboardTypeOK, NothingFromNothing,
                    SN!DashboardFollowsData, SN!Served
<1> QED
  BY <1>1, <1>2, <1>3, <1>4, <1>5, <1>6, <1>7, <1>8 DEF SN!SnapNext

\* get_executive_summary serves the dashboard of the dataset that is loaded: no clear, load or
\* rebuild leaves an earlier one behind, except for the races named by excused.
THEOREM ServedDashboardFollows == WorkflowsSpec => []DashboardFollowsData
<1>1. WorkflowsInit => DashboardInv
  <2> SUFFICES ASSUME WorkflowsInit PROVE DashboardInv
    OBVIOUS
  <2>1. /\ data = SN!NoData /\ lastBatch = 0 /\ rebuilt = 0 /\ snaps = <<>> /\ excused = FALSE
        /\ viewing = [r \in Requests |-> SN!Idle]
    BY DEF WorkflowsInit, SN!SnapInit
  <2>2. SN!NoData \in Contents /\ SN!Idle \in View /\ SN!Idle.pc = "idle"
    BY DEF SN!NoData, SN!Idle, Contents, View
  <2>3. SN!Served = 0
    BY <2>1 DEF SN!Served
  <2>4. viewing \in [Requests -> View] /\ snaps \in Seq(Snapshot)
    <3>1. viewing \in [Requests -> View]
      BY <2>1, <2>2
    <3>2. snaps \in Seq(Snapshot)
      BY <2>1
    <3> QED
      BY <3>1, <3>2
  <2>5. DashboardTypeOK
    BY <2>1, <2>2, <2>4 DEF DashboardTypeOK
  <2> QED
    BY <2>1, <2>2, <2>3, <2>5 DEF DashboardInv, NothingFromNothing, SN!DashboardFollowsData
<1>2. DashboardInv /\ [WorkflowsNext]_workflowVars => DashboardInv'
  BY DashboardSteps, DashboardStepInv
<1>3. DashboardInv => DashboardFollowsData
  BY DEF DashboardInv, DashboardFollowsData
<1> QED
  BY <1>1, <1>2, <1>3, PTL DEF WorkflowsSpec

-----------------------------------------------------------------------------
(* Sessions: a row keeps its account, its permissions and its expiry, and  *)
(* a permission it carries that the account has lost was lost less than an *)
(* access token's life before the row expires (LostLate); what a request   *)
(* under way has read still bounds the row when it commits (ReadInTime),   *)
(* because the latest request of a session only grows.                     *)

\* settings.*_minutes: the limits are whole and not negative.
LivesType == AccessLife \in Nat /\ IdleLife \in Nat

-----------------------------------------------------------------------------
(* The inductive invariant *)

AccountRow == [active : BOOLEAN, granted : SUBSET SE!Permissions, edited : Nat]
SessionRow == [account : SE!Accounts, granted : SUBSET SE!Permissions, revoked : BOOLEAN,
               expires : Nat, active : Nat, served : Nat]
ReadRequest == [at : {"read"}, session : Nat, need : SE!Permissions, time : Nat,
                seen : SessionRow, verdict : {"revoke", "touch"}]
EndpointRequest == [at : {"endpoint"}, session : Nat]

SessionTypeOK ==
    /\ now \in Nat
    /\ accounts \in [SE!Accounts -> AccountRow]
    /\ sessions \in Seq(SessionRow)
    /\ request \in [Requests -> {SE!Waiting} \cup ReadRequest \cup EndpointRequest]

\* A request under way holds the jti of a session.
HoldsSession ==
    \A r \in Requests : request[r].at # "idle" => request[r].session \in 1..Len(sessions)

\* The clock is ahead of every edit, and no token lives longer than AccessLife from now.
ClockAhead ==
    /\ \A a \in SE!Accounts : accounts[a].edited <= now
    /\ \A i \in 1..Len(sessions) : /\ sessions[i].expires <= now + AccessLife
                                   /\ sessions[i].active <= sessions[i].served

\* A permission in a token is one the account still has, or one it lost when the token had
\* at most AccessLife to live.
LostLate ==
    \A i \in 1..Len(sessions) : \A p \in sessions[i].granted :
        \/ p \in accounts[sessions[i].account].granted
        \/ sessions[i].expires <= accounts[sessions[i].account].edited + AccessLife

\* A request that is_session_active lets pass read its row in time.
ReadInTime ==
    \A r \in Requests :
        request[r].at = "read" /\ request[r].verdict = "touch" =>
            /\ request[r].time < sessions[request[r].session].expires
            /\ request[r].time <= sessions[request[r].session].served + IdleLife

SessionInv == SessionTypeOK /\ HoldsSession /\ ClockAhead /\ LostLate /\ ReadInTime

-----------------------------------------------------------------------------
(* Lemmas *)

\* The tables are empty at the start.
LEMMA SessionInitInv ==
  ASSUME LivesType, SE!SessionInit
  PROVE  SessionInv
<1>1. SessionTypeOK
  BY DEF SE!SessionInit, SessionTypeOK, AccountRow, SE!Permissions
<1>2. Len(sessions) = 0 /\ \A r \in Requests : request[r] = [at |-> "idle"]
  BY DEF SE!SessionInit, SE!Waiting
<1> QED
  BY <1>1, <1>2 DEF SE!SessionInit, SessionInv, HoldsSession, ClockAhead, LostLate, ReadInTime,
                    SessionTypeOK, AccountRow

\* The state of a request tells which kind of record it is.
LEMMA RequestKinds ==
  ASSUME SessionTypeOK, NEW r \in Requests
  PROVE  /\ request[r].at = "read" => request[r] \in ReadRequest
         /\ request[r].at = "endpoint" => request[r] \in EndpointRequest
         /\ request[r].at \in {"idle", "read", "endpoint"}
BY DEF SessionTypeOK, SE!Waiting, ReadRequest, EndpointRequest

\* create_session adds a row with the permissions of the moment and changes no other.
LEMMA CreateKeeps ==
  ASSUME LivesType, SessionInv, NEW a \in SE!Accounts, SE!CreateSession(a, accounts[a].granted),
         UNCHANGED <<now, accounts, request, received>>
  PROVE  SessionInv'
<1> DEFINE row == [account |-> a, granted |-> accounts[a].granted, revoked |-> FALSE,
                   expires |-> now + AccessLife, active |-> now, served |-> now]
<1>1. row \in SessionRow
  BY DEF LivesType, SessionInv, SessionTypeOK, AccountRow, SessionRow
<1>2. /\ sessions' = Append(sessions, row)
      /\ sessions' \in Seq(SessionRow)
      /\ Len(sessions') = Len(sessions) + 1
      /\ \A i \in 1..Len(sessions) : sessions'[i] = sessions[i]
      /\ sessions'[Len(sessions) + 1] = row
      /\ Len(sessions) \in Nat
  BY <1>1 DEF SE!CreateSession, SessionInv, SessionTypeOK
<1>3. SessionTypeOK' /\ HoldsSession'
  BY <1>2 DEF SessionInv, SessionTypeOK, HoldsSession
<1>4. \A i \in 1..Len(sessions') : i \in 1..Len(sessions) \/ sessions'[i] = row
  BY <1>2
<1>5. ClockAhead'
  BY <1>2, <1>4 DEF SessionInv, ClockAhead, LivesType, SessionTypeOK
<1>6. LostLate'
  BY <1>2, <1>4 DEF SessionInv, LostLate
<1>7. ReadInTime'
  BY <1>2, RequestKinds DEF SessionInv, ReadInTime, HoldsSession
<1> QED
  BY <1>3, <1>5, <1>6, <1>7 DEF SessionInv

\* is_session_active reads a row whose activity is no older than the idle limit.
LEMMA ReadKeeps ==
  ASSUME LivesType, SessionInv, NEW r \in Requests, NEW i \in 1..Len(sessions),
         NEW need \in SE!Permissions, SE!RequestRead(r, i, need)
  PROVE  SessionInv'
<1>1. sessions[i] \in SessionRow
  BY DEF SessionInv, SessionTypeOK
<1> DEFINE q == [at |-> "read", session |-> i, need |-> need, time |-> now,
                 seen |-> sessions[i], verdict |-> SE!Verdict(sessions[i])]
<1>2. /\ SE!Verdict(sessions[i]) \in {"revoke", "touch"}
      /\ SE!Verdict(sessions[i]) = "touch" => now <= sessions[i].active + IdleLife
  BY <1>1 DEF SE!Verdict, LivesType, SessionInv, SessionTypeOK, SessionRow
<1>3. q \in ReadRequest
  BY <1>1, <1>2 DEF ReadRequest, SessionInv, SessionTypeOK
<1>4. request' = [request EXCEPT ![r] = q] /\ now < sessions[i].expires
  BY DEF SE!RequestRead, SE!NotExpired
<1>5. SessionTypeOK' /\ HoldsSession'
  BY <1>3, <1>4 DEF SE!RequestRead, SessionInv, SessionTypeOK, HoldsSession
<1>6. ClockAhead' /\ LostLate'
  BY DEF SE!RequestRead, SessionInv, ClockAhead, LostLate
<1>7. ReadInTime'
  <2>1. now <= sessions[i].served + IdleLife \/ q.verdict # "touch"
    BY <1>1, <1>2 DEF SessionInv, ClockAhead, LivesType, SessionTypeOK, SessionRow
  <2> QED
    BY <1>4, <2>1 DEF SE!RequestRead, SessionInv, SessionTypeOK, ReadInTime
<1> QED
  BY <1>5, <1>6, <1>7 DEF SessionInv

\* Writing the revocation or the activity of a row keeps what it grants and when it expires.
LEMMA WriteKeeps ==
  ASSUME LivesType, SessionInv, NEW i \in 1..Len(sessions), NEW row \in SessionRow,
         sessions' = [sessions EXCEPT ![i] = row],
         row.account = sessions[i].account, row.granted = sessions[i].granted,
         row.expires = sessions[i].expires, row.served >= sessions[i].served,
         row.active <= row.served,
         NEW r \in Requests, NEW q \in {SE!Waiting} \cup EndpointRequest,
         request' = [request EXCEPT ![r] = q],
         q.at # "idle" => q.session \in 1..Len(sessions),
         UNCHANGED <<now, accounts>>
  PROVE  SessionInv'
<1>1. /\ sessions' \in Seq(SessionRow) /\ Len(sessions') = Len(sessions)
      /\ \A j \in 1..Len(sessions) : sessions'[j] = IF j = i THEN row ELSE sessions[j]
      /\ \A j \in 1..Len(sessions) : sessions[j] \in SessionRow
  BY DEF SessionInv, SessionTypeOK
<1>2. q.at # "read"
  BY DEF SE!Waiting, EndpointRequest
<1>3. SessionTypeOK' /\ HoldsSession'
  BY <1>1 DEF SessionInv, SessionTypeOK, HoldsSession
<1>4. ClockAhead' /\ LostLate'
  BY <1>1 DEF SessionInv, ClockAhead, LostLate
<1>6. ASSUME NEW j \in 1..Len(sessions)
      PROVE  /\ sessions'[j].expires = sessions[j].expires
             /\ sessions'[j].served >= sessions[j].served
             /\ sessions'[j].served \in Nat /\ sessions[j].served \in Nat
  <2>1. sessions[j].served \in Nat /\ row.served \in Nat
    BY <1>1 DEF SessionRow
  <2> QED
    BY <1>1, <2>1
<1>5. ReadInTime'
  <2> SUFFICES ASSUME NEW s \in Requests, request'[s].at = "read", request'[s].verdict = "touch"
               PROVE  /\ request'[s].time < sessions'[request'[s].session].expires
                      /\ request'[s].time <= sessions'[request'[s].session].served + IdleLife
    BY DEF ReadInTime
  <2>1. s # r /\ request'[s] = request[s]
    BY <1>2 DEF SessionInv, SessionTypeOK
  <2>2. request[s].session \in 1..Len(sessions) /\ request[s].time \in Nat
    BY <2>1, RequestKinds DEF SessionInv, HoldsSession, ReadRequest
  <2>3. /\ request[s].time < sessions[request[s].session].expires
        /\ request[s].time <= sessions[request[s].session].served + IdleLife
    BY <2>1 DEF SessionInv, ReadInTime
  <2>4. /\ sessions'[request[s].session].expires = sessions[request[s].session].expires
        /\ sessions'[request[s].session].served >= sessions[request[s].session].served
        /\ sessions'[request[s].session].served \in Nat
        /\ sessions[request[s].session].served \in Nat
    BY <1>6, <2>2
  <2>5. \A t, old, new, life \in Nat : t <= old + life /\ new >= old => t <= new + life
    OBVIOUS
  <2>6. request[s].time <= sessions'[request[s].session].served + IdleLife
    BY <2>2, <2>3, <2>4, <2>5 DEF LivesType
  <2> QED
    BY <2>1, <2>3, <2>4, <2>6
<1> QED
  BY <1>3, <1>4, <1>5 DEF SessionInv

\* The second half of a request, whichever way it ends.
LEMMA RequestKeeps ==
  ASSUME LivesType, SessionInv, NEW r \in Requests,
         SE!RequestRefused(r) \/ SE!RequestAdmitted(r) \/ SE!Logout(r) \/ SE!Respond(r)
  PROVE  SessionInv'
<1> DEFINE i == request[r].session
<1>1. request[r].at \in {"read", "endpoint"}
  BY DEF SE!RequestRefused, SE!RequestAdmitted, SE!Logout, SE!Respond
<1>2. i \in 1..Len(sessions) /\ sessions[i] \in SessionRow /\ sessions \in Seq(SessionRow)
  BY <1>1 DEF SessionInv, SessionTypeOK, HoldsSession
<1> HIDE DEF i
<1>a. /\ sessions[i].served \in Nat /\ sessions[i].served >= sessions[i].served
      /\ sessions[i].active <= sessions[i].served
  BY <1>2 DEF SessionInv, ClockAhead, SessionRow
<1>b. i = request[r].session
  BY DEF i
<1>3. CASE SE!RequestRefused(r) \/ SE!Logout(r)
  <2> DEFINE row == [sessions[i] EXCEPT !.revoked = TRUE]
  <2>1. /\ row \in SessionRow /\ row.account = sessions[i].account
        /\ row.granted = sessions[i].granted /\ row.expires = sessions[i].expires
        /\ row.served = sessions[i].served /\ row.active = sessions[i].active
    BY <1>2 DEF SessionRow
  <2>2. sessions' = [sessions EXCEPT ![i] = row] /\ request' = [request EXCEPT ![r] = SE!Waiting]
    BY <1>3, <1>b DEF SE!RequestRefused, SE!Logout
  <2>3. row.served >= sessions[i].served /\ row.active <= row.served
    BY <1>a, <2>1
  <2>4. UNCHANGED <<now, accounts>> /\ SE!Waiting.at = "idle"
    BY <1>3 DEF SE!RequestRefused, SE!Logout, SE!Waiting
  <2> HIDE DEF row
  <2> QED
    BY <1>2, <2>1, <2>2, <2>3, <2>4, WriteKeeps
<1>4. CASE SE!RequestAdmitted(r)
  <2> DEFINE t == request[r].time
             row == [[sessions[i] EXCEPT !.active = t] EXCEPT !.served = SE!Latest(sessions[i].served, t)]
             q == IF request[r].need \in sessions[i].granted
                  THEN [at |-> "endpoint", session |-> i] ELSE SE!Waiting
  <2>1. t \in Nat
    BY <1>4, RequestKinds DEF SE!RequestAdmitted, SessionInv, ReadRequest
  <2>2. /\ row \in SessionRow /\ row.account = sessions[i].account
        /\ row.granted = sessions[i].granted /\ row.expires = sessions[i].expires
        /\ row.served >= sessions[i].served /\ row.active <= row.served
    <3>1. SE!Latest(sessions[i].served, t) \in Nat
      BY <1>a, <2>1 DEF SE!Latest
    <3>2. SE!Latest(sessions[i].served, t) >= sessions[i].served /\ t <= SE!Latest(sessions[i].served, t)
      BY <1>a, <2>1 DEF SE!Latest
    <3> QED
      BY <1>2, <2>1, <3>1, <3>2 DEF SessionRow
  <2>3. /\ sessions' = [sessions EXCEPT ![i] = row]
        /\ request' = [request EXCEPT ![r] = q]
        /\ UNCHANGED <<now, accounts>>
    BY <1>2, <1>4, <1>b DEF SE!RequestAdmitted, SE!Touched, SessionRow
  <2>4. q \in {SE!Waiting} \cup EndpointRequest /\ (q.at # "idle" => q.session \in 1..Len(sessions))
    BY <1>2 DEF EndpointRequest, SE!Waiting
  <2> HIDE DEF row, q
  <2> QED
    BY <1>2, <2>2, <2>3, <2>4, WriteKeeps
<1>5. CASE SE!Respond(r)
  <2>1. sessions' = [sessions EXCEPT ![i] = sessions[i]] /\ request' = [request EXCEPT ![r] = SE!Waiting]
    BY <1>2, <1>5 DEF SE!Respond
  <2>2. UNCHANGED <<now, accounts>> /\ SE!Waiting.at = "idle"
    BY <1>5 DEF SE!Respond, SE!Waiting
  <2> QED
    BY <1>2, <1>a, <2>1, <2>2, WriteKeeps
<1> QED
  BY <1>3, <1>4, <1>5

\* Time passes, accounts are edited: the edit that takes a permission away is of this moment.
LEMMA EnvironmentKeeps ==
  ASSUME LivesType, SessionInv, SE!Tick \/ \E a \in SE!Accounts : SE!Demote(a) \/ SE!Deactivate(a)
  PROVE  SessionInv'
<1>1. \A j \in 1..Len(sessions) : sessions[j] \in SessionRow
  BY DEF SessionInv, SessionTypeOK
<1>2. CASE SE!Tick
  <2>1. SessionTypeOK' /\ HoldsSession' /\ LostLate' /\ ReadInTime'
    BY <1>2 DEF SE!Tick, SessionInv, SessionTypeOK, HoldsSession, LostLate, ReadInTime
  <2>2. ClockAhead'
    <3>1. now \in Nat /\ now' = now + 1 /\ UNCHANGED <<accounts, sessions>>
      BY <1>2 DEF SE!Tick, SessionInv, SessionTypeOK
    <3>2. \A x \in Nat : (x <= now => x <= now') /\ (x <= now + AccessLife => x <= now' + AccessLife)
      BY <3>1 DEF LivesType
    <3>3. \A a \in SE!Accounts : accounts[a].edited \in Nat
      BY DEF SessionInv, SessionTypeOK, AccountRow
    <3>4. \A j \in 1..Len(sessions) : sessions[j].expires \in Nat
      BY <1>1 DEF SessionRow
    <3> QED
      BY <3>1, <3>2, <3>3, <3>4 DEF SessionInv, ClockAhead
  <2> QED
    BY <2>1, <2>2 DEF SessionInv
<1>3. ASSUME NEW a \in SE!Accounts, SE!Demote(a) \/ SE!Deactivate(a)
      PROVE  SessionInv'
  <2>1. /\ accounts' \in [SE!Accounts -> AccountRow]
        /\ \A b \in SE!Accounts : accounts'[b].edited \in {accounts[b].edited, now}
        /\ \A b \in SE!Accounts : \/ accounts'[b].granted = accounts[b].granted /\ accounts'[b].edited = accounts[b].edited
                               \/ accounts'[b].edited = now
        /\ UNCHANGED <<now, sessions, request>>
    <3>1. now \in Nat /\ accounts \in [SE!Accounts -> AccountRow] /\ accounts[a] \in AccountRow
      BY DEF SessionInv, SessionTypeOK
    <3>2. UNCHANGED <<now, sessions, request>>
      BY <1>3 DEF SE!Demote, SE!Deactivate
    <3>3. PICK row \in AccountRow : /\ accounts' = [accounts EXCEPT ![a] = row]
                                    /\ \/ row.edited = now
                                       \/ row.granted = accounts[a].granted /\ row.edited = accounts[a].edited
      <4>1. CASE SE!Demote(a)
        <5> DEFINE row == [accounts[a] EXCEPT !.granted = {"view"}, !.edited = now]
        <5>1. accounts' = [accounts EXCEPT ![a] = row]
          BY <3>1, <4>1 DEF SE!Demote, AccountRow
        <5>2. row \in AccountRow /\ row.edited = now
          BY <3>1 DEF AccountRow, SE!Permissions
        <5> QED
          BY <5>1, <5>2
      <4>2. CASE SE!Deactivate(a)
        <5> DEFINE row == [accounts[a] EXCEPT !.active = FALSE]
        <5>1. accounts' = [accounts EXCEPT ![a] = row]
          BY <3>1, <4>2 DEF SE!Deactivate, AccountRow
        <5>2. row \in AccountRow /\ row.granted = accounts[a].granted /\ row.edited = accounts[a].edited
          BY <3>1 DEF AccountRow
        <5> QED
          BY <5>1, <5>2
      <4> QED
        BY <1>3, <4>1, <4>2
    <3> QED
      BY <3>1, <3>2, <3>3
  <2>2. SessionTypeOK' /\ HoldsSession' /\ ReadInTime'
    BY <2>1 DEF SessionInv, SessionTypeOK, HoldsSession, ReadInTime
  <2>3. ClockAhead'
    BY <2>1 DEF SessionInv, SessionTypeOK, ClockAhead
  <2>4. LostLate'
    BY <1>1, <2>1 DEF SessionInv, LostLate, ClockAhead, SessionRow
  <2> QED
    BY <2>2, <2>3, <2>4 DEF SessionInv
<1> QED
  BY <1>2, <1>3

\* Every step keeps the invariant.
LEMMA SessionStep ==
  ASSUME LivesType, SessionInv, [SE!SessionNext]_(SE!sessionVars)
  PROVE  SessionInv'
<1>1. ASSUME NEW u \in Users, SE!DevLogin(u)
      PROVE  SessionInv'
  BY <1>1, CreateKeeps DEF SE!DevLogin, SE!Accounts
<1>2. ASSUME NEW a \in Machines, SE!ServiceToken(a)
      PROVE  SessionInv'
  BY <1>2, CreateKeeps DEF SE!ServiceToken, SE!Accounts
<1>3. ASSUME NEW t \in refreshes, SE!Refresh(t)
      PROVE  SessionInv'
  BY <1>3, CreateKeeps DEF SE!Refresh, SE!Accounts
<1>4. ASSUME NEW r \in Requests, NEW i \in 1..Len(sessions), NEW need \in SE!Permissions,
             SE!RequestRead(r, i, need)
      PROVE  SessionInv'
  BY <1>4, ReadKeeps
<1>5. ASSUME NEW r \in Requests, SE!RequestRefused(r) \/ SE!RequestAdmitted(r) \/ SE!Logout(r) \/ SE!Respond(r)
      PROVE  SessionInv'
  BY <1>5, RequestKeeps
<1>6. CASE UNCHANGED SE!sessionVars
  BY <1>6 DEF SE!sessionVars, SessionInv, SessionTypeOK, HoldsSession, ClockAhead, LostLate, ReadInTime
<1> QED
  BY <1>1, <1>2, <1>3, <1>4, <1>5, <1>6, EnvironmentKeeps DEF SE!SessionNext

\* The invariant holds in every reachable state of the sessions.
THEOREM SessionInvariant ==
  ASSUME LivesType
  PROVE  SE!SessionSpec => []SessionInv
<1>1. SE!SessionInit => SessionInv
  BY SessionInitInv
<1>2. SessionInv /\ [SE!SessionNext]_(SE!sessionVars) => SessionInv'
  BY SessionStep
<1> QED
  BY <1>1, <1>2, PTL DEF SE!SessionSpec

-----------------------------------------------------------------------------
(* What the invariant gives *)

\* A step of the sessions keeps every revocation.
LEMMA RevocationStep ==
  ASSUME SessionInv, [SE!SessionNext]_(SE!sessionVars), NEW i \in 1..Len(sessions), sessions[i].revoked
  PROVE  sessions'[i].revoked
<1>1. sessions \in Seq(SessionRow) /\ sessions[i] \in SessionRow
  BY DEF SessionInv, SessionTypeOK
<1>2. ASSUME NEW a, NEW g, SE!CreateSession(a, g)
      PROVE  sessions'[i].revoked
  BY <1>1, <1>2 DEF SE!CreateSession
<1>3. ASSUME NEW r \in Requests, SE!RequestRefused(r) \/ SE!Logout(r)
      PROVE  sessions'[i].revoked
  <2>1. request[r].session \in 1..Len(sessions)
    BY <1>3 DEF SE!RequestRefused, SE!Logout, SessionInv, HoldsSession
  <2>2. sessions' = [sessions EXCEPT ![request[r].session] =
                        [sessions[request[r].session] EXCEPT !.revoked = TRUE]]
    BY <1>3 DEF SE!RequestRefused, SE!Logout
  <2>3. sessions[request[r].session] \in SessionRow
    BY <1>1, <2>1
  <2>4. [sessions[request[r].session] EXCEPT !.revoked = TRUE].revoked
    BY <2>3 DEF SessionRow
  <2> QED
    BY <1>1, <2>1, <2>2, <2>4
<1>4. ASSUME NEW r \in Requests, SE!RequestAdmitted(r)
      PROVE  sessions'[i].revoked
  <2>1. request[r].session \in 1..Len(sessions)
    BY <1>4 DEF SE!RequestAdmitted, SessionInv, HoldsSession
  <2> QED
    BY <1>1, <1>4, <2>1 DEF SE!RequestAdmitted, SE!Touched, SessionRow
<1>5. CASE UNCHANGED sessions
  BY <1>5
<1> QED
  BY <1>2, <1>3, <1>4, <1>5
     DEF SE!SessionNext, SE!sessionVars, SE!DevLogin, SE!ServiceToken, SE!Refresh, SE!RequestRead, SE!Respond, SE!Tick,
         SE!Demote, SE!Deactivate

\* revoke_session and is_session_active: no request, however old the row it read, makes a
\* revoked session valid again.
THEOREM RevocationIsFinal ==
  ASSUME LivesType
  PROVE  SE!SessionSpec => SE!RevokedStaysRevoked
<1>1. SessionInv /\ [SE!SessionNext]_(SE!sessionVars)
        => [\A i \in 1..Len(sessions) : sessions[i].revoked => sessions'[i].revoked]_(SE!sessionVars)
  BY RevocationStep
<1> QED
  BY <1>1, SessionInvariant, PTL DEF SE!SessionSpec, SE!RevokedStaysRevoked

\* The step that admits a request does so on a row that still bounds what the request read.
LEMMA AdmissionStep ==
  ASSUME LivesType, SessionInv, [SE!SessionNext]_(SE!sessionVars), NEW r \in Requests,
         request[r].at = "read", request'[r].at = "endpoint"
  PROVE  LET q == request[r]
             row == sessions[q.session]
             owner == accounts[row.account]
         IN  /\ q.need \in owner.granted \/ q.time < owner.edited + AccessLife
             /\ q.time <= row.served + IdleLife
<1> DEFINE q == request[r]
           row == sessions[q.session]
<1>1. SE!RequestAdmitted(r)
  <2>1. ASSUME NEW s \in Requests, s # r,
               \/ \E i \in 1..Len(sessions), need \in SE!Permissions : SE!RequestRead(s, i, need)
               \/ SE!RequestRefused(s) \/ SE!RequestAdmitted(s) \/ SE!Logout(s) \/ SE!Respond(s)
        PROVE  FALSE
    BY <2>1 DEF SE!RequestRead, SE!RequestRefused, SE!RequestAdmitted, SE!Logout, SE!Respond, SessionInv, SessionTypeOK
  <2>2. CASE UNCHANGED request
    BY <2>2
  <2>3. CASE \/ \E i \in 1..Len(sessions), need \in SE!Permissions : SE!RequestRead(r, i, need)
             \/ SE!RequestRefused(r) \/ SE!Logout(r) \/ SE!Respond(r)
    BY <2>3 DEF SE!RequestRead, SE!RequestRefused, SE!Logout, SE!Respond, SE!Waiting, SessionInv, SessionTypeOK
  <2> QED
    BY <2>1, <2>2, <2>3 DEF SE!SessionNext, SE!sessionVars, SE!DevLogin, SE!ServiceToken, SE!Refresh, SE!Tick, SE!Demote, SE!Deactivate
<1>2. q \in ReadRequest /\ q.session \in 1..Len(sessions) /\ row \in SessionRow
  BY RequestKinds DEF SessionInv, HoldsSession, SessionTypeOK
<1>3. q.need \in row.granted /\ q.verdict = "touch"
  BY <1>1 DEF SE!RequestAdmitted, SE!Waiting, SessionInv, SessionTypeOK
<1>4. q.time < row.expires /\ q.time <= row.served + IdleLife
  BY <1>3 DEF SessionInv, ReadInTime
<1>5. \/ q.need \in accounts[row.account].granted
      \/ row.expires <= accounts[row.account].edited + AccessLife
  BY <1>2, <1>3 DEF SessionInv, LostLate
<1>6. /\ q.time \in Nat /\ row.expires \in Nat /\ accounts[row.account].edited \in Nat
      /\ AccessLife \in Nat
  BY <1>2 DEF SessionInv, SessionTypeOK, ReadRequest, SessionRow, AccountRow, LivesType
<1>7. row.expires <= accounts[row.account].edited + AccessLife
        => q.time < accounts[row.account].edited + AccessLife
  <2>1. \A t, x, y \in Nat : t < x /\ x <= y => t < y
    OBVIOUS
  <2> QED
    BY <1>4, <1>6, <2>1
<1> QED
  BY <1>4, <1>5, <1>7

\* get_current_principal: however requests, refreshes and edits of accounts come together, a
\* permission outlives its removal by less than the life of an access token, and a session is
\* used only within the idle limit of its latest request.
THEOREM AdmissionsRecent ==
  ASSUME LivesType
  PROVE  SE!SessionSpec => SE!AdmissionsAreRecent
<1> DEFINE A == \A r \in Requests :
             request[r].at = "read" /\ request'[r].at = "endpoint" =>
                 LET q == request[r]
                     row == sessions[q.session]
                     owner == accounts[row.account]
                 IN  /\ q.need \in owner.granted \/ q.time < owner.edited + AccessLife
                     /\ q.time <= row.served + IdleLife
<1>1. SessionInv /\ [SE!SessionNext]_(SE!sessionVars) => [A]_(SE!sessionVars)
  BY AdmissionStep
<1> QED
  BY <1>1, SessionInvariant, PTL DEF SE!SessionSpec, SE!AdmissionsAreRecent

-----------------------------------------------------------------------------
(* Identity: a merge decision describes exactly what the merge did to the  *)
(* tables (Describes), so undoing it on the rows the merge left gives back *)
(* the rows it found; and a merge moves what belongs to one call to        *)
(* another one, which stays live when both were (RowsStayVisible is        *)
(* inductive on top of the types).                                         *)

\* An attribute is a written name or a number, 0 for NULL.
Vessel == [ID!ComparableFields -> ID!Names \cup Nat]

\* A dataset gives every call its attributes.
LoadsType == NumCalls \in Nat /\ Loads \subseteq [ID!Calls -> Vessel]

-----------------------------------------------------------------------------
(* The inductive invariant *)

Owner == ID!Calls \cup {ID!Gone}
TablesType == [call : [ID!Calls -> Vessel], into : [ID!Calls -> Owner],
               event : [ID!Calls -> Owner], service : [ID!Calls -> ID!Calls]]
Prior == [fields : Vessel, into : Owner]
Decision == [pair : ID!Pairs, survivor : ID!Calls, merged : ID!Calls, auto : BOOLEAN, undone : BOOLEAN,
             survivorPrior : Prior, mergedPrior : Prior,
             events : SUBSET ID!Calls, services : SUBSET ID!Calls]
Past == [before : TablesType, after : TablesType]

IdentityTypeOK ==
    /\ ID!Tables \in TablesType
    /\ decision \in Seq(Decision)
    /\ history \in Seq(Past)
    /\ Len(history) = Len(decision)
    /\ \A x \in DOMAIN todo : todo[x] \in ID!Pairs

\* Decision dec is the merge that found the tables b and left the tables a.
Describes(dec, b, a) ==
    /\ dec.survivor # dec.merged
    /\ dec.survivorPrior = [fields |-> b.call[dec.survivor], into |-> b.into[dec.survivor]]
    /\ dec.mergedPrior = [fields |-> b.call[dec.merged], into |-> b.into[dec.merged]]
    /\ \A e \in dec.events : b.event[e] = dec.merged
    /\ \A e \in ID!Calls \ dec.events :
           a.event[e] = IF b.event[e] = dec.merged THEN ID!Gone ELSE b.event[e]
    /\ \A r \in dec.services : b.service[r] = dec.merged
    /\ \A r \in ID!Calls \ dec.services : a.service[r] = b.service[r]

DecisionsDescribe ==
    \A d \in 1..Len(decision) : Describes(decision[d], history[d].before, history[d].after)

IdentityInv == IdentityTypeOK /\ DecisionsDescribe /\ ID!RowsStayVisible

-----------------------------------------------------------------------------
(* Lemmas *)

\* The tables by their columns.
LEMMA TablesFacts ==
  ASSUME IdentityTypeOK
  PROVE  /\ call \in [ID!Calls -> Vessel] /\ into \in [ID!Calls -> Owner]
         /\ event \in [ID!Calls -> Owner] /\ service \in [ID!Calls -> ID!Calls]
BY DEF IdentityTypeOK, ID!Tables, TablesType

\* determine_survivor_record: a consolidated call has the attributes of a call.
LEMMA ConsolidatedType ==
  ASSUME NEW v \in Vessel, NEW w \in Vessel
  PROVE  ID!Consolidated(v, w) \in Vessel
<1>1. \A f \in ID!ComparableFields : ID!ResolveField(f, v, w) \in {v[f], w[f]}
  BY DEF ID!ResolveField
<1> QED
  BY <1>1 DEF ID!Consolidated, Vessel

\* execute_merge: what it does to the tables, and the decision it records.
LEMMA MergeFacts ==
  ASSUME LoadsType, IdentityTypeOK, NEW p \in ID!Pairs, NEW auto \in BOOLEAN, ID!MergePair(p, auto)
  PROVE  \E s \in ID!Calls, m \in ID!Calls, dec \in Decision :
           /\ s # m
           /\ dec.survivor = s /\ dec.merged = m /\ ~dec.undone
           /\ decision' = Append(decision, dec)
           /\ history' = Append(history, [before |-> ID!Tables, after |-> ID!Tables'])
           /\ dec.survivorPrior = [fields |-> call[s], into |-> into[s]]
           /\ dec.mergedPrior = [fields |-> call[m], into |-> into[m]]
           /\ dec.services = {r \in ID!Calls : service[r] = m}
           /\ \A e \in dec.events : event[e] = m
           /\ event' = [e \in ID!Calls |-> IF e \in dec.events THEN s
                                        ELSE IF event[e] = m THEN ID!Gone ELSE event[e]]
           /\ service' = [r \in ID!Calls |-> IF service[r] = m THEN s ELSE service[r]]
           /\ into' = [into EXCEPT ![m] = s]
           /\ call' \in [ID!Calls -> Vessel]
<1> DEFINE v == call[p[1]]
           w == call[p[2]]
           s == IF ID!FirstSurvives(v, w) THEN p[1] ELSE p[2]
           m == IF s = p[1] THEN p[2] ELSE p[1]
           dec == [pair |-> p, survivor |-> s, merged |-> m, auto |-> auto,
                   undone |-> FALSE, survivorPrior |-> ID!Snapshot(s),
                   mergedPrior |-> ID!Snapshot(m), events |-> ID!Moves(m, s),
                   services |-> {r \in ID!Calls : service[r] = m}]
<1>1. p[1] \in ID!Calls /\ p[2] \in ID!Calls /\ p[1] # p[2]
  BY DEF ID!Pairs, ID!Calls
<1>2. s \in ID!Calls /\ m \in ID!Calls /\ s # m
  BY <1>1
<1>3. /\ event' = [e \in ID!Calls |-> IF e \in ID!Moves(m, s) THEN s
                                   ELSE IF event[e] = m THEN ID!Gone ELSE event[e]]
      /\ service' = [r \in ID!Calls |-> IF service[r] = m THEN s ELSE service[r]]
      /\ call' = [call EXCEPT ![s] = ID!Consolidated(v, w)]
      /\ into' = [into EXCEPT ![m] = s]
      /\ decision' = Append(decision, dec)
      /\ history' = Append(history, [before |-> ID!Tables, after |-> ID!Tables'])
  BY DEF ID!MergePair
<1>4. v \in Vessel /\ w \in Vessel
  BY <1>1, TablesFacts
<1> HIDE DEF s, m
<1>5. ID!Snapshot(s) \in Prior /\ ID!Snapshot(m) \in Prior
  BY <1>2, TablesFacts DEF ID!Snapshot, Prior
<1>6. ID!Moves(m, s) \subseteq ID!Calls /\ \A e \in ID!Moves(m, s) : event[e] = m
  BY DEF ID!Moves
<1>7. dec \in Decision
  BY <1>2, <1>5, <1>6 DEF Decision
<1>8. call' \in [ID!Calls -> Vessel]
  <2>1. ID!Consolidated(v, w) \in Vessel
    BY <1>4, ConsolidatedType
  <2> QED
    BY <1>2, <1>3, <2>1, TablesFacts
<1>9. /\ dec.survivor = s /\ dec.merged = m /\ ~dec.undone /\ dec.events = ID!Moves(m, s)
      /\ dec.survivorPrior = [fields |-> call[s], into |-> into[s]]
      /\ dec.mergedPrior = [fields |-> call[m], into |-> into[m]]
      /\ dec.services = {r \in ID!Calls : service[r] = m}
  BY DEF ID!Snapshot
<1> HIDE DEF dec
<1>10. /\ event' = [e \in ID!Calls |-> IF e \in dec.events THEN s
                                    ELSE IF event[e] = m THEN ID!Gone ELSE event[e]]
       /\ \A e \in dec.events : event[e] = m
  BY <1>3, <1>6, <1>9
<1> USE <1>2, <1>7
<1> WITNESS s \in ID!Calls, m \in ID!Calls, dec \in Decision
<1> QED
  BY <1>2, <1>3, <1>8, <1>9, <1>10

\* A new decision of two live calls moves rows from a live call to a live call.
LEMMA MergeKeeps ==
  ASSUME LoadsType, IdentityInv, NEW p \in ID!Pairs, NEW auto \in BOOLEAN, ID!MergePair(p, auto),
         \A x \in DOMAIN todo' : todo'[x] \in ID!Pairs
  PROVE  IdentityInv'
<1>1. PICK s \in ID!Calls, m \in ID!Calls, dec \in Decision :
           /\ s # m
           /\ dec.survivor = s /\ dec.merged = m /\ ~dec.undone
           /\ decision' = Append(decision, dec)
           /\ history' = Append(history, [before |-> ID!Tables, after |-> ID!Tables'])
           /\ dec.survivorPrior = [fields |-> call[s], into |-> into[s]]
           /\ dec.mergedPrior = [fields |-> call[m], into |-> into[m]]
           /\ dec.services = {r \in ID!Calls : service[r] = m}
           /\ \A e \in dec.events : event[e] = m
           /\ event' = [e \in ID!Calls |-> IF e \in dec.events THEN s
                                        ELSE IF event[e] = m THEN ID!Gone ELSE event[e]]
           /\ service' = [r \in ID!Calls |-> IF service[r] = m THEN s ELSE service[r]]
           /\ into' = [into EXCEPT ![m] = s]
           /\ call' \in [ID!Calls -> Vessel]
  BY MergeFacts DEF IdentityInv
<1>2. /\ call \in [ID!Calls -> Vessel] /\ into \in [ID!Calls -> Owner]
      /\ event \in [ID!Calls -> Owner] /\ service \in [ID!Calls -> ID!Calls]
  BY TablesFacts DEF IdentityInv
<1>3. ID!Tables' \in TablesType
  BY <1>1, <1>2 DEF ID!Tables, TablesType, Owner
<1>4. /\ decision \in Seq(Decision) /\ history \in Seq(Past) /\ Len(history) = Len(decision)
      /\ ID!Tables \in TablesType
  BY DEF IdentityInv, IdentityTypeOK
<1> DEFINE h == [before |-> ID!Tables, after |-> ID!Tables']
           n == Len(decision) + 1
<1>5. h \in Past
  BY <1>3, <1>4 DEF Past
<1>6. /\ decision' \in Seq(Decision) /\ history' \in Seq(Past)
      /\ Len(decision') = n /\ Len(history') = n
      /\ \A d \in 1..Len(decision) : decision'[d] = decision[d] /\ history'[d] = history[d]
      /\ decision'[n] = dec /\ history'[n] = h
      /\ 1..n = 1..Len(decision) \cup {n}
  BY <1>1, <1>4, <1>5
<1>7. IdentityTypeOK'
  BY <1>3, <1>6 DEF IdentityTypeOK
<1>8. Describes(dec, ID!Tables, ID!Tables')
  BY <1>1, <1>2 DEF Describes, ID!Tables
<1>9. DecisionsDescribe'
  <2>1. h.before = ID!Tables /\ h.after = ID!Tables'
    OBVIOUS
  <2> HIDE DEF h, n
  <2> QED
    BY <1>6, <1>8, <2>1 DEF DecisionsDescribe, IdentityInv
<1>10. ID!RowsStayVisible'
  <2> SUFFICES ASSUME \A d \in DOMAIN decision' : ID!OfLiveCalls(d)' /\ ~decision'[d].undone
               PROVE  \A r \in ID!Calls : service'[r] \in ID!Live' /\ event'[r] \in ID!Live' \cup {ID!Gone}
    BY DEF ID!RowsStayVisible
  <2>1. \A d \in DOMAIN decision : ID!OfLiveCalls(d) /\ ~decision[d].undone
    BY <1>4, <1>6 DEF ID!OfLiveCalls
  <2>2. \A r \in ID!Calls : service[r] \in ID!Live /\ event[r] \in ID!Live \cup {ID!Gone}
    BY <2>1 DEF IdentityInv, ID!RowsStayVisible
  <2>3. n \in DOMAIN decision' /\ decision'[n] = dec
    BY <1>4, <1>6
  <2>4. into[s] = 0
    BY <1>1, <2>3 DEF ID!OfLiveCalls
  <2>5. s \in ID!Live' /\ \A c \in ID!Live : c # m => c \in ID!Live'
    BY <1>1, <1>2, <2>4 DEF ID!Live
  <2> QED
    BY <1>1, <2>2, <2>5
<1> QED
  BY <1>7, <1>9, <1>10 DEF IdentityInv

\* execute_unmerge restores rows; its decision is undone from then on.
LEMMA UnmergeKeeps ==
  ASSUME LoadsType, IdentityInv, NEW d \in DOMAIN decision, ID!Unmerge(d)
  PROVE  IdentityInv'
<1> DEFINE dec == decision[d]
<1>1. /\ decision \in Seq(Decision) /\ history \in Seq(Past) /\ Len(history) = Len(decision)
      /\ d \in 1..Len(decision) /\ dec \in Decision
  BY DEF IdentityInv, IdentityTypeOK
<1>2. /\ call \in [ID!Calls -> Vessel] /\ into \in [ID!Calls -> Owner]
      /\ event \in [ID!Calls -> Owner] /\ service \in [ID!Calls -> ID!Calls]
  BY TablesFacts DEF IdentityInv
<1>3. /\ dec.survivor \in ID!Calls /\ dec.merged \in ID!Calls
      /\ dec.survivorPrior \in Prior /\ dec.mergedPrior \in Prior
  BY <1>1 DEF Decision
<1>4. dec.survivorPrior.fields \in Vessel /\ dec.mergedPrior.fields \in Vessel
      /\ dec.survivorPrior.into \in Owner
  BY <1>3 DEF Prior
<1>5. /\ call' = [call EXCEPT ![dec.survivor] = dec.survivorPrior.fields,
                             ![dec.merged] = dec.mergedPrior.fields]
      /\ into' = [into EXCEPT ![dec.survivor] = dec.survivorPrior.into, ![dec.merged] = 0]
      /\ event' = [e \in ID!Calls |-> IF e \in dec.events /\ event[e] # ID!Gone THEN dec.merged ELSE event[e]]
      /\ service' = [r \in ID!Calls |-> IF r \in dec.services THEN dec.merged ELSE service[r]]
      /\ decision' = [decision EXCEPT ![d].undone = TRUE]
      /\ history' = history /\ todo' = todo
  BY DEF ID!Unmerge
<1> DEFINE new == [dec EXCEPT !.undone = TRUE]
<1>6. /\ new \in Decision /\ new.undone
      /\ \A b, a : Describes(dec, b, a) => Describes(new, b, a)
  BY <1>1 DEF Decision, Describes
<1>7. decision' = [decision EXCEPT ![d] = new]
  BY <1>5
<1> HIDE DEF dec, new
<1>8. ID!Tables' \in TablesType
  BY <1>2, <1>3, <1>4, <1>5 DEF ID!Tables, TablesType, Owner, ID!Gone
<1>9. /\ decision' \in Seq(Decision) /\ Len(decision') = Len(decision) /\ decision'[d] = new
      /\ \A i \in 1..Len(decision) : i # d => decision'[i] = decision[i]
  BY <1>1, <1>6, <1>7
<1>10. IdentityTypeOK'
  BY <1>1, <1>5, <1>8, <1>9 DEF IdentityInv, IdentityTypeOK
<1>11. DecisionsDescribe'
  BY <1>1, <1>5, <1>6, <1>9 DEF IdentityInv, DecisionsDescribe, dec
<1>12. ID!RowsStayVisible'
  BY <1>1, <1>6, <1>9 DEF ID!RowsStayVisible
<1> QED
  BY <1>10, <1>11, <1>12 DEF IdentityInv

\* generate_candidates lists pairs of different calls.
LEMMA ResolveKeeps ==
  ASSUME LoadsType, IdentityInv, ID!Resolve
  PROVE  IdentityInv'
<1>1. PICK list \in ID!SetToSeqs(ID!Live), auto \in BOOLEAN : ID!GenerateCandidates(list, auto)
  BY DEF ID!Resolve
<1>2. /\ \A i \in DOMAIN list : list[i] \in ID!Calls
      /\ \A i, j \in DOMAIN list : i # j => list[i] # list[j]
  BY DEF ID!SetToSeqs, ID!Live
<1>3. \A a, b \in ID!Calls : a # b => ID!Sorted(a, b) \in ID!Pairs
  BY DEF LoadsType, ID!Calls, ID!Pairs, ID!Sorted
<1>4. \A x \in ID!ListedPlaces(list) : ID!Sorted(list[x[1]], list[x[2]]) \in ID!Pairs
  <2> SUFFICES ASSUME NEW x \in ID!ListedPlaces(list)
               PROVE  ID!Sorted(list[x[1]], list[x[2]]) \in ID!Pairs
    OBVIOUS
  <2>1. x[1] \in DOMAIN list /\ x[2] \in DOMAIN list /\ x[1] < x[2]
    BY DEF ID!ListedPlaces
  <2>2. \A i \in DOMAIN list : i \in Nat
    BY DEF ID!SetToSeqs
  <2>3. x[1] # x[2]
    BY <2>1, <2>2
  <2> QED
    BY <1>2, <1>3, <2>1, <2>3
<1>5. /\ todo' = IF auto THEN [x \in ID!ListedPlaces(list) |-> ID!Sorted(list[x[1]], list[x[2]])] ELSE todo
      /\ UNCHANGED <<call, into, event, service, decision, history>>
  BY <1>1 DEF ID!GenerateCandidates
<1>6. \A x \in DOMAIN todo' : todo'[x] \in ID!Pairs
  BY <1>4, <1>5 DEF IdentityInv, IdentityTypeOK
<1> QED
  BY <1>5, <1>6 DEF IdentityInv, IdentityTypeOK, DecisionsDescribe, ID!RowsStayVisible, ID!Tables, ID!OfLiveCalls, ID!Live

\* A round of the auto-merge loop: the pair it looks at leaves the list.
LEMMA RoundKeeps ==
  ASSUME LoadsType, IdentityInv, NEW x \in DOMAIN todo, ID!AutoMerge(x) \/ ID!AutoSkip(x)
  PROVE  IdentityInv'
<1>1. todo' = [y \in DOMAIN todo \ {x} |-> todo[y]]
  BY DEF ID!AutoMerge, ID!AutoSkip, ID!Without, ID!Restrict
<1>2. \A y \in DOMAIN todo' : todo'[y] \in ID!Pairs
  BY <1>1 DEF IdentityInv, IdentityTypeOK
<1>3. CASE ID!AutoMerge(x)
  BY <1>2, <1>3, MergeKeeps DEF ID!AutoMerge, IdentityInv, IdentityTypeOK
<1>4. CASE ID!AutoSkip(x)
  BY <1>2, <1>4 DEF ID!AutoSkip, IdentityInv, IdentityTypeOK, DecisionsDescribe, ID!RowsStayVisible, ID!Tables, ID!OfLiveCalls, ID!Live
<1> QED
  BY <1>3, <1>4

\* Every step keeps the invariant.
LEMMA IdentityStep ==
  ASSUME LoadsType, IdentityInv, [ID!IdentityNext]_(ID!identityVars)
  PROVE  IdentityInv'
<1>1. ASSUME NEW p \in ID!Pairs, ID!Merge(p)
      PROVE  IdentityInv'
  BY <1>1, MergeKeeps DEF ID!Merge, IdentityInv, IdentityTypeOK
<1>2. CASE UNCHANGED ID!identityVars
  BY <1>2 DEF ID!identityVars, IdentityInv, IdentityTypeOK, DecisionsDescribe, ID!RowsStayVisible, ID!Tables, ID!OfLiveCalls, ID!Live
<1> QED
  BY <1>1, <1>2, ResolveKeeps, RoundKeeps, UnmergeKeeps DEF ID!IdentityNext

\* At the start every row belongs to its own call and nothing is merged.
LEMMA IdentityInitInv ==
  ASSUME LoadsType, ID!IdentityInit
  PROVE  IdentityInv
<1>1. call \in [ID!Calls -> Vessel]
  BY DEF LoadsType, ID!IdentityInit
<1>2. IdentityTypeOK
  BY <1>1 DEF ID!IdentityInit, IdentityTypeOK, ID!Tables, TablesType, Owner, ID!Gone
<1>3. Len(decision) = 0
  BY DEF ID!IdentityInit
<1> QED
  BY <1>2, <1>3 DEF ID!IdentityInit, IdentityInv, DecisionsDescribe, ID!RowsStayVisible, ID!Live

\* The invariant holds in every reachable state of the identity service.
THEOREM IdentityInvariant ==
  ASSUME LoadsType
  PROVE  ID!IdentitySpec => []IdentityInv
<1>1. ID!IdentityInit => IdentityInv
  BY IdentityInitInv
<1>2. IdentityInv /\ [ID!IdentityNext]_(ID!identityVars) => IdentityInv'
  BY IdentityStep
<1> QED
  BY <1>1, <1>2, PTL DEF ID!IdentitySpec

\* execute_merge: merges of live calls, in any number and order, by hand or by the loop, leave
\* no occurrence, service request or delay with a call that is merged away.
THEOREM RowsVisible ==
  ASSUME LoadsType
  PROVE  ID!IdentitySpec => []ID!RowsStayVisible
<1>1. IdentityInv => ID!RowsStayVisible
  BY DEF IdentityInv
<1> QED
  BY <1>1, IdentityInvariant, PTL

\* Undoing a decision on the rows its merge left gives back the rows the merge found.
LEMMA UndoStep ==
  ASSUME LoadsType, IdentityInv, [ID!IdentityNext]_(ID!identityVars), NEW d \in DOMAIN decision,
         decision'[d].undone, ~decision[d].undone, ID!OfLiveCalls(d),
         ID!Touched(ID!Tables, d) = ID!Touched(history[d].after, d)
  PROVE  ID!Touched(ID!Tables', d) = ID!Touched(history[d].before, d)
<1> DEFINE dec == decision[d]
           s == dec.survivor
           m == dec.merged
           b == history[d].before
           a == history[d].after
           E == {e \in ID!Calls : event[e] # ID!Gone}
<1>1. /\ decision \in Seq(Decision) /\ d \in 1..Len(decision) /\ dec \in Decision
      /\ history[d] \in Past
  BY DEF IdentityInv, IdentityTypeOK
<1>2. b \in TablesType /\ a \in TablesType
  BY <1>1 DEF Past
<1>3. ID!Unmerge(d)
  <2>1. ASSUME NEW p \in ID!Pairs, NEW auto \in BOOLEAN, ID!MergePair(p, auto)
        PROVE  FALSE
    <3>1. PICK x : decision' = Append(decision, x)
      BY <2>1, MergeFacts DEF IdentityInv
    <3> QED
      BY <1>1, <3>1
  <2>2. ASSUME NEW i \in DOMAIN decision, i # d, ID!Unmerge(i)
        PROVE  FALSE
    BY <1>1, <2>2 DEF ID!Unmerge
  <2>3. CASE UNCHANGED decision
    BY <2>3
  <2>4. ASSUME NEW x \in DOMAIN todo, ID!AutoMerge(x)
        PROVE  FALSE
    BY <2>1, <2>4 DEF ID!AutoMerge, IdentityInv, IdentityTypeOK
  <2> QED
    BY <2>1, <2>2, <2>3, <2>4 DEF ID!IdentityNext, ID!identityVars, ID!Merge, ID!Resolve, ID!GenerateCandidates, ID!AutoSkip
<1>4. /\ call' = [call EXCEPT ![s] = dec.survivorPrior.fields, ![m] = dec.mergedPrior.fields]
      /\ into' = [into EXCEPT ![s] = dec.survivorPrior.into, ![m] = 0]
      /\ event' = [e \in ID!Calls |-> IF e \in dec.events /\ event[e] # ID!Gone THEN m ELSE event[e]]
      /\ service' = [r \in ID!Calls |-> IF r \in dec.services THEN m ELSE service[r]]
  BY <1>3 DEF ID!Unmerge
<1>5. Describes(dec, b, a)
  BY <1>1 DEF IdentityInv, DecisionsDescribe
<1>6. s \in ID!Calls /\ m \in ID!Calls /\ s # m
  BY <1>1, <1>5 DEF Decision, Describes
<1>7. \A t : ID!Touched(t, d) = [call |-> [c \in {s, m} |-> t.call[c]], into |-> [c \in {s, m} |-> t.into[c]],
                            event |-> [e \in E |-> t.event[e]], service |-> t.service]
  BY DEF ID!Touched
<1>8. /\ [e \in E |-> ID!Tables.event[e]] = [e \in E |-> a.event[e]]
      /\ ID!Tables.service = a.service
  <2>1. /\ ID!Touched(ID!Tables, d).event = [e \in E |-> ID!Tables.event[e]]
        /\ ID!Touched(a, d).event = [e \in E |-> a.event[e]]
        /\ ID!Touched(ID!Tables, d).service = ID!Tables.service /\ ID!Touched(a, d).service = a.service
    BY DEF ID!Touched
  <2>2. /\ ID!Touched(ID!Tables, d).event = ID!Touched(a, d).event
        /\ ID!Touched(ID!Tables, d).service = ID!Touched(a, d).service
    OBVIOUS
  <2> HIDE DEF E, a
  <2> QED
    BY <2>1, <2>2
<1>9. ID!Tables.event = event /\ ID!Tables.service = service
  BY DEF ID!Tables
<1>10. /\ ID!Tables'.call = call' /\ ID!Tables'.into = into' /\ ID!Tables'.event = event'
       /\ ID!Tables'.service = service'
  BY DEF ID!Tables
<1>11. /\ call \in [ID!Calls -> Vessel] /\ into \in [ID!Calls -> Owner]
       /\ event \in [ID!Calls -> Owner] /\ service \in [ID!Calls -> ID!Calls]
  BY TablesFacts DEF IdentityInv
<1>12. [c \in {s, m} |-> call'[c]] = [c \in {s, m} |-> b.call[c]]
  <2>1. call'[s] = b.call[s] /\ call'[m] = b.call[m]
    BY <1>4, <1>5, <1>6, <1>11 DEF Describes
  <2> HIDE DEF s, m, b
  <2> QED
    BY <2>1
<1>13. [c \in {s, m} |-> into'[c]] = [c \in {s, m} |-> b.into[c]]
  <2>1. into'[s] = b.into[s] /\ into'[m] = b.into[m]
    BY <1>4, <1>5, <1>6, <1>11 DEF Describes, ID!OfLiveCalls
  <2> HIDE DEF s, m, b
  <2> QED
    BY <2>1
<1>14. [e \in E |-> event'[e]] = [e \in E |-> b.event[e]]
  <2> SUFFICES ASSUME NEW e \in E PROVE event'[e] = b.event[e]
    OBVIOUS
  <2>1. e \in ID!Calls /\ event[e] # ID!Gone /\ event[e] = a.event[e]
    BY <1>8, <1>9
  <2>2. CASE e \in dec.events
    BY <1>4, <1>5, <2>1, <2>2 DEF Describes
  <2>3. CASE e \notin dec.events
    BY <1>4, <1>5, <2>1, <2>3 DEF Describes
  <2> QED
    BY <2>2, <2>3
<1>15. service' = b.service
  <2>1. b.service \in [ID!Calls -> ID!Calls]
    BY <1>2 DEF TablesType
  <2>2. ASSUME NEW r \in ID!Calls PROVE service'[r] = b.service[r]
    BY <1>4, <1>5, <1>8, <1>9, <2>2 DEF Describes
  <2>3. service' = [r \in ID!Calls |-> service'[r]]
    BY <1>4
  <2> QED
    BY <2>1, <2>2, <2>3
<1> HIDE DEF s, m, b, E
<1>16. ID!Touched(ID!Tables', d) = [call |-> [c \in {s, m} |-> call'[c]], into |-> [c \in {s, m} |-> into'[c]],
                             event |-> [e \in E |-> event'[e]], service |-> service']
  BY <1>7, <1>10
<1>17. ID!Touched(b, d) = [call |-> [c \in {s, m} |-> b.call[c]], into |-> [c \in {s, m} |-> b.into[c]],
                       event |-> [e \in E |-> b.event[e]], service |-> b.service]
  BY <1>7
<1> QED
  BY <1>12, <1>13, <1>14, <1>15, <1>16, <1>17 DEF b

\* execute_unmerge is the inverse of execute_merge, whatever else was merged and undone in
\* between, as long as the rows of the decision are as its merge left them.
THEOREM UndoIsInverse ==
  ASSUME LoadsType
  PROVE  ID!IdentitySpec => ID!UndoRestores
<1> DEFINE A == \A d \in DOMAIN decision :
             /\ decision'[d].undone /\ ~decision[d].undone
             /\ ID!OfLiveCalls(d)
             /\ ID!Touched(ID!Tables, d) = ID!Touched(history[d].after, d)
             => ID!Touched(ID!Tables', d) = ID!Touched(history[d].before, d)
<1>1. IdentityInv /\ [ID!IdentityNext]_(ID!identityVars) => [A]_(ID!identityVars)
  BY UndoStep
<1> QED
  BY <1>1, IdentityInvariant, PTL DEF ID!IdentitySpec, ID!UndoRestores

-----------------------------------------------------------------------------
(* Alerts: between two resets alerts are only appended and never change    *)
(* their key, so the table an evaluation saw when it began is the          *)
(* beginning of the table it commits to (EvalInv); the alerts it appends   *)
(* are an enumeration of the keys it found not open, without repetition.   *)
(* A recomputed row has a later generation, so a row that was there at the *)
(* beginning and is there now was there for every query in between, and a  *)
(* row that was read belongs to a call that only a reset deletes (ReadInv, *)
(* RowInv).                                                                *)

\* A database holds finitely many rows, each of a tenant.
FindingsType == IsFiniteSet(Findings) /\ \A f \in Findings : Fact[f].tenant \in Tenants

-----------------------------------------------------------------------------
(* The inductive invariant *)

DataRow == [finding : Findings, gen : Nat]
AlertKey == AL!DEFAULT_ALERT_RULES \X DataRow
Alert == [key : AlertKey, status : {"NEW", "ACKNOWLEDGED", "RESOLVED"}]
Item == [alert : Nat, status : {"OPEN", "COMPLETED"}, comments : Seq(Updaters)]
Evaluation ==
    [pc : {"idle", "open"}, query : Nat \ {0}, open : SUBSET AlertKey, found : SUBSET AlertKey,
     began : Seq(Alert), data : SUBSET DataRow, epoch : Nat]
ReadUpdate == [pc : {"read"}, item : Nat, epoch : Nat, row : Item,
               status : {"keep", "COMPLETED"}, comment : BOOLEAN]

AlertTypeOK ==
    /\ rows \in SUBSET DataRow /\ IsFiniteSet(rows)
    /\ alerts \in Seq(Alert)
    /\ items \in Seq(Item)
    /\ eval \in [Evaluators -> Evaluation]
    /\ update \in [Updaters -> [pc : {"idle", "done"}] \cup ReadUpdate]
    /\ epoch \in Nat

\* The keys of the open alerts in a table.
OpenIn(table) == {table[i].key : i \in {j \in DOMAIN table : table[j].status \in AL!OpenStatuses}}

\* An evaluation knows the open keys of the table it began with, and that table is still the
\* beginning of the alerts unless they were reset.
Knows(v, table, current) ==
    /\ v.open = OpenIn(v.began)
    /\ v.epoch <= current
    /\ v.epoch = current => /\ Len(v.began) <= Len(table)
                            /\ \A i \in 1..Len(v.began) : table[i].key = v.began[i].key
EvalInv == \A e \in Evaluators : eval[e].pc = "open" => Knows(eval[e], alerts, epoch)

\* The rows an evaluation began with are not newer than the rows that are there; those of them
\* that are still there have been read by the queries that have run; the calls of what was read
\* are there unless the data was reset.
Reads(v) ==
    /\ IsFiniteSet(v.found)
    /\ \A r \in v.data, s \in rows : r.finding = s.finding => r.gen <= s.gen
    /\ \A q \in DOMAIN AL!RuleOf : q < v.query => AL!QueryHits(q, v.data \cap rows) \subseteq v.found
    /\ v.epoch = epoch => \A k \in v.found : AL!TenantOf(k[2]) \in calls
ReadInv == \A e \in Evaluators : eval[e].pc = "open" => Reads(eval[e])

\* A finding has one row at a time, and its call is there.
RowInv ==
    /\ \A r, s \in rows : r.finding = s.finding => r = s
    /\ \A r \in rows : AL!TenantOf(r) \in calls

AlertInv == AlertTypeOK /\ EvalInv /\ ReadInv /\ RowInv

-----------------------------------------------------------------------------
(* Lemmas about the operators *)

\* The alerts of one evaluation: every element of a finite set once.
LEMMA AlertsEnumerated ==
  ASSUME NEW S, IsFiniteSet(S)
  PROVE  /\ AL!SetToSeq(S) \in Seq(S)
         /\ \A x \in S : \E i \in 1..Len(AL!SetToSeq(S)) : AL!SetToSeq(S)[i] = x
         /\ \A i, j \in 1..Len(AL!SetToSeq(S)) : AL!SetToSeq(S)[i] = AL!SetToSeq(S)[j] => i = j
<1>1. AL!Cardinality(S) = Cardinality(S)
  BY DEF AL!Cardinality, Cardinality, AL!IsFiniteSet, IsFiniteSet
<1>2. AL!SetToSeq(S) = Enumeration(S)
  BY <1>1 DEF AL!SetToSeq, Enumeration, AL!IsInjective, IsInjective
<1>3. Cardinality(S) \in Nat
  BY FS_CardinalityType
<1>4. Len(Enumeration(S)) = Cardinality(S) /\ Enumeration(S) \in Seq(S)
  BY <1>3, Enumerated
<1> QED
  BY <1>2, <1>4, Enumerated

\* A query returns rows that are there, finitely many, and more rows for more data.
LEMMA QueryFacts ==
  ASSUME NEW q \in DOMAIN AL!RuleOf, NEW R, R \subseteq DataRow, IsFiniteSet(R)
  PROVE  /\ AL!QueryHits(q, R) \subseteq AlertKey
         /\ IsFiniteSet(AL!QueryHits(q, R))
         /\ \A k \in AL!QueryHits(q, R) : k[2] \in R
         /\ \A S : S \subseteq R => AL!QueryHits(q, S) \subseteq AL!QueryHits(q, R)
<1> DEFINE H == {x \in R : AL!Asks(q, Fact[x.finding])}
           f == [x \in H |-> <<AL!RuleOf[q], x>>]
<1>1. AL!RuleOf[q] \in AL!DEFAULT_ALERT_RULES
  BY DEF AL!RuleOf, AL!DEFAULT_ALERT_RULES
<1>2. AL!QueryHits(q, R) = {<<AL!RuleOf[q], x>> : x \in H}
  BY DEF AL!QueryHits
<1>3. IsFiniteSet(H)
  BY FS_Subset
<1>4. f \in [H -> AL!QueryHits(q, R)] /\ \A t \in AL!QueryHits(q, R) : \E x \in H : f[x] = t
  BY <1>2
<1>5. IsFiniteSet(AL!QueryHits(q, R))
  <2> HIDE DEF f, H
  <2> QED
    BY <1>3, <1>4, ImageIsFinite
<1>6. \A S : S \subseteq R => AL!QueryHits(q, S) \subseteq AL!QueryHits(q, R)
  BY DEF AL!QueryHits
<1>7. AL!QueryHits(q, R) \subseteq AlertKey /\ \A k \in AL!QueryHits(q, R) : k[2] \in R
  BY <1>1, <1>2 DEF AlertKey
<1> QED
  BY <1>5, <1>6, <1>7

\* What evaluate_rules appends: one NEW alert for every key that was not open.
LEMMA RaisedFacts ==
  ASSUME NEW K, K \subseteq AlertKey, IsFiniteSet(K),
         NEW q, q = AL!SetToSeq({[key |-> k, status |-> "NEW"] : k \in K})
  PROVE  /\ q \in Seq(Alert)
         /\ \A k \in K : \E i \in 1..Len(q) : q[i] = [key |-> k, status |-> "NEW"]
         /\ \A i \in 1..Len(q) : q[i].key \in K
         /\ \A i, j \in 1..Len(q) : q[i].key = q[j].key => i = j
<1> DEFINE N == {[key |-> k, status |-> "NEW"] : k \in K}
           f == [k \in K |-> [key |-> k, status |-> "NEW"]]
<1>1. IsFiniteSet(N)
  <2>1. f \in [K -> N] /\ \A t \in N : \E k \in K : f[k] = t
    OBVIOUS
  <2> HIDE DEF f, N
  <2> QED
    BY <2>1, ImageIsFinite
<1>2. N \subseteq Alert
  BY DEF Alert
<1>3. \A x \in N : x.key \in K /\ x = [key |-> x.key, status |-> "NEW"]
  OBVIOUS
<1>4. \A k \in K : [key |-> k, status |-> "NEW"] \in N
  OBVIOUS
<1>5. q = AL!SetToSeq(N)
  OBVIOUS
<1> HIDE DEF N
<1>6. /\ q \in Seq(N)
      /\ \A x \in N : \E i \in 1..Len(q) : q[i] = x
      /\ \A i, j \in 1..Len(q) : q[i] = q[j] => i = j
  <2>1. AL!SetToSeq(N) \in Seq(N)
    BY <1>1, AlertsEnumerated
  <2>2. \A x \in N : \E i \in 1..Len(AL!SetToSeq(N)) : AL!SetToSeq(N)[i] = x
    BY <1>1, AlertsEnumerated
  <2>3. \A i, j \in 1..Len(AL!SetToSeq(N)) : AL!SetToSeq(N)[i] = AL!SetToSeq(N)[j] => i = j
    BY <1>1, AlertsEnumerated
  <2> QED
    BY <1>5, <2>1, <2>2, <2>3
<1>7. \A i \in 1..Len(q) : q[i] \in N
  BY <1>6
<1>8. q \in Seq(Alert)
  BY <1>2, <1>6, <1>7
<1>9. \A i, j \in 1..Len(q) : q[i].key = q[j].key => q[i] = q[j]
  <2>1. \A x, y \in N : x.key = y.key => x = y
    BY <1>3
  <2> QED
    BY <1>7, <2>1
<1>10. \A k \in K : \E i \in 1..Len(q) : q[i] = [key |-> k, status |-> "NEW"]
  BY <1>4, <1>6
<1>11. \A i \in 1..Len(q) : q[i].key \in K
  BY <1>3, <1>7
<1>12. \A i, j \in 1..Len(q) : q[i].key = q[j].key => i = j
  BY <1>6, <1>9
<1> QED
  BY <1>8, <1>10, <1>11, <1>12
-----------------------------------------------------------------------------
(* The invariant is inductive *)

\* No alerts, no requests at the start.
LEMMA AlertInitInv ==
  ASSUME FindingsType, AL!AlertInit
  PROVE  AlertInv
<1> DEFINE f == [x \in Findings |-> [finding |-> x, gen |-> 0]]
<1>1. rows \in SUBSET DataRow
  BY DEF AL!AlertInit, DataRow
<1>2. IsFiniteSet(rows)
  <2>1. f \in [Findings -> rows] /\ \A t \in rows : \E x \in Findings : f[x] = t
    BY DEF AL!AlertInit
  <2> HIDE DEF f
  <2> QED
    BY <2>1, ImageIsFinite DEF FindingsType
<1>3. /\ alerts \in Seq(Alert) /\ items \in Seq(Item) /\ eval \in [Evaluators -> Evaluation]
      /\ update \in [Updaters -> [pc : {"idle", "done"}]] /\ epoch \in Nat
  BY DEF AL!AlertInit, AL!NoEvaluation, Evaluation
<1>4. RowInv
  BY DEF AL!AlertInit, AL!TenantOf, RowInv, FindingsType
<1>5. \A e \in Evaluators : eval[e].pc = "idle"
  BY DEF AL!AlertInit, AL!NoEvaluation
<1> QED
  BY <1>1, <1>2, <1>3, <1>4, <1>5 DEF AL!AlertInit, AlertInv, AlertTypeOK, EvalInv, ReadInv

\* A step that leaves the rows alone keeps what is said of them.
LEMMA RowsSame ==
  ASSUME AlertInv, UNCHANGED <<rows, calls, epoch>>,
         \A e \in Evaluators : eval'[e].pc = "open" => eval'[e] = eval[e] \/ Reads(eval'[e])
  PROVE  ReadInv' /\ RowInv'
<1>1. RowInv'
  BY DEF AlertInv, RowInv
<1>2. ASSUME NEW e \in Evaluators, eval'[e].pc = "open"
      PROVE  Reads(eval'[e])
  BY <1>2 DEF AlertInv, ReadInv
<1>3. ASSUME NEW v, Reads(v)
      PROVE  /\ IsFiniteSet(v.found)
             /\ \A r \in v.data, s \in rows' : r.finding = s.finding => r.gen <= s.gen
             /\ \A q \in DOMAIN AL!RuleOf : q < v.query => AL!QueryHits(q, v.data \cap rows') \subseteq v.found
             /\ v.epoch = epoch' => \A k \in v.found : AL!TenantOf(k[2]) \in calls'
  BY <1>3 DEF Reads
<1>4. ReadInv'
  BY <1>2, <1>3 DEF ReadInv, Reads
<1> QED
  BY <1>1, <1>4

\* An evaluation starts: it knows the alerts of this moment.
LEMMA BeginKeeps ==
  ASSUME AlertInv, NEW e \in Evaluators, AL!EvaluateBegin(e)
  PROVE  AlertInv'
<1> DEFINE v == [pc |-> "open", query |-> 1, open |-> AL!OpenKeys, found |-> {},
                 began |-> alerts, data |-> rows, epoch |-> epoch]
<1>1. alerts \in Seq(Alert) /\ epoch \in Nat /\ \A i \in DOMAIN alerts : alerts[i].key \in AlertKey
  <2>1. alerts \in Seq(Alert) /\ epoch \in Nat
    BY DEF AlertInv, AlertTypeOK
  <2>2. \A a \in Alert : a.key \in AlertKey
    BY DEF Alert
  <2> QED
    BY <2>1, <2>2
<1>2. AL!OpenKeys \in SUBSET AlertKey /\ AL!OpenKeys = OpenIn(alerts)
  <2>1. AL!OpenKeys = OpenIn(alerts)
    BY DEF AL!OpenKeys, OpenIn
  <2>2. AL!OpenKeys \subseteq AlertKey
    BY <1>1 DEF AL!OpenKeys
  <2> QED
    BY <2>1, <2>2
<1>3. v \in Evaluation
  BY <1>1, <1>2 DEF Evaluation, AlertInv, AlertTypeOK
<1>4. eval' = [eval EXCEPT ![e] = v] /\ UNCHANGED <<rows, calls, alerts, items, update, epoch>>
  BY DEF AL!EvaluateBegin
<1>5. AlertTypeOK'
  BY <1>3, <1>4 DEF AlertInv, AlertTypeOK
<1>6. Knows(v, alerts, epoch)
  BY <1>1, <1>2 DEF Knows
<1>7. Reads(v)
  <2>1. \A r, s \in rows : r.finding = s.finding => r.gen <= s.gen
    BY DEF AlertInv, AlertTypeOK, RowInv, DataRow
  <2>2. \A q \in DOMAIN AL!RuleOf : ~(q < 1)
    BY DEF AL!RuleOf
  <2>3. IsFiniteSet({})
    BY FS_EmptySet
  <2> QED
    BY <2>1, <2>2, <2>3 DEF Reads
<1> HIDE DEF v
<1>8. \A d \in Evaluators : eval'[d] = IF d = e THEN v ELSE eval[d]
  BY <1>4 DEF AlertInv, AlertTypeOK
<1>9. EvalInv'
  BY <1>4, <1>6, <1>8 DEF EvalInv, AlertInv
<1>10. ReadInv' /\ RowInv'
  BY <1>4, <1>7, <1>8, RowsSame
<1> QED
  BY <1>5, <1>9, <1>10 DEF AlertInv

\* The next query: what is found grows by what the query returns.
LEMMA QueryKeeps ==
  ASSUME AlertInv, NEW e \in Evaluators, AL!EvaluateRead(e)
  PROVE  AlertInv'
<1> DEFINE n == eval[e].query
           H == AL!QueryHits(n, rows)
           v == [eval[e] EXCEPT !.found = eval[e].found \cup H, !.query = n + 1]
<1>1. /\ eval[e].pc = "open" /\ n \in DOMAIN AL!RuleOf
      /\ eval' = [eval EXCEPT ![e] = v] /\ UNCHANGED <<rows, calls, alerts, items, update, epoch>>
  BY DEF AL!EvaluateRead, AlertInv, AlertTypeOK
<1>2. rows \subseteq DataRow /\ IsFiniteSet(rows) /\ eval[e] \in Evaluation
  BY DEF AlertInv, AlertTypeOK
<1>3. /\ H \subseteq AlertKey /\ IsFiniteSet(H) /\ \A k \in H : k[2] \in rows
      /\ \A S : S \subseteq rows => AL!QueryHits(n, S) \subseteq H
  BY <1>1, <1>2, QueryFacts
<1>4. Knows(eval[e], alerts, epoch) /\ Reads(eval[e])
  BY <1>1 DEF AlertInv, EvalInv, ReadInv
<1> HIDE DEF H
<1>5. n \in Nat /\ n + 1 \in Nat \ {0} /\ DOMAIN AL!RuleOf \subseteq Nat
  <2>1. n \in Nat
    BY <1>2 DEF Evaluation
  <2> QED
    BY <2>1 DEF AL!RuleOf
<1>6. /\ v \in Evaluation /\ v.found = eval[e].found \cup H /\ v.query = n + 1
      /\ v.open = eval[e].open /\ v.began = eval[e].began /\ v.epoch = eval[e].epoch
      /\ v.data = eval[e].data
  <2> DEFINE m == n + 1
             found == eval[e].found \cup H
  <2>1. m \in Nat \ {0} /\ found \in SUBSET AlertKey
    BY <1>2, <1>3, <1>5 DEF Evaluation
  <2>2. v = [eval[e] EXCEPT !.found = found, !.query = m]
    OBVIOUS
  <2> HIDE DEF m, found, v
  <2>3. /\ v \in Evaluation /\ v.found = found /\ v.query = m
        /\ v.open = eval[e].open /\ v.began = eval[e].began /\ v.epoch = eval[e].epoch
        /\ v.data = eval[e].data
    BY <1>2, <2>1, <2>2 DEF Evaluation
  <2> QED
    BY <2>3 DEF m, found
<1> HIDE DEF n, v
<1>7. Knows(v, alerts, epoch)
  BY <1>4, <1>6 DEF Knows
<1>8. Reads(v)
  <2>1. IsFiniteSet(v.found)
    <3>1. IsFiniteSet(eval[e].found)
      BY <1>4 DEF Reads
    <3>2. IsFiniteSet(eval[e].found \cup H)
      BY <1>3, <3>1, FS_Union
    <3> QED
      BY <1>6, <3>2
  <2>2. ASSUME NEW q \in DOMAIN AL!RuleOf, q < v.query
        PROVE  AL!QueryHits(q, v.data \cap rows) \subseteq v.found
    <3>1. CASE q < n
      <4>1. q < eval[e].query
        BY <3>1 DEF n
      <4>2. AL!QueryHits(q, eval[e].data \cap rows) \subseteq eval[e].found
        BY <1>4, <4>1 DEF Reads
      <4> QED
        BY <1>6, <4>2
    <3>2. CASE q = n
      <4>1. AL!QueryHits(n, v.data \cap rows) \subseteq H
        BY <1>3
      <4> QED
        BY <1>6, <3>2, <4>1
    <3>3. q \in Nat /\ q < n + 1
      BY <1>5, <1>6, <2>2
    <3> QED
      BY <1>5, <3>1, <3>2, <3>3
  <2>3. \A k \in H : AL!TenantOf(k[2]) \in calls
    BY <1>3 DEF AlertInv, RowInv
  <2> QED
    BY <1>4, <1>6, <2>1, <2>2, <2>3 DEF Reads
<1>9. AlertTypeOK'
  BY <1>1, <1>6 DEF AlertInv, AlertTypeOK
<1>10. \A d \in Evaluators : eval'[d] = IF d = e THEN v ELSE eval[d]
  BY <1>1 DEF AlertInv, AlertTypeOK
<1>11. EvalInv'
  BY <1>1, <1>7, <1>10 DEF EvalInv, AlertInv
<1>12. ReadInv' /\ RowInv'
  BY <1>1, <1>8, <1>10, RowsSame
<1> QED
  BY <1>9, <1>11, <1>12 DEF AlertInv

\* Alerts that keep their keys and their places keep what the evaluations know.
LEMMA GrowthKeeps ==
  ASSUME AlertInv, alerts' \in Seq(Alert), Len(alerts) <= Len(alerts'),
         \A i \in 1..Len(alerts) : alerts'[i].key = alerts[i].key, epoch' = epoch,
         \A e \in Evaluators : eval'[e].pc = "open" => eval'[e] = eval[e]
  PROVE  EvalInv'
<1> SUFFICES ASSUME NEW e \in Evaluators, eval'[e].pc = "open"
             PROVE  Knows(eval[e], alerts', epoch)
  BY DEF EvalInv
<1>1. Knows(eval[e], alerts, epoch)
  BY DEF AlertInv, EvalInv
<1>2. eval[e].began \in Seq(Alert) /\ alerts \in Seq(Alert)
  BY DEF AlertInv, AlertTypeOK, Evaluation
<1> QED
  BY <1>1, <1>2 DEF Knows

\* The step in which an evaluation ends.
LEMMA EndFacts ==
  ASSUME AlertInv, NEW e \in Evaluators, AL!EvaluateCommit(e)
  PROVE  /\ eval[e].pc = "open" /\ eval'[e].pc = "idle" /\ eval[e].query \notin DOMAIN AL!RuleOf
         /\ \A d \in Evaluators : eval'[d].pc = "open" => eval'[d] = eval[d]
         /\ eval' \in [Evaluators -> Evaluation]
         /\ UNCHANGED <<rows, calls, items, update, epoch>>
<1>1. AL!NoEvaluation \in Evaluation /\ AL!NoEvaluation.pc = "idle"
  BY DEF AL!NoEvaluation, Evaluation
<1>2. /\ eval[e].pc = "open" /\ eval[e].query \notin DOMAIN AL!RuleOf
      /\ eval' = [eval EXCEPT ![e] = AL!NoEvaluation]
      /\ UNCHANGED <<rows, calls, items, update, epoch>>
  BY DEF AL!EvaluateCommit
<1> QED
  BY <1>1, <1>2 DEF AlertInv, AlertTypeOK

\* An evaluation that is not refused commits its alerts.
LEMMA CommitFacts ==
  ASSUME AlertInv, NEW e \in Evaluators, AL!EvaluateCommit(e), alerts' # alerts \/ ~AL!Refused(e)
  PROVE  \E q \in Seq(Alert) :
              /\ alerts' = alerts \o q
              /\ \A k \in AL!Missing(e) : \E i \in 1..Len(q) : q[i] = [key |-> k, status |-> "NEW"]
              /\ \A i \in 1..Len(q) : q[i].key \in AL!Missing(e)
              /\ \A i, j \in 1..Len(q) : q[i].key = q[j].key => i = j
<1> DEFINE K == AL!Missing(e)
           q == AL!SetToSeq({[key |-> k, status |-> "NEW"] : k \in K})
<1>1. K \subseteq AlertKey /\ IsFiniteSet(K)
  <2>1. eval[e] \in Evaluation /\ Reads(eval[e])
    BY EndFacts DEF AlertInv, AlertTypeOK, ReadInv
  <2>2. IsFiniteSet(eval[e].found) /\ eval[e].found \subseteq AlertKey
    BY <2>1 DEF Reads, Evaluation
  <2> QED
    BY <2>2, FS_Subset DEF AL!Missing
<1>2. alerts' = alerts \o q
  BY DEF AL!EvaluateCommit
<1> HIDE DEF K, q
<1>3. q = AL!SetToSeq({[key |-> k, status |-> "NEW"] : k \in K})
  BY DEF q
<1>4. /\ q \in Seq(Alert)
      /\ \A k \in K : \E i \in 1..Len(q) : q[i] = [key |-> k, status |-> "NEW"]
      /\ \A i \in 1..Len(q) : q[i].key \in K
      /\ \A i, j \in 1..Len(q) : q[i].key = q[j].key => i = j
  BY <1>1, <1>3, RaisedFacts
<1> QED
  BY <1>2, <1>4 DEF K

\* An evaluation ends: the table grows at its end or stays.
LEMMA CommitKeeps ==
  ASSUME AlertInv, NEW e \in Evaluators, AL!EvaluateCommit(e)
  PROVE  AlertInv'
<1>1. alerts \in Seq(Alert)
  BY DEF AlertInv, AlertTypeOK
<1>2. /\ alerts' \in Seq(Alert) /\ Len(alerts) <= Len(alerts')
      /\ \A i \in 1..Len(alerts) : alerts'[i] = alerts[i]
  <2>1. CASE alerts' = alerts
    BY <1>1, <2>1
  <2>2. CASE alerts' # alerts
    <3>1. PICK q \in Seq(Alert) : alerts' = alerts \o q
      BY <2>2, CommitFacts
    <3> QED
      BY <1>1, <3>1
  <2> QED
    BY <2>1, <2>2
<1>3. /\ UNCHANGED <<rows, calls, items, update, epoch>> /\ eval' \in [Evaluators -> Evaluation]
      /\ \A d \in Evaluators : eval'[d].pc = "open" => eval'[d] = eval[d]
  BY EndFacts
<1>4. EvalInv'
  BY <1>2, <1>3, GrowthKeeps
<1>5. AlertTypeOK'
  BY <1>2, <1>3 DEF AlertInv, AlertTypeOK
<1>6. ReadInv' /\ RowInv'
  BY <1>3, RowsSame
<1> QED
  BY <1>4, <1>5, <1>6 DEF AlertInv

\* acknowledge_alert and resolve_alert change the status of one alert.
LEMMA SetAlertKeeps ==
  ASSUME AlertInv, NEW i, NEW s \in {"ACKNOWLEDGED", "RESOLVED"}, AL!SetAlert(i, s)
  PROVE  AlertInv'
<1>1. alerts \in Seq(Alert) /\ i \in 1..Len(alerts) /\ alerts[i] \in Alert
  BY DEF AlertInv, AlertTypeOK, AL!SetAlert
<1> DEFINE a == [alerts[i] EXCEPT !.status = s]
<1>2. a \in Alert /\ a.key = alerts[i].key
  BY <1>1 DEF Alert
<1>3. alerts' = [alerts EXCEPT ![i] = a] /\ UNCHANGED <<rows, calls, items, eval, update, epoch>>
  BY DEF AL!SetAlert
<1> HIDE DEF a
<1>4. /\ alerts' \in Seq(Alert) /\ Len(alerts') = Len(alerts)
      /\ \A j \in 1..Len(alerts) : alerts'[j].key = alerts[j].key
  BY <1>1, <1>2, <1>3
<1>5. EvalInv'
  BY <1>1, <1>3, <1>4, GrowthKeeps
<1>6. AlertTypeOK'
  BY <1>3, <1>4 DEF AlertInv, AlertTypeOK
<1>7. ReadInv' /\ RowInv'
  BY <1>3, RowsSame
<1> QED
  BY <1>5, <1>6, <1>7 DEF AlertInv

\* create_action_item adds an item without comments.
LEMMA CreateItemKeeps ==
  ASSUME AlertInv, NEW i \in 0..MaxAlerts, AL!CreateItem(i)
  PROVE  AlertInv'
<1>1. [alert |-> i, status |-> "OPEN", comments |-> <<>>] \in Item
  BY DEF AL!CreateItem, Item, AlertInv, AlertTypeOK
<1>2. /\ items' = Append(items, [alert |-> i, status |-> "OPEN", comments |-> <<>>])
      /\ UNCHANGED <<rows, calls, alerts, eval, update, epoch>>
  BY DEF AL!CreateItem
<1>3. AlertTypeOK'
  BY <1>1, <1>2 DEF AlertInv, AlertTypeOK
<1>4. EvalInv'
  BY <1>2 DEF AlertInv, EvalInv
<1>5. ReadInv' /\ RowInv'
  BY <1>2, RowsSame
<1> QED
  BY <1>3, <1>4, <1>5 DEF AlertInv

\* What update_action_item writes is an item.
LEMMA UpdatedItemFacts ==
  ASSUME AlertInv, NEW u \in Updaters, update[u].pc = "read", NEW row \in Item
  PROVE  /\ AL!UpdatedItem(row, u) \in Item
         /\ AL!UpdatedItem(row, u).comments \in {row.comments, Append(update[u].row.comments, u)}
<1>1. update[u] \in ReadUpdate
  BY DEF AlertInv, AlertTypeOK
<1>2. update[u].status \in {"keep", "COMPLETED"} /\ update[u].row.comments \in Seq(Updaters)
  BY <1>1 DEF ReadUpdate, Item
<1>3. Append(update[u].row.comments, u) \in Seq(Updaters)
  BY <1>2
<1> QED
  BY <1>2, <1>3 DEF AL!UpdatedItem, Item

\* update_action_item, both halves.
LEMMA UpdateKeeps ==
  ASSUME AlertInv, NEW u \in Updaters,
         \/ \E i \in 1..MaxItems, s \in {"keep", "COMPLETED"}, c \in BOOLEAN : AL!UpdateRead(u, i, s, c)
         \/ AL!UpdateCommit(u)
  PROVE  AlertInv'
<1>1. CASE \E i \in 1..MaxItems, s \in {"keep", "COMPLETED"}, c \in BOOLEAN : AL!UpdateRead(u, i, s, c)
  <2>1. PICK i \in 1..MaxItems, s \in {"keep", "COMPLETED"}, c \in BOOLEAN : AL!UpdateRead(u, i, s, c)
    BY <1>1
  <2> DEFINE q == [pc |-> "read", item |-> i, epoch |-> epoch, row |-> items[i], status |-> s, comment |-> c]
  <2>2. items[i] \in Item /\ epoch \in Nat
    BY <2>1 DEF AL!UpdateRead, AlertInv, AlertTypeOK
  <2>3. q \in ReadUpdate
    BY <2>2 DEF ReadUpdate
  <2>4. update' = [update EXCEPT ![u] = q] /\ UNCHANGED <<rows, calls, alerts, items, eval, epoch>>
    BY <2>1 DEF AL!UpdateRead
  <2> HIDE DEF q
  <2>5. AlertTypeOK'
    BY <2>3, <2>4 DEF AlertInv, AlertTypeOK
  <2>6. ReadInv' /\ RowInv'
    BY <2>4, RowsSame
  <2> QED
    BY <2>4, <2>5, <2>6 DEF AlertInv, EvalInv
<1>2. CASE AL!UpdateCommit(u)
  <2>1. /\ update[u].pc = "read" /\ update' = [update EXCEPT ![u] = [pc |-> "done"]]
        /\ UNCHANGED <<rows, calls, alerts, eval, epoch>>
    BY <1>2 DEF AL!UpdateCommit
  <2>2. update' \in [Updaters -> [pc : {"idle", "done"}] \cup ReadUpdate]
    BY <2>1 DEF AlertInv, AlertTypeOK
  <2>3. items' \in Seq(Item)
    <3>1. items \in Seq(Item)
      BY DEF AlertInv, AlertTypeOK
    <3>2. CASE items' = [items EXCEPT ![update[u].item] = AL!UpdatedItem(@, u)]
      <4>1. CASE update[u].item \in 1..Len(items)
        <5>1. items[update[u].item] \in Item
          BY <3>1, <4>1
        <5>2. AL!UpdatedItem(items[update[u].item], u) \in Item
          BY <2>1, <5>1, UpdatedItemFacts
        <5>3. items' = [items EXCEPT ![update[u].item] = AL!UpdatedItem(items[update[u].item], u)]
          BY <3>2
        <5> QED
          BY <3>1, <4>1, <5>2, <5>3
      <4>2. CASE update[u].item \notin 1..Len(items)
        <5>1. update[u].item \notin DOMAIN items
          BY <3>1, <4>2
        <5>2. items' = items
          BY <3>1, <3>2, <5>1
        <5> QED
          BY <3>1, <5>2
      <4> QED
        BY <4>1, <4>2
    <3> QED
      BY <1>2, <3>1, <3>2 DEF AL!UpdateCommit
  <2>4. ReadInv' /\ RowInv'
    BY <2>1, RowsSame
  <2> QED
    BY <2>1, <2>2, <2>3, <2>4 DEF AlertInv, AlertTypeOK, EvalInv
<1> QED
  BY <1>1, <1>2

\* The reset removes rows and begins a new epoch.
LEMMA ResetKeeps ==
  ASSUME AlertInv, NEW t \in Tenants, AL!Reset(t)
  PROVE  AlertInv'
<1>1. /\ rows' \subseteq rows /\ epoch' = epoch + 1 /\ alerts' = <<>> /\ items' = <<>>
      /\ calls' = calls \ {t} /\ \A r \in rows' : AL!TenantOf(r) # t
      /\ UNCHANGED <<eval, update>>
  BY DEF AL!Reset
<1>2. rows \subseteq DataRow /\ IsFiniteSet(rows) /\ epoch \in Nat
  BY DEF AlertInv, AlertTypeOK
<1>3. IsFiniteSet(rows')
  BY <1>1, <1>2, FS_Subset
<1>4. AlertTypeOK'
  BY <1>1, <1>3 DEF AlertInv, AlertTypeOK
<1>5. RowInv'
  BY <1>1 DEF AlertInv, RowInv
<1>6. ASSUME NEW e \in Evaluators, eval[e].pc = "open"
      PROVE  Knows(eval[e], alerts', epoch') /\ Reads(eval[e])'
  <2>1. /\ Knows(eval[e], alerts, epoch) /\ Reads(eval[e]) /\ eval[e].epoch \in Nat
    BY <1>6 DEF AlertInv, EvalInv, ReadInv, AlertTypeOK, Evaluation
  <2>2. Knows(eval[e], alerts', epoch') /\ eval[e].epoch # epoch'
    BY <1>1, <1>2, <2>1 DEF Knows
  <2>3. eval[e].data \cap rows' \subseteq eval[e].data \cap rows
    BY <1>1
  <2>4. \A q : AL!QueryHits(q, eval[e].data \cap rows') \subseteq AL!QueryHits(q, eval[e].data \cap rows)
    BY <2>3 DEF AL!QueryHits
  <2>5. Reads(eval[e])'
    BY <1>1, <2>1, <2>2, <2>4 DEF Reads
  <2> QED
    BY <2>2, <2>5
<1>7. EvalInv' /\ ReadInv'
  BY <1>1, <1>6 DEF EvalInv, ReadInv
<1> QED
  BY <1>4, <1>5, <1>7 DEF AlertInv

\* The analytics stages give rows a later generation.
LEMMA RecomputeKeeps ==
  ASSUME AlertInv, NEW t \in Tenants, NEW table \in {"outlier", "bottleneck"}, AL!Recompute(t, table)
  PROVE  AlertInv'
<1> DEFINE hit(r) == /\ Fact[r.finding].table = table
                     /\ table = "outlier" => AL!TenantOf(r) = t
           new(r) == IF hit(r) THEN [r EXCEPT !.gen = @ + 1] ELSE r
           f == [r \in rows |-> new(r)]
<1>1. rows' = {new(r) : r \in rows} /\ UNCHANGED <<calls, alerts, items, eval, update, epoch>>
  BY DEF AL!Recompute
<1>2. rows \subseteq DataRow /\ IsFiniteSet(rows)
  BY DEF AlertInv, AlertTypeOK
<1>3. \A r \in DataRow : new(r) \in DataRow /\ new(r).finding = r.finding /\ r.gen <= new(r).gen
                        /\ (new(r) = r \/ new(r).gen = r.gen + 1)
  BY DEF DataRow
<1> HIDE DEF hit, new
<1>4. rows' \subseteq DataRow
  BY <1>1, <1>2, <1>3
<1>5. IsFiniteSet(rows')
  <2>1. f \in [rows -> rows'] /\ \A x \in rows' : \E r \in rows : f[r] = x
    BY <1>1
  <2> HIDE DEF f
  <2> QED
    BY <1>2, <2>1, ImageIsFinite
<1>6. AlertTypeOK'
  BY <1>1, <1>4, <1>5 DEF AlertInv, AlertTypeOK
<1>7. RowInv'
  <2>1. \A r, s \in rows : r.finding = s.finding => r = s
    BY DEF AlertInv, RowInv
  <2>2. ASSUME NEW x \in rows', NEW y \in rows', x.finding = y.finding
        PROVE  x = y
    <3>1. PICK r \in rows, s \in rows : x = new(r) /\ y = new(s)
      BY <1>1
    <3>2. r = s
      BY <1>2, <1>3, <2>1, <2>2, <3>1
    <3> QED
      BY <3>1, <3>2
  <2>3. ASSUME NEW x \in rows'
        PROVE  AL!TenantOf(x) \in calls'
    <3>1. PICK r \in rows : x = new(r)
      BY <1>1
    <3>2. AL!TenantOf(x) = AL!TenantOf(r)
      BY <1>2, <1>3, <3>1 DEF AL!TenantOf
    <3> QED
      BY <1>1, <3>2 DEF AlertInv, RowInv
  <2> QED
    BY <2>2, <2>3 DEF RowInv
<1>8. ASSUME NEW e \in Evaluators, eval[e].pc = "open"
      PROVE  Reads(eval[e])'
  <2>1. Reads(eval[e]) /\ eval[e].data \subseteq DataRow
    BY <1>8 DEF AlertInv, ReadInv, AlertTypeOK, Evaluation
  <2>2. ASSUME NEW r \in eval[e].data, NEW x \in rows', r.finding = x.finding
        PROVE  r.gen <= x.gen /\ (r = x => x \in rows)
    <3>1. PICK s \in rows : x = new(s)
      BY <1>1
    <3>2. s \in DataRow /\ r \in DataRow /\ x.finding = s.finding /\ s.gen <= x.gen
          /\ (x = s \/ x.gen = s.gen + 1)
      BY <1>2, <1>3, <2>1, <3>1
    <3>3. r.gen \in Nat /\ s.gen \in Nat /\ x.gen \in Nat
      BY <1>4, <3>2 DEF DataRow
    <3>4. r.gen <= s.gen
      BY <2>1, <2>2, <3>2 DEF Reads
    <3> QED
      BY <3>2, <3>3, <3>4
  <2>3. eval[e].data \cap rows' \subseteq eval[e].data \cap rows
    BY <2>2
  <2>4. \A q : AL!QueryHits(q, eval[e].data \cap rows') \subseteq AL!QueryHits(q, eval[e].data \cap rows)
    BY <2>3 DEF AL!QueryHits
  <2> QED
    BY <1>1, <2>1, <2>2, <2>4 DEF Reads
<1>9. EvalInv' /\ ReadInv'
  BY <1>1, <1>8 DEF EvalInv, ReadInv, AlertInv
<1> QED
  BY <1>6, <1>7, <1>9 DEF AlertInv

\* Every step keeps the invariant.
LEMMA AlertStep ==
  ASSUME AlertInv, [AL!AlertNext]_(AL!alertVars)
  PROVE  AlertInv'
<1>1. CASE UNCHANGED AL!alertVars
  <2>1. UNCHANGED <<rows, calls, alerts, items, eval, update, epoch>>
    BY <1>1 DEF AL!alertVars
  <2>2. ReadInv' /\ RowInv'
    BY <2>1, RowsSame
  <2> QED
    BY <2>1, <2>2 DEF AlertInv, AlertTypeOK, EvalInv
<1>2. CASE AL!EvaluationNext
  BY <1>2, BeginKeeps, QueryKeeps, CommitKeeps, SetAlertKeeps, RecomputeKeeps, ResetKeeps
     DEF AL!EvaluationNext
<1>3. CASE AL!ItemNext
  BY <1>3, CreateItemKeeps, UpdateKeeps, ResetKeeps DEF AL!ItemNext
<1> QED
  BY <1>1, <1>2, <1>3 DEF AL!AlertNext

\* The invariant holds in every reachable state of the alerts.
THEOREM AlertInvariant ==
  ASSUME FindingsType
  PROVE  AL!AlertSpec => []AlertInv
<1>1. AL!AlertInit => AlertInv
  BY AlertInitInv
<1>2. AlertInv /\ [AL!AlertNext]_(AL!alertVars) => AlertInv'
  BY AlertStep
<1> QED
  BY <1>1, <1>2, PTL DEF AL!AlertSpec

-----------------------------------------------------------------------------
(* What the invariant gives *)

\* Only its own commit ends an evaluation.
LEMMA EvaluationEnds ==
  ASSUME AlertInv, [AL!AlertNext]_(AL!alertVars), NEW e \in Evaluators,
         eval[e].pc = "open", eval'[e].pc = "idle"
  PROVE  AL!EvaluateCommit(e)
<1>1. ASSUME NEW d \in Evaluators, AL!EvaluateBegin(d)
      PROVE  FALSE
  BY <1>1 DEF AL!EvaluateBegin, AlertInv, AlertTypeOK
<1>2. ASSUME NEW d \in Evaluators, d # e, AL!EvaluateCommit(d)
      PROVE  FALSE
  BY <1>2 DEF AL!EvaluateCommit, AlertInv, AlertTypeOK
<1>3. ASSUME NEW d \in Evaluators, AL!EvaluateRead(d)
      PROVE  FALSE
  BY <1>3 DEF AL!EvaluateRead, AlertInv, AlertTypeOK, Evaluation
<1>4. CASE UNCHANGED eval
  BY <1>4
<1> QED
  BY <1>1, <1>2, <1>3, <1>4
     DEF AL!AlertNext, AL!EvaluationNext, AL!ItemNext, AL!alertVars, AL!SetAlert, AL!CreateItem,
         AL!UpdateRead, AL!UpdateCommit, AL!Recompute, AL!Reset

\* A hit on a row that was there all the time has been found.
LEMMA ReadAll ==
  ASSUME AlertInv, NEW e \in Evaluators, AL!EvaluateCommit(e)
  PROVE  AL!Hits(eval[e].data \cap rows) \subseteq eval[e].found
<1>1. eval[e].query \notin DOMAIN AL!RuleOf /\ eval[e].pc = "open"
  BY EndFacts
<1>2. eval[e] \in Evaluation /\ Reads(eval[e])
  BY <1>1 DEF AlertInv, AlertTypeOK, ReadInv
<1>3. \A q \in DOMAIN AL!RuleOf : q < eval[e].query
  BY <1>1, <1>2 DEF Evaluation, AL!RuleOf
<1> QED
  BY <1>2, <1>3 DEF Reads, AL!Hits

\* The commit leaves an alert for every hit, an old one or a new one.
LEMMA RaisesStep ==
  ASSUME AlertInv, NEW e \in Evaluators, AL!EvaluateCommit(e),
         NEW k \in eval[e].found \cup AL!Hits(eval[e].data \cap rows)
  PROVE  \/ /\ \E i \in DOMAIN eval[e].began :
                   eval[e].began[i].key = k /\ eval[e].began[i].status \in AL!OpenStatuses
            /\ eval[e].epoch = epoch => \E i \in DOMAIN alerts' : alerts'[i].key = k
         \/ \E i \in DOMAIN alerts' : alerts'[i] = [key |-> k, status |-> "NEW"]
         \/ eval[e].epoch # epoch /\ \E h \in eval[e].found : AL!TenantOf(h[2]) \notin calls
<1>1. k \in eval[e].found
  BY ReadAll
<1>2. eval[e].pc = "open" /\ Knows(eval[e], alerts, epoch) /\ Reads(eval[e])
  BY EndFacts DEF AlertInv, EvalInv, ReadInv
<1>3. CASE AL!Refused(e)
  <2>1. \E h \in eval[e].found : AL!TenantOf(h[2]) \notin calls
    BY <1>3 DEF AL!Refused, AL!Missing
  <2> QED
    BY <1>2, <2>1 DEF Reads
<1>4. CASE ~AL!Refused(e)
  <2>1. PICK q \in Seq(Alert) :
          /\ alerts' = alerts \o q
          /\ \A h \in AL!Missing(e) : \E i \in 1..Len(q) : q[i] = [key |-> h, status |-> "NEW"]
    BY <1>4, CommitFacts
  <2>2. alerts \in Seq(Alert) /\ eval[e].began \in Seq(Alert)
    BY DEF AlertInv, AlertTypeOK, Evaluation
  <2>3. /\ DOMAIN alerts' = 1..(Len(alerts) + Len(q))
        /\ \A i \in 1..Len(alerts) : alerts'[i] = alerts[i]
        /\ \A i \in 1..Len(q) : alerts'[Len(alerts) + i] = q[i] /\ Len(alerts) + i \in DOMAIN alerts'
    BY <2>1, <2>2
  <2>4. CASE k \notin eval[e].open
    <3>1. PICK i \in 1..Len(q) : q[i] = [key |-> k, status |-> "NEW"]
      BY <1>1, <2>1, <2>4 DEF AL!Missing
    <3> QED
      BY <2>3, <3>1
  <2>5. CASE k \in eval[e].open
    <3>1. PICK i \in DOMAIN eval[e].began :
            eval[e].began[i].key = k /\ eval[e].began[i].status \in AL!OpenStatuses
      BY <1>2, <2>5 DEF Knows, OpenIn
    <3>2. ASSUME eval[e].epoch = epoch
          PROVE  i \in DOMAIN alerts' /\ alerts'[i].key = k
      <4>1. Len(eval[e].began) <= Len(alerts) /\ alerts[i].key = k /\ i \in 1..Len(eval[e].began)
        BY <1>2, <2>2, <3>1, <3>2 DEF Knows
      <4>2. i \in 1..Len(alerts)
        BY <2>2, <4>1
      <4> QED
        BY <2>1, <2>2, <2>3, <4>1, <4>2
    <3> QED
      BY <3>1, <3>2
  <2> QED
    BY <2>4, <2>5
<1> QED
  BY <1>3, <1>4

\* evaluate_rules: every row that a query of an evaluation returned, and every row that a rule
\* hits and that was there from its beginning to its end, has an alert that was open when it
\* began or a new one, whatever ran meanwhile; only a reset in between takes the old one away
\* or fails the commit.
THEOREM EveryHitRaised ==
  ASSUME FindingsType
  PROVE  AL!AlertSpec => AL!EvaluationRaisesEveryHit
<1> DEFINE A == \A e \in Evaluators :
             eval[e].pc = "open" /\ eval'[e].pc = "idle" =>
               \A k \in eval[e].found \cup AL!Hits(eval[e].data \cap rows) :
                   \/ /\ \E i \in DOMAIN eval[e].began :
                             eval[e].began[i].key = k /\ eval[e].began[i].status \in AL!OpenStatuses
                      /\ eval[e].epoch = epoch => \E i \in DOMAIN alerts' : alerts'[i].key = k
                   \/ \E i \in DOMAIN alerts' : alerts'[i] = [key |-> k, status |-> "NEW"]
                   \/ eval[e].epoch # epoch /\ \E h \in eval[e].found : AL!TenantOf(h[2]) \notin calls
<1>1. AlertInv /\ [AL!AlertNext]_(AL!alertVars) => [A]_(AL!alertVars)
  BY EvaluationEnds, RaisesStep
<1> QED
  BY <1>1, AlertInvariant, PTL DEF AL!AlertSpec, AL!EvaluationRaisesEveryHit

\* Only a commit makes the table of alerts longer.
LEMMA TableGrows ==
  ASSUME AlertInv, [AL!AlertNext]_(AL!alertVars), Len(alerts') > Len(alerts)
  PROVE  \E e \in Evaluators : AL!EvaluateCommit(e)
<1>1. alerts \in Seq(Alert)
  BY DEF AlertInv, AlertTypeOK
<1>2. ASSUME NEW i, NEW s, AL!SetAlert(i, s)
      PROVE  FALSE
  BY <1>1, <1>2 DEF AL!SetAlert
<1>3. CASE UNCHANGED alerts
  BY <1>1, <1>3
<1>4. ASSUME NEW t, AL!Reset(t)
      PROVE  FALSE
  BY <1>1, <1>4 DEF AL!Reset
<1> QED
  BY <1>2, <1>3, <1>4
     DEF AL!AlertNext, AL!EvaluationNext, AL!ItemNext, AL!alertVars, AL!EvaluateBegin, AL!EvaluateRead,
         AL!CreateItem, AL!UpdateRead, AL!UpdateCommit, AL!Recompute

\* Two alerts of one entity, the later one new: the earlier one was there before, and it was
\* not open when the evaluation began.
LEMMA DuplicateStep ==
  ASSUME AlertInv, [AL!AlertNext]_(AL!alertVars), NEW i \in DOMAIN alerts', NEW j \in DOMAIN alerts',
         i < j, j > Len(alerts), alerts'[i].key = alerts'[j].key
  PROVE  /\ i <= Len(alerts)
         /\ \/ alerts[i].status = "RESOLVED"
            \/ \E e \in Evaluators :
                   /\ eval[e].pc = "open" /\ eval'[e].pc = "idle"
                   /\ eval[e].epoch = epoch /\ i \in DOMAIN eval[e].began =>
                          eval[e].began[i].status = "RESOLVED"
<1>1. alerts \in Seq(Alert) /\ alerts' \in Seq(Alert)
  BY AlertStep DEF AlertInv, AlertTypeOK
<1>2. PICK e \in Evaluators : AL!EvaluateCommit(e)
  BY <1>1, TableGrows
<1>3. PICK q \in Seq(Alert) :
        /\ alerts' = alerts \o q
        /\ \A n \in 1..Len(q) : q[n].key \in AL!Missing(e)
        /\ \A n, m \in 1..Len(q) : q[n].key = q[m].key => n = m
  <2>1. alerts' # alerts
    BY <1>1
  <2> QED
    BY <1>2, <2>1, CommitFacts
<1>4. /\ i \in 1..(Len(alerts) + Len(q)) /\ j \in 1..(Len(alerts) + Len(q))
      /\ \A n \in 1..Len(alerts) : alerts'[n] = alerts[n]
      /\ \A n \in 1..(Len(alerts) + Len(q)) : n > Len(alerts) =>
            alerts'[n] = q[n - Len(alerts)] /\ n - Len(alerts) \in 1..Len(q)
  BY <1>1, <1>3
<1>5. j - Len(alerts) \in 1..Len(q) /\ alerts'[j] = q[j - Len(alerts)]
  BY <1>4
<1>6. i <= Len(alerts)
  <2> SUFFICES ASSUME i > Len(alerts) PROVE FALSE
    BY <1>1, <1>4
  <2>1. i - Len(alerts) \in 1..Len(q) /\ alerts'[i] = q[i - Len(alerts)]
    BY <1>4
  <2>2. i - Len(alerts) = j - Len(alerts)
    BY <1>3, <1>5, <2>1
  <2> QED
    BY <1>1, <1>4, <2>2
<1>7. alerts'[i] = alerts[i] /\ alerts[i].key \notin eval[e].open
  BY <1>1, <1>3, <1>4, <1>5, <1>6 DEF AL!Missing
<1>8. eval[e].pc = "open" /\ eval'[e].pc = "idle"
  BY <1>2, EndFacts
<1>9. ASSUME eval[e].epoch = epoch, i \in DOMAIN eval[e].began
      PROVE  eval[e].began[i].status = "RESOLVED"
  <2>1. eval[e].began \in Seq(Alert) /\ Knows(eval[e], alerts, epoch)
    BY <1>8 DEF AlertInv, AlertTypeOK, Evaluation, EvalInv
  <2>2. eval[e].began[i].key = alerts[i].key
    BY <1>9, <2>1 DEF Knows
  <2>3. eval[e].began[i].status \notin AL!OpenStatuses
    BY <1>7, <1>9, <2>1, <2>2 DEF Knows, OpenIn
  <2>4. eval[e].began[i] \in Alert
    BY <1>9, <2>1
  <2> QED
    BY <2>3, <2>4 DEF Alert, AL!OpenStatuses
<1> QED
  BY <1>6, <1>8, <1>9

\* evaluate_rules: an evaluation raises an entity at most once, and never one whose alert was
\* open when it began.
THEOREM NoDuplicateRaised ==
  ASSUME FindingsType
  PROVE  AL!AlertSpec => AL!EvaluationDoesNotDuplicate
<1> DEFINE A == \A i, j \in DOMAIN alerts' :
             i < j /\ j > Len(alerts) /\ alerts'[i].key = alerts'[j].key =>
               /\ i <= Len(alerts)
               /\ \/ alerts[i].status = "RESOLVED"
                  \/ \E e \in Evaluators :
                         /\ eval[e].pc = "open" /\ eval'[e].pc = "idle"
                         /\ eval[e].epoch = epoch /\ i \in DOMAIN eval[e].began =>
                                eval[e].began[i].status = "RESOLVED"
<1>1. AlertInv /\ [AL!AlertNext]_(AL!alertVars) => [A]_(AL!alertVars)
  BY DuplicateStep
<1> QED
  BY <1>1, AlertInvariant, PTL DEF AL!AlertSpec, AL!EvaluationDoesNotDuplicate

\* An update writes its comments at the end of those it read.
LEMMA CommentStep ==
  ASSUME AlertInv, [AL!AlertNext]_(AL!alertVars), NEW i \in DOMAIN items, i \in DOMAIN items',
         ~AL!IsPrefix(items[i].comments, items'[i].comments)
  PROVE  \E u \in Updaters : /\ update[u].pc = "read" /\ update'[u].pc = "done"
                             /\ update[u].item = i
                             /\ update[u].row.comments # items[i].comments
<1>1. items \in Seq(Item) /\ i \in 1..Len(items) /\ items[i] \in Item
      /\ items[i].comments \in Seq(Updaters)
  <2>1. items \in Seq(Item)
    BY DEF AlertInv, AlertTypeOK
  <2>2. i \in 1..Len(items) /\ items[i] \in Item
    BY <2>1
  <2> QED
    BY <2>1, <2>2 DEF Item
<1>2. items'[i] # items[i]
  <2>1. \A s \in Seq(Updaters) : AL!IsPrefix(s, s)
    BY DEF AL!IsPrefix
  <2> QED
    BY <1>1, <2>1
<1>3. PICK u \in Updaters : AL!UpdateCommit(u)
  <2>1. ASSUME NEW a, AL!CreateItem(a)
        PROVE  FALSE
    BY <1>1, <1>2, <2>1 DEF AL!CreateItem
  <2>2. ASSUME NEW t, AL!Reset(t)
        PROVE  FALSE
    BY <2>2 DEF AL!Reset
  <2> QED
    BY <1>2, <2>1, <2>2
       DEF AL!AlertNext, AL!EvaluationNext, AL!ItemNext, AL!alertVars, AL!EvaluateBegin, AL!EvaluateRead,
           AL!EvaluateCommit, AL!SetAlert, AL!UpdateRead, AL!Recompute
<1>4. /\ update[u].pc = "read" /\ update' = [update EXCEPT ![u] = [pc |-> "done"]]
      /\ items' = [items EXCEPT ![update[u].item] = AL!UpdatedItem(@, u)]
  BY <1>2, <1>3 DEF AL!UpdateCommit
<1>5. update'[u].pc = "done"
  BY <1>4 DEF AlertInv, AlertTypeOK
<1>6. update[u].item = i /\ items'[i] = AL!UpdatedItem(items[i], u)
  BY <1>1, <1>2, <1>4
<1>7. items'[i].comments \in {items[i].comments, Append(update[u].row.comments, u)}
  BY <1>1, <1>4, <1>6, UpdatedItemFacts
<1>8. ASSUME NEW s \in Seq(Updaters)
      PROVE  AL!IsPrefix(s, s) /\ AL!IsPrefix(s, Append(s, u))
  <2>1. Len(s) \in Nat /\ Len(Append(s, u)) = Len(s) + 1
    OBVIOUS
  <2>2. \A n \in 1..Len(s) : Append(s, u)[n] = s[n]
    OBVIOUS
  <2>3. SubSeq(s, 1, Len(s)) = [n \in 1..Len(s) |-> s[n]]
    OBVIOUS
  <2>4. SubSeq(Append(s, u), 1, Len(s)) = [n \in 1..Len(s) |-> Append(s, u)[n]]
    OBVIOUS
  <2>5. SubSeq(Append(s, u), 1, Len(s)) = SubSeq(s, 1, Len(s))
    BY <2>2, <2>3, <2>4
  <2> QED
    BY <2>1, <2>5 DEF AL!IsPrefix
<1>9. update[u].row.comments # items[i].comments
  BY <1>1, <1>7, <1>8
<1> QED
  BY <1>4, <1>5, <1>6, <1>9

\* update_action_item: a committed comment is lost only to an update that had read the item
\* before the comment was committed.
THEOREM CommentsKept ==
  ASSUME FindingsType
  PROVE  AL!AlertSpec => AL!CommentsKeptWithoutOverlap
<1> DEFINE A == \A i \in DOMAIN items :
             i \in DOMAIN items' /\ ~AL!IsPrefix(items[i].comments, items'[i].comments) =>
               \E u \in Updaters : /\ update[u].pc = "read" /\ update'[u].pc = "done"
                                   /\ update[u].item = i
                                   /\ update[u].row.comments # items[i].comments
<1>1. AlertInv /\ [AL!AlertNext]_(AL!alertVars) => [A]_(AL!alertVars)
  BY CommentStep
<1> QED
  BY <1>1, AlertInvariant, PTL DEF AL!AlertSpec, AL!CommentsKeptWithoutOverlap

-----------------------------------------------------------------------------
(* The other desks follow the specifications of their modules.  Each       *)
(* instance has its own copy of the definitions; the copies say the same.  *)

JCP == INSTANCE JourneyCorrections_proofs
           WITH operations <- corrections, MaxOperations <- MaxCorrections, Loads <- Observed

\* The session desk follows Sessions.
LEMMA SessionDeskSpec == WorkflowsSpec => SE!SessionSpec
<1>1. [WorkflowsNext]_workflowVars => [SE!SessionNext]_(SE!sessionVars)
  BY DEF WorkflowsNext, Identity, Alerting, Items, Dashboard, Delays, OutlierDesk, JourneyDesk,
         SessionDesk, workflowVars, sessionTables, SE!sessionVars
<1>2. WorkflowsInit => SE!SessionInit
  BY DEF WorkflowsInit
<1> QED
  BY <1>1, <1>2, PTL DEF WorkflowsSpec, SE!SessionSpec

\* is_session_active, revoke_session: a session that was revoked stays revoked.
THEOREM SessionsStayRevoked == WorkflowsSpec => RevokedStaysRevoked
<1>1. SE!SessionSpec => SE!RevokedStaysRevoked
  BY DeskAssumption, RevocationIsFinal DEF LivesType
<1> QED
  BY <1>1, SessionDeskSpec, PTL DEF RevokedStaysRevoked

\* get_current_principal: no request is admitted on a permission that was taken away longer
\* than an access token's life ago, or after the idle time.
THEOREM DesksAdmitRecently == WorkflowsSpec => AdmissionsAreRecent
<1>1. SE!SessionSpec => SE!AdmissionsAreRecent
  BY DeskAssumption, AdmissionsRecent DEF LivesType
<1> QED
  BY <1>1, SessionDeskSpec, PTL DEF AdmissionsAreRecent

\* The alert desk follows AlertWorkflow.
LEMMA AlertDeskSpec == WorkflowsSpec => AL!AlertSpec
<1>1. [WorkflowsNext]_workflowVars => [AL!AlertNext]_(AL!alertVars)
  BY DEF AL!AlertNext, WorkflowsNext, Identity, Alerting, Items, Dashboard, Delays, OutlierDesk, JourneyDesk,
         SessionDesk, workflowVars, alertTables, AL!alertVars
<1>2. WorkflowsInit => AL!AlertInit
  BY DEF WorkflowsInit
<1> QED
  BY <1>1, <1>2, PTL DEF WorkflowsSpec, AL!AlertSpec

\* evaluate_rules leaves no row that one of its queries returned without an alert.
THEOREM DesksRaiseEveryHit == WorkflowsSpec => EvaluationRaisesEveryHit
<1>1. AL!AlertSpec => AL!EvaluationRaisesEveryHit
  BY DeskAssumption, EveryHitRaised DEF FindingsType
<1> QED
  BY <1>1, AlertDeskSpec, PTL DEF EvaluationRaisesEveryHit

\* evaluate_rules raises nothing that is open already.
THEOREM DesksRaiseOnce == WorkflowsSpec => EvaluationDoesNotDuplicate
<1>1. AL!AlertSpec => AL!EvaluationDoesNotDuplicate
  BY DeskAssumption, NoDuplicateRaised DEF FindingsType
<1> QED
  BY <1>1, AlertDeskSpec, PTL DEF EvaluationDoesNotDuplicate

\* update_action_item loses a comment only to an update that had read the row before.
THEOREM DesksKeepComments == WorkflowsSpec => CommentsKeptWithoutOverlap
<1>1. AL!AlertSpec => AL!CommentsKeptWithoutOverlap
  BY DeskAssumption, CommentsKept DEF FindingsType
<1> QED
  BY <1>1, AlertDeskSpec, PTL DEF CommentsKeptWithoutOverlap

\* The journey desk follows JourneyCorrections.
LEMMA JourneyDeskSpec == WorkflowsSpec => JCP!JourneySpec
<1>1. WorkflowsInit => JCP!JourneyInit
  BY DEF WorkflowsInit, JC!JourneyInit, JCP!JourneyInit, JC!Idle, JCP!Idle
<1>2. JC!JourneyNext => JCP!JourneyNext
    BY DEF JC!JourneyNext, JCP!JourneyNext, JC!CorrectBegin, JCP!CorrectBegin, JC!Begin,
     JCP!Begin, JC!CorrectCommit, JCP!CorrectCommit, JC!NewIndex, JCP!NewIndex, JC!IndexStep,
     JCP!IndexStep, JC!CorrectionRank, JCP!CorrectionRank, JC!Override, JCP!Override, JC!Idle,
     JCP!Idle, JC!Resolved, JCP!Resolved, JC!Live, JCP!Live, JC!Usable, JCP!Usable, JC!Best,
     JCP!Best, JC!GoverningChoices, JCP!GoverningChoices, JC!RebuildRead, JCP!RebuildRead,
     JC!RebuildCommit, JCP!RebuildCommit, JC!QualityRun, JCP!QualityRun, JC!StopBetweenCommits,
     JCP!StopBetweenCommits, JC!Cardinality, JCP!Cardinality
<1>3. [WorkflowsNext]_workflowVars => [JCP!JourneyNext]_(JCP!journeyVars)
  BY <1>2 DEF WorkflowsNext, Identity, Alerting, Items, Dashboard, Delays, OutlierDesk, JourneyDesk,
              SessionDesk, workflowVars, journeyTables, JCP!journeyVars
<1> QED
  BY <1>1, <1>3, PTL DEF WorkflowsSpec, JCP!JourneySpec

\* create_correction and reconstruct_vessel_call: the correction approved last governs.
THEOREM DesksFollowCorrections == WorkflowsSpec => []ApprovedCorrectionGoverns
<1>1. JCP!LoadsType
  BY DeskAssumption DEF JCP!LoadsType
<1>2. JCP!JourneySpec => []JCP!ApprovedCorrectionGoverns
  BY <1>1, JCP!CorrectionGoverns
<1>3. JCP!ApprovedCorrectionGoverns => ApprovedCorrectionGoverns
  BY DEF JCP!ApprovedCorrectionGoverns, ApprovedCorrectionGoverns, JC!ApprovedCorrectionGoverns,
         JCP!Cardinality, JC!Cardinality
<1> QED
  BY <1>2, <1>3, JourneyDeskSpec, PTL

\* The identity desk follows IdentityResolution.
LEMMA IdentityDeskSpec == WorkflowsSpec => ID!IdentitySpec
<1>1. [WorkflowsNext]_workflowVars => [ID!IdentityNext]_(ID!identityVars)
  BY DEF WorkflowsNext, Identity, Alerting, Items, Dashboard, Delays, OutlierDesk, JourneyDesk,
         SessionDesk, workflowVars, identityTables, ID!identityVars
<1>2. WorkflowsInit => ID!IdentityInit
  BY DEF WorkflowsInit
<1> QED
  BY <1>1, <1>2, PTL DEF WorkflowsSpec, ID!IdentitySpec

\* The loaded data give every call its attributes.
LEMMA IdentityLoads == LoadsType
<1>1. \A v \in Attributes : v \in Vessel
  BY DEF Attributes, Vessel, ID!ComparableFields, ID!NumericFields, ID!TextFields
<1> QED
  BY <1>1, DeskAssumption DEF LoadsType

\* execute_merge: merges of live calls leave every row with a live call.
THEOREM DesksKeepRowsVisible == WorkflowsSpec => []RowsStayVisible
<1>1. ID!IdentitySpec => []ID!RowsStayVisible
  BY IdentityLoads, RowsVisible
<1> QED
  BY <1>1, IdentityDeskSpec, PTL DEF RowsStayVisible

\* execute_unmerge is the inverse of execute_merge.
THEOREM DesksUndoRestores == WorkflowsSpec => UndoRestores
<1>1. ID!IdentitySpec => ID!UndoRestores
  BY IdentityLoads, UndoIsInverse
<1> QED
  BY <1>1, IdentityDeskSpec, PTL DEF UndoRestores
=============================================================================
