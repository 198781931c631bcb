-------------------------- MODULE Algorithms_proofs --------------------------
(* Proofs about the calculations: for each service the facts its invariant     *)
(* states, for every input, with the invariant of the specification as a       *)
(* consequence.                                                                *)
EXTENDS Algorithms, Statistics_proofs

-----------------------------------------------------------------------------
(* A behaviour picks one input and keeps it.                                   *)

\* What a picked input says it is tells which action picked it.
LEMMA PickedBy ==
  ASSUME AlgorithmsNext
  PROVE  /\ probe'.of = "stages" => PickStages
         /\ probe'.of = "cohort" => PickCohort
         /\ probe'.of = "cargo" => PickCargo
         /\ probe'.of = "summary" => PickSummary
         /\ probe'.of = "occurrences" => PickOccurrences
         /\ probe'.of = "results" => PickResults
         /\ probe'.of = "services" => PickServices
         /\ probe'.of = "sample" => PickSample
         /\ probe'.of = "timings" => PickTimings
         /\ probe'.of = "delays" => PickDelays
         /\ probe'.of = "reason" => PickReason
         /\ probe'.of = "evidence" => PickEvidence
         /\ probe'.of = "outliers" => PickOutlierRows
         /\ probe'.of = "extreme" => PickExtreme
         /\ probe'.of = "high" => PickHigh
         /\ probe'.of = "detected" => PickDetected
         /\ probe'.of = "stored" => PickStored
         /\ probe'.of = "journey" => PickJourney
         /\ probe'.of = "observations" => PickObservations
         /\ probe'.of = "service" => PickQualityService
         /\ probe'.of = "quality" => PickQualityCall
         /\ probe'.of = "sheet" => PickSheet
         /\ probe'.of = "row" => PickRow
         /\ probe'.of = "staged" => PickStaged
         /\ probe'.of = "commit" => PickCommit
         /\ probe'.of = "scope" => PickScope
         /\ probe'.of = "kpi" => PickKpiCalls
         /\ probe'.of = "trend" => PickTrend
         /\ probe'.of = "winner" => PickWinner
<1>1. PickStages => probe'.of = "stages"
  BY DEF PickStages, Pick
<1>2. PickCohort => probe'.of = "cohort"
  BY DEF PickCohort, Pick
<1>3. PickCargo => probe'.of = "cargo"
  BY DEF PickCargo, Pick
<1>4. PickSummary => probe'.of = "summary"
  BY DEF PickSummary, Pick
<1>5. PickOccurrences => probe'.of = "occurrences"
  BY DEF PickOccurrences, Pick
<1>6. PickResults => probe'.of = "results"
  BY DEF PickResults, Pick
<1>7. PickServices => probe'.of = "services"
  BY DEF PickServices, Pick
<1>8. PickSample => probe'.of = "sample"
  BY DEF PickSample, Pick
<1>9. PickTimings => probe'.of = "timings"
  BY DEF PickTimings, Pick
<1>10. PickDelays => probe'.of = "delays"
  BY DEF PickDelays, Pick
<1>11. PickReason => probe'.of = "reason"
  BY DEF PickReason, Pick
<1>12. PickEvidence => probe'.of = "evidence"
  BY DEF PickEvidence, Pick
<1>13. PickOutlierRows => probe'.of = "outliers"
  BY DEF PickOutlierRows, Pick
<1>14. PickExtreme => probe'.of = "extreme"
  BY DEF PickExtreme, Pick
<1>15. PickDetected => probe'.of = "detected"
  BY DEF PickDetected, Pick
<1>16. PickStored => probe'.of = "stored"
  <2> SUFFICES ASSUME PickStored PROVE probe'.of = "stored"
    OBVIOUS
  <2>1. PICK rows : probe' = [of |-> "stored", rows |-> rows]
    BY Zenon DEF PickStored, Pick
  <2> QED
    BY <2>1
<1>17. PickJourney => probe'.of = "journey"
  BY DEF PickJourney, Pick
<1>18. PickObservations => probe'.of = "observations"
  BY DEF PickObservations, Pick
<1>19. PickQualityService => probe'.of = "service"
  BY DEF PickQualityService, Pick
<1>20. PickQualityCall => probe'.of = "quality"
  BY DEF PickQualityCall, Pick
<1>21. PickSheet => probe'.of = "sheet"
  BY DEF PickSheet, Pick
<1>22. PickRow => probe'.of = "row"
  BY DEF PickRow, Pick
<1>23. PickStaged => probe'.of = "staged"
  BY DEF PickStaged, Pick
<1>24. PickCommit => probe'.of = "commit"
  BY DEF PickCommit, Pick
<1>25. PickScope => probe'.of = "scope"
  BY DEF PickScope, Pick
<1>26. PickKpiCalls => probe'.of = "kpi"
  BY DEF PickKpiCalls, Pick
<1>27. PickTrend => probe'.of = "trend"
  BY DEF PickTrend, Pick
<1>28. PickWinner => probe'.of = "winner"
  BY DEF PickWinner, Pick
<1>29. PickHigh => probe'.of = "high"
  BY DEF PickHigh, Pick
<1> QED
  BY <1>1, <1>2, <1>3, <1>4, <1>5, <1>6, <1>7, <1>8, <1>9, <1>10, <1>11, <1>12, <1>13, <1>14, <1>15, <1>16, <1>17, <1>18, <1>19, <1>20, <1>21, <1>22, <1>23, <1>24, <1>25, <1>26, <1>27, <1>28, <1>29 DEF AlgorithmsNext

-----------------------------------------------------------------------------
(* Data scope.                                                                 *)

\* Whatever the scope, the filters and the rows are: the rows shown are of the tenant the request
\* resolves to, what is allowed is shown, what is listed is found, what is created is seen.
THEOREM ScopesAgreeAlways ==
  ASSUME NEW scope, NEW filter, NEW requested, NEW rows
  PROVE  DS!ScopesAgree(scope, filter, requested, rows)
<1>1. DS!resolve_principal_tenant(scope, requested, FALSE) # None =>
         \A r \in DS!Listed(scope, filter, rows) : r.tenant = DS!resolve_principal_tenant(scope, requested, FALSE)
  BY DEF DS!resolve_principal_tenant, DS!Listed, DS!Visible, DS!TenantVisible
<1>2. \A r \in rows : DS!Allows(scope, r) => DS!Visible(scope, r)
  BY DEF DS!Allows, DS!Visible
<1>3. \A r \in DS!Listed(scope, filter, rows) : r \in DS!GetById(scope, r.id, rows)
  BY DEF DS!Listed, DS!GetById
<1>4. DS!Visible(scope, DS!Created(scope))
  BY DEF DS!Visible, DS!TenantVisible, DS!Created, DS!Unbounded
<1> QED
  BY <1>1, <1>2, <1>3, <1>4 DEF DS!ScopesAgree

\* resolve_principal_tenant, ScopedQueryBuilder, VesselCallRepository: in every reachable state the
\* tenant a request acts for and the rows it sees, finds and creates agree.
THEOREM ScopesAgreeOnRowsHolds == AlgorithmsSpec => []ScopesAgreeOnRows
<1>1. AlgorithmsInit => ScopesAgreeOnRows
  BY DEF AlgorithmsInit, ScopesAgreeOnRows
<1>2. ScopesAgreeOnRows /\ [AlgorithmsNext]_probe => ScopesAgreeOnRows'
  BY ScopesAgreeAlways DEF ScopesAgreeOnRows
<1> QED
  BY <1>1, <1>2, PTL DEF AlgorithmsSpec

-----------------------------------------------------------------------------
(* Data quality.                                                               *)

\* For every service, serving early raises nothing, and a complete one in order has no issue.
LEMMA EarlyServiceIsAlwaysValid ==
  ASSUME NEW s, DOMAIN s = {"requested", "scheduled", "served"},
         s = [x \in DOMAIN s |-> s[x]],
         \A f \in {"requested", "scheduled", "served"} : s[f] \in Int \cup {None}
  PROVE  QR!EarlyServiceIsValid(s)
<1>1. ASSUME s.scheduled # None, s.served # None, NEW t \in 0..s.served
      PROVE  QR!ServiceIssues([s EXCEPT !.served = t]) = QR!ServiceIssues(s)
  <2>1. t # None
    BY <1>1, NoneIsNoValue
  <2> QED
    BY <1>1, <2>1 DEF QR!ServiceIssues, QR!Raised
<1>2. ASSUME s.requested # None, s.scheduled # None, s.served # None, s.requested <= s.scheduled
      PROVE  QR!ServiceIssues(s) = {}
  BY <1>2 DEF QR!ServiceIssues, QR!Raised
<1> QED
  BY <1>1, <1>2 DEF QR!EarlyServiceIsValid

\* For every call, a critical issue is the sequence issue of one of its ordered pairs.
LEMMA OnlySequenceIsEverCritical ==
  ASSUME NEW c
  PROVE  QR!OnlySequenceIsCritical(c)
<1> USE DEF QR!Raised, QR!Issue
<1>1. \A i \in QR!ArrivalIssues(c.sheet, c.eta, c.ata) : i.severity # "CRITICAL"
  BY DEF QR!ArrivalIssues
<1>2. \A i \in QR!PilotIssues(c.pilotRequest, c.pilotScheduled) : i.severity # "CRITICAL"
  BY DEF QR!PilotIssues
<1>3. \A i \in QR!SequenceIssues(c.anchorage, c.pilotOnBoard, TRUE) :
         QR!SequenceViolated(c.anchorage, c.pilotOnBoard) /\ i.ref = c.pilotOnBoard[1].id
  BY DEF QR!SequenceIssues
<1>7. \A i \in QR!SequenceIssues(c.pilotOnBoard, c.pilotDisembark, FALSE) :
         QR!SequenceViolated(c.pilotOnBoard, c.pilotDisembark) /\ i.ref = c.pilotDisembark[1].id
  BY DEF QR!SequenceIssues
<1>4. \A s : \A i \in QR!ServiceIssues(s) : i.severity # "CRITICAL"
  BY DEF QR!ServiceIssues
<1>5. \A i \in QR!ReasonIssues(c.services, c.reasons) : i.severity # "CRITICAL"
  BY DEF QR!ReasonIssues
<1> HIDE DEF QR!Raised, QR!Issue
<1>6. ASSUME NEW x \in QR!CallIssues(c), x.severity = "CRITICAL"
      PROVE  \/ x \in QR!SequenceIssues(c.anchorage, c.pilotOnBoard, TRUE)
             \/ x \in QR!SequenceIssues(c.pilotOnBoard, c.pilotDisembark, FALSE)
  <2>1. x \notin UNION {QR!ServiceIssues(c.services[i]) : i \in DOMAIN c.services}
    BY <1>4, <1>6
  <2>2. /\ x \notin QR!ArrivalIssues(c.sheet, c.eta, c.ata)
        /\ x \notin QR!PilotIssues(c.pilotRequest, c.pilotScheduled)
        /\ x \notin QR!ReasonIssues(c.services, c.reasons)
    BY <1>1, <1>2, <1>5, <1>6
  <2> QED
    BY <2>1, <2>2, Zenon DEF QR!CallIssues
<1> QED
  BY <1>3, <1>6, <1>7 DEF QR!OnlySequenceIsCritical

\* _evaluate_services, _evaluate_event_sequences: in every reachable state early services are no
\* error and only a broken order of events quarantines.
THEOREM QualityRulesAreSoundHolds == AlgorithmsSpec => []QualityRulesAreSound
<1>1. AlgorithmsInit => QualityRulesAreSound
  BY DEF AlgorithmsInit, QualityRulesAreSound
<1>2. ASSUME QualityRulesAreSound, AlgorithmsNext PROVE QualityRulesAreSound'
  <2>1. probe'.of = "service" => QR!EarlyServiceIsValid(probe'.service)
    <3> SUFFICES ASSUME PickQualityService PROVE QR!EarlyServiceIsValid(probe'.service)
      BY <1>2, PickedBy
    <3>1. PICK r, s, t \in {None, 1, 2, 3} :
             probe' = [of |-> "service", service |-> [requested |-> r, scheduled |-> s, served |-> t]]
      BY DEF PickQualityService, Pick
    <3> DEFINE x == [requested |-> r, scheduled |-> s, served |-> t]
    <3>2. QR!EarlyServiceIsValid(x)
      BY EarlyServiceIsAlwaysValid
    <3> QED
      BY <3>1, <3>2
  <2>2. QR!OnlySequenceIsCritical(probe'.call)
    BY OnlySequenceIsEverCritical
  <2> QED
    BY <2>1, <2>2 DEF QualityRulesAreSound
<1>3. UNCHANGED probe /\ QualityRulesAreSound => QualityRulesAreSound'
  BY DEF QualityRulesAreSound
<1> QED
  BY <1>1, <1>2, <1>3, PTL DEF AlgorithmsSpec

-----------------------------------------------------------------------------
(* Executive dashboard.                                                        *)

\* The sums and selections the dashboard uses are those of Statistics.
LEMMA EXStatistics ==
  /\ \A S : EX!Cardinality(S) = Cardinality(S)
  /\ \A f : EX!SumFunction(f) = SumFunctionOnSet(f, DOMAIN f)
  /\ \A s : EX!Total(s) = SumFunctionOnSet(s, DOMAIN s)
  /\ \A s, K : EX!Picked(s, K) = Picked(s, K)
<1>1. \A S : EX!Cardinality(S) = Cardinality(S)
  BY DEF EX!Cardinality, Cardinality, EX!IsFiniteSet, IsFiniteSet
<1>2. \A s : EX!SumFunction(s) = SumFunctionOnSet(s, DOMAIN s)
  BY DEF EX!SumFunction, EX!SumFunctionOnSet, SumFunctionOnSet, EX!FoldFunctionOnSet,
         FoldFunctionOnSet, EX!MapThenFoldSet, MapThenFoldSet
<1>3. \A s, K : EX!Picked(s, K) = Picked(s, K)
  BY DEF EX!Picked, Picked, EX!Nth, Nth, EX!Cardinality, Cardinality, EX!IsFiniteSet, IsFiniteSet
<1> QED
  BY <1>1, <1>2, <1>3 DEF EX!Total

\* For every finite set of calls the three qualities are a partition, under each filter.
LEMMA QualitySplitsEveryCohort ==
  ASSUME NEW calls, IsFiniteSet(calls)
  PROVE  EX!QualitySplitsCohort(calls)
<1> DEFINE Q == EX!Quarantined(calls)
           F == EX!Flagged(calls)
           C == EX!Clean(calls)
<1>1. /\ \A x \in C : x \in calls /\ x \notin F /\ x \notin Q
      /\ \A x \in F : x \in calls /\ x \notin Q
      /\ \A x \in Q : x \in calls
      /\ \A x \in calls : x \in C \/ x \in F \/ x \in Q
  BY DEF EX!Quarantined, EX!Flagged, EX!Clean
<1> HIDE DEF Q, F, C
<1>2. ASSUME NEW kept, \A x \in kept : x \in calls
      PROVE  Cardinality(kept) = Cardinality(kept \cap C) + Cardinality(kept \cap F) + Cardinality(kept \cap Q)
  <2>1. IsFiniteSet(kept)
    BY <1>2, FS_Subset
  <2> DEFINE A == kept \cap C
             B == kept \cap F
             D == kept \cap Q
  <2>2. /\ \A x \in A : x \in kept /\ x \notin B /\ x \notin D
        /\ \A x \in B : x \in kept /\ x \notin D
        /\ \A x \in D : x \in kept
        /\ \A x \in kept : x \in A \/ x \in B \/ x \in D
    BY <1>1, <1>2
  <2> HIDE DEF A, B, D
  <2>3. Cardinality(kept) = Cardinality(A) + Cardinality(B) + Cardinality(D)
    <3>1. InThreeParts(kept, A, B, D)
      BY <2>1, <2>2 DEF InThreeParts
    <3> QED
      BY ONLY <3>1, ThreeParts
  <2> QED
    BY <2>3 DEF A, B, D
<1>3. ASSUME NEW s
      PROVE  /\ EX!QualityCounts(calls, s).total = Cardinality(EX!OfQuality(calls, s))
             /\ EX!QualityCounts(calls, s).clean = Cardinality(EX!OfQuality(calls, s) \cap C)
             /\ EX!QualityCounts(calls, s).flagged = Cardinality(EX!OfQuality(calls, s) \cap F)
             /\ EX!QualityCounts(calls, s).quarantined = Cardinality(EX!OfQuality(calls, s) \cap Q)
  BY EXStatistics DEF EX!QualityCounts, Q, F, C
<1>4. ASSUME NEW s \in {"none", "CLEAN", "FLAGGED", "QUARANTINED"}
      PROVE  \A x \in EX!OfQuality(calls, s) : x \in calls
  BY <1>1 DEF EX!OfQuality, Q, F, C
<1>5. ASSUME NEW s \in {"none", "CLEAN", "FLAGGED", "QUARANTINED"}
      PROVE  EX!QualityCounts(calls, s).total
               = EX!QualityCounts(calls, s).clean + EX!QualityCounts(calls, s).flagged + EX!QualityCounts(calls, s).quarantined
  <2> DEFINE kept == EX!OfQuality(calls, s)
  <2> HIDE DEF kept
  <2>1. Cardinality(kept) = Cardinality(kept \cap C) + Cardinality(kept \cap F) + Cardinality(kept \cap Q)
    BY <1>2, <1>4 DEF kept
  <2> QED
    BY <1>3, <2>1 DEF kept
<1>6. EX!OfQuality(calls, "CLEAN") = C /\ EX!OfQuality(calls, "FLAGGED") = F /\ EX!OfQuality(calls, "QUARANTINED") = Q
  BY DEF EX!OfQuality, Q, F, C
<1>7. Cardinality(calls) = Cardinality(C) + Cardinality(F) + Cardinality(Q)
  <2>1. InThreeParts(calls, C, F, Q)
    BY <1>1 DEF InThreeParts
  <2> QED
    BY ONLY <2>1, ThreeParts
<1>8. EX!Cardinality(calls) = EX!QualityCounts(calls, "CLEAN").total + EX!QualityCounts(calls, "FLAGGED").total
                            + EX!QualityCounts(calls, "QUARANTINED").total
  BY <1>3, <1>6, <1>7, EXStatistics
<1> QED
  BY <1>5, <1>8 DEF EX!QualitySplitsCohort

\* For every list of cargo rows, the three units account for every quantity.
LEMMA ThroughputAlwaysAccounts ==
  ASSUME NEW cargo, IsFiniteSet(DOMAIN cargo), \A i \in DOMAIN cargo : cargo[i].quantity \in Int
  PROVE  EX!ThroughputAccounts(cargo)
<1> DEFINE D == DOMAIN cargo
           of(unit) == [i \in D |-> IF EX!ThroughputUnit(cargo[i]) = unit THEN cargo[i].quantity ELSE 0]
           teu == of("TEU")
           mt == of("MT")
           units == of("Units")
           both == [i \in D |-> teu[i] + mt[i]]
           all == [i \in D |-> cargo[i].quantity]
<1>1. \A i \in D : EX!ThroughputUnit(cargo[i]) \in {"TEU", "MT", "Units"}
  BY DEF EX!ThroughputUnit
<1>2. /\ \A i \in D : teu[i] \in Int
      /\ \A i \in D : mt[i] \in Int
      /\ \A i \in D : units[i] \in Int
      /\ \A i \in D : both[i] \in Int
      /\ \A i \in D : both[i] = teu[i] + mt[i]
      /\ \A i \in D : all[i] = both[i] + units[i]
  BY <1>1
<1>3. /\ EX!Throughput(cargo, "TEU") = SumFunctionOnSet(teu, D)
      /\ EX!Throughput(cargo, "MT") = SumFunctionOnSet(mt, D)
      /\ EX!Throughput(cargo, "Units") = SumFunctionOnSet(units, D)
      /\ EX!Total([i \in DOMAIN cargo |-> cargo[i].quantity]) = SumFunctionOnSet(all, D)
  BY EXStatistics DEF EX!Throughput
<1>4. /\ SumFunctionOnSet(both, D) = SumFunctionOnSet(teu, D) + SumFunctionOnSet(mt, D)
      /\ SumFunctionOnSet(all, D) = SumFunctionOnSet(both, D) + SumFunctionOnSet(units, D)
  <2> HIDE DEF teu, mt, units, both, all, D
  <2>0. IsFiniteSet(D)
    BY DEF D
  <2>1. SumFunctionOnSet(both, D) = SumFunctionOnSet(teu, D) + SumFunctionOnSet(mt, D)
    BY <1>2, <2>0, SumAdds
  <2>2. SumFunctionOnSet(all, D) = SumFunctionOnSet(both, D) + SumFunctionOnSet(units, D)
    BY <1>2, <2>0, SumAdds
  <2> QED
    BY <2>1, <2>2
<1>5. \A i \in DOMAIN cargo : cargo[i].unit \in {"TEU", "MT", "Units"} => EX!ThroughputUnit(cargo[i]) = cargo[i].unit
  BY DEF EX!ThroughputUnit
<1> HIDE DEF teu, mt, units, both, all, D
<1> QED
  BY <1>3, <1>4, <1>5 DEF EX!ThroughputAccounts

\* For every list of results and of delays, the counts and the hours add up.
LEMMA SummaryAlwaysAccounts ==
  ASSUME NEW N \in Nat, NEW results, DOMAIN results = 1..N, Len(results) = N,
         \A i \in 1..N : results[i].status \in {"AVAILABLE", "UNAVAILABLE"},
         \A i \in 1..N : results[i].status = "AVAILABLE" => results[i].hours \in Int,
         NEW delays, IsFiniteSet(DOMAIN delays), \A i \in DOMAIN delays : delays[i].hours \in Int
  PROVE  EX!SummaryAccounts(results, delays)
<1> DEFINE K == {i \in 1..N : results[i].status = "AVAILABLE"}
           n == Cardinality(K)
           d == [k \in 1..n |-> results[Nth(K, k)].hours]
           early == {k \in 1..n : d[k] < 0}
           onTime == {k \in 1..n : d[k] = 0}
           late == {k \in 1..n : d[k] > 0}
           missing == {i \in 1..N : results[i].status = "UNAVAILABLE"}
           m == EX!LeadTimeMetric(results)
<1>1. IsFiniteSet(1..N) /\ Cardinality(1..N) = N
  BY FS_Interval
<1>2. /\ IsFiniteSet(K) /\ \A i \in K : i \in Int
      /\ \A x \in K : x \in 1..N /\ x \notin missing
      /\ \A x \in missing : x \in 1..N
      /\ \A x \in 1..N : x \in K \/ x \in missing
  BY <1>1, FS_Subset
<1>3. n \in Nat /\ \A k \in 1..n : Nth(K, k) \in K
  <2> HIDE DEF K
  <2> QED
    BY <1>2, NthFacts
<1>4. \A k \in 1..n : d[k] \in Int
  BY <1>3
<1>5. n = Cardinality(early) + Cardinality(onTime) + Cardinality(late)
  <2>1. IsFiniteSet(1..n) /\ Cardinality(1..n) = n
    BY <1>3, FS_Interval
  <2>2. /\ \A x \in early : x \in 1..n /\ x \notin onTime /\ x \notin late
        /\ \A x \in onTime : x \in 1..n /\ x \notin late
        /\ \A x \in late : x \in 1..n
        /\ \A x \in 1..n : x \in early \/ x \in onTime \/ x \in late
    BY <1>4
  <2> HIDE DEF early, onTime, late, n
  <2> DEFINE S == 1..n
  <2>3. /\ IsFiniteSet(S)
        /\ \A x \in early : x \in S /\ x \notin onTime /\ x \notin late
        /\ \A x \in onTime : x \in S /\ x \notin late
        /\ \A x \in late : x \in S
        /\ \A x \in S : x \in early \/ x \in onTime \/ x \in late
    BY <2>1, <2>2
  <2> HIDE DEF S
  <2>4. Cardinality(S) = Cardinality(early) + Cardinality(onTime) + Cardinality(late)
    <3>1. InThreeParts(S, early, onTime, late)
      BY <2>3 DEF InThreeParts
    <3> QED
      BY ONLY <3>1, ThreeParts
  <2> QED
    BY <2>1, <2>4 DEF S
<1>6. n + Cardinality(missing) = N
  <2> DEFINE S == 1..N
  <2>1. /\ IsFiniteSet(S)
        /\ \A x \in K : x \in S /\ x \notin missing
        /\ \A x \in missing : x \in S
        /\ \A x \in S : x \in K \/ x \in missing
    BY <1>1, <1>2
  <2> HIDE DEF S, K, missing
  <2>2. Cardinality(S) = Cardinality(K) + Cardinality(missing)
    BY <2>1, TwoParts
  <2> QED
    BY <1>1, <2>2 DEF S
<1>7. /\ m.observations = n /\ m.missing = Cardinality(missing)
      /\ m.early = Cardinality(early) /\ m.onTime = Cardinality(onTime) /\ m.delayed = Cardinality(late)
  <2> DEFINE available == EX!Filter(results, LAMBDA r : r.status = "AVAILABLE")
  <2>1. available = Picked(results, K)
    BY EXStatistics DEF EX!Filter
  <2>2. DOMAIN available = 1..n /\ \A k \in 1..n : available[k] = results[Nth(K, k)]
    BY <2>1 DEF Picked
  <2> HIDE DEF available
  <2>3. [i \in DOMAIN available |-> available[i].hours] = d
    BY <2>2
  <2>4. Len(d) = n /\ DOMAIN d = 1..n
    BY <1>3
  <2> HIDE DEF n, d
  <2>5. /\ m.observations = Len(d) /\ m.missing = EX!Count(results, LAMBDA r : r.status = "UNAVAILABLE")
        /\ m.early = EX!Count(d, LAMBDA x : x < 0) /\ m.delayed = EX!Count(d, LAMBDA x : x > 0)
        /\ m.onTime = EX!Count(d, LAMBDA x : x = 0)
    BY <2>3 DEF EX!LeadTimeMetric, available
  <2> QED
    BY <2>4, <2>5, EXStatistics DEF EX!Count
<1>8. /\ m.early + m.onTime + m.delayed = m.observations
      /\ m.observations + m.missing = Len(results)
  <2> HIDE DEF K, n, early, onTime, late, missing, m
  <2> QED
    BY <1>5, <1>6, <1>7
<1>9. EX!SumFunction(EX!DelaySummary(delays).category) = EX!DelaySummary(delays).hours
  <2> DEFINE D == DOMAIN delays
             C == {EX!DelayCategory(delays[i]) : i \in D}
             f == [i \in D |-> delays[i].hours]
             kind == [i \in D |-> EX!DelayCategory(delays[i])]
             in(c) == [i \in D |-> IF EX!DelayCategory(delays[i]) = c THEN delays[i].hours ELSE 0]
             g == [c \in C |-> SumFunctionOnSet(in(c), D)]
  <2>1. IsFiniteSet(D) /\ IsFiniteSet(C) /\ kind \in [D -> C] /\ \A i \in D : f[i] \in Int
    <3>1. kind \in [D -> C] /\ \A c \in C : \E i \in D : kind[i] = c
      OBVIOUS
    <3>2. \A i \in D : f[i] \in Int
      OBVIOUS
    <3>3. IsFiniteSet(D)
      OBVIOUS
    <3> HIDE DEF C, D, kind, f
    <3>4. IsFiniteSet(C)
      BY <3>1, <3>3, ImageIsFinite
    <3> QED
      BY <3>1, <3>2, <3>3, <3>4
  <2>2. \A c \in C : g[c] = SumFunctionOnSet(f, OfKind(D, kind, c))
    <3> SUFFICES ASSUME NEW c \in C PROVE SumFunctionOnSet(in(c), D) = SumFunctionOnSet(f, OfKind(D, kind, c))
      OBVIOUS
    <3> DEFINE T == OfKind(D, kind, c)
               h == in(c)
    <3>1. T \in SUBSET D /\ (\A i \in T : f[i] \in Int) /\ Masks(h, f, D, T)
      BY DEF OfKind, Masks
    <3> HIDE DEF T, h, f, D
    <3>2. SumFunctionOnSet(h, D) = SumFunctionOnSet(f, T)
      BY <2>1, <3>1, SumMasked
    <3> QED
      BY <3>2 DEF T, h
  <2>3. SumFunctionOnSet(g, C) = SumFunctionOnSet(f, D)
    <3> HIDE DEF D, C, f, kind, g
    <3> QED
      BY <2>1, <2>2, SumByKind
  <2>4. EX!DelaySummary(delays).category = g
    BY EXStatistics DEF EX!DelaySummary, EX!DelayHours
  <2>5. EX!DelaySummary(delays).hours = SumFunctionOnSet(f, D)
    BY EXStatistics DEF EX!DelaySummary, EX!DelayHours
  <2>6. EX!SumFunction(g) = SumFunctionOnSet(g, C)
    BY EXStatistics
  <2> HIDE DEF g, f, C, D
  <2> QED
    BY <2>3, <2>4, <2>5, <2>6
<1> QED
  BY <1>8, <1>9 DEF EX!SummaryAccounts

\* executive.py: in every reachable state each call, cargo quantity, service and delay hour of
\* the dashboard is counted exactly once.
THEOREM DashboardAccountsForAllHolds == AlgorithmsSpec => []DashboardAccountsForAll
<1>1. AlgorithmsInit => DashboardAccountsForAll
  BY DEF AlgorithmsInit, DashboardAccountsForAll
<1>2. ASSUME AlgorithmsNext PROVE DashboardAccountsForAll'
  <2>1. ASSUME probe'.of = "cohort" PROVE EX!QualitySplitsCohort(probe'.calls)
    <3>1. PICK a, b : probe' = [of |-> "cohort", calls |-> {a, b}]
      BY <1>2, <2>1, PickedBy DEF PickCohort, Pick
    <3>2. IsFiniteSet({a, b})
      <4>1. IsFiniteSet({a} \cup {b})
        BY FS_Singleton, FS_Union
      <4>2. {a, b} = {a} \cup {b}
        OBVIOUS
      <4> QED
        BY <4>1, <4>2
    <3> QED
      BY <3>1, <3>2, QualitySplitsEveryCohort
  <2>2. ASSUME probe'.of = "cargo" PROVE EX!ThroughputAccounts(probe'.cargo)
    <3>1. PICK c \in UpTo(CargoRow, 2) : probe' = [of |-> "cargo", cargo |-> c]
      BY <1>2, <2>2, PickedBy DEF PickCargo, Pick
    <3>2. PICK k \in 0..2 : c \in [1..k -> CargoRow]
      BY <3>1 DEF UpTo
    <3>3. IsFiniteSet(DOMAIN c)
      BY <3>2, FS_Interval
    <3>4. \A i \in DOMAIN c : c[i].quantity \in Int
      BY <3>2 DEF CargoRow
    <3> QED
      BY <3>1, <3>3, <3>4, ThroughputAlwaysAccounts
  <2>3. ASSUME probe'.of = "summary" PROVE EX!SummaryAccounts(probe'.results, probe'.delays)
    <3>1. PICK r \in UpTo(Result, 2), d \in UpTo(SummaryDelay, 2) : probe' = [of |-> "summary", results |-> r, delays |-> d]
      BY <1>2, <2>3, PickedBy DEF PickSummary, Pick
    <3>2. PICK k \in 0..2 : r \in [1..k -> Result]
      BY <3>1 DEF UpTo
    <3>3. PICK l \in 0..2 : d \in [1..l -> SummaryDelay]
      BY <3>1 DEF UpTo
    <3>4. /\ k \in Nat /\ DOMAIN r = 1..k /\ Len(r) = k
          /\ \A i \in 1..k : r[i].status \in {"AVAILABLE", "UNAVAILABLE"}
          /\ \A i \in 1..k : r[i].status = "AVAILABLE" => r[i].hours \in Int
      BY <3>2 DEF Result
    <3>5. IsFiniteSet(DOMAIN d) /\ \A i \in DOMAIN d : d[i].hours \in Int
      <4>1. DOMAIN d = 1..l /\ \A i \in 1..l : d[i] \in SummaryDelay
        BY ONLY <3>3
      <4>2. \A x \in SummaryDelay : x.hours \in Int
        BY ONLY SMT DEF SummaryDelay
      <4>3. IsFiniteSet(1..l)
        BY FS_Interval
      <4> HIDE DEF SummaryDelay
      <4> QED
        BY ONLY <4>1, <4>2, <4>3
    <3>6. EX!SummaryAccounts(r, d)
      BY <3>4, <3>5, SummaryAlwaysAccounts
    <3> QED
      BY <3>1, <3>6
  <2> QED
    BY <2>1, <2>2, <2>3 DEF DashboardAccountsForAll
<1>3. UNCHANGED probe /\ DashboardAccountsForAll => DashboardAccountsForAll'
  BY DEF DashboardAccountsForAll
<1> QED
  BY <1>1, <1>2, <1>3, PTL DEF AlgorithmsSpec

-----------------------------------------------------------------------------
(* Outliers.                                                                   *)

\* The sums and selections the outlier rules use are those of Statistics.
LEMMA OUStatistics ==
  /\ \A s : OU!Total(s) = SumFunctionOnSet(s, DOMAIN s)
  /\ \A s, K : OU!Picked(s, K) = Picked(s, K)
  /\ \A s : OU!Ordered(s) = Ordered(s)
  /\ \A s : OU!ToSet(s) = ToSet(s)
<1>1. \A s : OU!Total(s) = SumFunctionOnSet(s, DOMAIN s)
  BY DEF OU!Total, OU!SumFunction, OU!SumFunctionOnSet, SumFunctionOnSet, OU!FoldFunctionOnSet,
         FoldFunctionOnSet, OU!MapThenFoldSet, MapThenFoldSet
<1>2. \A s, K : OU!Picked(s, K) = Picked(s, K)
  BY DEF OU!Picked, Picked, OU!Nth, Nth, OU!Cardinality, Cardinality, OU!IsFiniteSet, IsFiniteSet
<1>3. \A s : OU!Ordered(s) = Ordered(s)
  BY DEF OU!Ordered, Ordered, OU!Count, Count, OU!ToSet, ToSet, OU!Cardinality, Cardinality, OU!IsFiniteSet, IsFiniteSet
<1>4. \A s : OU!ToSet(s) = ToSet(s)
  BY DEF OU!ToSet, ToSet
<1> QED
  BY <1>1, <1>2, <1>3, <1>4

\* Every stored row is found under the category it is presented with.
LEMMA AlwaysListedAsPresented ==
  ASSUME NEW rows, None \notin {r.type : r \in rows}
  PROVE  OU!ListedAsPresented(rows)
<1>1. None # "Time-based Outlier"
  BY NoneIsNoValue DEF Texts
<1> QED
  BY <1>1 DEF OU!ListedAsPresented, OU!Listed, OU!PresentedCategory

\* Of any list of records every rule and call keeps exactly one.
LEMMA AlwaysOneRecordPerKey ==
  ASSUME NEW n \in Nat, NEW records, DOMAIN records = 1..n, Len(records) = n
  PROVE  OU!OneRecordPerKey(records)
<1> DEFINE key(i) == <<records[i].rule, records[i].call>>
           Lasts == {i \in 1..n : \A j \in (i + 1)..n : key(j) # key(i)}
<1>1. OU!LastPerKey(records) = {records[i] : i \in Lasts}
  BY DEF OU!LastPerKey
<1>2. ASSUME NEW i \in 1..n PROVE \E j \in Lasts : key(j) = key(i)
  <2> DEFINE K == {j \in 1..n : key(j) = key(i)}
  <2>1. IsFiniteSet(K) /\ K # {} /\ \A j \in K : j \in Int
    <3>1. IsFiniteSet(1..n)
      BY FS_Interval
    <3> QED
      BY <3>1, FS_Subset
  <2>2. PICK m \in K : \A j \in K : j <= m
    <3> HIDE DEF K
    <3> QED
      BY <2>1, GreatestInt
  <2>3. m \in Lasts
    <3> SUFFICES ASSUME NEW j \in (m + 1)..n, key(j) = key(m) PROVE FALSE
      OBVIOUS
    <3>1. j \in K
      OBVIOUS
    <3> QED
      BY <2>2, <3>1
  <2> QED
    BY <2>3
<1>3. ASSUME NEW i \in Lasts, NEW j \in Lasts, key(i) = key(j) PROVE i = j
  BY <1>3
<1>4. ASSUME NEW a \in OU!LastPerKey(records), NEW b \in OU!LastPerKey(records), <<a.rule, a.call>> = <<b.rule, b.call>>
      PROVE  a = b
  <2>1. PICK i \in Lasts : a = records[i]
    BY <1>1
  <2>2. PICK j \in Lasts : b = records[j]
    BY <1>1
  <2> QED
    BY <1>3, <1>4, <2>1, <2>2
<1>5. {<<r.rule, r.call>> : r \in OU!LastPerKey(records)} = {<<records[i].rule, records[i].call>> : i \in DOMAIN records}
  <2>1. ASSUME NEW r \in OU!LastPerKey(records) PROVE \E i \in 1..n : <<r.rule, r.call>> = key(i)
    BY <1>1
  <2>2. ASSUME NEW i \in 1..n PROVE \E r \in OU!LastPerKey(records) : <<r.rule, r.call>> = key(i)
    <3>1. PICK j \in Lasts : key(j) = key(i)
      BY <1>2
    <3>2. records[j] \in OU!LastPerKey(records)
      BY <1>1
    <3> QED
      BY <3>1, <3>2
  <2> DEFINE L == {<<r.rule, r.call>> : r \in OU!LastPerKey(records)}
             R == {<<records[i].rule, records[i].call>> : i \in DOMAIN records}
  <2>3. \A x \in L : x \in R
    BY <2>1
  <2>4. \A x \in R : x \in L
    BY <2>2
  <2> QED
    BY <2>3, <2>4
<1> QED
  BY <1>4, <1>5 DEF OU!OneRecordPerKey

\* A percentile between two order statistics is at least the lower one.
LEMMA QuantileAbove ==
  ASSUME NEW n \in Nat, n > 0, NEW s \in [1..n -> Int], NEW p \in 0..100
  PROVE  LET lo == (p * (n - 1)) \div 100 + 1
         IN  /\ lo \in 1..n
             /\ OU!Quantile100(s, p) \in Int
             /\ OU!Quantile100(s, p) >= 100 * Ordered(s)[lo]
<1> DEFINE pos == p * (n - 1)
           lo == pos \div 100 + 1
           hi == OU!Least(lo + 1, n)
           r == pos % 100
<1>1. pos \in Nat /\ pos <= 100 * (n - 1)
  OBVIOUS
<1>2. lo \in 1..n /\ r \in 0..99
  <2> HIDE DEF pos
  <2> QED
    BY <1>1
<1> HIDE DEF r
<1>3. hi \in 1..n /\ lo <= hi
  <2> HIDE DEF pos
  <2> QED
    BY <1>2 DEF OU!Least
<1> HIDE DEF lo, hi
<1>4. Ordered(s)[lo] \in Int
  BY <1>2, OrderedFacts
<1>5. Ordered(s)[hi] \in Int
  BY <1>3, OrderedFacts
<1>6. Ordered(s)[lo] <= Ordered(s)[hi]
  BY <1>2, <1>3, OrderedAscends
<1>7. OU!Quantile100(s, p) = 100 * Ordered(s)[lo] + r * (Ordered(s)[hi] - Ordered(s)[lo])
  <2>1. Len(s) = n
    OBVIOUS
  <2> QED
    BY <2>1, OUStatistics DEF OU!Quantile100, lo, hi, r
<1> DEFINE d == Ordered(s)[hi] - Ordered(s)[lo]
<1>8. d \in Nat
  BY <1>4, <1>5, <1>6
<1>9. r * d \in Nat
  <2> HIDE DEF d
  <2> QED
    BY <1>2, <1>8
<1> HIDE DEF d
<1>10. OU!Quantile100(s, p) \in Int /\ OU!Quantile100(s, p) >= 100 * Ordered(s)[lo]
  BY <1>4, <1>7, <1>9 DEF d
<1> QED
  BY <1>2, <1>10 DEF lo

\* The positions of a sample of m rows whose values are below that of a row.
LesserRows(elig, m, hit) == {k \in 1..m : elig[k].value < hit.value}

\* For every sample and every percentile from the 90th on, the high rule flags at most one value in
\* ten, each of them above more than that percentage of the others, and is blind to negative values.
THEOREM HighRuleIsAlwaysSelective ==
  ASSUME NEW n \in Nat, NEW rows, rows = [i \in 1..n |-> rows[i]], \A i \in 1..n : rows[i].value \in Int,
         NEW p \in 90..100
  PROVE  OU!HighRuleIsSelective(rows, p)
<1> DEFINE K == {i \in 1..n : rows[i].value >= 0}
           m == Cardinality(K)
           elig == Picked(rows, K)
           v == [k \in 1..m |-> elig[k].value]
           limit == OU!Quantile100(v, p)
           H == {k \in 1..m : 100 * v[k] > limit}
           more == rows \o <<[call |-> 0, value |-> -50]>>
<1>1. IsFiniteSet(K) /\ (\A i \in K : i \in Int) /\ K \in SUBSET (1..n)
  <2>1. IsFiniteSet(1..n) /\ K \in SUBSET (1..n)
    BY FS_Interval
  <2>2. IsFiniteSet(K)
    BY <2>1, FS_Subset
  <2> QED
    BY <2>1, <2>2
<1>2. DOMAIN rows = 1..n
  OBVIOUS
<1>3. m \in Nat /\ \A k \in 1..m : Nth(K, k) \in K
  <2> HIDE DEF K
  <2> QED
    BY <1>1, NthFacts
<1>4. DOMAIN elig = 1..m /\ Len(elig) = m /\ \A k \in 1..m : elig[k] = rows[Nth(K, k)]
  <2> HIDE DEF K
  <2> QED
    BY <1>1, PickedFacts
<1>5. v \in [1..m -> Int]
  <2>1. \A k \in 1..m : elig[k].value \in Int
    BY <1>1, <1>3, <1>4
  <2> QED
    BY <2>1
<1>6. OU!Filter(rows, LAMBDA r : r.value >= 0) = elig
  <2>1. {i \in DOMAIN rows : rows[i].value >= 0} = K
    BY <1>2
  <2> QED
    BY <2>1, OUStatistics DEF OU!Filter
<1>7. {i \in DOMAIN more : more[i].value >= 0} = K /\ Picked(more, K) = elig
  <2>1. rows \in Seq({rows[i] : i \in 1..n}) /\ Len(rows) = n
    BY <1>2
  <2>2. Len(more) = n + 1 /\ DOMAIN more = 1..(n + 1) /\ (\A i \in 1..n : more[i] = rows[i])
        /\ more[n + 1] = [call |-> 0, value |-> -50]
    BY <2>1
  <2> HIDE DEF more
  <2>3. {i \in DOMAIN more : more[i].value >= 0} = K
    BY <2>2
  <2>4. Picked(more, K) = Picked(rows, K)
    <3>1. \A k \in 1..m : more[Nth(K, k)] = rows[Nth(K, k)]
      BY <1>1, <1>3, <2>2
    <3> QED
      BY <3>1 DEF Picked
  <2> QED
    BY <2>3, <2>4
<1>8. OU!Values(elig) = v
  BY <1>4 DEF OU!Values
<1>9. ASSUME NEW some, {i \in DOMAIN some : some[i].value >= 0} = K, Picked(some, K) = elig
      PROVE  OU!HighRule(some, p) = IF elig = <<>> THEN <<>> ELSE Picked(elig, H)
  <2>1. {k \in DOMAIN elig : 100 * elig[k].value > limit} = H
    BY <1>4
  <2> HIDE DEF K, v, elig, more, H
  <2>2. OU!HighRule(some, p) = IF elig = <<>> THEN <<>> ELSE Picked(elig, {k \in DOMAIN elig : 100 * elig[k].value > limit})
    BY <1>8, <1>9, OUStatistics DEF OU!HighRule, OU!Filter
  <2> QED
    BY <2>1, <2>2
<1>10. /\ OU!HighRule(rows, p) = IF elig = <<>> THEN <<>> ELSE Picked(elig, H)
       /\ OU!HighRule(more, p) = IF elig = <<>> THEN <<>> ELSE Picked(elig, H)
  <2>1. {i \in DOMAIN rows : rows[i].value >= 0} = K
    BY <1>2
  <2> HIDE DEF K, H
  <2> QED
    BY <1>7, <1>9, <2>1
<1>11. ASSUME elig # <<>>
       PROVE  /\ Len(Picked(elig, H)) * 10 <= m + 9
              /\ \A i \in DOMAIN Picked(elig, H) : 100 * Cardinality(LesserRows(elig, m, Picked(elig, H)[i])) > p * (m - 1)
  <2>1. m > 0
    <3> SUFFICES ASSUME m = 0 PROVE FALSE
      BY <1>3
    <3>1. elig = <<>>
      <4> HIDE DEF m
      <4>1. elig = [k \in 1..m |-> rows[Nth(K, k)]]
        BY DEF Picked, m
      <4> QED
        BY <4>1
    <3> QED
      BY <1>11, <3>1
  <2> DEFINE lo == (p * (m - 1)) \div 100 + 1
             o == Ordered(v)[lo]
  <2>2. lo \in 1..m /\ limit \in Int /\ limit >= 100 * o
    <3> HIDE DEF m, v
    <3>1. p \in 0..100
      OBVIOUS
    <3> QED
      BY <1>3, <1>5, <2>1, <3>1, QuantileAbove
  <2>3. o \in ToSet(v) /\ o \in Int /\ lo <= Cardinality(NotAbove(v, o))
    <3> HIDE DEF m, v, lo
    <3> QED
      BY <1>3, <1>5, <2>2, OrderedFacts
  <2>4. \A k \in H : k \in 1..m /\ v[k] \in Int /\ v[k] > o
    <3> HIDE DEF limit, v, o, m
    <3> QED
      BY <1>5, <2>2, <2>3
  <2>5. Cardinality(H) \in Nat /\ Cardinality(H) <= m - lo /\ IsFiniteSet(H)
    <3> DEFINE S == 1..m
               A == NotAbove(v, o)
               B == S \ A
    <3>1. IsFiniteSet(S) /\ Cardinality(S) = m
      BY <1>3, FS_Interval
    <3>2. \A k \in H : k \in S /\ k \notin A
      <4> HIDE DEF H, v, o, m
      <4>1. \A k \in A : v[k] <= o
        BY DEF NotAbove
      <4> QED
        BY <2>4, <2>3, <4>1
    <3>3. \A k \in A : k \in S
      BY DEF NotAbove
    <3> HIDE DEF S, A, H, m
    <3>4. Cardinality(S) = Cardinality(A) + Cardinality(B) /\ Cardinality(A) \in Nat /\ Cardinality(B) \in Nat
      <4>1. /\ \A x \in A : x \in S /\ x \notin B
            /\ \A x \in B : x \in S
            /\ \A x \in S : x \in A \/ x \in B
        BY <3>3
      <4> HIDE DEF B
      <4> QED
        BY <3>1, <4>1, TwoParts
    <3>5. IsFiniteSet(B) /\ H \in SUBSET B
      BY <3>1, <3>2, FS_Subset
    <3>6. IsFiniteSet(H) /\ Cardinality(H) \in Nat /\ Cardinality(H) <= Cardinality(B)
      BY <3>5, FS_Subset, FS_CardinalityType
    <3>7. lo <= Cardinality(A)
      BY <2>3 DEF A
    <3>8. m \in Nat /\ lo \in Int
      <4> HIDE DEF lo, v, limit, o, B
      <4>1. m \in Nat
        BY ONLY <1>3
      <4>2. lo \in 1..m
        BY ONLY <2>2
      <4> QED
        BY ONLY <4>1, <4>2
    <3> HIDE DEF B, lo
    <3> QED
      BY <3>1, <3>4, <3>6, <3>7, <3>8
  <2>6. 10 * (m - lo) <= m + 9
    <3> DEFINE e == m - 1
               q == (p * e) \div 100
               l == (90 * e) \div 100
    <3> HIDE DEF m
    <3>1. e \in Nat
      BY <1>3, <2>1
    <3> HIDE DEF e
    <3>2. 90 * e <= p * e /\ p * e \in Nat
      BY <3>1
    <3> DEFINE y == p * e
    <3>3. l <= y \div 100
      <4> HIDE DEF y
      <4>1. y \in Nat /\ 90 * e <= y
        BY <3>2 DEF y
      <4> QED
        BY <3>1, <4>1
    <3>4. 10 * (e - l) <= e + 9 /\ l \in Int
      BY <3>1
    <3>5. q \in Int
      <4> HIDE DEF y
      <4>1. y \in Nat
        BY <3>2 DEF y
      <4>2. y \div 100 \in Int
        BY <4>1
      <4> QED
        BY <4>2 DEF y
    <3>6. l <= q
      BY <3>3
    <3> HIDE DEF q, l
    <3>7. 10 * (e - q) <= e + 9
      BY <3>1, <3>4, <3>5, <3>6
    <3>8. lo = q + 1 /\ m = e + 1
      BY <1>3 DEF e, q
    <3> HIDE DEF lo
    <3> QED
      BY <3>1, <3>5, <3>7, <3>8
  <2>7. Len(Picked(elig, H)) = Cardinality(H) /\ DOMAIN Picked(elig, H) = 1..Cardinality(H)
        /\ \A k \in 1..Cardinality(H) : Picked(elig, H)[k] = elig[Nth(H, k)]
    <3> HIDE DEF H, elig
    <3> QED
      BY <2>5 DEF Picked
  <2>8. Len(Picked(elig, H)) * 10 <= m + 9
    <3> HIDE DEF H, elig, m, lo
    <3> QED
      BY <1>3, <2>2, <2>5, <2>6, <2>7
  <2>9. ASSUME NEW i \in 1..Cardinality(H)
        PROVE  100 * Cardinality(LesserRows(elig, m, elig[Nth(H, i)])) > p * (m - 1)
    <3> DEFINE A == NotAbove(v, o)
               B == LesserRows(elig, m, elig[Nth(H, i)])
    <3>1. Nth(H, i) \in H
      <4> HIDE DEF H, v, o, m
      <4>1. \A k \in H : k \in Int
        BY <2>4
      <4> QED
        BY <2>5, <4>1, NthFacts
    <3>2. v[Nth(H, i)] > o /\ v[Nth(H, i)] = elig[Nth(H, i)].value /\ v[Nth(H, i)] \in Int
      BY <2>4, <3>1
    <3>3. \A k \in A : k \in 1..m /\ v[k] \in Int /\ v[k] = elig[k].value /\ v[k] <= o
      BY <1>5 DEF NotAbove
    <3>4. \A k \in A : k \in B
      <4> HIDE DEF A, o, v, H, elig, m
      <4> QED
        BY <2>3, <3>2, <3>3 DEF LesserRows
    <3>5. B \in SUBSET (1..m) /\ IsFiniteSet(1..m)
      <4> HIDE DEF elig, m, H
      <4>1. IsFiniteSet(1..m)
        BY ONLY <1>3, FS_Interval
      <4> QED
        BY <4>1 DEF LesserRows
    <3>6. lo <= Cardinality(A)
      BY <2>3
    <3> DEFINE x == p * (m - 1)
    <3>7. x \in Nat /\ lo = x \div 100 + 1
      <4> HIDE DEF m
      <4>1. m - 1 \in Nat
        BY ONLY <1>3, <2>1
      <4> QED
        BY <4>1
    <3> HIDE DEF A, B, lo, x, m, H, elig
    <3>8. IsFiniteSet(B)
      BY <3>5, FS_Subset
    <3>9. A \in SUBSET B
      BY <3>4
    <3>10. Cardinality(B) \in Nat /\ Cardinality(A) \in Nat /\ Cardinality(A) <= Cardinality(B)
      BY <3>8, <3>9, FS_Subset, FS_CardinalityType
    <3>11. 100 * lo > x
      BY <3>7
    <3>12. lo \in Int
      BY <3>7
    <3>13. 100 * Cardinality(B) > x
      BY <3>6, <3>7, <3>10, <3>11, <3>12
    <3> QED
      BY <3>13 DEF B, x
  <2> HIDE DEF H, elig, m
  <2> QED
    BY <2>7, <2>8, <2>9
<1>12. \A K1 : OU!Cardinality(K1) = Cardinality(K1)
  BY DEF OU!Cardinality, Cardinality, OU!IsFiniteSet, IsFiniteSet
<1> HIDE DEF H, elig, m, limit, K, v, more
<1>13. /\ Len(OU!HighRule(rows, p)) * 10 <= m + 9
       /\ \A i \in DOMAIN OU!HighRule(rows, p) : 100 * Cardinality(LesserRows(elig, m, OU!HighRule(rows, p)[i])) > p * (m - 1)
  <2>1. CASE elig = <<>>
    <3>1. OU!HighRule(rows, p) = <<>>
      BY <1>10, <2>1
    <3>2. Len(<<>>) = 0 /\ DOMAIN <<>> = {}
      OBVIOUS
    <3>3. Len(OU!HighRule(rows, p)) = 0 /\ DOMAIN OU!HighRule(rows, p) = {}
      BY <3>1, <3>2
    <3>4. 0 * 10 <= m + 9
      BY <1>3
    <3>5. Len(OU!HighRule(rows, p)) * 10 <= m + 9
      BY <3>3, <3>4, Zenon
    <3>6. \A i \in DOMAIN OU!HighRule(rows, p) : 100 * Cardinality(LesserRows(elig, m, OU!HighRule(rows, p)[i])) > p * (m - 1)
      BY <3>3, Zenon
    <3> QED
      BY <3>5, <3>6
  <2>2. CASE elig # <<>>
    <3>1. OU!HighRule(rows, p) = Picked(elig, H)
      BY <1>10, <2>2
    <3> QED
      BY <1>11, <2>2, <3>1
  <2> QED
    BY <2>1, <2>2
<1>14. OU!HighRule(rows \o <<[call |-> 0, value |-> -50]>>, p) = OU!HighRule(rows, p)
  BY <1>10 DEF more
<1> QED
  BY <1>4, <1>6, <1>12, <1>13, <1>14 DEF OU!HighRuleIsSelective, LesserRows

\* One more value adds its squared excess.
LEMMA ExcessGrows ==
  ASSUME NEW a \in Int, NEW b \in Int, NEW Q \in Int, NEW T \in Int, NEW y \in Int, NEW k \in Int
  PROVE  a * a * (Q + y * y) - 2 * (a * b * (T + y)) + (k + 1) * (b * b)
           = (a * a * Q - 2 * (a * b * T) + k * (b * b)) + (a * y - b) * (a * y - b)
  OBVIOUS

\* The squared excesses of a sample over its mean add up to its spread.
LEMMA SquaredExcesses ==
  ASSUME NEW n \in Nat, NEW s \in [1..n -> Int], NEW g,
         \A i \in 1..n : g[i] = (n * s[i] - Total(s)) * (n * s[i] - Total(s))
  PROVE  SumFunctionOnSet(g, 1..n) = n * Spread(s)
<1> DEFINE q == Squares(s)
           b == Total(s)
           T(j) == SumFunctionOnSet(s, 1..j)
           Q(j) == SumFunctionOnSet(q, 1..j)
           G(j) == SumFunctionOnSet(g, 1..j)
           E(j) == n * n * Q(j) - 2 * (n * b * T(j)) + j * (b * b)
           N == {j \in Nat : j <= n => G(j) = E(j) /\ T(j) \in Int /\ Q(j) \in Int}
<1>1. \A i \in 1..n : s[i] \in Int /\ q[i] = s[i] * s[i] /\ q[i] \in Int
  BY DEF Squares
<1>2. b \in Int /\ b = T(n) /\ DOMAIN s = 1..n /\ Len(s) = n
  BY SpreadFacts
<1>3. Spread(s) = n * Q(n) - b * b
  <2>1. [i \in DOMAIN s |-> s[i] * s[i]] = q /\ DOMAIN q = 1..n
    BY DEF Squares
  <2>2. Total(q) = Q(n)
    <3> HIDE DEF q
    <3> QED
      BY <2>1 DEF Total, SumFunction
  <2> HIDE DEF q, b
  <2> QED
    BY <1>2, <2>1, <2>2 DEF Spread, b
<1> HIDE DEF q, b
<1>4. \A i \in 1..n : g[i] = (n * s[i] - b) * (n * s[i] - b) /\ g[i] \in Int
  <2> SUFFICES ASSUME NEW i \in 1..n PROVE g[i] = (n * s[i] - b) * (n * s[i] - b) /\ g[i] \in Int
    OBVIOUS
  <2>1. g[i] = (n * s[i] - b) * (n * s[i] - b)
    BY DEF b
  <2>2. n * s[i] - b \in Int
    BY <1>1, <1>2
  <2> DEFINE d == n * s[i] - b
  <2> HIDE DEF d
  <2>3. d * d \in Int
    BY <2>2 DEF d
  <2> QED
    BY <2>1, <2>3 DEF d
<1>5. 0 \in N
  <2>1. 1..0 = {} /\ SumFunctionOnSet(s, {}) = 0 /\ SumFunctionOnSet(q, {}) = 0 /\ SumFunctionOnSet(g, {}) = 0
    BY FS_EmptySet, SumSplits
  <2>2. T(0) = 0 /\ Q(0) = 0 /\ G(0) = 0
    BY <2>1
  <2>3. b * b \in Int /\ n * b * 0 = 0 /\ n * n * 0 = 0
    BY <1>2
  <2> HIDE DEF T, Q, G
  <2> QED
    BY <2>2, <2>3
<1>6. ASSUME NEW j \in N PROVE j + 1 \in N
  <2> SUFFICES ASSUME j + 1 <= n PROVE G(j + 1) = E(j + 1) /\ T(j + 1) \in Int /\ Q(j + 1) \in Int
    OBVIOUS
  <2>1. j \in Nat /\ j + 1 \in 1..n /\ G(j) = E(j) /\ \A i \in 1..(j + 1) : i \in 1..n
    OBVIOUS
  <2> DEFINE y == s[j + 1]
             t == T(j)
             u == Q(j)
             w == G(j)
             z == (n * y - b) * (n * y - b)
  <2>2. y \in Int /\ q[j + 1] = y * y /\ g[j + 1] = z
    BY <1>1, <1>4, <2>1
  <2>3. T(j + 1) = y + t /\ t \in Int /\ T(j + 1) \in Int
    BY <1>1, <2>1, SumNext
  <2>4. Q(j + 1) = q[j + 1] + u /\ u \in Int /\ Q(j + 1) \in Int
    BY <1>1, <2>1, SumNext
  <2>5. G(j + 1) = g[j + 1] + w /\ w \in Int
    <3> HIDE DEF z
    <3> QED
      BY <1>4, <2>1, SumNext
  <2>6. w = n * n * u - 2 * (n * b * t) + j * (b * b)
    BY <2>1
  <2>7. E(j + 1) = n * n * (u + y * y) - 2 * (n * b * (t + y)) + (j + 1) * (b * b)
    <3>1. y * y \in Int
      BY <2>2
    <3>2. T(j + 1) = t + y /\ Q(j + 1) = u + y * y
      <4> HIDE DEF T, Q, t, u, y
      <4> QED
        BY <2>2, <2>3, <2>4, <3>1
    <3> HIDE DEF T, Q, t, u, y
    <3> QED
      BY <3>2
  <2> HIDE DEF E, T, Q, G, t, u, w, y
  <2>8. E(j + 1) = w + z
    <3>1. n \in Int /\ b \in Int /\ u \in Int /\ t \in Int /\ y \in Int /\ j \in Int
      BY <1>2, <2>1, <2>2, <2>3, <2>4
    <3>2. n * n * (u + y * y) - 2 * (n * b * (t + y)) + (j + 1) * (b * b)
            = (n * n * u - 2 * (n * b * t) + j * (b * b)) + (n * y - b) * (n * y - b)
      BY ONLY <3>1, ExcessGrows
    <3> QED
      BY ONLY <2>6, <2>7, <3>2, Zenon
  <2>9. z \in Int
    <3> DEFINE d == n * y - b
    <3>1. d \in Int
      BY <1>2, <2>2
    <3> HIDE DEF d
    <3>2. d * d \in Int
      BY <3>1
    <3> QED
      BY <3>2 DEF d
  <2> HIDE DEF z
  <2>10. G(j + 1) = E(j + 1)
    BY <2>2, <2>5, <2>8, <2>9
  <2> QED
    BY <2>3, <2>4, <2>10
<1>7. N = Nat
  <2>1. N \subseteq Nat
    OBVIOUS
  <2> HIDE DEF N
  <2> QED
    BY <1>5, <1>6, <2>1, AllNumbers
<1>8. G(n) = E(n) /\ Q(n) \in Int
  BY <1>7
<1> HIDE DEF T, Q, N
<1>9. E(n) = n * (n * Q(n) - b * b)
  <2> DEFINE u == Q(n)
  <2>1. E(n) = n * n * u - 2 * (n * b * b) + n * (b * b)
    BY <1>2
  <2>2. u \in Int /\ b \in Int
    BY <1>2, <1>8
  <2> HIDE DEF E, u
  <2>3. n * n * u - 2 * (n * b * b) + n * (b * b) = n * (n * u - b * b)
    BY ONLY <2>2, n \in Nat
  <2> QED
    BY <2>1, <2>3 DEF u
<1> QED
  BY <1>3, <1>8, <1>9 DEF G

\* A sum over values each of which exceeds a bound.
LEMMA SumExceeds ==
  ASSUME NEW f, NEW S, IsFiniteSet(S), \A x \in S : f[x] \in Int,
         NEW e \in Int, NEW w \in Int, \A x \in S : e * f[x] > w
  PROVE  e * SumFunctionOnSet(f, S) >= Cardinality(S) * (w + 1)
<1> DEFINE F == {s \in SUBSET S : e * SumFunctionOnSet(f, s) >= Cardinality(s) * (w + 1)}
<1>1. ASSUME NEW s \in SUBSET S, \A x \in s : s \ {x} \in F PROVE s \in F
  <2>1. CASE s = {}
    <3>1. SumFunctionOnSet(f, s) = 0
      BY <2>1, SumFacts
    <3>2. Cardinality(s) = 0
      BY <2>1, FS_EmptySet
    <3> QED
      BY <3>1, <3>2
  <2>2. CASE s # {}
    <3>1. PICK x \in s : TRUE
      BY <2>2
    <3> DEFINE t == SumFunctionOnSet(f, s \ {x})
               c == Cardinality(s \ {x})
               y == f[x]
    <3>2. SumFunctionOnSet(f, s) = y + t /\ t \in Int
      BY SumFacts
    <3>3. IsFiniteSet(s) /\ Cardinality(s) \in Nat
      BY FS_Subset, FS_CardinalityType
    <3>4. c = Cardinality(s) - 1
      BY <3>3, FS_RemoveElement
    <3>5. e * t >= c * (w + 1)
      BY <1>1
    <3>6. y \in Int /\ e * y > w
      OBVIOUS
    <3> HIDE DEF t, c, y
    <3>7. e * (y + t) = e * y + e * t /\ (c + 1) * (w + 1) = c * (w + 1) + (w + 1) /\ c \in Int /\ e * y \in Int /\ e * t \in Int
          /\ c * (w + 1) \in Int
      BY <3>2, <3>3, <3>4, <3>6
    <3>8. e * (y + t) >= (c + 1) * (w + 1)
      BY <3>5, <3>6, <3>7
    <3>9. c + 1 = Cardinality(s)
      BY <3>3, <3>4
    <3> QED
      BY <3>2, <3>8, <3>9
  <2> QED
    BY <2>1, <2>2
<1>2. F \subseteq SUBSET S
  OBVIOUS
<1>3. F = SUBSET S
  <2> HIDE DEF F
  <2> QED
    BY <1>1, <1>2, AllSubsets
<1> QED
  BY <1>3

\* For every sample: nine times the values that the 3-SD rule flags are fewer than the other values.
THEOREM ThreeSdAlwaysRare ==
  ASSUME NEW n \in Nat, NEW rows, rows = [i \in 1..n |-> rows[i]], \A i \in 1..n : rows[i].value \in Int
  PROVE  OU!ThreeSdIsRare(rows)
<1> DEFINE v == [i \in 1..n |-> rows[i].value]
           S == 1..n
           e == n - 1
           d(i) == n * v[i] - Total(v)
           g == [i \in S |-> d(i) * d(i)]
           w == 9 * n * Spread(v)
           K == {i \in S : d(i) > 0 /\ e * d(i) * d(i) > w}
<1>1. DOMAIN rows = S /\ Len(rows) = n /\ OU!Values(rows) = v /\ v \in [S -> Int]
  BY DEF OU!Values
<1>2. Total(v) \in Int /\ Spread(v) \in Int /\ Spread(v) >= 0
  BY <1>1, SpreadFacts
<1>3. OU!Total(v) = Total(v) /\ OU!Spread(v) = Spread(v) /\ Len(v) = n
  <2>1. OU!Total(v) = Total(v) /\ OU!Spread(v) = Spread(v)
    <3>1. \A s : OU!Total(s) = Total(s)
      BY OUStatistics DEF Total, SumFunction
    <3> HIDE DEF v
    <3> QED
      BY <3>1 DEF OU!Spread, Spread
  <2> QED
    BY <2>1
<1>4. OU!ThreeSdRule(rows) = IF n < 2 THEN <<>> ELSE Picked(rows, K)
  <2>1. {i \in DOMAIN rows : /\ n * rows[i].value - Total(v) > 0
                             /\ (n - 1) * (n * rows[i].value - Total(v)) * (n * rows[i].value - Total(v)) > 9 * n * Spread(v)} = K
    BY <1>1
  <2> HIDE DEF v, K
  <2> QED
    BY <1>1, <1>3, <2>1, OUStatistics DEF OU!ThreeSdRule, OU!Filter
<1> HIDE DEF v
<1>5. IsFiniteSet(S) /\ K \in SUBSET S
  BY FS_Interval
<1>6. IsFiniteSet(K) /\ Cardinality(K) \in Nat
  <2> HIDE DEF K, S
  <2> QED
    BY <1>5, FS_Subset, FS_CardinalityType
<1>7. \A i \in S : d(i) \in Int /\ g[i] = d(i) * d(i) /\ g[i] \in Int /\ g[i] >= 0
  <2> SUFFICES ASSUME NEW i \in S PROVE d(i) \in Int /\ g[i] = d(i) * d(i) /\ g[i] \in Int /\ g[i] >= 0
    OBVIOUS
  <2>1. d(i) \in Int
    BY <1>1, <1>2
  <2>2. g[i] = d(i) * d(i)
    OBVIOUS
  <2> DEFINE x == d(i)
  <2> HIDE DEF d
  <2>3. x * x \in Int /\ x * x >= 0
    <3> HIDE DEF x
    <3>1. x \in Int
      BY <2>1 DEF x
    <3> QED
      BY <3>1, SquareIsNatural
  <2> HIDE DEF g
  <2> QED
    BY <2>1, <2>2, <2>3
<1>8. SumFunctionOnSet(g, S) = n * Spread(v)
  <2>1. \A i \in 1..n : g[i] = (n * v[i] - Total(v)) * (n * v[i] - Total(v))
    OBVIOUS
  <2> HIDE DEF g
  <2> QED
    BY <1>1, <2>1, SquaredExcesses
<1>9. \A i \in K : i \in S /\ g[i] \in Int /\ e * g[i] > w
  <2> SUFFICES ASSUME NEW i \in K PROVE i \in S /\ g[i] \in Int /\ e * g[i] > w
    OBVIOUS
  <2>1. i \in S /\ e * d(i) * d(i) > w
    OBVIOUS
  <2> DEFINE x == d(i)
  <2>2. x \in Int /\ g[i] = x * x /\ g[i] \in Int
    BY <1>7, <2>1
  <2> HIDE DEF g, K, d
  <2>3. e * x * x > w
    BY <2>1
  <2> HIDE DEF x, w
  <2>4. e * x * x = e * (x * x)
    BY <2>2
  <2> QED
    BY <2>1, <2>2, <2>3, <2>4
<1> HIDE DEF g, K, d
<1>10. SumFunctionOnSet(g, K) \in Int /\ SumFunctionOnSet(g, K) <= n * Spread(v)
  <2> DEFINE gm == [i \in S |-> IF i \in K THEN g[i] ELSE 0]
  <2>1. Masks(gm, g, S, K)
    BY DEF Masks
  <2>2. \A i \in S : gm[i] \in Int /\ gm[i] <= g[i]
    BY <1>7
  <2> HIDE DEF gm, S
  <2>3. SumFunctionOnSet(gm, S) = SumFunctionOnSet(g, K)
    <3>1. \A i \in K : g[i] \in Int
      BY <1>9
    <3> QED
      BY ONLY <1>5, <2>1, <3>1, SumMasked
  <2>4. SumFunctionOnSet(gm, S) <= SumFunctionOnSet(g, S)
    BY <1>5, <1>7, <2>2, SumAtMost
  <2>5. SumFunctionOnSet(g, K) \in Int
    BY <1>6, <1>9, SumSplits
  <2> QED
    BY <1>8, <2>3, <2>4, <2>5
<1>11. w \in Int
  BY <1>2
<1>12. e * SumFunctionOnSet(g, K) >= Cardinality(K) * (w + 1)
  <2>1. e \in Int
    OBVIOUS
  <2> HIDE DEF e, w, S
  <2> QED
    BY <1>6, <1>9, <1>11, <2>1, SumExceeds
<1>13. ASSUME n >= 2, Cardinality(K) > 0 PROVE 9 * Cardinality(K) < e
  <2> DEFINE c == Cardinality(K)
             u == n * Spread(v)
             t == SumFunctionOnSet(g, K)
  <2>1. c \in Nat /\ c > 0 /\ t \in Int /\ t <= u /\ e \in Nat
    BY <1>6, <1>10, <1>13
  <2>2. u \in Int /\ u >= 0
    <3> DEFINE z == Spread(v)
    <3>1. z \in Int /\ z >= 0
      BY <1>2
    <3> HIDE DEF z
    <3>2. n * z \in Int /\ n * z >= 0
      BY <3>1
    <3> QED
      BY <3>2 DEF z
  <2>3. w = 9 * u
    BY <1>2
  <2>4. e * t >= c * (9 * u + 1)
    BY <1>12, <2>3
  <2> HIDE DEF c, u, t, e
  <2>5. e * t <= e * u
    BY <2>1, <2>2
  <2>6. c * (9 * u + 1) = (9 * c) * u + c
    BY <2>1, <2>2
  <2>7. (9 * c) * u + c <= e * u
    <3>1. e * t \in Int /\ e * u \in Int /\ (9 * c) * u \in Int
      BY <2>1, <2>2
    <3> QED
      BY <2>1, <2>4, <2>5, <2>6, <3>1
  <2>8. 9 * c < e
    <3> SUFFICES ASSUME 9 * c >= e PROVE FALSE
      BY <2>1
    <3>1. (9 * c) * u >= e * u
      BY <2>1, <2>2
    <3>2. (9 * c) * u \in Int /\ e * u \in Int
      BY <2>1, <2>2
    <3> QED
      BY <2>1, <2>7, <3>1, <3>2
  <2> QED
    BY <2>8 DEF c
<1>14. Len(Picked(rows, K)) = Cardinality(K) /\ (Cardinality(K) = 0 => Picked(rows, K) = <<>>)
  <2>1. Len(Picked(rows, K)) = Cardinality(K)
    BY <1>6, PickedFacts
  <2>2. Cardinality(K) = 0 => Picked(rows, K) = <<>>
    BY DEF Picked
  <2> QED
    BY <2>1, <2>2
<1>15. ASSUME OU!ThreeSdRule(rows) # <<>> PROVE 9 * Len(OU!ThreeSdRule(rows)) < Len(rows) - 1
  <2>1. n >= 2 /\ OU!ThreeSdRule(rows) = Picked(rows, K)
    BY <1>4, <1>15
  <2>2. Cardinality(K) > 0
    BY <1>6, <1>14, <1>15, <2>1
  <2> QED
    BY <1>1, <1>13, <1>14, <2>1, <2>2
<1> QED
  BY <1>15 DEF OU!ThreeSdIsRare

\* For every size of a sample whose values are equal but one larger one, the 3-SD rule flags that
\* value from eleven values on, and nothing in a smaller sample.
LEMMA ThreeSdAlwaysNeedsEleven ==
  ASSUME NEW n \in Nat, n >= 2, NEW low \in Int, NEW high \in Int, low < high
  PROVE  OU!ThreeSdNeedsEleven(n, low, high)
<1> DEFINE rows == [i \in 1..n |-> [call |-> i, value |-> IF i = n THEN high ELSE low]]
           v == [i \in 1..n |-> IF i = n THEN high ELSE low]
           sq == [i \in 1..n |-> v[i] * v[i]]
           d == high - low
           e == n - 1
<1>1. \A f, c : (\A i \in 1..n : f[i] \in Int) /\ c \in Int /\ (\A i \in 1..e : f[i] = c)
                => SumFunctionOnSet(f, 1..n) = e * c + f[n]
  <2> SUFFICES ASSUME NEW f, NEW c \in Int, \A i \in 1..n : f[i] \in Int, \A i \in 1..e : f[i] = c
               PROVE  SumFunctionOnSet(f, 1..n) = e * c + f[n]
    OBVIOUS
  <2> DEFINE S == 1..n
  <2>1. IsFiniteSet(S) /\ n \in S /\ (\A x \in S : f[x] \in Int) /\ S \ {n} = 1..e /\ e \in Nat
    BY FS_Interval
  <2>2. SumFunctionOnSet(f, 1..e) = e * c
    <3> HIDE DEF e
    <3> QED
      BY <2>1, SumOfEquals
  <2>3. SumFunctionOnSet(f, S) = f[n] + SumFunctionOnSet(f, S \ {n})
    <3> HIDE DEF S
    <3> QED
      BY <2>1, SumSplits
  <2>4. e * c \in Int
    BY <2>1
  <2> HIDE DEF S, e
  <2>5. SumFunctionOnSet(f, S) = f[n] + e * c
    BY <2>1, <2>2, <2>3
  <2>6. f[n] \in Int
    BY <2>1
  <2> QED
    BY <2>4, <2>5, <2>6 DEF S
<1>2. OU!Total(v) = e * low + high
  <2>1. (\A i \in 1..n : v[i] \in Int) /\ (\A i \in 1..e : v[i] = low) /\ v[n] = high /\ DOMAIN v = 1..n
    OBVIOUS
  <2> HIDE DEF v, e
  <2> QED
    BY <1>1, <2>1, OUStatistics
<1>3. OU!Total([i \in DOMAIN v |-> v[i] * v[i]]) = e * (low * low) + high * high
  <2>1. (\A i \in 1..n : v[i] \in Int) /\ (\A i \in 1..e : v[i] = low) /\ v[n] = high /\ DOMAIN v = 1..n
    OBVIOUS
  <2>2. low * low \in Int /\ high * high \in Int
    OBVIOUS
  <2>3. (\A i \in 1..n : sq[i] \in Int) /\ (\A i \in 1..e : sq[i] = low * low) /\ sq[n] = high * high /\ DOMAIN sq = 1..n
    <3> HIDE DEF v
    <3>1. \A i \in 1..e : i \in 1..n
      OBVIOUS
    <3>2. \A x \in Int : x * x \in Int
      OBVIOUS
    <3> HIDE DEF e
    <3> QED
      BY <2>1, <2>2, <3>1, <3>2
  <2>4. sq = [i \in DOMAIN v |-> v[i] * v[i]]
    BY <2>1
  <2> HIDE DEF v, e, sq
  <2>5. SumFunctionOnSet(sq, 1..n) = e * (low * low) + high * high
    BY <1>1, <2>2, <2>3
  <2> QED
    BY <2>3, <2>4, <2>5, OUStatistics
<1>4. Len(v) = n /\ OU!Values(rows) = v
  BY DEF OU!Values
<1>5. OU!Spread(v) = e * (d * d)
  <2>1. OU!Spread(v) = n * (e * (low * low) + high * high) - (e * low + high) * (e * low + high)
    <3> HIDE DEF v, e
    <3> QED
      BY <1>2, <1>3, <1>4 DEF OU!Spread
  <2>2. n = e + 1 /\ e \in Int
    OBVIOUS
  <2> HIDE DEF e
  <2> QED
    BY <2>1, <2>2
<1>6. n * high - OU!Total(v) = e * d
  <2>1. n = e + 1 /\ e \in Int
    OBVIOUS
  <2> HIDE DEF e, v
  <2> QED
    BY <1>2, <2>1
<1>7. n * low - OU!Total(v) < 0
  <2>1. n = e + 1 /\ e \in Int
    OBVIOUS
  <2> HIDE DEF e, v
  <2> QED
    BY <1>2, <2>1
<1>8. (e * (e * d) * (e * d) > 9 * n * (e * (d * d))) <=> n >= 11
  <2>1. d \in Nat /\ d > 0 /\ e \in Nat /\ e > 0 /\ n = e + 1
    OBVIOUS
  <2> DEFINE w == e * (d * d)
  <2>2. w \in Nat /\ w > 0
    <3> HIDE DEF e, d
    <3>1. d * d \in Nat /\ d * d > 0
      BY <2>1
    <3> QED
      BY <2>1, <3>1
  <2>3. e * (e * d) * (e * d) = (e * e) * w /\ 9 * n * (e * (d * d)) = (9 * n) * w
    <3> HIDE DEF e, d
    <3> QED
      BY <2>1
  <2>4. (e * e > 9 * n) <=> n >= 11
    <3>1. CASE n >= 11
      <4>1. e * e >= 10 * e
        <5> HIDE DEF e
        <5>1. e >= 10
          BY <3>1, <2>1
        <5> QED
          BY <2>1, <5>1
      <4> HIDE DEF e
      <4> QED
        BY <2>1, <3>1, <4>1
    <3>2. CASE n < 11
      <4>1. e * e <= 9 * e
        <5> HIDE DEF e
        <5>1. e <= 9
          BY <3>2, <2>1
        <5> QED
          BY <2>1, <5>1
      <4> HIDE DEF e
      <4> QED
        BY <2>1, <3>2, <4>1
    <3> QED
      BY <3>1, <3>2
  <2>5. ((e * e) * w > (9 * n) * w) <=> (e * e > 9 * n)
    <3> DEFINE x == e * e
               y == 9 * n
    <3>1. x \in Int /\ y \in Int
      <4> HIDE DEF e
      <4> QED
        BY <2>1
    <3> HIDE DEF x, y, w
    <3>2. (x * w > y * w) <=> (x > y)
      BY <2>2, <3>1
    <3> QED
      BY <3>2 DEF x, y
  <2> HIDE DEF e, d, w
  <2> QED
    BY <2>3, <2>4, <2>5
<1> DEFINE excess(x) == n * x - OU!Total(v)
           K == {i \in 1..n : excess(rows[i].value) > 0
                                /\ (n - 1) * excess(rows[i].value) * excess(rows[i].value) > 9 * n * OU!Spread(v)}
<1>9. OU!ThreeSdRule(rows) = Picked(rows, K)
  <2>1. DOMAIN rows = 1..n /\ ~(n < 2)
    OBVIOUS
  <2> HIDE DEF v, rows
  <2> QED
    BY <1>4, <2>1, OUStatistics DEF OU!ThreeSdRule, OU!Filter
<1>10. \A i \in 1..n : i # n => ~(excess(rows[i].value) > 0)
  <2>1. \A i \in 1..n : i # n => rows[i].value = low
    OBVIOUS
  <2>2. n * low - OU!Total(v) \in Int
    BY <1>2
  <2> HIDE DEF rows, v
  <2>3. ~(excess(low) > 0)
    BY <1>7, <2>2
  <2> HIDE DEF excess
  <2> QED
    BY <2>1, <2>3
<1>11. n \in K <=> n >= 11
  <2>1. rows[n].value = high
    OBVIOUS
  <2>2. e * d > 0
    <3>1. d \in Nat /\ d > 0 /\ e \in Nat /\ e > 0
      OBVIOUS
    <3> HIDE DEF d, e
    <3> QED
      BY <3>1
  <2>3. excess(rows[n].value) = e * d
    BY <1>6, <2>1
  <2>4. n \in 1..n
    OBVIOUS
  <2> HIDE DEF excess, v, rows
  <2>5. n \in K <=> e * (e * d) * (e * d) > 9 * n * (e * (d * d))
    <3>1. n - 1 = e
      OBVIOUS
    <3> HIDE DEF e, d
    <3> QED
      BY <1>5, <2>2, <2>3, <2>4, <3>1
  <2> HIDE DEF K, e, d
  <2> QED
    BY <1>8, <2>5
<1>12. \A i \in K : i = n
  <2> HIDE DEF rows, excess
  <2> QED
    BY <1>10
<1>13. IsFiniteSet(K)
  <2>1. IsFiniteSet(1..n) /\ K \in SUBSET (1..n)
    BY FS_Interval
  <2> HIDE DEF K
  <2> QED
    BY <2>1, FS_Subset
<1>14. (Picked(rows, K) # <<>>) <=> n \in K
  <2> HIDE DEF K, rows
  <2>1. Len(Picked(rows, K)) = Cardinality(K) /\ Cardinality(K) \in Nat
    BY <1>13, PickedFacts, FS_CardinalityType
  <2>2. Cardinality(K) = 0 <=> K = {}
    BY <1>13, FS_EmptySet
  <2>3. K = {} => Picked(rows, K) = <<>>
    <3>1. Cardinality({}) = 0
      BY FS_EmptySet
    <3> QED
      BY <3>1 DEF Picked
  <2>4. Len(<<>>) = 0
    OBVIOUS
  <2> QED
    BY <1>12, <2>1, <2>2, <2>3, <2>4
<1> HIDE DEF K
<1> QED
  BY <1>9, <1>11, <1>14 DEF OU!ThreeSdNeedsEleven

\* engine.py of the outliers: in every reachable state each rule flags a bounded share of its
\* population and nothing below the rest of it, and a flagged call keeps one record per rule and is
\* found under its category.
THEOREM OutlierRulesAreSelectiveHolds == AlgorithmsSpec => []OutlierRulesAreSelective
<1>1. AlgorithmsInit => OutlierRulesAreSelective
  BY DEF AlgorithmsInit, OutlierRulesAreSelective
<1>2. ASSUME AlgorithmsNext PROVE OutlierRulesAreSelective'
  <2>1. ASSUME probe'.of = "outliers" PROVE OU!HighRuleIsSelective(probe'.rows, probe'.percentile)
    <3>1. PICK d \in Samples, p \in {90, 95} :
             probe' = [of |-> "outliers", rows |-> [i \in DOMAIN d |-> [call |-> i, value |-> d[i]]], percentile |-> p]
      BY <1>2, <2>1, PickedBy DEF PickOutlierRows, Pick
    <3>2. PICK n \in 1..MaxSample : d \in [1..n -> SampleHours]
      BY <3>1 DEF Samples
    <3> DEFINE rows == [i \in DOMAIN d |-> [call |-> i, value |-> d[i]]]
    <3>3. n \in Nat /\ p \in 90..100
      BY <3>1, <3>2, SampleType
    <3>4. rows = [i \in 1..n |-> rows[i]] /\ \A i \in 1..n : rows[i].value \in Int
      <4>1. DOMAIN d = 1..n /\ \A i \in 1..n : d[i] \in Int
        <5>1. DOMAIN d = 1..n /\ \A i \in 1..n : d[i] \in SampleHours
          BY ONLY <3>2
        <5>2. \A x \in SampleHours : x \in Int
          BY ONLY SampleType
        <5> QED
          BY ONLY <5>1, <5>2
      <4>2. rows = [i \in 1..n |-> rows[i]]
        BY <4>1
      <4>3. \A i \in 1..n : rows[i].value = d[i]
        BY <4>1
      <4> HIDE DEF rows
      <4> QED
        BY <4>1, <4>2, <4>3
    <3> HIDE DEF rows
    <3>5. OU!HighRuleIsSelective(rows, p)
      BY <3>3, <3>4, HighRuleIsAlwaysSelective
    <3> QED
      BY <3>1, <3>5 DEF rows
  <2>2. ASSUME probe'.of = "extreme" PROVE OU!ThreeSdNeedsEleven(probe'.n, probe'.low, probe'.high)
    <3>1. PICK n \in 2..22, low \in {0, 1}, high \in {5, 9} : probe' = [of |-> "extreme", n |-> n, low |-> low, high |-> high]
      BY <1>2, <2>2, PickedBy DEF PickExtreme, Pick
    <3>2. n \in Nat /\ n >= 2 /\ low \in Int /\ high \in Int /\ low < high
      BY <3>1
    <3>3. OU!ThreeSdNeedsEleven(n, low, high)
      BY <3>2, ThreeSdAlwaysNeedsEleven
    <3> QED
      BY <3>1, <3>3
  <2>3. ASSUME probe'.of = "detected" PROVE OU!OneRecordPerKey(probe'.records)
    <3> DEFINE Rec == [rule : {"a", "b"}, call : {1, 2}, severity : {"HIGH", "CRITICAL"}]
    <3>1. PICK r \in UpTo(Rec, 3) : probe' = [of |-> "detected", records |-> r]
      BY <1>2, <2>3, PickedBy DEF PickDetected, Pick
    <3>2. PICK k \in 0..3 : r \in [1..k -> Rec]
      BY <3>1 DEF UpTo
    <3>3. k \in Nat /\ DOMAIN r = 1..k /\ Len(r) = k
      BY <3>2
    <3>4. OU!OneRecordPerKey(r)
      BY <3>3, AlwaysOneRecordPerKey
    <3> QED
      BY <3>1, <3>4
  <2>4. ASSUME probe'.of = "stored" PROVE OU!ListedAsPresented(probe'.rows)
    <3> DEFINE Row == [type : {"OPERATIONAL_OUTLIER", "Time-based Outlier"}, metric : {"Turnaround", "Berth"}, rule : {None, "r"}]
    <3>1. PICK rows \in SUBSET Row : probe' = [of |-> "stored", rows |-> rows]
      BY <1>2, <2>4, PickedBy, Zenon DEF PickStored, Pick
    <3>2. \A r \in rows : r.type \in {"OPERATIONAL_OUTLIER", "Time-based Outlier"}
      BY <3>1
    <3>3. None \notin {r.type : r \in rows}
      BY <3>2, NoneIsNoValue DEF Texts
    <3>4. OU!ListedAsPresented(rows)
      BY <3>3, AlwaysListedAsPresented
    <3> QED
      BY <3>1, <3>4
  <2>5. ASSUME probe'.of = "high" PROVE OU!ThreeSdIsRare(probe'.rows)
    <3>1. PICK n \in 2..22, h \in 1..3, high \in {5, 9} :
             probe' = [of |-> "high", rows |-> [i \in 1..n |-> [call |-> i, value |-> IF i > n - h THEN high ELSE i % 2]]]
      BY <1>2, <2>5, PickedBy DEF PickHigh, Pick
    <3> DEFINE rows == [i \in 1..n |-> [call |-> i, value |-> IF i > n - h THEN high ELSE i % 2]]
    <3>2. n \in Nat /\ rows = [i \in 1..n |-> rows[i]] /\ \A i \in 1..n : rows[i].value \in Int
      BY <3>1
    <3> HIDE DEF rows
    <3>3. OU!ThreeSdIsRare(rows)
      BY <3>2, ThreeSdAlwaysRare
    <3> QED
      BY <3>1, <3>3 DEF rows
  <2> QED
    BY <2>1, <2>2, <2>3, <2>4, <2>5 DEF OutlierRulesAreSelective
<1>3. UNCHANGED probe /\ OutlierRulesAreSelective => OutlierRulesAreSelective'
  BY DEF OutlierRulesAreSelective
<1> QED
  BY <1>1, <1>2, <1>3, PTL DEF AlgorithmsSpec

-----------------------------------------------------------------------------
(* Journey.                                                                    *)

\* The sums and selections the journey uses are those of Statistics.
LEMMA JOStatistics ==
  /\ \A s : JO!Total(s) = SumFunctionOnSet(s, DOMAIN s)
  /\ \A s, K : JO!Picked(s, K) = Picked(s, K)
  /\ \A S : JO!SetToSeq(S) = Enumeration(S)
  /\ \A S : JO!Max(S) = Greatest(S)
<1>1. \A s : JO!Total(s) = SumFunctionOnSet(s, DOMAIN s)
  BY DEF JO!Total, JO!SumFunction, JO!SumFunctionOnSet, SumFunctionOnSet, JO!FoldFunctionOnSet,
         FoldFunctionOnSet, JO!MapThenFoldSet, MapThenFoldSet
<1>2. \A s, K : JO!Picked(s, K) = Picked(s, K)
  BY DEF JO!Picked, Picked, JO!Nth, Nth, JO!Cardinality, Cardinality, JO!IsFiniteSet, IsFiniteSet
<1>3. \A S : JO!SetToSeq(S) = Enumeration(S)
  BY DEF JO!SetToSeq, Enumeration, JO!IsInjective, IsInjective, JO!Cardinality, Cardinality, JO!IsFiniteSet, IsFiniteSet
<1>4. \A S : JO!Max(S) = Greatest(S)
  BY DEF JO!Max, Greatest
<1> QED
  BY <1>1, <1>2, <1>3, <1>4

\* A stage that has hours has the instants they are counted between.
Measured(x) == x.hours # None => x.start \in Int /\ x.end \in Int /\ x.hours = x.end - x.start

Chained(n, s, h, w) ==
  /\ \A i \in 1..n : s[i].start \in Int /\ s[i].end \in Int /\ h[i] = s[i].end - s[i].start
  /\ \A i \in 1..(n - 1) : w[i] = s[i + 1].start - s[i].end

\* The hours of stages and the waits between them telescope.
LEMMA Telescope ==
  ASSUME NEW n \in Nat, NEW s, NEW h, NEW w, Chained(n, s, h, w)
  PROVE  \A m \in 1..n : SumFunctionOnSet(h, 1..m) + SumFunctionOnSet(w, 1..(m - 1)) = s[m].end - s[1].start
<1> DEFINE P(m) == m + 1 <= n => SumFunctionOnSet(h, 1..(m + 1)) + SumFunctionOnSet(w, 1..m) = s[m + 1].end - s[1].start
           N == {m \in Nat : P(m)}
<1> USE DEF Chained
<1>1. 0 \in N
  <2> SUFFICES ASSUME 1 <= n PROVE SumFunctionOnSet(h, 1..1) + SumFunctionOnSet(w, 1..0) = s[1].end - s[1].start
    OBVIOUS
  <2>1. \A i \in 1..(0 + 1) : h[i] \in Int
    OBVIOUS
  <2>2. SumFunctionOnSet(h, 1..(0 + 1)) = h[0 + 1] + SumFunctionOnSet(h, 1..0)
    BY <2>1, SumNext
  <2>3. 1..0 = {} /\ 0 + 1 = 1
    OBVIOUS
  <2>4. SumFunctionOnSet(h, {}) = 0
    BY FS_EmptySet, SumSplits
  <2>5. SumFunctionOnSet(w, {}) = 0
    BY FS_EmptySet, SumSplits
  <2>6. SumFunctionOnSet(h, 1..1) = h[1] + 0 /\ SumFunctionOnSet(w, 1..0) = 0
    BY <2>2, <2>3, <2>4, <2>5
  <2>7. h[1] \in Int /\ h[1] = s[1].end - s[1].start
    OBVIOUS
  <2> QED
    BY <2>6, <2>7
<1>2. ASSUME NEW m \in N PROVE m + 1 \in N
  <2> SUFFICES ASSUME m + 1 + 1 <= n
               PROVE  SumFunctionOnSet(h, 1..(m + 1 + 1)) + SumFunctionOnSet(w, 1..(m + 1)) = s[m + 1 + 1].end - s[1].start
    OBVIOUS
  <2> HIDE DEF N
  <2>0. m \in Nat /\ P(m)
    BY DEF N
  <2>1. (\A i \in 1..(m + 1 + 1) : h[i] \in Int) /\ (\A i \in 1..(m + 1) : w[i] \in Int)
    <3>1. \A i \in 1..(m + 1 + 1) : i \in 1..n
      BY <2>0
    <3>2. \A i \in 1..(m + 1) : i \in 1..(n - 1) /\ i \in 1..n /\ i + 1 \in 1..n
      BY <2>0
    <3>3. \A i \in 1..n : h[i] \in Int
      OBVIOUS
    <3> QED
      BY <3>1, <3>2, <3>3
  <2>2. /\ SumFunctionOnSet(h, 1..(m + 1 + 1)) = h[m + 1 + 1] + SumFunctionOnSet(h, 1..(m + 1))
        /\ SumFunctionOnSet(h, 1..(m + 1)) \in Int
    <3> DEFINE k == m + 1
    <3>1. k \in Nat /\ \A i \in 1..(k + 1) : h[i] \in Int
      BY <2>0, <2>1
    <3> HIDE DEF k
    <3>2. /\ SumFunctionOnSet(h, 1..(k + 1)) = h[k + 1] + SumFunctionOnSet(h, 1..k)
          /\ SumFunctionOnSet(h, 1..k) \in Int
      BY <3>1, SumNext
    <3> QED
      BY <3>2 DEF k
  <2>3. /\ SumFunctionOnSet(w, 1..(m + 1)) = w[m + 1] + SumFunctionOnSet(w, 1..m)
        /\ SumFunctionOnSet(w, 1..m) \in Int
    BY <2>0, <2>1, SumNext
  <2>4. SumFunctionOnSet(h, 1..(m + 1)) + SumFunctionOnSet(w, 1..m) = s[m + 1].end - s[1].start
    BY <2>0
  <2>5. /\ h[m + 1 + 1] = s[m + 1 + 1].end - s[m + 1 + 1].start
        /\ w[m + 1] = s[m + 1 + 1].start - s[m + 1].end
        /\ s[m + 1 + 1].end \in Int /\ s[m + 1 + 1].start \in Int /\ s[m + 1].end \in Int /\ s[1].start \in Int
    <3>1. m + 1 + 1 \in 1..n /\ m + 1 \in 1..n /\ 1 \in 1..n /\ m + 1 \in 1..(n - 1)
      BY <2>0
    <3> QED
      BY <3>1
  <2> DEFINE H == SumFunctionOnSet(h, 1..(m + 1))
             W == SumFunctionOnSet(w, 1..m)
  <2>6. H \in Int /\ W \in Int /\ H + W = s[m + 1].end - s[1].start
    BY <2>2, <2>3, <2>4
  <2>7. SumFunctionOnSet(h, 1..(m + 1 + 1)) + SumFunctionOnSet(w, 1..(m + 1)) = (h[m + 1 + 1] + H) + (w[m + 1] + W)
    BY <2>2, <2>3
  <2> HIDE DEF H, W
  <2>8. (h[m + 1 + 1] + H) + (w[m + 1] + W) = s[m + 1 + 1].end - s[1].start
    BY <2>5, <2>6
  <2> QED
    BY <2>7, <2>8
<1>3. N = Nat
  <2>1. N \subseteq Nat
    OBVIOUS
  <2> HIDE DEF N
  <2> QED
    BY <1>1, <1>2, <2>1, AllNumbers
<1> SUFFICES ASSUME NEW m \in 1..n
             PROVE  SumFunctionOnSet(h, 1..m) + SumFunctionOnSet(w, 1..(m - 1)) = s[m].end - s[1].start
  OBVIOUS
<1>4. m - 1 \in Nat /\ m - 1 + 1 = m
  OBVIOUS
<1>5. P(m - 1)
  BY <1>3, <1>4
<1> QED
  BY <1>4, <1>5

\* For every path without a missing stage, handovers and stages cover it exactly.
LEMMA HandoversCover ==
  ASSUME NEW n \in Nat, n > 0, NEW main, DOMAIN main = 1..n, Len(main) = n, \A i \in 1..n : Measured(main[i]),
         \A i \in 1..n : main[i].hours # None
  PROVE  JO!Total([i \in DOMAIN main |-> main[i].hours])
         + JO!Total([i \in 1..(Len(main) - 1) |-> JO!Handovers(main)[i].wait]) = main[Len(main)].end - main[1].start
<1> DEFINE h == [i \in DOMAIN main |-> main[i].hours]
           w == [i \in 1..(Len(main) - 1) |-> JO!Handovers(main)[i].wait]
<1>1. n \in 1..n
  OBVIOUS
<1>2. \A i \in 1..n : main[i].start \in Int /\ main[i].end \in Int /\ h[i] = main[i].end - main[i].start
  BY DEF Measured
<1>3. \A i \in 1..(n - 1) : w[i] = main[i + 1].start - main[i].end
  <2> SUFFICES ASSUME NEW i \in 1..(n - 1) PROVE JO!Handovers(main)[i].wait = main[i + 1].start - main[i].end
    OBVIOUS
  <2>1. main[i].hours # None /\ main[i + 1].hours # None
    OBVIOUS
  <2> QED
    BY <2>1 DEF JO!Handovers
<1>4. JO!Total(h) = SumFunctionOnSet(h, 1..n) /\ JO!Total(w) = SumFunctionOnSet(w, 1..(n - 1))
  BY JOStatistics
<1> HIDE DEF h, w
<1>5. Chained(n, main, h, w)
  BY <1>2, <1>3 DEF Chained
<1>6. SumFunctionOnSet(h, 1..n) + SumFunctionOnSet(w, 1..(n - 1)) = main[n].end - main[1].start
  BY <1>1, <1>5, Telescope
<1> QED
  BY <1>4, <1>6 DEF h, w

\* The hours of the main stages and the waits between them add up to the time from the first
\* start to the last end.
THEOREM HandoversAlwaysTelescope ==
  ASSUME NEW n \in Nat, NEW main, DOMAIN main = 1..n, Len(main) = n, \A i \in 1..n : Measured(main[i])
  PROVE  JO!HandoversTelescope(main)
<1> SUFFICES ASSUME main # <<>>, \A i \in 1..n : main[i].hours # None
             PROVE  JO!Total([i \in DOMAIN main |-> main[i].hours])
                    + JO!Total([i \in 1..(Len(main) - 1) |-> JO!Handovers(main)[i].wait]) = main[Len(main)].end - main[1].start
  BY DEF JO!HandoversTelescope
<1>1. n # 0
  OBVIOUS
<1> QED
  BY <1>1, HandoversCover

\* Of any stages, the ones the narrative gives no hours for are those it calls unavailable.
LEMMA NarrativeNeverInvents ==
  ASSUME NEW stages, \A i \in DOMAIN stages : stages[i].status = "MISSING" <=> stages[i].hours = None
  PROVE  JO!NarrativeInventsNothing(stages)
BY DEF JO!NarrativeInventsNothing, JO!Narrative

\* The choice between two observations.
LEMMA OutranksFacts ==
  ASSUME NEW a, NEW b, a.verification \in Int, a.confidence \in Int, a.source \in Int, a.created \in Int,
         b.verification \in Int, b.confidence \in Int, b.source \in Int, b.created \in Int
  PROVE  /\ JO!Outranks(a, a)
         /\ JO!Outranks(a, b) \/ JO!Outranks(b, a)
         /\ JO!Outranks(a, b) => /\ a.verification <= b.verification
                                 /\ a.verification = b.verification => a.confidence >= b.confidence
<1> DEFINE ka == <<a.verification, 100 - a.confidence, a.source, a.created>>
           kb == <<b.verification, 100 - b.confidence, b.source, b.created>>
           D == {i \in 1..4 : ka[i] # kb[i]}
           E == {i \in 1..4 : kb[i] # ka[i]}
<1>1. \A i \in 1..4 : ka[i] \in Int /\ kb[i] \in Int
  OBVIOUS
<1>2. /\ ka[1] = a.verification /\ ka[2] = 100 - a.confidence
      /\ kb[1] = b.verification /\ kb[2] = 100 - b.confidence
  OBVIOUS
<1>3. /\ JO!Outranks(a, b) <=> D = {} \/ ka[JO!Min(D)] < kb[JO!Min(D)]
      /\ JO!Outranks(b, a) <=> E = {} \/ kb[JO!Min(E)] < ka[JO!Min(E)]
  BY DEF JO!Outranks
<1>4. E = D
  OBVIOUS
<1>5. D # {} => JO!Min(D) \in D /\ \A i \in D : JO!Min(D) <= i
  <2> SUFFICES ASSUME D # {} PROVE JO!Min(D) \in D /\ \A i \in D : JO!Min(D) <= i
    OBVIOUS
  <2>1. D \subseteq Nat
    OBVIOUS
  <2> HIDE DEF D
  <2>2. \E m \in D : \A i \in D : m <= i
    BY <2>1, LeastNumber
  <2> QED
    BY <2>2 DEF JO!Min
<1>6. \A i \in 1..4 : i \in D <=> ka[i] # kb[i]
  OBVIOUS
<1>7. JO!Outranks(a, a)
  BY DEF JO!Outranks
<1>8. \A i \in D : i \in 1..4
  OBVIOUS
<1> HIDE DEF D, E, ka, kb
<1>9. JO!Outranks(a, b) \/ JO!Outranks(b, a)
  <2>1. CASE D = {}
    BY <1>3, <2>1
  <2>2. CASE D # {}
    <3> DEFINE m == JO!Min(D)
    <3>1. m \in D /\ m \in 1..4 /\ m \in 1..4
      BY <1>5, <1>8, <2>2
    <3> HIDE DEF m
    <3>2. ka[m] \in Int /\ kb[m] \in Int /\ ka[m] # kb[m]
      BY <1>1, <1>6, <3>1
    <3>3. ka[m] < kb[m] \/ kb[m] < ka[m]
      BY <3>2
    <3> QED
      BY <1>3, <1>4, <3>3 DEF m
  <2> QED
    BY <2>1, <2>2
<1>10. ASSUME JO!Outranks(a, b) PROVE ka[1] <= kb[1] /\ (ka[1] = kb[1] => ka[2] <= kb[2])
  <2>1. CASE 1 \in D
    <3>1. JO!Min(D) = 1
      <4>1. JO!Min(D) \in D /\ JO!Min(D) <= 1
        BY <1>5, <2>1
      <4> QED
        BY <1>8, <4>1
    <3> QED
      BY <1>1, <1>3, <1>6, <1>10, <2>1, <3>1
  <2>2. CASE 1 \notin D /\ 2 \in D
    <3>1. JO!Min(D) = 2
      <4>1. JO!Min(D) \in D /\ JO!Min(D) <= 2 /\ JO!Min(D) # 1
        BY <1>5, <2>2
      <4> QED
        BY <1>8, <4>1
    <3> QED
      BY <1>1, <1>3, <1>6, <1>10, <2>2, <3>1
  <2>3. CASE 1 \notin D /\ 2 \notin D
    BY <1>1, <1>6, <2>3
  <2> QED
    BY <2>1, <2>2, <2>3
<1>11. JO!Outranks(a, b) => /\ a.verification <= b.verification
                            /\ a.verification = b.verification => a.confidence >= b.confidence
  <2> SUFFICES ASSUME JO!Outranks(a, b)
               PROVE  /\ a.verification <= b.verification
                      /\ a.verification = b.verification => a.confidence >= b.confidence
    OBVIOUS
  <2>1. a.verification <= b.verification /\ (a.verification = b.verification => 100 - a.confidence <= 100 - b.confidence)
    BY <1>2, <1>10
  <2> QED
    BY <2>1
<1> QED
  BY <1>7, <1>9, <1>11

\* The time categories are finitely many, and a delay is one of them.
LEMMA CategoriesAreFinite == IsFiniteSet(JO!TIME_CATEGORIES) /\ "DELAY" \in JO!TIME_CATEGORIES
<1>1. IsFiniteSet({"ACTIVE_SERVICE"}) /\ IsFiniteSet({"PASSIVE_WAIT"}) /\ IsFiniteSet({"HOLD"})
      /\ IsFiniteSet({"DELAY"}) /\ IsFiniteSet({"UNCLASSIFIED"})
  BY FS_Singleton
<1>2. IsFiniteSet({"ACTIVE_SERVICE"} \cup {"PASSIVE_WAIT"})
  BY <1>1, FS_Union
<1>3. IsFiniteSet(({"ACTIVE_SERVICE"} \cup {"PASSIVE_WAIT"}) \cup {"HOLD"})
  BY <1>1, <1>2, FS_Union
<1>4. IsFiniteSet((({"ACTIVE_SERVICE"} \cup {"PASSIVE_WAIT"}) \cup {"HOLD"}) \cup {"DELAY"})
  BY <1>1, <1>3, FS_Union
<1>5. IsFiniteSet(((({"ACTIVE_SERVICE"} \cup {"PASSIVE_WAIT"}) \cup {"HOLD"}) \cup {"DELAY"}) \cup {"UNCLASSIFIED"})
  BY <1>1, <1>4, FS_Union
<1>6. JO!TIME_CATEGORIES = (((({"ACTIVE_SERVICE"} \cup {"PASSIVE_WAIT"}) \cup {"HOLD"}) \cup {"DELAY"}) \cup {"UNCLASSIFIED"})
  BY DEF JO!TIME_CATEGORIES
<1> QED
  BY <1>5, <1>6

\* The total of a decomposition is the sum over its categories.
LEMMA TotalIsSum ==
  ASSUME NEW d \in [JO!TIME_CATEGORIES -> Int]
  PROVE  JO!TotalHours(d) = SumFunctionOnSet(d, JO!TIME_CATEGORIES)
<1> DEFINE C == JO!TIME_CATEGORIES
           e == Enumeration(C)
           T == 1..Cardinality(C)
           g == [i \in T |-> d[e[i]]]
<1>1. IsFiniteSet(C)
  BY CategoriesAreFinite
<1> HIDE DEF C
<1>2. e \in [T -> C]
  BY <1>1, Enumerated
<1>3. JO!TotalHours(d) = SumFunctionOnSet(g, T)
  <2>1. DOMAIN e = T
    BY <1>2
  <2> HIDE DEF e, T
  <2> QED
    BY <2>1, JOStatistics DEF JO!TotalHours, e, C
<1>4. SumFunctionOnSet(g, T) = SumFunctionOnSet(d, C)
  <2>1. (\A x \in C : d[x] \in Int) /\ \A i \in 1..Cardinality(C) : g[i] = d[Enumeration(C)[i]]
    BY DEF C
  <2> HIDE DEF g
  <2> QED
    BY <1>1, <2>1, SumEnumerated
<1> QED
  BY <1>3, <1>4 DEF C

Account == [buckets : [JO!TIME_CATEGORIES -> Int], delay : Int]
Weight(acc) == SumFunctionOnSet(acc.buckets, JO!TIME_CATEGORIES) + acc.delay

\* A shift inside a stage moves hours between the categories, another one adds its hours.
LEMMA CarveKeeps ==
  ASSUME NEW main, \A i \in DOMAIN main : main[i].category \in JO!TIME_CATEGORIES, 0 \notin DOMAIN main,
         DOMAIN main \subseteq Nat, NEW acc \in Account, NEW shift, shift.hours \in Int
  PROVE  /\ JO!Carve(main, acc, shift) \in Account
         /\ Weight(acc) \in Int
         /\ Weight(JO!Carve(main, acc, shift))
              = Weight(acc) + (IF JO!Containing(main, shift) = 0 THEN shift.hours ELSE 0)
<1> DEFINE C == JO!TIME_CATEGORIES
           i == JO!Containing(main, shift)
           c == main[i].category
           h == JO!Least(shift.hours, acc.buckets[c])
           b == acc.buckets
<1>0. IsFiniteSet(C) /\ b \in [C -> Int] /\ acc.delay \in Int /\ acc = [buckets |-> b, delay |-> acc.delay]
  BY CategoriesAreFinite DEF Account
<1>1. SumFunctionOnSet(b, C) \in Int
  <2> HIDE DEF C, b
  <2> QED
    BY <1>0, SumSplits
<1>2. CASE i = 0
  <2>1. JO!Carve(main, acc, shift) = [acc EXCEPT !.delay = @ + shift.hours]
    BY <1>2 DEF JO!Carve
  <2>2. JO!Carve(main, acc, shift) = [buckets |-> b, delay |-> acc.delay + shift.hours]
    BY <1>0, <2>1
  <2> HIDE DEF b, C
  <2>3. Weight(JO!Carve(main, acc, shift)) = SumFunctionOnSet(b, C) + (acc.delay + shift.hours)
    BY <2>2 DEF Weight, C
  <2>4. Weight(acc) = SumFunctionOnSet(b, C) + acc.delay
    BY DEF Weight, C, b
  <2>5. JO!Carve(main, acc, shift) \in Account
    BY <1>0, <2>2 DEF Account, C
  <2> QED
    BY <1>0, <1>1, <1>2, <2>3, <2>4, <2>5
<1>3. CASE i # 0
  <2>1. i \in DOMAIN main
    <3> DEFINE hits == {j \in DOMAIN main : main[j].start <= shift.start /\ shift.end <= main[j].end}
    <3>1. i = IF hits = {} THEN 0 ELSE JO!Min(hits)
      BY DEF JO!Containing
    <3>2. hits # {} /\ hits \subseteq Nat /\ hits \subseteq DOMAIN main
      BY <1>3, <3>1
    <3> HIDE DEF hits
    <3>3. PICK m \in hits : \A n \in hits : m <= n
      BY <3>2, LeastNumber
    <3>4. JO!Min(hits) \in hits
      BY <3>3 DEF JO!Min
    <3> QED
      BY <3>1, <3>2, <3>4
  <2>2. c \in C
    BY <2>1
  <2> HIDE DEF i
  <2>3. h \in Int
    BY <1>0, <2>2 DEF JO!Least
  <2> DEFINE b2 == [b EXCEPT ![c] = b[c] - h]
  <2>4. JO!Carve(main, acc, shift) = [buckets |-> b2, delay |-> acc.delay + h]
    <3>1. JO!Carve(main, acc, shift) = [acc EXCEPT !.buckets[c] = @ - h, !.delay = @ + h]
      BY <1>3 DEF JO!Carve, i
    <3> HIDE DEF c, h
    <3> QED
      BY <1>0, <3>1
  <2> HIDE DEF c, h, b, C
  <2>5. b2 \in [C -> Int] /\ b2[c] = b[c] - h /\ b2[c] \in Int /\ b[c] \in Int /\ \A x \in C : x # c => b2[x] = b[x]
    BY <1>0, <2>2, <2>3
  <2> HIDE DEF b2
  <2>6. SumFunctionOnSet(b2, C) = SumFunctionOnSet(b, C) - b[c] + b2[c]
    <3>1. \A x \in C : b[x] \in Int
      BY <1>0
    <3> QED
      BY <1>0, <2>2, <2>5, <3>1, SumChanged
  <2>7. Weight(JO!Carve(main, acc, shift)) = SumFunctionOnSet(b2, C) + (acc.delay + h)
    BY <2>4 DEF Weight, C
  <2>8. Weight(acc) = SumFunctionOnSet(b, C) + acc.delay
    BY DEF Weight, C, b
  <2>9. JO!Carve(main, acc, shift) \in Account
    BY <1>0, <2>3, <2>4, <2>5 DEF Account, C
  <2>10. (IF JO!Containing(main, shift) = 0 THEN shift.hours ELSE 0) = 0
    BY <1>3 DEF i
  <2>11. SumFunctionOnSet(b2, C) + (acc.delay + h) = (SumFunctionOnSet(b, C) + acc.delay) + 0
    BY <1>0, <1>1, <2>3, <2>5, <2>6
  <2>12. SumFunctionOnSet(b, C) + acc.delay \in Int
    BY <1>0, <1>1
  <2> QED
    BY <2>7, <2>8, <2>9, <2>10, <2>11, <2>12
<1> QED
  BY <1>2, <1>3

\* Carving out every shift in turn.
Carved(main, base, T) == JO!FoldLeft(LAMBDA a, s : JO!Carve(main, a, s), base, T)

Carvable(main, base, m, T) ==
  /\ \A i \in DOMAIN main : main[i].category \in JO!TIME_CATEGORIES
  /\ 0 \notin DOMAIN main /\ DOMAIN main \subseteq Nat
  /\ base \in Account
  /\ m \in Nat /\ DOMAIN T = 1..m /\ \A k \in 1..m : T[k].hours \in Int

\* The fold over the shifts carves them out one after the other.
LEMMA CarvedUnfolds ==
  ASSUME NEW main, NEW base, NEW m, NEW T, Carvable(main, base, m, T)
  PROVE  \E a : /\ a[0] = base
                /\ \A k \in 0..(m - 1) : a[k + 1] = JO!Carve(main, a[k], T[k + 1])
                /\ Carved(main, base, T) = a[m]
<1> DEFINE step == [k \in 1..m |-> [a \in Account |-> JO!Carve(main, a, T[k])]]
           Body(g, s) == IF s = {} THEN base ELSE JO!Carve(main, g[s \ {Greatest(s)}], T[Greatest(s)])
           it == CHOOSE g : g = [s \in SUBSET (1..m) |-> Body(g, s)]
<1> USE DEF Carvable
<1>1. \A k \in 1..m : \A a \in Account : JO!Carve(main, a, T[k]) \in Account
  BY CarveKeeps
<1>2. \A k \in 1..m : \A a \in Account : step[k][a] \in Account
  BY <1>1
<1>3. PICK g \in [SUBSET (1..m) -> Account] : \A s \in SUBSET (1..m) : g[s] = FoldStep(base, step, g, s)
  <2>1. StepsStay(Account, m, step)
    BY <1>2 DEF StepsStay
  <2> HIDE DEF step
  <2>2. PICK g : IsFold(Account, base, m, step, g)
    BY <2>1, FoldsExist
  <2> QED
    BY <2>2 DEF IsFold
<1>4. \A s \in SUBSET (1..m) : s # {} => Greatest(s) \in 1..m /\ s \ {Greatest(s)} \in SUBSET (1..m)
  <2> SUFFICES ASSUME NEW s \in SUBSET (1..m), s # {} PROVE Greatest(s) \in s
    OBVIOUS
  <2>1. IsFiniteSet(1..m)
    BY FS_Interval
  <2>2. IsFiniteSet(s)
    BY <2>1, FS_Subset
  <2>3. \A x \in s : x \in Int
    OBVIOUS
  <2> QED
    BY <2>2, <2>3, GreatestFacts
<1>5. \A s \in SUBSET (1..m) : FoldStep(base, step, g, s) = Body(g, s)
  <2> SUFFICES ASSUME NEW s \in SUBSET (1..m) PROVE FoldStep(base, step, g, s) = Body(g, s)
    OBVIOUS
  <2>1. s # {} => step[Greatest(s)][g[s \ {Greatest(s)}]] = JO!Carve(main, g[s \ {Greatest(s)}], T[Greatest(s)])
    <3> SUFFICES ASSUME s # {} PROVE step[Greatest(s)][g[s \ {Greatest(s)}]] = JO!Carve(main, g[s \ {Greatest(s)}], T[Greatest(s)])
      OBVIOUS
    <3> DEFINE k == Greatest(s)
               x == g[s \ {k}]
    <3>1. k \in 1..m /\ x \in Account
      BY <1>3, <1>4
    <3> HIDE DEF k, x
    <3>2. step[k][x] = JO!Carve(main, x, T[k])
      BY <3>1
    <3> QED
      BY <3>2 DEF k, x
  <2> HIDE DEF step
  <2> QED
    BY <2>1 DEF FoldStep
<1> HIDE DEF step
<1>6. g = [s \in SUBSET (1..m) |-> Body(g, s)]
  BY <1>3, <1>5
<1>7. it = [s \in SUBSET (1..m) |-> Body(it, s)]
  <2> HIDE DEF Body
  <2> QED
    BY <1>6
<1>8. Carved(main, base, T) = it[1..m]
  BY JOStatistics DEF Carved, JO!FoldLeft, JO!MapThenFoldSet
<1> HIDE DEF it
<1> DEFINE a == [k \in 0..m |-> it[1..k]]
<1>9. a[0] = base
  <2>1. 1..0 = {} /\ {} \in SUBSET (1..m)
    OBVIOUS
  <2>2. it[{}] = base
    BY <1>7, <2>1
  <2> QED
    BY <2>1, <2>2
<1>10. ASSUME NEW k \in 0..(m - 1) PROVE a[k + 1] = JO!Carve(main, a[k], T[k + 1])
  <2>1. /\ 1..(k + 1) \in SUBSET (1..m) /\ 1..(k + 1) # {}
        /\ Greatest(1..(k + 1)) = k + 1 /\ 1..(k + 1) \ {Greatest(1..(k + 1))} = 1..k
    BY GreatestOfFirst
  <2> DEFINE s == 1..(k + 1)
  <2>2. it[s] = Body(it, s)
    BY <1>7, <2>1
  <2>3. Body(it, s) = JO!Carve(main, it[s \ {Greatest(s)}], T[Greatest(s)])
    BY <2>1
  <2>4. it[s] = JO!Carve(main, it[1..k], T[k + 1])
    BY <2>1, <2>2, <2>3
  <2>5. k \in 0..m /\ k + 1 \in 0..m
    OBVIOUS
  <2>6. a[k] = it[1..k] /\ a[k + 1] = it[s]
    BY <2>5
  <2> QED
    BY <2>4, <2>6
<1>11. Carved(main, base, T) = a[m]
  BY <1>8
<1> HIDE DEF a
<1> QED
  BY <1>9, <1>10, <1>11

LooseOnly(main, T, m, l) == \A k \in 1..m : l[k] = IF JO!Containing(main, T[k]) = 0 THEN T[k].hours ELSE 0

\* Only the shifts outside of all stages add hours.
LEMMA CarvedAddsLoose ==
  ASSUME NEW main, NEW base, NEW m, NEW T, Carvable(main, base, m, T),
         NEW l, LooseOnly(main, T, m, l)
  PROVE  /\ Carved(main, base, T) \in Account
         /\ Weight(Carved(main, base, T)) = Weight(base) + SumFunctionOnSet(l, 1..m)
<1>1. PICK a : /\ a[0] = base
               /\ \A k \in 0..(m - 1) : a[k + 1] = JO!Carve(main, a[k], T[k + 1])
               /\ Carved(main, base, T) = a[m]
  BY CarvedUnfolds
<1> DEFINE P(k) == k <= m => a[k] \in Account /\ Weight(a[k]) = Weight(base) + SumFunctionOnSet(l, 1..k)
           N == {k \in Nat : P(k)}
<1> USE DEF LooseOnly, Carvable
<1>2. 0 \in N
  <2>1. Weight(base) \in Int
    <3>1. IsFiniteSet(JO!TIME_CATEGORIES) /\ base.delay \in Int /\ base.buckets \in [JO!TIME_CATEGORIES -> Int]
      BY CategoriesAreFinite DEF Account
    <3>2. SumFunctionOnSet(base.buckets, JO!TIME_CATEGORIES) \in Int
      BY <3>1, SumSplits
    <3> QED
      BY <3>1, <3>2 DEF Weight
  <2>2. 1..0 = {} /\ SumFunctionOnSet(l, {}) = 0
    BY FS_EmptySet, SumSplits
  <2>3. SumFunctionOnSet(l, 1..0) = 0
    BY <2>2
  <2> QED
    BY <1>1, <2>1, <2>3
<1>3. ASSUME NEW k \in N PROVE k + 1 \in N
  <2> SUFFICES ASSUME k + 1 <= m
               PROVE  a[k + 1] \in Account /\ Weight(a[k + 1]) = Weight(base) + SumFunctionOnSet(l, 1..(k + 1))
    OBVIOUS
  <2>1. k \in 0..(m - 1) /\ k + 1 \in 1..m /\ k \in Nat
    OBVIOUS
  <2>2. a[k] \in Account /\ Weight(a[k]) = Weight(base) + SumFunctionOnSet(l, 1..k)
    BY <2>1
  <2> HIDE DEF N
  <2>3. a[k + 1] = JO!Carve(main, a[k], T[k + 1])
    BY <1>1, <2>1
  <2>4. T[k + 1].hours \in Int /\ l[k + 1] = IF JO!Containing(main, T[k + 1]) = 0 THEN T[k + 1].hours ELSE 0
    BY <2>1
  <2> DEFINE shift == T[k + 1]
             acc == a[k]
  <2>5. /\ JO!Carve(main, acc, shift) \in Account
        /\ Weight(acc) \in Int
        /\ Weight(JO!Carve(main, acc, shift)) = Weight(acc) + (IF JO!Containing(main, shift) = 0 THEN shift.hours ELSE 0)
    <3>1. acc \in Account /\ shift.hours \in Int
      BY <2>2, <2>4
    <3> HIDE DEF acc, shift
    <3> QED
      BY <3>1, CarveKeeps
  <2>6. Weight(a[k + 1]) = Weight(a[k]) + l[k + 1]
    BY <2>3, <2>4, <2>5
  <2>7. \A i \in 1..(k + 1) : l[i] \in Int
    <3>1. \A i \in 1..(k + 1) : i \in 1..m
      BY <2>1
    <3> QED
      BY <3>1
  <2>8. /\ SumFunctionOnSet(l, 1..(k + 1)) = l[k + 1] + SumFunctionOnSet(l, 1..k)
        /\ SumFunctionOnSet(l, 1..k) \in Int
    BY <2>1, <2>7, SumNext
  <2>9. Weight(base) \in Int
    <3>1. IsFiniteSet(JO!TIME_CATEGORIES) /\ base.delay \in Int /\ base.buckets \in [JO!TIME_CATEGORIES -> Int]
      BY CategoriesAreFinite DEF Account
    <3>2. SumFunctionOnSet(base.buckets, JO!TIME_CATEGORIES) \in Int
      BY <3>1, SumSplits
    <3> QED
      BY <3>1, <3>2 DEF Weight
  <2>10. l[k + 1] \in Int
    BY <2>4
  <2>11. Weight(a[k + 1]) = Weight(base) + SumFunctionOnSet(l, 1..(k + 1))
    BY <2>2, <2>6, <2>8, <2>9, <2>10
  <2> QED
    BY <2>3, <2>5, <2>11
<1>4. N = Nat
  <2>1. N \subseteq Nat
    OBVIOUS
  <2> HIDE DEF N
  <2> QED
    BY <1>2, <1>3, <2>1, AllNumbers
<1>5. P(m)
  BY <1>4
<1> QED
  BY <1>1, <1>5

\* Before the shifts the categories hold the hours of the stages.
LEMMA BucketsAddUp ==
  ASSUME NEW n \in Nat, NEW main, DOMAIN main = 1..n, \A i \in 1..n : main[i].hours \in Int,
         \A i \in 1..n : main[i].category \in JO!TIME_CATEGORIES,
         NEW h, \A i \in 1..n : h[i] = main[i].hours
  PROVE  /\ JO!Buckets(main) \in [JO!TIME_CATEGORIES -> Int]
         /\ SumFunctionOnSet(JO!Buckets(main), JO!TIME_CATEGORIES) = SumFunctionOnSet(h, 1..n)
<1> DEFINE C == JO!TIME_CATEGORIES
           S == 1..n
           kind == [i \in S |-> main[i].category]
           g == JO!Buckets(main)
<1>1. IsFiniteSet(S) /\ IsFiniteSet(C) /\ (\A x \in S : h[x] \in Int) /\ kind \in [S -> C] /\ \A x \in S : x \in Int
  <2>1. IsFiniteSet(S) /\ IsFiniteSet(C)
    BY FS_Interval, CategoriesAreFinite
  <2>2. (\A x \in S : h[x] \in Int) /\ \A x \in S : x \in Int
    OBVIOUS
  <2>3. kind \in [S -> C]
    OBVIOUS
  <2> QED
    BY <2>1, <2>2, <2>3
<1>2. \A c \in C : g[c] = SumFunctionOnSet(h, OfKind(S, kind, c)) /\ g[c] \in Int
  <2> SUFFICES ASSUME NEW c \in C PROVE g[c] = SumFunctionOnSet(h, OfKind(S, kind, c)) /\ g[c] \in Int
    OBVIOUS
  <2> DEFINE K == OfKind(S, kind, c)
             p == Picked(main, K)
             f == [k \in DOMAIN p |-> p[k].hours]
  <2>1. K = {i \in DOMAIN main : main[i].category = c} /\ K \in SUBSET S
    BY DEF OfKind
  <2>2. IsFiniteSet(K) /\ (\A i \in K : i \in Int) /\ \A i \in K : h[i] \in Int
    <3> HIDE DEF K, S
    <3>1. IsFiniteSet(K)
      BY <1>1, <2>1, FS_Subset
    <3> QED
      BY <1>1, <2>1, <3>1
  <2>3. \A i \in K : h[i] = main[i].hours
    BY <2>1
  <2>4. g[c] = JO!Total(f)
    <3> HIDE DEF S, K
    <3>1. JO!Filter(main, LAMBDA x : x.category = c) = p
      BY <2>1, JOStatistics DEF JO!Filter
    <3>2. c \in JO!TIME_CATEGORIES
      OBVIOUS
    <3> HIDE DEF C, p
    <3> QED
      BY <3>1, <3>2 DEF JO!Buckets
  <2> HIDE DEF K
  <2>5. DOMAIN p = 1..Cardinality(K) /\ \A k \in 1..Cardinality(K) : p[k] = main[Nth(K, k)]
    BY <2>2, PickedFacts
  <2>6. \A k \in 1..Cardinality(K) : f[k] = h[Nth(K, k)]
    <3>1. \A k \in 1..Cardinality(K) : Nth(K, k) \in K
      BY <2>2, NthFacts
    <3> HIDE DEF p
    <3> QED
      BY <2>3, <2>5, <3>1
  <2>7. DOMAIN f = 1..Cardinality(K)
    BY <2>5
  <2> HIDE DEF f
  <2>8. SumFunctionOnSet(f, 1..Cardinality(K)) = SumFunctionOnSet(h, K)
    BY <2>2, <2>6, SumPicked
  <2>9. SumFunctionOnSet(h, K) \in Int
    BY <2>2, SumSplits
  <2>10. JO!Total(f) = SumFunctionOnSet(f, DOMAIN f)
    BY JOStatistics
  <2> HIDE DEF C, S, kind, g
  <2>11. g[c] = SumFunctionOnSet(h, K)
    BY <2>4, <2>7, <2>8, <2>10
  <2> QED
    BY <2>9, <2>11 DEF K
<1>3. g \in [C -> Int]
  <2>1. g = [c \in C |-> g[c]]
    BY DEF JO!Buckets
  <2> HIDE DEF g, C
  <2> QED
    BY <1>2, <2>1
<1>4. SumFunctionOnSet(g, C) = SumFunctionOnSet(h, S)
  <2> HIDE DEF S, C, kind, g
  <2>1. \A c \in C : g[c] = SumFunctionOnSet(h, OfKind(S, kind, c))
    BY <1>2
  <2> QED
    BY <1>1, <2>1, SumByKind
<1> QED
  BY <1>3, <1>4

\* The hours of a selection of stages.
LEMMA HoursOfPicked ==
  ASSUME NEW m \in Nat, NEW T, DOMAIN T = 1..m, \A k \in 1..m : T[k].hours \in Int, NEW L \in SUBSET (1..m),
         NEW l, \A k \in 1..m : l[k] = IF k \in L THEN T[k].hours ELSE 0
  PROVE  JO!Total([i \in DOMAIN Picked(T, L) |-> Picked(T, L)[i].hours]) = SumFunctionOnSet(l, 1..m)
<1> DEFINE S == 1..m
           h == [k \in S |-> T[k].hours]
           p == Picked(T, L)
           f == [i \in DOMAIN p |-> p[i].hours]
           n == Cardinality(L)
<1>1. IsFiniteSet(S) /\ (\A x \in S : h[x] \in Int) /\ (\A x \in S : x \in Int)
  BY FS_Interval
<1>2. IsFiniteSet(L) /\ (\A i \in L : i \in Int) /\ (\A i \in L : h[i] \in Int) /\ \A i \in L : h[i] = T[i].hours
  <2>1. IsFiniteSet(L)
    <3> HIDE DEF h
    <3> QED
      BY <1>1, FS_Subset
  <2> QED
    BY <1>1, <2>1
<1>3. DOMAIN p = 1..n /\ \A k \in 1..n : p[k] = T[Nth(L, k)]
  BY <1>2, PickedFacts
<1>4. \A k \in 1..n : f[k] = h[Nth(L, k)]
  <2>1. \A k \in 1..n : Nth(L, k) \in L
    BY <1>2, NthFacts
  <2> HIDE DEF p, h
  <2> QED
    BY <1>2, <1>3, <2>1
<1>5. JO!Total(f) = SumFunctionOnSet(f, 1..n)
  BY <1>3, JOStatistics
<1> HIDE DEF f
<1>6. SumFunctionOnSet(f, 1..n) = SumFunctionOnSet(h, L)
  <2> HIDE DEF h
  <2> QED
    BY <1>2, <1>4, SumPicked
<1>7. SumFunctionOnSet(l, S) = SumFunctionOnSet(h, L)
  <2>1. Masks(l, h, S, L)
    BY DEF Masks
  <2>2. L \in SUBSET S
    OBVIOUS
  <2>3. \A x \in L : h[x] \in Int
    BY <1>2
  <2>4. IsFiniteSet(S)
    BY <1>1
  <2> HIDE DEF S, h
  <2> QED
    BY ONLY <2>1, <2>2, <2>3, <2>4, SumMasked, ZenonT(60)
<1> QED
  BY <1>5, <1>6, <1>7 DEF f

\* The stages that have hours.
LEMMA TimedFacts ==
  ASSUME NEW n \in Nat, NEW s, DOMAIN s = 1..n, \A i \in 1..n : Measured(s[i]), None \notin Int
  PROVE  \E m \in Nat : /\ DOMAIN JO!Timed(s) = 1..m /\ Len(JO!Timed(s)) = m
                        /\ \A k \in 1..m : \E i \in 1..n : JO!Timed(s)[k] = s[i]
                        /\ \A k \in 1..m : /\ JO!Timed(s)[k].start \in Int /\ JO!Timed(s)[k].end \in Int
                                           /\ JO!Timed(s)[k].hours = JO!Timed(s)[k].end - JO!Timed(s)[k].start
<1> DEFINE K == {i \in 1..n : s[i].hours # None}
           m == Cardinality(K)
<1>1. JO!Timed(s) = Picked(s, K)
  BY JOStatistics DEF JO!Timed, JO!Filter
<1>2. \A i \in K : i \in 1..n /\ s[i].start \in Int /\ s[i].end \in Int /\ s[i].hours = s[i].end - s[i].start
  BY DEF Measured
<1>3. IsFiniteSet(K) /\ \A i \in K : i \in Int
  <2>1. IsFiniteSet(1..n) /\ K \in SUBSET (1..n)
    BY FS_Interval
  <2>2. \A i \in K : i \in Int
    OBVIOUS
  <2> HIDE DEF K
  <2> QED
    BY <2>1, <2>2, FS_Subset
<1> HIDE DEF K
<1>4. m \in Nat /\ \A k \in 1..m : Nth(K, k) \in K
  BY <1>3, NthFacts
<1>5. DOMAIN Picked(s, K) = 1..m /\ Len(Picked(s, K)) = m /\ \A k \in 1..m : Picked(s, K)[k] = s[Nth(K, k)]
  BY <1>3, PickedFacts
<1> HIDE DEF m
<1> QED
  BY <1>1, <1>2, <1>4, <1>5

Hours(s) == JO!Total([i \in DOMAIN s |-> s[i].hours])
Loose(timed, shifts) == JO!Filter(JO!Timed(shifts), LAMBDA s : JO!Containing(timed, s) = 0)
Decomposable(n, timed, m, shifts) ==
  /\ n \in Nat /\ DOMAIN timed = 1..n /\ \A i \in 1..n : timed[i].hours \in Int
  /\ \A i \in 1..n : timed[i].category \in JO!TIME_CATEGORIES
  /\ m \in Nat /\ DOMAIN JO!Timed(shifts) = 1..m /\ \A k \in 1..m : JO!Timed(shifts)[k].hours \in Int

\* For every path and every list of shifts, the categories hold the hours of the stages and of the
\* shifts outside of all of them.
LEMMA DecompositionTotal ==
  ASSUME NEW n, NEW timed, NEW m, NEW shifts, Decomposable(n, timed, m, shifts)
  PROVE  /\ JO!TotalHours(JO!Decomposition(timed, shifts)) = Hours(timed) + Hours(Loose(timed, shifts))
         /\ Hours(timed) \in Int
         /\ Hours(Loose(timed, shifts)) \in Int
<1> USE DEF Decomposable
<1> DEFINE C == JO!TIME_CATEGORIES
           T == JO!Timed(shifts)
           base == [buckets |-> JO!Buckets(timed), delay |-> 0]
           h == [i \in 1..n |-> timed[i].hours]
           L == {k \in 1..m : JO!Containing(timed, T[k]) = 0}
           l == [k \in 1..m |-> IF k \in L THEN T[k].hours ELSE 0]
           acc == Carved(timed, base, T)
           d == [acc.buckets EXCEPT !["DELAY"] = @ + acc.delay]
<1>1. /\ JO!Buckets(timed) \in [C -> Int]
      /\ SumFunctionOnSet(JO!Buckets(timed), C) = SumFunctionOnSet(h, 1..n)
  <2>1. \A i \in 1..n : h[i] = timed[i].hours
    OBVIOUS
  <2> HIDE DEF h
  <2> QED
    BY <2>1, BucketsAddUp
<1>2. SumFunctionOnSet(h, 1..n) \in Int /\ SumFunctionOnSet(l, 1..m) \in Int
  <2> DEFINE S == 1..n
             R == 1..m
  <2>1. IsFiniteSet(S) /\ IsFiniteSet(R) /\ (\A i \in S : h[i] \in Int) /\ \A k \in R : l[k] \in Int
    BY FS_Interval
  <2> HIDE DEF S, R, h, l
  <2>2. SumFunctionOnSet(h, S) \in Int
    BY <2>1, SumSplits
  <2>3. SumFunctionOnSet(l, R) \in Int
    BY <2>1, SumSplits
  <2> QED
    BY <2>2, <2>3 DEF S, R
<1>3. base \in Account /\ Weight(base) = SumFunctionOnSet(h, 1..n)
  <2> HIDE DEF h
  <2>1. base \in Account
    BY <1>1 DEF Account
  <2>2. Weight(base) = SumFunctionOnSet(JO!Buckets(timed), C) + 0
    BY DEF Weight
  <2> QED
    BY <1>1, <1>2, <2>1, <2>2
<1>4. acc \in Account /\ Weight(acc) = SumFunctionOnSet(h, 1..n) + SumFunctionOnSet(l, 1..m)
  <2>1. Carvable(timed, base, m, T)
    BY <1>3 DEF Carvable
  <2>2. LooseOnly(timed, T, m, l)
    BY DEF LooseOnly
  <2> HIDE DEF T, base, l, h
  <2>4. acc \in Account /\ Weight(acc) = Weight(base) + SumFunctionOnSet(l, 1..m)
    BY <2>1, <2>2, CarvedAddsLoose
  <2> QED
    BY <1>3, <2>4
<1>5. JO!Decomposition(timed, shifts) = d
  BY DEF JO!Decomposition, Carved
<1>6. d \in [C -> Int] /\ SumFunctionOnSet(d, C) = Weight(acc)
  <2> HIDE DEF acc
  <2> DEFINE b == acc.buckets
             q == "DELAY"
  <2>1. IsFiniteSet(C) /\ q \in C /\ b \in [C -> Int] /\ acc.delay \in Int
    BY <1>4, CategoriesAreFinite DEF Account
  <2>2. d = [b EXCEPT ![q] = b[q] + acc.delay]
    OBVIOUS
  <2> HIDE DEF C, b, q, d
  <2>3. d \in [C -> Int] /\ d[q] = b[q] + acc.delay /\ d[q] \in Int /\ b[q] \in Int /\ \A x \in C : x # q => d[x] = b[x]
    BY <2>1, <2>2
  <2>4. (\A x \in C : b[x] \in Int)
    BY <2>1
  <2>5. SumFunctionOnSet(d, C) = SumFunctionOnSet(b, C) - b[q] + d[q]
    BY <2>1, <2>3, <2>4, SumChanged
  <2>6. SumFunctionOnSet(b, C) \in Int
    BY <2>1, <2>4, SumSplits
  <2>7. Weight(acc) = SumFunctionOnSet(b, C) + acc.delay
    BY DEF Weight, b, C
  <2> QED
    BY <2>1, <2>3, <2>5, <2>6, <2>7
<1>7. Hours(timed) = SumFunctionOnSet(h, 1..n)
  BY JOStatistics DEF Hours
<1>8. Hours(Loose(timed, shifts)) = SumFunctionOnSet(l, 1..m)
  <2>1. Loose(timed, shifts) = Picked(T, L)
    BY JOStatistics DEF Loose, JO!Filter
  <2>2. L \in SUBSET (1..m) /\ \A k \in 1..m : l[k] = IF k \in L THEN T[k].hours ELSE 0
    OBVIOUS
  <2>3. DOMAIN T = 1..m /\ \A k \in 1..m : T[k].hours \in Int
    OBVIOUS
  <2> HIDE DEF L, l, T
  <2>4. Hours(Picked(T, L)) = SumFunctionOnSet(l, 1..m)
    <3>1. m \in Nat
      OBVIOUS
    <3> QED
      BY ONLY <2>2, <2>3, <3>1, HoursOfPicked DEF Hours
  <2> QED
    BY <2>1, <2>4
<1>9. JO!TotalHours(d) = SumFunctionOnSet(d, C)
  <2> HIDE DEF d
  <2> QED
    BY <1>6, TotalIsSum
<1> HIDE DEF h, l, d, acc, C
<1> QED
  BY <1>2, <1>4, <1>5, <1>6, <1>7, <1>8, <1>9

\* Stages that follow one another are never longer than the time they span.
LEMMA HoursWithinSpan ==
  ASSUME NEW n \in Nat, n > 0, NEW s, DOMAIN s = 1..n,
         \A i \in 1..n : s[i].start \in Int /\ s[i].end \in Int /\ s[i].hours = s[i].end - s[i].start,
         \A i \in 1..(n - 1) : s[i].end <= s[i + 1].start
  PROVE  Hours(s) <= s[n].end - s[1].start
<1> DEFINE h == [i \in 1..n |-> s[i].hours]
           w == [i \in 1..(n - 1) |-> s[i + 1].start - s[i].end]
           z == [i \in 1..(n - 1) |-> 0]
           R == 1..(n - 1)
<1>1. Chained(n, s, h, w)
  BY DEF Chained
<1>2. Hours(s) = SumFunctionOnSet(h, 1..n)
  BY JOStatistics DEF Hours
<1>3. /\ IsFiniteSet(R)
      /\ \A x \in R : z[x] \in Int
      /\ \A x \in R : w[x] \in Int
      /\ \A x \in R : z[x] <= w[x]
  <2>1. \A x \in R : x \in 1..n /\ x + 1 \in 1..n
    OBVIOUS
  <2>2. IsFiniteSet(R)
    BY FS_Interval
  <2>3. \A x \in R : s[x].end \in Int /\ s[x + 1].start \in Int /\ s[x].end <= s[x + 1].start
    BY <2>1
  <2> QED
    BY <2>2, <2>3
<1>4. SumFunctionOnSet(z, R) = 0
  <2>1. SumFunctionOnSet(z, 1..(n - 1)) = (n - 1) * 0
    <3> DEFINE e == n - 1
    <3>1. e \in Nat /\ \A i \in 1..e : z[i] = 0
      OBVIOUS
    <3> HIDE DEF e, z
    <3>2. SumFunctionOnSet(z, 1..e) = e * 0
      BY <3>1, SumOfEquals
    <3> QED
      BY <3>2 DEF e
  <2> QED
    BY <2>1
<1> HIDE DEF h, w, z
<1>5. n \in 1..n /\ 1 \in 1..n
  OBVIOUS
<1>6. SumFunctionOnSet(h, 1..n) + SumFunctionOnSet(w, 1..(n - 1)) = s[n].end - s[1].start
  BY <1>1, <1>5, Telescope
<1>7. SumFunctionOnSet(z, R) <= SumFunctionOnSet(w, R) /\ SumFunctionOnSet(w, R) \in Int
  <2> HIDE DEF R
  <2> QED
    BY <1>3, SumAtMost, SumSplits
<1>8. SumFunctionOnSet(h, 1..n) \in Int
  <2> DEFINE S == 1..n
  <2>1. IsFiniteSet(S)
    BY FS_Interval
  <2>2. \A x \in S : h[x] \in Int
    BY DEF h
  <2> HIDE DEF S
  <2>3. SumFunctionOnSet(h, S) \in Int
    BY <2>1, <2>2, SumSplits
  <2> QED
    BY <2>3 DEF S
<1>9. s[n].end \in Int /\ s[1].start \in Int
  BY <1>5
<1> QED
  BY <1>2, <1>4, <1>6, <1>7, <1>8, <1>9

\* For every path and every list of shifts, no hour is lost in the decomposition or counted twice.
THEOREM DecompositionAlwaysAddsUp ==
  ASSUME NEW n \in Nat, NEW main, DOMAIN main = 1..n, \A i \in 1..n : Measured(main[i]),
         \A i \in 1..n : main[i].category \in JO!TIME_CATEGORIES,
         NEW m \in Nat, NEW shifts, DOMAIN shifts = 1..m, \A i \in 1..m : Measured(shifts[i])
  PROVE  JO!DecompositionAddsUp(main, shifts)
<1> DEFINE timed == JO!Timed(main)
           loose == Loose(timed, shifts)
           total == JO!TotalHours(JO!Decomposition(timed, shifts))
<1>0. None \notin Int
  BY NoneIsNoValue
<1>1. PICK a \in Nat : /\ DOMAIN timed = 1..a /\ Len(timed) = a
                       /\ \A k \in 1..a : \E i \in 1..n : timed[k] = main[i]
                       /\ \A k \in 1..a : /\ timed[k].start \in Int /\ timed[k].end \in Int
                                          /\ timed[k].hours = timed[k].end - timed[k].start
  BY <1>0, TimedFacts
<1>2. PICK b \in Nat : /\ DOMAIN JO!Timed(shifts) = 1..b
                       /\ \A k \in 1..b : /\ JO!Timed(shifts)[k].start \in Int /\ JO!Timed(shifts)[k].end \in Int
                                          /\ JO!Timed(shifts)[k].hours = JO!Timed(shifts)[k].end - JO!Timed(shifts)[k].start
  BY <1>0, TimedFacts
<1>3. /\ \A k \in 1..a : timed[k].hours \in Int
      /\ \A k \in 1..a : timed[k].category \in JO!TIME_CATEGORIES
      /\ \A k \in 1..b : JO!Timed(shifts)[k].hours \in Int
  <2> HIDE DEF timed
  <2>1. \A k \in 1..a : timed[k].hours \in Int
    BY <1>1
  <2>2. \A k \in 1..a : timed[k].category \in JO!TIME_CATEGORIES
    BY <1>1
  <2>3. \A k \in 1..b : JO!Timed(shifts)[k].hours \in Int
    BY <1>2
  <2> QED
    BY <2>1, <2>2, <2>3
<1>4. total = Hours(timed) + Hours(loose) /\ Hours(timed) \in Int /\ Hours(loose) \in Int
  <2> HIDE DEF timed
  <2>1. Decomposable(a, timed, b, shifts)
    BY <1>1, <1>2, <1>3 DEF Decomposable
  <2> QED
    BY <2>1, DecompositionTotal
<1>5. ASSUME Len(timed) > 0, \A i \in 1..(Len(timed) - 1) : timed[i].end <= timed[i + 1].start
      PROVE  total <= timed[Len(timed)].end - timed[1].start + Hours(loose)
  <2> HIDE DEF timed, loose, total
  <2>1. a > 0 /\ \A i \in 1..(a - 1) : timed[i].end <= timed[i + 1].start
    BY <1>1, <1>5
  <2>2. Hours(timed) <= timed[a].end - timed[1].start
    BY <1>1, <2>1, HoursWithinSpan
  <2>3. timed[a].end \in Int /\ timed[1].start \in Int
    BY <1>1, <2>1
  <2>4. total <= timed[a].end - timed[1].start + Hours(loose)
    BY <1>4, <2>2, <2>3
  <2> QED
    BY <1>1, <2>4
<1>6. JO!DecompositionAddsUp(main, shifts)
        <=> /\ total = Hours(timed) + Hours(loose)
            /\ Len(timed) > 0 /\ (\A i \in 1..(Len(timed) - 1) : timed[i].end <= timed[i + 1].start) =>
                  total <= timed[Len(timed)].end - timed[1].start + Hours(loose)
  BY DEF JO!DecompositionAddsUp, Hours, Loose
<1> HIDE DEF timed, loose, total
<1> QED
  BY <1>4, <1>5, <1>6

\* journey.py: in every reachable state the hours of a call are decomposed without loss, handovers
\* telescope, the narrative invents nothing, and the selected observation is the best.
THEOREM JourneyAddsUpHolds == AlgorithmsSpec => []JourneyAddsUp
<1>1. AlgorithmsInit => JourneyAddsUp
  BY DEF AlgorithmsInit, JourneyAddsUp
<1>2. ASSUME AlgorithmsNext PROVE JourneyAddsUp'
  <2>0. None \notin Int
    BY NoneIsNoValue
  <2>1. ASSUME probe'.of = "journey"
        PROVE  /\ JO!DecompositionAddsUp(probe'.main, probe'.shifts)
               /\ JO!HandoversTelescope(probe'.main)
               /\ JO!NarrativeInventsNothing(probe'.main)
    <3>1. PICK a, b, c, d \in Instants, starts \in {<<>>, <<1>>, <<3>>, <<1, 3>>}, ends \in {<<>>, <<2>>, <<4>>, <<2, 4>>} :
             probe' = [of |-> "journey", shifts |-> JO!Shifts(starts, ends),
                       main |-> <<JO!Stage("berthing", "ACTIVE_SERVICE", a, b), JO!Stage("waiting", "PASSIVE_WAIT", c, d)>>]
      BY <1>2, <2>1, PickedBy DEF PickJourney, Pick
    <3>2. \A x, y \in Int \cup {None} : \A name, category :
             LET s == JO!Stage(name, category, x, y)
             IN  /\ Measured(s) /\ s.category = category /\ s.shift = 0
                 /\ s.status = "MISSING" <=> s.hours = None
      BY <2>0 DEF JO!Stage, Measured
    <3>3. a \in Int \cup {None} /\ b \in Int \cup {None} /\ c \in Int \cup {None} /\ d \in Int \cup {None}
      BY <3>1 DEF Instants
    <3> DEFINE main == <<JO!Stage("berthing", "ACTIVE_SERVICE", a, b), JO!Stage("waiting", "PASSIVE_WAIT", c, d)>>
               n == 2
               shifts == JO!Shifts(starts, ends)
               m == JO!Most(Len(starts), Len(ends))
    <3>4. /\ n \in Nat /\ DOMAIN main = 1..n /\ Len(main) = n
          /\ \A i \in 1..n : Measured(main[i])
          /\ \A i \in 1..n : main[i].category \in {"ACTIVE_SERVICE", "PASSIVE_WAIT"}
          /\ \A i \in DOMAIN main : main[i].status = "MISSING" <=> main[i].hours = None
      <4> DEFINE p == JO!Stage("berthing", "ACTIVE_SERVICE", a, b)
                 q == JO!Stage("waiting", "PASSIVE_WAIT", c, d)
      <4>1. Measured(p) /\ p.category = "ACTIVE_SERVICE" /\ (p.status = "MISSING" <=> p.hours = None)
        BY <3>2, <3>3
      <4>2. Measured(q) /\ q.category = "PASSIVE_WAIT" /\ (q.status = "MISSING" <=> q.hours = None)
        BY <3>2, <3>3
      <4>3. main = <<p, q>>
        OBVIOUS
      <4> HIDE DEF p, q, main
      <4>4. DOMAIN main = 1..2 /\ Len(main) = 2 /\ main[1] = p /\ main[2] = q /\ 1..2 = {1, 2}
        BY <4>3
      <4> QED
        BY <4>1, <4>2, <4>4
    <3>5. \A i \in 1..n : main[i].category \in JO!TIME_CATEGORIES
      BY <3>4 DEF JO!TIME_CATEGORIES
    <3>6. m \in Nat /\ DOMAIN shifts = 1..m /\ \A i \in 1..m : Measured(shifts[i])
      <4>1. /\ Len(starts) \in Nat /\ \A i \in 1..Len(starts) : starts[i] \in Int
            /\ Len(ends) \in Nat /\ \A i \in 1..Len(ends) : ends[i] \in Int
        BY <3>1
      <4>2. m \in Nat
        BY <4>1 DEF JO!Most
      <4>3. DOMAIN shifts = 1..m
        BY DEF JO!Shifts
      <4>4. ASSUME NEW i \in 1..m PROVE Measured(shifts[i])
        <5> DEFINE x == IF i <= Len(starts) THEN starts[i] ELSE None
                   y == IF i <= Len(ends) THEN ends[i] ELSE None
                   s == JO!Stage("Optional Shifting", "DELAY", x, y)
        <5>1. x \in Int \cup {None} /\ y \in Int \cup {None}
          BY <4>1, <4>2
        <5>2. shifts[i] = [s EXCEPT !.shift = i, !.status = IF @ = "DEVIATED" THEN "AVAILABLE" ELSE @]
          BY DEF JO!Shifts
        <5>3. Measured(s) /\ DOMAIN s = {"name", "category", "status", "start", "end", "hours", "shift"}
          <6> HIDE DEF x, y
          <6> QED
            BY <3>2, <5>1 DEF JO!Stage
        <5> HIDE DEF s, shifts
        <5>4. shifts[i].hours = s.hours /\ shifts[i].start = s.start /\ shifts[i].end = s.end
          BY <5>2, <5>3
        <5> QED
          BY <5>3, <5>4 DEF Measured
      <4> QED
        BY <4>2, <4>3, <4>4
    <3> HIDE DEF main, n, shifts, m
    <3>7. JO!DecompositionAddsUp(main, shifts)
      BY <3>4, <3>5, <3>6, DecompositionAlwaysAddsUp
    <3>8. JO!HandoversTelescope(main)
      BY <3>4, HandoversAlwaysTelescope
    <3>9. JO!NarrativeInventsNothing(main)
      BY <3>4, NarrativeNeverInvents
    <3>10. probe'.main = main /\ probe'.shifts = shifts
      BY <3>1 DEF main, shifts
    <3> QED
      BY <3>7, <3>8, <3>9, <3>10
  <2>2. ASSUME probe'.of = "observations" PROVE JO!SelectionIsBest(probe'.occs)
    <3>1. PICK o, p \in Observation : probe' = [of |-> "observations", occs |-> {o, p}]
      BY <1>2, <2>2, PickedBy DEF PickObservations, Pick
    <3>2. /\ o.verification \in Int /\ o.confidence \in Int /\ o.source \in Int /\ o.created \in Int
          /\ p.verification \in Int /\ p.confidence \in Int /\ p.source \in Int /\ p.created \in Int
      BY <3>1 DEF Observation
    <3>3. \A a, b \in {o, p} : /\ JO!Outranks(a, a)
                               /\ JO!Outranks(a, b) \/ JO!Outranks(b, a)
                               /\ JO!Outranks(a, b) => /\ a.verification <= b.verification
                                                       /\ a.verification = b.verification => a.confidence >= b.confidence
      BY <3>2, OutranksFacts
    <3>4. \E a \in {o, p} : \A b \in {o, p} : JO!Outranks(a, b)
      BY <3>3
    <3>5. JO!Selected({o, p}) \in {o, p} /\ \A b \in {o, p} : JO!Outranks(JO!Selected({o, p}), b)
      BY <3>4 DEF JO!Selected
    <3> DEFINE s == JO!Selected({o, p})
    <3> HIDE DEF s
    <3>6. \A b \in {o, p} : /\ s.verification <= b.verification
                            /\ s.verification = b.verification => s.confidence >= b.confidence
      BY <3>3, <3>5 DEF s
    <3> QED
      BY <3>1, <3>6 DEF JO!SelectionIsBest, s
  <2> QED
    BY <2>1, <2>2 DEF JourneyAddsUp
<1>3. UNCHANGED probe /\ JourneyAddsUp => JourneyAddsUp'
  BY DEF JourneyAddsUp
<1> QED
  BY <1>1, <1>2, <1>3, PTL DEF AlgorithmsSpec

=============================================================================
