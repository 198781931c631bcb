-------------------------- MODULE ExecutiveSummary ---------------------------
(* What the executive dashboard computes (services/dashboard/executive.py):   *)
(* the cohort of calls, its quality partition, throughput by unit, lead-time  *)
(* metrics and the delay summary.                                             *)
EXTENDS Statistics

\* The cohort: unmerged calls of the tenant inside the date window, by arrival or creation.
Cohort(calls, from, to) ==
    {c \in calls : /\ ~c.merged
                   /\ LET at == IF c.ata # 0 THEN c.ata ELSE c.created
                      IN  (from # 0 => at >= from) /\ (to # 0 => at <= to)}

\* Calls with an unresolved critical issue, with another unresolved issue, and the rest.
Unresolved(c) == {i \in c.issues : i.status # "RESOLVED"}
Quarantined(calls) == {c \in calls : \E i \in Unresolved(c) : i.severity = "CRITICAL"}

\* Mutant: a quarantined call with a further issue also counts as flagged.
FlaggedToo(calls) == {c \in calls : \E i \in Unresolved(c) : i.severity # "CRITICAL"}

Flagged(calls) == {c \in calls : \E i \in Unresolved(c) : i.severity # "CRITICAL"} \ Quarantined(calls)
Clean(calls) == (calls \ Quarantined(calls)) \ Flagged(calls)

\* The quality_status filter; an unknown value filters nothing.
OfQuality(calls, status) ==
    CASE status = "QUARANTINED" -> Quarantined(calls)
      [] status = "FLAGGED" -> Flagged(calls)
      [] status = "CLEAN" -> Clean(calls)
      [] OTHER -> calls

QualityCounts(calls, status) ==
    LET kept == OfQuality(calls, status)
    IN  [total |-> Cardinality(kept),
         clean |-> Cardinality(kept \cap Clean(calls)),
         quarantined |-> Cardinality(kept \cap Quarantined(calls)),
         flagged |-> Cardinality(kept \cap Flagged(calls))]

\* The unit a cargo row counts under: its own, or the one its cargo type implies.
ThroughputUnit(row) ==
    IF row.unit \in {"TEU", "MT", "Units"} THEN row.unit
    ELSE CASE row.cargo = "Container" -> "TEU"
           [] row.cargo \in {"Bulk", "Liquid Bulk", "Break Bulk"} -> "MT"
           [] OTHER -> "Units"

Throughput(cargo, unit) ==
    Total([i \in DOMAIN cargo |-> IF ThroughputUnit(cargo[i]) = unit THEN cargo[i].quantity ELSE 0])

\* Lead-time metrics of one definition over the results of the cohort.
LeadTimeMetric(results) ==
    LET available == Filter(results, LAMBDA r : r.status = "AVAILABLE")
        d == [i \in DOMAIN available |-> available[i].hours]
    IN  [status |-> IF d = <<>> THEN "UNAVAILABLE" ELSE "COMPUTED",
         observations |-> Len(d),
         missing |-> Count(results, LAMBDA r : r.status = "UNAVAILABLE"),
         early |-> Count(d, LAMBDA x : x < 0),
         delayed |-> Count(d, LAMBDA x : x > 0),
         onTime |-> Count(d, LAMBDA x : x = 0),
         p90 |-> IF d = <<>> THEN 0 ELSE Quantile100(d, 90)]

\* The delay summary: confirmed and inferred parts, hours by category; the answer shows the six
\* categories with the most hours.
DelayCategory(d) ==
    IF d.canonical # "none" THEN d.canonical ELSE IF d.source # "none" THEN d.source ELSE "Unclassified"
DelayHours(delays, P(_)) ==
    Total([i \in DOMAIN delays |-> IF P(delays[i]) THEN delays[i].hours ELSE 0])
DelaySummary(delays) ==
    [count |-> Len(delays),
     hours |-> DelayHours(delays, LAMBDA d : TRUE),
     confirmed |-> DelayHours(delays, LAMBDA d : d.cause = "CONFIRMED"),
     inferred |-> DelayHours(delays, LAMBDA d : d.cause = "INFERRED"),
     category |-> [c \in {DelayCategory(delays[i]) : i \in DOMAIN delays} |->
                      DelayHours(delays, LAMBDA d : DelayCategory(d) = c)]]

-----------------------------------------------------------------------------
\* Every call of the cohort is counted exactly once as clean, flagged or quarantined, under
\* every quality filter, and the three filters split the unfiltered cohort.
QualitySplitsCohort(calls) ==
    /\ \A s \in {"none", "CLEAN", "FLAGGED", "QUARANTINED"} :
           LET q == QualityCounts(calls, s) IN q.total = q.clean + q.flagged + q.quarantined
    /\ Cardinality(calls) = QualityCounts(calls, "CLEAN").total + QualityCounts(calls, "FLAGGED").total
                            + QualityCounts(calls, "QUARANTINED").total

\* No quantity is lost or counted under two units, and a row is never counted under a unit
\* other than the one it states.
ThroughputAccounts(cargo) ==
    /\ Throughput(cargo, "TEU") + Throughput(cargo, "MT") + Throughput(cargo, "Units")
         = Total([i \in DOMAIN cargo |-> cargo[i].quantity])
    /\ \A i \in DOMAIN cargo : cargo[i].unit \in {"TEU", "MT", "Units"} =>
           ThroughputUnit(cargo[i]) = cargo[i].unit

\* Early, on-time and delayed services add up to the observations, and the hours of all categories,
\* before the answer is cut to six of them, add up to the total.
SummaryAccounts(results, delays) ==
    LET m == LeadTimeMetric(results)
        s == DelaySummary(delays)
    IN  /\ m.early + m.onTime + m.delayed = m.observations
        /\ m.observations + m.missing = Len(results)
        /\ SumFunction(s.category) = s.hours
=============================================================================
