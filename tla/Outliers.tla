------------------------------- MODULE Outliers -------------------------------
(* Outlier detection (services/outliers/engine.py): the threshold rules over  *)
(* a sample of values, the sequence, shift and quality rules, the record kept *)
(* per rule and call, and how stored records are presented.  A row of a       *)
(* sample is [call, value] with values in whole hours.                        *)
EXTENDS Statistics

CONSTANT None     \* Python's None: no value

LT == INSTANCE LeadTimes

Values(rows) == [i \in DOMAIN rows |-> rows[i].value]
Record(rule, category, call, severity) == [rule |-> rule, category |-> category, call |-> call, severity |-> severity]

\* _lead_time_rows and _event_pair_rows: available results, and events of one call that both resolve.
LeadTimeRows(results) == Filter(results, LAMBDA r : r.status = "AVAILABLE" /\ r.value # None)
EventPairRows(calls) ==
    LET start(c) == LT!Resolve(c.starts, c.startWinner, "first", TRUE)
        end(c) == LT!Resolve(c.ends, c.endWinner, "first", TRUE)
        both == Filter(calls, LAMBDA c : start(c) # None /\ end(c) # None)
    IN  [i \in DOMAIN both |-> [call |-> both[i].call, value |-> end(both[i]).time - start(both[i]).time]]

\* Mutant: negative durations stay in the population of the percentile.
HighRuleAll(rows, p) ==
    LET limit == Quantile100(Values(rows), p)
    IN  IF rows = <<>> THEN <<>> ELSE Filter(rows, LAMBDA r : 100 * r.value > limit)

\* _high_rule: above the linear percentile of the non-negative values; critical beyond 1.5 times it.
HighRule(rows, p) ==
    LET eligible == Filter(rows, LAMBDA r : r.value >= 0)
        limit == Quantile100(Values(eligible), p)
    IN  IF eligible = <<>> THEN <<>> ELSE Filter(eligible, LAMBDA r : 100 * r.value > limit)
HighSeverity(rows, p, value) ==
    LET limit == Quantile100(Values(Filter(rows, LAMBDA r : r.value >= 0)), p)
    IN  IF limit > 0 /\ 200 * value > 3 * limit THEN "CRITICAL" ELSE "HIGH"

\* _three_sd_rule: above mean + 3 sample standard deviations.  With n values of total t,
\* x > t/n + 3 sd is (n x - t) > 0 and (n - 1) (n x - t)^2 > 9 n (n sum(x^2) - t^2) .
ThreeSdRule(rows) ==
    LET v == Values(rows)
        n == Len(v)
        excess(x) == n * x - Total(v)
    IN  IF n < 2 THEN <<>>
        ELSE Filter(rows, LAMBDA r : /\ excess(r.value) > 0
                                     /\ (n - 1) * excess(r.value) * excess(r.value) > 9 * n * Spread(v))

\* The early-service rule: below the 30th percentile, negative values included.
EarlyRule(rows) ==
    IF rows = <<>> THEN <<>> ELSE Filter(rows, LAMBDA r : 100 * r.value < Quantile100(Values(rows), 30))

\* Tug service before pilot boarding; more than one shift; sailing variance by magnitude.
TugBeforePilot(pilot, tugs) == {t \in tugs : pilot # None /\ t # None /\ t < pilot}
ManyShifts(occs) == Cardinality(LT!Eligible(occs, TRUE)) > 1
VarianceRows(rows) == [i \in DOMAIN rows |-> [rows[i] EXCEPT !.value = Abs(@)]]

\* _quality_outliers: the class of an unresolved issue by the words of its rule, or None.
QualityOutlier(issue) ==
    CASE issue.status = "RESOLVED" -> None
      [] issue.status # "RESOLVED" /\ (issue.words \cap {"SEQUENCE", "CHRONO"} # {} \/ issue.rule \in {"DQ-004", "DQ-006"}) ->
             Record("OUT-V2-031", "Sequence Outlier", issue.call, issue.severity)
      [] issue.status # "RESOLVED" /\ issue.words \cap {"SEQUENCE", "CHRONO"} = {} /\ issue.rule \notin {"DQ-004", "DQ-006"}
         /\ issue.words \cap {"MISSING", "DUPLICATE"} # {} ->
             Record("OUT-V2-032", "Data Quality Outlier", issue.call, issue.severity)
      [] OTHER -> None

\* The percentile rules of detect_all_outliers: [metric, percentile].
HighRules ==
    [OUT_V2_001 |-> <<"Turnaround", 90>>, OUT_V2_006 |-> <<"Anchorage Wait", 95>>,
     OUT_V2_015 |-> <<"Unberthing Duration", 90>>, OUT_V2_025 |-> <<"Breakwater In to All Fast", 90>>,
     OUT_V2_011 |-> <<"All Fast to Cargo Start", 90>>, OUT_V2_012 |-> <<"Cargo End to Pilot Sailing", 90>>,
     OUT_V2_013 |-> <<"Cargo End to Last Line", 90>>, OUT_V2_024 |-> <<"Pilot to Breakwater In", 90>>,
     OUT_V2_026 |-> <<"Breakwater Out to Port Limit", 90>>, OUT_V2_042 |-> <<"First to Last Line", 90>>,
     OUT_V2_034 |-> <<"Sailing Variance", 90>>]

\* One record per rule and call: the last one detected.
LastPerKey(records) ==
    {records[i] : i \in {i \in DOMAIN records :
        \A j \in (i + 1)..Len(records) : <<records[j].rule, records[j].call>> # <<records[i].rule, records[i].call>>}}

\* presented_outlier_category and the legacy rows of list_outliers: [type, metric, rule].
IsLegacy(row) == row.type = "OPERATIONAL_OUTLIER" /\ row.metric = "Turnaround" /\ row.rule = None
PresentedCategory(row) ==
    IF row.type = "OPERATIONAL_OUTLIER" /\ row.metric = "Turnaround" THEN "Time-based Outlier" ELSE row.type
Listed(rows, type) ==
    IF type = None THEN rows
    ELSE {r \in rows : \/ r.type = type
                       \/ type = "Time-based Outlier" /\ r.type = "OPERATIONAL_OUTLIER" /\ r.metric = "Turnaround"}

-----------------------------------------------------------------------------
(* Properties.                                                                *)

\* _high_rule: at most one value in ten is flagged (rounded up), each of them above more than p per
\* cent of the other values of its population, and negative durations are no part of that
\* population: one more of them changes nothing.
HighRuleIsSelective(rows, p) ==
    LET hits == HighRule(rows, p)
        eligible == Filter(rows, LAMBDA r : r.value >= 0)
        below(hit) == {k \in DOMAIN eligible : eligible[k].value < hit.value}
        negative == <<[call |-> 0, value |-> -50]>>
    IN  /\ Len(hits) * 10 <= Len(eligible) + 9
        /\ \A i \in DOMAIN hits : 100 * Cardinality(below(hits[i])) > p * (Len(eligible) - 1)
        /\ HighRule(rows \o negative, p) = hits

\* _three_sd_rule: nine times the flagged values are fewer than the other values of the sample, so
\* nothing is flagged in a sample of ten or fewer, whatever its values.
ThreeSdIsRare(rows) ==
    LET hits == ThreeSdRule(rows) IN hits # <<>> => 9 * Len(hits) < Len(rows) - 1

\* _three_sd_rule: the bound is met: one larger value over equal ones is flagged exactly from eleven
\* values on, however large it is.
ThreeSdNeedsEleven(n, low, high) ==
    LET rows == [i \in 1..n |-> [call |-> i, value |-> IF i = n THEN high ELSE low]]
    IN  (ThreeSdRule(rows) # <<>>) <=> n >= 11

\* Every call that a rule flags keeps exactly one record of that rule.
OneRecordPerKey(records) ==
    /\ {<<r.rule, r.call>> : r \in LastPerKey(records)} = {<<records[i].rule, records[i].call>> : i \in DOMAIN records}
    /\ \A a, b \in LastPerKey(records) : <<a.rule, a.call>> = <<b.rule, b.call>> => a = b

\* A row is found under the category it is presented with.
ListedAsPresented(rows) ==
    \A r \in rows : r \in Listed(rows, PresentedCategory(r))
=============================================================================
