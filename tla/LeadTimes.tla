------------------------------ MODULE LeadTimes ------------------------------
(* Lead times (services/analytics): the catalogue of event-to-event durations,*)
(* the occurrence each event resolves to, execution delays from the pilotage  *)
(* services, the named duration concepts, the custom builder and the          *)
(* statistics over a cohort.  Times are whole hours; None is no value.        *)
EXTENDS Statistics

CONSTANT None     \* Python's None: no value

Unavailable == [status |-> "UNAVAILABLE", hours |-> None]
Available(h) == [status |-> "AVAILABLE", hours |-> h]

\* CATALOGUE_SEEDS: start and end event of the event-based definitions with source data.
Catalogue ==
    [Turnaround          |-> <<"ATA", "ATD">>,
     AnchorageWait       |-> <<"ANCHORAGE_ARRIVAL", "PILOT_ON_BOARD_ARRIVAL">>,
     InwardMovement      |-> <<"PILOT_ON_BOARD_ARRIVAL", "ALL_FAST_ARRIVAL">>,
     BerthStay           |-> <<"ALL_FAST_ARRIVAL", "LAST_LINE_UNTIED_SAILING">>,
     CargoWorking        |-> <<"CARGO_START", "CARGO_END">>,
     OutwardMovement     |-> <<"PILOT_ON_BOARD_SAILING", "BREAKWATER_OUT">>,
     PreArrival          |-> <<"NOMINATION_SUBMITTED", "ATA">>,
     PilotResponse       |-> <<"PILOT_REQUEST_ARRIVAL", "PILOT_ON_BOARD_ARRIVAL">>,
     BreakwaterToAllFast |-> <<"BREAKWATER_IN", "ALL_FAST_ARRIVAL">>,
     FirstLineToAllFast  |-> <<"FIRST_LINE_TIED_ARRIVAL", "ALL_FAST_ARRIVAL">>,
     Unberthing          |-> <<"FIRST_LINE_UNTIED_SAILING", "LAST_LINE_UNTIED_SAILING">>,
     BreakwaterToATD     |-> <<"BREAKWATER_OUT", "ATD">>]

\* The definitions registered without source data: required events the fixture lacks.
NoSourceData ==
    {"Crane Start to Last Move", "First Container to ATD", "Berthing End to Unmooring Start",
     "Lashing End to ATD", "Anchor Drop to Aweigh", "Truck Gate Turnaround"}

\* An occurrence of an event: [index, time, superseded, quarantined].
Eligible(occs, excludeQuarantined) ==
    {o \in occs : ~o.superseded /\ (excludeQuarantined => ~o.quarantined)}

Earlier(a, b) == a.index < b.index \/ (a.index = b.index /\ a.time <= b.time)

\* Mutant: a governed selection is used whatever became of it.
ResolveStale(occs, selected, selection, excludeQuarantined) ==
    IF selected # None THEN selected
    ELSE LET live == Eligible(occs, excludeQuarantined)
         IN  IF live = {} THEN None ELSE CHOOSE o \in live : \A p \in live : Earlier(o, p)

\* _resolve_event_occurrence: the governed selection if it is still eligible, otherwise the
\* first or last eligible occurrence by index, then time.  selected is None or an occurrence.
Resolve(occs, selected, selection, excludeQuarantined) ==
    LET live == Eligible(occs, excludeQuarantined)
    IN  IF selected # None /\ selected \in live THEN selected
        ELSE IF live = {} THEN None
        ELSE IF selection = "last" THEN CHOOSE o \in live : \A p \in live : Earlier(p, o)
        ELSE CHOOSE o \in live : \A p \in live : Earlier(o, p)

\* _compute_event_duration: a Turnaround of a call whose source row has a blank ATA is not
\* available even when an occurrence resolves; a negative difference is kept.
EventDuration(name, ataBlank, start, end) ==
    IF name = "Turnaround" /\ ataBlank THEN Unavailable
    ELSE IF start = None \/ end = None THEN Unavailable
    ELSE Available(end.time - start.time)

\* _compute_single_definition: one result per definition and call.  Rows are sequences of
\* [call, result]; a second row of a call is deleted, a missing one is created.
UpsertResults(rows, calls, result) ==
    LET first == {i \in DOMAIN rows : /\ rows[i].call \in calls
                                      /\ \A j \in 1..(i - 1) : rows[j].call # rows[i].call}
        kept == Filter([i \in DOMAIN rows |-> <<i, rows[i]>>],
                       LAMBDA p : p[1] \in first \/ p[2].call \notin calls)
        missing == calls \ {rows[i].call : i \in first}
    IN  [i \in DOMAIN kept |->
            IF kept[i][2].call \in calls THEN [kept[i][2] EXCEPT !.result = result[kept[i][2].call]] ELSE kept[i][2]]
        \o SetToSeq({[call |-> c, result |-> result[c]] : c \in missing})

\* _compute_execution_delay: services are the pilotage records of the call in the order of
\* their scheduled times, [movement, scheduled, served].  A record of the movement is taken;
\* else the first is the arrival and, when there are several, the last is the sailing.
ExecutionService(services, movement) ==
    LET typed == {i \in DOMAIN services : services[i].movement = movement}
    IN  IF typed # {} THEN CHOOSE i \in typed : \A j \in typed : i <= j
        ELSE IF services = <<>> THEN 0
        ELSE IF movement = "Arrival" THEN 1
        ELSE IF Len(services) > 1 THEN Len(services) ELSE 0

ExecutionDelay(services, movement) ==
    LET i == ExecutionService(services, movement)
    IN  IF i = 0 THEN Unavailable
        ELSE IF services[i].scheduled = None \/ services[i].served = None THEN Unavailable
        ELSE Available(services[i].served - services[i].scheduled)

-----------------------------------------------------------------------------
(* The named duration concepts (duration_semantics.py).                       *)

Difference(from, to) == IF from = None \/ to = None THEN Unavailable ELSE Available(to - from)
LeadTime(startActual, endActual) == Difference(startActual, endActual)
PlanningLeadTime(submission, requested) == Difference(submission, requested)
SchedulingGap(requested, scheduled) == Difference(requested, scheduled)
ServiceExecutionDelay(scheduled, served) == Difference(scheduled, served)
TargetVariance(actual, target) == Difference(target, actual)

\* Waiting and service time: the stages of the categories that have a duration.
TimeIn(stages, categories) ==
    LET counted == Filter(stages, LAMBDA s : s.category \in categories /\ s.hours # None)
    IN  IF counted = <<>> THEN Unavailable
        ELSE Available(Total([i \in DOMAIN counted |-> counted[i].hours]))
WaitingTime(stages) == TimeIn(stages, {"PASSIVE_WAIT", "HOLD", "WAITING"})
ServiceTime(stages) == TimeIn(stages, {"ACTIVE_SERVICE", "SERVICE"})

DelayFrequency(delayed, total) == IF total <= 0 THEN Unavailable ELSE Available((100 * delayed) \div total)
EarlyDelivery(delay) ==
    IF delay.hours = None THEN Unavailable ELSE Available(IF delay.hours < 0 THEN delay.hours ELSE 0)

-----------------------------------------------------------------------------
(* The custom builder.                                                        *)

\* The per-call durations between two events for an occurrence selection.
BuildPairs(starts, ends, selection, n) ==
    CASE selection = "all" -> [i \in 1..Least(Len(starts), Len(ends)) |-> <<starts[i], ends[i]>>]
      [] selection = "first" /\ starts # <<>> /\ ends # <<>> -> <<<<starts[1], ends[1]>>>>
      [] selection = "last" /\ starts # <<>> /\ ends # <<>> -> <<<<starts[Len(starts)], ends[Len(ends)]>>>>
      [] selection = "nth" /\ Len(starts) >= n /\ Len(ends) >= n -> <<<<starts[n], ends[n]>>>>
      [] OTHER -> <<>>

\* Five bins between the smallest and the largest duration; the last bin is closed.  Bounds in
\* fifths of an hour: with whole hours the code's rounding of the bounds is exact.
Histogram(d) ==
    LET lo == Min(ToSet(d))
        step == Max(ToSet(d)) - lo
    IN  [b \in 0..4 |-> Count(d, LAMBDA x : LET y == 5 * (x - lo)
                                            IN  \/ b * step <= y /\ y < (b + 1) * step
                                                \/ b = 4 /\ y = 5 * step)]

\* compute_statistics: the aggregate of the available results, quantiles in hundredths.
Aggregate(d) ==
    [count |-> Len(d), sum |-> Total(d), median |-> 50 * Median2(d),
     least |-> 100 * Min(ToSet(d)), most |-> 100 * Max(ToSet(d)),
     p25 |-> Quantile100(d, 25), p75 |-> Quantile100(d, 75),
     p90 |-> Quantile100(d, 90), p95 |-> Quantile100(d, 95),
     skewed |-> Median2(d) > 0 /\ 10 * Total(d) > 6 * Len(d) * Median2(d),
     small |-> Len(d) < 5]

\* Durations beyond the Tukey fences, by position in the sample.
OutlierPositions(d) ==
    LET a == Aggregate(d)
        iqr == a.p75 - a.p25
    IN  {i \in DOMAIN d : 200 * d[i] < 2 * a.p25 - 3 * iqr \/ 200 * d[i] > 2 * a.p75 + 3 * iqr}

-----------------------------------------------------------------------------
(* Properties.                                                                *)

\* The occurrence a lead time uses is never superseded or quarantined, a governed selection
\* wins while it is eligible, and an event with an eligible occurrence is never missing.
ResolvesEligible(occs, selected, selection) ==
    LET o == Resolve(occs, selected, selection, TRUE)
        live == {p \in occs : ~p.superseded /\ ~p.quarantined}
    IN  /\ o = None <=> live = {}
        /\ o # None => o \in live
        /\ selected \in live => o = selected

\* Recomputing keeps the 1:1 relation of results to calls, with duplicates of an earlier
\* race removed, and leaves the results of other calls alone.
OneResultPerCall(rows, calls, result) ==
    LET after == UpsertResults(rows, calls, result)
    IN  /\ \A c \in calls : \E i \in DOMAIN after :
               /\ after[i] = [call |-> c, result |-> result[c]]
               /\ \A j \in DOMAIN after \ {i} : after[j].call # c
        /\ Filter(after, LAMBDA r : r.call \notin calls) = Filter(rows, LAMBDA r : r.call \notin calls)

\* Arrival and sailing share a record only when no record states one of the two movements;
\* a record of the movement is preferred; an early service keeps its sign in every concept.
DelaysKeepServicesApart(services) ==
    LET a == ExecutionService(services, "Arrival")
        s == ExecutionService(services, "Sailing")
    IN  /\ a # 0 /\ a = s => \E m \in {"Arrival", "Sailing"} :
               \A i \in DOMAIN services : services[i].movement \notin {"Arrival", "Sailing"} \ {m}
        /\ \A m \in {"Arrival", "Sailing"} :
               LET i == ExecutionService(services, m)
                   d == ExecutionDelay(services, m)
               IN  /\ (\E j \in DOMAIN services : services[j].movement = m) => services[i].movement = m
                   /\ d.hours # None =>
                          /\ EarlyDelivery(d).hours <= 0
                          /\ d.hours < 0 => EarlyDelivery(d) = d
                          /\ d = ServiceExecutionDelay(services[i].scheduled, services[i].served)

\* The quantiles are ordered and lie within the sample, the middle half is never an outlier,
\* and the histogram counts every duration once.
AggregateIsSound(d) ==
    LET a == Aggregate(d)
    IN  /\ a.least <= a.p25 /\ a.p25 <= a.median /\ a.median <= a.p75
        /\ a.p75 <= a.p90 /\ a.p90 <= a.p95 /\ a.p95 <= a.most
        /\ \A i \in OutlierPositions(d) : 100 * d[i] < a.p25 \/ 100 * d[i] > a.p75
        /\ Min(ToSet(d)) < Max(ToSet(d)) => Total([b \in 1..5 |-> Histogram(d)[b - 1]]) = Len(d)
        /\ Spread(d) = 0 => OutlierPositions(d) = {}
        /\ Len(d) <= 3 => OutlierPositions(d) = {}
=============================================================================
