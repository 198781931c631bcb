----------------------------- MODULE Algorithms ------------------------------
(* The calculations of the analytics services over every small input: a       *)
(* behaviour picks one input of one calculation, and the invariants compare   *)
(* what the calculation yields with what it has to satisfy.                   *)
EXTENDS Integers, Sequences, FiniteSets, TLC

CONSTANTS
    None,         \* no value
    SampleHours,        \* the durations of a sample
    MaxSample     \* bound: size of a sample

\* A duration is a number of hours.
ASSUME SampleType == SampleHours \subseteq Int /\ MaxSample \in Nat

BN == INSTANCE Bottlenecks
EX == INSTANCE ExecutiveSummary
LT == INSTANCE LeadTimes
DA == INSTANCE DelayAnalysis
OU == INSTANCE Outliers
JO == INSTANCE Journey
QR == INSTANCE QualityRules
WB == INSTANCE Workbook
DS == INSTANCE DataScope
KP == INSTANCE Kpis
CR == INSTANCE Criticality

VARIABLE probe    \* the chosen input: [of |-> the calculation, ...]

Samples == UNION {[1..n -> SampleHours] : n \in 1..MaxSample}
UpTo(S, n) == UNION {[1..k -> S] : k \in 0..n}

AlgorithmsInit == probe = [of |-> "none"]
Unpicked == probe.of = "none"
Pick(input) == probe' = input

-----------------------------------------------------------------------------
(* Inputs.                                                                    *)

PickStages ==
    Unpicked /\ \E n \in 2..MaxSample, h \in {12, 30, 47} : \E short \in [1..n -> {1, 2, 5, 9, 11}] :
        Pick([of |-> "stages", long |-> [i \in 1..n |-> h], short |-> short])

Issue == [severity : {"CRITICAL", "HIGH"}, status : {"OPEN", "RESOLVED"}]
SummaryCall == [id : {1, 2}, merged : {FALSE}, ata : {0, 5}, created : {3}, issues : SUBSET Issue]
PickCohort ==
    Unpicked /\ \E a, b \in {c \in SummaryCall : Cardinality(c.issues) <= 2} :
        a.id = 1 /\ b.id = 2 /\ Pick([of |-> "cohort", calls |-> {a, b}])

CargoRow == [unit : {"TEU", "MT", "Units", "none"}, cargo : {"Container", "Bulk", "Vehicles"}, quantity : {1, 2}]
PickCargo == Unpicked /\ \E c \in UpTo(CargoRow, 2) : Pick([of |-> "cargo", cargo |-> c])

Result == {[status |-> "AVAILABLE", hours |-> h] : h \in {-1, 0, 2}} \cup {[status |-> "UNAVAILABLE"]}
SummaryDelay == [canonical : {"Tug", "none"}, source : {"Pilot", "none"},
                 cause : {"CONFIRMED", "INFERRED", "UNKNOWN"}, hours : {-1, 2}]
PickSummary ==
    Unpicked /\ \E r \in UpTo(Result, 2), d \in UpTo(SummaryDelay, 2) :
        Pick([of |-> "summary", results |-> r, delays |-> d])

Occurrence == [index : {1, 2}, time : {0, 3}, superseded : BOOLEAN, quarantined : BOOLEAN]

\* Texts that stand where a value may be absent.
Texts == {"OPERATIONAL_OUTLIER", "Time-based Outlier", "VesselCalls", "Events", "Services", "CargoOps", "Delays"}

\* The absent value is neither a number, a text nor an occurrence.
ASSUME NoneIsNoValue == None \notin Int /\ None \notin Texts /\ None \notin Occurrence /\ None \notin WB!EventNames

PickOccurrences ==
    Unpicked /\ \E occs \in {S \in SUBSET Occurrence : Cardinality(S) <= 3}, last \in {"first", "last"} :
        \E s \in occs \cup {None} :
            Pick([of |-> "occurrences", occs |-> occs, selected |-> s, selection |-> last])

PickResults ==
    Unpicked /\ \E rows \in UpTo([call : {1, 2, 3}, result : {"old"}], 4), calls \in SUBSET {1, 2} :
        Pick([of |-> "results", rows |-> rows, calls |-> calls])

Service == [movement : {"Arrival", "Sailing", "none"}, scheduled : {2, None}, served : {1, 2, 4, None}]
PickServices == Unpicked /\ \E s \in UpTo(Service, 2) : Pick([of |-> "services", services |-> s])

PickSample == Unpicked /\ \E d \in Samples : Pick([of |-> "sample", sample |-> d])

TimedService == [movement : {{"arrival"}, {"sailing"}}, type : {{"pilot"}, {"tug"}}, submission : {0},
                 requested : {None, 1}, scheduled : {None, 0, 2}, served : {None, 1, 2, 3}]
FiveArrivals == [1..5 -> [movement : {{"arrival"}}, type : {{"pilot"}}, submission : {0}, requested : {1},
                          scheduled : {2}, served : {1, 3}]]
PickTimings == Unpicked /\ \E s \in UpTo(TimedService, 2) \cup FiveArrivals : Pick([of |-> "timings", services |-> s])

ListedDelay == [stage : {{"arrival"}, {"sailing"}}, category : {"Tug", "Pilot", None}, hours : {1, 3},
                cause : {"Confirmed", "Inferred"}, allocs : {<<>>, <<1>>, <<2>>}, review : {FALSE}]
PickDelays == Unpicked /\ \E d \in UpTo(ListedDelay, 2) : Pick([of |-> "delays", delays |-> d])

PickReason ==
    Unpicked /\ \E src \in SUBSET {"weather", "vessel"}, rsn \in SUBSET {"tug", "pilot", "fog", "berth", "cargo"}, x \in {None, "Mooring"} :
        Pick([of |-> "reason", src |-> src, rsn |-> rsn, exact |-> x])

EvidenceRecord == [type : {"tug", "pilot", "berth"}, movement : {{}, {"arrival"}, {"sailing"}},
                   scheduled : {None, 0}, served : {None, 5, 9}]
PickEvidence ==
    Unpicked /\ \E s \in UpTo(EvidenceRecord, 2), stage \in {{"arrival"}, {"sailing"}} :
        Pick([of |-> "evidence", services |-> s, stage |-> stage])

PickOutlierRows ==
    Unpicked /\ \E d \in Samples, p \in {90, 95} :
        Pick([of |-> "outliers", rows |-> [i \in DOMAIN d |-> [call |-> i, value |-> d[i]]], percentile |-> p])
PickExtreme ==
    Unpicked /\ \E n \in 2..22, low \in {0, 1}, high \in {5, 9} : Pick([of |-> "extreme", n |-> n, low |-> low, high |-> high])
\* Samples of n values, the last h of which are high.
PickHigh ==
    Unpicked /\ \E n \in 2..22, h \in 1..3, high \in {5, 9} :
        Pick([of |-> "high", rows |-> [i \in 1..n |-> [call |-> i, value |-> IF i > n - h THEN high ELSE i % 2]]])
PickDetected ==
    Unpicked /\ \E r \in UpTo([rule : {"a", "b"}, call : {1, 2}, severity : {"HIGH", "CRITICAL"}], 3) : Pick([of |-> "detected", records |-> r])
PickStored ==
    Unpicked /\ \E rows \in SUBSET [type : {"OPERATIONAL_OUTLIER", "Time-based Outlier"}, metric : {"Turnaround", "Berth"}, rule : {None, "r"}] :
        Pick([of |-> "stored", rows |-> rows])

Instants == {None, 0, 2, 4}
PickJourney ==
    Unpicked /\ \E a, b, c, d \in Instants, starts \in {<<>>, <<1>>, <<3>>, <<1, 3>>}, ends \in {<<>>, <<2>>, <<4>>, <<2, 4>>} :
        Pick([of |-> "journey", shifts |-> JO!Shifts(starts, ends),
              main |-> <<JO!Stage("berthing", "ACTIVE_SERVICE", a, b), JO!Stage("waiting", "PASSIVE_WAIT", c, d)>>])
Observation == [id : {1, 2}, verification : {0, 1}, confidence : {50, 90}, source : {0, 1}, created : {0, 1}]
PickObservations == Unpicked /\ \E o, p \in Observation : Pick([of |-> "observations", occs |-> {o, p}])

PickQualityService == Unpicked /\ \E r, s, t \in {None, 1, 2, 3} : Pick([of |-> "service", service |-> [requested |-> r, scheduled |-> s, served |-> t]])
EventList(id) == {<<>>} \cup {<<[id |-> id, time |-> t]>> : t \in {0, 1}}
PickQualityCall ==
    Unpicked /\ \E sheet \in [eta : {None, 1, 2}, ata : {None, 1}], eta \in EventList("eta"), ata \in EventList("ata"),
      anchorage \in EventList("anchorage"), pilot \in EventList("pilot"), disembark \in EventList("disembark"),
      request \in EventList("request"),
      services \in {<<>>, <<[requested |-> 1, scheduled |-> 2, served |-> 3]>>} :
        Pick([of |-> "quality", call |-> [sheet |-> sheet, eta |-> eta, ata |-> ata, anchorage |-> anchorage, pilotOnBoard |-> pilot,
              pilotDisembark |-> disembark, pilotRequest |-> request, pilotScheduled |-> <<>>, services |-> services, reasons |-> <<>>]])

PickSheet ==
    Unpicked /\ \E rows \in UpTo(SUBSET {"VCN", "Service_Type", "Movement_Type", "Cargo_Type", "Delay_Hours"}, 2),
      named \in {None, "Services", "CargoOps"} :
        Pick([of |-> "sheet", rows |-> rows, named |-> named])
PickRow == Unpicked /\ \E r \in UpTo([column : {"VCN", "Notes"}, value : {None, 1, 2}], 3) : Pick([of |-> "row", row |-> r])
PickStaged ==
    Unpicked /\ \E r \in UpTo([table : {"delay", "vessel_call"}, data : {1, 2}, badTime : BOOLEAN], 3) : Pick([of |-> "staged", rows |-> r])
EventRow == {e \in [vcn : {1, 2}, name : {None, "Port Limits", "Requested time", "CARGO_START", "Tally"},
                    movement : {None, "OUTWARD"}, time : {5}, offset : BOOLEAN, zone : {"absent", "blank"}] :
                /\ e.movement = None \/ e.name = "Requested time"
                /\ e.offset => e.zone = "blank"}
PickCommit ==
    Unpicked /\ \E calls \in {<<1>>, <<1, 1>>}, events \in UpTo(EventRow, 2), cargo \in UpTo([vcn : {1, 2}, start : {None, 7}], 2) :
        Pick([of |-> "commit", calls |-> calls, events |-> events, cargo |-> cargo])

ScopedRow == [id : {1}, tenant : {"a", "b"}, port : {None, "P", "Q"}, terminal : {None, "T", "U"}, merged : BOOLEAN]
PickScope ==
    Unpicked /\ \E scope \in [tenant : {"a", "*"}, port : {None, "*", "P"}, terminal : {None, "*", "T"}],
      filter \in [port : {None, "P", "Q"}, terminal : {None, "T"}, merged : {None, FALSE}], requested \in {None, "a", "b"} :
        Pick([of |-> "scope", scope |-> scope, filter |-> filter, requested |-> requested])

\* Times in the order of a call: anchorage, pilot, berth, cargo end, out.
CallTimes == {<<0, 1, 2, 5, 6>>, <<0, 4, 2, 2, 1>>, <<None, 1, None, 5, 6>>, <<0, None, 2, None, None>>}
EventTier == <<{"ATA", "ANCHORAGE_ARRIVAL", "PILOT_SCHEDULED_ARRIVAL", "PILOT_REQUEST_ARRIVAL"},
               {"PILOT_ON_BOARD_ARRIVAL"}, {"FIRST_LINE_TIED_ARRIVAL", "ALL_FAST_ARRIVAL", "CARGO_START"},
               {"CARGO_END", "LAST_LINE_UNTIED_SAILING"}, {"BREAKWATER_OUT", "ATD", "PORT_LIMIT_OUT"}>>
TimesOf(t) == [n \in UNION {EventTier[i] : i \in 1..5} |-> t[CHOOSE i \in 1..5 : n \in EventTier[i]]]
KpiCargo == {[unit |-> "TEU", quantity |-> 6, working |-> 2, cranes |-> 1, downtime |-> 1, operation |-> "Load"],
             [unit |-> "TEU", quantity |-> None, working |-> 0, cranes |-> 0, downtime |-> 0, operation |-> "Restow"],
             [unit |-> "MT", quantity |-> 4, working |-> None, cranes |-> None, downtime |-> 3, operation |-> "Discharge"]}
KpiCall(t, cargo, type, tenant, merged) ==
    [merged |-> merged, tenant |-> tenant, type |-> type, unit |-> "TEU", ata |-> t[1], at |-> TimesOf(t), cargo |-> cargo,
     shifts |-> <<[start |-> t[2], end |-> t[4]], [start |-> t[4], end |-> t[3]]>>]
KpiCodes == {"KPI-01", "KPI-02", "KPI-03", "KPI-04", "KPI-05", "KPI-07", "KPI-12", "KPI-13", "KPI-15", "KPI-16", "KPI-17",
             "KPI-18", "KPI-19", "KPI-20", "KPI-21", "KPI-23", "KPI-24", "KPI-25", "KPI-27", "KPI-28", "KPI-29", "KPI-30",
             "KPI-41", "KPI-42", "KPI-43", "KPI-45", "KPI-54"}
Kpi(code) == [code |-> code, source |-> TRUE, alias |-> None, lower |-> TRUE, target |-> 4, green |-> None, amber |-> None]
AliasOf(code, source) == [Kpi("KPI-53") EXCEPT !.alias = [Kpi(code) EXCEPT !.source = source], !.green = 2]
PickKpiCalls ==
    Unpicked /\ \E t, u \in CallTimes, c, d \in UpTo(KpiCargo, 1), of \in {<<"a", FALSE>>, <<"a", TRUE>>, <<"b", FALSE>>},
      unit \in {None, "TEU"}, from \in {None, 1} :
        Pick([of |-> "kpi", cohort |-> [type |-> None, unit |-> unit, from |-> from, to |-> None],
              calls |-> <<KpiCall(t, c, "Container", "a", FALSE), KpiCall(u, d, "Bulk", of[1], of[2])>>])
\* Values on, between and within a hundredth of the limits.
TrendValues == [num : 0..6, den : {1, 2}] \cup [num : {399, 401, 799}, den : {200}]
PickTrend ==
    Unpicked /\ \E lower \in BOOLEAN, target, green, amber \in {None, 2, 4}, old, new \in TrendValues :
        Pick([of |-> "trend", old |-> old, new |-> new,
              kpi |-> [Kpi("KPI-41") EXCEPT !.lower = lower, !.target = target, !.green = green, !.amber = amber]])
PickWinner ==
    Unpicked /\ \E occs \in {S \in SUBSET [id : {1, 2}, time : {0, 3}, superseded : BOOLEAN, quarantined : BOOLEAN] :
                                   Cardinality(S) <= 2}, winner \in {None, 1, 2} :
        Pick([of |-> "winner", occs |-> occs, winner |-> winner])

AlgorithmsNext ==
    \/ PickStages \/ PickCohort \/ PickCargo \/ PickSummary \/ PickOccurrences \/ PickResults
    \/ PickServices \/ PickSample
    \/ PickTimings \/ PickDelays \/ PickReason \/ PickEvidence
    \/ PickOutlierRows \/ PickExtreme \/ PickHigh \/ PickDetected \/ PickStored
    \/ PickJourney \/ PickObservations \/ PickQualityService \/ PickQualityCall
    \/ PickSheet \/ PickRow \/ PickStaged \/ PickCommit \/ PickScope
    \/ PickKpiCalls \/ PickTrend \/ PickWinner

AlgorithmsSpec == AlgorithmsInit /\ [][AlgorithmsNext]_probe

-----------------------------------------------------------------------------
(* Invariants.                                                                *)

\* Bottlenecks, criticality: a stage that is only long is neither the bottleneck nor critical.
LongStableStageRanksBelow ==
    CASE probe.of = "stages" -> /\ BN!LongStableRanksBelow(probe.long, probe.short, 50)
                                /\ CR!LongStableIsNotCritical(probe.long) /\ CR!LongStableIsNotCritical(probe.short)
      [] OTHER -> TRUE

\* Executive dashboard: calls, cargo, services and delay hours are each counted exactly once.
DashboardAccountsForAll ==
    CASE probe.of = "cohort" -> EX!QualitySplitsCohort(probe.calls)
      [] probe.of = "cargo" -> EX!ThroughputAccounts(probe.cargo)
      [] probe.of = "summary" -> EX!SummaryAccounts(probe.results, probe.delays)
      [] OTHER -> TRUE

\* Lead times: the occurrences, results and services they are computed from, and the aggregate
\* of a sample.
LeadTimesAreSound ==
    CASE probe.of = "occurrences" -> LT!ResolvesEligible(probe.occs, probe.selected, probe.selection)
      [] probe.of = "results" -> LT!OneResultPerCall(probe.rows, probe.calls, [c \in probe.calls |-> "new"])
      [] probe.of = "services" -> LT!DelaysKeepServicesApart(probe.services)
      [] probe.of = "sample" -> LT!AggregateIsSound(probe.sample)
      [] OTHER -> TRUE

\* KPIs: no value without data, trends that agree with bands, events from eligible occurrences.
KpisAreGoverned ==
    CASE probe.of = "kpi" -> \A kpi \in {Kpi(c) : c \in KpiCodes} \cup {AliasOf("KPI-41", TRUE), AliasOf("KPI-11", FALSE)} :
                                 KP!KpiIsGoverned(kpi, probe.calls, "a", probe.cohort)
      [] probe.of = "trend" -> KP!TrendAgreesWithBand(probe.kpi, probe.old, probe.new)
      [] probe.of = "winner" -> KP!EventTimeIsEligible(probe.occs, probe.winner)
      [] OTHER -> TRUE

\* Delays: timings, bands, the Pareto summary and inferred causes reconcile with their records.
DelaysReconcile ==
    CASE probe.of = "timings" -> DA!TimingsReconcile(probe.services)
      [] probe.of = "delays" -> DA!SummaryReconciles(probe.delays)
      [] probe.of = "reason" -> DA!CategoriesFollowReason(probe.src, probe.rsn, probe.exact)
      [] probe.of = "evidence" -> DA!InferenceHasEvidence(probe.services, probe.stage)
      [] OTHER -> TRUE

\* Outliers: each rule flags a bounded share of its population and nothing below the rest of it,
\* and a flagged call is stored once and found again.
OutlierRulesAreSelective ==
    CASE probe.of = "outliers" -> OU!HighRuleIsSelective(probe.rows, probe.percentile)
      [] probe.of = "extreme" -> OU!ThreeSdNeedsEleven(probe.n, probe.low, probe.high)
      [] probe.of = "high" -> OU!ThreeSdIsRare(probe.rows)
      [] probe.of = "detected" -> OU!OneRecordPerKey(probe.records)
      [] probe.of = "stored" -> OU!ListedAsPresented(probe.rows)
      [] OTHER -> TRUE

\* Journey: the hours of a call are decomposed without loss, from the best observations.
JourneyAddsUp ==
    CASE probe.of = "journey" -> /\ JO!DecompositionAddsUp(probe.main, probe.shifts)
                                 /\ JO!HandoversTelescope(probe.main)
                                 /\ JO!NarrativeInventsNothing(probe.main)
      [] probe.of = "observations" -> JO!SelectionIsBest(probe.occs)
      [] OTHER -> TRUE

\* Data quality: early services are no error, and only a broken order quarantines.
QualityRulesAreSound ==
    CASE probe.of = "service" -> QR!EarlyServiceIsValid(probe.service)
      [] probe.of = "quality" -> QR!OnlySequenceIsCritical(probe.call)
      [] OTHER -> TRUE

\* Ingestion: no value, row or named event of a workbook is guessed, lost or taken twice.
WorkbookIsAccountedFor ==
    CASE probe.of = "sheet" -> WB!RecognitionNeverGuesses(probe.rows, probe.named)
      [] probe.of = "row" -> WB!NoValueOverwritten(probe.row)
      [] probe.of = "staged" -> WB!OneOfEachRow(probe.rows)
      [] probe.of = "commit" -> WB!CommitAccountsForEvents(probe.calls, probe.events, probe.cargo)
      [] OTHER -> TRUE

\* Authorization: the tenant a request acts for and the rows it sees and writes agree.
ScopesAgreeOnRows == probe.of = "scope" => DS!ScopesAgree(probe.scope, probe.filter, probe.requested, ScopedRow)
=============================================================================
