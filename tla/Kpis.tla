-------------------------------- MODULE Kpis ---------------------------------
(* The governed KPIs (services/kpi/engine.py, registry.py): the calls of a     *)
(* cohort, the occurrence that speaks for an event, the formulas of version    *)
(* 2.1, bands, aliases, the scorecard and the direction of a trend.            *)
(* A value is a quotient [num, den]; times are whole hours; None is no value.  *)
(* A call is [merged, tenant, type, unit, ata, at, cargo, shifts]: at is the    *)
(* time of each event, shifts the pairs of shift events with equal index.      *)
EXTENDS Statistics

CONSTANT None

-----------------------------------------------------------------------------
(* The population and its events.                                             *)

\* A call without a recorded arrival passes the period; cohort values of None do not filter
\* (the terminal filters as the vessel type does).
get_eligible_vessel_calls(calls, tenant, cohort) ==
    Filter(calls, LAMBDA c :
        /\ ~ c.merged
        /\ tenant = "*" \/ c.tenant = tenant
        /\ cohort.type \in {None, c.type} /\ cohort.unit \in {None, c.unit}
        /\ c.ata # None => /\ cohort.from # None => c.ata >= cohort.from
                           /\ cohort.to # None => c.ata <= cohort.to)

\* _load_canonical_data: the earliest eligible occurrence, or only the governed selection if
\* there is one; a selection that is no longer eligible leaves the event without a time.
EventTime(occs, winner) ==
    LET mine == {o \in occs : ~ o.superseded /\ ~ o.quarantined /\ winner \in {None, o.id}}
    IN  IF mine = {} THEN None ELSE Min({o.time : o \in mine})

\* _get_time: the first of the named events that has a time.
GetTime(c, names) ==
    LET known == {i \in DOMAIN names : c.at[names[i]] # None}
    IN  IF known = {} THEN None ELSE c.at[names[Min(known)]]

\* Durations between two events of a call, and completed shifts: those in order.
InOrder(pairs) == Filter(pairs, LAMBDA p : p.start # None /\ p.end # None /\ p.end >= p.start)
Lengths(pairs) == [i \in DOMAIN InOrder(pairs) |-> InOrder(pairs)[i].end - InOrder(pairs)[i].start]
Durations(calls, starts, ends) ==
    Lengths([i \in DOMAIN calls |-> [start |-> GetTime(calls[i], starts), end |-> GetTime(calls[i], ends)]])
ShiftPairs(calls) == Lengths(FlattenSeq([i \in DOMAIN calls |-> calls[i].shifts]))

-----------------------------------------------------------------------------
(* Formulas.                                                                  *)

Unavailable == [status |-> "UNAVAILABLE", num |-> None, den |-> None]
Computed(num, den) == [status |-> "COMPUTED", num |-> num, den |-> den]

Average(values) == IF values = <<>> THEN Unavailable ELSE Computed(Total(values), Len(values))

\* The square of a sample standard deviation.
Variance(values) ==
    IF Len(values) < 2 THEN Unavailable ELSE Computed(Spread(values), Len(values) * (Len(values) - 1))

Ratio(num, den, eligible) == IF eligible /\ den > 0 THEN Computed(num, den) ELSE Unavailable
Percent(num, den, eligible) == Ratio(100 * num, den, eligible)

Ops(calls) == FlattenSeq([i \in DOMAIN calls |-> calls[i].cargo])
OfUnit(ops, unit) == Filter(ops, LAMBDA o : o.unit = unit)
Or0(v) == IF v = None THEN 0 ELSE v
Quantity(ops) == Total([i \in DOMAIN ops |-> Or0(ops[i].quantity)])

\* The events an average duration lies between.
SpanStart(code) ==
    CASE code \in {"KPI-03", "KPI-04", "KPI-05", "KPI-41"} -> <<"ANCHORAGE_ARRIVAL">>
      [] code \in {"KPI-07", "KPI-13", "KPI-16"} -> <<"PILOT_ON_BOARD_ARRIVAL">>
      [] code = "KPI-12" -> <<"PILOT_SCHEDULED_ARRIVAL">>
      [] code \in {"KPI-15", "KPI-42"} -> <<"ALL_FAST_ARRIVAL">>
      [] code = "KPI-43" -> <<"LAST_LINE_UNTIED_SAILING">>
      [] code = "KPI-54" -> <<"PILOT_REQUEST_ARRIVAL">>
SpanEnd(code) ==
    CASE code \in {"KPI-03", "KPI-05", "KPI-12", "KPI-54"} -> <<"PILOT_ON_BOARD_ARRIVAL">>
      [] code = "KPI-04" -> <<"FIRST_LINE_TIED_ARRIVAL">>
      [] code \in {"KPI-07", "KPI-13", "KPI-16"} -> <<"ALL_FAST_ARRIVAL">>
      [] code \in {"KPI-15", "KPI-42"} -> <<"LAST_LINE_UNTIED_SAILING">>
      [] code = "KPI-41" -> <<"BREAKWATER_OUT", "ATD">>
      [] code = "KPI-43" -> <<"BREAKWATER_OUT", "PORT_LIMIT_OUT">>
SpanCodes == {"KPI-03", "KPI-04", "KPI-07", "KPI-12", "KPI-13", "KPI-15", "KPI-41", "KPI-42", "KPI-43", "KPI-54"}

\* Berth stays with their cargo interval: stay and idle hours.
BerthStays(calls) ==
    LET time(c, name) == GetTime(c, <<name>>)
        whole == Filter(calls, LAMBDA c :
            /\ \A n \in {"ALL_FAST_ARRIVAL", "LAST_LINE_UNTIED_SAILING", "CARGO_START", "CARGO_END"} : time(c, n) # None
            /\ time(c, "LAST_LINE_UNTIED_SAILING") >= time(c, "ALL_FAST_ARRIVAL")
            /\ time(c, "CARGO_END") >= time(c, "CARGO_START"))
        stay(c) == time(c, "LAST_LINE_UNTIED_SAILING") - time(c, "ALL_FAST_ARRIVAL")
    IN  [i \in DOMAIN whole |->
            [stay |-> stay(whole[i]),
             idle |-> Most(stay(whole[i]) - (time(whole[i], "CARGO_END") - time(whole[i], "CARGO_START")), 0)]]
Idle(calls) == [i \in DOMAIN BerthStays(calls) |-> BerthStays(calls)[i].idle]
Stays(calls) == [i \in DOMAIN BerthStays(calls) |-> BerthStays(calls)[i].stay]

\* Crane productivity: TEU per hour and crane of the operations that state all three.
Cranes(calls) ==
    LET ops == Filter(OfUnit(Ops(calls), "TEU"),
                      LAMBDA o : o.quantity # None /\ o.working \notin {None, 0} /\ o.cranes \notin {None, 0})
    IN  Ratio(Quantity(ops), Total([i \in DOMAIN ops |-> ops[i].working * ops[i].cranes]), ops # <<>>)

\* Equipment downtime over productive and lost hours.
Downtime(calls) ==
    LET ops == Filter(Ops(calls), LAMBDA o : o.working # None /\ o.downtime # None)
        lost == Total([i \in DOMAIN ops |-> ops[i].downtime])
    IN  Percent(lost, lost + Total([i \in DOMAIN ops |-> ops[i].working]), ops # <<>>)

\* Cargo of one unit: per call that has some, per container call, per berth day, or in all.
PerCall(calls, unit) ==
    Average(Filter([i \in DOMAIN calls |-> Quantity(OfUnit(calls[i].cargo, unit))], LAMBDA q : q # 0))
ContainerCalls(calls) == Filter(calls, LAMBDA c : c.type = "Container")
CountedTeu(calls) == Filter(OfUnit(Ops(calls), "TEU"), LAMBDA o : o.operation \in {"Load", "Discharge"})
Counted(quantity) == IF quantity = 0 THEN Unavailable ELSE Computed(quantity, 1)
PerBerthDay(calls, unit) ==
    LET hours == Total(Durations(calls, <<"ALL_FAST_ARRIVAL">>, <<"LAST_LINE_UNTIED_SAILING">>))
        cargo == Quantity(OfUnit(Ops(calls), unit))
    IN  Ratio(24 * cargo, hours, cargo # 0)

\* Departures per calendar day of the period, or of the days between the departures.
DeparturesPerDay(calls, cohort) ==
    LET times == Filter([i \in DOMAIN calls |-> GetTime(calls[i], <<"ATD", "BREAKWATER_OUT", "PORT_LIMIT_OUT">>)],
                        LAMBDA t : t # None)
        from == IF cohort.from = None THEN Min(ToSet(times)) ELSE cohort.from
        to == IF cohort.to = None THEN Max(ToSet(times)) ELSE cohort.to
    IN  IF times = <<>> THEN Unavailable ELSE Computed(Len(times), Most(to \div 24 - from \div 24 + 1, 1))

\* _compute_kpi_value: nothing without calls, else the formula of the code.
compute_kpi_value(code, calls, cohort) ==
    CASE calls = <<>> -> Unavailable
      [] OTHER ->
        CASE code = "KPI-01" -> LET n == Count(calls, LAMBDA c : c.at["ATA"] # None) IN Counted(n)
          [] code = "KPI-02" -> IF cohort.unit = None THEN Unavailable ELSE PerCall(calls, cohort.unit)
          [] code \in {"KPI-05", "KPI-16"} -> Variance(Durations(calls, SpanStart(code), SpanEnd(code)))
          [] code \in SpanCodes -> Average(Durations(calls, SpanStart(code), SpanEnd(code)))
          [] code = "KPI-17" -> Average(Idle(calls))
          [] code = "KPI-18" -> Percent(Total(Idle(calls)), Total(Stays(calls)), Stays(calls) # <<>>)
          [] code = "KPI-19" -> Counted(Len(ShiftPairs(calls)))
          [] code = "KPI-20" -> Average(ShiftPairs(calls))
          [] code \in {"KPI-21", "KPI-30"} -> Cranes(calls)
          [] code = "KPI-23" -> Counted(Quantity(OfUnit(Ops(calls), "MT")))
          [] code = "KPI-24" -> Counted(Quantity(CountedTeu(calls)))
          [] code = "KPI-25" -> LET moves == Quantity(OfUnit(Ops(ContainerCalls(calls)), "TEU"))
                                IN  Ratio(moves, Len(ContainerCalls(calls)), moves # 0)
          [] code = "KPI-27" -> IF cohort.unit = None THEN Unavailable ELSE PerBerthDay(calls, cohort.unit)
          [] code = "KPI-28" -> LET ops == Filter(Ops(ContainerCalls(calls)), LAMBDA o : o.cranes # None)
                                IN  Average([i \in DOMAIN ops |-> ops[i].cranes])
          [] code = "KPI-29" -> Downtime(calls)
          [] code = "KPI-45" -> DeparturesPerDay(calls, cohort)
          [] OTHER -> Unavailable

-----------------------------------------------------------------------------
(* Bands, results and trends.  A KPI is [code, source, alias, lower, target,  *)
(* green, amber]; lower: lower is better; alias: its primary KPI, or None.    *)

\* evaluate_band: a missing limit falls back to the target, or to 1.2 or 0.8 of it.
evaluate_band(v, kpi) ==
    LET within(fifths) == IF kpi.lower THEN 5 * v.num <= fifths * v.den ELSE 5 * v.num >= fifths * v.den
        green == IF kpi.green # None THEN 5 * kpi.green ELSE IF kpi.target # None THEN 5 * kpi.target ELSE None
        amber == IF kpi.amber # None THEN 5 * kpi.amber
                 ELSE IF kpi.target # None THEN (IF kpi.lower THEN 6 ELSE 4) * kpi.target ELSE None
    IN  CASE v.num = None -> "GRAY"
          [] v.num # None /\ green # None /\ within(green) -> "GREEN"
          [] v.num # None /\ ~ (green # None /\ within(green)) /\ amber # None /\ within(amber) -> "AMBER"
          [] OTHER -> "RED"

\* calculate_kpi: no source, the value of the primary with the alias's own band, or the formula.
calculate_kpi(kpi, calls, tenant, cohort) ==
    LET of(k) == IF k.source THEN compute_kpi_value(k.code, get_eligible_vessel_calls(calls, tenant, cohort), cohort)
                 ELSE [Unavailable EXCEPT !.status = "NO_SOURCE_DATA"]
        value == IF kpi.source /\ kpi.alias # None THEN of(kpi.alias) ELSE of(kpi)
    IN  [value |-> value, band |-> evaluate_band(value, kpi)]

\* Mutant: a falling value is an improvement for every KPI.
TrendDirectionLower(old, new, lower) ==
    LET delta == new.num * old.den - old.num * new.den
    IN  IF delta < 0 THEN "IMPROVING" ELSE IF delta > 0 THEN "DETERIORATING" ELSE "STABLE"

\* get_trends: the direction of the last two computed values; a difference of at most a hundredth
\* is none.
TrendDirection(old, new, lower) ==
    LET delta == new.num * old.den - old.num * new.den
        steady == 100 * Abs(delta) <= old.den * new.den
    IN  CASE steady -> "STABLE"
          [] ~ steady /\ (delta < 0) = lower -> "IMPROVING"
          [] OTHER -> "DETERIORATING"

-----------------------------------------------------------------------------
(* Properties.                                                                *)

Rank(band) == CASE band = "RED" -> 0 [] band = "AMBER" -> 1 [] band = "GREEN" -> 2

\* A result of a KPI over calls of which own may enter, against the values it has to agree with.
ResultIsGoverned(r, kpi, own, overOwn, primary) ==
    /\ (r.band = "GRAY") = (r.value.num = None)
    /\ r.value.num # None =>
         /\ r.value.den > 0
         /\ kpi.code \in {"KPI-18", "KPI-29"} => r.value.num >= 0 /\ r.value.num <= 100 * r.value.den
         /\ kpi.code \in SpanCodes => r.value.num >= 0 /\ r.value.den <= Len(own)
    /\ r.value = overOwn.value
    /\ kpi.alias # None /\ kpi.source => r.value = primary.value

\* calculate_kpi, evaluate_band: a band is shown exactly for a value, and no value has an empty
\* denominator; a share is between none and all; an average takes each call once at most; calls
\* that are merged or of another tenant never enter; an alias has the value of its primary.
KpiIsGoverned(kpi, calls, tenant, cohort) ==
    LET own == Filter(calls, LAMBDA c : c.tenant = tenant /\ ~ c.merged)
        of(k, some) == calculate_kpi(k, some, tenant, cohort)
    IN  ResultIsGoverned(of(kpi, calls), kpi, own, of(kpi, own), of(kpi.alias, calls))

\* evaluate_band, get_trends: a KPI whose band got better is never reported as deteriorating, nor
\* one whose band got worse as improving, whichever direction is better and whatever limits it has;
\* it is reported as stable only if the two values straddle a limit by a hundredth or less.
TrendAgreesWithBand(kpi, old, new) ==
    LET d == TrendDirection(old, new, kpi.lower)
        was == Rank(evaluate_band(old, kpi))
        is == Rank(evaluate_band(new, kpi))
        close == 100 * Abs(new.num * old.den - old.num * new.den) <= old.den * new.den
    IN  /\ is > was => d = IF close THEN "STABLE" ELSE "IMPROVING"
        /\ is < was => d = IF close THEN "STABLE" ELSE "DETERIORATING"

\* _load_canonical_data: the time of an event is that of an eligible occurrence, the governed one
\* while it is eligible; an event is without a time only if nothing is eligible or the governed
\* selection went stale.
EventTimeIsEligible(occs, winner) ==
    LET live == {o \in occs : ~ o.superseded /\ ~ o.quarantined}
        t == EventTime(occs, winner)
    IN  IF t = None THEN live = {} \/ (winner # None /\ \A o \in live : o.id # winner)
        ELSE \E o \in live : o.time = t /\ winner \in {None, o.id}
=============================================================================
