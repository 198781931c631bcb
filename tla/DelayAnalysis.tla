---------------------------- MODULE DelayAnalysis ----------------------------
(* Delay analysis (services/delays): the canonical category of a reason, the  *)
(* cause inferred from service records, service timings with their summaries, *)
(* the listing and the Pareto summary.  Times are minutes or whole hours, a   *)
(* text is the set of keywords it contains, None is a missing value.          *)
EXTENDS Statistics

CONSTANT None     \* Python's None: no value

LT == INSTANCE LeadTimes

\* _leg: the movement is the whole text, so the text has that word and no other.
Leg(stage) ==
    CASE stage \in {{"arrival"}, {"inward"}} -> "ARRIVAL_INWARD"
      [] stage \in {{"sailing"}, {"outward"}, {"departure"}} -> "SAILING_OUTWARD"
      [] stage = {"shifting"} -> "SHIFTING"
      [] OTHER -> "UNCLASSIFIED"

\* The categories in the order of the list, which settles ties of the Pareto summary.
CategoryOrder ==
    <<"Pilot", "Tug", "Berth Non-Availability", "Weather", "Regulatory Clearance", "Terminal Readiness",
      "Cargo Operation", "Equipment Breakdown", "Crane Downtime", "Mooring", "Documentation",
      "Vessel-Side", "Port-Side", "External/Uncontrollable", "Other">>
CANONICAL_DELAY_CATEGORIES == ToSet(CategoryOrder)

\* map_to_canonical_category: the rules in order, [keywords of the source category, of the reason].
CategoryRules ==
    <<[to |-> "Weather", src |-> {"weather"}, rsn |-> {"weather", "swells", "wind", "fog", "storm"}],
      [to |-> "Tug", src |-> {}, rsn |-> {"tug"}],
      [to |-> "Pilot", src |-> {}, rsn |-> {"pilot"}],
      [to |-> "Berth Non-Availability", src |-> {}, rsn |-> {"berth"}],
      [to |-> "Terminal Readiness", src |-> {}, rsn |-> {"cargo", "terminal awaiting"}],
      [to |-> "Crane Downtime", src |-> {}, rsn |-> {"crane"}],
      [to |-> "Equipment Breakdown", src |-> {}, rsn |-> {"equipment", "breakdown"}],
      [to |-> "Mooring", src |-> {}, rsn |-> {"mooring", "lines"}],
      [to |-> "Documentation", src |-> {}, rsn |-> {"documentation", "customs", "paperwork"}],
      [to |-> "Vessel-Side", src |-> {"vessel"}, rsn |-> {"ship not ready"}],
      [to |-> "Regulatory Clearance", src |-> {}, rsn |-> {"clearance", "regulatory", "quarantine", "immigration"}],
      [to |-> "Port-Side", src |-> {"marine service"}, rsn |-> {"shift"}]>>

\* exact is the canonical category the source category spells, or None.
CanonicalCategory(src, rsn, exact) ==
    LET hits == {i \in DOMAIN CategoryRules :
                    CategoryRules[i].src \cap src # {} \/ CategoryRules[i].rsn \cap rsn # {}}
    IN  IF hits # {} THEN CategoryRules[Min(hits)].to
        ELSE IF exact # None THEN exact ELSE "Other"

-----------------------------------------------------------------------------
(* infer_delay_cause.  Services are [type, movement, scheduled, served] in    *)
(* minutes; a later record of a type overrides an earlier one.                *)

Matches(service, stage) == service.movement = {} \/ stage \subseteq service.movement

LateBy(services, type, stage) ==
    LET late == {i \in DOMAIN services :
                    /\ services[i].type = type /\ Matches(services[i], stage)
                    /\ services[i].scheduled # None /\ services[i].served # None
                    /\ services[i].served - services[i].scheduled > 3}
    IN  IF late = {} THEN 0 ELSE services[Max(late)].served - services[Max(late)].scheduled

ProposedCategory(services, stage) ==
    CASE LateBy(services, "tug", stage) > 6 -> "Tug"
      [] LateBy(services, "tug", stage) <= 6 /\ LateBy(services, "pilot", stage) > 6 -> "Pilot"
      [] LateBy(services, "tug", stage) <= 6 /\ LateBy(services, "pilot", stage) <= 6
         /\ (LateBy(services, "berth", stage) > 6 \/ "arrival" \in stage) -> "Berth Non-Availability"
      [] OTHER -> IF "sailing" \in stage THEN "Terminal Readiness" ELSE "Port-Side"

-----------------------------------------------------------------------------
(* list_service_timings.  A service is [leg, kind, submission, requested,     *)
(* scheduled, served] in hours.                                               *)

ServiceKind(words) ==
    CASE "pilot" \in words -> "PILOTAGE"
      [] "pilot" \notin words /\ words \cap {"berth", "moor"} # {} -> "BERTHING"
      [] words \cap {"pilot", "berth", "moor"} = {} /\ words \cap {"tug", "tow"} # {} -> "TOWAGE"
      [] OTHER -> "OTHER"

TimingRow(s) ==
    LET gap == LT!SchedulingGap(s.requested, s.scheduled).hours
        delay == LT!ServiceExecutionDelay(s.scheduled, s.served).hours
        missing == {f \in {"requested", "scheduled", "served"} : s[f] = None}
    IN  [leg |-> Leg(s.movement), kind |-> ServiceKind(s.type), planning |-> LT!PlanningLeadTime(s.submission, s.requested).hours,
         gap |-> gap, delay |-> delay, total |-> LT!LeadTime(s.requested, s.served).hours,
         quality |-> IF gap # None /\ gap < 0 THEN "DQ_SCHEDULE_BEFORE_REQUEST"
                     ELSE IF missing # {} THEN "MISSING_DATA" ELSE "CLEAN",
         status |-> IF delay = None THEN "UNAVAILABLE"
                    ELSE IF delay < 0 THEN "EARLY" ELSE IF delay = 0 THEN "ON_TIME" ELSE "LATE"]

\* classify_delay_frequency of delayed/eligible, as a percentage rounded to one decimal.
Permille(delayed, eligible) == (2000 * delayed + eligible) \div (2 * eligible)

\* Mutant: the upper boundary of the watch band is open.
BandOpen(delayed, eligible) ==
    IF eligible = 0 THEN "GRAY"
    ELSE IF Permille(delayed, eligible) < 400 THEN "GREEN"
    ELSE IF Permille(delayed, eligible) < 600 THEN "ORANGE" ELSE "RED"

Band(delayed, eligible) ==
    IF eligible = 0 THEN "GRAY"
    ELSE IF Permille(delayed, eligible) < 400 THEN "GREEN"
    ELSE IF Permille(delayed, eligible) <= 600 THEN "ORANGE" ELSE "RED"

LegFrequency(rows, leg) ==
    LET eligible == Filter(rows, LAMBDA r : r.leg = leg /\ r.delay # None)
        delayed == Count(eligible, LAMBDA r : r.delay > 0)
    IN  [eligible |-> Len(eligible), delayed |-> delayed, band |-> Band(delayed, Len(eligible))]

\* _summarize_values of one field over the rows of one kind.
Summarize(rows, kind, field) ==
    LET values == Filter(rows, LAMBDA r : r.kind = kind /\ r[field] # None)
    IN  [count |-> Len(values), sum |-> Total([i \in DOMAIN values |-> values[i][field]]),
         delayed |-> Count(values, LAMBDA r : r[field] > 0), early |-> Count(values, LAMBDA r : r[field] < 0),
         onTime |-> Count(values, LAMBDA r : r[field] = 0)]

Overview(rows) ==
    [PILOTAGE_DELAY |-> Summarize(rows, "PILOTAGE", "delay"), BERTHING_DELAY |-> Summarize(rows, "BERTHING", "delay"),
     TOWAGE_WAIT |-> Summarize(rows, "TOWAGE", "total"), TUG_TOWAGE_DELAY |-> Summarize(rows, "TOWAGE", "delay")]

\* _anchorage_wait_summary: the available anchorage waits, for the arrival leg or for all legs.
AnchorageWait(results, leg) ==
    LET values == IF leg \in {"ALL", "ARRIVAL_INWARD"} THEN Filter(results, LAMBDA r : r.status = "AVAILABLE") ELSE <<>>
    IN  [count |-> Len(values), sum |-> Total([i \in DOMAIN values |-> values[i].hours])]

\* _event_pair_duration_observations: calls are [starts, ends, startWinner, endWinner].
PairDurations(calls) ==
    LET pick(occs, winner) == LT!Resolve(occs, winner, "first", TRUE)
        start(c) == pick(c.starts, c.startWinner)
        end(c) == pick(c.ends, c.endWinner)
        usable == Filter(calls, LAMBDA c : /\ start(c) # None /\ end(c) # None
                                           /\ end(c).time >= start(c).time)
    IN  [i \in DOMAIN usable |-> end(usable[i]).time - start(usable[i]).time]

DurationRange(calls) ==
    LET d == PairDurations(calls)
    IN  IF d = <<>> THEN None ELSE [least |-> Min(ToSet(d)), most |-> Max(ToSet(d)), count |-> Len(d)]

-----------------------------------------------------------------------------
(* Listing and summary.  A delay is [stage, category, hours, cause, allocs,   *)
(* mismatch, review] with allocs a sequence of hours.                         *)

\* list_delays: the leg filter searches for words of the stage; the filters are conjunctive.
InLegListing(d, leg) ==
    CASE leg = "ARRIVAL_INWARD" -> d.stage \cap {"arrival", "inward"} # {}
      [] leg = "SAILING_OUTWARD" -> d.stage \cap {"sailing", "outward"} # {}
      [] leg = "SHIFTING" -> "shifting" \in d.stage
      [] OTHER -> TRUE
Listing(delays, leg, cause, review) ==
    Filter(delays, LAMBDA d : /\ InLegListing(d, leg)
                              /\ cause # None => d.cause = cause
                              /\ review # None => d.review = review)
Page(rows, skip, limit) == SubSeq(rows, skip + 1, Least(skip + limit, Len(rows)))

Unallocated(d) == Most(0, d.hours - Total(d.allocs))

\* get_delays_summary: Pareto categories by descending hours, equal ones in the order of the
\* list, with running sums.
OfCategory(delays, c) == Filter(delays, LAMBDA d : (IF d.category = None THEN "Other" ELSE d.category) = c)
Hours(delays) == Total([i \in DOMAIN delays |-> delays[i].hours])
Pareto(delays) ==
    LET of(c) == OfCategory(delays, CategoryOrder[c])
        hours(c) == Hours(of(c))
        lines == Arranged({c \in DOMAIN CategoryOrder : of(c) # <<>>},
                          LAMBDA c, d : hours(c) > hours(d) \/ (hours(c) = hours(d) /\ c < d))
    IN  [i \in DOMAIN lines |-> [category |-> CategoryOrder[lines[i]], count |-> Len(of(lines[i])), hours |-> hours(lines[i]),
                                 running |-> Total([j \in 1..i |-> hours(lines[j])])]]

Summary(delays, leg) ==
    LET mine == IF leg = "ALL" THEN delays ELSE Filter(delays, LAMBDA d : Leg(d.stage) = leg)
        allocated == Total([i \in DOMAIN mine |-> Total(mine[i].allocs)])
    IN  [count |-> Len(mine), hours |-> Hours(mine), allocated |-> allocated,
         unallocated |-> Most(0, Hours(mine) - allocated), pareto |-> Pareto(mine),
         confirmed |-> Count(mine, LAMBDA d : d.cause = "Confirmed"),
         inferred |-> Count(mine, LAMBDA d : d.cause = "Inferred"),
         review |-> Count(mine, LAMBDA d : d.review)]

-----------------------------------------------------------------------------
(* Properties.                                                                *)

\* Each execution delay is in exactly one of the three counts of its service kind, each leg's
\* band is the one the FRD states for the exact share, and a towage wait is the scheduling gap
\* plus the execution delay: duration is never taken for delay.
TimingsReconcile(services) ==
    LET rows == [i \in DOMAIN services |-> TimingRow(services[i])]
    IN  /\ \A k \in DOMAIN Overview(rows) :
               LET s == Overview(rows)[k] IN s.delayed + s.early + s.onTime = s.count
        /\ \A leg \in {"ARRIVAL_INWARD", "SAILING_OUTWARD", "SHIFTING"} :
               LET f == LegFrequency(rows, leg)
               IN  CASE f.band = "GRAY" -> f.eligible = 0
                     [] f.band = "GREEN" -> f.eligible > 0 /\ 10 * f.delayed < 4 * f.eligible
                     [] f.band = "ORANGE" -> 10 * f.delayed >= 4 * f.eligible /\ 10 * f.delayed <= 6 * f.eligible
                     [] OTHER -> 10 * f.delayed > 6 * f.eligible
        /\ \A i \in DOMAIN rows : rows[i].gap # None /\ rows[i].delay # None =>
               rows[i].total = rows[i].gap + rows[i].delay
        /\ \A i \in DOMAIN rows : rows[i].quality = "CLEAN" => rows[i].status # "UNAVAILABLE"

\* The Pareto lines account for every delay and hour and are in descending order; the summary's
\* unallocated hours are those of the listed delays, less what other delays have in excess.
SummaryReconciles(delays) ==
    \A leg \in {"ALL", "ARRIVAL_INWARD", "SAILING_OUTWARD"} :
        LET s == Summary(delays, leg)
            mine == IF leg = "ALL" THEN delays ELSE Filter(delays, LAMBDA d : Leg(d.stage) = leg)
            listed == Total([i \in DOMAIN mine |-> Unallocated(mine[i])])
            n == Len(s.pareto)
        IN  /\ n = 0 <=> mine = <<>>
            /\ n > 0 => s.pareto[n].running = s.hours
            /\ Total([i \in 1..n |-> s.pareto[i].count]) = s.count
            /\ \A i \in 1..(n - 1) : s.pareto[i].hours >= s.pareto[i + 1].hours
            /\ s.unallocated <= listed
            /\ (\A i \in DOMAIN mine : Total(mine[i].allocs) <= mine[i].hours) => s.unallocated = listed

\* A reason that names a tug, a pilot or the weather never falls into another group, whatever
\* the source category says, and every reason gets one of the fifteen categories.
CategoriesFollowReason(src, rsn, exact) ==
    LET c == CanonicalCategory(src, rsn, exact)
    IN  /\ c \in CANONICAL_DELAY_CATEGORIES
        /\ "tug" \in rsn => c \in {"Weather", "Tug"}
        /\ "pilot" \in rsn => c \in {"Weather", "Tug", "Pilot"}
        /\ {"weather", "fog", "wind"} \cap rsn # {} => c = "Weather"

\* An inferred cause names a service only when a record of that service for this movement was
\* late, and a late tug is not hidden by a late pilot.
InferenceHasEvidence(services, stage) ==
    LET c == ProposedCategory(services, stage)
    IN  /\ c \in {"Tug", "Pilot"} => \E i \in DOMAIN services :
               /\ services[i].type = (IF c = "Tug" THEN "tug" ELSE "pilot")
               /\ Matches(services[i], stage) /\ services[i].scheduled # None /\ services[i].served # None
               /\ services[i].served - services[i].scheduled > 6
        /\ c = "Pilot" => LateBy(services, "tug", stage) <= 6
=============================================================================
