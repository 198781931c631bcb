-------------------------------- MODULE Journey --------------------------------
(* Journey reconstruction of one vessel call (services/journey): the choice   *)
(* among competing observations, the stages of the template, the time         *)
(* decomposition with shifting carved out, handovers, coverage and narrative. *)
(* Times are whole hours; None is no value.                                   *)
EXTENDS Statistics

CONSTANT None     \* Python's None: no value

TIME_CATEGORIES == {"ACTIVE_SERVICE", "PASSIVE_WAIT", "HOLD", "DELAY", "UNCLASSIFIED"}

\* CanonicalOccurrenceSelector._rank: verification, confidence, source priority, age; an
\* observation is [id, verification, confidence, source, created], small ranks first.
Outranks(a, b) ==
    LET key(o) == <<o.verification, 100 - o.confidence, o.source, o.created>>
        differ == {i \in 1..4 : key(a)[i] # key(b)[i]}
    IN  differ = {} \/ key(a)[Min(differ)] < key(b)[Min(differ)]
Selected(occs) == CHOOSE o \in occs : \A p \in occs : Outranks(o, p)

\* _build_stage_occurrence: a stage between two instants, None when an event is missing.
Stage(name, category, start, end) ==
    IF start = None \/ end = None
    THEN [name |-> name, category |-> category, status |-> "MISSING", start |-> None, end |-> None, hours |-> None, shift |-> 0]
    ELSE [name |-> name, category |-> category, status |-> IF end < start THEN "DEVIATED" ELSE "AVAILABLE",
          start |-> start, end |-> end, hours |-> end - start, shift |-> 0]

\* _build_shift_occurrences: the i-th start with the i-th end, both in time order.
Shifts(starts, ends) ==
    [i \in 1..Most(Len(starts), Len(ends)) |->
        [Stage("Optional Shifting", "DELAY", IF i <= Len(starts) THEN starts[i] ELSE None,
               IF i <= Len(ends) THEN ends[i] ELSE None)
            EXCEPT !.shift = i, !.status = IF @ = "DEVIATED" THEN "AVAILABLE" ELSE @]]

Timed(stages) == Filter(stages, LAMBDA s : s.hours # None)

\* _find_overlapping_interval: the first main stage that contains the shift, 0 for none.
Containing(main, shift) ==
    LET hits == {i \in DOMAIN main : main[i].start <= shift.start /\ shift.end <= main[i].end}
    IN  IF hits = {} THEN 0 ELSE Min(hits)

\* _compute_decomposition: hours per category of the main path; the hours of a shift inside a
\* main stage move from its category to DELAY, up to what the category has left.
Buckets(main) ==
    [c \in TIME_CATEGORIES |-> LET s == Filter(main, LAMBDA x : x.category = c)
                               IN  Total([i \in DOMAIN s |-> s[i].hours])]

\* Mutant: the shift is added to DELAY without leaving its main stage.
CarveTwice(main, acc, shift) == [acc EXCEPT !.delay = @ + shift.hours]

Carve(main, acc, shift) ==
    LET i == Containing(main, shift)
        c == main[i].category
        h == Least(shift.hours, acc.buckets[c])
    IN  IF i = 0 THEN [acc EXCEPT !.delay = @ + shift.hours]
        ELSE [acc EXCEPT !.buckets[c] = @ - h, !.delay = @ + h]
Decomposition(main, shifts) ==
    LET acc == FoldLeft(LAMBDA a, s : Carve(main, a, s), [buckets |-> Buckets(main), delay |-> 0], Timed(shifts))
    IN  [acc.buckets EXCEPT !["DELAY"] = @ + acc.delay]
TotalHours(decomposition) ==
    LET cats == SetToSeq(TIME_CATEGORIES) IN Total([i \in DOMAIN cats |-> decomposition[cats[i]]])

\* _build_handovers: between consecutive main stages; the wait may be negative.
Handovers(main) ==
    [i \in 1..(Len(main) - 1) |->
        IF main[i].hours # None /\ main[i + 1].hours # None
        THEN [status |-> "AVAILABLE", wait |-> main[i + 1].start - main[i].end]
        ELSE [status |-> "UNAVAILABLE", wait |-> None]]

Deviations(stages) == Filter(stages, LAMBDA s : s.status = "DEVIATED")
Coverage(stages) ==
    [total |-> Len(stages), available |-> Count(stages, LAMBDA s : s.status # "MISSING"),
     missing |-> Count(stages, LAMBDA s : s.status = "MISSING")]
InstanceStatus(stages) == IF Coverage(stages).available > 0 THEN "RECONSTRUCTED" ELSE "FAILED"

\* _deterministic_narrative: what the text says of each stage.
Narrative(stages) ==
    [i \in DOMAIN stages |->
        [stage |-> stages[i].name, hours |-> stages[i].hours,
         says |-> CASE stages[i].status = "MISSING" -> "unavailable"
                    [] stages[i].status = "DEVIATED" -> "sequence violation"
                    [] OTHER -> "took"]]

-----------------------------------------------------------------------------
(* Properties.                                                                *)

\* The categories add up to the main path when every shift lies inside one of its stages; in
\* every case only shifts outside of all stages add hours, so a call whose stages follow one
\* another is never longer than its elapsed time and those shifts.
DecompositionAddsUp(main, shifts) ==
    LET timed == Timed(main)
        loose == Filter(Timed(shifts), LAMBDA s : Containing(timed, s) = 0)
        hours(s) == Total([i \in DOMAIN s |-> s[i].hours])
        n == Len(timed)
    IN  /\ TotalHours(Decomposition(timed, shifts)) = hours(timed) + hours(loose)
        /\ n > 0 /\ (\A i \in 1..(n - 1) : timed[i].end <= timed[i + 1].start) =>
               TotalHours(Decomposition(timed, shifts)) <= timed[n].end - timed[1].start + hours(loose)

\* Handover waits and stage hours telescope: with no stage missing, the main path from its
\* first start to its last end is covered exactly, negative parts included.
HandoversTelescope(main) ==
    (main # <<>> /\ \A i \in DOMAIN main : main[i].hours # None) =>
        Total([i \in DOMAIN main |-> main[i].hours])
        + Total([i \in 1..(Len(main) - 1) |-> Handovers(main)[i].wait]) = main[Len(main)].end - main[1].start

\* A selected observation is never beaten on verification, nor on confidence among equally
\* verified ones, and the choice does not depend on the order of the observations.
SelectionIsBest(occs) ==
    LET s == Selected(occs)
    IN  \A o \in occs : /\ s.verification <= o.verification
                        /\ s.verification = o.verification => s.confidence >= o.confidence

\* The narrative gives hours exactly for the stages that were observed.
NarrativeInventsNothing(stages) ==
    \A i \in DOMAIN stages :
        (Narrative(stages)[i].says = "unavailable") <=> (Narrative(stages)[i].hours = None)
=============================================================================
