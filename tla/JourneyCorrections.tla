-------------------------- MODULE JourneyCorrections --------------------------
(* One event of a vessel call, from its observations to the journey built on  *)
(* them: stewards correct the observation (services/journey/corrections.py),  *)
(* the selector chooses among competing ones, reconstructions rebuild the     *)
(* stages (reconstructor.py), and quality runs quarantine an observation that *)
(* breaks the order of events (services/quality/engine.py).                   *)
(*                                                                            *)
(* A correction commits twice: its audit entry commits the observation and    *)
(* the override, then the journey is rebuilt and committed.  A reconstruction *)
(* reads in one step and commits in another.                                  *)
EXTENDS Naturals, FiniteSets

CONSTANTS
    Stewards,         \* requests that correct the event
    Rebuilders,       \* other processes that reconstruct: the worker, the API; no steward is one
    None,             \* no value
    Times,            \* times an observation may state
    Loads,            \* what may be loaded: sequences of [time, rank], the observations of the event
    AnchorTime,       \* time of the event that has to come first
    MaxOperations     \* bound: corrections, reconstructions and quality runs of one behaviour

VARIABLES
    occs,         \* event_occurrence rows: [index, time, rank, superseded, quarantined]
    selection,    \* canonical_observation rows of the event: [row, selected, method]
    stages,       \* stage_occurrence rows: [run, event]; event None is a missing stage
    correcting,   \* [Stewards -> a correction under way]
    rebuilding,   \* [Stewards \cup Rebuilders -> a reconstruction under way]
    operations,   \* number of operations begun
    latest,       \* history: index of the correction approved last
    disturbed     \* history: a commit was based on rows that had changed since they were read

journeyVars == <<occs, selection, stages, correcting, rebuilding, operations, latest, disturbed>>

CorrectionRank == 1     \* Verified, confidence 1.0, a source without priority
IndexStep == 10         \* stands for 1000, which keeps clear of the ingested indices
Idle == [at |-> "idle"]

Live == {o \in occs : ~o.superseded}
Usable == {o \in Live : ~o.quarantined}
\* A lower rank wins, then the older row; corrections are younger than what was ingested.
Best(rows) == CHOOSE o \in rows : \A p \in rows : o.rank < p.rank \/ (o.rank = p.rank /\ o.index <= p.index)

JourneyInit ==
    /\ \E load \in Loads :
           occs = {[index |-> i, time |-> load[i].time, rank |-> load[i].rank,
                    superseded |-> FALSE, quarantined |-> FALSE] : i \in DOMAIN load}
    /\ selection = {} /\ stages = {}
    /\ correcting = [s \in Stewards |-> Idle]
    /\ rebuilding = [p \in Stewards \cup Rebuilders |-> Idle]
    /\ operations = 0 /\ latest = None /\ disturbed = FALSE

Begin == operations < MaxOperations /\ operations' = operations + 1

\* create_correction up to the read of the selection.  The prior observation is whatever the
\* client names, None when it names nothing.
CorrectBegin(s, prior, time, approved) ==
    /\ correcting[s].at = "idle"
    /\ Begin
    /\ correcting' = [correcting EXCEPT ![s] = [at |-> "read", prior |-> prior, time |-> time,
                                                approved |-> approved, seen |-> selection]]
    /\ UNCHANGED <<occs, selection, stages, rebuilding, latest, disturbed>>

NewIndex(prior) == IF prior = None THEN 1 ELSE prior + IndexStep

\* _record_canonical_override: the one row read is overridden, or a row is added.
Override(seen, new) ==
    IF seen = {} THEN selection \cup {[row |-> new, selected |-> new, method |-> "STEWARD_OVERRIDE"]}
    ELSE {IF \E q \in seen : q.row = r.row THEN [r EXCEPT !.selected = new, !.method = "STEWARD_OVERRIDE"] ELSE r : r \in selection}

\* The commit of log_audit_event.  An index in use violates the unique constraint, and two
\* selection rows are an error; both leave nothing behind.
CorrectCommit(s) ==
    LET c == correcting[s]
        new == NewIndex(c.prior)
        fails == (\E o \in occs : o.index = new) \/ (c.approved /\ Cardinality(c.seen) > 1)
    IN  /\ c.at = "read"
        /\ IF fails
           THEN /\ correcting' = [correcting EXCEPT ![s] = Idle]
                /\ UNCHANGED <<occs, selection, latest, disturbed>>
           ELSE /\ occs' = {[o EXCEPT !.superseded = @ \/ (c.approved /\ o.index = c.prior)] : o \in occs}
                           \cup {[index |-> new, time |-> c.time, rank |-> CorrectionRank,
                                  superseded |-> FALSE, quarantined |-> FALSE]}
                /\ selection' = IF c.approved THEN Override(c.seen, new) ELSE selection
                /\ correcting' = [correcting EXCEPT ![s] = IF c.approved THEN [at |-> "committed"] ELSE Idle]
                /\ latest' = IF c.approved THEN new ELSE latest
                /\ disturbed' = (disturbed \/ (c.approved /\ c.seen # selection))
        /\ UNCHANGED <<stages, rebuilding, operations>>

\* Mutant: a new ranking replaces the steward's override.
ResolvedAgain(rows) ==
    IF Cardinality(Live) <= 1 THEN rows
    ELSE IF rows = {} THEN {[row |-> Best(Live).index, selected |-> Best(Live).index, method |-> "AUTOMATIC"]}
    ELSE {[r EXCEPT !.selected = Best(Live).index] : r \in rows}

\* resolve_vessel_call: the selection after this run, from the rows read.  Competing live
\* observations are ranked, quarantined ones included; a steward's override stays.
Resolved(rows) ==
    IF Cardinality(Live) <= 1 \/ (\E r \in rows : r.method = "STEWARD_OVERRIDE") THEN rows
    ELSE IF rows = {} THEN {[row |-> Best(Live).index, selected |-> Best(Live).index, method |-> "AUTOMATIC"]}
    ELSE {[r EXCEPT !.selected = Best(Live).index] : r \in rows}

\* _build_event_instant_map: the only usable observation, or the selected one, or the first of
\* an unordered result.
GoverningChoices(rows) ==
    LET selected == {o \in Usable : \E r \in rows : r.selected = o.index}
    IN  IF Usable = {} THEN {None}
        ELSE IF selected # {} /\ Cardinality(Usable) > 1 THEN {o.index : o \in selected}
        ELSE {o.index : o \in Usable}

\* A reconstruction reads and computes; more than one selection row is an error as soon as a
\* conflict makes it read them.
RebuildRead(p) ==
    /\ rebuilding[p].at = "idle"
    /\ IF p \in Stewards THEN correcting[p].at = "committed" /\ UNCHANGED operations ELSE Begin
    /\ IF Cardinality(Live) > 1 /\ Cardinality(selection) > 1
       THEN /\ correcting' = IF p \in Stewards THEN [correcting EXCEPT ![p] = Idle] ELSE correcting
            /\ UNCHANGED rebuilding
       ELSE /\ \E event \in GoverningChoices(Resolved(selection)) :
                   rebuilding' = [rebuilding EXCEPT ![p] = [at |-> "read", event |-> event, seen |-> stages,
                                      from |-> selection, to |-> Resolved(selection), of |-> occs]]
            /\ UNCHANGED correcting
    /\ UNCHANGED <<occs, selection, stages, latest, disturbed>>

\* The stages read are replaced; a selection row is written where the run changed it.
RebuildCommit(p) ==
    LET r == rebuilding[p]
        changed == {n \in r.to : n \notin r.from}
        kept == {o \in selection : \A n \in changed : n.row # o.row}
        merged(n) == LET now == {o \in selection : o.row = n.row}
                     IN  IF now = {} THEN n ELSE [(CHOOSE o \in now : TRUE) EXCEPT !.selected = n.selected]
    IN  /\ r.at = "read"
        /\ stages' = (stages \ r.seen) \cup {[run |-> operations, by |-> p, event |-> r.event]}
        /\ selection' = kept \cup {merged(n) : n \in changed}
        /\ disturbed' = (disturbed \/ r.seen # stages \/ r.from # selection \/ r.of # occs)
        /\ rebuilding' = [rebuilding EXCEPT ![p] = Idle]
        /\ correcting' = IF p \in Stewards THEN [correcting EXCEPT ![p] = Idle] ELSE correcting
        /\ UNCHANGED <<occs, operations, latest>>

\* A quality run compares some observation with the event before it; the query has no order.
\* One that comes first by more than the tolerance is quarantined, for good.
QualityRun(o) ==
    /\ Begin
    /\ o.time < AnchorTime
    /\ occs' = (occs \ {o}) \cup {[o EXCEPT !.quarantined = TRUE]}
    /\ UNCHANGED <<selection, stages, correcting, rebuilding, latest, disturbed>>

\* The API process stops between the two commits of a correction: the journey is not rebuilt.
StopBetweenCommits(s) ==
    /\ correcting[s].at = "committed"
    /\ correcting' = [correcting EXCEPT ![s] = Idle]
    /\ rebuilding' = [rebuilding EXCEPT ![s] = Idle]
    /\ disturbed' = TRUE
    /\ UNCHANGED <<occs, selection, stages, operations, latest>>

JourneyNext ==
    \/ \E s \in Stewards : \/ \E prior \in {o.index : o \in occs} \cup {None}, t \in Times, a \in BOOLEAN :
                                  CorrectBegin(s, prior, t, a)
                           \/ CorrectCommit(s)
                           \/ StopBetweenCommits(s)
    \/ \E p \in Stewards \cup Rebuilders : RebuildRead(p) \/ RebuildCommit(p)
    \/ \E o \in occs : QualityRun(o)

JourneySpec == JourneyInit /\ [][JourneyNext]_journeyVars

-----------------------------------------------------------------------------
\* Once the requests are done, the journey is built on the correction approved last: no later
\* ranking, pending correction or reconstruction displaces it unless it was quarantined.  This
\* is what holds without overlapping commits; disturbed marks the behaviours with them.
ApprovedCorrectionGoverns ==
    /\ ~disturbed /\ latest # None
    /\ \A s \in Stewards : correcting[s].at # "committed"
    /\ \A o \in occs : o.index = latest => ~o.quarantined
    => {st.event : st \in stages} = {latest} /\ Cardinality(stages) = 1
=============================================================================
