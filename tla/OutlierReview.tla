---------------------------- MODULE OutlierReview ----------------------------
(* The stored outliers of a tenant (services/outliers/engine.py): a detection *)
(* replaces all rows and carries each exclusion over to the new row of the    *)
(* same rule and call; a steward excludes or includes a row.  A detection     *)
(* reads the stored exclusions, deletes the rows its delete sees, and commits *)
(* with its new rows; until then the deleted rows are locked.                 *)
EXTENDS Naturals, FiniteSets

CONSTANTS
    Keys,          \* what the rules may detect: a rule and a call
    Detectors,     \* processes that run a detection: the worker, the API
    Stewards,      \* requests that toggle an exclusion
    MaxOperations  \* bound: detections and toggles of one behaviour

VARIABLES
    records,     \* analytics.outlier_record: [key, gen, excluded]
    detection,   \* [Detectors -> a detection under way]
    toggle,      \* [Stewards -> a toggle under way]
    operations   \* number of operations begun; numbers the rows of a detection

outlierVars == <<records, detection, toggle, operations>>

Waiting == [at |-> "idle"]

OutlierInit ==
    /\ records = {}
    /\ detection = [d \in Detectors |-> Waiting]
    /\ toggle = [s \in Stewards |-> Waiting]
    /\ operations = 0

\* The rules are evaluated and the stored exclusions are read.
DetectRead(d, found) ==
    /\ detection[d].at = "idle"
    /\ operations < MaxOperations
    /\ operations' = operations + 1
    /\ detection' = [detection EXCEPT ![d] = [at |-> "read", found |-> found, gen |-> operations',
                                              seen |-> records, doomed |-> {}]]
    /\ UNCHANGED <<records, toggle>>

DetectDelete(d) ==
    /\ detection[d].at = "read"
    /\ detection' = [detection EXCEPT ![d].at = "deleted", ![d].doomed = records]
    /\ UNCHANGED <<records, toggle, operations>>

\* Mutant: new rows start without an exclusion.
CarriedOverNever(seen, key) == IF key \in Keys THEN {FALSE} ELSE seen

\* The exclusion a new row takes over: that of a row read with the same key, if there is one.
CarriedOver(seen, key) ==
    LET before == {r.excluded : r \in {r \in seen : r.key = key}}
    IN  IF before = {} THEN {FALSE} ELSE before

DetectCommit(d) ==
    LET run == detection[d]
    IN  /\ run.at = "deleted"
        /\ \E carried \in [run.found -> BOOLEAN] :
               /\ \A k \in run.found : carried[k] \in CarriedOver(run.seen, k)
               /\ records' = (records \ run.doomed) \cup
                             {[key |-> k, gen |-> run.gen, excluded |-> carried[k]] : k \in run.found}
        /\ detection' = [detection EXCEPT ![d] = Waiting]
        /\ UNCHANGED <<toggle, operations>>

ToggleRead(s, r) ==
    /\ toggle[s].at = "idle"
    /\ operations < MaxOperations
    /\ operations' = operations + 1
    /\ toggle' = [toggle EXCEPT ![s] = [at |-> "read", row |-> r]]
    /\ UNCHANGED <<records, detection>>

\* The update waits for the lock of a deleted row; when the row is gone the request fails.
ToggleCommit(s, excluded) ==
    LET row == toggle[s].row
        now == {r \in records : r.key = row.key /\ r.gen = row.gen}
    IN  /\ toggle[s].at = "read"
        /\ \A d \in Detectors : detection[d].at = "deleted" => now \cap detection[d].doomed = {}
        /\ records' = (records \ now) \cup {[r EXCEPT !.excluded = excluded] : r \in now}
        /\ toggle' = [toggle EXCEPT ![s] = Waiting]
        /\ UNCHANGED <<detection, operations>>

OutlierNext ==
    \/ \E d \in Detectors : \/ \E found \in SUBSET Keys : DetectRead(d, found)
                            \/ DetectDelete(d)
                            \/ DetectCommit(d)
    \/ \E s \in Stewards : \/ \E r \in records : ToggleRead(s, r)
                           \/ \E x \in BOOLEAN : ToggleCommit(s, x)

OutlierSpec == OutlierInit /\ [][OutlierNext]_outlierVars

-----------------------------------------------------------------------------
\* A steward's exclusion of an outlier outlives every detection that finds the outlier again,
\* unless the steward's decision falls between the detection's read and its delete, or an
\* overlapping detection had left the outlier twice.
ExclusionOutlivesDetection ==
    [][\A d \in Detectors :
          detection[d].at = "deleted" /\ detection'[d].at = "idle" /\ detection[d].seen = detection[d].doomed =>
              \A r \in detection[d].seen :
                  /\ r.key \in detection[d].found
                  /\ \A q \in detection[d].seen : q.key = r.key => q = r
                  => \E n \in records' : n.key = r.key /\ n.gen = detection[d].gen /\ n.excluded = r.excluded]_outlierVars
=============================================================================
