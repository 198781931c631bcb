----------------------------- MODULE QualityRules -----------------------------
(* The data-quality rules (services/quality/engine.py): the issues of one     *)
(* vessel call and of one staging row.  Times are whole hours unless said     *)
(* otherwise; None is a blank or missing value and Bad one that cannot be     *)
(* parsed.                                                                    *)
EXTENDS Integers, Sequences, FiniteSets

CONSTANT None     \* Python's None: no value

Issue(rule, ref, severity) == [rule |-> rule, ref |-> ref, severity |-> severity]
Raised(condition, issue) == IF condition THEN {issue} ELSE {}

\* The source row and the events of a call.  sheet is [eta, ata] of the VesselCalls row;
\* an event list holds [id, time], the first entry being the one the rules compare.
ArrivalIssues(sheet, eta, ata) ==
    Raised(sheet.ata = None, Issue("DQ-003", "call", "HIGH"))
    \cup Raised(sheet.eta # None /\ sheet.ata # None /\ sheet.eta > sheet.ata, Issue("DQ-004", "call", "HIGH"))
    \cup Raised(eta # <<>> /\ ata # <<>> /\ eta[1].time > ata[1].time, Issue("DQ-004", eta[1].id, "HIGH"))
    \cup Raised(Len(ata) > 1 /\ (ata[1].time - ata[2].time >= 5 \/ ata[2].time - ata[1].time >= 5),
            Issue("DQ-010", ata[1].id, "HIGH"))

PilotIssues(requested, scheduled) ==
    Raised(requested # <<>> /\ scheduled = <<>>, Issue("DQ-005", requested[1].id, "HIGH"))

\* A pair of the template's sequence_rules is broken: its end more than 300 seconds before its start.
SequenceViolated(from, to) == from # <<>> /\ to # <<>> /\ 3600 * (to[1].time - from[1].time) < -300
SequenceIssues(from, to, anchorageRule) ==
    Raised(SequenceViolated(from, to),
       Issue(IF anchorageRule THEN "DQ-006" ELSE "DQ-SEQUENCE-VIOLATION", to[1].id, "CRITICAL"))

\* Mutant: an early service is taken for a chronology error.
ServiceIssuesEarly(s) ==
    Raised(s.scheduled # None /\ s.served # None /\ s.served < s.scheduled,
       Issue("DQ-SERVICE-SCHEDULE-BEFORE-REQUEST", "assignment", "HIGH"))

\* A service is [requested, scheduled, served]; None stands for a missing row as well.
ServiceIssues(s) ==
    Raised(s.requested = None, Issue("DQ-SERVICE-REQUEST-MISSING", "request", "HIGH"))
    \cup Raised(s.scheduled = None, Issue("DQ-SERVICE-SCHEDULE-MISSING", "assignment", "HIGH"))
    \cup Raised(s.scheduled # None /\ s.served = None, Issue("DQ-SERVICE-SERVED-MISSING", "execution", "HIGH"))
    \cup Raised(s.scheduled # None /\ s.requested # None /\ s.scheduled < s.requested,
            Issue("DQ-SERVICE-SCHEDULE-BEFORE-REQUEST", "assignment", "HIGH"))

\* DQ-007: a late service, and no delay row of the call states a reason.
ReasonIssues(services, reasons) ==
    Raised(/\ \E i \in DOMAIN services : /\ services[i].scheduled # None /\ services[i].served # None
                                     /\ services[i].served > services[i].scheduled
       /\ \A i \in DOMAIN reasons : reasons[i] = None,
       Issue("DQ-007", "call", "MEDIUM"))

\* The template's two pairs: anchorage before pilot on board, on board before disembarked.
CallIssues(c) ==
    ArrivalIssues(c.sheet, c.eta, c.ata) \cup PilotIssues(c.pilotRequest, c.pilotScheduled)
    \cup SequenceIssues(c.anchorage, c.pilotOnBoard, TRUE)
    \cup SequenceIssues(c.pilotOnBoard, c.pilotDisembark, FALSE)
    \cup (UNION {ServiceIssues(c.services[i]) : i \in DOMAIN c.services})
    \cup ReasonIssues(c.services, c.reasons)

\* evaluate_staging_records: the mandatory and the timestamp fields of each kind of row.
Required ==
    [vessel_call |-> {"VCN", "Vessel_Name"}, event_occurrence |-> {"VCN", "Event_Name", "Event_Timestamp"},
     service_request |-> {"VCN", "Service_Type"}, delay |-> {}, cargo_ops |-> {}]
TimestampFields ==
    [vessel_call |-> {"ETA", "ATA", "ETD", "ATD"}, event_occurrence |-> {"Event_Timestamp"},
     service_request |-> {"Submission_Time", "Requested_Time", "Scheduled_Time", "Served_Time"},
     delay |-> {"Scheduled_Time", "Served_Time"}, cargo_ops |-> {"Cargo_Start", "Cargo_End"}]
\* blank and bad are the fields of the row without a value and with an unparseable one.
StagingIssues(table, blank, bad, duplicate) ==
    Raised(Required[table] \cap blank # {}, Issue("DQ-MISSING-MANDATORY-FIELD", "staging", "HIGH"))
    \cup Raised(duplicate, Issue("DQ-DUPLICATE-ROW", "staging", "MEDIUM"))
    \cup Raised((TimestampFields[table] \cap bad) \ blank # {}, Issue("DQ-INVALID-TIMESTAMP", "staging", "HIGH"))

-----------------------------------------------------------------------------
(* Properties.                                                                *)

\* Early service is valid: serving before the schedule raises nothing by itself.  A complete
\* service scheduled after its request raises nothing, and moving served earlier adds nothing.
EarlyServiceIsValid(s) ==
    /\ s.scheduled # None /\ s.served # None =>
           \A t \in 0..s.served : ServiceIssues([s EXCEPT !.served = t]) = ServiceIssues(s)
    /\ s.requested # None /\ s.scheduled # None /\ s.served # None /\ s.requested <= s.scheduled => ServiceIssues(s) = {}

\* Only a broken event order quarantines: a call whose ordered pairs are in order has no critical
\* issue, and the record quarantined is the event that should have been the later one of its pair.
OnlySequenceIsCritical(c) ==
    \A i \in CallIssues(c) : i.severity = "CRITICAL" =>
        \/ SequenceViolated(c.anchorage, c.pilotOnBoard) /\ i.ref = c.pilotOnBoard[1].id
        \/ SequenceViolated(c.pilotOnBoard, c.pilotDisembark) /\ i.ref = c.pilotDisembark[1].id
=============================================================================
