----------------------------- MODULE DelayCauses -----------------------------
(* The causes of one delay (services/delays): analysts allocate its hours to  *)
(* causes and review its reason, the inference engine proposes a cause.  Each *)
(* request reads the delay and its allocations in one step and commits in a   *)
(* second one, so requests overlap; rows are read without locks.              *)
EXTENDS Naturals, Sequences, FiniteSets, SequencesExt

CONSTANTS
    Requests,       \* requests under way at the same time
    None,           \* no value
    Duration,       \* total_duration_hours of the delay
    Stage,          \* words of the movement stage of the delay
    Records,        \* service records of the call, a sequence
    Payloads,       \* allocation lists an analyst sends: sequences of [hours, primary, status]
    MaxRequests     \* bound: requests of one behaviour

DA == INSTANCE DelayAnalysis

VARIABLES
    delay,      \* the header: [cause, reason, closed, review]; reason is who stated it
    allocs,     \* its delay_allocation rows, a set of [id, hours, primary, status, state]
    request,    \* [Requests -> what a request under way read]
    nextId      \* the next row id; also counts the requests

delayVars == <<delay, allocs, request, nextId>>

Idle == [kind |-> "idle"]
Allocated(rows) == LET s == SetToSeq(rows) IN DA!Total([i \in DOMAIN s |-> s[i].hours])
Primary(rows) == {a \in rows : a.primary}
Inferred(rows) == {a \in rows : a.status = "INFERRED"}

\* The pipeline's import: the cause is confirmed unless the source says otherwise, even when
\* no reason is stated; one primary allocation covers the whole duration.
ImportedDelay(cause, stated) ==
    [cause |-> cause, reason |-> IF stated THEN "source" ELSE "none", closed |-> FALSE, review |-> ~stated]
ImportedAlloc(cause) ==
    [id |-> <<0, 0>>, hours |-> Duration, primary |-> TRUE,
     status |-> IF cause = "Confirmed" THEN "CONFIRMED" ELSE "INFERRED",
     state |-> IF cause = "Confirmed" THEN "APPROVED" ELSE "PENDING_REVIEW"]

DelayInit ==
    /\ \E cause \in {"Confirmed", "Inferred"}, stated \in BOOLEAN :
           /\ delay = ImportedDelay(cause, stated)
           /\ allocs = {ImportedAlloc(cause)}
    /\ request = [r \in Requests |-> Idle]
    /\ nextId = 1

\* The session writes an attribute only when it differs from the value it loaded.
Written(current, loaded, new) == [f \in DOMAIN current |-> IF new[f] = loaded[f] THEN current[f] ELSE new[f]]
Update(rows, old, New(_)) ==
    {IF \E o \in old : o.id = a.id THEN LET o == CHOOSE o \in old : o.id = a.id IN Written(a, o, New(o)) ELSE a : a \in rows}

\* The first statement of every request loads the header; the allocations are read with it.
Begin(r, kind) ==
    /\ request[r] = Idle
    /\ nextId <= MaxRequests
    /\ nextId' = nextId + 1
    /\ request' = [request EXCEPT ![r] = [kind |-> kind, delay |-> delay, allocs |-> allocs, id |-> nextId]]
    /\ UNCHANGED <<delay, allocs>>

Finish(r) == request' = [request EXCEPT ![r] = Idle]

\* Mutant: every row marked primary stays primary.
NewAllocsAllPrimary(payload, id) ==
    {[id |-> <<id, i>>, hours |-> payload[i].hours, primary |-> payload[i].primary,
      status |-> payload[i].status, state |-> "APPROVED"] : i \in DOMAIN payload}

\* allocate_causes: reject an excess (the tolerance of 0.01 h is below a whole hour), otherwise
\* delete the rows read and insert the new ones with exactly one primary.
NewAllocs(payload, id) ==
    LET marked == {i \in DOMAIN payload : payload[i].primary}
        primary == IF marked = {} THEN 1 ELSE DA!Min(marked)
    IN  {[id |-> <<id, i>>, hours |-> payload[i].hours, primary |-> i = primary,
          status |-> payload[i].status, state |-> "APPROVED"] : i \in DOMAIN payload}

Allocate(r, payload) ==
    /\ request[r].kind = "allocate"
    /\ IF DA!Total([i \in DOMAIN payload |-> payload[i].hours]) > Duration
       THEN UNCHANGED allocs
       ELSE allocs' = (allocs \ request[r].allocs) \cup NewAllocs(payload, request[r].id)
    /\ Finish(r)
    /\ UNCHANGED <<delay, nextId>>

\* Mutant: confirmed causes are re-evaluated too.
MayInferForced(header) == header.cause # "none"

\* infer_delay_cause as the API calls it, without force_reevaluate.  The one INFERRED row is
\* updated, or a row over the whole duration is added; two INFERRED rows are an error.
MayInfer(header) == header.cause # "Confirmed"

Infer(r) ==
    LET seen == request[r].allocs
        header == request[r].delay
        old == Inferred(seen)
        row == [id |-> <<request[r].id, 0>>, hours |-> Duration, primary |-> TRUE,
                status |-> "INFERRED", state |-> "PENDING_REVIEW"]
        proposal == [header EXCEPT !.cause = "Inferred", !.reason = DA!ProposedCategory(Records, Stage)]
    IN  /\ request[r].kind = "infer"
        /\ IF ~MayInfer(header) \/ Cardinality(old) > 1
           THEN UNCHANGED <<delay, allocs>>
           ELSE /\ allocs' = IF old = {} THEN allocs \cup {row}
                             ELSE Update(allocs, old, LAMBDA a : [a EXCEPT !.state = "PENDING_REVIEW"])
                /\ delay' = Written(delay, header, proposal)
        /\ Finish(r)
        /\ UNCHANGED nextId

\* review_delay_reason: the header takes the reviewer's reason but keeps its cause status; the
\* one primary row follows, or a row over the whole duration is added; two primaries are an error.
Review(r, decision) ==
    LET seen == request[r].allocs
        header == request[r].delay
        old == Primary(seen)
        status(otherwise) == IF decision = "APPROVED" THEN "CONFIRMED" ELSE otherwise
        row == [id |-> <<request[r].id, 0>>, hours |-> Duration, primary |-> TRUE,
                status |-> status("INFERRED"), state |-> decision]
        reviewed == [header EXCEPT !.reason = "reviewer", !.review = FALSE, !.closed = (decision = "APPROVED")]
    IN  /\ request[r].kind = "review"
        /\ IF Cardinality(old) > 1 THEN UNCHANGED <<delay, allocs>>
           ELSE /\ delay' = Written(delay, header, reviewed)
                /\ allocs' = IF old = {} THEN allocs \cup {row}
                             ELSE Update(allocs, old, LAMBDA a : [a EXCEPT !.state = decision, !.status = status(@)])
        /\ Finish(r)
        /\ UNCHANGED nextId

DelayNext ==
    \E r \in Requests :
        \/ \E kind \in {"allocate", "infer", "review"} : Begin(r, kind)
        \/ \E p \in Payloads : Allocate(r, p)
        \/ Infer(r)
        \/ \E d \in {"APPROVED", "REJECTED"} : Review(r, d)

DelaySpec == DelayInit /\ [][DelayNext]_delayVars

-----------------------------------------------------------------------------
(* Properties.                                                                *)

\* A delay imported as confirmed stays confirmed, and only a reviewer replaces its reason: no
\* inference does, however the requests overlap (inference.py, HARD RULE).
ConfirmedReasonKept ==
    [][delay.cause = "Confirmed" => /\ delay'.cause = "Confirmed"
                                    /\ delay'.reason \in {delay.reason, "reviewer"}]_delayVars

\* An allocation that saw the current rows accounts for the delay: its hours are within the
\* duration and exactly one row is primary, whatever requests came before.
AllocationAccounts ==
    [][\A r \in Requests :
          /\ request[r].kind = "allocate" /\ request'[r] = Idle
          /\ request[r].allocs = allocs /\ allocs' # allocs
          => Allocated(allocs') <= Duration /\ (allocs' # {} => Cardinality(Primary(allocs')) = 1)]_delayVars
=============================================================================
