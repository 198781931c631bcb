--------------------------- MODULE ReportLifecycle ---------------------------
(***************************************************************************)
(* One report run: its generation (services/reporting/service.py, called   *)
(* by the worker task and by run_now) against the API requests that        *)
(* cancel, retry, approve, reject, publish and deliver it                  *)
(* (routers/reporting.py).                                                 *)
(*                                                                         *)
(* Nothing locks the run.  Every handler loads the row in one transaction  *)
(* and writes it later in the same one, so what it checked may be stale.   *)
(* The ORM only updates a column whose new value differs from the value it *)
(* loaded: a handler that loaded the status it is about to set writes no   *)
(* status at all.  After a commit the next access loads the row again.     *)
(***************************************************************************)
EXTENDS Naturals, Sequences

CONSTANTS
  Generations,  \* the calls of generate: worker tries and run-now requests
  Requests,     \* API requests on this run that may be served at once
  MaxFormats,   \* bound: length of the list of output formats of a run
  MaxDeliveries,\* bound: deliveries of the run
  MaxDeaths     \* bound: generations that end with their process

ASSUME ReportBounds ==
  MaxFormats \in Nat /\ MaxDeliveries \in Nat /\ MaxDeaths \in Nat

VARIABLES
  status,       \* report_run.status; "ABSENT" before the row is there
  formats,      \* the length of report_run.formats
  result,       \* the generation that wrote report_run.result_data
  approved,     \* whether report_run.approved_by is set
  approval,     \* history: the result that was there when it was approved
  artifacts,    \* report_artifact rows: <<generation, position in formats>>
  delivery,     \* the report_delivery rows' states, oldest first
  stage,        \* per generation: the last thing it did
  loaded,       \* per generation: the status it loaded last
  request,      \* per request: what it is, whether it loaded the status it
                \* is to set, and the result it approves
  deaths        \* generations that ended with their process

runVars == <<status, formats, result, approved, approval>>
outVars == <<artifacts, delivery>>
genVars == <<stage, loaded, deaths>>
reportVars == <<runVars, outVars, genVars, request>>

RunStatuses == {"ABSENT", "QUEUED", "RUNNING", "AWAITING_APPROVAL", "FAILED",
                "CANCELLED", "APPROVED", "REJECTED", "PUBLISHED"}
Kinds == {"cancel", "retry", "approve", "reject", "publish", "deliver"}
Stages == {"none", "loaded", "started", "building", "built", "rendering", "done"}
NoRequest == [kind |-> "none", same |-> FALSE, result |-> {}]

ReportTypeOK ==
  /\ status \in RunStatuses
  /\ formats \in 0..MaxFormats
  /\ result \in SUBSET Generations
  /\ approved \in BOOLEAN
  /\ approval \in SUBSET Generations
  /\ artifacts \subseteq Generations \X (1..MaxFormats)
  /\ delivery \in Seq({"DELIVERED", "FAILED"})
  /\ stage \in [Generations -> Stages]
  /\ loaded \in [Generations -> RunStatuses]
  /\ request \in [Requests -> [kind : Kinds \cup {"none"},
                               same : BOOLEAN, result : SUBSET Generations]]
  /\ deaths \in 0..MaxDeaths

ReportInit ==
  /\ status = "ABSENT"
  /\ formats = 0
  /\ result = {}
  /\ approved = FALSE
  /\ approval = {}
  /\ artifacts = {}
  /\ delivery = <<>>
  /\ stage = [g \in Generations |-> "none"]
  /\ loaded = [g \in Generations |-> "ABSENT"]
  /\ request = [q \in Requests |-> NoRequest]
  /\ deaths = 0

\* The status after a handler that loaded old sets it to new and commits.
Written(old, new) == IF old = new THEN status ELSE new

\* POST /reports: a run is created for a list of formats.
Create ==
  /\ status = "ABSENT"
  /\ formats' \in 1..MaxFormats
  /\ status' = "QUEUED"
  /\ UNCHANGED <<result, approved, approval, outVars, genVars, request>>

-----------------------------------------------------------------------------
(* generate *)

\* The call ends and its session with it.
Return(g) ==
  /\ stage' = [stage EXCEPT ![g] = "done"]
  /\ loaded' = [loaded EXCEPT ![g] = "ABSENT"]

\* The run is loaded; a cancelled one is left alone.
GenerateRead(g) ==
  /\ stage[g] = "none"
  /\ status # "ABSENT"
  /\ IF status = "CANCELLED" THEN Return(g)
     ELSE /\ stage' = [stage EXCEPT ![g] = "loaded"]
          /\ loaded' = [loaded EXCEPT ![g] = status]
  /\ UNCHANGED <<runVars, outVars, deaths, request>>

\* RUNNING is committed.
GenerateStart(g) ==
  /\ stage[g] = "loaded"
  /\ status' = Written(loaded[g], "RUNNING")
  /\ stage' = [stage EXCEPT ![g] = "started"]
  /\ UNCHANGED <<formats, result, approved, approval, outVars, loaded, deaths,
                 request>>

\* The first access after a commit loads the row again.
GenerateReload(g) ==
  /\ stage[g] \in {"started", "built"}
  /\ loaded' = [loaded EXCEPT ![g] = status]
  /\ stage' = [stage EXCEPT ![g] = IF @ = "started" THEN "building" ELSE "rendering"]
  /\ UNCHANGED <<runVars, outVars, deaths, request>>

\* build_result is done; its data is committed and the status left alone.
GenerateResult(g) ==
  /\ stage[g] = "building"
  /\ result' = {g}
  /\ stage' = [stage EXCEPT ![g] = "built"]
  /\ UNCHANGED <<status, formats, approved, approval, outVars, loaded, deaths,
                 request>>

\* Mutant: one row too many.
RowsOneMore(g, n) == {g} \X (1..(n + 1))

\* The artifact rows of generation g for the first n formats.
Rows(g, n) == {g} \X (1..n)

\* Mutant: the run is up for approval while formats are still to be rendered.
GenerateFinishEarly(g) ==
  /\ stage[g] = "rendering"
  /\ \E n \in 0..formats : artifacts' = artifacts \cup Rows(g, n)
  /\ status' = Written(loaded[g], "AWAITING_APPROVAL")
  /\ Return(g)
  /\ UNCHANGED <<formats, result, approved, approval, delivery, deaths, request>>

\* All formats are rendered: their rows and AWAITING_APPROVAL are committed.
GenerateFinish(g) ==
  /\ stage[g] = "rendering"
  /\ artifacts' = artifacts \cup Rows(g, formats)
  /\ status' = Written(loaded[g], "AWAITING_APPROVAL")
  /\ Return(g)
  /\ UNCHANGED <<formats, result, approved, approval, delivery, deaths, request>>

\* Mutant: the exception handler does not write FAILED.
GenerateFailsSilently(g) ==
  /\ stage[g] \in {"building", "rendering"}
  /\ Return(g)
  /\ UNCHANGED <<runVars, outVars, deaths, request>>

\* build_result or the rendering of a format raises.  The handler's commit
\* also saves the artifact rows that were added before.
GenerateFails(g) ==
  /\ \/ stage[g] = "building" /\ UNCHANGED artifacts
     \/ /\ stage[g] = "rendering"
        /\ \E n \in 0..formats : artifacts' = artifacts \cup Rows(g, n)
  /\ status' = Written(loaded[g], "FAILED")
  /\ Return(g)
  /\ UNCHANGED <<formats, result, approved, approval, delivery, deaths, request>>

\* The process of the generation dies, or a database error makes the commit
\* of its exception handler fail as well.
GenerateDies(g) ==
  /\ deaths < MaxDeaths
  /\ stage[g] \notin {"none", "done"}
  /\ deaths' = deaths + 1
  /\ Return(g)
  /\ UNCHANGED <<runVars, outVars, request>>

-----------------------------------------------------------------------------
(* API requests on the run *)

\* Mutant: publishing does not look at the status.
AllowedUnapproved(k, s) ==
  /\ k = "approve" => s = "AWAITING_APPROVAL"
  /\ k = "deliver" => s = "PUBLISHED"

\* The statuses in which a request is not refused.
Allowed(k, s) ==
  /\ k = "approve" => s = "AWAITING_APPROVAL"
  /\ k = "publish" => s = "APPROVED"
  /\ k = "deliver" => s = "PUBLISHED"

\* The status a request sets.
Target == [cancel |-> "CANCELLED", retry |-> "QUEUED", approve |-> "APPROVED",
           reject |-> "REJECTED", publish |-> "PUBLISHED"]

\* find loads the run; a request whose condition fails ends here.
RequestRead(q) ==
  /\ request[q] = NoRequest
  /\ status # "ABSENT"
  /\ \E k \in Kinds :
       /\ Allowed(k, status)
       /\ request' = [request EXCEPT ![q] =
            [kind |-> k,
             same |-> k \in DOMAIN Target /\ Target[k] = status,
             result |-> IF k = "approve" THEN result ELSE {}]]
  /\ UNCHANGED <<runVars, outVars, genVars>>

\* The request's assignments are committed.
RequestWrite(q) ==
  LET k == request[q].kind IN
  /\ k \in DOMAIN Target
  /\ status' = IF request[q].same THEN status ELSE Target[k]
  /\ approved' = (approved \/ k = "approve")
  /\ approval' = IF k = "approve" THEN request[q].result ELSE approval
  /\ request' = [request EXCEPT ![q] = NoRequest]
  /\ UNCHANGED <<formats, result, outVars, genVars>>

\* deliver records one attempt, which the adapter may fail.
Deliver(q) ==
  /\ request[q].kind = "deliver"
  /\ Len(delivery) < MaxDeliveries
  /\ \E s \in {"DELIVERED", "FAILED"} : delivery' = Append(delivery, s)
  /\ request' = [request EXCEPT ![q] = NoRequest]
  /\ UNCHANGED <<runVars, artifacts, genVars>>

\* retry_delivery, whatever has become of the run meanwhile.
RetryDelivery(i) ==
  /\ delivery' = [delivery EXCEPT ![i] = "DELIVERED"]
  /\ UNCHANGED <<runVars, artifacts, genVars, request>>

-----------------------------------------------------------------------------
Generate(g) ==
  \/ GenerateRead(g) \/ GenerateStart(g) \/ GenerateReload(g) \/ GenerateResult(g)
  \/ GenerateFinish(g) \/ GenerateFails(g)

ReportNext ==
  \/ Create
  \/ \E g \in Generations : Generate(g) \/ GenerateDies(g)
  \/ \E q \in Requests : RequestRead(q) \/ RequestWrite(q) \/ Deliver(q)
  \/ \E i \in DOMAIN delivery : RetryDelivery(i)

ReportSpec == ReportInit /\ [][ReportNext]_reportVars

(* A generation that has started goes on by itself; nobody has to start   *)
(* one, and no user has to act.                                           *)
ReportFairSpec ==
  /\ ReportSpec
  /\ \A g \in Generations : WF_reportVars(stage[g] # "none" /\ Generate(g))

-----------------------------------------------------------------------------
(* Properties *)

\* Every format of an approved, published or delivered run has an artifact,
\* although failed tries, late generations and stale handlers write the row
\* (service.py: generate; reporting.py: approve, publish).
PublishedIsComplete ==
  status \in {"APPROVED", "PUBLISHED"} \/ delivery # <<>> =>
    \A i \in 1..formats : \E g \in Generations : <<g, i>> \in artifacts

\* No run is published or delivered that nobody ever approved (reporting.py: "Only approved
\* reports may be published").
PublishedWasApproved ==
  status = "PUBLISHED" \/ delivery # <<>> => approved

\* A run does not stay RUNNING when no generation process dies: the last
\* generation that wrote RUNNING also writes what became of it, whatever
\* other generations and requests wrote in between (service.py: generate).
RunningEnds ==
  status = "RUNNING" ~> (status # "RUNNING" \/ deaths > 0)

\* What is published is what was approved (phase-13-reporting.md: "Approval
\* workflow before publication").
PublishedAsApproved ==
  status = "PUBLISHED" => result = approval

-----------------------------------------------------------------------------
(* The inductive invariant behind the two safety properties: a handler     *)
(* that passed its check carries what the check stood for to its commit.   *)

Complete == \A i \in 1..formats : \E g \in Generations : <<g, i>> \in artifacts

\* Before the run exists nobody is working on it.
AbsentInv ==
  status = "ABSENT" =>
    /\ delivery = <<>>
    /\ \A q \in Requests : request[q].kind = "none"
    /\ \A g \in Generations : stage[g] = "none"

\* Whoever waits for approval or has passed it has all its artifacts.
CompleteInv ==
  /\ status \in {"AWAITING_APPROVAL", "APPROVED", "PUBLISHED"} => Complete
  /\ delivery # <<>> => Complete
  /\ \A q \in Requests : request[q].kind \in {"approve", "publish", "deliver"} => Complete

\* Whoever has passed approval was approved.
ApprovedInv ==
  /\ status \in {"APPROVED", "PUBLISHED"} => approved
  /\ delivery # <<>> => approved
  /\ \A q \in Requests : request[q].kind \in {"publish", "deliver"} => approved

\* The strengthening of PublishedIsComplete and PublishedWasApproved that
\* every handler of reporting.py and service.py preserves.
ReportInv == ReportTypeOK /\ AbsentInv /\ CompleteInv /\ ApprovedInv
=============================================================================
