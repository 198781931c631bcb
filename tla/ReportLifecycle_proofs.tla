------------------------ MODULE ReportLifecycle_proofs ------------------------
(***************************************************************************)
(* Proofs about report runs, for any number of generations, requests,      *)
(* formats, deliveries and deaths.                                         *)
(***************************************************************************)
EXTENDS ReportLifecycle, TLAPS

\* Rows are only added, so a complete set of artifacts stays complete while
\* the list of formats is the same.
LEMMA CompleteKept ==
  ASSUME Complete, artifacts \subseteq artifacts', formats' = formats
  PROVE  Complete'
BY DEF Complete

\* The rows of a finished generation make the artifacts complete.
LEMMA FinishCompletes ==
  ASSUME NEW g \in Generations, artifacts' = artifacts \cup Rows(g, formats),
         formats' = formats, formats \in Nat
  PROVE  Complete'
BY DEF Complete, Rows

\* The initial state of a run satisfies the invariant.
LEMMA ReportInitInv == ReportInit => ReportInv
<1> SUFFICES ASSUME ReportInit PROVE ReportInv
  OBVIOUS
<1>1. ReportTypeOK
  <2>1. delivery \in Seq({"DELIVERED", "FAILED"})
    BY DEF ReportInit
  <2>2. NoRequest \in [kind : Kinds \cup {"none"}, same : BOOLEAN, result : SUBSET Generations]
    BY DEF NoRequest
  <2>3. request \in [Requests -> [kind : Kinds \cup {"none"},
                                 same : BOOLEAN, result : SUBSET Generations]]
    BY <2>2 DEF ReportInit
  <2>4. approved \in BOOLEAN
    BY DEF ReportInit
  <2>5. /\ status \in RunStatuses /\ formats \in 0..MaxFormats /\ deaths \in 0..MaxDeaths
        /\ result \in SUBSET Generations /\ approval \in SUBSET Generations
        /\ artifacts \subseteq Generations \X (1..MaxFormats)
    BY ReportBounds DEF ReportInit, RunStatuses
  <2>6. stage \in [Generations -> Stages] /\ loaded \in [Generations -> RunStatuses]
    BY DEF ReportInit, RunStatuses, Stages
  <2> QED
    BY <2>1, <2>3, <2>4, <2>5, <2>6 DEF ReportTypeOK
<1>2. AbsentInv /\ CompleteInv /\ ApprovedInv
  BY DEF ReportInit, AbsentInv, CompleteInv, ApprovedInv, NoRequest
<1> QED
  BY <1>1, <1>2 DEF ReportInv

\* Creating the run keeps the invariant: nobody works on it before.
LEMMA CreateKeeps == ReportInv /\ Create => ReportInv'
<1> SUFFICES ASSUME ReportInv, Create PROVE ReportInv'
  OBVIOUS
<1> USE DEF ReportInv
<1>1. ReportTypeOK'
  BY DEF ReportTypeOK, Create, outVars, genVars, RunStatuses
<1>2. AbsentInv' /\ CompleteInv' /\ ApprovedInv'
  BY DEF AbsentInv, CompleteInv, ApprovedInv, Create, outVars, genVars
<1> QED
  BY <1>1, <1>2

\* Every step of a generation keeps the invariant: it adds rows and writes a
\* status that needs no approval.
LEMMA GenerateKeeps ==
  ASSUME ReportInv, NEW g \in Generations, Generate(g) \/ GenerateDies(g)
  PROVE  ReportInv'
<1> USE DEF ReportInv
<1> USE ReportBounds
<1>1. CASE GenerateRead(g)
  <2>1. ReportTypeOK'
    BY <1>1 DEF ReportTypeOK, GenerateRead, Return, runVars, outVars, Stages, RunStatuses
  <2>2. /\ AbsentInv' /\ CompleteInv' /\ ApprovedInv'
    BY <1>1 DEF GenerateRead, runVars, outVars, AbsentInv, CompleteInv, ApprovedInv, Complete
  <2> QED
    BY <2>1, <2>2
<1>2. CASE GenerateStart(g)
  <2>1. ReportTypeOK'
    BY <1>2 DEF ReportTypeOK, GenerateStart, Written, outVars, Stages, RunStatuses
  <2>2. AbsentInv' /\ CompleteInv' /\ ApprovedInv'
    BY <1>2 DEF GenerateStart, Written, outVars, AbsentInv, CompleteInv, ApprovedInv, Complete
  <2> QED
    BY <2>1, <2>2
<1>3. CASE GenerateReload(g)
  <2>1. ReportTypeOK'
    BY <1>3 DEF ReportTypeOK, GenerateReload, runVars, outVars, Stages, RunStatuses
  <2>2. AbsentInv' /\ CompleteInv' /\ ApprovedInv'
    BY <1>3 DEF GenerateReload, runVars, outVars, AbsentInv, CompleteInv, ApprovedInv, Complete
  <2> QED
    BY <2>1, <2>2
<1>4. CASE GenerateResult(g)
  <2>1. ReportTypeOK'
    BY <1>4 DEF ReportTypeOK, GenerateResult, outVars, Stages
  <2>2. AbsentInv' /\ CompleteInv' /\ ApprovedInv'
    BY <1>4 DEF GenerateResult, outVars, AbsentInv, CompleteInv, ApprovedInv, Complete
  <2> QED
    BY <2>1, <2>2
<1>5. CASE GenerateFinish(g)
  <2>1. ReportTypeOK'
    BY <1>5 DEF ReportTypeOK, GenerateFinish, Return, Rows, Written, Stages, RunStatuses
  <2>2. Complete'
    BY <1>5, FinishCompletes DEF GenerateFinish, ReportTypeOK
  <2>3. AbsentInv' /\ CompleteInv' /\ ApprovedInv'
    BY <1>5, <2>2 DEF GenerateFinish, Written, AbsentInv, CompleteInv, ApprovedInv
  <2> QED
    BY <2>1, <2>3
<1>6. CASE GenerateFails(g)
  <2>1. ReportTypeOK'
    BY <1>6 DEF ReportTypeOK, GenerateFails, Return, Rows, Written, Stages, RunStatuses
  <2>2. Complete => Complete'
    BY <1>6, CompleteKept DEF GenerateFails
  <2>3. AbsentInv' /\ CompleteInv' /\ ApprovedInv'
    BY <1>6, <2>2 DEF GenerateFails, Written, AbsentInv, CompleteInv, ApprovedInv
  <2> QED
    BY <2>1, <2>3
<1>7. CASE GenerateDies(g)
  <2>1. ReportTypeOK'
    BY <1>7 DEF ReportTypeOK, GenerateDies, Return, runVars, outVars, Stages, RunStatuses
  <2>2. AbsentInv' /\ CompleteInv' /\ ApprovedInv'
    BY <1>7 DEF GenerateDies, Return, runVars, outVars, AbsentInv, CompleteInv, ApprovedInv, Complete
  <2> QED
    BY <2>1, <2>2
<1> QED
  BY <1>1, <1>2, <1>3, <1>4, <1>5, <1>6, <1>7 DEF Generate

\* Every request keeps it: what a handler checked when it loaded the run is
\* recorded in facts that no other handler takes back.
LEMMA RequestKeeps ==
  ASSUME ReportInv, NEW q \in Requests, RequestRead(q) \/ RequestWrite(q) \/ Deliver(q)
  PROVE  ReportInv'
<1> USE DEF ReportInv
<1>1. CASE RequestRead(q)
  <2>1. ReportTypeOK'
    <3>1. PICK k \in Kinds :
            request' = [request EXCEPT ![q] =
              [kind |-> k,
               same |-> k \in DOMAIN Target /\ Target[k] = status,
               result |-> IF k = "approve" THEN result ELSE {}]]
      BY <1>1 DEF RequestRead
    <3>2. (k \in DOMAIN Target /\ Target[k] = status) \in BOOLEAN
      OBVIOUS
    <3>3. request' \in [Requests -> [kind : Kinds \cup {"none"},
                                    same : BOOLEAN, result : SUBSET Generations]]
      <4> DEFINE b == k \in DOMAIN Target /\ Target[k] = status
      <4>1. request' = [request EXCEPT ![q] =
              [kind |-> k, same |-> b, result |-> IF k = "approve" THEN result ELSE {}]]
        BY <3>1
      <4>2. b \in BOOLEAN
        BY <3>2
      <4> HIDE DEF b
      <4> QED
        BY <4>1, <4>2 DEF ReportTypeOK
    <3> QED
      BY <1>1, <3>3 DEF ReportTypeOK, RequestRead, runVars, outVars, genVars
  <2>2. PICK k \in Kinds :
          /\ Allowed(k, status)
          /\ request'[q].kind = k
          /\ \A r \in Requests : r # q => request'[r] = request[r]
    BY <1>1 DEF RequestRead, ReportTypeOK
  <2>3. /\ UNCHANGED <<status, formats, approved, artifacts, delivery, stage>>
        /\ status # "ABSENT"
    BY <1>1 DEF RequestRead, runVars, outVars, genVars
  <2>4. AbsentInv' /\ CompleteInv' /\ ApprovedInv'
    BY <2>2, <2>3 DEF Allowed, AbsentInv, CompleteInv, ApprovedInv, Complete
  <2> QED
    BY <2>1, <2>4
<1>2. CASE RequestWrite(q)
  <2>1. request[q].kind \in {"cancel", "retry", "approve", "reject", "publish"}
    BY <1>2 DEF RequestWrite, Target
  <2>2. /\ status' = status \/ status' = Target[request[q].kind]
        /\ Target[request[q].kind] \in {"CANCELLED", "QUEUED", "APPROVED", "REJECTED", "PUBLISHED"}
        /\ Target[request[q].kind] = "APPROVED" => request[q].kind = "approve"
        /\ Target[request[q].kind] = "PUBLISHED" => request[q].kind = "publish"
    BY <1>2, <2>1 DEF RequestWrite, Target
  <2>3. ReportTypeOK'
    BY <1>2, <2>1, <2>2 DEF ReportTypeOK, RequestWrite, outVars, genVars, RunStatuses, NoRequest
  <2>4. AbsentInv' /\ CompleteInv' /\ ApprovedInv'
    BY <1>2, <2>1, <2>2 DEF RequestWrite, outVars, genVars, ReportTypeOK, NoRequest,
                AbsentInv, CompleteInv, ApprovedInv, Complete
  <2> QED
    BY <2>3, <2>4
<1>3. CASE Deliver(q)
  <2>1. ReportTypeOK'
    BY <1>3 DEF ReportTypeOK, Deliver, runVars, genVars, NoRequest
  <2>2. AbsentInv' /\ CompleteInv' /\ ApprovedInv'
    BY <1>3 DEF Deliver, runVars, genVars, ReportTypeOK, NoRequest,
                AbsentInv, CompleteInv, ApprovedInv, Complete
  <2> QED
    BY <2>1, <2>2
<1> QED
  BY <1>1, <1>2, <1>3

\* A retried delivery changes only the state of that delivery.
LEMMA RetryKeeps ==
  ASSUME ReportInv, NEW i \in DOMAIN delivery, RetryDelivery(i)
  PROVE  ReportInv'
<1> USE DEF ReportInv
<1>1. ReportTypeOK'
  BY DEF ReportTypeOK, RetryDelivery, runVars, genVars
<1>2. delivery # <<>>
  BY DEF ReportTypeOK
<1>3. AbsentInv' /\ CompleteInv' /\ ApprovedInv'
  BY <1>2 DEF RetryDelivery, runVars, genVars, AbsentInv, CompleteInv, ApprovedInv, Complete
<1> QED
  BY <1>1, <1>3

\* The invariant holds in every reachable state of a report run.
THEOREM ReportInvariant == ReportSpec => []ReportInv
<1>1. ReportInv /\ [ReportNext]_reportVars => ReportInv'
  <2> SUFFICES ASSUME ReportInv, [ReportNext]_reportVars PROVE ReportInv'
    OBVIOUS
  <2>1. CASE Create
    BY <2>1, CreateKeeps
  <2>2. CASE \E g \in Generations : Generate(g) \/ GenerateDies(g)
    BY <2>2, GenerateKeeps
  <2>3. CASE \E q \in Requests : RequestRead(q) \/ RequestWrite(q) \/ Deliver(q)
    BY <2>3, RequestKeeps
  <2>4. CASE \E i \in DOMAIN delivery : RetryDelivery(i)
    BY <2>4, RetryKeeps
  <2>5. CASE UNCHANGED reportVars
    BY <2>5 DEF reportVars, runVars, outVars, genVars, ReportInv, ReportTypeOK, AbsentInv,
                CompleteInv, ApprovedInv, Complete
  <2> QED
    BY <2>1, <2>2, <2>3, <2>4, <2>5 DEF ReportNext
<1> QED
  BY ReportInitInv, <1>1, PTL DEF ReportSpec

\* Whatever generations and requests overlap, an approved, published or
\* delivered run has an artifact for every format (service.py: generate).
THEOREM PublishedComplete == ReportSpec => []PublishedIsComplete
<1>1. ReportInv => PublishedIsComplete
  BY DEF ReportInv, CompleteInv, Complete, PublishedIsComplete
<1> QED
  BY ReportInvariant, <1>1, PTL

\* A run keeps its type: no status outside the lifecycle and no artifact or approval of a
\* generation or format the run does not have (reporting.py, the status of a run).
THEOREM ReportTypes == ReportSpec => []ReportTypeOK
<1>1. ReportInv => ReportTypeOK
  BY DEF ReportInv
<1> QED
  BY ReportInvariant, <1>1, PTL

\* Whatever generations and requests overlap, a published or delivered run
\* was approved by somebody (reporting.py: approve, publish, deliver).
THEOREM PublishedApproved == ReportSpec => []PublishedWasApproved
<1>1. ReportInv => PublishedWasApproved
  BY DEF ReportInv, ApprovedInv, PublishedWasApproved
<1> QED
  BY ReportInvariant, <1>1, PTL
=============================================================================
