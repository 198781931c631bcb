-------------------------- MODULE DatasetActivation --------------------------
(***************************************************************************)
(* The dataset groups of ONE tenant, from the API request that accepts the *)
(* workbooks to the worker transaction that makes the group the active     *)
(* dataset: routers/ingestion.py (upload, append, clear), the status       *)
(* writes of services/ingestion/pipeline.py, and the actor                 *)
(* process_ingestion_analytics_task of apps/worker/main.py.                *)
(*                                                                         *)
(* One action is one committed transaction, or one wait inside one.  A     *)
(* batch IS its created_at: raw.batch.created_at is now(), the start of    *)
(* the transaction that inserts the row, so batch numbers are handed out   *)
(* where that transaction starts.                                          *)
(***************************************************************************)
EXTENDS WorkerPool

CONSTANTS
  MaxBatches,   \* bound: dataset groups created in a behaviour
  Files,        \* workbook contents (checksums)
  MaxFiles,     \* workbooks per group (15 in the code)
  MaxRetries,   \* max_retries of the Dramatiq actor (3 in the code)
  MaxCrashes,   \* bound: worker process crashes in a behaviour
  MaxClears     \* bound: clear requests under way at the same time

ASSUME BoundsType ==
  /\ MaxBatches \in Nat /\ MaxFiles \in Nat
  /\ MaxRetries \in Nat /\ MaxCrashes \in Nat /\ MaxClears \in Nat
  /\ IsFiniteSet(Files)

Batches == 1..MaxBatches

VARIABLES
  started,      \* how many batches have been given a created_at
  status,       \* raw.batch.status; "ABSENT" before insert, "DELETED" after
  active,       \* raw.batch.is_active
  files,        \* the raw.file manifests of the batch (checksums)
  base,         \* the active batch an append request read, 0 for an upload
  request,      \* the API request: the last status it wrote, or its end
  message,      \* the Dramatiq message of the batch
  retries,      \* how often that message has been retried
  pc,           \* per thread: where it is in the actor
  job,          \* per thread: the batch of its message, 0 when idle
  seen,         \* per thread: the canonical rows its reset has deleted
  raised,       \* per thread: whether the actor is about to re-raise
  canon,        \* the batches whose canonical and derived rows are committed
  clearing,     \* clear requests between their two transactions
  crashes       \* worker process crashes so far

apiVars == <<started, files, base, request, clearing>>
queueVars == <<message, retries>>
threadVars == <<pc, job, seen, raised>>
vars == <<started, status, active, files, base, request, message, retries,
          pc, job, seen, raised, canon, clearing, crashes, poolVars>>

Statuses == {"ABSENT", "UPLOADED", "PARSED", "MAPPED", "VALIDATED",
             "PROCESSING", "COMMITTED", "SUPERSEDED", "FAILED", "DELETED"}
Phases == {"none", "reading", "UPLOADED", "PARSED", "MAPPED", "VALIDATED",
           "PROCESSING", "done"}
PCs == {"idle", "locking", "checking", "replacing", "building", "activating",
        "superseding", "failing", "unlocking", "closing"}

TypeOK ==
  /\ PoolTypeOK
  /\ started \in 0..MaxBatches
  /\ status \in [Batches -> Statuses]
  /\ active \in [Batches -> BOOLEAN]
  /\ files \in [Batches -> SUBSET Files]
  /\ base \in [Batches -> 0..MaxBatches]
  /\ request \in [Batches -> Phases]
  /\ message \in [Batches -> {"none", "queued", "running", "acked", "dropped"}]
  /\ retries \in [Batches -> 0..MaxRetries]
  /\ pc \in [Workers -> PCs]
  /\ job \in [Workers -> 0..MaxBatches]
  /\ seen \in [Workers -> SUBSET Batches]
  /\ raised \in [Workers -> BOOLEAN]
  /\ canon \in SUBSET Batches
  /\ clearing \in 0..MaxClears
  /\ crashes \in 0..MaxCrashes

Init ==
  /\ PoolInit
  /\ started = 0
  /\ status = [b \in Batches |-> "ABSENT"]
  /\ active = [b \in Batches |-> FALSE]
  /\ files = [b \in Batches |-> {}]
  /\ base = [b \in Batches |-> 0]
  /\ request = [b \in Batches |-> "none"]
  /\ message = [b \in Batches |-> "none"]
  /\ retries = [b \in Batches |-> 0]
  /\ pc = [w \in Workers |-> "idle"]
  /\ job = [w \in Workers |-> 0]
  /\ seen = [w \in Workers |-> {}]
  /\ raised = [w \in Workers |-> FALSE]
  /\ canon = {}
  /\ clearing = 0
  /\ crashes = 0

-----------------------------------------------------------------------------
(* What the queries of the code see *)

\* The row of batch b is in raw.batch.
Exists(b) == status[b] \notin {"ABSENT", "DELETED"}

\* Mutant: no look for a newer batch.
NoNewestCheck(b) == Exists(b)

\* ORDER BY created_at DESC LIMIT 1 over the tenant's batches returns b.
IsNewest(b) == Exists(b) /\ \A c \in Batches : Exists(c) => c <= b

\* /ingestion/active and append pick the newest active COMMITTED batch.
Serving(b) == active[b] /\ status[b] = "COMMITTED"
IsActiveDataset(b) == Serving(b) /\ \A c \in Batches : Serving(c) => c <= b

-----------------------------------------------------------------------------
(* API requests *)

\* upload_file: the INSERT of the batch row is a transaction of its own, so
\* the row becomes visible where its created_at is taken.
Upload(F) ==
  LET b == started + 1 IN
  /\ started < MaxBatches
  /\ F # {} /\ Cardinality(F) <= MaxFiles
  /\ started' = b
  /\ status' = [status EXCEPT ![b] = "UPLOADED"]
  /\ files' = [files EXCEPT ![b] = F]
  /\ request' = [request EXCEPT ![b] = "UPLOADED"]
  /\ UNCHANGED <<active, base, queueVars, threadVars, clearing, canon, crashes, poolVars>>

\* append_files_to_active_dataset, up to the combined-count check.  The read
\* of the active batch starts the transaction that later inserts the row, so
\* created_at is taken here.
AppendRead(F) ==
  LET b == started + 1 IN
  /\ started < MaxBatches
  /\ F # {} /\ Cardinality(F) <= MaxFiles
  /\ \E a \in Batches :
       /\ IsActiveDataset(a)
       /\ Cardinality(files[a]) < MaxFiles
       /\ F \ files[a] # {}
       /\ Cardinality(files[a]) + Cardinality(F \ files[a]) <= MaxFiles
       /\ base' = [base EXCEPT ![b] = a]
       /\ files' = [files EXCEPT ![b] = files[a] \cup F]
  /\ started' = b
  /\ request' = [request EXCEPT ![b] = "reading"]
  /\ UNCHANGED <<status, active, queueVars, threadVars, clearing, canon, crashes, poolVars>>

\* The append request commits its batch row; the active batch is not re-read.
AppendInsert(b) ==
  /\ request[b] = "reading"
  /\ status' = [status EXCEPT ![b] = "UPLOADED"]
  /\ request' = [request EXCEPT ![b] = "UPLOADED"]
  /\ UNCHANGED <<started, active, files, base, queueVars, threadVars, clearing, canon,
                 crashes, poolVars>>

\* The status the request writes after the one it last wrote: _parse_to_raw,
\* _map_to_staging, _validate_staging, and PROCESSING in _queue_candidate.
Following == [UPLOADED |-> "PARSED", PARSED |-> "MAPPED",
              MAPPED |-> "VALIDATED", VALIDATED |-> "PROCESSING"]

\* Every write is blind: it overwrites what a worker wrote meanwhile.
RequestStep(b) ==
  /\ request[b] \in DOMAIN Following
  /\ Exists(b)
  /\ status' = [status EXCEPT ![b] = Following[request[b]]]
  /\ request' = [request EXCEPT ![b] = Following[request[b]]]
  /\ active' = [active EXCEPT ![b] =
                  IF request[b] = "VALIDATED" THEN FALSE ELSE @]
  /\ UNCHANGED <<started, files, base, queueVars, threadVars, clearing, canon, crashes,
                 poolVars>>

\* A workbook cannot be opened, classified, mapped or validated.
ParseFails(b) ==
  /\ request[b] \in {"UPLOADED", "PARSED", "MAPPED"}
  /\ Exists(b)
  /\ status' = [status EXCEPT ![b] = "FAILED"]
  /\ request' = [request EXCEPT ![b] = "done"]
  /\ UNCHANGED <<started, active, files, base, queueVars, threadVars, clearing, canon,
                 crashes, poolVars>>

\* process_ingestion_analytics_task.send, after PROCESSING is committed.
Send(b) ==
  /\ request[b] = "PROCESSING"
  /\ Exists(b)
  /\ message' = [message EXCEPT ![b] = "queued"]
  /\ request' = [request EXCEPT ![b] = "done"]
  /\ UNCHANGED <<started, status, active, files, base, retries, threadVars,
                 clearing, canon, crashes, poolVars>>

\* The request ends without its next write: the API process stops, Redis
\* refuses the message, or the batch row was deleted under it.
RequestDies(b) ==
  /\ request[b] \notin {"none", "done"}
  /\ request' = [request EXCEPT ![b] = "done"]
  /\ UNCHANGED <<started, status, active, files, base, queueVars, threadVars,
                 clearing, canon, crashes, poolVars>>

\* A DELETE waits for a transaction that has already deleted the same rows.
RowsUnlocked(w) ==
  pc[w] \in {"building", "activating"} => seen[w] \cap canon = {}

\* clear_dataset, first transaction: reset_tenant_dataset deletes the batches
\* and every row derived from them, and commits.  No advisory lock is taken.
ClearReset ==
  /\ clearing < MaxClears
  /\ \A w \in Workers : RowsUnlocked(w)
  /\ clearing' = clearing + 1
  /\ status' = [b \in Batches |-> IF Exists(b) THEN "DELETED" ELSE status[b]]
  /\ active' = [b \in Batches |-> FALSE]
  /\ canon' = {}
  /\ UNCHANGED <<started, files, base, request, queueVars, threadVars, crashes,
                 poolVars>>

\* Its second transaction: the batches that are there by now, without the
\* rows that may have been derived from them.
ClearBatches ==
  /\ clearing > 0
  /\ clearing' = clearing - 1
  /\ status' = [b \in Batches |-> IF Exists(b) THEN "DELETED" ELSE status[b]]
  /\ active' = [b \in Batches |-> FALSE]
  /\ UNCHANGED <<started, files, base, request, queueVars, threadVars, canon,
                 crashes, poolVars>>

-----------------------------------------------------------------------------
(* The worker actor *)

Goto(w, l) == pc' = [pc EXCEPT ![w] = l]

\* Mutant: a retry does not see that its batch has failed.
SettledUnlessFailed(b) == status[b] = "SUPERSEDED" \/ Serving(b)

\* The first read of the batch row, before the lock.
Settled(b) == status[b] \in {"SUPERSEDED", "FAILED"} \/ Serving(b)

\* A thread takes the message of b and reads the batch.
Receive(w, b) ==
  /\ pc[w] = "idle"
  /\ message[b] = "queued"
  /\ message' = [message EXCEPT ![b] = "running"]
  /\ job' = [job EXCEPT ![w] = b]
  /\ Checkout(w)
  /\ raised' = [raised EXCEPT ![w] = ~Exists(b)]
  /\ Goto(w, IF ~Exists(b) \/ Settled(b) THEN "closing" ELSE "locking")
  /\ UNCHANGED <<apiVars, status, active, retries, seen, canon, crashes,
                 lockOwner, lockDepth>>

\* SELECT pg_advisory_lock returns.
AcquireLock(w) ==
  /\ pc[w] = "locking"
  /\ Lock(w)
  /\ Goto(w, "checking")
  /\ UNCHANGED <<apiVars, status, active, queueVars, job, seen, raised, canon,
                 crashes, idle, opened, conn>>

\* The batch is read again under the lock; an outdated candidate is marked
\* SUPERSEDED, the newest one PROCESSING, and the transaction commits.
Recheck(w) ==
  LET b == job[w] IN
  /\ pc[w] = "checking"
  /\ Release(w)
  /\ \/ /\ ~Exists(b)
        /\ Goto(w, "failing")
        /\ UNCHANGED <<status, active>>
     \/ /\ Exists(b)
        /\ status[b] \in {"SUPERSEDED", "FAILED"} \/ ~IsNewest(b)
        /\ status' = [status EXCEPT ![b] = "SUPERSEDED"]
        /\ active' = [active EXCEPT ![b] = FALSE]
        /\ Goto(w, "unlocking")
     \/ /\ status[b] \notin {"SUPERSEDED", "FAILED"} /\ IsNewest(b)
        /\ status' = [status EXCEPT ![b] = "PROCESSING"]
        /\ Goto(w, "replacing")
        /\ UNCHANGED active
  /\ UNCHANGED <<apiVars, queueVars, job, seen, raised, canon, crashes,
                 lockOwner, lockDepth>>

\* Mutant: the reset forgets the rows of the prior dataset.
NothingDeleted == {}

\* The rows that reset_tenant_dataset deletes: all that are committed.
DeletedByReset == canon

\* reset_tenant_dataset opens the replacement transaction.
Reset(w) ==
  /\ pc[w] = "replacing"
  /\ \A v \in Workers : RowsUnlocked(v)
  /\ Checkout(w)
  /\ seen' = [seen EXCEPT ![w] = DeletedByReset]
  /\ Goto(w, "building")
  /\ UNCHANGED <<apiVars, status, active, queueVars, job, raised, canon,
                 crashes, lockOwner, lockDepth>>

\* _commit_to_canonical and run_full_analytics_pipeline are done (their
\* commits are flushes here) and the newest batch is read once more.
StillNewest(w) ==
  /\ pc[w] = "building"
  /\ IsNewest(job[w])
  /\ Goto(w, "activating")
  /\ UNCHANGED <<apiVars, status, active, queueVars, job, seen, raised, canon,
                 crashes, poolVars>>

\* Another batch is the newest: roll back.  With no batch left scalar_one
\* raises instead.
Overtaken(w) ==
  /\ pc[w] = "building"
  /\ ~IsNewest(job[w])
  /\ Goto(w, IF \E c \in Batches : Exists(c) THEN "superseding" ELSE "failing")
  /\ Release(w)
  /\ seen' = [seen EXCEPT ![w] = {}]
  /\ UNCHANGED <<apiVars, status, active, queueVars, job, raised, canon, crashes,
                 lockOwner, lockDepth>>

\* Mutants: the UPDATE without its comparison of created_at, and no UPDATE.
RetiresAllOthers(b, c) == Exists(c) /\ c # b
RetiresNone(b, c) == FALSE

\* The UPDATE that retires the older batches when b becomes active hits c.
Retires(b, c) == Exists(c) /\ c < b

\* The older batches lose, the candidate becomes the active dataset, and the
\* whole replacement becomes visible in one commit.
Activate(w) ==
  LET b == job[w] IN
  /\ pc[w] = "activating"
  /\ Exists(b)
  /\ status' = [c \in Batches |->
                  IF c = b THEN "COMMITTED"
                  ELSE IF Retires(b, c) THEN "SUPERSEDED" ELSE status[c]]
  /\ active' = [c \in Batches |-> IF c = b THEN TRUE ELSE active[c] /\ ~Retires(b, c)]
  /\ canon' = (canon \ seen[w]) \cup {b}
  /\ seen' = [seen EXCEPT ![w] = {}]
  /\ Release(w)
  /\ Goto(w, "unlocking")
  /\ UNCHANGED <<apiVars, queueVars, job, raised, crashes, lockOwner, lockDepth>>

\* Mutant: a failing replacement has already retired the older batches.
ReplacementFailsLate(w) ==
  /\ pc[w] \in {"building", "activating"}
  /\ Release(w)
  /\ active' = [c \in Batches |-> active[c] /\ ~Retires(job[w], c)]
  /\ seen' = [seen EXCEPT ![w] = {}]
  /\ Goto(w, "failing")
  /\ UNCHANGED <<apiVars, status, queueVars, job, raised, canon, crashes,
                 lockOwner, lockDepth>>

\* Any step of the replacement transaction raises: it is rolled back.  The
\* last step has to raise when the batch row is gone.
ReplacementFails(w) ==
  /\ pc[w] \in {"building", "activating"}
  /\ Release(w)
  /\ seen' = [seen EXCEPT ![w] = {}]
  /\ Goto(w, "failing")
  /\ UNCHANGED <<apiVars, status, active, queueVars, job, raised, canon, crashes,
                 lockOwner, lockDepth>>

\* The two exception handlers read the batch in a new transaction and mark
\* it; a batch that is gone leaves that transaction open.
Mark(w, s) ==
  LET b == job[w] IN
  \/ /\ Exists(b)
     /\ status' = [status EXCEPT ![b] = s]
     /\ active' = [active EXCEPT ![b] = FALSE]
     /\ OneShot(w)
  \/ /\ ~Exists(b)
     /\ Checkout(w)
     /\ UNCHANGED <<status, active>>

MarkSuperseded(w) ==
  /\ pc[w] = "superseding"
  /\ Mark(w, "SUPERSEDED")
  /\ Goto(w, "unlocking")
  /\ UNCHANGED <<apiVars, queueVars, job, seen, raised, canon, crashes,
                 lockOwner, lockDepth>>

\* Mutant: the handler re-raises without marking the batch.
MarkFailedLeavesStatus(w) ==
  /\ pc[w] = "failing"
  /\ OneShot(w)
  /\ raised' = [raised EXCEPT ![w] = TRUE]
  /\ Goto(w, "unlocking")
  /\ UNCHANGED <<apiVars, status, active, queueVars, job, seen, canon, crashes,
                 lockOwner, lockDepth>>

MarkFailed(w) ==
  /\ pc[w] = "failing"
  /\ Mark(w, "FAILED")
  /\ raised' = [raised EXCEPT ![w] = TRUE]
  /\ Goto(w, "unlocking")
  /\ UNCHANGED <<apiVars, queueVars, job, seen, canon, crashes,
                 lockOwner, lockDepth>>

\* SELECT pg_advisory_unlock on whatever connection the session has now.
ReleaseLock(w) ==
  LET open == conn[w] # NoConn
      c == IF open THEN conn[w] ELSE NextConn(ProcOf[w]) IN
  /\ pc[w] = "unlocking"
  /\ UnlockOn(c)
  /\ IF open THEN UNCHANGED <<idle, opened, conn>> ELSE Checkout(w)
  /\ Goto(w, "closing")
  /\ UNCHANGED <<apiVars, status, active, queueVars, job, seen, raised, canon,
                 crashes>>

\* Mutant: retries without a bound.
RetryForever(b, failed) ==
  /\ message' = [message EXCEPT ![b] = IF failed THEN "queued" ELSE "acked"]
  /\ retries' = [retries EXCEPT ![b] = IF failed THEN @ + 1 ELSE @]

\* Dramatiq acknowledges the message of b, or enqueues it again while the
\* actor's retries last.
AfterMessage(b, failed) ==
  LET again == failed /\ retries[b] < MaxRetries IN
  /\ message' = [message EXCEPT ![b] =
                   IF again THEN "queued" ELSE IF failed THEN "dropped" ELSE "acked"]
  /\ retries' = [retries EXCEPT ![b] = IF again THEN @ + 1 ELSE @]

\* The session is closed and the actor returns or raises.
Finish(w) ==
  /\ pc[w] = "closing"
  /\ Release(w)
  /\ AfterMessage(job[w], raised[w])
  /\ job' = [job EXCEPT ![w] = 0]
  /\ raised' = [raised EXCEPT ![w] = FALSE]
  /\ Goto(w, "idle")
  /\ UNCHANGED <<apiVars, status, active, seen, canon, crashes, lockOwner,
                 lockDepth>>

\* A worker process dies: its transactions are rolled back, its locks are
\* dropped, and Dramatiq delivers its unacknowledged messages again.
WorkerCrash(p) ==
  LET dead == {w \in Workers : ProcOf[w] = p} IN
  /\ crashes < MaxCrashes
  /\ \E w \in dead : pc[w] # "idle"
  /\ crashes' = crashes + 1
  /\ message' = [b \in Batches |->
                   IF \E w \in dead : job[w] = b THEN "queued" ELSE message[b]]
  /\ pc' = [w \in Workers |-> IF w \in dead THEN "idle" ELSE pc[w]]
  /\ job' = [w \in Workers |-> IF w \in dead THEN 0 ELSE job[w]]
  /\ seen' = [w \in Workers |-> IF w \in dead THEN {} ELSE seen[w]]
  /\ raised' = [w \in Workers |-> IF w \in dead THEN FALSE ELSE raised[w]]
  /\ PoolCrash(p)
  /\ UNCHANGED <<apiVars, status, active, retries, canon>>

-----------------------------------------------------------------------------
ApiNext ==
  \/ \E F \in SUBSET Files : Upload(F) \/ AppendRead(F)
  \/ \E b \in Batches :
       \/ AppendInsert(b) \/ RequestStep(b) \/ ParseFails(b)
       \/ Send(b) \/ RequestDies(b)
  \/ ClearReset \/ ClearBatches

WorkerStep(w) ==
  \/ \E b \in Batches : Receive(w, b)
  \/ AcquireLock(w) \/ Recheck(w) \/ Reset(w)
  \/ StillNewest(w) \/ Overtaken(w) \/ Activate(w) \/ ReplacementFails(w) \/ MarkSuperseded(w)
  \/ MarkFailed(w) \/ ReleaseLock(w) \/ Finish(w)

Next ==
  \/ ApiNext
  \/ \E w \in Workers : WorkerStep(w)
  \/ \E p \in Procs : WorkerCrash(p)

Spec == Init /\ [][Next]_vars

(* A thread that can take its next statement eventually does; PostgreSQL   *)
(* grants a waited-for advisory lock in queue order, so a thread that is   *)
(* again and again able to get it does get it.  Users and crashes are free. *)
Fairness ==
  \A w \in Workers : WF_vars(WorkerStep(w)) /\ SF_vars(AcquireLock(w))

FairSpec == Spec /\ Fairness

-----------------------------------------------------------------------------
(* Properties.  Where threads share a pool the lock can be re-entered (the   *)
(* run shared_pool), and only the type and SupersededHasNewer hold without   *)
(* the assumption that it is not (NotReentered below).                       *)

\* At most one batch is the tenant's active dataset, whatever uploads,
\* appends, clears, retries and crashes come together (main.py: the UPDATE
\* of older batches and the activation are one commit).
AtMostOneActive ==
  \A b, c \in Batches : active[b] /\ active[c] => b = c

\* While a dataset is served, the rows that queries see are its rows, all of
\* them and no others: a half-replaced dataset is never visible (main.py:
\* "rolls back the candidate and keeps the prior active dataset queryable").
ServedRowsMatch ==
  \A b \in Batches : Serving(b) => canon = {b}

\* The replacement sections of two threads never overlap (main.py:
\* process_ingestion_analytics_task is "one tenant-serialized operation").
SerializedReplacement ==
  \A v, w \in Workers :
    /\ pc[v] \in {"replacing", "building", "activating"}
    /\ pc[w] \in {"replacing", "building", "activating"}
    => v = w

\* A batch is only SUPERSEDED while a newer batch is in the table: an older
\* candidate never retires a newer one (main.py: "Never let the older
\* candidate mark that newer upload as superseded").
SupersededHasNewer ==
  \A b \in Batches : status[b] = "SUPERSEDED" =>
    \E c \in Batches : c > b /\ Exists(c)

\* The active dataset is only ever replaced by one accepted later: results
\* of an older candidate never overwrite newer ones (main.py: "never activate
\* stale results").
ActivationMovesForward ==
  [][\A b, c \in Batches : Serving(b) /\ Serving(c)' => b <= c]_vars

\* A message is only acknowledged when its batch did not fail: a failed batch
\* is tried again until its retries are used up (multi-file-ingestion.md:
\* "bounded, retrying Dramatiq worker").
FailedIsRetried ==
  \A b \in Batches : message[b] = "acked" => status[b] # "FAILED"

\* Of two appends to the same dataset the later one to become active keeps the
\* workbooks the other one added (ingestion.py: "Atomically add unique workbooks
\* to the tenant's active governed dataset").
AppendKeepsWorkbooks ==
  [][\A a, b \in Batches :
       Serving(a) /\ Serving(b)' /\ base[b] # 0 /\ base[a] = base[b] =>
         files[a] \subseteq files[b]]_vars

\* A delivered message always leads to a settled batch: it is never left in
\* PROCESSING, with the browser polling it for ever (test_ingestion.py: "left
\* the browser polling forever").
QueuedSettles ==
  \A b \in Batches : message[b] = "queued" ~>
    status[b] \in {"COMMITTED", "SUPERSEDED", "FAILED", "DELETED"}

-----------------------------------------------------------------------------
(* Refinement *)

served == IF \E b \in Batches : Serving(b)
            THEN CHOOSE b \in Batches : IsActiveDataset(b) ELSE 0

Abstract == INSTANCE ActiveDataset
              WITH Groups <- Batches, dataset <- served, removals <- clearing

\* The whole protocol implements the abstract dataset: whatever uploads,
\* appends, failures, crashes and retries come together, the served dataset
\* only moves to a later group in one step, and only clear_dataset removes it
\* (main.py: "keeps the prior active dataset queryable").
ImplementsActiveDataset == Abstract!DatasetSpec

-----------------------------------------------------------------------------
(* The inductive invariant behind the safety properties                    *)

Replacing == {"replacing", "building", "activating"}
Locked == Replacing \cup {"checking", "superseding", "failing", "unlocking"}
InTransaction == {"locking", "checking", "building", "activating", "closing"}

\* The threads between pg_advisory_lock and pg_advisory_unlock.
Section == {w \in Workers : pc[w] \in Locked}

\* No session has re-entered the lock on a connection that another session
\* gave back to the pool while it was holding the lock there.
NotReentered == lockDepth <= 1

\* Connections stay in the process that opened them, and a session holds one
\* exactly in its transactions.
ConnInv ==
  /\ \A p \in Procs : idle[p] \in Seq(ConnsOf(p))
  /\ \A w \in Workers :
       /\ conn[w] \in ConnsOf(ProcOf[w]) \cup {NoConn}
       /\ pc[w] \in InTransaction => conn[w] # NoConn
       /\ pc[w] \in {"idle", "replacing", "superseding", "failing"} => conn[w] = NoConn
  /\ lockOwner = NoConn <=> lockDepth = 0

\* The threads in the locked section are of the process that owns the lock,
\* and no more of them than times it was locked.
LockInv ==
  /\ \A w \in Section : lockOwner \in ConnsOf(ProcOf[w])
  /\ Cardinality(Section) <= lockDepth

\* A message is worked on by one thread, and exists once its request is over.
MessageInv ==
  /\ \A w \in Workers : pc[w] = "idle" <=> job[w] = 0
  /\ \A w \in Workers : job[w] # 0 => message[job[w]] = "running"
  /\ \A v, w \in Workers : job[v] = job[w] /\ job[w] # 0 => v = w
  /\ \A b \in Batches : request[b] # "done" => message[b] = "none"
  /\ \A b \in Batches : b > started => request[b] = "none" /\ status[b] = "ABSENT"

\* Only an activated batch is active, and a thread's own batch is not.
ActiveInv ==
  /\ \A b \in Batches : active[b] => status[b] = "COMMITTED"
  /\ \A b \in Batches : message[b] = "none" => ~active[b] /\ status[b] # "COMMITTED"
  /\ \A w \in Workers : pc[w] \in {"locking"} \cup (Locked \ {"unlocking"}) =>
       ~active[job[w]]

\* A thread that gives up its batch saw a newer one, which is still there;
\* the batch of a thread that waits for the lock has not failed.
LoserHasNewer ==
  \A w \in Workers : pc[w] = "superseding" /\ Exists(job[w]) =>
    \E c \in Batches : c > job[w] /\ Exists(c)

CandidateNotFailed ==
  \A w \in Workers : pc[w] \in {"locking", "checking"} => status[job[w]] # "FAILED"

\* What holds however many threads share a pool.
BaseInv ==
  /\ TypeOK
  /\ ConnInv
  /\ LockInv
  /\ MessageInv
  /\ ActiveInv
  /\ LoserHasNewer
  /\ CandidateNotFailed
  /\ SupersededHasNewer

\* What a thread read or deleted is still so when it commits: nothing newer
\* than its batch is served, and it has deleted all the rows there are.
NoNewerServed ==
  \A w \in Workers : pc[w] = "activating" =>
    \A c \in Batches : Serving(c) => c < job[w]

OldRowsSeen ==
  \A w \in Workers : pc[w] \in {"building", "activating"} => canon \subseteq seen[w]

\* What the worker relies on between its commits, as long as the lock is not
\* re-entered.
ServedInv ==
  /\ NoNewerServed
  /\ OldRowsSeen
  /\ AtMostOneActive
  /\ ServedRowsMatch

\* The inductive invariant.
IInv == BaseInv /\ ServedInv
=============================================================================
