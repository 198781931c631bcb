# Formal model of the marine time-and-motion platform

TLA+ modules, TLC configurations and TLAPS proofs kept beside the code of the
platform (`src/apps/api`, `src/apps/worker`). `PROJECT.json` is the index: which
definition stands for which lines, which run checks what, which mutant of the
code every property rejects, what is proved, and which parts are not modelled.

## The system

A tenant uploads Excel workbooks as a *dataset group* (`raw.batch`). The API
parses them in the request, marks the group `PROCESSING` and sends a Dramatiq
message. A worker then deletes the tenant's canonical and derived rows, writes
the new ones, runs the analytics stages and makes the group the tenant's active
dataset, in one transaction. Everything else reads what is active.

| component | state | operations | hard part |
|---|---|---|---|
| worker actor `process_ingestion_analytics_task` (`apps/worker/main.py`) | batch status and `is_active`, canonical rows, advisory lock on a pooled connection, Dramatiq message | receive, lock, re-check, reset, build, activate, mark superseded or failed, unlock, retry | two workers; uploads accepted during the build; crash, redelivery, time limit; a lock that belongs to a connection |
| ingestion API (`routers/ingestion.py`) | batch rows, file manifests | upload, append, clear, reprocess | stale reads, several transactions per request, no lock |
| pipeline (`services/ingestion/pipeline.py`) | raw, staging, canonical rows | parse, map, validate, commit | failure in any stage |
| reset (`services/ingestion/synthetic.py`) | every table with a tenant's data | delete | some statements name no tenant |
| quality (`routers/quality.py`, `services/quality`) | issues, staging row status | detect, resolve, exclude and rebuild | the rebuild competes with the worker |
| reporting (`services/reporting`, `routers/reporting.py`) | report run, artifacts, deliveries | create, generate, cancel, retry, approve, reject, publish, deliver | overlapping generations, stale status checks |
| identity (`services/identity`) | match candidates, merge decisions, merged calls, issues | generate, auto-merge, merge, override, reject, unmerge | candidates that are stale after the first merge; what unmerge restores |
| sessions (`services/auth_service.py`, `auth/`) | session rows, accounts, permissions in tokens | login, service token, refresh, check, logout, expiry, role change | a write of activity after a revocation; permissions older than the account |
| journey (`services/journey`) | event occurrences, canonical observations, stage occurrences, corrections | select, correct, approve, reconstruct | reconstruction overlapping corrections; hours carved out of stages |
| alerts (`services/alerts`) | alerts, action items, audit rows | evaluate, acknowledge, resolve, create and update items | re-evaluation against user state, read-modify-write of comments |
| delays (`services/delays`) | delay causes, allocations | import, infer, review, allocate, summarise | requests overlapping on one delay |
| outliers (`services/outliers`) | outlier rows with reviewers' exclusions | detect, exclude, list | detection replaces all rows |
| lead times, KPI, bottlenecks, criticality | derived rows | recompute | numeric edges, stale selections |
| executive dashboard (`services/dashboard`) | stored snapshots | view, recompute, invalidate | snapshot against loads and edits |
| copilot, audit, web client | conversation and audit rows | read, append | read-only or append-only |

What makes the first five correct: one dataset is served with exactly its rows;
it is only replaced by a later one, in one step; nothing but an explicit clear
takes it away; every accepted and delivered group reaches a final status. What
makes reporting correct: what is published is complete and was approved, and a
run does not hang in `RUNNING`. What makes the desks on a loaded dataset correct:
no row disappears behind a merge and an undo gives back what the merge changed;
no finding stays without an alert and none is raised twice; decisions of people
(confirmed reasons, exclusions, approved corrections, comments, logouts) survive
the machine's recomputations; the stored dashboard follows the data. What makes
the calculations correct: each input is counted once, nothing is computed from
ineligible rows, and parts add up to their totals.

## Modules

| module | models |
|---|---|
| `ActiveDataset` | the abstract promise: one served dataset or none, replaced in one step by a later group, removed only by a clear |
| `WorkerPool` | SQLAlchemy's connection pool per worker process and the PostgreSQL advisory lock that lives on a connection |
| `DatasetActivation` | one tenant's groups: upload, append, clear, the request's status writes, and the whole actor; extends `WorkerPool`, refines `ActiveDataset` |
| `DatasetTimeLimit` | Dramatiq's time limit hitting the actor inside the replacement |
| `DatasetRebuild` | the two API requests that rebuild the active dataset without the worker's lock |
| `DatasetDisturbed` | activation, time limit and rebuilds together |
| `ReportLifecycle` | one report run: overlapping generations and requests |
| `IdentityMatch`, `IdentityResolution` | scoring, conflicts and survivorship of a pair; candidates, automatic and manual merges, unmerge over events and services |
| `AlertWorkflow` | rules over two tenants' rows, evaluations that run query by query and overlap, alert states, action items and comments, recomputed and reset rows |
| `ExecutiveSnapshot` | the stored dashboard against loads, clears, edits and overlapping views |
| `DelayCauses` | one delay: import, inference, review, allocation in overlapping requests |
| `OutlierReview` | detections against reviewers' exclusions |
| `JourneyCorrections` | selection, corrections, approval and reconstruction of one event in overlapping requests |
| `Sessions` | session rows, tokens, the check every request makes, accounts edited meanwhile |
| `Workflows` | these desks together, alerts and action items as two of them |
| `Statistics` | sums, orders, percentiles and fences the calculations share |
| `Workbook` | sheet recognition, header mapping, staging and the canonical commit |
| `QualityRules` | the quality rules and what they quarantine |
| `Journey` | stages, shifts, decomposition, handovers, observation ranking |
| `LeadTimes`, `Kpis` | occurrence resolution, result rows, aggregates; cohorts, formulas, bands, trends |
| `DelayAnalysis`, `Outliers`, `Bottlenecks`, `Criticality`, `ExecutiveSummary` | the calculations of these services |
| `DataScope` | tenant, port and terminal scoping of queries |
| `Algorithms` | picks every small input of every calculation |
| `MC*` | instances for TLC |
| `*_proofs` | TLAPS proofs (see Proofs) |

### How state and actions correspond to the code

*Batches* are numbers in the order of `created_at`. That column is the start of
the inserting transaction, so `Upload` assigns the number where the row appears,
while `AppendRead` assigns it when the request reads the active dataset and
`AppendInsert` makes the row visible later.

*One action is one committed transaction*, or one wait inside one. Inside the
actor's replacement transaction the services' commits are flushes; the
transaction is therefore `Reset` (it deletes, and later deletes of the same rows
wait), `StillNewest` or `Overtaken` (the second look at the newest batch, a
`READ COMMITTED` read) and `Activate` or `ReplacementFails`.

*Canonical and derived rows* are abstracted to the set `canon` of batches whose
rows are committed: no property of this part looks inside a row. `seen` is what
an open replacement has deleted.

*The connection* matters because a SQLAlchemy session gives its connection back
at every commit, and the advisory lock stays on that connection. `WorkerPool`
keeps the pool as a FIFO queue; `ReleaseLock` unlocks whatever connection the
session has checked out by then.

*Messages* are `queued`, `running`, `acked` or `dropped`; `AfterMessage` is
Dramatiq's retry rule with `max_retries`, `WorkerCrash` its redelivery.

*Report handlers* load the row and write it later in the same transaction
without a lock or version check. The ORM updates only columns whose value
changed against what was loaded; `Written` and the field `same` model that. The
number of formats stands for the list, artifact rows are (generation, position).

*Desks.* A request that reads rows and writes them later is two actions; one
that reads and writes in one statement, or whose reads nothing else can change,
is one. What a request read is kept in its record, so that a stale write is a
stale write in the model. An alert evaluation is one action for the read of
the open alerts, one for each of its six queries and one for the commit: every
query is a `READ COMMITTED` statement of its own. `Workflows` instantiates the
desks over disjoint tables; alerts and action items are two desks, because all they
share is the reset that deletes both and the alert an item names, which no step
reads. No desk reads a table that another desk's property is about, so a
behaviour of all is an interleaving of behaviours of each; a behaviour therefore
has one desk at work, chosen at the start, and the state space is the sum and
not the product. The reset, which does cross desks, is an action inside the desks
whose tables it deletes.

*Calculations* are operators. Times and durations are whole hours, quantities
small integers, and quotients are kept as numerator and denominator or compared
by cross-multiplication, so no rounding is modelled; limits in hundredths, and the
targets of the bottleneck stages, one of which is two and a half hours, in half
hours. The tolerance of a trend is part of the model. Names
and texts are members of small sets; a keyword search in a text is membership of
the keyword in the set of words. A standard deviation is compared by its square.

## Runs

| run | checks | instance |
|---|---|---|
| `activation` | one active dataset; served rows are its rows; replacement serialized; superseded means a newer group exists; the active dataset moves forward | 2 processes of one thread, 3 groups, 2 workbooks, one clear under way |
| `settles` | type invariant, the proofs' inductive invariant, refinement of `ActiveDataset`, and liveness: a delivered message settles its batch | 2 groups, 1 retry, 1 crash, 2 overlapping clears |
| `disturbed` | with a time limit and a lock-free rebuild: the proofs' inductive invariant, serialization, the next activation repairs what was left half-done, the dataset on show goes back only where a worker withdraws it | 3 groups, 1 timeout, 1 rebuild, 1 clear; the proofs add appends, crashes and any number of each |
| `time_limit_commits` | violated: served rows match | the interrupted actor's `finally` commits a half-done replacement |
| `shared_pool` | violated: serialized replacement | 2 threads of one process |
| `failed_not_retried` | violated: a failed batch is retried | the retry returns at once because the status is `FAILED` |
| `append_lost` | violated: of two appends to one dataset the later one to become active keeps the other's workbooks | two appends on the same base |
| `reports` | type and inductive invariants, published is complete and was approved, `RUNNING` ends | 2 generations, 2 request slots used again and again, 2 formats, 1 delivery, 1 death |
| `report_unapproved` | violated: published as approved | a late generation replaces the approved result |
| `workflows` | rows stay visible and undo restores; every row an evaluation read has an alert, no duplicates, comments kept; the dashboard follows the data; confirmed reasons kept, allocations account; exclusions outlive detection; approved corrections govern; revoked stays revoked, admissions are recent | all desks, 3 calls and 2 merges, 2 tenants, 2 overlapping requests everywhere |
| `auto_merge_conflict` | violated: conflicts are never merged automatically | 3 calls, one without an IMO number |
| `algorithms` | ten invariants, one for each group of calculations | every input of the sizes in `Algorithms` |

**Bounds.** Three groups are the smallest number with an active group, a
candidate and an upload that overtakes it; two workers the smallest with a race
for the lock. One retry, crash, timeout or rebuild is enough for each to meet
every step of the others, except where the proofs say more (below). Batch numbers, retries, crashes, clears, timeouts,
deliveries and deaths are bounded by constants that stand in the guards. In the
report model the two request slots are reused, so sequences of requests are not
bounded, only how many overlap.

Three calls are the smallest number in which one merge can make the candidate of
another stale; two overlapping requests are the smallest number with a stale
write. Operations of a desk are bounded by `MaxDecisions`, `MaxEvents`,
`MaxDelayRequests`, `MaxReviews`, `MaxCorrections`, `MaxRequests` and the
session clock by `Horizon`, which lies beyond all limits of a session. The
inputs of `algorithms` contain the edges of each rule: empty and one-element
samples, equal values, values on a limit, missing and reversed times, samples
around the size from which a rule can fire (11 for three deviations).

**Fairness.** `FairSpec` lets a worker thread that can take its next statement
take it (weak fairness: threads are scheduled by the operating system), and a
thread that can again and again get the advisory lock gets it (strong fairness:
PostgreSQL queues lock waiters). Nothing is assumed of users, uploads or
crashes. `QueuedSettles` starts at the queued message: between the commit of
`PROCESSING` and the send the API may die, and then nothing in the code settles
the batch. `ReportFairSpec` lets a started generation continue; `RunningEnds`
excludes runs in which a generation's process died, because nothing in the code
finds such a run.

**Deployments.** `railway.json` and the `Dockerfile` start the worker with one
process of four threads, `apps/worker/Dockerfile` with dramatiq's eight. There the
advisory lock can fail, and `shared_pool` shows how: the commit in the locked
section returns the connection that owns the lock to the shared pool, another
thread checks it out and re-enters the lock. The passing activation runs have two
processes of one thread (`SeparateProcesses`), where this cannot happen. The proofs
assume nothing of the deployment. What does not depend on the lock is proved
without a condition: types, that a superseded batch has a newer one, that locked
sections overlap only within a process and only while the lock is held more than
once, and in which way the dataset on show goes back. What depends on it is proved
for every behaviour in which the lock is not re-entered (`NotReentered`: it is never
held twice), also where threads share a pool; `SingleThreads` proves that one thread
per process is enough for that. For the shipped worker those results therefore hold
as long as no two threads of one process are between lock and unlock at once; they
would hold always if it were started with one thread per process.

**Behaviour that is modelled but for which no property is stated, because the
code does not have it.** A worker that activates between the two transactions of
`clear_dataset` leaves rows without a batch. A newer group that failed to parse
still supersedes an older candidate. During a rebuild rows of two groups can be
visible together, and a rebuild that started before a replacement marks its old
group active again (readers then still show the newest). Two consequences need
more disturbances than the `disturbed` run has, and were found while proving:

* with two rebuilds, a crash and a time limit, a message is delivered again for a
  batch that a rebuild has meanwhile made active again; the worker's check under
  the lock finds that it is not the newest and writes `SUPERSEDED` over the batch
  on show, so readers go back to an older one. `ShownMovesForward` therefore says that this
  is the only way back: a worker withdraws the shown batch itself;
* with appends, a clear and a time limit, a batch can be `SUPERSEDED` although no
  newer one is in the table: the clear deletes the candidate that overtook it, the
  append inserts a row whose `created_at` is older, and the interrupted actor's
  `finally` commits the `UPDATE`. `SupersededHasNewer` is a property of the
  undisturbed protocol only.

A cancelled report run is overwritten by the generation it was meant to stop.
The desks add:

* identity: a merge deletes the merged call's duplicate occurrences and no undo
  brings them back; `execute_merge` does not look at `is_merged`, so a stale pair
  can hide rows or close a cycle (`RowsStayVisible` is about merges of live calls,
  `UndoRestores` about the last merge of its records); generating candidates again
  resets their status;
* alerts: nothing makes an open alert unique, so overlapping evaluations
  duplicate; a row committed after the query of its rule has run has no alert until
  the next evaluation; a call that a reset deletes under an evaluation fails its commit
  with all its alerts; acknowledging reopens a resolved alert; of two overlapping comments
  one is lost; a reset by one tenant deletes the alerts of all;
* dashboard: edits by stewards do not invalidate the snapshot, and a summary
  calculated before a load can be stored after it (`excused` marks both);
* delays: inference adds a full-length primary row beside existing ones;
  overlapping allocations leave both lists; a reviewer's approval does not set
  `cause_status`, so inference may replace what the reviewer wrote;
* outliers: an exclusion set between a detection's read and its delete is lost;
  no KPI reads the exclusions;
* journey: the occurrence of a proposed correction is live before approval; two
  first corrections insert two canonical rows; overlapping reconstructions
  duplicate stages;
* sessions: permissions are those of the token until the next refresh; with the
  default settings the idle limit equals the token's life and never fires;
* calculations: an Events row with a blank name, or with a blank time zone and no
  offset of its own in the timestamp, is staged as valid and not committed; service, delay and cargo rows of an unknown call are skipped without
  a mark; a governed selection that went stale hides the event from KPIs but not
  from lead times; a KPI without limits is red; the comment at
  `kpi/engine.py:702` says current KPIs never reach the legacy formulas, but
  KPI-03 and KPI-04 do.

## Proofs

Every theorem is for all values of the constants: any number of workers, batches,
requests, calls, findings, accounts, retries, crashes and so on. Each module
states its argument at its head; the theorems a reader should know are listed in
`PROJECT.json`.

| module | proves | assumes |
|---|---|---|
| `DatasetActivation_proofs` | without a condition: types, `BaseInv`, where locked sections can overlap, superseded has a newer one, `ShownMovesForward`; as long as the lock is not re-entered: the inductive invariant `IInv`, one active dataset served with its rows, forward movement, refinement of `ActiveDataset`, and under time limits, lock-free rebuilds and crashes `DisturbedInv`, serialization, `ActivationRepairs`; that one thread per process never re-enters it | types of the constants, a finite set of workers |
| `ReportLifecycle_proofs` | types, `ReportInv`, published is complete and was approved | types of the constants |
| `JourneyCorrections_proofs` | the approved correction governs | a load is a list of ranked observations |
| `Workflows_proofs` | every property of the `workflows` run; the journey desk is proved in `JourneyCorrections_proofs`, the others here | `DeskAssumption`, which TLC evaluates |
| `Statistics_proofs` | lemmas: least number, finite sums, folds, selections, sorting, quantiles, rankings, flattening, for sequences and finite sets of any size | nothing |
| `Algorithms_proofs` | data scope, quality rules, dashboard, outliers, journey: for each the facts for every input, and the invariant of the `algorithms` run | `SampleType`, `NoneIsNoValue`, which TLC evaluates |
| `Analytics_proofs` | the same for bottlenecks and criticality, lead times, delays | the same |
| `Kpis_proofs` | the same for the workbooks with the commit of their rows, and the KPIs | the same |

**Activation.** The safety properties are not inductive: whether a commit is right
depends on what the thread read several transactions earlier. `IInv` carries
those reads forward. Its first half, `BaseInv`, holds however many threads share a
pool: `ConnInv` says that connections stay in the process that opened them and that
a session holds one exactly in its transactions; `LockInv` that the lock is owned by
the process of every thread in the locked section and held at least as often as there
are such threads, although sessions give the connection back in between;
`MessageInv` that a batch is worked on by one thread; `ActiveInv` that a candidate is
not active itself; `LoserHasNewer` and `CandidateNotFailed` that a thread about to
write `SUPERSEDED` still has its reason. As long as the lock is held at most once,
`LockInv` leaves one thread in the section, and the second half, `ServedInv`, is
inductive: `NoNewerServed` says that nothing newer was activated since the last look,
`OldRowsSeen` that no rows appeared behind the reset; the rest are the properties.

**Disturbances.** A time limit can strike while the connection is checked out;
SQLAlchemy then throws the connection away, and the server drops the lock with it.
The unlock of a thread may so miss the lock, and `LockInv` no longer holds. What
holds, as long as the lock is not re-entered, is `ExclusiveLock`: one thread at most
is in the locked section and its process owns the lock, because a thread that loses
its connection leaves the section as well. Serialization follows. Between a thread's
reset and its activation only rebuilds, which take no lock, can add rows
(`OtherRowsSeen`): hence what an activation shows beyond its own rows was committed
by a rebuild meanwhile. `RequestInv` bounds what a rebuild or clear under way
remembers. None of this needs the batch properties of `IInv`, most of which are
false here. For processes of one thread the module ends with the invariant of their
connections, from which `SingleThreads` follows.

**Reports.** `ReportInv` adds to the properties that a handler which has passed
its check (a request of kind approve, publish or deliver) carries the checked
fact, which no other handler can take back: artifacts are only added and an
approval is never removed.

**Sessions.** Revocation is an action property that needs only types: the write of
a request touches activity or revokes, and never un-revokes, whichever row it had
read. For recent admissions `LostLate` says that a permission which a row still
carries and the account has lost was lost less than an access token's life before
the row expires, and `ReadInTime` that what a request read still bounds the row.

**Alerts.** Between two resets alerts are only appended and never change their
key, so what an evaluation read at its beginning is a prefix of the table it
commits to (`EvalInv`). Its queries so far have found every row of theirs that is
there since it began (`ReadInv`), and a row found names a call that was there
(`RowInv`), so only a reset can fail the commit. The alerts it adds enumerate,
without repetition, the hits it found not open.

**Identity.** Every decision describes exactly what its merge did to the tables
(`DecisionsDescribe`), so undoing it on the rows the merge left gives back the rows
the merge found. Visibility is inductive on top of the types.

**Journey.** As long as no commit was based on rows that had changed, the approved
correction is the one live row its selection names (`OverrideStands`), and a
reconstruction under way chose its event among rows it read (`ReadFaithfully`).

**All desks.** A step of one desk leaves the tables of the others alone. The
outlier, delay and dashboard desks are proved from invariants of their tables
(`OutlierInv`, `DelayInv`, `DashboardInv`); for the other four `WorkflowsSpec` is
shown to imply the specification of the desk's own module, whose theorems then
apply. `AllocationAccounts` needs no history: the commit that ends an allocation on
unchanged rows replaces all of them, the hours of the new rows, listed in
any order, are the sum the code compared with the duration, and the first entry
marked primary (or the first of all) is the one that stays so.

**Calculations.** `AlgorithmsSpec` picks one input and keeps it, so its invariants
are facts about operators. Each is proved first for every input of its kind (any
number of calls, rows, stages, shifts, values) and then
instantiated; the theorems named `...Always...` are the general facts. They are
about sums, sorted samples, percentiles and folds over lists, which calls for
induction over data. The theorems of the library that take an operator cannot be
used, so `Statistics_proofs` builds the induction from a set: of the places where
a fact fails, a set of numbers, there is a least one (`LeastNumber`, from the
well-foundedness of `<`). From it follow the unfolding of sums over finite sets
(`SumUnfolds`, `SumRest`), their rules (`SumAdds`, `SumSplits`, `SumMoved`,
`SumByKind`, `SumAtMost`), folds over sequences, the places of a selection in
ascending order (`Nth`), order statistics and quantiles, and that sorting by a
total order keeps what it sorts. What cannot be had this way is a fact about
any recursive definition at once; each fold of the calculations has its own lemma.
To be reasoned about, selections and sorting are defined in `Statistics` by what
they return (`Filter`, `Ordered`, `Arranged`) instead of through a recursive
library operator. Two facts need care:

* the Pareto summary lists categories by descending hours and settles ties by
  their place in the list of the code, `sorted` being stable: `CategoryOrder` is
  that list;
* the frequency band of a leg compares a share rounded to a tenth of a percent
  with 40 and 60. `BandIsExact` shows that below 400 services of a leg rounding
  never crosses a limit; from 400 on a share just below 40 % can round up to it,
  so `TimingsAlwaysReconcile` is stated for fewer.

**Only model-checked.** `QueuedSettles` and `RunningEnds`: liveness under fairness
is out of the prover's reach. Every other property of a passing run is a theorem, those
that depend on the advisory lock for behaviours in which it is not re-entered.
The inputs of KPIs are proved for the cargo operations and the registry entries
that `Algorithms` lists, in any number; the scores of bottlenecks for samples of
the shape of the `stages` input. The match rules of `IdentityMatch` are checked
through the decisions built on them and have no theorem of their own.

## Not modelled

Cell formats and text normalisation of workbooks; the KPI registry and other
catalogues (data); report rendering; the operations queries, copilot texts and
the web client (reads, wording, layout); the audit log beyond the rows its
callers add; migrations, seeds and the validation harness. Of the modelled
services: token signatures and secrets, the development token, custom lead-time
definitions (stored, never computed), legacy KPI formulas that no current code
reaches, the schedule rows of reporting. Rounding is left out of all
calculations; the dashboard's cut of its category list after six entries
(`executive.py:463`) is left out as well, since it comes after everything is counted. The reset is modelled across tenants for alerts only; its other
statements without a tenant (identity, outliers, bottlenecks) have the same form.

## Plan

1. done: activation, its disturbances, reports, their core proofs.
2. done: identity, alerts, dashboard, delays, outliers, journey, sessions; the
   calculations.
3. done: every safety property of the activation, disturbed, report and desk runs
   as a theorem.
4. done: every invariant of the calculations as a theorem, from facts that hold for
   inputs of any size.
5. open: the match rules of `IdentityMatch` for all attributes, KPIs for arbitrary
   cargo rows, and the parts listed as not modelled.
