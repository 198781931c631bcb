-------------------------- MODULE ExecutiveSnapshot --------------------------
(* The persisted executive dashboard of one tenant                            *)
(* (services/dashboard/executive.py): it is computed once per load, stored,   *)
(* and served until something replaces it.  The data below it moves under a   *)
(* load, a rebuild, a clear and the edits of stewards, and a request that     *)
(* finds no stored dashboard computes and stores one itself.                  *)
EXTENDS Naturals, Sequences

CONSTANTS
    Requests,      \* concurrent GET /dashboard/executive without filters
    MaxBatches,    \* bound: datasets loaded in one behaviour
    MaxEdits       \* bound: steward edits and rebuilds per dataset

VARIABLES
    data,      \* what the canonical tables hold: [batch, edit], batch 0 is no dataset
    lastBatch, \* batches so far
    rebuilt,   \* the batch whose rebuild has committed its rows and not yet its snapshot, or 0
    snaps,     \* analytics.dashboard_snapshot, unfiltered, in the order of creation
    request,   \* [Requests -> a request under way]
    excused    \* history: why the stored dashboard may differ from the data

snapVars == <<data, lastBatch, rebuilt, snaps, request, excused>>

NoData == [batch |-> 0, edit |-> 0]
Idle == [pc |-> "idle", payload |-> NoData]

SnapInit ==
    /\ data = NoData /\ lastBatch = 0 /\ rebuilt = 0 /\ snaps = <<>> /\ excused = FALSE
    /\ request = [r \in Requests |-> Idle]

\* persist_snapshot: earlier snapshots of the tenant become inactive, the new one is stored.
Persisted(old, batch, payload) ==
    Append([i \in DOMAIN old |-> [old[i] EXCEPT !.active = FALSE]],
           [batch |-> batch, payload |-> payload, active |-> TRUE])

\* The snapshot get_executive_summary serves: the newest active one, 0 if there is none.
Served == LET on == {i \in DOMAIN snaps : snaps[i].active}
          IN  IF on = {} THEN 0 ELSE CHOOSE i \in on : \A j \in on : j <= i

\* The worker's transaction loads a dataset, runs the pipeline and stores the snapshot.
Activate ==
    /\ lastBatch < MaxBatches
    /\ lastBatch' = lastBatch + 1
    /\ data' = [batch |-> lastBatch', edit |-> 0]
    /\ snaps' = Persisted(snaps, lastBatch', data')
    /\ excused' = (rebuilt # 0 \/ \E r \in Requests : request[r].pc = "computed")
    /\ UNCHANGED <<rebuilt, request>>

\* The test kit's loader, whose reset is Clear, commits a dataset and runs no analytics.
LoadOnly ==
    /\ lastBatch < MaxBatches /\ data = NoData
    /\ lastBatch' = lastBatch + 1
    /\ data' = [batch |-> lastBatch', edit |-> 0]
    /\ UNCHANGED <<rebuilt, snaps, request, excused>>

\* Reprocess and exclude: the rows are committed first, the snapshot by the pipeline's end.
RebuildRows ==
    /\ data # NoData /\ data.edit < MaxEdits /\ rebuilt = 0
    /\ data' = [data EXCEPT !.edit = @ + 1]
    /\ rebuilt' = data.batch /\ excused' = TRUE
    /\ UNCHANGED <<lastBatch, snaps, request>>

RebuildSnapshot ==
    /\ rebuilt # 0
    /\ rebuilt' = 0
    /\ snaps' = Persisted(snaps, rebuilt, data)
    /\ excused' = \/ rebuilt # data.batch
                  \/ \E r \in Requests : request[r].pc = "computed"
    /\ UNCHANGED <<data, lastBatch, request>>

\* A merge, an unmerge, a correction or a resolved issue changes what the dashboard counts
\* and stores no snapshot.
StewardEdit ==
    /\ data # NoData /\ data.edit < MaxEdits
    /\ data' = [data EXCEPT !.edit = @ + 1]
    /\ excused' = TRUE
    /\ UNCHANGED <<lastBatch, rebuilt, snaps, request>>

\* Mutant: the clear leaves the snapshots.
ClearRowsOnly ==
    /\ data # NoData
    /\ data' = NoData
    /\ excused' = \E r \in Requests : request[r].pc = "computed"
    /\ UNCHANGED <<lastBatch, rebuilt, snaps, request>>

\* Remove Dataset deletes the snapshots with the data.
Clear ==
    /\ data # NoData
    /\ data' = NoData /\ snaps' = <<>>
    /\ excused' = \E r \in Requests : request[r].pc = "computed"
    /\ UNCHANGED <<lastBatch, rebuilt, request>>

\* get_executive_summary without a stored snapshot computes the payload ...
RequestCompute(r) ==
    /\ request[r].pc = "idle" /\ Served = 0
    /\ request' = [request EXCEPT ![r] = IF data = NoData THEN [@ EXCEPT !.pc = "done"]
                                         ELSE [pc |-> "computed", payload |-> data]]
    /\ UNCHANGED <<data, lastBatch, rebuilt, snaps, excused>>

\* ... and stores it under the batch that is active by then.
RequestPersist(r) ==
    /\ request[r].pc = "computed"
    /\ snaps' = Persisted(snaps, data.batch, request[r].payload)
    /\ request' = [request EXCEPT ![r].pc = "done"]
    /\ excused' = (excused \/ request[r].payload # data)
    /\ UNCHANGED <<data, lastBatch, rebuilt>>

SnapNext ==
    \/ Activate \/ LoadOnly \/ RebuildRows \/ RebuildSnapshot \/ StewardEdit \/ Clear
    \/ \E r \in Requests : RequestCompute(r) \/ RequestPersist(r)

SnapSpec == SnapInit /\ [][SnapNext]_snapVars

-----------------------------------------------------------------------------
\* The stored dashboard shows the dataset that is loaded, under its batch, unless a steward
\* edited the data since, a rebuild is under way, or a request that computed its payload
\* before the data changed stored it afterwards.  In particular no clear and no load leaves
\* the dashboard of an earlier dataset behind.
DashboardFollowsData ==
    ~excused /\ Served # 0 =>
        /\ snaps[Served].payload = data
        /\ snaps[Served].batch = data.batch
=============================================================================
