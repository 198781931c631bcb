--------------------------- MODULE DatasetDisturbed ---------------------------
(***************************************************************************)
(* Dataset activation together with what disturbs it: the time limit of    *)
(* the worker's actor and the API requests that rebuild the active dataset *)
(* without the worker's lock.                                              *)
(***************************************************************************)
EXTENDS DatasetTimeLimit, DatasetRebuild

disturbedVars == <<vars, timeouts, rebuildVars>>

DisturbedInit == Init /\ timeouts = 0 /\ RebuildInit

DisturbedNext ==
  \/ Next /\ UNCHANGED <<timeouts, rebuildVars>>
  \/ \E w \in Workers : TimeLimit(w) /\ UNCHANGED rebuildVars
  \/ \E r \in Rebuilds : Rebuild(r) /\ UNCHANGED timeouts

DisturbedSpec == DisturbedInit /\ [][DisturbedNext]_disturbedVars

-----------------------------------------------------------------------------
(* Properties *)

\* A worker that activates its candidate shows all of its rows, and otherwise
\* only rows that a rebuild committed meanwhile: what an interrupted
\* replacement left half-done is removed by the next reset (main.py:
\* reset_tenant_dataset and the activation are one commit).
ActivationRepairs ==
  [][\A w \in Workers :
       pc[w] = "activating" /\ pc'[w] = "unlocking" =>
         /\ job[w] \in canon'
         /\ canon' \ {job[w]} \subseteq {target[r] : r \in Rebuilds}]_disturbedVars

\* The batch that /ingestion/active shows goes back to an older one only where a
\* worker withdraws the shown batch itself: a rebuild that reactivates a batch
\* retired meanwhile does not hide the newer one, because the readers take the
\* newest active batch (ingestion.py: get_active_dataset,
\* append_files_to_active_dataset).
ShownMovesForward ==
  [][\A b, c \in Batches :
       IsActiveDataset(b) /\ IsActiveDataset(c)' /\ c < b =>
         \E w \in Workers : job[w] = b /\ pc[w] \in {"checking", "superseding", "failing"}
                            /\ pc'[w] # pc[w]]_disturbedVars

-----------------------------------------------------------------------------
(* The inductive invariant behind the properties                          *)

\* One thread at most is in the locked section, and its process owns the lock:
\* what is left of LockInv when the server drops the lock of an invalidated
\* connection, and the unlock misses one that is gone.
ExclusiveLock ==
  /\ \A w \in Section : lockOwner \in ConnsOf(ProcOf[w])
  /\ \A v, w \in Section : v = w

\* A batch is active only once its request has sent its message; threads and
\* rebuild requests work on such batches.
RequestInv ==
  /\ \A b \in Batches : b > started => request[b] = "none"
  /\ \A b \in Batches : request[b] # "done" => message[b] = "none"
  /\ \A b \in Batches : message[b] = "none" => ~active[b]
  /\ \A w \in Workers : pc[w] = "idle" => job[w] = 0
  /\ \A w \in Workers : pc[w] # "idle" => job[w] \in Batches /\ message[job[w]] # "none"
  /\ \A r \in Rebuilds : stage[r] # "none" => target[r] \in Batches /\ message[target[r]] # "none"
  /\ \A r \in Rebuilds : stage[r] = "none" => target[r] = 0

\* A replacement has deleted every row but those of the rebuilds.
OtherRowsSeen ==
  \A w \in Workers : pc[w] \in {"building", "activating"} =>
    canon \ seen[w] \subseteq {target[r] : r \in Rebuilds}

DisturbedTypeOK ==
  /\ TypeOK
  /\ timeouts \in Nat
  /\ stage \in [Rebuilds -> {"none", "read", "reset", "rows", "marked", "failed"}]
  /\ target \in [Rebuilds -> 0..MaxBatches]

\* What holds however many threads share a pool.
DisturbedBase ==
  /\ DisturbedTypeOK
  /\ ConnInv
  /\ RequestInv

\* The inductive invariant as long as the lock is not re-entered: what survives
\* of the worker's serialization when time limits invalidate its connections
\* and rebuilds ignore its lock.
DisturbedInv ==
  /\ DisturbedBase
  /\ ExclusiveLock
  /\ OtherRowsSeen
=============================================================================
