---------------------------- MODULE DatasetRebuild ----------------------------
(***************************************************************************)
(* DatasetActivation with the two API requests that rebuild the active     *)
(* dataset in place: reprocess_active_dataset (routers/ingestion.py) and   *)
(* exclude_issues_from_analysis (routers/quality.py).  Neither takes the   *)
(* worker's advisory lock, and both commit the reset, the canonical rows   *)
(* and the batch row one after the other.                                  *)
(***************************************************************************)
EXTENDS DatasetActivation

CONSTANT Rebuilds       \* the rebuild requests of a behaviour

VARIABLES
  stage,                \* per request: the last transaction it committed
  target                \* per request: the batch it read as the active one

rebuildVars == <<stage, target>>

RebuildInit ==
  /\ stage = [r \in Rebuilds |-> "none"]
  /\ target = [r \in Rebuilds |-> 0]

\* The newest active batch is read; without one the request ends with 404.
RebuildRead(r) ==
  /\ stage[r] = "none"
  /\ \E a \in Batches :
       /\ active[a] /\ \A c \in Batches : active[c] => c <= a
       /\ target' = [target EXCEPT ![r] = a]
  /\ stage' = [stage EXCEPT ![r] = "read"]
  /\ UNCHANGED vars

\* reset_tenant_dataset with keep_batches, which commits here.
RebuildReset(r) ==
  /\ stage[r] = "read"
  /\ \A w \in Workers : RowsUnlocked(w)
  /\ canon' = canon \ DeletedByReset
  /\ stage' = [stage EXCEPT ![r] = "reset"]
  /\ UNCHANGED <<target, apiVars, status, active, queueVars, threadVars, crashes,
                 poolVars>>

\* _commit_to_canonical writes the batch's rows and its status.
RebuildRows(r) ==
  /\ stage[r] = "reset"
  /\ Exists(target[r])
  /\ canon' = canon \cup {target[r]}
  /\ status' = [status EXCEPT ![target[r]] = "COMMITTED"]
  /\ stage' = [stage EXCEPT ![r] = "rows"]
  /\ UNCHANGED <<target, apiVars, active, queueVars, threadVars, crashes, poolVars>>

\* Mutant: the batch row of the rebuild retires every other batch.
RebuildMarkOnly(r) ==
  /\ stage[r] = "rows"
  /\ Exists(target[r])
  /\ active' = [b \in Batches |-> b = target[r]]
  /\ status' = [status EXCEPT ![target[r]] = "COMMITTED"]
  /\ stage' = [stage EXCEPT ![r] = "marked"]
  /\ UNCHANGED <<target, apiVars, queueVars, threadVars, canon, crashes, poolVars>>

\* The batch is marked active and COMMITTED, whatever happened to it since it
\* was read.  The analytics that follow do not touch raw.batch.
RebuildMark(r) ==
  /\ stage[r] = "rows"
  /\ Exists(target[r])
  /\ active' = [active EXCEPT ![target[r]] = TRUE]
  /\ status' = [status EXCEPT ![target[r]] = "COMMITTED"]
  /\ stage' = [stage EXCEPT ![r] = "marked"]
  /\ UNCHANGED <<target, apiVars, queueVars, threadVars, canon, crashes, poolVars>>

\* Any exception ends the request; the transactions it committed stay.
RebuildFails(r) ==
  /\ stage[r] \in {"read", "reset", "rows"}
  /\ stage' = [stage EXCEPT ![r] = "failed"]
  /\ UNCHANGED <<vars, target>>

Rebuild(r) ==
  \/ RebuildRead(r) \/ RebuildReset(r) \/ RebuildRows(r) \/ RebuildMark(r)
  \/ RebuildFails(r)
=============================================================================
