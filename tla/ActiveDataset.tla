---------------------------- MODULE ActiveDataset ----------------------------
(***************************************************************************)
(* What the ingestion subsystem promises about the dataset a tenant's      *)
(* queries see.  There is one dataset or none; it is replaced in one step, *)
(* only by a group that was accepted later, and only a request to remove   *)
(* the dataset ever takes it away: no upload, append, failure, crash or    *)
(* retry does.                                                             *)
(***************************************************************************)
EXTENDS Naturals

CONSTANT Groups         \* the dataset groups, numbered as they are accepted

VARIABLES
  dataset,              \* the group being served, or 0
  removals              \* requests to remove the dataset that are under way

datasetVars == <<dataset, removals>>

DatasetInit == dataset = 0 /\ removals = 0

Replace ==
  \E g \in Groups :
    /\ g > dataset
    /\ dataset' = g
    /\ UNCHANGED removals

\* A removal takes effect where it begins and, for a group that was activated
\* meanwhile, once more where it ends.
BeginRemoval == dataset' = 0 /\ removals' = removals + 1
EndRemoval == removals > 0 /\ dataset' = 0 /\ removals' = removals - 1

DatasetNext == Replace \/ BeginRemoval \/ EndRemoval

DatasetSpec == DatasetInit /\ [][DatasetNext]_datasetVars
=============================================================================
