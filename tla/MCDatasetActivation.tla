------------------------ MODULE MCDatasetActivation ------------------------
(***************************************************************************)
(* Instances of DatasetActivation for TLC.                                 *)
(***************************************************************************)
EXTENDS DatasetActivation, TLC

CONSTANTS w1, w2, p1, p2, f1, f2, f3

\* Two worker processes with one thread each.
SeparateProcesses == (w1 :> p1) @@ (w2 :> p2)

\* Two threads of one process, as in "dramatiq --processes 1 --threads 4".
SharedProcess == (w1 :> p1) @@ (w2 :> p1)

\* One thread.
SingleWorker == w1 :> p1

\* Workbooks are only compared.
FileSymmetry == Permutations(Files)
=============================================================================
