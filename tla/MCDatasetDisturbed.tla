-------------------------- MODULE MCDatasetDisturbed --------------------------
(* Instances of DatasetDisturbed for TLC. *)
EXTENDS DatasetDisturbed

CONSTANTS w1, w2, p1, p2, f1, r1

\* Every worker thread in a process of its own.
SeparateProcesses == [w \in {w1, w2} |-> IF w = w1 THEN p1 ELSE p2]
=============================================================================
