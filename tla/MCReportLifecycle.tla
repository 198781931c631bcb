-------------------------- MODULE MCReportLifecycle --------------------------
(* Instances of ReportLifecycle for TLC. *)
EXTENDS ReportLifecycle
=============================================================================
