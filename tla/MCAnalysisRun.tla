---------------------------- MODULE MCAnalysisRun ----------------------------
(* Instances of AnalysisRun. *)
EXTENDS AnalysisRun
===============================================================================
