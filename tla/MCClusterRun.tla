---------------------------- MODULE MCClusterRun ----------------------------
(* Instances of ClusterRun. *)
EXTENDS ClusterRun

NoServer == {}
===============================================================================
