----------------------------- MODULE MCControlPlane -----------------------------
(* Instances of ControlPlane: the requests of each run. *)
EXTENDS ControlPlane, TLC

CONSTANTS a, b, t1, q1, q2, q3

\* A provider migration's restart.
OneRestart == [r \in {q1} |-> "restart"]

\* A restore, the workers stopped and then started, while a plug-in is installed.
RestoreAndSync ==
  [r \in {q1, q2, q3} |-> CASE r = q1 -> "stop" [] r = q2 -> "start" [] r = q3 -> "plugin-sync"]

Containers == Permutations({a, b})
===============================================================================
