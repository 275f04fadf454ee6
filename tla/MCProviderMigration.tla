-------------------------- MODULE MCProviderMigration --------------------------
(* Instances of ProviderMigration. *)
EXTENDS ProviderMigration

CONSTANTS x, m, c1, c2, c3, w1, w2, q0, q1, q2

ChildrenOfRoot == [t \in Tasks |-> IF t \in Recoveries THEN x ELSE None]
Restarts1 == [t \in Tasks |-> 1]
===============================================================================
