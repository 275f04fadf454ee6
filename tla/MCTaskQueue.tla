------------------------------ MODULE MCTaskQueue ------------------------------
(* Instances of TaskQueue: the family of tasks and the workers of each run. *)
EXTENDS TaskQueue

CONSTANTS r1, r2, c1, w1, w2, high, default

NoParent(roots) == [t \in roots |-> None]

\* One root, two workers of its queue: every race over one row.
SoloParent == NoParent({r1})
SoloAttempts == [t \in {r1} |-> 2]
SoloQueueOf == [t \in {r1} |-> high]
SoloWorkerQueue == [w \in {w1, w2} |-> high]

\* A main root with one child, and a root of another type that shares the
\* child's queue, as a plugin's may: one worker for each queue.
FamilyTasks == {r1, r2, c1}
FamilyParent == [t \in FamilyTasks |-> IF t = c1 THEN r1 ELSE None]
FamilyAttempts == [t \in FamilyTasks |-> 0]
FamilyQueueOf == [t \in FamilyTasks |-> IF t = r1 THEN high ELSE default]
FamilyWorkerQueue == [w \in {w1, w2} |-> IF w = w1 THEN high ELSE default]
================================================================================
