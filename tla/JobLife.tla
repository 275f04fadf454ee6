-------------------------------- MODULE JobLife --------------------------------
(***************************************************************************)
(* What the queue promises to whoever submits a job, with no worker, no    *)
(* connection and no table in it.  A job waits, is worked on, goes back to *)
(* waiting when an attempt came to nothing, and is over once: nothing      *)
(* revives it.  Going back may be free or charged, and the charges stay    *)
(* within the job's budget of restarts.  Several jobs may move in one step *)
(* (a cancel ends them all), each of them lawfully.                        *)
(***************************************************************************)
EXTENDS Naturals

CONSTANTS
  Jobs,
  Budget    \* per job: the charges it may survive

VARIABLE life

Lives == [stage : {"unknown", "waiting", "working", "over"}, charges : Nat]

Unknown == [stage |-> "unknown", charges |-> 0]
Waiting(n) == [stage |-> "waiting", charges |-> n]
Working(n) == [stage |-> "working", charges |-> n]
Over == [stage |-> "over", charges |-> 0]

\* One job may go from x to y.
Lawful(j, x, y) ==
  \/ y = x
  \/ x = Unknown /\ y = Waiting(0)
  \/ x.stage = "waiting" /\ y = Working(x.charges)
  \/ x.stage = "working" /\ y = Waiting(x.charges)
  \/ x.stage = "working" /\ x.charges < Budget[j] /\ y = Waiting(x.charges + 1)
  \/ x.stage \in {"waiting", "working"} /\ y = Over

\* Some jobs may be in the queue already.
Init == life \in [Jobs -> {Unknown, Waiting(0)}]

Next ==
  /\ life' \in [Jobs -> Lives]
  /\ \A j \in Jobs : Lawful(j, life[j], life'[j])

Spec == Init /\ [][Next]_life
================================================================================
