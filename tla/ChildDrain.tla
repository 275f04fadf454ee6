------------------------------ MODULE ChildDrain ------------------------------
(***************************************************************************)
(* What the parents of clustering batches and of albums share              *)
(* (ChildDrainSupervisor, stalled_victims and child_marks of recovery.py,  *)
(* the child statements of sql.py): the rows of the children as a parent   *)
(* reads and ends them, and the rule by which it gives up on them.         *)
(*                                                                         *)
(* A worker is only what it does to the row of its child; TaskQueue has    *)
(* the rest.  A row keeps the restarts it was charged, the signs of life   *)
(* its bounded heartbeat and its iterations may still give, and the score  *)
(* of its result (0: no valid result).                                     *)
(***************************************************************************)
EXTENDS Naturals, FiniteSets

CONSTANTS
  MaxGiveUps,     \* the give-ups after which the parent stops dispatching
  ChildRestarts,  \* restarts_for the type of the children
  MaxBeats,       \* bound: the signs of life of one claim
  MaxScore        \* bound: the scores a result may have

ASSUME DrainAssumption ==
  /\ MaxGiveUps \in Nat
  /\ ChildRestarts \in Nat
  /\ MaxBeats \in Nat
  /\ MaxScore \in Nat

Live == {"queued", "running"}
Ended == {"success", "failure", "revoked"}

ChildRow ==
  [st : {"none"} \cup Live \cup Ended, tries : 0..ChildRestarts,
   left : 0..MaxBeats, score : 0..MaxScore]

Row(status, tries, left, score) ==
  [st |-> status, tries |-> tries, left |-> left, score |-> score]

NoRow == Row("none", 0, 0, 0)
Queued == Row("queued", 0, 0, 0)

\* live_children and reap_children: what the parent reads, and what it takes.
LiveAmong(rows, ids) == {i \in ids : rows[i].st \in Live}
EndedAmong(rows, ids) == {i \in ids : rows[i].st \in Ended}
RunningAmong(rows, ids) == {i \in ids : rows[i].st = "running"}

Without(rows, ids) ==
  [i \in DOMAIN rows |-> IF i \in ids THEN NoRow ELSE rows[i]]

\* end_child: only a row that is live.
EndChild(rows, i, status) ==
  IF rows[i].st \in Live
  THEN [rows EXCEPT ![i] = Row(status, 0, 0, 0)]
  ELSE rows

-------------------------------------------------------------------------------
(* What a worker does to the row *)

\* claim.
Claimed(row) == Row("running", row.tries, MaxBeats, 0)

\* report, and the beat of row_heartbeat: bounded, like the work itself.
Beaten(row) == [row EXCEPT !.left = @ - 1]

\* A dead worker or a raised error: requeue_or_fail.
Charged(row) ==
  IF row.tries < ChildRestarts
  THEN Row("queued", row.tries + 1, 0, 0)
  ELSE Row("failure", 0, 0, 0)

\* finish_task.
Succeeded(row, score) == Row("success", 0, 0, score)

-------------------------------------------------------------------------------
(* Giving up *)

\* Mutant of StalledVictims: only what a worker holds can be stalled.
HeldOnly(held, shown) == held

\* The children a worker holds; with none of those, all that are live.
StalledVictims(held, shown) == IF held # {} THEN held ELSE shown

\* give_ups, counted as far as the bound it is compared with.
OneMore(gives) == IF gives < MaxGiveUps THEN gives + 1 ELSE gives

\* A bound of 0 is no bound.
Exhausted(gives) == MaxGiveUps > 0 /\ gives >= MaxGiveUps
===============================================================================
