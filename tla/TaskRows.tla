------------------------------- MODULE TaskRows -------------------------------
(***************************************************************************)
(* The task_status table and the SQL statements that change it.            *)
(*                                                                         *)
(* AudioMuse-AI has no broker: a row of task_status is the queue entry, the *)
(* progress report and the verdict of one task at once.  Every operator    *)
(* below is one statement of taskqueue/sql.py, database.py,                *)
(* taskqueue/maintenance.py or app_helper.py as a function from the table  *)
(* r, a function from task ids to rows, to the table it leaves.  The       *)
(* modules that model processes call these operators, so the guard in a    *)
(* WHERE clause is written once.                                           *)
(*                                                                         *)
(* A row keeps the four columns the queue decides by:                      *)
(*   st      status, or FREE (an id nobody has used yet) or GONE (the row  *)
(*           was deleted); both mean there is no row                       *)
(*   queued  queue_name IS NOT NULL: the row was written by the enqueue    *)
(*           statement and is a job a worker may run.  While the row is    *)
(*           live this is also func IS NOT NULL                            *)
(*   owner   worker_id                                                     *)
(*   att     attempts, the worker-loss and error counter                   *)
(***************************************************************************)
EXTENDS Integers, FiniteSets

CONSTANTS
  Tasks,        \* task ids
  Workers,      \* names of the worker processes that may be alive at once
  None,         \* SQL NULL
  Ghost,        \* a worker identity no live process has any more
  Parent,       \* parent_task_id of every task, None for a root
  MainRoots,    \* roots whose type is under the one-live-main unique index
  SideRoots,    \* roots of a side-job type: they neither wipe nor collapse
  MaxAttempts   \* max_attempts of every task: the restarts it is allowed

ASSUME TaskRowsAssumption ==
  /\ None \notin Tasks \cup Workers
  /\ Ghost \notin Workers \cup {None}
  /\ Parent \in [Tasks -> Tasks \cup {None}]
  /\ \A t \in Tasks : Parent[t] # t
  /\ MainRoots \subseteq {t \in Tasks : Parent[t] = None}
  /\ SideRoots \subseteq {t \in Tasks : Parent[t] = None} \ MainRoots
  /\ MaxAttempts \in [Tasks -> Nat]

LiveStatus == {"NEW", "RUNNING"}
TerminalStatus == {"SUCCESS", "FAIL", "REVOKED"}
AbsentStatus == {"FREE", "GONE"}

Row == [st : LiveStatus \cup TerminalStatus \cup AbsentStatus,
        queued : BOOLEAN,
        owner : Workers \cup {None, Ghost},
        att : Nat]

FreeRow == [st |-> "FREE", queued |-> FALSE, owner |-> None, att |-> 0]
GoneRow == [FreeRow EXCEPT !.st = "GONE"]

IsRoot(t) == Parent[t] = None
IsLive(r, t) == r[t].st \in LiveStatus
IsTerminal(r, t) == r[t].st \in TerminalStatus
Exists(r, t) == r[t].st \notin AbsentStatus

\* The parent_gone column of _REQUEUE_OR_FAIL.
ParentGone(r, t) == ~IsRoot(t) /\ ~IsLive(r, Parent[t])

-------------------------------------------------------------------------------
(* Starting and claiming *)

\* The partial unique index over live main roots.
SlotFree(r, t) == t \in MainRoots => \A u \in MainRoots \ {t} : ~IsLive(r, u)

\* Mutant of Wipeable: the wipe forgets whose children are still wanted.
WipeableAnyone(r, t) == IsTerminal(r, t)

\* TERMINAL_AND_NOT_A_LIVE_PARENTS_CHILD: the rows a wipe may take.
Wipeable(r, t) == IsTerminal(r, t) /\ (IsRoot(t) \/ ParentGone(r, t))

\* DELETE ... WHERE task_id is not in keep AND the row is wipeable.
Wipe(r, keep) ==
  [t \in Tasks |-> IF t \notin keep /\ Wipeable(r, t) THEN GoneRow ELSE r[t]]

\* collapse_finished_task: a finished root leaves nothing but its own recap.
Collapsed(r, t) ==
  IF IsRoot(t) /\ t \notin SideRoots THEN Wipe(r, {t}) ELSE r

InsertJob(r, t) ==
  [r EXCEPT ![t] = [st |-> "NEW", queued |-> TRUE, owner |-> None, att |-> 0]]

Claimable(r, t) == r[t].st = "NEW" /\ r[t].queued

ClaimRow(r, t, w) == [r EXCEPT ![t].st = "RUNNING", ![t].owner = w]

-------------------------------------------------------------------------------
(* Giving a row back *)

\* WHERE status = RUNNING AND (worker_id IS NULL OR worker_id = me).
Mine(r, t, w) == r[t].st = "RUNNING" /\ r[t].owner \in {None, w}

RestartLeft(r, t) == ~ParentGone(r, t) /\ r[t].att + 1 <= MaxAttempts[t]

ChargeRow(r, t) ==
  [r EXCEPT ![t] = [st |-> IF RestartLeft(r, t) THEN "NEW" ELSE "FAIL",
                    queued |-> r[t].queued,
                    owner |-> r[t].owner,
                    att |-> r[t].att + 1]]

\* Mutant of RequeueOrFail: without AND status = RUNNING.
RequeueOrFailAnyRow(r, t) == IF Exists(r, t) THEN ChargeRow(r, t) ELSE r

\* worker_id, func and payload stay on the row; only the counter, the status
\* and the due time change.  No worker id guards this statement.
RequeueOrFail(r, t) == IF r[t].st = "RUNNING" THEN ChargeRow(r, t) ELSE r

\* Mutant of RequeueUncharged: the free pass hands a charge back.
RequeueRefunded(r, t) ==
  [r EXCEPT ![t].st = "NEW", ![t].owner = None, ![t].att = @ - 1]

RequeueUncharged(r, t) == [r EXCEPT ![t].st = "NEW", ![t].owner = None]

-------------------------------------------------------------------------------
(* Verdicts *)

\* Mutant of FinishRow: the verdict is written over whatever is there.
FinishAnyRow(r, t, w, verdict) ==
  IF Exists(r, t) THEN [r EXCEPT ![t].st = verdict] ELSE r

\* finish_task: refused unless the row is this worker's RUNNING row.
FinishRow(r, t, w, verdict) ==
  IF Mine(r, t, w) THEN [r EXCEPT ![t].st = verdict] ELSE r

EndChildRow(r, t, verdict) ==
  IF IsLive(r, t) THEN [r EXCEPT ![t].st = verdict] ELSE r

Reaped(r, p) ==
  [t \in Tasks |-> IF Parent[t] = p /\ IsTerminal(r, t) THEN GoneRow ELSE r[t]]

\* The stale sweep over live rows no worker was ever given.
StaleInline(r, t) == IsLive(r, t) /\ ~r[t].queued

FailStale(r, t) == [r EXCEPT ![t].st = "FAIL"]

\* A global cancel wipes the table and leaves a REVOKED recap over every root
\* that was live, and over the id the request named unless that id is a root
\* that had already finished.
Recapped(r, t, aimed) ==
  \/ IsRoot(t) /\ IsLive(r, t)
  \/ t = aimed /\ ~(IsRoot(t) /\ IsTerminal(r, t))

CancelAll(r, aimed) ==
  [t \in Tasks |->
     IF Recapped(r, t, aimed) THEN [GoneRow EXCEPT !.st = "REVOKED"]
     ELSE IF Exists(r, t) THEN GoneRow
     ELSE r[t]]

-------------------------------------------------------------------------------
(* Progress reports *)

\* save_task_status(status = RUNNING): the upsert a running task reports
\* through.  It refuses a terminal row and a missing row whose parent is gone,
\* names no worker, and inserts the row of a task that has none.
MayReport(r, t) ==
  \/ IsLive(r, t)
  \/ ~Exists(r, t) /\ ~ParentGone(r, t) /\ SlotFree(r, t)

ReportRunning(r, t) ==
  IF IsLive(r, t)
  THEN [r EXCEPT ![t].st = "RUNNING"]
  ELSE [r EXCEPT ![t] = [GoneRow EXCEPT !.st = "RUNNING"]]
===============================================================================
