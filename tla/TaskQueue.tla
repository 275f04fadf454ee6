------------------------------ MODULE TaskQueue ------------------------------
(***************************************************************************)
(* The workers, their listener threads and the maintenance pass around the *)
(* task_status table (taskqueue/worker.py, process.py, maintenance.py).    *)
(*                                                                         *)
(* A worker process has a claim connection, which also owns the session    *)
(* advisory lock of the task it runs, and a listener connection that hears *)
(* cancel and reclaim notices.  Either connection, or the process, may be  *)
(* lost at any step; maintenance takes back a RUNNING row whose worker has *)
(* no connection left.                                                     *)
(*                                                                         *)
(* Granularity.  A step is one database transaction, or one callback under *)
(* the worker's claim lock, with what it does to the process.  A claim     *)
(* that would wait for an advisory lock is not enabled until the lock is   *)
(* free; the next_run_at delay of a retry is any delay.                    *)
(***************************************************************************)
EXTENDS TaskRows

CONSTANTS
  Queues,       \* queue names, "high" and "default" in the code
  QueueOf,      \* queue_name of every task
  WorkerQueue,  \* the queue a worker serves
  FreePasses,   \* UNCHARGED_REQUEUE_LIMIT
  MaxFaults     \* bound: disturbances a behaviour may contain

ASSUME TaskQueueAssumption ==
  /\ QueueOf \in [Tasks -> Queues]
  /\ WorkerQueue \in [Workers -> Queues]
  /\ FreePasses \in Nat
  /\ MaxFaults \in Nat

VARIABLES
  rows,     \* the task_status table
  lock,     \* per task: the worker whose session holds its advisory lock
  phase,    \* per worker: where its main loop is
  job,      \* per worker: the job it holds, attempts as read by the claim
  conn,     \* per worker: the server has its claim session
  lis,      \* per worker: the server has its listener session
  inbox,    \* per worker: notices sent to its listener, not yet handled
  owed,     \* per worker: _unwritten, outcomes it could not write
  left,     \* per worker: _abandoned, rows it gave up to a lost connection
  free,     \* per worker and task: _uncharged, free requeues used
  cand,     \* rows the current maintenance pass saw as orphans
  faults,   \* disturbances so far
  late,     \* history: rows a stale progress report moved back to RUNNING
  lost,     \* history: rows whose claim or requeue commit was lost
  unpaid    \* history: rows claimed since their last charge

vars == <<rows, lock, phase, job, conn, lis, inbox, owed, left, free, cand,
          faults, late, lost, unpaid>>
local == <<phase, job, owed, left, free>>
sessions == <<conn, lis, inbox>>
history == <<late, lost, unpaid>>

Phases == {"idle", "ready", "running", "ended", "releasing", "dead"}
Verdicts == {"SUCCESS", "FAIL", "REVOKED"}
Outcomes == Verdicts \cup {"RETRY", "LOST"}

NoJob == [task |-> None, att |-> 0, out |-> None]
Jobs == [task : Tasks \cup {None}, att : Nat, out : Outcomes \cup {None}]
Debts == [task : Tasks, att : Nat, out : Verdicts \cup {"RETRY"}]

Notices == [kind : {"cancel"}, task : Tasks \cup {None}, att : {0}]
             \cup [kind : {"reclaim"}, task : Tasks, att : Nat]

Cancel(t) == [kind |-> "cancel", task |-> t, att |-> 0]
CancelEverything == Cancel(None)
Reclaim(t, a) == [kind |-> "reclaim", task |-> t, att |-> a]

Alive(w) == phase[w] # "dead"

\* _held_task_id is set: the callbacks act only then.
Holding(w) == phase[w] \in {"running", "ended"}

Executing(w, t) == phase[w] = "running" /\ job[w].task = t

\* Sessions of w in pg_stat_activity, by either application name.
Visible(w) == conn[w] \/ lis[w]

\* NOTIFY reaches the listener sessions that exist when it commits.
Sent(n, to) ==
  [w \in Workers |-> IF lis[w] /\ w \in to THEN inbox[w] \cup {n} ELSE inbox[w]]

\* Mutant of SentReclaim: the requeue tells nobody.
SentToNobody(t) == inbox

\* The pg_notify of _REQUEUE_OR_FAIL; only the worker it names reads it.
SentReclaim(t) ==
  IF rows[t].st = "RUNNING"
  THEN Sent(Reclaim(t, rows[t].att), {rows[t].owner})
  ELSE inbox

Unlocked(w) == [t \in Tasks |-> IF lock[t] = w THEN None ELSE lock[t]]

\* An attempt that is charged uses up the claim that started it.
Charged == unpaid' = {t \in unpaid : rows'[t].att = rows[t].att}

Disturb == faults < MaxFaults /\ faults' = faults + 1

\* stop_hard, or any other death of the process.  Its sessions outlive it until
\* the server notices, and a row it was running stays RUNNING.
Dies(w) ==
  /\ phase' = [phase EXCEPT ![w] = "dead"]
  /\ job' = [job EXCEPT ![w] = NoJob]
  /\ owed' = [owed EXCEPT ![w] = {}]
  /\ left' = [left EXCEPT ![w] = {}]
  /\ free' = [free EXCEPT ![w] = [t \in Tasks |-> 0]]

Init ==
  /\ rows = [t \in Tasks |-> FreeRow]
  /\ lock = [t \in Tasks |-> None]
  /\ phase = [w \in Workers |-> "idle"]
  /\ job = [w \in Workers |-> NoJob]
  /\ conn = [w \in Workers |-> TRUE]
  /\ lis = [w \in Workers |-> TRUE]
  /\ inbox = [w \in Workers |-> {}]
  /\ owed = [w \in Workers |-> {}]
  /\ left = [w \in Workers |-> {}]
  /\ free = [w \in Workers |-> [t \in Tasks |-> 0]]
  /\ cand = {}
  /\ faults = 0
  /\ late = {}
  /\ lost = {}
  /\ unpaid = {}

-------------------------------------------------------------------------------
(* Submitting work *)

\* A root is enqueued under the start lock: the wipe, the insert and the unique
\* index are one transaction, rolled back when the slot is taken.
EnqueueRoot(t) ==
  /\ IsRoot(t)
  /\ rows[t].st = "FREE"
  /\ SlotFree(rows, t)
  /\ rows' = InsertJob(IF t \in SideRoots THEN rows ELSE Wipe(rows, {}), t)
  /\ UNCHANGED <<lock, local, sessions, cand, faults, history>>

\* A running parent enqueues a child; nothing looks at the parent's own row.
EnqueueChild(w, t) ==
  /\ ~IsRoot(t)
  /\ rows[t].st = "FREE"
  /\ Executing(w, Parent[t])
  /\ rows' = InsertJob(rows, t)
  /\ UNCHANGED <<lock, local, sessions, cand, faults, history>>

\* A running parent gives up on a child: the verdict and the cancel commit
\* together, and the cancel goes out even when the row was already finished.
EndChild(w, t, verdict) ==
  /\ ~IsRoot(t)
  /\ rows[t].st # "FREE"
  /\ Executing(w, Parent[t])
  /\ rows' = EndChildRow(rows, t, verdict)
  /\ inbox' = Sent(Cancel(t), Workers)
  /\ UNCHANGED <<lock, local, conn, lis, cand, faults, history>>

\* A running parent takes the finished children's rows out of the table.
ReapChildren(w, p) ==
  /\ Executing(w, p)
  /\ rows' = Reaped(rows, p)
  /\ rows' # rows
  /\ UNCHANGED <<lock, local, sessions, cand, faults, history>>

\* A user's cancel: one transaction under the start lock.
GlobalCancel(aimed) ==
  /\ \E t \in Tasks : Exists(rows, t)
  /\ aimed # None => rows[aimed].st # "FREE"
  /\ Disturb
  /\ rows' = CancelAll(rows, aimed)
  /\ inbox' = Sent(CancelEverything, Workers)
  /\ UNCHANGED <<lock, local, conn, lis, cand, history>>

-------------------------------------------------------------------------------
(* The worker's main loop *)

NothingOwed(w) == owed[w] = {} /\ left[w] = {}

\* retry_unwritten: an outcome an earlier loop could not write.
RetryUnwritten(w, d) ==
  /\ phase[w] = "idle"
  /\ d \in owed[w]
  /\ IF d.out = "RETRY"
     THEN IF Mine(rows, d.task, w)
          THEN rows' = RequeueOrFail(rows, d.task) /\ inbox' = SentReclaim(d.task)
          ELSE UNCHANGED <<rows, inbox>>
     ELSE /\ rows' = IF Mine(rows, d.task, w)
                     THEN Collapsed(FinishRow(rows, d.task, w, d.out), d.task)
                     ELSE rows
          /\ UNCHANGED inbox
  /\ owed' = [owed EXCEPT ![w] = @ \ {d}]
  /\ conn' = [conn EXCEPT ![w] = TRUE]
  /\ Charged
  /\ UNCHANGED <<lock, phase, job, lis, left, free, cand, faults, late, lost>>

\* The commit of a postponed requeue fails in its turn: the outcome is owed no more.
RetryCommitLost(w, d) ==
  /\ phase[w] = "idle"
  /\ d \in owed[w] /\ d.out = "RETRY"
  /\ Mine(rows, d.task, w)
  /\ Disturb
  /\ owed' = [owed EXCEPT ![w] = @ \ {d}]
  /\ conn' = [conn EXCEPT ![w] = FALSE]
  /\ lock' = Unlocked(w)
  /\ lost' = lost \cup {d.task}
  /\ UNCHANGED <<rows, phase, job, left, free, lis, inbox, cand, late, unpaid>>

\* requeue_abandoned, a free pass left: back on the queue at no charge.
PutBackFree(w, t) ==
  /\ phase[w] = "idle" /\ conn[w]
  /\ t \in left[w]
  /\ free[w][t] < FreePasses
  /\ IF Mine(rows, t, w)
     THEN /\ rows' = RequeueUncharged(rows, t)
          /\ free' = [free EXCEPT ![w][t] = @ + 1]
     ELSE /\ free' = [free EXCEPT ![w][t] = 0]
          /\ UNCHANGED rows
  /\ left' = [left EXCEPT ![w] = @ \ {t}]
  /\ UNCHANGED <<lock, phase, job, owed, sessions, cand, faults, history>>

\* requeue_abandoned, the free passes used up: this one costs an attempt.
PutBackCharged(w, t) ==
  /\ phase[w] = "idle" /\ conn[w]
  /\ t \in left[w]
  /\ free[w][t] >= FreePasses
  /\ IF Mine(rows, t, w)
     THEN /\ rows' = RequeueOrFail(rows, t)
          /\ inbox' = SentReclaim(t)
          /\ free' = IF RequeueOrFail(rows, t)[t].st = "NEW"
                     THEN free ELSE [free EXCEPT ![w][t] = 0]
     ELSE /\ free' = [free EXCEPT ![w][t] = 0]
          /\ UNCHANGED <<rows, inbox>>
  /\ left' = [left EXCEPT ![w] = @ \ {t}]
  /\ Charged
  /\ UNCHANGED <<lock, phase, job, owed, conn, lis, cand, faults, late, lost>>

\* The database refuses what the top of the loop owes; the loop claims anyway.
LoopTopFails(w) ==
  /\ phase[w] = "idle"
  /\ ~NothingOwed(w)
  /\ Disturb
  /\ phase' = [phase EXCEPT ![w] = "ready"]
  /\ UNCHANGED <<rows, lock, job, owed, left, free, sessions, cand, history>>

AtClaim(w) ==
  \/ phase[w] = "ready"
  \/ /\ phase[w] = "idle"
     /\ NothingOwed(w)

CanClaim(w, t) ==
  /\ AtClaim(w)
  /\ conn[w]
  /\ Claimable(rows, t)
  /\ WorkerQueue[w] = QueueOf[t]
  /\ lock[t] = None

\* The claim, the lock and the held task are set before the commit.
Claim(w, t) ==
  /\ CanClaim(w, t)
  /\ rows' = ClaimRow(rows, t, w)
  /\ lock' = [lock EXCEPT ![t] = w]
  /\ phase' = [phase EXCEPT ![w] = "running"]
  /\ job' = [job EXCEPT ![w] = [task |-> t, att |-> rows[t].att, out |-> None]]
  /\ unpaid' = unpaid \cup {t}
  /\ UNCHANGED <<owed, left, free, sessions, cand, faults, late, lost>>

\* The server commits the claim and the answer is lost with the connection: the
\* worker clears what it held and reconnects under the same identity.
ClaimCommitLost(w, t) ==
  /\ CanClaim(w, t)
  /\ Disturb
  /\ rows' = ClaimRow(rows, t, w)
  /\ conn' = [conn EXCEPT ![w] = FALSE]
  /\ phase' = [phase EXCEPT ![w] = "idle"]
  /\ lost' = lost \cup {t}
  /\ lock' = Unlocked(w)
  /\ unpaid' = unpaid \cup {t}
  /\ UNCHANGED <<job, owed, left, free, lis, inbox, cand, late>>

\* No row to claim: back to the top of the loop.
NothingToClaim(w) ==
  /\ phase[w] = "ready"
  /\ conn[w]
  /\ \A t \in Tasks : ~CanClaim(w, t)
  /\ phase' = [phase EXCEPT ![w] = "idle"]
  /\ UNCHANGED <<rows, lock, job, owed, left, free, sessions, cand, faults, history>>

\* A claim on a dead connection raises, and the loop reconnects.
Reconnect(w) ==
  /\ phase[w] \in {"idle", "ready"}
  /\ ~conn[w]
  /\ conn' = [conn EXCEPT ![w] = TRUE]
  /\ phase' = [phase EXCEPT ![w] = "idle"]
  /\ UNCHANGED <<rows, lock, job, owed, left, free, lis, inbox, cand, faults, history>>

-------------------------------------------------------------------------------
(* Running a job *)

\* The task's progress reporter, a write that names no worker.  A report that
\* finds the row back in the queue, or no row, moves it to RUNNING again.
JobReports(w, t) ==
  /\ Executing(w, t)
  /\ MayReport(rows, t)
  /\ rows' = ReportRunning(rows, t)
  /\ rows' # rows
  /\ late' = late \cup {t}
  /\ UNCHANGED <<lock, local, sessions, cand, faults, lost, unpaid>>

\* What the cancel check of a running task sees.
CancelSeen(t) == ~IsLive(rows, t) \/ ParentGone(rows, t)

\* retry.decide with the attempts the claim read: a retryable failure with a
\* restart left is a RETRY, without one it is a FAIL.
Decided(w, t, outcome) ==
  IF outcome = "RETRY" /\ job[w].att + 1 > MaxAttempts[t] THEN "FAIL" ELSE outcome

\* The job returns or raises: a result, a permanent or retryable failure, a
\* cancel it noticed, or LOST when its own database connection went.
JobEnds(w, t, outcome) ==
  /\ Executing(w, t)
  /\ outcome = "REVOKED" => CancelSeen(t)
  /\ phase' = [phase EXCEPT ![w] = "ended"]
  /\ job' = [job EXCEPT ![w].out = Decided(w, t, outcome)]
  /\ UNCHANGED <<rows, lock, owed, left, free, sessions, cand, faults, history>>

\* A known outcome gives the task its free passes back.
Known(w, t) == [free EXCEPT ![w][t] = 0]

\* finalize: the verdict, on the claim connection or a fresh one.  Release
\* collapses the table when this wrote a row.
Finalize(w, t) ==
  /\ phase[w] = "ended" /\ job[w].task = t
  /\ job[w].out \in Verdicts
  /\ rows' = FinishRow(rows, t, w, job[w].out)
  /\ job' = IF Mine(rows, t, w) THEN job ELSE [job EXCEPT ![w].out = None]
  /\ phase' = [phase EXCEPT ![w] = "releasing"]
  /\ free' = Known(w, t)
  /\ conn' = [conn EXCEPT ![w] = TRUE]
  /\ UNCHANGED <<lock, owed, left, lis, inbox, cand, faults, history>>

\* _requeue_for_retry, which leaves alone a row that is no longer this worker's.
RequeueForRetry(w, t) ==
  /\ phase[w] = "ended" /\ job[w].task = t
  /\ job[w].out = "RETRY"
  /\ IF Mine(rows, t, w)
     THEN rows' = RequeueOrFail(rows, t) /\ inbox' = SentReclaim(t)
     ELSE UNCHANGED <<rows, inbox>>
  /\ job' = [job EXCEPT ![w].out = None]
  /\ phase' = [phase EXCEPT ![w] = "releasing"]
  /\ free' = Known(w, t)
  /\ conn' = [conn EXCEPT ![w] = TRUE]
  /\ Charged
  /\ UNCHANGED <<lock, owed, left, lis, cand, faults, late, lost>>

\* The commit of that requeue fails; _safe_commit swallows the error and the
\* worker goes on as if the row were back on the queue.
RequeueCommitLost(w, t) ==
  /\ phase[w] = "ended" /\ job[w].task = t
  /\ job[w].out = "RETRY"
  /\ Mine(rows, t, w)
  /\ Disturb
  /\ job' = [job EXCEPT ![w].out = None]
  /\ phase' = [phase EXCEPT ![w] = "releasing"]
  /\ free' = Known(w, t)
  /\ conn' = [conn EXCEPT ![w] = FALSE]
  /\ lock' = Unlocked(w)
  /\ lost' = lost \cup {t}
  /\ UNCHANGED <<rows, owed, left, lis, inbox, cand, late, unpaid>>

\* Mutant of Remembered: the outcome goes with the error.
Forgotten(w) == owed

\* _remember_unwritten.
Remembered(w) == [owed EXCEPT ![w] = @ \cup {job[w]}]

\* Both attempts at the write raised: the outcome is kept for the next loop.
OutcomeUnwritten(w, t) ==
  /\ phase[w] = "ended" /\ job[w].task = t
  /\ job[w].out # "LOST"
  /\ Disturb
  /\ owed' = Remembered(w)
  /\ job' = [job EXCEPT ![w].out = None]
  /\ phase' = [phase EXCEPT ![w] = "releasing"]
  /\ free' = Known(w, t)
  /\ conn' = [conn EXCEPT ![w] = FALSE]
  /\ lock' = Unlocked(w)
  /\ UNCHANGED <<rows, left, lis, inbox, cand, history>>

Shelved(w, t) == [left EXCEPT ![w] = @ \cup {t}]

\* The job lost its database: no verdict, and the row is put back later.
Abandon(w, t) ==
  /\ phase[w] = "ended" /\ job[w].task = t
  /\ job[w].out = "LOST"
  /\ left' = Shelved(w, t)
  /\ job' = [job EXCEPT ![w].out = None]
  /\ phase' = [phase EXCEPT ![w] = "releasing"]
  /\ UNCHANGED <<rows, lock, owed, free, sessions, cand, faults, history>>

\* The bookkeeping of a verdict that was written, then the hold is let go.
Release(w, t) ==
  /\ phase[w] = "releasing" /\ job[w].task = t
  /\ rows' = IF job[w].out \in Verdicts THEN Collapsed(rows, t) ELSE rows
  /\ lock' = [lock EXCEPT ![t] = IF @ = w THEN None ELSE @]
  /\ phase' = [phase EXCEPT ![w] = "idle"]
  /\ job' = [job EXCEPT ![w] = NoJob]
  /\ UNCHANGED <<owed, left, free, sessions, cand, faults, history>>

-------------------------------------------------------------------------------
(* The listener thread; every callback runs under the claim lock *)

\* Mutant of Heeds: the notice is matched by task alone.
HeedsAnyAttempt(w, n) ==
  /\ Holding(w)
  /\ n = CancelEverything \/ n.task \in {job[w].task, Parent[job[w].task]}

\* The tests of on_notify and on_reclaimed.
Heeds(w, n) ==
  /\ Holding(w)
  /\ \/ n = CancelEverything
     \/ n.kind = "cancel" /\ n.task = job[w].task
     \/ n.kind = "cancel" /\ n.task = Parent[job[w].task]
     \/ n = Reclaim(job[w].task, job[w].att)

\* on_notify and on_reclaimed: stop the process, or ignore the notice.
OnNotify(w, n) ==
  /\ phase[w] \notin {"dead", "releasing"}
  /\ n \in inbox[w]
  /\ IF Heeds(w, n)
     THEN Dies(w)
     ELSE UNCHANGED local
  /\ inbox' = [inbox EXCEPT ![w] = @ \ {n}]
  /\ UNCHANGED <<rows, lock, conn, lis, cand, faults, history>>

\* ensure_hold: a dead claim connection is reopened and must retake the lock.
HoldRetaken(w) ==
  /\ lock' = [lock EXCEPT ![job[w].task] = w]
  /\ conn' = [conn EXCEPT ![w] = TRUE]

EnsureHold(w) ==
  /\ Holding(w) /\ lis[w] /\ ~conn[w]
  /\ IF lock[job[w].task] = None
     THEN HoldRetaken(w) /\ UNCHANGED local
     ELSE Dies(w) /\ UNCHANGED <<lock, conn>>
  /\ UNCHANGED <<rows, lis, inbox, cand, faults, history>>

\* on_listener_ready: the row was deleted, requeued or given away meanwhile.
Dispossessed(w) ==
  LET row == rows[job[w].task]
  IN row.st \in AbsentStatus \cup {"NEW"} \/ row.owner # w

\* The listener reconnects; what it missed shows in the row it holds.  The hold
\* is checked too, unless reopening the claim connection fails.
ListenerReady(w) ==
  /\ phase[w] \notin {"dead", "releasing"} /\ ~lis[w]
  /\ lis' = [lis EXCEPT ![w] = TRUE]
  /\ \/ /\ Holding(w)
        /\ Dispossessed(w) \/ (~conn[w] /\ lock[job[w].task] # None)
        /\ Dies(w)
        /\ UNCHANGED <<lock, conn, faults>>
     \/ /\ Holding(w) /\ ~Dispossessed(w) /\ ~conn[w]
        /\ lock[job[w].task] = None
        /\ HoldRetaken(w)
        /\ UNCHANGED <<local, faults>>
     \/ /\ Holding(w) /\ ~Dispossessed(w) /\ ~conn[w]
        /\ Disturb
        /\ UNCHANGED <<local, lock, conn>>
     \/ /\ Holding(w) => ~Dispossessed(w) /\ conn[w]
        /\ UNCHANGED <<local, lock, conn, faults>>
  /\ UNCHANGED <<rows, inbox, cand, history>>

-------------------------------------------------------------------------------
(* What can go wrong around a worker *)

\* Killed, out of memory, or recycled after max_jobs.
Crash(w) ==
  /\ Alive(w)
  /\ Disturb
  /\ Dies(w)
  /\ UNCHANGED <<rows, lock, sessions, cand, history>>

\* The server notices that a dead process's connections are gone.
SessionsEnd(w) ==
  /\ ~Alive(w) /\ Visible(w)
  /\ lock' = Unlocked(w)
  /\ conn' = [conn EXCEPT ![w] = FALSE]
  /\ lis' = [lis EXCEPT ![w] = FALSE]
  /\ inbox' = [inbox EXCEPT ![w] = {}]
  /\ UNCHANGED <<rows, local, cand, faults, history>>

\* supervisord starts a new process.  Its identity is new, so every row still
\* naming the old process now names nobody.
Restart(w) ==
  /\ ~Alive(w) /\ ~Visible(w)
  /\ phase' = [phase EXCEPT ![w] = "idle"]
  /\ conn' = [conn EXCEPT ![w] = TRUE]
  /\ lis' = [lis EXCEPT ![w] = TRUE]
  /\ rows' = [t \in Tasks |-> IF rows[t].owner = w
                              THEN [rows[t] EXCEPT !.owner = Ghost] ELSE rows[t]]
  /\ UNCHANGED <<lock, job, inbox, owed, left, free, cand, faults, history>>

\* The claim session of a live worker is lost, and with it the advisory lock.
DropConn(w) ==
  /\ Alive(w) /\ conn[w]
  /\ Disturb
  /\ conn' = [conn EXCEPT ![w] = FALSE]
  /\ lock' = Unlocked(w)
  /\ UNCHANGED <<rows, local, lis, inbox, cand, history>>

\* The listener session of a live worker is lost, and with it what it had not
\* yet delivered.
DropListener(w) ==
  /\ Alive(w) /\ lis[w]
  /\ Disturb
  /\ lis' = [lis EXCEPT ![w] = FALSE]
  /\ inbox' = [inbox EXCEPT ![w] = {}]
  /\ UNCHANGED <<rows, lock, local, conn, cand, history>>

-------------------------------------------------------------------------------
(* Maintenance *)

\* Mutant of Orphan: only workers on record can be found missing.
OrphanOnRecord(t) ==
  /\ rows[t].st = "RUNNING" /\ rows[t].queued
  /\ rows[t].owner \in Workers /\ ~Visible(rows[t].owner)

\* running_tasks: a RUNNING job whose worker has no session at all.
Orphan(t) ==
  /\ rows[t].st = "RUNNING" /\ rows[t].queued
  /\ rows[t].owner \in Workers => ~Visible(rows[t].owner)

\* The candidates are read and committed before any of them is acted on.
Scan ==
  /\ cand = {}
  /\ cand' = {t \in Tasks : Orphan(t)}
  /\ cand' # {}
  /\ UNCHANGED <<rows, lock, local, sessions, faults, history>>

\* _reclaim_one: the lock decides, and the requeue checks only the status.
ReclaimOne(t) ==
  /\ t \in cand
  /\ IF lock[t] = None
     THEN rows' = RequeueOrFail(rows, t) /\ inbox' = SentReclaim(t)
     ELSE UNCHANGED <<rows, inbox>>
  /\ cand' = cand \ {t}
  /\ Charged
  /\ UNCHANGED <<lock, local, conn, lis, faults, late, lost>>

\* fail_stale_inline_rows, after its long silence.
FailStaleInline(t) ==
  /\ StaleInline(rows, t)
  /\ rows' = FailStale(rows, t)
  /\ UNCHANGED <<lock, local, sessions, cand, faults, history>>

\* nudge_wedged_main_tasks: a silent root whose worker is still connected.
Wedged(t) ==
  /\ rows[t].st = "RUNNING" /\ rows[t].queued /\ IsRoot(t)
  /\ rows[t].owner \in Workers
  /\ Visible(rows[t].owner)

Nudge(t) ==
  /\ Wedged(t)
  /\ Disturb
  /\ inbox' = Sent(Cancel(t), Workers)
  /\ UNCHANGED <<rows, lock, local, conn, lis, cand, history>>

\* A row that ignored the cancel has its worker's backends terminated.
Escalate(t) ==
  LET w == rows[t].owner
  IN /\ Wedged(t)
     /\ Disturb
     /\ lock' = Unlocked(w)
     /\ conn' = [conn EXCEPT ![w] = FALSE]
     /\ lis' = [lis EXCEPT ![w] = FALSE]
     /\ inbox' = [Sent(Cancel(t), Workers) EXCEPT ![w] = {}]
     /\ UNCHANGED <<rows, local, cand, history>>

-------------------------------------------------------------------------------
Family(w, t) ==
  \/ EnqueueChild(w, t) \/ ReapChildren(w, t)
  \/ \E v \in {"FAIL", "REVOKED"} : EndChild(w, t, v)

\* What follows the end of a job, and the rows the top of the loop puts back.
Settle(w, t) ==
  \/ Finalize(w, t) \/ RequeueForRetry(w, t) \/ Abandon(w, t) \/ Release(w, t)
  \/ PutBackFree(w, t) \/ PutBackCharged(w, t)

JobStep(w, t) ==
  \/ Claim(w, t) \/ JobReports(w, t)
  \/ \E o \in Outcomes : JobEnds(w, t, o)
  \/ Settle(w, t)

WorkerStep(w) ==
  \/ \E d \in owed[w] : RetryUnwritten(w, d)
  \/ NothingToClaim(w) \/ Reconnect(w)
  \/ \E n \in inbox[w] : OnNotify(w, n)
  \/ EnsureHold(w) \/ ListenerReady(w)
  \/ SessionsEnd(w) \/ Restart(w)

Misfortune(w) ==
  \/ Crash(w) \/ DropConn(w) \/ DropListener(w) \/ LoopTopFails(w)
  \/ \E t \in Tasks : \/ ClaimCommitLost(w, t) \/ RequeueCommitLost(w, t)
                      \/ OutcomeUnwritten(w, t)
  \/ \E d \in owed[w] : RetryCommitLost(w, d)

Maintenance ==
  \/ Scan
  \/ \E t \in Tasks : \/ ReclaimOne(t) \/ FailStaleInline(t)
                      \/ Nudge(t) \/ Escalate(t)

Next ==
  \/ \E t \in Tasks : EnqueueRoot(t)
  \/ \E a \in Tasks \cup {None} : GlobalCancel(a)
  \/ \E w \in Workers, t \in Tasks : Family(w, t) \/ JobStep(w, t)
  \/ \E w \in Workers : WorkerStep(w) \/ Misfortune(w)
  \/ Maintenance

Spec == Init /\ [][Next]_vars

\* Fairness.  A worker, its listener, its jobs, the supervisor that restarts it
\* and the server that reaps its dead sessions keep going, and so does the
\* maintenance loop; nobody has to cancel, report, fail or nudge.
Fairness ==
  /\ \A w \in Workers :
       /\ WF_vars(WorkerStep(w))
       /\ WF_vars(\E t \in Tasks : Claim(w, t))
       /\ WF_vars(\E t \in Tasks, o \in Outcomes : JobEnds(w, t, o))
       /\ WF_vars(\E t \in Tasks : Settle(w, t))
  /\ \A t \in Tasks : WF_vars(ReclaimOne(t)) /\ WF_vars(FailStaleInline(t))
  /\ WF_vars(Scan)

FairSpec == Spec /\ Fairness

-------------------------------------------------------------------------------
(* Properties *)

\* A worker has a job exactly while its loop is inside run_job, the job has an
\* outcome once it has ended, and its row is known to the table's history.
WorkerLoopOK ==
  \A w \in Workers :
    /\ phase[w] \in {"running", "ended", "releasing"} <=> job[w].task \in Tasks
    /\ phase[w] = "ended" => job[w].out \in Outcomes
    /\ job[w].task \in Tasks => rows[job[w].task].st # "FREE"

VarTypes ==
  /\ rows \in [Tasks -> Row]
  /\ lock \in [Tasks -> Workers \cup {None}]
  /\ phase \in [Workers -> Phases]
  /\ job \in [Workers -> Jobs]
  /\ conn \in [Workers -> BOOLEAN]
  /\ lis \in [Workers -> BOOLEAN]
  /\ inbox \in [Workers -> SUBSET Notices]
  /\ owed \in [Workers -> SUBSET Debts]
  /\ left \in [Workers -> SUBSET Tasks]
  /\ free \in [Workers -> [Tasks -> Nat]]
  /\ cand \subseteq Tasks
  /\ faults \in Nat
  /\ late \subseteq Tasks
  /\ lost \subseteq Tasks
  /\ unpaid \subseteq Tasks

\* Every variable has its type, and every worker's job fits its loop.
TypeOK == VarTypes /\ WorkerLoopOK

\* A running worker is the one its row names, for this very attempt.
Rightful(w, t) ==
  /\ rows[t].st = "RUNNING"
  /\ rows[t].owner = w
  /\ rows[t].att = job[w].att

\* A notice is on its way that will stop the worker, or its listener is down and
\* will read the row when it comes back.
Warned(w) == ~lis[w] \/ \E n \in inbox[w] : Heeds(w, n)

\* Somebody will still write an outcome for t on behalf of w.
InHand(w, t) ==
  \/ Holding(w) /\ job[w].task = t
  \/ t \in left[w]
  \/ \E d \in owed[w] : d.task = t

\* A live row is run by no process but the one it names: a worker still executing
\* a task that was requeued, or given to another worker, behind its back is about
\* to be told, whatever connections broke on the way (on_notify, on_reclaimed and
\* on_listener_ready of worker.py against requeue_or_fail).  A decided row is left
\* to the task's own cancel check.
NoRogueWorker ==
  \A w \in Workers, t \in Tasks :
    Executing(w, t) /\ t \notin late
      => Rightful(w, t) \/ ~IsLive(rows, t) \/ Warned(w)

\* A RUNNING row is in the hands of its worker as long as that worker lives:
\* reclaim leaves a connected worker's rows alone, so one that the worker has
\* forgotten would stay RUNNING for ever.  A lost commit and a stale report are
\* the exceptions; FailedWriteIsKept is about the first.
NoStrandedRow ==
  \A t \in Tasks \ (late \cup lost) :
    rows[t].st = "RUNNING" /\ rows[t].queued
      => \A w \in Workers : rows[t].owner = w /\ Alive(w) => InHand(w, t)

\* A reclaim notice that would stop a worker is never aimed at an attempt that
\* is rightfully running: the notice names worker and attempt because a worker
\* that retries its own job hears the notice of its own requeue.
ReclaimStopsOnlyLosers ==
  \A w \in Workers : \A n \in inbox[w] :
    n.kind = "reclaim" /\ Heeds(w, n) /\ n.task \notin late
      => ~Rightful(w, n.task)

\* A row on the queue or being run has charges within its budget, so no path
\* through reclaim, retry and lost connections runs a task without end.
WithinBudget ==
  \A t \in Tasks : IsLive(rows, t) => rows[t].att <= MaxAttempts[t]

\* An attempt is charged at most once per claim: reclaim, the retry of a job
\* that ended badly, the postponed retry of that retry and the charge for a lost
\* connection never both bill the same run.
OneChargePerClaim ==
  [][\A t \in Tasks \ late : rows'[t].att > rows[t].att => t \in unpaid]_vars

\* A verdict is final: no retry, reclaim, late report or postponed outcome
\* changes a terminal row; it is deleted, or covered by a user's cancel.
VerdictIsFinal ==
  [][\A t \in Tasks :
       IsTerminal(rows, t) =>
         \/ rows'[t].st \in {rows[t].st, "GONE"}
         \/ rows'[t].st = "REVOKED" /\ ~rows'[t].queued]_vars

\* The verdict of a child whose parent stays live is deleted by that parent alone:
\* neither the wipe before another start nor the collapse of another finished root
\* may eat a result its parent has yet to read.
ChildVerdictKept ==
  [][\A t \in Tasks :
       /\ ~IsRoot(t) /\ IsTerminal(rows, t) /\ ~Exists(rows', t)
       /\ IsLive(rows, Parent[t]) /\ IsLive(rows', Parent[t])
       => \E w \in Workers : Executing(w, Parent[t])
                             /\ rows' = Reaped(rows, Parent[t])]_vars

\* Every task that is submitted is eventually decided, through any disturbances
\* that stop in the end; unless a stale report or a lost commit stranded it.
EventuallyDecided ==
  \A t \in Tasks :
    IsLive(rows, t) ~> ~IsLive(rows, t) \/ t \in late \cup lost

-------------------------------------------------------------------------------
(* The promise kept *)

\* A row that is no queue entry any more, a recap or a phantom, is a job that is
\* over.
lifeOf ==
  [t \in Tasks |->
     IF rows[t].st = "FREE" THEN [stage |-> "unknown", charges |-> 0]
     ELSE IF rows[t].queued /\ rows[t].st = "NEW"
     THEN [stage |-> "waiting", charges |-> rows[t].att]
     ELSE IF rows[t].queued /\ rows[t].st = "RUNNING"
     THEN [stage |-> "working", charges |-> rows[t].att]
     ELSE [stage |-> "over", charges |-> 0]]

Promise == INSTANCE JobLife WITH Jobs <- Tasks, Budget <- MaxAttempts, life <- lifeOf

\* The queue implements the life of a job: every step of workers, maintenance,
\* cancels and late reports is a lawful move of every job at once.
KeepsPromise == Promise!Spec

-------------------------------------------------------------------------------
(* What the documentation says and the code does not keep *)

\* worker.py's "an outcome whose write failed is re-written every loop": a worker
\* that leaves a job behind with the row still its own remembers the outcome.
FailedWriteIsKept ==
  [][\A w \in Workers, t \in Tasks :
       /\ phase[w] = "ended" /\ phase'[w] = "releasing" /\ job[w].task = t
       /\ job[w].out # "LOST"
       /\ rows'[t].st = "RUNNING" /\ rows'[t].owner = w
       => \E d \in owed'[w] : d.task = t]_vars
===============================================================================
