------------------------------- MODULE CronRuns -------------------------------
(***************************************************************************)
(* Scheduled runs (app_cron.py): the cron thread of every web process, the *)
(* claim of a schedule's minute, admission under the main-task start lock, *)
(* the retry list of blocked runs, and the online runs the thread executes *)
(* itself.                                                                 *)
(*                                                                         *)
(* The table of runs is TaskRows; task ids are uuids, so an id of a row    *)
(* that is gone and that nobody holds stands for a new one.  A step is one *)
(* database transaction, or the wait for the start lock.  A worker is only *)
(* what it does to a run's row: TaskQueue has the rest.  Time is the       *)
(* wall-clock minute, which a thread reads when its pass begins.           *)
(***************************************************************************)
EXTENDS TaskRows, CronExpr

CONSTANTS
  Processes,   \* web processes, each with one cron thread
  Schedules,   \* rows of the cron table: one per task type
  Online,      \* the schedules that run inline, in the web process
  ByHand,      \* batch types that have no schedule
  Pages,       \* batch types a user starts on a page
  TypeOf,      \* the task type of every run
  Rank,        \* the order a tick takes the due schedules in
  Exprs,       \* the expressions a user gives each schedule
  TimeAt,      \* the calendar time of every minute
  Window,      \* CRON_RETRY_MAX_MINUTES
  MaxMinute,   \* bound: the last minute
  MaxEdits,    \* bound: schedules saved on the page
  Faults,      \* kinds of disturbance that may happen
  MaxFaults    \* bound: disturbances a behaviour may contain

Minutes == 0..MaxMinute
Batch == (Schedules \ Online) \cup ByHand
FaultKinds == {"crash", "drop", "error", "unwritten", "cancel"}

ASSUME CronAssumption ==
  /\ None \notin Processes \cup Schedules
  /\ Online \subseteq Schedules
  /\ ByHand \cap Schedules = {}
  /\ Pages \subseteq Batch
  /\ TypeOf \in [Tasks -> Schedules \cup ByHand]
  /\ \A t \in Tasks : Parent[t] = None
  /\ \A t \in Tasks : TypeOf[t] \in Online => t \notin MainRoots
  /\ Rank \in [Schedules -> Nat]
  /\ None \notin UNION {Exprs[s] : s \in Schedules}
  /\ Window \in Nat \ {0}
  /\ MaxMinute \in Nat
  /\ MaxEdits \in Nat
  /\ Faults \subseteq FaultKinds
  /\ MaxFaults \in Nat

VARIABLES
  now,      \* the current minute
  expr,     \* cron.cron_expr of every schedule
  enabled,  \* schedules with cron.enabled
  last,     \* cron.last_run, -1 for NULL
  retry,    \* cron_retry: the entry of every schedule
  rows,     \* task_status
  began,    \* start_time of every run
  lock,     \* the process whose session holds the start lock
  thr,      \* the cron thread of every process
  edits,    \* schedules saved so far
  faults,   \* disturbances so far
  fires,    \* history: claims of every schedule's minute
  succeeded \* history: latest start of a run of the type that succeeded

cron == <<expr, enabled, last, edits>>
runs == <<rows, began, succeeded>>
vars == <<now, cron, retry, runs, lock, thr, faults, fires>>

NoEntry == [until |-> -1, first |-> -1]

\* A thread outside any tick: s is the schedule at hand, out what became of its
\* dispatch, run the online run being executed, bad an aborted transaction.
Fresh(pc) ==
  [pc |-> pc, at |-> 0, todo |-> {}, seen |-> [s \in Schedules |-> None],
   ran |-> FALSE, pend |-> {}, held |-> [s \in Schedules |-> NoEntry], s |-> None,
   out |-> "none", run |-> None, bad |-> FALSE, dead |-> {}]

Moves(p, th) == thr' = [thr EXCEPT ![p] = th]

Entry == [until : Int, first : Int]
Known == UNION {Exprs[s] : s \in Schedules}

Steps == {"down", "reap", "idle", "row", "wait", "gate", "insert", "note", "begin",
          "inline", "retry", "expired"}
AtHand == {"wait", "gate", "insert", "note", "begin", "inline", "expired"}

Thread ==
  [pc : Steps, at : Minutes, todo : SUBSET Schedules,
   seen : [Schedules -> Known \cup {None}], ran : BOOLEAN,
   pend : SUBSET Schedules, held : [Schedules -> Entry], s : Schedules \cup {None},
   out : {"none", "done", "blocked", "failed"}, run : Tasks \cup {None},
   bad : BOOLEAN, dead : SUBSET Tasks]

\* A thread has a schedule at hand exactly where a step uses one, only batch
\* schedules are admitted, refused and retried, and only online ones run inline.
ThreadOK(th) ==
  /\ th.pc \in AtHand <=> th.s # None
  /\ th.pc = "begin" => th.s \in Online
  /\ th.pc \in {"wait", "gate", "insert"} => th.s \notin Online
  /\ th.pc = "note" /\ th.out = "blocked" => th.s \notin Online
  /\ IF th.pc = "inline" THEN th.run \in Tasks /\ TypeOf[th.run] \in Online
     ELSE th.run = None
  /\ th.pend \cap Online = {}

TypeOK ==
  /\ now \in Minutes
  /\ expr \in [Schedules -> Known]
  /\ enabled \subseteq Schedules
  /\ last \in [Schedules -> -1..now]
  /\ retry \in [Schedules -> Entry]
  /\ \A s \in Online : retry[s] = NoEntry
  /\ rows \in [Tasks -> Row]
  /\ began \in [Tasks -> Minutes]
  /\ lock \in Processes \cup {None}
  /\ thr \in [Processes -> Thread]
  /\ \A p \in Processes : ThreadOK(thr[p]) /\ thr[p].at <= now
  /\ edits \in 0..MaxEdits
  /\ faults \in 0..MaxFaults
  /\ fires \in [Schedules -> [Minutes -> Nat]]
  /\ succeeded \in [Schedules \cup ByHand -> Minutes \cup {-1}]

Init ==
  /\ now = 0
  /\ expr \in {e \in [Schedules -> UNION {Exprs[s] : s \in Schedules}] :
               \A s \in Schedules : e[s] \in Exprs[s] /\ Accepted(e[s])}
  /\ enabled = Schedules
  /\ last = [s \in Schedules |-> -1]
  /\ retry = [s \in Schedules |-> NoEntry]
  /\ rows = [t \in Tasks |-> FreeRow]
  /\ began = [t \in Tasks |-> 0]
  /\ lock = None
  /\ thr = [p \in Processes |-> Fresh("down")]
  /\ edits = 0
  /\ faults = 0
  /\ fires = [s \in Schedules |-> [m \in Minutes |-> 0]]
  /\ succeeded = [y \in Schedules \cup ByHand |-> -1]

-------------------------------------------------------------------------------
(* The table of runs *)

Disturb(kind) ==
  kind \in Faults /\ faults < MaxFaults /\ faults' = faults + 1

\* get_queue_blocking_task: a live batch root of any server.
BatchLive(r, t) == TypeOf[t] \in Batch /\ IsLive(r, t)
Blocked(r) == \E t \in Tasks : BatchLive(r, t)

Unused(r, y) ==
  {t \in Tasks : /\ TypeOf[t] = y /\ ~Exists(r, t)
                 /\ \A p \in Processes : thr[p].run # t /\ t \notin thr[p].dead}

\* clean_up_previous_main_tasks: every main root that is live or succeeded.
Archived(r) ==
  [t \in Tasks |-> IF t \in MainRoots /\ (IsLive(r, t) \/ r[t].st = "SUCCESS")
                   THEN [r[t] EXCEPT !.st = "REVOKED"] ELSE r[t]]

\* Only an analysis or a clustering archives; a plugin task does not.
Cleared(r, t) == IF t \in MainRoots THEN Archived(r) ELSE r

\* enqueue: the start wipes the finished rows, then writes its own.
AfterStart(r, t) == InsertJob(Wipe(Cleared(r, t), {}), t)

\* save_task_status with a terminal status, and the collapse behind it.
Saved(r, t, verdict) ==
  IF IsTerminal(r, t) THEN r
  ELSE Collapsed([r EXCEPT ![t].st = verdict], t)

Credited(t, verdict) ==
  succeeded' = IF verdict = "SUCCESS" /\ began[t] > succeeded[TypeOf[t]]
               THEN [succeeded EXCEPT ![TypeOf[t]] = began[t]] ELSE succeeded

-------------------------------------------------------------------------------
(* The thread: start, tick, claim *)

\* reap_interrupted_inline_runs reads the rows, then fails them one by one.
Boot(p) ==
  /\ thr[p].pc = "down"
  /\ Moves(p, [Fresh("reap") EXCEPT !.dead =
       {t \in Tasks : TypeOf[t] \in Online /\ IsLive(rows, t) /\ ~rows[t].queued}])
  /\ UNCHANGED <<now, cron, retry, runs, lock, faults, fires>>

Reap(p) ==
  /\ thr[p].pc = "reap"
  /\ \/ /\ thr[p].dead = {}
        /\ Moves(p, Fresh("idle"))
        /\ UNCHANGED rows
     \/ \E t \in thr[p].dead :
          /\ rows' = Saved(rows, t, "FAIL")
          /\ Moves(p, [thr[p] EXCEPT !.dead = @ \ {t}])
  /\ UNCHANGED <<now, cron, retry, began, succeeded, lock, faults, fires>>

Due(m) == {s \in enabled : CronMatches(expr[s], TimeAt[m])}

\* run_due_cron_jobs evaluates the current minute, whatever it did before.
Tick(p) ==
  /\ thr[p].pc = "idle"
  /\ Moves(p, [Fresh("row") EXCEPT !.at = now, !.todo = Due(now), !.seen = expr])
  /\ UNCHANGED <<now, cron, retry, runs, lock, faults, fires>>

First(S, s) == s \in S /\ \A u \in S : Rank[s] <= Rank[u]

\* Mutant of MayClaim: the claim forgets the minutes already claimed.
MayClaimAgain(p, s) == s \in enabled /\ expr[s] = thr[p].seen[s]

\* Mutant of MayClaim: the claim trusts the row the tick has read.
MayClaimStale(p, s) == last[s] < thr[p].at

\* _claim_cron_minute: the row is enabled, unchanged, and not run this minute.
MayClaim(p, s) ==
  s \in enabled /\ expr[s] = thr[p].seen[s] /\ last[s] < thr[p].at

\* _fire_cron_row up to the dispatch.
Claim(p) ==
  /\ thr[p].pc = "row" /\ ~thr[p].bad
  /\ \E s \in thr[p].todo :
       /\ First(thr[p].todo, s)
       /\ ~(s \in Online /\ thr[p].ran)
       /\ MayClaim(p, s)
       /\ last' = [last EXCEPT ![s] = thr[p].at]
       /\ fires' = [fires EXCEPT ![s][thr[p].at] = @ + 1]
       /\ Moves(p, [thr[p] EXCEPT !.s = s,
                                  !.pc = IF s \in Online THEN "begin" ELSE "wait"])
  /\ UNCHANGED <<now, expr, enabled, edits, retry, runs, lock, faults>>

\* A row that is not claimed: another process took the minute, the page changed
\* it, an online run already had this tick, or the transaction of the row before
\* was left aborted and the claim only rolls it back.
PassOver(p) ==
  /\ thr[p].pc = "row"
  /\ \E s \in thr[p].todo :
       /\ First(thr[p].todo, s)
       /\ thr[p].bad \/ ~MayClaim(p, s) \/ (s \in Online /\ thr[p].ran)
       /\ Moves(p, [thr[p] EXCEPT !.todo = @ \ {s},
                                  !.bad = @ /\ s \in Online /\ thr[p].ran])
  /\ UNCHANGED <<now, cron, retry, runs, lock, faults, fires>>

\* The end of the app context closes the connection, and the session's lock.
Unlocked(p) == lock' = IF lock = p THEN None ELSE lock

Sleep(p) ==
  /\ \/ thr[p].pc = "row" /\ thr[p].todo = {}
     \/ thr[p].pc = "retry" /\ thr[p].pend = {}
  /\ Moves(p, Fresh("idle"))
  /\ Unlocked(p)
  /\ UNCHANGED <<now, cron, retry, runs, faults, fires>>

-------------------------------------------------------------------------------
(* Admission under the start lock *)

\* An exception of an admission: the fire of a row catches it, rolls back and
\* goes on, the retry pass ends with it.
Failed(thread) ==
  IF thread.pend = {} THEN [thread EXCEPT !.pc = "note", !.out = "failed"]
  ELSE Fresh("idle")

\* Mutant of TakeLock: nothing is waited for.
TakeLockAnyway(p) ==
  /\ thr[p].pc = "wait"
  /\ lock' = p
  /\ Moves(p, [thr[p] EXCEPT !.pc = "gate"])
  /\ UNCHANGED <<now, cron, retry, runs, faults, fires>>

\* main_task_start_lock: granted at once to the session that has it, or waited
\* for.
TakeLock(p) ==
  /\ thr[p].pc = "wait" /\ lock \in {None, p}
  /\ lock' = p
  /\ Moves(p, [thr[p] EXCEPT !.pc = "gate"])
  /\ UNCHANGED <<now, cron, retry, runs, faults, fires>>

\* statement_timeout: the wait is over and the admission failed.
GiveUpWaiting(p) ==
  /\ thr[p].pc = "wait" /\ lock \notin {None, p}
  /\ Moves(p, Failed(thr[p]))
  /\ UNCHANGED <<now, cron, retry, runs, lock, faults, fires>>

Outcome(p, out) == Moves(p, [thr[p] EXCEPT !.pc = "note", !.out = out])

\* get_queue_blocking_task, inside the lock.
Gate(p) ==
  /\ thr[p].pc = "gate"
  /\ IF Blocked(rows)
     THEN Outcome(p, "blocked") /\ lock' = None
     ELSE Moves(p, [thr[p] EXCEPT !.pc = "insert"]) /\ UNCHANGED lock
  /\ UNCHANGED <<now, cron, retry, runs, faults, fires>>

\* _admit_and_enqueue_cron_job: archive, enqueue, commit, release.
Insert(p) ==
  /\ thr[p].pc = "insert"
  /\ \E t \in Unused(Wipe(rows, {}), thr[p].s) :
       IF SlotFree(Cleared(rows, t), t)
       THEN rows' = AfterStart(rows, t) /\ Outcome(p, "done")
       ELSE rows' = Cleared(rows, t) /\ Outcome(p, "blocked")
  /\ lock' = None
  /\ UNCHANGED <<now, cron, retry, began, succeeded, faults, fires>>

\* The enqueue statement fails: the archive is committed, the transaction is
\* left aborted, and in it the unlock fails as well.
InsertFails(p) ==
  /\ thr[p].pc = "insert" /\ Disturb("error")
  /\ \E t \in Unused(Wipe(rows, {}), thr[p].s) : rows' = Cleared(rows, t)
  /\ Moves(p, [thr[p] EXCEPT !.pc = "note", !.out = "failed", !.bad = TRUE])
  /\ UNCHANGED <<now, cron, retry, began, succeeded, lock, fires>>

\* The database drops the session in the middle of an admission.
Drop(p) ==
  /\ thr[p].pc \in {"gate", "insert"} /\ Disturb("drop")
  /\ lock' = None
  /\ Moves(p, Failed(thr[p]))
  /\ UNCHANGED <<now, cron, retry, runs, fires>>

-------------------------------------------------------------------------------
(* What becomes of a dispatch *)

Firing(p) == thr[p].pc = "note" /\ thr[p].pend = {}

Back(p, pc) ==
  [thr[p] EXCEPT !.pc = pc, !.todo = @ \ {thr[p].s}, !.pend = @ \ {thr[p].s},
                 !.s = None, !.out = "none"]

\* _fire_cron_row after the dispatch, _record_cron_retry: a blocked run is put
\* on the list, from the minute it was due; a run that happened clears the list.
NoteFire(p) ==
  /\ Firing(p)
  /\ retry' = [retry EXCEPT ![thr[p].s] =
       CASE thr[p].out = "done" -> NoEntry
         [] thr[p].out = "blocked" /\ @ = NoEntry ->
              [until |-> thr[p].at + Window, first |-> thr[p].at]
         [] OTHER -> @]
  /\ Moves(p, [Back(p, "row") EXCEPT
                 !.ran = @ \/ (thr[p].s \in Online /\ thr[p].out = "done")])
  /\ UNCHANGED <<now, cron, runs, lock, faults, fires>>

\* retry_due_cron_jobs after the dispatch: a run that happened leaves the list
\* and moves last_run; a failed one aborts the pass with its transaction.
NoteRetry(p) ==
  /\ thr[p].pc = "note" /\ thr[p].pend # {}
  /\ IF thr[p].out = "done"
     THEN /\ retry' = [retry EXCEPT ![thr[p].s] = NoEntry]
          /\ last' = [last EXCEPT ![thr[p].s] = now]
     ELSE UNCHANGED <<retry, last>>
  /\ IF thr[p].out = "failed"
     THEN Moves(p, Fresh("idle")) /\ Unlocked(p)
     ELSE Moves(p, Back(p, "retry")) /\ UNCHANGED lock
  /\ UNCHANGED <<now, expr, enabled, edits, runs, faults, fires>>

-------------------------------------------------------------------------------
(* The retry pass *)

\* list_pending_cron_retries: the entries and the clock are read once.
BeginRetries(p) ==
  /\ thr[p].pc = "row" /\ thr[p].todo = {} /\ ~thr[p].bad
  /\ \E s \in Schedules : retry[s] # NoEntry
  /\ Moves(p, [Fresh("retry") EXCEPT !.at = now, !.held = retry,
                 !.pend = {s \in Schedules : retry[s] # NoEntry}])
  /\ UNCHANGED <<now, cron, retry, runs, lock, faults, fires>>

\* Mutant of Expired: the window is never over.
NeverExpired(p, s) == FALSE

\* _retry_deadline against the clock of the pass.
Expired(p, s) == thr[p].at >= thr[p].held[s].until

\* cron_retry_task_already_done: a success since the first refusal.
AlreadyDone(p, s) ==
  \E t \in Tasks : /\ TypeOf[t] = s /\ rows[t].st = "SUCCESS"
                   /\ began[t] >= thr[p].held[s].first

Expire(p) ==
  /\ thr[p].pc = "retry"
  /\ \E s \in thr[p].pend :
       /\ First(thr[p].pend, s) /\ Expired(p, s)
       /\ retry' = [retry EXCEPT ![s] = NoEntry]
       /\ Moves(p, [thr[p] EXCEPT !.pc = "expired", !.s = s])
  /\ UNCHANGED <<now, cron, runs, lock, faults, fires>>

\* _record_retry_expired: the visible skip is a finished run of the type.
RecordExpired(p) ==
  /\ thr[p].pc = "expired"
  /\ \E t \in Unused(Wipe(rows, {}), thr[p].s) :
       rows' = Saved(Wipe(rows, {}), t, "FAIL")
  /\ Moves(p, Back(p, "retry"))
  /\ UNCHANGED <<now, cron, retry, began, succeeded, lock, faults, fires>>

\* The schedule was disabled, or ran in the meantime.
Forget(p) ==
  /\ thr[p].pc = "retry"
  /\ \E s \in thr[p].pend :
       /\ First(thr[p].pend, s) /\ ~Expired(p, s)
       /\ s \notin enabled \/ AlreadyDone(p, s)
       /\ retry' = [retry EXCEPT ![s] = NoEntry]
       /\ Moves(p, [thr[p] EXCEPT !.pend = @ \ {s}])
  /\ UNCHANGED <<now, cron, runs, lock, faults, fires>>

Redispatch(p) ==
  /\ thr[p].pc = "retry"
  /\ \E s \in thr[p].pend :
       /\ First(thr[p].pend, s) /\ ~Expired(p, s)
       /\ s \in enabled /\ ~AlreadyDone(p, s)
       /\ Moves(p, [thr[p] EXCEPT !.pc = "wait", !.s = s])
  /\ UNCHANGED <<now, cron, retry, runs, lock, faults, fires>>

-------------------------------------------------------------------------------
(* Online runs: _run_inline *)

\* The STARTED row of the run, or an error that lets the tick go on without it.
BeginOnline(p) ==
  /\ thr[p].pc = "begin"
  /\ \/ \E t \in Unused(rows, thr[p].s) :
          /\ rows' = ReportRunning(rows, t)
          /\ began' = [began EXCEPT ![t] = now]
          /\ Moves(p, [thr[p] EXCEPT !.pc = "inline", !.run = t])
          /\ UNCHANGED faults
     \/ /\ Disturb("error")
        /\ Outcome(p, "failed")
        /\ UNCHANGED <<rows, began>>
  /\ UNCHANGED <<now, cron, retry, succeeded, lock, fires>>

\* A heartbeat or a progress report finds no row and inserts one.
ReportOnline(p) ==
  /\ thr[p].pc = "inline" /\ ~Exists(rows, thr[p].run)
  /\ rows' = ReportRunning(rows, thr[p].run)
  /\ UNCHANGED <<now, cron, retry, began, succeeded, lock, thr, faults, fires>>

\* TaskCancelled: the check between two servers finds the row finished or gone.
StopOnline(p) ==
  /\ thr[p].pc = "inline" /\ ~IsLive(rows, thr[p].run)
  /\ Moves(p, [thr[p] EXCEPT !.pc = "note", !.out = "done", !.run = None])
  /\ UNCHANGED <<now, cron, retry, runs, lock, faults, fires>>

\* The run ends and writes its verdict, which a finished row refuses, or fails
\* to write it and leaves the row to the stale sweep.
EndOnline(p) ==
  /\ thr[p].pc = "inline"
  /\ Moves(p, [thr[p] EXCEPT !.pc = "note", !.out = "done", !.run = None])
  /\ \/ /\ \E v \in {"SUCCESS", "FAIL"} :
             /\ rows' = Saved(rows, thr[p].run, v)
             /\ IF IsTerminal(rows, thr[p].run) THEN UNCHANGED succeeded
                ELSE Credited(thr[p].run, v)
        /\ UNCHANGED faults
     \/ Disturb("unwritten") /\ UNCHANGED <<rows, succeeded>>
  /\ UNCHANGED <<now, cron, retry, began, lock, fires>>

-------------------------------------------------------------------------------
(* Everybody else *)

\* The process dies or is restarted; its session and its lock go with it.
Crash(p) ==
  /\ thr[p].pc # "down" /\ Disturb("crash")
  /\ Moves(p, Fresh("down"))
  /\ Unlocked(p)
  /\ UNCHANGED <<now, cron, retry, runs, fires>>

\* admit_and_enqueue_main_task: the gate, the archive and the enqueue of a page,
\* in one hold of the start lock.
StartOnPage(y) ==
  /\ lock = None /\ ~Blocked(rows)
  /\ \E t \in Unused(Wipe(rows, {}), y) : rows' = AfterStart(rows, t)
  /\ UNCHANGED <<now, cron, retry, began, succeeded, lock, thr, faults, fires>>

\* The global cancel takes the same lock for its transaction.
CancelOnPage(t) ==
  /\ lock = None /\ IsLive(rows, t) /\ Disturb("cancel")
  /\ rows' = CancelAll(rows, t)
  /\ UNCHANGED <<now, cron, retry, began, succeeded, lock, thr, fires>>

\* save_cron_entry: a schedule may be enabled only with an expression every
\* field of which can match.
Saveable(s) == {save \in Exprs[s] \X BOOLEAN : save[2] => Accepted(save[1])}

SaveSchedule(s) ==
  /\ edits < MaxEdits /\ edits' = edits + 1
  /\ \E save \in Saveable(s) \ {<<expr[s], s \in enabled>>} :
       /\ expr' = [expr EXCEPT ![s] = save[1]]
       /\ enabled' = IF save[2] THEN enabled \cup {s} ELSE enabled \ {s}
  /\ UNCHANGED <<now, last, retry, runs, lock, thr, faults, fires>>

WorkerClaims(t, w) ==
  /\ Claimable(rows, t)
  /\ rows' = ClaimRow(rows, t, w)
  /\ began' = [began EXCEPT ![t] = now]
  /\ UNCHANGED <<now, cron, retry, succeeded, lock, thr, faults, fires>>

WorkerFinishes(t) ==
  /\ rows[t].st = "RUNNING" /\ rows[t].queued
  /\ \E v \in {"SUCCESS", "FAIL"} :
       rows' = Saved(rows, t, v) /\ Credited(t, v)
  /\ UNCHANGED <<now, cron, retry, began, lock, thr, faults, fires>>

\* fail_stale_inline_rows: no report for QUEUE_INLINE_STALE_SECONDS, be it that
\* nobody runs it any more or that the run outlived its heartbeat.
SweepStale(t) ==
  /\ StaleInline(rows, t)
  /\ rows' = FailStale(rows, t)
  /\ UNCHANGED <<now, cron, retry, began, succeeded, lock, thr, faults, fires>>

NextMinute ==
  /\ now < MaxMinute
  /\ now' = now + 1
  /\ UNCHANGED <<cron, retry, runs, lock, thr, faults, fires>>

-------------------------------------------------------------------------------
(* The specification *)

Admits(p) == TakeLock(p) \/ GiveUpWaiting(p) \/ Gate(p) \/ Insert(p)
Fires(p) == Tick(p) \/ Claim(p) \/ PassOver(p) \/ NoteFire(p) \/ Sleep(p)
Retries(p) ==
  Expire(p) \/ RecordExpired(p) \/ Forget(p) \/ Redispatch(p) \/ NoteRetry(p)
Runs(p) == BeginOnline(p) \/ ReportOnline(p) \/ StopOnline(p) \/ EndOnline(p)

Next ==
  \/ \E p \in Processes :
       \/ Boot(p) \/ Reap(p)
       \/ Admits(p) \/ Fires(p) \/ BeginRetries(p) \/ Retries(p) \/ Runs(p)
       \/ InsertFails(p) \/ Drop(p) \/ Crash(p)
  \/ \E y \in Pages : StartOnPage(y)
  \/ \E s \in Schedules : SaveSchedule(s)
  \/ \E t \in Tasks : CancelOnPage(t) \/ WorkerFinishes(t) \/ SweepStale(t)
  \/ \E t \in Tasks, w \in Workers : WorkerClaims(t, w)
  \/ NextMinute

Spec == Init /\ [][Next]_vars

\* Every thread keeps going and a process that died is started again; an online
\* run comes to its end, time passes, and the retry pass of a tick, which is due
\* every CRON_RETRY_INTERVAL_MINUTES, is not left out for ever.
Fairness ==
  /\ \A p \in Processes :
       /\ WF_vars(Boot(p) \/ Reap(p) \/ Admits(p) \/ Fires(p))
       /\ WF_vars(Retries(p) \/ BeginOnline(p) \/ StopOnline(p) \/ EndOnline(p))
       /\ SF_vars(BeginRetries(p))
  /\ WF_vars(NextMinute)

FairSpec == Spec /\ Fairness

-------------------------------------------------------------------------------
(* Properties *)

\* The inductive invariant.  A minute that was fired is not after last_run, so the
\* claim that moves last_run forward can only take a minute nobody took; and the
\* session between the gate and the insert holds the lock, with nothing live.
FiredMinutesArePast ==
  \A s \in Schedules, m \in Minutes : fires[s][m] > 0 => m <= last[s]
GateIsLocked ==
  \A p \in Processes :
    /\ thr[p].pc \in {"gate", "insert"} => lock = p
    /\ thr[p].pc = "insert" => ~Blocked(rows)
\* What a tick has still to fire matched the minute as the tick read it.
TodoIsDue ==
  \A p \in Processes : \A s \in thr[p].todo :
    CronMatches(thr[p].seen[s], TimeAt[thr[p].at])

\* No schedule is fired twice for the same minute, whichever of the processes
\* evaluates it, however often, and whatever dies in between: the claim of
\* _claim_cron_minute is the only thing that decides it.
OneFirePerMinute == \A s \in Schedules, m \in Minutes : fires[s][m] <= 1

\* Two batch runs are never queued or running together, whether a schedule, the
\* retry list or a page started them, and though only the main types are under
\* the unique index: the start lock spans the gate and the insert.
OneLiveBatch ==
  \A t, u \in Tasks : BatchLive(rows, t) /\ BatchLive(rows, u) => t = u

\* A schedule that was disabled or changed on the page between the tick that read
\* it and the claim is not fired: what is fired is enabled, and its expression
\* matches the minute it is fired for.
StaleScheduleNeverFires ==
  [][\A s \in Schedules, m \in Minutes :
       fires'[s][m] # fires[s][m]
         => s \in enabled /\ CronMatches(expr[s], TimeAt[m])]_vars

\* A blocked run is not forgotten and does not wait for ever, however busy the
\* queue is kept: it is started, found to have happened, or given up for good.
RetryDecided ==
  \A s \in Schedules : retry[s] # NoEntry ~> retry[s] = NoEntry
===============================================================================
