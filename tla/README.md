# A verification project for AudioMuse-AI's background tasks

AudioMuse-AI analyses a music library in the background and serves search and
playlists over the result. Everything it does in the background is a *task*, and
tasks are run by a queue that has no broker: one PostgreSQL table,
`task_status`, is the queue, the progress report and the verdict of every task at
once. Several processes work on that table concurrently, and each of them may
lose its connection or die at any point. That is where the program's own hard
logic lies: the queue itself, the deliberate restart of its workers, the
scheduler that feeds it, the two long runs that spread over hundreds of child
tasks, the change of the media provider, which has to restart every worker
after one irrevocable commit, and the restore of a backup, which replaces the
database under all of them. This project models these six, checks them with TLC
and proves what matters most about each with TLAPS.

## The system

| part | source | state it keeps | operations |
|---|---|---|---|
| task table | `taskqueue/sql.py`, `database.py` | rows: status, func/queue, worker_id, attempts, parent | insert, claim, requeue (charged, free), finish, end child, reap, wipe, collapse, report |
| worker process | `taskqueue/worker.py`, `retry.py`, `process.py` | held task, `_abandoned`, `_unwritten`, `_uncharged`, claim connection with the task's advisory lock | claim, run, finalize, retry, put back, reconnect, stop |
| listener thread | `taskqueue/listen.py` and the callbacks of `worker.py` | its own connection | cancel and reclaim notices, re-reading the row on reconnect, retaking the lock |
| maintenance | `taskqueue/maintenance.py` | none (reads the table and the server's sessions) | reclaim orphans, fail stale inline rows, nudge and escalate |
| submission | `taskqueue/__init__.py`, `app_helper.py` | none | enqueue, end_child, reap, global cancel |
| reporter of a running task | `tasks/task_run.py`, `save_task_status` | none | progress reports, the cancel check |
| control plane | `taskqueue/control.py`, `restart_manager.py` | request and acknowledgement rows | stop / restart / start of all workers, uncharged requeue |
| scheduler, admission | `app_cron.py`, `app_helper.py` | `cron` rows with the minute last fired, `cron_retry`, the start lock | fire, retry a blocked start, run inline tasks, save a schedule |
| parents with children | `tasks/recovery.py`, `tasks/analysis/main.py`, `tasks/clustering.py` | children of this and earlier attempts, counters on the parent's row or in its memory | enqueue, watch, give up on, reap, resume |
| provider migration | `tasks/provider_migration_tasks.py`, `app_provider_migration.py` | the migration session, restart requests | start, discard, dry run, finalize, execute, restart handshake, recovery |
| restore | `app_backup.py` | the lock file, the chunks directory, a detached runner and its log | upload in chunks or in one piece, stop the workers, stop Flask, replay, bring both back |
| analysis, indexes, search, plugins, adapters, web pages | most of the tree | library data | numeric work and I/O |

How they interact: all of them through rows of `task_status`; the worker and the
maintenance pass also through session advisory locks (one per task), through
`pg_stat_activity` (a worker's sessions carry its identity) and through NOTIFY,
which reaches only the listener sessions that exist at commit. The scheduler and the
pages put main tasks into the table behind one more advisory lock, the start
lock; parents put children into it and read them back through `recovery.py`; the
migration keeps its own session row, which maintenance reads, and restarts the
workers through the control plane. A restore stops and starts them the same way,
and otherwise keeps to files, as the table itself is what it replaces.

What is hard in it:

* a worker is considered gone from what the *server* sees, while it may still be
  running; reclaim then races with the worker that comes back;
* a notice that tells a worker to stop may be lost, or arrive when the worker
  already runs something else, even the next attempt of the same task;
* a verdict or a requeue may fail to be written, and is then written later;
* four different paths charge or refund the restart budget of one row;
* progress reports name no worker, so those of a superseded attempt still land;
* wipes and collapses delete rows other tasks may still want to read;
* every web process evaluates every schedule in every minute, decides on what it
  read at the beginning of the pass, and may die between the claim of a minute
  and the row it should lead to;
* a parent learns what its children did from listings that may fail or be empty,
  ends children that may end by themselves meanwhile, and starts over from what
  it saved while the children of its last attempt are still at work;
* the swap of the provider commits once and cannot be taken back, while the job
  that commits it may be cancelled, reclaimed or ended by the very restart it
  asks for, and the record that a restart is owed must survive all of them;
* a restore takes several requests of a client that may go away, under a lock that
  releases itself; then a second process ends the first, and whichever of the two
  is left has to bring back the services the other has stopped.

What makes each part correct: a task is run by the worker its row names
(`NoRogueWorker`), a RUNNING row has somebody who answers for it
(`NoStrandedRow`), notices stop only losers (`ReclaimStopsOnlyLosers`), a run is
charged once and within its budget (`OneChargePerClaim`, `WithinBudget`), a
verdict stays (`VerdictIsFinal`), a child's result reaches its parent
(`ChildVerdictKept`), every task is decided in the end (`EventuallyDecided`), and
all of it looks to the outside like the life of a job (`KeepsPromise`).

Of a deliberate restart: a verdict of success means that as many containers as
were asked carried it out (`VerdictIsReal`); reclaim charges none of its stopped
workers' tasks inside the action window (`LateReadersStandDown`); no requeue takes
a row from the worker that runs it (`WorkerKeepsRow`); whatever fails half
way, rows and workers come back (`NoRowLeftBehind`, `WorkersComeBack`); and to whoever
submitted a task it all looks like the life of a job again (`KeepsPromise`).

Of the scheduler: a minute of a schedule is fired at most once over all processes
and all their deaths (`OneFirePerMinute`); never two batch runs are live
(`OneLiveBatch`); what fires is due under the schedule as it was when the pass
began, and still enabled (`StaleScheduleNeverFires`); a blocked run is tried again
until it ran, was overtaken or its window closed (`RetryDecided`); and the matcher
agrees with what an expression stands for (`MatcherAgrees`).

Of a clustering run: a batch is launched and reaped at most once over the
restarts, and none is lost (`EveryBatchOnce`); the counters on its row count what
was reaped (`TallyIsExact`); playlists are written when no batch is live
(`DrainedBeforeTail`); a cancelled run stays cancelled (`CancelSticks`); and it
ends whatever its batches do (`RunEnds`).

Of an analysis run: no album has two live jobs (`OneJobPerAlbum`); the shared
directory is wiped under no live job (`WipesNothingLive`); the counters of a phase
are those of the jobs it took off the table (`TallyIsExact`); every album of a
phase is analysed, failed or named as skipped (`NothingForgotten`); an album that
is done is not enqueued again (`NeverRedone`); and the run ends (`RunEnds`).

Of a migration: the swap commits at most once (`SwappedOnce`); no cancel, before,
during or after it, leaves it without the row that answers for its restart
(`SwapNotCancelled`); the record of the owed
restart stays until it is acknowledged (`SwapIsKept`); an acknowledgement means
that as many workers were restarted since the swap as had a connected listener when
they were asked (`AckIsReal`); and it comes in the end (`EventuallyAcknowledged`).

Of a restore: only one runs at a time (`OnlyOneRestore`), which the code does not
keep; two overlap only when both lost the protection of the lock in one of three
ways (`OneRestore`). Of one that kept it: the database is replaced only while Flask
is down, and the workers of every container that could be asked (`QuietReplay`); and
if it reports success it restored the whole of its own upload (`CompletedIsWhole`).
Of all: the services come back, unless whoever had to start them is dead or was
refused, and but for containers that could not be asked (`ServicesReturn`).

## Modules

| module | what it is |
|---|---|
| `TaskRows` | the statements on the table as operators from table to table; no state of its own |
| `TaskQueue` | workers, listeners, maintenance, submission, cancels and reports over that table |
| `ControlPlane` | publishers of control requests, the listener of each container, and the reclaim pass that stands down for them |
| `CronExpr` | the matcher of cron expressions, as the code splits and tests them |
| `CronMeaning` | what an expression stands for, apart from how the matcher finds out |
| `CronRuns` | the cron threads, admission, the retry list, inline runs and the pages that start or save |
| `ChildDrain` | what the two parents share: statuses of children, restarts, give-ups, verdicts |
| `ClusterRun` | a clustering run: servers, batches, counters kept on the parent's row |
| `AnalysisRun` | an analysis run: phases, albums, counters kept in memory, adoption after a restart |
| `ProviderMigration` | the session, the wizard, the job, the restart handshake and its recovery |
| `RestoreRuns` | uploads, the lock file, the runner and the services of a restore |
| `JobLife` | the abstract specification: what a submitter is promised about one job; `TaskQueue` and `ControlPlane` implement it |
| `MCTaskQueue` | the families of tasks and workers of the TLC runs |
| `MCControlPlane` | the requests of the control plane's runs |
| `MCCronRuns` | schedules, expressions and calendar times of the scheduler's runs |
| `MCClusterRun`, `MCAnalysisRun`, `MCProviderMigration`, `MCRestoreRuns` | the instances of the parents, the migration and the restore |
| `TaskRowsProofs` | what every statement does to the type and to the life of each row, and what it leaves alone |
| `TaskQueueProofs` | type correctness, the safety theorems and the refinement |
| `ControlPlaneProofs` | type correctness, three theorems of the control plane, and its refinement of `JobLife` |
| `CronRunsProofs` | type correctness and three theorems of the scheduler; that the matcher matches what an expression means |
| `ClusterRunProofs`, `AnalysisRunProofs` | type correctness and the safety theorems of the two parents |
| `ProviderMigrationProofs` | type correctness and four theorems of the migration |
| `RestoreRunsProofs` | type correctness and three theorems of the restore |

`ControlPlane` is a module beside `TaskQueue`, not on top of it: the two share
the statements `_RUNNING_TASKS`, `requeue_uncharged` and `requeue_or_fail`, and
what a control action can see of a worker is only whether it runs, whether its
session is left and who holds the advisory lock. Composing the two state spaces
would multiply the races of one by those of the other without adding one, as
every interaction goes through those three.

`CronRuns` and `ProviderMigration` are built on `TaskRows`: they use the same
statements on the table as the queue, and a worker is in them only what it does to
the rows they care about. `ClusterRun` and `AnalysisRun` are built on `ChildDrain`,
where a child is its status, its restarts and whether its row shows a sign of life:
all a parent can see of it. A publication in `ProviderMigration` counts and asks the
workers whose listener is connected, and is granted when as many have carried the
restart out as it counted: the answer of `VerdictIsReal`. `RestoreRuns` stands alone:
it sees of the other modules whether Flask and the workers of each container run, and
of the control plane whether a publication was granted, which is one step there. A
granted one was carried out by the containers whose listener was connected, and by
no others; a refused one by any part of them; one that nobody can hear is not sent.
What a publication that timed out may still do later is left to `ControlPlane`.

### How the state corresponds to the code

`rows` is the table: `st` is `status` (`FREE`, an id nobody used yet, and `GONE`, a
deleted row, are both absence), `queued` is whether the row was written by the
enqueue statement, `owner` is `worker_id`, `att` is `attempts`. `lock` is the
advisory lock of each task; `phase` is where `run_forever` is; `job` is what the
claim returned, with the outcome once the job has ended; `conn` and `lis` are the
worker's two sessions as the server sees them; `inbox` holds notices not yet
handled; `owed`, `left` and `free` are `_unwritten`, `_abandoned` and `_uncharged`;
`cand` holds the orphans a maintenance pass has read but not yet acted on. `late`,
`lost` and `unpaid` are history: no action reads them.

An action is one database transaction, or one callback under the worker's claim
lock, together with everything the process does before it lets go. So `finalize`
and the collapse that follows are two actions (two transactions), `claim` is one,
and the maintenance pass is a scan followed by one action per candidate.

### The control plane

| variable | code |
|---|---|
| `pub`, `expected`, `verdict` | where `publish_control_request` is for each request id, the count of listeners it took, what it returned |
| `published` | how often it was called in all; only the bound reads it |
| `root`, `ack` | the request row's `status` and the acknowledgement rows |
| `fresh` | the requests whose row is younger than `QUEUE_CONTROL_ACTION_WINDOW_SECONDS` |
| `linked`, `inbox` | LISTEN sessions and the notifications they hold |
| `lst` | where the listener's callback is: looked up, stopped, scanning, requeueing, starting, acknowledging |
| `up`, `job`, `lingering` | the container's worker, its task, sessions the server has not ended yet |
| `row`, `charged`, `probe` | status and attempts of a task, and who holds its advisory lock to requeue it |
| `rec` | the reclaim pass; `rec.seen` is history: windows open when it began |
| `stopped`, `acted` | history, for the properties only |

The clock is only this: the window of a request may close at any moment, and the
acknowledgement budget may be spent at any moment. The workers of a container are
one worker. A claim and the end of a job are one step each. A stop kills the
worker and, unless the session lingers, its session too. Disturbances are of six
kinds (`FaultKinds`): a process that dies (`crash`), a supervisor call or plug-in
sync that fails (`fail`), a database connection that cannot be had or breaks
(`noconn`), a listener that drops or dies (`drop`), a look-up that fails (`blind`),
a dead worker's session that outlives it (`linger`). A requeue that is lost on the way
may keep the lock it had taken: that of a restart closes its connection, that of a
stop runs on the connection of the acknowledgement, and lets go with it.

### The scheduler

| variable | code |
|---|---|
| `now` | the wall-clock minute; a cron thread reads it when its pass begins (`at` of its thread) |
| `expr`, `enabled`, `last` | `cron_expr`, `enabled` and `last_run` of every row of `cron` |
| `retry` | `cron_retry`: until which minute a blocked run is tried again, and since when it is |
| `rows`, `began` | `task_status` and its `start_time` |
| `lock` | the session that holds the main-task start lock |
| `thr` | the cron thread of each process: the place it is at, the rows it read (`seen`), what is still to fire (`todo`), the online run it executes itself |
| `edits`, `faults` | bounds only |
| `fires`, `succeeded` | history: claims per minute, the latest start of a run that succeeded |

Task ids are uuids, so the id of a row that is gone and that no thread holds stands
for a new one. Disturbances: a web process dies (`crash`), its session drops
(`drop`), the dispatch raises (`error`), the verdict of an inline run cannot be
written (`unwritten`), a user cancels (`cancel`).

### The parents

| variable | code |
|---|---|
| `child` | status, restarts charged and score of every child's row, with the signs of life it may still give |
| `parent`, `tries` | status of the parent's row, restarts it was charged |
| `saved` (clustering) | the counters `_main_task_accumulated_details` writes to the parent's row |
| `state` (clustering) | the same dictionary in the attempt's memory |
| `scope` (analysis) | how many media servers the run has |
| `pc`, `loop` | where the attempt is, and the rest of its memory (`give_ups`, `active_jobs`, the work map, the signature, the victims still to be ended) |
| `stir` | whether anything `child_marks` shows has changed since the parent read it |
| `won`, `lost`, `top`, `far` (clustering) | history: batches counted, best score, the latest server named |
| `fate`, `blind` (analysis) | history: how each job ended, and whether it left its album complete; a phase that could not list the jobs of the one before |

A restart starts the attempt over from what is on the row, or for an analysis from
what is in the table. The stall timeout is this: a parent may give up when nothing
moved since it last looked. Disturbances of both: an attempt dies (`crash`),
a listing fails (`unlisted`), `end_child` fails (`unended`), the attempt raises
(`raise`), a cancel (`cancel`); of clustering also a progress write that is refused
(`unwritten`); of analysis also an album whose tracks cannot be read (`bare`) or
whose state cannot be looked up (`unchecked`), a job that succeeds though tracks of
its album are out of reach (`absent`), a server that lists no album (`empty`), and a
server that refuses the login (`refused`). An album that succeeded without being
complete is analysed by the next run again: `NeverRedone` is about complete ones,
`NothingForgotten` is content with either.

### The migration

| variable | code |
|---|---|
| `sess` | the `migration_session` row: status, whether it has a plan, the execution's claim, the acknowledgement, the id of the restart request, the recovery task |
| `planner`, `web`, `tab` | planner jobs at work; where the execute endpoint is; where the start or discard of a wizard's tab is |
| `rows` | `task_status` for the execution's root, its recoveries and another main task |
| `job`, `cut` | what each worker runs and where that is; workers whose queue connection is lost |
| `mlock` | the migration's session advisory lock |
| `ctl` | each restart request: whom it asked, who carried it out, who refused, what it answers |
| `linked` | workers whose container's control listener is connected; `want` of a job is the count its publication took |
| `pass` | the candidate that the maintenance pass has read |
| `stale`, `counted`, `swaps`, `late` | history: workers not restarted since the swap, the least count of a publication granted since, swaps committed, a lost attempt's report moved the root's row |

The root is executed once in a behaviour, by as many attempts as its restarts
allow. Disturbances: a cancel of the root (`cancel`), a worker or web process that
dies (`crash`), a lost queue connection (`cut`), a listener whose connection breaks,
with or without the notices it has not taken up (`drop`), an enqueue that fails
(`enqueue`), a requeue that cannot be had before a restart (`noconn`), the start of
another main task (`other`), a worker that refuses a restart (`refuse`), a handshake
whose wait times out (`timeout`), which includes one that finds no listener for all
its time.

### The restore

| variable | code |
|---|---|
| `lock` | `.restore.lock`: absent, created and not stamped yet, fresh, or older than its TTL; `by` is who wrote it, which the file does not say |
| `files` | the chunks directory: whose each piece is |
| `req` | per upload where its request, and later its runner, is; the next piece; the uploads its dump came from; `ok`, `flask_started`, `workers_started` of the runner |
| `flask`, `up` | whether the web process runs; the containers whose workers do |
| `linked` | the containers whose control listener is connected |
| `db` | what the database was last restored from, and whether all of it was fed |
| `verdict` | the `RESTORE-RESULT` marker |
| `stranded` | history: whoever had to start the services died, or was refused |
| `unheard` | history: the containers the last granted publication did not ask |
| `crowded` | history: uploads that lost the protection of the lock, and those that were under way beside them since |

A step is one operation on the files, one call of the control plane or one command
of the runner; a piece that is saved and the directory read after it are one, and so
are a marker and the release of the lock next to it. What the code does with the lock
file is done whosever it is: clearing a lock that looked too old, releasing one, going
on under one. These are steps like any other. `crowded` notes when one of them takes a
good lock from an upload under way, or lets one go on under the lock of another. The
clock is only this: a fresh lock may get old while nobody refreshes it. Disturbances:
a lock file that cannot be read, and so counts as held (`unreadable`), a piece that
cannot be saved (`save`) or a dump that cannot be joined (`join`), a stop that is not
acknowledged (`stop`) or a start (`start`), a runner that cannot be spawned
(`spawn`), a supervisor that does not answer (`flask`), a psql that fails, is killed,
or is fed only a part (`psql`), a listener whose connection breaks (`drop`), a
heartbeat that stops after one failed refresh (`beat`), a web process that dies
(`web`), a runner that is killed (`crash`). Run and theorems admit them all.

### What is abstracted

* Delays: `next_run_at`, the backoff, grace periods and silence limits are any
  delay. Priority order is any order.
* Restart of a process: its identity (host, pid) is new, so rows that still name
  the old one are renamed to `Ghost`, which is nobody.
* A claim that would block on an advisory lock is not enabled until it is free.
* `try_hold` .. `release` around a reclaim is one step.
* A session a client abandons (a connection it closes, or that died under it) ends
  on the server in the same step; only the sessions of a dead process linger.
* A reclaim notice is put only in the inbox of the worker it names; the others
  compare the name and ignore it.
* A postponed requeue may lose its commit like the first one did (`RetryCommitLost`).
  The postponed `finalize` writes the verdict and collapses in one step, and the
  variant in which the commit succeeded but its answer was lost is not modelled.
* A running job is its possible outcomes: a result, a permanent failure, a
  retryable failure, a cancel it noticed, a lost database. Whether it ran in a
  forked child is not distinguished.
* The nudge applies to every queued root (the code excludes one planner type).
* Rows a migration protects from a cancel are in `ProviderMigration` only, rows
  staged before they are queued there and in `CronRuns`. Shared payloads are in no
  module.
* A parent's attempt that was superseded does not go on beside the next one: what
  two workers of one row may do is the subject of `TaskQueue`.
* The start lock is not in the parents: the check of the parent's row and the
  write it fences are one step.
* In `AnalysisRun` a restart asked for by the control plane is a crash; the code
  charges it nothing.
* The search, the models and the plan of a migration are a score, a result or a flag.

## Runs

`MaxFaults` bounds the disturbances of one behaviour, `Faults` names their kinds.
Deadlock is not checked in any run: when every task is decided and the disturbances
are spent, the system has nothing left to do.

| run | instance | shows |
|---|---|---|
| `solo` | queue: 1 root, 2 workers of its queue, 2 restarts, 1 free pass, 2 disturbances, fair | who may run the row, who answers for it, what an attempt costs, and the life of the job, over every race on one row; every submitted task is decided |
| `family` | queue: two roots and a child, a worker per queue, 1 disturbance | verdicts stay, and wipes and collapses leave the results a live parent still has to read |
| `lost_write` | queue: as `solo`, 2 disturbances | violated: a failed commit of a retry is forgotten |
| `control` | a restore's stop and start and a plug-in sync, 2 containers, 1 task, any 2 publications, 1 crash or lost connection | workers keep their rows, late passes stand down, one publisher does not end the protection of another, and each task lives as `JobLife` promises |
| `control_live` | 1 restart, 1 publication, no restarts left, 2 of crash, drop, fail, linger, noconn, fair | the verdict is real, rows are kept and given back, workers come back |
| `cron` | 2 web processes, 1 schedule, 3 minutes, a page that starts another batch type, 2 of crash and drop | a minute fires once, one batch is live |
| `cron_solo` | 1 process, a batch schedule and an online one, 2 minutes, 1 edit, a window of 1 minute, 1 disturbance of any kind, fair | what fires is due and enabled, a blocked run is decided, the matcher agrees over the expressions of the module |
| `clustering` | 2 servers of 2 batches, 2 live at once, 1 restart of the run and of each batch, 1 give-up, 1 disturbance of any kind, fair | batches launched and counted once, drained before the tail, cancels stick, the run ends |
| `analysis` | 1 or 2 servers, 2 albums, 1 queued at once, 1 restart, 1 give-up, 1 rebuild, 1 disturbance of any kind, fair | one job per album, wipes, tallies, nothing forgotten or redone, the run ends |
| `restore` | 2 uploads of 2 pieces and one in one piece, 2 containers, 1 disturbance of any kind, fair | a restore that keeps the lock is alone, on a quiet database, and of one whole upload; the services come back after any |
| `restore_race` | as `restore`, without any disturbance | violated: two restores at work at once |
| `migration` | 2 workers, 3 recoveries, 3 request ids, 1 restart of a task, 2 disturbances of any kind, or one refusal alone, fair | one swap, its record kept, an acknowledgement as real as its count, and that comes |

Why the bounds are enough: two workers are needed for a row to change hands, and a
third adds no role. Two restarts allow a row to be reclaimed, retried and
then fail; one free pass allows both the free and the charged way back. Two
disturbances let a worker lose both its connections, or a connection and a write, and
a postponed write be lost in its turn; the safety properties were also checked with
three. Every action fires in the passing runs. One child
and one other root are what a wipe needs to pick the wrong row.

For the control plane two containers are needed for one to refuse or finish while
the other still stops, one task for a row that both of them, and reclaim, find
orphaned, and two publications for an acknowledgement to be older than the
publication that counts it. Containers are symmetric, and `SYMMETRY` is used in the
run without liveness properties. Each run enables the kinds of disturbance its
question is about; `blind` is enabled in none, and only the theorems below cover it.

For the scheduler two processes are needed for a minute to be contested and for one
to hold the start lock while the other waits, three minutes for a process to be a
minute behind when it claims, and a second schedule only for the order within a
tick and for the inline run. The calendar of the instances runs over midnight, where
all fields change at once.

For clustering two servers are needed for a row to name a server that is done, two
batches for one to be live while the other ends; for an analysis two albums on one
server, or one on each of two, with room for one, so that the walk has to hold. One
restart gives every pair of attempts; a second one repeats it. For the migration a
handshake that fails needs a second request id, and a refused one a third; each
lost attempt may need a recovery. A refusal multiplies the ids a later step may
answer to, so it is combined with no other disturbance (`Alone`).

For a restore two uploads in pieces are needed for one to wipe, or mix with, what
the other left, and the upload in one piece for the way that takes the lock and
goes on at once; all three together let one upload clear, join or release the lock of
another while the third takes it. Two pieces give a first and a last. Two containers
are needed for one to be asked while the other is not. One disturbance goes with every
interleaving of the lock's own steps, which need none; the theorems cover any number.

`TypeOK` is checked on the queue; on the others it is proved and was checked before
that, and takes no place among the properties of their runs.

`LateReadersStandDown` is about passes that begin after the publication. A pass
under way charges what it finds stopped, since the marker and the candidates are
two statements and each charge is a transaction of its own. It is checked with
listeners that stay connected, sessions that end with their worker and no failed
look-ups: a listener that was not counted because it was reconnecting, or that
runs an action again after its acknowledgement was granted, works under a marker
already turned to SUCCESS, and a row whose session lingers is invisible to the
requeue and left to reclaim. These are limits of the protocol that nothing in the
code promises to cover; `control_live` checks what does hold there. A stop that
reports a failure is requeued by nobody, and its rows are left to reclaim once the
window has closed. So the instance's `Faults` leave out `drop`, `linger`, `blind`
and `fail`, as does the theorem's hypothesis `Steady`. `Forgotten` is one more limit,
which takes a third publication to meet: a request is published, given up, published
again and granted from the first acknowledgements, the publication of another request
then clears its row and its acknowledgements, and the second notification, still
unheard, is taken for a new one. The workers are stopped once more with no marker at
all, and a pass that saw the request's window open may charge their tasks.

`SwapNotCancelled` is about steps, because as a statement about states it would be
false: an attempt that comes late may publish the request of a restart that has been
acknowledged since, be refused, and save a new id with `acknowledged=False`
(`provider_migration_tasks.py` 378-394), so that the restart is owed anew when the
row of the swap has been cancelled already. That takes three disturbances, one more
than the run has. The property names that step and excludes it; no other one finds
or leaves an owed swap without its row. The recovery, which looks at the session, then
opens the row again.

`EventuallyAcknowledged` excuses
the behaviours of `late`: the report of a lost attempt inserts a row the sweep
spares, and the recovery waits for it.

### Disagreements

The two violated runs are disagreements between the code and its own comments,
quoted in `PROJECT.json`. `late` and `lost` in `TaskQueue` mark the rows such
behaviours touched, and the invariants that would only repeat them exclude those
rows and say so. More follow from the same transitions and have no run of their own.

Of the queue and the control plane:

* A late report leaves a RUNNING row under a live worker that is idle, which
  reclaim does not take up (`maintenance.py:11` and `sql.py:560`), or makes one bad
  attempt cost two charges: it moves a requeued row back to RUNNING, and the next
  reclaim, or the superseded attempt's own retry, charges it again. `config.py:723`
  counts attempts that ended badly. `OneChargePerClaim` excuses these rows.
* A second global cancel deletes the recap of the first (`app_helper.py:617`), which
  is what stops a late save.
* A marker that was refused is deleted by the next publisher inside its own window
  (`control.py:91`; `control.py:16` and `config.py:834` have it stand), and a retry
  of a publication may be refused by the acknowledgement of the first try
  (`control.py:210`).
* `_INSERT_REQUEST` (`control.py:72`) refreshes the timestamp when an id is
  published again, as a provider migration does until it is acknowledged: reclaim is
  then suspended for another window each time. `config.py:841` says the timestamp is
  written once. In the model `Publish` puts the id back into `fresh`.
* The uncharged requeue passes over a row whose lock another container's listener,
  or an earlier reclaim pass, holds (`HoldStopped` when `Locked`). This container
  then starts its workers while the row its own worker ran is still RUNNING, though
  `control.py:23` has requeued rows claimable before the fresh workers start. The
  row is requeued a moment later; only its place in the order is lost.

Of the scheduler:

* The save endpoint accepts an expression no minute matches, such as `0 0 31 2 *`
  (`app_cron.py:433`; line 15 says it refuses what can never fire), and refuses the
  weekday 7 that the matcher understands.
* A dispatch that raises leaves the start lock held until the session ends, and a
  SUCCESS that a wipe removed makes a retry run a task again; `docs/ALGORITHM.md`
  (about 2290 to 2311) says otherwise of both.
* The boot of a web process fails the inline run of another process that is alive
  (`app.py:1472`), and a cancelled inline run is inserted again by its late report.
* A retry may start after its window, when the pass that finds it was long
  (`app_cron.py:985`). Two saves without an id may insert two rows of one type.

Of the parents:

* An attempt that dies while it calibrates the second server starts again with the
  first (`clustering.py:1413`; lines 41 to 43 say a restart resumes).
* A commit that landed while its answer was lost, and two lost progress writes in a
  row, lose batches: the theorems about counters assume that writes are not refused.
  A last absorb that fails is not retried, though the log says so. A crash between
  the last report and the verdict fails a run whose playlists were written. What a
  run did per server is lost with a restart. A stall timeout of 0 disables giving up.
* In an analysis a lost answer to the commit of a reap leaves its ids in
  `active_jobs`, and the drain does not end (`main.py:444`); songs reaped by an
  attempt that crashed are missing from the total; a job that ends between the carry
  and the listing is counted as failed though it was not launched; the enqueue of an
  album does not check the parent (`main.py:608`); the wipe at the end is
  unconditional, so after a failed listing (`blind`) it may wipe under a live album.

* A run of one album with one bad track fails although it analysed the other songs:
  an album with a failed track counts as failed (`helper.py:449`) and as many failed
  as were launched (`main.py:228`); `main.py:14` says a run fails only if it crashed
  or analysed not one song, and so does its error (`error_dictionary.py:256`).

Of the restore:

* Two restores may run at once, and nothing has to fail for it. The lock is created
  and then stamped, and a file without a timestamp reads as expired
  (`app_backup.py:132`); two that find the same lock expired both clear it, and the
  second may clear what the first has created (148-150). Line 80 says only one
  restore may run at a time (`restore_race`).
* A later piece asks whether a lock is held, not by whom (`app_backup.py:1000`): a
  client that goes on after its lock expired and another upload took it saves into
  the other's pieces, which may become part of its dump, and a failure of either
  releases the lock of both. The comment at line 988 says that the check protects
  against a different session taking over. A lock that cannot be read counts as held
  here, whatever its age.
* The heartbeat ends at the first refresh that fails (`app_backup.py:188`), and the
  lock of a long restore then expires under it; line 91 says that only a runner that
  died stops refreshing. A heartbeat whose lock was cleared by another ends likewise.
* A container whose listener is reconnecting is neither counted nor asked
  (`control.py:115`, 134): its workers go on while psql replaces the database, though
  "the workers must be provably down" (`app_backup.py:36` and 1136), and after a start
  it did not hear they stay down. `QuietReplay` and `ServicesReturn` say so.
* A piece that cannot be saved leaves the lock for the hour (`app_backup.py:1026`).
  A web process that dies between the stop of the workers and the spawn, or a runner
  that is killed, leaves the services down: `stranded` excuses them.

Of the migration:

* A worker whose listener is reconnecting is not counted either, and stays on the old
  provider under an acknowledged swap; `provider_migration_tasks.py:32` speaks of
  every worker. `AckIsReal` therefore speaks of as many as were counted.
* `provider_migration_tasks.py:32` has the root stay non-terminal until every
  worker acknowledged, and line 43 has a wait that times out raise; the code catches
  it and returns (525-541, 575-588), and the queue writes SUCCESS. The recovery job
  is what keeps the promise.
* An edit of the plan clears its counts "so the user must re-finalize"
  (`app_provider_migration.py:2926`), but the status stays ready to execute.
* Start and discard read the live row before they have the lock, and the claim of an
  execution is patched onto its session after the row's commit: a session whose
  execution was just admitted can be deleted. The job then fails harmlessly. Two
  tabs that edit a plan lose each other's edits.
* A cancel between the acknowledgement and the verdict marks an applied migration
  REVOKED. A cancelled planner's late write may replace a plan.
* A root failed by reclaim and reopened keeps its func and its worker id, so reclaim
  may run it beside its recovery; a refused id that is published again stays FAIL and
  is not protected.

### Fairness

`FairSpec` of the queue assumes that each worker's own steps, its claims, the end of its jobs
and what follows, its listener, the supervisor that restarts it and the server
that reaps dead sessions go on, and that the maintenance pass runs: all of these
are loops or are driven by timeouts in the code. Jobs end because the nudge and
its escalation end those that do not; the model assumes the end and keeps the
nudge as a disturbance. Nothing is assumed of users, reports, failures or nudges,
and only weak fairness is used.

`LiveSpec` of the control plane assumes that a publication that was begun goes on
(its loop polls and has a deadline), that the listener handles what it was sent,
that windows close, that the server ends dead sessions and that maintenance keeps
passing. Nothing makes anybody publish, or publish again.

`FairSpec` of the scheduler assumes that a cron thread goes on (its loop catches
everything), that minutes pass, and strongly that it begins the retries of a pass:
the pass of a new minute may always come first. Nothing is assumed of users or of
the workers that run what it starts.

The parents assume that an attempt goes on, and strongly that it gives up when it
could again and again: the code measures silence with a clock, which every sign of
life resets, and a batch has only so many of those. Analysis also assumes its
monitor strongly, since the walk calls it between albums. Nothing is assumed of the
children, which may stay silent for ever.

`LiveSpec` of the migration assumes the steps of a job that is running, listeners,
claims, reclaim, the maintenance pass that reserves and enqueues a recovery, the
enqueue of an admitted execution and the end of another main task; strongly that a
refused id is rotated, which a later attempt may also do. Nothing is assumed of
users, of deadlines, or of giving up a handshake.

`FairSpec` of the restore assumes that a request that is being handled, and a
runner, go on: neither waits without a timeout. Nothing is assumed of clients, who
may never send the next piece, or of clocks.

## Proofs

`TaskQueueProofs` proves, for any tasks and family relation, any workers and
queues, any budgets and any number of disturbances (the assumptions are
`TaskRowsAssumption` and `TaskQueueAssumption`, which every run evaluates):

| theorem | states | argument |
|---|---|---|
| `TypeCorrect` | `[]TypeOK` | inductive; `WorkerLoopOK` is part of it because a report of a running job relies on its row having been enqueued once |
| `BudgetKept` | `[]WithinBudget` | inductive with `TypeOK`; no run repeats it |
| `VerdictsFinal` | `VerdictIsFinal` | from `TypeOK` |
| `ChargedOncePerClaim` | `OneChargePerClaim` | needs: a RUNNING row was claimed since its last charge, or moved by a late report |
| `NothingStranded` | `[]NoStrandedRow` | inductive with `TypeOK`: a row begins to run only by the claim of the worker that then holds it (`RunningBefore`), and a worker gives up what it holds only by ending or by settling the row (`StepsHands`, with the ghost `lost` for those that ended) |
| `ReclaimSparesTheRightful` | `[]ReclaimStopsOnlyLosers` | inductive as `ReclaimsAreStale`: the attempt a reclaim's notice names is charged already, or its row is live no more; attempts only go up |
| `NoRogues` | `[]NoRogueWorker` | inductive as `OwnAttempt`: who runs a job holds the attempt the row counts, or a notice that reaches it, or is itself off the air; every statement that takes a row from a worker tells somebody (`TakenWithNotice`), and a notice is not lost while the listener hears (`StepsHeard`) |
| `ChildVerdictsKept` | `ChildVerdictKept` | each statement spares a decided child whose parent is live (`SparesChildren` in `TaskRowsProofs`), hence each action does (`StepsSpare`) |

They rest on what each statement does to a row, proved once per statement without
any process in sight (`TaskRowsProofs`), and on lemmas that each action uses only
those statements, proved once per action: `StepsAccounted`, that every step of the
queue moves every row along one of eight lawful moves (`Quiet` and `Started`);
`StepsRunning`, how a row begins or ceases to run; `StepsHeard` and `StepsHands`,
what happens to notices and to what the workers hold. What a move does to types,
budgets, verdicts and lives is then a matter of a few cases.

`ControlPlaneProofs` proves, for any containers, tasks, requests and disturbances
(under `ControlAssumption`):

| theorem | states | argument |
|---|---|---|
| `ControlTypeCorrect` | `[]TypeOK` | inductive with `Affordable`: a task that may still run has restarts left, without which a charge could leave its range |
| `RowKept` | `[]WorkerKeepsRow` | inductive as `Keeping`: a task with a worker is RUNNING, nobody probes its lock, and no other worker has it |
| `LateReaders` | `LateReadersStandDown` | assumes `Steady`, that of the disturbances only `crash` and `noconn` happen; inductive as `Standing`, described below |
| `ControlKeepsPromise` | `KeepsPromise` | step by step with `Keeping` and `Typed`: a listener moves only a row whose lock it holds, from RUNNING to NEW; a charge is within the budget because the pass compares before it charges (`PassMoves`); what nobody moves stays (`BystandersMoveNothing`) |
| `VerdictsReal` | `[]VerdictIsReal` | inductive as `Real`: every SUCCESS acknowledgement, and every one about to be written, is of a listener that carried the request out (`AckReal`); a publication under way counted somebody and was not granted before (`Counting`); so a grant counts only deeds, and deeds are never undone |

`LateReaders` follows one request from its publication to the last charge. A
publication counts every listener (`CountsAll`), so a grant means that all have
acknowledged, for as long as the row is there (`Settled`), and a listener that is
still at work has not (`Unserved`). The row of a stopped worker is therefore held by
somebody or still to be looked at by a listener that has not acknowledged
(`Entrusted`, with `Running`: a task with a worker has no stop on record). A pass that
begins inside the window of a stop finds it granted, or stands down; granted means
acknowledged, so every row it stopped is held, and by a listener, since no pass is
under way; and nobody stops workers for it again (`Aware`). What the pass then holds
itself is not such a row. A lock that a lost requeue left behind is of a row that no
longer counts as stopped (`Spent`). Why the property is not about fewer steps shows in
`Settled`: a verdict, a row and the acknowledgements are cleared by different
publications, and `Forgotten` is what is left where they part.

`CronRunsProofs` proves, for any processes, schedules, expressions, calendar and
disturbances (under `CronAssumption` and `TaskRowsAssumption`):

| theorem | states | argument |
|---|---|---|
| `CronTypeOK` | `[]TypeOK` | inductive, with what a thread's place says of the run it holds |
| `CronFiresOnce` | `[]OneFirePerMinute` | inductive with `FiredMinutesArePast`: a fired minute is not after `last_run`, which no edit and no disturbance moves back, and a claim needs a later one |
| `CronOneBatch` | `[]OneLiveBatch` | inductive with `GateIsLocked`: between the gate and the insert the session holds the start lock and nothing is live |
| `CronFiresWhatIsDue` | `StaleScheduleNeverFires` | with `TodoIsDue`: what a tick still has to fire matched as it was read, and the claim compares what it read with the row |
| `PartsMean` | `Matched(part, f) = Means(part, f)` | for every part of a field: the interval it stands for begins where its step is counted from, and the values the matcher's test on remainders picks out of it are those that whole steps reach (`WholeSteps`, `Reached`) |
| `DaysMean` | `DayMatches` is `Named` | Sunday is tried as 0 and as 7, and as no other number |
| `ExpressionsMean` | `CronMatches` over `Meant` | from `PartsMean` and `DaysMean`, for every well-formed expression and every time |
| `MatcherRight` | `[]MatcherAgrees` | the parts and days of the runs are among those |

The claim about parts leaves out numbers and ranges that begin below the first value
of a field (a 0 for the day of the month): what such a part should mean is not for the
model to say. Text that is no part at all matches nothing, and is `Word`.

`ClusterRunProofs` proves, for any numbers of servers, batches, restarts and
disturbances (under `ClusterAssumption` and `DrainAssumption`):

| theorem | states | argument |
|---|---|---|
| `ClusterTypeOK` | `[]TypeOK` | inductive |
| `ClusterDrained` | `[]DrainedBeforeTail` | inductive with `Listed`: a live batch of the server is on the list the attempt holds, though the list was read earlier |
| `ClusterCancelSticks` | `[]CancelSticks` | a launch is fenced by the parent's row |
| `ClusterLosesNothing`, `ClusterCountsRight` | `[]EveryBatchOnce`, `[]TallyIsExact` | inductive as `Books`, which relates memory, row, counters and table at every place of the attempt; assume `"unwritten" \notin Faults` |

`AnalysisRunProofs` proves, under `AnalysisAssumption` and `DrainAssumption`:

| theorem | states | argument |
|---|---|---|
| `AnalysisTypeOK` | `[]TypeOK` | inductive with the places at which the monitor is called |
| `AnalysisOneJob`, `AnalysisWipes` | `[]OneJobPerAlbum`, `[]WipesNothingLive` | inductive as `Ordered`: a live job is one the attempt tracks or has still to adopt, every album has one at most, and an album that is still to be walked has none |
| `AnalysisCountsRight` | `[]TallyIsExact` | inductive as `Accounted`, with `Ordered`: what was taken off the table is decided and gone, once (`Taken`), and the counters are those of what was taken (`Counted`); jobs whose turn has not come have never been (`Turns`) |
| `AnalysisForgetsNothing` | `[]NothingForgotten` | with `Named` and `Spent`: an album that is left without a job and without an analysis is counted among the skipped; a phase that drains has nothing to walk |
| `AnalysisRedoesNothing` | `NeverRedone` | with `Excused` and `Noticed`: an album still to be walked whose analysis is complete is known to be, or has a job that was adopted, so the walk passes it by |

`ProviderMigrationProofs` proves, for any workers, recoveries, request ids and
disturbances (under `MigrationAssumption` and `TaskRowsAssumption`):

| theorem | states | argument |
|---|---|---|
| `MigrationTypeOK` | `[]TypeOK` | inductive with `Coherent`: a job that publishes or waits has an id to do it with |
| `OneSwap`, `AcknowledgedMeansRestarted` | `[]SwappedOnce`, `[]AckIsReal` | inductive as `Lawful`: the attempt about to commit holds the lock of a session that is not applied (`Once`); nobody who answered a request of this swap is on the old provider (`Fresh`), so a grant leaves as many off it as it counted (`Enough`) |
| `OwedRestartIsKept` | `SwapIsKept` | step by step from `MigrationTypeOK`: what deletes or demotes the session needs it mutable or acknowledged |
| `CancelSparesSwap` | `SwapNotCancelled` | with `Lawful`: the global cancel keeps the rows a completed session protects, and no other statement or verdict writes REVOKED (`StatementsSpare`, `DecidedSpares`, and an action at a time `WizardSpares`, `RestSpares`, `WorkerSpares`); only a swap completes a session (`CompletedBySwap`), and its own row runs when it does (`SwapRuns`) |

`RestoreRunsProofs` proves, for any uploads, numbers of pieces and disturbances
(under `RestoreAssumption`):

| theorem | states | argument |
|---|---|---|
| `RestoreTypeOK` | `[]TypeOK` | inductive with `Shapes`; a dump comes from somebody because an upload that is joined has pieces |
| `OneAtATime` | `[]OneRestore` | inductive as `IInv`: while nobody under way is crowded (`Apart`), the lock file is fresh and the own one of whoever relies on it, so nobody else does (`Held`); otherwise everybody under way is crowded (`Spread`), for whoever comes later is counted with them |
| `ReplaysInQuiet` | `[]QuietReplay` | with `Quiet`: while `Apart`, who could start the services again relies on the lock too, and cannot be there |
| `SuccessIsWhole` | `CompletedIsWhole` | with `OwnPieces` (between its first and last piece an upload that still has its lock finds no other's pieces), `OwnDump` and `Landed`, likewise while `Apart` |

None of the three excludes a disturbance. They speak of uploads that are not
`crowded`, or of two that are; what happens to those that are is what `restore_race`
shows, and the list of disagreements above.

Every safety and action property of the passing runs is proved. Model-checked only is
liveness, which is out of the prover's reach: `EventuallyDecided`, `NoRowLeftBehind`,
`WorkersComeBack`, `RetryDecided`, `RunEnds`, `EventuallyAcknowledged` and
`ServicesReturn`. The theorems with a hypothesis of their own (`LateReaders`,
`ClusterLosesNothing`, `ClusterCountsRight`) name the disturbances they exclude. The
runs leave out the same, but for `clustering`, which tries a refused write with no
second disturbance.
The refinement map and the model's faithfulness to the source are reviewed, not proved.

## Plan

1. (done) the task table and the queue, `JobLife`, the first theorems.
2. (done) `ControlPlane`: publish, acknowledge, time out; stop, requeue and start;
   the uncharged requeue against reclaim's stand-down; its first theorems.
3. (done) `CronExpr`, `CronRuns`: the minute claim of a schedule, blocked starts and
   their retry, inline runs, admission of batches.
4. (done) `ChildDrain`, `ClusterRun`, `AnalysisRun`: windows of children, reaps,
   give-ups, restarts of the parent.
5. (done) `ProviderMigration`: session, execution, restart handshake, recovery, with
   the rows it protects from cancels and sweeps.
6. (done) `RestoreRuns`: the lock, the uploads, the runner, and its theorems.
7. (done) Proofs: `LateReadersStandDown` in the steady case, the books of an analysis,
   cancels and swaps, the meaning of expressions, `JobLife` under the control plane.
8. Modelling: superseded attempts of the parents; the edits of a migration's plan, a
   second session and the alignment task; shared payloads of children; the creation
   of backups.

## Not modelled

Audio analysis, models, indexes, search, clustering as mathematics, media-server
adapters, plugin installation, the AI assistant's prompts and most of the web pages:
they are numeric code or I/O against external services, and where they change the
task table they do so through the operations above. They are most of the tree, so
the modules cover the concurrent core and not the bulk of the lines.

Inside the modelled parts: schema migration at boot, the shared payload of children
and its clearing, the vacuum, the read-only snapshots for the dashboard, the forked
child and its pipe (a job's end with its possible outcomes), and messages of
progress. Of a restore the removal of the dump, the repair of the users table and a
connection string that cannot be used; the creation and download of backups. The
restart of the web process of its own accord is signalling around the control plane
and changes no row of its own.
