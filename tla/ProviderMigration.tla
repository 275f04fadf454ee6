--------------------------- MODULE ProviderMigration ---------------------------
(***************************************************************************)
(* The change of the media provider: the wizard's session                  *)
(* (app_provider_migration.py), the queued job that applies it and the     *)
(* handshake that restarts every worker afterwards                         *)
(* (tasks/provider_migration_tasks.py).                                    *)
(*                                                                         *)
(* The session row is the memory of a swap: once the swap has committed,   *)
(* "completed" and not acknowledged, somebody still owes the restart that  *)
(* moves the workers to the new provider.  That is the job itself, an      *)
(* attempt after it (the restart it asks for ends the job that asked), or a*)
(* recovery job that the maintenance pass queues as a child of the root.   *)
(*                                                                         *)
(* Granularity.  A step is one transaction, or one call of the control     *)
(* plane, whose protocol is in ControlPlane: here a publication asks the   *)
(* workers whose listener is connected, and an answer is what as many      *)
(* acknowledgements say.  The rows and the statements on them are those of *)
(* TaskRows; queued is here whether the row still has a func.              *)
(***************************************************************************)
EXTENDS TaskRows

CONSTANTS
  Root,        \* the task of the execution
  Recoveries,  \* tasks that may be queued to recover the handshake
  Other,       \* another main task, a catalogue start
  Requests,    \* ids of restart requests
  First,       \* the id made from the root's, the same in every attempt
  Faults,      \* kinds of disturbance that may happen
  Alone,       \* bound: kinds that happen only as the one disturbance
  MaxFaults    \* bound: disturbances a behaviour may contain

FaultKinds ==
  {"cancel", "crash", "cut", "drop", "enqueue", "noconn", "other", "refuse", "timeout"}

ASSUME MigrationAssumption ==
  /\ Tasks = {Root, Other} \cup Recoveries
  /\ Root # Other /\ Root \notin Recoveries /\ Other \notin Recoveries
  /\ Parent = [t \in Tasks |-> IF t \in Recoveries THEN Root ELSE None]
  /\ MainRoots = {Root, Other} /\ SideRoots = {}
  /\ First \in Requests /\ None \notin Requests
  /\ IsFiniteSet(Workers)
  /\ Faults \subseteq FaultKinds /\ Alone \subseteq FaultKinds
  /\ MaxFaults \in Nat

VARIABLES
  rows,     \* task_status
  sess,     \* the migration_session row
  planner,  \* planner jobs at work: the claimed one, one that was cancelled
  web,      \* where the execute endpoint is
  tab,      \* where the wizard's start or discard is
  job,      \* per worker: the task it runs and where that is
  cut,      \* workers whose queue connection is lost
  mlock,    \* who holds the migration advisory lock
  linked,   \* workers whose container's listener is connected
  ctl,      \* per restart request: its row and the acknowledgements
  pass,     \* the maintenance pass: the candidate it has read
  faults,   \* disturbances so far
  stale,    \* history: workers not restarted since the swap
  counted,  \* history: the fewest listeners a granted publication has counted
  swaps,    \* history: swaps committed
  late      \* history: a report of a lost attempt moved the root's row

wizard == <<planner, web, tab>>
work == <<job, cut, mlock>>
past == <<stale, counted>>
history == <<past, swaps, late>>
vars == <<rows, sess, planner, web, tab, job, cut, mlock, ctl, pass, faults,
          linked, stale, counted, swaps, late>>

Places == {"none", "begin", "lock", "swap", "report", "publish", "await", "asked",
           "resume", "final", "collapse", "ended"}
Session == [st : {"in_progress", "dry_run_ready", "completed", "gone"},
            plan : BOOLEAN, exec : BOOLEAN, ack : BOOLEAN,
            req : Requests \cup {None}, rec : Recoveries \cup {None}]
Request == [res : {"none", "open", "yes", "no"},
            asked : SUBSET Workers, ok : SUBSET Workers, bad : SUBSET Workers]

\* want: how many acknowledgements the publication waits for.
Running == [task : {Root, None} \cup Recoveries, pc : Places,
            req : Requests \cup {None}, want : 0..Cardinality(Workers),
            out : {"SUCCESS", "FAIL", "RETRY", None}]

At(t, pc, q) == [task |-> t, pc |-> pc, req |-> q, want |-> 0, out |-> None]
NoJob == At(None, "none", None)
Closed == [res |-> "none", asked |-> {}, ok |-> {}, bad |-> {}]
NoPass == [seen |-> FALSE, rec |-> None, req |-> None]

TypeOK ==
  /\ rows \in [Tasks -> Row]
  /\ sess \in Session
  /\ planner \subseteq {"live", "late"}
  /\ web \in {"idle", "admitted"}
  /\ tab \in {"idle", "looked"}
  /\ job \in [Workers -> Running]
  /\ cut \subseteq Workers
  /\ mlock \in Workers \cup {None}
  /\ linked \subseteq Workers
  /\ ctl \in [Requests -> Request]
  /\ pass \in [seen : BOOLEAN, rec : Recoveries \cup {None},
               req : Requests \cup {None}]
  /\ faults \in 0..MaxFaults
  /\ stale \subseteq Workers
  /\ counted \in 0..Cardinality(Workers)
  /\ swaps \in Nat
  /\ late \in BOOLEAN

Init ==
  /\ rows = [t \in Tasks |-> FreeRow]
  /\ sess = [st |-> "in_progress", plan |-> FALSE, exec |-> FALSE, ack |-> FALSE,
             req |-> None, rec |-> None]
  /\ planner = {} /\ web = "idle" /\ tab = "idle"
  /\ job = [w \in Workers |-> NoJob]
  /\ cut = {} /\ mlock = None /\ linked = Workers
  /\ ctl = [q \in Requests |-> Closed]
  /\ pass = NoPass
  /\ faults = 0
  /\ stale = {} /\ counted = Cardinality(Workers) /\ swaps = 0 /\ late = FALSE

Fault(kind) ==
  /\ kind \in Faults
  /\ faults < MaxFaults
  /\ kind \in Alone => faults = 0
  /\ faults' = IF kind \in Alone THEN MaxFaults ELSE faults + 1

\* A call that succeeds, or fails as a disturbance of this kind.
Works(good, kind) == IF good THEN UNCHANGED faults ELSE Fault(kind)

\* A swap that is committed and whose restart is still owed.
Pending == sess.st = "completed" /\ ~sess.ack

Mutable == sess.st \in {"in_progress", "dry_run_ready"}

\* The execute endpoint keeps the start lock from its admission to the enqueue.
StartLockFree == web = "idle"

LiveMain == \E t \in MainRoots : IsLive(rows, t)

\* Wherever finished rows are wiped, those of finished restart requests and
\* their acknowledgements go too.
Forgotten(c) ==
  [q \in Requests |->
     IF c[q].res = "open" THEN c[q] ELSE [Closed EXCEPT !.asked = c[q].asked]]

-------------------------------------------------------------------------------
(* The wizard *)

\* _claim_and_enqueue_planner: a dry run takes the plan back, a refresh of the
\* source's paths does not.
ClaimPlanner ==
  /\ StartLockFree /\ mlock = None
  /\ Mutable /\ ~IsLive(rows, Root)
  /\ "live" \notin planner
  /\ \E st \in {"in_progress", sess.st} : sess' = [sess EXCEPT !.st = st]
  /\ planner' = planner \cup {"live"}
  /\ rows' = Wipe(rows, {})
  /\ ctl' = Forgotten(ctl)
  /\ UNCHANGED <<web, tab, work, pass, faults, linked, history>>

\* run_dry_run_core stores the plan and clears its claim.  It does not ask again
\* whether the claim is still its own.
PlannerWrites(p) ==
  /\ p \in planner
  /\ planner' = planner \ {p}
  /\ sess' = IF Mutable THEN [sess EXCEPT !.st = "in_progress", !.plan = TRUE]
             ELSE sess
  /\ UNCHANGED <<rows, web, tab, work, ctl, pass, faults, linked, history>>

\* The planner finds nothing, fails, refreshes paths only, or hears its cancel.
PlannerEnds(p) ==
  /\ p \in planner
  /\ planner' = planner \ {p}
  /\ UNCHANGED <<rows, sess, web, tab, work, ctl, pass, faults, linked, history>>

\* Mutant of Finalize: whatever the status is now.
FinalizeAny ==
  /\ sess.st # "gone"
  /\ sess' = [sess EXCEPT !.st = "dry_run_ready"]
  /\ UNCHANGED <<rows, wizard, work, ctl, pass, faults, linked, history>>

\* finalize_dry_run.
Finalize ==
  /\ Mutable
  /\ sess' = [sess EXCEPT !.st = "dry_run_ready"]
  /\ UNCHANGED <<rows, wizard, work, ctl, pass, faults, linked, history>>

\* _execute_locked up to the row it commits, which ends the transaction that
\* held the migration lock.
Admit ==
  /\ StartLockFree /\ mlock = None
  /\ sess.st = "dry_run_ready" /\ "live" \notin planner
  /\ ~LiveMain /\ rows[Root].st = "FREE"
  /\ rows' = [rows EXCEPT ![Root].st = "NEW"]
  /\ web' = "admitted"
  /\ UNCHANGED <<sess, planner, tab, work, ctl, pass, faults, linked, history>>

\* The rest of it: the claim on the session and the enqueue, or their failure.
Enqueue ==
  /\ web = "admitted"
  /\ web' = "idle"
  /\ \/ /\ rows' = InsertJob(Wipe(rows, {}), Root)
        /\ ctl' = Forgotten(ctl)
        /\ sess' = IF Mutable THEN [sess EXCEPT !.exec = TRUE] ELSE sess
        /\ UNCHANGED faults
     \/ /\ Fault("enqueue")
        /\ rows' = [rows EXCEPT ![Root].st = "FAIL"]
        /\ UNCHANGED <<sess, ctl>>
     \/ /\ Fault("crash")
        /\ \E b \in {FALSE, Mutable} : sess' = [sess EXCEPT !.exec = b]
        /\ UNCHANGED <<rows, ctl>>
  /\ UNCHANGED <<planner, tab, work, pass, linked, history>>

\* _no_migration_executing reads the live row before it tries the lock.
Look ==
  /\ tab = "idle" /\ ~IsLive(rows, Root)
  /\ tab' = "looked"
  /\ UNCHANGED <<rows, sess, planner, web, work, ctl, pass, faults, linked, history>>

\* _completed_sessions_safe_to_prune.
Prunable == sess.st = "completed" /\ sess.ack /\ ~IsLive(rows, Root)

\* The rest of session_start and of session_discard, which delete the session.
Drop ==
  /\ tab = "looked"
  /\ tab' = "idle"
  /\ LET free == /\ mlock = None /\ ~Pending
                 /\ ~(sess.exec /\ IsLive(rows, Root)) /\ "live" \notin planner
     IN sess' = IF free /\ (Mutable \/ Prunable)
                THEN [sess EXCEPT !.st = "gone"] ELSE sess
  /\ UNCHANGED <<rows, planner, web, work, ctl, pass, faults, linked, history>>

Wizard ==
  \/ ClaimPlanner \/ Finalize \/ Admit \/ Enqueue \/ Look \/ Drop
  \/ \E p \in {"live", "late"} : PlannerWrites(p) \/ PlannerEnds(p)

-------------------------------------------------------------------------------
(* Workers and their queue *)

\* The advisory lock of a task goes with its worker's connection.
Held(t) == \E w \in Workers \ cut : job[w].task = t

Claim(w, t) ==
  /\ job[w] = NoJob /\ w \notin cut
  /\ t \in {Root} \cup Recoveries
  /\ Claimable(rows, t) /\ ~Held(t)
  /\ rows' = ClaimRow(rows, t, w)
  /\ job' = [job EXCEPT ![w] = At(t, IF t = Root THEN "begin" ELSE "resume", None)]
  /\ UNCHANGED <<sess, wizard, cut, mlock, ctl, pass, faults, linked, history>>

Freed(w) == IF mlock = w THEN None ELSE mlock

\* The job goes on to another place, or ends with an outcome.
Waits(w, pc, q, n) == job' = [job EXCEPT ![w].pc = pc, ![w].req = q, ![w].want = n]
Goes(w, pc, q) == Waits(w, pc, q, 0)
Over(w, out) == job' = [job EXCEPT ![w].pc = "ended", ![w].out = out]

\* The verdict clears func; a root's leaves nothing but its own recap.
Decided(r, t, w, verdict) ==
  Collapsed([FinishRow(r, t, w, verdict) EXCEPT ![t].queued = FALSE], t)

Finish(w) ==
  /\ job[w].pc = "ended" /\ w \notin cut
  /\ LET t == job[w].task IN
     IF ~Mine(rows, t, w)
     THEN UNCHANGED <<rows, ctl>>
     ELSE /\ rows' = IF job[w].out = "RETRY" THEN RequeueOrFail(rows, t)
                     ELSE Decided(rows, t, w, job[w].out)
          /\ ctl' = IF t = Root /\ job[w].out # "RETRY" THEN Forgotten(ctl) ELSE ctl
  /\ job' = [job EXCEPT ![w] = NoJob]
  /\ mlock' = Freed(w)
  /\ UNCHANGED <<sess, wizard, cut, pass, faults, linked, history>>

\* A cancel or a reclaim is heard by the worker whose row is not its own.
Hear(w) ==
  /\ job[w] # NoJob /\ w \notin cut
  /\ ~Mine(rows, job[w].task, w)
  /\ job' = [job EXCEPT ![w] = NoJob]
  /\ mlock' = Freed(w)
  /\ UNCHANGED <<rows, sess, wizard, cut, ctl, pass, faults, linked, history>>

\* The queue connection breaks; the job has its own and goes on.
Cut(w) ==
  /\ job[w] # NoJob /\ w \notin cut
  /\ Fault("cut")
  /\ cut' = cut \cup {w}
  /\ UNCHANGED <<rows, sess, wizard, job, mlock, ctl, pass, linked, history>>

\* On reconnect the row is read again, and its lock taken again.
Reconnect(w) ==
  /\ w \in cut
  /\ cut' = cut \ {w}
  /\ IF Mine(rows, job[w].task, w) /\ ~Held(job[w].task)
     THEN UNCHANGED <<job, mlock>>
     ELSE job' = [job EXCEPT ![w] = NoJob] /\ mlock' = Freed(w)
  /\ UNCHANGED <<rows, sess, wizard, ctl, pass, faults, linked, history>>

\* The worker process ends; its successor reads the new provider.
Killed(w) ==
  /\ job' = [job EXCEPT ![w] = NoJob]
  /\ mlock' = Freed(w)
  /\ cut' = cut \ {w}
  /\ stale' = stale \ {w}

Disowned(r, w) == [t \in Tasks |-> IF r[t].owner = w THEN [r[t] EXCEPT !.owner = Ghost]
                                   ELSE r[t]]

Dies(w) ==
  /\ job[w] # NoJob
  /\ Fault("crash")
  /\ Killed(w)
  /\ rows' = Disowned(rows, w)
  /\ UNCHANGED <<sess, wizard, ctl, pass, linked, counted, swaps, late>>

\* A RUNNING job whose worker the server does not see any more.
Orphan(r, t) ==
  r[t].st = "RUNNING" /\ r[t].queued /\ r[t].owner \in {Ghost} \cup cut /\ ~Held(t)

Reclaim(t) ==
  /\ Orphan(rows, t)
  /\ rows' = RequeueOrFail(rows, t)
  /\ UNCHANGED <<sess, wizard, work, ctl, pass, faults, linked, history>>

\* The root of a swap whose restart is owed is no row to fail or to cancel.
Protected == IF Pending THEN {Root} ELSE {}

\* fail_stale_inline_rows; the endpoint's own row is too young for it.
Sweep(t) ==
  /\ StartLockFree
  /\ StaleInline(rows, t) /\ t \notin Protected
  /\ rows' = FailStale(rows, t)
  /\ UNCHANGED <<sess, wizard, work, ctl, pass, faults, linked, history>>

\* A global cancel of a main task; or of the planner when a session is discarded,
\* whose row is not among these.
CancelEverything ==
  /\ StartLockFree
  /\ Fault("cancel")
  /\ LET kept == {t \in Tasks : t \in Protected \/ Parent[t] \in Protected} IN
     \E t \in {u \in {Root, Other} : rows[u].st # "FREE"} \cup {None} :
       rows' = [u \in Tasks |-> IF u \in kept THEN rows[u] ELSE CancelAll(rows, t)[u]]
  /\ ctl' = Forgotten(ctl)
  /\ planner' = IF "live" \in planner THEN {"late"} ELSE planner
  /\ UNCHANGED <<sess, web, tab, work, pass, linked, history>>

\* A catalogue start, wherever the gate is open; it wipes what has finished.
OtherStarts ==
  /\ StartLockFree
  /\ ~LiveMain /\ rows[Other].st = "FREE"
  /\ Fault("other")
  /\ rows' = [InsertJob(Wipe(rows, {}), Other) EXCEPT ![Other].st = "RUNNING"]
  /\ ctl' = Forgotten(ctl)
  /\ UNCHANGED <<sess, wizard, work, pass, linked, history>>

OtherEnds ==
  /\ rows[Other].st = "RUNNING"
  /\ rows' = Decided(rows, Other, None, "SUCCESS")
  /\ ctl' = Forgotten(ctl)
  /\ UNCHANGED <<sess, wizard, work, pass, faults, linked, history>>

-------------------------------------------------------------------------------
(* The job that applies the plan *)

\* The first cancel check, and the report that the job has begun.
Begin(w) ==
  /\ job[w].pc = "begin"
  /\ IF IsLive(rows, Root)
     THEN /\ rows' = ReportRunning(rows, Root)
          /\ late' = (late \/ rows[Root].st = "NEW")
          /\ Goes(w, "lock", None)
     ELSE UNCHANGED <<rows, late>> /\ Over(w, "FAIL")
  /\ UNCHANGED <<sess, wizard, cut, mlock, ctl, pass, faults, linked, past, swaps>>

\* Mutant of Known: no refusal yet is taken for an acknowledgement.
KnownOrOpen(q) == ctl[q].res # "no"

\* _restart_request_result is True.
Known(q) == ctl[q].res = "yes"

\* Whether there is anything left to await.
Onward == IF sess.ack \/ Known(sess.req) THEN "final" ELSE "publish"

\* Mutant of Load: the session is read before the lock is asked for.
LoadUnlocked(w) ==
  /\ job[w].pc = "lock"
  /\ IF sess.st = "completed"
     THEN Goes(w, Onward, sess.req)
     ELSE IF sess.st = "dry_run_ready" /\ sess.plan
     THEN Goes(w, "swap", None)
     ELSE Over(w, "FAIL")
  /\ UNCHANGED <<rows, sess, wizard, cut, mlock, ctl, pass, faults, linked, history>>

\* The lock, then the session: applied already, or to be applied, or neither,
\* which no retry can change.
Load(w) ==
  /\ job[w].pc = "lock"
  /\ mlock = None
  /\ IF sess.st = "completed"
     THEN Goes(w, Onward, sess.req) /\ mlock' = w
     ELSE IF sess.st = "dry_run_ready" /\ sess.plan
     THEN Goes(w, "swap", None) /\ mlock' = w
     ELSE Over(w, "FAIL") /\ UNCHANGED mlock
  /\ UNCHANGED <<rows, sess, wizard, cut, ctl, pass, faults, linked, history>>

\* Mutant of Stageable: the row is not read again before the commit.
StageableBlindly == TRUE

\* _stage_restart_handshake and the cancel check before it.
Stageable == IsLive(rows, Root)

\* The transaction.  It writes by the session's id, whatever its status is now,
\* and puts the row of a lost attempt's successor back to RUNNING.
Swap(w) ==
  /\ job[w].pc = "swap" /\ mlock \in {None, w}
  /\ StartLockFree
  /\ IF Stageable /\ sess.st # "gone"
     THEN /\ sess' = [st |-> "completed", plan |-> FALSE, exec |-> TRUE,
                      ack |-> FALSE, req |-> First, rec |-> None]
          /\ rows' = IF Exists(rows, Root) /\ IsLive(rows, Root)
                     THEN ReportRunning(rows, Root) ELSE rows
          /\ late' = (late \/ rows[Root].st = "NEW")
          /\ stale' = Workers
          /\ swaps' = swaps + 1
          /\ Goes(w, "report", First)
     ELSE Over(w, "RETRY") /\ UNCHANGED <<sess, rows, stale, swaps, late>>
  /\ mlock' = None
  /\ UNCHANGED <<wizard, cut, ctl, pass, faults, linked, counted>>

\* The report after the commit, which may insert the row anew.
Report(w) ==
  /\ job[w].pc = "report"
  /\ IF MayReport(rows, Root)
     THEN /\ rows' = ReportRunning(rows, Root)
          /\ late' = (late \/ rows[Root].st # "RUNNING")
     ELSE UNCHANGED <<rows, late>>
  /\ Goes(w, "publish", job[w].req)
  /\ UNCHANGED <<sess, wizard, cut, mlock, ctl, pass, faults, linked, past, swaps>>

-------------------------------------------------------------------------------
(* The handshake *)

\* Mutant of Asked: another publication begins the restart anew.
AskedAnew(r) == [res |-> "open", asked |-> r.asked \cup linked, ok |-> {}, bad |-> {}]

\* The same id again keeps what was acknowledged.
Asked(r) == [r EXCEPT !.res = IF @ = "none" THEN "open" ELSE @,
                      !.asked = @ \cup linked]

\* The listeners that are connected are counted, and hear the notice.  Without
\* any nothing is sent.
Publish(w) ==
  /\ job[w].pc = "publish"
  /\ LET q == job[w].req IN
     IF linked # {}
     THEN /\ ctl' = [Forgotten(ctl) EXCEPT ![q] = Asked(ctl[q])]
          /\ Waits(w, "await", q, Cardinality(linked))
     ELSE /\ UNCHANGED ctl
          /\ Goes(w, "asked", q)
  /\ UNCHANGED <<rows, sess, wizard, cut, mlock, pass, faults, linked, history>>

\* A worker's container is asked: unless it has done so already it ends the
\* worker, gives its rows back uncharged and starts another.
Restarts(w, q) ==
  /\ w \in ctl[q].asked \ ctl[q].ok
  /\ ctl' = [ctl EXCEPT ![q].asked = @ \ {w}, ![q].ok = @ \cup {w},
                        ![q].bad = @ \ {w}]
  /\ Killed(w)
  /\ \E kept \in BOOLEAN :
       /\ Works(kept, "noconn")
       /\ rows' = LET r == Disowned(rows, w) IN
            [t \in Tasks |->
               IF kept /\ r[t].st = "RUNNING" /\ r[t].queued /\ r[t].owner = Ghost
                  /\ \A v \in Workers \ (cut \cup {w}) : job[v].task # t
               THEN RequeueUncharged(r, t)[t] ELSE r[t]]
  /\ UNCHANGED <<sess, wizard, pass, linked, counted, swaps, late>>

\* The restart fails, before or after the worker's end.
Refuses(w, q) ==
  /\ w \in ctl[q].asked \ ctl[q].ok
  /\ Fault("refuse")
  /\ ctl' = [ctl EXCEPT ![q].asked = @ \ {w}, ![q].bad = @ \cup {w}]
  /\ \/ Killed(w) /\ rows' = Disowned(rows, w)
     \/ UNCHANGED <<rows, work, stale>>
  /\ UNCHANGED <<sess, wizard, pass, linked, counted, swaps, late>>

\* It has restarted for this id before: only the acknowledgement is repeated.
Repeats(w, q) ==
  /\ w \in ctl[q].asked \cap ctl[q].ok
  /\ ctl' = [ctl EXCEPT ![q].asked = @ \ {w}]
  /\ UNCHANGED <<rows, sess, wizard, work, pass, faults, linked, history>>

\* As many have acknowledged the request as were counted.
Answered(q, n) == ctl[q].bad = {} /\ Cardinality(ctl[q].ok) >= n

\* What publish_restart_request finds out, or does not in its time: an answer is
\* late, or was lost, or was wiped with the finished request it belonged to.
Await(w) ==
  /\ job[w].pc = "await"
  /\ LET q == job[w].req
         n == job[w].want
     IN \/ /\ Answered(q, n)
           /\ ctl' = [ctl EXCEPT ![q].res = "yes"]
           /\ Goes(w, "final", q)
           /\ counted' = IF n < counted THEN n ELSE counted
           /\ UNCHANGED faults
        \/ /\ ctl[q].bad # {}
           /\ ctl' = [ctl EXCEPT ![q].res = "no"]
           /\ Goes(w, "asked", q)
           /\ UNCHANGED <<counted, faults>>
        \/ /\ ctl[q].bad = {} /\ ~Answered(q, n)
           /\ Works(ctl[q].asked = {}, "timeout")
           /\ Goes(w, "asked", q)
           /\ UNCHANGED <<ctl, counted>>
  /\ UNCHANGED <<rows, sess, wizard, cut, mlock, pass, linked, stale, swaps, late>>

\* The connection of a listener breaks, with the notices it has not taken up, and
\* is made again.
Unlink(w) ==
  /\ w \in linked
  /\ Fault("drop")
  /\ linked' = linked \ {w}
  /\ \E lost \in SUBSET {w} :
       ctl' = [q \in Requests |-> [ctl[q] EXCEPT !.asked = @ \ lost]]
  /\ UNCHANGED <<rows, sess, wizard, work, pass, history>>

Link(w) ==
  /\ w \notin linked
  /\ linked' = linked \cup {w}
  /\ UNCHANGED <<rows, sess, wizard, work, ctl, pass, faults, history>>

\* Ids that nobody has a use for: any of them may stand for a new one.
NewRequests == {r \in Requests \ {First, sess.req} :
                  ctl[r] = Closed /\ \A w \in Workers : job[w].req # r}

\* A refused id is replaced by a new one, committed on the session.
Rotate(w) ==
  /\ job[w].pc = "asked"
  /\ ctl[job[w].req].res = "no" /\ sess.st = "completed"
  /\ NewRequests # {}
  /\ LET n == CHOOSE r \in NewRequests : TRUE IN
     /\ sess' = [sess EXCEPT !.req = n, !.ack = FALSE]
     /\ Goes(w, "publish", n)
  /\ mlock' = Freed(w)
  /\ UNCHANGED <<rows, wizard, cut, ctl, pass, faults, linked, history>>

\* The same id is published again: it was not refused, or not replaced because
\* the database failed.
Again(w) ==
  /\ job[w].pc = "asked"
  /\ Goes(w, "publish", job[w].req)
  /\ UNCHANGED <<rows, sess, wizard, cut, mlock, ctl, pass, faults, linked, history>>

\* The deadline: the execution returns all the same, a recovery is tried again.
\* That no listener connects for as long is a disturbance.
GiveUp(w) ==
  /\ job[w].pc = "asked"
  /\ Works(linked # {}, "timeout")
  /\ Over(w, IF job[w].task = Root THEN "SUCCESS" ELSE "RETRY")
  /\ mlock' = Freed(w)
  /\ UNCHANGED <<rows, sess, wizard, cut, ctl, pass, linked, history>>

\* _finalize_restart_handshake: only for the id the session names now.  A
\* recovery closes the root's row itself.
Final(w) ==
  /\ job[w].pc = "final"
  /\ StartLockFree
  /\ IF sess.st = "completed" /\ sess.req = job[w].req
     THEN /\ sess' = [sess EXCEPT !.ack = TRUE]
          /\ IF job[w].task = Root
             THEN Over(w, "SUCCESS") /\ UNCHANGED rows
             ELSE /\ rows' = [rows EXCEPT ![Root].st = "SUCCESS"]
                  /\ Goes(w, "collapse", job[w].req)
     ELSE /\ Over(w, IF job[w].task = Root THEN "SUCCESS" ELSE "FAIL")
          /\ UNCHANGED <<rows, sess>>
  /\ mlock' = Freed(w)
  /\ UNCHANGED <<wizard, cut, ctl, pass, faults, linked, history>>

\* _record_recovered_root, a transaction of its own.
Collapse(w) ==
  /\ job[w].pc = "collapse"
  /\ rows' = Collapsed(rows, Root)
  /\ ctl' = Forgotten(ctl)
  /\ Over(w, "SUCCESS")
  /\ UNCHANGED <<sess, wizard, cut, mlock, pass, faults, linked, history>>

-------------------------------------------------------------------------------
(* Recovery *)

Authority == IF sess.rec # None THEN sess.rec ELSE Root

\* The candidate, and that the task which answers for it has ended.
Scan ==
  /\ ~pass.seen
  /\ Pending /\ ~IsLive(rows, Authority)
  /\ pass' = [seen |-> TRUE, rec |-> sess.rec, req |-> sess.req]
  /\ UNCHANGED <<rows, sess, wizard, work, ctl, faults, linked, history>>

\* The session is as the pass has read it.
Unchanged == Pending /\ sess.rec = pass.rec /\ sess.req = pass.req

NewRecoveries == {c \in Recoveries \ {sess.rec} :
                    rows[c].st = "FREE" /\ \A w \in Workers : job[w].task # c}

\* The root's row is opened again, and the recovery queued as its child.
Reserve ==
  /\ pass.seen
  /\ pass' = NoPass
  /\ StartLockFree
  /\ IF mlock = None /\ Unchanged /\ SlotFree(rows, Root)
     THEN /\ NewRecoveries # {}
          /\ LET c == CHOOSE r \in NewRecoveries : TRUE IN
             /\ sess' = [sess EXCEPT !.rec = c]
             /\ rows' = InsertJob([rows EXCEPT ![Root].st = "RUNNING"], c)
     ELSE UNCHANGED <<rows, sess>>
  /\ UNCHANGED <<wizard, work, ctl, faults, linked, history>>

\* resume_provider_migration_restart: the lock is given back before the wait.
Resume(w) ==
  /\ job[w].pc = "resume"
  /\ mlock = None
  /\ IF sess.st = "completed" /\ sess.rec = job[w].task
     THEN Goes(w, Onward, sess.req)
     ELSE Over(w, "FAIL")
  /\ UNCHANGED <<rows, sess, wizard, cut, mlock, ctl, pass, faults, linked, history>>

-------------------------------------------------------------------------------
Step(w) ==
  \/ Begin(w) \/ Load(w) \/ Swap(w) \/ Report(w) \/ Publish(w) \/ Await(w)
  \/ Rotate(w) \/ Again(w) \/ Final(w) \/ Collapse(w) \/ Resume(w) \/ Finish(w) \/ Reconnect(w)

Listener(w) ==
  Link(w) \/ \E q \in Requests : Restarts(w, q) \/ Refuses(w, q) \/ Repeats(w, q)

Claims(w) == \E t \in Tasks : Claim(w, t)

Maintenance == (\E t \in Tasks : Reclaim(t) \/ Sweep(t)) \/ Scan \/ Reserve

Next ==
  \/ Wizard \/ Maintenance \/ CancelEverything \/ OtherStarts \/ OtherEnds
  \/ \E w \in Workers :
       Step(w) \/ GiveUp(w) \/ Listener(w) \/ Claims(w) \/ Hear(w) \/ Cut(w) \/ Dies(w)
       \/ Unlink(w)

Spec == Init /\ [][Next]_vars

\* Jobs, workers and listeners go on, and every step of the maintenance pass is
\* taken again and again; a database that may fail a rotation does not fail it
\* for ever.  Users, deadlines and disturbances owe nothing.
Fairness ==
  /\ \A w \in Workers :
       WF_vars(Step(w)) /\ WF_vars(Listener(w)) /\ WF_vars(Claims(w))
  /\ \A t \in Tasks : WF_vars(Reclaim(t))
  /\ \A w \in Workers : SF_vars(Rotate(w))
  /\ WF_vars(Scan) /\ WF_vars(Reserve) /\ WF_vars(Enqueue) /\ WF_vars(OtherEnds)

LiveSpec == Spec /\ Fairness

-------------------------------------------------------------------------------
(* Properties *)

\* The swap commits once, whatever attempts, lost workers and retries there
\* are: an attempt that comes late finds it applied (provider_migration_tasks.py
\* 433-449).
SwappedOnce == swaps <= 1

\* Until its restart is acknowledged, the record of a swap outlives every page
\* of the wizard and every late planner (app_provider_migration.py 282-309,
\* 1996-2012, 2879-2903).
SwapIsKept == [][Pending => Pending' \/ sess'.ack]_vars

\* A cancel comes before the swap, which then does not commit, or after it, and
\* then leaves the row that answers for the restart.  So no step finds or leaves an
\* owed swap without it, but the one that owes an acknowledged restart anew
\* (provider_migration_tasks.py 378-394, 1005-1031, app_helper.py 559-600).
SwapNotCancelled ==
  [][Pending' /\ rows'[Root].st = "REVOKED"
       => (Pending /\ rows[Root].st = "REVOKED") \/ sess.ack]_vars

\* By the time a swap is acknowledged at least as many workers are off the old
\* provider as a granted publication has counted, over refusals, rotated ids,
\* listeners that come and go, recoveries and attempts that take another's answer
\* (provider_migration_tasks.py 347-412, 563-577, 1470-1480).  They are all of
\* them, unless a listener was not connected when one was published (control.py
\* 115-135).
AckIsReal == sess.ack => Cardinality(Workers \ stale) >= counted

\* Every swap is acknowledged in the end, though the restart it asks for ends
\* the job that asks and handshakes may be given up
\* (provider_migration_tasks.py 206-208, 1314-1440).
\* A row that a lost attempt's report has moved is excused: see TaskQueue.
EventuallyAcknowledged == Pending ~> sess.ack \/ late
===============================================================================
