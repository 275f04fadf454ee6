------------------------------ MODULE ControlPlane ------------------------------
(***************************************************************************)
(* Deliberate stops and restarts of the workers (taskqueue/control.py) and *)
(* the reclaim pass that must not mistake them for lost workers            *)
(* (taskqueue/maintenance.py).                                             *)
(*                                                                         *)
(* A publisher writes a request row and notifies the control listener of   *)
(* every container.  A listener drives its supervisor, hands the tasks of  *)
(* the workers it stopped back to the queue and records one acknowledgement*)
(* row; the publisher counts those.  The request row is also the marker    *)
(* that keeps reclaim away while workers are being stopped on purpose.     *)
(*                                                                         *)
(* Granularity.  A step is one database transaction or one supervisor      *)
(* call.  The workers of a container are one worker, and claims and ends   *)
(* of jobs are single steps here: TaskQueue has their detail.  Time is     *)
(* only this: the action window of a request may close at any moment.      *)
(***************************************************************************)
EXTENDS FiniteSets, Naturals, Sequences

CONSTANTS
  Listeners,    \* control listeners, one per worker container
  Tasks,        \* queued jobs
  Requests,     \* control request ids
  ActionOf,     \* the action each request names
  None,
  Reclaimer,    \* the maintenance process, as a holder of advisory locks
  MaxAttempts,  \* max_attempts of every task
  MaxPublications,  \* bound: how often requests are published in all
  Faults,       \* kinds of disturbance that may happen
  MaxFaults     \* bound: disturbances a behaviour may contain

Actions == {"restart", "stop", "start", "plugin-sync"}
FaultKinds == {"blind", "crash", "drop", "fail", "linger", "noconn"}

ASSUME ControlAssumption ==
  /\ IsFiniteSet(Listeners)
  /\ ActionOf \in [Requests -> Actions]
  /\ None \notin Tasks \cup Requests \cup Listeners
  /\ Reclaimer \notin Listeners \cup {None}
  /\ MaxAttempts \in Nat
  /\ MaxPublications \in Nat
  /\ Faults \subseteq FaultKinds
  /\ MaxFaults \in Nat

VARIABLES
  pub,        \* per request: where publish_control_request is
  published,  \* publications so far
  expected,   \* per request: listeners counted by its last publication
  verdict,    \* per request: what publish_control_request last returned
  root,       \* per request: status of its row, "none" when there is no row
  fresh,      \* requests whose action window is open
  ack,        \* per request and listener: the acknowledgement row
  linked,     \* listeners whose LISTEN session is open
  inbox,      \* per listener: notifications not handled yet
  lst,        \* per listener: the request its callback is handling
  up,         \* per container: its workers run
  job,        \* per container: the task its worker runs
  lingering,  \* tasks of dead workers whose session the server still has
  row,        \* per task: status of its row
  charged,    \* per task: attempts
  probe,      \* per task: who holds its advisory lock to requeue it
  rec,        \* the reclaim pass: candidates, and windows open at its start
  faults,     \* disturbances so far
  stopped,    \* history: the stop that ended each task's worker
  acted       \* history: per request, listeners that carried it out

request == <<pub, published, expected, verdict>>
marker == <<root, fresh>>
links == <<linked, inbox>>
workers == <<up, job, lingering>>
tasks == <<row, charged, probe>>
vars == <<pub, published, expected, verdict, root, fresh, ack, linked, inbox,
          lst, up, job, lingering, row, charged, probe, rec, faults, stopped,
          acted>>

Stops(r) == ActionOf[r] \in {"restart", "stop"}
Handling(pc, r, ok, cand) == [pc |-> pc, req |-> r, ok |-> ok, cand |-> cand]
Idle == Handling("idle", None, FALSE, {})
NotStopped == [by |-> None, on |-> None]

TypeOK ==
  /\ pub \in [Requests -> {"idle", "counted", "waiting", "granted", "refused"}]
  /\ published \in 0..MaxPublications
  /\ expected \in [Requests -> Nat]
  /\ verdict \in [Requests -> {"none", "yes", "no"}]
  /\ root \in [Requests -> {"none", "RUNNING", "SUCCESS", "FAIL"}]
  /\ fresh \subseteq Requests
  /\ ack \in [Requests -> [Listeners -> {"none", "SUCCESS", "FAIL"}]]
  /\ linked \subseteq Listeners
  /\ inbox \in [Listeners -> Seq(Requests)]
  /\ lst \in [Listeners ->
       [pc : {"idle", "act", "scan", "requeue", "start", "ack"},
        req : Requests \cup {None}, ok : BOOLEAN, cand : SUBSET Tasks]]
  /\ \A l \in Listeners : lst[l].pc # "idle" => lst[l].req \in Requests
  /\ up \in [Listeners -> BOOLEAN]
  /\ job \in [Listeners -> Tasks \cup {None}]
  /\ lingering \subseteq Tasks
  /\ row \in [Tasks -> {"NEW", "RUNNING", "DONE", "FAIL"}]
  /\ charged \in [Tasks -> 0..MaxAttempts + 1]
  /\ probe \in [Tasks -> Listeners \cup {Reclaimer, None}]
  /\ rec \in [pc : {"idle", "scan", "probe"}, cand : SUBSET Tasks,
              seen : SUBSET Requests]
  /\ faults \in 0..MaxFaults
  /\ stopped \in [Tasks -> [by : Requests \cup {None},
                            on : Listeners \cup {None}]]
  /\ acted \in [Requests -> SUBSET Listeners]

Init ==
  /\ pub = [r \in Requests |-> "idle"]
  /\ published = 0
  /\ expected = [r \in Requests |-> 0]
  /\ verdict = [r \in Requests |-> "none"]
  /\ root = [r \in Requests |-> "none"]
  /\ fresh = {}
  /\ ack = [r \in Requests |-> [l \in Listeners |-> "none"]]
  /\ linked = Listeners
  /\ inbox = [l \in Listeners |-> << >>]
  /\ lst = [l \in Listeners |-> Idle]
  /\ up = [l \in Listeners |-> TRUE]
  /\ job = [l \in Listeners |-> None]
  /\ lingering = {}
  /\ row = [t \in Tasks |-> "NEW"]
  /\ charged = [t \in Tasks |-> 0]
  /\ probe = [t \in Tasks |-> None]
  /\ rec = [pc |-> "idle", cand |-> {}, seen |-> {}]
  /\ faults = 0
  /\ stopped = [t \in Tasks |-> NotStopped]
  /\ acted = [r \in Requests |-> {}]

Fault(kind) ==
  /\ kind \in Faults
  /\ faults < MaxFaults
  /\ faults' = faults + 1

\* A call that succeeds, or fails as a disturbance of this kind.
Works(good, kind) == IF good THEN UNCHANGED faults ELSE Fault(kind)

-----------------------------------------------------------------------------
(* The publisher. *)

Count(r) ==
  /\ pub[r] = "idle" /\ verdict[r] # "yes" /\ published < MaxPublications
  /\ published' = published + 1
  /\ IF linked = {}
     THEN /\ verdict' = [verdict EXCEPT ![r] = "no"]
          /\ UNCHANGED <<pub, expected>>
     ELSE /\ expected' = [expected EXCEPT ![r] = Cardinality(linked)]
          /\ pub' = [pub EXCEPT ![r] = "counted"]
          /\ UNCHANGED verdict
  /\ UNCHANGED <<marker, ack, links, lst, workers, tasks, rec, faults, stopped,
                 acted>>

\* Mutant of Spared: a publisher clears every other handshake.
SparedNever(q) == FALSE

\* Another handshake is spared while its row is RUNNING inside its window.
Spared(q) == root[q] = "RUNNING" /\ q \in fresh

\* Clears earlier requests, writes or refreshes the row, notifies.
Publish(r) ==
  /\ pub[r] = "counted"
  /\ pub' = [pub EXCEPT ![r] = "waiting"]
  /\ root' = [q \in Requests |->
       CASE q = r /\ root[q] = "none" -> "RUNNING"
         [] q # r /\ ~Spared(q) -> "none"
         [] OTHER -> root[q]]
  /\ ack' = [q \in Requests |->
       IF q = r \/ Spared(q) THEN ack[q] ELSE [l \in Listeners |-> "none"]]
  /\ fresh' = fresh \cup {r}
  /\ inbox' = [l \in Listeners |->
       IF l \in linked THEN Append(inbox[l], r) ELSE inbox[l]]
  /\ UNCHANGED <<published, expected, verdict, linked, lst, workers, tasks,
                 rec, faults, stopped, acted>>

Acked(r, status) == {l \in Listeners : ack[r][l] = status}

\* One poll that decides: any failure refuses, enough successes grant.
Poll(r) ==
  /\ pub[r] = "waiting"
  /\ \/ /\ Acked(r, "FAIL") # {}
        /\ pub' = [pub EXCEPT ![r] = "refused"]
     \/ /\ Acked(r, "FAIL") = {}
        /\ Cardinality(Acked(r, "SUCCESS")) >= expected[r]
        /\ pub' = [pub EXCEPT ![r] = "granted"]
  /\ UNCHANGED <<published, expected, verdict, marker, ack, links, lst, workers,
                 tasks, rec, faults, stopped, acted>>

Finish(r) ==
  /\ pub[r] \in {"granted", "refused"}
  /\ pub' = [pub EXCEPT ![r] = "idle"]
  /\ verdict' = [verdict EXCEPT ![r] = IF pub[r] = "granted" THEN "yes" ELSE "no"]
  /\ root' = [root EXCEPT ![r] =
       IF @ = "none" THEN @
       ELSE IF pub[r] = "granted" THEN "SUCCESS" ELSE "FAIL"]
  /\ UNCHANGED <<published, expected, fresh, ack, links, lst, workers, tasks, rec,
                 faults, stopped, acted>>

\* The acknowledgement budget is spent: the row stays open for late ones.
GiveUp(r) ==
  /\ pub[r] = "waiting"
  /\ pub' = [pub EXCEPT ![r] = "idle"]
  /\ verdict' = [verdict EXCEPT ![r] = "no"]
  /\ UNCHANGED <<published, expected, marker, ack, links, lst, workers, tasks, rec,
                 faults, stopped, acted>>

\* The publishing process ends, by the very restart it asked for as a rule, or
\* loses its connection and returns False, which here leaves the verdict alone.
PublisherDies(r) ==
  /\ pub[r] # "idle"
  /\ Fault("crash")
  /\ pub' = [pub EXCEPT ![r] = "idle"]
  /\ UNCHANGED <<published, expected, verdict, marker, ack, links, lst, workers,
                 tasks, rec, stopped, acted>>

WindowCloses(r) ==
  /\ r \in fresh
  /\ fresh' = fresh \ {r}
  /\ UNCHANGED <<request, root, ack, links, lst, workers, tasks, rec, faults,
                 stopped, acted>>

Publisher(r) == Count(r) \/ Publish(r) \/ Poll(r) \/ Finish(r) \/ GiveUp(r)

-----------------------------------------------------------------------------
(* The workers, as far as the control plane sees them. *)

Locked(t) ==
  \/ \E l \in Listeners : job[l] = t
  \/ t \in lingering
  \/ probe[t] # None

\* A RUNNING row none of whose worker's sessions is left.
Orphan(t) ==
  /\ row[t] = "RUNNING"
  /\ t \notin lingering
  /\ \A l \in Listeners : job[l] # t

Orphans == {t \in Tasks : Orphan(t)}

Claim(l, t) ==
  /\ up[l] /\ job[l] = None
  /\ row[t] = "NEW" /\ ~Locked(t)
  /\ job' = [job EXCEPT ![l] = t]
  /\ row' = [row EXCEPT ![t] = "RUNNING"]
  /\ stopped' = [stopped EXCEPT ![t] = NotStopped]
  /\ UNCHANGED <<request, marker, ack, links, lst, up, lingering, charged,
                 probe, rec, faults, acted>>

JobEnds(l) ==
  /\ job[l] # None
  /\ row' = [row EXCEPT ![job[l]] = "DONE"]
  /\ job' = [job EXCEPT ![l] = None]
  /\ UNCHANGED <<request, marker, ack, links, lst, up, lingering, charged,
                 probe, rec, faults, stopped, acted>>

\* A worker is lost for real; its supervisor starts another.
WorkerDies(l) ==
  /\ job[l] # None
  /\ Fault("crash")
  /\ job' = [job EXCEPT ![l] = None]
  /\ UNCHANGED <<request, marker, ack, links, lst, up, lingering, tasks, rec,
                 stopped, acted>>

SessionEnds(t) ==
  /\ t \in lingering
  /\ lingering' = lingering \ {t}
  /\ UNCHANGED <<request, marker, ack, links, lst, up, job, tasks, rec, faults,
                 stopped, acted>>

-----------------------------------------------------------------------------
(* The control listener of one container. *)

\* The listener goes on to pc with this outcome of its action so far.
GoesTo(l, pc, ok) ==
  /\ lst' = [lst EXCEPT ![l] = Handling(pc, lst[l].req, ok, {})]
  /\ acted' = IF pc = "ack" /\ ok
              THEN [acted EXCEPT ![lst[l].req] = @ \cup {l}]
              ELSE acted

At(l, pc) == lst[l].pc = pc
Asked(l, action) == ActionOf[lst[l].req] = action

\* on_notify: a request already carried out is only acknowledged again; a
\* failed look-up counts as not carried out.
Receive(l) ==
  /\ At(l, "idle") /\ inbox[l] # << >>
  /\ inbox' = [inbox EXCEPT ![l] = Tail(@)]
  /\ LET r == Head(inbox[l]) IN
     \E seen \in BOOLEAN :
       /\ Works(seen, "blind")
       /\ lst' = [lst EXCEPT ![l] =
            IF seen /\ ack[r][l] = "SUCCESS"
            THEN Handling("ack", r, TRUE, {})
            ELSE Handling("act", r, FALSE, {})]
  /\ UNCHANGED <<request, marker, ack, linked, workers, tasks, rec, stopped,
                 acted>>

PluginSync(l) ==
  /\ At(l, "act") /\ Asked(l, "plugin-sync")
  /\ \E good \in BOOLEAN : Works(good, "fail") /\ GoesTo(l, "ack", good)
  /\ UNCHANGED <<request, marker, ack, links, workers, tasks, rec, stopped>>

\* The stop ends the container's worker; its session may outlive it.
Kill(l, dies) ==
  IF dies /\ job[l] # None
  THEN /\ job' = [job EXCEPT ![l] = None]
       /\ stopped' = [stopped EXCEPT ![job[l]] = [by |-> lst[l].req, on |-> l]]
  ELSE UNCHANGED <<job, stopped>>

StopWorkers(l) ==
  /\ At(l, "act") /\ Stops(lst[l].req)
  /\ up' = [up EXCEPT ![l] = FALSE]
  /\ Kill(l, TRUE)
  /\ \/ UNCHANGED <<lingering, faults>>
     \/ /\ job[l] # None
        /\ Fault("linger")
        /\ lingering' = lingering \cup {job[l]}
  /\ GoesTo(l, "scan", TRUE)
  /\ UNCHANGED <<request, marker, ack, links, tasks, rec>>

\* The supervisor reports a failure; the worker may be gone all the same.
StopFails(l) ==
  /\ At(l, "act") /\ Stops(lst[l].req)
  /\ Fault("fail")
  /\ \E dies \in BOOLEAN :
       /\ up' = [up EXCEPT ![l] = @ /\ ~dies]
       /\ Kill(l, dies)
  /\ GoesTo(l, IF Asked(l, "restart") THEN "start" ELSE "ack", FALSE)
  /\ UNCHANGED <<request, marker, ack, links, lingering, tasks, rec>>

\* Mutant of AfterRequeue: a restart ends with the requeue.
AfterRequeueOnly(l) == GoesTo(l, "ack", TRUE)

\* After the requeue: a restart starts the workers, a stop is done.
AfterRequeue(l) == GoesTo(l, IF Asked(l, "restart") THEN "start" ELSE "ack", TRUE)

ScanStopped(l) ==
  /\ At(l, "scan")
  /\ lst' = [lst EXCEPT ![l] = Handling("requeue", lst[l].req, TRUE, Orphans)]
  /\ UNCHANGED <<request, marker, ack, links, workers, tasks, rec, faults,
                 stopped, acted>>

Released(p) == [t \in Tasks |-> IF probe[t] = p THEN None ELSE probe[t]]

\* The requeue has no connection, or loses it on the way, or only its transaction:
\* reclaim will restart the tasks it had left, the one it held included, and charge
\* them.  A restart closes the connection of its requeue; that of a stop keeps the
\* lock it had taken until the acknowledgement.
RequeueLost(l) ==
  /\ At(l, "scan") \/ At(l, "requeue")
  /\ Fault("noconn")
  /\ probe' \in {Released(l)} \cup (IF Asked(l, "restart") THEN {} ELSE {probe})
  /\ stopped' = [t \in Tasks |->
       IF stopped[t].on = l \/ probe[t] = l THEN NotStopped ELSE stopped[t]]
  /\ AfterRequeue(l)
  /\ UNCHANGED <<request, marker, ack, links, workers, row, charged, rec>>

NoProbe(p) == \A t \in Tasks : probe[t] # p

\* Mutant of HoldStopped: the row is taken without its lock.
HoldStoppedBlindly(l, t) ==
  /\ At(l, "requeue") /\ NoProbe(l) /\ t \in lst[l].cand
  /\ lst' = [lst EXCEPT ![l] =
       Handling("requeue", lst[l].req, TRUE, lst[l].cand \ {t})]
  /\ probe' = [probe EXCEPT ![t] = l]
  /\ UNCHANGED <<request, marker, ack, links, workers, row, charged, rec,
                 faults, stopped, acted>>

\* try_hold: a row whose lock is taken is passed over.
HoldStopped(l, t) ==
  /\ At(l, "requeue") /\ NoProbe(l) /\ t \in lst[l].cand
  /\ lst' = [lst EXCEPT ![l] =
       Handling("requeue", lst[l].req, TRUE, lst[l].cand \ {t})]
  /\ probe' = IF Locked(t) THEN probe ELSE [probe EXCEPT ![t] = l]
  /\ UNCHANGED <<request, marker, ack, links, workers, row, charged, rec,
                 faults, stopped, acted>>

\* Mutant of RequeueStopped: requeue_uncharged without AND status = RUNNING.
RequeueStoppedAnyRow(l, t) ==
  /\ At(l, "requeue") /\ probe[t] = l
  /\ probe' = [probe EXCEPT ![t] = None]
  /\ row' = [row EXCEPT ![t] = "NEW"]
  /\ stopped' = [stopped EXCEPT ![t] = NotStopped]
  /\ UNCHANGED <<request, marker, ack, links, lst, workers, charged, rec,
                 faults, acted>>

\* requeue_uncharged, its commit and the release of the lock.
RequeueStopped(l, t) ==
  /\ At(l, "requeue") /\ probe[t] = l
  /\ probe' = [probe EXCEPT ![t] = None]
  /\ row' = [row EXCEPT ![t] = IF @ = "RUNNING" THEN "NEW" ELSE @]
  /\ stopped' = [stopped EXCEPT ![t] = NotStopped]
  /\ UNCHANGED <<request, marker, ack, links, lst, workers, charged, rec,
                 faults, acted>>

RequeueEnds(l) ==
  /\ At(l, "requeue") /\ NoProbe(l) /\ lst[l].cand = {}
  /\ AfterRequeue(l)
  /\ UNCHANGED <<request, marker, ack, links, workers, tasks, rec, faults,
                 stopped>>

\* A restart whose stop failed starts the workers too, and reports failure.
StartWorkers(l) ==
  /\ At(l, "start") \/ (At(l, "act") /\ Asked(l, "start"))
  /\ \E good \in BOOLEAN :
       /\ Works(good, "fail")
       /\ up' = [up EXCEPT ![l] = @ \/ good]
       /\ GoesTo(l, "ack", good /\ (At(l, "start") => lst[l].ok))
  /\ UNCHANGED <<request, marker, ack, links, job, lingering, tasks, rec,
                 stopped>>

\* Mutant of RecordAck: what is acknowledged is that the action was handled.
RecordHandled(l) ==
  /\ At(l, "ack")
  /\ \E saved \in BOOLEAN :
       /\ Works(saved, "noconn")
       /\ ack' = IF saved THEN [ack EXCEPT ![lst[l].req][l] = "SUCCESS"] ELSE ack
  /\ lst' = [lst EXCEPT ![l] = Idle]
  /\ probe' = Released(l)
  /\ UNCHANGED <<request, marker, links, workers, row, charged, rec, stopped, acted>>

\* The acknowledgement is upserted, or lost after two connections failed; then the
\* connection is closed.
RecordAck(l) ==
  /\ At(l, "ack")
  /\ \E saved \in BOOLEAN :
       /\ Works(saved, "noconn")
       /\ ack' = IF saved
                 THEN [ack EXCEPT ![lst[l].req][l] =
                         IF lst[l].ok THEN "SUCCESS" ELSE "FAIL"]
                 ELSE ack
  /\ lst' = [lst EXCEPT ![l] = Idle]
  /\ probe' = Released(l)
  /\ UNCHANGED <<request, marker, links, workers, row, charged, rec, stopped, acted>>

\* The LISTEN session drops, with the notifications it still held.
Unlink(l) ==
  /\ l \in linked
  /\ Fault("drop")
  /\ linked' = linked \ {l}
  /\ inbox' = [inbox EXCEPT ![l] = << >>]
  /\ UNCHANGED <<request, marker, ack, lst, workers, tasks, rec, stopped, acted>>

\* The listener thread reconnects, never in the middle of a callback.
Link(l) ==
  /\ l \notin linked /\ At(l, "idle")
  /\ linked' = linked \cup {l}
  /\ UNCHANGED <<request, marker, ack, inbox, lst, workers, tasks, rec, faults,
                 stopped, acted>>

\* The listener process dies, at any point of its callback.
ListenerDies(l) ==
  /\ Fault("drop")
  /\ lst' = [lst EXCEPT ![l] = Idle]
  /\ linked' = linked \ {l}
  /\ inbox' = [inbox EXCEPT ![l] = << >>]
  /\ probe' = Released(l)
  /\ UNCHANGED <<request, marker, ack, workers, row, charged, rec, stopped, acted>>

Listener(l) ==
  \/ Receive(l) \/ PluginSync(l) \/ StopWorkers(l) \/ StopFails(l)
  \/ ScanStopped(l) \/ RequeueLost(l) \/ RequeueEnds(l)
  \/ \E t \in Tasks : HoldStopped(l, t) \/ RequeueStopped(l, t)
  \/ StartWorkers(l) \/ RecordAck(l) \/ Link(l)

-----------------------------------------------------------------------------
(* The reclaim pass. *)

\* Mutant of InFlight: the row counts whatever its age.
InFlightForever(r) == Stops(r) /\ root[r] \in {"RUNNING", "FAIL"}

InFlight(r) == Stops(r) /\ root[r] \in {"RUNNING", "FAIL"} /\ r \in fresh

\* A pass that sees a stopping request in flight ends at once.
ReadMarkers ==
  /\ rec.pc = "idle"
  /\ \A r \in Requests : ~InFlight(r)
  /\ rec' = [pc |-> "scan", cand |-> {}, seen |-> fresh]
  /\ UNCHANGED <<request, marker, ack, links, lst, workers, tasks, faults,
                 stopped, acted>>

ScanOrphans ==
  /\ rec.pc = "scan"
  /\ rec' = [pc |-> "probe", cand |-> Orphans, seen |-> rec.seen]
  /\ UNCHANGED <<request, marker, ack, links, lst, workers, tasks, faults,
                 stopped, acted>>

HoldOrphan(t) ==
  /\ rec.pc = "probe" /\ NoProbe(Reclaimer) /\ t \in rec.cand
  /\ rec' = [pc |-> "probe", cand |-> rec.cand \ {t}, seen |-> rec.seen]
  /\ probe' = IF Locked(t) THEN probe ELSE [probe EXCEPT ![t] = Reclaimer]
  /\ UNCHANGED <<request, marker, ack, links, lst, workers, row, charged,
                 faults, stopped, acted>>

\* requeue_or_fail, its commit and the release of the lock.
Charge(t) ==
  /\ rec.pc = "probe" /\ probe[t] = Reclaimer
  /\ probe' = [probe EXCEPT ![t] = None]
  /\ IF row[t] = "RUNNING"
     THEN /\ charged' = [charged EXCEPT ![t] = @ + 1]
          /\ row' = [row EXCEPT ![t] =
               IF charged[t] + 1 <= MaxAttempts THEN "NEW" ELSE "FAIL"]
     ELSE UNCHANGED <<charged, row>>
  /\ UNCHANGED <<request, marker, ack, links, lst, workers, rec, faults,
                 stopped, acted>>

PassEnds ==
  /\ rec.pc = "probe" /\ rec.cand = {} /\ NoProbe(Reclaimer)
  /\ rec' = [pc |-> "idle", cand |-> {}, seen |-> {}]
  /\ UNCHANGED <<request, marker, ack, links, lst, workers, tasks, faults,
                 stopped, acted>>

Pass ==
  \/ ReadMarkers \/ ScanOrphans \/ PassEnds
  \/ \E t \in Tasks : HoldOrphan(t) \/ Charge(t)

-----------------------------------------------------------------------------
Next ==
  \/ \E r \in Requests : Publisher(r) \/ PublisherDies(r) \/ WindowCloses(r)
  \/ \E l \in Listeners :
       \/ Listener(l) \/ Unlink(l) \/ ListenerDies(l)
       \/ JobEnds(l) \/ WorkerDies(l)
       \/ \E t \in Tasks : Claim(l, t)
  \/ \E t \in Tasks : SessionEnds(t)
  \/ Pass

Spec == Init /\ [][Next]_vars

\* A publication that was begun goes on, windows close, listeners handle what
\* they are sent, dead sessions end and maintenance keeps passing.
Fairness ==
  /\ \A r \in Requests :
       /\ WF_vars(pub[r] # "idle" /\ Publisher(r))
       /\ WF_vars(WindowCloses(r))
  /\ \A l \in Listeners : WF_vars(Listener(l))
  /\ \A t \in Tasks : WF_vars(SessionEnds(t))
  /\ WF_vars(Pass)

LiveSpec == Spec /\ Fairness

-----------------------------------------------------------------------------
(* Properties. *)

\* A publication that returned True was carried out by as many containers as
\* it counted, however its acknowledgements were repeated, lost, recorded
\* late or left by an earlier publication of the same id (control.py 120-182).
VerdictIsReal ==
  \A r \in Requests : verdict[r] = "yes" =>
    /\ expected[r] > 0
    /\ Cardinality(acted[r]) >= expected[r]

\* The candidates of a requeue, deliberate or charged, may be stale by the time
\* they are handled; the row a live worker runs is never taken from it, and no
\* two workers run the same task (control.py 341-365, maintenance.py 130-175).
WorkerKeepsRow ==
  \A l \in Listeners : job[l] # None =>
    /\ row[job[l]] = "RUNNING"
    /\ \A m \in Listeners \ {l} : job[m] # job[l]

\* A request that was granted, and whose row a later publication has cleared: there
\* is no marker any more, though a notification of it may be still unheard.
Forgotten == {r \in Requests : verdict[r] = "yes" /\ root[r] = "none"}

\* No pass that began after a stop or a restart was published charges, inside
\* its window, a task whose worker that request stopped: the marker outlives
\* the slowest listener's requeue (maintenance.py 107-127, control.py 292-303).
\* A requeue that lost its connection is excused, as the code's message is.
LateReadersStandDown ==
  [][\A t \in Tasks : charged'[t] > charged[t] =>
       stopped[t].by \notin (rec.seen \cap fresh) \ Forgotten]_vars

\* A task to whoever submitted it.
lifeOf ==
  [t \in Tasks |->
     IF row[t] = "NEW" THEN [stage |-> "waiting", charges |-> charged[t]]
     ELSE IF row[t] = "RUNNING" THEN [stage |-> "working", charges |-> charged[t]]
     ELSE [stage |-> "over", charges |-> 0]]

Promise == INSTANCE JobLife WITH
  Jobs <- Tasks, Budget <- [t \in Tasks |-> MaxAttempts], life <- lifeOf

\* Stopping and restarting the workers under the queue, from candidates that may be
\* stale, beside a reclaim pass whose candidates may be stale too, keeps what the
\* queue promises: a task goes back only from an attempt, a charge stays within the
\* budget, and what is over is not brought back (control.py 341-365, maintenance.py
\* 130-205).
KeepsPromise == Promise!Spec

\* Whatever was stopped, killed, requeued in vain or left by a dead listener, a
\* RUNNING row without a worker is given back or closed in the end: a marker
\* never suspends reclaim for good (maintenance.py 107-127, 178-205).
NoRowLeftBehind == \A t \in Tasks : Orphan(t) ~> ~Orphan(t)

\* A restart that has stopped the container's workers starts them again, even if
\* the requeue between the two found no connection or the publisher has given up,
\* or owns up to the failed start; only the end of the listener itself keeps them
\* down in silence (control.py 397-407).
WorkersComeBack ==
  \A l \in Listeners :
    ~up[l] /\ lst[l].pc \in {"scan", "requeue", "start"} ~>
      up[l] \/ l \notin linked \/ (lst[l].pc = "ack" /\ ~lst[l].ok)
===============================================================================
