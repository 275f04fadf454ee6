------------------------------ MODULE RestoreRuns ------------------------------
(***************************************************************************)
(* Restoring a backup (app_backup.py): uploads in chunks or in one piece,  *)
(* the lock file that allows one restore at a time and releases itself,    *)
(* the stop of the workers, and the detached runner that stops Flask,      *)
(* replays the dump with psql and brings the services back.                *)
(*                                                                         *)
(* The threads of the web process take the lock in four steps: they read   *)
(* its age, clear it when it is left over, create it, and stamp it.  Every *)
(* other step is one file operation, one call of the control plane, or one *)
(* command of the runner.  A dump is the set of the uploads its pieces     *)
(* came from.                                                              *)
(*                                                                         *)
(* A publication to the workers is one step here; its protocol is in       *)
(* ControlPlane.  It asks, and waits for, the containers whose listener is *)
(* connected at that moment, and no others (control.py 115-135, 208-216).  *)
(***************************************************************************)
EXTENDS Naturals, FiniteSets

CONSTANTS
  Uploads,    \* uploads, each of one browser tab or client
  Chunks,     \* total_chunks of each; 0 for an upload in one piece
  Containers, \* worker containers, each with a listener
  None,       \* no upload
  Faults,     \* kinds of disturbance that may happen
  MaxFaults   \* bound: disturbances a behaviour may contain

FaultKinds ==
  {"beat", "unreadable", "save", "join", "stop", "spawn", "flask", "psql",
   "start", "drop", "web", "crash"}

ASSUME RestoreAssumption ==
  /\ None \notin Uploads
  /\ Chunks \in [Uploads -> Nat]
  /\ Faults \subseteq FaultKinds
  /\ MaxFaults \in Nat

VARIABLES
  lock,     \* .restore.lock, and whose it is
  files,    \* the chunks directory: whose each piece is
  req,      \* per upload: its request, later its runner
  flask,    \* the web process serves
  up,       \* containers whose workers run
  linked,   \* containers whose listener is connected
  db,       \* what the database was restored from, and whether all of it
  verdict,  \* per upload: the RESTORE-RESULT marker
  faults,   \* disturbances so far
  stranded, \* history: whoever had to start the services could not
  unheard,  \* history: containers the last granted publication did not ask
  crowded   \* history: uploads that did not have the lock's protection

held == <<lock, crowded>>
fleet == <<up, linked, unheard>>
services == <<flask, fleet, stranded>>
vars == <<held, files, req, services, db, verdict, faults>>

\* Files of uploads with different totals have different names.
Piece(u, i) == <<i, Chunks[u]>>
Pieces(u) == {Piece(u, i) : i \in 1..Chunks[u]}
AllPieces == UNION {Pieces(u) : u \in Uploads}

Taking == {"age", "clear", "create", "stamp"}
Requested == Taking \cup {"check", "save", "join", "stop", "spawn", "undo", "release"}
Detached == {"begin", "abort", "reopen", "psql", "serve", "start", "free"}

\* From the complete dump to the release of the lock.
Restoring == {"stop", "spawn", "undo"} \cup Detached

Absent == [st |-> "none", by |-> None]
Untouched == [from |-> {}, whole |-> TRUE]

\* ok: psql returned 0 and was fed everything; served, back: flask_started,
\* workers_started.
Request ==
  [pc : {"idle", "over"} \cup Requested \cup Detached, chunk : Nat,
   dump : SUBSET Uploads, ok : BOOLEAN, served : BOOLEAN, back : BOOLEAN]

TypeOK ==
  /\ lock \in [st : {"none", "empty", "fresh", "old"}, by : Uploads \cup {None}]
  /\ files \in [AllPieces -> Uploads \cup {None}]
  /\ req \in [Uploads -> Request]
  /\ \A u \in Uploads :
       /\ req[u].chunk <= Chunks[u]
       /\ req[u].pc \in Restoring => req[u].dump # {}
  /\ flask \in BOOLEAN /\ stranded \in BOOLEAN
  /\ up \subseteq Containers /\ linked \subseteq Containers
  /\ unheard \subseteq Containers /\ crowded \subseteq Uploads
  /\ db \in [from : SUBSET Uploads, whole : BOOLEAN]
  /\ verdict \in [Uploads -> {"none", "aborted", "failed", "degraded", "completed"}]
  /\ faults \in 0..MaxFaults

Init ==
  /\ lock = Absent
  /\ files = [p \in AllPieces |-> None]
  /\ req = [u \in Uploads |->
              [pc |-> "idle", chunk |-> IF Chunks[u] = 0 THEN 0 ELSE 1, dump |-> {},
               ok |-> FALSE, served |-> FALSE, back |-> FALSE]]
  /\ flask = TRUE /\ stranded = FALSE
  /\ up = Containers /\ linked = Containers
  /\ unheard = {} /\ crowded = {}
  /\ db = Untouched
  /\ verdict = [u \in Uploads |-> "none"]
  /\ faults = 0

Fault(kind) ==
  /\ kind \in Faults
  /\ faults < MaxFaults
  /\ faults' = faults + 1

\* A step as it should go, or one that needs a disturbance of this kind.
Works(good, kind) == IF good THEN UNCHANGED faults ELSE Fault(kind)

Goes(u, pc) == req' = [req EXCEPT ![u].pc = pc]

\* The threads of the web process end with it.
Cut(r) ==
  [u \in Uploads |-> IF r[u].pc \in Requested THEN [r[u] EXCEPT !.pc = "over"] ELSE r[u]]

\* An upload is under way from the lock file it has created to its end.
Begun(u) ==
  /\ req[u].pc \notin {"age", "clear", "create", "over"}
  /\ req[u].pc = "idle" => req[u].chunk > 1
UnderWay == {u \in Uploads : Begun(u)}

\* From here on nobody who is under way is alone.
Crowding(yes) == crowded' = IF yes THEN crowded \cup UnderWay ELSE crowded

\* The file goes, whosever it is by now.
Unlink(u) ==
  /\ lock' = Absent
  /\ Crowding(lock.by \in UnderWay \ {u} /\ lock.st # "old")

\* A publication that nobody can hear is not sent, and not granted.
Granted == linked # {}

\* publish_stop_request: those who are asked stop, or some of them do and the
\* answer is no, or none comes in time.
WorkersStop(granted) ==
  IF granted
  THEN /\ Granted
       /\ up' = up \ linked
       /\ unheard' = Containers \ linked
       /\ UNCHANGED <<linked, faults>>
  ELSE /\ \/ ~Granted /\ UNCHANGED <<up, faults>>
          \/ Fault("stop") /\ \E some \in SUBSET linked : up' = up \ some
       /\ UNCHANGED <<linked, unheard>>

\* publish_start_request likewise.
WorkersStart(granted) ==
  /\ IF granted
     THEN /\ Granted
          /\ up' = up \cup linked
          /\ UNCHANGED <<stranded, faults>>
     ELSE \/ ~Granted /\ UNCHANGED <<up, stranded, faults>>
          \/ /\ Fault("start")
             /\ \E some \in SUBSET linked : up' = up \cup some
             /\ stranded' = TRUE
  /\ unheard' = Containers \ linked
  /\ UNCHANGED linked

-------------------------------------------------------------------------------
(* The restore endpoint *)

\* A client sends its next piece once the one before was answered.
Send(u) ==
  /\ flask
  /\ req[u].pc = "idle"
  /\ Goes(u, IF req[u].chunk <= 1 THEN "age" ELSE "check")
  /\ UNCHANGED <<held, files, services, db, verdict, faults>>

\* _restore_lock_age in _acquire_restore_lock.  A file that is still to be stamped
\* has no usable timestamp and reads as expired.
ReadAge(u) ==
  /\ req[u].pc = "age"
  /\ \/ /\ Goes(u, IF lock.st \in {"old", "empty"} THEN "clear" ELSE "create")
        /\ UNCHANGED faults
     \/ /\ lock.st # "none"
        /\ Fault("unreadable")
        /\ Goes(u, "over")
  /\ UNCHANGED <<held, files, services, db, verdict>>

\* A lock left behind is cleared: whatever is there by now.
Clear(u) ==
  /\ req[u].pc = "clear"
  /\ Unlink(u)
  /\ Goes(u, "create")
  /\ UNCHANGED <<files, services, db, verdict, faults>>

\* Mutant of Create: without O_EXCL.
CreateOver(u) ==
  /\ req[u].pc = "create"
  /\ lock' = [st |-> "empty", by |-> u]
  /\ Goes(u, "stamp")
  /\ UNCHANGED <<crowded, files, services, db, verdict, faults>>

\* O_CREAT | O_EXCL.  Whoever gets the lock while others go on without theirs is
\* not alone either.
Create(u) ==
  /\ req[u].pc = "create"
  /\ IF lock.st = "none"
     THEN /\ lock' = [st |-> "empty", by |-> u]
          /\ crowded' = IF crowded \cap UnderWay # {} THEN crowded \cup {u} ELSE crowded
          /\ Goes(u, "stamp")
     ELSE UNCHANGED held /\ Goes(u, "over")
  /\ UNCHANGED <<files, services, db, verdict, faults>>

\* The stamp goes to the file that was opened, if it is still there.
Stamp(u) ==
  /\ req[u].pc = "stamp"
  /\ lock' = IF lock.by = u THEN [lock EXCEPT !.st = "fresh"] ELSE lock
  /\ Goes(u, "save")
  /\ UNCHANGED <<crowded, files, services, db, verdict, faults>>

\* _restore_lock_held and _refresh_restore_lock: a lock is held, not whose.  One
\* that cannot be read counts as held, whatever its age, and is not refreshed.
Check(u) ==
  /\ req[u].pc = "check"
  /\ \/ /\ lock.st = "fresh"
        /\ Crowding(lock.by # u)
        /\ Goes(u, "save")
        /\ UNCHANGED <<lock, faults>>
     \/ /\ lock.st # "fresh"
        /\ Goes(u, "over")
        /\ UNCHANGED <<held, faults>>
     \/ /\ lock.st # "none"
        /\ Fault("unreadable")
        /\ lock' \in {lock, [lock EXCEPT !.st = "old"]}
        /\ Crowding(TRUE)
        /\ Goes(u, "save")
  /\ UNCHANGED <<files, services, db, verdict>>

\* Mutant of Wiped: what an earlier upload left is kept.
WipedNever(u) == files

\* The first piece of an upload wipes those of every other.
Wiped(u) == IF req[u].chunk = 1 THEN [p \in AllPieces |-> None] ELSE files

Piecewise(u) == Chunks[u] > 0

More(u) == req[u].chunk < Chunks[u]

Complete(fs, u) == \A p \in Pieces(u) : fs[p] # None

\* A piece is saved, and the directory read again.  A failure to save one of
\* several leaves the lock to expire.
Save(u) ==
  /\ req[u].pc = "save"
  /\ IF Piecewise(u)
     THEN /\ UNCHANGED held
          /\ LET i == req[u].chunk
                 saved == [Wiped(u) EXCEPT ![Piece(u, i)] = u]
             IN \/ /\ files' = saved
                   /\ req' = [req EXCEPT
                        ![u].pc = IF Complete(saved, u) THEN "join"
                                  ELSE IF More(u) THEN "idle" ELSE "over",
                        ![u].chunk = IF More(u) THEN i + 1 ELSE i]
                   /\ UNCHANGED faults
                \/ /\ Fault("save")
                   /\ files' = Wiped(u)
                   /\ Goes(u, "over")
     ELSE /\ UNCHANGED files
          /\ \/ /\ req' = [req EXCEPT ![u].pc = "stop", ![u].dump = {u}]
                /\ UNCHANGED <<held, faults>>
             \/ Fault("save") /\ Unlink(u) /\ Goes(u, "over")
  /\ UNCHANGED <<services, db, verdict>>

Joined(u) == [p \in AllPieces |-> IF p \in Pieces(u) THEN None ELSE files[p]]

\* The pieces become one dump; a missing one fails the upload.
Join(u) ==
  /\ req[u].pc = "join"
  /\ files' = Joined(u)
  /\ IF Complete(files, u)
     THEN \/ /\ req' = [req EXCEPT ![u].pc = "stop",
                                   ![u].dump = {files[p] : p \in Pieces(u)}]
             /\ UNCHANGED <<held, faults>>
          \/ Fault("join") /\ Unlink(u) /\ Goes(u, "over")
     ELSE Unlink(u) /\ Goes(u, "over") /\ UNCHANGED faults
  /\ UNCHANGED <<services, db, verdict>>

\* The restore goes on only if the stop is granted.
StopWorkers(u) ==
  /\ req[u].pc = "stop"
  /\ \E granted \in BOOLEAN :
       WorkersStop(granted) /\ Goes(u, IF granted THEN "spawn" ELSE "undo")
  /\ UNCHANGED <<held, files, flask, stranded, db, verdict>>

\* The runner takes over the workers and the lock.
Spawn(u) ==
  /\ req[u].pc = "spawn"
  /\ \/ Goes(u, "begin") /\ UNCHANGED faults
     \/ Fault("spawn") /\ Goes(u, "undo")
  /\ UNCHANGED <<held, files, services, db, verdict>>

\* Mutant of Undo: the lock goes, the workers stay.
UndoLockOnly(u) ==
  /\ req[u].pc = "undo"
  /\ Goes(u, "release")
  /\ UNCHANGED <<held, files, services, db, verdict, faults>>

Undo(u) ==
  /\ req[u].pc = "undo"
  /\ \E granted \in BOOLEAN : WorkersStart(granted)
  /\ Goes(u, "release")
  /\ UNCHANGED <<held, files, flask, db, verdict>>

\* _release_restore_lock removes the file, whosever it is.
Release(u) ==
  /\ req[u].pc = "release"
  /\ Unlink(u)
  /\ Goes(u, "over")
  /\ UNCHANGED <<files, services, db, verdict, faults>>

Handle(u) ==
  \/ ReadAge(u) \/ Clear(u) \/ Create(u) \/ Stamp(u) \/ Check(u) \/ Save(u)
  \/ Join(u) \/ StopWorkers(u) \/ Spawn(u) \/ Undo(u) \/ Release(u)

-------------------------------------------------------------------------------
(* The runner: _run_restore_steps *)

\* Mutant of Begin: the answer of supervisorctl is not looked at.
BeginAnyway(u) ==
  /\ req[u].pc = "begin"
  /\ \/ /\ flask' = FALSE
        /\ req' = [Cut(req) EXCEPT ![u].pc = "psql"]
        /\ UNCHANGED faults
     \/ Fault("flask") /\ UNCHANGED flask /\ Goes(u, "psql")
  /\ UNCHANGED <<held, files, fleet, stranded, db, verdict>>

Begin(u) ==
  /\ req[u].pc = "begin"
  /\ \/ /\ flask' = FALSE
        /\ req' = [Cut(req) EXCEPT ![u].pc = "psql"]
        /\ UNCHANGED faults
     \/ /\ Fault("flask")
        /\ \/ flask' = FALSE /\ req' = [Cut(req) EXCEPT ![u].pc = "abort"]
           \/ UNCHANGED flask /\ Goes(u, "abort")
  /\ UNCHANGED <<held, files, fleet, stranded, db, verdict>>

\* Flask did not confirm: the database is not touched.
Abort(u) ==
  /\ req[u].pc = "abort"
  /\ \E granted \in BOOLEAN : WorkersStart(granted)
  /\ Goes(u, "reopen")
  /\ UNCHANGED <<held, files, flask, db, verdict>>

FlaskStarts ==
  \/ flask' = TRUE /\ UNCHANGED <<stranded, faults>>
  \/ Fault("flask") /\ UNCHANGED flask /\ stranded' = (stranded \/ ~flask)

Reopen(u) ==
  /\ req[u].pc = "reopen"
  /\ FlaskStarts
  /\ Unlink(u)
  /\ verdict' = [verdict EXCEPT ![u] = "aborted"]
  /\ Goes(u, "over")
  /\ UNCHANGED <<files, fleet, db>>

\* psql in one transaction.  A dump that was not streamed to its end is a failure,
\* though psql returned 0 and committed the part it was fed.
Replay(u) ==
  /\ req[u].pc = "psql"
  /\ \E whole \in BOOLEAN :
       /\ Works(whole, "psql")
       /\ db' = [from |-> req[u].dump, whole |-> whole]
       /\ req' = [req EXCEPT ![u].pc = "serve", ![u].ok = whole]
  /\ UNCHANGED <<held, files, services, verdict>>

\* psql fails, or is killed before or after it committed.
ReplayFails(u) ==
  /\ req[u].pc = "psql"
  /\ Fault("psql")
  /\ db' \in {db, [from |-> req[u].dump, whole |-> TRUE]}
  /\ Goes(u, "serve")
  /\ UNCHANGED <<held, files, services, verdict>>

\* Flask first, for it migrates what was restored.
Serve(u) ==
  /\ req[u].pc = "serve"
  /\ FlaskStarts
  /\ req' = [req EXCEPT ![u].pc = "start", ![u].served = flask']
  /\ UNCHANGED <<held, files, fleet, db, verdict>>

Start(u) ==
  /\ req[u].pc = "start"
  /\ \E granted \in BOOLEAN :
       /\ WorkersStart(granted)
       /\ req' = [req EXCEPT ![u].pc = "free", ![u].back = granted]
  /\ UNCHANGED <<held, files, flask, db, verdict>>

Free(u) ==
  /\ req[u].pc = "free"
  /\ Unlink(u)
  /\ verdict' = [verdict EXCEPT ![u] =
       IF ~req[u].ok THEN "failed"
       ELSE IF req[u].served /\ req[u].back THEN "completed" ELSE "degraded"]
  /\ Goes(u, "over")
  /\ UNCHANGED <<files, services, db, faults>>

Run(u) ==
  \/ Begin(u) \/ Abort(u) \/ Reopen(u) \/ Replay(u) \/ ReplayFails(u)
  \/ Serve(u) \/ Start(u) \/ Free(u)

-------------------------------------------------------------------------------
(* The rest *)

\* RESTORE_LOCK_TTL_SECONDS have passed.  A request takes less; a runner refreshes
\* the stamp, unless one refresh has failed or found no file, for then it stops.
Expire ==
  /\ lock.st = "fresh"
  /\ \A u \in Uploads : req[u].pc \notin Requested \ Taking
  /\ LET beaten == {u \in Uploads : req[u].pc \in Detached} IN
     /\ Works(beaten \subseteq crowded, "beat")
     /\ Crowding(beaten # {})
  /\ lock' = [lock EXCEPT !.st = "old"]
  /\ UNCHANGED <<files, req, services, db, verdict>>

\* The connection of a listener breaks, and is made again.
Drop(c) ==
  /\ c \in linked
  /\ Fault("drop")
  /\ linked' = linked \ {c}
  /\ UNCHANGED <<held, files, req, flask, up, unheard, stranded, db, verdict>>

Link(c) ==
  /\ c \notin linked
  /\ linked' = linked \cup {c}
  /\ UNCHANGED <<held, files, req, flask, up, unheard, stranded, db, verdict, faults>>

\* The web process dies, and the supervisor starts it again.
WebDies ==
  /\ flask
  /\ Fault("web")
  /\ req' = Cut(req)
  /\ stranded' = (stranded \/ \E u \in Uploads : req[u].pc \in {"spawn", "undo"})
  /\ UNCHANGED <<held, files, flask, fleet, db, verdict>>

\* The runner is killed.
RunnerDies(u) ==
  /\ req[u].pc \in Detached
  /\ Fault("crash")
  /\ Goes(u, "over")
  /\ stranded' = TRUE
  /\ UNCHANGED <<held, files, flask, fleet, db, verdict>>

Next ==
  \/ \E u \in Uploads : Send(u) \/ Handle(u) \/ Run(u) \/ RunnerDies(u)
  \/ \E c \in Containers : Drop(c) \/ Link(c)
  \/ Expire \/ WebDies

Spec == Init /\ [][Next]_vars

\* A request and a runner go on.  Nothing is assumed of clients or of clocks.
Fairness == \A u \in Uploads : WF_vars(Handle(u)) /\ WF_vars(Run(u))

FairSpec == Spec /\ Fairness

-------------------------------------------------------------------------------
(* Properties *)

\* One restore at a time (app_backup.py 80): what the module promises and the
\* code does not keep.
OnlyOneRestore ==
  \A t, u \in Uploads : req[t].pc \in Restoring /\ req[u].pc \in Restoring => t = u

\* Two restores are never at work side by side, over uploads that begin together,
\* that are abandoned and expire, that fail half way or die, unless an upload that
\* was under way lost a good lock to another that unlinked it, or went on under
\* one that was not its own, or its runner stopped refreshing it (app_backup.py
\* 133-171, 988-1004).
OneRestore ==
  \A t, u \in Uploads :
    /\ req[t].pc \in Restoring /\ req[u].pc \in Restoring
    /\ t # u
    => {t, u} \subseteq crowded

\* psql replaces the database of a restore that is alone only while the web process
\* is down, and the workers of every container that had a listener to hear the stop
\* (app_backup.py 36-39, 1134-1142, control.py 115-135).
QuietReplay ==
  \A u \in Uploads \ crowded : req[u].pc = "psql" => ~flask /\ up \subseteq unheard

\* A restore that was alone and reports success has put into the database the whole
\* of one upload, its own, however many were started, cut off, overtaken or wiped
\* before (app_backup.py 988-1022, 619-680).
CompletedIsWhole ==
  [][\A u \in Uploads \ crowded :
       verdict[u] # "completed" /\ verdict'[u] = "completed"
         => db = [from |-> {u}, whole |-> TRUE]]_vars

\* Whatever fails on the way, whoever is crowded, the services come back, unless the
\* one that had to start them is dead or its call failed, and but for containers
\* that had no listener to hear the start.
ServicesReturn ==
  ~flask \/ up # Containers ~> stranded \/ (flask /\ up \cup unheard = Containers)
===============================================================================
