------------------------------ MODULE AnalysisRun ------------------------------
(***************************************************************************)
(* An analysis run (analysis/main.py): a phase per server walks its albums *)
(* and enqueues a job for each that needs work, holds at a number of live  *)
(* ones, reaps what has ended into the memory of the attempt, gives up on  *)
(* what stopped moving, and after a restart carries over what ended and    *)
(* adopts what is still live.                                              *)
(*                                                                         *)
(* A step is one database transaction of the parent, one wipe of the       *)
(* shared directory, or one change of a job's row.  A job is named by its  *)
(* album and by the attempt that enqueued it, for its id is new each time; *)
(* a rebuild of the indexes has no album.  A job brings songs or none, and *)
(* songs are counted by the job.                                           *)
(***************************************************************************)
EXTENDS ChildDrain

CONSTANTS
  NumServers,     \* servers in scope, when more than one
  NumAlbums,      \* albums they list
  MaxQueued,      \* MAX_QUEUED_ANALYSIS_JOBS
  RebuildEvery,   \* REBUILD_INDEX_BATCH_SIZE
  MaxRebuilds,    \* bound: rebuilds in the table at once
  MaxRestarts,    \* restarts of the run
  Faults,         \* kinds of disturbance that may happen
  MaxFaults       \* bound: disturbances a behaviour may contain

Servers == 1..NumServers
Albums == 1..NumAlbums
AlbumJobs == Albums \X (0..MaxRestarts)
Rebuilds == {0} \X (1..MaxRebuilds)
Jobs == AlbumJobs \cup Rebuilds
FaultKinds ==
  {"crash", "unlisted", "unended", "raise", "bare", "unchecked", "empty",
   "refused", "absent", "cancel"}

ASSUME AnalysisAssumption ==
  /\ NumServers \in Nat \ {0}
  /\ NumAlbums \in Nat \ {0}
  /\ MaxQueued \in Nat \ {0}
  /\ RebuildEvery \in Nat \ {0}
  /\ MaxRebuilds \in Nat
  /\ MaxRestarts \in Nat
  /\ MaxScore = 1
  /\ Faults \subseteq FaultKinds
  /\ MaxFaults \in Nat

VARIABLES
  scope,   \* how many servers the run has
  child,   \* task_status of the jobs
  parent,  \* status of the parent's row
  tries,   \* restarts the parent was charged
  pc,      \* where the attempt is, "off" when there is none
  loop,    \* the attempt's memory
  stir,    \* something child_marks shows changed since the parent read it
  faults,  \* disturbances so far
  fate,    \* how each job ended
  blind    \* a phase could not list the jobs of the one before it

vars ==
  <<scope, child, parent, tries, pc, loop, stir, faults, fate, blind>>

AlbumsOf(s) == IF scope = 1 THEN Albums ELSE {a \in Albums : (a % scope) + 1 = s}
FinalizeIndexes == scope = 1

\* Sub_type_identifier: the album of a job, none for a rebuild.
AlbumsIn(jobs) == {j[1] : j \in jobs} \ {0}
OfAlbums(jobs) == {j \in jobs : j[1] # 0}

\* at: the server; bad, barred: servers that failed, and those for good; songs:
\* tracks_analyzed_total; last: last_rebuild_count; active: active_jobs; known:
\* albums the work map knows as done; todo: albums still to walk; ok:
\* monitor_read_ok; moved: the signature changed; shown, held: the marks, and
\* those RUNNING; victims: still to be ended; call: the loop that monitors.  Two
\* are history: carried, the jobs the phase found ended, and read, those it reaped.
Loop ==
  [at : Servers, bad : SUBSET Servers, barred : SUBSET Servers, songs : Nat,
   failed : Nat, completed : Nat, launched : Nat, unchecked : Nat, bare : Nat,
   last : Nat, active : SUBSET AlbumJobs, adopted : SUBSET Albums,
   known : SUBSET Albums, todo : SUBSET Albums, stop : BOOLEAN,
   gives : 0..MaxGiveUps, ok : BOOLEAN, moved : BOOLEAN, shown : SUBSET Jobs,
   held : SUBSET Jobs, victims : SUBSET Jobs, call : {"walk", "wait", "drain"},
   carried : SUBSET AlbumJobs, read : SUBSET AlbumJobs]

NewLoop(s, bad, barred) ==
  [at |-> s, bad |-> bad, barred |-> barred, songs |-> 0, failed |-> 0,
   completed |-> 0, launched |-> 0, unchecked |-> 0, bare |-> 0, last |-> 0,
   active |-> {}, adopted |-> {}, known |-> {}, todo |-> {}, stop |-> FALSE,
   gives |-> 0, ok |-> TRUE, moved |-> TRUE, shown |-> {}, held |-> {},
   victims |-> {}, call |-> "walk", carried |-> {}, read |-> {}]

Places ==
  {"off", "phase", "list", "clean", "open", "walk", "monitor", "rebuild",
   "album", "watch", "giveup", "drain", "outcome", "wipe", "next", "union",
   "finish"}

\* sung, mute: the job succeeded and its album is complete, with songs analysed or
\* with none left to; part, gap: likewise, but tracks of it were out of reach.
Fates == {"none", "sung", "mute", "part", "gap", "fell"}

Init ==
  /\ scope \in {1, NumServers}
  /\ child = [j \in Jobs |-> NoRow]
  /\ parent = "live"
  /\ tries = 0
  /\ pc = "off"
  /\ loop = NewLoop(1, {}, {})
  /\ stir = FALSE
  /\ faults = 0
  /\ fate = [j \in Jobs |-> "none"]
  /\ blind = FALSE

Charge(kind) ==
  /\ kind \in Faults
  /\ faults < MaxFaults
  /\ faults' = faults + 1

ghosts == <<fate, blind>>
table == <<scope, child, parent, tries>>

\* What is left of a phase when it is over.
Failed == NewLoop(loop.at, loop.bad \cup {loop.at}, loop.barred)
Passed == NewLoop(loop.at, loop.bad, loop.barred)

\* Songs of the jobs in a set, and the failures among them.
Sung(jobs) == {j \in jobs : fate[j] \in {"sung", "part"}}
Fell(jobs) == {j \in jobs : fate[j] = "fell"}

\* Albums whose analysis is complete in the library.
Kept == AlbumsIn({j \in Jobs : fate[j] \in {"sung", "mute"}})

\* Albums a job of which succeeded, complete or not.
Served == AlbumsIn({j \in Jobs : fate[j] \notin {"none", "fell"}})

-------------------------------------------------------------------------------
(* The attempt, and the opening of a phase *)

Start ==
  /\ pc = "off"
  /\ parent = "live"
  /\ pc' = "phase"
  /\ UNCHANGED <<table, loop, stir, faults, ghosts>>

Ends == EndedAmong(child, Jobs)

\* _carried_over_tracks: songs are carried, failures are dropped.
Carry ==
  /\ pc = "phase"
  /\ child' = Without(child, Ends)
  /\ loop' = [loop EXCEPT !.songs = Cardinality(Sung(OfAlbums(Ends))),
                          !.carried = OfAlbums(Ends)]
  /\ pc' = "list"
  /\ UNCHANGED <<scope, parent, tries, stir, faults, ghosts>>

\* The rows are left for the first reap of the phase, which counts them.
CarryFails ==
  /\ pc = "phase"
  /\ Charge("unlisted")
  /\ pc' = "list"
  /\ UNCHANGED <<table, loop, stir, ghosts>>

\* Mutant of Adopting: the attempt begins from nothing.
AdoptingNothing(jobs) == [loop EXCEPT !.active = {}]

\* Mutant of Adopting: the jobs are waited for, their albums are walked again.
AdoptingJobs(jobs) ==
  [loop EXCEPT !.active = jobs, !.launched = Cardinality(jobs)]

\* Mutant of Adopting: what ended before the phase is taken for under way.
AdoptingEnded(jobs) ==
  [loop EXCEPT !.active = jobs, !.launched = Cardinality(jobs),
               !.adopted = AlbumsIn(jobs \cup loop.carried)]

\* The live jobs of an earlier attempt: waited for, and not enqueued again.
Adopting(jobs) ==
  [loop EXCEPT !.active = jobs, !.launched = Cardinality(jobs),
               !.adopted = AlbumsIn(jobs)]

\* Mutant of MayClean: whatever is live.
MayCleanAnyway(jobs) == jobs = jobs

\* The shared directory is wiped only when no child is live.
MayClean(jobs) == jobs = {}

\* _inflight_children.  What it finds is adopted once the albums are listed, and
\* nothing reads it in between.
List ==
  /\ pc = "list"
  /\ LET jobs == LiveAmong(child, Jobs) IN
     /\ loop' = Adopting(OfAlbums(jobs))
     /\ pc' = IF MayClean(jobs) THEN "clean" ELSE "open"
  /\ UNCHANGED <<table, stir, faults, ghosts>>

ListFails ==
  /\ pc = "list"
  /\ Charge("unlisted")
  /\ blind' = TRUE
  /\ pc' = "open"
  /\ UNCHANGED <<table, loop, stir, fate>>

\* clean_temp at the start.
Clean ==
  /\ pc = "clean"
  /\ pc' = "open"
  /\ UNCHANGED <<table, loop, stir, faults, ghosts>>

\* get_recent_albums and the work map.
Open ==
  /\ pc = "open"
  /\ AlbumsOf(loop.at) # {}
  /\ loop' = [loop EXCEPT !.todo = AlbumsOf(loop.at), !.known = Kept]
  /\ pc' = "walk"
  /\ UNCHANGED <<table, stir, faults, ghosts>>

\* "No new albums to analyze": the phase succeeds, whatever is live.
OpenEmpty ==
  /\ pc = "open"
  /\ IF AlbumsOf(loop.at) = {} THEN UNCHANGED faults ELSE Charge("empty")
  /\ pc' = IF scope = 1 THEN "finish" ELSE "next"
  /\ loop' = Passed
  /\ UNCHANGED <<table, stir, ghosts>>

-------------------------------------------------------------------------------
(* monitor_and_clear_jobs *)

\* _absorb_reaped for every row of the reap.  A row carries tracks_analyzed only in
\* the summary of a job that returned.
Absorbed(jobs) ==
  [loop EXCEPT !.active = @ \ jobs,
               !.completed = @ + Cardinality(OfAlbums(jobs)),
               !.songs = @ + Cardinality(Sung(OfAlbums(jobs))),
               !.failed = @ + Cardinality(Fell(OfAlbums(jobs))),
               !.read = @ \cup OfAlbums(jobs)]

\* The rebuild that is due once enough albums were completed.
Due(l) == FinalizeIndexes /\ l.completed - l.last >= RebuildEvery

\* A drain that has nothing left to wait for does not watch.
Back(l) ==
  CASE l.call = "walk" -> "album"
    [] l.call = "drain" /\ l.active = {} -> "drain"
    [] OTHER -> "watch"

AfterMonitor(l) == IF Due(l) THEN "rebuild" ELSE Back(l)

\* The reap and the marks are one transaction.
Monitor ==
  /\ pc = "monitor"
  /\ child' = Without(child, Ends)
  /\ LET live == LiveAmong(child, Jobs)
         l == [Absorbed(Ends) EXCEPT
                 !.ok = TRUE, !.moved = @ \/ stir, !.shown = live,
                 !.held = RunningAmong(child, Jobs)]
     IN loop' = l /\ pc' = AfterMonitor(l)
  /\ stir' = FALSE
  /\ UNCHANGED <<scope, parent, tries, faults, ghosts>>

\* ANALYSIS_MONITOR_DB_INTERVAL is not over.
MonitorNotDue ==
  /\ pc = "monitor"
  /\ pc' = AfterMonitor(loop)
  /\ UNCHANGED <<table, loop, stir, faults, ghosts>>

\* Mutant of RolledBack: the counters of the reap stay.
RolledBackRows == Absorbed(Ends)

\* The reap is rolled back, and the snapshot restored.
RolledBack == loop

MonitorFails ==
  /\ pc = "monitor"
  /\ Charge("unlisted")
  /\ LET l == [RolledBack EXCEPT !.ok = FALSE] IN
     loop' = l /\ pc' = AfterMonitor(l)
  /\ UNCHANGED <<table, stir, ghosts>>

\* A rebuild that finds MaxRebuilds in the table is left out.
Rebuild ==
  /\ pc = "rebuild"
  /\ LET free == {j \in Rebuilds : child[j].st = "none"} IN
     IF free = {}
     THEN UNCHANGED <<child, stir>>
     ELSE /\ child' = [child EXCEPT ![CHOOSE j \in free : TRUE] = Queued]
          /\ stir' = TRUE
  /\ loop' = [loop EXCEPT !.last = loop.completed]
  /\ pc' = Back(loop)
  /\ UNCHANGED <<scope, parent, tries, faults, ghosts>>

-------------------------------------------------------------------------------
(* The walk over the albums *)

\* The albums come in some order.
Album == CHOOSE a \in loop.todo : TRUE
Walked == [loop EXCEPT !.todo = @ \ {Album}]
Full == Cardinality(loop.active) >= MaxQueued

Walk ==
  /\ pc = "walk"
  /\ loop.todo # {}
  /\ loop' = [loop EXCEPT !.call = "walk"]
  /\ pc' = "monitor"
  /\ UNCHANGED <<table, stir, faults, ghosts>>

\* No track came back for any album.
Unreadable ==
  loop.launched = 0 /\ loop.bare = Cardinality(AlbumsOf(loop.at))

\* All albums were walked, or the walk broke off.
WalkEnds ==
  /\ pc = "walk"
  /\ loop.todo = {}
  /\ IF Unreadable
     THEN pc' = "next" /\ loop' = Failed
     ELSE pc' = "drain" /\ loop' = [loop EXCEPT !.call = "drain", !.known = {},
                                              !.adopted = {}]
  /\ UNCHANGED <<table, stir, faults, ghosts>>

\* The throttle: monitor and watch until there is room.
Throttle ==
  /\ pc = "album"
  /\ Album \notin loop.adopted
  /\ Full
  /\ loop' = [loop EXCEPT !.call = "wait"]
  /\ pc' = "monitor"
  /\ UNCHANGED <<table, stir, faults, ghosts>>

\* Adopted, or nothing left to do for it.
PassBy ==
  /\ pc = "album"
  /\ \/ Album \in loop.adopted
     \/ ~Full /\ Album \in loop.known
  /\ loop' = Walked
  /\ pc' = "walk"
  /\ UNCHANGED <<table, stir, faults, ghosts>>

\* The server names no track of it, or its work cannot be told.
PassByOddly ==
  /\ pc = "album"
  /\ Album \notin loop.adopted
  /\ ~Full
  /\ \/ Charge("bare") /\ loop' = [Walked EXCEPT !.bare = @ + 1]
     \/ Charge("unchecked") /\ loop' = [Walked EXCEPT !.unchecked = @ + 1]
  /\ pc' = "walk"
  /\ UNCHANGED <<table, stir, ghosts>>

\* Nothing here looks at the parent's row.
Dispatch ==
  /\ pc = "album"
  /\ Album \notin loop.adopted \cup loop.known
  /\ ~Full
  /\ LET j == <<Album, tries>> IN
     /\ child' = [child EXCEPT ![j] = Queued]
     /\ loop' = [Walked EXCEPT !.active = @ \cup {j}, !.launched = @ + 1]
  /\ stir' = TRUE
  /\ pc' = "walk"
  /\ UNCHANGED <<scope, parent, tries, faults, ghosts>>

-------------------------------------------------------------------------------
(* watch_for_a_wedged_child *)

Pending == loop.shown \cup loop.active

\* After the watch: the throttle breaks off, or goes round; the drain goes round.
Leave(l) ==
  CASE l.call = "drain" -> "drain"
    [] l.call = "wait" /\ ~l.stop -> "album"
    [] OTHER -> "walk"

\* The break out of the walk.
Left(l) == IF l.stop THEN [l EXCEPT !.todo = {}] ELSE l

\* The window starts again, or is not over, or nobody is there to give up on.
Watch ==
  /\ pc = "watch"
  /\ LET l == IF loop.ok THEN [loop EXCEPT !.moved = FALSE] ELSE loop IN
     loop' = l /\ pc' = Leave(l)
  /\ UNCHANGED <<table, stir, faults, ghosts>>

\* Nothing moved for ANALYSIS_STALL_TIMEOUT_MINUTES.
GiveUp ==
  /\ pc = "watch"
  /\ loop.ok /\ ~loop.moved
  /\ Pending # {}
  /\ loop' = [loop EXCEPT !.victims = StalledVictims(loop.held, Pending)]
  /\ pc' = "giveup"
  /\ UNCHANGED <<table, stir, faults, ghosts>>

\* _end_child, a transaction each.
EndVictim ==
  /\ pc = "giveup"
  /\ \E j \in loop.victims :
       /\ loop' = [loop EXCEPT !.victims = @ \ {j}]
       /\ \/ /\ child' = EndChild(child, j, "failure")
             /\ fate' = [fate EXCEPT ![j] = IF child[j].st \in Live THEN "fell" ELSE @]
             /\ stir' = (stir \/ child[j].st \in Live)
             /\ UNCHANGED faults
          \/ Charge("unended") /\ UNCHANGED <<child, fate, stir>>
  /\ UNCHANGED <<scope, parent, tries, pc, blind>>

GivenUp ==
  /\ pc = "giveup"
  /\ loop.victims = {}
  /\ LET gives == OneMore(loop.gives)
         l == [loop EXCEPT !.gives = gives, !.stop = @ \/ Exhausted(gives)]
     IN loop' = Left(l) /\ pc' = Leave(l)
  /\ UNCHANGED <<table, stir, faults, ghosts>>

\* while active_jobs.
Drain ==
  /\ pc = "drain"
  /\ IF loop.active = {}
     THEN /\ pc' = "outcome"
          /\ loop' = [loop EXCEPT !.shown = {}, !.held = {}, !.moved = FALSE]
     ELSE pc' = "monitor" /\ UNCHANGED loop
  /\ UNCHANGED <<table, stir, faults, ghosts>>

-------------------------------------------------------------------------------
(* The end of a phase and of the run *)

\* _phase_outcome.
NothingAnalyzed ==
  \/ loop.launched > 0 /\ loop.failed >= loop.launched
  \/ loop.launched = 0 /\ loop.unchecked > 0

\* The final build and report.
Outcome ==
  /\ pc = "outcome"
  /\ pc' = "wipe"
  /\ loop' = IF NothingAnalyzed
             THEN [loop EXCEPT !.bad = @ \cup {loop.at}]
             ELSE loop
  /\ UNCHANGED <<table, stir, faults, ghosts>>

\* clean_temp at the end, under no condition.
Wipe ==
  /\ pc = "wipe"
  /\ pc' = IF scope = 1 /\ loop.bad = {} THEN "finish" ELSE "next"
  /\ loop' = Passed
  /\ UNCHANGED <<table, stir, faults, ghosts>>

Over ==
  /\ pc' = "off"
  /\ loop' = NewLoop(1, {}, {})
  /\ stir' = FALSE

\* The row is charged and requeued, or fails.
Lose ==
  /\ Over
  /\ IF parent = "live" /\ tries = MaxRestarts
     THEN parent' = "failure" /\ UNCHANGED tries
     ELSE UNCHANGED parent /\ tries' = IF parent = "live" THEN tries + 1 ELSE tries

\* TaskFailed: the queue does not retry it.
LoseForGood ==
  /\ Over
  /\ parent' = IF parent = "live" THEN "failure" ELSE parent
  /\ UNCHANGED tries

\* The phase of a single server that failed is the run's failure.
SingleFails ==
  /\ pc = "next"
  /\ scope = 1
  /\ IF loop.barred # {} THEN LoseForGood ELSE Lose
  /\ UNCHANGED <<scope, child, faults, ghosts>>

NextPhase ==
  /\ pc = "next"
  /\ loop.at < scope
  /\ loop' = NewLoop(loop.at + 1, loop.bad, loop.barred)
  /\ pc' = "phase"
  /\ stir' = FALSE
  /\ UNCHANGED <<table, faults, ghosts>>

LastPhase ==
  /\ pc = "next"
  /\ scope > 1
  /\ loop.at = scope
  /\ pc' = "union"
  /\ UNCHANGED <<table, loop, stir, faults, ghosts>>

\* _finish_union_run.
UnionEnds ==
  /\ pc = "union"
  /\ IF Cardinality(loop.bad) < scope
     THEN /\ pc' = "finish"
          /\ UNCHANGED <<parent, tries, loop, stir>>
     ELSE IF loop.bad = loop.barred THEN LoseForGood ELSE Lose
  /\ UNCHANGED <<scope, child, faults, ghosts>>

\* The worker's verdict, on a row that is still its own.
Finish ==
  /\ pc = "finish"
  /\ parent' = IF parent = "live" THEN "success" ELSE parent
  /\ Over
  /\ UNCHANGED <<scope, child, tries, faults, ghosts>>

Phase ==
  {"phase", "list", "clean", "open", "walk", "monitor", "rebuild", "album",
   "watch", "giveup", "drain", "outcome", "wipe"}

\* An error that is neither a cancel nor a lost database fails the phase.
PhaseRaises ==
  /\ pc \in Phase
  /\ Charge("raise")
  /\ loop' = Failed
  /\ pc' = "next"
  /\ UNCHANGED <<table, stir, ghosts>>

\* The server names no album, because it refuses the credentials.
Refused ==
  /\ pc = "open"
  /\ Charge("refused")
  /\ loop' = [Failed EXCEPT !.barred = @ \cup {loop.at}]
  /\ pc' = "next"
  /\ UNCHANGED <<table, stir, ghosts>>

\* cancel(), which looks at the row every so often.
StandDown ==
  /\ pc \in {"phase", "walk", "monitor", "union", "next"}
  /\ parent # "live"
  /\ Over
  /\ UNCHANGED <<table, faults, ghosts>>

-------------------------------------------------------------------------------
(* The jobs, the user, and what breaks *)

Beats(j) ==
  /\ child[j].left > 0
  /\ child' = [child EXCEPT ![j] = Beaten(@)]
  /\ UNCHANGED <<fate, faults>>

\* A dead worker, or an album with a track that failed, among others that did not.
Breaks(j) ==
  /\ child' = [child EXCEPT ![j] = Charged(@)]
  /\ fate' = [fate EXCEPT ![j] = IF child'[j].st = "failure" THEN "fell" ELSE @]
  /\ UNCHANGED faults

\* An album may succeed with tracks the server no longer has, among others.
Succeeds(j) ==
  \E score \in 0..MaxScore :
    /\ child' = [child EXCEPT ![j] = Succeeded(@, score)]
    /\ \/ /\ fate' = [fate EXCEPT ![j] = IF score > 0 THEN "sung" ELSE "mute"]
          /\ UNCHANGED faults
       \/ /\ j \in AlbumJobs
          /\ Charge("absent")
          /\ fate' = [fate EXCEPT ![j] = IF score > 0 THEN "part" ELSE "gap"]

Job(j) ==
  /\ parent = "live"
  /\ \/ /\ child[j].st = "queued"
        /\ child' = [child EXCEPT ![j] = Claimed(@)]
        /\ UNCHANGED <<fate, faults>>
     \/ /\ child[j].st = "running"
        /\ Beats(j) \/ Breaks(j) \/ Succeeds(j)
  /\ stir' = (pc # "off")
  /\ UNCHANGED <<scope, parent, tries, pc, loop, blind>>

\* A job whose parent ended finds out and stops; its row is swept.
Orphan(j) ==
  /\ parent # "live"
  /\ child[j].st # "none"
  /\ child' = [child EXCEPT ![j] = NoRow]
  /\ UNCHANGED <<scope, parent, tries, pc, loop, stir, faults, ghosts>>

\* A cancel takes the parent and every row of its family at once.
Cancel ==
  /\ parent = "live"
  /\ Charge("cancel")
  /\ parent' = "revoked"
  /\ child' = [j \in Jobs |-> NoRow]
  /\ UNCHANGED <<scope, tries, pc, loop, stir, ghosts>>

\* The worker dies, or an OperationalError ends the attempt.
Crash ==
  /\ pc # "off"
  /\ "crash" \in Faults
  /\ Lose
  /\ UNCHANGED <<scope, child, faults, ghosts>>

Opening ==
  Start \/ Carry \/ CarryFails \/ List \/ ListFails \/ Clean \/ Open \/ OpenEmpty
  \/ Refused

Loops ==
  \/ Walk \/ WalkEnds \/ Throttle \/ PassBy \/ PassByOddly \/ Dispatch \/ Drain
  \/ Monitor \/ MonitorNotDue \/ MonitorFails \/ Rebuild
  \/ Watch \/ GiveUp \/ EndVictim \/ GivenUp

Closing ==
  \/ Outcome \/ Wipe \/ SingleFails \/ NextPhase \/ LastPhase \/ UnionEnds
  \/ Finish \/ PhaseRaises \/ StandDown

Attempt == Opening \/ Loops \/ Closing

Next ==
  \/ Attempt
  \/ \E j \in Jobs : Job(j) \/ Orphan(j)
  \/ Cancel \/ Crash

Spec == Init /\ [][Next]_vars

\* The attempt goes on, the interval between two reads passes, and the window
\* runs out over and over for a run in which nothing moves; the jobs need never
\* do anything.
Fairness == WF_vars(Attempt) /\ SF_vars(Monitor) /\ SF_vars(GiveUp)

FairSpec == Spec /\ Fairness

-------------------------------------------------------------------------------
(* Properties *)

TypeOK ==
  /\ scope \in {1, NumServers}
  /\ child \in [Jobs -> ChildRow]
  /\ parent \in {"live", "success", "failure", "revoked"}
  /\ tries \in 0..MaxRestarts
  /\ pc \in Places
  /\ loop \in Loop
  /\ stir \in BOOLEAN
  /\ faults \in 0..MaxFaults
  /\ fate \in [Jobs -> Fates]
  /\ blind \in BOOLEAN

\* Two attempts never have an album under way at once, whatever was live, ended or
\* requeued when the later one began ("their albums will not be enqueued again").
OneJobPerAlbum ==
  ~blind =>
    \A j, k \in LiveAmong(child, AlbumJobs) : j[1] = k[1] => j = k

\* The directory all workers share is wiped only when no album of the run is under
\* way, by the wipe that looks and by the one that does not.  An attempt whose first
\* listing failed (blind) knows nothing of the jobs before it and is left out: its
\* last wipe may find one of them at work.
WipesNothingLive ==
  pc \in {"clean", "wipe"} /\ ~blind => LiveAmong(child, AlbumJobs) = {}

\* The counters of a phase are those of the jobs whose rows it took away, whatever
\* was rolled back ("no album is counted twice or lost").
TallyIsExact ==
  pc \in Phase \ {"phase"} =>
    /\ loop.songs = Cardinality(Sung(loop.read \cup loop.carried))
    /\ loop.completed = Cardinality(loop.read)
    /\ loop.failed = Cardinality(Fell(loop.read))

\* A phase that goes through its list answers for every album on it: analysed as
\* far as it was within reach, or among its failures, or named as bare or unchecked.
NothingForgotten ==
  pc = "wipe" /\ ~loop.stop =>
    Cardinality({a \in AlbumsOf(loop.at) : a \notin Served \cup AlbumsIn(Fell(loop.read))})
      <= loop.bare + loop.unchecked

\* An album whose analysis is complete is not enqueued again.
NeverRedone ==
  [][~blind =>
       \A j \in AlbumJobs :
         child[j].st = "none" /\ child'[j].st = "queued" => j[1] \notin Kept]_vars

\* Whatever becomes of the jobs, the workers and the attempts, the run ends
\* ("without this bound a run never ends").
RunEnds == <>(parent # "live")
===============================================================================
