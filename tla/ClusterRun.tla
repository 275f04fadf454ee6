------------------------------ MODULE ClusterRun ------------------------------
(***************************************************************************)
(* A clustering run (clustering.py): the parent searches server after      *)
(* server in batches that are tasks of their own, keeps a window of them   *)
(* live, reaps what has ended into counters it keeps on its own row, gives *)
(* up on what stopped moving, and after a restart goes on from that row.   *)
(*                                                                         *)
(* A step is one database transaction of the parent or one change of a     *)
(* batch's row.  The search is a score, calibration and naming are steps   *)
(* of the attempt that change nothing the model keeps, and a batch counts  *)
(* as one completed run.  The start lock is not modelled: the check of the *)
(* parent and the write that fences it are one step.                       *)
(***************************************************************************)
EXTENDS ChildDrain

CONSTANTS
  NumServers,     \* servers in scope
  NumBatches,     \* num_total_batches
  Thin,           \* servers with too few tracks to cluster
  MaxLive,        \* MAX_CONCURRENT_BATCH_JOBS
  MaxFailed,      \* CLUSTERING_MAX_FAILED_BATCHES
  EarlyStop,      \* CLUSTERING_EARLY_STOP_BATCHES
  MaxRestarts,    \* restarts of the run
  Faults,         \* kinds of disturbance that may happen
  MaxFaults       \* bound: disturbances a behaviour may contain

Servers == 0..(NumServers - 1)
Ids == Servers \X (0..(NumBatches - 1))
FaultKinds ==
  {"crash", "unwritten", "unlisted", "unended", "raise", "cancel"}

ASSUME ClusterAssumption ==
  /\ NumServers \in Nat \ {0}
  /\ NumBatches \in Nat \ {0}
  /\ Thin \subseteq Servers
  /\ MaxLive \in Nat \ {0}
  /\ MaxFailed \in Nat
  /\ EarlyStop \in Nat
  /\ MaxRestarts \in Nat
  /\ Faults \subseteq FaultKinds
  /\ MaxFaults \in Nat

VARIABLES
  child,   \* task_status of the batches
  parent,  \* status of the parent's row
  saved,   \* the counters on the parent's row
  tries,   \* restarts the parent was charged
  pc,      \* where the attempt is, "off" when there is none
  state,   \* _main_task_accumulated_details of the attempt
  loop,    \* the rest of the attempt's memory
  stir,    \* something child_marks shows changed since the parent read it
  faults,  \* disturbances so far
  won,     \* batches whose success was counted
  lost,    \* batches whose failure was counted
  top,     \* the best score counted, until the run is summed up
  far      \* the latest server the row has named

vars ==
  <<child, parent, saved, tries, pc, state, loop, stir, faults, won, lost, top,
    far>>

Tally ==
  [srv : Servers, launched : Nat, runs : Nat, failed : Nat, stale : Nat,
   best : 0..MaxScore]

\* The counters every server begins with.
Zero(s) ==
  [srv |-> s, launched |-> 0, runs |-> 0, failed |-> 0, stale |-> 0, best |-> 0]

\* at: the server; good: those with playlists; stop: stop_launching; gives:
\* give_ups; moved: the signature changed; shown, held: the marks, and those
\* RUNNING; out: the list of live batches; victims: still to be ended.
Loop ==
  [at : Servers, good : SUBSET Servers, stop : BOOLEAN, gives : 0..MaxGiveUps,
   moved : BOOLEAN, shown : SUBSET Ids, held : SUBSET Ids, out : SUBSET Ids,
   victims : SUBSET Ids]

NewLoop(s, good) ==
  [at |-> s, good |-> good, stop |-> FALSE, gives |-> 0, moved |-> FALSE,
   shown |-> {}, held |-> {}, out |-> {}, victims |-> {}]

Places ==
  {"off", "enter", "foreign", "absorb", "marks", "launch", "observe", "giveup",
   "test", "last", "tail", "next", "verdict", "finish"}

Of(s) == {i \in Ids : i[1] = s}
BatchId(s, b) == <<s, b>>

Init ==
  /\ child = [i \in Ids |-> NoRow]
  /\ parent = "live"
  /\ saved = Zero(0)
  /\ tries = 0
  /\ pc = "off"
  /\ state = Zero(0)
  /\ loop = NewLoop(0, {})
  /\ stir = FALSE
  /\ faults = 0
  /\ won = {}
  /\ lost = {}
  /\ top = [s \in Servers |-> 0]
  /\ far = 0

Charge(kind) ==
  /\ kind \in Faults
  /\ faults < MaxFaults
  /\ faults' = faults + 1

row == <<saved, far>>
ghosts == <<won, lost, top>>

\* Mutant of Written: the write does not look at the status of the row.
WrittenAnyway(tally) == saved' = tally /\ UNCHANGED <<far, faults>>

\* report: the write of the whole state, which a row that ended refuses.
Written(tally) ==
  /\ parent = "live"
  /\ saved' = tally
  /\ far' = IF tally.srv > far THEN tally.srv ELSE far
  /\ UNCHANGED faults

Unwritten ==
  /\ UNCHANGED row
  /\ \/ parent # "live" /\ UNCHANGED faults
     \/ parent = "live" /\ Charge("unwritten")

Report(tally) == Written(tally) \/ Unwritten

-------------------------------------------------------------------------------
(* The attempt: run_clustering_task *)

\* _resumable_progress: None unless something was launched or completed.
Resumable(tally) == tally.launched > 0 \/ tally.runs > 0

Start ==
  /\ pc = "off"
  /\ parent = "live"
  /\ LET resumed == IF Resumable(saved) THEN saved ELSE Zero(0) IN
     /\ state' = resumed
     /\ loop' = NewLoop(resumed.srv, {})
     /\ Report(resumed)
  /\ pc' = "enter"
  /\ IF Resumable(saved)
     THEN UNCHANGED <<won, lost, top>>
     ELSE won' = {} /\ lost' = {} /\ top' = [s \in Servers |-> 0]
  /\ UNCHANGED <<child, parent, tries, stir>>

\* A server later than the recorded one begins from nothing.
Entered(s) == IF s > state.srv THEN Zero(s) ELSE state

Enter ==
  /\ pc = "enter"
  /\ LET s == loop.at IN
     /\ state' = Entered(s)
     /\ Report(Entered(s))
     /\ pc' = IF s \in Thin \/ parent # "live" THEN "next" ELSE "foreign"
     /\ IF s > state.srv
        THEN /\ won' = won \ Of(s)
             /\ lost' = lost \ Of(s)
             /\ top' = [top EXCEPT ![s] = 0]
        ELSE UNCHANGED <<won, lost, top>>
  /\ UNCHANGED <<child, parent, tries, loop, stir>>

Foreign == Ids \ Of(state.srv)

\* _revoke_foreign_batches, a transaction each.
RevokeForeign ==
  /\ pc = "foreign"
  /\ \E i \in LiveAmong(child, Foreign) : child' = EndChild(child, i, "revoked")
  /\ UNCHANGED <<parent, row, tries, pc, state, loop, stir, faults, ghosts>>

\* All were ended, or could not be listed or ended: left alone.
ForeignDone ==
  /\ pc = "foreign"
  /\ IF LiveAmong(child, Foreign) = {} THEN UNCHANGED faults ELSE Charge("unlisted")
  /\ pc' = "absorb"
  /\ stir' = TRUE
  /\ UNCHANGED <<child, parent, row, tries, state, loop, ghosts>>

NextServer ==
  /\ pc = "next"
  /\ IF loop.at + 1 < NumServers
     THEN pc' = "enter" /\ loop' = NewLoop(loop.at + 1, loop.good)
     ELSE pc' = "verdict" /\ loop' = NewLoop(loop.at, loop.good)
  /\ stir' = FALSE
  /\ UNCHANGED <<child, parent, row, tries, state, faults, ghosts>>

\* The attempt is over; what it held in memory is gone.
Over ==
  /\ pc' = "off"
  /\ state' = Zero(0)
  /\ loop' = NewLoop(0, {})
  /\ stir' = FALSE

\* The row is charged and requeued, or fails.
Lose ==
  /\ Over
  /\ IF parent = "live" /\ tries = MaxRestarts
     THEN parent' = "failure" /\ UNCHANGED tries
     ELSE UNCHANGED parent /\ tries' = IF parent = "live" THEN tries + 1 ELSE tries

\* The final report, which drops the result: the playlists are there.
Summarize ==
  /\ pc = "verdict"
  /\ loop.good # {}
  /\ LET tally == [state EXCEPT !.best = 0] IN
     /\ state' = tally
     /\ \/ Written(tally) /\ top' = [top EXCEPT ![state.srv] = 0]
        \/ Unwritten /\ UNCHANGED top
  /\ pc' = "finish"
  /\ UNCHANGED <<child, parent, tries, loop, stir, won, lost>>

\* The worker's verdict, on a row that is still its own.
Finish ==
  /\ pc = "finish"
  /\ parent' = IF parent = "live" THEN "success" ELSE parent
  /\ Over
  /\ UNCHANGED <<child, row, tries, faults, ghosts>>

\* "No valid clustering solution found on any server": the error is reported with
\* the whole state before it is raised.
Fail ==
  /\ pc = "verdict"
  /\ loop.good = {}
  /\ Report(state)
  /\ Lose
  /\ UNCHANGED <<child, ghosts>>

\* cancel(), the launch that finds the parent ended, cancel(force=True).
StandDown ==
  /\ pc \in {"absorb", "launch", "tail"}
  /\ parent # "live"
  /\ Over
  /\ UNCHANGED <<child, parent, row, tries, faults, ghosts>>

-------------------------------------------------------------------------------
(* _absorb_finished_batches *)

Successes(ids) == {i \in ids : child[i].st = "success"}

\* The best of what is held and of what was read; equal ranks bring nothing new.
IsBest(best, ids) ==
  /\ best = state.best \/ \E i \in ids : child[i].score = best
  /\ best >= state.best /\ \A i \in ids : child[i].score <= best

\* What stale_batches may become: the rows come in any order, and the first of
\* the equally best results that brought something new resets it.
StaleAfter(best, ids) ==
  LET equals == Cardinality({i \in ids : child[i].score = best})
  IN IF best > state.best
     THEN (equals - 1)..(Cardinality(ids) - 1)
     ELSE {state.stale + Cardinality(ids)}

\* _absorb_batch_result for every reaped batch of this server.
Absorbed(best, stale, ids) ==
  [srv |-> state.srv, launched |-> state.launched,
   runs |-> state.runs + Cardinality(Successes(ids)),
   failed |-> state.failed + Cardinality(ids \ Successes(ids)),
   stale |-> stale, best |-> best]

Reaped == Without(child, EndedAmong(child, Ids))

\* Reaped batches whose id carries another prefix are dropped.
Unread == EndedAmong(child, Of(state.srv))

\* The reap and the counters are one transaction.
Counted(best, ids) ==
  /\ child' = Reaped
  /\ won' = won \cup Successes(ids)
  /\ lost' = lost \cup (ids \ Successes(ids))
  /\ top' = [top EXCEPT ![state.srv] = best]

\* Mutant of Discard: the rollback leaves the counters of the attempt alone.
DiscardRowsOnly(tally) == state' = tally /\ UNCHANGED <<child, ghosts>>

\* _discard_reap: roll back, and restore the snapshot.
Discard(tally) == UNCHANGED <<child, state, ghosts>>

AbsorbNothing ==
  /\ Unread = {}
  /\ child' = Reaped
  /\ UNCHANGED <<row, state, loop, faults, ghosts>>

AbsorbSome ==
  /\ Unread # {}
  /\ \E best \in 0..MaxScore : \E stale \in StaleAfter(best, Unread) :
       LET tally == Absorbed(best, stale, Unread) IN
       /\ IsBest(best, Unread)
       /\ \/ /\ Written(tally)
             /\ Counted(best, Unread)
             /\ state' = tally
             /\ loop' = [loop EXCEPT !.moved = @ \/ Successes(Unread) # {}]
          \/ Unwritten /\ Discard(tally) /\ UNCHANGED loop

Absorb(here, there) ==
  /\ pc = here
  /\ AbsorbNothing \/ AbsorbSome
  /\ pc' = there
  /\ UNCHANGED <<parent, tries, stir>>

-------------------------------------------------------------------------------
(* One pass of the loop of _cluster_one_server_impl *)

Limited == state.failed >= MaxFailed \/ state.stale >= EarlyStop

Marks ==
  /\ pc = "marks"
  /\ loop' = [loop EXCEPT
       !.shown = LiveAmong(child, Of(state.srv)),
       !.held = RunningAmong(child, Of(state.srv)),
       !.out = LiveAmong(child, Of(state.srv)),
       !.stop = @ \/ Limited,
       !.moved = @ \/ stir \/ (Limited /\ ~loop.stop)]
  /\ stir' = FALSE
  /\ pc' = "launch"
  /\ UNCHANGED <<child, parent, row, tries, state, faults, ghosts>>

\* The marks could not be read: the valve restarts, and the pass begins again.
MarksLost ==
  /\ pc = "marks"
  /\ Charge("unlisted")
  /\ pc' = "absorb"
  /\ UNCHANGED <<child, parent, row, tries, state, loop, stir, ghosts>>

MayLaunch ==
  /\ ~loop.stop
  /\ Cardinality(loop.out) < MaxLive
  /\ state.launched < NumBatches

\* insert_job, or TaskNotQueued: a row that is there is left to finish.
Enqueued(i) ==
  IF child[i].st = "none" THEN [child EXCEPT ![i] = Queued] ELSE child

\* Mutant of RolledBack: the enqueue is committed on its own.
RolledBackCounter(i) ==
  /\ child' = Enqueued(i)
  /\ UNCHANGED <<state, loop, stir>>

\* The write was refused: the enqueue goes with it.
RolledBack(i) == UNCHANGED <<child, state, loop, stir>>

\* _launch_batch_job and the write that commits it.
Launch ==
  /\ pc = "launch"
  /\ MayLaunch
  /\ LET i == BatchId(state.srv, state.launched)
         tally == [state EXCEPT !.launched = @ + 1]
     IN \/ /\ Written(tally)
           /\ child' = Enqueued(i)
           /\ state' = tally
           /\ loop' = [loop EXCEPT !.out = @ \cup {i}, !.moved = TRUE]
           /\ stir' = (stir \/ child[i].st = "none")
           /\ pc' = "launch"
        \/ Unwritten /\ RolledBack(i) /\ pc' = "observe"
  /\ UNCHANGED <<parent, tries, ghosts>>

LaunchDone ==
  /\ pc = "launch"
  /\ ~MayLaunch
  /\ pc' = "observe"
  /\ UNCHANGED <<child, parent, row, tries, state, loop, stir, faults, ghosts>>

\* observe: the signature moved, which restarts the window.
ObserveMoved ==
  /\ pc = "observe"
  /\ loop.moved
  /\ loop' = [loop EXCEPT !.moved = FALSE]
  /\ Report(state)
  /\ pc' = "test"
  /\ UNCHANGED <<child, parent, tries, state, stir, ghosts>>

\* Nothing moved, and the window is not over, or there is nobody to give up on.
ObserveQuiet ==
  /\ pc = "observe"
  /\ ~loop.moved
  /\ pc' = "test"
  /\ UNCHANGED <<child, parent, row, tries, state, loop, stir, faults, ghosts>>

\* Nothing moved for CLUSTERING_STALL_TIMEOUT_MINUTES.
GiveUp ==
  /\ pc = "observe"
  /\ ~loop.moved
  /\ loop.shown # {}
  /\ loop' = [loop EXCEPT !.victims = StalledVictims(loop.held, loop.shown)]
  /\ pc' = "giveup"
  /\ UNCHANGED <<child, parent, row, tries, state, stir, faults, ghosts>>

\* _revoke_batch; an error is logged, and the next victim's turn comes.
EndVictim ==
  /\ pc = "giveup"
  /\ \E i \in loop.victims :
       /\ loop' = [loop EXCEPT !.victims = @ \ {i}]
       /\ \/ /\ child' = EndChild(child, i, "revoked")
             /\ stir' = (stir \/ child[i].st \in Live)
             /\ UNCHANGED faults
          \/ Charge("unended") /\ UNCHANGED <<child, stir>>
  /\ UNCHANGED <<parent, row, tries, pc, state, ghosts>>

GivenUp ==
  /\ pc = "giveup"
  /\ loop.victims = {}
  /\ LET gives == OneMore(loop.gives)
         stop == loop.stop \/ Exhausted(gives)
     IN loop' = [loop EXCEPT !.gives = gives, !.stop = stop,
                             !.moved = (stop # loop.stop)]
  /\ Report(state)
  /\ pc' = "test"
  /\ UNCHANGED <<child, parent, tries, state, stir, ghosts>>

\* Mutant of Drained: the launches of this pass are not looked at.
DrainedMarks == loop.shown = {} /\ (loop.stop \/ state.launched >= NumBatches)

\* Mutant of Drained: a run that stopped early waits for the launches left out.
DrainedInFull == loop.out = {} /\ state.launched >= NumBatches

Drained == loop.out = {} /\ (loop.stop \/ state.launched >= NumBatches)

EndOfPass ==
  /\ pc = "test"
  /\ pc' = IF Drained THEN "last" ELSE "absorb"
  /\ loop' = [loop EXCEPT !.shown = {}, !.held = {}, !.out = {}]
  /\ UNCHANGED <<child, parent, row, tries, state, stir, faults, ghosts>>

\* Post-processing, naming, create_playlist and update_playlist_table.
Tail ==
  /\ pc = "tail"
  /\ \/ /\ state.best = 0
        /\ UNCHANGED loop
        /\ Report(state)
     \/ /\ state.best > 0
        /\ loop' = [loop EXCEPT !.good = @ \cup {loop.at}]
        /\ Report(state)
  /\ pc' = "next"
  /\ UNCHANGED <<child, parent, tries, state, stir, ghosts>>

\* An error that is neither a cancel nor a lost database: the server failed, and
\* the run goes on with the next.
ServerRaises ==
  /\ pc \in {"foreign", "absorb", "marks", "launch", "observe", "giveup", "test",
            "last", "tail"}
  /\ Charge("raise")
  /\ pc' = "next"
  /\ loop' = NewLoop(loop.at, loop.good)
  /\ UNCHANGED <<child, parent, row, tries, state, stir, ghosts>>

-------------------------------------------------------------------------------
(* The batches, the user, and what breaks *)

Shows(i) == pc # "off" /\ i \in Of(state.srv)

Batch(i) ==
  /\ \/ child[i].st = "queued" /\ child' = [child EXCEPT ![i] = Claimed(@)]
     \/ /\ child[i].st = "running"
        /\ \/ child[i].left > 0 /\ child' = [child EXCEPT ![i] = Beaten(@)]
           \/ child' = [child EXCEPT ![i] = Charged(@)]
           \/ \E score \in 0..MaxScore :
                child' = [child EXCEPT ![i] = Succeeded(@, score)]
  /\ parent = "live"
  /\ stir' = (stir \/ Shows(i))
  /\ UNCHANGED <<parent, row, tries, pc, state, loop, faults, ghosts>>

\* A batch whose parent ended finds out and stops; its row is swept.
Orphan(i) ==
  /\ parent # "live"
  /\ child[i].st # "none"
  /\ child' = [child EXCEPT ![i] = NoRow]
  /\ UNCHANGED <<parent, row, tries, pc, state, loop, stir, faults, ghosts>>

\* A cancel takes the parent and every row of its family at once.
Cancel ==
  /\ parent = "live"
  /\ Charge("cancel")
  /\ parent' = "revoked"
  /\ child' = [i \in Ids |-> NoRow]
  /\ UNCHANGED <<row, tries, pc, state, loop, stir, ghosts>>

\* The worker dies, or an OperationalError ends the attempt.
Crash ==
  /\ pc # "off"
  /\ "crash" \in Faults
  /\ Lose
  /\ UNCHANGED <<child, row, faults, ghosts>>

Loops ==
  \/ Absorb("absorb", "marks") \/ Absorb("last", "tail")
  \/ Marks \/ MarksLost \/ Launch \/ LaunchDone
  \/ ObserveMoved \/ ObserveQuiet \/ GiveUp \/ EndVictim \/ GivenUp \/ EndOfPass

Attempt ==
  \/ Start \/ Enter \/ RevokeForeign \/ ForeignDone
  \/ Loops \/ Tail \/ ServerRaises \/ NextServer
  \/ Summarize \/ Finish \/ Fail \/ StandDown

Next ==
  \/ Attempt
  \/ \E i \in Ids : Batch(i) \/ Orphan(i)
  \/ Cancel \/ Crash

Spec == Init /\ [][Next]_vars

\* The attempt goes on, and the window runs out over and over for a run in which
\* nothing moves; the batches need never do anything.
Fairness == WF_vars(Attempt) /\ SF_vars(GiveUp)

FairSpec == Spec /\ Fairness

-------------------------------------------------------------------------------
(* Properties *)

TypeOK ==
  /\ child \in [Ids -> ChildRow]
  /\ parent \in {"live", "success", "failure", "revoked"}
  /\ saved \in Tally
  /\ tries \in 0..MaxRestarts
  /\ pc \in Places
  /\ state \in Tally
  /\ loop \in Loop
  /\ stir \in BOOLEAN
  /\ faults \in 0..MaxFaults
  /\ won \in SUBSET Ids
  /\ lost \in SUBSET Ids
  /\ top \in [Servers -> 0..MaxScore]
  /\ far \in Servers

\* A live run that did not lose its place.
InPlace == parent = "live" /\ saved.srv = far

\* Every batch of the server on the row is in one place: not launched yet, a row
\* of the table, or in the counters, whatever attempt launched, ended and read
\* it ("cannot lose a finished batch or double-count a launch").
EveryBatchOnce ==
  InPlace =>
    \A i \in Of(saved.srv) :
      IF i[2] < saved.launched
      THEN child[i].st # "none" <=> i \notin won \cup lost
      ELSE child[i].st = "none" /\ i \notin won \cup lost

\* The counters on the row are those of the batches whose rows were taken away,
\* and the best result among them is there for the next attempt.
TallyIsExact ==
  InPlace =>
    /\ saved.runs = Cardinality({i \in won : i \in Of(saved.srv)})
    /\ saved.failed = Cardinality({i \in lost : i \in Of(saved.srv)})
    /\ saved.best = top[saved.srv]

\* The parent draws its conclusions when no batch of the server can run any more,
\* although it decided so from a list that was read earlier.
DrainedBeforeTail ==
  pc \in {"last", "tail"} => LiveAmong(child, Of(state.srv)) = {}

\* A cancelled run has no batches, and no launch that was under way brings one
\* back.
CancelSticks == parent = "revoked" => \A i \in Ids : child[i].st = "none"

\* Whatever becomes of the batches, of the workers that hold them and of the
\* attempts, the run ends ("the task always finishes, even if individual batches
\* die").
RunEnds == <>(parent # "live")
===============================================================================
