--------------------------- MODULE TaskQueueProofs ---------------------------
(***************************************************************************)
(* What holds of the task queue for any family of tasks, any number of     *)
(* workers and queues, any restart budgets and any number of disturbances. *)
(***************************************************************************)
EXTENDS TaskQueue, TaskRowsProofs

USE TaskRowsAssumption, TaskQueueAssumption DEF Table

InboxType == [Workers -> SUBSET Notices]

-------------------------------------------------------------------------------
(* The helpers of the actions *)

\* What the callbacks hear is a notice.
LEMMA NoticesType ==
  ASSUME NEW t \in Tasks, NEW a \in Nat
  PROVE  /\ Cancel(t) \in Notices
         /\ CancelEverything \in Notices
         /\ Reclaim(t, a) \in Notices
BY DEF Cancel, CancelEverything, Reclaim, Notices

\* Sending a notice keeps every inbox a set of notices.
LEMMA SentType ==
  ASSUME inbox \in InboxType, NEW n \in Notices, NEW to
  PROVE  Sent(n, to) \in InboxType
BY DEF Sent, InboxType

\* So does the notice a requeue sends.
LEMMA SentReclaimType ==
  ASSUME VarTypes, NEW t \in Tasks
  PROVE  SentReclaim(t) \in InboxType
<1>1. rows[t].att \in Nat
  BY DEF VarTypes, Row
<1>2. Reclaim(t, rows[t].att) \in Notices
  BY <1>1, NoticesType
<1>3. inbox \in InboxType
  BY DEF VarTypes, InboxType
<1> QED
  BY <1>2, <1>3, SentType DEF SentReclaim

\* Ending a session leaves a lock table.
LEMMA UnlockedType ==
  ASSUME VarTypes, NEW w \in Workers
  PROVE  Unlocked(w) \in [Tasks -> Workers \cup {None}]
BY DEF VarTypes, Unlocked

\* A worker with nothing to do has a job of the right type.
LEMMA NoJobType == NoJob \in Jobs
BY DEF NoJob, Jobs

\* What is left of a worker that died.
LEMMA DiesType ==
  ASSUME VarTypes, NEW w \in Workers, Dies(w)
  PROVE  /\ phase' \in [Workers -> Phases]
         /\ job' \in [Workers -> Jobs]
         /\ owed' \in [Workers -> SUBSET Debts]
         /\ left' \in [Workers -> SUBSET Tasks]
         /\ free' \in [Workers -> [Tasks -> Nat]]
BY NoJobType DEF VarTypes, Dies, Phases

\* The count of disturbances stays a number.
LEMMA DisturbType ==
  ASSUME VarTypes, Disturb
  PROVE  faults' \in Nat
BY DEF VarTypes, Disturb

\* The rows claimed since their last charge are rows.
LEMMA ChargedType ==
  ASSUME VarTypes, Charged
  PROVE  unpaid' \subseteq Tasks
BY DEF VarTypes, Charged

-------------------------------------------------------------------------------
(* Type correctness *)

\* An empty table and fresh workers are well typed.
LEMMA InitTypes == Init => TypeOK
<1> SUFFICES ASSUME Init PROVE TypeOK
  OBVIOUS
<1>1. VarTypes
  BY AbsentRowsType, NoJobType DEF Init, VarTypes, Phases
<1>2. WorkerLoopOK
  BY DEF Init, WorkerLoopOK, NoJob
<1> QED
  BY <1>1, <1>2 DEF TypeOK

\* Enqueueing, ending and reaping children, and cancelling keep the types.
LEMMA SubmissionTypes ==
  ASSUME TypeOK
  PROVE  /\ \A t \in Tasks : EnqueueRoot(t) => VarTypes'
         /\ \A w \in Workers, t \in Tasks : Family(w, t) => VarTypes'
         /\ \A aimed \in Tasks \cup {None} : GlobalCancel(aimed) => VarTypes'
<1> VarTypes
  BY DEF TypeOK
<1> USE DEF InboxType
<1>1. ASSUME NEW t \in Tasks, EnqueueRoot(t) PROVE VarTypes'
  <2>1. rows' \in Table
    BY <1>1, WipeType, InsertJobType DEF EnqueueRoot, VarTypes
  <2> QED
    BY <1>1, <2>1 DEF EnqueueRoot, VarTypes, local, sessions, history
<1>2. ASSUME NEW w \in Workers, NEW t \in Tasks, EnqueueChild(w, t) PROVE VarTypes'
  <2>1. rows' \in Table
    BY <1>2, InsertJobType DEF EnqueueChild, VarTypes
  <2> QED
    BY <1>2, <2>1 DEF EnqueueChild, VarTypes, local, sessions, history
<1>3. ASSUME NEW w \in Workers, NEW t \in Tasks, NEW v \in {"FAIL", "REVOKED"},
            EndChild(w, t, v)
      PROVE VarTypes'
  <2>1. rows' \in Table
    BY <1>3, EndChildRowType DEF EndChild, VarTypes, TerminalStatus
  <2>2. inbox' \in InboxType
    BY <1>3, NoticesType, SentType DEF EndChild, VarTypes
  <2> QED
    BY <1>3, <2>1, <2>2 DEF EndChild, VarTypes, local, history
<1>4. ASSUME NEW w \in Workers, NEW t \in Tasks, ReapChildren(w, t) PROVE VarTypes'
  <2>1. rows' \in Table
    BY <1>4, ReapedType DEF ReapChildren, VarTypes
  <2> QED
    BY <1>4, <2>1 DEF ReapChildren, VarTypes, local, sessions, history
<1>5. ASSUME NEW aimed \in Tasks \cup {None}, GlobalCancel(aimed) PROVE VarTypes'
  <2>1. rows' \in Table
    BY <1>5, CancelAllType DEF GlobalCancel, VarTypes
  <2>2. inbox' \in InboxType
    BY <1>5, NoticesType, SentType DEF GlobalCancel, VarTypes
  <2>3. faults' \in Nat
    BY <1>5, DisturbType DEF GlobalCancel
  <2> QED
    BY <1>5, <2>1, <2>2, <2>3 DEF GlobalCancel, VarTypes, local, history
<1> QED
  BY <1>1, <1>2, <1>3, <1>4, <1>5 DEF Family

\* So does everything at the top of the main loop: what is owed, what was given
\* up, and the claim.
LEMMA LoopTypes ==
  ASSUME TypeOK, NEW w \in Workers
  PROVE  /\ \A d \in owed[w] : RetryUnwritten(w, d) \/ RetryCommitLost(w, d) => VarTypes'
         /\ LoopTopFails(w) \/ NothingToClaim(w) \/ Reconnect(w) => VarTypes'
         /\ \A t \in Tasks :
              /\ PutBackFree(w, t) \/ PutBackCharged(w, t) => VarTypes'
              /\ Claim(w, t) \/ ClaimCommitLost(w, t) => VarTypes'
<1> VarTypes
  BY DEF TypeOK
<1> USE DEF InboxType
<1>1. ASSUME NEW d \in owed[w], RetryUnwritten(w, d) PROVE VarTypes'
  <2>1. d \in Debts /\ d.task \in Tasks /\ (d.out # "RETRY" => d.out \in TerminalStatus)
    BY DEF VarTypes, Debts, Verdicts, TerminalStatus
  <2>2. rows' \in Table
    <3>1. rows \in Table /\ RequeueOrFail(rows, d.task) \in Table
      BY <2>1, RequeueOrFailType DEF VarTypes
    <3>2. ASSUME d.out # "RETRY"
          PROVE  Collapsed(FinishRow(rows, d.task, w, d.out), d.task) \in Table
      BY <2>1, <3>1, <3>2, FinishRowType, CollapsedType
    <3> QED
      BY <1>1, <3>1, <3>2 DEF RetryUnwritten
  <2>3. inbox' \in InboxType
    BY <1>1, <2>1, SentReclaimType DEF RetryUnwritten, VarTypes
  <2>4. unpaid' \subseteq Tasks
    BY <1>1, ChargedType DEF RetryUnwritten
  <2> QED
    BY <1>1, <2>2, <2>3, <2>4 DEF RetryUnwritten, VarTypes
<1>2. ASSUME NEW t \in Tasks, PutBackFree(w, t) PROVE VarTypes'
  <2>1. rows' \in {rows, RequeueUncharged(rows, t)}
    BY <1>2 DEF PutBackFree
  <2>2. rows' \in Table
    <3>1. rows \in Table /\ RequeueUncharged(rows, t) \in Table
      BY RequeueUnchargedType DEF VarTypes
    <3> QED
      BY <2>1, <3>1
  <2>3. PICK n \in Nat : free' = [free EXCEPT ![w][t] = n]
    <3>1. free[w][t] + 1 \in Nat
      BY DEF VarTypes
    <3> QED
      BY <1>2, <3>1 DEF PutBackFree
  <2>4. free' \in [Workers -> [Tasks -> Nat]]
    BY <2>3 DEF VarTypes
  <2>5. left' = [left EXCEPT ![w] = @ \ {t}]
    BY <1>2 DEF PutBackFree
  <2>6. UNCHANGED <<lock, phase, job, owed, sessions, cand, faults, history>>
    BY <1>2 DEF PutBackFree
  <2> QED
    BY <2>2, <2>4, <2>5, <2>6 DEF VarTypes, sessions, history
<1>3. ASSUME NEW t \in Tasks, PutBackCharged(w, t) PROVE VarTypes'
  <2>1. rows' \in Table
    <3>1. rows' = rows \/ rows' = RequeueOrFail(rows, t)
      BY <1>3 DEF PutBackCharged
    <3>2. rows \in Table /\ RequeueOrFail(rows, t) \in Table
      BY RequeueOrFailType DEF VarTypes
    <3> QED
      BY <3>1, <3>2
  <2>2. inbox' \in InboxType
    <3>1. inbox' = inbox \/ inbox' = SentReclaim(t)
      BY <1>3 DEF PutBackCharged
    <3>2. inbox \in InboxType
      BY DEF VarTypes
    <3> QED
      BY <3>1, <3>2, SentReclaimType
  <2>3. free' = free \/ free' = [free EXCEPT ![w][t] = 0]
    BY <1>3 DEF PutBackCharged
  <2>4. free' \in [Workers -> [Tasks -> Nat]]
    <3>1. [free EXCEPT ![w][t] = 0] \in [Workers -> [Tasks -> Nat]]
      BY DEF VarTypes
    <3> QED
      BY <2>3, <3>1 DEF VarTypes
  <2>5. left' = [left EXCEPT ![w] = @ \ {t}]
    BY <1>3 DEF PutBackCharged
  <2>6. unpaid' \subseteq Tasks
    BY <1>3, ChargedType DEF PutBackCharged
  <2>7. UNCHANGED <<lock, phase, job, owed, conn, lis, cand, faults, late, lost>>
    BY <1>3 DEF PutBackCharged
  <2> QED
    BY <2>1, <2>2, <2>4, <2>5, <2>6, <2>7 DEF VarTypes
<1>4. ASSUME LoopTopFails(w) PROVE VarTypes'
  BY <1>4, DisturbType DEF LoopTopFails, VarTypes, sessions, history, Phases
<1>5. ASSUME NothingToClaim(w) PROVE VarTypes'
  BY <1>5 DEF NothingToClaim, VarTypes, sessions, history, Phases
<1>6. ASSUME Reconnect(w) PROVE VarTypes'
  BY <1>6 DEF Reconnect, VarTypes, history, Phases
<1>7. ASSUME NEW t \in Tasks, Claim(w, t) PROVE VarTypes'
  <2>1. rows' \in Table
    <3>1. rows' = ClaimRow(rows, t, w)
      BY <1>7 DEF Claim
    <3> QED
      BY <3>1, ClaimRowType DEF VarTypes
  <2>2. job' \in [Workers -> Jobs]
    <3>1. [task |-> t, att |-> rows[t].att, out |-> None] \in Jobs
      BY DEF VarTypes, Jobs, Row
    <3>2. job' = [job EXCEPT ![w] = [task |-> t, att |-> rows[t].att, out |-> None]]
      BY <1>7 DEF Claim
    <3> QED
      BY <3>1, <3>2 DEF VarTypes
  <2>3. /\ lock' = [lock EXCEPT ![t] = w]
        /\ phase' = [phase EXCEPT ![w] = "running"]
        /\ unpaid' = unpaid \cup {t}
        /\ UNCHANGED <<owed, left, free, sessions, cand, faults, late, lost>>
    BY <1>7 DEF Claim
  <2> QED
    BY <2>1, <2>2, <2>3 DEF VarTypes, sessions, Phases
<1>8. ASSUME NEW t \in Tasks, ClaimCommitLost(w, t) PROVE VarTypes'
  <2>1. rows' \in Table
    <3>1. rows' = ClaimRow(rows, t, w)
      BY <1>8 DEF ClaimCommitLost
    <3> QED
      BY <3>1, ClaimRowType DEF VarTypes
  <2>2. faults' \in Nat
    BY <1>8, DisturbType DEF ClaimCommitLost
  <2>3. lock' \in [Tasks -> Workers \cup {None}]
    BY <1>8, UnlockedType DEF ClaimCommitLost
  <2>4. /\ conn' = [conn EXCEPT ![w] = FALSE]
        /\ phase' = [phase EXCEPT ![w] = "idle"]
        /\ lost' = lost \cup {t} /\ unpaid' = unpaid \cup {t}
        /\ UNCHANGED <<job, owed, left, free, lis, inbox, cand, late>>
    BY <1>8 DEF ClaimCommitLost
  <2> QED
    BY <2>1, <2>2, <2>3, <2>4 DEF VarTypes, Phases
<1>9. ASSUME NEW d \in owed[w], RetryCommitLost(w, d) PROVE VarTypes'
  <2>1. faults' \in Nat /\ lock' \in [Tasks -> Workers \cup {None}]
    BY <1>9, DisturbType, UnlockedType DEF RetryCommitLost
  <2>2. d.task \in Tasks
    BY DEF VarTypes, Debts
  <2>3. /\ conn' = [conn EXCEPT ![w] = FALSE]
        /\ owed' = [owed EXCEPT ![w] = @ \ {d}]
        /\ lost' = lost \cup {d.task}
        /\ UNCHANGED <<rows, phase, job, left, free, lis, inbox, cand, late, unpaid>>
    BY <1>9 DEF RetryCommitLost
  <2> QED
    BY <2>1, <2>2, <2>3 DEF VarTypes
<1> QED
  BY <1>1, <1>2, <1>3, <1>4, <1>5, <1>6, <1>7, <1>8, <1>9

\* So do the reports, the end and the settling of a job.
LEMMA JobTypes ==
  ASSUME TypeOK, NEW w \in Workers, NEW t \in Tasks
  PROVE  /\ JobReports(w, t) => VarTypes'
         /\ \A o \in Outcomes : JobEnds(w, t, o) => VarTypes'
         /\ Finalize(w, t) \/ RequeueForRetry(w, t) => VarTypes'
         /\ RequeueCommitLost(w, t) \/ OutcomeUnwritten(w, t) => VarTypes'
         /\ Abandon(w, t) \/ Release(w, t) => VarTypes'
<1> VarTypes
  BY DEF TypeOK
<1> USE DEF InboxType
<1>f. Known(w, t) \in [Workers -> [Tasks -> Nat]]
  BY DEF VarTypes, Known
<1>j. \A o \in Outcomes \cup {None} : [job EXCEPT ![w].out = o] \in [Workers -> Jobs]
  <2> TAKE o \in Outcomes \cup {None}
  <2>1. job[w] \in Jobs
    BY DEF VarTypes
  <2>2. [job[w] EXCEPT !.out = o] \in Jobs
    BY <2>1 DEF Jobs
  <2> QED
    BY <2>2 DEF VarTypes
<1>p. /\ [phase EXCEPT ![w] = "ended"] \in [Workers -> Phases]
      /\ [phase EXCEPT ![w] = "releasing"] \in [Workers -> Phases]
      /\ [phase EXCEPT ![w] = "idle"] \in [Workers -> Phases]
  BY DEF VarTypes, Phases
<1>1. ASSUME JobReports(w, t) PROVE VarTypes'
  <2>1. rows' \in Table
    BY <1>1, ReportRunningType DEF JobReports, VarTypes
  <2> QED
    BY <1>1, <2>1 DEF JobReports, VarTypes, local, sessions
<1>2. ASSUME NEW o \in Outcomes, JobEnds(w, t, o) PROVE VarTypes'
  <2>1. Decided(w, t, o) \in Outcomes
    BY DEF Decided, Outcomes, Verdicts
  <2>2. job' \in [Workers -> Jobs]
    BY <1>2, <1>j, <2>1 DEF JobEnds
  <2> QED
    BY <1>2, <1>p, <2>2 DEF JobEnds, VarTypes, sessions, history
<1>3. ASSUME Finalize(w, t) PROVE VarTypes'
  <2>1. rows' \in Table
    <3>1. job[w].out \in TerminalStatus
      BY <1>3 DEF Finalize, Verdicts, TerminalStatus
    <3>2. rows' = FinishRow(rows, t, w, job[w].out)
      BY <1>3 DEF Finalize
    <3> QED
      BY <3>1, <3>2, FinishRowType DEF VarTypes
  <2>2. job' \in [Workers -> Jobs]
    BY <1>3, <1>j DEF Finalize, VarTypes
  <2> QED
    BY <1>3, <1>f, <1>p, <2>1, <2>2 DEF Finalize, VarTypes, history
<1>4. ASSUME RequeueForRetry(w, t) PROVE VarTypes'
  <2>1. rows' \in Table
    <3>1. rows' = rows \/ rows' = RequeueOrFail(rows, t)
      BY <1>4 DEF RequeueForRetry
    <3>2. rows \in Table /\ RequeueOrFail(rows, t) \in Table
      BY RequeueOrFailType DEF VarTypes
    <3> QED
      BY <3>1, <3>2
  <2>2. inbox' \in InboxType
    <3>1. inbox' = inbox \/ inbox' = SentReclaim(t)
      BY <1>4 DEF RequeueForRetry
    <3>2. inbox \in InboxType
      BY DEF VarTypes
    <3> QED
      BY <3>1, <3>2, SentReclaimType
  <2>3. job' \in [Workers -> Jobs]
    BY <1>4, <1>j DEF RequeueForRetry
  <2>4. unpaid' \subseteq Tasks
    BY <1>4, ChargedType DEF RequeueForRetry
  <2>5. /\ phase' = [phase EXCEPT ![w] = "releasing"]
        /\ free' = Known(w, t)
        /\ conn' = [conn EXCEPT ![w] = TRUE]
        /\ UNCHANGED <<lock, owed, left, lis, cand, faults, late, lost>>
    BY <1>4 DEF RequeueForRetry
  <2> QED
    BY <1>f, <1>p, <2>1, <2>2, <2>3, <2>4, <2>5 DEF VarTypes
<1>5. ASSUME RequeueCommitLost(w, t) PROVE VarTypes'
  <2>1. faults' \in Nat /\ lock' \in [Tasks -> Workers \cup {None}]
    BY <1>5, DisturbType, UnlockedType DEF RequeueCommitLost
  <2> QED
    BY <1>5, <1>f, <1>j, <1>p, <2>1 DEF RequeueCommitLost, VarTypes
<1>6. ASSUME OutcomeUnwritten(w, t) PROVE VarTypes'
  <2>1. faults' \in Nat /\ lock' \in [Tasks -> Workers \cup {None}]
    BY <1>6, DisturbType, UnlockedType DEF OutcomeUnwritten
  <2>2. owed' \in [Workers -> SUBSET Debts]
    <3>1. job[w] \in Debts
      BY <1>6 DEF OutcomeUnwritten, TypeOK, WorkerLoopOK, VarTypes, Jobs, Debts,
                  Outcomes
    <3>2. owed' = [owed EXCEPT ![w] = @ \cup {job[w]}]
      BY <1>6 DEF OutcomeUnwritten, Remembered
    <3> QED
      BY <3>1, <3>2 DEF VarTypes
  <2> QED
    BY <1>6, <1>f, <1>j, <1>p, <2>1, <2>2 DEF OutcomeUnwritten, VarTypes, history
<1>7. ASSUME Abandon(w, t) PROVE VarTypes'
  <2>1. /\ left' = [left EXCEPT ![w] = @ \cup {t}]
        /\ job' = [job EXCEPT ![w].out = None]
        /\ phase' = [phase EXCEPT ![w] = "releasing"]
        /\ UNCHANGED <<rows, lock, owed, free, conn, lis, inbox, cand, faults, late,
                      lost, unpaid>>
    BY <1>7 DEF Abandon, Shelved, sessions, history
  <2>2. left' \in [Workers -> SUBSET Tasks]
    BY <2>1 DEF VarTypes
  <2> QED
    BY <1>j, <1>p, <2>1, <2>2 DEF VarTypes
<1>8. ASSUME Release(w, t) PROVE VarTypes'
  <2>1. rows' \in Table
    BY <1>8, CollapsedType DEF Release, VarTypes
  <2>2. lock' \in [Tasks -> Workers \cup {None}]
    BY <1>8 DEF Release, VarTypes
  <2> QED
    BY <1>8, <1>p, <2>1, <2>2, NoJobType DEF Release, VarTypes, sessions, history
<1> QED
  BY <1>1, <1>2, <1>3, <1>4, <1>5, <1>6, <1>7, <1>8

\* So do the callbacks of the listener thread.
LEMMA ListenerTypes ==
  ASSUME TypeOK, NEW w \in Workers
  PROVE  /\ \A n \in inbox[w] : OnNotify(w, n) => VarTypes'
         /\ EnsureHold(w) \/ ListenerReady(w) => VarTypes'
<1> VarTypes
  BY DEF TypeOK
<1>1. ASSUME NEW n \in inbox[w], OnNotify(w, n) PROVE VarTypes'
  <2>1. inbox' \in InboxType
    BY <1>1 DEF OnNotify, VarTypes, InboxType
  <2>2. CASE Heeds(w, n)
    BY <1>1, <2>1, <2>2, DiesType DEF OnNotify, VarTypes, history, InboxType
  <2>3. CASE ~Heeds(w, n)
    BY <1>1, <2>1, <2>3 DEF OnNotify, VarTypes, local, history, InboxType
  <2> QED
    BY <2>2, <2>3
<1>2. ASSUME Holding(w), HoldRetaken(w)
      PROVE  lock' \in [Tasks -> Workers \cup {None}] /\ conn' \in [Workers -> BOOLEAN]
  BY <1>2 DEF HoldRetaken, VarTypes
<1>3. ASSUME EnsureHold(w) PROVE VarTypes'
  <2>1. CASE lock[job[w].task] = None
    BY <1>2, <1>3, <2>1 DEF EnsureHold, VarTypes, local, history
  <2>2. CASE lock[job[w].task] # None
    BY <1>3, <2>2, DiesType DEF EnsureHold, VarTypes, history
  <2> QED
    BY <2>1, <2>2
<1>4. ASSUME ListenerReady(w) PROVE VarTypes'
  <2>1. lis' \in [Workers -> BOOLEAN] /\ UNCHANGED <<rows, inbox, cand, history>>
    BY <1>4 DEF ListenerReady, VarTypes
  <2>2. CASE Dies(w) /\ UNCHANGED <<lock, conn, faults>>
    BY <2>1, <2>2, DiesType DEF VarTypes, history
  <2>3. CASE Holding(w) /\ HoldRetaken(w) /\ UNCHANGED <<local, faults>>
    BY <1>2, <2>1, <2>3 DEF VarTypes, local, history
  <2>4. CASE Disturb /\ UNCHANGED <<local, lock, conn>>
    BY <2>1, <2>4, DisturbType DEF VarTypes, local, history
  <2>5. CASE UNCHANGED <<local, lock, conn, faults>>
    BY <2>1, <2>5 DEF VarTypes, local, history
  <2> QED
    BY <1>4, <2>2, <2>3, <2>4, <2>5 DEF ListenerReady
<1> QED
  BY <1>1, <1>3, <1>4

\* So do deaths, restarts and lost connections.
LEMMA MisfortuneTypes ==
  ASSUME TypeOK, NEW w \in Workers
  PROVE  /\ Crash(w) => VarTypes'
         /\ SessionsEnd(w) \/ Restart(w) => VarTypes'
         /\ DropConn(w) \/ DropListener(w) => VarTypes'
<1> VarTypes
  BY DEF TypeOK
<1>1. ASSUME Crash(w) PROVE VarTypes'
  BY <1>1, DisturbType, DiesType DEF Crash, VarTypes, sessions, history
<1>2. ASSUME SessionsEnd(w) PROVE VarTypes'
  BY <1>2, UnlockedType DEF SessionsEnd, VarTypes, local, history
<1>3. ASSUME Restart(w) PROVE VarTypes'
  <2>1. ASSUME NEW t \in Tasks PROVE [rows[t] EXCEPT !.owner = Ghost] \in Row
    <3>1. rows[t] \in Row
      BY DEF VarTypes
    <3> QED
      BY <3>1 DEF Row
  <2>2. rows' \in Table
    BY <1>3, <2>1 DEF Restart, VarTypes
  <2> QED
    BY <1>3, <2>2 DEF Restart, VarTypes, history, Phases
<1>4. ASSUME DropConn(w) PROVE VarTypes'
  BY <1>4, DisturbType, UnlockedType DEF DropConn, VarTypes, local, history
<1>5. ASSUME DropListener(w) PROVE VarTypes'
  BY <1>5, DisturbType DEF DropListener, VarTypes, local, history
<1> QED
  BY <1>1, <1>2, <1>3, <1>4, <1>5

\* So does the maintenance pass.
LEMMA MaintenanceTypes ==
  ASSUME TypeOK, Maintenance
  PROVE  VarTypes'
<1> VarTypes
  BY DEF TypeOK
<1>1. CASE Scan
  BY <1>1 DEF Scan, VarTypes, local, sessions, history
<1>2. ASSUME NEW t \in Tasks, ReclaimOne(t) PROVE VarTypes'
  <2>1. rows' \in Table
    <3>1. rows' = rows \/ rows' = RequeueOrFail(rows, t)
      BY <1>2 DEF ReclaimOne
    <3>2. rows \in Table /\ RequeueOrFail(rows, t) \in Table
      BY RequeueOrFailType DEF VarTypes
    <3> QED
      BY <3>1, <3>2
  <2>2. inbox' \in InboxType
    <3>1. inbox' = inbox \/ inbox' = SentReclaim(t)
      BY <1>2 DEF ReclaimOne
    <3>2. inbox \in InboxType
      BY DEF VarTypes, InboxType
    <3> QED
      BY <3>1, <3>2, SentReclaimType
  <2>3. unpaid' \subseteq Tasks
    BY <1>2, ChargedType DEF ReclaimOne
  <2>4. cand' = cand \ {t} /\ UNCHANGED <<lock, local, conn, lis, faults, late, lost>>
    BY <1>2 DEF ReclaimOne
  <2> QED
    BY <2>1, <2>2, <2>3, <2>4 DEF VarTypes, local, InboxType
<1>3. ASSUME NEW t \in Tasks, FailStaleInline(t) PROVE VarTypes'
  <2>1. rows' \in Table
    BY <1>3, FailStaleType DEF FailStaleInline, VarTypes
  <2> QED
    BY <1>3, <2>1 DEF FailStaleInline, VarTypes, local, sessions, history
<1>4. ASSUME NEW t \in Tasks, Nudge(t) PROVE VarTypes'
  <2>1. inbox' \in InboxType
    BY <1>4, NoticesType, SentType DEF Nudge, VarTypes, InboxType
  <2> QED
    BY <1>4, <2>1, DisturbType DEF Nudge, VarTypes, local, history, InboxType
<1>5. ASSUME NEW t \in Tasks, Escalate(t) PROVE VarTypes'
  <2> DEFINE w == rows[t].owner
  <2>1. w \in Workers
    BY <1>5 DEF Escalate, Wedged
  <2>2. Sent(Cancel(t), Workers) \in InboxType
    BY NoticesType, SentType DEF VarTypes, InboxType
  <2>3. inbox' \in InboxType
    BY <1>5, <2>2 DEF Escalate, InboxType
  <2>4. lock' \in [Tasks -> Workers \cup {None}] /\ faults' \in Nat
    BY <1>5, <2>1, UnlockedType, DisturbType DEF Escalate
  <2> QED
    BY <1>5, <2>3, <2>4 DEF Escalate, VarTypes, local, history, InboxType
<1> QED
  BY <1>1, <1>2, <1>3, <1>4, <1>5 DEF Maintenance

-------------------------------------------------------------------------------
(* How a step moves the rows *)

\* A step moves every row lawfully; a row it starts is accounted for, as claimed
\* since its last charge or as moved by a late report; and only a charge uses up
\* the claim.
Accounted ==
  /\ Moved(rows, rows')
  /\ \A t \in Tasks :
       rows'[t].st = "RUNNING" =>
         \/ rows[t].st = "RUNNING" /\ rows'[t].att = rows[t].att
         \/ t \in unpaid' \cup late'
  /\ late \subseteq late'
  /\ \A t \in unpaid : rows'[t].att = rows[t].att => t \in unpaid'

\* A step that starts no row is accounted for when it keeps the history or
\* charges.
LEMMA QuietSteps ==
  ASSUME VarTypes, MovedQuietly(rows, rows'), late' = late, unpaid' = unpaid \/ Charged
  PROVE  Accounted
<1>1. \A t \in Tasks :
        rows'[t].st = "RUNNING" => rows[t].st = "RUNNING" /\ rows'[t].att = rows[t].att
  BY DEF MovedQuietly, Quiet, Unmoved, Enqueued, GivenBack, Ended, Deleted, Covered,
         TerminalStatus
<1>2. Moved(rows, rows')
  BY DEF Moved, MovedQuietly
<1>3. \A t \in unpaid : rows'[t].att = rows[t].att => t \in unpaid'
  BY DEF Charged
<1> QED
  BY <1>1, <1>2, <1>3 DEF Accounted

\* A step that leaves the table and the history alone is accounted for.
LEMMA IdleSteps ==
  ASSUME VarTypes, UNCHANGED <<rows, late, unpaid>>
  PROVE  Accounted
<1>1. MovedQuietly(rows, rows')
  BY DEF MovedQuietly, Quiet, Unmoved
<1> QED
  BY <1>1, QuietSteps

\* The steps of submission are accounted for.
LEMMA SubmissionMoves ==
  ASSUME VarTypes
  PROVE  /\ \A t \in Tasks : EnqueueRoot(t) => Accounted
         /\ \A w \in Workers, t \in Tasks : Family(w, t) => Accounted
         /\ \A aimed \in Tasks \cup {None} : GlobalCancel(aimed) => Accounted
<1> USE DEF history
<1>r. rows \in Table
  BY DEF VarTypes
<1>1. ASSUME NEW t \in Tasks, EnqueueRoot(t) PROVE Accounted
  BY <1>1, <1>r, InsertMoves, QuietSteps DEF EnqueueRoot
<1>2. ASSUME NEW w \in Workers, NEW t \in Tasks, EnqueueChild(w, t) PROVE Accounted
  BY <1>2, <1>r, InsertMoves, QuietSteps DEF EnqueueChild
<1>3. ASSUME NEW w \in Workers, NEW t \in Tasks, NEW v \in {"FAIL", "REVOKED"},
            EndChild(w, t, v)
      PROVE Accounted
  <2>1. MovedQuietly(rows, rows')
    BY <1>3, <1>r, EndChildMoves DEF EndChild, TerminalStatus
  <2> QED
    BY <1>3, <2>1, QuietSteps DEF EndChild
<1>4. ASSUME NEW w \in Workers, NEW t \in Tasks, ReapChildren(w, t) PROVE Accounted
  BY <1>4, <1>r, ReapedMoves, QuietSteps DEF ReapChildren
<1>5. ASSUME NEW aimed \in Tasks \cup {None}, GlobalCancel(aimed) PROVE Accounted
  <2>1. MovedQuietly(rows, rows')
    <3>1. rows' = CancelAll(rows, aimed) /\ (aimed \in Tasks => rows[aimed].st # "FREE")
      BY <1>5 DEF GlobalCancel
    <3> QED
      BY <1>r, <3>1, CancelAllMoves
  <2> QED
    BY <1>5, <2>1, QuietSteps DEF GlobalCancel
<1> QED
  BY <1>1, <1>2, <1>3, <1>4, <1>5 DEF Family

\* The steps of the main loop are accounted for.
LEMMA LoopMoves ==
  ASSUME VarTypes, NEW w \in Workers
  PROVE  /\ \A d \in owed[w] : RetryUnwritten(w, d) \/ RetryCommitLost(w, d) => Accounted
         /\ LoopTopFails(w) \/ NothingToClaim(w) \/ Reconnect(w) => Accounted
         /\ \A t \in Tasks :
              /\ PutBackFree(w, t) \/ PutBackCharged(w, t) => Accounted
              /\ Claim(w, t) \/ ClaimCommitLost(w, t) => Accounted
<1> USE DEF history
<1>r. rows \in Table
  BY DEF VarTypes
<1>u. MovedQuietly(rows, rows)
  BY DEF MovedQuietly, Quiet, Unmoved
<1>1. ASSUME NEW d \in owed[w], RetryUnwritten(w, d) PROVE Accounted
  <2>1. d.task \in Tasks /\ (d.out # "RETRY" => d.out \in TerminalStatus)
    BY DEF VarTypes, Debts, Verdicts, TerminalStatus
  <2>2. \/ rows' = rows
        \/ rows' = RequeueOrFail(rows, d.task)
        \/ d.out # "RETRY" /\ rows' = Collapsed(FinishRow(rows, d.task, w, d.out), d.task)
    BY <1>1 DEF RetryUnwritten
  <2>3. MovedQuietly(rows, rows')
    BY <1>r, <1>u, <2>1, <2>2, RequeueOrFailMoves, FinishAndCollapseMoves
  <2>4. late' = late /\ Charged
    BY <1>1 DEF RetryUnwritten
  <2> QED
    BY <2>3, <2>4, QuietSteps
<1>2. ASSUME NEW t \in Tasks, PutBackFree(w, t) PROVE Accounted
  <2>1. rows' = rows \/ (rows[t].st = "RUNNING" /\ rows' = RequeueUncharged(rows, t))
    BY <1>2 DEF PutBackFree, Mine
  <2>2. MovedQuietly(rows, rows')
    BY <1>r, <1>u, <2>1, RequeueUnchargedMoves
  <2>3. late' = late /\ unpaid' = unpaid
    BY <1>2 DEF PutBackFree
  <2> QED
    BY <2>2, <2>3, QuietSteps
<1>3. ASSUME NEW t \in Tasks, PutBackCharged(w, t) PROVE Accounted
  <2>1. rows' = rows \/ rows' = RequeueOrFail(rows, t)
    BY <1>3 DEF PutBackCharged
  <2>2. MovedQuietly(rows, rows')
    BY <1>r, <1>u, <2>1, RequeueOrFailMoves
  <2>3. late' = late /\ Charged
    BY <1>3 DEF PutBackCharged
  <2> QED
    BY <2>2, <2>3, QuietSteps
<1>4. ASSUME LoopTopFails(w) \/ NothingToClaim(w) \/ Reconnect(w) PROVE Accounted
  BY <1>4, IdleSteps DEF LoopTopFails, NothingToClaim, Reconnect
<1>5. ASSUME NEW t \in Tasks, Claim(w, t) \/ ClaimCommitLost(w, t) PROVE Accounted
  <2>1. /\ Claimable(rows, t) /\ rows' = ClaimRow(rows, t, w)
        /\ late' = late /\ unpaid' = unpaid \cup {t}
    BY <1>5 DEF Claim, ClaimCommitLost, CanClaim
  <2>2. Moved(rows, rows')
    BY <1>r, <2>1, ClaimMoves
  <2>3. \A u \in Tasks \ {t} : rows'[u] = rows[u]
    BY <2>1 DEF ClaimRow, VarTypes
  <2> QED
    BY <2>1, <2>2, <2>3 DEF Accounted
<1>6. ASSUME NEW d \in owed[w], RetryCommitLost(w, d) PROVE Accounted
  BY <1>6, IdleSteps DEF RetryCommitLost
<1> QED
  BY <1>1, <1>2, <1>3, <1>4, <1>5, <1>6

\* The steps of a job are accounted for; its report is what needs the row's past.
LEMMA JobMoves ==
  ASSUME TypeOK, NEW w \in Workers, NEW t \in Tasks
  PROVE  /\ JobReports(w, t) => Accounted
         /\ \A o \in Outcomes : JobEnds(w, t, o) => Accounted
         /\ Finalize(w, t) \/ RequeueForRetry(w, t) => Accounted
         /\ RequeueCommitLost(w, t) \/ OutcomeUnwritten(w, t) => Accounted
         /\ Abandon(w, t) \/ Release(w, t) => Accounted
<1> USE DEF history
<1> VarTypes
  BY DEF TypeOK
<1>r. rows \in Table
  BY DEF VarTypes
<1>u. MovedQuietly(rows, rows)
  BY DEF MovedQuietly, Quiet, Unmoved
<1>1. ASSUME JobReports(w, t) PROVE Accounted
  <2>1. /\ MayReport(rows, t) /\ rows' = ReportRunning(rows, t)
        /\ late' = late \cup {t} /\ unpaid' = unpaid
    BY <1>1 DEF JobReports
  <2>2. rows[t].st # "FREE"
    BY <1>1 DEF JobReports, Executing, TypeOK, WorkerLoopOK
  <2>3. Moved(rows, rows')
    BY <1>r, <2>1, <2>2, ReportMoves
  <2>4. \A u \in Tasks \ {t} : rows'[u] = rows[u]
    BY <2>1 DEF ReportRunning, VarTypes
  <2> QED
    BY <2>1, <2>3, <2>4 DEF Accounted
<1>2. ASSUME NEW o \in Outcomes, JobEnds(w, t, o) PROVE Accounted
  BY <1>2, IdleSteps DEF JobEnds
<1>3. ASSUME Finalize(w, t) PROVE Accounted
  <2>1. job[w].out \in TerminalStatus /\ rows' = FinishRow(rows, t, w, job[w].out)
    BY <1>3 DEF Finalize, Verdicts, TerminalStatus
  <2>2. MovedQuietly(rows, rows')
    BY <1>r, <2>1, FinishMoves
  <2>3. late' = late /\ unpaid' = unpaid
    BY <1>3 DEF Finalize
  <2> QED
    BY <2>2, <2>3, QuietSteps
<1>4. ASSUME RequeueForRetry(w, t) PROVE Accounted
  <2>1. rows' = rows \/ rows' = RequeueOrFail(rows, t)
    BY <1>4 DEF RequeueForRetry
  <2>2. MovedQuietly(rows, rows')
    BY <1>r, <1>u, <2>1, RequeueOrFailMoves
  <2>3. late' = late /\ Charged
    BY <1>4 DEF RequeueForRetry
  <2> QED
    BY <2>2, <2>3, QuietSteps
<1>5. ASSUME RequeueCommitLost(w, t) \/ OutcomeUnwritten(w, t) \/ Abandon(w, t)
      PROVE  Accounted
  BY <1>5, IdleSteps DEF RequeueCommitLost, OutcomeUnwritten, Abandon
<1>6. ASSUME Release(w, t) PROVE Accounted
  <2>1. rows' = rows \/ rows' = Collapsed(rows, t)
    BY <1>6 DEF Release
  <2>2. MovedQuietly(rows, rows')
    BY <1>r, <1>u, <2>1, CollapsedMoves
  <2>3. late' = late /\ unpaid' = unpaid
    BY <1>6 DEF Release
  <2> QED
    BY <2>2, <2>3, QuietSteps
<1> QED
  BY <1>1, <1>2, <1>3, <1>4, <1>5, <1>6

\* Every step is accounted for.
LEMMA StepsAccounted ==
  ASSUME TypeOK, [Next]_vars
  PROVE  Accounted
<1> USE DEF history
<1> VarTypes
  BY DEF TypeOK
<1>1. CASE UNCHANGED vars
  BY <1>1, IdleSteps DEF vars
<1>2. ASSUME NEW w \in Workers, NEW t \in Tasks, JobStep(w, t) PROVE Accounted
  BY <1>2, JobMoves, LoopMoves DEF JobStep, Settle
<1>3. ASSUME NEW w \in Workers, WorkerStep(w) PROVE Accounted
  <2>1. ASSUME NEW n \in inbox[w], OnNotify(w, n) PROVE Accounted
    BY <2>1, IdleSteps DEF OnNotify
  <2>2. ASSUME EnsureHold(w) \/ ListenerReady(w) \/ SessionsEnd(w) PROVE Accounted
    BY <2>2, IdleSteps DEF EnsureHold, ListenerReady, SessionsEnd
  <2>3. ASSUME Restart(w) PROVE Accounted
    <3>1. ASSUME NEW t \in Tasks PROVE Unmoved(rows[t], rows'[t])
      <4>1. \/ rows'[t] = rows[t] 
            \/ rows'[t] = [rows[t] EXCEPT !.owner = Ghost]
        BY <2>3 DEF Restart
      <4>2. rows[t] \in Row
        BY DEF VarTypes
      <4> QED
        BY <4>1, <4>2 DEF Row, Unmoved
    <3>2. MovedQuietly(rows, rows')
      BY <3>1 DEF MovedQuietly, Quiet
    <3> QED
      BY <2>3, <3>2, QuietSteps DEF Restart
  <2> QED
    BY <1>3, <2>1, <2>2, <2>3, LoopMoves DEF WorkerStep
<1>4. ASSUME NEW w \in Workers, Misfortune(w) PROVE Accounted
  <2>1. ASSUME Crash(w) \/ DropConn(w) \/ DropListener(w) \/ LoopTopFails(w)
        PROVE  Accounted
    BY <2>1, IdleSteps DEF Crash, DropConn, DropListener, LoopTopFails
  <2>2. ASSUME NEW t \in Tasks,
               ClaimCommitLost(w, t) \/ RequeueCommitLost(w, t) \/ OutcomeUnwritten(w, t)
        PROVE  Accounted
    BY <2>2, LoopMoves, JobMoves
  <2> QED
    BY <1>4, <2>1, <2>2, LoopMoves DEF Misfortune
<1>5. CASE Maintenance
  <2>1. CASE Scan
    BY <2>1, IdleSteps DEF Scan
  <2>2. ASSUME NEW t \in Tasks, ReclaimOne(t) PROVE Accounted
    <3>1. rows' = rows \/ rows' = RequeueOrFail(rows, t)
      BY <2>2 DEF ReclaimOne
    <3>2. MovedQuietly(rows, rows) /\ MovedQuietly(rows, RequeueOrFail(rows, t))
      BY RequeueOrFailMoves DEF VarTypes, MovedQuietly, Quiet, Unmoved
    <3>3. late' = late /\ Charged
      BY <2>2 DEF ReclaimOne
    <3> QED
      BY <3>1, <3>2, <3>3, QuietSteps
  <2>3. ASSUME NEW t \in Tasks, FailStaleInline(t) PROVE Accounted
    BY <2>3, FailStaleMoves, QuietSteps DEF FailStaleInline, VarTypes
  <2>4. ASSUME NEW t \in Tasks, Nudge(t) \/ Escalate(t) PROVE Accounted
    BY <2>4, IdleSteps DEF Nudge, Escalate
  <2> QED
    BY <1>5, <2>1, <2>2, <2>3, <2>4 DEF Maintenance
<1> QED
  BY <1>1, <1>2, <1>3, <1>4, <1>5, SubmissionMoves DEF Next

-------------------------------------------------------------------------------
(* The main loop of a worker *)

\* The loop of one worker; WorkerLoopOK says it of all of them.
LoopOK(w) ==
  /\ phase[w] \in {"running", "ended", "releasing"} <=> job[w].task \in Tasks
  /\ phase[w] = "ended" => job[w].out \in Outcomes
  /\ job[w].task \in Tasks => rows[job[w].task].st # "FREE"

\* A row that has been used stays used: no statement makes a task id unused again.
LEMMA UsedForEver ==
  ASSUME Accounted, NEW t \in Tasks, rows[t].st # "FREE"
  PROVE  rows'[t].st # "FREE"
BY DEF Accounted, Moved, Quiet, Started, Unmoved, Enqueued, GivenBack, Ended, Deleted,
       Covered, TerminalStatus

\* Where at most the loop of w moves, only that loop is left to check.
LEMMA OneLoopMoves ==
  ASSUME TypeOK, Accounted, NEW w \in Workers, LoopOK(w)',
         \A v \in Workers \ {w} : phase'[v] = phase[v] /\ job'[v] = job[v]
  PROVE  WorkerLoopOK'
<1> SUFFICES ASSUME NEW v \in Workers, v # w PROVE LoopOK(v)'
  BY DEF WorkerLoopOK, LoopOK
<1>1. LoopOK(v)
  BY DEF TypeOK, WorkerLoopOK, LoopOK
<1> QED
  BY <1>1, UsedForEver DEF LoopOK

\* Where no loop moves, nothing is left to check.
LEMMA NoLoopMoves ==
  ASSUME TypeOK, Accounted, UNCHANGED <<phase, job>>
  PROVE  WorkerLoopOK'
BY UsedForEver DEF TypeOK, WorkerLoopOK

\* A death leaves a worker without a job.
LEMMA DeathMoves ==
  ASSUME TypeOK, Accounted, NEW w \in Workers, Dies(w)
  PROVE  WorkerLoopOK'
<1>1. LoopOK(w)'
  BY DEF LoopOK, Dies, NoJob, TypeOK, VarTypes
<1>2. \A v \in Workers \ {w} : phase'[v] = phase[v] /\ job'[v] = job[v]
  BY DEF Dies, TypeOK, VarTypes
<1> QED
  BY <1>1, <1>2, OneLoopMoves

\* The steps of a job keep the loop in order.
LEMMA JobLoop ==
  ASSUME TypeOK, Accounted, NEW w \in Workers, NEW t \in Tasks
  PROVE  /\ Claim(w, t) \/ ClaimCommitLost(w, t) => WorkerLoopOK'
         /\ \A o \in Outcomes : JobEnds(w, t, o) => WorkerLoopOK'
         /\ Settle(w, t) \/ JobReports(w, t) => WorkerLoopOK'
         /\ RequeueCommitLost(w, t) \/ OutcomeUnwritten(w, t) => WorkerLoopOK'
<1> VarTypes /\ LoopOK(w)
  BY DEF TypeOK, WorkerLoopOK, LoopOK
<1>j. job[w] \in Jobs
  BY DEF VarTypes
<1>1. ASSUME Claim(w, t) PROVE WorkerLoopOK'
  <2>1. /\ rows[t].st = "NEW"
        /\ phase' = [phase EXCEPT ![w] = "running"]
        /\ job' = [job EXCEPT ![w] = [task |-> t, att |-> rows[t].att, out |-> None]]
    BY <1>1 DEF Claim, CanClaim, Claimable
  <2>2. rows'[t].st # "FREE"
    BY <2>1, UsedForEver
  <2>3. phase'[w] = "running" /\ job'[w].task = t
    BY <2>1 DEF VarTypes
  <2>4. \A v \in Workers \ {w} : phase'[v] = phase[v] /\ job'[v] = job[v]
    BY <2>1 DEF VarTypes
  <2> QED
    BY <2>2, <2>3, <2>4, OneLoopMoves DEF LoopOK
<1>2. ASSUME ClaimCommitLost(w, t) PROVE WorkerLoopOK'
  <2>1. phase[w] \in {"idle", "ready"} /\ phase' = [phase EXCEPT ![w] = "idle"] /\ job' = job
    BY <1>2 DEF ClaimCommitLost, CanClaim, AtClaim
  <2>2. LoopOK(w)'
    BY <2>1 DEF LoopOK, VarTypes
  <2> QED
    BY <2>1, <2>2, OneLoopMoves DEF VarTypes
<1>3. ASSUME NEW o \in Outcomes, JobEnds(w, t, o) PROVE WorkerLoopOK'
  <2>1. /\ phase[w] = "running" /\ job[w].task = t
        /\ phase' = [phase EXCEPT ![w] = "ended"]
        /\ job' = [job EXCEPT ![w].out = Decided(w, t, o)]
    BY <1>3 DEF JobEnds, Executing
  <2>2. Decided(w, t, o) \in Outcomes
    BY DEF Decided, Outcomes, Verdicts
  <2>3. phase'[w] = "ended" /\ job'[w].task = t /\ job'[w].out \in Outcomes
    BY <1>j, <2>1, <2>2 DEF VarTypes, Jobs
  <2>4. rows'[t].st # "FREE"
    BY <2>1, UsedForEver DEF LoopOK
  <2>5. \A v \in Workers \ {w} : phase'[v] = phase[v] /\ job'[v] = job[v]
    BY <2>1 DEF VarTypes
  <2> QED
    BY <2>3, <2>4, <2>5, OneLoopMoves DEF LoopOK
<1>4. ASSUME phase[w] = "ended", job[w].task = t,
             phase' = [phase EXCEPT ![w] = "releasing"],
             job' = job \/ job' = [job EXCEPT ![w].out = None]
      PROVE  WorkerLoopOK'
  <2>1. phase'[w] = "releasing" /\ job'[w].task = t
    BY <1>j, <1>4 DEF VarTypes, Jobs
  <2>2. rows'[t].st # "FREE"
    BY <1>4, UsedForEver DEF LoopOK
  <2>3. \A v \in Workers \ {w} : phase'[v] = phase[v] /\ job'[v] = job[v]
    BY <1>4 DEF VarTypes
  <2> QED
    BY <2>1, <2>2, <2>3, OneLoopMoves DEF LoopOK
<1>5. ASSUME \/ Finalize(w, t) \/ RequeueForRetry(w, t) \/ Abandon(w, t)
             \/ RequeueCommitLost(w, t) \/ OutcomeUnwritten(w, t)
      PROVE  WorkerLoopOK'
  BY <1>4, <1>5 DEF Finalize, RequeueForRetry, Abandon, RequeueCommitLost, OutcomeUnwritten
<1>6. ASSUME Release(w, t) PROVE WorkerLoopOK'
  <2>1. phase' = [phase EXCEPT ![w] = "idle"] /\ job' = [job EXCEPT ![w] = NoJob]
    BY <1>6 DEF Release
  <2>2. LoopOK(w)'
    BY <2>1 DEF LoopOK, VarTypes, NoJob
  <2>3. \A v \in Workers \ {w} : phase'[v] = phase[v] /\ job'[v] = job[v]
    BY <2>1 DEF VarTypes
  <2> QED
    BY <2>2, <2>3, OneLoopMoves
<1>7. ASSUME PutBackFree(w, t) \/ PutBackCharged(w, t) \/ JobReports(w, t) PROVE WorkerLoopOK'
  BY <1>7, NoLoopMoves DEF PutBackFree, PutBackCharged, JobReports, local
<1> QED
  BY <1>1, <1>2, <1>3, <1>5, <1>6, <1>7 DEF Settle

\* Everything else that happens to a worker keeps its loop in order.
LEMMA WorkerLoop ==
  ASSUME TypeOK, Accounted, NEW w \in Workers
  PROVE  /\ WorkerStep(w) => WorkerLoopOK'
         /\ Misfortune(w) => WorkerLoopOK'
<1> VarTypes /\ LoopOK(w)
  BY DEF TypeOK, WorkerLoopOK, LoopOK
<1>1. ASSUME phase[w] \in {"idle", "ready", "dead"}, job' = job,
             \E p \in {"idle", "ready"} : phase' = [phase EXCEPT ![w] = p]
      PROVE  WorkerLoopOK'
  <2>1. LoopOK(w)'
    BY <1>1 DEF LoopOK, VarTypes
  <2> QED
    BY <1>1, <2>1, OneLoopMoves DEF VarTypes
<1>2. ASSUME NothingToClaim(w) \/ Reconnect(w) \/ LoopTopFails(w) \/ Restart(w)
      PROVE  WorkerLoopOK'
  BY <1>1, <1>2 DEF NothingToClaim, Reconnect, LoopTopFails, Restart, Alive
<1>3. ASSUME NEW d \in owed[w], RetryUnwritten(w, d) \/ RetryCommitLost(w, d)
      PROVE  WorkerLoopOK'
  BY <1>3, NoLoopMoves DEF RetryUnwritten, RetryCommitLost
<1>4. ASSUME NEW n \in inbox[w], OnNotify(w, n) PROVE WorkerLoopOK'
  BY <1>4, DeathMoves, NoLoopMoves DEF OnNotify, local
<1>5. ASSUME EnsureHold(w) \/ ListenerReady(w) PROVE WorkerLoopOK'
  <2>1. Dies(w) \/ UNCHANGED local
    BY <1>5 DEF EnsureHold, ListenerReady
  <2> QED
    BY <2>1, DeathMoves, NoLoopMoves DEF local
<1>6. ASSUME SessionsEnd(w) \/ DropConn(w) \/ DropListener(w) PROVE WorkerLoopOK'
  BY <1>6, NoLoopMoves DEF SessionsEnd, DropConn, DropListener, local
<1>7. ASSUME Crash(w) PROVE WorkerLoopOK'
  BY <1>7, DeathMoves DEF Crash
<1> QED
  BY <1>2, <1>3, <1>4, <1>5, <1>6, <1>7, JobLoop DEF WorkerStep, Misfortune

\* Every step keeps every loop in order.
LEMMA LoopStep ==
  ASSUME TypeOK, [Next]_vars
  PROVE  WorkerLoopOK'
<1>1. Accounted
  BY StepsAccounted
<1>2. CASE UNCHANGED vars
  BY <1>1, <1>2, NoLoopMoves DEF vars, local
<1>3. ASSUME NEW t \in Tasks, EnqueueRoot(t) PROVE WorkerLoopOK'
  BY <1>1, <1>3, NoLoopMoves DEF EnqueueRoot, local
<1>4. ASSUME NEW a \in Tasks \cup {None}, GlobalCancel(a) PROVE WorkerLoopOK'
  BY <1>1, <1>4, NoLoopMoves DEF GlobalCancel, local
<1>5. ASSUME NEW w \in Workers, NEW t \in Tasks, Family(w, t) PROVE WorkerLoopOK'
  BY <1>1, <1>5, NoLoopMoves DEF Family, EnqueueChild, EndChild, ReapChildren, local
<1>6. ASSUME NEW w \in Workers, NEW t \in Tasks, JobStep(w, t) PROVE WorkerLoopOK'
  BY <1>1, <1>6, JobLoop DEF JobStep
<1>7. CASE Maintenance
  BY <1>1, <1>7, NoLoopMoves
     DEF Maintenance, Scan, ReclaimOne, FailStaleInline, Nudge, Escalate, local
<1> QED
  BY <1>1, <1>2, <1>3, <1>4, <1>5, <1>6, <1>7, WorkerLoop DEF Next

-------------------------------------------------------------------------------
(* The theorems *)

\* Every step keeps the types.
LEMMA TypeStep ==
  ASSUME TypeOK, [Next]_vars
  PROVE  TypeOK'
<1>1. CASE UNCHANGED vars
  BY <1>1 DEF vars, TypeOK, VarTypes, WorkerLoopOK, local, sessions, history
<1>2. ASSUME NEW w \in Workers, NEW t \in Tasks, JobStep(w, t) PROVE VarTypes'
  BY <1>2, JobTypes, LoopTypes DEF JobStep, Settle
<1>3. ASSUME NEW w \in Workers, WorkerStep(w) PROVE VarTypes'
  BY <1>3, LoopTypes, ListenerTypes, MisfortuneTypes DEF WorkerStep
<1>4. ASSUME NEW w \in Workers, Misfortune(w) PROVE VarTypes'
  BY <1>4, LoopTypes, JobTypes, MisfortuneTypes DEF Misfortune
<1> QED
  BY <1>1, <1>2, <1>3, <1>4, SubmissionTypes, MaintenanceTypes, LoopStep DEF Next, TypeOK

\* Type correctness: whatever connections break and whoever dies, every variable
\* keeps its type, a worker holds a job exactly while its loop is inside run_job,
\* and the job's row is one that was once enqueued.
THEOREM TypeCorrect == Spec => []TypeOK
<1>1. Init => TypeOK
  BY InitTypes
<1>2. TypeOK /\ [Next]_vars => TypeOK'
  BY TypeStep
<1> QED
  BY <1>1, <1>2, PTL DEF Spec

\* The restart budget: on the queue or being run, no row has ever more charges
\* than max_attempts, for any interleaving of reclaim, retry, postponed retry and
\* the charge for lost connections.
THEOREM BudgetKept == Spec => []WithinBudget
<1> DEFINE IInv == TypeOK /\ WithinBudget
<1>1. Init => IInv
  <2> SUFFICES ASSUME Init PROVE WithinBudget
    BY InitTypes
  <2> QED
    BY DEF Init, WithinBudget, IsLive, LiveStatus, FreeRow
<1>2. IInv /\ [Next]_vars => IInv'
  <2> SUFFICES ASSUME IInv, [Next]_vars, NEW t \in Tasks, IsLive(rows', t)
               PROVE  rows'[t].att <= MaxAttempts[t]
    BY TypeStep DEF WithinBudget
  <2>1. Quiet(t, rows[t], rows'[t]) \/ Started(rows[t], rows'[t])
    BY StepsAccounted DEF Accounted, Moved
  <2>2. rows'[t].st \in LiveStatus /\ MaxAttempts[t] \in Nat
    BY DEF IsLive
  <2>3. rows[t].st \in LiveStatus => rows[t].att <= MaxAttempts[t]
    BY DEF WithinBudget, IsLive
  <2> QED
    BY <2>1, <2>2, <2>3
       DEF Quiet, Started, Unmoved, Enqueued, GivenBack, Ended, Deleted, Covered,
           LiveStatus, TerminalStatus
<1> QED
  BY <1>1, <1>2, PTL DEF Spec

\* A verdict is final: once SUCCESS, FAIL or REVOKED is on a row, no retry, reclaim,
\* late report or postponed outcome puts another in its place.
THEOREM VerdictsFinal == Spec => VerdictIsFinal
<1>1. ASSUME TypeOK, [Next]_vars
      PROVE  \A t \in Tasks :
               IsTerminal(rows, t) =>
                 \/ rows'[t].st \in {rows[t].st, "GONE"}
                 \/ rows'[t].st = "REVOKED" /\ ~rows'[t].queued
  <2> SUFFICES ASSUME NEW t \in Tasks, IsTerminal(rows, t)
               PROVE  \/ rows'[t].st \in {rows[t].st, "GONE"}
                      \/ rows'[t].st = "REVOKED" /\ ~rows'[t].queued
    OBVIOUS
  <2>1. Quiet(t, rows[t], rows'[t]) \/ Started(rows[t], rows'[t])
    BY <1>1, StepsAccounted DEF Accounted, Moved
  <2> QED
    BY <2>1 DEF Quiet, Started, Unmoved, Enqueued, GivenBack, Ended, Deleted, Covered,
                LiveStatus, TerminalStatus, IsTerminal
<1> QED
  BY <1>1, TypeCorrect, PTL DEF Spec, VerdictIsFinal

\* One charge per claim: whoever bills an attempt, it bills one that was claimed
\* and not billed before, unless a late report had moved the row to RUNNING.
THEOREM ChargedOncePerClaim == Spec => OneChargePerClaim
<1> DEFINE Claimed == \A t \in Tasks : rows[t].st = "RUNNING" => t \in unpaid \cup late
           IInv == TypeOK /\ Claimed
<1>1. Init => IInv
  <2> SUFFICES ASSUME Init PROVE Claimed
    BY InitTypes
  <2> QED
    BY DEF Init, FreeRow
<1>2. IInv /\ [Next]_vars => IInv'
  <2> SUFFICES ASSUME IInv, [Next]_vars PROVE Claimed'
    BY TypeStep
  <2> QED
    BY StepsAccounted DEF Accounted
<1>3. ASSUME IInv, [Next]_vars
      PROVE  \A t \in Tasks \ late : rows'[t].att > rows[t].att => t \in unpaid
  <2> SUFFICES ASSUME NEW t \in Tasks, t \notin late, rows'[t].att > rows[t].att
               PROVE  t \in unpaid
    OBVIOUS
  <2>1. Quiet(t, rows[t], rows'[t]) \/ Started(rows[t], rows'[t])
    BY <1>3, StepsAccounted DEF Accounted, Moved
  <2>2. rows[t].att \in Nat
    BY <1>3 DEF TypeOK, VarTypes, Row
  <2>3. rows[t].st = "RUNNING"
    BY <2>1, <2>2 DEF Quiet, Started, Unmoved, Enqueued, GivenBack, Ended, Deleted,
                      Covered
  <2> QED
    BY <1>3, <2>3
<1> QED
  BY <1>1, <1>2, <1>3, PTL DEF Spec, OneChargePerClaim

-------------------------------------------------------------------------------
(* How a step moves the running rows *)

\* A step that matters to a running row takes it back, with a notice to the worker
\* it names or as that worker itself, starts it, or loses sight of its worker.
RunningMoved ==
  \/ LeavesRunning(rows, rows')
  \/ \E t \in Tasks : TakesBack(rows, rows', t) /\ inbox' = SentReclaim(t) /\ lis' = lis
  \/ \E w \in Workers, t \in Tasks :
       TakesBack(rows, rows', t) /\ Mine(rows, t, w) /\ phase[w] # "running"
  \/ \E w \in Workers, t \in Tasks :
       Claim(w, t) \/ ClaimCommitLost(w, t) \/ JobReports(w, t)
  \/ \E w \in Workers : Restart(w)

\* Submitting, cancelling and sweeping leave the running rows alone.
LEMMA SubmissionRunning ==
  ASSUME VarTypes
  PROVE  /\ \A t \in Tasks : EnqueueRoot(t) \/ FailStaleInline(t) => RunningMoved
         /\ \A w \in Workers, t \in Tasks : Family(w, t) => RunningMoved
         /\ \A aimed \in Tasks \cup {None} : GlobalCancel(aimed) => RunningMoved
<1>r. rows \in Table
  BY DEF VarTypes
<1>1. ASSUME NEW t \in Tasks, EnqueueRoot(t) \/ FailStaleInline(t) PROVE RunningMoved
  <2>1. CASE EnqueueRoot(t)
    BY <1>r, <2>1, InsertLeaves DEF EnqueueRoot, RunningMoved
  <2>2. CASE FailStaleInline(t)
    <3>1. LeavesRunning(rows, FailStale(rows, t))
      BY <1>r, SweepsLeave
    <3> QED
      BY <2>2, <3>1 DEF FailStaleInline, RunningMoved
  <2> QED
    BY <1>1, <2>1, <2>2
<1>2. ASSUME NEW w \in Workers, NEW t \in Tasks, Family(w, t) PROVE RunningMoved
  <2>1. CASE EnqueueChild(w, t)
    BY <1>r, <2>1, InsertLeaves DEF EnqueueChild, RunningMoved
  <2>2. CASE ReapChildren(w, t)
    BY <1>r, <2>2, SweepsLeave DEF ReapChildren, RunningMoved
  <2>3. ASSUME NEW v \in {"FAIL", "REVOKED"}, EndChild(w, t, v) PROVE RunningMoved
    BY <1>r, <2>3, FinishLeaves DEF EndChild, RunningMoved, TerminalStatus
  <2> QED
    BY <1>2, <2>1, <2>2, <2>3 DEF Family
<1>3. ASSUME NEW aimed \in Tasks \cup {None}, GlobalCancel(aimed) PROVE RunningMoved
  <2>1. rows' = CancelAll(rows, aimed) /\ \E t \in Tasks : TRUE
    BY <1>3 DEF GlobalCancel
  <2>2. LeavesRunning(rows, rows')
    BY <1>r, <2>1, SweepsLeave
  <2> QED
    BY <2>2 DEF RunningMoved
<1> QED
  BY <1>1, <1>2, <1>3

\* The end of a job, and what the top of the loop puts back.
LEMMA SettlingRunning ==
  ASSUME TypeOK, NEW w \in Workers
  PROVE  /\ \A t \in Tasks : Settle(w, t) => RunningMoved
         /\ \A d \in owed[w] : RetryUnwritten(w, d) => RunningMoved
<1> VarTypes
  BY DEF TypeOK
<1>r. rows \in Table
  BY DEF VarTypes
<1>u. LeavesRunning(rows, rows)
  BY DEF LeavesRunning
<1>m. ASSUME NEW t \in Tasks, phase[w] # "running",
             \/ rows' = rows
             \/ Mine(rows, t, w) /\ rows' \in {RequeueOrFail(rows, t), RequeueUncharged(rows, t)}
      PROVE  RunningMoved
  <2>1. CASE rows' = rows
    BY <1>u, <2>1 DEF RunningMoved
  <2>2. CASE Mine(rows, t, w) /\ rows' \in {RequeueOrFail(rows, t), RequeueUncharged(rows, t)}
    <3>1. rows[t].st = "RUNNING"
      BY <2>2 DEF Mine
    <3>2. TakesBack(rows, rows', t)
      BY <1>r, <2>2, <3>1, RequeuesTakeBack
    <3> QED
      BY <1>m, <2>2, <3>2 DEF RunningMoved
  <2> QED
    BY <1>m, <2>1, <2>2
<1>1. ASSUME NEW t \in Tasks,
             \/ RequeueForRetry(w, t) \/ PutBackFree(w, t) \/ PutBackCharged(w, t)
             \/ Abandon(w, t)
      PROVE  RunningMoved
  BY <1>1, <1>m DEF RequeueForRetry, PutBackFree, PutBackCharged, Abandon
<1>2. ASSUME NEW t \in Tasks, Finalize(w, t) PROVE RunningMoved
  <2>1. job[w].out \in TerminalStatus /\ rows' = FinishRow(rows, t, w, job[w].out)
    BY <1>2 DEF Finalize, Verdicts, TerminalStatus
  <2> QED
    BY <1>r, <2>1, FinishLeaves DEF RunningMoved
<1>3. ASSUME NEW t \in Tasks, Release(w, t) PROVE RunningMoved
  BY <1>3, <1>r, <1>u, CollapsedLeaves DEF Release, RunningMoved
<1>4. ASSUME NEW d \in owed[w], RetryUnwritten(w, d) PROVE RunningMoved
  <2>1. d.task \in Tasks /\ (d.out # "RETRY" => d.out \in TerminalStatus)
    BY DEF VarTypes, Debts, Verdicts, TerminalStatus
  <2>2. phase[w] # "running"
    BY <1>4 DEF RetryUnwritten
  <2>3. CASE d.out = "RETRY"
    BY <1>4, <1>m, <2>1, <2>2, <2>3 DEF RetryUnwritten
  <2>4. CASE d.out # "RETRY"
    <3>1. rows' \in {rows, Collapsed(FinishRow(rows, d.task, w, d.out), d.task)}
      BY <1>4, <2>4 DEF RetryUnwritten
    <3> QED
      BY <1>r, <1>u, <2>1, <2>4, <3>1, FinishLeaves DEF RunningMoved
  <2> QED
    BY <2>3, <2>4
<1> QED
  BY <1>1, <1>2, <1>3, <1>4 DEF Settle

\* Every step moves the running rows in one of these ways.
LEMMA StepsRunning ==
  ASSUME TypeOK, [Next]_vars
  PROVE  RunningMoved
<1> VarTypes
  BY DEF TypeOK
<1>u. rows' = rows => RunningMoved
  BY DEF RunningMoved, LeavesRunning
<1>1. CASE UNCHANGED vars
  BY <1>1, <1>u DEF vars
<1>2. ASSUME NEW w \in Workers, NEW t \in Tasks, JobStep(w, t) PROVE RunningMoved
  <2>1. ASSUME NEW o \in Outcomes, JobEnds(w, t, o) PROVE RunningMoved
    BY <1>u, <2>1 DEF JobEnds
  <2>2. Claim(w, t) \/ JobReports(w, t) => RunningMoved
    BY DEF RunningMoved
  <2> QED
    BY <1>2, <2>1, <2>2, SettlingRunning DEF JobStep
<1>3. ASSUME NEW w \in Workers, WorkerStep(w) PROVE RunningMoved
  <2>1. Restart(w) => RunningMoved
    BY DEF RunningMoved
  <2>2. ASSUME \/ NothingToClaim(w) \/ Reconnect(w) \/ EnsureHold(w) \/ ListenerReady(w)
               \/ SessionsEnd(w) \/ \E n \in inbox[w] : OnNotify(w, n)
        PROVE  RunningMoved
    BY <1>u, <2>2 DEF NothingToClaim, Reconnect, EnsureHold, ListenerReady, SessionsEnd,
                      OnNotify
  <2> QED
    BY <1>3, <2>1, <2>2, SettlingRunning DEF WorkerStep
<1>4. ASSUME NEW w \in Workers, Misfortune(w) PROVE RunningMoved
  <2>1. ASSUME NEW t \in Tasks, ClaimCommitLost(w, t) PROVE RunningMoved
    BY <2>1 DEF RunningMoved
  <2>2. ASSUME NEW t \in Tasks, RequeueCommitLost(w, t) \/ OutcomeUnwritten(w, t)
        PROVE  RunningMoved
    BY <1>u, <2>2 DEF RequeueCommitLost, OutcomeUnwritten
  <2>3. ASSUME Crash(w) \/ DropConn(w) \/ DropListener(w) \/ LoopTopFails(w)
        PROVE  RunningMoved
    BY <1>u, <2>3 DEF Crash, DropConn, DropListener, LoopTopFails
  <2>4. ASSUME NEW d \in owed[w], RetryCommitLost(w, d) PROVE RunningMoved
    BY <1>u, <2>4 DEF RetryCommitLost
  <2> QED
    BY <1>4, <2>1, <2>2, <2>3, <2>4 DEF Misfortune
<1>5. CASE Maintenance
  <2>1. ASSUME NEW t \in Tasks, ReclaimOne(t) PROVE RunningMoved
    <3>1. CASE rows[t].st = "RUNNING" /\ lock[t] = None
      <4>1. TakesBack(rows, rows', t)
        BY <2>1, <3>1, RequeuesTakeBack DEF ReclaimOne, VarTypes
      <4> QED
        BY <2>1, <3>1, <4>1 DEF ReclaimOne, RunningMoved
    <3>2. CASE ~(rows[t].st = "RUNNING" /\ lock[t] = None)
      BY <1>u, <2>1, <3>2, RequeuesTakeBack DEF ReclaimOne, VarTypes
    <3> QED
      BY <3>1, <3>2
  <2>2. ASSUME NEW t \in Tasks, Nudge(t) \/ Escalate(t) PROVE RunningMoved
    BY <1>u, <2>2 DEF Nudge, Escalate
  <2> QED
    BY <1>5, <1>u, <2>1, <2>2, SubmissionRunning DEF Maintenance, Scan
<1> QED
  BY <1>1, <1>2, <1>3, <1>4, <1>5, SubmissionRunning DEF Next

\* A row that is running, and was not moved there by a late report, was running
\* before or on the queue.
LEMMA StartedFromQueue ==
  ASSUME TypeOK, [Next]_vars, NEW t \in Tasks, rows'[t].st = "RUNNING", t \notin late'
  PROVE  rows[t].st \in LiveStatus
<1> rows \in Table
  BY DEF TypeOK, VarTypes
<1> USE DEF LiveStatus
<1>1. CASE LeavesRunning(rows, rows')
  BY <1>1 DEF LeavesRunning
<1>2. ASSUME NEW u \in Tasks, TakesBack(rows, rows', u) PROVE rows'[t] = rows[t]
  BY <1>2 DEF TakesBack
<1>3. ASSUME NEW v \in Workers, NEW u \in Tasks, Claim(v, u) \/ ClaimCommitLost(v, u)
      PROVE  rows'[t] = rows[t] \/ rows[t].st = "NEW"
  <2>1. rows' = ClaimRow(rows, u, v) /\ rows[u].st = "NEW"
    BY <1>3 DEF Claim, ClaimCommitLost, CanClaim, Claimable
  <2> QED
    BY <2>1 DEF ClaimRow
<1>4. ASSUME NEW v \in Workers, NEW u \in Tasks, JobReports(v, u)
      PROVE  rows'[t] = rows[t]
  <2>1. t # u /\ rows' = ReportRunning(rows, u)
    BY <1>4 DEF JobReports
  <2> QED
    BY <2>1 DEF ReportRunning
<1>5. ASSUME NEW v \in Workers, Restart(v)
      PROVE  rows'[t].st = rows[t].st
  BY <1>5 DEF Restart, Row
<1> QED
  BY <1>1, <1>2, <1>3, <1>4, <1>5, StepsRunning DEF RunningMoved

\* A row that is running for a worker was running for it before, for the same
\* attempt, or that worker has just claimed it.
LEMMA RunningBefore ==
  ASSUME TypeOK, [Next]_vars, NEW w \in Workers, NEW t \in Tasks,
         rows'[t].st = "RUNNING", rows'[t].owner = w, t \notin late'
  PROVE  \/ rows[t].st = "RUNNING" /\ rows[t].owner = w /\ rows'[t].att = rows[t].att
         \/ Claim(w, t)
         \/ ClaimCommitLost(w, t)
<1> rows \in Table /\ w # Ghost
  BY DEF TypeOK, VarTypes
<1>1. CASE LeavesRunning(rows, rows')
  BY <1>1 DEF LeavesRunning
<1>2. ASSUME NEW u \in Tasks, TakesBack(rows, rows', u)
      PROVE  rows'[t] = rows[t]
  BY <1>2 DEF TakesBack
<1>3. ASSUME NEW v \in Workers, NEW u \in Tasks, Claim(v, u) \/ ClaimCommitLost(v, u)
      PROVE  rows'[t] = rows[t] \/ Claim(w, t) \/ ClaimCommitLost(w, t)
  <2>1. rows' = ClaimRow(rows, u, v)
    BY <1>3 DEF Claim, ClaimCommitLost
  <2>2. CASE u # t
    BY <2>1, <2>2 DEF ClaimRow
  <2>3. CASE u = t
    <3>1. v = w
      BY <2>1, <2>3 DEF ClaimRow, Row
    <3> QED
      BY <1>3, <2>3, <3>1
  <2> QED
    BY <2>2, <2>3
<1>4. ASSUME NEW v \in Workers, NEW u \in Tasks, JobReports(v, u)
      PROVE  rows'[t] = rows[t]
  <2>1. t # u /\ rows' = ReportRunning(rows, u)
    BY <1>4 DEF JobReports
  <2> QED
    BY <2>1 DEF ReportRunning
<1>5. ASSUME NEW v \in Workers, Restart(v)
      PROVE  rows'[t] = rows[t]
  <2>1. \/ rows'[t] = rows[t]
        \/ rows'[t] = [rows[t] EXCEPT !.owner = Ghost]
    BY <1>5 DEF Restart
  <2>2. [rows[t] EXCEPT !.owner = Ghost].owner = Ghost
    BY DEF Row
  <2> QED
    BY <2>1, <2>2
<1> QED
  BY <1>1, <1>2, <1>3, <1>4, <1>5, StepsRunning DEF RunningMoved

\* A row taken from the worker that runs it is taken with a notice to that worker.
LEMMA TakenWithNotice ==
  ASSUME TypeOK, [Next]_vars, NEW w \in Workers, NEW t \in Tasks,
         Executing(w, t), Rightful(w, t), IsLive(rows', t), t \notin late'
  PROVE  \/ rows'[t] = rows[t]
         \/ ~lis'[w]
         \/ Reclaim(t, job[w].att) \in inbox'[w]
<1> rows \in Table /\ w # None /\ phase[w] = "running" /\ inbox \in InboxType
    /\ rows[t].st = "RUNNING" /\ rows[t].owner = w /\ rows[t].att = job[w].att
  BY DEF TypeOK, VarTypes, Executing, Rightful, InboxType
<1>1. CASE LeavesRunning(rows, rows')
  BY <1>1 DEF LeavesRunning, IsLive
<1>2. ASSUME NEW u \in Tasks, TakesBack(rows, rows', u), inbox' = SentReclaim(u), lis' = lis
      PROVE  rows'[t] = rows[t] \/ ~lis'[w] \/ Reclaim(t, job[w].att) \in inbox'[w]
  <2>1. CASE u # t
    BY <1>2, <2>1 DEF TakesBack
  <2>2. CASE u = t
    BY <1>2, <2>2 DEF SentReclaim, Sent
  <2> QED
    BY <2>1, <2>2
<1>3. ASSUME NEW v \in Workers, NEW u \in Tasks,
             TakesBack(rows, rows', u), Mine(rows, u, v), phase[v] # "running"
      PROVE  rows'[t] = rows[t]
  <2>1. u # t
    BY <1>3 DEF Mine
  <2> QED
    BY <1>3, <2>1 DEF TakesBack
<1>4. ASSUME NEW v \in Workers, NEW u \in Tasks, Claim(v, u) \/ ClaimCommitLost(v, u)
      PROVE  rows'[t] = rows[t]
  <2>1. rows' = ClaimRow(rows, u, v) /\ u # t
    BY <1>4 DEF Claim, ClaimCommitLost, CanClaim, Claimable
  <2> QED
    BY <2>1 DEF ClaimRow
<1>5. ASSUME NEW v \in Workers, NEW u \in Tasks, JobReports(v, u)
      PROVE  rows'[t] = rows[t]
  <2>1. t # u /\ rows' = ReportRunning(rows, u)
    BY <1>5 DEF JobReports
  <2> QED
    BY <2>1 DEF ReportRunning
<1>6. ASSUME NEW v \in Workers, Restart(v)
      PROVE  rows'[t] = rows[t]
  <2>1. v # w
    BY <1>6 DEF Restart, Alive
  <2> QED
    BY <1>6, <2>1 DEF Restart
<1> QED
  BY <1>1, <1>2, <1>3, <1>4, <1>5, <1>6, StepsRunning DEF RunningMoved

-------------------------------------------------------------------------------
(* What a listener hears *)

\* A notice is lost only with the listener's session, and read only by its worker;
\* a new reclaim notice is for the attempt that is being charged.
Heard(w) ==
  /\ \/ ~lis'[w]
     \/ lis[w] /\ inbox[w] \subseteq inbox'[w]
     \/ \E n \in inbox[w] : OnNotify(w, n)
     \/ ListenerReady(w)
     \/ Restart(w)
  /\ \A n \in inbox'[w] :
       n.kind = "reclaim" =>
         \/ n \in inbox[w]
         \/ /\ rows[n.task].st = "RUNNING" /\ n.att = rows[n.task].att
            /\ rows'[n.task].att = n.att + 1

\* A step that sends nothing and drops nothing.
LEMMA NothingHeard ==
  ASSUME VarTypes, UNCHANGED <<lis, inbox>>
  PROVE  \A w \in Workers : Heard(w)
BY DEF Heard, VarTypes

\* A step that sends a cancel.
LEMMA CancelHeard ==
  ASSUME VarTypes, NEW t \in Tasks \cup {None}, lis' = lis, inbox' = Sent(Cancel(t), Workers)
  PROVE  \A w \in Workers : Heard(w)
<1> SUFFICES ASSUME NEW w \in Workers PROVE Heard(w)
  OBVIOUS
<1>1. inbox'[w] = IF lis[w] THEN inbox[w] \cup {Cancel(t)} ELSE inbox[w]
  BY DEF Sent
<1>2. Cancel(t).kind # "reclaim"
  BY DEF Cancel
<1> QED
  BY <1>1, <1>2 DEF Heard, VarTypes

\* A step that charges a row, or finds nothing to charge.
LEMMA ReclaimHeard ==
  ASSUME VarTypes, NEW t \in Tasks, lis' = lis, inbox' = SentReclaim(t),
         rows' = RequeueOrFail(rows, t)
  PROVE  \A w \in Workers : Heard(w)
<1> SUFFICES ASSUME NEW w \in Workers PROVE Heard(w)
  OBVIOUS
<1>1. CASE rows[t].st # "RUNNING"
  BY <1>1, NothingHeard DEF SentReclaim
<1>2. CASE rows[t].st = "RUNNING"
  <2> DEFINE n == Reclaim(t, rows[t].att)
  <2>1. inbox'[w] \in {inbox[w], inbox[w] \cup {n}}
    BY <1>2 DEF SentReclaim, Sent
  <2>2. n.task = t /\ n.att = rows[t].att /\ rows'[t].att = n.att + 1
    BY <1>2, RequeuesTakeBack DEF Reclaim, VarTypes
  <2> HIDE DEF n
  <2> QED
    BY <1>2, <2>1, <2>2 DEF Heard, VarTypes
<1> QED
  BY <1>1, <1>2

\* A step in which a listener loses its session, or reads one notice.
LEMMA OneListenerHeard ==
  ASSUME VarTypes, NEW v \in Workers, inbox'[v] \subseteq inbox[v],
         \A w \in Workers \ {v} : lis'[w] = lis[w] /\ inbox'[w] = inbox[w],
         \/ ~lis'[v]
         \/ \E n \in inbox[v] : OnNotify(v, n)
         \/ ListenerReady(v)
         \/ Restart(v)
  PROVE  \A w \in Workers : Heard(w)
<1>1. Heard(v)
  <2>1. \A n \in inbox'[v] : n \in inbox[v]
    OBVIOUS
  <2> QED
    BY <2>1 DEF Heard
<1>2. ASSUME NEW w \in Workers \ {v} PROVE Heard(w)
  BY <1>2 DEF Heard, VarTypes
<1> QED
  BY <1>1, <1>2

\* A worker's own steps, as the listeners see them.
LEMMA WorkerHeard ==
  ASSUME TypeOK, NEW v \in Workers, WorkerStep(v) \/ Misfortune(v)
  PROVE  \A w \in Workers : Heard(w)
<1> VarTypes
  BY DEF TypeOK
<1>1. ASSUME NEW d \in owed[v], RetryUnwritten(v, d)
      PROVE  \A w \in Workers : Heard(w)
  <2>1. d.task \in Tasks
    BY DEF VarTypes, Debts
  <2>2. lis' = lis /\ (inbox' = inbox
                      \/ (inbox' = SentReclaim(d.task) /\ rows' = RequeueOrFail(rows, d.task)))
    BY <1>1 DEF RetryUnwritten
  <2> QED
    BY <2>1, <2>2, NothingHeard, ReclaimHeard
<1>2. ASSUME NEW n \in inbox[v], OnNotify(v, n)
      PROVE  \A w \in Workers : Heard(w)
  <2>1. inbox' = [inbox EXCEPT ![v] = @ \ {n}] /\ lis' = lis
    BY <1>2 DEF OnNotify
  <2>2. /\ inbox'[v] \subseteq inbox[v]
        /\ \A w \in Workers \ {v} : lis'[w] = lis[w] /\ inbox'[w] = inbox[w]
    BY <2>1 DEF VarTypes
  <2> QED
    BY <1>2, <2>2, OneListenerHeard
<1>3. ASSUME ListenerReady(v) \/ Restart(v)
      PROVE  \A w \in Workers : Heard(w)
  <2>1. lis' = [lis EXCEPT ![v] = TRUE] /\ inbox' = inbox
    BY <1>3 DEF ListenerReady, Restart
  <2>2. /\ inbox'[v] \subseteq inbox[v]
        /\ \A w \in Workers \ {v} : lis'[w] = lis[w] /\ inbox'[w] = inbox[w]
    BY <2>1 DEF VarTypes
  <2> QED
    BY <1>3, <2>2, OneListenerHeard
<1>4. ASSUME SessionsEnd(v) \/ DropListener(v)
      PROVE  \A w \in Workers : Heard(w)
  <2>1. lis' = [lis EXCEPT ![v] = FALSE] /\ inbox' = [inbox EXCEPT ![v] = {}]
    BY <1>4 DEF SessionsEnd, DropListener
  <2>2. /\ ~lis'[v] /\ inbox'[v] \subseteq inbox[v]
        /\ \A w \in Workers \ {v} : lis'[w] = lis[w] /\ inbox'[w] = inbox[w]
    BY <2>1 DEF VarTypes
  <2> QED
    BY <2>2, OneListenerHeard
<1>5. ASSUME \/ NothingToClaim(v) \/ Reconnect(v) \/ EnsureHold(v) \/ Crash(v)
             \/ DropConn(v) \/ LoopTopFails(v)
             \/ \E t \in Tasks : \/ ClaimCommitLost(v, t) \/ RequeueCommitLost(v, t)
                                 \/ OutcomeUnwritten(v, t)
             \/ \E d \in owed[v] : RetryCommitLost(v, d)
      PROVE  \A w \in Workers : Heard(w)
  <2>1. UNCHANGED <<lis, inbox>>
    BY <1>5 DEF NothingToClaim, Reconnect, EnsureHold, Crash, DropConn, LoopTopFails,
                ClaimCommitLost, RequeueCommitLost, OutcomeUnwritten, RetryCommitLost,
                sessions
  <2> QED
    BY <2>1, NothingHeard
<1> QED
  BY <1>1, <1>2, <1>3, <1>4, <1>5 DEF WorkerStep, Misfortune

\* Every step, as the listeners see it.
LEMMA StepsHeard ==
  ASSUME TypeOK, [Next]_vars
  PROVE  \A w \in Workers : Heard(w)
<1> VarTypes
  BY DEF TypeOK
<1> USE DEF sessions
<1>1. CASE UNCHANGED vars
  BY <1>1, NothingHeard DEF vars
<1>2. ASSUME NEW t \in Tasks, EnqueueRoot(t) PROVE \A w \in Workers : Heard(w)
  BY <1>2, NothingHeard DEF EnqueueRoot
<1>3. ASSUME NEW a \in Tasks \cup {None}, GlobalCancel(a) PROVE \A w \in Workers : Heard(w)
  BY <1>3, CancelHeard DEF GlobalCancel, CancelEverything
<1>4. ASSUME NEW v \in Workers, NEW t \in Tasks, Family(v, t)
      PROVE  \A w \in Workers : Heard(w)
  <2>1. CASE EnqueueChild(v, t) \/ ReapChildren(v, t)
    BY <2>1, NothingHeard DEF EnqueueChild, ReapChildren
  <2>2. ASSUME NEW o \in {"FAIL", "REVOKED"}, EndChild(v, t, o)
        PROVE  \A w \in Workers : Heard(w)
    BY <2>2, CancelHeard DEF EndChild
  <2> QED
    BY <1>4, <2>1, <2>2 DEF Family
<1>5. ASSUME NEW v \in Workers, NEW t \in Tasks, JobStep(v, t)
      PROVE  \A w \in Workers : Heard(w)
  <2>1. ASSUME \/ Claim(v, t) \/ JobReports(v, t) \/ Finalize(v, t) \/ Abandon(v, t)
               \/ Release(v, t) \/ PutBackFree(v, t) \/ \E o \in Outcomes : JobEnds(v, t, o)
        PROVE  \A w \in Workers : Heard(w)
    <3>1. UNCHANGED <<lis, inbox>>
      BY <2>1 DEF Claim, JobReports, Finalize, Abandon, Release, PutBackFree, JobEnds
    <3> QED
      BY <3>1, NothingHeard
  <2>2. ASSUME RequeueForRetry(v, t) \/ PutBackCharged(v, t)
        PROVE  \A w \in Workers : Heard(w)
    <3>1. lis' = lis /\ (inbox' = inbox
                        \/ (inbox' = SentReclaim(t) /\ rows' = RequeueOrFail(rows, t)))
      BY <2>2 DEF RequeueForRetry, PutBackCharged
    <3> QED
      BY <3>1, NothingHeard, ReclaimHeard
  <2> QED
    BY <1>5, <2>1, <2>2 DEF JobStep, Settle
<1>6. CASE Maintenance
  <2>1. ASSUME NEW t \in Tasks, ReclaimOne(t) PROVE \A w \in Workers : Heard(w)
    <3>1. lis' = lis /\ (inbox' = inbox
                        \/ (inbox' = SentReclaim(t) /\ rows' = RequeueOrFail(rows, t)))
      BY <2>1 DEF ReclaimOne
    <3> QED
      BY <3>1, NothingHeard, ReclaimHeard
  <2>2. ASSUME NEW t \in Tasks, FailStaleInline(t) PROVE \A w \in Workers : Heard(w)
    BY <2>2, NothingHeard DEF FailStaleInline
  <2>3. ASSUME NEW t \in Tasks, Nudge(t) PROVE \A w \in Workers : Heard(w)
    BY <2>3, CancelHeard DEF Nudge
  <2>4. ASSUME NEW t \in Tasks, Escalate(t), NEW w \in Workers PROVE Heard(w)
    <3> DEFINE v == rows[t].owner
    <3>1. /\ v \in Workers
          /\ lis' = [lis EXCEPT ![v] = FALSE]
          /\ inbox' = [Sent(Cancel(t), Workers) EXCEPT ![v] = {}]
      BY <2>4 DEF Escalate, Wedged
    <3>2. Sent(Cancel(t), Workers) \in InboxType
      BY NoticesType, SentType DEF VarTypes, InboxType
    <3>3. CASE w = v
      <4>1. ~lis'[w] /\ inbox'[w] = {}
        BY <3>1, <3>2, <3>3 DEF VarTypes, InboxType
      <4> QED
        BY <4>1 DEF Heard
    <3>4. CASE w # v
      <4>1. lis'[w] = lis[w] /\ inbox'[w] = Sent(Cancel(t), Workers)[w]
        BY <3>1, <3>2, <3>4 DEF VarTypes, InboxType
      <4>2. inbox'[w] = IF lis[w] THEN inbox[w] \cup {Cancel(t)} ELSE inbox[w]
        BY <4>1 DEF Sent
      <4>3. Cancel(t).kind # "reclaim" /\ lis[w] \in BOOLEAN
        BY DEF Cancel, VarTypes
      <4> QED
        BY <4>1, <4>2, <4>3 DEF Heard
    <3> QED
      BY <3>3, <3>4
  <2>5. CASE Scan
    BY <2>5, NothingHeard DEF Scan
  <2> QED
    BY <1>6, <2>1, <2>2, <2>3, <2>4, <2>5 DEF Maintenance
<1> QED
  BY <1>1, <1>2, <1>3, <1>4, <1>5, <1>6, WorkerHeard DEF Next

-------------------------------------------------------------------------------
(* What is in a worker's hands *)

\* A worker runs a job only by claiming it, comes back to life only as a new
\* process, and lets go of a job only by writing its outcome, by remembering it,
\* or by a commit that was lost.
HandsOf(w) ==
  /\ phase'[w] = "running" =>
       \/ phase[w] = "running" /\ job'[w] = job[w]
       \/ \E t \in Tasks : Claim(w, t)
  /\ phase'[w] # "dead" => phase[w] # "dead" \/ Restart(w)
  /\ \A t \in Tasks :
       InHand(w, t) /\ phase'[w] # "dead" =>
         InHand(w, t)' \/ t \in lost' \/ ~(rows'[t].st = "RUNNING" /\ rows'[t].owner = w)

\* A worker whose own variables do not change.
LEMMA HandsUnmoved ==
  ASSUME NEW w \in Workers, phase'[w] = phase[w], job'[w] = job[w],
         owed'[w] = owed[w], left'[w] = left[w]
  PROVE  HandsOf(w)
BY DEF HandsOf, InHand, Holding

\* A step of one worker, as the hands of all.
LEMMA HandsOfOne ==
  ASSUME NEW v \in Workers, HandsOf(v),
         \A w \in Workers \ {v} : /\ phase'[w] = phase[w] /\ job'[w] = job[w]
                                  /\ owed'[w] = owed[w] /\ left'[w] = left[w]
  PROVE  \A w \in Workers : HandsOf(w)
BY HandsUnmoved

\* A step that touches no worker's variables, and a death.
LEMMA HandsIdle ==
  ASSUME UNCHANGED <<phase, job, owed, left>>
  PROVE  \A w \in Workers : HandsOf(w)
BY HandsUnmoved

LEMMA HandsDying ==
  ASSUME VarTypes, NEW v \in Workers, Dies(v)
  PROVE  \A w \in Workers : HandsOf(w)
<1>1. HandsOf(v)
  BY DEF HandsOf, Dies, VarTypes
<1>2. \A w \in Workers \ {v} : /\ phase'[w] = phase[w] /\ job'[w] = job[w]
                               /\ owed'[w] = owed[w] /\ left'[w] = left[w]
  BY DEF Dies, VarTypes
<1> QED
  BY <1>1, <1>2, HandsOfOne

\* A worker that gives its own row back has it running no more.
LEMMA MineTakenBack ==
  ASSUME VarTypes, NEW w \in Workers, NEW t \in Tasks, Mine(rows, t, w)
  PROVE  /\ RequeueOrFail(rows, t)[t].st # "RUNNING"
         /\ RequeueUncharged(rows, t)[t].st # "RUNNING"
<1>1. rows \in Table /\ rows[t].st = "RUNNING"
  BY DEF VarTypes, Mine
<1> QED
  BY <1>1, RequeuesTakeBack DEF TakesBack

\* An ended job is let go with its outcome written, kept or lost.
LEMMA HandsOfEnded ==
  ASSUME TypeOK, NEW v \in Workers, NEW t \in Tasks,
         \/ Finalize(v, t) \/ RequeueForRetry(v, t) \/ Abandon(v, t)
         \/ RequeueCommitLost(v, t) \/ OutcomeUnwritten(v, t)
  PROVE  \A w \in Workers : HandsOf(w)
<1> VarTypes
  BY DEF TypeOK
<1>e. phase[v] = "ended" /\ job[v].task = t /\ phase' = [phase EXCEPT ![v] = "releasing"]
  BY DEF Finalize, RequeueForRetry, Abandon, RequeueCommitLost, OutcomeUnwritten
<1>1. \A w \in Workers \ {v} : /\ phase'[w] = phase[w] /\ job'[w] = job[w]
                               /\ owed'[w] = owed[w] /\ left'[w] = left[w]
  BY DEF VarTypes, Finalize, RequeueForRetry, Abandon, RequeueCommitLost,
         OutcomeUnwritten, Remembered, Shelved
<1>2. /\ phase'[v] = "releasing"
      /\ owed[v] \subseteq owed'[v] /\ left[v] \subseteq left'[v]
  BY <1>e DEF VarTypes, Finalize, RequeueForRetry, Abandon, RequeueCommitLost,
         OutcomeUnwritten, Remembered, Shelved
<1>3. \/ InHand(v, t)' \/ t \in lost' \/ ~(rows'[t].st = "RUNNING" /\ rows'[t].owner = v)
  <2>1. CASE Finalize(v, t)
    <3>1. job[v].out \in TerminalStatus /\ rows' = FinishRow(rows, t, v, job[v].out)
      BY <2>1 DEF Finalize, Verdicts, TerminalStatus
    <3>2. CASE Mine(rows, t, v)
      BY <3>1, <3>2 DEF FinishRow, VarTypes, Row, TerminalStatus
    <3>3. CASE ~Mine(rows, t, v)
      BY <3>1, <3>3 DEF FinishRow, Mine
    <3> QED
      BY <3>2, <3>3
  <2>2. CASE RequeueForRetry(v, t)
    <3>1. CASE Mine(rows, t, v)
      <4>1. rows' = RequeueOrFail(rows, t)
        BY <2>2, <3>1 DEF RequeueForRetry
      <4> QED
        BY <3>1, <4>1, MineTakenBack
    <3>2. CASE ~Mine(rows, t, v)
      BY <2>2, <3>2 DEF RequeueForRetry, Mine
    <3> QED
      BY <3>1, <3>2
  <2>3. CASE Abandon(v, t)
    BY <2>3 DEF Abandon, Shelved, InHand, VarTypes
  <2>4. CASE RequeueCommitLost(v, t)
    BY <2>4 DEF RequeueCommitLost
  <2>5. CASE OutcomeUnwritten(v, t)
    BY <1>e, <2>5 DEF OutcomeUnwritten, Remembered, InHand, VarTypes
  <2> QED
    BY <2>1, <2>2, <2>3, <2>4, <2>5
<1>4. HandsOf(v)
  BY <1>e, <1>2, <1>3 DEF HandsOf, InHand, Holding
<1> QED
  BY <1>1, <1>4, HandsOfOne

\* What the top of the loop puts back leaves the worker's hands and its row.
LEMMA HandsOfLoop ==
  ASSUME TypeOK, NEW v \in Workers
  PROVE  /\ \A d \in owed[v] :
              RetryUnwritten(v, d) \/ RetryCommitLost(v, d) => \A w \in Workers : HandsOf(w)
         /\ \A t \in Tasks :
              PutBackFree(v, t) \/ PutBackCharged(v, t) => \A w \in Workers : HandsOf(w)
<1> VarTypes
  BY DEF TypeOK
<1>1. ASSUME NEW d \in owed[v], RetryUnwritten(v, d) PROVE \A w \in Workers : HandsOf(w)
  <2> DEFINE t == d.task
  <2>1. /\ UNCHANGED <<phase, job, left>> /\ owed' = [owed EXCEPT ![v] = @ \ {d}]
        /\ phase[v] = "idle"
    BY <1>1 DEF RetryUnwritten
  <2>2. t \in Tasks /\ (d.out # "RETRY" => d.out \in TerminalStatus)
    BY DEF VarTypes, Debts, Verdicts, TerminalStatus
  <2>3. ~(rows'[t].st = "RUNNING" /\ rows'[t].owner = v)
    <3>1. CASE ~Mine(rows, t, v)
      BY <1>1, <3>1 DEF RetryUnwritten, Mine
    <3>2. CASE Mine(rows, t, v) /\ d.out = "RETRY"
      <4>1. rows' = RequeueOrFail(rows, t)
        BY <1>1, <3>2 DEF RetryUnwritten
      <4> QED
        BY <2>2, <3>2, <4>1, MineTakenBack
    <3>3. CASE Mine(rows, t, v) /\ d.out # "RETRY"
      <4> DEFINE f == FinishRow(rows, t, v, d.out)
      <4>1. f \in Table /\ f[t].st \in TerminalStatus
        <5>1. rows[t] \in Row /\ t \in Tasks /\ rows \in Table
          BY <2>2 DEF VarTypes
        <5>2. f[t] = [rows[t] EXCEPT !.st = d.out]
          BY <3>3, <5>1 DEF FinishRow
        <5>3. f[t].st = d.out
          BY <5>1, <5>2 DEF Row
        <5> QED
          BY <2>2, <3>3, <5>1, <5>3, FinishRowType
      <4>2. rows' = Collapsed(f, t)
        BY <1>1, <3>3 DEF RetryUnwritten
      <4>3. rows'[t] = f[t]
        BY <2>2, <4>1, <4>2, CollapsedMoves
      <4> QED
        BY <4>1, <4>3 DEF TerminalStatus
    <3> QED
      BY <3>1, <3>2, <3>3
  <2>4. \A e \in owed[v] : e # d => e \in owed'[v]
    BY <2>1 DEF VarTypes
  <2>5. HandsOf(v)
    <3>1. \A u \in Tasks : InHand(v, u) => InHand(v, u)' \/ u = t
      BY <2>1, <2>4 DEF InHand, Holding
    <3> QED
      BY <2>1, <2>3, <3>1 DEF HandsOf
  <2> QED
    BY <2>1, <2>5, HandsOfOne DEF VarTypes
<1>2. ASSUME NEW t \in Tasks, PutBackFree(v, t) \/ PutBackCharged(v, t)
      PROVE  \A w \in Workers : HandsOf(w)
  <2>1. /\ UNCHANGED <<phase, job, owed>> /\ left' = [left EXCEPT ![v] = @ \ {t}]
        /\ phase[v] = "idle"
    BY <1>2 DEF PutBackFree, PutBackCharged
  <2>2. ~(rows'[t].st = "RUNNING" /\ rows'[t].owner = v)
    <3>1. CASE ~Mine(rows, t, v)
      BY <1>2, <3>1 DEF PutBackFree, PutBackCharged, Mine
    <3>2. CASE Mine(rows, t, v)
      <4>1. rows' \in {RequeueOrFail(rows, t), RequeueUncharged(rows, t)}
        BY <1>2, <3>2 DEF PutBackFree, PutBackCharged
      <4> QED
        BY <3>2, <4>1, MineTakenBack
    <3> QED
      BY <3>1, <3>2
  <2>3. HandsOf(v)
    <3>1. \A u \in Tasks : InHand(v, u) => InHand(v, u)' \/ u = t
      BY <2>1 DEF InHand, Holding, VarTypes
    <3> QED
      BY <2>1, <2>2, <3>1 DEF HandsOf
  <2> QED
    BY <2>1, <2>3, HandsOfOne DEF VarTypes
<1>3. ASSUME NEW d \in owed[v], RetryCommitLost(v, d) PROVE \A w \in Workers : HandsOf(w)
  <2>1. /\ UNCHANGED <<phase, job, left>> /\ owed' = [owed EXCEPT ![v] = @ \ {d}]
        /\ d.task \in lost' /\ phase[v] = "idle"
    BY <1>3 DEF RetryCommitLost
  <2>2. \A e \in owed[v] : e # d => e \in owed'[v]
    BY <2>1 DEF VarTypes
  <2>3. HandsOf(v)
    <3>1. \A u \in Tasks : InHand(v, u) => InHand(v, u)' \/ u = d.task
      BY <2>1, <2>2 DEF InHand, Holding
    <3> QED
      BY <2>1, <3>1 DEF HandsOf
  <2> QED
    BY <2>1, <2>3, HandsOfOne DEF VarTypes
<1> QED
  BY <1>1, <1>2, <1>3

\* The claim, the end of a job, its release, and the loop's empty rounds.
LEMMA HandsOfRounds ==
  ASSUME TypeOK, NEW v \in Workers
  PROVE  /\ \/ NothingToClaim(v) \/ Reconnect(v) \/ LoopTopFails(v) \/ Restart(v)
            => \A w \in Workers : HandsOf(w)
         /\ \A t \in Tasks :
              \/ Claim(v, t) \/ ClaimCommitLost(v, t) \/ Release(v, t)
              \/ \E o \in Outcomes : JobEnds(v, t, o)
              => \A w \in Workers : HandsOf(w)
<1> VarTypes
  BY DEF TypeOK
<1>1. ASSUME phase[v] \in {"idle", "ready", "dead"}, UNCHANGED <<job, owed, left>>,
             \E p \in {"idle", "ready"} : phase' = [phase EXCEPT ![v] = p],
             phase[v] = "dead" => Restart(v)
      PROVE  \A w \in Workers : HandsOf(w)
  <2>1. HandsOf(v)
    BY <1>1 DEF HandsOf, InHand, Holding, VarTypes
  <2> QED
    BY <1>1, <2>1, HandsOfOne DEF VarTypes
<1>2. ASSUME NothingToClaim(v) \/ Reconnect(v) \/ LoopTopFails(v) \/ Restart(v)
      PROVE  \A w \in Workers : HandsOf(w)
  BY <1>1, <1>2 DEF NothingToClaim, Reconnect, LoopTopFails, Restart, Alive
<1>3. ASSUME NEW t \in Tasks, ClaimCommitLost(v, t) PROVE \A w \in Workers : HandsOf(w)
  BY <1>1, <1>3 DEF ClaimCommitLost, CanClaim, AtClaim
<1>4. ASSUME NEW t \in Tasks, Claim(v, t) PROVE \A w \in Workers : HandsOf(w)
  <2>1. /\ phase[v] \in {"idle", "ready"} /\ UNCHANGED <<owed, left>>
        /\ phase' = [phase EXCEPT ![v] = "running"]
        /\ \E j : job' = [job EXCEPT ![v] = j]
    BY <1>4 DEF Claim, CanClaim, AtClaim
  <2>2. HandsOf(v)
    BY <1>4, <2>1 DEF HandsOf, InHand, Holding
  <2> QED
    BY <2>1, <2>2, HandsOfOne DEF VarTypes
<1>5. ASSUME NEW t \in Tasks, Release(v, t) PROVE \A w \in Workers : HandsOf(w)
  <2>1. /\ phase[v] = "releasing" /\ UNCHANGED <<owed, left>>
        /\ phase' = [phase EXCEPT ![v] = "idle"]
        /\ job' = [job EXCEPT ![v] = NoJob]
    BY <1>5 DEF Release
  <2>2. HandsOf(v)
    BY <2>1 DEF HandsOf, InHand, Holding, VarTypes
  <2> QED
    BY <2>1, <2>2, HandsOfOne DEF VarTypes
<1>6. ASSUME NEW t \in Tasks, NEW o \in Outcomes, JobEnds(v, t, o)
      PROVE  \A w \in Workers : HandsOf(w)
  <2>1. /\ phase[v] = "running" /\ UNCHANGED <<owed, left>>
        /\ phase' = [phase EXCEPT ![v] = "ended"]
        /\ job' = [job EXCEPT ![v].out = Decided(v, t, o)]
    BY <1>6 DEF JobEnds, Executing
  <2>2. phase'[v] = "ended" /\ job'[v].task = job[v].task
    BY <2>1 DEF VarTypes, Jobs
  <2>3. HandsOf(v)
    BY <2>1, <2>2 DEF HandsOf, InHand, Holding
  <2> QED
    BY <2>1, <2>3, HandsOfOne DEF VarTypes
<1> QED
  BY <1>2, <1>3, <1>4, <1>5, <1>6

\* Every step, as the hands of every worker.
LEMMA StepsHands ==
  ASSUME TypeOK, [Next]_vars
  PROVE  \A w \in Workers : HandsOf(w)
<1> VarTypes
  BY DEF TypeOK
<1>i. UNCHANGED local => \A w \in Workers : HandsOf(w)
  BY HandsIdle DEF local
<1>1. CASE UNCHANGED vars
  BY <1>1, HandsIdle DEF vars, local
<1>2. ASSUME NEW t \in Tasks, EnqueueRoot(t) PROVE \A w \in Workers : HandsOf(w)
  BY <1>2, <1>i DEF EnqueueRoot
<1>3. ASSUME NEW a \in Tasks \cup {None}, GlobalCancel(a) PROVE \A w \in Workers : HandsOf(w)
  BY <1>3, <1>i DEF GlobalCancel
<1>4. ASSUME NEW v \in Workers, NEW t \in Tasks, Family(v, t)
      PROVE  \A w \in Workers : HandsOf(w)
  BY <1>4, <1>i DEF Family, EnqueueChild, EndChild, ReapChildren
<1>5. ASSUME NEW v \in Workers, NEW t \in Tasks, JobStep(v, t)
      PROVE  \A w \in Workers : HandsOf(w)
  <2>1. JobReports(v, t) => \A w \in Workers : HandsOf(w)
    BY <1>i DEF JobReports
  <2> QED
    BY <1>5, <2>1, HandsOfEnded, HandsOfLoop, HandsOfRounds DEF JobStep, Settle
<1>6. ASSUME NEW v \in Workers, WorkerStep(v) PROVE \A w \in Workers : HandsOf(w)
  <2>1. ASSUME NEW n \in inbox[v], OnNotify(v, n) PROVE \A w \in Workers : HandsOf(w)
    BY <1>i, <2>1, HandsDying DEF OnNotify
  <2>2. ASSUME EnsureHold(v) \/ ListenerReady(v) PROVE \A w \in Workers : HandsOf(w)
    <3>1. Dies(v) \/ UNCHANGED local
      BY <2>2 DEF EnsureHold, ListenerReady
    <3> QED
      BY <1>i, <3>1, HandsDying
  <2>3. SessionsEnd(v) => \A w \in Workers : HandsOf(w)
    BY <1>i DEF SessionsEnd
  <2> QED
    BY <1>6, <2>1, <2>2, <2>3, HandsOfLoop, HandsOfRounds DEF WorkerStep
<1>7. ASSUME NEW v \in Workers, Misfortune(v) PROVE \A w \in Workers : HandsOf(w)
  <2>1. Crash(v) => \A w \in Workers : HandsOf(w)
    BY HandsDying DEF Crash
  <2>2. DropConn(v) \/ DropListener(v) => \A w \in Workers : HandsOf(w)
    BY <1>i DEF DropConn, DropListener
  <2> QED
    BY <1>7, <2>1, <2>2, HandsOfEnded, HandsOfLoop, HandsOfRounds DEF Misfortune
<1>8. CASE Maintenance
  BY <1>8, <1>i DEF Maintenance, Scan, ReclaimOne, FailStaleInline, Nudge, Escalate
<1> QED
  BY <1>1, <1>2, <1>3, <1>4, <1>5, <1>6, <1>7, <1>8 DEF Next

\* No step takes a row off the list of the lost commits.
LEMMA LostForEver ==
  ASSUME TypeOK, [Next]_vars
  PROVE  lost \subseteq lost' /\ late \subseteq late'
<1>1. late \subseteq late'
  BY StepsAccounted DEF Accounted
<1> USE DEF history
<1>2. CASE UNCHANGED vars
  BY <1>2 DEF vars
<1>3. ASSUME NEW t \in Tasks, EnqueueRoot(t) PROVE lost \subseteq lost'
  BY <1>3 DEF EnqueueRoot
<1>4. ASSUME NEW a \in Tasks \cup {None}, GlobalCancel(a) PROVE lost \subseteq lost'
  BY <1>4 DEF GlobalCancel
<1>5. ASSUME NEW w \in Workers, NEW t \in Tasks, Family(w, t) PROVE lost \subseteq lost'
  BY <1>5 DEF Family, EnqueueChild, ReapChildren, EndChild
<1>6. ASSUME NEW w \in Workers, NEW t \in Tasks, JobStep(w, t) PROVE lost \subseteq lost'
  BY <1>6 DEF JobStep, Settle, Claim, JobReports, JobEnds, Finalize, RequeueForRetry,
              Abandon, Release, PutBackFree, PutBackCharged
<1>7. ASSUME NEW w \in Workers, WorkerStep(w) PROVE lost \subseteq lost'
  BY <1>7 DEF WorkerStep, RetryUnwritten, NothingToClaim, Reconnect, OnNotify, EnsureHold,
              ListenerReady, SessionsEnd, Restart
<1>8. ASSUME NEW w \in Workers, Misfortune(w) PROVE lost \subseteq lost'
  BY <1>8 DEF Misfortune, Crash, DropConn, DropListener, LoopTopFails, ClaimCommitLost,
              RequeueCommitLost, OutcomeUnwritten, RetryCommitLost
<1>9. CASE Maintenance
  BY <1>9 DEF Maintenance, Scan, ReclaimOne, FailStaleInline, Nudge, Escalate
<1> QED
  BY <1>1, <1>2, <1>3, <1>4, <1>5, <1>6, <1>7, <1>8, <1>9 DEF Next

-------------------------------------------------------------------------------
(* Who runs a row *)

\* Every row that is running for a live worker is in that worker's hands, unless a
\* late report or a lost commit broke the tie: no restart, reconnection, failed
\* write or postponed outcome leaves a row for ever RUNNING.
THEOREM NothingStranded == Spec => []NoStrandedRow
<1> DEFINE IInv == TypeOK /\ NoStrandedRow
<1>1. Init => IInv
  <2> SUFFICES ASSUME Init PROVE NoStrandedRow
    BY InitTypes
  <2> QED
    BY DEF Init, NoStrandedRow, FreeRow
<1>2. IInv /\ [Next]_vars => IInv'
  <2> SUFFICES ASSUME IInv, [Next]_vars,
                      NEW t \in Tasks, t \notin late' \cup lost', NEW w \in Workers,
                      rows'[t].st = "RUNNING", rows'[t].queued,
                      rows'[t].owner = w, phase'[w] # "dead"
               PROVE  InHand(w, t)'
    BY TypeStep DEF NoStrandedRow, Alive
  <2>1. CASE Claim(w, t)
    BY <2>1 DEF Claim, InHand, Holding, TypeOK, VarTypes
  <2>2. CASE ~Claim(w, t)
    <3>1. rows[t].st = "RUNNING" /\ rows[t].owner = w
      BY <2>2, RunningBefore DEF ClaimCommitLost
    <3>2. rows[t].queued
      <4>1. Quiet(t, rows[t], rows'[t]) \/ Started(rows[t], rows'[t])
        BY StepsAccounted DEF Accounted, Moved
      <4> QED
        BY <3>1, <4>1 DEF Quiet, Started, Unmoved, Enqueued, GivenBack, Ended, Deleted,
                          Covered, TerminalStatus
    <3>3. phase[w] # "dead"
      <4>1. ~Restart(w)
        BY DEF Restart, TypeOK, VarTypes, Row
      <4> QED
        BY <4>1, StepsHands DEF HandsOf
    <3>4. InHand(w, t)
      BY <3>1, <3>2, <3>3, LostForEver DEF NoStrandedRow, Alive
    <3> QED
      BY <3>4, StepsHands DEF HandsOf
  <2> QED
    BY <2>1, <2>2
<1> QED
  BY <1>1, <1>2, PTL DEF Spec

\* A reclaim notice is about an attempt that was charged: its row has moved on to a
\* later attempt or off the queue.
ReclaimsAreStale ==
  \A w \in Workers : \A n \in inbox[w] :
    n.kind = "reclaim" =>
      /\ rows[n.task].st # "FREE"
      /\ \/ n.task \in late
         \/ rows[n.task].att > n.att
         \/ rows[n.task].st \notin LiveStatus

\* What a reclaim notice says stays true until it is read.
LEMMA ReclaimsStayStale ==
  ASSUME TypeOK, TypeOK', ReclaimsAreStale, [Next]_vars
  PROVE  ReclaimsAreStale'
<1> SUFFICES ASSUME NEW w \in Workers, NEW n \in inbox'[w], n.kind = "reclaim"
             PROVE  /\ rows'[n.task].st # "FREE"
                    /\ \/ n.task \in late'
                       \/ rows'[n.task].att > n.att
                       \/ rows'[n.task].st \notin LiveStatus
  BY DEF ReclaimsAreStale
<1>1. n.task \in Tasks /\ n.att \in Nat
  <2>1. n \in Notices
    BY DEF TypeOK, VarTypes
  <2> QED
    BY <2>1 DEF Notices
<1>2. CASE n \notin inbox[w]
  <2>1. rows'[n.task].att = n.att + 1 /\ rows[n.task].st = "RUNNING"
    BY <1>2, StepsHeard DEF Heard
  <2>2. rows'[n.task].st # "FREE"
    BY <1>1, <2>1, StepsAccounted, UsedForEver
  <2> QED
    BY <1>1, <2>1, <2>2
<1>3. CASE n \in inbox[w]
  <2>1. rows[n.task].st # "FREE"
    BY <1>3 DEF ReclaimsAreStale
  <2>2. rows'[n.task].st # "FREE"
    BY <1>1, <2>1, StepsAccounted, UsedForEver
  <2>3. ASSUME n.task \notin late', rows'[n.task].st \in LiveStatus
        PROVE  rows'[n.task].att > n.att
    <3> DEFINE x == rows[n.task]
               y == rows'[n.task]
    <3>1. y.st = "RUNNING" => x.st \in LiveStatus
      BY <1>1, <2>3, StartedFromQueue
    <3>2. Quiet(n.task, x, y) \/ Started(x, y)
      BY <1>1, StepsAccounted DEF Accounted, Moved
    <3>3. x.att \in Nat /\ y.att \in Nat /\ y.st \in LiveStatus /\ x.st # "FREE"
      BY <1>1, <2>1, <2>3 DEF TypeOK, VarTypes, Row
    <3>4. x.st \in LiveStatus => x.att > n.att
      BY <1>3, <2>3, LostForEver DEF ReclaimsAreStale
    <3> HIDE DEF x, y
    <3>5. x.st \in LiveStatus /\ y.att >= x.att
      BY <3>1, <3>2, <3>3
         DEF Quiet, Started, Unmoved, Enqueued, GivenBack, Ended, Deleted, Covered,
             LiveStatus, TerminalStatus
    <3>6. y.att > n.att
      BY <1>1, <3>3, <3>4, <3>5
    <3> QED
      BY <3>6 DEF y
  <2> QED
    BY <2>2, <2>3
<1> QED
  BY <1>2, <1>3

\* A reclaim notice that stops a worker stops one that has lost its row: the notice
\* names the worker and the attempt, and that attempt is charged by then.
THEOREM ReclaimSparesTheRightful == Spec => []ReclaimStopsOnlyLosers
<1> DEFINE IInv == TypeOK /\ ReclaimsAreStale
<1>1. Init => IInv
  <2> SUFFICES ASSUME Init PROVE ReclaimsAreStale
    BY InitTypes
  <2> QED
    BY DEF Init, ReclaimsAreStale
<1>2. IInv /\ [Next]_vars => IInv'
  BY TypeStep, ReclaimsStayStale
<1>3. IInv => ReclaimStopsOnlyLosers
  <2> SUFFICES ASSUME IInv, NEW w \in Workers, NEW n \in inbox[w],
                      n.kind = "reclaim", Heeds(w, n), n.task \notin late,
                      Rightful(w, n.task)
               PROVE  FALSE
    BY DEF ReclaimStopsOnlyLosers
  <2>1. n.att = job[w].att
    BY DEF Heeds, CancelEverything, Cancel, Reclaim
  <2>2. rows[n.task].att = n.att /\ rows[n.task].st \in LiveStatus
    BY <2>1 DEF Rightful, LiveStatus
  <2>3. n \in Notices
    BY DEF TypeOK, VarTypes
  <2>4. n.att \in Nat
    BY <2>3 DEF Notices
  <2> QED
    BY <2>2, <2>4 DEF ReclaimsAreStale
<1> QED
  BY <1>1, <1>2, <1>3, PTL DEF Spec

\* A worker that runs a job whose row is running for it runs the attempt on the row.
OwnAttempt ==
  \A w \in Workers, t \in Tasks :
    Executing(w, t) /\ t \notin late /\ rows[t].st = "RUNNING" /\ rows[t].owner = w
      => rows[t].att = job[w].att

\* A running worker was running the same job before, or has just claimed it.
LEMMA ExecutingBefore ==
  ASSUME TypeOK, [Next]_vars, NEW w \in Workers, NEW t \in Tasks, Executing(w, t)'
  PROVE  \/ Executing(w, t) /\ job'[w] = job[w]
         \/ Claim(w, t) /\ Rightful(w, t)'
<1>1. CASE phase[w] = "running" /\ job'[w] = job[w]
  BY <1>1 DEF Executing
<1>2. ASSUME NEW u \in Tasks, Claim(w, u)
      PROVE  Claim(w, t) /\ Rightful(w, t)'
  <2>1. /\ rows' = ClaimRow(rows, u, w)
        /\ job' = [job EXCEPT ![w] = [task |-> u, att |-> rows[u].att, out |-> None]]
    BY <1>2 DEF Claim
  <2>2. job'[w] = [task |-> u, att |-> rows[u].att, out |-> None]
    BY <2>1 DEF TypeOK, VarTypes
  <2>3. u = t
    BY <2>2 DEF Executing
  <2>4. rows'[t].st = "RUNNING" /\ rows'[t].owner = w /\ rows'[t].att = rows[t].att
    BY <2>1, <2>3 DEF ClaimRow, TypeOK, VarTypes, Row
  <2> QED
    BY <1>2, <2>2, <2>3, <2>4 DEF Rightful
<1> QED
  BY <1>1, <1>2, StepsHands DEF HandsOf, Executing

\* The attempt a worker runs stays the one on its row.
LEMMA OwnAttemptStep ==
  ASSUME TypeOK, OwnAttempt, [Next]_vars
  PROVE  OwnAttempt'
<1> SUFFICES ASSUME NEW w \in Workers, NEW t \in Tasks, Executing(w, t)', t \notin late',
                    rows'[t].st = "RUNNING", rows'[t].owner = w
             PROVE  rows'[t].att = job'[w].att
  BY DEF OwnAttempt
<1>1. CASE Claim(w, t) /\ Rightful(w, t)'
  BY <1>1 DEF Rightful
<1>2. CASE Executing(w, t) /\ job'[w] = job[w]
  <2>1. ~Claim(w, t) /\ ~ClaimCommitLost(w, t)
    BY <1>2 DEF Claim, ClaimCommitLost, CanClaim, AtClaim, Executing
  <2>2. rows[t].st = "RUNNING" /\ rows[t].owner = w /\ rows'[t].att = rows[t].att
    BY <2>1, RunningBefore
  <2> QED
    BY <1>2, <2>2, LostForEver DEF OwnAttempt
<1> QED
  BY <1>1, <1>2, ExecutingBefore

\* A worker that is to be told is told, or finds its row its own after all.
LEMMA WarningKept ==
  ASSUME TypeOK, OwnAttempt, [Next]_vars, NEW w \in Workers, NEW t \in Tasks,
         t \notin late, Executing(w, t), Executing(w, t)', job'[w] = job[w], Warned(w)
  PROVE  Warned(w)' \/ Rightful(w, t)' \/ ~IsLive(rows', t)
<1>h. /\ Holding(w) /\ Holding(w)'
      /\ \A n : Heeds(w, n) => Heeds(w, n)'
  BY DEF Executing, Heeds, Holding
<1>l. inbox \in InboxType /\ lis[w] \in BOOLEAN
  BY DEF TypeOK, VarTypes, InboxType
<1>1. CASE ~lis'[w]
  BY <1>1 DEF Warned
<1>2. CASE lis[w] /\ inbox[w] \subseteq inbox'[w]
  BY <1>2, <1>h DEF Warned
<1>3. ASSUME NEW n \in inbox[w], OnNotify(w, n)
      PROVE  Warned(w)'
  <2>1. ~Heeds(w, n)
    BY <1>3 DEF OnNotify, Dies, Executing, TypeOK, VarTypes
  <2>2. lis' = lis /\ inbox'[w] = inbox[w] \ {n}
    BY <1>3, <1>l DEF OnNotify, InboxType
  <2>3. \A m \in inbox[w] : Heeds(w, m) => m \in inbox'[w] /\ Heeds(w, m)'
    BY <1>h, <2>1, <2>2
  <2> QED
    BY <2>2, <2>3 DEF Warned
<1>4. CASE ListenerReady(w)
  <2>1. ~Dies(w)
    BY DEF Dies, Executing, TypeOK, VarTypes
  <2>2. ~Dispossessed(w) /\ rows' = rows
    BY <1>4, <1>h, <2>1 DEF ListenerReady
  <2>3. rows[t].owner = w /\ (IsLive(rows, t) => rows[t].st = "RUNNING")
    BY <2>2 DEF Dispossessed, Executing, IsLive, LiveStatus
  <2>4. IsLive(rows, t) => Rightful(w, t)
    BY <2>3 DEF OwnAttempt, Rightful
  <2> QED
    BY <2>2, <2>4 DEF Rightful, IsLive
<1>5. CASE Restart(w)
  BY <1>5 DEF Restart, Alive, Executing
<1> QED
  BY <1>1, <1>2, <1>3, <1>4, <1>5, StepsHeard DEF Heard

\* No rogue worker: a live row is run only by the worker it names, for the attempt
\* it counts; a worker that still executes a row taken from it has the notice in its
\* inbox, or no listener session and will read the row when it has one again.
THEOREM NoRogues == Spec => []NoRogueWorker
<1> DEFINE IInv == TypeOK /\ OwnAttempt /\ NoRogueWorker
<1>1. Init => IInv
  <2> SUFFICES ASSUME Init PROVE OwnAttempt /\ NoRogueWorker
    BY InitTypes
  <2> QED
    BY DEF Init, OwnAttempt, NoRogueWorker, Executing
<1>2. IInv /\ [Next]_vars => IInv'
  <2> SUFFICES ASSUME IInv, [Next]_vars,
                      NEW w \in Workers, NEW t \in Tasks,
                      Executing(w, t)', t \notin late', IsLive(rows', t), ~Rightful(w, t)'
               PROVE  Warned(w)'
    BY TypeStep, OwnAttemptStep DEF NoRogueWorker, IsLive
  <2>1. Executing(w, t) /\ job'[w] = job[w]
    BY ExecutingBefore
  <2>2. t \notin late
    BY LostForEver
  <2>3. CASE Rightful(w, t)
    <3>1. rows'[t] # rows[t]
      BY <2>1, <2>3 DEF Rightful
    <3>2. CASE ~lis'[w]
      BY <3>2 DEF Warned
    <3>3. CASE Reclaim(t, job[w].att) \in inbox'[w]
      <4>1. PICK n \in inbox'[w] : n = Reclaim(t, job[w].att)
        BY <3>3
      <4>2. Heeds(w, n)'
        BY <2>1, <4>1 DEF Heeds, Holding, Executing
      <4> QED
        BY <4>2 DEF Warned
    <3> QED
      BY <2>1, <2>3, <3>1, <3>2, <3>3, TakenWithNotice
  <2>4. CASE ~IsLive(rows, t)
    <3>1. rows[t].st # "FREE"
      BY <2>1 DEF TypeOK, WorkerLoopOK, Executing
    <3>2. Quiet(t, rows[t], rows'[t]) \/ Started(rows[t], rows'[t])
      BY StepsAccounted DEF Accounted, Moved
    <3>3. rows'[t].st = "RUNNING" => rows[t].st \in LiveStatus
      BY StartedFromQueue
    <3> QED
      BY <2>4, <3>1, <3>2, <3>3
         DEF Quiet, Started, Unmoved, Enqueued, GivenBack, Ended, Deleted, Covered,
             IsLive, LiveStatus, TerminalStatus
  <2>5. CASE Warned(w)
    BY <2>1, <2>2, <2>5, WarningKept
  <2> QED
    BY <2>1, <2>2, <2>3, <2>4, <2>5 DEF NoRogueWorker
<1> QED
  BY <1>1, <1>2, PTL DEF Spec

-------------------------------------------------------------------------------
(* What a parent has yet to read *)

\* A finished child of a live parent is deleted only by the parent that reads it.
ChildKept ==
  \/ SparesChildren(rows, rows')
  \/ \E w \in Workers, p \in Tasks : ReapChildren(w, p)

\* Every step keeps the verdicts a live parent has yet to read.
LEMMA StepsSpare ==
  ASSUME TypeOK, [Next]_vars
  PROVE  ChildKept
<1> VarTypes
  BY DEF TypeOK
<1>r. rows \in Table
  BY DEF VarTypes
<1>k. (\A u \in Tasks : rows'[u].st = "GONE" => rows[u].st = "GONE") => ChildKept
  <2> SUFFICES ASSUME \A u \in Tasks : rows'[u].st = "GONE" => rows[u].st = "GONE",
                      NEW t \in Tasks, IsTerminal(rows, t)
               PROVE  Exists(rows', t)
    BY KeepingSpares DEF ChildKept
  <2>1. Quiet(t, rows[t], rows'[t]) \/ Started(rows[t], rows'[t])
    BY StepsAccounted DEF Accounted, Moved
  <2> QED
    BY <2>1 DEF Quiet, Started, Unmoved, Enqueued, GivenBack, Ended, Deleted, Covered,
                Exists, AbsentStatus, IsTerminal, TerminalStatus, LiveStatus
<1>u. rows' = rows => ChildKept
  BY <1>k
<1>q. ASSUME NEW t \in Tasks, rows' \in {RequeueOrFail(rows, t), RequeueUncharged(rows, t)}
      PROVE  ChildKept
  <2>1. \A x \in Tasks \ {t} : rows'[x] = rows[x]
    BY <1>q DEF RequeueOrFail, ChargeRow, RequeueUncharged, VarTypes
  <2>2. rows'[t].st # "GONE" \/ rows' = rows
    BY <1>q DEF RequeueOrFail, ChargeRow, RequeueUncharged, VarTypes, Row
  <2> QED
    BY <1>k, <2>1, <2>2
<1>v. ASSUME NEW t \in Tasks, NEW o \in TerminalStatus, NEW w \in Workers,
             rows' \in {FinishRow(rows, t, w, o), EndChildRow(rows, t, o),
                        [rows EXCEPT ![t].st = o]}
      PROVE  ChildKept
  <2>1. \A x \in Tasks \ {t} : rows'[x] = rows[x]
    BY <1>v DEF FinishRow, EndChildRow, VarTypes
  <2>2. rows'[t].st # "GONE" \/ rows' = rows
    BY <1>v DEF FinishRow, EndChildRow, VarTypes, Row, TerminalStatus
  <2> QED
    BY <1>k, <2>1, <2>2
<1>1. CASE UNCHANGED vars
  BY <1>1, <1>u DEF vars
<1>2. ASSUME NEW t \in Tasks, EnqueueRoot(t) PROVE ChildKept
  BY <1>2, <1>r, InsertSpares DEF EnqueueRoot, ChildKept
<1>3. ASSUME NEW a \in Tasks \cup {None}, GlobalCancel(a) PROVE ChildKept
  BY <1>3, <1>r, CancelSpares DEF GlobalCancel, ChildKept
<1>4. ASSUME NEW w \in Workers, NEW t \in Tasks, Family(w, t) PROVE ChildKept
  <2>1. CASE EnqueueChild(w, t)
    BY <1>r, <2>1, InsertSpares DEF EnqueueChild, ChildKept
  <2>2. CASE ReapChildren(w, t)
    BY <2>2 DEF ChildKept
  <2>3. ASSUME NEW o \in {"FAIL", "REVOKED"}, EndChild(w, t, o) PROVE ChildKept
    BY <1>v, <2>3 DEF EndChild, TerminalStatus
  <2> QED
    BY <1>4, <2>1, <2>2, <2>3 DEF Family
<1>5. ASSUME NEW w \in Workers, NEW t \in Tasks, JobStep(w, t) PROVE ChildKept
  <2>1. CASE Claim(w, t)
    <3>1. /\ \A x \in Tasks \ {t} : rows'[x] = rows[x]
          /\ rows'[t].st = "RUNNING"
      BY <2>1 DEF Claim, ClaimRow, VarTypes, Row
    <3> QED
      BY <1>k, <3>1
  <2>2. CASE JobReports(w, t)
    <3>1. /\ \A x \in Tasks \ {t} : rows'[x] = rows[x]
          /\ rows'[t].st = "RUNNING"
      BY <2>2 DEF JobReports, ReportRunning, VarTypes, Row, GoneRow, FreeRow
    <3> QED
      BY <1>k, <3>1
  <2>3. ASSUME NEW o \in Outcomes, JobEnds(w, t, o) PROVE ChildKept
    BY <1>u, <2>3 DEF JobEnds
  <2>4. CASE Finalize(w, t)
    BY <1>v, <2>4 DEF Finalize, Verdicts, TerminalStatus
  <2>5. CASE RequeueForRetry(w, t) \/ PutBackFree(w, t) \/ PutBackCharged(w, t)
    BY <1>u, <1>q, <2>5 DEF RequeueForRetry, PutBackFree, PutBackCharged
  <2>6. CASE Abandon(w, t)
    BY <1>u, <2>6 DEF Abandon
  <2>7. CASE Release(w, t)
    <3>1. rows' \in {rows, Collapsed(rows, t)}
      BY <2>7 DEF Release
    <3>2. "FAIL" \in TerminalStatus
      BY DEF TerminalStatus
    <3> QED
      BY <1>r, <1>u, <3>1, <3>2, CollapseSpares DEF ChildKept
  <2> QED
    BY <1>5, <2>1, <2>2, <2>3, <2>4, <2>5, <2>6, <2>7 DEF JobStep, Settle
<1>6. ASSUME NEW w \in Workers, WorkerStep(w) PROVE ChildKept
  <2>1. ASSUME NEW d \in owed[w], RetryUnwritten(w, d) PROVE ChildKept
    <3>1. d.task \in Tasks /\ (d.out # "RETRY" => d.out \in TerminalStatus)
      BY DEF VarTypes, Debts, Verdicts, TerminalStatus
    <3>2. \/ rows' = rows
          \/ rows' = RequeueOrFail(rows, d.task)
          \/ /\ d.out # "RETRY"
             /\ rows' = Collapsed(FinishRow(rows, d.task, w, d.out), d.task)
      BY <2>1 DEF RetryUnwritten
    <3> QED
      BY <1>r, <1>u, <1>q, <3>1, <3>2, CollapseSpares DEF ChildKept
  <2>2. ASSUME Restart(w) PROVE ChildKept
    <3>1. \A x \in Tasks : rows'[x].st = rows[x].st
      BY <2>2 DEF Restart, VarTypes, Row
    <3> QED
      BY <1>k, <3>1
  <2>3. ASSUME \/ NothingToClaim(w) \/ Reconnect(w) \/ EnsureHold(w) \/ ListenerReady(w)
               \/ SessionsEnd(w) \/ \E n \in inbox[w] : OnNotify(w, n)
        PROVE  ChildKept
    BY <1>u, <2>3 DEF NothingToClaim, Reconnect, EnsureHold, ListenerReady, SessionsEnd,
                      OnNotify
  <2> QED
    BY <1>6, <2>1, <2>2, <2>3 DEF WorkerStep
<1>7. ASSUME NEW w \in Workers, Misfortune(w) PROVE ChildKept
  <2>1. ASSUME NEW t \in Tasks, ClaimCommitLost(w, t) PROVE ChildKept
    <3>1. /\ \A x \in Tasks \ {t} : rows'[x] = rows[x]
          /\ rows'[t].st = "RUNNING"
      BY <2>1 DEF ClaimCommitLost, ClaimRow, VarTypes, Row
    <3> QED
      BY <1>k, <3>1
  <2>2. ASSUME NEW t \in Tasks, RequeueCommitLost(w, t) \/ OutcomeUnwritten(w, t)
        PROVE  ChildKept
    BY <1>u, <2>2 DEF RequeueCommitLost, OutcomeUnwritten
  <2>3. ASSUME Crash(w) \/ DropConn(w) \/ DropListener(w) \/ LoopTopFails(w)
        PROVE  ChildKept
    BY <1>u, <2>3 DEF Crash, DropConn, DropListener, LoopTopFails
  <2>4. ASSUME NEW d \in owed[w], RetryCommitLost(w, d) PROVE ChildKept
    BY <1>u, <2>4 DEF RetryCommitLost
  <2> QED
    BY <1>7, <2>1, <2>2, <2>3, <2>4 DEF Misfortune
<1>8. CASE Maintenance
  <2>1. ASSUME NEW t \in Tasks, ReclaimOne(t) PROVE ChildKept
    BY <1>u, <1>q, <2>1 DEF ReclaimOne
  <2>2. ASSUME NEW t \in Tasks, FailStaleInline(t) PROVE ChildKept
    <3>1. /\ \A x \in Tasks \ {t} : rows'[x] = rows[x]
          /\ rows'[t].st = "FAIL"
      BY <2>2 DEF FailStaleInline, FailStale, VarTypes, Row
    <3> QED
      BY <1>k, <3>1
  <2>3. ASSUME NEW t \in Tasks, Nudge(t) \/ Escalate(t) PROVE ChildKept
    BY <1>u, <2>3 DEF Nudge, Escalate
  <2> QED
    BY <1>8, <1>u, <2>1, <2>2, <2>3 DEF Maintenance, Scan
<1> QED
  BY <1>1, <1>2, <1>3, <1>4, <1>5, <1>6, <1>7, <1>8 DEF Next

\* The verdict of a child is kept for the parent that will read it: no wipe before
\* another start and no collapse of another finished root deletes it meanwhile.
THEOREM ChildVerdictsKept == Spec => ChildVerdictKept
<1>1. ASSUME TypeOK, [Next]_vars
      PROVE  \A t \in Tasks :
               /\ ~IsRoot(t) /\ IsTerminal(rows, t) /\ ~Exists(rows', t)
               /\ IsLive(rows, Parent[t]) /\ IsLive(rows', Parent[t])
               => \E w \in Workers : Executing(w, Parent[t])
                                     /\ rows' = Reaped(rows, Parent[t])
  <2> SUFFICES ASSUME NEW t \in Tasks,
                      ~IsRoot(t), IsTerminal(rows, t), ~Exists(rows', t),
                      IsLive(rows, Parent[t]), IsLive(rows', Parent[t])
               PROVE  \E w \in Workers : Executing(w, Parent[t])
                                         /\ rows' = Reaped(rows, Parent[t])
    OBVIOUS
  <2>1. PICK w \in Workers, p \in Tasks : ReapChildren(w, p)
    BY <1>1, StepsSpare DEF ChildKept, SparesChildren
  <2>2. Executing(w, p) /\ rows' = Reaped(rows, p)
    BY <2>1 DEF ReapChildren
  <2>3. Parent[t] = p
    BY <2>2 DEF Reaped, Exists, IsTerminal, TerminalStatus, AbsentStatus
  <2> QED
    BY <2>2, <2>3
<1> QED
  BY <1>1, TypeCorrect, PTL DEF Spec, ChildVerdictKept

-------------------------------------------------------------------------------
(* The refinement *)

\* The life a row stands for, one job at a time.
LEMMA LifeCases ==
  ASSUME VarTypes, NEW t \in Tasks
  PROVE  /\ rows[t].st = "FREE" => lifeOf[t] = Promise!Unknown
         /\ rows[t].queued /\ rows[t].st = "NEW" => lifeOf[t] = Promise!Waiting(rows[t].att)
         /\ rows[t].queued /\ rows[t].st = "RUNNING"
              => lifeOf[t] = Promise!Working(rows[t].att)
         /\ rows[t].st # "FREE" /\ ~(rows[t].queued /\ rows[t].st \in LiveStatus)
              => lifeOf[t] = Promise!Over
         /\ lifeOf[t] \in Promise!Lives
<1>1. rows[t].att \in Nat
  BY DEF VarTypes, Row
<1> QED
  BY <1>1 DEF lifeOf, LiveStatus, Promise!Unknown, Promise!Waiting, Promise!Working,
              Promise!Over, Promise!Lives

\* A lawful move of a row is a lawful move of its job, or none.
LEMMA LawfulMoves ==
  ASSUME VarTypes, VarTypes', NEW t \in Tasks,
         Quiet(t, rows[t], rows'[t]) \/ Started(rows[t], rows'[t])
  PROVE  Promise!Lawful(t, lifeOf[t], lifeOf'[t])
<1> DEFINE x == rows[t]
           y == rows'[t]
<1>x. /\ x.st = "FREE" => lifeOf[t] = Promise!Unknown
      /\ x.queued /\ x.st = "NEW" => lifeOf[t] = Promise!Waiting(x.att)
      /\ x.queued /\ x.st = "RUNNING" => lifeOf[t] = Promise!Working(x.att)
      /\ x.st # "FREE" /\ ~(x.queued /\ x.st \in LiveStatus) => lifeOf[t] = Promise!Over
  BY LifeCases
<1>y. /\ y.st = "FREE" => lifeOf'[t] = Promise!Unknown
      /\ y.queued /\ y.st = "NEW" => lifeOf'[t] = Promise!Waiting(y.att)
      /\ y.queued /\ y.st = "RUNNING" => lifeOf'[t] = Promise!Working(y.att)
      /\ y.st # "FREE" /\ ~(y.queued /\ y.st \in LiveStatus) => lifeOf'[t] = Promise!Over
  BY LifeCases DEF LiveStatus, Promise!Unknown, Promise!Waiting, Promise!Working,
                   Promise!Over, lifeOf
<1>n. x.att \in Nat /\ y.att \in Nat /\ MaxAttempts[t] \in Nat
      /\ x.queued \in BOOLEAN /\ y.queued \in BOOLEAN
      /\ x.st \in LiveStatus \cup TerminalStatus \cup AbsentStatus
  BY DEF VarTypes, Row
<1> HIDE DEF x, y
<1> USE DEF LiveStatus, TerminalStatus, AbsentStatus, Promise!Lawful
<1>1. CASE Unmoved(x, y)
  BY <1>x, <1>y, <1>n, <1>1 DEF Unmoved
<1>2. CASE Enqueued(x, y)
  BY <1>x, <1>y, <1>2 DEF Enqueued
<1>3. CASE GivenBack(t, x, y)
  BY <1>x, <1>y, <1>n, <1>3 DEF GivenBack, Promise!Waiting, Promise!Working
<1>4. CASE Ended(x, y)
  BY <1>x, <1>y, <1>n, <1>4 DEF Ended, Promise!Waiting, Promise!Working
<1>5. CASE Deleted(x, y) \/ Covered(x, y)
  BY <1>x, <1>y, <1>n, <1>5 DEF Deleted, Covered, Promise!Waiting, Promise!Working
<1>6. CASE Started(x, y)
  BY <1>x, <1>y, <1>n, <1>6 DEF Started, Promise!Waiting, Promise!Working
<1>7. Quiet(t, x, y) \/ Started(x, y)
  BY DEF x, y
<1> QED
  BY <1>1, <1>2, <1>3, <1>4, <1>5, <1>6, <1>7 DEF Quiet

\* The queue implements the life of a job: with the table, the workers and their
\* connections hidden, each step moves every job along the life JobLife allows.
THEOREM Refinement == Spec => KeepsPromise
<1>1. Init => Promise!Init
  BY DEF Init, FreeRow, lifeOf, Promise!Init, Promise!Unknown, Promise!Waiting
<1>2. ASSUME TypeOK, TypeOK', [Next]_vars
      PROVE  [Promise!Next]_lifeOf
  <2>1. lifeOf' \in [Tasks -> Promise!Lives]
    <3>1. \A t \in Tasks : lifeOf'[t] \in Promise!Lives
      BY <1>2 DEF TypeOK, VarTypes, Row, lifeOf, Promise!Lives
    <3> QED
      BY <3>1 DEF lifeOf
  <2>2. \A t \in Tasks : Promise!Lawful(t, lifeOf[t], lifeOf'[t])
    BY <1>2, StepsAccounted, LawfulMoves DEF Accounted, Moved, TypeOK
  <2> QED
    BY <2>1, <2>2 DEF Promise!Next
<1> QED
  BY <1>1, <1>2, TypeCorrect, PTL DEF Spec, KeepsPromise, Promise!Spec

==============================================================================
