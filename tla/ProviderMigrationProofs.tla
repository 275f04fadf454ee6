------------------------ MODULE ProviderMigrationProofs ------------------------
(***************************************************************************)
(* What holds of a provider migration for any workers, recoveries, request *)
(* ids, restart budgets and disturbances.                                  *)
(***************************************************************************)
EXTENDS ProviderMigration, TaskRowsProofs, FiniteSetTheorems

USE DEF Table

-------------------------------------------------------------------------------
(* The data *)

\* There are so many workers, and no more in any of their sets than in a larger.
LEMMA Sizes ==
  /\ Cardinality(Workers) \in Nat
  /\ \A S \in SUBSET Workers : Cardinality(S) \in 0..Cardinality(Workers)
  /\ \A S, T \in SUBSET Workers : S \subseteq T => Cardinality(S) <= Cardinality(T)
<1>1. IsFiniteSet(Workers)
  BY MigrationAssumption
<1>2. \A S \in SUBSET Workers : IsFiniteSet(S) /\ Cardinality(S) <= Cardinality(Workers)
  BY <1>1, FS_Subset
<1>3. \A S \in SUBSET Workers : Cardinality(S) \in Nat
  BY <1>2, FS_CardinalityType
<1>4. \A S, T \in SUBSET Workers : S \subseteq T => Cardinality(S) <= Cardinality(T)
  BY <1>2, FS_Subset
<1> QED
  BY <1>2, <1>3, <1>4

\* Places of a job that has a restart request in hand.
Asking == {"report", "publish", "await", "asked"}

\* A place belongs to a task, an end to an outcome, a handshake to a request.
JobOK(j) ==
  /\ j \in Running
  /\ j.task = None <=> j.pc = "none"
  /\ j.pc = "ended" => j.out \in {"SUCCESS", "FAIL", "RETRY"}
  /\ j.pc \in Asking => j.req \in Requests

\* The invariant that types need: besides TypeOK, what the jobs have in hand.
Coherent ==
  /\ \A w \in Workers : JobOK(job[w])
  /\ sess.st = "completed" => sess.req \in Requests

\* One job changes, the others keep what they need.
LEMMA OneJobType ==
  ASSUME NEW j \in [Workers -> Running], \A v \in Workers : JobOK(j[v]),
         NEW w \in Workers, NEW r \in Running, JobOK(r)
  PROVE  LET k == [j EXCEPT ![w] = r]
         IN  k \in [Workers -> Running] /\ \A v \in Workers : JobOK(k[v])
OBVIOUS

\* A job that goes on has what its place needs.
LEMMA WaitsType ==
  ASSUME TypeOK, Coherent, NEW w \in Workers,
         NEW pc \in Places \ {"none", "ended"}, NEW q \in Requests \cup {None},
         NEW n \in 0..Cardinality(Workers),
         pc \in Asking => q \in Requests, job[w].pc # "none", Waits(w, pc, q, n)
  PROVE  job' \in [Workers -> Running] /\ \A v \in Workers : JobOK(job'[v])
<1> DEFINE r == [job[w] EXCEPT !.pc = pc, !.req = q, !.want = n]
<1>1. job \in [Workers -> Running] /\ \A v \in Workers : JobOK(job[v])
  BY DEF TypeOK, Coherent
<1>2. r \in Running /\ r.task = job[w].task /\ r.pc = pc /\ r.req = q
  <2>1. job[w] \in Running
    BY <1>1
  <2> QED
    BY <2>1 DEF Running
<1>3. JobOK(r)
  BY <1>1, <1>2 DEF JobOK
<1>4. job' = [job EXCEPT ![w] = r]
  BY <1>1 DEF Waits
<1> HIDE DEF r
<1> QED
  BY <1>1, <1>2, <1>3, <1>4, OneJobType

LEMMA GoesType ==
  ASSUME TypeOK, Coherent, NEW w \in Workers,
         NEW pc \in Places \ {"none", "ended"}, NEW q \in Requests \cup {None},
         pc \in Asking => q \in Requests, job[w].pc # "none", Goes(w, pc, q)
  PROVE  job' \in [Workers -> Running] /\ \A v \in Workers : JobOK(job'[v])
<1>1. 0 \in 0..Cardinality(Workers)
  BY Sizes
<1> QED
  BY <1>1, WaitsType DEF Goes

\* A job that ends has an outcome.
LEMMA OverType ==
  ASSUME TypeOK, Coherent, NEW w \in Workers, job[w].pc # "none",
         NEW out \in {"SUCCESS", "FAIL", "RETRY"}, Over(w, out)
  PROVE  job' \in [Workers -> Running] /\ \A v \in Workers : JobOK(job'[v])
<1> DEFINE r == [job[w] EXCEPT !.pc = "ended", !.out = out]
<1>1. job \in [Workers -> Running] /\ \A v \in Workers : JobOK(job[v])
  BY DEF TypeOK, Coherent
<1>2. r \in Running /\ r.task = job[w].task /\ r.pc = "ended" /\ r.out = out
  <2>1. job[w] \in Running
    BY <1>1
  <2> QED
    BY <2>1 DEF Running, Places
<1>3. JobOK(r)
  BY <1>1, <1>2 DEF JobOK, Asking
<1>4. job' = [job EXCEPT ![w] = r]
  BY <1>1 DEF Over
<1> HIDE DEF r
<1> QED
  BY <1>1, <1>2, <1>3, <1>4, OneJobType

\* A job that is gone needs nothing.
LEMMA NoJobType ==
  ASSUME TypeOK, Coherent, NEW w \in Workers, job' = [job EXCEPT ![w] = NoJob]
  PROVE  job' \in [Workers -> Running] /\ \A v \in Workers : JobOK(job'[v])
<1>1. job \in [Workers -> Running] /\ \A v \in Workers : JobOK(job[v])
  BY DEF TypeOK, Coherent
<1>2. NoJob \in Running /\ JobOK(NoJob)
  BY Sizes DEF NoJob, At, Running, Places, JobOK, Asking
<1> QED
  BY <1>1, <1>2, OneJobType

\* The lock goes with its holder.
LEMMA FreedType ==
  ASSUME TypeOK, NEW w \in Workers
  PROVE  Freed(w) \in Workers \cup {None}
BY DEF TypeOK, Freed

\* A disturbance stays within the bound.
LEMMA FaultType ==
  ASSUME TypeOK, NEW kind, Fault(kind)
  PROVE  faults' \in 0..MaxFaults
BY MigrationAssumption DEF TypeOK, Fault

\* So does a call that may fail.
LEMMA WorksType ==
  ASSUME TypeOK, NEW good, NEW kind, Works(good, kind)
  PROVE  faults' \in 0..MaxFaults
BY FaultType DEF TypeOK, Works

\* Requests stay requests when finished ones are forgotten.
LEMMA ForgottenType ==
  ASSUME NEW c \in [Requests -> Request]
  PROVE  Forgotten(c) \in [Requests -> Request]
BY DEF Forgotten, Request, Closed

\* A publication leaves a request.
LEMMA AskedType ==
  ASSUME TypeOK, NEW r \in Request
  PROVE  Asked(r) \in Request
BY DEF Asked, Request, TypeOK

\* A lost worker's rows are its successor's to find.
LEMMA DisownedType ==
  ASSUME NEW r \in Table, NEW w
  PROVE  Disowned(r, w) \in Table
BY DEF Disowned, Table, Row

\* A row whose func is cleared is a row.
LEMMA UnqueuedType ==
  ASSUME NEW s \in Table, NEW t \in Tasks
  PROVE  [s EXCEPT ![t].queued = FALSE] \in Table
<1> DEFINE x == s[t]
<1>1. x \in Row
  OBVIOUS
<1>2. [x EXCEPT !.queued = FALSE] \in Row
  BY <1>1 DEF Row
<1> QED
  BY <1>2

\* A verdict leaves a table.
LEMMA DecidedType ==
  ASSUME NEW r \in Table, NEW t \in Tasks, NEW w, NEW verdict \in TerminalStatus
  PROVE  Decided(r, t, w, verdict) \in Table
<1>1. FinishRow(r, t, w, verdict) \in Table
  BY DEF FinishRow, Row, TerminalStatus
<1> QED
  BY <1>1, UnqueuedType, CollapsedType DEF Decided

\* The names the constants are made of.
LEMMA Names ==
  /\ Root \in Tasks /\ Other \in Tasks /\ Recoveries \subseteq Tasks
  /\ First \in Requests
BY MigrationAssumption

-------------------------------------------------------------------------------
(* The type invariant *)

Typed == TypeOK /\ Coherent

\* What a step of the wizard leaves alone.
LEMMA WizardType ==
  ASSUME Typed, Wizard
  PROVE  Typed'
<1> USE DEF Typed
<1>1. CASE ClaimPlanner
  <2>1. sess' \in Session /\ sess'.st # "completed"
    BY <1>1 DEF ClaimPlanner, TypeOK, Mutable, Session
  <2>2. rows' \in Table /\ ctl' \in [Requests -> Request]
    BY <1>1, WipeType, ForgottenType DEF ClaimPlanner, TypeOK
  <2> QED
    BY <1>1, <2>1, <2>2 DEF ClaimPlanner, TypeOK, Coherent, work, history, past
<1>2. CASE Finalize
  <2>1. sess' \in Session /\ sess'.st # "completed"
    BY <1>2 DEF Finalize, TypeOK, Session
  <2> QED
    BY <1>2, <2>1 DEF Finalize, TypeOK, Coherent, wizard, work, history, past
<1>3. CASE Admit
  <2>1. rows' \in Table
    BY <1>3, Names DEF Admit, TypeOK, Row, LiveStatus
  <2> QED
    BY <1>3, <2>1 DEF Admit, TypeOK, Coherent, work, history, past
<1>4. CASE Enqueue
  <2>1. /\ rows' \in Table /\ ctl' \in [Requests -> Request]
        /\ faults' \in 0..MaxFaults
        /\ sess' \in Session /\ sess'.st = sess.st /\ sess'.req = sess.req
    <3>1. CASE /\ rows' = InsertJob(Wipe(rows, {}), Root)
               /\ ctl' = Forgotten(ctl)
               /\ sess' = IF Mutable THEN [sess EXCEPT !.exec = TRUE] ELSE sess
               /\ UNCHANGED faults
      <4>1. rows' \in Table /\ ctl' \in [Requests -> Request]
        BY <3>1, Names, WipeType, InsertJobType, ForgottenType DEF TypeOK
      <4> QED
        BY <3>1, <4>1 DEF TypeOK, Session
    <3>2. CASE /\ Fault("enqueue")
               /\ rows' = [rows EXCEPT ![Root].st = "FAIL"]
               /\ UNCHANGED <<sess, ctl>>
      <4>1. rows' \in Table
        BY <3>2, Names DEF TypeOK, Row, TerminalStatus
      <4> QED
        BY <3>2, <4>1, FaultType DEF TypeOK
    <3>3. CASE /\ Fault("crash")
               /\ \E b \in {FALSE, Mutable} : sess' = [sess EXCEPT !.exec = b]
               /\ UNCHANGED <<rows, ctl>>
      <4>1. Mutable \in BOOLEAN
        BY DEF Mutable
      <4> QED
        BY <3>3, <4>1, FaultType DEF TypeOK, Session
    <3> QED
      BY <1>4, <3>1, <3>2, <3>3 DEF Enqueue
  <2> QED
    BY <1>4, <2>1 DEF Enqueue, TypeOK, Coherent, work, history, past
<1>5. CASE Look
  BY <1>5 DEF Look, TypeOK, Coherent, work, history, past
<1>6. CASE Drop
  <2>1. sess' \in Session /\ (sess' = sess \/ sess'.st = "gone")
    BY <1>6 DEF Drop, TypeOK, Session
  <2> QED
    BY <1>6, <2>1 DEF Drop, TypeOK, Coherent, work, history, past
<1>7. ASSUME NEW p \in {"live", "late"}, PlannerWrites(p)
      PROVE  Typed'
  <2>1. sess' \in Session /\ (sess' = sess \/ sess'.st = "in_progress")
    BY <1>7 DEF PlannerWrites, TypeOK, Session
  <2> QED
    BY <1>7, <2>1 DEF PlannerWrites, TypeOK, Coherent, work, history, past
<1>8. ASSUME NEW p \in {"live", "late"}, PlannerEnds(p)
      PROVE  Typed'
  BY <1>8 DEF PlannerEnds, TypeOK, Coherent, work, history, past
<1> QED
  BY <1>1, <1>2, <1>3, <1>4, <1>5, <1>6, <1>7, <1>8 DEF Wizard

\* A process that ends leaves no job and no lock.
LEMMA KilledType ==
  ASSUME Typed, NEW w \in Workers, Killed(w)
  PROVE  /\ job' \in [Workers -> Running] /\ \A v \in Workers : JobOK(job'[v])
         /\ mlock' \in Workers \cup {None} /\ cut' \subseteq Workers
         /\ stale' \subseteq Workers
BY NoJobType, FreedType DEF Typed, Killed, TypeOK

\* What workers and their queue leave alone.
LEMMA QueueType ==
  ASSUME Typed, NEW w \in Workers, NEW t \in Tasks,
         Claim(w, t) \/ Finish(w) \/ Hear(w) \/ Cut(w) \/ Reconnect(w) \/ Dies(w)
  PROVE  Typed'
<1> USE DEF Typed
<1>1. CASE Claim(w, t)
  <2>1. rows' \in Table
    BY <1>1, ClaimRowType DEF Claim, TypeOK
  <2> DEFINE r == At(t, IF t = Root THEN "begin" ELSE "resume", None)
  <2>2. r \in Running /\ JobOK(r)
    BY <1>1, Sizes, TaskRowsAssumption DEF Claim, At, Running, Places, JobOK, Asking
  <2>3. job' \in [Workers -> Running] /\ \A v \in Workers : JobOK(job'[v])
    <3>1. job' = [job EXCEPT ![w] = r]
      BY <1>1 DEF Claim
    <3> HIDE DEF r
    <3> QED
      BY <2>2, <3>1, OneJobType DEF TypeOK, Coherent
  <2> QED
    BY <1>1, <2>1, <2>3 DEF Claim, TypeOK, Coherent, wizard, history, past
<1>2. CASE Finish(w)
  <2>1. /\ job[w].out \in {"SUCCESS", "FAIL", "RETRY"}
        /\ job[w].task \in Tasks
    BY <1>2, Names DEF Finish, TypeOK, Coherent, JobOK, Running
  <2>2. rows' \in Table
    BY <1>2, <2>1, RequeueOrFailType, DecidedType DEF Finish, TypeOK, TerminalStatus
  <2>3. ctl' \in [Requests -> Request]
    BY <1>2, ForgottenType DEF Finish, TypeOK
  <2>4. job' \in [Workers -> Running] /\ \A v \in Workers : JobOK(job'[v])
    BY <1>2, NoJobType DEF Finish
  <2>5. mlock' \in Workers \cup {None}
    BY <1>2, FreedType DEF Finish
  <2> QED
    BY <1>2, <2>2, <2>3, <2>4, <2>5 DEF Finish, TypeOK, Coherent, wizard, history, past
<1>3. CASE Hear(w)
  <2>1. job' \in [Workers -> Running] /\ \A v \in Workers : JobOK(job'[v])
    BY <1>3, NoJobType DEF Hear
  <2>2. mlock' \in Workers \cup {None}
    BY <1>3, FreedType DEF Hear
  <2> QED
    BY <1>3, <2>1, <2>2 DEF Hear, TypeOK, Coherent, wizard, history, past
<1>4. CASE Cut(w)
  BY <1>4, FaultType DEF Cut, TypeOK, Coherent, wizard, history, past
<1>5. CASE Reconnect(w)
  <2>1. job' \in [Workers -> Running] /\ \A v \in Workers : JobOK(job'[v])
    BY <1>5, NoJobType DEF Reconnect, TypeOK, Coherent
  <2>2. mlock' \in Workers \cup {None}
    BY <1>5, FreedType DEF Reconnect, TypeOK
  <2> QED
    BY <1>5, <2>1, <2>2 DEF Reconnect, TypeOK, Coherent, wizard, history, past
<1>6. CASE Dies(w)
  <2>1. rows' \in Table
    BY <1>6, DisownedType DEF Dies, TypeOK
  <2> QED
    BY <1>6, <2>1, KilledType, FaultType DEF Dies, TypeOK, Coherent, wizard
<1> QED
  BY <1>1, <1>2, <1>3, <1>4, <1>5, <1>6

\* What reclaim and the stale sweep leave alone.
LEMMA SweepType ==
  ASSUME Typed, NEW t \in Tasks, Reclaim(t) \/ Sweep(t)
  PROVE  Typed'
<1> USE DEF Typed
<1>1. rows' \in Table
  BY RequeueOrFailType, FailStaleType DEF Reclaim, Sweep, TypeOK
<1> QED
  BY <1>1 DEF Reclaim, Sweep, TypeOK, Coherent, wizard, work, history, past

\* What cancels and other tasks leave alone.
LEMMA OthersType ==
  ASSUME Typed, CancelEverything \/ OtherStarts \/ OtherEnds
  PROVE  Typed'
<1> USE DEF Typed
<1>1. ctl' \in [Requests -> Request]
  BY ForgottenType DEF CancelEverything, OtherStarts, OtherEnds, TypeOK
<1>2. CASE CancelEverything
  <2>1. rows' \in Table
    <3>1. PICK t : rows' =
            [u \in Tasks |-> IF u \in {v \in Tasks : v \in Protected \/ Parent[v] \in Protected}
                             THEN rows[u] ELSE CancelAll(rows, t)[u]]
      BY <1>2 DEF CancelEverything
    <3>2. CancelAll(rows, t) \in Table
      BY CancelAllType DEF TypeOK
    <3> QED
      BY <3>1, <3>2 DEF TypeOK
  <2>2. planner' \subseteq {"live", "late"} /\ faults' \in 0..MaxFaults
    BY <1>2, FaultType DEF CancelEverything, TypeOK
  <2> QED
    BY <1>1, <1>2, <2>1, <2>2 DEF CancelEverything, TypeOK, Coherent, work, history, past
<1>3. CASE OtherStarts
  <2>1. InsertJob(Wipe(rows, {}), Other) \in Table
    BY Names, WipeType, InsertJobType DEF TypeOK
  <2>2. rows' \in Table
    BY <1>3, <2>1, Names DEF OtherStarts, Row, LiveStatus
  <2> QED
    BY <1>1, <1>3, <2>2, FaultType DEF OtherStarts, TypeOK, Coherent, wizard, work, history, past
<1>4. CASE OtherEnds
  <2>1. rows' \in Table
    BY <1>4, Names, DecidedType DEF OtherEnds, TypeOK, TerminalStatus
  <2> QED
    BY <1>1, <1>4, <2>1 DEF OtherEnds, TypeOK, Coherent, wizard, work, history, past
<1> QED
  BY <1>2, <1>3, <1>4

\* The steps of the job that applies the plan.
LEMMA JobType ==
  ASSUME Typed, NEW w \in Workers, Begin(w) \/ Load(w) \/ Swap(w) \/ Report(w)
  PROVE  Typed'
<1> USE DEF Typed
<1>1. job[w].req \in Requests \cup {None} /\ Root \in Tasks
  BY Names DEF TypeOK, Running
<1>2. ReportRunning(rows, Root) \in Table
  BY <1>1, ReportRunningType DEF TypeOK
<1>3. CASE Begin(w)
  <2>1. job' \in [Workers -> Running] /\ \A v \in Workers : JobOK(job'[v])
    BY <1>3, GoesType, OverType DEF Begin, Places, Asking
  <2>2. rows' \in Table /\ late' \in BOOLEAN
    BY <1>2, <1>3 DEF Begin, TypeOK
  <2> QED
    BY <1>3, <2>1, <2>2 DEF Begin, TypeOK, Coherent, wizard, past
<1>4. CASE Load(w)
  <2>1. CASE sess.st = "completed"
    <3>1. Onward \in {"final", "publish"} /\ sess.req \in Requests
      BY <2>1 DEF Onward, Coherent
    <3>2. job' \in [Workers -> Running] /\ \A v \in Workers : JobOK(job'[v])
      BY <1>4, <2>1, <3>1, GoesType DEF Load, Places, Asking
    <3> QED
      BY <1>4, <2>1, <3>2 DEF Load, TypeOK, Coherent, wizard, history, past
  <2>2. CASE sess.st # "completed"
    <3>1. job' \in [Workers -> Running] /\ \A v \in Workers : JobOK(job'[v])
      BY <1>4, <2>2, GoesType, OverType DEF Load, Places, Asking
    <3> QED
      BY <1>4, <2>2, <3>1 DEF Load, TypeOK, Coherent, wizard, history, past
  <2> QED
    BY <2>1, <2>2
<1>5. CASE Swap(w)
  <2>1. CASE Stageable /\ sess.st # "gone"
    <3>1. job' \in [Workers -> Running] /\ \A v \in Workers : JobOK(job'[v])
      BY <1>5, <2>1, Names, GoesType DEF Swap, Places, Asking
    <3>2. sess' \in Session /\ sess'.req \in Requests
      <4>1. sess' = [st |-> "completed", plan |-> FALSE, exec |-> TRUE,
                     ack |-> FALSE, req |-> First, rec |-> None]
        BY <1>5, <2>1 DEF Swap
      <4> QED
        BY <4>1, Names DEF Session
    <3>3. rows' \in Table /\ late' \in BOOLEAN /\ swaps' \in Nat /\ stale' = Workers
      BY <1>2, <1>5, <2>1 DEF Swap, TypeOK
    <3> QED
      BY <1>5, <3>1, <3>2, <3>3 DEF Swap, TypeOK, Coherent, wizard
  <2>2. CASE ~(Stageable /\ sess.st # "gone")
    <3>1. job' \in [Workers -> Running] /\ \A v \in Workers : JobOK(job'[v])
      BY <1>5, <2>2, OverType DEF Swap
    <3> QED
      BY <1>5, <2>2, <3>1 DEF Swap, TypeOK, Coherent, wizard
  <2> QED
    BY <2>1, <2>2
<1>6. CASE Report(w)
  <2>1. job[w].req \in Requests
    BY <1>6 DEF Report, Coherent, JobOK, Asking
  <2>2. job' \in [Workers -> Running] /\ \A v \in Workers : JobOK(job'[v])
    BY <1>6, <2>1, GoesType DEF Report, Places, Asking
  <2>3. rows' \in Table /\ late' \in BOOLEAN
    BY <1>2, <1>6 DEF Report, TypeOK
  <2> QED
    BY <1>6, <2>2, <2>3 DEF Report, TypeOK, Coherent, wizard, past
<1> QED
  BY <1>3, <1>4, <1>5, <1>6

\* What the restart of a worker leaves in the table.
LEMMA RestartRowsType ==
  ASSUME Typed, NEW w \in Workers, NEW q \in Requests, Restarts(w, q)
  PROVE  rows' \in Table /\ faults' \in 0..MaxFaults
<1> DEFINE r == Disowned(rows, w)
<1>1. r \in Table
  BY DisownedType DEF Typed, TypeOK
<1>2. PICK kept \in BOOLEAN :
        /\ Works(kept, "noconn")
        /\ rows' = [t \in Tasks |->
             IF kept /\ r[t].st = "RUNNING" /\ r[t].queued /\ r[t].owner = Ghost
                /\ \A v \in Workers \ (cut \cup {w}) : job[v].task # t
             THEN RequeueUncharged(r, t)[t] ELSE r[t]]
  BY DEF Restarts
<1>3. \A t \in Tasks : RequeueUncharged(r, t)[t] \in Row
  BY <1>1, RequeueUnchargedType
<1>4. rows' \in Table
  <2> HIDE DEF r
  <2> QED
    BY <1>1, <1>2, <1>3
<1> QED
  BY <1>2, <1>4, WorksType DEF Typed

\* What a worker's listener does.
LEMMA ListenerType ==
  ASSUME Typed, NEW w \in Workers, NEW q \in Requests,
         Restarts(w, q) \/ Refuses(w, q) \/ Repeats(w, q)
  PROVE  Typed'
<1> USE DEF Typed
<1>1. ctl[q] \in Request
  BY DEF TypeOK
<1>2. CASE Restarts(w, q)
  <2>1. ctl' \in [Requests -> Request]
    BY <1>1, <1>2 DEF Restarts, TypeOK, Request
  <2>2. Killed(w)
    BY <1>2 DEF Restarts
  <2> QED
    BY <1>2, <2>1, <2>2, KilledType, RestartRowsType
    DEF Restarts, TypeOK, Coherent, wizard
<1>3. CASE Refuses(w, q)
  <2>1. ctl' \in [Requests -> Request]
    BY <1>1, <1>3 DEF Refuses, TypeOK, Request
  <2>2. faults' \in 0..MaxFaults
    BY <1>3, FaultType DEF Refuses
  <2>3. CASE Killed(w) /\ rows' = Disowned(rows, w)
    <3>1. rows' \in Table
      BY <2>3, DisownedType DEF TypeOK
    <3> QED
      BY <1>3, <2>1, <2>2, <2>3, <3>1, KilledType
      DEF Refuses, TypeOK, Coherent, wizard
  <2>4. CASE UNCHANGED <<rows, work, stale>>
    BY <1>3, <2>1, <2>2, <2>4 DEF Refuses, TypeOK, Coherent, wizard, work
  <2> QED
    BY <1>3, <2>3, <2>4 DEF Refuses
<1>4. CASE Repeats(w, q)
  <2>1. ctl' \in [Requests -> Request]
    BY <1>1, <1>4 DEF Repeats, TypeOK, Request
  <2> QED
    BY <1>4, <2>1 DEF Repeats, TypeOK, Coherent, wizard, work, history, past
<1> QED
  BY <1>2, <1>3, <1>4

\* What becomes of its connection.
LEMMA LinkType ==
  ASSUME Typed, NEW w \in Workers, Link(w) \/ Unlink(w)
  PROVE  Typed'
<1> USE DEF Typed
<1>1. CASE Link(w)
  BY <1>1 DEF Link, TypeOK, Coherent, wizard, work, history, past
<1>2. CASE Unlink(w)
  <2>1. ctl' \in [Requests -> Request]
    <3>1. PICK lost \in SUBSET {w} :
            ctl' = [q \in Requests |-> [ctl[q] EXCEPT !.asked = @ \ lost]]
      BY <1>2 DEF Unlink
    <3>2. \A q \in Requests : [ctl[q] EXCEPT !.asked = @ \ lost] \in Request
      BY DEF TypeOK, Request
    <3> QED
      BY <3>1, <3>2
  <2> QED
    BY <1>2, <2>1, FaultType DEF Unlink, TypeOK, Coherent, wizard, work, history, past
<1> QED
  BY <1>1, <1>2

\* What the job does with its restart request.
LEMMA HandshakeType ==
  ASSUME Typed, NEW w \in Workers,
         Publish(w) \/ Await(w) \/ Rotate(w) \/ Again(w) \/ GiveUp(w)
  PROVE  Typed'
<1> USE DEF Typed
<1>1. job[w].pc \in Asking => job[w].req \in Requests
  BY DEF Coherent, JobOK
<1>2. CASE Publish(w)
  <2>1. job[w].req \in Requests
    BY <1>1, <1>2 DEF Publish, Asking
  <2>2. job' \in [Workers -> Running] /\ \A v \in Workers : JobOK(job'[v])
    <3>1. CASE linked # {}
      <4>1. Cardinality(linked) \in 0..Cardinality(Workers)
        BY Sizes DEF TypeOK
      <4> QED
        BY <1>2, <2>1, <3>1, <4>1, WaitsType DEF Publish, Places, Asking
    <3>2. CASE linked = {}
      BY <1>2, <2>1, <3>2, GoesType DEF Publish, Places, Asking
    <3> QED
      BY <3>1, <3>2
  <2>3. ctl' \in [Requests -> Request]
    BY <1>2, <2>1, ForgottenType, AskedType DEF Publish, TypeOK
  <2> QED
    BY <1>2, <2>2, <2>3 DEF Publish, TypeOK, Coherent, wizard, history, past
<1>3. CASE Await(w)
  <2>1. job[w].req \in Requests
    BY <1>1, <1>3 DEF Await, Asking
  <2>2. \E pc \in {"final", "asked"} : Goes(w, pc, job[w].req)
    BY <1>3 DEF Await
  <2>3. job' \in [Workers -> Running] /\ \A v \in Workers : JobOK(job'[v])
    BY <1>3, <2>1, <2>2, GoesType DEF Await, Places, Asking
  <2>4. ctl' \in [Requests -> Request]
    <3>1. ctl' \in {ctl, [ctl EXCEPT ![job[w].req].res = "yes"],
                    [ctl EXCEPT ![job[w].req].res = "no"]}
      BY <1>3 DEF Await
    <3> QED
      BY <2>1, <3>1 DEF TypeOK, Request
  <2>5. faults' \in 0..MaxFaults
    BY <1>3, WorksType DEF Await, TypeOK
  <2>6. counted' \in 0..Cardinality(Workers)
    <3>1. job[w].want \in 0..Cardinality(Workers)
      BY DEF TypeOK, Running
    <3>2. counted' \in {counted, job[w].want}
      BY <1>3 DEF Await
    <3> QED
      BY <3>1, <3>2 DEF TypeOK
  <2> QED
    BY <1>3, <2>3, <2>4, <2>5, <2>6 DEF Await, TypeOK, Coherent, wizard, history, past
<1>4. CASE Rotate(w)
  <2>1. PICK n \in Requests : /\ sess' = [sess EXCEPT !.req = n, !.ack = FALSE]
                              /\ Goes(w, "publish", n)
    BY <1>4 DEF Rotate, NewRequests
  <2>2. job' \in [Workers -> Running] /\ \A v \in Workers : JobOK(job'[v])
    BY <1>4, <2>1, GoesType DEF Rotate, Places, Asking
  <2>3. sess' \in Session /\ sess'.req \in Requests
    BY <2>1 DEF TypeOK, Session
  <2>4. mlock' \in Workers \cup {None}
    BY <1>4, FreedType DEF Rotate
  <2> QED
    BY <1>4, <2>2, <2>3, <2>4 DEF Rotate, TypeOK, Coherent, wizard, history, past
<1>5. CASE Again(w)
  <2>1. job[w].req \in Requests
    BY <1>1, <1>5 DEF Again, Asking
  <2>2. job' \in [Workers -> Running] /\ \A v \in Workers : JobOK(job'[v])
    BY <1>5, <2>1, GoesType DEF Again, Places, Asking
  <2> QED
    BY <1>5, <2>2 DEF Again, TypeOK, Coherent, wizard, history, past
<1>6. CASE GiveUp(w)
  <2>1. job' \in [Workers -> Running] /\ \A v \in Workers : JobOK(job'[v])
    BY <1>6, OverType DEF GiveUp
  <2>2. mlock' \in Workers \cup {None}
    BY <1>6, FreedType DEF GiveUp
  <2>3. faults' \in 0..MaxFaults
    BY <1>6, WorksType DEF GiveUp
  <2> QED
    BY <1>6, <2>1, <2>2, <2>3 DEF GiveUp, TypeOK, Coherent, wizard, history, past
<1> QED
  BY <1>2, <1>3, <1>4, <1>5, <1>6

\* How a handshake ends.
LEMMA FinalType ==
  ASSUME Typed, NEW w \in Workers, Final(w) \/ Collapse(w)
  PROVE  Typed'
<1> USE DEF Typed
<1>1. job[w].req \in Requests \cup {None}
  BY DEF TypeOK, Running
<1>2. CASE Final(w)
  <2>1. job' \in [Workers -> Running] /\ \A v \in Workers : JobOK(job'[v])
    BY <1>1, <1>2, GoesType, OverType DEF Final, Places, Asking
  <2>2. sess' \in Session /\ sess'.st = sess.st /\ sess'.req = sess.req
    BY ZenonT(30), <1>2 DEF Final, TypeOK, Session
  <2>3. rows' \in Table
    <3>1. [rows EXCEPT ![Root].st = "SUCCESS"] \in Table
      BY Names DEF TypeOK, Row, TerminalStatus
    <3> QED
      BY <1>2, <3>1 DEF Final, TypeOK
  <2>4. mlock' \in Workers \cup {None}
    BY <1>2, FreedType DEF Final
  <2> QED
    BY <1>2, <2>1, <2>2, <2>3, <2>4 DEF Final, TypeOK, Coherent, wizard, history, past
<1>3. CASE Collapse(w)
  <2>1. job' \in [Workers -> Running] /\ \A v \in Workers : JobOK(job'[v])
    BY <1>3, OverType DEF Collapse
  <2>2. rows' \in Table /\ ctl' \in [Requests -> Request]
    BY <1>3, Names, CollapsedType, ForgottenType DEF Collapse, TypeOK
  <2> QED
    BY <1>3, <2>1, <2>2 DEF Collapse, TypeOK, Coherent, wizard, history, past
<1> QED
  BY <1>2, <1>3

\* What a recovery needs to begin.
LEMMA RecoveryType ==
  ASSUME Typed, Scan \/ Reserve \/ \E w \in Workers : Resume(w)
  PROVE  Typed'
<1> USE DEF Typed
<1>1. CASE Scan
  <2>1. pass' = [seen |-> TRUE, rec |-> sess.rec, req |-> sess.req]
        /\ sess.rec \in Recoveries \cup {None} /\ sess.req \in Requests \cup {None}
    BY <1>1 DEF Scan, TypeOK, Session
  <2> QED
    BY <1>1, <2>1 DEF Scan, TypeOK, Coherent, wizard, work, history, past
<1>2. CASE Reserve
  <2>1. rows' \in Table /\ sess' \in Session /\ sess'.st = sess.st
        /\ sess'.req = sess.req
    <3>1. CASE mlock = None /\ Unchanged /\ SlotFree(rows, Root)
      <4>1. PICK c \in Recoveries :
              /\ sess' = [sess EXCEPT !.rec = c]
              /\ rows' = InsertJob([rows EXCEPT ![Root].st = "RUNNING"], c)
        BY <1>2, <3>1 DEF Reserve, NewRecoveries
      <4>2. [rows EXCEPT ![Root].st = "RUNNING"] \in Table
        BY Names DEF TypeOK, Row, LiveStatus
      <4>3. rows' \in Table
        BY <4>1, <4>2, Names, InsertJobType
      <4> QED
        BY <4>1, <4>3 DEF TypeOK, Session
    <3>2. CASE ~(mlock = None /\ Unchanged /\ SlotFree(rows, Root))
      BY <1>2, <3>2 DEF Reserve, TypeOK
    <3> QED
      BY <3>1, <3>2
  <2>2. pass' \in [seen : BOOLEAN, rec : Recoveries \cup {None},
                   req : Requests \cup {None}]
    BY <1>2 DEF Reserve, NoPass
  <2> QED
    BY <1>2, <2>1, <2>2 DEF Reserve, TypeOK, Coherent, wizard, work, history, past
<1>3. ASSUME NEW w \in Workers, Resume(w)
      PROVE  Typed'
  <2>1. sess.st = "completed" => Onward \in {"final", "publish"} /\ sess.req \in Requests
    BY DEF Onward, Coherent
  <2>2. job' \in [Workers -> Running] /\ \A v \in Workers : JobOK(job'[v])
    BY <1>3, <2>1, GoesType, OverType DEF Resume, Places, Asking
  <2> QED
    BY <1>3, <2>2 DEF Resume, TypeOK, Coherent, wizard, history, past
<1> QED
  BY <1>1, <1>2, <1>3

\* The initial state, and a step that changes nothing.
LEMMA InitTyped == Init => Typed
<1> SUFFICES ASSUME Init PROVE Typed
  OBVIOUS
<1>1. NoJob \in Running /\ JobOK(NoJob)
  BY Sizes DEF NoJob, At, Running, Places, JobOK, Asking
<1>2. Closed \in Request
  BY DEF Closed, Request
<1>3. sess \in Session /\ sess.st # "completed"
  <2>1. sess = [st |-> "in_progress", plan |-> FALSE, exec |-> FALSE, ack |-> FALSE,
                req |-> None, rec |-> None]
    BY DEF Init
  <2> QED
    BY <2>1 DEF Session
<1>4. rows \in Table
  BY AbsentRowsType DEF Init
<1>5. faults \in 0..MaxFaults
  BY MigrationAssumption DEF Init
<1>6. counted \in 0..Cardinality(Workers)
  BY Sizes DEF Init
<1> QED
  BY <1>1, <1>2, <1>3, <1>4, <1>5, <1>6 DEF Init, Typed, TypeOK, Coherent, NoPass

LEMMA NextTyped == Typed /\ [Next]_vars => Typed'
<1> SUFFICES ASSUME Typed, [Next]_vars PROVE Typed'
  OBVIOUS
<1>1. CASE Wizard
  BY <1>1, WizardType
<1>2. CASE Maintenance
  BY <1>2, SweepType, RecoveryType DEF Maintenance
<1>3. CASE CancelEverything \/ OtherStarts \/ OtherEnds
  BY <1>3, OthersType
<1>4. ASSUME NEW w \in Workers,
             \/ Step(w) \/ GiveUp(w) \/ Listener(w) \/ Claims(w)
             \/ Hear(w) \/ Cut(w) \/ Dies(w) \/ Unlink(w)
      PROVE  Typed'
  <2>1. CASE Step(w)
    BY <2>1, JobType, HandshakeType, FinalType, RecoveryType, QueueType, Names DEF Step
  <2>2. CASE GiveUp(w)
    BY <2>2, HandshakeType
  <2>3. CASE Listener(w)
    BY <2>3, ListenerType, LinkType DEF Listener
  <2>4. CASE Claims(w)
    BY <2>4, QueueType DEF Claims
  <2>5. CASE Hear(w) \/ Cut(w) \/ Dies(w)
    BY <2>5, QueueType, Names
  <2>6. CASE Unlink(w)
    BY <2>6, LinkType
  <2> QED
    BY <1>4, <2>1, <2>2, <2>3, <2>4, <2>5, <2>6
<1>5. CASE UNCHANGED vars
  BY <1>5 DEF vars, Typed, TypeOK, Coherent
<1> QED
  BY <1>1, <1>2, <1>3, <1>4, <1>5 DEF Next

\* Every variable keeps its type, whatever is lost, refused or given up.
THEOREM MigrationTypeOK == Spec => []TypeOK
<1>1. Typed => TypeOK
  BY DEF Typed
<1> QED
  BY InitTyped, NextTyped, <1>1, PTL DEF Spec

-------------------------------------------------------------------------------
(* One swap, and what an acknowledgement is worth *)

\* Places a job reaches only when the swap has committed.
Handshake == Asking \cup {"final", "collapse"}

\* Before the swap nobody has asked for a restart.
Untouched ==
  /\ sess.st # "completed"
  /\ \A q \in Requests : ctl[q] = Closed
  /\ \A w \in Workers : job[w].pc \notin Handshake

\* The attempt about to commit holds the lock of a session that is not applied,
\* and a session that is applied is never opened again.
Once ==
  /\ swaps \in {0, 1}
  /\ swaps = 0 => Untouched
  /\ swaps = 1 => sess.st \in {"completed", "gone"}
  /\ \A w \in Workers : job[w].pc = "swap" => mlock = w /\ sess.st # "completed"

\* As many workers have left the old provider as a granted publication has counted.
Enough == Cardinality(Workers \ stale) >= counted

\* Nobody who has acknowledged since the swap still has the old provider, and a
\* job that means to acknowledge has seen that enough have.
Fresh ==
  /\ \A q \in Requests : /\ ctl[q].ok \cap stale = {}
                         /\ ctl[q].res = "yes" => Enough
  /\ \A w \in Workers : job[w].pc \in {"final", "collapse"} => Enough
  /\ sess.ack => Enough

Lawful == Typed /\ Once /\ Fresh

\* Where a job is that went on, and where the others are.
LEMMA WaitsTo ==
  ASSUME Typed, NEW w \in Workers, NEW pc, NEW q, NEW n, Waits(w, pc, q, n)
  PROVE  /\ job'[w].pc = pc
         /\ \A v \in Workers \ {w} : job'[v] = job[v]
BY DEF Typed, TypeOK, Waits, Running

LEMMA GoesTo ==
  ASSUME Typed, NEW w \in Workers, NEW pc, NEW q, Goes(w, pc, q)
  PROVE  /\ job'[w].pc = pc
         /\ \A v \in Workers \ {w} : job'[v] = job[v]
BY WaitsTo DEF Goes

LEMMA OverTo ==
  ASSUME Typed, NEW w \in Workers, NEW out, Over(w, out)
  PROVE  /\ job'[w].pc = "ended"
         /\ \A v \in Workers \ {w} : job'[v] = job[v]
BY DEF Typed, TypeOK, Over, Running

\* Forgetting takes answers away and gives none.
LEMMA ForgottenAnswers ==
  ASSUME NEW c \in [Requests -> Request], NEW q \in Requests
  PROVE  /\ Forgotten(c)[q].ok \in {c[q].ok, {}}
         /\ Forgotten(c)[q].res \in {c[q].res, "none"}
         /\ c[q] = Closed => Forgotten(c)[q] = Closed
BY DEF Forgotten, Closed, Request

\* Workers that have left the old provider stay with the new one.
LEMMA Lasting ==
  ASSUME Typed, Typed', stale' \subseteq stale, counted' <= counted, Enough
  PROVE  Enough'
<1> DEFINE c == Cardinality(Workers \ stale)
           d == Cardinality(Workers \ stale')
<1>1. c \in Nat /\ d \in Nat /\ c <= d
  BY Sizes
<1>2. counted \in Nat /\ counted' \in Nat /\ counted <= c
  BY Sizes DEF Typed, TypeOK, Enough
<1>3. Enough' <=> d >= counted'
  BY DEF Enough
<1> HIDE DEF c, d
<1> QED
  BY <1>1, <1>2, <1>3

\* A step that takes no session to its end, gives no answer and starts no swap.
Calm ==
  /\ swaps' = swaps /\ stale' \subseteq stale /\ counted' = counted
  /\ sess'.st = "completed" => sess.st = "completed"
  /\ sess.st \in {"completed", "gone"} => sess'.st \in {"completed", "gone"}
  /\ sess'.ack => sess.ack
  /\ ctl' \in {ctl, Forgotten(ctl)}
  /\ \A v \in Workers : job'[v] = job[v] \/ job'[v].pc \notin Handshake \cup {"swap"}
  /\ \/ mlock' = mlock
     \/ \E w \in Workers : mlock' = Freed(w) /\ job'[w].pc # "swap"

LEMMA CalmKeeps ==
  ASSUME Lawful, Typed', Calm
  PROVE  Lawful'
<1> USE DEF Lawful
<1>1. \A q \in Requests : /\ ctl'[q].ok \in {ctl[q].ok, {}}
                          /\ ctl'[q].res \in {ctl[q].res, "none"}
                          /\ ctl[q] = Closed => ctl'[q] = Closed
  <2>1. ctl \in [Requests -> Request]
    BY DEF Typed, TypeOK
  <2> QED
    BY <2>1, ForgottenAnswers DEF Calm
<1>2. Once'
  <2>1. swaps' = 0 => Untouched'
    BY <1>1 DEF Once, Calm, Untouched
  <2>2. \A w \in Workers : job'[w].pc = "swap" => mlock' = w /\ sess'.st # "completed"
    BY DEF Once, Calm, Freed
  <2> QED
    BY <2>1, <2>2 DEF Once, Calm
<1>3. Fresh'
  <2>1. Enough => Enough'
    BY Lasting DEF Calm, Typed, TypeOK
  <2>2. \A w \in Workers : job'[w].pc \in {"final", "collapse"} => Enough'
    BY <2>1 DEF Fresh, Calm, Handshake
  <2>3. sess'.ack => Enough'
    BY <2>1 DEF Fresh, Calm
  <2>4. \A q \in Requests : /\ ctl'[q].ok \cap stale' = {}
                            /\ ctl'[q].res = "yes" => Enough'
    BY <1>1, <2>1 DEF Fresh, Calm
  <2> QED
    BY <2>2, <2>3, <2>4 DEF Fresh
<1> QED
  BY <1>2, <1>3

\* The wizard is calm: what it writes on the session it writes on an open one.
LEMMA WizardCalm ==
  ASSUME Typed, Wizard
  PROVE  Calm
<1>1. CASE ClaimPlanner
  BY <1>1 DEF ClaimPlanner, Calm, Mutable, work, history, past, Typed, TypeOK, Session
<1>2. CASE Finalize
  BY <1>2 DEF Finalize, Calm, Mutable, work, history, past, Typed, TypeOK, Session
<1>3. CASE Admit \/ Look
  BY <1>3 DEF Admit, Look, Calm, work, history, past
<1>4. CASE Enqueue
  <2>1. sess' = sess \/ \E b \in BOOLEAN : sess' = [sess EXCEPT !.exec = b]
    <3>1. Mutable \in BOOLEAN
      BY DEF Mutable
    <3> QED
      BY <1>4, <3>1 DEF Enqueue
  <2>2. sess'.st = sess.st /\ sess'.ack = sess.ack
    BY <2>1 DEF Typed, TypeOK, Session
  <2> QED
    BY <1>4, <2>2 DEF Enqueue, Calm, work, history, past
<1>5. CASE Drop
  BY <1>5 DEF Drop, Calm, Mutable, Prunable, work, history, past, Typed, TypeOK, Session
<1>6. ASSUME NEW p \in {"live", "late"}, PlannerWrites(p) \/ PlannerEnds(p)
      PROVE  Calm
  BY <1>6 DEF PlannerWrites, PlannerEnds, Calm, Mutable, work, history, past, Typed, TypeOK,
              Session
<1> QED
  BY <1>1, <1>2, <1>3, <1>4, <1>5, <1>6 DEF Wizard

\* A process that ends takes its lock with it.
LEMMA KilledCalm ==
  ASSUME Typed, NEW w \in Workers, Killed(w)
  PROVE  /\ job'[w] = NoJob /\ \A v \in Workers \ {w} : job'[v] = job[v]
         /\ mlock' = Freed(w) /\ stale' = stale \ {w}
BY DEF Killed, Typed, TypeOK

\* So are the queue and the sweeps: a job that ends leaves, one that begins is
\* at its beginning.
LEMMA QueueCalm ==
  ASSUME Typed, NEW w \in Workers, NEW t \in Tasks,
         Claim(w, t) \/ Finish(w) \/ Hear(w) \/ Cut(w) \/ Reconnect(w) \/ Dies(w)
  PROVE  Calm
<1>1. NoJob.pc = "none" /\ "none" \notin Handshake \cup {"swap"}
  BY DEF NoJob, At, Handshake, Asking
<1>2. job \in [Workers -> Running]
  BY DEF Typed, TypeOK
<1>3. CASE Claim(w, t)
  <2>1. job' \in [Workers -> {job[v] : v \in Workers}
                              \cup {At(t, "begin", None), At(t, "resume", None)}]
    BY <1>2, <1>3 DEF Claim
  <2>2. \A v \in Workers : job'[v] = job[v] \/ job'[v].pc \in {"begin", "resume"}
    BY <1>2, <1>3 DEF Claim, At
  <2> QED
    BY <1>3, <2>2 DEF Claim, Calm, Handshake, Asking, history, past
<1>4. CASE Finish(w) \/ Hear(w)
  BY <1>1, <1>2, <1>4 DEF Finish, Hear, Calm, history, past
<1>5. CASE Cut(w)
  BY <1>5 DEF Cut, Calm, history, past
<1>6. CASE Reconnect(w)
  BY <1>1, <1>2, <1>6 DEF Reconnect, Calm, history, past
<1>7. CASE Dies(w)
  BY <1>1, <1>7, KilledCalm DEF Dies, Calm
<1> QED
  BY <1>3, <1>4, <1>5, <1>6, <1>7

LEMMA RestCalm ==
  ASSUME Typed,
         \/ \E t \in Tasks : Reclaim(t) \/ Sweep(t)
         \/ Scan \/ Reserve
         \/ CancelEverything \/ OtherStarts \/ OtherEnds
         \/ \E w \in Workers : Link(w)
         \/ UNCHANGED vars
  PROVE  Calm
<1>1. CASE Reserve
  <2>1. sess' = sess \/ \E c \in Recoveries : sess' = [sess EXCEPT !.rec = c]
    BY <1>1 DEF Reserve, NewRecoveries
  <2>2. sess'.st = sess.st /\ sess'.ack = sess.ack
    BY <2>1 DEF Typed, TypeOK, Session
  <2> QED
    BY <1>1, <2>2 DEF Reserve, Calm, work, history, past
<1> QED
  BY <1>1 DEF Reclaim, Sweep, Scan, CancelEverything, OtherStarts, OtherEnds, Link, vars,
              Calm, work, history, past

\* A step of one job that keeps the session's status: what it must bring when
\* it goes to a handshake, to its end or to the swap.
Moves(w) ==
  /\ \A v \in Workers \ {w} : job'[v] = job[v]
  /\ swaps' = swaps /\ stale' = stale /\ sess'.st = sess.st
  /\ Enough => Enough'
  /\ sess'.ack => Enough'
  /\ \A q \in Requests : /\ ctl'[q].ok \in {ctl[q].ok, {}}
                         /\ ctl'[q].res = "yes" => Enough'
  /\ swaps = 1 \/ (ctl' = ctl /\ job'[w].pc \notin Handshake)
  /\ job'[w].pc \in {"final", "collapse"} => Enough'
  /\ job'[w].pc = "swap" => mlock' = w /\ sess.st # "completed"
  /\ \A v \in Workers \ {w} : mlock = v => mlock' = v

LEMMA MovesKeep ==
  ASSUME Lawful, Typed', NEW w \in Workers, Moves(w)
  PROVE  Lawful'
<1> USE DEF Lawful
<1>1. Once'
  <2>1. swaps' = 0 => Untouched'
    BY DEF Once, Moves, Untouched
  <2>2. \A v \in Workers : job'[v].pc = "swap" => mlock' = v /\ sess'.st # "completed"
    BY DEF Once, Moves
  <2> QED
    BY <2>1, <2>2 DEF Once, Moves
<1>2. Fresh'
  <2>1. \A v \in Workers : job'[v].pc \in {"final", "collapse"} => Enough'
    BY DEF Fresh, Moves
  <2>2. \A q \in Requests : /\ ctl'[q].ok \cap stale' = {}
                            /\ ctl'[q].res = "yes" => Enough'
    BY DEF Fresh, Moves
  <2> QED
    BY <2>1, <2>2 DEF Fresh, Moves
<1> QED
  BY <1>1, <1>2

\* A job with a request in hand comes after the swap.
LEMMA AfterSwap ==
  ASSUME Lawful
  PROVE  /\ \A w \in Workers : job[w].pc \in Handshake => swaps = 1
         /\ sess.st = "completed" => swaps = 1
BY DEF Lawful, Once, Untouched

\* What an attempt that finds the swap applied goes on with.
LEMMA OnwardFresh ==
  ASSUME Lawful, sess.st = "completed"
  PROVE  Onward \in {"final", "publish"} /\ (Onward = "final" => Enough)
BY DEF Lawful, Typed, Coherent, Fresh, Onward, Known

LEMMA JobMoves ==
  ASSUME Lawful, NEW w \in Workers,
         Begin(w) \/ Load(w) \/ Report(w) \/ Resume(w)
  PROVE  Moves(w)
<1> USE DEF Lawful
<1>1. CASE Begin(w)
  <2>1. job'[w].pc \in {"lock", "ended"} /\ \A v \in Workers \ {w} : job'[v] = job[v]
    BY <1>1, GoesTo, OverTo DEF Begin
  <2> QED
    BY <1>1, <2>1 DEF Begin, Moves, past, Handshake, Asking, Fresh, Enough
<1>2. CASE Load(w)
  <2>1. \A v \in Workers \ {w} : job'[v] = job[v]
    BY <1>2, GoesTo, OverTo DEF Load
  <2>2. CASE sess.st = "completed"
    <3>1. job'[w].pc = Onward
      BY <1>2, <2>2, GoesTo DEF Load
    <3> QED
      BY <1>2, <2>1, <2>2, <3>1, OnwardFresh, AfterSwap, TaskRowsAssumption
      DEF Load, Moves, history, past, Fresh, Enough
  <2>3. CASE sess.st # "completed"
    <3>1. /\ job'[w].pc \in {"swap", "ended"}
          /\ job'[w].pc = "swap" => mlock' = w
      BY <1>2, <2>3, GoesTo, OverTo DEF Load
    <3> QED
      BY <1>2, <2>1, <2>3, <3>1, TaskRowsAssumption
      DEF Load, Moves, history, past, Fresh, Enough, Handshake, Asking
  <2> QED
    BY <2>2, <2>3
<1>3. CASE Report(w)
  <2>1. job'[w].pc = "publish" /\ \A v \in Workers \ {w} : job'[v] = job[v]
    BY <1>3, GoesTo DEF Report
  <2>2. swaps = 1
    BY <1>3, AfterSwap DEF Report, Handshake, Asking
  <2> QED
    BY <1>3, <2>1, <2>2 DEF Report, Moves, past, Fresh, Enough
<1>4. CASE Resume(w)
  <2>1. CASE sess.st = "completed" /\ sess.rec = job[w].task
    <3>1. job'[w].pc = Onward /\ \A v \in Workers \ {w} : job'[v] = job[v]
      BY <1>4, <2>1, GoesTo DEF Resume
    <3> QED
      BY <1>4, <2>1, <3>1, OnwardFresh, AfterSwap DEF Resume, Moves, history, past, Fresh, Enough
  <2>2. CASE ~(sess.st = "completed" /\ sess.rec = job[w].task)
    <3>1. job'[w].pc = "ended" /\ \A v \in Workers \ {w} : job'[v] = job[v]
      BY <1>4, <2>2, OverTo DEF Resume
    <3> QED
      BY <1>4, <3>1 DEF Resume, Moves, history, past, Fresh, Enough, Handshake, Asking
  <2> QED
    BY <2>1, <2>2
<1> QED
  BY <1>1, <1>2, <1>3, <1>4

LEMMA HandshakeMoves ==
  ASSUME Lawful, NEW w \in Workers,
         \/ Publish(w) \/ Await(w) \/ Rotate(w) \/ Again(w) \/ GiveUp(w)
         \/ Final(w) \/ Collapse(w)
  PROVE  Moves(w)
<1> USE DEF Lawful
<1>1. swaps = 1
  BY AfterSwap
  DEF Publish, Await, Rotate, Again, GiveUp, Final, Collapse, Handshake, Asking
<1>2. /\ ctl \in [Requests -> Request] /\ job \in [Workers -> Running]
      /\ job[w].pc \in Asking => job[w].req \in Requests
  BY DEF Typed, TypeOK, Coherent, JobOK
<1>3. \A q \in Requests : /\ Forgotten(ctl)[q].ok \in {ctl[q].ok, {}}
                          /\ Forgotten(ctl)[q].res \in {ctl[q].res, "none"}
  BY <1>2, ForgottenAnswers
<1>4. \A v \in Workers \ {w} : mlock = v => Freed(w) = v
  BY DEF Freed
<1>5. CASE Publish(w)
  <2>1. job'[w].pc \in {"await", "asked"} /\ \A v \in Workers \ {w} : job'[v] = job[v]
    BY <1>5, GoesTo, WaitsTo DEF Publish
  <2> DEFINE q == job[w].req
  <2>2. q \in Requests
    BY <1>2, <1>5 DEF Publish, Asking
  <2>3. \/ \A p \in Requests :
             ctl'[p] = IF p = q THEN Asked(ctl[q]) ELSE Forgotten(ctl)[p]
        \/ ctl' = ctl
    BY <1>5 DEF Publish, Forgotten
  <2>4. Asked(ctl[q]).ok = ctl[q].ok /\ (Asked(ctl[q]).res = "yes" => ctl[q].res = "yes")
    BY <1>2, <2>2 DEF Asked, Request
  <2>5. \A p \in Requests : /\ ctl'[p].ok \in {ctl[p].ok, {}}
                            /\ ctl'[p].res = "yes" => Enough
    BY <1>3, <2>2, <2>3, <2>4 DEF Fresh
  <2> QED
    BY <1>1, <1>5, <2>1, <2>5 DEF Publish, Moves, history, past, Fresh, Enough
<1>6. CASE Await(w)
  <2> DEFINE q == job[w].req
             n == job[w].want
  <2>1. q \in Requests
    BY <1>2, <1>6 DEF Await, Asking
  <2>2. CASE /\ Answered(q, n)
             /\ ctl' = [ctl EXCEPT ![q].res = "yes"]
             /\ Goes(w, "final", q)
             /\ counted' = IF n < counted THEN n ELSE counted
    <3>1. Enough'
      <4> DEFINE k == Cardinality(ctl[q].ok)
                 f == Cardinality(Workers \ stale)
      <4>1. ctl[q].ok \subseteq Workers \ stale
        BY <1>2, <2>1 DEF Fresh, Request
      <4>2. k \in Nat /\ f \in Nat /\ k <= f
        BY <4>1, Sizes
      <4>3. n \in Nat /\ n <= k
        <5>1. n \in Nat
          BY <1>2, Sizes DEF Running
        <5> QED
          BY <2>2, <4>2, <5>1 DEF Answered
      <4>4. counted \in Nat
        BY Sizes DEF Typed, TypeOK
      <4>5. Enough' <=> f >= counted'
        BY <1>6 DEF Enough, Await
      <4> HIDE DEF k, f, n
      <4> QED
        BY <2>2, <4>2, <4>3, <4>4, <4>5
    <3>2. \A p \in Requests : ctl'[p].ok = ctl[p].ok
      BY <1>2, <2>1, <2>2 DEF Request
    <3>3. job'[w].pc = "final" /\ \A v \in Workers \ {w} : job'[v] = job[v]
      BY <2>2, GoesTo
    <3> QED
      <4>1. \A p \in Requests : /\ ctl'[p].ok \in {ctl[p].ok, {}}
                                /\ ctl'[p].res = "yes" => Enough'
        BY <3>1, <3>2
      <4> QED
        BY <1>1, <1>6, <3>1, <3>3, <4>1 DEF Await, Moves, history, past
  <2>3. CASE /\ ctl' \in {ctl, [ctl EXCEPT ![q].res = "no"]}
             /\ Goes(w, "asked", q)
             /\ counted' = counted
    <3>1. \A p \in Requests : /\ ctl'[p].ok = ctl[p].ok
                              /\ ctl'[p].res = "yes" => ctl[p].res = "yes"
      BY <1>2, <2>1, <2>3 DEF Request
    <3>2. job'[w].pc = "asked" /\ \A v \in Workers \ {w} : job'[v] = job[v]
      BY <2>3, GoesTo
    <3>3. /\ UNCHANGED <<stale, counted, swaps, sess, mlock>>
          /\ Enough' <=> Enough
      BY <1>6, <2>3 DEF Await, Enough
    <3>4. \A p \in Requests : /\ ctl'[p].ok \in {ctl[p].ok, {}}
                              /\ ctl'[p].res = "yes" => Enough'
      BY <3>1, <3>3 DEF Fresh
    <3> QED
      BY <1>1, <3>2, <3>3, <3>4 DEF Moves, Fresh
  <2> QED
    BY <1>6, <2>2, <2>3 DEF Await
<1>7. CASE Rotate(w)
  <2>1. PICK n \in Requests : /\ sess' = [sess EXCEPT !.req = n, !.ack = FALSE]
                              /\ Goes(w, "publish", n)
    BY <1>7 DEF Rotate, NewRequests
  <2>2. job'[w].pc = "publish" /\ \A v \in Workers \ {w} : job'[v] = job[v]
    BY <2>1, GoesTo
  <2>3. sess'.st = sess.st /\ ~sess'.ack
    BY <2>1 DEF Typed, TypeOK, Session
  <2> QED
    BY <1>1, <1>4, <1>7, <2>2, <2>3 DEF Rotate, Moves, history, past, Fresh, Enough
<1>8. CASE Again(w) \/ GiveUp(w)
  <2>1. job'[w].pc \in {"publish", "ended"} /\ \A v \in Workers \ {w} : job'[v] = job[v]
    BY <1>8, GoesTo, OverTo DEF Again, GiveUp
  <2> QED
    BY <1>1, <1>4, <1>8, <2>1 DEF Again, GiveUp, Moves, history, past, Fresh, Enough
<1>9. CASE Final(w)
  <2>1. Enough
    BY <1>9 DEF Final, Fresh
  <2>2. job'[w].pc \in {"collapse", "ended"} /\ \A v \in Workers \ {w} : job'[v] = job[v]
    BY <1>9, GoesTo, OverTo DEF Final
  <2>3. sess'.st = sess.st
    BY <1>9 DEF Final, Typed, TypeOK, Session
  <2> QED
    BY <1>1, <1>4, <1>9, <2>1, <2>2, <2>3 DEF Final, Moves, history, past, Fresh, Enough
<1>10. CASE Collapse(w)
  <2>1. job'[w].pc = "ended" /\ \A v \in Workers \ {w} : job'[v] = job[v]
    BY <1>10, OverTo DEF Collapse
  <2> QED
    BY <1>1, <1>3, <1>10, <2>1 DEF Collapse, Moves, history, past, Fresh, Enough
<1> QED
  BY <1>5, <1>6, <1>7, <1>8, <1>9, <1>10

\* The commit: the first, and whatever was asked for or answered is gone.
LEMMA SwapLawful ==
  ASSUME Lawful, NEW w \in Workers, Swap(w)
  PROVE  Lawful'
<1> USE DEF Lawful
<1>1. Typed'
  BY JobType
<1>2. mlock = w /\ sess.st # "completed"
  BY DEF Swap, Once
<1>3. CASE Stageable /\ sess.st # "gone"
  <2>1. swaps = 0 /\ Untouched
    BY <1>2, <1>3 DEF Once
  <2>2. /\ sess'.st = "completed" /\ ~sess'.ack
        /\ swaps' = swaps + 1 /\ ctl' = ctl
        /\ job'[w].pc = "report" /\ \A v \in Workers \ {w} : job'[v] = job[v]
    BY <1>3, GoesTo DEF Swap
  <2>3. Once'
    BY <1>2, <2>1, <2>2 DEF Once, Untouched
  <2>4. Fresh'
    BY <2>1, <2>2 DEF Fresh, Untouched, Closed, Handshake
  <2> QED
    BY <1>1, <2>3, <2>4
<1>4. CASE ~(Stageable /\ sess.st # "gone")
  <2>1. /\ job'[w].pc = "ended" /\ \A v \in Workers \ {w} : job'[v] = job[v]
        /\ UNCHANGED <<sess, ctl, stale, counted, swaps>>
    BY <1>4, OverTo DEF Swap
  <2>2. Once'
    BY <1>2, <2>1 DEF Once, Untouched, Handshake, Asking
  <2>3. Fresh'
    BY <2>1 DEF Fresh, Enough
  <2> QED
    BY <1>1, <2>2, <2>3
<1> QED
  BY <1>3, <1>4

\* A worker acknowledges when its successor has the new provider.
LEMMA ListenerLawful ==
  ASSUME Lawful, NEW w \in Workers, NEW q \in Requests,
         Restarts(w, q) \/ Refuses(w, q) \/ Repeats(w, q)
  PROVE  Lawful'
<1> USE DEF Lawful
<1>1. Typed' /\ ctl \in [Requests -> Request]
  BY ListenerType DEF Typed, TypeOK
<1>2. swaps = 1
  BY DEF Restarts, Refuses, Repeats, Once, Untouched, Closed
<1>3. /\ sess' = sess /\ swaps' = swaps
      /\ UNCHANGED <<job, mlock, stale>> \/ Killed(w)
  BY DEF Restarts, Refuses, Repeats, work, history, past
<1>8. counted' = counted
  BY DEF Restarts, Refuses, Repeats, history, past
<1>4. /\ stale' \subseteq stale
      /\ \A v \in Workers : job'[v] = job[v] \/ job'[v].pc = "none"
      /\ mlock' = mlock \/ (mlock' = Freed(w) /\ job'[w].pc = "none")
  BY <1>3, KilledCalm DEF NoJob, At
<1>5. \A p \in Requests : /\ ctl'[p].ok \cap stale' = {}
                          /\ ctl'[p].res = ctl[p].res
  <2>1. CASE Restarts(w, q)
    <3>1. stale' = stale \ {w}
      BY <2>1, KilledCalm DEF Restarts
    <3>2. \A p \in Requests : /\ ctl'[p].ok \subseteq ctl[p].ok \cup {w}
                              /\ ctl'[p].res = ctl[p].res
      BY <1>1, <2>1 DEF Restarts, Request
    <3> QED
      BY <3>1, <3>2 DEF Fresh
  <2>2. CASE Refuses(w, q) \/ Repeats(w, q)
    <3>1. \A p \in Requests : ctl'[p].ok = ctl[p].ok /\ ctl'[p].res = ctl[p].res
      BY <1>1, <2>2 DEF Refuses, Repeats, Request
    <3> QED
      BY <1>4, <3>1 DEF Fresh
  <2> QED
    BY <2>1, <2>2
<1>6. Once'
  BY <1>2, <1>3, <1>4 DEF Once, Freed
<1>7. Enough => Enough'
  BY <1>1, <1>4, <1>8, Lasting DEF Typed, TypeOK
<1>9. Fresh'
  BY <1>3, <1>4, <1>5, <1>7 DEF Fresh
<1> QED
  BY <1>1, <1>6, <1>9

\* A connection that breaks answers nothing.
LEMMA UnlinkLawful ==
  ASSUME Lawful, NEW w \in Workers, Unlink(w)
  PROVE  Lawful'
<1> USE DEF Lawful
<1>1. Typed'
  BY LinkType
<1>2. /\ UNCHANGED <<sess, job, mlock, stale, counted, swaps>>
      /\ \A q \in Requests : /\ ctl'[q].ok = ctl[q].ok /\ ctl'[q].res = ctl[q].res
                             /\ ctl[q] = Closed => ctl'[q] = Closed
  <2>1. ctl \in [Requests -> Request]
    BY DEF Typed, TypeOK
  <2>2. PICK lost \in SUBSET {w} :
          ctl' = [q \in Requests |-> [ctl[q] EXCEPT !.asked = @ \ lost]]
    BY DEF Unlink
  <2>3. \A q \in Requests : /\ ctl'[q].ok = ctl[q].ok /\ ctl'[q].res = ctl[q].res
                            /\ ctl'[q].bad = ctl[q].bad
                            /\ ctl'[q].asked = ctl[q].asked \ lost
                            /\ ctl'[q] \in Request
    BY <2>1, <2>2 DEF Request
  <2>4. \A q \in Requests : ctl[q] = Closed => ctl'[q] = Closed
    <3> SUFFICES ASSUME NEW q \in Requests, ctl[q] = Closed PROVE ctl'[q] = Closed
      OBVIOUS
    <3>1. /\ ctl'[q].res = "none" /\ ctl'[q].asked = {}
          /\ ctl'[q].ok = {} /\ ctl'[q].bad = {} /\ ctl'[q] \in Request
      BY <2>3 DEF Closed
    <3> QED
      BY <3>1 DEF Closed, Request
  <2> QED
    BY <2>3, <2>4 DEF Unlink, work, history, past
<1>3. Once'
  BY <1>2 DEF Once, Untouched
<1>4. Fresh'
  BY <1>2 DEF Fresh, Enough
<1> QED
  BY <1>1, <1>3, <1>4

LEMMA InitLawful == Init => Lawful
<1> SUFFICES ASSUME Init PROVE Lawful
  OBVIOUS
<1>1. \A w \in Workers : job[w].pc = "none"
  BY DEF Init, NoJob, At
<1> QED
  BY <1>1, InitTyped DEF Init, Lawful, Once, Untouched, Fresh, Closed, Handshake, Asking

LEMMA NextLawful == Lawful /\ [Next]_vars => Lawful'
<1> SUFFICES ASSUME Lawful, [Next]_vars PROVE Lawful'
  OBVIOUS
<1>1. Typed /\ Typed'
  BY NextTyped DEF Lawful
<1>2. CASE Wizard \/ Maintenance \/ CancelEverything \/ OtherStarts \/ OtherEnds
            \/ UNCHANGED vars
  BY <1>1, <1>2, WizardCalm, RestCalm, CalmKeeps DEF Maintenance
<1>3. ASSUME NEW w \in Workers,
             \/ Step(w) \/ GiveUp(w) \/ Listener(w) \/ Claims(w)
             \/ Hear(w) \/ Cut(w) \/ Dies(w) \/ Unlink(w)
      PROVE  Lawful'
  <2>1. CASE Step(w)
    <3>1. CASE Swap(w)
      BY <3>1, SwapLawful
    <3>2. CASE Finish(w) \/ Reconnect(w)
      BY <1>1, <3>2, Names, QueueCalm, CalmKeeps
    <3>3. CASE \/ Begin(w) \/ Load(w) \/ Report(w) \/ Resume(w)
               \/ Publish(w) \/ Await(w) \/ Rotate(w) \/ Again(w)
               \/ Final(w) \/ Collapse(w)
      BY <1>1, <3>3, JobMoves, HandshakeMoves, MovesKeep
    <3> QED
      BY <2>1, <3>1, <3>2, <3>3 DEF Step
  <2>2. CASE GiveUp(w)
    BY <1>1, <2>2, HandshakeMoves, MovesKeep
  <2>3. CASE Listener(w)
    BY <1>1, <2>3, ListenerLawful, RestCalm, CalmKeeps DEF Listener
  <2>4. CASE Claims(w)
    BY <1>1, <2>4, QueueCalm, CalmKeeps DEF Claims
  <2>5. CASE Hear(w) \/ Cut(w) \/ Dies(w)
    BY <1>1, <2>5, Names, QueueCalm, CalmKeeps
  <2>6. CASE Unlink(w)
    BY <2>6, UnlinkLawful
  <2> QED
    BY <1>3, <2>1, <2>2, <2>3, <2>4, <2>5, <2>6
<1> QED
  BY <1>2, <1>3 DEF Next

\* An attempt that comes late finds the plan applied: the rewrite of the
\* catalogue's ids is committed at most once.
THEOREM OneSwap == Spec => []SwappedOnce
<1>1. Lawful => SwappedOnce
  BY DEF Lawful, Once, SwappedOnce
<1> QED
  BY InitLawful, NextLawful, <1>1, PTL DEF Spec

\* A session marked acknowledged means that workers have restarted since, at least
\* as many as the least of the publications that were granted had counted.
THEOREM AcknowledgedMeansRestarted == Spec => []AckIsReal
<1>1. Lawful => AckIsReal
  BY DEF Lawful, Fresh, Enough, AckIsReal
<1> QED
  BY InitLawful, NextLawful, <1>1, PTL DEF Spec

\* No page, planner or attempt takes back a committed swap whose restart is
\* still owed: only its acknowledgement ends that.
THEOREM OwedRestartIsKept == Spec => SwapIsKept
<1>1. Typed /\ [Next]_vars => [Pending => Pending' \/ sess'.ack]_vars
  <2> SUFFICES ASSUME Typed, Next, Pending PROVE Pending' \/ sess'.ack
    OBVIOUS
  <2>1. CASE Wizard
    <3>1. CASE Enqueue
      <4>1. sess' = sess \/ \E b \in BOOLEAN : sess' = [sess EXCEPT !.exec = b]
        <5>1. Mutable \in BOOLEAN
          BY DEF Mutable
        <5> QED
          BY <3>1, <5>1 DEF Enqueue
      <4> QED
        BY <4>1 DEF Pending, Typed, TypeOK, Session
    <3>2. CASE Drop
      BY <3>2 DEF Drop, Pending, Mutable, Prunable
    <3>3. ASSUME NEW p \in {"live", "late"}, PlannerWrites(p) \/ PlannerEnds(p)
          PROVE  Pending'
      BY <3>3 DEF PlannerWrites, PlannerEnds, Pending, Mutable
    <3> QED
      BY <2>1, <3>1, <3>2, <3>3
      DEF Wizard, ClaimPlanner, Finalize, Admit, Look, Pending, Mutable
  <2>2. CASE Maintenance \/ CancelEverything \/ OtherStarts \/ OtherEnds
    <3>1. CASE Reserve
      <4>1. sess' = sess \/ \E c \in Recoveries : sess' = [sess EXCEPT !.rec = c]
        BY <3>1 DEF Reserve, NewRecoveries
      <4> QED
        BY <4>1 DEF Pending, Typed, TypeOK, Session
    <3> QED
      BY <2>2, <3>1
      DEF Maintenance, Reclaim, Sweep, Scan, CancelEverything, OtherStarts, OtherEnds,
          Pending
  <2>3. ASSUME NEW w \in Workers, Step(w)
        PROVE  Pending' \/ sess'.ack
    <3>1. CASE Swap(w)
      BY <3>1 DEF Swap, Pending
    <3>2. CASE Rotate(w)
      <4>1. PICK n \in Requests : sess' = [sess EXCEPT !.req = n, !.ack = FALSE]
        BY <3>2 DEF Rotate, NewRequests
      <4> QED
        BY <4>1 DEF Pending, Typed, TypeOK, Session
    <3>3. CASE Final(w)
      BY <3>3 DEF Final, Pending, Typed, TypeOK, Session
    <3> QED
      BY <2>3, <3>1, <3>2, <3>3
      DEF Step, Begin, Load, Report, Publish, Await, Again, Collapse, Resume, Finish,
          Reconnect, Pending
  <2>4. ASSUME NEW w \in Workers,
               \/ GiveUp(w) \/ Listener(w) \/ Claims(w) \/ Hear(w) \/ Cut(w)
               \/ Dies(w) \/ Unlink(w)
        PROVE  Pending'
    BY <2>4
    DEF GiveUp, Listener, Link, Restarts, Refuses, Repeats, Claims, Claim, Hear, Cut, Dies,
        Unlink, Pending, history, past
  <2> QED
    BY <2>1, <2>2, <2>3, <2>4 DEF Next
<1> QED
  BY InitTyped, NextTyped, <1>1, PTL DEF Spec, SwapIsKept

-------------------------------------------------------------------------------
(* Cancels and swaps *)

\* The root's row is not cancelled between the tables r and s.
Spared(r, s) == s[Root].st = "REVOKED" => r[Root].st = "REVOKED"

\* No statement on the table but a cancel's writes REVOKED.
LEMMA StatementsSpare ==
  ASSUME NEW r \in Table
  PROVE  /\ \A keep \in SUBSET Tasks : Spared(r, Wipe(r, keep))
         /\ \A t \in Tasks : Spared(r, Collapsed(r, t))
         /\ \A t \in Tasks : Spared(r, InsertJob(r, t))
         /\ \A t \in Tasks : Spared(r, InsertJob(Wipe(r, {}), t))
         /\ \A t \in Tasks, w \in Workers : Spared(r, ClaimRow(r, t, w))
         /\ \A t \in Tasks : Spared(r, RequeueOrFail(r, t))
         /\ \A t \in Tasks : Spared(r, RequeueUncharged(r, t))
         /\ \A t \in Tasks : Spared(r, ReportRunning(r, t))
         /\ \A t \in Tasks : Spared(r, FailStale(r, t))
<1>1. Root \in Tasks
  BY Names
<1>2. \A keep \in SUBSET Tasks : Wipe(r, keep)[Root] \in {r[Root], GoneRow}
  BY <1>1 DEF Wipe
<1>3. GoneRow.st = "GONE"
  BY DEF GoneRow, FreeRow
<1>4. \A keep \in SUBSET Tasks : Spared(r, Wipe(r, keep))
  BY <1>2, <1>3 DEF Spared
<1>5. \A t \in Tasks : Spared(r, Collapsed(r, t))
  BY <1>4 DEF Collapsed, Spared
<1>6. \A t \in Tasks : Spared(r, InsertJob(r, t))
  BY <1>1 DEF Spared, InsertJob
<1>7. \A t \in Tasks : Spared(r, InsertJob(Wipe(r, {}), t))
  <2>1. Wipe(r, {}) \in Table /\ Spared(r, Wipe(r, {}))
    BY <1>4, WipeType
  <2> QED
    BY <1>1, <2>1 DEF Spared, InsertJob
<1>8. \A t \in Tasks, w \in Workers : Spared(r, ClaimRow(r, t, w))
  BY <1>1 DEF Spared, ClaimRow, Row
<1>9. \A t \in Tasks : Spared(r, RequeueOrFail(r, t))
  BY <1>1 DEF Spared, RequeueOrFail, ChargeRow
<1>10. \A t \in Tasks : Spared(r, RequeueUncharged(r, t))
  BY <1>1 DEF Spared, RequeueUncharged, Row
<1>11. \A t \in Tasks : Spared(r, ReportRunning(r, t))
  <2>1. [GoneRow EXCEPT !.st = "RUNNING"].st = "RUNNING"
    BY DEF GoneRow, FreeRow
  <2> QED
    BY <1>1, <2>1 DEF Spared, ReportRunning, Row
<1>12. \A t \in Tasks : Spared(r, FailStale(r, t))
  BY <1>1 DEF Spared, FailStale, Row
<1> QED
  BY <1>4, <1>5, <1>6, <1>7, <1>8, <1>9, <1>10, <1>11, <1>12

\* Nor does a verdict a job may end with.
LEMMA DecidedSpares ==
  ASSUME NEW r \in Table, NEW t \in Tasks, NEW w, NEW verdict \in {"SUCCESS", "FAIL"}
  PROVE  Spared(r, Decided(r, t, w, verdict))
<1> DEFINE f == FinishRow(r, t, w, verdict)
           g == [f EXCEPT ![t].queued = FALSE]
<1>1. Root \in Tasks
  BY Names
<1>2. f \in Table /\ Spared(r, f)
  BY <1>1 DEF Spared, FinishRow, Row, TerminalStatus
<1> HIDE DEF f
<1>3. g \in Table
  BY <1>2, UnqueuedType
<1>4. g[Root].st = f[Root].st
  BY <1>1, <1>2 DEF Row
<1> HIDE DEF g
<1>5. Spared(g, Collapsed(g, t))
  BY <1>3, StatementsSpare
<1>6. Decided(r, t, w, verdict) = Collapsed(g, t)
  BY DEF Decided, f, g
<1> QED
  BY <1>2, <1>4, <1>5, <1>6 DEF Spared

\* A lost worker's rows keep their status.
LEMMA DisownedSpares ==
  ASSUME NEW r \in Table, NEW w
  PROVE  Spared(r, Disowned(r, w))
<1>1. Disowned(r, w)[Root].st = r[Root].st
  BY Names DEF Disowned, Row
<1> QED
  BY <1>1 DEF Spared

\* The wizard cancels no row.
LEMMA WizardSpares ==
  ASSUME Typed, Wizard
  PROVE  Spared(rows, rows')
<1>1. rows \in Table /\ Root \in Tasks
  BY Names DEF Typed, TypeOK
<1>2. rows' = rows => Spared(rows, rows')
  BY DEF Spared
<1>3. CASE ClaimPlanner
  BY <1>1, <1>3, StatementsSpare DEF ClaimPlanner
<1>4. CASE Admit
  BY <1>1, <1>4 DEF Admit, Spared, Row
<1>5. CASE Enqueue
  <2>1. CASE rows' = InsertJob(Wipe(rows, {}), Root)
    BY <1>1, <2>1, StatementsSpare
  <2>2. CASE rows' = [rows EXCEPT ![Root].st = "FAIL"]
    BY <1>1, <2>2 DEF Spared, Row
  <2> QED
    BY <1>2, <1>5, <2>1, <2>2 DEF Enqueue
<1> QED
  BY <1>2, <1>3, <1>4, <1>5
  DEF Wizard, Finalize, Look, Drop, PlannerWrites, PlannerEnds

\* Nor does the maintenance pass, nor another main task.
LEMMA RestSpares ==
  ASSUME Typed, Maintenance \/ OtherStarts \/ OtherEnds
  PROVE  Spared(rows, rows')
<1>1. rows \in Table /\ Root \in Tasks /\ Other \in Tasks /\ Root # Other
  BY Names, MigrationAssumption DEF Typed, TypeOK
<1>2. rows' = rows => Spared(rows, rows')
  BY DEF Spared
<1>3. ASSUME NEW t \in Tasks, Reclaim(t) \/ Sweep(t)
      PROVE  Spared(rows, rows')
  BY <1>1, <1>3, StatementsSpare DEF Reclaim, Sweep
<1>4. CASE Reserve
  <2>1. CASE rows' = rows
    BY <1>2, <2>1
  <2>2. CASE rows' # rows
    <3>1. PICK c \in Recoveries : rows' = InsertJob([rows EXCEPT ![Root].st = "RUNNING"], c)
      BY <1>4, <2>2 DEF Reserve, NewRecoveries
    <3>2. c \in Tasks /\ c # Root
      BY MigrationAssumption
    <3> QED
      BY <1>1, <3>1, <3>2 DEF Spared, InsertJob, Row
  <2> QED
    BY <2>1, <2>2
<1>5. CASE OtherStarts
  <2> DEFINE s == InsertJob(Wipe(rows, {}), Other)
  <2>1. s \in Table
    BY <1>1, WipeType, InsertJobType
  <2>2. Spared(rows, s)
    BY <1>1, StatementsSpare
  <2>3. rows' = [s EXCEPT ![Other].st = "RUNNING"]
    BY <1>5 DEF OtherStarts
  <2> HIDE DEF s
  <2> QED
    BY <1>1, <2>1, <2>2, <2>3 DEF Spared
<1>6. CASE OtherEnds
  BY <1>1, <1>6, DecidedSpares DEF OtherEnds
<1> QED
  BY <1>2, <1>3, <1>4, <1>5, <1>6 DEF Maintenance, Scan

\* Nor does a worker, whatever becomes of it.
LEMMA WorkerSpares ==
  ASSUME Typed, NEW w \in Workers,
         \/ Step(w) \/ GiveUp(w) \/ Listener(w) \/ Claims(w) \/ Hear(w) \/ Cut(w)
         \/ Dies(w) \/ Unlink(w)
  PROVE  Spared(rows, rows')
<1>1. rows \in Table /\ Root \in Tasks
  BY Names DEF Typed, TypeOK
<1>2. rows' = rows => Spared(rows, rows')
  BY DEF Spared
<1>3. CASE Begin(w) \/ Swap(w) \/ Report(w)
  BY <1>1, <1>2, <1>3, StatementsSpare DEF Begin, Swap, Report
<1>4. CASE Final(w)
  <2>1. CASE rows' = [rows EXCEPT ![Root].st = "SUCCESS"]
    BY <1>1, <2>1 DEF Spared, Row
  <2> QED
    BY <1>2, <1>4, <2>1 DEF Final
<1>5. CASE Collapse(w)
  BY <1>1, <1>5, StatementsSpare DEF Collapse
<1>6. CASE Finish(w)
  <2>1. JobOK(job[w]) /\ job[w].pc = "ended"
    BY <1>6 DEF Typed, Coherent, Finish
  <2>2. job[w].out \in {"SUCCESS", "FAIL", "RETRY"} /\ job[w].task \in Tasks
    BY <2>1, MigrationAssumption DEF JobOK, Running
  <2>3. \/ rows' = rows
        \/ rows' = RequeueOrFail(rows, job[w].task)
        \/ job[w].out # "RETRY" /\ rows' = Decided(rows, job[w].task, w, job[w].out)
    BY <1>6 DEF Finish
  <2> QED
    BY <1>1, <1>2, <2>2, <2>3, StatementsSpare, DecidedSpares
<1>7. CASE Claims(w)
  BY <1>1, <1>7, StatementsSpare DEF Claims, Claim
<1>8. CASE Dies(w)
  BY <1>1, <1>8, DisownedSpares DEF Dies
<1>9. ASSUME NEW q \in Requests, Restarts(w, q)
      PROVE  Spared(rows, rows')
  <2> DEFINE r == Disowned(rows, w)
  <2>1. r \in Table /\ Spared(rows, r)
    BY <1>1, DisownedType, DisownedSpares
  <2>2. rows'[Root] \in {RequeueUncharged(r, Root)[Root], r[Root]}
    BY <1>1, <1>9 DEF Restarts
  <2>3. Spared(r, RequeueUncharged(r, Root))
    BY <1>1, <2>1, StatementsSpare
  <2> HIDE DEF r
  <2> QED
    BY <2>1, <2>2, <2>3 DEF Spared
<1>10. ASSUME NEW q \in Requests, Refuses(w, q)
       PROVE  Spared(rows, rows')
  BY <1>1, <1>2, <1>10, DisownedSpares DEF Refuses
<1>11. ASSUME NEW q \in Requests, Repeats(w, q)
       PROVE  Spared(rows, rows')
  BY <1>2, <1>11 DEF Repeats
<1> QED
  BY <1>2, <1>3, <1>4, <1>5, <1>6, <1>7, <1>8, <1>9, <1>10, <1>11
  DEF Step, Load, Publish, Await, Rotate, Again, Resume, Reconnect, GiveUp, Listener,
      Link, Unlink, Hear, Cut

\* A session is completed by a swap and by nothing else.
LEMMA CompletedBySwap ==
  ASSUME Lawful, Next, sess'.st = "completed", sess.st # "completed"
  PROVE  \E w \in Workers : Swap(w)
<1> USE DEF Lawful
<1>1. Calm => FALSE
  BY DEF Calm
<1>2. \A w \in Workers : Moves(w) => FALSE
  BY DEF Moves
<1>3. ~(Wizard \/ Maintenance \/ CancelEverything \/ OtherStarts \/ OtherEnds)
  BY <1>1, WizardCalm, RestCalm DEF Maintenance
<1>4. PICK w \in Workers : \/ Step(w) \/ GiveUp(w) \/ Listener(w) \/ Claims(w)
                           \/ Hear(w) \/ Cut(w) \/ Dies(w) \/ Unlink(w)
  BY <1>3 DEF Next
<1>5. ~(Listener(w) \/ Unlink(w))
  BY DEF Listener, Link, Unlink, Restarts, Refuses, Repeats
<1>6. ~(Claims(w) \/ Hear(w) \/ Cut(w) \/ Dies(w) \/ Finish(w) \/ Reconnect(w))
  BY <1>1, Names, QueueCalm DEF Claims
<1>7. ~(\/ GiveUp(w) \/ Begin(w) \/ Load(w) \/ Report(w) \/ Resume(w) \/ Publish(w)
        \/ Await(w) \/ Rotate(w) \/ Again(w) \/ Final(w) \/ Collapse(w))
  BY <1>2, JobMoves, HandshakeMoves
<1> QED
  BY <1>4, <1>5, <1>6, <1>7 DEF Step

\* A swap leaves the row that answers for its restart.
LEMMA SwapRuns ==
  ASSUME Typed, NEW w \in Workers, Swap(w), sess'.st = "completed", sess.st # "completed"
  PROVE  rows'[Root].st = "RUNNING"
<1>1. rows \in Table /\ Root \in Tasks
  BY Names DEF Typed, TypeOK
<1>2. IsLive(rows, Root) /\ Exists(rows, Root)
  BY DEF Swap, Stageable, IsLive, Exists, LiveStatus, AbsentStatus
<1>3. rows' = ReportRunning(rows, Root)
  BY <1>2 DEF Swap, Stageable
<1> QED
  BY <1>1, <1>2, <1>3 DEF ReportRunning, Row

\* A cancel of everything comes before a swap or spares its root: a swap whose
\* restart is owed has a row that was not cancelled, unless the restart was
\* acknowledged once and is owed anew.
THEOREM CancelSparesSwap == Spec => SwapNotCancelled
<1>1. Lawful /\ [Next]_vars
        => [Pending' /\ rows'[Root].st = "REVOKED"
              => (Pending /\ rows[Root].st = "REVOKED") \/ sess.ack]_vars
  <2> SUFFICES ASSUME Lawful, Next, Pending', rows'[Root].st = "REVOKED", ~sess.ack
               PROVE  Pending /\ rows[Root].st = "REVOKED"
    OBVIOUS
  <2> USE DEF Lawful
  <2>1. Pending
    <3>1. ~(\E w \in Workers : Swap(w) /\ sess.st # "completed")
      BY SwapRuns DEF Pending
    <3> QED
      BY <3>1, CompletedBySwap DEF Pending
  <2>2. CASE CancelEverything
    <3>1. Root \in Tasks /\ Root \in Protected
      BY <2>1, Names DEF Protected
    <3>2. rows'[Root] = rows[Root]
      BY <2>2, <3>1 DEF CancelEverything
    <3> QED
      BY <2>1, <3>2
  <2>3. CASE ~CancelEverything
    <3>1. Spared(rows, rows')
      BY <2>3, WizardSpares, RestSpares, WorkerSpares DEF Next
    <3> QED
      BY <2>1, <3>1 DEF Spared
  <2> QED
    BY <2>2, <2>3
<1> QED
  BY InitLawful, NextLawful, <1>1, PTL DEF Spec, SwapNotCancelled
===============================================================================
