---------------------------- MODULE TaskRowsProofs ----------------------------
(***************************************************************************)
(* Every statement of TaskRows maps a table to a table, and moves each row *)
(* along one of a few lawful paths.  These lemmas are what the theorems    *)
(* about the queue rest on.                                                *)
(***************************************************************************)
EXTENDS TaskRows, TLAPS

Table == [Tasks -> Row]

USE DEF Table

\* The two rows that stand for no row are rows.
LEMMA AbsentRowsType == FreeRow \in Row /\ GoneRow \in Row
BY DEF FreeRow, GoneRow, Row, AbsentStatus

\* A wipe deletes rows and leaves a table.
LEMMA WipeType ==
  ASSUME NEW r \in Table, NEW keep
  PROVE  Wipe(r, keep) \in Table
BY AbsentRowsType DEF Wipe

\* The collapse after a finished root leaves a table.
LEMMA CollapsedType ==
  ASSUME NEW r \in Table, NEW t \in Tasks
  PROVE  Collapsed(r, t) \in Table
BY WipeType DEF Collapsed

\* Enqueueing a job leaves a table.
LEMMA InsertJobType ==
  ASSUME NEW r \in Table, NEW t \in Tasks
  PROVE  InsertJob(r, t) \in Table
BY DEF InsertJob, Row, LiveStatus

\* Claiming a row for a worker leaves a table.
LEMMA ClaimRowType ==
  ASSUME NEW r \in Table, NEW t \in Tasks, NEW w \in Workers
  PROVE  ClaimRow(r, t, w) \in Table
BY DEF ClaimRow, Row, LiveStatus

\* Charging an attempt leaves a table, whatever was left of the budget.
LEMMA RequeueOrFailType ==
  ASSUME NEW r \in Table, NEW t \in Tasks
  PROVE  RequeueOrFail(r, t) \in Table
BY DEF RequeueOrFail, ChargeRow, Row, LiveStatus, TerminalStatus

\* Giving a row back for free leaves a table.
LEMMA RequeueUnchargedType ==
  ASSUME NEW r \in Table, NEW t \in Tasks
  PROVE  RequeueUncharged(r, t) \in Table
BY DEF RequeueUncharged, Row, LiveStatus

\* Writing a verdict leaves a table.
LEMMA FinishRowType ==
  ASSUME NEW r \in Table, NEW t \in Tasks, NEW w \in Workers,
         NEW verdict \in TerminalStatus
  PROVE  FinishRow(r, t, w, verdict) \in Table
BY DEF FinishRow, Row, TerminalStatus

\* Writing a parent's verdict on its child leaves a table.
LEMMA EndChildRowType ==
  ASSUME NEW r \in Table, NEW t \in Tasks, NEW verdict \in TerminalStatus
  PROVE  EndChildRow(r, t, verdict) \in Table
BY DEF EndChildRow, Row, TerminalStatus

\* Reaping the finished children leaves a table.
LEMMA ReapedType ==
  ASSUME NEW r \in Table, NEW p \in Tasks
  PROVE  Reaped(r, p) \in Table
BY AbsentRowsType DEF Reaped

\* The stale sweep leaves a table.
LEMMA FailStaleType ==
  ASSUME NEW r \in Table, NEW t \in Tasks
  PROVE  FailStale(r, t) \in Table
BY DEF FailStale, Row, TerminalStatus

\* A cancel leaves a table, recaps included.
LEMMA CancelAllType ==
  ASSUME NEW r \in Table, NEW aimed
  PROVE  CancelAll(r, aimed) \in Table
<1>1. [GoneRow EXCEPT !.st = "REVOKED"] \in Row
  BY DEF GoneRow, FreeRow, Row, TerminalStatus
<1> QED
  BY <1>1, AbsentRowsType DEF CancelAll

\* A progress report leaves a table, the phantom it may insert included.
LEMMA ReportRunningType ==
  ASSUME NEW r \in Table, NEW t \in Tasks
  PROVE  ReportRunning(r, t) \in Table
<1>1. [GoneRow EXCEPT !.st = "RUNNING"] \in Row
  BY DEF GoneRow, FreeRow, Row, LiveStatus
<1> QED
  BY <1>1 DEF ReportRunning, Row, LiveStatus

-------------------------------------------------------------------------------
(* How a statement may move a row *)

Unmoved(x, y) == y.st = x.st /\ y.queued = x.queued /\ y.att = x.att

\* A job that no claim or report has touched: inserted, given back, decided,
\* deleted, or covered by a recap.
Enqueued(x, y) == x.st = "FREE" /\ y.st = "NEW" /\ y.queued /\ y.att = 0
GivenBack(t, x, y) ==
  /\ x.st = "RUNNING" /\ y.st = "NEW" /\ y.queued = x.queued
  /\ y.att = x.att \/ (y.att = x.att + 1 /\ y.att <= MaxAttempts[t])
Ended(x, y) ==
  /\ x.st \in LiveStatus /\ y.st \in TerminalStatus /\ y.queued = x.queued
  /\ y.att = x.att \/ x.st = "RUNNING"
Deleted(x, y) == x.st # "FREE" /\ y.st = "GONE" /\ y.att = 0
Covered(x, y) == x.st # "FREE" /\ y.st = "REVOKED" /\ ~y.queued /\ y.att = 0

Quiet(t, x, y) ==
  \/ Unmoved(x, y) \/ Enqueued(x, y) \/ GivenBack(t, x, y)
  \/ Ended(x, y) \/ Deleted(x, y) \/ Covered(x, y)

\* The moves into RUNNING: a claim or report of a queued row, and a phantom.
Started(x, y) ==
  \/ x.st = "NEW" /\ y.st = "RUNNING" /\ y.queued = x.queued /\ y.att = x.att
  \/ x.st = "GONE" /\ y.st = "RUNNING" /\ ~y.queued /\ y.att = 0

Moved(r, s) == \A t \in Tasks : Quiet(t, r[t], s[t]) \/ Started(r[t], s[t])
MovedQuietly(r, s) == \A t \in Tasks : Quiet(t, r[t], s[t])

\* A wipe only deletes terminal rows.
LEMMA WipeMoves ==
  ASSUME NEW r \in Table, NEW keep
  PROVE  /\ MovedQuietly(r, Wipe(r, keep))
         /\ \A t \in Tasks : ~IsTerminal(r, t) => Wipe(r, keep)[t] = r[t]
         /\ \A t \in keep \cap Tasks : Wipe(r, keep)[t] = r[t]
<1> SUFFICES ASSUME NEW t \in Tasks
    PROVE /\ Quiet(t, r[t], Wipe(r, keep)[t])
          /\ ~IsTerminal(r, t) => Wipe(r, keep)[t] = r[t]
          /\ t \in keep => Wipe(r, keep)[t] = r[t]
  BY DEF MovedQuietly
<1>1. Wipe(r, keep)[t] = IF t \notin keep /\ Wipeable(r, t) THEN GoneRow ELSE r[t]
  BY DEF Wipe
<1>2. Wipeable(r, t) => IsTerminal(r, t) /\ r[t].st # "FREE"
  BY DEF Wipeable, IsTerminal, TerminalStatus
<1>3. GoneRow.st = "GONE" /\ GoneRow.att = 0
  BY DEF GoneRow, FreeRow
<1> QED
  BY <1>1, <1>2, <1>3 DEF Quiet, Unmoved, Deleted

\* The start of a root: the wipe, then the insert over an unused id.
LEMMA InsertMoves ==
  ASSUME NEW r \in Table, NEW t \in Tasks, r[t].st = "FREE"
  PROVE  /\ MovedQuietly(r, InsertJob(r, t))
         /\ MovedQuietly(r, InsertJob(Wipe(r, {}), t))
<1> SUFFICES ASSUME NEW u \in Tasks
    PROVE Quiet(u, r[u], InsertJob(r, t)[u])
          /\ Quiet(u, r[u], InsertJob(Wipe(r, {}), t)[u])
  BY DEF MovedQuietly
<1>1. CASE u = t
  BY <1>1, WipeType DEF InsertJob, Quiet, Enqueued
<1>2. CASE u # t
  BY <1>2, WipeType, WipeMoves DEF InsertJob, Quiet, Unmoved, MovedQuietly
<1> QED
  BY <1>1, <1>2

\* A claim starts one queued row.
LEMMA ClaimMoves ==
  ASSUME NEW r \in Table, NEW t \in Tasks, NEW w \in Workers, Claimable(r, t)
  PROVE  Moved(r, ClaimRow(r, t, w))
<1>1. ClaimRow(r, t, w)[t].st = "RUNNING"
      /\ ClaimRow(r, t, w)[t].queued = r[t].queued
      /\ ClaimRow(r, t, w)[t].att = r[t].att
  BY DEF ClaimRow, Row
<1>2. \A u \in Tasks \ {t} : ClaimRow(r, t, w)[u] = r[u]
  BY DEF ClaimRow
<1> QED
  BY <1>1, <1>2 DEF Moved, Started, Quiet, Unmoved, Claimable

\* A charge gives a row back within its budget or fails it.
LEMMA RequeueOrFailMoves ==
  ASSUME NEW r \in Table, NEW t \in Tasks
  PROVE  MovedQuietly(r, RequeueOrFail(r, t))
<1>1. CASE r[t].st # "RUNNING"
  BY <1>1 DEF RequeueOrFail, MovedQuietly, Quiet, Unmoved
<1>2. CASE r[t].st = "RUNNING"
  <2> DEFINE s == RequeueOrFail(r, t)
  <2>1. /\ s[t].st = (IF RestartLeft(r, t) THEN "NEW" ELSE "FAIL")
        /\ s[t].queued = r[t].queued
        /\ s[t].att = r[t].att + 1
    BY <1>2 DEF RequeueOrFail, ChargeRow
  <2>2. \A u \in Tasks \ {t} : s[u] = r[u]
    BY <1>2 DEF RequeueOrFail, ChargeRow
  <2>3. Quiet(t, r[t], s[t])
    BY <1>2, <2>1 DEF Quiet, GivenBack, Ended, RestartLeft, LiveStatus, TerminalStatus
  <2> QED
    BY <2>2, <2>3 DEF MovedQuietly, Quiet, Unmoved
<1> QED
  BY <1>1, <1>2

\* A free pass gives a running row back at no charge.
LEMMA RequeueUnchargedMoves ==
  ASSUME NEW r \in Table, NEW t \in Tasks, r[t].st = "RUNNING"
  PROVE  MovedQuietly(r, RequeueUncharged(r, t))
<1> DEFINE s == RequeueUncharged(r, t)
<1>1. s[t].st = "NEW" /\ s[t].queued = r[t].queued /\ s[t].att = r[t].att
  BY DEF RequeueUncharged, Row
<1>2. \A u \in Tasks \ {t} : s[u] = r[u]
  BY DEF RequeueUncharged
<1> QED
  BY <1>1, <1>2 DEF MovedQuietly, Quiet, GivenBack, Unmoved

\* A verdict ends a live row and touches no other.
LEMMA VerdictMoves ==
  ASSUME NEW r \in Table, NEW t \in Tasks, NEW verdict \in TerminalStatus,
         NEW s \in Table, IsLive(r, t), s = [r EXCEPT ![t].st = verdict]
  PROVE  MovedQuietly(r, s)
<1>1. s[t].st = verdict /\ s[t].queued = r[t].queued /\ s[t].att = r[t].att
  BY DEF Row
<1>2. \A u \in Tasks \ {t} : s[u] = r[u]
  OBVIOUS
<1> QED
  BY <1>1, <1>2 DEF MovedQuietly, Quiet, Ended, Unmoved, IsLive

\* finish_task ends the worker's own row or does nothing.
LEMMA FinishMoves ==
  ASSUME NEW r \in Table, NEW t \in Tasks, NEW w \in Workers,
         NEW verdict \in TerminalStatus
  PROVE  /\ MovedQuietly(r, FinishRow(r, t, w, verdict))
         /\ \A u \in Tasks \ {t} : FinishRow(r, t, w, verdict)[u] = r[u]
<1>1. CASE Mine(r, t, w)
  <2>1. FinishRow(r, t, w, verdict) = [r EXCEPT ![t].st = verdict] /\ IsLive(r, t)
    BY <1>1 DEF FinishRow, Mine, IsLive, LiveStatus
  <2>2. FinishRow(r, t, w, verdict) \in Table
    BY FinishRowType
  <2> QED
    BY <2>1, <2>2, VerdictMoves
<1>2. CASE ~Mine(r, t, w)
  BY <1>2 DEF FinishRow, MovedQuietly, Quiet, Unmoved
<1> QED
  BY <1>1, <1>2

\* A collapse only deletes terminal rows, and never the recap of its own root.
LEMMA CollapsedMoves ==
  ASSUME NEW r \in Table, NEW t \in Tasks
  PROVE  /\ MovedQuietly(r, Collapsed(r, t))
         /\ Collapsed(r, t)[t] = r[t]
         /\ \A u \in Tasks : Collapsed(r, t)[u] = r[u] \/ Deleted(r[u], Collapsed(r, t)[u])
<1>1. MovedQuietly(r, r)
  BY DEF MovedQuietly, Quiet, Unmoved
<1>2. \A u \in Tasks : Wipe(r, {t})[u] = r[u] \/ Deleted(r[u], Wipe(r, {t})[u])
  <2> TAKE u \in Tasks
  <2>1. Wipe(r, {t})[u] = IF u \notin {t} /\ Wipeable(r, u) THEN GoneRow ELSE r[u]
    BY DEF Wipe
  <2> QED
    BY <2>1 DEF Wipeable, IsTerminal, TerminalStatus, GoneRow, FreeRow, Deleted
<1> QED
  BY <1>1, <1>2, WipeMoves DEF Collapsed

\* A postponed verdict and the collapse that follows it, as one move.
LEMMA FinishAndCollapseMoves ==
  ASSUME NEW r \in Table, NEW t \in Tasks, NEW w \in Workers,
         NEW verdict \in TerminalStatus
  PROVE  MovedQuietly(r, Collapsed(FinishRow(r, t, w, verdict), t))
<1> DEFINE f == FinishRow(r, t, w, verdict)
           s == Collapsed(f, t)
<1>1. f \in Table
  BY FinishRowType
<1>2. \A u \in Tasks : s[u] = f[u] \/ Deleted(f[u], s[u])
  BY <1>1, CollapsedMoves
<1>3. s[t] = f[t]
  BY <1>1, CollapsedMoves
<1>4. MovedQuietly(r, f) /\ \A u \in Tasks \ {t} : f[u] = r[u]
  BY FinishMoves
<1> SUFFICES ASSUME NEW u \in Tasks PROVE Quiet(u, r[u], s[u])
  BY DEF MovedQuietly
<1>5. CASE u = t
  BY <1>3, <1>4, <1>5 DEF MovedQuietly
<1>6. CASE u # t
  BY <1>2, <1>4, <1>6 DEF Quiet, Unmoved
<1> QED
  BY <1>5, <1>6

\* A parent's verdict ends a live child or does nothing.
LEMMA EndChildMoves ==
  ASSUME NEW r \in Table, NEW t \in Tasks, NEW verdict \in TerminalStatus
  PROVE  MovedQuietly(r, EndChildRow(r, t, verdict))
<1>1. CASE IsLive(r, t)
  BY <1>1, EndChildRowType, VerdictMoves DEF EndChildRow
<1>2. CASE ~IsLive(r, t)
  BY <1>2 DEF EndChildRow, MovedQuietly, Quiet, Unmoved
<1> QED
  BY <1>1, <1>2

\* Reaping deletes finished children only.
LEMMA ReapedMoves ==
  ASSUME NEW r \in Table, NEW p \in Tasks
  PROVE  MovedQuietly(r, Reaped(r, p))
BY DEF Reaped, MovedQuietly, Quiet, Unmoved, Deleted, IsTerminal, TerminalStatus,
       GoneRow, FreeRow

\* The stale sweep ends a live row.
LEMMA FailStaleMoves ==
  ASSUME NEW r \in Table, NEW t \in Tasks, StaleInline(r, t)
  PROVE  MovedQuietly(r, FailStale(r, t))
<1>1. FailStale(r, t) \in Table /\ "FAIL" \in TerminalStatus /\ IsLive(r, t)
  BY FailStaleType DEF StaleInline, TerminalStatus
<1> QED
  BY <1>1, VerdictMoves DEF FailStale

\* A cancel deletes every row or covers it with a recap.
LEMMA CancelAllMoves ==
  ASSUME NEW r \in Table, NEW aimed, aimed \in Tasks => r[aimed].st # "FREE"
  PROVE  MovedQuietly(r, CancelAll(r, aimed))
<1> SUFFICES ASSUME NEW t \in Tasks PROVE Quiet(t, r[t], CancelAll(r, aimed)[t])
  BY DEF MovedQuietly
<1> DEFINE s == CancelAll(r, aimed)
<1>1. s[t] = IF Recapped(r, t, aimed) THEN [GoneRow EXCEPT !.st = "REVOKED"]
             ELSE IF Exists(r, t) THEN GoneRow ELSE r[t]
  BY DEF CancelAll
<1>2. CASE Recapped(r, t, aimed)
  <2>1. r[t].st # "FREE"
    BY <1>2 DEF Recapped, IsLive, LiveStatus
  <2>2. s[t].st = "REVOKED" /\ ~s[t].queued /\ s[t].att = 0
    BY <1>1, <1>2 DEF GoneRow, FreeRow
  <2> QED
    BY <2>1, <2>2 DEF Quiet, Covered
<1>3. CASE ~Recapped(r, t, aimed)
  BY <1>1, <1>3 DEF Exists, AbsentStatus, GoneRow, FreeRow, Quiet, Deleted, Unmoved
<1> QED
  BY <1>2, <1>3

\* A progress report starts a row, or brings a deleted one back as a phantom.
LEMMA ReportMoves ==
  ASSUME NEW r \in Table, NEW t \in Tasks, r[t].st # "FREE", MayReport(r, t)
  PROVE  Moved(r, ReportRunning(r, t))
<1> DEFINE s == ReportRunning(r, t)
<1>1. \A u \in Tasks \ {t} : s[u] = r[u]
  BY DEF ReportRunning
<1>2. CASE IsLive(r, t)
  <2>1. s[t].st = "RUNNING" /\ s[t].queued = r[t].queued /\ s[t].att = r[t].att
    BY <1>2 DEF ReportRunning, Row
  <2> QED
    BY <1>1, <1>2, <2>1 DEF Moved, Started, Quiet, Unmoved, IsLive, LiveStatus
<1>3. CASE ~IsLive(r, t)
  <2>1. r[t].st = "GONE"
    BY <1>3 DEF MayReport, Exists, AbsentStatus
  <2>2. s[t].st = "RUNNING" /\ ~s[t].queued /\ s[t].att = 0
    BY <1>3 DEF ReportRunning, GoneRow, FreeRow
  <2> QED
    BY <1>1, <2>1, <2>2 DEF Moved, Started, Quiet, Unmoved
<1> QED
  BY <1>2, <1>3

-------------------------------------------------------------------------------
(* What a statement leaves alone *)

\* A row that is still running afterwards is the row it was, and a running row
\* that stays live is not touched: nothing is started and nothing is given back.
LeavesRunning(r, s) ==
  \A t \in Tasks :
    /\ s[t].st = "RUNNING" => s[t] = r[t]
    /\ r[t].st = "RUNNING" /\ s[t].st \in LiveStatus => s[t] = r[t]

\* One running row is taken back, and nothing else happens to the table.
TakesBack(r, s, t) ==
  /\ r[t].st = "RUNNING" /\ s[t].st # "RUNNING"
  /\ \A u \in Tasks \ {t} : s[u] = r[u]

\* Deleting what is finished leaves the running rows alone.
LEMMA WipeLeaves ==
  ASSUME NEW r \in Table, NEW keep
  PROVE  LeavesRunning(r, Wipe(r, keep))
<1> SUFFICES ASSUME NEW t \in Tasks
             PROVE  Wipe(r, keep)[t] = r[t]
                    \/ (Wipe(r, keep)[t] = GoneRow /\ r[t].st # "RUNNING")
  BY DEF LeavesRunning, GoneRow, FreeRow, LiveStatus
<1> QED
  BY DEF Wipe, Wipeable, IsTerminal, TerminalStatus

\* So does the collapse after a finished root.
LEMMA CollapsedLeaves ==
  ASSUME NEW r \in Table, NEW t \in Tasks
  PROVE  LeavesRunning(r, Collapsed(r, t))
BY WipeLeaves DEF Collapsed, LeavesRunning

\* So does the start of a job, with or without the wipe before it.
LEMMA InsertLeaves ==
  ASSUME NEW r \in Table, NEW t \in Tasks, r[t].st = "FREE"
  PROVE  /\ LeavesRunning(r, InsertJob(r, t))
         /\ LeavesRunning(r, InsertJob(Wipe(r, {}), t))
<1>1. LeavesRunning(r, Wipe(r, {})) /\ Wipe(r, {}) \in Table
  BY WipeLeaves, WipeType
<1>2. ASSUME NEW s \in Table, LeavesRunning(r, s)
      PROVE  LeavesRunning(r, InsertJob(s, t))
  <2>1. /\ InsertJob(s, t)[t].st = "NEW"
        /\ \A u \in Tasks \ {t} : InsertJob(s, t)[u] = s[u]
    BY DEF InsertJob
  <2> QED
    BY <1>2, <2>1 DEF LeavesRunning
<1>3. LeavesRunning(r, r)
  BY DEF LeavesRunning
<1> QED
  BY <1>1, <1>2, <1>3

\* So does a verdict, which ends the one row it is written on.
LEMMA VerdictLeaves ==
  ASSUME NEW r \in Table, NEW t \in Tasks, NEW verdict \in TerminalStatus
  PROVE  LeavesRunning(r, [r EXCEPT ![t].st = verdict])
<1> DEFINE s == [r EXCEPT ![t].st = verdict]
<1>1. s[t].st = verdict /\ \A u \in Tasks \ {t} : s[u] = r[u]
  BY DEF Row
<1> QED
  BY <1>1 DEF LeavesRunning, LiveStatus, TerminalStatus

\* So do the verdict of finish_task, with its collapse, and a parent's verdict.
LEMMA FinishLeaves ==
  ASSUME NEW r \in Table, NEW t \in Tasks, NEW w \in Workers,
         NEW verdict \in TerminalStatus
  PROVE  /\ LeavesRunning(r, FinishRow(r, t, w, verdict))
         /\ LeavesRunning(r, Collapsed(FinishRow(r, t, w, verdict), t))
         /\ LeavesRunning(r, EndChildRow(r, t, verdict))
<1> DEFINE f == FinishRow(r, t, w, verdict)
<1>1. LeavesRunning(r, r)
  BY DEF LeavesRunning
<1>2. LeavesRunning(r, f)
  BY <1>1, VerdictLeaves DEF FinishRow
<1>3. LeavesRunning(r, EndChildRow(r, t, verdict))
  BY <1>1, VerdictLeaves DEF EndChildRow
<1>4. LeavesRunning(f, Collapsed(f, t))
  BY FinishRowType, CollapsedLeaves
<1>5. \A u \in Tasks : Collapsed(f, t)[u] = f[u] \/ Collapsed(f, t)[u].st = "GONE"
  BY FinishRowType, CollapsedMoves DEF Deleted
<1>6. LeavesRunning(r, Collapsed(f, t))
  <2> HIDE DEF f
  <2> QED
    BY <1>2, <1>5 DEF LeavesRunning, LiveStatus
<1> QED
  BY <1>2, <1>3, <1>6

\* So do the reaping of children, the stale sweep and a cancel.
LEMMA SweepsLeave ==
  ASSUME NEW r \in Table, NEW t \in Tasks, NEW aimed
  PROVE  /\ LeavesRunning(r, Reaped(r, t))
         /\ LeavesRunning(r, FailStale(r, t))
         /\ LeavesRunning(r, CancelAll(r, aimed))
<1>1. \A u \in Tasks : Reaped(r, t)[u] = r[u]
                       \/ (Reaped(r, t)[u] = GoneRow /\ r[u].st # "RUNNING")
  BY DEF Reaped, IsTerminal, TerminalStatus
<1>2. LeavesRunning(r, Reaped(r, t))
  BY <1>1 DEF LeavesRunning, GoneRow, FreeRow, LiveStatus
<1>3. LeavesRunning(r, FailStale(r, t))
  BY VerdictLeaves DEF FailStale, TerminalStatus
<1>4. LeavesRunning(r, CancelAll(r, aimed))
  <2>1. \A u \in Tasks : \/ CancelAll(r, aimed)[u] = r[u] /\ ~Exists(r, u)
                         \/ CancelAll(r, aimed)[u].st \in {"REVOKED", "GONE"}
    BY DEF CancelAll, GoneRow, FreeRow
  <2> QED
    BY <2>1 DEF LeavesRunning, LiveStatus, Exists, AbsentStatus
<1> QED
  BY <1>2, <1>3, <1>4

\* The two requeues take back the row they are given, if it is running.
LEMMA RequeuesTakeBack ==
  ASSUME NEW r \in Table, NEW t \in Tasks
  PROVE  /\ r[t].st = "RUNNING" => TakesBack(r, RequeueOrFail(r, t), t)
         /\ r[t].st # "RUNNING" => RequeueOrFail(r, t) = r
         /\ r[t].st = "RUNNING" => TakesBack(r, RequeueUncharged(r, t), t)
         /\ r[t].st = "RUNNING" => RequeueOrFail(r, t)[t].att = r[t].att + 1
<1>1. ASSUME r[t].st = "RUNNING"
      PROVE  /\ TakesBack(r, RequeueOrFail(r, t), t)
             /\ RequeueOrFail(r, t)[t].att = r[t].att + 1
  <2> DEFINE s == RequeueOrFail(r, t)
  <2>1. /\ s[t].st = (IF RestartLeft(r, t) THEN "NEW" ELSE "FAIL")
        /\ s[t].att = r[t].att + 1
        /\ \A u \in Tasks \ {t} : s[u] = r[u]
    BY <1>1 DEF RequeueOrFail, ChargeRow
  <2> QED
    BY <1>1, <2>1 DEF TakesBack
<1>2. ASSUME r[t].st = "RUNNING" PROVE TakesBack(r, RequeueUncharged(r, t), t)
  <2> DEFINE s == RequeueUncharged(r, t)
  <2>1. s[t].st = "NEW" /\ \A u \in Tasks \ {t} : s[u] = r[u]
    BY DEF RequeueUncharged, Row
  <2> QED
    BY <1>2, <2>1 DEF TakesBack
<1>3. r[t].st # "RUNNING" => RequeueOrFail(r, t) = r
  BY DEF RequeueOrFail
<1> QED
  BY <1>1, <1>2, <1>3

-------------------------------------------------------------------------------
(* The verdicts a parent has yet to read *)

\* No finished child is deleted while its parent is live before and after.
SparesChildren(r, s) ==
  \A t \in Tasks :
    ~IsRoot(t) /\ IsTerminal(r, t) /\ IsLive(r, Parent[t]) /\ IsLive(s, Parent[t])
      => Exists(s, t)

\* A wipe spares them: TERMINAL_AND_NOT_A_LIVE_PARENTS_CHILD.
LEMMA WipeSpares ==
  ASSUME NEW r \in Table, NEW keep
  PROVE  SparesChildren(r, Wipe(r, keep))
BY DEF SparesChildren, Wipe, Wipeable, ParentGone, Exists, IsTerminal, TerminalStatus,
       AbsentStatus

\* A statement that keeps every row, whatever status it gives it, spares them.
LEMMA KeepingSpares ==
  ASSUME NEW r, NEW s, \A t \in Tasks : IsTerminal(r, t) => Exists(s, t)
  PROVE  SparesChildren(r, s)
BY DEF SparesChildren

\* The start of a root spares them.
LEMMA InsertSpares ==
  ASSUME NEW r \in Table, NEW t \in Tasks, r[t].st = "FREE"
  PROVE  /\ SparesChildren(r, InsertJob(r, t))
         /\ SparesChildren(r, InsertJob(Wipe(r, {}), t))
<1>1. \A u \in Tasks \ {t} : /\ InsertJob(r, t)[u] = r[u]
                             /\ InsertJob(Wipe(r, {}), t)[u] = Wipe(r, {})[u]
  BY DEF InsertJob, Wipe
<1>2. \A s : (\A u \in Tasks \ {t} : s[u] = r[u]) => SparesChildren(r, s)
  BY DEF SparesChildren, Exists, IsTerminal, TerminalStatus, AbsentStatus
<1>3. SparesChildren(r, InsertJob(Wipe(r, {}), t))
  <2> DEFINE s == InsertJob(Wipe(r, {}), t)
  <2> SUFFICES ASSUME NEW u \in Tasks, ~IsRoot(u), IsTerminal(r, u),
                      IsLive(r, Parent[u])
               PROVE  Exists(s, u)
    BY DEF SparesChildren
  <2>1. u # t /\ ~Wipeable(r, u)
    BY DEF IsTerminal, TerminalStatus, Wipeable, ParentGone
  <2>2. s[u] = r[u]
    BY <1>1, <2>1 DEF Wipe
  <2> QED
    BY <2>2 DEF Exists, IsTerminal, TerminalStatus, AbsentStatus
<1> QED
  BY <1>1, <1>2, <1>3

\* The collapse after a finished root spares them, with the verdict or without.
LEMMA CollapseSpares ==
  ASSUME NEW r \in Table, NEW t \in Tasks, NEW w \in Workers,
         NEW verdict \in TerminalStatus
  PROVE  /\ SparesChildren(r, Collapsed(r, t))
         /\ SparesChildren(r, Collapsed(FinishRow(r, t, w, verdict), t))
<1> DEFINE f == FinishRow(r, t, w, verdict)
           c == Collapsed(f, t)
<1>1. SparesChildren(r, Collapsed(r, t))
  BY WipeSpares, KeepingSpares
     DEF Collapsed, Exists, IsTerminal, TerminalStatus, AbsentStatus
<1>2. f \in Table
  BY FinishRowType
<1>3. \A u \in Tasks : c[u] = f[u] \/ (c[u].st = "GONE" /\ Wipeable(f, u))
  <2>1. \A u \in Tasks : Wipe(f, {t})[u] = f[u]
                         \/ (Wipe(f, {t})[u].st = "GONE" /\ Wipeable(f, u))
    BY DEF Wipe, GoneRow, FreeRow
  <2> HIDE DEF f
  <2> QED
    BY <2>1 DEF Collapsed
<1>4. \A u \in Tasks \ {t} : f[u] = r[u]
  BY FinishMoves
<1>5. f[t] = r[t] \/ f[t].st \in TerminalStatus
  BY DEF FinishRow, Row
<1>6. SparesChildren(r, c)
  <2> SUFFICES ASSUME NEW u \in Tasks, ~IsRoot(u), IsTerminal(r, u),
                      IsLive(r, Parent[u]), IsLive(c, Parent[u])
               PROVE  Exists(c, u)
    BY DEF SparesChildren
  <2>1. Parent[u] \in Tasks
    BY TaskRowsAssumption DEF IsRoot
  <2> HIDE DEF f, c
  <2>2. IsTerminal(f, u)
    BY <1>4, <1>5 DEF IsTerminal
  <2>3. IsLive(f, Parent[u])
    BY <1>3, <2>1 DEF IsLive, LiveStatus
  <2>4. ~Wipeable(f, u)
    BY <2>3 DEF Wipeable, ParentGone
  <2> QED
    BY <1>3, <2>2, <2>4 DEF Exists, IsTerminal, TerminalStatus, AbsentStatus
<1> QED
  BY <1>1, <1>6

\* A cancel leaves no parent live.
LEMMA CancelSpares ==
  ASSUME NEW r \in Table, NEW aimed
  PROVE  SparesChildren(r, CancelAll(r, aimed))
<1> SUFFICES ASSUME NEW p \in Tasks, IsLive(r, p) PROVE ~IsLive(CancelAll(r, aimed), p)
  BY TaskRowsAssumption DEF SparesChildren, IsRoot
<1>1. Exists(r, p)
  BY DEF IsLive, Exists, LiveStatus, AbsentStatus
<1> QED
  BY <1>1 DEF CancelAll, IsLive, LiveStatus, GoneRow, FreeRow

===============================================================================
