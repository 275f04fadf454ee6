--------------------------- MODULE AnalysisRunProofs ---------------------------
(***************************************************************************)
(* What holds of an analysis run for any number of servers and albums, any *)
(* bounds and any number of restarts.                                      *)
(***************************************************************************)
EXTENDS AnalysisRun, FiniteSetTheorems, TLAPS

USE DrainAssumption, AnalysisAssumption

-------------------------------------------------------------------------------
(* The data *)

\* There are finitely many jobs and albums, so what is counted has a size.
LEMMA FiniteJobs ==
  ASSUME NEW jobs \in SUBSET AlbumJobs
  PROVE  IsFiniteSet(jobs) /\ Cardinality(jobs) \in Nat
<1>1. IsFiniteSet(Albums) /\ IsFiniteSet(0..MaxRestarts)
  BY FS_Interval DEF Albums
<1>2. IsFiniteSet(AlbumJobs)
  BY <1>1, FS_Product DEF AlbumJobs
<1> QED
  BY <1>2, FS_Subset, FS_CardinalityType

LEMMA FiniteAlbums ==
  ASSUME NEW albums \in SUBSET Albums
  PROVE  IsFiniteSet(albums) /\ Cardinality(albums) \in Nat
<1>1. IsFiniteSet(Albums)
  BY FS_Interval DEF Albums
<1> QED
  BY <1>1, FS_Subset, FS_CardinalityType

\* A job has an album or is a rebuild, never both.
LEMMA JobShapes ==
  /\ \A j \in AlbumJobs : j \in Jobs /\ j[1] \in Albums /\ j[1] # 0 /\ j[2] \in 0..MaxRestarts
  /\ \A j \in Rebuilds : j \in Jobs /\ j[1] = 0
  /\ \A jobs \in SUBSET Jobs : OfAlbums(jobs) = jobs \cap AlbumJobs
<1>1. \A j \in AlbumJobs : j[1] \in Albums /\ j[1] # 0 /\ j[2] \in 0..MaxRestarts
  BY DEF AlbumJobs, Albums
<1>2. \A j \in Rebuilds : j[1] = 0
  BY DEF Rebuilds
<1> QED
  BY <1>1, <1>2 DEF Jobs, OfAlbums

\* The albums of jobs are albums.
LEMMA AlbumsInType ==
  ASSUME NEW jobs \in SUBSET Jobs
  PROVE  AlbumsIn(jobs) \in SUBSET Albums
BY JobShapes DEF AlbumsIn, Jobs

\* The rows the statements write are rows.
LEMMA RowTypes ==
  /\ NoRow \in ChildRow
  /\ Queued \in ChildRow
  /\ \A r \in ChildRow :
       /\ Claimed(r) \in ChildRow
       /\ r.left > 0 => Beaten(r) \in ChildRow
       /\ Charged(r) \in ChildRow
       /\ \A score \in 0..MaxScore : Succeeded(r, score) \in ChildRow
<1> USE DEF Row, ChildRow, Live, Ended
<1>1. NoRow \in ChildRow /\ Queued \in ChildRow
  BY DEF NoRow, Queued
<1>2. ASSUME NEW r \in ChildRow
      PROVE  /\ Claimed(r) \in ChildRow
             /\ r.left > 0 => Beaten(r) \in ChildRow
             /\ Charged(r) \in ChildRow
             /\ \A score \in 0..MaxScore : Succeeded(r, score) \in ChildRow
  <2>1. Claimed(r) \in ChildRow
    BY DEF Claimed
  <2>2. r.left > 0 => Beaten(r) \in ChildRow
    BY DEF Beaten
  <2>3. Charged(r) \in ChildRow
    BY DEF Charged
  <2>4. \A score \in 0..MaxScore : Succeeded(r, score) \in ChildRow
    BY DEF Succeeded
  <2> QED
    BY <2>1, <2>2, <2>3, <2>4
<1> QED
  BY <1>1, <1>2

\* A reap, and the end of a job, leave a table of rows.
LEMMA TableTypes ==
  ASSUME NEW rows \in [Jobs -> ChildRow]
  PROVE  /\ \A jobs : Without(rows, jobs) \in [Jobs -> ChildRow]
         /\ \A j \in Jobs : EndChild(rows, j, "failure") \in [Jobs -> ChildRow]
<1>1. \A jobs : Without(rows, jobs) \in [Jobs -> ChildRow]
  BY RowTypes DEF Without
<1>2. \A j \in Jobs : EndChild(rows, j, "failure") \in [Jobs -> ChildRow]
  BY DEF EndChild, Row, ChildRow, Live, Ended
<1> QED
  BY <1>1, <1>2

\* What the parent reads of the table are jobs.
LEMMA ReadTypes ==
  /\ Ends \in SUBSET Jobs
  /\ OfAlbums(Ends) \in SUBSET AlbumJobs
  /\ LiveAmong(child, Jobs) \in SUBSET Jobs
  /\ OfAlbums(LiveAmong(child, Jobs)) \in SUBSET AlbumJobs
  /\ RunningAmong(child, Jobs) \in SUBSET Jobs
  /\ Kept \in SUBSET Albums
<1>1. /\ Ends \in SUBSET Jobs
      /\ LiveAmong(child, Jobs) \in SUBSET Jobs
      /\ RunningAmong(child, Jobs) \in SUBSET Jobs
  BY DEF Ends, EndedAmong, LiveAmong, RunningAmong
<1>2. Kept \in SUBSET Albums
  BY AlbumsInType DEF Kept
<1> QED
  BY <1>1, <1>2, JobShapes

\* A phase begins with a memory.
LEMMA NewLoopType ==
  ASSUME NEW s \in Servers, NEW bad \in SUBSET Servers, NEW barred \in SUBSET Servers
  PROVE  NewLoop(s, bad, barred) \in Loop
BY DEF NewLoop, Loop

LEMMA FirstServer == 1 \in Servers
BY DEF Servers

-------------------------------------------------------------------------------
(* The type invariant *)

LEMMA ChargeType ==
  ASSUME TypeOK, NEW kind, Charge(kind)
  PROVE  faults' \in 0..MaxFaults
BY DEF TypeOK, Charge

\* A phase that is over leaves a memory.
LEMMA OverTypes ==
  ASSUME TypeOK
  PROVE  /\ Failed \in Loop
         /\ Passed \in Loop
         /\ [Failed EXCEPT !.barred = @ \cup {loop.at}] \in Loop
<1>1. loop.at \in Servers /\ loop.bad \in SUBSET Servers /\ loop.barred \in SUBSET Servers
  BY DEF TypeOK, Loop
<1>2. Failed \in Loop /\ Passed \in Loop
  BY <1>1, NewLoopType DEF Failed, Passed
<1>3. Failed.barred = loop.barred
  BY DEF Failed, NewLoop
<1>4. [Failed EXCEPT !.barred = @ \cup {loop.at}] \in Loop
  BY <1>1, <1>2, <1>3 DEF Loop
<1> QED
  BY <1>2, <1>4

\* An attempt that is over leaves a fresh memory, and a charge a number.
LEMMA LoseTypes ==
  ASSUME TypeOK, Over
  PROVE  /\ pc' \in Places /\ loop' \in Loop /\ stir' \in BOOLEAN
         /\ Lose \/ LoseForGood =>
              /\ parent' \in {"live", "success", "failure", "revoked"}
              /\ tries' \in 0..MaxRestarts
<1>1. loop' \in Loop
  BY FirstServer, NewLoopType DEF Over
<1>2. ASSUME Lose \/ LoseForGood
      PROVE  /\ parent' \in {"live", "success", "failure", "revoked"}
             /\ tries' \in 0..MaxRestarts
  BY <1>2 DEF Lose, LoseForGood, TypeOK
<1> QED
  BY <1>1, <1>2 DEF Over, Places

LEMMA OpeningType ==
  ASSUME TypeOK, Opening
  PROVE  TypeOK'
<1>1. CASE Start
  BY <1>1 DEF Start, TypeOK, Places, table, ghosts
<1>2. CASE Carry
  <2>1. child' \in [Jobs -> ChildRow]
    BY <1>2, TableTypes DEF Carry, TypeOK
  <2>2. Sung(OfAlbums(Ends)) \in SUBSET AlbumJobs
    BY ReadTypes DEF Sung
  <2>3. loop' \in Loop
    BY <1>2, <2>2, FiniteJobs, ReadTypes DEF Carry, TypeOK, Loop
  <2> QED
    BY <1>2, <2>1, <2>3 DEF Carry, TypeOK, Places, ghosts
<1>3. CASE CarryFails
  BY <1>3, ChargeType DEF CarryFails, TypeOK, Places, table, ghosts
<1>4. CASE List
  <2> DEFINE jobs == OfAlbums(LiveAmong(child, Jobs))
  <2>1. jobs \in SUBSET AlbumJobs /\ AlbumsIn(jobs) \in SUBSET Albums
    BY ReadTypes, AlbumsInType, JobShapes
  <2>2. Adopting(jobs) \in Loop
    BY <2>1, FiniteJobs DEF Adopting, TypeOK, Loop
  <2> QED
    BY <1>4, <2>2 DEF List, TypeOK, Places, table, ghosts
<1>5. CASE ListFails
  BY <1>5, ChargeType DEF ListFails, TypeOK, Places, table
<1>6. CASE Clean
  BY <1>6 DEF Clean, TypeOK, Places, table, ghosts
<1>7. CASE Open
  <2>1. AlbumsOf(loop.at) \in SUBSET Albums
    BY DEF AlbumsOf
  <2>2. loop' \in Loop
    BY <1>7, <2>1, ReadTypes DEF Open, TypeOK, Loop
  <2> QED
    BY <1>7, <2>2 DEF Open, TypeOK, Places, table, ghosts
<1>8. CASE OpenEmpty
  <2>1. faults' \in 0..MaxFaults
    BY <1>8, ChargeType DEF OpenEmpty, TypeOK
  <2> QED
    BY <1>8, <2>1, OverTypes DEF OpenEmpty, TypeOK, Places, table, ghosts
<1>9. CASE Refused
  BY <1>9, ChargeType, OverTypes DEF Refused, TypeOK, Places, table, ghosts
<1> QED
  BY <1>1, <1>2, <1>3, <1>4, <1>5, <1>6, <1>7, <1>8, <1>9 DEF Opening

\* Where the walk looks at an album there is one left to walk.
Walking ==
  pc = "album" \/ (pc \in {"monitor", "rebuild", "watch", "giveup"} /\ loop.call # "drain")
    => loop.todo # {}

\* The drain monitors for itself.
Draining == pc = "drain" => loop.call = "drain"

LEMMA AlbumIsOne ==
  ASSUME Walking, TypeOK, pc = "album"
  PROVE  Album \in loop.todo /\ Album \in Albums /\ <<Album, tries>> \in AlbumJobs
<1>1. Album \in loop.todo
  BY DEF Album, Walking
<1>2. loop.todo \in SUBSET Albums /\ tries \in 0..MaxRestarts
  BY DEF TypeOK, Loop
<1> QED
  BY <1>1, <1>2 DEF AlbumJobs

\* What a reap adds to the counters.
LEMMA AbsorbedType ==
  ASSUME TypeOK
  PROVE  Absorbed(Ends) \in Loop
<1>1. /\ OfAlbums(Ends) \in SUBSET AlbumJobs
      /\ Sung(OfAlbums(Ends)) \in SUBSET AlbumJobs
      /\ Fell(OfAlbums(Ends)) \in SUBSET AlbumJobs
  BY ReadTypes DEF Sung, Fell
<1>2. /\ Cardinality(OfAlbums(Ends)) \in Nat
      /\ Cardinality(Sung(OfAlbums(Ends))) \in Nat
      /\ Cardinality(Fell(OfAlbums(Ends))) \in Nat
  BY <1>1, FiniteJobs
<1>3. loop \in Loop /\ loop.active \ Ends \in SUBSET AlbumJobs
  BY DEF TypeOK, Loop
<1>4. /\ loop.completed + Cardinality(OfAlbums(Ends)) \in Nat
      /\ loop.songs + Cardinality(Sung(OfAlbums(Ends))) \in Nat
      /\ loop.failed + Cardinality(Fell(OfAlbums(Ends))) \in Nat
      /\ loop.read \cup OfAlbums(Ends) \in SUBSET AlbumJobs
  BY <1>1, <1>2, <1>3 DEF Loop
<1> QED
  BY <1>3, <1>4 DEF Absorbed, Loop

\* Where the monitor and the watch lead.
LEMMA Leads ==
  ASSUME NEW l
  PROVE  Back(l) \in Places /\ AfterMonitor(l) \in Places /\ Leave(l) \in Places
BY DEF Back, AfterMonitor, Leave, Places

LEMMA MonitorType ==
  ASSUME TypeOK, Monitor \/ MonitorNotDue \/ MonitorFails \/ Rebuild
  PROVE  TypeOK'
<1>1. CASE Monitor
  <2>1. child' \in [Jobs -> ChildRow]
    BY <1>1, TableTypes DEF Monitor, TypeOK
  <2>2. loop' \in Loop
    BY ZenonT(30), <1>1, AbsorbedType, ReadTypes DEF Monitor, TypeOK, Loop
  <2> QED
    BY <1>1, <2>1, <2>2, Leads DEF Monitor, TypeOK, ghosts
<1>2. CASE MonitorNotDue
  BY <1>2, Leads DEF MonitorNotDue, TypeOK, table, ghosts
<1>3. CASE MonitorFails
  <2>1. loop' \in Loop
    BY <1>3 DEF MonitorFails, RolledBack, TypeOK, Loop
  <2>2. faults' \in 0..MaxFaults
    BY <1>3, ChargeType DEF MonitorFails
  <2> QED
    BY <1>3, <2>1, <2>2, Leads DEF MonitorFails, TypeOK, table, ghosts
<1>4. CASE Rebuild
  <2>1. child' \in [Jobs -> ChildRow] /\ stir' \in BOOLEAN
    BY <1>4, RowTypes DEF Rebuild, TypeOK
  <2>2. loop' \in Loop
    BY <1>4 DEF Rebuild, TypeOK, Loop
  <2> QED
    BY <1>4, <2>1, <2>2, Leads DEF Rebuild, TypeOK, ghosts
<1> QED
  BY <1>1, <1>2, <1>3, <1>4

LEMMA WalkType ==
  ASSUME TypeOK, Walking,
         Walk \/ WalkEnds \/ Throttle \/ PassBy \/ PassByOddly \/ Dispatch \/ Drain
  PROVE  TypeOK'
<1>1. Walked \in Loop
  BY DEF Walked, TypeOK, Loop
<1>2. CASE Walk
  <2>1. loop' \in Loop
    BY <1>2 DEF Walk, TypeOK, Loop
  <2> QED
    BY <1>2, <2>1 DEF Walk, TypeOK, Places, table, ghosts
<1>3. CASE WalkEnds
  <2> DEFINE l == [loop EXCEPT !.call = "drain", !.known = {}, !.adopted = {}]
  <2>0. l \in Loop
    BY DEF TypeOK, Loop
  <2>1. loop' \in Loop
    BY <1>3, <2>0, OverTypes DEF WalkEnds
  <2> QED
    BY <1>3, <2>1 DEF WalkEnds, TypeOK, Places, table, ghosts
<1>4. CASE Throttle
  <2>1. loop' \in Loop
    BY <1>4 DEF Throttle, TypeOK, Loop
  <2> QED
    BY <1>4, <2>1 DEF Throttle, TypeOK, Places, table, ghosts
<1>5. CASE PassBy
  BY <1>1, <1>5 DEF PassBy, TypeOK, Places, table, ghosts
<1>6. CASE PassByOddly
  <2>1. loop' \in Loop
    BY <1>1, <1>6 DEF PassByOddly, Loop
  <2>2. faults' \in 0..MaxFaults
    BY <1>6, ChargeType DEF PassByOddly
  <2> QED
    BY <1>6, <2>1, <2>2 DEF PassByOddly, TypeOK, Places, table, ghosts
<1>7. CASE Dispatch
  <2>1. <<Album, tries>> \in AlbumJobs
    BY <1>7, AlbumIsOne DEF Dispatch
  <2>2. loop' \in Loop
    <3> DEFINE j == <<Album, tries>>
    <3>1. Walked.active \cup {j} \in SUBSET AlbumJobs /\ Walked.launched + 1 \in Nat
      BY <1>1, <2>1 DEF Loop
    <3>2. [Walked EXCEPT !.active = @ \cup {j}, !.launched = @ + 1] \in Loop
      BY <1>1, <3>1 DEF Loop
    <3> QED
      BY <1>7, <3>2 DEF Dispatch
  <2>3. child' \in [Jobs -> ChildRow]
    BY <1>7, RowTypes DEF Dispatch, TypeOK
  <2> QED
    BY <1>7, <2>2, <2>3 DEF Dispatch, TypeOK, Places, ghosts
<1>8. CASE Drain
  <2> DEFINE l == [loop EXCEPT !.shown = {}, !.held = {}, !.moved = FALSE]
  <2>0. l \in Loop /\ loop \in Loop
    BY DEF TypeOK, Loop
  <2>1. loop' \in Loop
    BY <1>8, <2>0 DEF Drain
  <2> QED
    BY <1>8, <2>1 DEF Drain, TypeOK, Places, table, ghosts
<1> QED
  BY <1>2, <1>3, <1>4, <1>5, <1>6, <1>7, <1>8

\* The victims of a give-up are jobs.
LEMMA VictimTypes ==
  ASSUME TypeOK
  PROVE  StalledVictims(loop.held, Pending) \in SUBSET Jobs
BY JobShapes DEF StalledVictims, Pending, TypeOK, Loop

LEMMA WatchType ==
  ASSUME TypeOK, Watch \/ GiveUp \/ EndVictim \/ GivenUp
  PROVE  TypeOK'
<1>1. CASE Watch
  <2>1. loop' \in Loop
    BY <1>1 DEF Watch, TypeOK, Loop
  <2> QED
    BY <1>1, <2>1, Leads DEF Watch, TypeOK, table, ghosts
<1>2. CASE GiveUp
  <2>1. loop' \in Loop
    BY <1>2, VictimTypes DEF GiveUp, TypeOK, Loop
  <2> QED
    BY <1>2, <2>1 DEF GiveUp, TypeOK, Places, table, ghosts
<1>3. CASE EndVictim
  <2>1. PICK j \in loop.victims :
          /\ loop' = [loop EXCEPT !.victims = @ \ {j}]
          /\ \/ /\ child' = EndChild(child, j, "failure")
                /\ fate' = [fate EXCEPT ![j] = IF child[j].st \in Live THEN "fell" ELSE @]
                /\ stir' = (stir \/ child[j].st \in Live)
                /\ UNCHANGED faults
             \/ Charge("unended") /\ UNCHANGED <<child, fate, stir>>
    BY <1>3 DEF EndVictim
  <2>2. j \in Jobs /\ loop' \in Loop
    BY <2>1 DEF TypeOK, Loop
  <2>3. child' \in [Jobs -> ChildRow]
    BY <2>1, <2>2, TableTypes DEF TypeOK
  <2>5. fate' \in [Jobs -> Fates] /\ stir' \in BOOLEAN
    BY <2>1, <2>2 DEF TypeOK, Fates
  <2>4. faults' \in 0..MaxFaults
    BY <2>1, ChargeType DEF TypeOK
  <2> QED
    BY <1>3, <2>2, <2>3, <2>4, <2>5 DEF EndVictim, TypeOK
<1>4. CASE GivenUp
  <2>1. OneMore(loop.gives) \in 0..MaxGiveUps
    BY DEF OneMore, TypeOK, Loop
  <2>2. loop' \in Loop
    BY ZenonT(30), <1>4, <2>1 DEF GivenUp, Left, Exhausted, TypeOK, Loop
  <2> QED
    BY <1>4, <2>2, Leads DEF GivenUp, TypeOK, table, ghosts
<1> QED
  BY <1>1, <1>2, <1>3, <1>4

LEMMA ClosingType ==
  ASSUME TypeOK, Closing \/ Crash
  PROVE  TypeOK'
<1>1. CASE Outcome
  <2>1. loop' \in Loop
    BY <1>1 DEF Outcome, TypeOK, Loop
  <2> QED
    BY <1>1, <2>1 DEF Outcome, TypeOK, Places, table, ghosts
<1>2. CASE Wipe
  BY <1>2, OverTypes DEF Wipe, TypeOK, Places, table, ghosts
<1>3. CASE SingleFails
  <2>1. Over /\ (Lose \/ LoseForGood)
    BY <1>3 DEF SingleFails, Lose, LoseForGood
  <2> QED
    BY <1>3, <2>1, LoseTypes DEF SingleFails, TypeOK, ghosts
<1>4. CASE NextPhase
  <2>1. loop.at + 1 \in Servers
    BY <1>4 DEF NextPhase, TypeOK, Loop, Servers
  <2>2. loop' \in Loop
    BY <1>4, <2>1, NewLoopType DEF NextPhase, TypeOK, Loop
  <2> QED
    BY <1>4, <2>2 DEF NextPhase, TypeOK, Places, table, ghosts
<1>5. CASE LastPhase
  BY <1>5 DEF LastPhase, TypeOK, Places, table, ghosts
<1>6. CASE UnionEnds
  <2>1. CASE pc' = "finish" /\ UNCHANGED <<parent, tries, loop, stir>>
    BY <1>6, <2>1 DEF UnionEnds, TypeOK, Places, ghosts
  <2>2. CASE Lose \/ LoseForGood
    <3>1. Over
      BY <2>2 DEF Lose, LoseForGood
    <3> QED
      BY <1>6, <2>2, <3>1, LoseTypes DEF UnionEnds, TypeOK, ghosts
  <2> QED
    BY <1>6, <2>1, <2>2 DEF UnionEnds
<1>7. CASE Finish
  <2>1. parent' \in {"live", "success", "failure", "revoked"}
    BY <1>7 DEF Finish, TypeOK
  <2> QED
    BY <1>7, <2>1, LoseTypes DEF Finish, TypeOK, ghosts
<1>8. CASE PhaseRaises
  BY <1>8, OverTypes, ChargeType DEF PhaseRaises, TypeOK, Places, table, ghosts
<1>9. CASE StandDown
  BY <1>9, LoseTypes DEF StandDown, TypeOK, table, ghosts
<1>10. CASE Crash
  <2>1. Over
    BY <1>10 DEF Crash, Lose
  <2> QED
    BY <1>10, <2>1, LoseTypes DEF Crash, TypeOK, ghosts
<1> QED
  BY <1>1, <1>2, <1>3, <1>4, <1>5, <1>6, <1>7, <1>8, <1>9, <1>10 DEF Closing

LEMMA JobType ==
  ASSUME TypeOK, NEW j \in Jobs, Job(j) \/ Orphan(j)
  PROVE  TypeOK'
<1>1. child[j] \in ChildRow /\ AlbumsIn({j}) \in SUBSET Albums
  BY AlbumsInType DEF TypeOK
<1>2. CASE Job(j)
  <2>1. CASE Beats(j)
    <3>1. child' \in [Jobs -> ChildRow]
      BY <1>1, <2>1, RowTypes DEF Beats, TypeOK
    <3> QED
      BY <1>2, <2>1, <3>1 DEF Job, Beats, TypeOK
  <2>2. CASE Breaks(j)
    <3>1. child' \in [Jobs -> ChildRow]
      BY <1>1, <2>2, RowTypes DEF Breaks, TypeOK
    <3>2. fate' \in [Jobs -> Fates]
      BY <1>1, <2>2 DEF Breaks, TypeOK, Fates
    <3> QED
      BY <1>2, <2>2, <3>1, <3>2 DEF Job, Breaks, TypeOK
  <2>3. CASE Succeeds(j)
    <3>1. child' \in [Jobs -> ChildRow]
      BY <1>1, <2>3, RowTypes DEF Succeeds, TypeOK
    <3>2. fate' \in [Jobs -> Fates]
      BY <1>1, <2>3 DEF Succeeds, TypeOK, Fates
    <3>3. faults' \in 0..MaxFaults
      BY <2>3, ChargeType DEF Succeeds, TypeOK
    <3> QED
      BY <1>2, <3>1, <3>2, <3>3 DEF Job, TypeOK
  <2>4. CASE child' = [child EXCEPT ![j] = Claimed(@)] /\ UNCHANGED <<fate, faults>>
    <3>1. child' \in [Jobs -> ChildRow]
      BY <1>1, <2>4, RowTypes DEF TypeOK
    <3> QED
      BY <1>2, <2>4, <3>1 DEF Job, TypeOK
  <2> QED
    BY <1>2, <2>1, <2>2, <2>3, <2>4 DEF Job
<1>3. CASE Orphan(j)
  BY <1>3, RowTypes DEF Orphan, TypeOK, ghosts
<1> QED
  BY <1>2, <1>3

LEMMA CancelType == ASSUME TypeOK, Cancel PROVE TypeOK'
<1>1. child' \in [Jobs -> ChildRow]
  BY RowTypes DEF Cancel
<1> QED
  BY <1>1, ChargeType DEF Cancel, TypeOK, ghosts

\* The walk keeps its albums until it ends or breaks off.
LEMMA WalkingKeeps ==
  ASSUME TypeOK, Walking, Draining, Next
  PROVE  Walking' /\ Draining'
<1> USE DEF Walking, Draining
<1>1. CASE Opening
  BY <1>1 DEF Opening, Start, Carry, CarryFails, List, ListFails, Clean, Open, OpenEmpty, Refused
<1>2. CASE Walk \/ WalkEnds \/ Throttle \/ PassBy \/ PassByOddly \/ Dispatch \/ Drain
  <2>1. CASE Walk
    BY <2>1 DEF Walk, TypeOK, Loop
  <2>2. CASE WalkEnds
    <3>1. [loop EXCEPT !.call = "drain", !.known = {}, !.adopted = {}].call = "drain"
      BY DEF TypeOK, Loop
    <3> QED
      BY <2>2, <3>1 DEF WalkEnds
  <2>3. CASE Throttle
    BY <2>3 DEF Throttle, TypeOK, Loop
  <2>4. CASE PassBy \/ PassByOddly \/ Dispatch
    BY <2>4 DEF PassBy, PassByOddly, Dispatch
  <2>5. CASE Drain
    BY <2>5 DEF Drain, TypeOK, Loop
  <2> QED
    BY <1>2, <2>1, <2>2, <2>3, <2>4, <2>5
<1>3. CASE Monitor
  <2>1. loop'.todo = loop.todo /\ loop'.call = loop.call
    BY <1>3 DEF Monitor, Absorbed, TypeOK, Loop
  <2> QED
    BY <1>3, <2>1 DEF Monitor, AfterMonitor, Back
<1>4. CASE MonitorNotDue \/ MonitorFails \/ Rebuild
  <2>1. loop'.todo = loop.todo /\ loop'.call = loop.call
    BY <1>4 DEF MonitorNotDue, MonitorFails, RolledBack, Rebuild, TypeOK, Loop
  <2>2. pc \in {"monitor", "rebuild"}
    BY <1>4 DEF MonitorNotDue, MonitorFails, Rebuild
  <2>3. \E l : (pc' = AfterMonitor(l) \/ pc' = Back(l)) /\ l.call = loop.call
    BY <1>4 DEF MonitorNotDue, MonitorFails, RolledBack, Rebuild, TypeOK, Loop
  <2> QED
    BY <2>1, <2>2, <2>3 DEF AfterMonitor, Back
<1>5. CASE Watch
  BY <1>5 DEF Watch, Leave, TypeOK, Loop
<1>6. CASE GiveUp
  BY <1>6 DEF GiveUp, TypeOK, Loop
<1>7. CASE EndVictim
  BY <1>7 DEF EndVictim, TypeOK, Loop
<1>8. CASE GivenUp
  BY <1>8 DEF GivenUp, Left, Leave, TypeOK, Loop
<1>9. CASE Closing
  BY <1>9 DEF Closing, Outcome, Wipe, SingleFails, NextPhase, LastPhase, UnionEnds,
    Finish, PhaseRaises, StandDown, Lose, LoseForGood, Over
<1>10. CASE \E j \in Jobs : Job(j) \/ Orphan(j)
  BY <1>10 DEF Job, Orphan
<1>11. CASE Cancel \/ Crash
  BY <1>11 DEF Cancel, Crash, Lose, Over
<1> QED
  BY <1>1, <1>2, <1>3, <1>4, <1>5, <1>6, <1>7, <1>8, <1>9, <1>10, <1>11 DEF Next, Attempt, Loops

LEMMA TypeKeeps ==
  ASSUME TypeOK, Walking, Next
  PROVE  TypeOK'
BY OpeningType, MonitorType, WalkType, WatchType, ClosingType, JobType, CancelType
   DEF Next, Attempt, Loops

LEMMA TypeBegins == ASSUME Init PROVE TypeOK /\ Walking /\ Draining
<1>1. loop \in Loop
  BY FirstServer, NewLoopType DEF Init
<1>2. child \in [Jobs -> ChildRow] /\ fate \in [Jobs -> Fates]
  BY RowTypes DEF Init, Fates
<1>3. tries \in 0..MaxRestarts /\ faults \in 0..MaxFaults
  BY DEF Init
<1> QED
  BY <1>1, <1>2, <1>3 DEF Init, TypeOK, Walking, Draining, Places

\* The variables keep their types.
THEOREM AnalysisTypeOK == Spec => []TypeOK
<1>1. Init => TypeOK /\ Walking /\ Draining
  BY TypeBegins
<1>2. TypeOK /\ Walking /\ Draining /\ [Next]_vars => (TypeOK /\ Walking /\ Draining)'
  <2>1. CASE Next
    BY <2>1, TypeKeeps, WalkingKeeps
  <2>2. CASE UNCHANGED vars
    BY <2>2 DEF vars, TypeOK, Walking, Draining
  <2> QED
    BY <2>1, <2>2
<1> QED
  BY <1>1, <1>2, PTL DEF Spec
-------------------------------------------------------------------------------
(* The kinds of steps *)

\* Where a phase goes round, and where it has its list of albums.
LoopPlaces == {"walk", "monitor", "rebuild", "album", "watch", "giveup", "drain"}
Begun == LoopPlaces \cup {"outcome", "wipe"}

BooksSame ==
  /\ loop'.at = loop.at /\ loop'.songs = loop.songs /\ loop'.failed = loop.failed
  /\ loop'.completed = loop.completed /\ loop'.unchecked = loop.unchecked
  /\ loop'.bare = loop.bare /\ loop'.active = loop.active
  /\ loop'.adopted = loop.adopted /\ loop'.known = loop.known
  /\ loop'.todo = loop.todo /\ loop'.stop = loop.stop
  /\ loop'.carried = loop.carried /\ loop'.read = loop.read

\* The phase goes on, and nothing it counts by changes.
Idles ==
  /\ BooksSame
  /\ UNCHANGED <<table, fate, blind>>
  /\ \/ pc \in LoopPlaces /\ pc' \in LoopPlaces
     \/ pc = "phase" /\ pc' = "list"
     \/ pc = "clean" /\ pc' = "open"
     \/ pc = "drain" /\ pc' = "outcome" /\ loop.active = {}
     \/ pc = "outcome" /\ pc' = "wipe"

\* What may become of the row of an album's job, but for a reap or a launch.
RowMoves(j) ==
  \/ child'[j] = child[j] /\ fate'[j] = fate[j]
  \/ child[j].st \in Live /\ child'[j].st \in Live /\ fate'[j] = fate[j]
  \/ child[j].st \in Live /\ child'[j].st = "success" /\ fate'[j] \notin {"none", "fell"}
  \/ child[j].st \in Live /\ child'[j].st = "failure" /\ fate'[j] = "fell"
  \/ child'[j].st = "none" /\ fate'[j] = fate[j]

\* The rows of the jobs move.
Moves ==
  /\ BooksSame
  /\ UNCHANGED <<scope, tries, blind>>
  /\ parent' = "live" => parent = "live"
  /\ pc' = pc \/ (pc \in LoopPlaces /\ pc' \in LoopPlaces)
  /\ \A j \in AlbumJobs : RowMoves(j)

\* A phase is over.
Departs ==
  /\ pc \notin {"off"} /\ pc' \in {"next", "union", "finish"}
  /\ loop'.at = loop.at
  /\ UNCHANGED <<table, fate, blind>>

\* An attempt is over: the next one is charged, or there is none.
Quits ==
  /\ pc' = "off"
  /\ loop' = NewLoop(1, {}, {})
  /\ parent' # "live" \/ (tries' = tries + 1)
  /\ tries' = tries \/ tries' = tries + 1
  /\ UNCHANGED <<scope, child, fate, blind>>

LEMMA QuitClass ==
  ASSUME TypeOK, Over, UNCHANGED <<scope, child, ghosts>>,
         Lose \/ LoseForGood \/ (UNCHANGED tries /\ parent' # "live")
  PROVE  Quits
<1>1. pc' = "off" /\ loop' = NewLoop(1, {}, {})
  BY DEF Over
<1>2. parent' # "live" \/ tries' = tries + 1
  BY DEF Lose, LoseForGood, TypeOK
<1>3. tries' = tries \/ tries' = tries + 1
  BY DEF Lose, LoseForGood
<1> QED
  BY <1>1, <1>2, <1>3 DEF Quits, ghosts

LEMMA ClosingClass ==
  ASSUME TypeOK, Closing \/ Crash
  PROVE  Idles \/ Departs \/ Quits \/ NextPhase
<1>1. CASE Outcome
  <2>1. BooksSame
    BY <1>1 DEF Outcome, BooksSame, TypeOK, Loop
  <2> QED
    BY <1>1, <2>1 DEF Outcome, Idles, ghosts
<1>2. CASE Wipe
  BY <1>2 DEF Wipe, Passed, NewLoop, Departs, ghosts
<1>3. CASE SingleFails
  <2>1. Over /\ (Lose \/ LoseForGood) /\ UNCHANGED <<scope, child, ghosts>>
    BY <1>3 DEF SingleFails, Lose, LoseForGood
  <2> QED
    BY <2>1, QuitClass
<1>4. CASE NextPhase
  BY <1>4
<1>5. CASE LastPhase
  BY <1>5 DEF LastPhase, Departs, ghosts
<1>6. CASE UnionEnds
  <2>1. CASE Lose \/ LoseForGood
    <3>1. Over /\ UNCHANGED <<scope, child, ghosts>>
      BY <1>6, <2>1 DEF UnionEnds, Lose, LoseForGood
    <3> QED
      BY <2>1, <3>1, QuitClass
  <2>2. CASE pc' = "finish" /\ UNCHANGED <<parent, tries, loop, stir>>
    BY <1>6, <2>2 DEF UnionEnds, Departs, table, ghosts
  <2> QED
    BY <1>6, <2>1, <2>2 DEF UnionEnds
<1>7. CASE Finish
  <2>1. Over /\ UNCHANGED <<scope, child, ghosts>> /\ UNCHANGED tries /\ parent' # "live"
    BY <1>7 DEF Finish
  <2> QED
    BY <2>1, QuitClass
<1>8. CASE PhaseRaises
  BY <1>8 DEF PhaseRaises, Phase, Failed, NewLoop, Departs, ghosts
<1>9. CASE StandDown
  <2>1. Over /\ UNCHANGED <<scope, child, ghosts>> /\ UNCHANGED tries /\ parent' # "live"
    BY <1>9 DEF StandDown, table
  <2> QED
    BY <2>1, QuitClass
<1>10. CASE Crash
  <2>1. Over /\ Lose /\ UNCHANGED <<scope, child, ghosts>>
    BY <1>10 DEF Crash, Lose
  <2> QED
    BY <2>1, QuitClass
<1> QED
  BY <1>1, <1>2, <1>3, <1>4, <1>5, <1>6, <1>7, <1>8, <1>9, <1>10 DEF Closing

LEMMA OpeningClass ==
  ASSUME TypeOK, Opening
  PROVE  Start \/ Carry \/ List \/ ListFails \/ Open \/ Idles \/ Departs
<1>1. CASE CarryFails
  BY <1>1 DEF CarryFails, Idles, BooksSame, ghosts
<1>2. CASE Clean
  BY <1>2 DEF Clean, Idles, BooksSame, ghosts
<1>3. CASE OpenEmpty
  BY <1>3 DEF OpenEmpty, Passed, NewLoop, Departs, ghosts
<1>4. CASE Refused
  <2>1. loop'.at = loop.at
    BY <1>4 DEF Refused, Failed, NewLoop
  <2> QED
    BY <1>4, <2>1 DEF Refused, Departs, ghosts
<1> QED
  BY <1>1, <1>2, <1>3, <1>4 DEF Opening

LEMMA WatchClass ==
  ASSUME TypeOK, Watch \/ GiveUp \/ MonitorNotDue \/ MonitorFails \/ Walk \/ Throttle \/ Drain
  PROVE  Idles
<1>1. BooksSame
  <2> USE DEF BooksSame, TypeOK, Loop
  <2>1. CASE Watch
    BY <2>1 DEF Watch
  <2>2. CASE GiveUp
    BY <2>2 DEF GiveUp
  <2>3. CASE MonitorNotDue
    BY <2>3 DEF MonitorNotDue
  <2>4. CASE MonitorFails
    BY <2>4 DEF MonitorFails, RolledBack
  <2>5. CASE Walk
    BY <2>5 DEF Walk
  <2>6. CASE Throttle
    BY <2>6 DEF Throttle
  <2>7. CASE Drain
    <3>1. CASE loop.active = {}
      <4>1. loop' = [loop EXCEPT !.shown = {}, !.held = {}, !.moved = FALSE]
        BY <2>7, <3>1 DEF Drain
      <4> QED
        BY <4>1
    <3>2. CASE loop.active # {}
      <4>1. loop' = loop
        BY <2>7, <3>2 DEF Drain
      <4> QED
        BY <4>1
    <3> QED
      BY <3>1, <3>2
  <2> HIDE DEF BooksSame, TypeOK, Loop
  <2> QED
    BY <2>1, <2>2, <2>3, <2>4, <2>5, <2>6, <2>7
<1>2. UNCHANGED <<table, fate, blind>>
  BY DEF Watch, GiveUp, MonitorNotDue, MonitorFails, Walk, Throttle, Drain, ghosts
<1>3. \A l : Back(l) \in LoopPlaces /\ AfterMonitor(l) \in LoopPlaces /\ Leave(l) \in LoopPlaces
  BY DEF Back, AfterMonitor, Leave, LoopPlaces
<1>4. \/ pc \in LoopPlaces /\ pc' \in LoopPlaces
      \/ pc = "drain" /\ pc' = "outcome" /\ loop.active = {}
  BY <1>3 DEF Watch, GiveUp, MonitorNotDue, MonitorFails, Walk, Throttle, Drain, LoopPlaces
<1> QED
  BY <1>1, <1>2, <1>4 DEF Idles

LEMMA MoveClass ==
  ASSUME TypeOK, Rebuild \/ EndVictim \/ Cancel \/ (\E j \in Jobs : Job(j) \/ Orphan(j))
  PROVE  Moves
<1>1. CASE Rebuild
  <2>1. \A j \in AlbumJobs : child'[j] = child[j] /\ fate'[j] = fate[j]
    BY <1>1, JobShapes DEF Rebuild, TypeOK, ghosts
  <2>2. BooksSame
    BY <1>1 DEF Rebuild, BooksSame, TypeOK, Loop
  <2>3. pc \in LoopPlaces /\ pc' \in LoopPlaces
    BY <1>1 DEF Rebuild, Back, LoopPlaces
  <2> QED
    BY <1>1, <2>1, <2>2, <2>3 DEF Rebuild, Moves, RowMoves, ghosts
<1>2. CASE EndVictim
  <2>1. PICK j \in loop.victims :
          /\ loop' = [loop EXCEPT !.victims = @ \ {j}]
          /\ \/ /\ child' = EndChild(child, j, "failure")
                /\ fate' = [fate EXCEPT ![j] = IF child[j].st \in Live THEN "fell" ELSE @]
             \/ UNCHANGED <<child, fate>>
    BY <1>2 DEF EndVictim
  <2>2. j \in Jobs /\ child \in [Jobs -> ChildRow] /\ fate \in [Jobs -> Fates]
    BY <2>1 DEF TypeOK, Loop
  <2>3. BooksSame
    BY <2>1 DEF BooksSame, TypeOK, Loop
  <2>4. ASSUME NEW k \in AlbumJobs PROVE RowMoves(k)
    <3>1. k \in Jobs
      BY JobShapes
    <3>2. CASE UNCHANGED <<child, fate>>
      BY <3>2 DEF RowMoves
    <3>3. CASE /\ child' = EndChild(child, j, "failure")
               /\ fate' = [fate EXCEPT ![j] = IF child[j].st \in Live THEN "fell" ELSE @]
      <4>1. CASE k # j
        BY <2>2, <3>1, <3>3, <4>1 DEF EndChild, RowMoves
      <4>2. CASE k = j /\ child[j].st \in Live
        <5>1. child'[j].st = "failure"
          BY <2>2, <3>3, <4>2 DEF EndChild, Row
        <5> QED
          BY <2>2, <3>3, <4>2, <5>1 DEF RowMoves
      <4>3. CASE k = j /\ child[j].st \notin Live
        BY <2>2, <3>3, <4>3 DEF EndChild, RowMoves
      <4> QED
        BY <4>1, <4>2, <4>3
    <3> QED
      BY <2>1, <3>2, <3>3
  <2> QED
    BY <1>2, <2>3, <2>4 DEF EndVictim, Moves
<1>3. CASE Cancel
  <2>1. \A j \in AlbumJobs : child'[j].st = "none" /\ fate'[j] = fate[j]
    BY <1>3, JobShapes DEF Cancel, NoRow, Row, ghosts
  <2> QED
    BY <1>3, <2>1 DEF Cancel, Moves, RowMoves, BooksSame, ghosts
<1>4. CASE \E j \in Jobs : Orphan(j)
  <2>1. PICK j \in Jobs : Orphan(j)
    BY <1>4
  <2>2. \A k \in AlbumJobs : RowMoves(k)
    BY <2>1, JobShapes DEF Orphan, NoRow, Row, RowMoves, TypeOK, ghosts
  <2> QED
    BY <2>1, <2>2 DEF Orphan, Moves, BooksSame, ghosts
<1>5. CASE \E j \in Jobs : Job(j)
  <2>1. PICK j \in Jobs : Job(j)
    BY <1>5
  <2>2. child[j] \in ChildRow /\ child \in [Jobs -> ChildRow] /\ fate \in [Jobs -> Fates]
    BY DEF TypeOK
  <2>3. \A k \in AlbumJobs : k # j => child'[k] = child[k] /\ fate'[k] = fate[k]
    BY <2>1, <2>2, JobShapes DEF Job, Beats, Breaks, Succeeds
  <2>4. RowMoves(j)
    <3>1. CASE child[j].st = "queued" /\ child' = [child EXCEPT ![j] = Claimed(@)]
               /\ UNCHANGED fate
      BY <2>2, <3>1 DEF Claimed, Row, Live, RowMoves
    <3>2. CASE child[j].st = "running" /\ Beats(j)
      BY <2>2, <3>2 DEF Beats, Beaten, Live, RowMoves, ChildRow
    <3>3. CASE child[j].st = "running" /\ Breaks(j)
      <4>1. child'[j] = Charged(child[j])
        BY <2>2, <3>3 DEF Breaks
      <4>2. child'[j].st \in {"queued", "failure"}
        BY <4>1 DEF Charged, Row
      <4>3. fate'[j] = IF child'[j].st = "failure" THEN "fell" ELSE fate[j]
        BY <2>2, <3>3 DEF Breaks
      <4> QED
        BY <3>3, <4>2, <4>3 DEF Live, RowMoves
    <3>4. CASE child[j].st = "running" /\ Succeeds(j)
      BY <2>2, <3>4 DEF Succeeds, Succeeded, Row, Live, RowMoves
    <3> QED
      BY <2>1, <3>1, <3>2, <3>3, <3>4 DEF Job
  <2> QED
    BY <2>1, <2>3, <2>4 DEF Job, Moves, RowMoves, BooksSame
<1> QED
  BY <1>1, <1>2, <1>3, <1>4, <1>5

\* Every step is of a kind, or changes the books of a phase.
LEMMA Classes ==
  ASSUME TypeOK, Next
  PROVE  \/ Idles \/ Moves \/ Departs \/ Quits
         \/ Start \/ Carry \/ List \/ ListFails \/ Open \/ NextPhase
         \/ Monitor \/ WalkEnds \/ PassBy \/ PassByOddly \/ Dispatch \/ GivenUp
<1>1. CASE Opening
  BY <1>1, OpeningClass
<1>2. CASE Closing \/ Crash
  BY <1>2, ClosingClass
<1>3. CASE Watch \/ GiveUp \/ MonitorNotDue \/ MonitorFails \/ Walk \/ Throttle \/ Drain
  BY <1>3, WatchClass
<1>4. CASE Rebuild \/ EndVictim \/ Cancel \/ (\E j \in Jobs : Job(j) \/ Orphan(j))
  BY <1>4, MoveClass
<1> QED
  BY <1>1, <1>2, <1>3, <1>4 DEF Next, Attempt, Loops
\* What an album that is passed by oddly adds to the counters.
LEMMA OddFields ==
  ASSUME TypeOK, PassByOddly
  PROVE  /\ loop'.at = loop.at /\ loop'.todo = loop.todo \ {Album}
         /\ loop'.adopted = loop.adopted /\ loop'.known = loop.known
         /\ loop'.stop = loop.stop /\ loop'.songs = loop.songs
         /\ loop'.completed = loop.completed /\ loop'.failed = loop.failed
         /\ loop'.carried = loop.carried /\ loop'.read = loop.read
         /\ loop'.active = loop.active
         /\ loop'.bare + loop'.unchecked = loop.bare + loop.unchecked + 1
<1>1. loop \in Loop /\ Walked \in Loop
  BY DEF TypeOK, Loop, Walked
<1>2. \/ loop' = [Walked EXCEPT !.bare = @ + 1]
      \/ loop' = [Walked EXCEPT !.unchecked = @ + 1]
  BY DEF PassByOddly
<1>3. /\ loop'.at = Walked.at /\ loop'.todo = Walked.todo
      /\ loop'.adopted = Walked.adopted /\ loop'.known = Walked.known
      /\ loop'.stop = Walked.stop /\ loop'.songs = Walked.songs
      /\ loop'.completed = Walked.completed /\ loop'.failed = Walked.failed
      /\ loop'.carried = Walked.carried /\ loop'.read = Walked.read
      /\ loop'.active = Walked.active
  BY <1>1, <1>2 DEF Loop
<1>4. loop'.bare + loop'.unchecked = Walked.bare + Walked.unchecked + 1
  BY <1>1, <1>2 DEF Loop
<1>5. /\ Walked.at = loop.at /\ Walked.todo = loop.todo \ {Album}
      /\ Walked.adopted = loop.adopted /\ Walked.known = loop.known
      /\ Walked.stop = loop.stop /\ Walked.songs = loop.songs
      /\ Walked.completed = loop.completed /\ Walked.failed = loop.failed
      /\ Walked.carried = loop.carried /\ Walked.read = loop.read
      /\ Walked.active = loop.active /\ Walked.bare = loop.bare
      /\ Walked.unchecked = loop.unchecked
  BY <1>1 DEF Walked, Loop
<1> QED
  BY <1>3, <1>4, <1>5

\* What the steps of a phase that change its books do to its lists.
LEMMA WalkFields ==
  ASSUME TypeOK, PassBy \/ PassByOddly \/ Dispatch
  PROVE  /\ loop'.at = loop.at /\ loop'.todo = loop.todo \ {Album}
         /\ loop'.adopted = loop.adopted /\ loop'.known = loop.known
         /\ loop'.stop = loop.stop /\ loop'.songs = loop.songs
         /\ loop'.completed = loop.completed /\ loop'.failed = loop.failed
         /\ loop'.carried = loop.carried /\ loop'.read = loop.read
         /\ \/ /\ Dispatch
               /\ child' = [child EXCEPT ![<<Album, tries>>] = Queued]
               /\ loop'.active = loop.active \cup {<<Album, tries>>}
               /\ loop'.bare = loop.bare /\ loop'.unchecked = loop.unchecked
            \/ /\ PassBy /\ child' = child
               /\ loop'.active = loop.active
               /\ loop'.bare = loop.bare /\ loop'.unchecked = loop.unchecked
            \/ /\ PassByOddly /\ child' = child
               /\ loop'.active = loop.active
               /\ loop'.bare + loop'.unchecked = loop.bare + loop.unchecked + 1
         /\ pc = "album" /\ pc' = "walk"
         /\ UNCHANGED <<scope, parent, tries, fate, blind>>
<1>1. CASE PassBy
  BY <1>1 DEF PassBy, Walked, table, ghosts, TypeOK, Loop
<1>2. CASE PassByOddly
  BY <1>2, OddFields DEF PassByOddly, table, ghosts
<1>3. CASE Dispatch
  BY <1>3 DEF Dispatch, Walked, ghosts, TypeOK, Loop
<1> QED
  BY <1>1, <1>2, <1>3

LEMMA MonitorFields ==
  ASSUME TypeOK, Monitor
  PROVE  /\ loop'.at = loop.at /\ loop'.todo = loop.todo
         /\ loop'.adopted = loop.adopted /\ loop'.known = loop.known
         /\ loop'.stop = loop.stop /\ loop'.bare = loop.bare
         /\ loop'.unchecked = loop.unchecked /\ loop'.carried = loop.carried
         /\ loop'.active = loop.active \ Ends
         /\ loop'.read = loop.read \cup OfAlbums(Ends)
         /\ loop'.completed = loop.completed + Cardinality(OfAlbums(Ends))
         /\ loop'.songs = loop.songs + Cardinality(Sung(OfAlbums(Ends)))
         /\ loop'.failed = loop.failed + Cardinality(Fell(OfAlbums(Ends)))
         /\ pc = "monitor" /\ pc' \in LoopPlaces
         /\ UNCHANGED <<scope, parent, tries, fate, blind>>
<1>1. loop \in Loop
  BY DEF TypeOK
<1>2. Absorbed(Ends) \in Loop
  BY AbsorbedType
<1>3. pc = "monitor" /\ pc' \in LoopPlaces /\ UNCHANGED <<scope, parent, tries, fate, blind>>
  BY DEF Monitor, AfterMonitor, Back, LoopPlaces, ghosts
<1> QED
  BY <1>1, <1>2, <1>3 DEF Monitor, Absorbed, Loop

LEMMA GivenUpFields ==
  ASSUME TypeOK, GivenUp
  PROVE  /\ loop'.at = loop.at /\ loop'.adopted = loop.adopted
         /\ loop'.known = loop.known /\ loop'.songs = loop.songs
         /\ loop'.completed = loop.completed /\ loop'.failed = loop.failed
         /\ loop'.carried = loop.carried /\ loop'.read = loop.read
         /\ loop'.active = loop.active /\ loop'.bare = loop.bare
         /\ loop'.unchecked = loop.unchecked
         /\ loop'.todo = (IF loop'.stop THEN {} ELSE loop.todo)
         /\ ~loop'.stop => ~loop.stop
         /\ pc = "giveup" /\ pc' \in LoopPlaces
         /\ UNCHANGED <<table, fate, blind>>
<1> DEFINE gives == OneMore(loop.gives)
           l == [loop EXCEPT !.gives = gives, !.stop = @ \/ Exhausted(gives)]
<1>1. loop \in Loop /\ loop' = Left(l)
  BY DEF TypeOK, GivenUp
<1>2. gives \in 0..MaxGiveUps
  BY <1>1 DEF OneMore, Loop
<1>3. /\ l.at = loop.at /\ l.adopted = loop.adopted /\ l.known = loop.known
      /\ l.songs = loop.songs /\ l.completed = loop.completed /\ l.failed = loop.failed
      /\ l.carried = loop.carried /\ l.read = loop.read /\ l.active = loop.active
      /\ l.bare = loop.bare /\ l.unchecked = loop.unchecked /\ l.todo = loop.todo
      /\ l.stop = (loop.stop \/ Exhausted(gives))
      /\ [l EXCEPT !.todo = {}].stop = l.stop
  BY <1>1 DEF Loop
<1>4. pc = "giveup" /\ pc' \in LoopPlaces /\ UNCHANGED <<table, fate, blind>>
  BY DEF GivenUp, Leave, LoopPlaces, ghosts
<1>5. CASE l.stop
  <2>1. loop' = [l EXCEPT !.todo = {}]
    BY <1>1, <1>5 DEF Left
  <2>2. l \in Loop
    BY <1>1, <1>2 DEF Loop
  <2> HIDE DEF l
  <2>3. /\ loop'.at = l.at /\ loop'.adopted = l.adopted /\ loop'.known = l.known
        /\ loop'.songs = l.songs /\ loop'.completed = l.completed
        /\ loop'.failed = l.failed /\ loop'.carried = l.carried /\ loop'.read = l.read
        /\ loop'.active = l.active /\ loop'.bare = l.bare
        /\ loop'.unchecked = l.unchecked /\ loop'.stop = l.stop /\ loop'.todo = {}
    BY <2>1, <2>2 DEF Loop
  <2> QED
    BY <1>3, <1>4, <1>5, <2>3
<1>6. CASE ~l.stop
  <2>1. loop' = l
    BY <1>1, <1>6 DEF Left
  <2> HIDE DEF l
  <2> QED
    BY <1>3, <1>4, <1>6, <2>1
<1> QED
  BY <1>5, <1>6

LEMMA WalkEndsFields ==
  ASSUME TypeOK, WalkEnds
  PROVE  /\ UNCHANGED <<table, fate, blind>> /\ pc = "walk" /\ loop.todo = {}
         /\ loop'.at = loop.at
         /\ \/ pc' = "next"
            \/ /\ pc' = "drain"
               /\ loop'.call = "drain" /\ loop'.todo = {}
               /\ loop'.adopted = {} /\ loop'.known = {}
               /\ loop'.stop = loop.stop /\ loop'.active = loop.active
               /\ loop'.bare = loop.bare /\ loop'.unchecked = loop.unchecked
               /\ loop'.songs = loop.songs /\ loop'.completed = loop.completed
               /\ loop'.failed = loop.failed /\ loop'.carried = loop.carried
               /\ loop'.read = loop.read
<1>1. CASE Unreadable
  BY <1>1 DEF WalkEnds, Failed, NewLoop, table, ghosts
<1>2. CASE ~Unreadable
  <2>1. /\ UNCHANGED <<table, fate, blind>> /\ pc = "walk" /\ loop.todo = {}
        /\ pc' = "drain"
        /\ loop' = [loop EXCEPT !.call = "drain", !.known = {}, !.adopted = {}]
    BY <1>2 DEF WalkEnds, ghosts
  <2> QED
    BY <2>1 DEF TypeOK, Loop
<1> QED
  BY <1>1, <1>2

-------------------------------------------------------------------------------
(* One job per album *)

\* A phase that has not begun has nothing, and then what it adopts.
Blank ==
  /\ pc = "off" => loop.at = 1
  /\ pc \in {"off", "phase"} => loop.carried = {} /\ loop.songs = 0
  /\ pc \in {"off", "phase", "list"} => loop.active = {} /\ loop.adopted = {}
  /\ pc \in {"clean", "open"} => loop.adopted = AlbumsIn(loop.active)
  /\ pc \in {"off", "phase", "list", "clean", "open"} =>
       /\ loop.todo = {} /\ loop.read = {} /\ loop.completed = 0 /\ loop.failed = 0
       /\ loop.bare = 0 /\ loop.unchecked = 0 /\ ~loop.stop

\* What is live is waited for.
Tracked ==
  ~blind /\ pc \in Begun \cup {"clean", "open"} =>
    LiveAmong(child, AlbumJobs) \subseteq loop.active

\* Nothing is waited for when the directory is wiped.
Emptied == pc \in {"clean", "outcome", "wipe"} => loop.active = {}

\* An album that is waited for is not walked, unless it is passed by.
Apart ==
  pc \in Begun => \A j \in loop.active : j[1] \in loop.adopted \/ j[1] \notin loop.todo

Orderly == Blank /\ Emptied /\ Apart
Single == Tracked /\ OneJobPerAlbum

\* Steps that leave the books change no more than where the phase is.
LEMMA OrderlyIdles ==
  ASSUME Orderly, TypeOK, Idles
  PROVE  Orderly'
<1> USE DEF Orderly, Idles, BooksSame, Begun, LoopPlaces
<1>1. Blank'
  BY DEF Blank
<1>2. Emptied'
  BY DEF Emptied
<1>3. Apart'
  BY DEF Apart
<1> QED
  BY <1>1, <1>2, <1>3

\* The rows are not the phase's.
LEMMA OrderlyMoves ==
  ASSUME Orderly, Moves
  PROVE  Orderly'
<1> USE DEF Orderly, Moves, BooksSame, Begun, LoopPlaces
<1>1. Blank'
  BY DEF Blank
<1>2. Emptied'
  BY DEF Emptied
<1>3. Apart'
  BY DEF Apart
<1> QED
  BY <1>1, <1>2, <1>3
\* The end of a phase or of an attempt, and the beginning of one.
LEMMA OrderlyEnds ==
  ASSUME Orderly, Departs \/ Quits \/ Start \/ NextPhase
  PROVE  Orderly'
<1> USE DEF Orderly, Blank, Emptied, Apart, Begun, LoopPlaces
<1>1. CASE Departs
  BY <1>1 DEF Departs
<1>2. CASE Quits
  <2> HIDE DEF Orderly, Blank, Emptied, Apart
  <2>1. /\ pc' = "off" /\ loop'.at = 1 /\ loop'.carried = {} /\ loop'.songs = 0
        /\ loop'.active = {} /\ loop'.adopted = {} /\ loop'.todo = {}
        /\ loop'.read = {} /\ loop'.completed = 0 /\ loop'.failed = 0
        /\ loop'.bare = 0 /\ loop'.unchecked = 0 /\ loop'.stop = FALSE
    BY <1>2 DEF Quits, NewLoop
  <2> QED
    BY <2>1 DEF Orderly, Blank, Emptied, Apart
<1>3. CASE Start
  BY <1>3 DEF Start
<1>4. CASE NextPhase
  <2> HIDE DEF Orderly, Blank, Emptied, Apart
  <2>1. /\ pc' = "phase" /\ loop'.carried = {} /\ loop'.songs = 0
        /\ loop'.active = {} /\ loop'.adopted = {} /\ loop'.todo = {}
        /\ loop'.read = {} /\ loop'.completed = 0 /\ loop'.failed = 0
        /\ loop'.bare = 0 /\ loop'.unchecked = 0 /\ loop'.stop = FALSE
    BY <1>4 DEF NextPhase, NewLoop
  <2> QED
    BY <2>1 DEF Orderly, Blank, Emptied, Apart
<1> QED
  BY <1>1, <1>2, <1>3, <1>4

\* The opening fills in what was blank.
LEMMA OrderlyOpening ==
  ASSUME Orderly, TypeOK, Carry \/ List \/ ListFails \/ Open
  PROVE  Orderly'
<1> USE DEF Orderly, Begun, LoopPlaces
<1>1. CASE Carry
  <2>1. /\ loop'.active = loop.active /\ loop'.adopted = loop.adopted
        /\ loop'.todo = loop.todo /\ loop'.read = loop.read
        /\ loop'.completed = loop.completed /\ loop'.failed = loop.failed
        /\ loop'.bare = loop.bare /\ loop'.unchecked = loop.unchecked
        /\ loop'.stop = loop.stop
    BY <1>1 DEF Carry, TypeOK, Loop
  <2> QED
    BY <1>1, <2>1 DEF Carry, Blank, Emptied, Apart
<1>2. CASE List
  <2> DEFINE jobs == OfAlbums(LiveAmong(child, Jobs))
  <2>1. /\ loop'.active = jobs /\ loop'.adopted = AlbumsIn(jobs)
        /\ loop'.todo = loop.todo /\ loop'.read = loop.read
        /\ loop'.completed = loop.completed /\ loop'.failed = loop.failed
        /\ loop'.bare = loop.bare /\ loop'.unchecked = loop.unchecked
        /\ loop'.stop = loop.stop
    BY <1>2 DEF List, Adopting, TypeOK, Loop
  <2>2. pc' = "clean" => jobs = {}
    BY <1>2 DEF List, MayClean, OfAlbums
  <2>3. pc' \in {"clean", "open"}
    BY <1>2 DEF List
  <2> QED
    BY <1>2, <2>1, <2>2, <2>3 DEF List, Blank, Emptied, Apart
<1>3. CASE ListFails
  BY <1>3 DEF ListFails, Blank, Emptied, Apart, AlbumsIn
<1>4. CASE Open
  <2>1. loop'.active = loop.active /\ loop'.adopted = loop.adopted
    BY <1>4 DEF Open, TypeOK, Loop
  <2>2. \A j \in loop.active : j[1] \in loop.adopted
    <3>1. loop.active \in SUBSET AlbumJobs /\ loop.adopted = AlbumsIn(loop.active)
      BY <1>4 DEF Open, Blank, TypeOK, Loop
    <3> QED
      BY <3>1, JobShapes DEF AlbumsIn
  <2> QED
    BY <1>4, <2>1, <2>2 DEF Open, Blank, Emptied, Apart
<1> QED
  BY <1>1, <1>2, <1>3, <1>4

\* The walk takes an album from the list before its job is waited for.
LEMMA OrderlyWalks ==
  ASSUME Orderly, TypeOK, Walking, PassBy \/ PassByOddly \/ Dispatch \/ WalkEnds
  PROVE  Orderly'
<1> USE DEF Orderly, Begun, LoopPlaces
<1>1. Walked.active = loop.active /\ Walked.adopted = loop.adopted
      /\ Walked.todo = loop.todo \ {Album}
  BY DEF Walked, TypeOK, Loop
<1>2. CASE PassBy
  BY <1>1, <1>2 DEF PassBy, Blank, Emptied, Apart
<1>3. CASE PassByOddly
  <2>1. loop'.active = Walked.active /\ loop'.adopted = Walked.adopted
        /\ loop'.todo = Walked.todo
    BY <1>3 DEF PassByOddly, Walked, TypeOK, Loop
  <2> QED
    BY <1>1, <1>3, <2>1 DEF PassByOddly, Blank, Emptied, Apart
<1>4. CASE Dispatch
  <2> DEFINE j == <<Album, tries>>
  <2>1. loop'.active = loop.active \cup {j} /\ loop'.adopted = loop.adopted
        /\ loop'.todo = loop.todo \ {Album}
    BY <1>1, <1>4 DEF Dispatch, Walked, TypeOK, Loop
  <2>2. j[1] \notin loop'.todo
    BY <2>1
  <2> QED
    BY <1>4, <2>1, <2>2 DEF Dispatch, Blank, Emptied, Apart
<1>5. CASE WalkEnds
  <2>1. CASE Unreadable
    BY <1>5, <2>1 DEF WalkEnds, Blank, Emptied, Apart
  <2>2. CASE ~Unreadable
    <3>1. loop'.todo = {}
      BY <1>5, <2>2 DEF WalkEnds, TypeOK, Loop
    <3> QED
      BY <1>5, <2>2, <3>1 DEF WalkEnds, Blank, Emptied, Apart
  <2> QED
    BY <2>1, <2>2
<1> QED
  BY <1>2, <1>3, <1>4, <1>5

\* A reap and a give-up only shorten the lists.
LEMMA OrderlyReaps ==
  ASSUME Orderly, TypeOK, Monitor \/ GivenUp
  PROVE  Orderly'
<1> USE DEF Orderly, Begun, LoopPlaces
<1>1. loop'.active \subseteq loop.active /\ loop'.adopted = loop.adopted
      /\ loop'.todo \subseteq loop.todo
  <2>1. CASE Monitor
    BY <2>1 DEF Monitor, Absorbed, TypeOK, Loop
  <2>2. CASE GivenUp
    BY <2>2 DEF GivenUp, Left, TypeOK, Loop
  <2> QED
    BY <2>1, <2>2
<1>2. pc \in LoopPlaces /\ pc' \in LoopPlaces
  BY DEF Monitor, GivenUp, AfterMonitor, Back, Leave
<1> QED
  BY <1>1, <1>2 DEF Blank, Emptied, Apart

LEMMA OrderlyKeeps ==
  ASSUME Orderly, TypeOK, Walking, Next
  PROVE  Orderly'
BY Classes, OrderlyIdles, OrderlyMoves, OrderlyEnds, OrderlyOpening, OrderlyWalks,
   OrderlyReaps

\* No row becomes live, and what is live stays waited for.
LEMMA SingleShrinks ==
  ASSUME Single, blind' = blind,
         LiveAmong(child', AlbumJobs) \subseteq LiveAmong(child, AlbumJobs),
         ~blind /\ pc' \in Begun \cup {"clean", "open"} =>
           /\ pc \in Begun \cup {"clean", "open"}
           /\ loop.active \cap LiveAmong(child', AlbumJobs) \subseteq loop'.active
  PROVE  Single'
BY DEF Single, Tracked, OneJobPerAlbum

\* The rows of a parent that looks on are as they were.
LEMMA SingleStays ==
  ASSUME Single, TypeOK,
         \/ Idles \/ Departs \/ Quits \/ Start \/ Carry \/ Open \/ NextPhase
         \/ Monitor \/ WalkEnds \/ PassBy \/ PassByOddly \/ GivenUp
  PROVE  Single'
<1> USE DEF Begun, LoopPlaces
<1>1. CASE Idles
  BY <1>1, SingleShrinks DEF Idles, BooksSame, table
<1>2. CASE Departs \/ Quits \/ Start \/ NextPhase
  BY <1>2, SingleShrinks DEF Departs, Quits, Start, NextPhase, table, ghosts
<1>3. CASE Carry \/ Monitor
  <2>1. child' = Without(child, Ends) /\ blind' = blind
    BY <1>3 DEF Carry, Monitor, ghosts
  <2>2. \A j \in AlbumJobs :
          /\ j \in LiveAmong(child', AlbumJobs) => j \in LiveAmong(child, AlbumJobs)
          /\ j \in LiveAmong(child', AlbumJobs) => j \notin Ends
    BY <2>1, JobShapes DEF Without, Ends, EndedAmong, LiveAmong, NoRow, Row, Live, Ended,
       TypeOK
  <2>3. CASE Carry
    BY <2>1, <2>2, <2>3, SingleShrinks DEF Carry, LiveAmong
  <2>4. CASE Monitor
    <3>1. loop'.active = loop.active \ Ends
      BY <2>4 DEF Monitor, Absorbed, TypeOK, Loop
    <3> QED
      BY <2>1, <2>2, <2>4, <3>1, SingleShrinks DEF Monitor, LiveAmong
  <2> QED
    BY <1>3, <2>3, <2>4
<1>4. CASE Open
  <2>1. loop'.active = loop.active
    BY <1>4 DEF Open, TypeOK, Loop
  <2> QED
    BY <1>4, <2>1, SingleShrinks DEF Open, table, ghosts
<1>5. CASE WalkEnds
  <2>1. pc' # "next" => loop'.active = loop.active
    BY <1>5 DEF WalkEnds, TypeOK, Loop
  <2> QED
    BY <1>5, <2>1, SingleShrinks DEF WalkEnds, table, ghosts
<1>6. CASE PassBy \/ PassByOddly \/ GivenUp
  <2>1. loop'.active = loop.active
    <3>1. CASE PassBy
      BY <3>1 DEF PassBy, Walked, TypeOK, Loop
    <3> QED
      BY <1>6, <3>1, OddFields, GivenUpFields
  <2> QED
    BY <1>6, <2>1, SingleShrinks DEF PassBy, PassByOddly, GivenUp, table, ghosts
<1> QED
  BY <1>1, <1>2, <1>3, <1>4, <1>5, <1>6

\* The phase adopts all that is live, or knows that it could not look.
LEMMA SingleAdopts ==
  ASSUME Single, TypeOK, List \/ ListFails
  PROVE  Single'
<1>1. CASE List
  <2>1. loop'.active = OfAlbums(LiveAmong(child, Jobs))
    BY <1>1 DEF List, Adopting, TypeOK, Loop
  <2>2. LiveAmong(child, AlbumJobs) \subseteq loop'.active
    BY <2>1, JobShapes DEF LiveAmong, OfAlbums
  <2> QED
    BY <1>1, <2>2 DEF List, table, ghosts, Single, Tracked, OneJobPerAlbum
<1>2. CASE ListFails
  BY <1>2 DEF ListFails, Single, Tracked, OneJobPerAlbum
<1> QED
  BY <1>1, <1>2

\* An album is enqueued that no live job is for.
LEMMA SingleDispatch ==
  ASSUME Single, Orderly, TypeOK, Walking, Dispatch
  PROVE  Single'
<1> DEFINE j == <<Album, tries>>
<1>1. Album \in loop.todo /\ j \in AlbumJobs /\ j[1] = Album
  BY AlbumIsOne DEF Dispatch
<1>2. loop'.active = loop.active \cup {j} /\ blind' = blind /\ pc = "album"
  BY DEF Dispatch, Walked, TypeOK, Loop, ghosts
<1>3. LiveAmong(child', AlbumJobs) = LiveAmong(child, AlbumJobs) \cup {j}
  <2>1. child' = [child EXCEPT ![j] = Queued] /\ child \in [Jobs -> ChildRow]
    BY DEF Dispatch, TypeOK
  <2> QED
    BY <1>1, <2>1, JobShapes DEF LiveAmong, Queued, Row, Live
<1>4. \A k \in loop.active : k[1] # Album
  BY <1>1, <1>2 DEF Orderly, Apart, Dispatch, Begun, LoopPlaces
<1>5. ~blind => LiveAmong(child, AlbumJobs) \subseteq loop.active
  BY <1>2 DEF Single, Tracked, Begun, LoopPlaces
<1>6. Tracked'
  BY <1>2, <1>3, <1>5 DEF Tracked
<1>7. OneJobPerAlbum'
  BY <1>1, <1>2, <1>3, <1>4, <1>5 DEF Single, OneJobPerAlbum
<1> QED
  BY <1>6, <1>7 DEF Single

LEMMA SingleKeeps ==
  ASSUME Single, Orderly, TypeOK, Walking, Next
  PROVE  Single'
<1>1. CASE Moves
  <2>1. LiveAmong(child', AlbumJobs) \subseteq LiveAmong(child, AlbumJobs)
    BY <1>1 DEF Moves, RowMoves, LiveAmong, Live
  <2> QED
    BY <1>1, <2>1, SingleShrinks DEF Moves, BooksSame, Begun, LoopPlaces
<1> QED
  BY <1>1, Classes, SingleStays, SingleAdopts, SingleDispatch

LEMMA OrderlyBegins == ASSUME Init PROVE Orderly /\ Single
<1>1. Orderly
  BY DEF Init, NewLoop, Orderly, Blank, Emptied, Apart, Begun, LoopPlaces
<1>2. Single
  BY JobShapes DEF Init, NoRow, Row, Live, LiveAmong, Single, Tracked, OneJobPerAlbum,
     Begun, LoopPlaces
<1> QED
  BY <1>1, <1>2

\* What the properties rest on, kept by every step.
Ordered == TypeOK /\ Walking /\ Draining /\ Orderly /\ Single

LEMMA OrderedSpec == Spec => []Ordered
<1>1. Init => Ordered
  BY TypeBegins, OrderlyBegins DEF Ordered
<1>2. Ordered /\ [Next]_vars => Ordered'
  <2> SUFFICES ASSUME Ordered, [Next]_vars PROVE Ordered'
    OBVIOUS
  <2>1. CASE Next
    BY <2>1, TypeKeeps, WalkingKeeps, OrderlyKeeps, SingleKeeps DEF Ordered
  <2>2. CASE UNCHANGED vars
    BY <2>2 DEF vars, Ordered, TypeOK, Walking, Draining, Orderly, Blank, Emptied, Apart,
       Single, Tracked, OneJobPerAlbum
  <2> QED
    BY <2>1, <2>2
<1> QED
  BY <1>1, <1>2, PTL DEF Spec

\* Attempts never have an album under way twice (the adoption of the live jobs,
\* main.py).
THEOREM AnalysisOneJob == Spec => []OneJobPerAlbum
<1>1. Ordered => OneJobPerAlbum
  BY DEF Ordered, Single
<1> QED
  BY <1>1, OrderedSpec, PTL

\* The shared directory is wiped only when no album is under way (clean_temp).
THEOREM AnalysisWipes == Spec => []WipesNothingLive
<1>1. Ordered => WipesNothingLive
  <2> SUFFICES ASSUME Ordered, pc \in {"clean", "wipe"}, ~blind
               PROVE  LiveAmong(child, AlbumJobs) = {}
    BY DEF WipesNothingLive
  <2>1. loop.active = {}
    BY DEF Ordered, Orderly, Emptied
  <2>2. LiveAmong(child, AlbumJobs) \subseteq loop.active
    BY DEF Ordered, Single, Tracked, Begun, LoopPlaces
  <2> QED
    BY <2>1, <2>2
<1> QED
  BY <1>1, OrderedSpec, PTL

-------------------------------------------------------------------------------
(* What became of the jobs *)

\* A live job has no fate yet, and one that ended has.
Fated ==
  \A j \in AlbumJobs :
    /\ child[j].st \in Live => fate[j] = "none"
    /\ child[j].st \in Ended => fate[j] # "none"

\* Before the list of albums is there.
Early == {"phase", "list", "clean", "open"}

\* The albums of the phases after this one.
Later == {a \in Albums : scope # 1 /\ (a % scope) + 1 > loop.at}

\* The albums the attempt, or the next one, has still to walk.
ToCome ==
  CASE pc = "off" -> IF parent = "live" THEN Albums ELSE {}
    [] pc \in Early -> AlbumsOf(loop.at) \cup Later
    [] pc \in Begun -> loop.todo \cup Later
    [] OTHER -> Later

\* Jobs of attempts to come, and of albums the attempt has still to walk.
Coming(j) == j[2] > tries \/ (j[2] = tries /\ j[1] \in ToCome)

\* A job whose turn has not come has never been.
Unborn == \A j \in AlbumJobs : Coming(j) => child[j].st = "none" /\ fate[j] = "none"

\* The walk goes through albums of its server.
Listing == pc \in Begun => loop.todo \subseteq AlbumsOf(loop.at)

Turns == Fated /\ Unborn /\ Listing

\* Phases have no albums in common.
LEMMA AlbumsApart ==
  ASSUME TypeOK
  PROVE  /\ AlbumsOf(loop.at) \cap Later = {}
         /\ AlbumsOf(loop.at) \subseteq Albums
         /\ Later \subseteq Albums
<1>1. scope \in Nat \ {0} /\ loop.at \in Nat \ {0}
  BY DEF TypeOK, Loop, Servers
<1>2. \A a \in Albums : a % scope \in Nat
  BY <1>1 DEF Albums
<1> QED
  BY <1>1, <1>2 DEF AlbumsOf, Later

\* A phase takes over albums of phases to come.
LEMMA AlbumsPassOn ==
  ASSUME TypeOK, NextPhase
  PROVE  AlbumsOf(loop.at)' \cup Later' \subseteq Later
<1>1. scope \in Nat \ {0} /\ loop.at \in Nat \ {0} /\ loop.at < scope /\ scope' = scope
  BY DEF TypeOK, Loop, Servers, NextPhase, table
<1>2. loop'.at = loop.at + 1
  BY DEF NextPhase, NewLoop
<1>3. \A a \in Albums : a % scope \in Nat
  BY <1>1 DEF Albums
<1>4. AlbumsOf(loop.at)' \subseteq Later
  BY <1>1, <1>2, <1>3 DEF AlbumsOf, Later
<1>5. Later' \subseteq Later
  BY <1>1, <1>2, <1>3 DEF Later
<1> QED
  BY <1>4, <1>5

\* The opening of a phase keeps its server, and counts nothing but what it carries.
LEMMA OpeningFields ==
  ASSUME TypeOK, Carry \/ List \/ ListFails \/ Open
  PROVE  /\ loop'.at = loop.at /\ loop'.read = loop.read
         /\ loop'.completed = loop.completed /\ loop'.failed = loop.failed
         /\ ~Carry => /\ loop'.songs = loop.songs /\ loop'.carried = loop.carried
                      /\ child' = child
         /\ pc \in Early
         /\ Open => pc' = "walk" /\ loop'.todo = AlbumsOf(loop.at)
         /\ ~Open => pc' \in Early
         /\ UNCHANGED <<scope, parent, tries, fate>>
<1>1. CASE Carry
  BY <1>1 DEF Carry, List, ListFails, Open, Early, table, ghosts, TypeOK, Loop
<1>2. CASE List
  BY <1>2 DEF Carry, List, ListFails, Open, Adopting, Early, table, ghosts, TypeOK, Loop
<1>3. CASE ListFails
  BY <1>3 DEF Carry, List, ListFails, Open, Early, table, ghosts
<1>4. CASE Open
  BY <1>4 DEF Carry, List, ListFails, Open, Early, table, ghosts, TypeOK, Loop
<1> QED
  BY <1>1, <1>2, <1>3, <1>4


\* No row but the one that is launched leaves what a row does without the phase.
LEMMA RowsMove ==
  ASSUME TypeOK, Walking, Next, NEW j \in AlbumJobs
  PROVE  RowMoves(j) \/ (Dispatch /\ j = <<Album, tries>> /\ child'[j] = Queued /\ fate' = fate)
<1>1. j \in Jobs /\ child \in [Jobs -> ChildRow]
  BY JobShapes DEF TypeOK
<1>2. CASE Moves
  BY <1>2 DEF Moves
<1>3. CASE Idles \/ Departs \/ Quits
  BY <1>3 DEF Idles, Departs, Quits, table, RowMoves
<1>4. CASE Start \/ NextPhase
  BY <1>4 DEF Start, NextPhase, table, ghosts, RowMoves
<1>5. CASE List \/ ListFails \/ Open
  BY <1>5 DEF List, ListFails, Open, table, ghosts, RowMoves
<1>6. CASE Carry \/ Monitor
  <2>1. child' = Without(child, Ends) /\ fate' = fate
    BY <1>6 DEF Carry, Monitor, ghosts
  <2> QED
    BY <1>1, <2>1 DEF Without, NoRow, Row, RowMoves
<1>7. CASE WalkEnds \/ GivenUp
  BY <1>7, WalkEndsFields, GivenUpFields DEF table, RowMoves
<1>8. CASE PassBy \/ PassByOddly
  BY <1>8 DEF PassBy, PassByOddly, table, ghosts, RowMoves
<1>9. CASE Dispatch
  <2>1. child' = [child EXCEPT ![<<Album, tries>>] = Queued] /\ fate' = fate
    BY <1>9 DEF Dispatch, ghosts
  <2>2. CASE j = <<Album, tries>>
    BY <1>1, <1>9, <2>1, <2>2
  <2>3. CASE j # <<Album, tries>>
    BY <1>1, <2>1, <2>3 DEF RowMoves
  <2> QED
    BY <2>2, <2>3
<1> QED
  BY <1>2, <1>3, <1>4, <1>5, <1>6, <1>7, <1>8, <1>9, Classes

\* The job that is launched was to come.
LEMMA LaunchedWasToCome ==
  ASSUME TypeOK, Walking, Dispatch
  PROVE  Coming(<<Album, tries>>)
<1>1. Album \in loop.todo /\ pc = "album"
  BY AlbumIsOne DEF Dispatch
<1> QED
  BY <1>1 DEF Coming, ToCome, Begun, LoopPlaces, Early

LEMMA FatedKeeps ==
  ASSUME Turns, TypeOK, Walking, Next
  PROVE  Fated'
<1> SUFFICES ASSUME NEW j \in AlbumJobs
             PROVE  /\ child'[j].st \in Live => fate'[j] = "none"
                    /\ child'[j].st \in Ended => fate'[j] # "none"
  BY DEF Fated
<1>1. /\ child[j].st \in Live => fate[j] = "none"
      /\ child[j].st \in Ended => fate[j] # "none"
  BY DEF Turns, Fated
<1>2. CASE RowMoves(j)
  BY <1>1, <1>2 DEF RowMoves, Live, Ended
<1>3. CASE Dispatch /\ j = <<Album, tries>> /\ child'[j] = Queued /\ fate' = fate
  <2>1. fate[j] = "none"
    BY <1>3, LaunchedWasToCome DEF Turns, Unborn
  <2> QED
    BY <1>3, <2>1 DEF Queued, Row, Live, Ended
<1> QED
  BY <1>2, <1>3, RowsMove

\* A fate is for ever, and a job that was reaped does not come back.
LEMMA FatesFinal ==
  ASSUME Turns, TypeOK, Walking, Next, NEW j \in AlbumJobs, fate[j] # "none"
  PROVE  /\ fate'[j] = fate[j]
         /\ child[j].st = "none" => child'[j].st = "none"
<1>1. child[j].st \notin Live
  BY DEF Turns, Fated
<1>2. ~(Dispatch /\ j = <<Album, tries>>)
  BY LaunchedWasToCome DEF Turns, Unborn
<1> QED
  BY <1>1, <1>2, RowsMove DEF RowMoves, Live

\* Nothing comes that was not to come, and what is launched comes no more.
LEMMA ComingShrinks ==
  ASSUME Turns, TypeOK, Walking, Next, NEW j \in AlbumJobs, Coming(j)'
  PROVE  Coming(j) /\ ~(Dispatch /\ j = <<Album, tries>>)
<1>0. j[1] \in Albums /\ j[2] \in 0..MaxRestarts /\ tries \in 0..MaxRestarts
  BY JobShapes DEF TypeOK
<1>1. pc # "off" => Later \subseteq ToCome
  BY DEF ToCome
<1>2. ASSUME UNCHANGED tries, ToCome' \subseteq ToCome PROVE Coming(j)
  BY <1>2 DEF Coming
<1>3. ASSUME UNCHANGED scope, loop'.at = loop.at
      PROVE  Later' = Later /\ AlbumsOf(loop.at)' = AlbumsOf(loop.at)
  BY <1>3 DEF Later, AlbumsOf
<1>4. ASSUME Dispatch, j = <<Album, tries>> PROVE FALSE
  <2>1. /\ loop'.todo = loop.todo \ {Album} /\ loop'.at = loop.at
        /\ pc = "album" /\ pc' = "walk" /\ UNCHANGED <<scope, tries>>
    BY <1>4, WalkFields
  <2>2. ToCome' = loop'.todo \cup Later /\ Later' = Later
    BY <1>3, <2>1 DEF ToCome, Begun, LoopPlaces, Early
  <2>3. Album \in AlbumsOf(loop.at)
    BY <1>4, <2>1, AlbumIsOne DEF Turns, Listing, Begun, LoopPlaces
  <2>4. Album \in loop'.todo \cup Later
    BY <1>0, <1>4, <2>1, <2>2 DEF Coming
  <2> QED
    BY <2>1, <2>3, <2>4, AlbumsApart
<1> SUFFICES Coming(j)
  BY <1>4
<1>13. CASE Idles
  <2>1. Later' = Later /\ AlbumsOf(loop.at)' = AlbumsOf(loop.at)
    BY <1>3, <1>13 DEF Idles, BooksSame, table
  <2>2. ToCome' \subseteq ToCome
    BY <1>13, <2>1 DEF Idles, BooksSame, ToCome, Begun, LoopPlaces, Early
  <2> QED
    BY <1>2, <1>13, <2>2 DEF Idles, table
<1>5. CASE Moves
  <2>1. Later' = Later /\ AlbumsOf(loop.at)' = AlbumsOf(loop.at)
    BY <1>3, <1>5 DEF Moves, BooksSame
  <2>2. ToCome' \subseteq ToCome
    BY <1>5, <2>1 DEF Moves, BooksSame, ToCome, Begun, LoopPlaces, Early
  <2> QED
    BY <1>2, <1>5, <2>2 DEF Moves
<1>6. CASE Departs
  <2>1. Later' = Later
    BY <1>3, <1>6 DEF Departs, table
  <2>2. ToCome' = Later'
    BY <1>6 DEF Departs, ToCome, Begun, LoopPlaces, Early
  <2> QED
    BY <1>1, <1>2, <1>6, <2>1, <2>2 DEF Departs, table
<1>7. CASE Quits
  <2>1. ToCome' = IF parent' = "live" THEN Albums ELSE {}
    BY <1>7 DEF Quits, ToCome, Begun, LoopPlaces, Early
  <2>2. CASE parent' = "live"
    BY <1>0, <1>7, <2>2 DEF Quits, Coming
  <2>3. CASE parent' # "live"
    BY <1>0, <1>7, <2>1, <2>3 DEF Quits, Coming
  <2> QED
    BY <2>2, <2>3
<1>8. CASE Start
  <2>1. ToCome = Albums
    BY <1>8 DEF Start, ToCome, Begun, LoopPlaces, Early
  <2> QED
    BY <1>0, <1>8, <2>1 DEF Start, table, Coming
<1>9. CASE NextPhase
  <2>1. ToCome' = AlbumsOf(loop.at)' \cup Later'
    BY <1>9 DEF NextPhase, ToCome, Begun, LoopPlaces, Early
  <2> QED
    BY <1>1, <1>2, <1>9, <2>1, AlbumsPassOn DEF NextPhase, table
<1>10. CASE Carry \/ List \/ ListFails \/ Open
  <2>1. Later' = Later /\ AlbumsOf(loop.at)' = AlbumsOf(loop.at)
    BY <1>3, <1>10, OpeningFields
  <2>2. ToCome = AlbumsOf(loop.at) \cup Later
    BY <1>10, OpeningFields DEF ToCome, Begun, LoopPlaces, Early
  <2>3. ToCome' \subseteq AlbumsOf(loop.at) \cup Later
    BY <1>10, <2>1, OpeningFields DEF ToCome, Begun, LoopPlaces, Early
  <2> QED
    BY <1>2, <1>10, <2>2, <2>3, OpeningFields
<1>11. CASE Monitor \/ PassBy \/ PassByOddly \/ Dispatch \/ GivenUp
  <2>1. /\ loop'.at = loop.at /\ loop'.todo \subseteq loop.todo
        /\ pc \in LoopPlaces /\ pc' \in LoopPlaces /\ UNCHANGED <<scope, tries>>
    BY <1>11, MonitorFields, WalkFields, GivenUpFields DEF LoopPlaces, table
  <2>2. Later' = Later
    BY <1>3, <2>1
  <2>3. ToCome' \subseteq ToCome
    BY <2>1, <2>2 DEF ToCome, Begun, LoopPlaces, Early
  <2> QED
    BY <1>2, <2>1, <2>3
<1>12. CASE WalkEnds
  <2>1. Later' = Later /\ tries' = tries
    BY <1>3, <1>12, WalkEndsFields DEF table
  <2>2. ToCome' \subseteq Later'
    BY <1>12, WalkEndsFields DEF ToCome, Begun, LoopPlaces, Early
  <2> QED
    BY <1>1, <1>2, <1>12, <2>1, <2>2, WalkEndsFields
<1> QED
  BY <1>4, <1>5, <1>6, <1>7, <1>8, <1>9, <1>10, <1>11, <1>12, <1>13, Classes

LEMMA TurnsKeep ==
  ASSUME Turns, TypeOK, Walking, Next
  PROVE  Turns'
<1>1. Unborn'
  <2> SUFFICES ASSUME NEW j \in AlbumJobs, Coming(j)'
               PROVE  child'[j].st = "none" /\ fate'[j] = "none"
    BY DEF Unborn
  <2>1. Coming(j) /\ ~(Dispatch /\ j = <<Album, tries>>)
    BY ComingShrinks
  <2>2. child[j].st = "none" /\ fate[j] = "none"
    BY <2>1 DEF Turns, Unborn
  <2> QED
    BY <2>1, <2>2, RowsMove DEF RowMoves, Live
<1>2. Listing'
  <2> USE DEF Turns, Listing, Begun, LoopPlaces
  <2>1. ASSUME UNCHANGED scope, loop'.at = loop.at
        PROVE  AlbumsOf(loop.at)' = AlbumsOf(loop.at)
    BY <2>1 DEF AlbumsOf
  <2>2. CASE Idles \/ Moves
    BY <2>1, <2>2 DEF Idles, Moves, BooksSame, table
  <2>3. CASE Departs \/ Quits \/ Start \/ NextPhase
    BY <2>3 DEF Departs, Quits, Start, NextPhase
  <2>4. CASE Carry \/ List \/ ListFails \/ Open
    BY <2>1, <2>4, OpeningFields DEF Early
  <2>5. CASE Monitor \/ PassBy \/ PassByOddly \/ Dispatch \/ GivenUp
    <3>1. /\ loop'.at = loop.at /\ loop'.todo \subseteq loop.todo
          /\ pc \in LoopPlaces /\ UNCHANGED scope
      BY <2>5, MonitorFields, WalkFields, GivenUpFields DEF table
    <3> QED
      BY <2>1, <3>1
  <2>6. CASE WalkEnds
    BY <2>6, WalkEndsFields
  <2> QED
    BY <2>2, <2>3, <2>4, <2>5, <2>6, Classes
<1> QED
  BY <1>1, <1>2, FatedKeeps DEF Turns

LEMMA TurnsBegin == ASSUME Init PROVE Turns
<1>1. Fated /\ Unborn
  BY JobShapes DEF Init, Fated, Unborn, NoRow, Row, Live, Ended
<1> QED
  BY <1>1 DEF Init, Turns, Listing, Begun, LoopPlaces

-------------------------------------------------------------------------------
(* The counters of a phase *)

\* What a phase took away was decided, and is gone.
Taken ==
  pc \in Phase =>
    \A j \in loop.read \cup loop.carried : child[j].st = "none" /\ fate[j] # "none"

\* The counters are those of what was taken away, from the first place of a phase.
Counted ==
  pc \in Phase =>
    /\ loop.songs = Cardinality(Sung(loop.read \cup loop.carried))
    /\ loop.completed = Cardinality(loop.read)
    /\ loop.failed = Cardinality(Fell(loop.read))

Tallied == Taken /\ Counted

\* Two sets with nothing in common are counted together.
LEMMA CountApart ==
  ASSUME NEW S \in SUBSET AlbumJobs, NEW T \in SUBSET AlbumJobs, S \cap T = {}
  PROVE  Cardinality(S \cup T) = Cardinality(S) + Cardinality(T)
<1>1. IsFiniteSet(S) /\ IsFiniteSet(T) /\ Cardinality(S) \in Nat /\ Cardinality(T) \in Nat
  BY FiniteJobs
<1>2. Cardinality(S \cap T) = 0
  BY FS_EmptySet
<1>3. Cardinality(S \cup T) = Cardinality(S) + Cardinality(T) - Cardinality(S \cap T)
  BY <1>1, FS_Union
<1> QED
  BY <1>1, <1>2, <1>3

\* Nothing of what was counted is counted otherwise later.
LEMMA CountsStay ==
  ASSUME Turns, TypeOK, Walking, Next, Taken, pc \in Phase,
         NEW jobs \in SUBSET (loop.read \cup loop.carried)
  PROVE  Sung(jobs)' = Sung(jobs) /\ Fell(jobs)' = Fell(jobs)
<1>1. jobs \in SUBSET AlbumJobs
  BY DEF TypeOK, Loop
<1>2. \A j \in jobs : fate'[j] = fate[j]
  BY <1>1, FatesFinal DEF Taken
<1> QED
  BY <1>2 DEF Sung, Fell

\* Steps that leave the counters as they are.
LEMMA TalliedStays ==
  ASSUME Turns, TypeOK, Walking, Next, Tallied, pc \in Phase,
         loop'.read = loop.read, loop'.carried = loop.carried,
         loop'.songs = loop.songs, loop'.completed = loop.completed,
         loop'.failed = loop.failed
  PROVE  Tallied'
<1>1. Taken'
  <2>1. \A j \in loop.read \cup loop.carried : child'[j].st = "none" /\ fate'[j] # "none"
    BY FatesFinal DEF Tallied, Taken, TypeOK, Loop
  <2> QED
    BY <2>1 DEF Taken
<1>2. Sung(loop.read \cup loop.carried)' = Sung(loop.read \cup loop.carried)
  BY CountsStay DEF Tallied, Sung
<1>3. Fell(loop.read)' = Fell(loop.read)
  BY CountsStay DEF Tallied, Fell
<1>4. Counted'
  BY <1>2, <1>3 DEF Tallied, Counted
<1> QED
  BY <1>1, <1>4 DEF Tallied

\* The counters of a phase that has taken nothing away.
LEMMA TallyBegins ==
  ASSUME loop'.read = {}, loop'.carried = {}, loop'.songs = 0, loop'.completed = 0,
         loop'.failed = 0
  PROVE  Tallied'
<1>1. Sung(loop.read \cup loop.carried)' = {} /\ Fell(loop.read)' = {}
  BY DEF Sung, Fell
<1>2. Cardinality({}) = 0
  BY FS_EmptySet
<1> QED
  BY <1>1, <1>2 DEF Tallied, Taken, Counted

\* What ended in the table was not taken away before, and has a fate.
LEMMA EndsAreNew ==
  ASSUME Turns, TypeOK, Taken, pc \in Phase
  PROVE  /\ OfAlbums(Ends) \in SUBSET AlbumJobs
         /\ OfAlbums(Ends) \cap (loop.read \cup loop.carried) = {}
         /\ \A j \in OfAlbums(Ends) : fate[j] # "none"
<1>1. OfAlbums(Ends) \in SUBSET AlbumJobs
  BY ReadTypes
<1>2. \A j \in OfAlbums(Ends) : child[j].st \in Ended
  BY DEF OfAlbums, Ends, EndedAmong
<1>3. \A j \in OfAlbums(Ends) : fate[j] # "none"
  BY <1>1, <1>2 DEF Turns, Fated
<1>4. \A j \in loop.read \cup loop.carried : child[j].st \notin Ended
  BY DEF Taken, Ended
<1> QED
  BY <1>1, <1>2, <1>3, <1>4

\* The rows of a reap are gone.
LEMMA EndsAreGone ==
  ASSUME TypeOK, child' = Without(child, Ends), NEW j \in AlbumJobs
  PROVE  j \in OfAlbums(Ends) => child'[j].st = "none"
BY JobShapes DEF TypeOK, Without, NoRow, Row, OfAlbums

LEMMA TalliedCarries ==
  ASSUME Turns, TypeOK, Walking, Orderly, Next, Tallied, Carry
  PROVE  Tallied'
<1> DEFINE jobs == OfAlbums(Ends)
<1>1. /\ loop'.read = {} /\ loop'.completed = 0 /\ loop'.failed = 0
      /\ loop'.carried = jobs /\ loop'.songs = Cardinality(Sung(jobs))
      /\ pc = "phase" /\ pc' = "list" /\ fate' = fate /\ child' = Without(child, Ends)
  BY DEF Orderly, Blank, Carry, TypeOK, Loop, ghosts
<1>2. /\ jobs \in SUBSET AlbumJobs
      /\ \A j \in jobs : fate[j] # "none"
  BY <1>1, EndsAreNew DEF Tallied, Phase
<1>3. \A j \in jobs : child'[j].st = "none"
  BY <1>1, <1>2, EndsAreGone
<1> HIDE DEF jobs
<1>4. Sung(loop.read \cup loop.carried)' = Sung(jobs)
  BY <1>1 DEF Sung
<1>5. Taken'
  BY <1>1, <1>2, <1>3 DEF Taken
<1>6. Counted'
  <2>1. Fell(loop.read)' = {}
    BY <1>1 DEF Fell
  <2> QED
    BY <1>1, <1>4, <2>1, FS_EmptySet DEF Counted
<1> QED
  BY <1>5, <1>6 DEF Tallied

LEMMA TalliedReaps ==
  ASSUME Turns, TypeOK, Walking, Next, Tallied, Monitor
  PROVE  Tallied'
<1> DEFINE jobs == OfAlbums(Ends)
           all == loop.read \cup loop.carried
<1>1. /\ loop'.carried = loop.carried /\ loop'.read = loop.read \cup jobs
      /\ loop'.completed = loop.completed + Cardinality(jobs)
      /\ loop'.songs = loop.songs + Cardinality(Sung(jobs))
      /\ loop'.failed = loop.failed + Cardinality(Fell(jobs))
      /\ pc = "monitor" /\ pc' \in LoopPlaces /\ fate' = fate
      /\ child' = Without(child, Ends)
  BY MonitorFields DEF Monitor
<1>2. /\ jobs \in SUBSET AlbumJobs
      /\ jobs \cap all = {}
      /\ \A j \in jobs : fate[j] # "none"
  BY <1>1, EndsAreNew DEF Tallied, Phase
<1>3. \A j \in jobs : child'[j].st = "none"
  BY <1>1, <1>2, EndsAreGone
<1>4. all \in SUBSET AlbumJobs /\ loop.read \in SUBSET AlbumJobs
  BY DEF TypeOK, Loop
<1>5. \A j \in all : child'[j].st = "none" /\ fate[j] # "none"
  BY <1>1, <1>4, FatesFinal DEF Tallied, Taken, Phase
<1>6. /\ loop.songs = Cardinality(Sung(all))
      /\ loop.completed = Cardinality(loop.read)
      /\ loop.failed = Cardinality(Fell(loop.read))
  BY <1>1 DEF Tallied, Counted, Phase
<1> HIDE DEF jobs
<1>7. Taken'
  BY <1>1, <1>2, <1>3, <1>5 DEF Taken
<1>8. loop'.songs = Cardinality(Sung(loop.read \cup loop.carried)')
  <2>1. Sung(loop.read \cup loop.carried)' = Sung(all) \cup Sung(jobs)
    BY <1>1 DEF Sung
  <2>2. Sung(all) \in SUBSET AlbumJobs /\ Sung(jobs) \in SUBSET AlbumJobs
        /\ Sung(all) \cap Sung(jobs) = {}
    BY <1>2, <1>4 DEF Sung
  <2>3. Cardinality(Sung(all) \cup Sung(jobs)) = Cardinality(Sung(all)) + Cardinality(Sung(jobs))
    BY <2>2, CountApart
  <2> QED
    BY <1>1, <1>6, <2>1, <2>3
<1>9. loop'.failed = Cardinality(Fell(loop.read)')
  <2>1. Fell(loop.read)' = Fell(loop.read) \cup Fell(jobs)
    BY <1>1 DEF Fell
  <2>2. Fell(loop.read) \in SUBSET AlbumJobs /\ Fell(jobs) \in SUBSET AlbumJobs
        /\ Fell(loop.read) \cap Fell(jobs) = {}
    BY <1>2, <1>4 DEF Fell
  <2>3. Cardinality(Fell(loop.read) \cup Fell(jobs))
          = Cardinality(Fell(loop.read)) + Cardinality(Fell(jobs))
    BY <2>2, CountApart
  <2> QED
    BY <1>1, <1>6, <2>1, <2>3
<1>10. loop'.completed = Cardinality(loop'.read)
  <2>1. loop.read \cap jobs = {}
    BY <1>2
  <2>2. Cardinality(loop.read \cup jobs) = Cardinality(loop.read) + Cardinality(jobs)
    BY <1>2, <1>4, <2>1, CountApart
  <2> QED
    BY <1>1, <1>6, <2>2
<1>11. Counted'
  BY <1>8, <1>9, <1>10 DEF Counted
<1> QED
  BY <1>7, <1>11 DEF Tallied

LEMMA TalliedKeeps ==
  ASSUME Turns, TypeOK, Walking, Orderly, Orderly', Next, Tallied
  PROVE  Tallied'
<1>1. CASE Idles \/ Moves
  <2>1. /\ loop'.read = loop.read /\ loop'.carried = loop.carried
        /\ loop'.songs = loop.songs /\ loop'.completed = loop.completed
        /\ loop'.failed = loop.failed
    BY <1>1 DEF Idles, Moves, BooksSame
  <2>2. CASE pc \in Phase
    BY <2>1, <2>2, TalliedStays
  <2>3. CASE pc \notin Phase
    <3>1. pc' \notin Phase
      BY <1>1, <2>3 DEF Idles, Moves, Phase, LoopPlaces
    <3> QED
      BY <3>1 DEF Tallied, Taken, Counted
  <2> QED
    BY <2>2, <2>3
<1>2. CASE Departs \/ Quits
  <2>1. pc' \notin Phase
    BY <1>2 DEF Departs, Quits, Phase
  <2> QED
    BY <2>1 DEF Tallied, Taken, Counted
<1>3. CASE Start \/ NextPhase
  <2>1. pc' = "phase"
    BY <1>3 DEF Start, NextPhase
  <2>2. /\ loop'.read = {} /\ loop'.carried = {} /\ loop'.songs = 0
        /\ loop'.completed = 0 /\ loop'.failed = 0
    BY <2>1 DEF Orderly, Blank
  <2> QED
    BY <2>2, TallyBegins
<1>4. CASE List \/ ListFails \/ Open
  <2>1. pc \in Phase
    BY <1>4, OpeningFields DEF Early, Phase
  <2>2. ~Carry
    BY <1>4 DEF List, ListFails, Open, Carry
  <2> QED
    BY <1>4, <2>1, <2>2, OpeningFields, TalliedStays
<1>5. CASE PassBy \/ PassByOddly \/ Dispatch
  <2>1. pc \in Phase
    BY <1>5, WalkFields DEF Phase
  <2> QED
    BY <1>5, <2>1, WalkFields, TalliedStays
<1>6. CASE GivenUp
  <2>1. pc \in Phase
    BY <1>6, GivenUpFields DEF Phase
  <2> QED
    BY <1>6, <2>1, GivenUpFields, TalliedStays
<1>7. CASE WalkEnds
  <2>1. CASE pc' = "next"
    BY <2>1 DEF Tallied, Taken, Counted, Phase
  <2>2. CASE pc' # "next"
    <3>1. pc \in Phase
      BY <1>7, WalkEndsFields DEF Phase
    <3> QED
      BY <1>7, <2>2, <3>1, WalkEndsFields, TalliedStays
  <2> QED
    BY <2>1, <2>2
<1> QED
  BY <1>1, <1>2, <1>3, <1>4, <1>5, <1>6, <1>7, TalliedCarries, TalliedReaps, Classes

-------------------------------------------------------------------------------
(* The albums of a phase *)

\* The albums of the jobs the phase waits for or has reaped.
Asked == AlbumsIn(loop.active \cup loop.read)

\* The albums the walk left without a job or an analysis.
Missing == {a \in AlbumsOf(loop.at) \ loop.todo : a \notin Served \cup Asked}

\* What the walk passes by is analysed, or a job is there for it.
Excused == pc \in Begun => loop.known \subseteq Kept /\ loop.adopted \subseteq Asked

\* The rest is named.
Named ==
  pc \in Begun /\ ~loop.stop => Cardinality(Missing) <= loop.bare + loop.unchecked

\* Whoever drains has walked the list.
Spent ==
  /\ loop.call = "drain" => loop.todo = {}
  /\ pc \in {"drain", "outcome", "wipe"} => loop.call = "drain"
  /\ pc \in {"off"} \cup Early => loop.call = "walk"

\* An album that came to be complete since the phase began is passed by.
Noticed ==
  ~blind /\ pc \in Begun => loop.todo \cap Kept \subseteq loop.known \cup loop.adopted

\* What is complete stays complete.
LEMMA KeptGrows ==
  ASSUME Turns, TypeOK, Walking, Next
  PROVE  Kept \subseteq Kept'
<1> SUFFICES ASSUME NEW j \in Jobs, fate[j] \in {"sung", "mute"}, j[1] # 0
             PROVE  fate'[j] \in {"sung", "mute"}
  BY DEF Kept, AlbumsIn
<1>1. j \in AlbumJobs
  BY JobShapes DEF Jobs
<1> QED
  BY <1>1, FatesFinal

\* So does what was served, and what is complete was served.
LEMMA ServedGrows ==
  ASSUME Turns, TypeOK, Walking, Next
  PROVE  Served \subseteq Served' /\ Kept \subseteq Served
<1>1. ASSUME NEW j \in Jobs, fate[j] \notin {"none", "fell"}, j[1] # 0
      PROVE  fate'[j] \notin {"none", "fell"}
  <2>1. j \in AlbumJobs
    BY <1>1, JobShapes DEF Jobs
  <2> QED
    BY <1>1, <2>1, FatesFinal
<1> QED
  BY <1>1 DEF Served, Kept, AlbumsIn

LEMMA KeptStays == ASSUME fate' = fate PROVE Kept' = Kept
BY DEF Kept

\* Where the list is walked, an album that is asked for stays so.
LEMMA AskedGrows ==
  ASSUME loop.active \cup loop.read \subseteq loop'.active \cup loop'.read
  PROVE  Asked \subseteq Asked'
BY DEF Asked, AlbumsIn

LEMMA MissingCounts ==
  ASSUME TypeOK
  PROVE  IsFiniteSet(Missing) /\ Cardinality(Missing) \in Nat /\ Missing \in SUBSET Albums
<1>1. Missing \in SUBSET Albums
  BY AlbumsApart DEF Missing
<1> QED
  BY <1>1, FiniteAlbums

\* A step of the walk that leaves no more albums behind.
LEMMA NamedStays ==
  ASSUME TypeOK, Turns, Walking, Next, Named, pc \in Begun, UNCHANGED scope,
         loop'.at = loop.at, loop'.stop = loop.stop,
         loop'.bare = loop.bare, loop'.unchecked = loop.unchecked,
         loop.active \cup loop.read \subseteq loop'.active \cup loop'.read,
         \A a \in AlbumsOf(loop.at) : a \in loop.todo => a \in loop'.todo \/ a \in (Served \cup Asked)'
  PROVE  Named'
<1>1. Missing' \subseteq Missing
  <2>1. AlbumsOf(loop.at)' = AlbumsOf(loop.at)
    BY DEF AlbumsOf
  <2> QED
    BY <2>1, ServedGrows, AskedGrows DEF Missing
<1>2. Cardinality(Missing') <= Cardinality(Missing) /\ Cardinality(Missing') \in Nat
      /\ Cardinality(Missing) \in Nat
  <2>1. IsFiniteSet(Missing) /\ Cardinality(Missing) \in Nat /\ Missing' \in SUBSET Albums
    BY <1>1, MissingCounts
  <2> QED
    BY <1>1, <2>1, FS_Subset, FiniteAlbums
<1>3. loop.bare \in Nat /\ loop.unchecked \in Nat
  BY DEF TypeOK, Loop
<1> QED
  BY <1>2, <1>3 DEF Named

\* An album the parent cannot tell the work of is named.
LEMMA NamedOddly ==
  ASSUME TypeOK, Turns, Walking, Next, Named, PassByOddly
  PROVE  Named'
<1>1. /\ loop'.at = loop.at /\ loop'.todo = loop.todo \ {Album}
      /\ loop'.stop = loop.stop /\ loop'.read = loop.read /\ pc = "album"
      /\ UNCHANGED scope
  BY WalkFields
<1>2. loop'.active = loop.active
      /\ loop'.bare + loop'.unchecked = loop.bare + loop.unchecked + 1
  BY OddFields
<1>3. Missing' \subseteq Missing \cup {Album}
  <2>1. AlbumsOf(loop.at)' = AlbumsOf(loop.at)
    BY <1>1 DEF AlbumsOf
  <2>2. Asked \subseteq Asked'
    BY <1>1, <1>2, AskedGrows
  <2> QED
    BY <1>1, <2>1, <2>2, ServedGrows DEF Missing
<1>4. IsFiniteSet(Missing) /\ Cardinality(Missing) \in Nat
  BY MissingCounts
<1>5. /\ IsFiniteSet(Missing \cup {Album})
      /\ Cardinality(Missing \cup {Album}) \in Nat
      /\ Cardinality(Missing \cup {Album}) <= Cardinality(Missing) + 1
  BY <1>4, FS_AddElement
<1>6. Cardinality(Missing') <= Cardinality(Missing \cup {Album})
      /\ Cardinality(Missing') \in Nat
  BY <1>3, <1>5, FS_Subset, FS_CardinalityType
<1>7. loop.bare \in Nat /\ loop.unchecked \in Nat
  BY DEF TypeOK, Loop
<1> QED
  BY <1>1, <1>2, <1>4, <1>5, <1>6, <1>7 DEF Named, Begun, LoopPlaces

\* A list, or what excuses its albums, changes in few steps.
LEMMA ExcusedKeeps ==
  ASSUME Turns, TypeOK, Walking, Orderly, Next, Excused
  PROVE  Excused'
<1> USE DEF Excused, Begun, LoopPlaces
<1>1. ASSUME loop.active \cup loop.read \subseteq loop'.active \cup loop'.read,
             loop'.known \subseteq loop.known, loop'.adopted \subseteq loop.adopted,
             pc \in Begun
      PROVE  Excused'
  BY <1>1, KeptGrows, AskedGrows
<1>2. CASE Idles \/ Moves
  <2>1. CASE pc \in Begun
    BY <1>1, <1>2, <2>1 DEF Idles, Moves, BooksSame
  <2>2. CASE pc \notin Begun
    BY <1>2, <2>2 DEF Idles, Moves
  <2> QED
    BY <2>1, <2>2
<1>3. CASE Departs \/ Quits \/ Start \/ NextPhase
  BY <1>3 DEF Departs, Quits, Start, NextPhase
<1>4. CASE Carry \/ List \/ ListFails
  BY <1>4 DEF Carry, List, ListFails
<1>5. CASE Open
  <2>1. /\ loop'.known = Kept /\ loop'.adopted = loop.adopted
        /\ loop'.active = loop.active /\ loop'.read = loop.read
        /\ loop.adopted = AlbumsIn(loop.active) /\ fate' = fate
    BY <1>5 DEF Open, Orderly, Blank, TypeOK, Loop, ghosts
  <2>2. Kept' = Kept
    BY <2>1, KeptStays
  <2>3. loop'.adopted \subseteq Asked'
    BY <2>1 DEF Asked, AlbumsIn
  <2> QED
    BY <2>1, <2>2, <2>3
<1>6. CASE Monitor
  <2>1. loop.active \subseteq AlbumJobs
    BY DEF TypeOK, Loop
  <2>2. loop.active \cup loop.read \subseteq loop'.active \cup loop'.read
    BY <1>6, <2>1, MonitorFields, JobShapes, ReadTypes DEF OfAlbums
  <2> QED
    BY <1>1, <1>6, <2>2, MonitorFields
<1>7. CASE PassBy \/ PassByOddly \/ Dispatch
  BY <1>1, <1>7, WalkFields
<1>8. CASE GivenUp
  BY <1>1, <1>8, GivenUpFields
<1>9. CASE WalkEnds
  BY <1>9, WalkEndsFields
<1> QED
  BY <1>2, <1>3, <1>4, <1>5, <1>6, <1>7, <1>8, <1>9, Classes

LEMMA NamedKeeps ==
  ASSUME Turns, TypeOK, Walking, Orderly, Next, Excused, Named
  PROVE  Named'
<1>1. CASE Idles \/ Moves
  <2>1. CASE pc \in Begun
    BY <1>1, <2>1, NamedStays DEF Idles, Moves, BooksSame, table
  <2>2. CASE pc \notin Begun
    BY <1>1, <2>2 DEF Idles, Moves, Named, Begun, LoopPlaces
  <2> QED
    BY <2>1, <2>2
<1>2. CASE Departs \/ Quits \/ Start \/ NextPhase
  BY <1>2 DEF Departs, Quits, Start, NextPhase, Named, Begun, LoopPlaces
<1>3. CASE Carry \/ List \/ ListFails
  BY <1>3 DEF Carry, List, ListFails, Named, Begun, LoopPlaces
<1>4. CASE Open
  <2>1. loop'.todo = AlbumsOf(loop.at) /\ loop'.at = loop.at /\ UNCHANGED scope
    BY <1>4, OpeningFields
  <2>2. loop'.bare = 0 /\ loop'.unchecked = 0
    BY <1>4 DEF Open, Orderly, Blank, TypeOK, Loop
  <2>3. Missing' = {}
    BY <2>1 DEF Missing, AlbumsOf
  <2> QED
    BY <2>2, <2>3, FS_EmptySet DEF Named
<1>5. CASE Monitor
  <2>1. loop.active \subseteq AlbumJobs
    BY DEF TypeOK, Loop
  <2>2. loop.active \cup loop.read \subseteq loop'.active \cup loop'.read
    BY <1>5, <2>1, MonitorFields, JobShapes, ReadTypes DEF OfAlbums
  <2>3. pc \in Begun
    BY <1>5, MonitorFields DEF Begun, LoopPlaces
  <2> QED
    BY <1>5, <2>2, <2>3, MonitorFields, NamedStays
<1>6. CASE PassBy
  <2>1. /\ loop'.at = loop.at /\ loop'.todo = loop.todo \ {Album}
        /\ loop'.stop = loop.stop /\ loop'.read = loop.read
        /\ loop'.active = loop.active /\ loop'.bare = loop.bare
        /\ loop'.unchecked = loop.unchecked /\ pc \in Begun /\ UNCHANGED scope
    BY <1>6 DEF PassBy, Walked, table, TypeOK, Loop, Begun, LoopPlaces
  <2>2. Album \in Served \cup Asked
    BY <1>6, <2>1, ServedGrows DEF PassBy, Excused
  <2>3. Album \in (Served \cup Asked)'
    BY <2>1, <2>2, ServedGrows, AskedGrows
  <2> QED
    BY <2>1, <2>3, NamedStays
<1>7. CASE Dispatch
  <2>1. /\ loop'.at = loop.at /\ loop'.todo = loop.todo \ {Album}
        /\ loop'.stop = loop.stop /\ loop'.read = loop.read
        /\ loop'.active = loop.active \cup {<<Album, tries>>} /\ loop'.bare = loop.bare
        /\ loop'.unchecked = loop.unchecked /\ pc \in Begun /\ UNCHANGED scope
    BY <1>7 DEF Dispatch, Walked, TypeOK, Loop, Begun, LoopPlaces
  <2>2. <<Album, tries>> \in AlbumJobs
    BY <1>7, AlbumIsOne DEF Dispatch
  <2>3. Album \in Asked'
    BY <2>1, <2>2, JobShapes DEF Asked, AlbumsIn
  <2> QED
    BY <2>1, <2>3, NamedStays
<1>8. CASE GivenUp
  <2>1. CASE loop'.stop
    BY <2>1 DEF Named
  <2>2. CASE ~loop'.stop
    <3>1. /\ loop'.at = loop.at /\ loop'.stop = loop.stop
          /\ loop'.todo = loop.todo /\ UNCHANGED scope /\ pc \in Begun
      <4>1. ~loop.stop /\ loop.stop \in BOOLEAN /\ loop'.stop = FALSE
        <5>1. loop'.stop = (loop.stop \/ Exhausted(OneMore(loop.gives)))
          BY <1>8 DEF GivenUp, Left, TypeOK, Loop
        <5> QED
          BY <2>2, <5>1 DEF TypeOK, Loop
      <4> QED
        BY <1>8, <2>2, <4>1, GivenUpFields DEF Begun, LoopPlaces, table
    <3> QED
      BY <1>8, <3>1, GivenUpFields, NamedStays
  <2> QED
    BY <2>1, <2>2
<1>9. CASE WalkEnds
  <2>1. CASE pc' = "next"
    BY <2>1 DEF Named, Begun, LoopPlaces
  <2>2. CASE pc' # "next"
    BY <1>9, <2>2, WalkEndsFields, NamedStays DEF Begun, LoopPlaces, table
  <2> QED
    BY <2>1, <2>2
<1> QED
  BY <1>1, <1>2, <1>3, <1>4, <1>5, <1>6, <1>7, <1>8, <1>9, NamedOddly, Classes

\* Only the monitor's caller tells where the monitor returns to.
LEMMA SpentKeeps ==
  ASSUME TypeOK, Orderly, Spent, Next
  PROVE  Spent'
<1> USE DEF Spent, Early
<1>1. CASE Opening
  <2>1. CASE Start
    BY <2>1 DEF Start
  <2>2. CASE Carry \/ CarryFails
    BY <2>2 DEF Carry, CarryFails, TypeOK, Loop
  <2>3. CASE List \/ ListFails \/ Clean
    BY <2>3 DEF List, ListFails, Clean, Adopting, TypeOK, Loop
  <2>4. CASE Open
    BY <2>4 DEF Open, TypeOK, Loop
  <2>5. CASE OpenEmpty
    BY <2>5 DEF OpenEmpty, Passed, NewLoop
  <2>6. CASE Refused
    BY <2>6 DEF Refused, Failed, NewLoop
  <2> QED
    BY <1>1, <2>1, <2>2, <2>3, <2>4, <2>5, <2>6 DEF Opening
<1>2. CASE Walk \/ Throttle
  BY <1>2 DEF Walk, Throttle, TypeOK, Loop
<1>3. CASE WalkEnds
  <2>1. CASE Unreadable
    BY <1>3, <2>1 DEF WalkEnds, Failed, NewLoop
  <2>2. CASE ~Unreadable
    <3>1. pc = "walk" /\ loop.todo = {} /\ pc' = "drain"
          /\ loop' = [loop EXCEPT !.call = "drain", !.known = {}, !.adopted = {}]
      BY <1>3, <2>2 DEF WalkEnds
    <3> QED
      BY <3>1 DEF TypeOK, Loop
  <2> QED
    BY <2>1, <2>2
<1>4. CASE PassBy \/ PassByOddly \/ Dispatch
  <2>1. Walked.call = loop.call /\ Walked \in Loop
    BY DEF Walked, TypeOK, Loop
  <2>2. loop'.call = Walked.call
    <3>1. CASE PassBy
      BY <3>1 DEF PassBy
    <3>2. CASE PassByOddly
      <4>1. \/ loop' = [Walked EXCEPT !.bare = @ + 1]
            \/ loop' = [Walked EXCEPT !.unchecked = @ + 1]
        BY <3>2 DEF PassByOddly
      <4> QED
        BY <2>1, <4>1 DEF Loop
    <3>3. CASE Dispatch
      <4>1. loop' = [Walked EXCEPT !.active = @ \cup {<<Album, tries>>}, !.launched = @ + 1]
        BY <3>3 DEF Dispatch
      <4> QED
        BY <2>1, <4>1 DEF Loop
    <3> QED
      BY <1>4, <3>1, <3>2, <3>3
  <2> QED
    BY <1>4, <2>1, <2>2, WalkFields
<1>5. CASE Drain
  <2>1. CASE loop.active = {}
    <3>1. /\ pc = "drain" /\ pc' = "outcome"
          /\ loop' = [loop EXCEPT !.shown = {}, !.held = {}, !.moved = FALSE]
      BY <1>5, <2>1 DEF Drain
    <3>2. loop'.call = loop.call /\ loop'.todo = loop.todo
      BY <3>1 DEF TypeOK, Loop
    <3> QED
      BY <3>1, <3>2
  <2>2. CASE loop.active # {}
    <3>1. pc = "drain" /\ pc' = "monitor" /\ loop' = loop
      BY <1>5, <2>2 DEF Drain
    <3> QED
      BY <3>1
  <2> QED
    BY <2>1, <2>2
<1>6. CASE Monitor
  <2>1. loop'.todo = loop.todo /\ loop'.call = loop.call
    BY <1>6 DEF Monitor, Absorbed, TypeOK, Loop
  <2>2. pc' = "drain" => loop'.call = "drain"
    BY <1>6 DEF Monitor, AfterMonitor, Back
  <2>3. pc' \notin {"outcome", "wipe", "off"} \cup Early
    BY <1>6 DEF Monitor, AfterMonitor, Back
  <2> QED
    BY <2>1, <2>2, <2>3
<1>7. CASE MonitorNotDue \/ MonitorFails \/ Rebuild
  <2>1. loop'.todo = loop.todo /\ loop'.call = loop.call
    BY <1>7 DEF MonitorNotDue, MonitorFails, RolledBack, Rebuild, TypeOK, Loop
  <2>2. \E l : (pc' = AfterMonitor(l) \/ pc' = Back(l)) /\ l.call = loop.call
    BY <1>7 DEF MonitorNotDue, MonitorFails, RolledBack, Rebuild, TypeOK, Loop
  <2> QED
    BY <2>1, <2>2 DEF AfterMonitor, Back
<1>8. CASE Watch
  BY <1>8 DEF Watch, Leave, TypeOK, Loop
<1>9. CASE GiveUp
  BY <1>9 DEF GiveUp, TypeOK, Loop
<1>10. CASE EndVictim
  BY <1>10 DEF EndVictim, TypeOK, Loop
<1>11. CASE GivenUp
  BY <1>11 DEF GivenUp, Left, Leave, TypeOK, Loop
<1>12. CASE Closing \/ Crash
  <2>1. CASE Outcome
    BY <2>1 DEF Outcome, TypeOK, Loop
  <2>2. CASE Wipe
    BY <2>2 DEF Wipe, Passed, NewLoop
  <2>3. CASE NextPhase
    BY <2>3 DEF NextPhase, NewLoop
  <2>4. CASE LastPhase
    BY <2>4 DEF LastPhase
  <2>5. CASE PhaseRaises
    BY <2>5 DEF PhaseRaises, Failed, NewLoop
  <2>6. CASE UnionEnds \/ SingleFails \/ Finish \/ StandDown \/ Crash
    BY <2>6 DEF UnionEnds, SingleFails, Finish, StandDown, Crash, Lose, LoseForGood, Over,
       NewLoop
  <2> QED
    BY <1>12, <2>1, <2>2, <2>3, <2>4, <2>5, <2>6 DEF Closing
<1>13. CASE Cancel \/ (\E j \in Jobs : Job(j) \/ Orphan(j))
  BY <1>13 DEF Cancel, Job, Orphan
<1> QED
  BY <1>1, <1>2, <1>3, <1>4, <1>5, <1>6, <1>7, <1>8, <1>9, <1>10, <1>11, <1>12, <1>13
     DEF Next, Attempt, Loops

\* An album is completed by a job that is waited for, and so is not walked.
LEMMA NoticedKeeps ==
  ASSUME Turns, TypeOK, Walking, Orderly, Single, Next, Noticed
  PROVE  Noticed'
<1> USE DEF Noticed, Begun, LoopPlaces
<1>1. ASSUME fate' = fate, blind' = blind, pc \in Begun, loop'.todo \subseteq loop.todo,
             loop'.known = loop.known, loop'.adopted = loop.adopted
      PROVE  Noticed'
  BY <1>1, KeptStays
<1>2. CASE Idles
  <2>1. CASE pc \in Begun
    BY <1>1, <1>2, <2>1 DEF Idles, BooksSame
  <2>2. CASE pc \notin Begun
    BY <1>2, <2>2 DEF Idles
  <2> QED
    BY <2>1, <2>2
<1>3. CASE Moves
  <2>1. /\ loop'.todo = loop.todo /\ loop'.known = loop.known
        /\ loop'.adopted = loop.adopted /\ blind' = blind
        /\ pc' \in Begun => pc \in Begun
    BY <1>3 DEF Moves, BooksSame
  <2>2. ASSUME ~blind, pc \in Begun, NEW a \in loop.todo, a \in Kept'
        PROVE  a \in loop.known \cup loop.adopted
    <3>1. PICK j \in Jobs : fate'[j] \in {"sung", "mute"} /\ j[1] = a /\ a # 0
      BY <2>2 DEF Kept, AlbumsIn
    <3>2. j \in AlbumJobs
      BY <3>1, JobShapes DEF Jobs
    <3>3. CASE fate[j] = fate'[j]
      BY <2>2, <3>1, <3>3 DEF Kept, AlbumsIn
    <3>4. CASE fate[j] # fate'[j]
      <4>1. child[j].st \in Live
        BY <1>3, <3>2, <3>4 DEF Moves, RowMoves
      <4>2. j \in loop.active
        BY <2>2, <3>2, <4>1 DEF Single, Tracked, LiveAmong
      <4> QED
        BY <2>2, <3>1, <4>2 DEF Orderly, Apart
    <3> QED
      BY <3>3, <3>4
  <2> QED
    BY <2>1, <2>2
<1>4. CASE Departs \/ Quits \/ Start \/ NextPhase
  BY <1>4 DEF Departs, Quits, Start, NextPhase
<1>5. CASE Carry \/ List \/ ListFails
  BY <1>5 DEF Carry, List, ListFails
<1>6. CASE Open
  <2>1. loop'.known = Kept /\ fate' = fate
    BY <1>6 DEF Open, TypeOK, Loop, ghosts
  <2> QED
    BY <2>1, KeptStays
<1>7. CASE Monitor
  BY <1>1, <1>7, MonitorFields
<1>8. CASE PassBy \/ PassByOddly \/ Dispatch
  BY <1>1, <1>8, WalkFields
<1>9. CASE GivenUp
  BY <1>1, <1>9, GivenUpFields
<1>10. CASE WalkEnds
  BY <1>10, WalkEndsFields
<1> QED
  BY <1>2, <1>3, <1>4, <1>5, <1>6, <1>7, <1>8, <1>9, <1>10, Classes

-------------------------------------------------------------------------------
(* What a phase answers for *)

\* What the books of a phase say, kept by every step.
Accounted == Turns /\ Tallied /\ Excused /\ Named /\ Spent /\ Noticed

LEMMA AccountedSpec == Spec => []Accounted
<1>1. Init => Accounted
  <2> SUFFICES ASSUME Init PROVE Accounted
    OBVIOUS
  <2>1. Turns
    BY TurnsBegin
  <2>2. pc = "off" /\ loop.call = "walk"
    BY DEF Init, NewLoop
  <2>3. Tallied /\ Excused /\ Named /\ Spent /\ Noticed
    BY <2>2 DEF Tallied, Taken, Counted, Excused, Named, Spent, Noticed, Begun, LoopPlaces,
       Phase
  <2> QED
    BY <2>1, <2>3 DEF Accounted
<1>2. Ordered /\ Ordered' /\ Accounted /\ [Next]_vars => Accounted'
  <2> SUFFICES ASSUME Ordered, Ordered', Accounted, [Next]_vars PROVE Accounted'
    OBVIOUS
  <2>1. CASE Next
    BY <2>1, TurnsKeep, TalliedKeeps, ExcusedKeeps, NamedKeeps, SpentKeeps, NoticedKeeps
       DEF Ordered, Accounted
  <2>2. CASE UNCHANGED vars
    <3>1. Turns'
      BY <2>2 DEF vars, Accounted, Turns, Fated, Unborn, Coming, ToCome, Later, AlbumsOf,
         Listing
    <3>2. Tallied'
      BY <2>2 DEF vars, Accounted, Tallied, Taken, Counted, Sung, Fell
    <3>3. Excused' /\ Named'
      BY <2>2 DEF vars, Accounted, Excused, Named, Missing, Asked, Kept, Served, AlbumsOf
    <3>4. Spent' /\ Noticed'
      BY <2>2 DEF vars, Accounted, Spent, Noticed, Kept
    <3> QED
      BY <3>1, <3>2, <3>3, <3>4 DEF Accounted
  <2> QED
    BY <2>1, <2>2
<1> QED
  BY <1>1, <1>2, OrderedSpec, PTL DEF Spec

\* Songs, completions and failures are those of the rows the phase took away, after
\* reaps that were rolled back and restarts (_absorb_reaped, main.py).
THEOREM AnalysisCountsRight == Spec => []TallyIsExact
<1>1. Accounted => TallyIsExact
  BY DEF Accounted, Tallied, Counted, TallyIsExact
<1> QED
  BY <1>1, AccountedSpec, PTL

\* A phase that went through its list answers for every album on it.
THEOREM AnalysisForgetsNothing == Spec => []NothingForgotten
<1>1. Ordered /\ Accounted => NothingForgotten
  <2> SUFFICES ASSUME Ordered, Accounted, pc = "wipe", ~loop.stop
               PROVE  Cardinality({a \in AlbumsOf(loop.at) :
                                     a \notin Served \cup AlbumsIn(Fell(loop.read))})
                        <= loop.bare + loop.unchecked
    BY DEF NothingForgotten
  <2> DEFINE left == {a \in AlbumsOf(loop.at) : a \notin Served \cup AlbumsIn(Fell(loop.read))}
  <2>1. loop.todo = {} /\ loop.active = {}
    BY DEF Ordered, Orderly, Emptied, Accounted, Spent
  <2>2. Asked \subseteq Served \cup AlbumsIn(Fell(loop.read))
    <3> SUFFICES ASSUME NEW j \in loop.read, j[1] # 0
                 PROVE  j[1] \in Served \cup AlbumsIn(Fell(loop.read))
      BY <2>1 DEF Asked, AlbumsIn
    <3>1. j \in AlbumJobs /\ j \in Jobs
      BY JobShapes DEF Ordered, TypeOK, Loop
    <3>2. fate[j] # "none" /\ fate[j] \in Fates
      BY <3>1 DEF Accounted, Tallied, Taken, Phase, Ordered, TypeOK
    <3> QED
      BY <3>1, <3>2 DEF Fates, Served, Fell, AlbumsIn
  <2>3. left \subseteq Missing
    BY <2>1, <2>2 DEF Missing
  <2>4. /\ IsFiniteSet(Missing) /\ Cardinality(Missing) \in Nat
        /\ Cardinality(Missing) <= loop.bare + loop.unchecked
    BY MissingCounts DEF Ordered, Accounted, Named, Begun
  <2>5. Cardinality(left) <= Cardinality(Missing) /\ Cardinality(left) \in Nat
    BY <2>3, <2>4, FS_Subset, FS_CardinalityType
  <2>6. loop.bare \in Nat /\ loop.unchecked \in Nat
    BY DEF Ordered, TypeOK, Loop
  <2> HIDE DEF left
  <2> QED
    BY <2>4, <2>5, <2>6 DEF left
<1> QED
  BY <1>1, OrderedSpec, AccountedSpec, PTL

\* An album whose analysis is complete is not enqueued again, though the list of what
\* is complete was read when the phase began.
THEOREM AnalysisRedoesNothing == Spec => NeverRedone
<1>1. Ordered /\ Accounted /\ [Next]_vars =>
        [~blind =>
           \A j \in AlbumJobs :
             child[j].st = "none" /\ child'[j].st = "queued" => j[1] \notin Kept]_vars
  <2> SUFFICES ASSUME Ordered, Accounted, Next, ~blind, NEW j \in AlbumJobs,
                      child[j].st = "none", child'[j].st = "queued"
               PROVE  j[1] \notin Kept
    OBVIOUS
  <2>1. Dispatch /\ j = <<Album, tries>>
    BY RowsMove DEF Ordered, RowMoves, Live
  <2>2. Album \in loop.todo /\ Album \notin loop.adopted \cup loop.known /\ pc = "album"
    BY <2>1, AlbumIsOne DEF Ordered, Dispatch
  <2> QED
    BY <2>1, <2>2 DEF Accounted, Noticed, Begun, LoopPlaces
<1> QED
  BY <1>1, OrderedSpec, AccountedSpec, PTL DEF Spec, NeverRedone
===============================================================================
