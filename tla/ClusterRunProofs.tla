--------------------------- MODULE ClusterRunProofs ---------------------------
(***************************************************************************)
(* What holds of a clustering run for any number of servers and batches,   *)
(* any bounds and any number of restarts.                                  *)
(***************************************************************************)
EXTENDS ClusterRun, FiniteSetTheorems, TLAPS

USE DrainAssumption, ClusterAssumption

-------------------------------------------------------------------------------
(* The data *)

\* There are finitely many batches, so the sets that are counted have sizes.
LEMMA Finite ==
  ASSUME NEW ids \in SUBSET Ids
  PROVE  IsFiniteSet(ids) /\ Cardinality(ids) \in Nat
<1>1. IsFiniteSet(Servers) /\ IsFiniteSet(0..(NumBatches - 1))
  BY FS_Interval DEF Servers
<1>2. IsFiniteSet(Ids)
  BY <1>1, FS_Product DEF Ids
<1> QED
  BY <1>2, FS_Subset, FS_CardinalityType

\* A set with an element counts at least one.
LEMMA NotEmptyCounts ==
  ASSUME NEW ids \in SUBSET Ids, ids # {}
  PROVE  Cardinality(ids) >= 1
BY Finite, FS_EmptySet

\* The rows the statements write are rows.
LEMMA RowTypes ==
  /\ NoRow \in ChildRow
  /\ Queued \in ChildRow
  /\ \A r \in ChildRow :
       /\ Claimed(r) \in ChildRow
       /\ r.left > 0 => Beaten(r) \in ChildRow
       /\ Charged(r) \in ChildRow
       /\ \A score \in 0..MaxScore : Succeeded(r, score) \in ChildRow
<1> USE DEF Row, ChildRow, Live, Ended
<1>1. NoRow \in ChildRow /\ Queued \in ChildRow
  BY DEF NoRow, Queued
<1>2. ASSUME NEW r \in ChildRow
      PROVE  /\ Claimed(r) \in ChildRow
             /\ r.left > 0 => Beaten(r) \in ChildRow
             /\ Charged(r) \in ChildRow
             /\ \A score \in 0..MaxScore : Succeeded(r, score) \in ChildRow
  <2>1. Claimed(r) \in ChildRow
    BY DEF Claimed
  <2>2. r.left > 0 => Beaten(r) \in ChildRow
    BY DEF Beaten
  <2>3. Charged(r) \in ChildRow
    BY DEF Charged
  <2>4. \A score \in 0..MaxScore : Succeeded(r, score) \in ChildRow
    BY DEF Succeeded
  <2> QED
    BY <2>1, <2>2, <2>3, <2>4
<1> QED
  BY <1>1, <1>2

\* A batch that is ended leaves a table of rows.
LEMMA EndChildType ==
  ASSUME NEW rows \in [Ids -> ChildRow], NEW i \in Ids
  PROVE  EndChild(rows, i, "revoked") \in [Ids -> ChildRow]
BY DEF EndChild, Row, ChildRow, Live, Ended

\* So does a reap.
LEMMA WithoutType ==
  ASSUME NEW rows \in [Ids -> ChildRow], NEW ids
  PROVE  Without(rows, ids) \in [Ids -> ChildRow]
BY RowTypes DEF Without

\* What a server begins with, and what a pass begins with.
LEMMA NewTypes ==
  ASSUME NEW s \in Servers
  PROVE  /\ Zero(s) \in Tally
         /\ \A good \in SUBSET Servers : NewLoop(s, good) \in Loop
BY DEF Zero, Tally, NewLoop, Loop

\* The first server is a server.
LEMMA FirstServer == 0 \in Servers
BY DEF Servers

-------------------------------------------------------------------------------
(* The type invariant *)

\* A charge stays within the bound.
LEMMA ChargeType ==
  ASSUME TypeOK, NEW kind, Charge(kind)
  PROVE  faults' \in 0..MaxFaults
BY DEF TypeOK, Charge

\* A report puts counters on the row, or leaves it alone.
LEMMA ReportType ==
  ASSUME TypeOK, NEW tally \in Tally, Report(tally)
  PROVE  saved' \in Tally /\ far' \in Servers /\ faults' \in 0..MaxFaults
<1>1. CASE Written(tally)
  BY <1>1 DEF Written, TypeOK, Tally
<1>2. CASE Unwritten
  BY <1>2, ChargeType DEF Unwritten, TypeOK, row
<1> QED
  BY <1>1, <1>2 DEF Report

\* The end of an attempt leaves a fresh memory.
LEMMA OverType ==
  ASSUME Over
  PROVE  pc' \in Places /\ state' \in Tally /\ loop' \in Loop /\ stir' \in BOOLEAN
BY FirstServer, NewTypes DEF Over, Places

\* A lost attempt keeps the restarts within their bound.
LEMMA LoseType ==
  ASSUME TypeOK, Lose
  PROVE  /\ parent' \in {"live", "success", "failure", "revoked"}
         /\ tries' \in 0..MaxRestarts
         /\ pc' \in Places /\ state' \in Tally /\ loop' \in Loop
         /\ stir' \in BOOLEAN
<1>1. tries' \in 0..MaxRestarts
  BY DEF Lose, TypeOK
<1>2. parent' \in {"live", "success", "failure", "revoked"}
  BY DEF Lose, TypeOK
<1> QED
  BY <1>1, <1>2, OverType DEF Lose

\* The attempt begins from counters.
LEMMA StartType == ASSUME TypeOK, Start PROVE TypeOK'
<1> DEFINE resumed == IF Resumable(saved) THEN saved ELSE Zero(0)
<1>1. resumed \in Tally /\ resumed.srv \in Servers
  BY FirstServer, NewTypes DEF TypeOK, Tally
<1>2. state' \in Tally /\ loop' \in Loop /\ Report(resumed)
  BY <1>1, NewTypes DEF Start
<1>3. saved' \in Tally /\ far' \in Servers /\ faults' \in 0..MaxFaults
  BY <1>1, <1>2, ReportType
<1>4. won' \in SUBSET Ids /\ lost' \in SUBSET Ids /\ top' \in [Servers -> 0..MaxScore]
  BY DEF Start, TypeOK
<1> QED
  BY <1>2, <1>3, <1>4 DEF Start, TypeOK, Places

\* Every server begins from counters.
LEMMA EnterType == ASSUME TypeOK, Enter PROVE TypeOK'
<1>1. loop.at \in Servers
  BY DEF TypeOK, Loop
<1>2. Entered(loop.at) \in Tally
  BY <1>1, NewTypes DEF Entered, TypeOK
<1>3. state' \in Tally /\ Report(Entered(loop.at))
  BY <1>2 DEF Enter
<1>4. saved' \in Tally /\ far' \in Servers /\ faults' \in 0..MaxFaults
  BY <1>2, <1>3, ReportType
<1>5. won' \in SUBSET Ids /\ lost' \in SUBSET Ids
  BY DEF Enter, TypeOK
<1>6. top' \in [Servers -> 0..MaxScore]
  BY <1>1 DEF Enter, TypeOK
<1> QED
  BY <1>3, <1>4, <1>5, <1>6 DEF Enter, TypeOK, Places

\* Ending the batches of another server changes their rows alone.
LEMMA ForeignType ==
  ASSUME TypeOK, RevokeForeign \/ ForeignDone
  PROVE  TypeOK'
<1>1. CASE RevokeForeign
  <2>1. child' \in [Ids -> ChildRow]
    BY <1>1, EndChildType DEF RevokeForeign, LiveAmong, Foreign, TypeOK
  <2> QED
    BY <1>1, <2>1 DEF RevokeForeign, TypeOK, row, ghosts
<1>2. CASE ForeignDone
  <2>1. faults' \in 0..MaxFaults
    BY <1>2, ChargeType DEF ForeignDone, TypeOK
  <2> QED
    BY <1>2, <2>1 DEF ForeignDone, TypeOK, Places, row, ghosts
<1> QED
  BY <1>1, <1>2

\* The next server is a server, and a server that failed is left.
LEMMA NextServerType ==
  ASSUME TypeOK, NextServer \/ ServerRaises
  PROVE  TypeOK'
<1>1. loop.at \in Servers /\ loop.good \in SUBSET Servers
  BY DEF TypeOK, Loop
<1>2. CASE NextServer
  <2>1. loop' \in Loop
    <3>1. CASE loop.at + 1 < NumServers
      <4>1. loop.at + 1 \in Servers
        BY <1>1, <3>1 DEF Servers
      <4> QED
        BY <1>1, <1>2, <3>1, <4>1, NewTypes DEF NextServer
    <3>2. CASE ~(loop.at + 1 < NumServers)
      BY <1>1, <1>2, <3>2, NewTypes DEF NextServer
    <3> QED
      BY <3>1, <3>2
  <2> QED
    BY <1>2, <2>1 DEF NextServer, TypeOK, Places, row, ghosts
<1>3. CASE ServerRaises
  BY <1>1, <1>3, NewTypes, ChargeType DEF ServerRaises, TypeOK, Places, row, ghosts
<1> QED
  BY <1>2, <1>3

\* The end of an attempt.
LEMMA EndType ==
  ASSUME TypeOK, Summarize \/ Finish \/ Fail \/ StandDown \/ Crash
  PROVE  TypeOK'
<1>1. CASE Summarize
  <2> DEFINE tally == [state EXCEPT !.best = 0]
  <2>1. tally \in Tally /\ state.srv \in Servers
    BY DEF TypeOK, Tally
  <2>2. Report(tally) /\ state' \in Tally
    BY <1>1, <2>1 DEF Summarize, Report
  <2>3. saved' \in Tally /\ far' \in Servers /\ faults' \in 0..MaxFaults
    BY <2>1, <2>2, ReportType
  <2>4. top' \in [Servers -> 0..MaxScore]
    BY <1>1, <2>1 DEF Summarize, TypeOK
  <2> QED
    BY <1>1, <2>2, <2>3, <2>4 DEF Summarize, TypeOK, Places
<1>2. CASE Finish
  BY <1>2, OverType DEF Finish, TypeOK, row, ghosts
<1>3. CASE Fail
  <2>1. state \in Tally /\ state.srv \in Servers
    BY DEF TypeOK, Tally
  <2>2. saved' \in Tally /\ far' \in Servers /\ faults' \in 0..MaxFaults
    BY <1>3, <2>1, ReportType DEF Fail
  <2> QED
    BY <1>3, <2>2, LoseType DEF Fail, TypeOK, ghosts
<1>4. CASE StandDown
  BY <1>4, OverType DEF StandDown, TypeOK, row, ghosts
<1>5. CASE Crash
  BY <1>5, LoseType DEF Crash, TypeOK, row, ghosts
<1> QED
  BY <1>1, <1>2, <1>3, <1>4, <1>5

\* What a reap adds to the counters.
LEMMA AbsorbedType ==
  ASSUME TypeOK, NEW best \in 0..MaxScore, Unread # {}, IsBest(best, Unread),
         NEW stale \in StaleAfter(best, Unread)
  PROVE  Absorbed(best, stale, Unread) \in Tally
<1>1. Unread \in SUBSET Ids
  BY DEF Unread, EndedAmong, Of
<1>2. Cardinality(Unread) \in Nat /\ Cardinality(Unread) >= 1
  BY <1>1, Finite, NotEmptyCounts
<1>3. /\ Cardinality(Successes(Unread)) \in Nat
      /\ Cardinality(Unread \ Successes(Unread)) \in Nat
  BY <1>1, Finite DEF Successes
<1>4. state.best \in Nat /\ state.stale \in Nat /\ best \in Nat
  BY DEF TypeOK, Tally
<1>5. stale \in Nat
  <2>1. CASE best > state.best
    <3> DEFINE equal == {i \in Unread : child[i].score = best}
    <3>1. equal # {} /\ equal \in SUBSET Ids
      BY <1>1, <1>4, <2>1 DEF IsBest
    <3>2. Cardinality(equal) \in Nat /\ Cardinality(equal) >= 1
      BY <3>1, Finite, NotEmptyCounts
    <3>3. stale \in (Cardinality(equal) - 1)..(Cardinality(Unread) - 1)
      BY <2>1 DEF StaleAfter
    <3> QED
      BY <1>2, <3>2, <3>3
  <2>2. CASE ~(best > state.best)
    BY <1>2, <1>4, <2>2 DEF StaleAfter
  <2> QED
    BY <2>1, <2>2
<1>6. /\ state.srv \in Servers /\ state.launched \in Nat
      /\ state.runs \in Nat /\ state.failed \in Nat
  BY DEF TypeOK, Tally
<1>7. /\ state.runs + Cardinality(Successes(Unread)) \in Nat
      /\ state.failed + Cardinality(Unread \ Successes(Unread)) \in Nat
  BY <1>3, <1>6
<1> QED
  BY <1>5, <1>6, <1>7 DEF Absorbed, Tally

\* A reap takes rows away, and counts them or not.
LEMMA AbsorbType ==
  ASSUME TypeOK,
         Absorb("absorb", "marks") \/ Absorb("last", "tail")
  PROVE  TypeOK'
<1>1. pc' \in Places
  BY DEF Absorb, Places
<1>2. Reaped \in [Ids -> ChildRow]
  BY WithoutType DEF Reaped, TypeOK
<1>3. CASE AbsorbNothing
  BY <1>1, <1>2, <1>3 DEF AbsorbNothing, Absorb, TypeOK, row, ghosts
<1>4. CASE AbsorbSome
  <2>1. PICK best \in 0..MaxScore : \E stale \in StaleAfter(best, Unread) :
          LET tally == Absorbed(best, stale, Unread) IN
          /\ Unread # {}
          /\ IsBest(best, Unread)
          /\ \/ /\ Written(tally)
                /\ Counted(best, Unread)
                /\ state' = tally
                /\ loop' = [loop EXCEPT !.moved = @ \/ Successes(Unread) # {}]
             \/ Unwritten /\ Discard(tally) /\ UNCHANGED loop
    BY <1>4 DEF AbsorbSome
  <2>2. PICK stale \in StaleAfter(best, Unread) :
          LET tally == Absorbed(best, stale, Unread) IN
          /\ Unread # {}
          /\ IsBest(best, Unread)
          /\ \/ /\ Written(tally)
                /\ Counted(best, Unread)
                /\ state' = tally
                /\ loop' = [loop EXCEPT !.moved = @ \/ Successes(Unread) # {}]
             \/ Unwritten /\ Discard(tally) /\ UNCHANGED loop
    BY <2>1
  <2> DEFINE tally == Absorbed(best, stale, Unread)
  <2>3. tally \in Tally
    BY <2>2, AbsorbedType
  <2>4. Report(tally)
    BY <2>2 DEF Report
  <2>5. saved' \in Tally /\ far' \in Servers /\ faults' \in 0..MaxFaults
    BY <2>3, <2>4, ReportType
  <2>6. Unread \in SUBSET Ids /\ Successes(Unread) \in SUBSET Ids
    BY DEF Unread, EndedAmong, Of, Successes
  <2>7. CASE Written(tally) /\ Counted(best, Unread) /\ state' = tally
             /\ loop' = [loop EXCEPT !.moved = @ \/ Successes(Unread) # {}]
    <3>1. /\ won' \in SUBSET Ids /\ lost' \in SUBSET Ids
          /\ top' \in [Servers -> 0..MaxScore]
          /\ child' \in [Ids -> ChildRow]
      BY <1>2, <2>6, <2>7 DEF Counted, TypeOK
    <3>2. loop' \in Loop
      BY <2>7 DEF TypeOK, Loop
    <3> QED
      BY <1>1, <2>3, <2>5, <2>7, <3>1, <3>2 DEF Absorb, TypeOK
  <2>8. CASE Unwritten /\ Discard(tally) /\ UNCHANGED loop
    BY <1>1, <2>5, <2>8 DEF Absorb, Discard, TypeOK, ghosts
  <2> QED
    BY <2>2, <2>7, <2>8
<1> QED
  BY <1>3, <1>4 DEF Absorb

\* One pass, up to the launches.
LEMMA MarksType ==
  ASSUME TypeOK, Marks \/ MarksLost \/ LaunchDone
  PROVE  TypeOK'
<1>1. CASE Marks
  <2>1. /\ LiveAmong(child, Of(state.srv)) \in SUBSET Ids
        /\ RunningAmong(child, Of(state.srv)) \in SUBSET Ids
    BY DEF LiveAmong, RunningAmong, Of
  <2>2. loop' \in Loop
    BY <1>1, <2>1 DEF Marks, TypeOK, Loop, Limited
  <2> QED
    BY <1>1, <2>2 DEF Marks, TypeOK, Places, row, ghosts
<1>2. CASE MarksLost
  BY <1>2, ChargeType DEF MarksLost, TypeOK, Places, row, ghosts
<1>3. CASE LaunchDone
  BY <1>3 DEF LaunchDone, TypeOK, Places, row, ghosts
<1> QED
  BY <1>1, <1>2, <1>3

\* The batch a launch names is a batch.
LEMMA NextBatch ==
  ASSUME TypeOK, MayLaunch
  PROVE  /\ BatchId(state.srv, state.launched) \in Ids
         /\ state.launched \in Nat
  BY DEF TypeOK, Tally, MayLaunch, BatchId, Ids

\* A launch adds a row and counts it.
LEMMA LaunchType == ASSUME TypeOK, Launch PROVE TypeOK'
<1> DEFINE i == BatchId(state.srv, state.launched)
           tally == [state EXCEPT !.launched = @ + 1]
<1>1. i \in Ids /\ tally \in Tally
  BY NextBatch DEF Launch, TypeOK, Tally
<1>2. Enqueued(i) \in [Ids -> ChildRow]
  BY <1>1, RowTypes DEF Enqueued, TypeOK
<1>3. Report(tally)
  BY DEF Launch, Report
<1>4. saved' \in Tally /\ far' \in Servers /\ faults' \in 0..MaxFaults
  BY <1>1, <1>3, ReportType
<1>5. CASE Written(tally) /\ child' = Enqueued(i) /\ state' = tally
           /\ loop' = [loop EXCEPT !.out = @ \cup {i}, !.moved = TRUE]
           /\ stir' = (stir \/ child[i].st = "none")
           /\ pc' = "launch"
  <2>1. loop' \in Loop
    BY <1>1, <1>5 DEF TypeOK, Loop
  <2> QED
    BY <1>1, <1>2, <1>4, <1>5, <2>1 DEF Launch, TypeOK, Places, ghosts
<1>6. CASE Unwritten /\ RolledBack(i) /\ pc' = "observe"
  BY <1>4, <1>6 DEF Launch, RolledBack, TypeOK, Places, ghosts
<1> QED
  BY <1>5, <1>6 DEF Launch

\* The rest of the pass.
LEMMA ObserveType ==
  ASSUME TypeOK,
         ObserveMoved \/ ObserveQuiet \/ GiveUp \/ EndVictim \/ GivenUp
         \/ EndOfPass \/ Tail
  PROVE  TypeOK'
<1>1. CASE ObserveMoved
  <2>1. loop' \in Loop
    BY <1>1 DEF ObserveMoved, TypeOK, Loop
  <2>2. saved' \in Tally /\ far' \in Servers /\ faults' \in 0..MaxFaults
    BY <1>1, ReportType DEF ObserveMoved, TypeOK
  <2> QED
    BY <1>1, <2>1, <2>2 DEF ObserveMoved, TypeOK, Places, ghosts
<1>2. CASE ObserveQuiet
  BY <1>2 DEF ObserveQuiet, TypeOK, Places, row, ghosts
<1>3. CASE GiveUp
  <2>1. StalledVictims(loop.held, loop.shown) \in SUBSET Ids
    BY DEF StalledVictims, TypeOK, Loop
  <2>2. loop' \in Loop
    BY <1>3, <2>1 DEF GiveUp, TypeOK, Loop
  <2> QED
    BY <1>3, <2>2 DEF GiveUp, TypeOK, Places, row, ghosts
<1>4. CASE EndVictim
  <2>1. PICK i \in loop.victims :
          /\ loop' = [loop EXCEPT !.victims = @ \ {i}]
          /\ \/ /\ child' = EndChild(child, i, "revoked")
                /\ stir' = (stir \/ child[i].st \in Live)
                /\ UNCHANGED faults
             \/ Charge("unended") /\ UNCHANGED <<child, stir>>
    BY <1>4 DEF EndVictim
  <2>2. i \in Ids /\ loop' \in Loop
    BY <2>1 DEF TypeOK, Loop
  <2>3. child' \in [Ids -> ChildRow]
    BY <2>1, <2>2, EndChildType DEF TypeOK
  <2>4. stir' \in BOOLEAN /\ faults' \in 0..MaxFaults
    BY <2>1, ChargeType DEF TypeOK
  <2> QED
    BY <1>4, <2>2, <2>3, <2>4 DEF EndVictim, TypeOK, row, ghosts
<1>5. CASE GivenUp
  <2>1. OneMore(loop.gives) \in 0..MaxGiveUps
    BY DEF OneMore, TypeOK, Loop
  <2>2. loop' \in Loop
    BY <1>5, <2>1 DEF GivenUp, Exhausted, TypeOK, Loop
  <2>3. saved' \in Tally /\ far' \in Servers /\ faults' \in 0..MaxFaults
    BY <1>5, ReportType DEF GivenUp, TypeOK
  <2> QED
    BY <1>5, <2>2, <2>3 DEF GivenUp, TypeOK, Places, ghosts
<1>6. CASE EndOfPass
  <2>1. loop' \in Loop
    BY <1>6 DEF EndOfPass, TypeOK, Loop
  <2> QED
    BY <1>6, <2>1 DEF EndOfPass, TypeOK, Places, row, ghosts
<1>7. CASE Tail
  <2>1. loop' \in Loop
    BY <1>7 DEF Tail, TypeOK, Loop
  <2>2. saved' \in Tally /\ far' \in Servers /\ faults' \in 0..MaxFaults
    BY <1>7, ReportType DEF Tail, TypeOK
  <2> QED
    BY <1>7, <2>1, <2>2 DEF Tail, TypeOK, Places, ghosts
<1> QED
  BY <1>1, <1>2, <1>3, <1>4, <1>5, <1>6, <1>7

\* What happens to one batch, and to all of them at a cancel.
LEMMA BatchType ==
  ASSUME TypeOK, Cancel \/ \E i \in Ids : Batch(i) \/ Orphan(i)
  PROVE  TypeOK'
<1>1. CASE Cancel
  BY <1>1, ChargeType, RowTypes DEF Cancel, TypeOK, row, ghosts
<1>2. ASSUME NEW i \in Ids, Batch(i)
      PROVE  TypeOK'
  <2>1. child[i] \in ChildRow
    BY DEF TypeOK
  <2>2. child' \in [Ids -> ChildRow]
    BY <1>2, <2>1, RowTypes DEF Batch, TypeOK
  <2>3. stir' \in BOOLEAN
    BY <1>2 DEF Batch, Shows, TypeOK
  <2> QED
    BY <1>2, <2>2, <2>3 DEF Batch, TypeOK, row, ghosts
<1>3. ASSUME NEW i \in Ids, Orphan(i)
      PROVE  TypeOK'
  BY <1>3, RowTypes DEF Orphan, TypeOK, row, ghosts
<1> QED
  BY <1>1, <1>2, <1>3

\* The attempt, the batches, the user and the faults keep every part of the state
\* in its type: TypeOK is an invariant of the run.
THEOREM ClusterTypeOK == Spec => []TypeOK
<1>1. Init => TypeOK
  <2> SUFFICES ASSUME Init PROVE TypeOK
    OBVIOUS
  <2>1. child \in [Ids -> ChildRow]
    BY RowTypes DEF Init
  <2>2. saved \in Tally /\ state \in Tally /\ loop \in Loop /\ far \in Servers
    BY FirstServer, NewTypes DEF Init
  <2>3. tries \in 0..MaxRestarts /\ faults \in 0..MaxFaults
    BY DEF Init
  <2>4. top \in [Servers -> 0..MaxScore]
    BY DEF Init
  <2>5. pc \in Places /\ stir \in BOOLEAN /\ parent = "live"
        /\ won \in SUBSET Ids /\ lost \in SUBSET Ids
    BY DEF Init, Places
  <2> QED
    BY <2>1, <2>2, <2>3, <2>4, <2>5 DEF TypeOK
<1>2. TypeOK /\ [Next]_vars => TypeOK'
  <2> SUFFICES ASSUME TypeOK, [Next]_vars PROVE TypeOK'
    OBVIOUS
  <2>1. CASE Next
    BY <2>1, StartType, EnterType, ForeignType, NextServerType, EndType, AbsorbType,
       MarksType, LaunchType, ObserveType, BatchType DEF Next, Attempt, Loops
  <2>2. CASE UNCHANGED vars
    BY <2>2 DEF vars, TypeOK
  <2> QED
    BY <2>1, <2>2
<1> QED
  BY <1>1, <1>2, PTL DEF Spec
-------------------------------------------------------------------------------
(* The tail of a server *)

\* What the parent read holds every batch that is live since: only the parent
\* launches, and it lists what it launches.
Listed ==
  pc \in {"launch", "observe", "giveup", "test"} =>
    LiveAmong(child, Of(state.srv)) \subseteq loop.out

\* The rows change, and none of them comes to life.
NoneRevived ==
  \A i \in Ids : child'[i].st \in Live => child[i].st \in Live

\* The list then still holds all that is live, and what was drained stays so.
LEMMA StaysListed ==
  ASSUME TypeOK, Listed, DrainedBeforeTail, NoneRevived,
         UNCHANGED <<pc, state, loop>>
  PROVE  Listed' /\ DrainedBeforeTail'
BY DEF Listed, DrainedBeforeTail, NoneRevived, LiveAmong, Of

\* Ending a child revives none.
LEMMA EndRevivesNone ==
  ASSUME TypeOK, NEW i \in Ids, child' = EndChild(child, i, "revoked")
  PROVE  NoneRevived
BY DEF EndChild, Row, Live, NoneRevived, TypeOK

\* Neither does what a worker makes of a row.
LEMMA BatchRevivesNone ==
  ASSUME TypeOK, NEW i \in Ids, Batch(i) \/ Orphan(i)
  PROVE  NoneRevived
<1>1. CASE Batch(i)
  <2>1. child[i].st \in Live /\ \A j \in Ids \ {i} : child'[j] = child[j]
    BY <1>1 DEF Batch, Live, TypeOK
  <2> QED
    BY <2>1 DEF NoneRevived
<1>2. CASE Orphan(i)
  BY <1>2 DEF Orphan, NoRow, Row, Live, NoneRevived, TypeOK
<1> QED
  BY <1>1, <1>2

\* Nor does a reap.
LEMMA ReapRevivesNone ==
  ASSUME TypeOK, child' = Reaped \/ UNCHANGED child
  PROVE  NoneRevived
BY DEF Reaped, Without, NoRow, Row, Live, NoneRevived, TypeOK

\* A reap takes rows away, or leaves them all.
LEMMA AbsorbChild ==
  ASSUME NEW here, NEW there, Absorb(here, there)
  PROVE  child' = Reaped \/ UNCHANGED child
BY DEF Absorb, AbsorbNothing, AbsorbSome, Counted, Discard

\* Every step keeps the list.
LEMMA ListedStep ==
  ASSUME TypeOK, Listed, DrainedBeforeTail, [Next]_vars
  PROVE  Listed' /\ DrainedBeforeTail'
<1> USE DEF Listed, DrainedBeforeTail
<1>1. ASSUME pc' \notin {"launch", "observe", "giveup", "test", "last", "tail"}
      PROVE  Listed' /\ DrainedBeforeTail'
  BY <1>1
<1>2. CASE Start \/ Enter \/ RevokeForeign \/ ForeignDone \/ NextServer \/ Summarize
           \/ Finish \/ Fail \/ StandDown \/ Crash \/ Tail \/ MarksLost
           \/ ServerRaises \/ Absorb("absorb", "marks")
  BY <1>1, <1>2 DEF Start, Enter, RevokeForeign, ForeignDone, NextServer, Summarize,
     Finish, Fail, StandDown, Crash, Over, Lose, Tail, MarksLost, ServerRaises, Absorb
<1>3. CASE Absorb("last", "tail")
  <2>1. NoneRevived
    BY <1>3, AbsorbChild, ReapRevivesNone
  <2>2. pc = "last" /\ pc' = "tail"
    BY <1>3 DEF Absorb
  <2>3. state'.srv = state.srv
    <3>1. CASE UNCHANGED state
      BY <3>1
    <3>2. ASSUME NEW best, NEW stale, state' = Absorbed(best, stale, Unread)
          PROVE  state'.srv = state.srv
      BY <3>2 DEF Absorbed
    <3> QED
      BY <1>3, <3>1, <3>2 DEF Absorb, AbsorbNothing, AbsorbSome, Discard
  <2> QED
    BY <2>1, <2>2, <2>3 DEF NoneRevived, LiveAmong, Of
<1>4. CASE Marks
  BY <1>4 DEF Marks, TypeOK, Loop
<1>5. CASE Launch
  <2> DEFINE i == BatchId(state.srv, state.launched)
  <2>1. CASE UNCHANGED <<child, state, loop>>
    BY <1>5, <2>1 DEF Launch
  <2>2. CASE /\ child' = Enqueued(i) /\ state' = [state EXCEPT !.launched = @ + 1]
             /\ loop' = [loop EXCEPT !.out = @ \cup {i}, !.moved = TRUE]
             /\ pc' = "launch"
    <3>1. i \in Ids
      BY <1>5, NextBatch DEF Launch
    <3>2. state'.srv = state.srv /\ loop'.out = loop.out \cup {i}
      BY <2>2 DEF TypeOK, Tally, Loop
    <3>3. \A j \in Ids \ {i} : child'[j] = child[j]
      BY <2>2, <3>1 DEF Enqueued, TypeOK
    <3> QED
      BY <1>5, <2>2, <3>1, <3>2, <3>3 DEF Launch, LiveAmong, Of
  <2> QED
    BY <1>5, <2>1, <2>2 DEF Launch, RolledBack
<1>6. CASE LaunchDone
  BY <1>6 DEF LaunchDone
<1>7. CASE ObserveMoved \/ ObserveQuiet \/ GiveUp \/ GivenUp
  BY <1>7 DEF ObserveMoved, ObserveQuiet, GiveUp, GivenUp, TypeOK, Loop
<1>8. CASE EndVictim
  <2>1. NoneRevived
    BY <1>8, EndRevivesNone DEF EndVictim, NoneRevived, TypeOK, Loop
  <2>2. loop'.out = loop.out
    BY <1>8 DEF EndVictim, TypeOK, Loop
  <2> QED
    BY <1>8, <2>1, <2>2 DEF EndVictim, NoneRevived, LiveAmong, Of
<1>9. CASE EndOfPass
  BY <1>1, <1>9 DEF EndOfPass, Drained
<1>10. ASSUME NEW i \in Ids, Batch(i) \/ Orphan(i)
       PROVE  Listed' /\ DrainedBeforeTail'
  BY <1>10, BatchRevivesNone, StaysListed DEF Batch, Orphan
<1>11. CASE Cancel
  <2>1. NoneRevived
    BY <1>11 DEF Cancel, NoRow, Row, Live, NoneRevived
  <2> QED
    BY <1>11, <2>1, StaysListed DEF Cancel
<1>12. CASE UNCHANGED vars
  BY <1>12 DEF vars
<1> QED
  BY <1>2, <1>3, <1>4, <1>5, <1>6, <1>7, <1>8, <1>9, <1>10, <1>11, <1>12
     DEF Next, Attempt, Loops

\* When the parent writes the playlists of a server, no batch of it is queued or
\* running, although the list it decided from is older than the decision.
THEOREM ClusterDrained == Spec => []DrainedBeforeTail
<1>1. Init => Listed /\ DrainedBeforeTail
  BY DEF Init, Listed, DrainedBeforeTail
<1>2. TypeOK /\ Listed /\ DrainedBeforeTail /\ [Next]_vars
      => Listed' /\ DrainedBeforeTail'
  BY ListedStep
<1> QED
  BY <1>1, <1>2, ClusterTypeOK, PTL DEF Spec

-------------------------------------------------------------------------------
(* The cancel *)

\* A cancelled run stays cancelled and without batches: a launch needs the row of
\* the parent to be live in the transaction that commits it.
THEOREM ClusterCancelSticks == Spec => []CancelSticks
<1>1. Init => CancelSticks
  BY DEF Init, CancelSticks
<1>2. TypeOK /\ CancelSticks /\ [Next]_vars => CancelSticks'
  <2> SUFFICES ASSUME TypeOK, CancelSticks, [Next]_vars, parent' = "revoked",
                      NEW i \in Ids
               PROVE  child'[i].st = "none"
    BY DEF CancelSticks
  <2>1. CASE Cancel
    BY <2>1 DEF Cancel, NoRow, Row
  <2> SUFFICES ASSUME ~Cancel PROVE child'[i].st = "none"
    BY <2>1
  <2>2. parent = "revoked"
    BY DEF Next, Attempt, Loops, Start, Enter, RevokeForeign, ForeignDone, NextServer,
       Summarize, Finish, Fail, StandDown, Crash, Lose, Tail, Marks, MarksLost,
       ServerRaises, Absorb, Launch, LaunchDone, ObserveMoved, ObserveQuiet, GiveUp,
       GivenUp, EndVictim, EndOfPass, Batch, Orphan, vars
  <2>3. child[i].st = "none"
    BY <2>2 DEF CancelSticks
  <2>4. CASE Absorb("absorb", "marks") \/ Absorb("last", "tail")
    <3>1. child' = Reaped \/ UNCHANGED child
      BY <2>4, AbsorbChild
    <3> QED
      BY <2>3, <3>1 DEF Reaped, Without, NoRow, Row, TypeOK
  <2>5. CASE Launch
    BY <2>2, <2>3, <2>5 DEF Launch, Written, RolledBack
  <2>6. CASE EndVictim \/ RevokeForeign
    BY <2>2, <2>3, <2>6 DEF EndVictim, RevokeForeign, EndChild, CancelSticks, LiveAmong,
       Foreign, Live, TypeOK, Loop
  <2>7. ASSUME NEW j \in Ids, Batch(j) \/ Orphan(j)
        PROVE  child'[i].st = "none"
    BY <2>2, <2>3, <2>7 DEF Batch, Orphan, NoRow, Row, TypeOK
  <2>8. CASE UNCHANGED child
    BY <2>3, <2>8
  <2> QED
    BY <2>4, <2>5, <2>6, <2>7, <2>8
       DEF Next, Attempt, Loops, Start, Enter, ForeignDone, NextServer, Summarize, Finish,
       Fail, StandDown, Crash, Tail, Marks, MarksLost, ServerRaises, LaunchDone,
       ObserveMoved, ObserveQuiet, GiveUp, GivenUp, EndOfPass, vars
<1> QED
  BY <1>1, <1>2, ClusterTypeOK, PTL DEF Spec
-------------------------------------------------------------------------------
(* Nothing is lost and nothing counted twice, while reports are not *)

\* A batch nobody launched yet.
Untouched(i) == child[i].st = "none" /\ i \notin won \cup lost

\* The memory of the attempt is what the row says.
Mirror == pc # "off" => state = saved

\* Beyond the latest server the row has named nothing was launched, nor at that
\* server when the run was thrown back behind it.
Ahead ==
  \A i \in Ids :
    i[1] > far \/ (i[1] = far /\ saved.srv < far) => Untouched(i)

Kept == parent = "live" => Mirror /\ saved.srv <= far /\ Ahead

Books == Kept /\ EveryBatchOnce /\ TallyIsExact

\* A step that leaves the row of a live run alone, and what the books are about.
Still ==
  parent' = "live" =>
    /\ parent = "live"
    /\ UNCHANGED <<saved, far, won, lost, top>>
    /\ \A i \in Ids : child'[i].st = "none" <=> child[i].st = "none"
    /\ pc' = "off" \/ (pc # "off" /\ state' = state)

\* The numbers of a server and of the launches are numbers.
LEMMA TallyNumbers ==
  ASSUME TypeOK
  PROVE  /\ far \in Nat /\ saved.srv \in Nat /\ state.srv \in Nat /\ loop.at \in Nat
         /\ saved.srv \in Servers /\ state.srv \in Servers /\ loop.at \in Servers
         /\ saved.launched \in Nat /\ saved.runs \in Nat /\ saved.failed \in Nat
         /\ state.launched \in Nat /\ state.runs \in Nat /\ state.failed \in Nat
         /\ \A i \in Ids : i[1] \in Nat /\ i[2] \in Nat
         /\ \A s \in Servers : s >= 0
<1>1. \A s \in Servers : s \in Nat /\ s >= 0
  BY DEF Servers
<1>2. \A i \in Ids : i[1] \in Nat /\ i[2] \in Nat
  BY <1>1 DEF Ids
<1>3. /\ far \in Servers /\ saved.srv \in Servers /\ state.srv \in Servers
      /\ loop.at \in Servers
      /\ saved.launched \in Nat /\ saved.runs \in Nat /\ saved.failed \in Nat
      /\ state.launched \in Nat /\ state.runs \in Nat /\ state.failed \in Nat
  BY DEF TypeOK, Tally, Loop
<1> QED
  BY <1>1, <1>2, <1>3

\* Books that are left alone stay in order.
LEMMA StillKeeps == ASSUME TypeOK, Books, Still PROVE Books'
<1> SUFFICES ASSUME parent' = "live" PROVE Books'
  BY DEF Books, Kept, EveryBatchOnce, TallyIsExact, InPlace
<1>1. /\ parent = "live" /\ UNCHANGED <<saved, far, won, lost, top>>
      /\ \A i \in Ids : child'[i].st = "none" <=> child[i].st = "none"
  BY DEF Still
<1>2. Kept'
  BY <1>1 DEF Still, Books, Kept, Mirror, Ahead, Untouched
<1>3. EveryBatchOnce'
  BY <1>1 DEF Books, EveryBatchOnce, InPlace, Of
<1>4. TallyIsExact'
  BY <1>1 DEF Books, TallyIsExact, InPlace
<1> QED
  BY <1>2, <1>3, <1>4 DEF Books

\* With no report lost, a report of a live run is written.
LEMMA ReportIsWritten ==
  ASSUME "unwritten" \notin Faults, parent = "live", NEW tally,
         Report(tally) \/ Unwritten
  PROVE  Written(tally)
BY DEF Report, Unwritten, Charge

\* A report of what is on the row already changes nothing.
LEMMA ReportAgain ==
  ASSUME "unwritten" \notin Faults, TypeOK, Books, parent = "live", pc # "off",
         Report(state)
  PROVE  UNCHANGED <<saved, far>>
<1>1. Written(state)
  BY ReportIsWritten
<1> QED
  BY <1>1, TallyNumbers DEF Written, Books, Kept, Mirror

\* What neither enters a server, nor reaps, nor launches leaves the books alone.
LEMMA OthersStill ==
  ASSUME "unwritten" \notin Faults, TypeOK, Books,
         \/ RevokeForeign \/ ForeignDone \/ Marks \/ MarksLost \/ LaunchDone
         \/ ObserveMoved \/ ObserveQuiet \/ GiveUp \/ EndVictim \/ GivenUp \/ EndOfPass
         \/ Tail \/ ServerRaises \/ NextServer \/ Finish \/ Fail \/ StandDown
         \/ (\E i \in Ids : Batch(i) \/ Orphan(i)) \/ Cancel \/ Crash \/ UNCHANGED vars
  PROVE  Still
<1> SUFFICES ASSUME parent' = "live" PROVE Still
  BY DEF Still
<1> USE DEF Still
<1>1. ASSUME NEW i \in Ids, child' = EndChild(child, i, "revoked")
      PROVE  \A j \in Ids : child'[j].st = "none" <=> child[j].st = "none"
  BY <1>1 DEF EndChild, Row, Live, TypeOK
<1>2. CASE RevokeForeign
  BY <1>1, <1>2 DEF RevokeForeign, LiveAmong, Foreign, row, ghosts
<1>3. CASE ForeignDone \/ Marks \/ MarksLost \/ LaunchDone \/ ObserveQuiet \/ GiveUp
           \/ EndOfPass \/ ServerRaises \/ NextServer
  BY <1>3 DEF ForeignDone, Marks, MarksLost, LaunchDone, ObserveQuiet, GiveUp, EndOfPass,
     ServerRaises, NextServer, row, ghosts
<1>10. CASE Fail
  <2>1. parent = "live" /\ pc # "off" /\ Report(state) /\ UNCHANGED <<child, ghosts>>
    BY <1>10 DEF Fail, Lose
  <2>2. UNCHANGED <<saved, far>>
    BY <2>1, ReportAgain
  <2> QED
    BY <1>10, <2>1, <2>2 DEF Fail, Lose, Over, ghosts
<1>4. CASE ObserveMoved \/ GivenUp \/ Tail
  BY <1>4, ReportAgain DEF ObserveMoved, GivenUp, Tail, ghosts
<1>5. CASE EndVictim
  <2>1. \A j \in Ids : child'[j].st = "none" <=> child[j].st = "none"
    BY <1>1, <1>5 DEF EndVictim, TypeOK, Loop
  <2> QED
    BY <1>5, <2>1 DEF EndVictim, row, ghosts
<1>6. CASE Finish \/ StandDown \/ Crash
  BY <1>6 DEF Finish, StandDown, Crash, Lose, Over, row, ghosts
<1>7. ASSUME NEW i \in Ids, Batch(i) \/ Orphan(i)
      PROVE  Still
  <2>1. parent = "live" /\ Batch(i)
    BY <1>7 DEF Batch, Orphan
  <2>2. \A j \in Ids : child'[j].st = "none" <=> child[j].st = "none"
    BY <2>1 DEF Batch, Claimed, Beaten, Charged, Succeeded, Row, TypeOK, ChildRow
  <2> QED
    BY <2>1, <2>2 DEF Batch, row, ghosts
<1>8. CASE Cancel
  BY <1>8 DEF Cancel
<1>9. CASE UNCHANGED vars
  BY <1>9 DEF vars
<1> QED
  BY <1>2, <1>3, <1>4, <1>5, <1>6, <1>7, <1>8, <1>9, <1>10

\* A run that starts over or goes on from its row keeps its books.
LEMMA StartKeeps ==
  ASSUME "unwritten" \notin Faults, TypeOK, Books, Start
  PROVE  Books'
<1>1. parent = "live" /\ parent' = "live" /\ child' = child
  BY DEF Start
<1>2. saved.srv <= far /\ Ahead
  BY <1>1 DEF Books, Kept
<1>3. CASE Resumable(saved)
  <2>1. Written(saved) /\ state' = saved /\ UNCHANGED <<won, lost, top>>
    BY <1>1, <1>3, ReportIsWritten DEF Start
  <2>2. UNCHANGED <<saved, far>>
    BY <1>2, <2>1, TallyNumbers DEF Written
  <2> QED
    BY <1>1, <2>1, <2>2
       DEF Books, Kept, Mirror, Ahead, Untouched, EveryBatchOnce, TallyIsExact, InPlace
<1>4. CASE ~Resumable(saved)
  <2>1. /\ Written(Zero(0)) /\ state' = Zero(0)
        /\ won' = {} /\ lost' = {} /\ top' = [s \in Servers |-> 0]
    BY <1>1, <1>4, ReportIsWritten DEF Start
  <2>2. saved' = Zero(0) /\ saved'.srv = 0 /\ far' = far
    BY <2>1, TallyNumbers DEF Written, Zero
  <2>3. saved.launched = 0 /\ saved.runs = 0
    BY <1>4, TallyNumbers DEF Resumable
  <2>4. \A i \in Ids : i[1] > far \/ i[1] = far => child[i].st = "none"
    <3>1. CASE saved.srv < far
      BY <1>2, <3>1 DEF Ahead, Untouched
    <3>2. CASE saved.srv = far
      <4>1. \A i \in Of(far) : child[i].st = "none"
        BY <1>1, <2>3, <3>2, TallyNumbers DEF Books, EveryBatchOnce, InPlace, Of
      <4> QED
        BY <1>2, <4>1 DEF Ahead, Untouched, Of
    <3> QED
      BY <1>2, <3>1, <3>2, TallyNumbers
  <2>5. Kept'
    BY <1>1, <2>1, <2>2, <2>4, TallyNumbers DEF Kept, Mirror, Ahead, Untouched
  <2>6. EveryBatchOnce'
    BY <1>1, <2>1, <2>2, <2>4, TallyNumbers DEF EveryBatchOnce, InPlace, Of, Zero
  <2>7. TallyIsExact'
    <3>1. {i \in won' : i \in Of(0)} = {} /\ {i \in lost' : i \in Of(0)} = {}
      BY <2>1
    <3>2. saved'.runs = 0 /\ saved'.failed = 0 /\ saved'.best = 0 /\ top'[0] = 0
      BY <2>1, <2>2, FirstServer DEF Zero
    <3> QED
      BY <2>2, <3>1, <3>2, FS_EmptySet DEF TallyIsExact
  <2> QED
    BY <2>5, <2>6, <2>7 DEF Books
<1> QED
  BY <1>3, <1>4

\* A server that is entered later than any before has nothing in the books.
LEMMA EnterKeeps ==
  ASSUME "unwritten" \notin Faults, TypeOK, Books, Enter
  PROVE  Books'
<1> SUFFICES ASSUME parent = "live" PROVE Books'
  BY DEF Enter, Books, Kept, EveryBatchOnce, TallyIsExact, InPlace
<1> DEFINE s == loop.at
<1>1. saved.srv <= far /\ Ahead /\ state = saved /\ parent' = "live" /\ child' = child
  BY DEF Books, Kept, Mirror, Enter
<1>2. Written(Entered(s)) /\ state' = Entered(s)
  BY ReportIsWritten DEF Enter
<1>3. CASE ~(s > state.srv)
  <2>1. Entered(s) = saved /\ UNCHANGED <<won, lost, top>>
    BY <1>1, <1>3 DEF Enter, Entered
  <2>2. UNCHANGED <<saved, far, state>>
    BY <1>1, <1>2, <2>1, TallyNumbers DEF Written
  <2> QED
    BY <1>1, <2>1, <2>2
       DEF Books, Kept, Mirror, Ahead, Untouched, EveryBatchOnce, TallyIsExact, InPlace
<1>4. CASE s > state.srv
  <2>1. saved' = Zero(s) /\ state' = Zero(s) /\ Zero(s).srv = s
    BY <1>2, <1>4 DEF Entered, Written, Zero
  <2>2. far' = IF s > far THEN s ELSE far
    BY <1>2, <1>4, <2>1 DEF Entered, Written
  <2>3. won' = won \ Of(s) /\ lost' = lost \ Of(s) /\ top' = [top EXCEPT ![s] = 0]
    BY <1>4 DEF Enter
  <2>4. s \in Nat /\ s \in Servers /\ far \in Nat /\ state.srv \in Nat
    BY TallyNumbers
  <2>5. Kept'
    BY <1>1, <1>4, <2>1, <2>2, <2>3, <2>4, TallyNumbers
       DEF Kept, Mirror, Ahead, Untouched, Of
  <2>6. saved'.srv = far' => \A i \in Of(s) : child'[i].st = "none"
    BY <1>1, <1>4, <2>1, <2>2, <2>4, TallyNumbers DEF Ahead, Untouched, Of
  <2>7. EveryBatchOnce'
    BY <2>1, <2>3, <2>6, TallyNumbers DEF EveryBatchOnce, InPlace, Zero, Of
  <2>8. TallyIsExact'
    <3>1. {i \in won' : i \in Of(s)} = {} /\ {i \in lost' : i \in Of(s)} = {}
      BY <2>3
    <3>2. saved'.runs = 0 /\ saved'.failed = 0 /\ saved'.best = 0 /\ top'[s] = 0
      BY <2>1, <2>3, <2>4 DEF Zero, TypeOK
    <3> QED
      BY <2>1, <3>1, <3>2, FS_EmptySet DEF TallyIsExact
  <2> QED
    BY <2>5, <2>7, <2>8 DEF Books
<1> QED
  BY <1>3, <1>4

\* The last report drops the best result, and the books with it.
LEMMA SummarizeKeeps ==
  ASSUME "unwritten" \notin Faults, TypeOK, Books, Summarize
  PROVE  Books'
<1> SUFFICES ASSUME parent = "live" PROVE Books'
  BY DEF Summarize, Books, Kept, EveryBatchOnce, TallyIsExact, InPlace
<1> DEFINE tally == [state EXCEPT !.best = 0]
<1>1. saved.srv <= far /\ Ahead /\ state = saved
  BY DEF Books, Kept, Mirror, Summarize
<1>2. /\ Written(tally) /\ state' = tally /\ top' = [top EXCEPT ![state.srv] = 0]
      /\ UNCHANGED <<child, parent, won, lost>>
  <2>1. ~Unwritten
    BY DEF Unwritten, Charge
  <2> QED
    BY <2>1 DEF Summarize
<1>3. /\ tally.srv = saved.srv /\ tally.launched = saved.launched
      /\ tally.runs = saved.runs /\ tally.failed = saved.failed /\ tally.best = 0
  BY <1>1 DEF TypeOK, Tally
<1>4. saved' = tally /\ far' = far
  BY <1>1, <1>2, <1>3, TallyNumbers DEF Written
<1>5. top'[saved.srv] = 0
  BY <1>1, <1>2, TallyNumbers DEF TypeOK
<1>6. Kept'
  BY <1>1, <1>2, <1>3, <1>4 DEF Kept, Mirror, Ahead, Untouched
<1>7. EveryBatchOnce'
  BY <1>2, <1>3, <1>4 DEF Books, EveryBatchOnce, InPlace
<1>8. TallyIsExact'
  BY <1>2, <1>3, <1>4, <1>5 DEF Books, TallyIsExact, InPlace
<1> QED
  BY <1>6, <1>7, <1>8 DEF Books

\* Batches that were not counted before add up with those that were.
LEMMA CountsAdd ==
  ASSUME NEW old \in SUBSET Ids, NEW new \in SUBSET Ids, NEW s,
         new \subseteq Of(s), old \cap new = {}
  PROVE  Cardinality({i \in old \cup new : i \in Of(s)})
           = Cardinality({i \in old : i \in Of(s)}) + Cardinality(new)
<1> DEFINE before == {i \in old : i \in Of(s)}
<1>1. IsFiniteSet(before) /\ IsFiniteSet(new)
  BY Finite
<1>2. {i \in old \cup new : i \in Of(s)} = before \cup new
  OBVIOUS
<1>3. before \cap new = {}
  OBVIOUS
<1>4. Cardinality(before \cup new)
        = Cardinality(before) + Cardinality(new) - Cardinality(before \cap new)
  BY <1>1, FS_Union
<1>5. Cardinality(before \cap new) = 0
  BY <1>3, FS_EmptySet
<1>6. Cardinality(before) \in Nat /\ Cardinality(new) \in Nat
  BY Finite
<1> HIDE DEF before
<1>7. Cardinality(before \cup new) = Cardinality(before) + Cardinality(new)
  BY <1>4, <1>5, <1>6
<1> QED
  BY <1>2, <1>7 DEF before

\* A reap moves what it takes from the rows to the counters, in one write.
LEMMA CountedKeeps ==
  ASSUME TypeOK, Books, parent = "live", parent' = "live", pc # "off",
         NEW best \in 0..MaxScore, NEW stale,
         Written(Absorbed(best, stale, Unread)), Counted(best, Unread),
         state' = Absorbed(best, stale, Unread)
  PROVE  Books'
<1> DEFINE tally == Absorbed(best, stale, Unread)
           s == saved.srv
<1>1. s <= far /\ Ahead /\ state = saved
  BY DEF Books, Kept, Mirror
<1>2. /\ tally.srv = s /\ tally.launched = saved.launched
      /\ tally.runs = saved.runs + Cardinality(Successes(Unread))
      /\ tally.failed = saved.failed + Cardinality(Unread \ Successes(Unread))
      /\ tally.best = best
  BY <1>1 DEF Absorbed
<1>3. saved' = tally /\ far' = far /\ state' = tally
  BY <1>1, <1>2, TallyNumbers DEF Written
<1>4. /\ child' = Reaped /\ won' = won \cup Successes(Unread)
      /\ lost' = lost \cup (Unread \ Successes(Unread)) /\ top' = [top EXCEPT ![s] = best]
  BY <1>1 DEF Counted
<1>5. /\ Unread \in SUBSET Ids /\ Unread \subseteq Of(s)
      /\ Successes(Unread) \in SUBSET Unread
      /\ \A i \in Unread : child[i].st # "none"
  BY <1>1 DEF Unread, EndedAmong, Of, Successes, Ended
<1>6. \A i \in Ids : child'[i].st = IF child[i].st \in Ended THEN "none" ELSE child[i].st
  BY <1>4 DEF Reaped, Without, EndedAmong, NoRow, Row, TypeOK
<1>7. won' \cup lost' = won \cup lost \cup Unread
  BY <1>4, <1>5
<1>8. Kept'
  <2>1. \A i \in Ids : i[1] > far \/ (i[1] = far /\ s < far) => i \notin Of(s)
    BY <1>1, TallyNumbers DEF Of
  <2>2. \A i \in Ids : Untouched(i) /\ i \notin Of(s) => Untouched(i)'
    BY <1>5, <1>6, <1>7 DEF Untouched
  <2>3. Ahead'
    BY <1>1, <1>2, <1>3, <2>1, <2>2 DEF Ahead
  <2> QED
    BY <1>1, <1>2, <1>3, <2>3 DEF Kept, Mirror
<1>9. EveryBatchOnce'
  <2> SUFFICES ASSUME s = far, NEW i \in Of(s)
               PROVE  IF i[2] < saved.launched
                      THEN child'[i].st # "none" <=> i \notin won' \cup lost'
                      ELSE child'[i].st = "none" /\ i \notin won' \cup lost'
    BY <1>2, <1>3 DEF EveryBatchOnce, InPlace
  <2>1. i \in Unread <=> child[i].st \in Ended
    BY <1>1 DEF Unread, EndedAmong, Of
  <2>2. IF i[2] < saved.launched
        THEN child[i].st # "none" <=> i \notin won \cup lost
        ELSE child[i].st = "none" /\ i \notin won \cup lost
    BY DEF Books, EveryBatchOnce, InPlace
  <2>3. i \in Ids
    BY DEF Of
  <2> QED
    BY <1>6, <1>7, <2>1, <2>2, <2>3 DEF Ended
<1>10. TallyIsExact'
  <2> SUFFICES ASSUME s = far
               PROVE  /\ tally.runs = Cardinality({i \in won' : i \in Of(s)})
                      /\ tally.failed = Cardinality({i \in lost' : i \in Of(s)})
                      /\ tally.best = top'[s]
    BY <1>2, <1>3 DEF TallyIsExact, InPlace
  <2>1. (won \cup lost) \cap Unread = {}
    BY <1>5 DEF Books, EveryBatchOnce, InPlace
  <2> DEFINE bad == Unread \ Successes(Unread)
  <2>2. /\ won \cap Successes(Unread) = {} /\ lost \cap bad = {}
        /\ Successes(Unread) \in SUBSET Ids /\ Successes(Unread) \subseteq Of(s)
        /\ bad \in SUBSET Ids /\ bad \subseteq Of(s)
    BY <1>5, <2>1
  <2>3. /\ saved.runs = Cardinality({i \in won : i \in Of(s)})
        /\ saved.failed = Cardinality({i \in lost : i \in Of(s)})
    BY DEF Books, TallyIsExact, InPlace
  <2>4. won \in SUBSET Ids /\ lost \in SUBSET Ids
    BY DEF TypeOK
  <2>5. Cardinality({i \in won' : i \in Of(s)})
          = Cardinality({i \in won : i \in Of(s)}) + Cardinality(Successes(Unread))
    BY <1>4, <2>4, <2>2, CountsAdd
  <2>6. Cardinality({i \in lost' : i \in Of(s)})
          = Cardinality({i \in lost : i \in Of(s)})
            + Cardinality(Unread \ Successes(Unread))
    BY <1>4, <2>4, <2>2, CountsAdd
  <2>7. top'[s] = best
    BY <1>4, TallyNumbers DEF TypeOK
  <2> QED
    BY <1>2, <2>3, <2>5, <2>6, <2>7
<1> QED
  BY <1>8, <1>9, <1>10 DEF Books

\* A pass over what has ended keeps the books.
LEMMA AbsorbKeeps ==
  ASSUME "unwritten" \notin Faults, TypeOK, Books,
         Absorb("absorb", "marks") \/ Absorb("last", "tail")
  PROVE  Books'
<1> SUFFICES ASSUME parent = "live" PROVE Books'
  BY DEF Absorb, Books, Kept, EveryBatchOnce, TallyIsExact, InPlace
<1>1. pc # "off" /\ pc' # "off" /\ parent' = "live"
  BY DEF Absorb
<1>2. CASE AbsorbNothing
  <2>1. /\ UNCHANGED <<saved, far, state, won, lost, top>> /\ child' = Reaped
        /\ Unread = {}
    BY <1>2 DEF AbsorbNothing, row, ghosts
  <2>2. saved.srv <= far /\ Ahead /\ state = saved
    BY <1>1 DEF Books, Kept, Mirror
  <2>3. \A i \in Ids : child'[i].st = IF child[i].st \in Ended THEN "none" ELSE child[i].st
    BY <2>1 DEF Reaped, Without, EndedAmong, NoRow, Row, TypeOK
  <2>4. \A i \in Of(saved.srv) : child'[i].st = child[i].st
    BY <2>1, <2>2, <2>3 DEF Unread, EndedAmong, Of
  <2>5. Kept'
    BY <2>1, <2>2, <2>3 DEF Kept, Mirror, Ahead, Untouched
  <2>6. EveryBatchOnce' /\ TallyIsExact'
    BY <2>1, <2>4 DEF Books, EveryBatchOnce, TallyIsExact, InPlace
  <2> QED
    BY <2>5, <2>6 DEF Books
<1>3. ASSUME NEW best \in 0..MaxScore, NEW stale, LET tally == Absorbed(best, stale, Unread)
             IN Written(tally) /\ Counted(best, Unread) /\ state' = tally
      PROVE  Books'
  BY <1>1, <1>3, CountedKeeps
<1>4. ~Unwritten
  BY DEF Unwritten, Charge
<1> QED
  BY <1>2, <1>3, <1>4 DEF Absorb, AbsorbSome

\* A launch and its count are one write.
LEMMA LaunchKeeps ==
  ASSUME "unwritten" \notin Faults, TypeOK, Books, Launch
  PROVE  Books'
<1> SUFFICES ASSUME parent = "live" PROVE Books'
  BY DEF Launch, Books, Kept, EveryBatchOnce, TallyIsExact, InPlace
<1> DEFINE i == BatchId(state.srv, state.launched)
           tally == [state EXCEPT !.launched = @ + 1]
<1>1. saved.srv <= far /\ Ahead /\ state = saved
  BY DEF Books, Kept, Mirror, Launch
<1>2. /\ Written(tally) /\ child' = Enqueued(i) /\ state' = tally
      /\ pc' = "launch" /\ UNCHANGED <<parent, won, lost, top>>
  <2>1. ~Unwritten
    BY DEF Unwritten, Charge
  <2> QED
    BY <2>1 DEF Launch, ghosts
<1>3. /\ tally.srv = saved.srv /\ tally.launched = saved.launched + 1
      /\ tally.runs = saved.runs /\ tally.failed = saved.failed
      /\ tally.best = saved.best
  BY <1>1 DEF TypeOK, Tally
<1>4. saved' = tally /\ far' = far
  BY <1>1, <1>2, <1>3, TallyNumbers DEF Written
<1>5. i \in Ids /\ i = <<saved.srv, saved.launched>>
  BY <1>1, NextBatch DEF Launch, BatchId
<1>6. \A j \in Ids \ {i} : child'[j] = child[j]
  BY <1>2, <1>5 DEF Enqueued, TypeOK
<1>7. child'[i].st # "none"
  BY <1>2, <1>5 DEF Enqueued, Queued, Row, TypeOK
<1>8. Kept'
  <2>1. \A j \in Ids : j[1] > far \/ (j[1] = far /\ saved.srv < far) => j # i
    BY <1>1, <1>5, TallyNumbers
  <2>2. Ahead'
    BY <1>1, <1>2, <1>3, <1>4, <1>6, <2>1 DEF Ahead, Untouched
  <2> QED
    BY <1>1, <1>2, <1>3, <1>4, <2>2 DEF Kept, Mirror
<1>9. EveryBatchOnce'
  <2> SUFFICES ASSUME saved.srv = far, NEW j \in Of(saved.srv)
               PROVE  IF j[2] < saved.launched + 1
                      THEN child'[j].st # "none" <=> j \notin won \cup lost
                      ELSE child'[j].st = "none" /\ j \notin won \cup lost
    BY <1>2, <1>3, <1>4 DEF EveryBatchOnce, InPlace
  <2>1. IF j[2] < saved.launched
        THEN child[j].st # "none" <=> j \notin won \cup lost
        ELSE child[j].st = "none" /\ j \notin won \cup lost
    BY DEF Books, EveryBatchOnce, InPlace
  <2>2. j \in Ids /\ j[1] = saved.srv /\ j = <<j[1], j[2]>> /\ j[2] \in Nat
    BY TallyNumbers DEF Of, Ids
  <2>3. CASE j = i
    <3>1. j[2] = saved.launched /\ saved.launched \in Nat
      BY <1>5, <2>3, TallyNumbers
    <3>2. j[2] < saved.launched + 1 /\ ~(j[2] < saved.launched)
      BY <3>1
    <3> QED
      BY <1>7, <2>1, <2>3, <3>2
  <2>4. CASE j # i
    <3>1. j[2] # saved.launched
      BY <1>5, <2>2, <2>4
    <3>2. j[2] < saved.launched + 1 <=> j[2] < saved.launched
      BY <2>2, <3>1, TallyNumbers
    <3>3. child'[j] = child[j]
      BY <1>6, <2>2, <2>4
    <3> QED
      BY <2>1, <3>2, <3>3
  <2> QED
    BY <2>3, <2>4
<1>10. TallyIsExact'
  BY <1>2, <1>3, <1>4 DEF Books, TallyIsExact, InPlace
<1> QED
  BY <1>8, <1>9, <1>10 DEF Books

\* The books are in order at first, and every step keeps them so.
LEMMA BooksInOrder ==
  ASSUME "unwritten" \notin Faults
  PROVE  Spec => []Books
<1>1. Init => Books
  <2> SUFFICES ASSUME Init PROVE Books
    OBVIOUS
  <2>1. Kept
    BY DEF Init, Kept, Mirror, Ahead, Untouched, NoRow, Row, Zero
  <2>2. EveryBatchOnce
    <3>1. \A i \in Ids : child[i].st = "none" /\ i \notin won \cup lost
      BY DEF Init, NoRow, Row
    <3>2. saved.launched = 0 /\ \A i \in Of(saved.srv) : i \in Ids /\ i[2] \in Nat
      BY DEF Init, Zero, Of, Ids
    <3> QED
      BY <3>1, <3>2 DEF EveryBatchOnce
  <2>3. TallyIsExact
    <3>1. {i \in won : i \in Of(saved.srv)} = {} /\ {i \in lost : i \in Of(saved.srv)} = {}
      BY DEF Init
    <3>2. saved.runs = 0 /\ saved.failed = 0 /\ saved.best = 0 /\ top[saved.srv] = 0
      BY FirstServer DEF Init, Zero
    <3> QED
      BY <3>1, <3>2, FS_EmptySet DEF TallyIsExact
  <2> QED
    BY <2>1, <2>2, <2>3 DEF Books
<1>2. TypeOK /\ Books /\ [Next]_vars => Books'
  <2> SUFFICES ASSUME TypeOK, Books, [Next]_vars PROVE Books'
    OBVIOUS
  <2>1. CASE Start \/ Enter \/ Summarize
    BY <2>1, StartKeeps, EnterKeeps, SummarizeKeeps
  <2>2. CASE Absorb("absorb", "marks") \/ Absorb("last", "tail")
    BY <2>2, AbsorbKeeps
  <2>3. CASE Launch
    BY <2>3, LaunchKeeps
  <2>4. CASE \/ RevokeForeign \/ ForeignDone \/ Marks \/ MarksLost \/ LaunchDone
             \/ ObserveMoved \/ ObserveQuiet \/ GiveUp \/ EndVictim \/ GivenUp
             \/ EndOfPass \/ Tail \/ ServerRaises \/ NextServer \/ Finish \/ Fail
             \/ StandDown \/ (\E i \in Ids : Batch(i) \/ Orphan(i)) \/ Cancel \/ Crash
             \/ UNCHANGED vars
    BY <2>4, OthersStill, StillKeeps
  <2> QED
    BY <2>1, <2>2, <2>3, <2>4 DEF Next, Attempt, Loops
<1> QED
  BY <1>1, <1>2, ClusterTypeOK, PTL DEF Spec

\* When no report is lost, a parent that dies anywhere loses no batch and counts
\* none twice, through any number of restarts and servers.
THEOREM ClusterLosesNothing ==
  ASSUME "unwritten" \notin Faults
  PROVE  Spec => []EveryBatchOnce
<1>1. Books => EveryBatchOnce
  BY DEF Books
<1> QED
  BY <1>1, BooksInOrder, PTL

\* And the counters on its row are those of the batches it took away, with the
\* best of their results.
THEOREM ClusterCountsRight ==
  ASSUME "unwritten" \notin Faults
  PROVE  Spec => []TallyIsExact
<1>1. Books => TallyIsExact
  BY DEF Books
<1> QED
  BY <1>1, BooksInOrder, PTL

===============================================================================
