---------------------------- MODULE CronRunsProofs ----------------------------
(***************************************************************************)
(* What CronRuns promises for any number of processes, schedules and runs. *)
(***************************************************************************)
EXTENDS CronMeaning, TaskRowsProofs

USE CronAssumption, TaskRowsAssumption DEF Table

-------------------------------------------------------------------------------
(* The threads *)

\* A thread outside any tick is a thread.
LEMMA FreshThread ==
  ASSUME NEW pc \in Steps \ AtHand
  PROVE  /\ Fresh(pc) \in Thread /\ ThreadOK(Fresh(pc))
         /\ Fresh(pc).at = 0 /\ Fresh(pc).pc = pc /\ Fresh(pc).s = None
         /\ Fresh(pc).pend = {} /\ Fresh(pc).todo = {}
<1>1. NoEntry \in Entry
  BY DEF NoEntry, Entry
<1>2. 0 \in Minutes
  BY DEF Minutes
<1>3. Fresh(pc) \in Thread
  BY <1>1, <1>2 DEF Fresh, Thread
<1> QED
  BY <1>3 DEF Fresh, ThreadOK, Steps, AtHand

ThreadsOK ==
  /\ thr \in [Processes -> Thread]
  /\ \A p \in Processes : ThreadOK(thr[p]) /\ thr[p].at <= now

\* What is left of a thread that is done with the schedule at hand.
LEMMA BackThread ==
  ASSUME NEW p \in Processes, NEW pc \in {"row", "retry"}, thr[p] \in Thread,
         ThreadOK(thr[p]), thr[p].pc \in {"note", "expired"}
  PROVE  /\ Back(p, pc) \in Thread /\ ThreadOK(Back(p, pc))
         /\ Back(p, pc).at = thr[p].at /\ Back(p, pc).pc = pc
<1>1. PICK th \in Thread : th = thr[p]
  OBVIOUS
<1> DEFINE b == [th EXCEPT !.pc = pc, !.todo = @ \ {th.s}, !.pend = @ \ {th.s},
                           !.s = None, !.out = "none"]
<1>2. b \in Thread /\ b.at = th.at /\ b.pc = pc
  BY DEF Thread, Steps
<1>3. ThreadOK(b)
  BY <1>1 DEF Thread, ThreadOK, AtHand
<1> QED
  BY <1>1, <1>2, <1>3 DEF Back

\* What a failed admission leaves of a thread.
LEMMA FailedThread ==
  ASSUME NEW th \in Thread, th.at <= now, 0 <= now
  PROVE  /\ Failed(th) \in Thread /\ Failed(th).at <= now
         /\ ThreadOK(th) /\ th.pc \in {"wait", "gate", "insert"} => ThreadOK(Failed(th))
<1>1. CASE th.pend = {}
  <2> DEFINE f == [th EXCEPT !.pc = "note", !.out = "failed"]
  <2>1. f \in Thread /\ f.at = th.at
    BY DEF Thread, Steps
  <2>2. ThreadOK(th) /\ th.pc \in {"wait", "gate", "insert"} => ThreadOK(f)
    BY DEF Thread, ThreadOK, AtHand
  <2> QED
    BY <1>1, <2>1, <2>2 DEF Failed
<1>2. CASE th.pend # {}
  BY <1>2, FreshThread DEF Failed, Steps, AtHand
<1> QED
  BY <1>1, <1>2

\* One thread moves to a well-formed state and the others stay where they are.
LEMMA OneThreadMoves ==
  ASSUME TypeOK, NEW p \in Processes, NEW th \in Thread,
         Moves(p, th), now' = now, ThreadOK(th), th.at <= now
  PROVE  ThreadsOK'
BY DEF ThreadsOK, TypeOK, Minutes, Moves

\* Every step of a thread leaves well-formed threads.
LEMMA ThreadStep ==
  ASSUME TypeOK, NEW p \in Processes, Boot(p) \/ Tick(p) \/ Claim(p) \/ PassOver(p) \/ Sleep(p) \/
         TakeLock(p) \/ GiveUpWaiting(p) \/ InsertFails(p) \/ Drop(p)
         \/ NoteFire(p) \/ BeginRetries(p) \/ Expire(p) \/
         RecordExpired(p) \/ Forget(p) \/ Redispatch(p) \/
         StopOnline(p) \/ EndOnline(p) \/ Crash(p)
  PROVE  ThreadsOK'
<1>a. /\ thr[p] \in Thread /\ ThreadOK(thr[p]) /\ thr[p].at <= now
      /\ now \in Minutes /\ 0 <= now
  BY DEF TypeOK, Minutes
<1>b. /\ expr \in [Schedules -> Known] /\ enabled \subseteq Schedules
      /\ retry \in [Schedules -> Entry] /\ \A s \in Online : retry[s] = NoEntry
  BY DEF TypeOK
<1>1. CASE Boot(p)
  <2>0. PICK f \in Thread : f = Fresh("reap") /\ ThreadOK(f) /\ f.pc = "reap"
                           /\ f.at <= now
    BY <1>1, <1>a, FreshThread DEF Steps, AtHand
  <2> DEFINE th == [f EXCEPT !.dead =
      {t \in Tasks : TypeOf[t] \in Online /\ IsLive(rows, t) /\ ~rows[t].queued}]
  <2>1. Moves(p, th) /\ now' = now
    BY <1>1, <2>0 DEF Boot, Outcome
  <2>2. th \in Thread /\ th.at <= now
    BY <1>1, <1>a, <1>b, <2>0 DEF Boot, Thread, Steps, AtHand, Failed, Firing
  <2>3. ThreadOK(th)
    BY <1>1, <1>a, <1>b, <2>0 DEF Boot, Thread, Steps, AtHand, Failed, Firing, ThreadOK
  <2> QED
    BY <2>1, <2>2, <2>3, OneThreadMoves
<1>2. CASE Tick(p)
  <2>0. PICK f \in Thread : f = Fresh("row") /\ ThreadOK(f) /\ f.pc = "row"
                           /\ f.at <= now
    BY <1>2, <1>a, FreshThread DEF Steps, AtHand
  <2> DEFINE f1 == [f EXCEPT !.at = now]
             f2 == [f1 EXCEPT !.todo = Due(now)]
             th == [f2 EXCEPT !.seen = expr]
  <2>1. Moves(p, th) /\ now' = now
    BY <1>2, <2>0 DEF Tick
  <2>4. /\ f1 \in Thread /\ f1.at = now /\ f1.pc = f.pc /\ f1.s = f.s /\ f1.run = f.run
        /\ f1.pend = f.pend
    BY <1>a DEF Thread
  <2>5. /\ f2 \in Thread /\ f2.at = now /\ f2.pc = f.pc /\ f2.s = f.s /\ f2.run = f.run
        /\ f2.pend = f.pend
    <3>1. Due(now) \in SUBSET Schedules
      BY <1>b DEF Due
    <3> HIDE DEF f1
    <3> QED
      BY <2>4, <3>1 DEF Thread
  <2>6. /\ th \in Thread /\ th.at = now /\ th.pc = f.pc /\ th.s = f.s /\ th.run = f.run
        /\ th.pend = f.pend
    <3>1. expr \in [Schedules -> Known \cup {None}]
      BY <1>b
    <3> HIDE DEF f2
    <3> QED
      BY <2>5, <3>1 DEF Thread
  <2>2. th \in Thread /\ th.at <= now
    BY <2>6, <1>a DEF Minutes
  <2>3. ThreadOK(th)
    <3> HIDE DEF th
    <3> QED
      BY <2>0, <2>6, <1>b DEF ThreadOK, AtHand
  <2> QED
    BY <2>1, <2>2, <2>3, OneThreadMoves
<1>3. CASE Claim(p)
  <2>0. PICK s \in thr[p].todo : Moves(p, [thr[p] EXCEPT !.s = s, !.pc = IF s \in Online THEN "begin" ELSE "wait"])
    BY <1>3 DEF Claim
  <2> DEFINE th == [thr[p] EXCEPT !.s = s, !.pc = IF s \in Online THEN "begin" ELSE "wait"]
  <2>1. Moves(p, th) /\ now' = now
    BY <1>3, <2>0 DEF Claim, Outcome
  <2>2. th \in Thread /\ th.at <= now
    BY <1>3, <1>a, <1>b, <2>0 DEF Claim, Thread, Steps, AtHand, Failed, Firing
  <2>3. ThreadOK(th)
    <3>1. /\ s \in Schedules /\ thr[p].pc = "row" /\ thr[p].run = None
          /\ thr[p].pend \cap Online = {}
      BY <1>3, <1>a DEF Claim, Thread, ThreadOK
    <3>2. /\ th.pc = (IF s \in Online THEN "begin" ELSE "wait") /\ th.s = s
          /\ th.run = thr[p].run /\ th.pend = thr[p].pend
      BY <1>a DEF Thread
    <3> QED
      BY <3>1, <3>2 DEF ThreadOK, AtHand
  <2> QED
    BY <2>1, <2>2, <2>3, OneThreadMoves
<1>4. CASE PassOver(p)
  <2>0. PICK s \in thr[p].todo : Moves(p, [thr[p] EXCEPT !.todo = @ \ {s},
                       !.bad = @ /\ s \in Online /\ thr[p].ran])
    BY <1>4 DEF PassOver
  <2> DEFINE th == [thr[p] EXCEPT !.todo = @ \ {s},
                       !.bad = @ /\ s \in Online /\ thr[p].ran]
  <2>1. Moves(p, th) /\ now' = now
    BY <1>4, <2>0 DEF PassOver, Outcome
  <2>2. th \in Thread /\ th.at <= now
    BY <1>4, <1>a, <1>b, <2>0 DEF PassOver, Thread, Steps, AtHand, Failed, Firing
  <2>3. ThreadOK(th)
    BY <1>4, <1>a, <1>b, <2>0 DEF PassOver, Thread, Steps, AtHand, Failed, Firing, ThreadOK
  <2> QED
    BY <2>1, <2>2, <2>3, OneThreadMoves
<1>5. CASE Sleep(p)
  <2> DEFINE th == Fresh("idle")
  <2>1. Moves(p, th) /\ now' = now
    BY <1>5 DEF Sleep, Outcome
  <2>2. th \in Thread /\ th.at <= now
    BY <1>5, <1>a, <1>b, FreshThread DEF Sleep, Thread, Steps, AtHand, Failed, Firing
  <2>3. ThreadOK(th)
    BY <1>5, <1>a, <1>b, FreshThread DEF Sleep, Thread, Steps, AtHand, Failed, Firing, ThreadOK
  <2> QED
    BY <2>1, <2>2, <2>3, OneThreadMoves
<1>6. CASE TakeLock(p)
  <2> DEFINE th == [thr[p] EXCEPT !.pc = "gate"]
  <2>1. Moves(p, th) /\ now' = now
    BY <1>6 DEF TakeLock, Outcome
  <2>2. th \in Thread /\ th.at <= now
    BY <1>6, <1>a, <1>b DEF TakeLock, Thread, Steps, AtHand, Failed, Firing
  <2>3. ThreadOK(th)
    BY <1>6, <1>a, <1>b DEF TakeLock, Thread, Steps, AtHand, Failed, Firing, ThreadOK
  <2> QED
    BY <2>1, <2>2, <2>3, OneThreadMoves
<1>7. CASE GiveUpWaiting(p)
  <2> DEFINE th == Failed(thr[p])
  <2>1. Moves(p, th) /\ now' = now
    BY <1>7 DEF GiveUpWaiting, Outcome
  <2>2. th \in Thread /\ th.at <= now
    BY <1>a, FailedThread
  <2>3. ThreadOK(th)
    BY <1>7, <1>a, FailedThread DEF GiveUpWaiting
  <2> QED
    BY <2>1, <2>2, <2>3, OneThreadMoves
<1>8. CASE InsertFails(p)
  <2> DEFINE th == [thr[p] EXCEPT !.pc = "note", !.out = "failed", !.bad = TRUE]
  <2>1. Moves(p, th) /\ now' = now
    BY <1>8 DEF InsertFails, Outcome
  <2>2. th \in Thread /\ th.at <= now
    BY <1>8, <1>a, <1>b DEF InsertFails, Thread, Steps, AtHand, Failed, Firing
  <2>3. ThreadOK(th)
    BY <1>8, <1>a, <1>b DEF InsertFails, Thread, Steps, AtHand, Failed, Firing, ThreadOK
  <2> QED
    BY <2>1, <2>2, <2>3, OneThreadMoves
<1>9. CASE Drop(p)
  <2> DEFINE th == Failed(thr[p])
  <2>1. Moves(p, th) /\ now' = now
    BY <1>9 DEF Drop, Outcome
  <2>2. th \in Thread /\ th.at <= now
    BY <1>a, FailedThread
  <2>3. ThreadOK(th)
    BY <1>9, <1>a, FailedThread DEF Drop
  <2> QED
    BY <2>1, <2>2, <2>3, OneThreadMoves
<1>10. CASE NoteFire(p)
  <2>0. PICK f \in Thread : f = Back(p, "row") /\ ThreadOK(f) /\ f.pc = "row"
                           /\ f.at <= now
    BY <1>10, <1>a, BackThread, <1>a DEF NoteFire, Firing, NoteFire
  <2> DEFINE th == [f EXCEPT !.ran = @ \/ (thr[p].s \in Online /\ thr[p].out = "done")]
  <2>1. Moves(p, th) /\ now' = now
    BY <1>10, <2>0 DEF NoteFire, Outcome
  <2>2. th \in Thread /\ th.at <= now
    <3>1. f.ran \in BOOLEAN
      BY <2>0 DEF Thread
    <3>2. (f.ran \/ (thr[p].s \in Online /\ thr[p].out = "done")) \in BOOLEAN
      OBVIOUS
    <3> QED
      BY <2>0, <3>1, <3>2 DEF Thread
  <2>3. ThreadOK(th)
    BY <1>10, <1>a, <1>b, <2>0 DEF NoteFire, Thread, Steps, AtHand, Failed, Firing, ThreadOK
  <2> QED
    BY <2>1, <2>2, <2>3, OneThreadMoves
<1>11. CASE BeginRetries(p)
  <2>0. PICK f \in Thread : f = Fresh("retry") /\ ThreadOK(f) /\ f.pc = "retry"
                           /\ f.at <= now
    BY <1>11, <1>a, FreshThread DEF Steps, AtHand
  <2> DEFINE f1 == [f EXCEPT !.at = now]
             f2 == [f1 EXCEPT !.held = retry]
             th == [f2 EXCEPT !.pend = {s \in Schedules : retry[s] # NoEntry}]
  <2>1. Moves(p, th) /\ now' = now
    BY <1>11, <2>0 DEF BeginRetries
  <2>4. /\ f1 \in Thread /\ f1.at = now /\ f1.pc = f.pc /\ f1.s = f.s /\ f1.run = f.run
        /\ f1.pend = f.pend
    BY <1>a DEF Thread
  <2>5. /\ f2 \in Thread /\ f2.at = now /\ f2.pc = f.pc /\ f2.s = f.s /\ f2.run = f.run
        /\ f2.pend = f.pend
    <3>1. retry \in [Schedules -> Entry]
      BY <1>b DEF Due
    <3> HIDE DEF f1
    <3> QED
      BY <2>4, <3>1 DEF Thread
  <2>6. /\ th \in Thread /\ th.at = now /\ th.pc = f.pc /\ th.s = f.s /\ th.run = f.run
        /\ th.pend = {s \in Schedules : retry[s] # NoEntry}
    <3>1. {s \in Schedules : retry[s] # NoEntry} \in SUBSET Schedules
      BY <1>b
    <3> HIDE DEF f2
    <3> QED
      BY <2>5, <3>1 DEF Thread
  <2>2. th \in Thread /\ th.at <= now
    BY <2>6, <1>a DEF Minutes
  <2>3. ThreadOK(th)
    <3> HIDE DEF th
    <3> QED
      BY <2>0, <2>6, <1>b DEF ThreadOK, AtHand
  <2> QED
    BY <2>1, <2>2, <2>3, OneThreadMoves
<1>12. CASE Expire(p)
  <2>0. PICK s \in thr[p].pend : Moves(p, [thr[p] EXCEPT !.pc = "expired", !.s = s])
    BY <1>12 DEF Expire
  <2> DEFINE th == [thr[p] EXCEPT !.pc = "expired", !.s = s]
  <2>1. Moves(p, th) /\ now' = now
    BY <1>12, <2>0 DEF Expire, Outcome
  <2>2. th \in Thread /\ th.at <= now
    BY <1>12, <1>a, <1>b, <2>0 DEF Expire, Thread, Steps, AtHand, Failed, Firing
  <2>3. ThreadOK(th)
    <3>1. /\ s \in Schedules \ Online /\ thr[p].pc = "retry" /\ thr[p].run = None
          /\ thr[p].pend \cap Online = {}
      BY <1>12, <1>a DEF Expire, Thread, ThreadOK
    <3>2. /\ th.pc = "expired" /\ th.s = s /\ th.run = thr[p].run
          /\ th.pend = thr[p].pend
      BY <1>a DEF Thread
    <3> QED
      BY <3>1, <3>2 DEF ThreadOK, AtHand
  <2> QED
    BY <2>1, <2>2, <2>3, OneThreadMoves
<1>13. CASE RecordExpired(p)
  <2> DEFINE th == Back(p, "retry")
  <2>1. Moves(p, th) /\ now' = now
    BY <1>13 DEF RecordExpired, Outcome
  <2>2. th \in Thread /\ th.at <= now
    BY <1>13, <1>a, <1>b, BackThread DEF RecordExpired, Thread, Steps, AtHand, Failed, Firing
  <2>3. ThreadOK(th)
    BY <1>13, <1>a, <1>b, BackThread DEF RecordExpired, Thread, Steps, AtHand, Failed, Firing, ThreadOK
  <2> QED
    BY <2>1, <2>2, <2>3, OneThreadMoves
<1>14. CASE Forget(p)
  <2>0. PICK s \in thr[p].pend : Moves(p, [thr[p] EXCEPT !.pend = @ \ {s}])
    BY <1>14 DEF Forget
  <2> DEFINE th == [thr[p] EXCEPT !.pend = @ \ {s}]
  <2>1. Moves(p, th) /\ now' = now
    BY <1>14, <2>0 DEF Forget, Outcome
  <2>2. th \in Thread /\ th.at <= now
    BY <1>14, <1>a, <1>b, <2>0 DEF Forget, Thread, Steps, AtHand, Failed, Firing
  <2>3. ThreadOK(th)
    BY <1>14, <1>a, <1>b, <2>0 DEF Forget, Thread, Steps, AtHand, Failed, Firing, ThreadOK
  <2> QED
    BY <2>1, <2>2, <2>3, OneThreadMoves
<1>15. CASE Redispatch(p)
  <2>0. PICK s \in thr[p].pend : Moves(p, [thr[p] EXCEPT !.pc = "wait", !.s = s])
    BY <1>15 DEF Redispatch
  <2> DEFINE th == [thr[p] EXCEPT !.pc = "wait", !.s = s]
  <2>1. Moves(p, th) /\ now' = now
    BY <1>15, <2>0 DEF Redispatch, Outcome
  <2>2. th \in Thread /\ th.at <= now
    BY <1>15, <1>a, <1>b, <2>0 DEF Redispatch, Thread, Steps, AtHand, Failed, Firing
  <2>3. ThreadOK(th)
    <3>1. /\ s \in Schedules \ Online /\ thr[p].pc = "retry" /\ thr[p].run = None
          /\ thr[p].pend \cap Online = {}
      BY <1>15, <1>a DEF Redispatch, Thread, ThreadOK
    <3>2. /\ th.pc = "wait" /\ th.s = s /\ th.run = thr[p].run
          /\ th.pend = thr[p].pend
      BY <1>a DEF Thread
    <3> QED
      BY <3>1, <3>2 DEF ThreadOK, AtHand
  <2> QED
    BY <2>1, <2>2, <2>3, OneThreadMoves
<1>16. CASE StopOnline(p)
  <2> DEFINE th == [thr[p] EXCEPT !.pc = "note", !.out = "done", !.run = None]
  <2>1. Moves(p, th) /\ now' = now
    BY <1>16 DEF StopOnline, Outcome
  <2>2. th \in Thread /\ th.at <= now
    BY <1>16, <1>a, <1>b DEF StopOnline, Thread, Steps, AtHand, Failed, Firing
  <2>3. ThreadOK(th)
    BY <1>16, <1>a, <1>b DEF StopOnline, Thread, Steps, AtHand, Failed, Firing, ThreadOK
  <2> QED
    BY <2>1, <2>2, <2>3, OneThreadMoves
<1>17. CASE EndOnline(p)
  <2> DEFINE th == [thr[p] EXCEPT !.pc = "note", !.out = "done", !.run = None]
  <2>1. Moves(p, th) /\ now' = now
    BY <1>17 DEF EndOnline, Outcome
  <2>2. th \in Thread /\ th.at <= now
    BY <1>17, <1>a, <1>b DEF EndOnline, Thread, Steps, AtHand, Failed, Firing
  <2>3. ThreadOK(th)
    BY <1>17, <1>a, <1>b DEF EndOnline, Thread, Steps, AtHand, Failed, Firing, ThreadOK
  <2> QED
    BY <2>1, <2>2, <2>3, OneThreadMoves
<1>18. CASE Crash(p)
  <2> DEFINE th == Fresh("down")
  <2>1. Moves(p, th) /\ now' = now
    BY <1>18 DEF Crash, Outcome
  <2>2. th \in Thread /\ th.at <= now
    BY <1>18, <1>a, <1>b, FreshThread DEF Crash, Thread, Steps, AtHand, Failed, Firing
  <2>3. ThreadOK(th)
    BY <1>18, <1>a, <1>b, FreshThread DEF Crash, Thread, Steps, AtHand, Failed, Firing, ThreadOK
  <2> QED
    BY <2>1, <2>2, <2>3, OneThreadMoves
<1> QED
  BY <1>1, <1>2, <1>3, <1>4, <1>5, <1>6, <1>7, <1>8, <1>9, <1>10, <1>11, <1>12, <1>13, <1>14, <1>15, <1>16, <1>17, <1>18

\* So does every step whose outcome depends on what it finds.
LEMMA BranchingThreadStep ==
  ASSUME TypeOK, NEW p \in Processes,
         Reap(p) \/ Gate(p) \/ Insert(p) \/ NoteRetry(p) \/ BeginOnline(p)
  PROVE  ThreadsOK'
<1>a. /\ thr[p] \in Thread /\ ThreadOK(thr[p]) /\ thr[p].at <= now
      /\ now \in Minutes /\ 0 <= now /\ now' = now
  <2>1. now' = now
    BY DEF Reap, Gate, Insert, NoteRetry, BeginOnline
  <2> QED
    BY <2>1 DEF TypeOK, Minutes
<1>1. ASSUME NEW out \in {"done", "blocked", "failed"}, Outcome(p, out),
             thr[p].pc \in {"gate", "insert", "begin"},
             out = "blocked" => thr[p].pc # "begin"
      PROVE  ThreadsOK'
  <2> DEFINE th == [thr[p] EXCEPT !.pc = "note", !.out = out]
  <2>1. th \in Thread /\ th.at <= now
    BY <1>a DEF Thread, Steps
  <2>2. ThreadOK(th)
    BY <1>a, <1>1 DEF Thread, ThreadOK, AtHand
  <2> QED
    BY <1>1, <1>a, <2>1, <2>2, OneThreadMoves DEF Outcome
<1>2. ASSUME NEW pc \in {"idle"}, Moves(p, Fresh(pc)) PROVE ThreadsOK'
  BY <1>2, <1>a, FreshThread, OneThreadMoves DEF Steps, AtHand
<1>3. CASE Reap(p)
  <2>1. CASE Moves(p, Fresh("idle"))
    BY <2>1, <1>2
  <2>2. ASSUME NEW t \in Tasks, Moves(p, [thr[p] EXCEPT !.dead = @ \ {t}])
        PROVE  ThreadsOK'
    <3> DEFINE th == [thr[p] EXCEPT !.dead = @ \ {t}]
    <3>1. th \in Thread /\ th.at <= now /\ ThreadOK(th)
      BY <1>a DEF Thread, ThreadOK
    <3> QED
      BY <2>2, <1>a, <3>1, OneThreadMoves
  <2>3. thr[p].dead \subseteq Tasks
    BY <1>a DEF Thread
  <2> QED
    BY <1>3, <2>1, <2>2, <2>3 DEF Reap
<1>4. CASE Gate(p)
  <2>1. CASE Outcome(p, "blocked")
    BY <1>1, <1>4, <2>1 DEF Gate
  <2>2. CASE Moves(p, [thr[p] EXCEPT !.pc = "insert"])
    <3> DEFINE th == [thr[p] EXCEPT !.pc = "insert"]
    <3>1. th \in Thread /\ th.at <= now
      BY <1>a DEF Thread, Steps
    <3>2. ThreadOK(th)
      BY <1>a, <1>4 DEF Thread, ThreadOK, AtHand, Gate
    <3> QED
      BY <2>2, <1>a, <3>1, <3>2, OneThreadMoves
  <2> QED
    BY <1>4, <2>1, <2>2 DEF Gate
<1>5. CASE Insert(p)
  <2>1. Outcome(p, "done") \/ Outcome(p, "blocked")
    BY <1>5 DEF Insert
  <2> QED
    BY <1>5, <2>1, <1>1 DEF Insert
<1>6. CASE NoteRetry(p)
  <2>1. CASE Moves(p, Fresh("idle"))
    BY <2>1, <1>2
  <2>2. CASE Moves(p, Back(p, "retry"))
    <3>1. thr[p].pc \in {"note", "expired"}
      BY <1>6 DEF NoteRetry
    <3> QED
      BY <2>2, <1>a, <3>1, BackThread, OneThreadMoves
  <2> QED
    BY <1>6, <2>1, <2>2 DEF NoteRetry
<1>7. CASE BeginOnline(p)
  <2>1. CASE Outcome(p, "failed")
    BY <1>1, <1>7, <2>1 DEF BeginOnline
  <2>2. ASSUME NEW t \in Unused(rows, thr[p].s),
               Moves(p, [thr[p] EXCEPT !.pc = "inline", !.run = t])
        PROVE  ThreadsOK'
    <3> DEFINE th == [thr[p] EXCEPT !.pc = "inline", !.run = t]
    <3>1. t \in Tasks /\ TypeOf[t] = thr[p].s
      BY <2>2 DEF Unused
    <3>2. th \in Thread /\ th.at <= now
      BY <1>a, <3>1 DEF Thread, Steps
    <3>3. ThreadOK(th)
      BY ZenonT(30), <1>a, <1>7, <3>1 DEF Thread, ThreadOK, AtHand, BeginOnline
    <3> QED
      BY <2>2, <1>a, <3>2, <3>3, OneThreadMoves
  <2> QED
    BY <1>7, <2>1, <2>2 DEF BeginOnline
<1> QED
  BY <1>3, <1>4, <1>5, <1>6, <1>7

-------------------------------------------------------------------------------
(* The table of runs *)

\* No batch run is live in s that was not live in r.
BatchShrinks(r, s) == \A t \in Tasks : BatchLive(s, t) => BatchLive(r, t)

\* A verdict is written on a table and ends the run.
LEMMA SavedRows ==
  ASSUME NEW r \in Table, NEW t \in Tasks, NEW verdict \in TerminalStatus
  PROVE  Saved(r, t, verdict) \in Table /\ BatchShrinks(r, Saved(r, t, verdict))
<1> DEFINE s == [r EXCEPT ![t].st = verdict]
<1>1. s \in Table
  BY SMTT(30) DEF Row
<1>2. Collapsed(s, t) \in Table
  BY <1>1, CollapsedType
<1>3. \A u \in Tasks : IsLive(Collapsed(s, t), u) => IsLive(s, u)
  <2> HIDE DEF s
  <2> QED
    BY <1>1 DEF Collapsed, Wipe, IsLive, GoneRow, FreeRow, LiveStatus
<1>4. \A u \in Tasks : IsLive(s, u) => IsLive(r, u)
  BY DEF IsLive, LiveStatus, TerminalStatus, Row
<1> QED
  BY <1>2, <1>3, <1>4 DEF Saved, BatchShrinks, BatchLive

LEMMA WipeShrinks ==
  ASSUME NEW r \in Table, NEW keep
  PROVE  BatchShrinks(r, Wipe(r, keep))
BY DEF BatchShrinks, BatchLive, Wipe, IsLive, GoneRow, FreeRow, LiveStatus

\* Archiving ends runs and starts none.
LEMMA ClearedRows ==
  ASSUME NEW r \in Table, NEW t \in Tasks
  PROVE  Cleared(r, t) \in Table /\ BatchShrinks(r, Cleared(r, t))
<1>1. \A u \in Tasks : [r[u] EXCEPT !.st = "REVOKED"] \in Row
                        /\ [r[u] EXCEPT !.st = "REVOKED"].st = "REVOKED"
  BY DEF Row, TerminalStatus
<1>2. Archived(r) \in Table
  BY <1>1 DEF Archived
<1>3. BatchShrinks(r, Archived(r))
  BY <1>1 DEF Archived, BatchShrinks, BatchLive, IsLive, LiveStatus
<1> QED
  BY <1>2, <1>3 DEF Cleared, BatchShrinks

\* A start makes its own run live, and no other.
LEMMA EnqueuedRows ==
  ASSUME NEW r \in Table, NEW t \in Tasks
  PROVE  /\ AfterStart(r, t) \in Table
         /\ \A u \in Tasks \ {t} : BatchLive(AfterStart(r, t), u) => BatchLive(r, u)
<1> DEFINE c == Cleared(r, t)
           w == Wipe(c, {})
<1>1. c \in Table /\ BatchShrinks(r, c)
  BY ClearedRows
<1>2. w \in Table /\ BatchShrinks(c, w)
  BY <1>1, WipeType, WipeShrinks
<1>3. InsertJob(w, t) \in Table
  BY <1>2, InsertJobType
<1>4. \A u \in Tasks \ {t} : InsertJob(w, t)[u] = w[u]
  BY <1>2 DEF InsertJob
<1>5. AfterStart(r, t) = InsertJob(w, t)
  BY DEF AfterStart
<1> QED
  <2> HIDE DEF c, w
  <2> QED
    BY <1>1, <1>2, <1>3, <1>4, <1>5 DEF BatchShrinks, BatchLive, IsLive

\* Reports, claims, cancels and sweeps make no batch run live.
LEMMA OtherRows ==
  ASSUME NEW r \in Table, NEW t \in Tasks
  PROVE  /\ TypeOf[t] \in Online => BatchShrinks(r, ReportRunning(r, t))
         /\ BatchShrinks(r, CancelAll(r, t))
         /\ BatchShrinks(r, FailStale(r, t))
         /\ \A w \in Workers : Claimable(r, t) => BatchShrinks(r, ClaimRow(r, t, w))
<1>1. TypeOf[t] \in Online => BatchShrinks(r, ReportRunning(r, t))
  <2>1. TypeOf[t] \in Online => TypeOf[t] \notin Batch
    BY DEF Batch
  <2> QED
    BY <2>1 DEF ReportRunning, BatchShrinks, BatchLive, IsLive
<1>2. BatchShrinks(r, CancelAll(r, t))
  BY DEF CancelAll, BatchShrinks, BatchLive, IsLive, GoneRow, FreeRow, LiveStatus, Exists,
         AbsentStatus
<1>3. BatchShrinks(r, FailStale(r, t))
  BY DEF FailStale, BatchShrinks, BatchLive, IsLive, LiveStatus
<1>4. \A w \in Workers : Claimable(r, t) => BatchShrinks(r, ClaimRow(r, t, w))
  BY DEF ClaimRow, Claimable, BatchShrinks, BatchLive, IsLive, LiveStatus
<1> QED
  BY <1>1, <1>2, <1>3, <1>4

-------------------------------------------------------------------------------
(* Type correctness *)

\* The table and the start times, whoever takes the step.
TableOK == rows \in Table /\ began \in [Tasks -> Minutes]

\* Everything but the threads and the table.
RestOK ==
  /\ now \in Minutes
  /\ expr \in [Schedules -> Known]
  /\ enabled \subseteq Schedules
  /\ last \in [Schedules -> -1..now]
  /\ retry \in [Schedules -> Entry]
  /\ \A s \in Online : retry[s] = NoEntry
  /\ lock \in Processes \cup {None}
  /\ edits \in 0..MaxEdits
  /\ faults \in 0..MaxFaults
  /\ fires \in [Schedules -> [Minutes -> Nat]]
  /\ succeeded \in [Schedules \cup ByHand -> Minutes \cup {-1}]

LEMMA TypeParts == TypeOK <=> RestOK /\ TableOK /\ ThreadsOK
BY DEF TypeOK, RestOK, TableOK, ThreadsOK

LEMMA TableStep ==
  ASSUME TypeOK, [Next]_vars
  PROVE  TableOK'
<1>a. /\ rows \in Table /\ began \in [Tasks -> Minutes] /\ now \in Minutes
      /\ \A p \in Processes : thr[p] \in Thread /\ ThreadOK(thr[p])
  BY DEF TypeOK
<1>b. \A p \in Processes : thr[p].dead \subseteq Tasks /\ thr[p].run \in Tasks \cup {None}
  BY <1>a DEF Thread
<1>c. \A S, y : Unused(S, y) \subseteq Tasks
  BY DEF Unused
<1>d. {"SUCCESS", "FAIL"} \subseteq TerminalStatus
  BY DEF TerminalStatus
<1>1. ASSUME NEW p \in Processes, Reap(p) PROVE TableOK'
  <2>1. rows' = rows \/ \E t \in Tasks : rows' = Saved(rows, t, "FAIL")
    BY <1>1, <1>b DEF Reap
  <2>2. began' = began
    BY <1>1 DEF Reap
  <2> QED
    BY <2>1, <2>2, <1>a, <1>d, SavedRows DEF TableOK
<1>2. ASSUME NEW p \in Processes, Insert(p) PROVE TableOK'
  BY <1>2, <1>a, <1>c, ClearedRows, EnqueuedRows DEF Insert, TableOK
<1>3. ASSUME NEW p \in Processes, InsertFails(p) PROVE TableOK'
  BY <1>3, <1>a, <1>c, ClearedRows DEF InsertFails, TableOK
<1>4. ASSUME NEW p \in Processes, RecordExpired(p) PROVE TableOK'
  <2>1. PICK t \in Tasks : rows' = Saved(Wipe(rows, {}), t, "FAIL")
    BY <1>4, <1>c DEF RecordExpired
  <2>2. Wipe(rows, {}) \in Table
    BY <1>a, WipeType
  <2>3. began' = began
    BY <1>4 DEF RecordExpired
  <2> QED
    BY <2>1, <2>2, <2>3, <1>a, <1>d, SavedRows DEF TableOK
<1>5. ASSUME NEW p \in Processes, BeginOnline(p) PROVE TableOK'
  <2>1. CASE rows' = rows /\ began' = began
    BY <2>1, <1>a DEF TableOK
  <2>2. ASSUME NEW t \in Tasks, rows' = ReportRunning(rows, t),
               began' = [began EXCEPT ![t] = now]
        PROVE  TableOK'
    BY <2>2, <1>a, ReportRunningType DEF TableOK
  <2> QED
    BY <1>5, <1>c, <2>1, <2>2 DEF BeginOnline
<1>6. ASSUME NEW p \in Processes, ReportOnline(p) PROVE TableOK'
  <2>1. thr[p].run \in Tasks
    BY <1>6, <1>a DEF ReportOnline, ThreadOK
  <2> QED
    BY <1>6, <1>a, <2>1, ReportRunningType DEF ReportOnline, TableOK
<1>7. ASSUME NEW p \in Processes, EndOnline(p) PROVE TableOK'
  <2>1. thr[p].run \in Tasks
    BY <1>7, <1>a DEF EndOnline, ThreadOK
  <2>2. rows' = rows \/ \E v \in {"SUCCESS", "FAIL"} : rows' = Saved(rows, thr[p].run, v)
    BY <1>7 DEF EndOnline
  <2>3. began' = began
    BY <1>7 DEF EndOnline
  <2> QED
    BY <2>1, <2>2, <2>3, <1>a, <1>d, SavedRows DEF TableOK
<1>8. ASSUME NEW y \in Pages, StartOnPage(y) PROVE TableOK'
  BY <1>8, <1>a, <1>c, EnqueuedRows DEF StartOnPage, TableOK
<1>9. ASSUME NEW t \in Tasks, CancelOnPage(t) PROVE TableOK'
  BY <1>9, <1>a, CancelAllType DEF CancelOnPage, TableOK
<1>10. ASSUME NEW t \in Tasks, NEW w \in Workers, WorkerClaims(t, w) PROVE TableOK'
  BY <1>10, <1>a, ClaimRowType DEF WorkerClaims, TableOK
<1>11. ASSUME NEW t \in Tasks, WorkerFinishes(t) PROVE TableOK'
  BY <1>11, <1>a, <1>d, SavedRows DEF WorkerFinishes, TableOK
<1>12. ASSUME NEW t \in Tasks, SweepStale(t) PROVE TableOK'
  BY <1>12, <1>a, FailStaleType DEF SweepStale, TableOK
<1>13. ASSUME UNCHANGED <<rows, began>> PROVE TableOK'
  BY <1>13, <1>a DEF TableOK
<1>14. ASSUME NEW p \in Processes,
              \/ Boot(p) \/ Tick(p) \/ Claim(p) \/ PassOver(p) \/ Sleep(p) \/ TakeLock(p)
              \/ GiveUpWaiting(p) \/ Gate(p) \/ Drop(p) \/ NoteFire(p) \/ NoteRetry(p)
              \/ BeginRetries(p) \/ Expire(p) \/ Forget(p) \/ Redispatch(p)
              \/ StopOnline(p) \/ Crash(p)
       PROVE  UNCHANGED <<rows, began>>
  BY <1>14 DEF Boot, Tick, Claim, PassOver, Sleep, TakeLock, GiveUpWaiting, Gate, Drop,
     NoteFire, NoteRetry, BeginRetries, Expire, Forget, Redispatch, StopOnline, Crash, runs
<1>15. ASSUME NextMinute \/ (\E s \in Schedules : SaveSchedule(s)) \/ UNCHANGED vars
       PROVE  UNCHANGED <<rows, began>>
  BY <1>15 DEF NextMinute, SaveSchedule, vars, runs
<1> QED
  BY <1>1, <1>2, <1>3, <1>4, <1>5, <1>6, <1>7, <1>8, <1>9, <1>10, <1>11, <1>12, <1>13,
     <1>14, <1>15 DEF Next, Admits, Fires, Retries, Runs

LEMMA ThreadsStep ==
  ASSUME TypeOK, [Next]_vars
  PROVE  ThreadsOK'
<1>1. ASSUME NEW p \in Processes, ReportOnline(p) PROVE thr' = thr /\ now' = now
  BY <1>1 DEF ReportOnline
<1>2. ASSUME \/ \E y \in Pages : StartOnPage(y)
             \/ \E s \in Schedules : SaveSchedule(s)
             \/ \E t \in Tasks : CancelOnPage(t) \/ WorkerFinishes(t) \/ SweepStale(t)
             \/ \E t \in Tasks, w \in Workers : WorkerClaims(t, w)
             \/ UNCHANGED vars
      PROVE  thr' = thr /\ now' = now
  BY <1>2 DEF StartOnPage, SaveSchedule, CancelOnPage, WorkerFinishes, SweepStale,
     WorkerClaims, vars
<1>3. ASSUME thr' = thr, now' = now \/ (now \in Minutes /\ now' = now + 1)
      PROVE  ThreadsOK'
  <2>1. \A p \in Processes : thr[p].at \in Minutes /\ thr[p].at <= now /\ ThreadOK(thr[p])
    BY DEF TypeOK, Thread
  <2>2. \A p \in Processes : thr[p].at <= now'
    BY <1>3, <2>1 DEF Minutes, TypeOK
  <2> QED
    BY <1>3, <2>1, <2>2 DEF ThreadsOK, TypeOK
<1>4. CASE NextMinute
  BY <1>3, <1>4 DEF NextMinute, TypeOK
<1> QED
  BY <1>1, <1>2, <1>3, <1>4, ThreadStep, BranchingThreadStep
     DEF Next, Admits, Fires, Retries, Runs

\* The claim and the retry pass are the steps that write the cron tables.
LEMMA RestStep ==
  ASSUME TypeOK, [Next]_vars
  PROVE  RestOK'
<1>a. RestOK /\ ThreadsOK
  BY TypeParts
<1>b. ASSUME UNCHANGED <<now, expr, enabled, last, retry, edits, fires>>,
             lock' \in Processes \cup {None},
             faults' = faults \/ (faults < MaxFaults /\ faults' = faults + 1),
             succeeded' = succeeded \/ \E t \in Tasks, v \in {"SUCCESS", "FAIL"} : Credited(t, v)
      PROVE  RestOK'
  <2>1. faults' \in 0..MaxFaults
    BY <1>a, <1>b DEF RestOK
  <2>2. succeeded' \in [Schedules \cup ByHand -> Minutes \cup {-1}]
    <3>1. ASSUME NEW t \in Tasks, NEW v, Credited(t, v)
          PROVE  succeeded' \in [Schedules \cup ByHand -> Minutes \cup {-1}]
      <4>1. began[t] \in Minutes /\ TypeOf[t] \in Schedules \cup ByHand
        BY DEF TypeOK
      <4>2. succeeded' = succeeded
              \/ succeeded' = [succeeded EXCEPT ![TypeOf[t]] = began[t]]
        BY <3>1 DEF Credited
      <4> QED
        BY <4>1, <4>2, <1>a DEF RestOK
    <3> QED
      BY <3>1, <1>a, <1>b DEF RestOK
  <2> QED
    BY <1>a, <1>b, <2>1, <2>2 DEF RestOK
<1>1. ASSUME NEW p \in Processes,
             \/ Boot(p) \/ Reap(p) \/ Tick(p) \/ PassOver(p) \/ Sleep(p) \/ TakeLock(p)
             \/ GiveUpWaiting(p) \/ Gate(p) \/ Insert(p) \/ InsertFails(p) \/ Drop(p)
             \/ BeginRetries(p) \/ RecordExpired(p) \/ Redispatch(p)
             \/ ReportOnline(p) \/ StopOnline(p) \/ Crash(p)
      PROVE  RestOK'
  <2>1. /\ UNCHANGED <<now, expr, enabled, last, retry, edits, fires, succeeded>>
        /\ lock' = lock \/ lock' = None \/ lock' = p
        /\ faults' = faults \/ (faults < MaxFaults /\ faults' = faults + 1)
    BY <1>1 DEF Boot, Reap, Tick, PassOver, Sleep, TakeLock, GiveUpWaiting, Gate, Insert,
       InsertFails, Drop, BeginRetries, RecordExpired, Redispatch,
       ReportOnline, StopOnline, Crash, Disturb, Unlocked, cron, runs
  <2>2. lock' \in Processes \cup {None}
    BY <2>1, <1>a DEF RestOK
  <2> QED
    BY <2>1, <2>2, <1>b
<1>2. ASSUME NEW p \in Processes, Claim(p) PROVE RestOK'
  <2>1. PICK s \in thr[p].todo :
          /\ last' = [last EXCEPT ![s] = thr[p].at]
          /\ fires' = [fires EXCEPT ![s][thr[p].at] = @ + 1]
    BY <1>2 DEF Claim
  <2>2. s \in Schedules /\ thr[p].at \in Minutes /\ thr[p].at <= now
    BY <1>a DEF ThreadsOK, Thread
  <2>3. UNCHANGED <<now, expr, enabled, edits, retry, lock, faults, succeeded>>
    BY <1>2 DEF Claim, runs
  <2>4. last' \in [Schedules -> -1..now]
    BY <1>a, <2>1, <2>2 DEF RestOK, Minutes
  <2>5. fires' \in [Schedules -> [Minutes -> Nat]]
    BY <1>a, <2>1, <2>2 DEF RestOK
  <2> QED
    BY <1>a, <2>3, <2>4, <2>5 DEF RestOK
<1>3. ASSUME NEW p \in Processes, NEW s \in Schedules, NEW e \in Entry,
             retry' = [retry EXCEPT ![s] = e], s \in Online => e = NoEntry,
             UNCHANGED <<now, expr, enabled, edits, lock, faults, succeeded, fires>>,
             last' \in [Schedules -> -1..now]
      PROVE  RestOK'
  BY <1>3, <1>a DEF RestOK
<1>4. NoEntry \in Entry
  BY DEF NoEntry, Entry
<1>5. ASSUME NEW p \in Processes, NoteFire(p) PROVE RestOK'
  <2>1. thr[p].s \in Schedules /\ thr[p].at \in Minutes
    BY <1>5, <1>a DEF NoteFire, Firing, ThreadsOK, Thread, ThreadOK, AtHand
  <2> DEFINE e == CASE thr[p].out = "done" -> NoEntry
                    [] thr[p].out = "blocked" /\ retry[thr[p].s] = NoEntry ->
                         [until |-> thr[p].at + Window, first |-> thr[p].at]
                    [] OTHER -> retry[thr[p].s]
  <2>2. e \in Entry
    BY <2>1, <1>a, <1>4 DEF RestOK, Entry, Minutes
  <2>3. thr[p].s \in Online => e = NoEntry
    BY <1>5, <1>a DEF NoteFire, Firing, ThreadsOK, ThreadOK, RestOK
  <2>4. retry' = [retry EXCEPT ![thr[p].s] = e]
    BY <1>5 DEF NoteFire
  <2>5. UNCHANGED <<now, expr, enabled, last, edits, lock, faults, succeeded, fires>>
    BY <1>5 DEF NoteFire, cron, runs
  <2> HIDE DEF e
  <2> QED
    BY <1>a, <1>3, <2>1, <2>2, <2>3, <2>4, <2>5 DEF RestOK
<1>6. ASSUME NEW p \in Processes, NoteRetry(p) PROVE RestOK'
  <2>1. thr[p].s \in Schedules
    BY <1>6, <1>a DEF NoteRetry, ThreadsOK, Thread, ThreadOK, AtHand
  <2>2. UNCHANGED <<now, expr, enabled, edits, faults, succeeded, fires>>
    BY <1>6 DEF NoteRetry, runs
  <2>3. lock' \in Processes \cup {None}
    BY <1>6, <1>a DEF NoteRetry, Unlocked, RestOK
  <2>4. now \in -1..now
    BY <1>a DEF RestOK, Minutes
  <2>5. last' \in [Schedules -> -1..now]
    BY <1>6, <1>a, <2>1, <2>4 DEF NoteRetry, RestOK
  <2>6. retry' \in [Schedules -> Entry] /\ \A s \in Online : retry'[s] = NoEntry
    BY <1>6, <1>a, <1>4, <2>1 DEF NoteRetry, RestOK
  <2> QED
    BY <1>a, <2>2, <2>3, <2>5, <2>6 DEF RestOK
<1>7. ASSUME NEW p \in Processes, Expire(p) \/ Forget(p) PROVE RestOK'
  <2>1. PICK s \in thr[p].pend : retry' = [retry EXCEPT ![s] = NoEntry]
    BY <1>7 DEF Expire, Forget
  <2>2. s \in Schedules
    BY <1>a DEF ThreadsOK, Thread
  <2>3. UNCHANGED <<now, expr, enabled, last, edits, lock, faults, succeeded, fires>>
    BY <1>7 DEF Expire, Forget, cron, runs
  <2> QED
    BY <1>a, <1>3, <1>4, <2>1, <2>2, <2>3 DEF RestOK
<1>8. ASSUME NEW p \in Processes, BeginOnline(p) PROVE RestOK'
  <2>1. /\ UNCHANGED <<now, expr, enabled, last, retry, edits, fires, succeeded, lock>>
        /\ faults' = faults \/ (faults < MaxFaults /\ faults' = faults + 1)
    BY <1>8 DEF BeginOnline, Disturb, cron
  <2> QED
    BY <2>1, <1>a, <1>b DEF RestOK
<1>9. ASSUME NEW p \in Processes, EndOnline(p) PROVE RestOK'
  <2>1. /\ UNCHANGED <<now, expr, enabled, last, retry, edits, fires, lock>>
        /\ faults' = faults \/ (faults < MaxFaults /\ faults' = faults + 1)
    BY <1>9 DEF EndOnline, Disturb, cron
  <2>2. thr[p].run \in Tasks
    BY <1>9, <1>a DEF EndOnline, ThreadsOK, ThreadOK
  <2>3. succeeded' = succeeded \/ \E t \in Tasks, v \in {"SUCCESS", "FAIL"} : Credited(t, v)
    BY <1>9, <2>2 DEF EndOnline
  <2> QED
    BY <2>1, <2>3, <1>a, <1>b DEF RestOK
<1>10. ASSUME \/ \E y \in Pages : StartOnPage(y)
              \/ \E t \in Tasks : CancelOnPage(t) \/ WorkerFinishes(t) \/ SweepStale(t)
              \/ \E t \in Tasks, w \in Workers : WorkerClaims(t, w)
              \/ UNCHANGED vars
       PROVE  RestOK'
  <2>1. /\ UNCHANGED <<now, expr, enabled, last, retry, edits, fires, lock>>
        /\ faults' = faults \/ (faults < MaxFaults /\ faults' = faults + 1)
        /\ succeeded' = succeeded \/ \E t \in Tasks, v \in {"SUCCESS", "FAIL"} : Credited(t, v)
    BY <1>10 DEF StartOnPage, CancelOnPage, WorkerFinishes, SweepStale, WorkerClaims,
       Disturb, cron, runs, vars
  <2> QED
    BY <2>1, <1>a, <1>b DEF RestOK
<1>11. ASSUME NEW s \in Schedules, SaveSchedule(s) PROVE RestOK'
  <2>1. PICK save \in Saveable(s) :
          /\ expr' = [expr EXCEPT ![s] = save[1]]
          /\ enabled' = IF save[2] THEN enabled \cup {s} ELSE enabled \ {s}
    BY <1>11 DEF SaveSchedule
  <2>2. save[1] \in Known
    BY DEF Saveable, Known
  <2>3. edits' \in 0..MaxEdits
    BY <1>11, <1>a DEF SaveSchedule, RestOK
  <2>4. UNCHANGED <<now, last, retry, lock, faults, succeeded, fires>>
    BY <1>11 DEF SaveSchedule, runs
  <2>5. expr' \in [Schedules -> Known] /\ enabled' \subseteq Schedules
    BY <2>1, <2>2, <1>a DEF RestOK
  <2> QED
    BY <2>3, <2>4, <2>5, <1>a DEF RestOK
<1>12. CASE NextMinute
  <2>1. now' \in Minutes /\ now' = now + 1
    BY <1>12, <1>a DEF NextMinute, RestOK, Minutes
  <2>2. UNCHANGED <<expr, enabled, last, retry, edits, fires, lock, faults, succeeded>>
    BY <1>12 DEF NextMinute, cron, runs
  <2>3. last' \in [Schedules -> -1..now']
    BY <1>a, <2>1, <2>2 DEF RestOK, Minutes
  <2> QED
    BY <2>1, <2>2, <2>3, <1>a DEF RestOK
<1> QED
  BY <1>1, <1>2, <1>5, <1>6, <1>7, <1>8, <1>9, <1>10, <1>11, <1>12
     DEF Next, Admits, Fires, Retries, Runs

LEMMA InitType == Init => TypeOK
<1> SUFFICES ASSUME Init PROVE TypeOK
  OBVIOUS
<1>1. NoEntry \in Entry /\ 0 \in Minutes
  BY DEF NoEntry, Entry, Minutes
<1>2. Fresh("down") \in Thread /\ ThreadOK(Fresh("down")) /\ Fresh("down").at = 0
  BY FreshThread DEF Steps, AtHand
<1>3. RestOK
  BY <1>1 DEF Init, RestOK, Known
<1>4. TableOK
  BY <1>1, AbsentRowsType DEF Init, TableOK
<1>5. ThreadsOK
  BY <1>2 DEF Init, ThreadsOK
<1> QED
  BY <1>3, <1>4, <1>5, TypeParts

LEMMA StepType == TypeOK /\ [Next]_vars => TypeOK'
<1> SUFFICES ASSUME TypeOK, [Next]_vars PROVE RestOK' /\ TableOK' /\ ThreadsOK'
  BY TypeParts DEF TypeOK, RestOK, TableOK, ThreadsOK
<1> QED
  BY RestStep, TableStep, ThreadsStep

\* The variables hold the values the code can give them: in particular a retry
\* entry never belongs to an online schedule, and nothing but a batch schedule
\* reaches the admission.
THEOREM CronTypeOK == Spec => []TypeOK
<1>1. Init => TypeOK
  BY InitType
<1>2. TypeOK /\ [Next]_vars => TypeOK'
  BY StepType
<1> QED
  BY <1>1, <1>2, PTL DEF Spec

-------------------------------------------------------------------------------
(* One fire per minute *)

\* The step that fires takes a minute after last_run, and no step moves last_run
\* back.
LEMMA FireStep ==
  ASSUME TypeOK, FiredMinutesArePast, OneFirePerMinute, [Next]_vars
  PROVE  FiredMinutesArePast' /\ OneFirePerMinute'
<1>a. /\ last \in [Schedules -> -1..now] /\ now \in Minutes
      /\ fires \in [Schedules -> [Minutes -> Nat]]
      /\ \A p \in Processes : thr[p].at \in Minutes /\ thr[p].todo \subseteq Schedules
                               /\ thr[p].s \in Schedules \cup {None}
  BY DEF TypeOK, Thread
<1>1. ASSUME NEW p \in Processes, Claim(p)
      PROVE  FiredMinutesArePast' /\ OneFirePerMinute'
  <2>1. PICK s \in thr[p].todo :
          /\ MayClaim(p, s)
          /\ last' = [last EXCEPT ![s] = thr[p].at]
          /\ fires' = [fires EXCEPT ![s][thr[p].at] = @ + 1]
    BY <1>1 DEF Claim
  <2>2. s \in Schedules /\ thr[p].at \in Minutes /\ last[s] < thr[p].at
    BY <2>1, <1>a DEF MayClaim
  <2>3. fires[s][thr[p].at] = 0
    <3>1. fires[s][thr[p].at] \in Nat /\ last[s] \in Int /\ thr[p].at \in Int
      BY <2>2, <1>a DEF Minutes
    <3>2. fires[s][thr[p].at] > 0 => thr[p].at <= last[s]
      BY <2>2 DEF FiredMinutesArePast
    <3> QED
      BY <2>2, <3>1, <3>2
  <2>4. ASSUME NEW u \in Schedules, NEW m \in Minutes
        PROVE  fires'[u][m] <= 1 /\ (fires'[u][m] > 0 => m <= last'[u])
    <3>1. CASE u = s /\ m = thr[p].at
      BY <3>1, <2>1, <2>2, <2>3, <1>a DEF Minutes
    <3>2. CASE u = s /\ m # thr[p].at
      BY SMTT(30), <3>2, <2>1, <2>2, <1>a DEF FiredMinutesArePast, OneFirePerMinute, Minutes
    <3>3. CASE u # s
      BY <3>3, <2>1, <2>2, <1>a DEF FiredMinutesArePast, OneFirePerMinute
    <3> QED
      BY <3>1, <3>2, <3>3
  <2> QED
    BY <2>4 DEF FiredMinutesArePast, OneFirePerMinute
<1>2. ASSUME fires' = fires, \A s \in Schedules : last'[s] >= last[s], TypeOK'
      PROVE  FiredMinutesArePast' /\ OneFirePerMinute'
  <2>1. OneFirePerMinute'
    BY <1>2 DEF OneFirePerMinute
  <2>2. ASSUME NEW s \in Schedules, NEW m \in Minutes, fires[s][m] > 0
        PROVE  m <= last'[s]
    <3>1. last'[s] \in Int /\ last[s] \in Int /\ m \in Int
      BY <1>2, <1>a DEF TypeOK, Minutes
    <3> QED
      BY <1>2, <2>2, <3>1 DEF FiredMinutesArePast
  <2> QED
    BY <1>2, <2>1, <2>2 DEF FiredMinutesArePast
<1>3. TypeOK'
  BY StepType
<1>4. ASSUME NEW p \in Processes, NoteRetry(p)
      PROVE  fires' = fires /\ \A s \in Schedules : last'[s] >= last[s]
  <2>1. fires' = fires /\ (last' = last \/ last' = [last EXCEPT ![thr[p].s] = now])
    BY <1>4 DEF NoteRetry
  <2>2. ASSUME NEW s \in Schedules PROVE last'[s] >= last[s]
    <3>1. last[s] \in Int /\ last[s] <= now /\ now \in Int
      BY <1>a DEF Minutes
    <3>2. last'[s] = last[s] \/ last'[s] = now
      BY <2>1, <1>a
    <3> QED
      BY <3>1, <3>2
  <2> QED
    BY <2>1, <2>2
<1>5. ASSUME NEW p \in Processes,
             \/ Boot(p) \/ Reap(p) \/ Tick(p) \/ PassOver(p) \/ Sleep(p) \/ TakeLock(p)
             \/ GiveUpWaiting(p) \/ Gate(p) \/ Insert(p) \/ InsertFails(p) \/ Drop(p)
             \/ NoteFire(p) \/ BeginRetries(p) \/ Expire(p) \/ RecordExpired(p)
             \/ Forget(p) \/ Redispatch(p) \/ BeginOnline(p) \/ ReportOnline(p)
             \/ StopOnline(p) \/ EndOnline(p) \/ Crash(p)
      PROVE  fires' = fires /\ last' = last
  BY <1>5 DEF Boot, Reap, Tick, PassOver, Sleep, TakeLock, GiveUpWaiting, Gate, Insert,
     InsertFails, Drop, NoteFire, BeginRetries, Expire, RecordExpired, Forget, Redispatch,
     BeginOnline, ReportOnline, StopOnline, EndOnline, Crash, cron
<1>6. ASSUME \/ \E y \in Pages : StartOnPage(y)
             \/ \E s \in Schedules : SaveSchedule(s)
             \/ \E t \in Tasks : CancelOnPage(t) \/ WorkerFinishes(t) \/ SweepStale(t)
             \/ \E t \in Tasks, w \in Workers : WorkerClaims(t, w)
             \/ NextMinute \/ UNCHANGED vars
      PROVE  fires' = fires /\ last' = last
  BY <1>6 DEF StartOnPage, SaveSchedule, CancelOnPage, WorkerFinishes, SweepStale,
     WorkerClaims, NextMinute, cron, vars
<1>7. \A s \in Schedules : last[s] >= last[s]
  BY <1>a
<1> QED
  BY <1>1, <1>2, <1>3, <1>4, <1>5, <1>6, <1>7 DEF Next, Admits, Fires, Retries, Runs

\* A schedule fires at most once in a minute, for any number of web processes.
THEOREM CronFiresOnce == Spec => []OneFirePerMinute
<1> DEFINE I == TypeOK /\ FiredMinutesArePast /\ OneFirePerMinute
<1>1. Init => I
  BY InitType DEF Init, FiredMinutesArePast, OneFirePerMinute
<1>2. I /\ [Next]_vars => I'
  BY StepType, FireStep
<1>3. I => OneFirePerMinute
  OBVIOUS
<1> QED
  BY <1>1, <1>2, <1>3, PTL DEF Spec

-------------------------------------------------------------------------------
(* One live batch run *)

\* A step that adds no batch run, brings no thread between the gate and the insert
\* and takes the lock from nobody keeps the gate locked.
LEMMA GateKept ==
  ASSUME TypeOK, GateIsLocked, OneLiveBatch,
         BatchShrinks(rows, rows'),
         \A q \in Processes :
           /\ thr'[q].pc \in {"gate", "insert"} => thr'[q].pc = thr[q].pc
           /\ thr'[q].pc \in {"gate", "insert"} => (lock = q => lock' = q)
  PROVE  GateIsLocked' /\ OneLiveBatch'
<1>1. OneLiveBatch'
  BY DEF OneLiveBatch, BatchShrinks, BatchLive
<1>2. Blocked(rows') => Blocked(rows)
  BY DEF Blocked, BatchShrinks
<1>3. GateIsLocked'
  BY <1>2 DEF GateIsLocked
<1> QED
  BY <1>1, <1>3

\* The moving thread is not between the gate and the insert, and gives up no lock
\* but its own.
LEMMA GateLeft ==
  ASSUME TypeOK, GateIsLocked, OneLiveBatch, NEW p \in Processes, NEW th,
         Moves(p, th), th.pc \notin {"gate", "insert"},
         lock' = lock \/ lock = p, BatchShrinks(rows, rows')
  PROVE  GateIsLocked' /\ OneLiveBatch'
<1>1. thr'[p] = th /\ \A q \in Processes \ {p} : thr'[q] = thr[q]
  BY DEF Moves, TypeOK
<1> QED
  BY <1>1, GateKept

\* What a thread does outside an admission leaves it outside the gate, and moves
\* no other thread.
LEMMA OutsideGate ==
  ASSUME TypeOK, NEW p \in Processes,
         \/ Boot(p) \/ Tick(p) \/ BeginRetries(p) \/ Sleep(p) \/ Crash(p)
         \/ Claim(p) \/ PassOver(p) \/ Expire(p) \/ Forget(p) \/ Redispatch(p)
         \/ NoteFire(p) \/ NoteRetry(p) \/ RecordExpired(p)
         \/ BeginOnline(p) \/ StopOnline(p) \/ EndOnline(p)
  PROVE  \E th : Moves(p, th) /\ th.pc \notin {"gate", "insert"}
<1>a. thr[p] \in Thread /\ ThreadOK(thr[p])
  BY DEF TypeOK
<1>b. \A pc \in {"idle", "reap", "row", "retry", "down"} :
        Fresh(pc) \in Thread /\ Fresh(pc).pc = pc
  BY FreshThread DEF Steps, AtHand
<1>1. CASE Boot(p)
  <2>1. PICK f \in Thread : f = Fresh("reap") /\ f.pc = "reap"
    BY <1>b
  <2> DEFINE X == {t \in Tasks : TypeOf[t] \in Online /\ IsLive(rows, t) /\ ~rows[t].queued}
             th == [f EXCEPT !.dead = X]
  <2>2. Moves(p, th)
    BY <1>1, <2>1 DEF Boot
  <2>3. th.pc = "reap"
    BY <2>1 DEF Thread
  <2> QED
    BY <2>2, <2>3
<1>2. CASE Tick(p)
  <2>1. PICK f \in Thread : f = Fresh("row") /\ f.pc = "row"
    BY <1>b
  <2> DEFINE th == [f EXCEPT !.at = now, !.todo = Due(now), !.seen = expr]
  <2>2. Moves(p, th)
    BY <1>2, <2>1 DEF Tick
  <2>3. th.pc = "row"
    BY <2>1 DEF Thread
  <2> QED
    BY <2>2, <2>3
<1>3. CASE BeginRetries(p)
  <2>1. PICK f \in Thread : f = Fresh("retry") /\ f.pc = "retry"
    BY <1>b
  <2> DEFINE th == [f EXCEPT !.at = now, !.held = retry,
                             !.pend = {s \in Schedules : retry[s] # NoEntry}]
  <2>2. Moves(p, th)
    BY <1>3, <2>1 DEF BeginRetries
  <2>3. th.pc = "retry"
    BY <2>1 DEF Thread
  <2> QED
    BY <2>2, <2>3
<1>4. CASE Sleep(p)
  BY <1>4, <1>b DEF Sleep
<1>5. CASE Crash(p)
  BY <1>5, <1>b DEF Crash
<1>6. CASE Claim(p)
  <2>1. PICK s \in thr[p].todo :
          Moves(p, [thr[p] EXCEPT !.s = s, !.pc = IF s \in Online THEN "begin" ELSE "wait"])
    BY <1>6 DEF Claim
  <2> DEFINE th == [thr[p] EXCEPT !.s = s, !.pc = IF s \in Online THEN "begin" ELSE "wait"]
  <2>2. th.pc \in {"begin", "wait"}
    BY <1>a DEF Thread
  <2>3. Moves(p, th)
    BY <2>1
  <2> HIDE DEF th
  <2> QED
    BY <2>2, <2>3
<1>7. CASE PassOver(p)
  <2>1. PICK s \in thr[p].todo :
          Moves(p, [thr[p] EXCEPT !.todo = @ \ {s},
                                  !.bad = @ /\ s \in Online /\ thr[p].ran])
    BY <1>7 DEF PassOver
  <2> DEFINE th == [thr[p] EXCEPT !.todo = @ \ {s},
                                  !.bad = @ /\ s \in Online /\ thr[p].ran]
  <2>2. th.pc = thr[p].pc /\ thr[p].pc = "row"
    BY <1>7, <1>a DEF Thread, PassOver
  <2> QED
    BY <2>1, <2>2
<1>8. CASE Expire(p)
  <2>1. PICK s \in thr[p].pend : Moves(p, [thr[p] EXCEPT !.pc = "expired", !.s = s])
    BY <1>8 DEF Expire
  <2> DEFINE th == [thr[p] EXCEPT !.pc = "expired", !.s = s]
  <2>2. th.pc = "expired"
    BY <1>a DEF Thread
  <2> QED
    BY <2>1, <2>2
<1>9. CASE Forget(p)
  <2>1. PICK s \in thr[p].pend : Moves(p, [thr[p] EXCEPT !.pend = @ \ {s}])
    BY <1>9 DEF Forget
  <2> DEFINE th == [thr[p] EXCEPT !.pend = @ \ {s}]
  <2>2. th.pc = thr[p].pc /\ thr[p].pc = "retry"
    BY <1>9, <1>a DEF Thread, Forget
  <2> QED
    BY <2>1, <2>2
<1>10. CASE Redispatch(p)
  <2>1. PICK s \in thr[p].pend : Moves(p, [thr[p] EXCEPT !.pc = "wait", !.s = s])
    BY <1>10 DEF Redispatch
  <2> DEFINE th == [thr[p] EXCEPT !.pc = "wait", !.s = s]
  <2>2. th.pc = "wait"
    BY <1>a DEF Thread
  <2> QED
    BY <2>1, <2>2
<1>11. CASE NoteFire(p)
  <2>1. PICK b \in Thread : b = Back(p, "row") /\ b.pc = "row"
    BY <1>11, <1>a, BackThread DEF NoteFire, Firing
  <2> DEFINE th == [b EXCEPT !.ran = @ \/ (thr[p].s \in Online /\ thr[p].out = "done")]
  <2>2. Moves(p, th)
    BY <1>11, <2>1 DEF NoteFire
  <2>3. th.pc = "row"
    BY <2>1 DEF Thread
  <2> QED
    BY <2>2, <2>3
<1>12. CASE NoteRetry(p) \/ RecordExpired(p)
  <2>1. Back(p, "retry").pc = "retry"
    BY <1>12, <1>a, BackThread DEF NoteRetry, RecordExpired
  <2> QED
    BY <1>12, <1>b, <2>1 DEF NoteRetry, RecordExpired
<1>13. CASE BeginOnline(p)
  <2>1. ASSUME NEW t, Moves(p, [thr[p] EXCEPT !.pc = "inline", !.run = t])
        PROVE  \E th : Moves(p, th) /\ th.pc \notin {"gate", "insert"}
    <3>1. [thr[p] EXCEPT !.pc = "inline", !.run = t].pc = "inline"
      BY <1>a DEF Thread
    <3> QED
      BY <2>1, <3>1
  <2>2. CASE Outcome(p, "failed")
    <3>1. [thr[p] EXCEPT !.pc = "note", !.out = "failed"].pc = "note"
      BY <1>a DEF Thread
    <3> QED
      BY <2>2, <3>1 DEF Outcome
  <2> QED
    BY <1>13, <2>1, <2>2 DEF BeginOnline
<1>14. CASE StopOnline(p) \/ EndOnline(p)
  <2>1. [thr[p] EXCEPT !.pc = "note", !.out = "done", !.run = None].pc = "note"
    BY <1>a DEF Thread
  <2> QED
    BY <1>14, <2>1 DEF StopOnline, EndOnline
<1> QED
  BY <1>1, <1>2, <1>3, <1>4, <1>5, <1>6, <1>7, <1>8, <1>9, <1>10, <1>11, <1>12, <1>13, <1>14

LEMMA GateStep ==
  ASSUME TypeOK, GateIsLocked, OneLiveBatch, [Next]_vars
  PROVE  GateIsLocked' /\ OneLiveBatch'
<1>a. /\ rows \in Table /\ lock \in Processes \cup {None}
      /\ \A p \in Processes : thr[p] \in Thread /\ ThreadOK(thr[p])
  BY DEF TypeOK
<1>b. /\ \A p \in Processes : thr[p].dead \subseteq Tasks
      /\ \A S, y : Unused(S, y) \subseteq Tasks
      /\ {"SUCCESS", "FAIL"} \subseteq TerminalStatus
      /\ BatchShrinks(rows, rows)
  BY <1>a DEF Thread, Unused, TerminalStatus, BatchShrinks
<1>c. \A pc \in {"idle", "reap", "row", "retry", "down"} : Fresh(pc).pc = pc
  BY DEF Fresh
<1>1. ASSUME NEW p \in Processes, TakeLock(p) PROVE GateIsLocked' /\ OneLiveBatch'
  <2>1. thr'[p].pc = "gate" /\ \A q \in Processes \ {p} : thr'[q] = thr[q]
    BY <1>1, <1>a DEF TakeLock, Moves, TypeOK, Thread
  <2>2. lock' = p /\ rows' = rows /\ lock \in {None, p}
    BY <1>1 DEF TakeLock, runs
  <2>3. \A q \in Processes \ {p} : thr[q].pc \notin {"gate", "insert"}
    BY <2>2 DEF GateIsLocked
  <2> QED
    BY <2>1, <2>2, <2>3 DEF GateIsLocked, OneLiveBatch
<1>2. ASSUME NEW p \in Processes, Gate(p) PROVE GateIsLocked' /\ OneLiveBatch'
  <2>1. lock = p /\ rows' = rows
    BY <1>2 DEF Gate, GateIsLocked, runs
  <2>2. CASE Outcome(p, "blocked")
    <3>1. [thr[p] EXCEPT !.pc = "note", !.out = "blocked"].pc = "note"
      BY <1>a DEF Thread
    <3> QED
      BY <2>1, <2>2, <3>1, <1>b, GateLeft DEF Outcome
  <2>3. CASE ~Blocked(rows) /\ Moves(p, [thr[p] EXCEPT !.pc = "insert"]) /\ lock' = lock
    <3>1. thr'[p].pc = "insert" /\ \A q \in Processes \ {p} : thr'[q] = thr[q]
      BY <2>3, <1>a DEF Moves, TypeOK, Thread
    <3> QED
      BY <2>1, <2>3, <3>1 DEF GateIsLocked, OneLiveBatch
  <2> QED
    BY <1>2, <2>2, <2>3 DEF Gate
<1>3. ASSUME NEW p \in Processes, Insert(p) PROVE GateIsLocked' /\ OneLiveBatch'
  <2>1. lock = p /\ ~Blocked(rows)
    BY <1>3 DEF Insert, GateIsLocked
  <2>2. PICK t \in Tasks, out \in {"done", "blocked"} :
          Outcome(p, out) /\ rows' \in {AfterStart(rows, t), Cleared(rows, t)}
    BY <1>3, <1>b DEF Insert
  <2>3. \A u \in Tasks \ {t} : ~BatchLive(rows', u)
    BY <2>1, <2>2, <1>a, EnqueuedRows, ClearedRows DEF Blocked, BatchShrinks
  <2>4. OneLiveBatch'
    BY <2>3 DEF OneLiveBatch
  <2>5. thr'[p].pc = "note" /\ \A q \in Processes \ {p} : thr'[q] = thr[q]
    BY <2>2, <1>a DEF Outcome, Moves, TypeOK, Thread
  <2>6. \A q \in Processes \ {p} : thr[q].pc \notin {"gate", "insert"}
    BY <2>1 DEF GateIsLocked
  <2> QED
    BY <2>4, <2>5, <2>6 DEF GateIsLocked
<1>4. ASSUME NEW p \in Processes, InsertFails(p) PROVE GateIsLocked' /\ OneLiveBatch'
  <2>1. [thr[p] EXCEPT !.pc = "note", !.out = "failed", !.bad = TRUE].pc = "note"
    BY <1>a DEF Thread
  <2>2. BatchShrinks(rows, rows')
    BY <1>4, <1>a, <1>b, ClearedRows DEF InsertFails
  <2> QED
    BY <1>4, <2>1, <2>2, GateLeft DEF InsertFails
<1>5. ASSUME NEW p \in Processes, GiveUpWaiting(p) \/ Drop(p)
      PROVE  GateIsLocked' /\ OneLiveBatch'
  <2>1. Failed(thr[p]).pc \in {"note", "idle"}
    BY <1>a, <1>c DEF Failed, Thread
  <2>2. lock' = lock \/ lock = p
    BY <1>5 DEF GiveUpWaiting, Drop, GateIsLocked
  <2>3. rows' = rows /\ Moves(p, Failed(thr[p]))
    BY <1>5 DEF GiveUpWaiting, Drop, runs
  <2> QED
    BY <2>1, <2>2, <2>3, <1>b, GateLeft
<1>6. ASSUME NEW p \in Processes, NEW th, Moves(p, th), th.pc \notin {"gate", "insert"},
             lock' = lock \/ lock = p, BatchShrinks(rows, rows')
      PROVE  GateIsLocked' /\ OneLiveBatch'
  BY <1>6, GateLeft
<1>7. ASSUME NEW p \in Processes, Reap(p) PROVE GateIsLocked' /\ OneLiveBatch'
  <2>1. CASE Moves(p, Fresh("idle")) /\ rows' = rows
    BY <1>7, <2>1, <1>b, <1>c, <1>6 DEF Reap
  <2>2. ASSUME NEW t \in Tasks, Moves(p, [thr[p] EXCEPT !.dead = @ \ {t}]),
               rows' = Saved(rows, t, "FAIL")
        PROVE  GateIsLocked' /\ OneLiveBatch'
    <3>1. [thr[p] EXCEPT !.dead = @ \ {t}].pc = "reap"
      BY <1>7, <1>a DEF Reap, Thread
    <3>2. BatchShrinks(rows, rows')
      BY <2>2, <1>a, <1>b, SavedRows
    <3> QED
      BY <1>7, <2>2, <3>1, <3>2, <1>6 DEF Reap
  <2> QED
    BY <1>7, <1>b, <2>1, <2>2 DEF Reap
<1>8. ASSUME NEW p \in Processes, Boot(p) \/ Tick(p) \/ BeginRetries(p) \/ Sleep(p) \/ Crash(p)
      PROVE  GateIsLocked' /\ OneLiveBatch'
  <2>1. rows' = rows /\ (lock' = lock \/ lock = p)
    BY <1>8 DEF Boot, Tick, BeginRetries, Sleep, Crash, Unlocked, runs
  <2>2. PICK th : Moves(p, th) /\ th.pc \notin {"gate", "insert"}
    BY <1>8, OutsideGate
  <2> QED
    BY <2>1, <2>2, <1>b, <1>6
<1>9. ASSUME NEW p \in Processes,
             Claim(p) \/ PassOver(p) \/ Expire(p) \/ Forget(p) \/ Redispatch(p)
      PROVE  GateIsLocked' /\ OneLiveBatch'
  <2>1. rows' = rows /\ lock' = lock
    BY <1>9 DEF Claim, PassOver, Expire, Forget, Redispatch, runs
  <2>2. PICK th : Moves(p, th) /\ th.pc \notin {"gate", "insert"}
    BY <1>9, OutsideGate
  <2> QED
    BY <2>1, <2>2, <1>b, <1>6
<1>10. ASSUME NEW p \in Processes, NoteFire(p) \/ NoteRetry(p) \/ RecordExpired(p)
       PROVE  GateIsLocked' /\ OneLiveBatch'
  <2>1. /\ thr[p].pc \in {"note", "expired"}
        /\ lock' = lock \/ lock = p
    BY <1>10 DEF NoteFire, Firing, NoteRetry, RecordExpired, Unlocked
  <2>2. PICK th : Moves(p, th) /\ th.pc \notin {"gate", "insert"}
    BY <1>10, OutsideGate
  <2>3. BatchShrinks(rows, rows')
    <3>1. CASE rows' = rows
      BY <3>1, <1>b
    <3>2. ASSUME NEW t \in Tasks, rows' = Saved(Wipe(rows, {}), t, "FAIL")
          PROVE  BatchShrinks(rows, rows')
      <4>1. Wipe(rows, {}) \in Table /\ BatchShrinks(rows, Wipe(rows, {}))
        BY <1>a, WipeType, WipeShrinks
      <4>2. BatchShrinks(Wipe(rows, {}), Saved(Wipe(rows, {}), t, "FAIL"))
        BY <4>1, <1>b, SavedRows
      <4> QED
        BY <3>2, <4>1, <4>2 DEF BatchShrinks
    <3> QED
      BY <1>10, <1>b, <3>1, <3>2 DEF NoteFire, NoteRetry, RecordExpired, runs
  <2> QED
    BY <2>1, <2>2, <2>3, <1>6
<1>11. ASSUME NEW p \in Processes, BeginOnline(p) \/ StopOnline(p) \/ EndOnline(p)
       PROVE  GateIsLocked' /\ OneLiveBatch'
  <2>1. lock' = lock
    BY <1>11 DEF BeginOnline, StopOnline, EndOnline
  <2>2. PICK th : Moves(p, th) /\ th.pc \notin {"gate", "insert"}
    BY <1>11, OutsideGate
  <2>3. BatchShrinks(rows, rows')
    <3>1. CASE BeginOnline(p)
      <4>1. rows' = rows \/ \E t \in Unused(rows, thr[p].s) : rows' = ReportRunning(rows, t)
        BY <3>1 DEF BeginOnline
      <4>2. thr[p].s \in Online
        BY <3>1, <1>a DEF BeginOnline, ThreadOK
      <4> QED
        BY <4>1, <4>2, <1>a, <1>b, OtherRows DEF Unused
    <3>2. CASE StopOnline(p)
      BY <3>2, <1>b DEF StopOnline, runs
    <3>3. CASE EndOnline(p)
      <4>1. thr[p].run \in Tasks
        BY <3>3, <1>a DEF EndOnline, ThreadOK
      <4>2. rows' = rows \/ \E v \in {"SUCCESS", "FAIL"} : rows' = Saved(rows, thr[p].run, v)
        BY <3>3 DEF EndOnline
      <4> QED
        BY <4>1, <4>2, <1>a, <1>b, SavedRows
    <3> QED
      BY <1>11, <3>1, <3>2, <3>3
  <2> QED
    BY <2>1, <2>2, <2>3, <1>6
<1>12. ASSUME thr' = thr, lock' = lock, BatchShrinks(rows, rows')
       PROVE  GateIsLocked' /\ OneLiveBatch'
  BY <1>12, GateKept
<1>13. ASSUME NEW p \in Processes, ReportOnline(p) PROVE GateIsLocked' /\ OneLiveBatch'
  <2>1. thr[p].run \in Tasks /\ TypeOf[thr[p].run] \in Online
    BY <1>13, <1>a DEF ReportOnline, ThreadOK
  <2> QED
    BY <1>13, <2>1, <1>a, <1>12, OtherRows DEF ReportOnline
<1>14. ASSUME NEW y \in Pages, StartOnPage(y) PROVE GateIsLocked' /\ OneLiveBatch'
  <2>1. PICK t \in Tasks : rows' = AfterStart(rows, t)
    BY <1>14, <1>b DEF StartOnPage
  <2>2. lock = None /\ ~Blocked(rows) /\ thr' = thr
    BY <1>14 DEF StartOnPage
  <2>3. \A u \in Tasks \ {t} : ~BatchLive(rows', u)
    BY <2>1, <2>2, <1>a, EnqueuedRows DEF Blocked
  <2>4. \A q \in Processes : thr[q].pc \notin {"gate", "insert"}
    BY <2>2 DEF GateIsLocked
  <2> QED
    BY <2>2, <2>3, <2>4 DEF OneLiveBatch, GateIsLocked
<1>15. ASSUME NEW t \in Tasks, CancelOnPage(t) \/ WorkerFinishes(t) \/ SweepStale(t)
       PROVE  GateIsLocked' /\ OneLiveBatch'
  <2>1. thr' = thr /\ lock' = lock
    BY <1>15 DEF CancelOnPage, WorkerFinishes, SweepStale
  <2>2. BatchShrinks(rows, rows')
    BY <1>15, <1>a, <1>b, OtherRows, SavedRows DEF CancelOnPage, WorkerFinishes, SweepStale
  <2> QED
    BY <2>1, <2>2, <1>12
<1>16. ASSUME NEW t \in Tasks, NEW w \in Workers, WorkerClaims(t, w)
       PROVE  GateIsLocked' /\ OneLiveBatch'
  BY <1>16, <1>a, <1>12, OtherRows DEF WorkerClaims
<1>17. ASSUME (\E s \in Schedules : SaveSchedule(s)) \/ NextMinute \/ UNCHANGED vars
       PROVE  GateIsLocked' /\ OneLiveBatch'
  <2>1. UNCHANGED <<thr, lock, rows>>
    BY <1>17 DEF SaveSchedule, NextMinute, runs, vars
  <2> QED
    BY <2>1, <1>b, <1>12
<1> QED
  BY <1>1, <1>2, <1>3, <1>4, <1>5, <1>7, <1>8, <1>9, <1>10, <1>11, <1>13, <1>14, <1>15,
     <1>16, <1>17 DEF Next, Admits, Fires, Retries, Runs

\* Whatever the number of web processes and of starts on the pages, at most one
\* batch run is queued or running.
THEOREM CronOneBatch == Spec => []OneLiveBatch
<1> DEFINE I == TypeOK /\ GateIsLocked /\ OneLiveBatch
<1>1. Init => I
  <2> SUFFICES ASSUME Init PROVE I
    OBVIOUS
  <2>1. Fresh("down").pc = "down"
    BY DEF Fresh
  <2>2. GateIsLocked
    BY <2>1 DEF Init, GateIsLocked
  <2>3. OneLiveBatch
    BY DEF Init, OneLiveBatch, BatchLive, IsLive, FreeRow, LiveStatus
  <2> QED
    BY <2>2, <2>3, InitType
<1>2. I /\ [Next]_vars => I'
  BY StepType, GateStep
<1>3. I => OneLiveBatch
  OBVIOUS
<1> QED
  BY <1>1, <1>2, <1>3, PTL DEF Spec
-------------------------------------------------------------------------------
(* What is fired is due *)

\* A thread's list only gets shorter during a pass, and is emptied with it; only
\* the tick that begins a pass fills it.
LEMMA TodoShrinks ==
  ASSUME TypeOK, NEW p \in Processes,
         \/ Boot(p) \/ Reap(p) \/ Admits(p) \/ Claim(p) \/ PassOver(p) \/ NoteFire(p)
         \/ Sleep(p) \/ BeginRetries(p) \/ Retries(p) \/ Runs(p)
         \/ InsertFails(p) \/ Drop(p) \/ Crash(p)
  PROVE  /\ \A q \in Processes \ {p} : thr'[q] = thr[q]
         /\ \/ thr'[p].todo = {}
            \/ /\ thr'[p].todo \subseteq thr[p].todo
               /\ thr'[p].seen = thr[p].seen /\ thr'[p].at = thr[p].at
<1> DEFINE Goal == /\ \A q \in Processes \ {p} : thr'[q] = thr[q]
                   /\ \/ thr'[p].todo = {}
                      \/ /\ thr'[p].todo \subseteq thr[p].todo
                         /\ thr'[p].seen = thr[p].seen /\ thr'[p].at = thr[p].at
<1>a. thr \in [Processes -> Thread]
  BY DEF TypeOK
<1>b. PICK th \in Thread : th = thr[p] /\ ThreadOK(th)
  BY DEF TypeOK
<1>1. ASSUME NEW new, Moves(p, new),
             \/ new.todo = {}
             \/ new.todo \subseteq th.todo /\ new.seen = th.seen /\ new.at = th.at
      PROVE  Goal
  BY <1>1, <1>a, <1>b DEF Moves
<1>2. ASSUME NEW pc \in Steps \ AtHand, Moves(p, Fresh(pc)) PROVE Goal
  BY <1>2, <1>1, FreshThread
<1>3. CASE Boot(p)
  <2>1. PICK f \in Thread : f = Fresh("reap") /\ f.todo = {}
    BY FreshThread DEF Steps, AtHand
  <2> DEFINE new == [f EXCEPT !.dead =
        {t \in Tasks : TypeOf[t] \in Online /\ IsLive(rows, t) /\ ~rows[t].queued}]
  <2>2. Moves(p, new)
    BY <1>3, <2>1 DEF Boot
  <2>3. new.todo = {}
    BY <2>1 DEF Thread
  <2> HIDE DEF new
  <2> QED
    BY <2>2, <2>3, <1>1
<1>4. CASE BeginRetries(p)
  <2>1. PICK f \in Thread : f = Fresh("retry") /\ f.todo = {}
    BY FreshThread DEF Steps, AtHand
  <2> DEFINE new == [f EXCEPT !.at = now, !.held = retry,
                              !.pend = {s \in Schedules : retry[s] # NoEntry}]
  <2>2. Moves(p, new)
    BY <1>4, <2>1 DEF BeginRetries
  <2>3. new.todo = {}
    BY <2>1 DEF Thread
  <2> HIDE DEF new
  <2> QED
    BY <2>2, <2>3, <1>1
<1>5. ASSUME NEW d, Moves(p, [th EXCEPT !.dead = d]) PROVE Goal
  <2> DEFINE new == [th EXCEPT !.dead = d]
  <2>1. new.todo = th.todo /\ new.seen = th.seen /\ new.at = th.at
    BY DEF Thread
  <2> HIDE DEF new
  <2> QED
    BY <1>5, <2>1, <1>1 DEF new
<1>6. CASE Reap(p)
  <2>1. \/ Moves(p, Fresh("idle"))
        \/ \E t \in Tasks : Moves(p, [th EXCEPT !.dead = th.dead \ {t}])
    BY <1>6, <1>b DEF Reap, Thread
  <2> QED
    BY <2>1, <1>2, <1>5 DEF Steps, AtHand
<1>7. ASSUME NEW pc, Moves(p, [th EXCEPT !.pc = pc]) PROVE Goal
  <2> DEFINE new == [th EXCEPT !.pc = pc]
  <2>1. new.todo = th.todo /\ new.seen = th.seen /\ new.at = th.at
    BY DEF Thread
  <2> HIDE DEF new
  <2> QED
    BY <1>7, <2>1, <1>1 DEF new
<1>8. ASSUME NEW pc, NEW s, Moves(p, [th EXCEPT !.pc = pc, !.s = s]) PROVE Goal
  <2> DEFINE new == [th EXCEPT !.pc = pc, !.s = s]
  <2>1. new.todo = th.todo /\ new.seen = th.seen /\ new.at = th.at
    BY DEF Thread
  <2> HIDE DEF new
  <2> QED
    BY <1>8, <2>1, <1>1 DEF new
<1>9. ASSUME NEW pc, NEW out, Moves(p, [th EXCEPT !.pc = pc, !.out = out]) PROVE Goal
  <2> DEFINE new == [th EXCEPT !.pc = pc, !.out = out]
  <2>1. new.todo = th.todo /\ new.seen = th.seen /\ new.at = th.at
    BY DEF Thread
  <2> HIDE DEF new
  <2> QED
    BY <1>9, <2>1, <1>1 DEF new
<1>10. ASSUME Moves(p, Failed(th)) PROVE Goal
  BY <1>10, <1>2, <1>9 DEF Failed, Steps, AtHand
<1>11. CASE Admits(p)
  <2>1. TakeLock(p) => Goal
    BY <1>7, <1>b DEF TakeLock
  <2>2. GiveUpWaiting(p) => Goal
    BY <1>10, <1>b DEF GiveUpWaiting
  <2>3. Gate(p) => Goal
    BY <1>7, <1>9, <1>b DEF Gate, Outcome
  <2>4. Insert(p) => Goal
    BY <1>9, <1>b DEF Insert, Outcome
  <2> QED
    BY <1>11, <2>1, <2>2, <2>3, <2>4 DEF Admits
<1>12. CASE Claim(p)
  <2>1. PICK s \in th.todo :
          Moves(p, [th EXCEPT !.s = s, !.pc = IF s \in Online THEN "begin" ELSE "wait"])
    BY <1>12, <1>b DEF Claim
  <2> DEFINE new == [th EXCEPT !.s = s, !.pc = IF s \in Online THEN "begin" ELSE "wait"]
  <2>2. Moves(p, new)
    BY <2>1
  <2>3. new.todo = th.todo /\ new.seen = th.seen /\ new.at = th.at
    BY DEF Thread
  <2> HIDE DEF new
  <2> QED
    BY <2>2, <2>3, <1>1
<1>13. CASE PassOver(p)
  <2>1. PICK s \in th.todo :
          Moves(p, [th EXCEPT !.todo = @ \ {s}, !.bad = @ /\ s \in Online /\ th.ran])
    BY <1>13, <1>b DEF PassOver
  <2> DEFINE new == [th EXCEPT !.todo = @ \ {s}, !.bad = @ /\ s \in Online /\ th.ran]
  <2>2. Moves(p, new)
    BY <2>1
  <2>3. new.todo \subseteq th.todo /\ new.seen = th.seen /\ new.at = th.at
    BY DEF Thread
  <2> HIDE DEF new
  <2> QED
    BY <2>2, <2>3, <1>1
<1>14. CASE NoteFire(p) \/ NoteRetry(p) \/ RecordExpired(p)
  <2>1. /\ th.pc \in {"note", "expired"}
        /\ \/ Moves(p, Fresh("idle"))
           \/ \E pc \in {"row", "retry"} :
                \/ Moves(p, Back(p, pc))
                \/ \E x : Moves(p, [Back(p, pc) EXCEPT !.ran = x])
    BY <1>14, <1>b DEF NoteFire, NoteRetry, RecordExpired, Firing
  <2>2. ASSUME NEW pc \in {"row", "retry"}
        PROVE  /\ Moves(p, Back(p, pc)) => Goal
               /\ \A x : Moves(p, [Back(p, pc) EXCEPT !.ran = x]) => Goal
    <3>1. PICK b \in Thread : b = Back(p, pc)
      BY <1>b, <2>1, BackThread
    <3> DEFINE same(n) == n.todo \subseteq th.todo /\ n.seen = th.seen /\ n.at = th.at
    <3>2. same(b)
      BY <3>1, <1>b DEF Thread, Back
    <3>3. ASSUME NEW x PROVE same([b EXCEPT !.ran = x])
      BY <3>2 DEF Thread
    <3> QED
      BY <3>1, <3>2, <3>3, <1>1
  <2> QED
    BY <2>1, <2>2, <1>2 DEF Steps, AtHand
<1>15. CASE Expire(p) \/ Redispatch(p)
  BY <1>15, <1>8, <1>b DEF Expire, Redispatch
<1>16. CASE Forget(p)
  <2>1. PICK s \in th.pend : Moves(p, [th EXCEPT !.pend = @ \ {s}])
    BY <1>16, <1>b DEF Forget
  <2> DEFINE new == [th EXCEPT !.pend = @ \ {s}]
  <2>2. Moves(p, new)
    BY <2>1
  <2>3. new.todo = th.todo /\ new.seen = th.seen /\ new.at = th.at
    BY DEF Thread
  <2> HIDE DEF new
  <2> QED
    BY <2>2, <2>3, <1>1
<1>17. CASE Sleep(p) \/ Crash(p)
  BY <1>17, <1>2 DEF Sleep, Crash, Steps, AtHand
<1>18. CASE Drop(p)
  BY <1>18, <1>10, <1>b DEF Drop
<1>19. CASE InsertFails(p)
  <2> DEFINE new == [th EXCEPT !.pc = "note", !.out = "failed", !.bad = TRUE]
  <2>1. Moves(p, new)
    BY <1>19, <1>b DEF InsertFails
  <2>2. new.todo = th.todo /\ new.seen = th.seen /\ new.at = th.at
    BY DEF Thread
  <2> HIDE DEF new
  <2> QED
    BY <2>1, <2>2, <1>1
<1>20. ASSUME NEW pc, NEW t, Moves(p, [th EXCEPT !.pc = pc, !.run = t]) PROVE Goal
  <2> DEFINE new == [th EXCEPT !.pc = pc, !.run = t]
  <2>1. new.todo = th.todo /\ new.seen = th.seen /\ new.at = th.at
    BY DEF Thread
  <2> HIDE DEF new
  <2> QED
    BY <1>20, <2>1, <1>1 DEF new
<1>21. CASE Runs(p)
  <2>1. BeginOnline(p) => Goal
    BY <1>20, <1>9, <1>b DEF BeginOnline, Outcome
  <2>2. ReportOnline(p) => Goal
    BY <1>b DEF ReportOnline
  <2>3. StopOnline(p) \/ EndOnline(p) => Goal
    <3> DEFINE new == [th EXCEPT !.pc = "note", !.out = "done", !.run = None]
    <3>1. StopOnline(p) \/ EndOnline(p) => Moves(p, new)
      BY <1>b DEF StopOnline, EndOnline
    <3>2. new.todo = th.todo /\ new.seen = th.seen /\ new.at = th.at
      BY DEF Thread
    <3> HIDE DEF new
    <3> QED
      BY <3>1, <3>2, <1>1
  <2> QED
    BY <1>21, <2>1, <2>2, <2>3 DEF Runs
<1> QED
  BY <1>3, <1>4, <1>6, <1>11, <1>12, <1>13, <1>14, <1>15, <1>16, <1>17, <1>18, <1>19,
     <1>21 DEF Retries

LEMMA TodoStep ==
  ASSUME TypeOK, TodoIsDue, [Next]_vars
  PROVE  TodoIsDue'
<1>1. ASSUME NEW p \in Processes, Tick(p) PROVE TodoIsDue'
  <2>1. PICK f \in Thread : f = Fresh("row")
    BY FreshThread DEF Steps, AtHand
  <2> DEFINE new == [f EXCEPT !.at = now, !.todo = Due(now), !.seen = expr]
  <2>2. Moves(p, new)
    BY <1>1, <2>1 DEF Tick
  <2>3. new.at = now /\ new.todo = Due(now) /\ new.seen = expr
    BY DEF Thread
  <2> HIDE DEF new
  <2>4. thr'[p] = new /\ \A q \in Processes \ {p} : thr'[q] = thr[q]
    BY <2>2 DEF Moves, TypeOK
  <2> QED
    BY <2>3, <2>4 DEF TodoIsDue, Due
<1>2. ASSUME NEW p \in Processes,
             \A q \in Processes \ {p} : thr'[q] = thr[q],
             \/ thr'[p].todo = {}
             \/ /\ thr'[p].todo \subseteq thr[p].todo
                /\ thr'[p].seen = thr[p].seen /\ thr'[p].at = thr[p].at
      PROVE  TodoIsDue'
  BY <1>2 DEF TodoIsDue
<1>3. ASSUME thr' = thr PROVE TodoIsDue'
  BY <1>3 DEF TodoIsDue
<1>4. ASSUME NEW p \in Processes,
             \/ Boot(p) \/ Reap(p) \/ Admits(p) \/ Claim(p) \/ PassOver(p) \/ NoteFire(p)
             \/ Sleep(p) \/ BeginRetries(p) \/ Retries(p) \/ Runs(p)
             \/ InsertFails(p) \/ Drop(p) \/ Crash(p)
      PROVE  TodoIsDue'
  BY <1>4, <1>2, TodoShrinks
<1>5. ASSUME \/ \E y \in Pages : StartOnPage(y)
             \/ \E s \in Schedules : SaveSchedule(s)
             \/ \E t \in Tasks : CancelOnPage(t) \/ WorkerFinishes(t) \/ SweepStale(t)
             \/ \E t \in Tasks, w \in Workers : WorkerClaims(t, w)
             \/ NextMinute \/ UNCHANGED vars
      PROVE  thr' = thr
  BY <1>5 DEF StartOnPage, SaveSchedule, CancelOnPage, WorkerFinishes, SweepStale,
     WorkerClaims, NextMinute, vars
<1> QED
  BY <1>1, <1>3, <1>4, <1>5 DEF Next, Fires

\* What is fired is enabled and due at the minute it is fired for, whatever was
\* edited on the page since the tick read the schedule.
THEOREM CronFiresWhatIsDue == Spec => StaleScheduleNeverFires
<1> DEFINE I == TypeOK /\ TodoIsDue
           Step == \A s \in Schedules, m \in Minutes :
                     fires'[s][m] # fires[s][m]
                       => s \in enabled /\ CronMatches(expr[s], TimeAt[m])
<1>1. Init => I
  <2> SUFFICES ASSUME Init PROVE I
    OBVIOUS
  <2>1. Fresh("down").todo = {}
    BY FreshThread DEF Steps, AtHand
  <2>2. TodoIsDue
    BY <2>1 DEF Init, TodoIsDue
  <2> QED
    BY <2>2, InitType
<1>2. I /\ [Next]_vars => I'
  BY StepType, TodoStep
<1>3. I /\ [Next]_vars => [Step]_vars
  <2> SUFFICES ASSUME I, [Next]_vars PROVE Step
    OBVIOUS
  <2>1. ASSUME NEW p \in Processes, Claim(p) PROVE Step
    <3>1. PICK s \in thr[p].todo :
            MayClaim(p, s) /\ fires' = [fires EXCEPT ![s][thr[p].at] = @ + 1]
      BY <2>1 DEF Claim
    <3>2. CronMatches(thr[p].seen[s], TimeAt[thr[p].at])
      BY <3>1 DEF TodoIsDue
    <3>3. s \in enabled /\ CronMatches(expr[s], TimeAt[thr[p].at])
      BY <3>1, <3>2 DEF MayClaim
    <3>4. \A u \in Schedules, m \in Minutes :
            fires'[u][m] # fires[u][m] => u = s /\ m = thr[p].at
      BY <3>1 DEF TypeOK
    <3> QED
      BY <3>3, <3>4
  <2>2. (\A p \in Processes : ~Claim(p)) => fires' = fires
    BY ZenonT(30) DEF Next, Admits, Fires, Retries, Runs, Boot, Reap, Tick, PassOver, Sleep, TakeLock,
       GiveUpWaiting, Gate, Insert, InsertFails, Drop, NoteFire, NoteRetry, BeginRetries,
       Expire, RecordExpired, Forget, Redispatch, BeginOnline, ReportOnline, StopOnline,
       EndOnline, Crash, StartOnPage, SaveSchedule, CancelOnPage, WorkerFinishes,
       SweepStale, WorkerClaims, NextMinute, vars
  <2> QED
    BY <2>1, <2>2
<1> QED
  BY <1>1, <1>2, <1>3, PTL DEF Spec, StaleScheduleNeverFires

-------------------------------------------------------------------------------
(* The expressions *)

\* A distance is a multiple of the step exactly when no rest is left, and the
\* multiple is then no larger than the distance.
LEMMA WholeSteps ==
  ASSUME NEW d \in Nat, NEW n \in Nat \ {0}
  PROVE  d % n = 0 <=> \E k \in 0..d : d = k * n
<1>1. ASSUME d % n = 0
      PROVE  \E k \in 0..d : d = k * n
  <2>1. d = n * (d \div n) + (d % n)
    OBVIOUS
  <2>2. (d \div n) \in Int
    OBVIOUS
  <2>3. d = (d \div n) * n
    BY <1>1, <2>1, <2>2
  <2>4. (d \div n) \in 0..d
    BY <2>2, <2>3
  <2> QED
    BY <2>3, <2>4
<1>2. ASSUME NEW k \in 0..d, d = k * n
      PROVE  d % n = 0
  <2>1. (k * n) % n = 0
    OBVIOUS
  <2> QED
    BY <1>2, <2>1
<1> QED
  BY <1>1, <1>2

\* The values of a field are an interval that begins at its lowest value.
LEMMA FieldInterval ==
  ASSUME NEW f \in Fields
  PROVE  /\ Lowest(f) \in {0, 1}
         /\ \E top \in 1..59 : Domain[f] = Lowest(f)..top
<1>1. Lowest(f) \in {0, 1}
  BY DEF Lowest
<1>2. CASE f = "minute"
  BY <1>2 DEF Fields, Domain, Lowest
<1>3. CASE f = "hour"
  BY <1>3 DEF Fields, Domain, Lowest
<1>4. CASE f = "dom"
  BY <1>4 DEF Fields, Domain, Lowest
<1>5. CASE f = "month"
  BY <1>5 DEF Fields, Domain, Lowest
<1>6. CASE f = "dow"
  BY <1>6 DEF Fields, Domain, Lowest
<1> QED
  BY <1>1, <1>2, <1>3, <1>4, <1>5, <1>6 DEF Fields

\* In a field, the steps from a value reach the values above it at a distance
\* that leaves no rest.
LEMMA Reached ==
  ASSUME NEW start \in 0..59, NEW n \in Nat \ {0}, NEW v \in 0..59
  PROVE  v \in StepsFrom(start, n) <=> v >= start /\ (v - start) % n = 0
<1>1. ASSUME v \in StepsFrom(start, n)
      PROVE  v >= start /\ (v - start) % n = 0
  <2>1. PICK k \in 0..59 : v = start + k * n
    BY <1>1 DEF StepsFrom
  <2>2. k * n \in Nat
    OBVIOUS
  <2>3. v - start = k * n
    BY <2>1, <2>2
  <2>4. (k * n) % n = 0
    OBVIOUS
  <2> QED
    BY <2>1, <2>2, <2>3, <2>4
<1>2. ASSUME v >= start, (v - start) % n = 0
      PROVE  v \in StepsFrom(start, n)
  <2>1. v - start \in Nat
    BY <1>2
  <2>2. PICK k \in 0..(v - start) : v - start = k * n
    BY <1>2, <2>1, WholeSteps
  <2>3. k \in 0..59
    OBVIOUS
  <2>4. k * n \in Int
    OBVIOUS
  <2>5. v = start + k * n
    BY <2>2, <2>4
  <2> QED
    BY <2>3, <2>5 DEF StepsFrom
<1> QED
  BY <1>1, <1>2

\* The least of a set of integers is the one value the choice can take.
LEMMA FirstOf ==
  ASSUME NEW all \in SUBSET Int, NEW m \in all, \A u \in all : m <= u
  PROVE  (CHOOSE v \in all : \A u \in all : v <= u) = m
<1> DEFINE c == CHOOSE v \in all : \A u \in all : v <= u
<1>1. c \in all /\ \A u \in all : c <= u
  OBVIOUS
<1> HIDE DEF c
<1>2. c <= m /\ m <= c
  BY <1>1
<1>3. c \in Int /\ m \in Int
  BY <1>1
<1>4. c = m
  BY <1>2, <1>3
<1> QED
  BY <1>4 DEF c

\* What a part with a positive step means, once its first value is known.
LEMMA MeansFrom ==
  ASSUME NEW f \in Fields, NEW part \in Parts(f), part.step > 0,
         NEW m \in Stands(part, f), \A u \in Stands(part, f) : m <= u,
         Stands(part, f) \subseteq Domain[f]
  PROVE  Means(part, f) = {v \in Stands(part, f) : (v - m) % part.step = 0}
<1>1. PICK top \in 1..59 : Lowest(f) \in {0, 1} /\ Domain[f] = Lowest(f)..top
  BY FieldInterval
<1>2. Domain[f] \subseteq 0..59
  <2>1. \A v \in Lowest(f)..top : v \in 0..59
    BY <1>1
  <2> QED
    BY <1>1, <2>1, Zenon
<1>3. part.step \in Nat \ {0}
  BY DEF Parts
<1> DEFINE all == Stands(part, f)
<1> DEFINE start == CHOOSE v \in all : \A u \in all : v <= u
<1>4. all \in SUBSET Int
  BY <1>2
<1>5. start = m
  <2> HIDE DEF all
  <2> QED
    BY <1>4, FirstOf DEF all
<1>6. Means(part, f) = all \cap StepsFrom(m, part.step)
  <2>1. Means(part, f) = IF all = {} \/ part.step <= 0 THEN {}
                         ELSE all \cap StepsFrom(start, part.step)
    BY Zenon DEF Means
  <2> HIDE DEF start, all
  <2>2. ~(part.step <= 0) /\ all # {}
    BY <1>3 DEF all
  <2> QED
    BY <1>5, <2>1, <2>2
<1>7. ASSUME NEW v \in all
      PROVE  v \in StepsFrom(m, part.step) <=> (v - m) % part.step = 0
  BY <1>2, <1>3, Reached
<1> QED
  BY <1>6, <1>7

\* What a part of a field matches is what it means: the values it stands for at
\* a whole number of steps from the first of them (_field_matches, app_cron.py
\* 379-424, finds them with a remainder).  TLC tries a few small parts: here
\* every number, every range and every step is meant.
THEOREM PartsMean ==
  ASSUME NEW f \in Fields, NEW part \in Parts(f)
  PROVE  Matched(part, f) = Means(part, f)
<1>1. PICK top \in 1..59 : Lowest(f) \in {0, 1} /\ Domain[f] = Lowest(f)..top
  BY FieldInterval
<1>2. /\ part.base \in {"star", "num", "range", "word"}
      /\ part.lo \in Int /\ part.hi \in Int /\ part.step \in Int
      /\ part.stepped \in BOOLEAN
      /\ part.base \in {"num", "range"} => part.lo >= Lowest(f)
      /\ ~part.stepped => part.step = 1
  BY DEF Parts
<1> DEFINE low == Lowest(f)
           all == Stands(part, f)
<1>3. CASE part.step <= 0
  <2>1. Means(part, f) = {}
    BY <1>3 DEF Means
  <2>2. part.stepped /\ ~(part.step > 0)
    BY <1>2, <1>3
  <2>3. Matched(part, f) = {}
    BY <2>2 DEF Matched, PartMatches
  <2> QED
    BY <2>1, <2>3
<1>4. ASSUME part.step > 0, all = {}, \A v \in Domain[f] : ~PartMatches(part, v, low)
      PROVE  Matched(part, f) = Means(part, f)
  BY <1>4 DEF Matched, Means
<1>5. ASSUME part.step > 0, NEW m \in all, \A u \in all : m <= u, all \subseteq Domain[f],
             \A v \in Domain[f] : PartMatches(part, v, low)
                                    <=> v \in all /\ (v - m) % part.step = 0
      PROVE  Matched(part, f) = Means(part, f)
  <2>1. Means(part, f) = {v \in all : (v - m) % part.step = 0}
    BY <1>5, MeansFrom
  <2>2. Matched(part, f) = {v \in Domain[f] : v \in all /\ (v - m) % part.step = 0}
    BY <1>5 DEF Matched
  <2>3. {v \in Domain[f] : v \in all /\ (v - m) % part.step = 0}
        = {v \in all : (v - m) % part.step = 0}
    BY <1>5
  <2> QED
    BY <2>1, <2>2, <2>3
<1>6. CASE part.step > 0 /\ part.base = "word"
  <2>1. all = {}
    BY <1>6 DEF Stands
  <2>2. \A v \in Domain[f] : ~PartMatches(part, v, low)
    BY <1>6 DEF PartMatches
  <2> QED
    BY <1>4, <1>6, <2>1, <2>2
<1>7. CASE part.step > 0 /\ part.base = "star" /\ ~part.stepped
  <2>1. all = {}
    BY <1>7 DEF Stands
  <2>2. \A v \in Domain[f] : ~PartMatches(part, v, low)
    BY <1>7 DEF PartMatches
  <2> QED
    BY <1>4, <1>7, <2>1, <2>2
<1>8. CASE part.step > 0 /\ part.base = "star" /\ part.stepped
  <2>1. all = Domain[f]
    BY <1>8 DEF Stands
  <2>2. low \in all /\ (\A u \in all : low <= u) /\ all \subseteq Domain[f]
    BY <1>1, <2>1
  <2>3. \A v \in Domain[f] : PartMatches(part, v, low)
                               <=> v \in all /\ (v - low) % part.step = 0
    BY <1>1, <1>8, <2>1 DEF PartMatches
  <2> QED
    BY <1>5, <1>8, <2>2, <2>3
<1>9. CASE part.step > 0 /\ part.base = "num" /\ part.stepped
  <2>1. all = {v \in Domain[f] : v >= part.lo}
    BY <1>9 DEF Stands
  <2>2. \A v \in Domain[f] : PartMatches(part, v, low)
                               <=> v \in all /\ (v - part.lo) % part.step = 0
    BY <1>9, <2>1 DEF PartMatches
  <2>3. CASE part.lo > top
    <3>1. all = {}
      BY <1>1, <1>2, <2>1, <2>3
    <3> QED
      BY <1>4, <1>9, <2>2, <3>1
  <2>4. CASE part.lo <= top
    <3>1. part.lo \in all /\ (\A u \in all : part.lo <= u) /\ all \subseteq Domain[f]
      BY <1>1, <1>2, <1>9, <2>1, <2>4
    <3> QED
      BY <1>5, <1>9, <2>2, <3>1
  <2> QED
    BY <1>1, <1>2, <2>3, <2>4
<1>10. CASE part.step > 0 /\ (part.base = "range" \/ (part.base = "num" /\ ~part.stepped))
  <2>1. all = Domain[f] \cap part.lo..part.hi
    BY <1>10 DEF Stands
  <2>2. \A v \in Domain[f] : PartMatches(part, v, low)
                               <=> v \in all /\ (v - part.lo) % part.step = 0
    <3>1. CASE part.stepped
      BY <1>10, <2>1, <3>1 DEF PartMatches
    <3>2. CASE ~part.stepped
      <4>1. \A v \in Domain[f] : (v - part.lo) % part.step = 0
        BY <1>1, <1>2, <3>2
      <4>2. \A v \in Domain[f] : PartMatches(part, v, low) <=> v \in all
        BY <1>10, <2>1, <3>2 DEF PartMatches
      <4> QED
        BY <4>1, <4>2
    <3> QED
      BY <1>2, <3>1, <3>2
  <2>3. CASE all = {}
    BY <1>4, <1>10, <2>2, <2>3
  <2>4. CASE all # {}
    <3>1. part.lo \in all /\ (\A u \in all : part.lo <= u) /\ all \subseteq Domain[f]
      BY <1>1, <1>2, <1>10, <2>1, <2>4
    <3> QED
      BY <1>5, <1>10, <2>2, <3>1
  <2> QED
    BY <2>3, <2>4
<1>11. part.step <= 0 \/ part.step > 0
  BY <1>2
<1> QED
  BY <1>2, <1>3, <1>6, <1>7, <1>8, <1>9, <1>10, <1>11, Zenon

\* A day matches exactly when one of the day fields that restrict it names it, or
\* none restricts it, whatever the two fields are (app_cron.py 466-477: the days
\* of the month and the weekdays are alternatives, and Sunday may be called 7).
THEOREM DaysMean ==
  ASSUME NEW e, NEW t, t.dow \in 0..6
  PROVE  DayMatches(e, t) <=> Named(e.dom, e.dow, t)
<1> DEFINE dom == e.dom
           dow == e.dow
           hit == \E n \in 0..7 : n % 7 = t.dow /\ FieldMatches(dow, n, 0)
<1>1. t.dow \in 0..6
  OBVIOUS
<1>2. DowMatches(e, t) <=> hit
  <2>1. \A n \in 0..7 : n % 7 = t.dow <=> (n = t.dow \/ (n = 7 /\ t.dow = 0))
    <3>1. \A n \in 0..6 : n % 7 = n
      OBVIOUS
    <3>2. 7 % 7 = 0
      OBVIOUS
    <3> QED
      BY <1>1, <3>1, <3>2
  <2>2. t.dow \in 0..7
    BY <1>1
  <2> HIDE DEF hit
  <2>3. hit <=> \E n \in 0..7 : (n = t.dow \/ (n = 7 /\ t.dow = 0)) /\ FieldMatches(dow, n, 0)
    BY <2>1 DEF hit
  <2> QED
    BY <2>2, <2>3 DEF DowMatches
<1>3. dom = Any => FieldMatches(dom, t.dom, 1)
  BY DEF FieldMatches, Any
<1>4. dow = Any => DowMatches(e, t)
  BY DEF FieldMatches, DowMatches, Any
<1>5. Named(dom, dow, t) <=> \/ dom # Any /\ FieldMatches(dom, t.dom, 1)
                             \/ dow # Any /\ DowMatches(e, t)
                             \/ dom = Any /\ dow = Any
  BY <1>2 DEF Named
<1>6. DayMatches(e, t) <=> IF dom # Any /\ dow # Any
                           THEN FieldMatches(dom, t.dom, 1) \/ DowMatches(e, t)
                           ELSE FieldMatches(dom, t.dom, 1) /\ DowMatches(e, t)
  BY DEF DayMatches, Any
<1> QED
  BY <1>3, <1>4, <1>5, <1>6

\* A field matches the values it means.
LEMMA FieldMeans ==
  ASSUME NEW f \in Fields, NEW field, NEW v \in Domain[f],
         \A i \in DOMAIN field : field[i] \in Parts(f)
  PROVE  FieldMatches(field, v, Lowest(f)) <=> v \in Meant(field, f)
<1>1. \A i \in DOMAIN field : PartMatches(field[i], v, Lowest(f)) <=> v \in Means(field[i], f)
  BY PartsMean DEF Matched
<1> QED
  BY <1>1 DEF FieldMatches, Meant, Any

\* An expression fires at the minutes it means: minute, hour and month each among
\* the values their field means, on a day that its day fields name
\* (cron_matches_now, app_cron.py 453-480).
THEOREM ExpressionsMean ==
  ASSUME NEW e \in WellFormed, NEW t \in Times
  PROVE  CronMatches(e, t) <=> /\ t.minute \in Meant(e.minute, "minute")
                               /\ t.hour \in Meant(e.hour, "hour")
                               /\ t.month \in Meant(e.month, "month")
                               /\ Named(e.dom, e.dow, t)
<1>1. ASSUME NEW f \in Fields, NEW v \in Domain[f]
      PROVE  FieldMatches(e[f], v, Lowest(f)) <=> v \in Meant(e[f], f)
  BY FieldMeans DEF WellFormed
<1>2. FieldMatches(e.minute, t.minute, 0) <=> t.minute \in Meant(e.minute, "minute")
  <2>1. "minute" \in Fields /\ t.minute \in Domain["minute"] /\ Lowest("minute") = 0
    BY DEF Fields, Domain, Lowest, Times
  <2> QED
    BY <1>1, <2>1
<1>3. FieldMatches(e.hour, t.hour, 0) <=> t.hour \in Meant(e.hour, "hour")
  <2>1. "hour" \in Fields /\ t.hour \in Domain["hour"] /\ Lowest("hour") = 0
    BY DEF Fields, Domain, Lowest, Times
  <2> QED
    BY <1>1, <2>1
<1>4. FieldMatches(e.month, t.month, 1) <=> t.month \in Meant(e.month, "month")
  <2>1. "month" \in Fields /\ t.month \in Domain["month"] /\ Lowest("month") = 1
    BY DEF Fields, Domain, Lowest, Times
  <2> QED
    BY <1>1, <2>1
<1>5. DayMatches(e, t) <=> Named(e.dom, e.dow, t)
  BY DaysMean DEF Times
<1> QED
  BY <1>2, <1>3, <1>4, <1>5 DEF CronMatches

\* The parts tried by TLC are parts.
LEMMA SmallPartsFit == ASSUME NEW f \in Fields PROVE SmallParts(f) \subseteq Parts(f)
<1> DEFINE bases == {Star, Word} \cup {Num(n) : n \in Edges(f)}
                      \cup {Span(a, b) : a \in Edges(f), b \in Edges(f)}
<1>1. Edges(f) \subseteq Int /\ \A n \in Edges(f) : n >= Lowest(f)
  BY FieldInterval DEF Edges
<1>2. ASSUME NEW base \in {"star", "num", "range", "word"}, NEW lo \in Int, NEW hi \in Int,
             base \in {"num", "range"} => lo >= Lowest(f)
      PROVE  Part(base, lo, hi) \in Parts(f)
  BY <1>2 DEF Part, Parts
<1>3. Star \in Parts(f) /\ Word \in Parts(f)
  <2>1. Part("star", 0, 0) \in Parts(f) /\ Part("word", 0, 0) \in Parts(f)
    BY <1>2
  <2> QED
    BY <2>1 DEF Star, Word
<1>4. ASSUME NEW n \in Edges(f)
      PROVE  Num(n) \in Parts(f)
  BY <1>1, <1>2 DEF Num
<1>5. ASSUME NEW a \in Edges(f), NEW b \in Edges(f)
      PROVE  Span(a, b) \in Parts(f)
  BY <1>1, <1>2 DEF Span
<1>6. ASSUME NEW part \in Parts(f), NEW n \in -1..3
      PROVE  Every(part, n) \in Parts(f)
  <2> DEFINE All == [base : {"star", "num", "range", "word"}, lo : Int, hi : Int,
                     stepped : BOOLEAN, step : Int]
             p == [part EXCEPT !.stepped = TRUE]
             q == [p EXCEPT !.step = n]
  <2>1. part \in All /\ (part.base \in {"num", "range"} => part.lo >= Lowest(f))
    BY DEF Parts
  <2>2. p \in All /\ p.base = part.base /\ p.lo = part.lo /\ p.stepped = TRUE
    BY <2>1
  <2>3. Every(part, n) = q
    BY DEF Every
  <2> HIDE DEF p
  <2>4. q \in All /\ q.base = p.base /\ q.lo = p.lo /\ q.stepped = p.stepped
    BY <2>2
  <2> HIDE DEF q
  <2> QED
    BY <2>1, <2>2, <2>3, <2>4 DEF Parts
<1>7. bases \subseteq Parts(f)
  BY <1>3, <1>4, <1>5
<1>8. {Every(base, n) : base \in bases, n \in -1..3} \subseteq Parts(f)
  BY <1>6, <1>7
<1> QED
  BY <1>7, <1>8 DEF SmallParts

\* No minute finds a small part or a pair of day fields that the matcher takes for
\* something else than it means: what the run checks of them is a case of the two
\* theorems above.
THEOREM MatcherRight == Spec => []MatcherAgrees
<1>1. OddParts = {}
  BY PartsMean, SmallPartsFit DEF OddParts
<1>2. OddDays = {}
  BY DaysMean DEF OddDays, Days
<1>3. MatcherAgrees
  BY <1>1, <1>2 DEF MatcherAgrees
<1> QED
  BY <1>3, PTL
===============================================================================
