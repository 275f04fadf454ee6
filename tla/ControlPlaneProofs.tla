-------------------------- MODULE ControlPlaneProofs --------------------------
(***************************************************************************)
(* What holds of the control plane for any number of containers, tasks and *)
(* requests, whatever the disturbances; the last theorem says which ones   *)
(* it assumes away.                                                        *)
(***************************************************************************)
EXTENDS ControlPlane, FiniteSetTheorems, TLAPS

USE ControlAssumption

-------------------------------------------------------------------------------
(* A worker keeps its row *)

\* The lock behind the row: a task with a worker is nobody else's, and its row
\* is not being requeued.
Held(l, t) ==
  /\ row[t] = "RUNNING"
  /\ probe[t] = None
  /\ \A m \in Listeners \ {l} : job[m] # t

RowTypes ==
  /\ job \in [Listeners -> Tasks \cup {None}]
  /\ row \in [Tasks -> {"NEW", "RUNNING", "DONE", "FAIL"}]
  /\ probe \in [Tasks -> Listeners \cup {Reclaimer, None}]

Keeping ==
  /\ RowTypes
  /\ \A l \in Listeners : job[l] # None => Held(l, job[l])

\* No step of a publisher touches a worker, its row or its lock.
LEMMA PublisherLeavesRows ==
  ASSUME NEW r \in Requests,
         Publisher(r) \/ PublisherDies(r) \/ WindowCloses(r)
  PROVE  UNCHANGED <<job, row, probe>>
BY DEF Publisher, Count, Publish, Poll, Finish, GiveUp, PublisherDies,
       WindowCloses, workers, tasks

\* A stop only ends a worker.
LEMMA KillKeeps ==
  ASSUME Keeping, NEW l \in Listeners, NEW dies \in BOOLEAN, Kill(l, dies),
         UNCHANGED <<row, probe>>
  PROVE  Keeping'
BY DEF Kill, Keeping, RowTypes, Held

\* A listener takes a row only under a lock that no worker holds.
LEMMA ListenerKeeps ==
  ASSUME Keeping, NEW l \in Listeners, Listener(l)
  PROVE  Keeping'
<1>1. CASE Receive(l) \/ PluginSync(l) \/ ScanStopped(l) \/ RequeueEnds(l)
           \/ StartWorkers(l) \/ Link(l)
  <2>1. UNCHANGED <<job, row, probe>>
    BY <1>1 DEF Receive, PluginSync, ScanStopped, RequeueEnds, StartWorkers,
                Link, workers, tasks
  <2> QED
    BY <2>1 DEF Keeping, RowTypes, Held
<1>2. CASE StopWorkers(l)
  BY <1>2, KillKeeps DEF StopWorkers, tasks
<1>3. CASE StopFails(l)
  BY <1>3, KillKeeps DEF StopFails, tasks
<1>4. ASSUME NEW t \in Tasks, HoldStopped(l, t) PROVE Keeping'
  BY <1>4 DEF HoldStopped, Locked, Keeping, RowTypes, Held, workers
<1>5. ASSUME NEW t \in Tasks, RequeueStopped(l, t) PROVE Keeping'
  BY <1>5 DEF RequeueStopped, Keeping, RowTypes, Held, workers
<1>6. CASE RequeueLost(l) \/ RecordAck(l)
  <2>1. UNCHANGED <<job, row>> /\ (probe' = Released(l) \/ probe' = probe)
    BY <1>6 DEF RequeueLost, RecordAck, workers
  <2> QED
    BY <2>1 DEF Released, Keeping, RowTypes, Held
<1> QED
  BY <1>1, <1>2, <1>3, <1>4, <1>5, <1>6 DEF Listener

\* So does the reclaim pass.
LEMMA PassKeeps ==
  ASSUME Keeping, Pass
  PROVE  Keeping'
<1>1. CASE ReadMarkers \/ ScanOrphans \/ PassEnds
  BY <1>1 DEF ReadMarkers, ScanOrphans, PassEnds, Keeping, RowTypes, Held,
              workers, tasks
<1>2. ASSUME NEW t \in Tasks, HoldOrphan(t) PROVE Keeping'
  BY <1>2 DEF HoldOrphan, Locked, Keeping, RowTypes, Held, workers
<1>3. ASSUME NEW t \in Tasks, Charge(t) PROVE Keeping'
  BY <1>3 DEF Charge, Keeping, RowTypes, Held, workers
<1> QED
  BY <1>1, <1>2, <1>3 DEF Pass

\* A worker claims only a row whose lock is free.
LEMMA WorkerKeeps ==
  ASSUME Keeping, NEW l \in Listeners,
         JobEnds(l) \/ WorkerDies(l) \/ \E t \in Tasks : Claim(l, t)
  PROVE  Keeping'
<1>1. CASE JobEnds(l)
  BY <1>1 DEF JobEnds, Keeping, RowTypes, Held
<1>2. CASE WorkerDies(l)
  BY <1>2 DEF WorkerDies, Keeping, RowTypes, Held, tasks
<1>3. ASSUME NEW t \in Tasks, Claim(l, t) PROVE Keeping'
  BY <1>3 DEF Claim, Locked, Keeping, RowTypes, Held
<1> QED
  BY <1>1, <1>2, <1>3

\* Every step keeps every worker's row its own.
LEMMA KeepingStep == Keeping /\ [Next]_vars => Keeping'
<1> SUFFICES ASSUME Keeping, [Next]_vars PROVE Keeping'
  OBVIOUS
<1>1. CASE \E r \in Requests : Publisher(r) \/ PublisherDies(r) \/ WindowCloses(r)
  BY <1>1, PublisherLeavesRows DEF Keeping, RowTypes, Held
<1>2. ASSUME NEW l \in Listeners, Unlink(l) \/ ListenerDies(l) PROVE Keeping'
  BY <1>2 DEF Unlink, ListenerDies, Released, Keeping, RowTypes, Held, workers, tasks
<1>3. ASSUME NEW t \in Tasks, SessionEnds(t) PROVE Keeping'
  BY <1>3 DEF SessionEnds, Keeping, RowTypes, Held, tasks
<1>4. CASE UNCHANGED vars
  BY <1>4 DEF vars, Keeping, RowTypes, Held
<1> QED
  BY <1>1, <1>2, <1>3, <1>4, ListenerKeeps, PassKeeps, WorkerKeeps DEF Next

\* WorkerKeepsRow for every instance: neither a deliberate requeue nor reclaim
\* ever takes a row from the worker that runs it (control.py 341-365,
\* maintenance.py 130-175).
THEOREM RowKept == Spec => []WorkerKeepsRow
<1>1. Init => Keeping
  BY DEF Init, Keeping, RowTypes, Held
<1>2. Keeping => WorkerKeepsRow
  BY DEF Keeping, Held, WorkerKeepsRow
<1> QED
  BY <1>1, <1>2, KeepingStep, PTL DEF Spec
-------------------------------------------------------------------------------
(* Type correctness *)

\* A task that may still run has restarts left.
Affordable ==
  \A t \in Tasks : row[t] \in {"NEW", "RUNNING"} => charged[t] <= MaxAttempts

Typed == TypeOK /\ Affordable

\* The count of disturbances respects its bound.
LEMMA FaultType ==
  ASSUME faults \in 0..MaxFaults, NEW kind, Fault(kind)
  PROVE  faults' \in 0..MaxFaults
BY DEF Fault

\* So does a call that may fail.
LEMMA WorksType ==
  ASSUME faults \in 0..MaxFaults, NEW good, NEW kind, Works(good, kind)
  PROVE  faults' \in 0..MaxFaults
BY FaultType DEF Works

\* A stop forgets the worker's task and records who stopped it.
LEMMA KillType ==
  ASSUME TypeOK, NEW l \in Listeners, lst[l].pc # "idle", NEW dies \in BOOLEAN,
         Kill(l, dies)
  PROVE  /\ job' \in [Listeners -> Tasks \cup {None}]
         /\ stopped' \in [Tasks -> [by : Requests \cup {None},
                                    on : Listeners \cup {None}]]
<1>1. [by |-> lst[l].req, on |-> l]
        \in [by : Requests \cup {None}, on : Listeners \cup {None}]
  BY DEF TypeOK
<1>2. CASE dies /\ job[l] # None
  <2>1. job[l] \in Tasks
    BY <1>2 DEF TypeOK
  <2>2. /\ job' = [job EXCEPT ![l] = None]
        /\ stopped' = [stopped EXCEPT ![job[l]] = [by |-> lst[l].req, on |-> l]]
    BY <1>2, Zenon DEF Kill
  <2> QED
    BY <1>1, <2>1, <2>2 DEF TypeOK
<1>3. CASE ~(dies /\ job[l] # None)
  <2>1. UNCHANGED <<job, stopped>>
    BY <1>3, Zenon DEF Kill
  <2> QED
    BY <2>1 DEF TypeOK
<1> QED
  BY <1>2, <1>3

\* The listener's next point is one of its points.
LEMMA GoesToType ==
  ASSUME TypeOK, NEW l \in Listeners, lst[l].pc # "idle",
         NEW pc \in {"scan", "start", "ack"}, NEW ok \in BOOLEAN,
         GoesTo(l, pc, ok)
  PROVE  /\ lst' \in [Listeners ->
              [pc : {"idle", "act", "scan", "requeue", "start", "ack"},
               req : Requests \cup {None}, ok : BOOLEAN, cand : SUBSET Tasks]]
         /\ \A m \in Listeners : lst'[m].pc # "idle" => lst'[m].req \in Requests
         /\ acted' \in [Requests -> SUBSET Listeners]
BY DEF TypeOK, GoesTo, Handling

\* The publishers keep the types.
LEMMA PublisherTypes ==
  ASSUME Typed, NEW r \in Requests,
         Publisher(r) \/ PublisherDies(r) \/ WindowCloses(r)
  PROVE  Typed'
<1> USE DEF Typed, TypeOK, Affordable
<1>1. CASE Count(r)
  <2>1. IsFiniteSet(linked) /\ Cardinality(linked) \in Nat
    BY FS_Subset, FS_CardinalityType
  <2>2. published' \in 0..MaxPublications
    BY <1>1 DEF Count
  <2>3. /\ pub' \in [Requests -> {"idle", "counted", "waiting", "granted", "refused"}]
        /\ expected' \in [Requests -> Nat]
        /\ verdict' \in [Requests -> {"none", "yes", "no"}]
    <3>1. CASE linked = {}
      BY <1>1, <3>1 DEF Count
    <3>2. CASE linked # {}
      <4>1. /\ expected' = [expected EXCEPT ![r] = Cardinality(linked)]
            /\ pub' = [pub EXCEPT ![r] = "counted"]
            /\ verdict' = verdict
        BY <1>1, <3>2, Zenon DEF Count
      <4> QED
        BY <2>1, <4>1
    <3> QED
      BY <3>1, <3>2
  <2> QED
    BY <1>1, <2>2, <2>3 DEF Count, marker, links, workers, tasks
<1>2. CASE Publish(r)
  <2>1. root' \in [Requests -> {"none", "RUNNING", "SUCCESS", "FAIL"}]
    BY <1>2, Zenon DEF Publish
  <2>2. ack' \in [Requests -> [Listeners -> {"none", "SUCCESS", "FAIL"}]]
    BY <1>2 DEF Publish
  <2>3. inbox' \in [Listeners -> Seq(Requests)]
    BY <1>2 DEF Publish
  <2>4. pub' \in [Requests -> {"idle", "counted", "waiting", "granted", "refused"}]
        /\ fresh' \subseteq Requests
    BY <1>2 DEF Publish
  <2>5. UNCHANGED <<published, expected, verdict, linked, lst, workers, tasks,
                    rec, faults, stopped, acted>>
    BY <1>2, Zenon DEF Publish
  <2> QED
    BY <2>1, <2>2, <2>3, <2>4, <2>5 DEF workers, tasks
<1>3. CASE Poll(r)
  BY <1>3 DEF Poll, marker, links, workers, tasks
<1>4. CASE Finish(r)
  <2>1. root' \in [Requests -> {"none", "RUNNING", "SUCCESS", "FAIL"}]
    BY <1>4, Zenon DEF Finish
  <2>2. pub' \in [Requests -> {"idle", "counted", "waiting", "granted", "refused"}]
        /\ verdict' \in [Requests -> {"none", "yes", "no"}]
    BY <1>4 DEF Finish
  <2>3. UNCHANGED <<published, expected, fresh, ack, links, lst, workers, tasks, rec,
                    faults, stopped, acted>>
    BY <1>4, Zenon DEF Finish
  <2> QED
    BY <2>1, <2>2, <2>3 DEF links, workers, tasks
<1>5. CASE GiveUp(r)
  BY <1>5 DEF GiveUp, marker, links, workers, tasks
<1>6. CASE PublisherDies(r)
  BY <1>6, FaultType DEF PublisherDies, marker, links, workers, tasks
<1>7. CASE WindowCloses(r)
  BY <1>7 DEF WindowCloses, request, links, workers, tasks
<1> QED
  BY <1>1, <1>2, <1>3, <1>4, <1>5, <1>6, <1>7 DEF Publisher

\* The listeners keep the types.
LEMMA ListenerTypes ==
  ASSUME Typed, NEW l \in Listeners, Listener(l) \/ Unlink(l) \/ ListenerDies(l)
  PROVE  Typed'
<1> USE DEF Typed, TypeOK, Affordable
<1> DEFINE LstType == [pc : {"idle", "act", "scan", "requeue", "start", "ack"},
                       req : Requests \cup {None}, ok : BOOLEAN,
                       cand : SUBSET Tasks]
<1>0. Idle \in LstType
  BY DEF Idle, Handling
<1>1. CASE Receive(l)
  <2> DEFINE r == Head(inbox[l])
  <2>1. r \in Requests /\ Tail(inbox[l]) \in Seq(Requests)
    BY <1>1 DEF Receive
  <2>2. PICK seen \in BOOLEAN :
          /\ Works(seen, "blind")
          /\ lst' = [lst EXCEPT ![l] =
               IF seen /\ ack[r][l] = "SUCCESS"
               THEN Handling("ack", r, TRUE, {})
               ELSE Handling("act", r, FALSE, {})]
    BY <1>1, Zenon DEF Receive
  <2>3. faults' \in 0..MaxFaults
    BY <2>2, WorksType
  <2>4. /\ lst' \in [Listeners -> LstType]
        /\ \A m \in Listeners : lst'[m].pc # "idle" => lst'[m].req \in Requests
    BY <2>1, <2>2 DEF Handling
  <2> QED
    BY <1>1, <2>1, <2>3, <2>4 DEF Receive, request, marker, workers, tasks
<1>2. CASE PluginSync(l)
  <2>1. PICK good \in BOOLEAN : Works(good, "fail") /\ GoesTo(l, "ack", good)
    BY <1>2 DEF PluginSync
  <2>2. faults' \in 0..MaxFaults
    BY <2>1, WorksType
  <2>3. /\ lst' \in [Listeners -> LstType]
        /\ \A m \in Listeners : lst'[m].pc # "idle" => lst'[m].req \in Requests
        /\ acted' \in [Requests -> SUBSET Listeners]
    <3>1. TypeOK /\ lst[l].pc # "idle"
      BY <1>2 DEF PluginSync, At
    <3> HIDE DEF TypeOK
    <3> QED
      BY <2>1, <3>1, GoesToType, Zenon
  <2> QED
    BY <1>2, <2>2, <2>3
    DEF PluginSync, At, request, marker, links, workers, tasks
<1>3. CASE StopWorkers(l)
  <2>1. faults' \in 0..MaxFaults /\ lingering' \subseteq Tasks
    BY <1>3, FaultType DEF StopWorkers
  <2>2. /\ job' \in [Listeners -> Tasks \cup {None}]
        /\ stopped' \in [Tasks -> [by : Requests \cup {None},
                                   on : Listeners \cup {None}]]
    BY <1>3, KillType DEF StopWorkers, At
  <2> QED
    BY <1>3, <2>1, <2>2, GoesToType
    DEF StopWorkers, At, request, marker, links, tasks
<1>4. CASE StopFails(l)
  <2>0. TypeOK /\ lst[l].pc # "idle"
    BY <1>4 DEF StopFails, At
  <2>1. faults' \in 0..MaxFaults
    BY <1>4, FaultType DEF StopFails
  <2>2. /\ job' \in [Listeners -> Tasks \cup {None}]
        /\ stopped' \in [Tasks -> [by : Requests \cup {None},
                                   on : Listeners \cup {None}]]
    <3>1. PICK dies \in BOOLEAN : Kill(l, dies)
      BY <1>4 DEF StopFails
    <3> HIDE DEF TypeOK
    <3> QED
      BY <2>0, <3>1, KillType, Zenon
  <2>3. up' \in [Listeners -> BOOLEAN]
    BY <1>4 DEF StopFails
  <2> QED
    BY <1>4, <2>1, <2>2, <2>3, GoesToType
    DEF StopFails, At, request, marker, links, tasks
<1>5. CASE ScanStopped(l)
  BY <1>5 DEF ScanStopped, At, Handling, Orphans, request, marker, links, workers, tasks
<1>6. CASE RequeueLost(l)
  <2>1. faults' \in 0..MaxFaults
    BY <1>6, FaultType DEF RequeueLost
  <2>2. probe' \in [Tasks -> Listeners \cup {Reclaimer, None}]
    BY <1>6 DEF RequeueLost, Released
  <2> QED
    BY <1>6, <2>1, <2>2, GoesToType
    DEF RequeueLost, AfterRequeue, At, NotStopped, request, marker, links, workers
<1>7. CASE RequeueEnds(l)
  BY <1>7, GoesToType
  DEF RequeueEnds, AfterRequeue, At, request, marker, links, workers, tasks
<1>8. ASSUME NEW t \in Tasks, HoldStopped(l, t) PROVE Typed'
  BY <1>8 DEF HoldStopped, At, Handling, request, marker, links, workers
<1>9. ASSUME NEW t \in Tasks, RequeueStopped(l, t) PROVE Typed'
  BY <1>9 DEF RequeueStopped, NotStopped, request, marker, links, workers
<1>10. CASE StartWorkers(l)
  <2>1. PICK good \in BOOLEAN :
          /\ Works(good, "fail")
          /\ up' = [up EXCEPT ![l] = @ \/ good]
          /\ GoesTo(l, "ack", good /\ (At(l, "start") => lst[l].ok))
    BY <1>10, Zenon DEF StartWorkers
  <2>2. faults' \in 0..MaxFaults /\ up' \in [Listeners -> BOOLEAN]
    BY <2>1, WorksType
  <2>3. (good /\ (At(l, "start") => lst[l].ok)) \in BOOLEAN
    OBVIOUS
  <2> QED
    BY <1>10, <2>1, <2>2, <2>3, GoesToType
    DEF StartWorkers, At, request, marker, links, tasks
<1>11. CASE RecordAck(l)
  <2>1. faults' \in 0..MaxFaults
    BY <1>11, WorksType DEF RecordAck
  <2>2. ack' \in [Requests -> [Listeners -> {"none", "SUCCESS", "FAIL"}]]
    BY <1>11 DEF RecordAck, At
  <2>3. probe' \in [Tasks -> Listeners \cup {Reclaimer, None}]
    BY <1>11 DEF RecordAck, Released
  <2> QED
    BY <1>0, <1>11, <2>1, <2>2, <2>3
    DEF RecordAck, At, Idle, Handling, request, marker, links, workers
<1>12. CASE Link(l)
  BY <1>12 DEF Link, request, marker, workers, tasks
<1>13. CASE Unlink(l)
  BY <1>13, FaultType DEF Unlink, request, marker, workers, tasks
<1>14. CASE ListenerDies(l)
  BY <1>0, <1>14, FaultType DEF ListenerDies, Released, Idle, Handling, request, marker, workers
<1> QED
  BY <1>1, <1>2, <1>3, <1>4, <1>5, <1>6, <1>7, <1>8, <1>9, <1>10, <1>11,
     <1>12, <1>13, <1>14 DEF Listener

\* So do the workers, their sessions and the reclaim pass.
LEMMA QueueTypes ==
  ASSUME Typed
  PROVE  /\ \A l \in Listeners :
              JobEnds(l) \/ WorkerDies(l) \/ (\E t \in Tasks : Claim(l, t))
                => Typed'
         /\ \A t \in Tasks : SessionEnds(t) => Typed'
         /\ Pass => Typed'
<1> USE DEF Typed, TypeOK, Affordable
<1>1. ASSUME NEW l \in Listeners, JobEnds(l) PROVE Typed'
  BY <1>1 DEF JobEnds, request, marker, links
<1>2. ASSUME NEW l \in Listeners, WorkerDies(l) PROVE Typed'
  BY <1>2, FaultType DEF WorkerDies, request, marker, links, tasks
<1>3. ASSUME NEW l \in Listeners, NEW t \in Tasks, Claim(l, t) PROVE Typed'
  BY <1>3 DEF Claim, NotStopped, request, marker, links
<1>4. ASSUME NEW t \in Tasks, SessionEnds(t) PROVE Typed'
  BY <1>4 DEF SessionEnds, request, marker, links, tasks
<1>5. CASE ReadMarkers \/ PassEnds
  BY <1>5 DEF ReadMarkers, PassEnds, request, marker, links, workers, tasks
<1>6. CASE ScanOrphans
  BY <1>6 DEF ScanOrphans, Orphans, request, marker, links, workers, tasks
<1>7. ASSUME NEW t \in Tasks, HoldOrphan(t) PROVE Typed'
  BY <1>7 DEF HoldOrphan, request, marker, links, workers
<1>8. ASSUME NEW t \in Tasks, Charge(t) PROVE Typed'
  <2>1. row[t] = "RUNNING" => charged[t] <= MaxAttempts
    OBVIOUS
  <2>2. /\ charged' \in [Tasks -> 0..MaxAttempts + 1]
        /\ row' \in [Tasks -> {"NEW", "RUNNING", "DONE", "FAIL"}]
        /\ Affordable'
    <3>1. CASE row[t] = "RUNNING"
      <4>1. /\ charged' = [charged EXCEPT ![t] = @ + 1]
            /\ row' = [row EXCEPT ![t] =
                 IF charged[t] + 1 <= MaxAttempts THEN "NEW" ELSE "FAIL"]
        BY <1>8, <3>1, Zenon DEF Charge
      <4>2. charged[t] \in Nat /\ charged[t] <= MaxAttempts
        BY <2>1, <3>1
      <4> QED
        BY <1>1, <4>1, <4>2
    <3>2. CASE row[t] # "RUNNING"
      BY <1>8, <3>2 DEF Charge
    <3> QED
      BY <3>1, <3>2
  <2>3. probe' \in [Tasks -> Listeners \cup {Reclaimer, None}]
    BY <1>8 DEF Charge
  <2> QED
    BY <1>8, <2>2, <2>3 DEF Charge, request, marker, links, workers
<1> QED
  BY <1>1, <1>2, <1>3, <1>4, <1>5, <1>6, <1>7, <1>8 DEF Pass

\* Every step keeps the types.
LEMMA TypedStep == Typed /\ [Next]_vars => Typed'
<1> SUFFICES ASSUME Typed, [Next]_vars PROVE Typed'
  OBVIOUS
<1>1. CASE UNCHANGED vars
  BY <1>1 DEF vars, Typed, TypeOK, Affordable
<1> QED
  BY <1>1, PublisherTypes, ListenerTypes, QueueTypes DEF Next

\* The initial state is well typed.
LEMMA TypedInit == Init => Typed
BY DEF Init, Typed, TypeOK, Affordable, Idle, Handling, NotStopped

\* The types hold of every state, for every instance.
THEOREM ControlTypeCorrect == Spec => []TypeOK
<1>1. Typed => TypeOK
  BY DEF Typed
<1> QED
  BY <1>1, TypedInit, TypedStep, PTL DEF Spec

-------------------------------------------------------------------------------
(* A granted verdict is a real one *)

\* An acknowledged success, and one about to be acknowledged, was carried out.
AckReal ==
  /\ \A r \in Requests, l \in Listeners :
       ack[r][l] = "SUCCESS" => l \in acted[r]
  /\ \A l \in Listeners :
       lst[l].pc = "ack" /\ lst[l].ok => l \in acted[lst[l].req]

\* A publication under way counted a listener and has not been granted before.
Counting ==
  \A r \in Requests : pub[r] # "idle" => expected[r] > 0 /\ verdict[r] # "yes"

\* What was granted was carried out by as many listeners as were counted.
Granted ==
  \A r \in Requests : pub[r] = "granted" \/ verdict[r] = "yes" =>
    expected[r] > 0 /\ Cardinality(acted[r]) >= expected[r]

Real == Typed /\ AckReal /\ Counting /\ Granted

\* A set of listeners that grows does not lose members.
LEMMA MoreListeners ==
  ASSUME NEW S \in SUBSET Listeners, NEW T \in SUBSET Listeners, S \subseteq T
  PROVE  /\ Cardinality(S) \in Nat /\ Cardinality(T) \in Nat
         /\ Cardinality(S) <= Cardinality(T)
<1>1. IsFiniteSet(T) /\ IsFiniteSet(S)
  BY FS_Subset
<1> QED
  BY <1>1, FS_CardinalityType, FS_Subset

\* A step that leaves the publishers alone and forgets no deed keeps both.
LEMMA BystanderKeeps ==
  ASSUME Real, Typed', UNCHANGED request,
         \A r \in Requests : acted[r] \subseteq acted'[r]
  PROVE  Counting' /\ Granted'
<1>1. Counting'
  BY DEF Real, Counting, request
<1>2. ASSUME NEW r \in Requests, (pub[r] = "granted" \/ verdict[r] = "yes")'
      PROVE  (expected[r] > 0 /\ Cardinality(acted[r]) >= expected[r])'
  <2>1. /\ acted[r] \in SUBSET Listeners /\ acted'[r] \in SUBSET Listeners
        /\ expected[r] \in Nat
    BY DEF Real, Typed, TypeOK
  <2>2. /\ Cardinality(acted[r]) \in Nat /\ Cardinality(acted'[r]) \in Nat
        /\ Cardinality(acted[r]) <= Cardinality(acted'[r])
    BY <2>1, MoreListeners
  <2>3. expected'[r] = expected[r]
        /\ expected[r] > 0 /\ Cardinality(acted[r]) >= expected[r]
    BY <1>2 DEF Real, Granted, request
  <2> QED
    BY <2>1, <2>2, <2>3
<1> QED
  BY <1>1, <1>2 DEF Granted

\* A publisher grants only what enough listeners have acknowledged.
LEMMA PublisherReal ==
  ASSUME Real, NEW r \in Requests,
         Publisher(r) \/ PublisherDies(r) \/ WindowCloses(r)
  PROVE  AckReal' /\ Counting' /\ Granted'
<1> USE DEF Real, Typed, TypeOK
<1>0. UNCHANGED <<lst, acted>>
  BY DEF Publisher, Count, Publish, Poll, Finish, GiveUp, PublisherDies,
         WindowCloses
<1>1. AckReal'
  <2>1. \A q \in Requests, l \in Listeners : ack'[q][l] = "SUCCESS" =>
          ack[q][l] = "SUCCESS"
    <3>1. CASE Publish(r)
      BY <3>1 DEF Publish
    <3>2. CASE ~Publish(r)
      BY <3>2 DEF Publisher, Count, Poll, Finish, GiveUp, PublisherDies,
                  WindowCloses
    <3> QED
      BY <3>1, <3>2
  <2> QED
    BY <1>0, <2>1 DEF AckReal
<1>2. CASE Count(r)
  <2>1. IsFiniteSet(linked) /\ Cardinality(linked) \in Nat
    BY FS_Subset, FS_CardinalityType
  <2>2. CASE linked = {}
    <3>1. /\ verdict' = [verdict EXCEPT ![r] = "no"]
          /\ pub' = pub /\ expected' = expected
      BY <1>2, <2>2, Zenon DEF Count
    <3>2. Counting'
      BY <3>1 DEF Counting
    <3>3. Granted'
      BY <1>0, <3>1 DEF Granted
    <3> QED
      BY <1>1, <3>2, <3>3
  <2>3. CASE linked # {}
    <3>1. Cardinality(linked) > 0
      BY <2>1, <2>3, FS_EmptySet
    <3>2. /\ expected' = [expected EXCEPT ![r] = Cardinality(linked)]
          /\ pub' = [pub EXCEPT ![r] = "counted"]
          /\ verdict' = verdict
          /\ pub[r] = "idle" /\ verdict[r] # "yes"
      BY <1>2, <2>3, Zenon DEF Count
    <3> QED
      <4>1. Counting'
        BY <2>1, <3>1, <3>2 DEF Counting
      <4>2. Granted'
        BY <1>0, <2>1, <3>2 DEF Granted
      <4> QED
        BY <1>1, <4>1, <4>2
  <2> QED
    BY <1>1, <2>2, <2>3
<1>3. CASE Publish(r)
  <2>1. pub' = [pub EXCEPT ![r] = "waiting"] /\ pub[r] = "counted"
        /\ UNCHANGED <<expected, verdict>>
    BY <1>3, Zenon DEF Publish
  <2> QED
    BY <1>0, <1>1, <2>1 DEF Counting, Granted
<1>4. CASE Poll(r)
  <2>1. pub[r] = "waiting" /\ UNCHANGED <<expected, verdict>>
    BY <1>4 DEF Poll
  <2>2. Acked(r, "SUCCESS") \subseteq acted[r]
    BY DEF Acked, AckReal
  <2>3. /\ Cardinality(Acked(r, "SUCCESS")) \in Nat
        /\ Cardinality(acted[r]) \in Nat
        /\ Cardinality(Acked(r, "SUCCESS")) <= Cardinality(acted[r])
    BY <2>2, MoreListeners
  <2>4. CASE pub' = [pub EXCEPT ![r] = "refused"]
    BY <1>0, <1>1, <2>1, <2>4 DEF Counting, Granted
  <2>5. CASE /\ pub' = [pub EXCEPT ![r] = "granted"]
             /\ Cardinality(Acked(r, "SUCCESS")) >= expected[r]
    BY <1>0, <1>1, <2>1, <2>3, <2>5 DEF Counting, Granted
  <2> QED
    BY <1>4, <2>4, <2>5 DEF Poll
<1>5. CASE Finish(r)
  <2>1. /\ pub' = [pub EXCEPT ![r] = "idle"]
        /\ verdict' = [verdict EXCEPT ![r] = IF pub[r] = "granted" THEN "yes" ELSE "no"]
        /\ UNCHANGED expected
    BY <1>5, Zenon DEF Finish
  <2> QED
    BY <1>0, <1>1, <2>1 DEF Counting, Granted
<1>6. CASE GiveUp(r) \/ PublisherDies(r)
  BY <1>0, <1>1, <1>6 DEF GiveUp, PublisherDies, Counting, Granted
<1>7. CASE WindowCloses(r)
  BY <1>0, <1>1, <1>7 DEF WindowCloses, request, Counting, Granted
<1> QED
  BY <1>1, <1>2, <1>3, <1>4, <1>5, <1>6, <1>7 DEF Publisher

\* Wherever a listener goes, it forgets no deed and claims none it did not do.
LEMMA GoesToReal ==
  ASSUME Real, NEW l \in Listeners, lst[l].pc # "idle",
         NEW pc \in {"scan", "start", "ack"}, NEW ok, GoesTo(l, pc, ok),
         UNCHANGED <<request, ack>>
  PROVE  AckReal' /\ \A r \in Requests : acted[r] \subseteq acted'[r]
<1>1. CASE pc = "ack" /\ ok
  <2>1. /\ acted' = [acted EXCEPT ![lst[l].req] = @ \cup {l}]
        /\ lst' = [lst EXCEPT ![l] = Handling(pc, lst[l].req, ok, {})]
    BY <1>1, Zenon DEF GoesTo
  <2> QED
    BY <2>1 DEF Real, Typed, TypeOK, AckReal, Handling
<1>2. CASE ~(pc = "ack" /\ ok)
  <2>1. /\ acted' = acted
        /\ lst' = [lst EXCEPT ![l] = Handling(pc, lst[l].req, ok, {})]
    BY <1>2, Zenon DEF GoesTo
  <2>2. ~(lst'[l].pc = "ack" /\ lst'[l].ok)
    BY <1>2, <2>1 DEF Real, Typed, TypeOK, Handling
  <2> QED
    BY <2>1, <2>2 DEF Real, Typed, TypeOK, AckReal
<1> QED
  BY <1>1, <1>2

\* The listeners acknowledge only what they carried out.
LEMMA ListenerReal ==
  ASSUME Real, NEW l \in Listeners, Listener(l) \/ Unlink(l) \/ ListenerDies(l)
  PROVE  /\ AckReal' /\ UNCHANGED request
         /\ \A r \in Requests : acted[r] \subseteq acted'[r]
<1>1. UNCHANGED request
  BY DEF Listener, Receive, PluginSync, StopWorkers, StopFails, ScanStopped,
         RequeueLost, RequeueEnds, HoldStopped, RequeueStopped, StartWorkers,
         RecordAck, Link, Unlink, ListenerDies
<1>2. CASE Receive(l)
  <2> DEFINE r == Head(inbox[l])
  <2>1. r \in Requests /\ UNCHANGED <<ack, acted>>
    BY <1>2 DEF Receive, Real, Typed, TypeOK
  <2>2. \/ /\ ack[r][l] = "SUCCESS"
           /\ lst' = [lst EXCEPT ![l] = Handling("ack", r, TRUE, {})]
        \/ lst' = [lst EXCEPT ![l] = Handling("act", r, FALSE, {})]
    BY <1>2 DEF Receive
  <2> QED
    <3>1. CASE /\ ack[r][l] = "SUCCESS"
               /\ lst' = [lst EXCEPT ![l] = Handling("ack", r, TRUE, {})]
      BY <1>1, <2>1, <3>1 DEF Real, Typed, TypeOK, AckReal, Handling
    <3>2. CASE lst' = [lst EXCEPT ![l] = Handling("act", r, FALSE, {})]
      BY <1>1, <2>1, <3>2 DEF Real, Typed, TypeOK, AckReal, Handling
    <3> QED
      BY <2>2, <3>1, <3>2
<1>3. CASE PluginSync(l)
  <2>1. PICK good \in BOOLEAN : GoesTo(l, "ack", good)
    BY <1>3 DEF PluginSync
  <2>2. lst[l].pc # "idle" /\ UNCHANGED <<request, ack>>
    BY <1>3 DEF PluginSync, At
  <2> QED
    BY <1>1, <2>1, <2>2, GoesToReal, Zenon
<1>4. CASE StopWorkers(l) \/ StopFails(l) \/ RequeueLost(l) \/ RequeueEnds(l)
  BY <1>1, <1>4, GoesToReal
  DEF StopWorkers, StopFails, RequeueLost, RequeueEnds, AfterRequeue, At
<1>5. CASE StartWorkers(l)
  <2>1. PICK good \in BOOLEAN :
          GoesTo(l, "ack", good /\ (At(l, "start") => lst[l].ok))
    BY <1>5, Zenon DEF StartWorkers
  <2>2. lst[l].pc # "idle" /\ UNCHANGED <<request, ack>>
    BY <1>5 DEF StartWorkers, At
  <2> QED
    BY <1>1, <2>1, <2>2, GoesToReal, Zenon
<1>6. CASE ScanStopped(l) \/ \E t \in Tasks : HoldStopped(l, t)
  <2>1. PICK cand : lst' = [lst EXCEPT ![l] =
                              Handling("requeue", lst[l].req, TRUE, cand)]
    BY <1>6 DEF ScanStopped, HoldStopped
  <2>2. UNCHANGED <<ack, acted>>
    BY <1>6 DEF ScanStopped, HoldStopped
  <2> QED
    BY <1>1, <2>1, <2>2 DEF Handling, Real, Typed, TypeOK, AckReal
<1>7. CASE \E t \in Tasks : RequeueStopped(l, t)
  BY <1>1, <1>7 DEF RequeueStopped, Real, AckReal
<1>8. CASE RecordAck(l)
  BY <1>1, <1>8
  DEF RecordAck, At, Idle, Handling, Real, Typed, TypeOK, AckReal
<1>9. CASE Link(l) \/ Unlink(l)
  BY <1>1, <1>9 DEF Link, Unlink, Real, AckReal
<1>10. CASE ListenerDies(l)
  BY <1>1, <1>10
  DEF ListenerDies, Idle, Handling, Real, Typed, TypeOK, AckReal
<1> QED
  BY <1>2, <1>3, <1>4, <1>5, <1>6, <1>7, <1>8, <1>9, <1>10 DEF Listener

\* The queue has no part in it.
LEMMA QueueReal ==
  ASSUME Pass \/ (\E t \in Tasks : SessionEnds(t))
         \/ (\E l \in Listeners :
              JobEnds(l) \/ WorkerDies(l) \/ \E t \in Tasks : Claim(l, t))
  PROVE  UNCHANGED <<request, ack, lst, acted>>
BY DEF Pass, ReadMarkers, ScanOrphans, PassEnds, HoldOrphan, Charge,
       SessionEnds, JobEnds, WorkerDies, Claim

\* Every step keeps every granted verdict a real one.
LEMMA RealStep == Real /\ [Next]_vars => Real'
<1> SUFFICES ASSUME Real, [Next]_vars PROVE Real'
  OBVIOUS
<1>1. Typed'
  BY TypedStep DEF Real
<1>2. ASSUME NEW r \in Requests,
             Publisher(r) \/ PublisherDies(r) \/ WindowCloses(r)
      PROVE  Real'
  BY <1>1, <1>2, PublisherReal DEF Real
<1>3. ASSUME NEW l \in Listeners, Listener(l) \/ Unlink(l) \/ ListenerDies(l)
      PROVE  Real'
  BY <1>1, <1>3, ListenerReal, BystanderKeeps DEF Real
<1>4. CASE UNCHANGED <<request, ack, lst, acted>>
  BY <1>1, <1>4, BystanderKeeps DEF Real, AckReal
<1>5. UNCHANGED vars => UNCHANGED <<request, ack, lst, acted>>
  BY DEF vars, request
<1> QED
  BY <1>2, <1>3, <1>4, <1>5, QueueReal DEF Next

\* VerdictIsReal for every instance: a granted publication was carried out by
\* as many containers as it counted (control.py 120-182, 199-226, 275-304).
THEOREM VerdictsReal == Spec => []VerdictIsReal
<1>1. Init => Real
  BY TypedInit DEF Init, Real, AckReal, Counting, Granted, Idle, Handling
<1>2. Real => VerdictIsReal
  BY DEF Real, Granted, VerdictIsReal
<1> QED
  BY <1>1, <1>2, RealStep, PTL DEF Spec

-------------------------------------------------------------------------------
(* Late readers of the marker stand down *)

\* The steady case: sessions stay, look-ups and actions succeed, and the session
\* of a worker ends with it.  Processes may die and saves and requeues be lost.
Steady == Faults \subseteq {"crash", "noconn"}

\* Every listener is linked, and no session outlives its worker.
Sessions == linked = Listeners /\ lingering = {}

\* Nothing has failed.
Healthy ==
  /\ \A r \in Requests : pub[r] # "refused" /\ root[r] # "FAIL"
  /\ \A r \in Requests, l \in Listeners : ack[r][l] # "FAIL"
  /\ \A l \in Listeners :
       lst[l].pc \in {"scan", "requeue", "start", "ack"} => lst[l].ok

\* A publication under way has counted every listener.
CountsAll ==
  \A r \in Requests :
    pub[r] \in {"counted", "waiting"} => expected[r] = Cardinality(Listeners)

\* What was granted is over, and acknowledged by all while its row is there;
\* an open window is that of a request under way or granted.
Settled ==
  \A r \in Requests :
    /\ verdict[r] = "yes" => pub[r] = "idle"
    /\ (pub[r] = "granted" \/ verdict[r] = "yes") /\ root[r] # "none" =>
         \A l \in Listeners : ack[r][l] = "SUCCESS"
    /\ r \in fresh => root[r] = "RUNNING" \/ verdict[r] = "yes"
    /\ root[r] = "SUCCESS" => verdict[r] = "yes"

\* A listener that is carrying a request out has not acknowledged it.
Unserved ==
  \A l \in Listeners : lst[l].pc \in {"act", "scan", "requeue", "start"} =>
    ack[lst[l].req][l] # "SUCCESS"

\* A running task has not been stopped since it was claimed.
Running == \A l \in Listeners : job[l] # None => stopped[job[l]] = NotStopped

\* The listener l has yet to look at the task t, for the request q.
Minds(l, t, q) ==
  /\ lst[l].req = q
  /\ \/ lst[l].pc = "scan"
     \/ lst[l].pc = "requeue" /\ t \in lst[l].cand

\* The row of a stopped worker is in somebody's hands, or is about to be: that
\* of the listener that stopped it.
Entrusted ==
  \A t \in Tasks : stopped[t].by # None =>
    /\ Stops(stopped[t].by)
    /\ stopped[t].on \in Listeners
    /\ row[t] = "RUNNING" =>
         probe[t] # None \/ Minds(stopped[t].on, t, stopped[t].by)

\* What a pass saw open had been granted, and the rows of the workers it had
\* stopped were in the hands of listeners, and still are.
Aware ==
  /\ \A t \in Tasks : probe[t] = Reclaimer => rec.pc = "probe"
  /\ \A q \in rec.seen : Stops(q) => verdict[q] = "yes"
  /\ \A t \in Tasks :
       row[t] = "RUNNING" /\ stopped[t].by \in rec.seen
         /\ root[stopped[t].by] # "none" => probe[t] \in Listeners

\* The lock that a listener keeps once its requeue is over, until it closes the
\* connection, is not that of a task it has still to give back.
Spent ==
  \A t \in Tasks, l \in Listeners :
    probe[t] = l /\ lst[l].pc # "requeue" => stopped[t].by = None

Standing ==
  /\ Typed /\ Keeping /\ Spent
  /\ Sessions /\ Healthy /\ CountsAll /\ Settled
  /\ Unserved /\ Running /\ Entrusted /\ Aware

\* The worker of a stopped task is gone.
LEMMA Untouched ==
  ASSUME Standing, NEW t \in Tasks, stopped[t].by # None
  PROVE  \A m \in Listeners : job[m] # t
BY DEF Standing, Running, NotStopped

\* A listener leaves its requeue with nothing in hand but what it gives up.
LEMMA ListenerSpent ==
  ASSUME Typed, Keeping, Spent, NEW l \in Listeners,
         Listener(l) \/ Unlink(l) \/ ListenerDies(l)
  PROVE  Spent'
<1> USE DEF Typed, TypeOK
<1>1. CASE Receive(l) \/ PluginSync(l) \/ ScanStopped(l) \/ StartWorkers(l)
           \/ Link(l) \/ Unlink(l)
  <2>1. UNCHANGED <<probe, stopped>>
    BY <1>1 DEF Receive, PluginSync, ScanStopped, StartWorkers, Link, Unlink, tasks
  <2>2. \A m \in Listeners : lst[m].pc = "requeue" => lst'[m].pc = "requeue"
    BY <1>1 DEF Receive, PluginSync, ScanStopped, StartWorkers, Link, Unlink, At,
                GoesTo, Handling
  <2> QED
    BY <2>1, <2>2 DEF Spent
<1>2. CASE StopWorkers(l) \/ StopFails(l)
  <2>1. PICK dies \in BOOLEAN : Kill(l, dies)
    BY <1>2 DEF StopWorkers, StopFails
  <2>2. probe' = probe /\ lst[l].pc = "act"
    BY <1>2 DEF StopWorkers, StopFails, tasks, At
  <2>3. \A m \in Listeners : lst[m].pc = "requeue" => lst'[m].pc = "requeue"
    BY <1>2, <2>2 DEF StopWorkers, StopFails, GoesTo
  <2>4. \A t \in Tasks : stopped'[t] = stopped[t] \/ (job[l] = t /\ t # None)
    BY <2>1 DEF Kill
  <2>5. \A t \in Tasks : (job[l] = t /\ t # None) => probe[t] = None
    BY DEF Keeping, Held
  <2>6. ASSUME NEW t \in Tasks, NEW m \in Listeners,
               probe'[t] = m, lst'[m].pc # "requeue"
        PROVE  stopped'[t].by = None
    <3>1. probe[t] = m /\ probe[t] # None
      BY <2>2, <2>6, ControlAssumption
    <3>2. lst[m].pc # "requeue"
      BY <2>3, <2>6
    <3> QED
      BY <2>4, <2>5, <3>1, <3>2 DEF Spent
  <2> QED
    BY <2>6 DEF Spent
<1>3. CASE RequeueEnds(l)
  <2>1. UNCHANGED <<probe, stopped>> /\ \A t \in Tasks : probe[t] # l
    BY <1>3 DEF RequeueEnds, NoProbe, tasks
  <2>2. \A m \in Listeners \ {l} : lst'[m] = lst[m]
    BY <1>3 DEF RequeueEnds, AfterRequeue, GoesTo
  <2> QED
    BY <2>1, <2>2 DEF Spent
<1>4. CASE RequeueLost(l)
  <2>1. /\ probe' = Released(l) \/ probe' = probe
        /\ stopped' = [t \in Tasks |->
             IF stopped[t].on = l \/ probe[t] = l THEN NotStopped ELSE stopped[t]]
    BY <1>4 DEF RequeueLost
  <2>2. \A m \in Listeners \ {l} : lst'[m] = lst[m]
    BY <1>4 DEF RequeueLost, AfterRequeue, GoesTo
  <2>3. \A t \in Tasks : stopped[t].by = None => stopped'[t].by = None
    BY <2>1 DEF NotStopped
  <2>4. \A t \in Tasks : probe[t] = l => stopped'[t].by = None
    BY <2>1 DEF NotStopped
  <2>5. \A t \in Tasks, m \in Listeners : probe'[t] = m => probe[t] = m
    BY <2>1 DEF Released
  <2>6. ASSUME NEW t \in Tasks, NEW m \in Listeners,
               probe'[t] = m, lst'[m].pc # "requeue"
        PROVE  stopped'[t].by = None
    <3>1. probe[t] = m
      BY <2>5, <2>6
    <3> QED
      BY <2>2, <2>3, <2>4, <2>6, <3>1 DEF Spent
  <2> QED
    BY <2>6 DEF Spent
<1>5. CASE RecordAck(l) \/ ListenerDies(l)
  <2>1. probe' = Released(l) /\ stopped' = stopped
    BY <1>5 DEF RecordAck, ListenerDies
  <2>2. \A m \in Listeners \ {l} : lst'[m] = lst[m]
    BY <1>5 DEF RecordAck, ListenerDies
  <2>3. ASSUME NEW t \in Tasks, NEW m \in Listeners,
               probe'[t] = m, lst'[m].pc # "requeue"
        PROVE  stopped'[t].by = None
    <3>1. probe[t] = m /\ m # l
      BY <2>1, <2>3 DEF Released
    <3> QED
      BY <2>1, <2>2, <2>3, <3>1 DEF Spent
  <2> QED
    BY <2>3 DEF Spent
<1>6. ASSUME NEW t \in Tasks, HoldStopped(l, t) PROVE Spent'
  <2>1. /\ lst'[l].pc = "requeue" /\ \A m \in Listeners \ {l} : lst'[m] = lst[m]
        /\ probe' = (IF Locked(t) THEN probe ELSE [probe EXCEPT ![t] = l])
        /\ stopped' = stopped
    BY <1>6 DEF HoldStopped, Handling
  <2>2. ASSUME NEW u \in Tasks, NEW m \in Listeners,
               probe'[u] = m, lst'[m].pc # "requeue"
        PROVE  stopped'[u].by = None
    <3>1. m # l
      BY <2>1, <2>2
    <3>2. probe[u] = m
      <4>1. CASE u = t
        BY <2>1, <2>2, <3>1, <4>1
      <4>2. CASE u # t
        BY <2>1, <2>2, <4>2
      <4> QED
        BY <4>1, <4>2
    <3> QED
      BY <2>1, <2>2, <3>1, <3>2 DEF Spent
  <2> QED
    BY <2>2 DEF Spent
<1>7. ASSUME NEW t \in Tasks, RequeueStopped(l, t) PROVE Spent'
  BY <1>7 DEF RequeueStopped, NotStopped, Spent
<1> QED
  BY <1>1, <1>2, <1>3, <1>4, <1>5, <1>6, <1>7 DEF Listener

\* Nobody else takes a listener's lock or stops a worker.
LEMMA SpentStep == Typed /\ Keeping /\ Spent /\ [Next]_vars => Spent'
<1> SUFFICES ASSUME Typed, Keeping, Spent, [Next]_vars PROVE Spent'
  OBVIOUS
<1> USE DEF Typed, TypeOK
<1>1. CASE \E r \in Requests : Publisher(r) \/ PublisherDies(r) \/ WindowCloses(r)
  <2>1. UNCHANGED <<probe, stopped, lst>>
    BY <1>1 DEF Publisher, Count, Publish, Poll, Finish, GiveUp, PublisherDies,
                WindowCloses, tasks
  <2> QED
    BY <2>1 DEF Spent
<1>2. ASSUME NEW t \in Tasks, HoldOrphan(t) PROVE Spent'
  <2>1. /\ probe' = (IF Locked(t) THEN probe ELSE [probe EXCEPT ![t] = Reclaimer])
        /\ UNCHANGED <<lst, stopped>>
    BY <1>2 DEF HoldOrphan
  <2> QED
    BY <2>1, ControlAssumption DEF Spent
<1>3. ASSUME NEW t \in Tasks, Charge(t) PROVE Spent'
  BY <1>3 DEF Charge, Spent
<1>4. ASSUME NEW l \in Listeners, NEW t \in Tasks, Claim(l, t) PROVE Spent'
  BY <1>4 DEF Claim, NotStopped, Spent
<1>5. CASE ReadMarkers \/ ScanOrphans \/ PassEnds
           \/ (\E t \in Tasks : SessionEnds(t))
           \/ (\E l \in Listeners : JobEnds(l) \/ WorkerDies(l))
           \/ UNCHANGED vars
  <2>1. UNCHANGED <<probe, stopped, lst>>
    BY <1>5 DEF ReadMarkers, ScanOrphans, PassEnds, SessionEnds, JobEnds, WorkerDies,
                tasks, vars
  <2> QED
    BY <2>1 DEF Spent
<1>6. ASSUME NEW l \in Listeners, Listener(l) \/ Unlink(l) \/ ListenerDies(l)
      PROVE  Spent'
  BY <1>6, ListenerSpent
<1> QED
  BY <1>1, <1>2, <1>3, <1>4, <1>5, <1>6, Zenon DEF Next, Pass

\* In the steady case nothing fails but processes and connections.
LEMMA NoMishap ==
  ASSUME Steady, NEW kind \in {"blind", "drop", "fail", "linger"}
  PROVE  /\ ~Fault(kind)
         /\ \A good \in BOOLEAN : Works(good, kind) => good
BY DEF Steady, Fault, Works

\* Acknowledgements from as many listeners as there are come from them all.
LEMMA AllAcked ==
  ASSUME NEW r \in Requests,
         Cardinality(Acked(r, "SUCCESS")) >= Cardinality(Listeners)
  PROVE  \A l \in Listeners : ack[r][l] = "SUCCESS"
<1>1. Acked(r, "SUCCESS") \subseteq Listeners
  BY DEF Acked
<1>2. /\ Cardinality(Acked(r, "SUCCESS")) \in Nat
      /\ Cardinality(Listeners) \in Nat
      /\ Cardinality(Acked(r, "SUCCESS")) <= Cardinality(Listeners)
  BY <1>1, MoreListeners
<1>3. Cardinality(Acked(r, "SUCCESS")) = Cardinality(Listeners)
  BY <1>2
<1>4. Acked(r, "SUCCESS") = Listeners
  BY <1>1, <1>3, FS_Subset
<1> QED
  BY <1>4 DEF Acked

\* What the publishers never touch.
LEMMA PublisherFields ==
  ASSUME NEW r \in Requests,
         Publisher(r) \/ PublisherDies(r) \/ WindowCloses(r)
  PROVE  UNCHANGED <<linked, lst, job, lingering, row, probe, rec, stopped>>
BY DEF Publisher, Count, Publish, Poll, Finish, GiveUp, PublisherDies,
       WindowCloses, links, workers, tasks

\* What a publisher's step does to the request's record, from where it is.
LEMMA PublisherSteps ==
  ASSUME Standing, NEW r \in Requests,
         Publisher(r) \/ PublisherDies(r) \/ WindowCloses(r)
  PROVE  Healthy' /\ CountsAll' /\ Settled'
         /\ \A q \in Requests :
              /\ verdict[q] = "yes" => verdict'[q] = "yes"
              /\ root'[q] # "none" => root[q] # "none" \/ verdict[q] # "yes"
              /\ \A l \in Listeners : ack'[q][l] = "SUCCESS" => ack[q][l] = "SUCCESS"
<1> USE DEF Standing, Sessions, Typed, TypeOK
<1>0. UNCHANGED lst
  BY PublisherFields
<1>1. CASE Count(r)
  <2>1. /\ pub[r] = "idle" /\ verdict[r] # "yes"
        /\ UNCHANGED <<root, fresh, ack>>
    BY <1>1 DEF Count, marker
  <2>2. CASE linked = {}
    <3>1. /\ verdict' = [verdict EXCEPT ![r] = "no"]
          /\ pub' = pub /\ expected' = expected
      BY <1>1, <2>2, Zenon DEF Count
    <3> QED
      BY <1>0, <2>1, <3>1 DEF Healthy, CountsAll, Settled
  <2>3. CASE linked # {}
    <3>1. /\ expected' = [expected EXCEPT ![r] = Cardinality(Listeners)]
          /\ pub' = [pub EXCEPT ![r] = "counted"]
          /\ verdict' = verdict
      BY <1>1, <2>3, Zenon DEF Count
    <3>2. CountsAll'
      BY <3>1 DEF CountsAll
    <3> QED
      BY <1>0, <2>1, <3>1, <3>2 DEF Healthy, Settled
  <2> QED
    BY <2>2, <2>3
<1>2. CASE Publish(r)
  <2>1. /\ pub[r] = "counted" /\ pub' = [pub EXCEPT ![r] = "waiting"]
        /\ fresh' = fresh \cup {r}
        /\ UNCHANGED <<expected, verdict>>
    BY <1>2, Zenon DEF Publish
  <2>2. /\ root' \in [Requests -> {"none", "RUNNING", "SUCCESS", "FAIL"}]
        /\ root'[r] = IF root[r] = "none" THEN "RUNNING" ELSE root[r]
        /\ \A q \in Requests \ {r} :
             root'[q] = IF Spared(q) THEN root[q] ELSE "none"
    BY <1>2, TypedStep, Zenon DEF Publish, Next
  <2>3. \A q \in Requests, l \in Listeners :
          ack'[q][l] = IF q = r \/ Spared(q) THEN ack[q][l] ELSE "none"
    BY <1>2 DEF Publish
  <2>4. verdict[r] # "yes"
    BY <2>1 DEF Settled
  <2>5. Healthy' /\ CountsAll'
    BY <1>0, <2>1, <2>2, <2>3 DEF Healthy, CountsAll
  <2>6. Settled'
    BY <2>1, <2>2, <2>3, <2>4 DEF Settled, Spared, Healthy
  <2> QED
    BY <2>1, <2>2, <2>3, <2>4, <2>5, <2>6
<1>3. CASE Poll(r)
  <2>1. pub[r] = "waiting" /\ UNCHANGED <<expected, verdict, root, fresh, ack>>
    BY <1>3 DEF Poll, marker
  <2>2. Acked(r, "FAIL") = {}
    BY DEF Acked, Healthy
  <2>3. /\ pub' = [pub EXCEPT ![r] = "granted"]
        /\ Cardinality(Acked(r, "SUCCESS")) >= Cardinality(Listeners)
    BY <1>3, <2>1, <2>2 DEF Poll, CountsAll
  <2>4. \A l \in Listeners : ack[r][l] = "SUCCESS"
    BY <2>3, AllAcked
  <2>5. Healthy' /\ CountsAll'
    BY <1>0, <2>1, <2>3 DEF Healthy, CountsAll
  <2>6. Settled'
    BY <2>1, <2>3, <2>4 DEF Settled
  <2> QED
    BY <2>1, <2>5, <2>6
<1>4. CASE Finish(r)
  <2>1. /\ pub[r] = "granted" /\ pub' = [pub EXCEPT ![r] = "idle"]
        /\ verdict' = [verdict EXCEPT ![r] = "yes"]
        /\ UNCHANGED <<expected, fresh, ack>>
    BY <1>4 DEF Finish, Healthy
  <2>2. root' = [root EXCEPT ![r] = IF @ = "none" THEN "none" ELSE "SUCCESS"]
    BY <1>4, <2>1 DEF Finish
  <2> QED
    BY <1>0, <2>1, <2>2 DEF Healthy, CountsAll, Settled
<1>5. CASE GiveUp(r)
  <2>1. /\ pub[r] = "waiting" /\ pub' = [pub EXCEPT ![r] = "idle"]
        /\ verdict' = [verdict EXCEPT ![r] = "no"]
        /\ UNCHANGED <<expected, root, fresh, ack>>
    BY <1>5 DEF GiveUp, marker
  <2> QED
    BY <1>0, <2>1 DEF Healthy, CountsAll, Settled
<1>6. CASE PublisherDies(r)
  <2>1. /\ pub' = [pub EXCEPT ![r] = "idle"]
        /\ UNCHANGED <<verdict, expected, root, fresh, ack>>
    BY <1>6 DEF PublisherDies, marker
  <2> QED
    BY <1>0, <2>1 DEF Healthy, CountsAll, Settled
<1>7. CASE WindowCloses(r)
  <2>1. /\ fresh' = fresh \ {r}
        /\ UNCHANGED <<pub, verdict, expected, root, ack>>
    BY <1>7 DEF WindowCloses, request
  <2> QED
    BY <1>0, <2>1 DEF Healthy, CountsAll, Settled
<1> QED
  BY <1>1, <1>2, <1>3, <1>4, <1>5, <1>6, <1>7 DEF Publisher

\* A publication may clear a marker, never make one for a request that a pass
\* has seen granted.
LEMMA PublisherStands ==
  ASSUME Standing, NEW r \in Requests,
         Publisher(r) \/ PublisherDies(r) \/ WindowCloses(r)
  PROVE  Standing'
<1>1. Typed' /\ Keeping' /\ Spent'
  BY TypedStep, KeepingStep, SpentStep DEF Standing, Next
<1>2. UNCHANGED <<linked, lst, job, lingering, row, probe, rec, stopped>>
  BY PublisherFields
<1>3. Healthy' /\ CountsAll' /\ Settled'
  BY PublisherSteps
<1>4. /\ \A q \in Requests :
           /\ verdict[q] = "yes" => verdict'[q] = "yes"
           /\ root'[q] # "none" => root[q] # "none" \/ verdict[q] # "yes"
           /\ \A l \in Listeners : ack'[q][l] = "SUCCESS" => ack[q][l] = "SUCCESS"
  BY PublisherSteps
<1>5. Sessions' /\ Running' /\ Entrusted'
  BY <1>2 DEF Standing, Sessions, Running, Entrusted, Minds
<1>6. Unserved'
  BY <1>2, <1>4 DEF Standing, Unserved, Typed, TypeOK
<1>7. Aware'
  <2>1. rec.seen \subseteq Requests
    BY DEF Standing, Typed, TypeOK
  <2>2. \A q \in rec.seen : Stops(q) => verdict'[q] = "yes"
    BY <1>4, <2>1 DEF Standing, Aware
  <2>3. ASSUME NEW t \in Tasks, row[t] = "RUNNING", stopped[t].by \in rec.seen,
               root'[stopped[t].by] # "none"
        PROVE  probe[t] \in Listeners
    <3>1. Stops(stopped[t].by)
      BY <2>1, <2>3 DEF Standing, Entrusted
    <3>2. verdict[stopped[t].by] = "yes"
      BY <2>3, <3>1 DEF Standing, Aware
    <3> QED
      BY <1>4, <2>1, <2>3, <3>2 DEF Standing, Aware
  <2> QED
    BY <1>2, <2>2, <2>3 DEF Standing, Aware
<1> QED
  BY <1>1, <1>3, <1>5, <1>6, <1>7 DEF Standing

\* What the listeners never touch.
LEMMA ListenerFields ==
  ASSUME Steady, Standing, NEW l \in Listeners,
         Listener(l) \/ Unlink(l) \/ ListenerDies(l)
  PROVE  /\ UNCHANGED <<pub, verdict, expected, root, fresh, linked, lingering, rec>>
         /\ \A m \in Listeners \ {l} : lst'[m] = lst[m]
         /\ Listener(l)
         /\ ~StopFails(l)
<1>1. ~Unlink(l) /\ ~ListenerDies(l) /\ ~StopFails(l)
  BY NoMishap DEF Unlink, ListenerDies, StopFails
<1>2. linked' = linked
  BY <1>1
  DEF Listener, Receive, PluginSync, StopWorkers, ScanStopped,
      RequeueLost, RequeueEnds, HoldStopped, RequeueStopped, StartWorkers,
      RecordAck, Link, links, Standing, Sessions
<1>3. UNCHANGED <<pub, verdict, expected, root, fresh, lingering, rec>>
  BY <1>1, NoMishap
  DEF Listener, Receive, PluginSync, StopWorkers, ScanStopped,
      RequeueLost, RequeueEnds, HoldStopped, RequeueStopped, StartWorkers,
      RecordAck, Link, request, marker, workers, tasks
<1>4. \A m \in Listeners \ {l} : lst'[m] = lst[m]
  <2>1. lst' = lst \/ \E x : lst' = [lst EXCEPT ![l] = x]
    <3>1. CASE Receive(l)
      BY <3>1 DEF Receive
    <3>2. CASE PluginSync(l) \/ StopWorkers(l)
      BY <3>2 DEF PluginSync, StopWorkers, GoesTo
    <3>3. CASE ScanStopped(l) \/ RequeueLost(l) \/ RequeueEnds(l)
      BY <3>3 DEF ScanStopped, RequeueLost, RequeueEnds, AfterRequeue, GoesTo
    <3>4. CASE \E t \in Tasks : HoldStopped(l, t) \/ RequeueStopped(l, t)
      BY <3>4 DEF HoldStopped, RequeueStopped
    <3>5. CASE StartWorkers(l)
      BY <3>5 DEF StartWorkers, GoesTo
    <3>6. CASE RecordAck(l) \/ Link(l)
      BY <3>6 DEF RecordAck, Link
    <3> QED
      BY <1>1, <3>1, <3>2, <3>3, <3>4, <3>5, <3>6, Zenon DEF Listener
  <2> QED
    BY <2>1 DEF Standing, Typed, TypeOK
<1> QED
  BY <1>1, <1>2, <1>3, <1>4

\* Where a listener goes, it goes with the same request.
LEMMA GoesToPlace ==
  ASSUME Standing, NEW l \in Listeners, NEW pc, NEW ok, GoesTo(l, pc, ok)
  PROVE  lst'[l] = Handling(pc, lst[l].req, ok, {})
BY DEF GoesTo, Standing, Typed, TypeOK

\* A listener's step keeps the acknowledgements sound: it acknowledges success
\* only, and not before it is done.
LEMMA ListenerAcks ==
  ASSUME Steady, Standing, NEW l \in Listeners, Listener(l)
  PROVE  /\ lst'[l].pc \in {"scan", "requeue", "start", "ack"} => lst'[l].ok
         /\ lst'[l].pc \in {"act", "scan", "requeue", "start"} =>
              ack'[lst'[l].req][l] # "SUCCESS"
         /\ \A r \in Requests : ack'[r][l] \in {ack[r][l], "SUCCESS"}
         /\ \A r \in Requests, m \in Listeners \ {l} : ack'[r][m] = ack[r][m]
<1> USE DEF Standing, Typed, TypeOK, Healthy, Unserved
<1>1. CASE Receive(l)
  <2> DEFINE r == Head(inbox[l])
  <2>1. PICK seen \in BOOLEAN :
          /\ Works(seen, "blind")
          /\ lst' = [lst EXCEPT ![l] =
               IF seen /\ ack[r][l] = "SUCCESS"
               THEN Handling("ack", r, TRUE, {})
               ELSE Handling("act", r, FALSE, {})]
    BY <1>1, Zenon DEF Receive
  <2>2. seen
    BY <2>1, NoMishap
  <2>3. ack' = ack
    BY <1>1 DEF Receive
  <2> QED
    BY <2>1, <2>2, <2>3 DEF Handling
<1>2. CASE PluginSync(l) \/ StopWorkers(l)
  <2>1. PICK pc, ok : pc \in {"scan", "ack"} /\ ok = TRUE /\ GoesTo(l, pc, ok)
                      /\ lst[l].pc = "act"
    <3>1. CASE PluginSync(l)
      BY <3>1, NoMishap DEF PluginSync, At
    <3>2. CASE StopWorkers(l)
      BY <3>2 DEF StopWorkers, At
    <3> QED
      BY <1>2, <3>1, <3>2
  <2>2. ack' = ack
    BY <1>2 DEF PluginSync, StopWorkers
  <2>3. lst'[l] = Handling(pc, lst[l].req, TRUE, {})
    BY <2>1, GoesToPlace
  <2> QED
    BY <2>1, <2>2, <2>3 DEF Handling
<1>3. CASE RequeueLost(l) \/ RequeueEnds(l)
  <2>1. PICK pc : pc \in {"start", "ack"} /\ GoesTo(l, pc, TRUE)
    BY <1>3 DEF RequeueLost, RequeueEnds, AfterRequeue
  <2>2. ack' = ack /\ lst[l].pc \in {"scan", "requeue"}
    BY <1>3 DEF RequeueLost, RequeueEnds, At
  <2>3. lst'[l] = Handling(pc, lst[l].req, TRUE, {})
    BY <2>1, GoesToPlace
  <2> QED
    BY <2>1, <2>2, <2>3 DEF Handling
<1>4. CASE StartWorkers(l)
  <2>1. PICK good \in BOOLEAN :
          /\ Works(good, "fail")
          /\ GoesTo(l, "ack", good /\ (At(l, "start") => lst[l].ok))
    BY <1>4, Zenon DEF StartWorkers
  <2>2. good
    BY <2>1, NoMishap
  <2>3. ack' = ack
    BY <1>4 DEF StartWorkers
  <2>4. good /\ (At(l, "start") => lst[l].ok)
    BY <2>2 DEF At
  <2>5. PICK ok : ok = (good /\ (At(l, "start") => lst[l].ok))
    OBVIOUS
  <2>6. GoesTo(l, "ack", ok) /\ ok
    BY <2>1, <2>4, <2>5, Zenon
  <2>7. lst'[l] = Handling("ack", lst[l].req, ok, {})
    BY <2>6, GoesToPlace
  <2> QED
    BY <2>3, <2>6, <2>7 DEF Handling
<1>5. CASE ScanStopped(l) \/ \E t \in Tasks : HoldStopped(l, t)
  <2>1. PICK cand : lst' = [lst EXCEPT ![l] =
                              Handling("requeue", lst[l].req, TRUE, cand)]
    BY <1>5 DEF ScanStopped, HoldStopped
  <2>2. ack' = ack /\ lst[l].pc \in {"scan", "requeue"}
    BY <1>5 DEF ScanStopped, HoldStopped, At
  <2> QED
    BY <2>1, <2>2 DEF Handling
<1>6. CASE (\E t \in Tasks : RequeueStopped(l, t)) \/ Link(l)
  BY <1>6 DEF RequeueStopped, Link
<1>7. CASE RecordAck(l)
  <2>1. lst[l].pc = "ack" /\ lst[l].ok
    BY <1>7 DEF RecordAck, At
  <2>2. lst' = [lst EXCEPT ![l] = Idle]
    BY <1>7, Zenon DEF RecordAck
  <2>3. ack' = ack \/ ack' = [ack EXCEPT ![lst[l].req][l] = "SUCCESS"]
    BY <1>7, <2>1 DEF RecordAck
  <2>4. lst'[l].pc = "idle"
    BY <2>2 DEF Idle, Handling
  <2>5. /\ \A r \in Requests : ack'[r][l] \in {ack[r][l], "SUCCESS"}
        /\ \A r \in Requests, m \in Listeners \ {l} : ack'[r][m] = ack[r][m]
    <3> DEFINE q == lst[l].req
    <3>1. q \in Requests
      BY <2>1
    <3> HIDE DEF q
    <3>2. CASE ack' = [ack EXCEPT ![q][l] = "SUCCESS"]
      <4>1. ack' = [ack EXCEPT ![q] = [ack[q] EXCEPT ![l] = "SUCCESS"]]
        BY <3>2
      <4>2. ack'[q] = [ack[q] EXCEPT ![l] = "SUCCESS"]
            /\ \A r \in Requests \ {q} : ack'[r] = ack[r]
        BY <3>1, <4>1
      <4>3. ack[q] \in [Listeners -> {"none", "SUCCESS", "FAIL"}]
        BY <3>1
      <4>4. ack'[q][l] = "SUCCESS" /\ \A m \in Listeners \ {l} : ack'[q][m] = ack[q][m]
        BY <4>2, <4>3
      <4> QED
        BY <4>2, <4>4
    <3> QED
      BY <2>3, <3>2 DEF q
  <2> QED
    BY <2>4, <2>5
<1>8. ~StopFails(l)
  BY ListenerFields
<1> QED
  BY <1>1, <1>2, <1>3, <1>4, <1>5, <1>6, <1>7, <1>8 DEF Listener

\* What a listener that changes no task and holds none up to look at keeps.
LEMMA ListenerElsewhere ==
  ASSUME Steady, Standing, NEW l \in Listeners, Listener(l),
         UNCHANGED <<job, row, probe, stopped>>,
         \A t \in Tasks, q \in Requests : ~Minds(l, t, q)
  PROVE  Running' /\ Entrusted'
<1>1. Running'
  BY DEF Standing, Running
<1>2. \A m \in Listeners \ {l} : lst'[m] = lst[m]
  BY ListenerFields
<1>3. ASSUME NEW t \in Tasks, stopped[t].by # None, row[t] = "RUNNING",
             probe[t] = None
      PROVE  Minds(stopped[t].on, t, stopped[t].by)'
  <2>1. /\ Minds(stopped[t].on, t, stopped[t].by)
        /\ stopped[t].on \in Listeners
    BY <1>3 DEF Standing, Entrusted
  <2>2. stopped[t].by \in Requests
    BY <1>3 DEF Standing, Typed, TypeOK
  <2>3. stopped[t].on # l
    BY <2>1, <2>2
  <2> QED
    BY <1>2, <2>1, <2>3 DEF Minds
<1> QED
  BY <1>1, <1>3 DEF Standing, Entrusted

\* A listener's step keeps the stopped tasks in hand.
LEMMA ListenerHands ==
  ASSUME Steady, Standing, NEW l \in Listeners, Listener(l)
  PROVE  Running' /\ Entrusted'
<1> USE DEF Standing, Typed, TypeOK
<1>0. /\ UNCHANGED <<linked, lingering>> /\ ~StopFails(l)
      /\ \A m \in Listeners \ {l} : lst'[m] = lst[m]
  BY ListenerFields
<1>1. CASE Receive(l) \/ PluginSync(l) \/ StartWorkers(l) \/ Link(l)
           \/ RequeueEnds(l)
  <2>1. UNCHANGED <<job, row, probe, stopped>>
    BY <1>1 DEF Receive, PluginSync, StartWorkers, Link, RequeueEnds, workers, tasks
  <2>2. \A t \in Tasks, q \in Requests : ~Minds(l, t, q)
    BY <1>1 DEF Receive, PluginSync, StartWorkers, Link, RequeueEnds, At, Minds,
                Sessions
  <2> QED
    BY <2>1, <2>2, ListenerElsewhere
<1>7. CASE RecordAck(l)
  <2>1. /\ UNCHANGED <<job, row, stopped>>
        /\ probe' = Released(l) /\ lst[l].pc = "ack"
    BY <1>7 DEF RecordAck, workers, At
  <2>2. Running'
    BY <2>1 DEF Running
  <2>3. \A t \in Tasks : stopped[t].by # None => probe'[t] = probe[t]
    BY <2>1 DEF Released, Spent
  <2>4. \A m \in Listeners, t \in Tasks, q \in Requests :
          Minds(m, t, q) => Minds(m, t, q)'
    BY <1>0, <2>1 DEF Minds
  <2>5. Entrusted'
    BY <2>1, <2>3, <2>4 DEF Entrusted
  <2> QED
    BY <2>2, <2>5
<1>2. CASE StopWorkers(l)
  <2>1. /\ lst[l].pc = "act" /\ Stops(lst[l].req)
        /\ UNCHANGED <<row, probe>>
        /\ Kill(l, TRUE) /\ GoesTo(l, "scan", TRUE)
    BY <1>2 DEF StopWorkers, At, tasks
  <2>2. lst'[l] = Handling("scan", lst[l].req, TRUE, {})
    BY <2>1, GoesToPlace
  <2>3. CASE job[l] = None
    <3>1. UNCHANGED <<job, stopped>>
      BY <2>1, <2>3 DEF Kill
    <3>2. \A t \in Tasks, q \in Requests : ~Minds(l, t, q)
      BY <2>1 DEF Minds
    <3> QED
      BY <2>1, <3>1, <3>2, ListenerElsewhere
  <2>4. CASE job[l] # None
    <3>1. /\ job' = [job EXCEPT ![l] = None]
          /\ stopped' = [stopped EXCEPT ![job[l]] = [by |-> lst[l].req, on |-> l]]
      BY <2>1, <2>4 DEF Kill
    <3>2. Running'
      BY <3>1, <2>4 DEF Running, Keeping, Held
    <3>3. lst'[l].pc = "scan" /\ lst'[l].req = lst[l].req
      BY <2>2 DEF Handling
    <3>4. ASSUME NEW t \in Tasks, stopped'[t].by # None
          PROVE  /\ Stops(stopped'[t].by)
                 /\ stopped'[t].on \in Listeners
                 /\ row[t] = "RUNNING" =>
                      probe[t] # None \/ Minds(stopped[t].on, t, stopped[t].by)'
      <4>1. CASE t = job[l]
        <5>1. stopped'[t] = [by |-> lst[l].req, on |-> l]
          BY <3>1, <4>1
        <5> QED
          BY <2>1, <3>3, <5>1 DEF Minds
      <4>2. CASE t # job[l]
        <5>1. stopped'[t] = stopped[t]
          BY <3>1, <4>2
        <5>2. \A m \in Listeners, q \in Requests : Minds(m, t, q) => Minds(m, t, q)'
          BY <1>0, <2>1 DEF Minds
        <5>3. stopped[t].by \in Requests
          BY <3>4, <5>1
        <5> QED
          BY <3>4, <5>1, <5>2, <5>3 DEF Entrusted, Minds
      <4> QED
        BY <4>1, <4>2
    <3>5. Entrusted'
      BY <2>1, <3>4 DEF Entrusted
    <3> QED
      BY <3>2, <3>5
  <2> QED
    BY <2>3, <2>4
<1>3. CASE ScanStopped(l)
  <2>1. /\ lst' = [lst EXCEPT ![l] = Handling("requeue", lst[l].req, TRUE, Orphans)]
        /\ lst[l].pc = "scan"
        /\ UNCHANGED <<job, row, probe, stopped>>
    BY <1>3 DEF ScanStopped, At, workers, tasks
  <2>2. ASSUME NEW t \in Tasks, row[t] = "RUNNING", stopped[t].by # None
        PROVE  t \in Orphans
    <3>1. \A m \in Listeners : job[m] # t
      BY <2>2, Untouched
    <3> QED
      BY <2>2, <3>1 DEF Orphans, Orphan, Sessions
  <2>3. Running'
    BY <2>1 DEF Running
  <2>4. Entrusted'
    BY <2>1, <2>2 DEF Entrusted, Minds, Handling
  <2> QED
    BY <2>3, <2>4
<1>4. CASE RequeueLost(l)
  <2>1. /\ probe' = Released(l) \/ probe' = probe
        /\ stopped' = [t \in Tasks |->
             IF stopped[t].on = l \/ probe[t] = l THEN NotStopped ELSE stopped[t]]
        /\ UNCHANGED <<job, row>>
    BY <1>4 DEF RequeueLost, workers
  <2>2. Running'
    BY <2>1 DEF Running
  <2>3. Entrusted'
    BY <1>0, <2>1 DEF Entrusted, Minds, Released, NotStopped
  <2> QED
    BY <2>2, <2>3
<1>5. ASSUME NEW u \in Tasks, HoldStopped(l, u) PROVE Running' /\ Entrusted'
  <2>1. /\ lst[l].pc = "requeue"
        /\ lst' = [lst EXCEPT ![l] =
             Handling("requeue", lst[l].req, TRUE, lst[l].cand \ {u})]
        /\ probe' = IF Locked(u) THEN probe ELSE [probe EXCEPT ![u] = l]
        /\ UNCHANGED <<job, row, stopped>>
    BY <1>5 DEF HoldStopped, At, workers
  <2>2. Running'
    BY <2>1 DEF Running
  <2>3. stopped[u].by # None => probe'[u] # None
    <3>1. stopped[u].by # None => \A m \in Listeners : job[m] # u
      BY Untouched
    <3>2. l # None
      OBVIOUS
    <3> QED
      BY <2>1, <3>1, <3>2 DEF Locked, Sessions
  <2>4. \A t \in Tasks \ {u} : probe'[t] = probe[t]
    BY <2>1
  <2>5. Entrusted'
    BY <2>1, <2>3, <2>4 DEF Entrusted, Minds, Handling
  <2> QED
    BY <2>2, <2>5
<1>6. ASSUME NEW u \in Tasks, RequeueStopped(l, u) PROVE Running' /\ Entrusted'
  <2>1. /\ probe' = [probe EXCEPT ![u] = None]
        /\ row' = [row EXCEPT ![u] = IF @ = "RUNNING" THEN "NEW" ELSE @]
        /\ stopped' = [stopped EXCEPT ![u] = NotStopped]
        /\ UNCHANGED <<job, lst>>
    BY <1>6 DEF RequeueStopped, workers
  <2> QED
    BY <2>1 DEF Running, Entrusted, Minds, NotStopped
<1> QED
  BY <1>0, <1>1, <1>2, <1>3, <1>4, <1>5, <1>6, <1>7 DEF Listener

\* No listener of a request that a pass has seen granted has a worker to stop.
LEMMA ListenerAware ==
  ASSUME Steady, Standing, NEW l \in Listeners, Listener(l)
  PROVE  Aware'
<1> USE DEF Standing, Typed, TypeOK
<1>0. UNCHANGED <<verdict, root, rec>> /\ ~StopFails(l)
  BY ListenerFields
<1>1. CASE UNCHANGED <<row, probe, stopped>>
  BY <1>0, <1>1 DEF Aware
<1>2. CASE StopWorkers(l)
  <2>1. /\ lst[l].pc = "act" /\ Stops(lst[l].req)
        /\ UNCHANGED <<row, probe>>
        /\ Kill(l, TRUE)
    BY <1>2 DEF StopWorkers, At, tasks
  <2>2. lst[l].req \in rec.seen => root[lst[l].req] = "none"
    BY <2>1 DEF Aware, Settled, Unserved
  <2>3. stopped' = stopped
        \/ (job[l] \in Tasks
            /\ stopped' = [stopped EXCEPT ![job[l]] = [by |-> lst[l].req, on |-> l]])
    BY <2>1 DEF Kill
  <2>4. CASE job[l] \in Tasks
             /\ stopped' = [stopped EXCEPT ![job[l]] = [by |-> lst[l].req, on |-> l]]
    <3>1. stopped'[job[l]].by = lst[l].req
      BY <2>4
    <3>2. \A t \in Tasks \ {job[l]} : stopped'[t] = stopped[t]
      BY <2>4
    <3>3. lst[l].req \notin rec.seen \/ root[lst[l].req] = "none"
      BY <2>2
    <3> QED
      BY <1>0, <2>1, <3>1, <3>2, <3>3 DEF Aware
  <2> QED
    BY <1>0, <2>1, <2>3, <2>4 DEF Aware
<1>3. CASE RequeueLost(l)
  <2>1. /\ probe' = Released(l) \/ probe' = probe
        /\ row' = row
        /\ stopped' = [t \in Tasks |->
             IF stopped[t].on = l \/ probe[t] = l THEN NotStopped ELSE stopped[t]]
    BY <1>3 DEF RequeueLost
  <2> QED
    BY <1>0, <2>1 DEF Aware, Released, NotStopped
<1>6. CASE RecordAck(l)
  <2>1. /\ UNCHANGED <<row, stopped>>
        /\ probe' = Released(l) /\ lst[l].pc = "ack"
    BY <1>6 DEF RecordAck, At
  <2>2. \A t \in Tasks : probe'[t] = Reclaimer => probe[t] = Reclaimer
    BY <2>1 DEF Released
  <2>3. \A t \in Tasks : stopped[t].by # None => probe'[t] = probe[t]
    BY <2>1 DEF Released, Spent
  <2>4. rec.seen \subseteq Requests
    OBVIOUS
  <2>5. None \notin rec.seen
    BY <2>4
  <2> QED
    BY <1>0, <2>1, <2>2, <2>3, <2>5 DEF Aware
<1>4. ASSUME NEW u \in Tasks, HoldStopped(l, u) PROVE Aware'
  <2>1. /\ probe' = IF Locked(u) THEN probe ELSE [probe EXCEPT ![u] = l]
        /\ UNCHANGED <<row, stopped>>
    BY <1>4 DEF HoldStopped
  <2> QED
    BY <1>0, <2>1 DEF Aware
<1>5. ASSUME NEW u \in Tasks, RequeueStopped(l, u) PROVE Aware'
  <2>1. /\ probe' = [probe EXCEPT ![u] = None]
        /\ row' = [row EXCEPT ![u] = IF @ = "RUNNING" THEN "NEW" ELSE @]
        /\ stopped' = [stopped EXCEPT ![u] = NotStopped]
    BY <1>5 DEF RequeueStopped
  <2> QED
    BY <1>0, <2>1 DEF Aware, NotStopped
<1> QED
  BY <1>0, <1>1, <1>2, <1>3, <1>4, <1>5, <1>6
  DEF Listener, Receive, PluginSync, ScanStopped, RequeueEnds, StartWorkers,
      Link, tasks

\* A listener's step keeps it all.
LEMMA ListenerStands ==
  ASSUME Steady, Standing, NEW l \in Listeners,
         Listener(l) \/ Unlink(l) \/ ListenerDies(l)
  PROVE  Standing'
<1>1. Typed' /\ Keeping' /\ Spent'
  BY TypedStep, KeepingStep, SpentStep DEF Standing, Next
<1>2. /\ UNCHANGED <<pub, verdict, expected, root, fresh, linked, lingering, rec>>
      /\ \A m \in Listeners \ {l} : lst'[m] = lst[m]
      /\ Listener(l)
  BY ListenerFields
<1>3. Running' /\ Entrusted'
  BY <1>2, ListenerHands
<1>4. Aware'
  BY <1>2, ListenerAware
<1>5. /\ lst'[l].pc \in {"scan", "requeue", "start", "ack"} => lst'[l].ok
      /\ lst'[l].pc \in {"act", "scan", "requeue", "start"} =>
           ack'[lst'[l].req][l] # "SUCCESS"
      /\ \A r \in Requests : ack'[r][l] \in {ack[r][l], "SUCCESS"}
      /\ \A r \in Requests, m \in Listeners \ {l} : ack'[r][m] = ack[r][m]
  BY <1>2, ListenerAcks
<1>6. Sessions' /\ CountsAll'
  BY <1>2 DEF Standing, Sessions, CountsAll
<1>7. Healthy'
  BY <1>2, <1>5 DEF Standing, Healthy
<1>8. Settled'
  BY <1>2, <1>5 DEF Standing, Settled
<1>9. Unserved'
  <2>1. \A m \in Listeners : lst[m].pc # "idle" => lst[m].req \in Requests
    BY DEF Standing, Typed, TypeOK
  <2>2. ASSUME NEW m \in Listeners \ {l},
               lst[m].pc \in {"act", "scan", "requeue", "start"}
        PROVE  ack'[lst[m].req][m] # "SUCCESS"
    BY <1>5, <2>1, <2>2 DEF Standing, Unserved
  <2> QED
    BY <1>2, <1>5, <2>2 DEF Unserved
<1> QED
  BY <1>1, <1>3, <1>4, <1>6, <1>7, <1>8, <1>9 DEF Standing

\* A pass begins when every stop in sight has been granted; it and the workers
\* then only hold and finish what is held.
LEMMA QueueStands ==
  ASSUME Steady, Standing,
         Pass \/ (\E t \in Tasks : SessionEnds(t))
           \/ (\E l \in Listeners :
                JobEnds(l) \/ WorkerDies(l) \/ \E t \in Tasks : Claim(l, t))
  PROVE  Standing'
<1> USE DEF Standing, Typed, TypeOK
<1>1. Typed' /\ Keeping' /\ Spent'
  BY TypedStep, KeepingStep, SpentStep, Zenon DEF Next, Standing
<1>2. UNCHANGED <<pub, verdict, expected, root, fresh, ack, lst, linked>>
  BY DEF Pass, ReadMarkers, ScanOrphans, PassEnds, HoldOrphan, Charge,
         SessionEnds, JobEnds, WorkerDies, Claim, request, marker, links
<1>3. Healthy' /\ CountsAll' /\ Settled' /\ Unserved'
  BY <1>2 DEF Healthy, CountsAll, Settled, Unserved
<1> SUFFICES Sessions' /\ Running' /\ Entrusted' /\ Aware'
  BY <1>1, <1>3
<1>4. CASE ReadMarkers
  <2>1. /\ rec.pc = "idle" /\ \A r \in Requests : ~InFlight(r)
        /\ rec' = [pc |-> "scan", cand |-> {}, seen |-> fresh]
        /\ UNCHANGED <<job, lingering, row, probe, stopped>>
    BY <1>4 DEF ReadMarkers, workers, tasks
  <2>2. \A q \in fresh : Stops(q) => verdict[q] = "yes"
    BY <2>1 DEF InFlight, Settled
  <2>3. ASSUME NEW t \in Tasks, row[t] = "RUNNING", stopped[t].by \in fresh,
               root[stopped[t].by] # "none"
        PROVE  probe[t] \in Listeners
    <3> DEFINE q == stopped[t].by
               l == stopped[t].on
    <3>1. q \in Requests /\ Stops(q) /\ l \in Listeners
      BY <2>3 DEF Entrusted
    <3>2. ack[q][l] = "SUCCESS"
      BY <2>2, <2>3, <3>1 DEF Settled
    <3>3. ~Minds(l, t, q)
      BY <3>1, <3>2 DEF Minds, Unserved
    <3>4. probe[t] # None
      BY <2>3, <3>1, <3>3 DEF Entrusted
    <3> QED
      BY <2>1, <3>4 DEF Aware
  <2>4. Aware'
    BY <1>2, <2>1, <2>2, <2>3 DEF Aware
  <2> QED
    BY <1>2, <2>1, <2>4 DEF Sessions, Running, Entrusted, Minds
<1>5. CASE ScanOrphans \/ PassEnds
  <2>1. /\ UNCHANGED <<job, lingering, row, probe, stopped>>
        /\ rec'.seen \subseteq rec.seen
        /\ (\E t \in Tasks : probe[t] = Reclaimer) => rec'.pc = "probe"
    BY <1>5 DEF ScanOrphans, PassEnds, NoProbe, workers, tasks
  <2>2. Aware'
    BY <1>2, <2>1 DEF Aware
  <2> QED
    BY <1>2, <2>1, <2>2 DEF Sessions, Running, Entrusted, Minds
<1>6. ASSUME NEW u \in Tasks, HoldOrphan(u)
      PROVE  Sessions' /\ Running' /\ Entrusted' /\ Aware'
  <2>1. /\ rec'.pc = "probe" /\ rec'.seen = rec.seen
        /\ probe' = IF Locked(u) THEN probe ELSE [probe EXCEPT ![u] = Reclaimer]
        /\ UNCHANGED <<job, lingering, row, stopped>>
    BY <1>6 DEF HoldOrphan, workers
  <2>2. Sessions' /\ Running'
    BY <1>2, <2>1 DEF Sessions, Running
  <2>3. Entrusted'
    BY <1>2, <2>1 DEF Entrusted, Minds
  <2>4. Aware'
    BY <1>2, <2>1 DEF Aware, Locked
  <2> QED
    BY <2>2, <2>3, <2>4
<1>7. ASSUME NEW u \in Tasks, Charge(u)
      PROVE  Sessions' /\ Running' /\ Entrusted' /\ Aware'
  <2>1. /\ probe' = [probe EXCEPT ![u] = None]
        /\ row'[u] # "RUNNING" /\ \A t \in Tasks \ {u} : row'[t] = row[t]
        /\ UNCHANGED <<job, lingering, stopped, rec>>
    BY <1>7 DEF Charge, workers
  <2>2. Sessions' /\ Running'
    BY <1>2, <2>1 DEF Sessions, Running
  <2>3. Entrusted'
    BY <1>2, <2>1 DEF Entrusted, Minds
  <2>4. Aware'
    BY <1>2, <2>1 DEF Aware
  <2> QED
    BY <2>2, <2>3, <2>4
<1>8. ASSUME NEW t \in Tasks, SessionEnds(t)
      PROVE  Sessions' /\ Running' /\ Entrusted' /\ Aware'
  BY <1>8 DEF SessionEnds, Sessions
<1>9. ASSUME NEW l \in Listeners, JobEnds(l)
      PROVE  Sessions' /\ Running' /\ Entrusted' /\ Aware'
  <2>1. /\ row' = [row EXCEPT ![job[l]] = "DONE"]
        /\ job' = [job EXCEPT ![l] = None]
        /\ UNCHANGED <<lingering, probe, stopped, rec>>
    BY <1>9 DEF JobEnds
  <2> QED
    BY <1>2, <2>1 DEF Sessions, Running, Entrusted, Minds, Aware
<1>10. ASSUME NEW l \in Listeners, WorkerDies(l)
       PROVE  Sessions' /\ Running' /\ Entrusted' /\ Aware'
  <2>1. /\ job' = [job EXCEPT ![l] = None]
        /\ UNCHANGED <<lingering, row, probe, stopped, rec>>
    BY <1>10 DEF WorkerDies, tasks
  <2> QED
    BY <1>2, <2>1 DEF Sessions, Running, Entrusted, Minds, Aware
<1>11. ASSUME NEW l \in Listeners, NEW u \in Tasks, Claim(l, u)
       PROVE  Sessions' /\ Running' /\ Entrusted' /\ Aware'
  <2>1. /\ job' = [job EXCEPT ![l] = u]
        /\ row' = [row EXCEPT ![u] = "RUNNING"]
        /\ stopped' = [stopped EXCEPT ![u] = NotStopped]
        /\ UNCHANGED <<lingering, probe, rec>>
    BY <1>11 DEF Claim
  <2>2. Sessions' /\ Running'
    BY <1>2, <2>1 DEF Sessions, Running
  <2>3. Entrusted'
    BY <1>2, <2>1 DEF Entrusted, Minds, NotStopped
  <2>4. Aware'
    BY <1>2, <2>1 DEF Aware, NotStopped
  <2> QED
    BY <2>2, <2>3, <2>4
<1> QED
  BY <1>4, <1>5, <1>6, <1>7, <1>8, <1>9, <1>10, <1>11 DEF Pass

\* Every step keeps it all.
LEMMA StandingStep == ASSUME Steady PROVE Standing /\ [Next]_vars => Standing'
<1> SUFFICES ASSUME Standing, [Next]_vars PROVE Standing'
  OBVIOUS
<1>1. CASE UNCHANGED vars
  <2>1. Typed' /\ Keeping' /\ Spent'
    BY <1>1, TypedStep, KeepingStep, SpentStep DEF Standing
  <2> QED
    BY <1>1, <2>1
    DEF vars, Standing, Sessions, Healthy, CountsAll, Settled, Unserved,
        Running, Entrusted, Minds, Aware
<1> QED
  BY <1>1, PublisherStands, ListenerStands, QueueStands DEF Next

\* A charge is that of a row in the pass's own hands.
LEMMA ChargesTheLost ==
  ASSUME Standing, [Next]_vars, NEW t \in Tasks, charged'[t] > charged[t]
  PROVE  stopped[t].by \notin (rec.seen \cap fresh) \ Forgotten
<1> USE DEF Standing, Typed, TypeOK
<1>1. Charge(t)
  <2>1. charged[t] \in Nat
    OBVIOUS
  <2>2. charged' # charged
    BY <2>1
  <2>3. PICK u \in Tasks : Charge(u)
    BY <2>2
    DEF Next, Publisher, Count, Publish, Poll, Finish, GiveUp, PublisherDies,
        WindowCloses, Listener, Receive, PluginSync, StopWorkers, StopFails,
        ScanStopped, RequeueLost, RequeueEnds, HoldStopped, RequeueStopped,
        StartWorkers, RecordAck, Link, Unlink, ListenerDies, JobEnds,
        WorkerDies, Claim, SessionEnds, Pass, ReadMarkers, ScanOrphans,
        HoldOrphan, PassEnds, tasks, vars
  <2>4. u = t
    BY <2>1, <2>3 DEF Charge
  <2> QED
    BY <2>3, <2>4
<1>2. row[t] = "RUNNING" /\ probe[t] = Reclaimer
  BY <1>1 DEF Charge
<1> SUFFICES ASSUME stopped[t].by \in rec.seen, stopped[t].by \notin Forgotten
             PROVE  FALSE
  OBVIOUS
<1>3. stopped[t].by \in Requests /\ Stops(stopped[t].by)
  BY DEF Entrusted
<1>4. verdict[stopped[t].by] = "yes"
  BY <1>3 DEF Aware
<1>5. root[stopped[t].by] # "none"
  BY <1>3, <1>4 DEF Forgotten
<1> QED
  BY <1>2, <1>5 DEF Aware

\* LateReadersStandDown for every instance of the steady case: a pass that comes
\* late to a marker charges no task for a deliberate stop, however many requests,
\* containers, publications and lost saves there are (maintenance.py 107-127,
\* control.py 292-303).
THEOREM LateReaders == ASSUME Steady PROVE Spec => LateReadersStandDown
<1>1. Init => Standing
  <2>1. Init => Typed /\ Keeping /\ Spent
    BY TypedInit DEF Init, Keeping, RowTypes, Held, Spent, NotStopped
  <2> QED
    BY <2>1
    DEF Init, Standing, Sessions, Healthy, CountsAll, Settled, Unserved,
        Running, Entrusted, Minds, Aware, Idle, Handling, NotStopped
<1>2. Standing /\ [Next]_vars =>
        [\A t \in Tasks : charged'[t] > charged[t] =>
           stopped[t].by \notin (rec.seen \cap fresh) \ Forgotten]_vars
  BY ChargesTheLost
<1>3. Standing /\ [Next]_vars => Standing'
  BY StandingStep
<1> QED
  BY <1>1, <1>2, <1>3, PTL DEF Spec, LateReadersStandDown

-------------------------------------------------------------------------------
(* The promise of the queue *)

\* The life of one task, from its row and its counter.
Life(status, count) ==
  IF status = "NEW" THEN [stage |-> "waiting", charges |-> count]
  ELSE IF status = "RUNNING" THEN [stage |-> "working", charges |-> count]
  ELSE [stage |-> "over", charges |-> 0]

\* What a step may do to the row and the counter of one task.
MayMove(t) ==
  \/ row'[t] = row[t] /\ charged'[t] = charged[t]
  \/ row[t] = "NEW" /\ row'[t] = "RUNNING" /\ charged'[t] = charged[t]
  \/ row[t] = "RUNNING" /\ row'[t] \in {"NEW", "DONE"} /\ charged'[t] = charged[t]
  \/ /\ row[t] = "RUNNING" /\ charged[t] + 1 <= MaxAttempts
     /\ row'[t] = "NEW" /\ charged'[t] = charged[t] + 1
  \/ row[t] = "RUNNING" /\ row'[t] = "FAIL"

\* Publishers, dead sessions and the listeners' own ends touch no row.
LEMMA BystandersMoveNothing ==
  ASSUME \/ \E r \in Requests : Publisher(r) \/ PublisherDies(r) \/ WindowCloses(r)
         \/ \E l \in Listeners : Unlink(l) \/ ListenerDies(l) \/ WorkerDies(l)
         \/ \E t \in Tasks : SessionEnds(t)
         \/ UNCHANGED vars
  PROVE  row' = row /\ charged' = charged
BY DEF Publisher, Count, Publish, Poll, Finish, GiveUp, PublisherDies, WindowCloses,
       Unlink, ListenerDies, WorkerDies, SessionEnds, tasks, vars

\* A listener gives back only what runs.
LEMMA ListenerMoves ==
  ASSUME Typed, NEW l \in Listeners, Listener(l)
  PROVE  \A t \in Tasks : MayMove(t)
<1>1. ASSUME NEW t \in Tasks, RequeueStopped(l, t)
      PROVE  \A u \in Tasks : MayMove(u)
  BY <1>1 DEF RequeueStopped, MayMove, Typed, TypeOK
<1>2. ASSUME row' = row, charged' = charged
      PROVE  \A t \in Tasks : MayMove(t)
  BY <1>2 DEF MayMove
<1>3. ASSUME NEW t \in Tasks, HoldStopped(l, t)
      PROVE  row' = row /\ charged' = charged
  BY <1>3 DEF HoldStopped
<1> QED
  BY <1>1, <1>2, <1>3
  DEF Listener, Receive, PluginSync, StopWorkers, StopFails, ScanStopped, RequeueLost,
      RequeueEnds, StartWorkers, RecordAck, Link, tasks

\* So does the reclaim pass, which charges or closes.
LEMMA PassMoves ==
  ASSUME Typed, Pass
  PROVE  \A t \in Tasks : MayMove(t)
<1>1. ASSUME NEW t \in Tasks, Charge(t)
      PROVE  \A u \in Tasks : MayMove(u)
  BY <1>1 DEF Charge, MayMove, Typed, TypeOK
<1>2. ASSUME row' = row, charged' = charged
      PROVE  \A t \in Tasks : MayMove(t)
  BY <1>2 DEF MayMove
<1>3. ASSUME NEW t \in Tasks, HoldOrphan(t)
      PROVE  row' = row /\ charged' = charged
  BY <1>3 DEF HoldOrphan
<1> QED
  BY <1>1, <1>2, <1>3 DEF Pass, ReadMarkers, ScanOrphans, PassEnds, tasks

\* A worker claims what waits and ends what runs: the row of its job is its own.
LEMMA WorkerMoves ==
  ASSUME Typed, Keeping, NEW l \in Listeners, JobEnds(l) \/ \E t \in Tasks : Claim(l, t)
  PROVE  \A t \in Tasks : MayMove(t)
<1>1. ASSUME JobEnds(l)
      PROVE  \A t \in Tasks : MayMove(t)
  <2>1. row[job[l]] = "RUNNING" /\ job[l] \in Tasks
    BY <1>1 DEF JobEnds, Keeping, Held, RowTypes
  <2> QED
    BY <1>1, <2>1 DEF JobEnds, MayMove, Typed, TypeOK
<1>2. ASSUME NEW t \in Tasks, Claim(l, t)
      PROVE  \A u \in Tasks : MayMove(u)
  BY <1>2 DEF Claim, MayMove, Typed, TypeOK
<1> QED
  BY <1>1, <1>2

\* What a step may do to a row is a lawful move of its job.
LEMMA LawfulMove ==
  ASSUME Typed, NEW t \in Tasks, MayMove(t)
  PROVE  Promise!Lawful(t, Life(row[t], charged[t]), Life(row'[t], charged'[t]))
<1> DEFINE x == Life(row[t], charged[t])
           y == Life(row'[t], charged'[t])
<1>1. charged[t] \in Nat /\ MaxAttempts \in Nat
  BY ControlAssumption DEF Typed, TypeOK
<1>2. CASE row'[t] = row[t] /\ charged'[t] = charged[t]
  BY <1>2 DEF Promise!Lawful
<1>3. CASE row[t] = "NEW" /\ row'[t] = "RUNNING" /\ charged'[t] = charged[t]
  BY <1>3 DEF Promise!Lawful, Promise!Working, Life
<1>4. CASE row[t] = "RUNNING" /\ row'[t] \in {"NEW", "DONE"} /\ charged'[t] = charged[t]
  BY <1>4 DEF Promise!Lawful, Promise!Waiting, Promise!Over, Life
<1>5. CASE /\ row[t] = "RUNNING" /\ charged[t] + 1 <= MaxAttempts
           /\ row'[t] = "NEW" /\ charged'[t] = charged[t] + 1
  <2>1. x = [stage |-> "working", charges |-> charged[t]]
        /\ y = [stage |-> "waiting", charges |-> charged[t] + 1]
    BY <1>5 DEF Life
  <2>2. charged[t] < MaxAttempts
    BY <1>1, <1>5
  <2> HIDE DEF x, y
  <2>3. Promise!Lawful(t, x, y)
    BY <2>1, <2>2 DEF Promise!Lawful, Promise!Waiting
  <2> QED
    BY <2>3 DEF x, y
<1>6. CASE row[t] = "RUNNING" /\ row'[t] = "FAIL"
  BY <1>6 DEF Promise!Lawful, Promise!Over, Life
<1> QED
  BY <1>2, <1>3, <1>4, <1>5, <1>6 DEF MayMove

\* Every step may do what it does to the rows.
LEMMA StepsMove == Typed /\ Keeping /\ [Next]_vars => \A t \in Tasks : MayMove(t)
<1> SUFFICES ASSUME Typed, Keeping, [Next]_vars PROVE \A t \in Tasks : MayMove(t)
  OBVIOUS
<1>1. ASSUME row' = row, charged' = charged
      PROVE  \A t \in Tasks : MayMove(t)
  BY <1>1 DEF MayMove
<1> QED
  BY <1>1, BystandersMoveNothing, ListenerMoves, PassMoves, WorkerMoves DEF Next

\* The control plane implements the life of a job as the queue does: no stop,
\* restart, requeue or reclaim, however late, moves a task but along it.
THEOREM ControlKeepsPromise == Spec => KeepsPromise
<1>1. Init => Promise!Init
  BY DEF Init, lifeOf, Promise!Init, Promise!Unknown, Promise!Waiting
<1>2. Init => Keeping
  BY DEF Init, Keeping, RowTypes, Held
<1>3. ASSUME Typed, Typed', Keeping, [Next]_vars
      PROVE  [Promise!Next]_lifeOf
  <2>1. lifeOf = [t \in Tasks |-> Life(row[t], charged[t])]
    BY DEF lifeOf, Life
  <2>2. lifeOf' = [t \in Tasks |-> Life(row'[t], charged'[t])]
    BY DEF lifeOf, Life
  <2>3. \A t \in Tasks : Life(row'[t], charged'[t]) \in Promise!Lives
    BY <1>3 DEF Typed, TypeOK, Life, Promise!Lives
  <2>4. \A t \in Tasks : MayMove(t)
    BY <1>3, StepsMove
  <2>5. \A t \in Tasks :
          Promise!Lawful(t, Life(row[t], charged[t]), Life(row'[t], charged'[t]))
    BY <1>3, <2>4, LawfulMove
  <2>6. lifeOf' \in [Tasks -> Promise!Lives]
    BY <2>2, <2>3
  <2>7. \A t \in Tasks : Promise!Lawful(t, lifeOf[t], lifeOf'[t])
    BY <2>1, <2>2, <2>5
  <2> QED
    BY <2>6, <2>7 DEF Promise!Next
<1> QED
  BY <1>1, <1>2, <1>3, TypedInit, TypedStep, KeepingStep, PTL
  DEF Spec, KeepsPromise, Promise!Spec
===============================================================================
