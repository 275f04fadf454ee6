--------------------------- MODULE RestoreRunsProofs ---------------------------
(***************************************************************************)
(* What holds of restores for any number of uploads of any number of       *)
(* pieces, any containers and any disturbances.                            *)
(*                                                                         *)
(* The lock may be lost: to a request that clears it as left over, to a    *)
(* client that goes on under another's, to a heartbeat that stops.  From   *)
(* then on everybody under way is crowded, and so is whoever comes while   *)
(* they are.  So at any moment either nobody under way is crowded, and the *)
(* lock does all it should, or everybody is, and nothing is promised.      *)
(***************************************************************************)
EXTENDS RestoreRuns, TLAPS

USE RestoreAssumption

-------------------------------------------------------------------------------
(* The inductive invariant *)

\* Whoever is here relies on the lock file being its own.
Relying ==
  {"save", "join", "stop", "spawn", "undo", "release"} \cup Detached

\* Where the first piece of an upload is, and what an upload in one piece skips.
Shapes ==
  \A u \in Uploads :
    /\ Chunks[u] > 0 => req[u].chunk > 0
    /\ req[u].pc \in Taking => req[u].chunk <= 1
    /\ req[u].pc = "join" => Chunks[u] > 0
    /\ req[u].ok => req[u].pc \in {"serve", "start", "free", "over"}

\* The lock file is the one of whoever relies on it, and so is the one that is
\* still to be stamped.
Held ==
  \A u \in Uploads :
    /\ req[u].pc \in Relying => lock.st = "fresh" /\ lock.by = u
    /\ req[u].pc = "stamp" => lock.st = "empty" /\ lock.by = u

\* An upload that still has its lock, between its first piece and its dump.
Midway(u) ==
  /\ lock.by = u /\ lock.st # "empty" /\ req[u].pc # "over"
  /\ req[u].chunk > 1 \/ req[u].pc = "join"

\* It finds nobody else's pieces under its names.
OwnPieces ==
  \A u \in Uploads : Midway(u) => \A p \in Pieces(u) : files[p] \in {None, u}

OwnDump == \A u \in Uploads : req[u].pc \in Restoring => req[u].dump = {u}

\* The workers that could be reached are down from the stop to the replay, Flask
\* during it.
Quiet ==
  \A u \in Uploads :
    /\ req[u].pc \in {"spawn", "begin", "psql"} => up \subseteq unheard
    /\ req[u].pc = "psql" => ~flask

\* A replay that went well is what the database holds until its runner is done.
Landed ==
  \A u \in Uploads :
    req[u].pc \in {"serve", "start", "free"} /\ req[u].ok
      => db = [from |-> {u}, whole |-> TRUE]

Secure == Held /\ OwnPieces /\ OwnDump /\ Quiet /\ Landed

\* Nobody under way is crowded.
Apart == crowded \cap UnderWay = {}

\* Being crowded spreads to whoever is under way beside those who are.
Spread == Apart \/ UnderWay \subseteq crowded

\* Nobody is crowded before being under way.
Entered ==
  \A u \in crowded :
    /\ req[u].pc \notin {"age", "clear", "create"}
    /\ req[u].pc = "idle" => req[u].chunk > 1

IInv == Shapes /\ Spread /\ Entered /\ (Apart => Secure)

-------------------------------------------------------------------------------
(* Types *)

LEMMA Initial == Init => TypeOK /\ IInv
<1> SUFFICES ASSUME Init PROVE TypeOK /\ IInv
  OBVIOUS
<1> USE DEF Init, Absent, Untouched, Request, Restoring, Detached, Taking, Requested, Relying
<1>1. TypeOK
  <2>1. req \in [Uploads -> Request] /\ (\A u \in Uploads : req[u].chunk <= Chunks[u])
    OBVIOUS
  <2>2. \A u \in Uploads : req[u].pc \in Restoring => req[u].dump # {}
    OBVIOUS
  <2>3. lock \in [st : {"none", "empty", "fresh", "old"}, by : Uploads \cup {None}]
    OBVIOUS
  <2>4. db \in [from : SUBSET Uploads, whole : BOOLEAN] /\ faults \in 0..MaxFaults
    OBVIOUS
  <2>5. files \in [AllPieces -> Uploads \cup {None}] /\ flask \in BOOLEAN /\ stranded \in BOOLEAN
    OBVIOUS
  <2>6. verdict \in [Uploads -> {"none", "aborted", "failed", "degraded", "completed"}]
    OBVIOUS
  <2>7. /\ up \subseteq Containers /\ linked \subseteq Containers
        /\ unheard \subseteq Containers /\ crowded \subseteq Uploads
    OBVIOUS
  <2> QED
    BY <2>1, <2>2, <2>3, <2>4, <2>5, <2>6, <2>7 DEF TypeOK
<1>2. Shapes /\ Held /\ Quiet
  BY DEF Shapes, Held, Quiet
<1>3. OwnPieces /\ OwnDump /\ Landed
  BY DEF Midway, OwnPieces, OwnDump, Landed
<1>4. Spread /\ Entered
  BY DEF Spread, Apart, Entered
<1> QED
  BY <1>1, <1>2, <1>3, <1>4 DEF IInv, Secure

\* The steps of the system, one by one.
LEMMA Steps ==
  ASSUME Next
  PROVE  \/ \E u \in Uploads :
              \/ Send(u) \/ ReadAge(u) \/ Clear(u) \/ Create(u) \/ Stamp(u) \/ Check(u)
              \/ Save(u) \/ Join(u) \/ StopWorkers(u) \/ Spawn(u) \/ Undo(u)
              \/ Release(u) \/ Begin(u) \/ Abort(u) \/ Reopen(u) \/ Replay(u)
              \/ ReplayFails(u) \/ Serve(u) \/ Start(u) \/ Free(u) \/ RunnerDies(u)
         \/ \E c \in Containers : Drop(c) \/ Link(c)
         \/ Expire \/ WebDies
BY DEF Next, Handle, Run

-------------------------------------------------------------------------------
(* What a step does to the uploads *)

Places == {"idle", "over"} \cup Requested \cup Detached

\* Only the place of u changes.
Moved(u, pc) ==
  /\ req' \in [Uploads -> Request]
  /\ req'[u].pc = pc
  /\ req'[u].chunk = req[u].chunk /\ req'[u].dump = req[u].dump /\ req'[u].ok = req[u].ok
  /\ \A t \in Uploads \ {u} : req'[t] = req[t]

LEMMA Going ==
  ASSUME TypeOK
  PROVE  \A u \in Uploads, pc \in Places : Goes(u, pc) => Moved(u, pc)
BY DEF TypeOK, Request, Goes, Moved, Places

\* What is written is a request, if what replaces it is one.
LEMMA Rewritten ==
  ASSUME TypeOK, NEW u \in Uploads, NEW r \in Request, req' = [req EXCEPT ![u] = r]
  PROVE  /\ req' \in [Uploads -> Request] /\ req'[u] = r
         /\ \A t \in Uploads \ {u} : req'[t] = req[t]
BY DEF TypeOK

LEMMA Requests == TypeOK => req \in [Uploads -> Request] /\ \A u \in Uploads : req[u] \in Request
BY DEF TypeOK

\* The web process is gone; the others are where they were.
Ended ==
  \A t \in Uploads :
    /\ req[t].pc \notin Requested => req'[t] = req[t]
    /\ req[t].pc \in Requested => req'[t].pc = "over"
    /\ req'[t].chunk = req[t].chunk /\ req'[t].dump = req[t].dump /\ req'[t].ok = req[t].ok

LEMMA Dying ==
  ASSUME TypeOK, WebDies
  PROVE  req' \in [Uploads -> Request] /\ Ended
<1> USE DEF Request, Requested, Detached, Taking
<1>0. req \in [Uploads -> Request] /\ (\A u \in Uploads : req[u] \in Request)
  BY Requests
<1>1. req' = [t \in Uploads |->
                IF req[t].pc \in Requested THEN [req[t] EXCEPT !.pc = "over"] ELSE req[t]]
  BY DEF WebDies, Cut
<1>2. ASSUME NEW t \in Uploads
      PROVE  /\ req'[t] \in Request
             /\ req[t].pc \notin Requested => req'[t] = req[t]
             /\ req[t].pc \in Requested => req'[t].pc = "over"
             /\ req'[t].chunk = req[t].chunk /\ req'[t].dump = req[t].dump
             /\ req'[t].ok = req[t].ok
  BY <1>0, <1>1
<1> HIDE DEF Request, Requested
<1> QED
  BY <1>1, <1>2 DEF Ended

\* The runner has asked for Flask to be stopped.
LEMMA Beginning ==
  ASSUME TypeOK, NEW u \in Uploads, Begin(u)
  PROVE  /\ req' \in [Uploads -> Request]
         /\ req'[u].pc \in {"psql", "abort"}
         /\ req'[u].pc = "psql" => ~flask'
         /\ req'[u].chunk = req[u].chunk /\ req'[u].dump = req[u].dump
         /\ req'[u].ok = req[u].ok
         /\ \A t \in Uploads \ {u} :
              /\ \/ req'[t] = req[t]
                 \/ req[t].pc \in Requested /\ req'[t].pc = "over"
              /\ req'[t].chunk = req[t].chunk /\ req'[t].dump = req[t].dump
              /\ req'[t].ok = req[t].ok
<1> USE DEF Request, Requested, Detached, Taking
<1>0. req \in [Uploads -> Request] /\ \A t \in Uploads : req[t] \in Request
  BY Requests
<1>1. Cut(req) \in [Uploads -> Request]
  BY <1>0 DEF Cut
<1>2. \A t \in Uploads :
        /\ \/ Cut(req)[t] = req[t]
           \/ req[t].pc \in Requested /\ Cut(req)[t].pc = "over"
        /\ Cut(req)[t].chunk = req[t].chunk /\ Cut(req)[t].dump = req[t].dump
        /\ Cut(req)[t].ok = req[t].ok
  BY <1>0 DEF Cut
<1>3. CASE \E pc \in {"psql", "abort"} :
             /\ req' = [Cut(req) EXCEPT ![u].pc = pc]
             /\ pc = "psql" => flask' = FALSE
  BY <1>1, <1>2, <1>3
<1>4. CASE Goes(u, "abort")
  <2>1. Moved(u, "abort")
    BY <1>4, Going DEF Places
  <2> QED
    BY <2>1 DEF Moved
<1> QED
  BY <1>3, <1>4 DEF Begin

\* The other steps that do more to u than to move it.
LEMMA Saving ==
  ASSUME TypeOK, NEW u \in Uploads, Save(u)
  PROVE  /\ req' \in [Uploads -> Request]
         /\ req'[u].ok = req[u].ok
         /\ req'[u].chunk >= req[u].chunk /\ req'[u].chunk <= Chunks[u]
         /\ \/ req'[u].pc = "join" /\ Piecewise(u)
            \/ req'[u].pc \in {"idle", "over"}
            \/ req'[u].pc = "stop" /\ req'[u].dump = {u}
         /\ \A t \in Uploads \ {u} : req'[t] = req[t]
<1> USE DEF Request, Requested, Detached, Taking
<1>0. req \in [Uploads -> Request] /\ req[u] \in Request
  BY Requests
<1>a. req[u].chunk \in Nat /\ Chunks[u] \in Nat /\ req[u].chunk <= Chunks[u]
  BY <1>0 DEF TypeOK
<1>1. CASE Goes(u, "over")
  <2>1. Moved(u, "over")
    BY <1>1, Going DEF Places
  <2> QED
    BY <1>a, <2>1 DEF Moved
<1>2. CASE req' = [req EXCEPT ![u].pc = "stop", ![u].dump = {u}]
  <2> DEFINE r == [req[u] EXCEPT !.pc = "stop", !.dump = {u}]
  <2>1. req' = [req EXCEPT ![u] = r]
    BY <1>2, <1>0
  <2>2. /\ r \in Request
        /\ r.pc = "stop" /\ r.dump = {u} /\ r.chunk = req[u].chunk /\ r.ok = req[u].ok
    BY <1>0
  <2> HIDE DEF r, Request
  <2>3. req' \in [Uploads -> Request] /\ req'[u] = r /\ \A t \in Uploads \ {u} : req'[t] = req[t]
    BY <2>1, <2>2, Rewritten
  <2>4. req[u].chunk >= req[u].chunk
    BY <1>a
  <2> QED
    BY <1>a, <2>2, <2>3, <2>4
<1>3. ASSUME NEW pc \in {"join", "idle", "over"}, Piecewise(u),
             req' = [req EXCEPT ![u].pc = pc,
                                ![u].chunk = IF More(u) THEN req[u].chunk + 1 ELSE req[u].chunk]
      PROVE  /\ req' \in [Uploads -> Request]
             /\ req'[u].ok = req[u].ok
             /\ req'[u].chunk >= req[u].chunk /\ req'[u].chunk <= Chunks[u]
             /\ req'[u].pc = pc
             /\ \A t \in Uploads \ {u} : req'[t] = req[t]
  <2> DEFINE next == IF More(u) THEN req[u].chunk + 1 ELSE req[u].chunk
             r == [req[u] EXCEPT !.pc = pc, !.chunk = next]
  <2>n. next \in Nat /\ next >= req[u].chunk /\ next <= Chunks[u]
    BY <1>a DEF More
  <2>1. req' = [req EXCEPT ![u] = r]
    BY <1>3, <1>0
  <2>2. /\ r \in Request
        /\ r.pc = pc /\ r.ok = req[u].ok /\ r.chunk = next
    <3> HIDE DEF next
    <3> QED
      BY <2>n, <1>3, <1>0
  <2> HIDE DEF r, next, Request
  <2> QED
    BY <2>n, <2>1, <2>2, Rewritten
<1> QED
  BY <1>1, <1>2, <1>3 DEF Save

LEMMA Joining ==
  ASSUME TypeOK, NEW u \in Uploads, Join(u)
  PROVE  /\ req' \in [Uploads -> Request]
         /\ req'[u].ok = req[u].ok /\ req'[u].chunk = req[u].chunk
         /\ \/ req'[u].pc = "over"
            \/ /\ Complete(files, u)
               /\ req'[u].pc = "stop" /\ req'[u].dump = {files[p] : p \in Pieces(u)}
         /\ \A t \in Uploads \ {u} : req'[t] = req[t]
<1> USE DEF Request, Requested, Detached, Taking
<1>0. req \in [Uploads -> Request] /\ req[u] \in Request
  BY Requests
<1>1. CASE Goes(u, "over")
  <2>1. Moved(u, "over")
    BY <1>1, Going DEF Places
  <2> QED
    BY <2>1 DEF Moved
<1>2. ASSUME Complete(files, u)
      PROVE  {files[p] : p \in Pieces(u)} \in SUBSET Uploads
  BY <1>2 DEF Complete, AllPieces, TypeOK
<1>3. CASE /\ Complete(files, u)
           /\ req' = [req EXCEPT ![u].pc = "stop", ![u].dump = {files[p] : p \in Pieces(u)}]
  <2> DEFINE r == [req[u] EXCEPT !.pc = "stop", !.dump = {files[p] : p \in Pieces(u)}]
  <2>1. req' = [req EXCEPT ![u] = r]
    BY <1>3, <1>0
  <2>2. /\ r \in Request
        /\ r.pc = "stop" /\ r.dump = {files[p] : p \in Pieces(u)}
        /\ r.chunk = req[u].chunk /\ r.ok = req[u].ok
    <3> DEFINE d == {files[p] : p \in Pieces(u)}
    <3>1. d \in SUBSET Uploads
      BY <1>2, <1>3
    <3> HIDE DEF d
    <3>2. r = [req[u] EXCEPT !.pc = "stop", !.dump = d]
      BY DEF d
    <3>3. /\ r \in Request
          /\ r.pc = "stop" /\ r.dump = d
          /\ r.chunk = req[u].chunk /\ r.ok = req[u].ok
      BY <3>1, <3>2, <1>0
    <3> QED
      BY <3>3 DEF d
  <2> HIDE DEF r, Request
  <2> QED
    BY <1>3, <2>1, <2>2, Rewritten
<1> QED
  BY <1>1, <1>3 DEF Join

LEMMA Replaying ==
  ASSUME TypeOK, NEW u \in Uploads, Replay(u)
  PROVE  /\ req' \in [Uploads -> Request]
         /\ req'[u].pc = "serve"
         /\ req'[u].dump = req[u].dump /\ req'[u].chunk = req[u].chunk
         /\ req'[u].ok \in BOOLEAN
         /\ db' = [from |-> req[u].dump, whole |-> req'[u].ok]
         /\ \A t \in Uploads \ {u} : req'[t] = req[t]
<1> USE DEF Request, Requested, Detached, Taking
<1>0. req \in [Uploads -> Request] /\ req[u] \in Request
  BY Requests
<1>1. PICK whole \in BOOLEAN :
        /\ db' = [from |-> req[u].dump, whole |-> whole]
        /\ req' = [req EXCEPT ![u].pc = "serve", ![u].ok = whole]
  BY DEF Replay
<1> DEFINE r == [req[u] EXCEPT !.pc = "serve", !.ok = whole]
<1>2. req' = [req EXCEPT ![u] = r]
  BY <1>1, <1>0
<1>3. /\ r \in Request
      /\ r.pc = "serve" /\ r.ok = whole /\ r.dump = req[u].dump /\ r.chunk = req[u].chunk
  BY <1>1, <1>0
<1> HIDE DEF r
<1> QED
  BY ZenonT(30), <1>1, <1>2, <1>3, Rewritten

LEMMA Returning ==
  ASSUME TypeOK, NEW u \in Uploads, Serve(u) \/ Start(u)
  PROVE  /\ req' \in [Uploads -> Request]
         /\ Serve(u) => req'[u].pc = "start"
         /\ Start(u) => req'[u].pc = "free"
         /\ req'[u].chunk = req[u].chunk /\ req'[u].dump = req[u].dump
         /\ req'[u].ok = req[u].ok
         /\ \A t \in Uploads \ {u} : req'[t] = req[t]
<1> USE DEF Request, Requested, Detached, Taking
<1>0. req \in [Uploads -> Request] /\ req[u] \in Request
  BY Requests
<1>1. CASE Serve(u)
  <2>1. flask' \in BOOLEAN
    BY <1>1 DEF Serve, FlaskStarts, TypeOK
  <2>2. req' = [req EXCEPT ![u].pc = "start", ![u].served = flask']
    BY <1>1 DEF Serve
  <2>3. ~Start(u)
    BY <1>1 DEF Serve, Start
  <2> DEFINE r == [req[u] EXCEPT !.pc = "start", !.served = flask']
  <2>4. req' = [req EXCEPT ![u] = r]
    BY <2>2, <1>0
  <2>5. /\ r \in Request
        /\ r.pc = "start" /\ r.chunk = req[u].chunk /\ r.dump = req[u].dump /\ r.ok = req[u].ok
    BY <2>1, <1>0
  <2> HIDE DEF r
  <2> QED
    BY <2>3, <2>4, <2>5, Rewritten
<1>2. CASE Start(u)
  <2>1. PICK b \in BOOLEAN : req' = [req EXCEPT ![u].pc = "free", ![u].back = b]
    BY <1>2 DEF Start
  <2>2. ~Serve(u)
    BY <1>2 DEF Serve, Start
  <2> DEFINE r == [req[u] EXCEPT !.pc = "free", !.back = b]
  <2>3. req' = [req EXCEPT ![u] = r]
    BY <2>1, <1>0
  <2>5. /\ r \in Request
        /\ r.pc = "free" /\ r.chunk = req[u].chunk /\ r.dump = req[u].dump /\ r.ok = req[u].ok
    BY <2>1, <1>0
  <2> HIDE DEF r
  <2> QED
    BY <2>2, <2>3, <2>5, Rewritten
<1> QED
  BY <1>1, <1>2

\* The places a step takes an upload from and to.
LEMMA Routes ==
  ASSUME TypeOK, NEW u \in Uploads
  PROVE  /\ Send(u) => /\ req[u].pc = "idle"
                       /\ \/ Moved(u, "age") /\ req[u].chunk <= 1
                          \/ Moved(u, "check") /\ req[u].chunk > 1
         /\ ReadAge(u) => req[u].pc = "age" /\ (Moved(u, "clear") \/ Moved(u, "create") \/ Moved(u, "over"))
         /\ Clear(u) => req[u].pc = "clear" /\ Moved(u, "create")
         /\ Create(u) => req[u].pc = "create" /\ (Moved(u, "stamp") \/ Moved(u, "over"))
         /\ Stamp(u) => req[u].pc = "stamp" /\ Moved(u, "save")
         /\ Check(u) => req[u].pc = "check" /\ (Moved(u, "save") \/ Moved(u, "over"))
         /\ StopWorkers(u) => req[u].pc = "stop" /\ (Moved(u, "spawn") \/ Moved(u, "undo"))
         /\ Spawn(u) => req[u].pc = "spawn" /\ (Moved(u, "begin") \/ Moved(u, "undo"))
         /\ Undo(u) => req[u].pc = "undo" /\ Moved(u, "release")
         /\ Release(u) => req[u].pc = "release" /\ Moved(u, "over")
         /\ Abort(u) => req[u].pc = "abort" /\ Moved(u, "reopen")
         /\ Reopen(u) => req[u].pc = "reopen" /\ Moved(u, "over")
         /\ ReplayFails(u) => req[u].pc = "psql" /\ Moved(u, "serve")
         /\ Free(u) => req[u].pc = "free" /\ Moved(u, "over")
         /\ RunnerDies(u) => req[u].pc \in Detached /\ Moved(u, "over")
<1>1. \A pc \in Places : Goes(u, pc) => Moved(u, pc)
  BY Going
<1> USE <1>1 DEF Places, Requested, Detached, Taking
<1>2. Send(u) => /\ req[u].pc = "idle"
                 /\ \/ Moved(u, "age") /\ req[u].chunk <= 1
                    \/ Moved(u, "check") /\ req[u].chunk > 1
  BY DEF Send, TypeOK, Request
<1>3. ReadAge(u) => req[u].pc = "age" /\ (Moved(u, "clear") \/ Moved(u, "create") \/ Moved(u, "over"))
  BY DEF ReadAge
<1>4. Clear(u) => req[u].pc = "clear" /\ Moved(u, "create")
  BY DEF Clear
<1>5. Create(u) => req[u].pc = "create" /\ (Moved(u, "stamp") \/ Moved(u, "over"))
  BY DEF Create
<1>6. Stamp(u) => req[u].pc = "stamp" /\ Moved(u, "save")
  BY DEF Stamp
<1>7. Check(u) => req[u].pc = "check" /\ (Moved(u, "save") \/ Moved(u, "over"))
  BY DEF Check
<1>8. StopWorkers(u) => req[u].pc = "stop" /\ (Moved(u, "spawn") \/ Moved(u, "undo"))
  BY DEF StopWorkers
<1>9. Spawn(u) => req[u].pc = "spawn" /\ (Moved(u, "begin") \/ Moved(u, "undo"))
  BY DEF Spawn
<1>10. Undo(u) => req[u].pc = "undo" /\ Moved(u, "release")
  BY DEF Undo
<1>11. Release(u) => req[u].pc = "release" /\ Moved(u, "over")
  BY DEF Release
<1>12. Abort(u) => req[u].pc = "abort" /\ Moved(u, "reopen")
  BY DEF Abort
<1>13. Reopen(u) => req[u].pc = "reopen" /\ Moved(u, "over")
  BY DEF Reopen
<1>14. ReplayFails(u) => req[u].pc = "psql" /\ Moved(u, "serve")
  BY DEF ReplayFails
<1>15. Free(u) => req[u].pc = "free" /\ Moved(u, "over")
  BY DEF Free
<1>16. RunnerDies(u) => req[u].pc \in Detached /\ Moved(u, "over")
  BY DEF RunnerDies
<1> QED
  BY <1>2, <1>3, <1>4, <1>5, <1>6, <1>7, <1>8, <1>9, <1>10, <1>11, <1>12, <1>13,
     <1>14, <1>15, <1>16

\* An upload goes through the endpoint piece by piece.
LEMMA ShapesStep ==
  ASSUME TypeOK, Shapes, [Next]_vars
  PROVE  Shapes'
<1> USE DEF Shapes, Restoring, Requested, Detached, Taking
<1>1. ASSUME NEW u \in Uploads, Send(u) PROVE Shapes'
  BY <1>1, Routes DEF Moved
<1>2. ASSUME NEW u \in Uploads, ReadAge(u) PROVE Shapes'
  BY <1>2, Routes DEF Moved
<1>3. ASSUME NEW u \in Uploads, Clear(u) PROVE Shapes'
  BY <1>3, Routes DEF Moved
<1>4. ASSUME NEW u \in Uploads, Create(u) PROVE Shapes'
  BY <1>4, Routes DEF Moved
<1>5. ASSUME NEW u \in Uploads, Stamp(u) PROVE Shapes'
  BY <1>5, Routes DEF Moved
<1>6. ASSUME NEW u \in Uploads, Check(u) PROVE Shapes'
  BY <1>6, Routes DEF Moved
<1>7. ASSUME NEW u \in Uploads, Save(u) PROVE Shapes'
  <2>1. req[u].pc = "save" /\ ~req[u].ok
    BY <1>7 DEF Save, TypeOK, Request
  <2>2. req[u].chunk \in Nat /\ req'[u].chunk \in Nat /\ req'[u].chunk >= req[u].chunk
    BY <1>7, Saving, Requests DEF Request
  <2> QED
    BY <1>7, <2>1, <2>2, Saving DEF Piecewise
<1>8. ASSUME NEW u \in Uploads, Join(u) PROVE Shapes'
  BY <1>8, Joining DEF Join
<1>9. ASSUME NEW u \in Uploads, StopWorkers(u) PROVE Shapes'
  BY <1>9, Routes DEF Moved
<1>10. ASSUME NEW u \in Uploads, Spawn(u) PROVE Shapes'
  BY <1>10, Routes DEF Moved
<1>11. ASSUME NEW u \in Uploads, Undo(u) PROVE Shapes'
  BY <1>11, Routes DEF Moved
<1>12. ASSUME NEW u \in Uploads, Release(u) PROVE Shapes'
  BY <1>12, Routes DEF Moved
<1>13. ASSUME NEW u \in Uploads, Begin(u) PROVE Shapes'
  <2>1. req[u].pc = "begin"
    BY <1>13 DEF Begin
  <2> QED
    BY <1>13, <2>1, Beginning
<1>14. ASSUME NEW u \in Uploads, Abort(u) PROVE Shapes'
  BY <1>14, Routes DEF Moved
<1>15. ASSUME NEW u \in Uploads, Reopen(u) PROVE Shapes'
  BY <1>15, Routes DEF Moved
<1>16. ASSUME NEW u \in Uploads, Replay(u) PROVE Shapes'
  BY <1>16, Replaying
<1>17. ASSUME NEW u \in Uploads, ReplayFails(u) PROVE Shapes'
  BY <1>17, Routes DEF Moved
<1>18. ASSUME NEW u \in Uploads, Serve(u) PROVE Shapes'
  <2>1. req[u].pc = "serve"
    BY <1>18 DEF Serve
  <2> QED
    BY <1>18, <2>1, Returning
<1>19. ASSUME NEW u \in Uploads, Start(u) PROVE Shapes'
  <2>1. req[u].pc = "start"
    BY <1>19 DEF Start
  <2> QED
    BY <1>19, <2>1, Returning
<1>20. ASSUME NEW u \in Uploads, Free(u) PROVE Shapes'
  BY <1>20, Routes DEF Moved
<1>21. ASSUME NEW u \in Uploads, RunnerDies(u) PROVE Shapes'
  BY <1>21, Routes DEF Moved
<1>22. ASSUME Expire PROVE Shapes'
  BY <1>22 DEF Expire
<1>23. ASSUME WebDies PROVE Shapes'
  BY <1>23, Dying DEF Ended
<1>24. CASE UNCHANGED vars
  BY <1>24 DEF vars, services, held, fleet
<1>25. ASSUME NEW c \in Containers, Drop(c) \/ Link(c) PROVE Shapes'
  BY <1>25 DEF Drop, Link
<1> QED
  BY Steps, <1>1, <1>2, <1>3, <1>4, <1>5, <1>6, <1>7, <1>8, <1>9, <1>10, <1>11,
     <1>12, <1>13, <1>14, <1>15, <1>16, <1>17, <1>18, <1>19, <1>20, <1>21,
     <1>22, <1>23, <1>24, <1>25

-------------------------------------------------------------------------------
(* Types *)

RequestsOK ==
  /\ req \in [Uploads -> Request]
  /\ \A u \in Uploads :
       /\ req[u].chunk <= Chunks[u]
       /\ req[u].pc \in Restoring => req[u].dump # {}

FilesOK ==
  /\ lock \in [st : {"none", "empty", "fresh", "old"}, by : Uploads \cup {None}]
  /\ crowded \subseteq Uploads
  /\ files \in [AllPieces -> Uploads \cup {None}]
  /\ db \in [from : SUBSET Uploads, whole : BOOLEAN]

Fleet == up \subseteq Containers /\ linked \subseteq Containers /\ unheard \subseteq Containers

CountersOK ==
  /\ flask \in BOOLEAN /\ stranded \in BOOLEAN /\ Fleet
  /\ verdict \in [Uploads -> {"none", "aborted", "failed", "degraded", "completed"}]
  /\ faults \in 0..MaxFaults

\* What a step makes of an upload is an upload.
LEMMA RequestsStep ==
  ASSUME TypeOK, Shapes, RequestsOK, [Next]_vars
  PROVE  RequestsOK'
<1> USE DEF RequestsOK, Restoring, Requested, Detached, Taking
<1>1. ASSUME NEW u \in Uploads, Send(u) PROVE RequestsOK'
  BY <1>1, Routes DEF Moved
<1>2. ASSUME NEW u \in Uploads, ReadAge(u) PROVE RequestsOK'
  BY <1>2, Routes DEF Moved
<1>3. ASSUME NEW u \in Uploads, Clear(u) PROVE RequestsOK'
  BY <1>3, Routes DEF Moved
<1>4. ASSUME NEW u \in Uploads, Create(u) PROVE RequestsOK'
  BY <1>4, Routes DEF Moved
<1>5. ASSUME NEW u \in Uploads, Stamp(u) PROVE RequestsOK'
  BY <1>5, Routes DEF Moved
<1>6. ASSUME NEW u \in Uploads, Check(u) PROVE RequestsOK'
  BY <1>6, Routes DEF Moved
<1>7. ASSUME NEW u \in Uploads, Save(u) PROVE RequestsOK'
  BY <1>7, Saving
<1>8. ASSUME NEW u \in Uploads, Join(u) PROVE RequestsOK'
  <2>1. Chunks[u] > 0 /\ Chunks[u] \in Nat
    BY <1>8 DEF Join, Shapes
  <2>2. PICK p \in Pieces(u) : TRUE
    BY <2>1 DEF Pieces
  <2>a. files[p] \in {files[q] : q \in Pieces(u)}
    OBVIOUS
  <2>3. req'[u].pc = "over" \/ req'[u].dump # {}
    BY <1>8, <2>a, Joining
  <2>4. \A t \in Uploads \ {u} : req'[t] = req[t]
    BY <1>8, Joining
  <2>5. req' \in [Uploads -> Request] /\ req'[u].chunk = req[u].chunk
    BY <1>8, Joining
  <2> QED
    BY <2>3, <2>4, <2>5
<1>9. ASSUME NEW u \in Uploads, StopWorkers(u) PROVE RequestsOK'
  BY <1>9, Routes DEF Moved
<1>10. ASSUME NEW u \in Uploads, Spawn(u) PROVE RequestsOK'
  BY <1>10, Routes DEF Moved
<1>11. ASSUME NEW u \in Uploads, Undo(u) PROVE RequestsOK'
  BY <1>11, Routes DEF Moved
<1>12. ASSUME NEW u \in Uploads, Release(u) PROVE RequestsOK'
  BY <1>12, Routes DEF Moved
<1>13. ASSUME NEW u \in Uploads, Begin(u) PROVE RequestsOK'
  <2>1. req[u].pc = "begin"
    BY <1>13 DEF Begin
  <2> QED
    BY <1>13, <2>1, Beginning
<1>14. ASSUME NEW u \in Uploads, Abort(u) PROVE RequestsOK'
  BY <1>14, Routes DEF Moved
<1>15. ASSUME NEW u \in Uploads, Reopen(u) PROVE RequestsOK'
  BY <1>15, Routes DEF Moved
<1>16. ASSUME NEW u \in Uploads, Replay(u) PROVE RequestsOK'
  <2>1. req[u].pc = "psql"
    BY <1>16 DEF Replay
  <2> QED
    BY <1>16, <2>1, Replaying
<1>17. ASSUME NEW u \in Uploads, ReplayFails(u) PROVE RequestsOK'
  BY <1>17, Routes DEF Moved
<1>18. ASSUME NEW u \in Uploads, Serve(u) PROVE RequestsOK'
  <2>1. req[u].pc = "serve"
    BY <1>18 DEF Serve
  <2> QED
    BY <1>18, <2>1, Returning
<1>19. ASSUME NEW u \in Uploads, Start(u) PROVE RequestsOK'
  <2>1. req[u].pc = "start"
    BY <1>19 DEF Start
  <2> QED
    BY <1>19, <2>1, Returning
<1>20. ASSUME NEW u \in Uploads, Free(u) PROVE RequestsOK'
  BY <1>20, Routes DEF Moved
<1>21. ASSUME NEW u \in Uploads, RunnerDies(u) PROVE RequestsOK'
  BY <1>21, Routes DEF Moved
<1>22. ASSUME Expire PROVE RequestsOK'
  BY <1>22 DEF Expire
<1>23. ASSUME WebDies PROVE RequestsOK'
  BY <1>23, Dying DEF Ended
<1>24. CASE UNCHANGED vars
  BY <1>24 DEF vars, services, held, fleet
<1>25. ASSUME NEW c \in Containers, Drop(c) \/ Link(c) PROVE RequestsOK'
  BY <1>25 DEF Drop, Link
<1> QED
  BY Steps, <1>1, <1>2, <1>3, <1>4, <1>5, <1>6, <1>7, <1>8, <1>9, <1>10, <1>11,
     <1>12, <1>13, <1>14, <1>15, <1>16, <1>17, <1>18, <1>19, <1>20, <1>21,
     <1>22, <1>23, <1>24, <1>25

\* So are the lock, the pieces and the database.
LEMMA FilesStep ==
  ASSUME TypeOK, FilesOK, [Next]_vars
  PROVE  FilesOK'
<1> USE DEF FilesOK, Joined, Wiped, Absent, held, Unlink, Crowding, UnderWay
<1>1. ASSUME NEW u \in Uploads, Send(u) PROVE FilesOK'
  BY <1>1 DEF Send
<1>2. ASSUME NEW u \in Uploads, ReadAge(u) PROVE FilesOK'
  BY <1>2 DEF ReadAge
<1>3. ASSUME NEW u \in Uploads, Clear(u) PROVE FilesOK'
  BY <1>3 DEF Clear
<1>4. ASSUME NEW u \in Uploads, Create(u) PROVE FilesOK'
  BY <1>4 DEF Create
<1>5. ASSUME NEW u \in Uploads, Stamp(u) PROVE FilesOK'
  BY <1>5 DEF Stamp
<1>6. ASSUME NEW u \in Uploads, Check(u) PROVE FilesOK'
  BY <1>6 DEF Check
<1>7. ASSUME NEW u \in Uploads, Save(u) PROVE FilesOK'
  BY <1>7 DEF Save
<1>8. ASSUME NEW u \in Uploads, Join(u) PROVE FilesOK'
  BY <1>8 DEF Join
<1>9. ASSUME NEW u \in Uploads, StopWorkers(u) PROVE FilesOK'
  BY <1>9 DEF StopWorkers
<1>10. ASSUME NEW u \in Uploads, Spawn(u) PROVE FilesOK'
  BY <1>10 DEF Spawn
<1>11. ASSUME NEW u \in Uploads, Undo(u) PROVE FilesOK'
  BY <1>11 DEF Undo
<1>12. ASSUME NEW u \in Uploads, Release(u) PROVE FilesOK'
  BY <1>12 DEF Release
<1>13. ASSUME NEW u \in Uploads, Begin(u) PROVE FilesOK'
  BY <1>13 DEF Begin
<1>14. ASSUME NEW u \in Uploads, Abort(u) PROVE FilesOK'
  BY <1>14 DEF Abort
<1>15. ASSUME NEW u \in Uploads, Reopen(u) PROVE FilesOK'
  BY <1>15 DEF Reopen
<1>16. ASSUME NEW u \in Uploads, Replay(u) PROVE FilesOK'
  <2>1. UNCHANGED <<lock, crowded, files>>
    BY <1>16 DEF Replay
  <2>2. req[u].dump \in SUBSET Uploads
    BY Requests DEF Request
  <2> QED
    BY <1>16, <2>1, <2>2, Replaying
<1>17. ASSUME NEW u \in Uploads, ReplayFails(u) PROVE FilesOK'
  <2>1. [from |-> req[u].dump, whole |-> TRUE] \in [from : SUBSET Uploads, whole : BOOLEAN]
    BY Requests DEF Request
  <2> DEFINE new == [from |-> req[u].dump, whole |-> TRUE]
  <2>2. (db' = db \/ db' = new) /\ UNCHANGED <<lock, crowded, files>>
    BY <1>17 DEF ReplayFails
  <2>3. new \in [from : SUBSET Uploads, whole : BOOLEAN]
    BY <2>1
  <2> HIDE DEF new
  <2> QED
    BY <2>2, <2>3
<1>18. ASSUME NEW u \in Uploads, Serve(u) PROVE FilesOK'
  BY <1>18 DEF Serve
<1>19. ASSUME NEW u \in Uploads, Start(u) PROVE FilesOK'
  BY <1>19 DEF Start
<1>20. ASSUME NEW u \in Uploads, Free(u) PROVE FilesOK'
  BY <1>20 DEF Free
<1>21. ASSUME NEW u \in Uploads, RunnerDies(u) PROVE FilesOK'
  BY <1>21 DEF RunnerDies
<1>22. ASSUME Expire PROVE FilesOK'
  BY <1>22 DEF Expire
<1>23. ASSUME WebDies PROVE FilesOK'
  BY <1>23 DEF WebDies
<1>24. CASE UNCHANGED vars
  BY <1>24 DEF vars, services, held, fleet
<1>25. ASSUME NEW c \in Containers, Drop(c) \/ Link(c) PROVE FilesOK'
  BY <1>25 DEF Drop, Link, held
<1> QED
  BY Steps, <1>1, <1>2, <1>3, <1>4, <1>5, <1>6, <1>7, <1>8, <1>9, <1>10, <1>11,
     <1>12, <1>13, <1>14, <1>15, <1>16, <1>17, <1>18, <1>19, <1>20, <1>21,
     <1>22, <1>23, <1>24, <1>25

LEMMA Disturbed ==
  ASSUME CountersOK
  PROVE  /\ \A kind : Fault(kind) => faults' \in 0..MaxFaults
         /\ \A good, kind : Works(good, kind) => faults' \in 0..MaxFaults
         /\ UNCHANGED faults => faults' \in 0..MaxFaults
BY DEF CountersOK, Fault, Works

LEMMA StartingWorkers ==
  ASSUME CountersOK, NEW granted \in BOOLEAN, WorkersStart(granted)
  PROVE  faults' \in 0..MaxFaults /\ stranded' \in BOOLEAN /\ Fleet'
<1>1. stranded' \in BOOLEAN
  BY Zenon DEF WorkersStart, CountersOK
<1>2. faults' \in 0..MaxFaults
  BY Disturbed, Zenon DEF WorkersStart
<1>3. up' = up \/ (\E some \in SUBSET linked : up' = up \cup some)
  BY Zenon DEF WorkersStart
<1>4. Fleet'
  BY <1>3 DEF WorkersStart, CountersOK, Fleet
<1> QED
  BY <1>1, <1>2, <1>4

LEMMA StoppingWorkers ==
  ASSUME CountersOK, NEW granted \in BOOLEAN, WorkersStop(granted)
  PROVE  /\ faults' \in 0..MaxFaults /\ Fleet'
         /\ granted => up' \subseteq unheard'
<1>1. faults' \in 0..MaxFaults
  BY Disturbed, Zenon DEF WorkersStop
<1>2. up' \subseteq up
  BY DEF WorkersStop
<1>3. linked' = linked /\ (unheard' = unheard \/ unheard' = Containers \ linked)
  BY DEF WorkersStop
<1>4. granted => up' = up \ linked /\ unheard' = Containers \ linked
  BY DEF WorkersStop
<1> QED
  BY <1>1, <1>2, <1>3, <1>4 DEF CountersOK, Fleet

LEMMA StartingFlask ==
  ASSUME CountersOK, FlaskStarts
  PROVE  faults' \in 0..MaxFaults /\ stranded' \in BOOLEAN /\ flask' \in BOOLEAN
<1>1. stranded' \in BOOLEAN /\ flask' \in BOOLEAN
  BY Zenon DEF FlaskStarts, CountersOK
<1>2. faults' \in 0..MaxFaults
  BY Disturbed, Zenon DEF FlaskStarts
<1> QED
  BY <1>1, <1>2

\* And the services, the verdicts and the count of disturbances.
LEMMA CountersStep ==
  ASSUME TypeOK, CountersOK, [Next]_vars
  PROVE  CountersOK'
<1>1. ASSUME NEW u \in Uploads, Send(u) PROVE CountersOK'
  BY <1>1, Disturbed DEF Send, CountersOK, Fleet, services, held, fleet
<1>2. ASSUME NEW u \in Uploads, ReadAge(u) PROVE CountersOK'
  BY <1>2, Disturbed DEF ReadAge, CountersOK, Fleet, services, held, fleet
<1>3. ASSUME NEW u \in Uploads, Clear(u) PROVE CountersOK'
  BY <1>3, Disturbed DEF Clear, CountersOK, Fleet, services, held, fleet
<1>4. ASSUME NEW u \in Uploads, Create(u) PROVE CountersOK'
  BY <1>4, Disturbed DEF Create, CountersOK, Fleet, services, held, fleet
<1>5. ASSUME NEW u \in Uploads, Stamp(u) PROVE CountersOK'
  BY <1>5, Disturbed DEF Stamp, CountersOK, Fleet, services, held, fleet
<1>6. ASSUME NEW u \in Uploads, Check(u) PROVE CountersOK'
  BY <1>6, Disturbed DEF Check, CountersOK, Fleet, services, held, fleet
<1>7. ASSUME NEW u \in Uploads, Save(u) PROVE CountersOK'
  BY <1>7, Disturbed DEF Save, CountersOK, Fleet, services, held, fleet
<1>8. ASSUME NEW u \in Uploads, Join(u) PROVE CountersOK'
  BY <1>8, Disturbed DEF Join, CountersOK, Fleet, services, held, fleet
<1>9. ASSUME NEW u \in Uploads, StopWorkers(u) PROVE CountersOK'
  BY <1>9, StoppingWorkers DEF StopWorkers, CountersOK
<1>10. ASSUME NEW u \in Uploads, Spawn(u) PROVE CountersOK'
  BY <1>10, Disturbed DEF Spawn, CountersOK, Fleet, services, held, fleet
<1>11. ASSUME NEW u \in Uploads, Undo(u) PROVE CountersOK'
  <2>1. faults' \in 0..MaxFaults /\ stranded' \in BOOLEAN
        /\ Fleet' /\ flask' \in BOOLEAN
    BY <1>11, StartingWorkers, StartingFlask DEF Undo, CountersOK
  <2>2. verdict' \in [Uploads -> {"none", "aborted", "failed", "degraded", "completed"}]
    BY <1>11 DEF Undo, CountersOK
  <2> QED
    BY <2>1, <2>2 DEF CountersOK
<1>12. ASSUME NEW u \in Uploads, Release(u) PROVE CountersOK'
  BY <1>12, Disturbed DEF Release, CountersOK, Fleet, services, held, fleet
<1>13. ASSUME NEW u \in Uploads, Begin(u) PROVE CountersOK'
  BY <1>13, Disturbed DEF Begin, CountersOK, Fleet, services, held, fleet
<1>14. ASSUME NEW u \in Uploads, Abort(u) PROVE CountersOK'
  <2>1. faults' \in 0..MaxFaults /\ stranded' \in BOOLEAN
        /\ Fleet' /\ flask' \in BOOLEAN
    BY <1>14, StartingWorkers, StartingFlask DEF Abort, CountersOK
  <2>2. verdict' \in [Uploads -> {"none", "aborted", "failed", "degraded", "completed"}]
    BY <1>14 DEF Abort, CountersOK
  <2> QED
    BY <2>1, <2>2 DEF CountersOK
<1>15. ASSUME NEW u \in Uploads, Reopen(u) PROVE CountersOK'
  <2>1. faults' \in 0..MaxFaults /\ stranded' \in BOOLEAN
        /\ Fleet' /\ flask' \in BOOLEAN
    BY <1>15, StartingFlask DEF Reopen, CountersOK, Fleet, fleet
  <2>2. verdict' \in [Uploads -> {"none", "aborted", "failed", "degraded", "completed"}]
    BY <1>15 DEF Reopen, CountersOK
  <2> QED
    BY <2>1, <2>2 DEF CountersOK
<1>16. ASSUME NEW u \in Uploads, Replay(u) PROVE CountersOK'
  BY <1>16, Disturbed DEF Replay, CountersOK, Fleet, services, held, fleet
<1>17. ASSUME NEW u \in Uploads, ReplayFails(u) PROVE CountersOK'
  BY <1>17, Disturbed DEF ReplayFails, CountersOK, Fleet, services, held, fleet
<1>18. ASSUME NEW u \in Uploads, Serve(u) PROVE CountersOK'
  <2>1. faults' \in 0..MaxFaults /\ stranded' \in BOOLEAN
        /\ Fleet' /\ flask' \in BOOLEAN
    BY <1>18, StartingFlask DEF Serve, CountersOK, Fleet, fleet
  <2>2. verdict' \in [Uploads -> {"none", "aborted", "failed", "degraded", "completed"}]
    BY <1>18 DEF Serve, CountersOK
  <2> QED
    BY <2>1, <2>2 DEF CountersOK
<1>19. ASSUME NEW u \in Uploads, Start(u) PROVE CountersOK'
  <2>1. faults' \in 0..MaxFaults /\ stranded' \in BOOLEAN
        /\ Fleet' /\ flask' \in BOOLEAN
    BY <1>19, StartingWorkers, StartingFlask DEF Start, CountersOK
  <2>2. verdict' \in [Uploads -> {"none", "aborted", "failed", "degraded", "completed"}]
    BY <1>19 DEF Start, CountersOK
  <2> QED
    BY <2>1, <2>2 DEF CountersOK
<1>20. ASSUME NEW u \in Uploads, Free(u) PROVE CountersOK'
  BY <1>20, Disturbed DEF Free, CountersOK, Fleet, services, held, fleet
<1>21. ASSUME NEW u \in Uploads, RunnerDies(u) PROVE CountersOK'
  BY <1>21, Disturbed DEF RunnerDies, CountersOK, Fleet, services, held, fleet
<1>22. ASSUME Expire PROVE CountersOK'
  BY <1>22, Disturbed DEF Expire, CountersOK, Fleet, services, held, fleet
<1>23. ASSUME WebDies PROVE CountersOK'
  BY <1>23, Disturbed DEF WebDies, CountersOK, Fleet, held, fleet
<1>24. CASE UNCHANGED vars
  BY <1>24 DEF CountersOK, Fleet, vars, services, held, fleet
<1>25. ASSUME NEW c \in Containers, Drop(c) \/ Link(c) PROVE CountersOK'
  BY <1>25, Disturbed DEF Drop, Link, CountersOK, Fleet, held
<1> QED
  BY Steps, <1>1, <1>2, <1>3, <1>4, <1>5, <1>6, <1>7, <1>8, <1>9, <1>10, <1>11,
     <1>12, <1>13, <1>14, <1>15, <1>16, <1>17, <1>18, <1>19, <1>20, <1>21,
     <1>22, <1>23, <1>24, <1>25

\* Types, for any uploads and disturbances.
LEMMA TypeStep ==
  ASSUME TypeOK, Shapes, [Next]_vars
  PROVE  TypeOK' /\ Shapes'
<1>1. RequestsOK /\ FilesOK /\ CountersOK
  BY DEF TypeOK, RequestsOK, FilesOK, CountersOK, Fleet
<1>2. RequestsOK' /\ FilesOK' /\ CountersOK' /\ Shapes'
  BY <1>1, RequestsStep, FilesStep, CountersStep, ShapesStep
<1> QED
  BY <1>2 DEF TypeOK, RequestsOK, FilesOK, CountersOK, Fleet

\* TypeOK is an invariant of every instance; the chunk a request carries is one of
\* its upload's, and what is on its way to psql came from somebody.
THEOREM RestoreTypeOK == Spec => []TypeOK
<1>1. Init => TypeOK /\ Shapes
  BY Initial DEF IInv
<1>2. TypeOK /\ Shapes /\ [Next]_vars => (TypeOK /\ Shapes)'
  BY TypeStep
<1> QED
  BY <1>1, <1>2, PTL DEF Spec

-------------------------------------------------------------------------------
(* Who is crowded *)

\* Nobody comes to be under way, and whoever is goes on or ends.
Outset(r) == r.pc \in {"age", "clear", "create"} \/ (r.pc = "idle" /\ ~(r.chunk > 1))
Trailing ==
  \A t \in Uploads :
    /\ Outset(req[t]) => Outset(req'[t]) \/ req'[t].pc = "over"
    /\ Outset(req'[t]) => Outset(req[t])
    /\ req[t].pc = "over" => req'[t].pc = "over"

Spreads == Spread' /\ Entered' /\ (~Apart => UnderWay' \subseteq crowded')

LEMMA Lagging ==
  ASSUME TypeOK, Spread, Entered, Trailing,
         crowded' = crowded \/ crowded' = crowded \cup UnderWay
  PROVE  Spreads
<1>1. \A t \in Uploads : Begun(t) <=> req[t].pc # "over" /\ ~Outset(req[t])
  BY DEF Begun, Outset
<1>2. \A t \in Uploads : Begun(t)' <=> req'[t].pc # "over" /\ ~Outset(req'[t])
  BY DEF Begun, Outset
<1>3. UnderWay' \subseteq UnderWay
  BY <1>1, <1>2 DEF Trailing, UnderWay
<1>4. Spread' /\ (~Apart => UnderWay' \subseteq crowded')
  BY <1>3 DEF Spread, Apart
<1>5. \A t \in crowded : t \in Uploads /\ ~Outset(req[t])
  BY DEF Entered, Outset, TypeOK
<1>6. \A t \in crowded' : t \in Uploads /\ ~Outset(req'[t])
  BY <1>1, <1>5 DEF Trailing, UnderWay
<1>7. Entered'
  BY <1>6 DEF Entered, Outset
<1> QED
  BY <1>4, <1>7 DEF Spreads

\* The lock lost by one is lost by all who are under way.
LEMMA SpreadStep ==
  ASSUME TypeOK, Shapes, Spread, Entered, [Next]_vars
  PROVE  Spreads
<1>c. \A yes : Crowding(yes) => crowded' = crowded \/ crowded' = crowded \cup UnderWay
  BY DEF Crowding
<1>m. \A u \in Uploads, pc \in Places :
        Moved(u, pc) /\ (Outset(req[u]) => pc \in {"age", "clear", "create", "over"})
          /\ (pc \in {"age", "clear", "create"} => Outset(req[u]))
          /\ pc # "idle" /\ req[u].pc # "over"
            => Trailing
  BY DEF Moved, Trailing, Outset
<1> USE DEF Places, Requested, Detached, Taking, Outset
<1>1. ASSUME NEW u \in Uploads, Send(u) PROVE Spreads
  <2>2. Trailing
    <3>1. req[u].pc = "idle"
      BY <1>1, Routes
    <3>2. CASE Moved(u, "age") /\ req[u].chunk <= 1
      <4>1. ~(req[u].chunk > 1)
        BY <3>2, Requests DEF Request
      <4> QED
        BY <3>1, <3>2, <4>1 DEF Moved, Trailing
    <3>3. CASE Moved(u, "check") /\ req[u].chunk > 1
      BY <3>1, <3>3 DEF Moved, Trailing
    <3> QED
      BY <1>1, <3>2, <3>3, Routes
  <2>3. crowded' = crowded \/ crowded' = crowded \cup UnderWay
    BY <1>1 DEF Send, held
  <2> QED
    BY <2>2, <2>3, Lagging
<1>2. ASSUME NEW u \in Uploads, ReadAge(u) PROVE Spreads
  <2>2. Trailing
    BY <1>2, <1>m, Routes
  <2>3. crowded' = crowded \/ crowded' = crowded \cup UnderWay
    BY <1>2 DEF ReadAge, held
  <2> QED
    BY <2>2, <2>3, Lagging
<1>3. ASSUME NEW u \in Uploads, Clear(u) PROVE Spreads
  <2>2. Trailing
    BY <1>3, <1>m, Routes
  <2>3. crowded' = crowded \/ crowded' = crowded \cup UnderWay
    BY <1>3, <1>c DEF Clear, Unlink
  <2> QED
    BY <2>2, <2>3, Lagging
<1>4. ASSUME NEW u \in Uploads, Create(u) PROVE Spreads
  <2>1. CASE lock.st # "none"
    <3>1. Moved(u, "over") /\ req[u].pc = "create" /\ crowded' = crowded
      BY <1>4, <2>1, Going DEF Create, held
    <3>2. Trailing
      BY <3>1, <1>m
    <3> QED
      BY <3>1, <3>2, Lagging
  <2>2. CASE lock.st = "none"
    <3>1. Moved(u, "stamp") /\ req[u].pc = "create"
      BY <1>4, <2>2, Going DEF Create
    <3>2. UnderWay' = UnderWay \cup {u}
      BY <3>1 DEF UnderWay, Begun, Moved
    <3>3. u \notin crowded
      BY <3>1 DEF Entered
    <3>4. CASE crowded \cap UnderWay = {}
      <4>1. crowded' = crowded
        BY <1>4, <2>2, <3>4 DEF Create
      <4>2. Apart' /\ Apart
        BY <3>2, <3>3, <3>4, <4>1 DEF Apart
      <4>3. Entered'
        BY <3>1, <3>3, <4>1 DEF Entered, Moved, TypeOK
      <4> QED
        BY <4>2, <4>3 DEF Spreads, Spread
    <3>5. CASE crowded \cap UnderWay # {}
      <4>1. crowded' = crowded \cup {u}
        BY <1>4, <2>2, <3>5 DEF Create
      <4>2. UnderWay' \subseteq crowded'
        BY <3>2, <3>5, <4>1 DEF Spread, Apart
      <4>3. Entered'
        BY <3>1, <4>1 DEF Entered, Moved, TypeOK
      <4> QED
        BY <4>2, <4>3 DEF Spreads, Spread
    <3> QED
      BY <3>4, <3>5
  <2> QED
    BY <2>1, <2>2
<1>5. ASSUME NEW u \in Uploads, Stamp(u) PROVE Spreads
  <2>2. Trailing
    BY <1>5, <1>m, Routes
  <2>3. crowded' = crowded \/ crowded' = crowded \cup UnderWay
    BY <1>5 DEF Stamp
  <2> QED
    BY <2>2, <2>3, Lagging
<1>6. ASSUME NEW u \in Uploads, Check(u) PROVE Spreads
  <2>2. Trailing
    BY <1>6, <1>m, Routes
  <2>3. crowded' = crowded \/ crowded' = crowded \cup UnderWay
    BY <1>6, <1>c DEF Check, held
  <2> QED
    BY <2>2, <2>3, Lagging
<1>7. ASSUME NEW u \in Uploads, Save(u) PROVE Spreads
  <2>0. req[u].pc = "save" /\ req'[u] \in Request
    BY <1>7, Saving DEF Save
  <2>1. req'[u].pc = "idle" => req'[u].chunk > 1
    <3>1. ASSUME req'[u].pc = "idle"
          PROVE  Piecewise(u) /\ More(u) /\ req'[u].chunk = req[u].chunk + 1
      <4>1. req[u] \in Request
        BY Requests
      <4> QED
        BY <1>7, <3>1, <4>1, Going, Requests DEF Save, Moved, Request
    <3>2. Chunks[u] > 0 => req[u].chunk > 0 /\ req[u].chunk \in Nat
      BY Requests DEF Shapes, Request
    <3> QED
      BY <3>1, <3>2 DEF Piecewise
  <2>2. Trailing
    BY <1>7, <2>0, <2>1, Saving DEF Trailing
  <2>3. crowded' = crowded \/ crowded' = crowded \cup UnderWay
    BY <1>7, <1>c DEF Save, Unlink, held
  <2> QED
    BY <2>2, <2>3, Lagging
<1>8. ASSUME NEW u \in Uploads, Join(u) PROVE Spreads
  <2>2. Trailing
    BY <1>8, Joining DEF Join, Trailing
  <2>3. crowded' = crowded \/ crowded' = crowded \cup UnderWay
    BY <1>8, <1>c DEF Join, Unlink, held
  <2> QED
    BY <2>2, <2>3, Lagging
<1>9. ASSUME NEW u \in Uploads, StopWorkers(u) PROVE Spreads
  <2>2. Trailing
    BY <1>9, <1>m, Routes
  <2>3. crowded' = crowded \/ crowded' = crowded \cup UnderWay
    BY <1>9 DEF StopWorkers, held
  <2> QED
    BY <2>2, <2>3, Lagging
<1>10. ASSUME NEW u \in Uploads, Spawn(u) PROVE Spreads
  <2>2. Trailing
    BY <1>10, <1>m, Routes
  <2>3. crowded' = crowded \/ crowded' = crowded \cup UnderWay
    BY <1>10 DEF Spawn, held
  <2> QED
    BY <2>2, <2>3, Lagging
<1>11. ASSUME NEW u \in Uploads, Undo(u) PROVE Spreads
  <2>2. Trailing
    BY <1>11, <1>m, Routes
  <2>3. crowded' = crowded \/ crowded' = crowded \cup UnderWay
    BY <1>11 DEF Undo, held
  <2> QED
    BY <2>2, <2>3, Lagging
<1>12. ASSUME NEW u \in Uploads, Release(u) PROVE Spreads
  <2>2. Trailing
    BY <1>12, <1>m, Routes
  <2>3. crowded' = crowded \/ crowded' = crowded \cup UnderWay
    BY <1>12, <1>c DEF Release, Unlink
  <2> QED
    BY <2>2, <2>3, Lagging
<1>13. ASSUME NEW u \in Uploads, Begin(u) PROVE Spreads
  <2>2. Trailing
    BY <1>13, Beginning DEF Begin, Trailing
  <2>3. crowded' = crowded \/ crowded' = crowded \cup UnderWay
    BY <1>13 DEF Begin, held
  <2> QED
    BY <2>2, <2>3, Lagging
<1>14. ASSUME NEW u \in Uploads, Abort(u) PROVE Spreads
  <2>2. Trailing
    BY <1>14, <1>m, Routes
  <2>3. crowded' = crowded \/ crowded' = crowded \cup UnderWay
    BY <1>14 DEF Abort, held
  <2> QED
    BY <2>2, <2>3, Lagging
<1>15. ASSUME NEW u \in Uploads, Reopen(u) PROVE Spreads
  <2>2. Trailing
    BY <1>15, <1>m, Routes
  <2>3. crowded' = crowded \/ crowded' = crowded \cup UnderWay
    BY <1>15, <1>c DEF Reopen, Unlink
  <2> QED
    BY <2>2, <2>3, Lagging
<1>16. ASSUME NEW u \in Uploads, Replay(u) PROVE Spreads
  <2>2. Trailing
    BY <1>16, Replaying DEF Replay, Trailing
  <2>3. crowded' = crowded \/ crowded' = crowded \cup UnderWay
    BY <1>16 DEF Replay, held
  <2> QED
    BY <2>2, <2>3, Lagging
<1>17. ASSUME NEW u \in Uploads, ReplayFails(u) PROVE Spreads
  <2>2. Trailing
    BY <1>17, <1>m, Routes
  <2>3. crowded' = crowded \/ crowded' = crowded \cup UnderWay
    BY <1>17 DEF ReplayFails, held
  <2> QED
    BY <2>2, <2>3, Lagging
<1>18. ASSUME NEW u \in Uploads, Serve(u) PROVE Spreads
  <2>2. Trailing
    BY <1>18, Returning DEF Serve, Trailing
  <2>3. crowded' = crowded \/ crowded' = crowded \cup UnderWay
    BY <1>18 DEF Serve, held
  <2> QED
    BY <2>2, <2>3, Lagging
<1>19. ASSUME NEW u \in Uploads, Start(u) PROVE Spreads
  <2>2. Trailing
    BY <1>19, Returning DEF Start, Trailing
  <2>3. crowded' = crowded \/ crowded' = crowded \cup UnderWay
    BY <1>19 DEF Start, held
  <2> QED
    BY <2>2, <2>3, Lagging
<1>20. ASSUME NEW u \in Uploads, Free(u) PROVE Spreads
  <2>2. Trailing
    BY <1>20, <1>m, Routes
  <2>3. crowded' = crowded \/ crowded' = crowded \cup UnderWay
    BY <1>20, <1>c DEF Free, Unlink
  <2> QED
    BY <2>2, <2>3, Lagging
<1>21. ASSUME NEW u \in Uploads, RunnerDies(u) PROVE Spreads
  <2>2. Trailing
    BY <1>21, <1>m, Routes
  <2>3. crowded' = crowded \/ crowded' = crowded \cup UnderWay
    BY <1>21 DEF RunnerDies, held
  <2> QED
    BY <2>2, <2>3, Lagging
<1>22. ASSUME Expire PROVE Spreads
  <2>2. Trailing
    BY <1>22 DEF Expire, Trailing
  <2>3. crowded' = crowded \/ crowded' = crowded \cup UnderWay
    BY <1>22, <1>c DEF Expire
  <2> QED
    BY <2>2, <2>3, Lagging
<1>23. ASSUME WebDies PROVE Spreads
  <2>2. Trailing
    BY <1>23, Dying DEF Ended, Trailing
  <2>3. crowded' = crowded \/ crowded' = crowded \cup UnderWay
    BY <1>23 DEF WebDies, held
  <2> QED
    BY <2>2, <2>3, Lagging
<1>24. CASE UNCHANGED vars
  BY <1>24, Lagging DEF vars, held, Trailing
<1>25. ASSUME NEW c \in Containers, Drop(c) \/ Link(c) PROVE Spreads
  BY <1>25, Lagging DEF Drop, Link, held, Trailing
<1> QED
  BY Steps, <1>1, <1>2, <1>3, <1>4, <1>5, <1>6, <1>7, <1>8, <1>9, <1>10, <1>11,
     <1>12, <1>13, <1>14, <1>15, <1>16, <1>17, <1>18, <1>19, <1>20, <1>21,
     <1>22, <1>23, <1>24, <1>25

-------------------------------------------------------------------------------
(* Safety, while nobody under way is crowded *)

\* Nobody under way loses the lock by a step that leaves everybody apart.
LEMMA Keeping ==
  ASSUME Apart', NEW yes, Crowding(yes), NEW t \in Uploads, Begun(t), Begun(t)'
  PROVE  ~yes
BY DEF Apart, Crowding, UnderWay

LEMMA Locks ==
  ASSUME TypeOK
  PROVE  lock.st \in {"none", "empty", "fresh", "old"} /\ lock.by \in Uploads \cup {None}
BY DEF TypeOK

\* Who relies on the lock does so alone.
LEMMA Alone ==
  ASSUME Held, NEW u \in Uploads, req[u].pc \in Relying
  PROVE  \A t \in Uploads \ {u} : req[t].pc \notin Relying /\ req[t].pc # "stamp"
BY DEF Held

\* A step of the upload that relies on the lock may do to it what it likes, as
\* long as it relies on it no longer, or leaves it alone.
LEMMA Reliance ==
  ASSUME Held, NEW u \in Uploads, req[u].pc \in Relying,
         \A t \in Uploads \ {u} :
           req'[t].pc = req[t].pc \/ req'[t].pc = "over",
         \/ UNCHANGED lock /\ req'[u].pc # "stamp"
         \/ req'[u].pc \in {"idle", "over"}
  PROVE  Held'
BY Alone DEF Held, Relying, Requested, Detached, Taking

\* The lock file of whoever relies on it stays its own.
LEMMA HeldStep ==
  ASSUME TypeOK, Shapes, Apart', Held, [Next]_vars
  PROVE  Held'
<1>1. ASSUME NEW u \in Uploads, Send(u) PROVE Held'
  <2>1. UNCHANGED lock
    BY <1>1 DEF Send, held
  <2> QED
    BY <1>1, <2>1, Routes DEF Moved, Held, Relying, Requested, Detached, Taking
<1>2. ASSUME NEW u \in Uploads, ReadAge(u) PROVE Held'
  <2>1. UNCHANGED lock
    BY <1>2 DEF ReadAge, held
  <2> QED
    BY <1>2, <2>1, Routes DEF Moved, Held, Relying, Requested, Detached, Taking
<1>3. ASSUME NEW u \in Uploads, Clear(u) PROVE Held'
  <2>1. req[u].pc = "clear" /\ Moved(u, "create") /\ Unlink(u)
    BY <1>3, Routes DEF Clear
  <2>2. ASSUME NEW t \in Uploads, req[t].pc \in Relying \/ req[t].pc = "stamp"
        PROVE  FALSE
    <3>1. t # u /\ Begun(t)
      BY <2>1, <2>2 DEF Relying, Detached, Begun
    <3>2. Begun(t)'
      BY <2>1, <3>1 DEF Moved, Begun
    <3>3. lock.by = t /\ lock.st # "old"
      BY <2>2 DEF Held
    <3>4. lock.by \in UnderWay \ {u}
      BY <3>1, <3>3 DEF UnderWay
    <3> QED
      BY <2>1, <3>1, <3>2, <3>3, <3>4, Keeping DEF Unlink
  <2> QED
    BY <2>1, <2>2 DEF Moved, Held, Relying, Requested, Detached, Taking
<1>4. ASSUME NEW u \in Uploads, Create(u) PROVE Held'
  <2>1. CASE lock.st # "none"
    <3>1. UNCHANGED lock /\ Goes(u, "over")
      BY <1>4, <2>1 DEF Create, held
    <3>2. Moved(u, "over")
      BY <3>1, Going DEF Places
    <3> QED
      BY <3>1, <3>2 DEF Moved, Held, Relying, Requested, Detached, Taking
  <2>2. CASE lock.st = "none"
    <3>1. lock' = [st |-> "empty", by |-> u] /\ Goes(u, "stamp")
      BY <1>4, <2>2 DEF Create
    <3>2. Moved(u, "stamp")
      BY <3>1, Going DEF Places, Requested, Taking
    <3>3. \A t \in Uploads : req[t].pc \notin Relying /\ req[t].pc # "stamp"
      BY <2>2 DEF Held
    <3> QED
      BY <3>1, <3>2, <3>3 DEF Moved, Held, Relying, Requested, Detached, Taking
  <2> QED
    BY <2>1, <2>2
<1>5. ASSUME NEW u \in Uploads, Stamp(u) PROVE Held'
  <2>1. req[u].pc = "stamp" /\ lock.by = u /\ Moved(u, "save")
    BY <1>5, Routes DEF Held
  <2>2. lock'.st = "fresh" /\ lock'.by = u
    BY <1>5, <2>1 DEF Stamp, TypeOK
  <2>3. \A t \in Uploads \ {u} : req[t].pc \notin Relying /\ req[t].pc # "stamp"
    BY <2>1 DEF Held
  <2> QED
    BY <2>1, <2>2, <2>3 DEF Moved, Held
<1>6. ASSUME NEW u \in Uploads, Check(u) PROVE Held'
  <2>1. req[u].pc = "check" /\ Begun(u)
    BY <1>6 DEF Check, Begun
  <2>2. ASSUME NEW yes, Goes(u, "save"), Crowding(yes) PROVE ~yes /\ Moved(u, "save")
    <3>1. Moved(u, "save")
      BY <2>2, Going DEF Places, Requested
    <3>2. Begun(u)'
      BY <3>1 DEF Moved, Begun
    <3> QED
      BY <2>1, <2>2, <3>1, <3>2, Keeping
  <2>3. CASE /\ lock.st = "fresh" /\ UNCHANGED lock
             /\ Crowding(lock.by # u) /\ Goes(u, "save")
    BY <2>1, <2>2, <2>3 DEF Moved, Held, Relying, Requested, Detached, Taking
  <2>4. CASE Goes(u, "over") /\ UNCHANGED held
    <3>1. Moved(u, "over")
      BY <2>4, Going DEF Places
    <3> QED
      BY <2>1, <2>4, <3>1 DEF held, Moved, Held, Relying, Requested, Detached, Taking
  <2> QED
    BY <1>6, <2>2, <2>3, <2>4 DEF Check
<1>7. ASSUME NEW u \in Uploads, Save(u) PROVE Held'
  <2>1. req[u].pc \in Relying
    BY <1>7 DEF Save, Relying
  <2>2. \A t \in Uploads \ {u} : req'[t].pc = req[t].pc
    BY <1>7, Saving
  <2>3. req'[u].pc # "stamp"
    BY <1>7, Saving
  <2>4. \/ UNCHANGED lock
        \/ req'[u].pc = "over"
    BY <1>7, Going DEF Save, Places, Moved, held
  <2> QED
    BY <1>7, <2>1, <2>2, <2>3, <2>4, Reliance
<1>8. ASSUME NEW u \in Uploads, Join(u) PROVE Held'
  <2>1. req[u].pc \in Relying
    BY <1>8 DEF Join, Relying
  <2>2. \A t \in Uploads \ {u} : req'[t].pc = req[t].pc
    BY <1>8, Joining
  <2>3. req'[u].pc # "stamp"
    BY <1>8, Joining
  <2>4. \/ UNCHANGED lock
        \/ req'[u].pc = "over"
    BY <1>8, Going DEF Join, Places, Moved, held
  <2> QED
    BY <1>8, <2>1, <2>2, <2>3, <2>4, Reliance
<1>9. ASSUME NEW u \in Uploads, StopWorkers(u) PROVE Held'
  <2>1. UNCHANGED lock /\ req[u].pc \in Relying
    BY <1>9 DEF StopWorkers, Relying, Detached, held
  <2>2. req'[u].pc # "stamp" /\ \A t \in Uploads \ {u} : req'[t].pc = req[t].pc \/ req'[t].pc = "over"
    BY <1>9, Routes DEF Moved
  <2> QED
    BY <1>9, <2>1, <2>2, Reliance
<1>10. ASSUME NEW u \in Uploads, Spawn(u) PROVE Held'
  <2>1. UNCHANGED lock /\ req[u].pc \in Relying
    BY <1>10 DEF Spawn, Relying, Detached, held
  <2>2. req'[u].pc # "stamp" /\ \A t \in Uploads \ {u} : req'[t].pc = req[t].pc \/ req'[t].pc = "over"
    BY <1>10, Routes DEF Moved
  <2> QED
    BY <1>10, <2>1, <2>2, Reliance
<1>11. ASSUME NEW u \in Uploads, Undo(u) PROVE Held'
  <2>1. UNCHANGED lock /\ req[u].pc \in Relying
    BY <1>11 DEF Undo, Relying, Detached, held
  <2>2. req'[u].pc # "stamp" /\ \A t \in Uploads \ {u} : req'[t].pc = req[t].pc \/ req'[t].pc = "over"
    BY <1>11, Routes DEF Moved
  <2> QED
    BY <1>11, <2>1, <2>2, Reliance
<1>12. ASSUME NEW u \in Uploads, Release(u) PROVE Held'
  <2>1. req[u].pc \in Relying
    BY <1>12 DEF Release, Relying, Detached, held
  <2>2. req'[u].pc = "over" /\ \A t \in Uploads \ {u} : req'[t].pc = req[t].pc
    BY <1>12, Routes DEF Moved
  <2> QED
    BY <1>12, <2>1, <2>2, Reliance
<1>13. ASSUME NEW u \in Uploads, Begin(u) PROVE Held'
  <2>1. UNCHANGED lock /\ req[u].pc \in Relying
    BY <1>13 DEF Begin, Relying, Detached, held
  <2>2. req'[u].pc # "stamp" /\ \A t \in Uploads \ {u} : req'[t].pc = req[t].pc \/ req'[t].pc = "over"
    BY <1>13, Beginning
  <2> QED
    BY <1>13, <2>1, <2>2, Reliance
<1>14. ASSUME NEW u \in Uploads, Abort(u) PROVE Held'
  <2>1. UNCHANGED lock /\ req[u].pc \in Relying
    BY <1>14 DEF Abort, Relying, Detached, held
  <2>2. req'[u].pc # "stamp" /\ \A t \in Uploads \ {u} : req'[t].pc = req[t].pc \/ req'[t].pc = "over"
    BY <1>14, Routes DEF Moved
  <2> QED
    BY <1>14, <2>1, <2>2, Reliance
<1>15. ASSUME NEW u \in Uploads, Reopen(u) PROVE Held'
  <2>1. req[u].pc \in Relying
    BY <1>15 DEF Reopen, Relying, Detached, held
  <2>2. req'[u].pc = "over" /\ \A t \in Uploads \ {u} : req'[t].pc = req[t].pc
    BY <1>15, Routes DEF Moved
  <2> QED
    BY <1>15, <2>1, <2>2, Reliance
<1>16. ASSUME NEW u \in Uploads, Replay(u) PROVE Held'
  <2>1. UNCHANGED lock /\ req[u].pc \in Relying
    BY <1>16 DEF Replay, Relying, Detached, held
  <2>2. req'[u].pc # "stamp" /\ \A t \in Uploads \ {u} : req'[t].pc = req[t].pc \/ req'[t].pc = "over"
    BY <1>16, Replaying
  <2> QED
    BY <1>16, <2>1, <2>2, Reliance
<1>17. ASSUME NEW u \in Uploads, ReplayFails(u) PROVE Held'
  <2>1. UNCHANGED lock /\ req[u].pc \in Relying
    BY <1>17 DEF ReplayFails, Relying, Detached, held
  <2>2. req'[u].pc # "stamp" /\ \A t \in Uploads \ {u} : req'[t].pc = req[t].pc \/ req'[t].pc = "over"
    BY <1>17, Routes DEF Moved
  <2> QED
    BY <1>17, <2>1, <2>2, Reliance
<1>18. ASSUME NEW u \in Uploads, Serve(u) PROVE Held'
  <2>1. UNCHANGED lock /\ req[u].pc \in Relying
    BY <1>18 DEF Serve, Relying, Detached, held
  <2>2. req'[u].pc # "stamp" /\ \A t \in Uploads \ {u} : req'[t].pc = req[t].pc \/ req'[t].pc = "over"
    BY <1>18, Returning
  <2> QED
    BY <1>18, <2>1, <2>2, Reliance
<1>19. ASSUME NEW u \in Uploads, Start(u) PROVE Held'
  <2>1. UNCHANGED lock /\ req[u].pc \in Relying
    BY <1>19 DEF Start, Relying, Detached, held
  <2>2. req'[u].pc # "stamp" /\ \A t \in Uploads \ {u} : req'[t].pc = req[t].pc \/ req'[t].pc = "over"
    BY <1>19, Returning
  <2> QED
    BY <1>19, <2>1, <2>2, Reliance
<1>20. ASSUME NEW u \in Uploads, Free(u) PROVE Held'
  <2>1. req[u].pc \in Relying
    BY <1>20 DEF Free, Relying, Detached, held
  <2>2. req'[u].pc = "over" /\ \A t \in Uploads \ {u} : req'[t].pc = req[t].pc
    BY <1>20, Routes DEF Moved
  <2> QED
    BY <1>20, <2>1, <2>2, Reliance
<1>21. ASSUME NEW u \in Uploads, RunnerDies(u) PROVE Held'
  <2>1. UNCHANGED lock
    BY <1>21 DEF RunnerDies, held
  <2> QED
    BY <1>21, <2>1, Routes DEF Moved, Held, Relying, Requested, Detached, Taking
<1>22. ASSUME Expire PROVE Held'
  <2>1. lock.st = "fresh" /\ UNCHANGED req /\ \A t \in Uploads : req[t].pc \notin Requested \ Taking
    BY <1>22 DEF Expire
  <2>2. Crowding({t \in Uploads : req[t].pc \in Detached} # {})
    BY <1>22 DEF Expire
  <2>3. ASSUME NEW t \in Uploads, req[t].pc \in Detached PROVE FALSE
    <3>1. Begun(t) /\ Begun(t)'
      BY <2>1, <2>3 DEF Begun, Detached
    <3> QED
      BY <2>2, <2>3, <3>1, Keeping
  <2> QED
    BY <2>1, <2>3 DEF Held, Relying, Requested, Detached, Taking
<1>23. ASSUME WebDies PROVE Held'
  BY <1>23, Dying DEF Ended, WebDies, held, Held, Relying, Requested, Detached, Taking
<1>24. CASE UNCHANGED vars
  BY <1>24 DEF vars, services, held, fleet, Held
<1>25. ASSUME NEW c \in Containers, Drop(c) \/ Link(c) PROVE Held'
  BY <1>25 DEF Drop, Link, Held, held
<1> QED
  BY Steps, <1>1, <1>2, <1>3, <1>4, <1>5, <1>6, <1>7, <1>8, <1>9, <1>10, <1>11,
     <1>12, <1>13, <1>14, <1>15, <1>16, <1>17, <1>18, <1>19, <1>20, <1>21,
     <1>22, <1>23, <1>24, <1>25

\* Uploads that only move, under a lock that stays or goes, leave the pieces alone.
LEMMA Untouching ==
  ASSUME OwnPieces, UNCHANGED files,
         \/ UNCHANGED lock
         \/ lock'.by \notin Uploads
         \/ lock'.st = "empty"
         \/ lock'.by = lock.by /\ lock.st # "empty",
         \A t \in Uploads :
           /\ req'[t].chunk = req[t].chunk
           /\ req'[t].pc = "join" => req[t].pc = "join"
           /\ req[t].pc = "over" => req'[t].pc = "over"
  PROVE  OwnPieces'
BY DEF OwnPieces, Midway, Pieces, Piece

\* What the first piece wipes, or what it left.
LEMMA Wiping ==
  ASSUME TypeOK, Shapes, Held, OwnPieces, NEW u \in Uploads, Save(u)
  PROVE  \A p \in Pieces(u) : files'[p] \in {None, u}
<1>1. req[u].pc = "save" /\ lock.by = u /\ lock.st = "fresh"
  BY DEF Save, Held, Relying
<1>2. req[u].chunk \in Nat /\ Chunks[u] \in Nat /\ (Chunks[u] > 0 => req[u].chunk > 0)
  BY Requests DEF Request, Shapes
<1>3. Pieces(u) \in SUBSET AllPieces
  BY DEF AllPieces
<1>4. CASE ~Piecewise(u)
  BY <1>2, <1>4 DEF Piecewise, Pieces
<1>5. CASE Piecewise(u)
  <2>1. \A p \in Pieces(u) : Wiped(u)[p] \in {None, u}
    <3>1. CASE req[u].chunk = 1
      BY <1>3, <3>1 DEF Wiped
    <3>2. CASE req[u].chunk > 1
      BY <1>1, <3>2 DEF Wiped, OwnPieces, Midway
    <3> QED
      BY <1>2, <1>5, <3>1, <3>2 DEF Piecewise
  <2>2. Wiped(u) \in [AllPieces -> Uploads \cup {None}]
    BY DEF Wiped, TypeOK
  <2>3. \/ files' = [Wiped(u) EXCEPT ![Piece(u, req[u].chunk)] = u]
        \/ files' = Wiped(u)
    BY <1>5 DEF Save
  <2> QED
    BY <1>3, <2>1, <2>2, <2>3
<1> QED
  BY <1>4, <1>5

\* Nobody writes among the pieces of the upload that has the lock.
LEMMA OwnPiecesStep ==
  ASSUME TypeOK, Shapes, Apart', Held, OwnPieces, [Next]_vars
  PROVE  OwnPieces'
<1>1. ASSUME NEW u \in Uploads, Send(u) PROVE OwnPieces'
  <2>1. UNCHANGED files
    BY <1>1 DEF Send
  <2>2. \/ UNCHANGED lock
        \/ lock'.by \notin Uploads
        \/ lock'.st = "empty"
    BY <1>1 DEF Send, Absent, held, Unlink
  <2>3. \A t \in Uploads : req'[t].chunk = req[t].chunk
                          /\ (req'[t].pc = "join" => req[t].pc = "join")
                          /\ (req[t].pc = "over" => req'[t].pc = "over")
    BY <1>1, Routes DEF Moved
  <2> QED
    BY <1>1, <2>1, <2>2, <2>3, Untouching
<1>2. ASSUME NEW u \in Uploads, ReadAge(u) PROVE OwnPieces'
  <2>1. UNCHANGED files
    BY <1>2 DEF ReadAge
  <2>2. \/ UNCHANGED lock
        \/ lock'.by \notin Uploads
        \/ lock'.st = "empty"
    BY <1>2 DEF ReadAge, Absent, held, Unlink
  <2>3. \A t \in Uploads : req'[t].chunk = req[t].chunk
                          /\ (req'[t].pc = "join" => req[t].pc = "join")
                          /\ (req[t].pc = "over" => req'[t].pc = "over")
    BY <1>2, Routes DEF Moved
  <2> QED
    BY <1>2, <2>1, <2>2, <2>3, Untouching
<1>3. ASSUME NEW u \in Uploads, Clear(u) PROVE OwnPieces'
  <2>1. UNCHANGED files
    BY <1>3 DEF Clear
  <2>2. \/ UNCHANGED lock
        \/ lock'.by \notin Uploads
        \/ lock'.st = "empty"
    BY <1>3 DEF Clear, Absent, held, Unlink
  <2>3. \A t \in Uploads : req'[t].chunk = req[t].chunk
                          /\ (req'[t].pc = "join" => req[t].pc = "join")
                          /\ (req[t].pc = "over" => req'[t].pc = "over")
    BY <1>3, Routes DEF Moved
  <2> QED
    BY <1>3, <2>1, <2>2, <2>3, Untouching
<1>4. ASSUME NEW u \in Uploads, Create(u) PROVE OwnPieces'
  <2>1. UNCHANGED files
    BY <1>4 DEF Create
  <2>2. \/ UNCHANGED lock
        \/ lock'.by \notin Uploads
        \/ lock'.st = "empty"
    BY <1>4 DEF Create, Absent, held, Unlink
  <2>3. \A t \in Uploads : req'[t].chunk = req[t].chunk
                          /\ (req'[t].pc = "join" => req[t].pc = "join")
                          /\ (req[t].pc = "over" => req'[t].pc = "over")
    BY <1>4, Routes DEF Moved
  <2> QED
    BY <1>4, <2>1, <2>2, <2>3, Untouching
<1>5. ASSUME NEW u \in Uploads, Stamp(u) PROVE OwnPieces'
  <2>1. lock.by = u /\ Moved(u, "save") /\ req[u].pc = "stamp" /\ UNCHANGED files
    BY <1>5, Routes DEF Held, Stamp
  <2>2. lock'.by = u /\ req'[u].chunk <= 1
    BY <1>5, <2>1 DEF Stamp, TypeOK, Shapes, Taking, Moved
  <2>3. req'[u].chunk \in Nat
    BY <2>1, Requests DEF Request, Moved
  <2> QED
    BY <2>1, <2>2, <2>3 DEF OwnPieces, Midway, Moved
<1>6. ASSUME NEW u \in Uploads, Check(u) PROVE OwnPieces'
  <2>1. UNCHANGED files /\ req[u].pc = "check"
    BY <1>6 DEF Check
  <2>2. ASSUME Goes(u, "save"), Crowding(TRUE) PROVE FALSE
    <3>1. Begun(u) /\ Begun(u)'
      BY <2>1, <2>2, Going DEF Places, Requested, Moved, Begun
    <3> QED
      BY <2>2, <3>1, Keeping
  <2>3. UNCHANGED lock
    BY <1>6, <2>2 DEF Check, held
  <2>4. \A t \in Uploads : req'[t].chunk = req[t].chunk
                          /\ (req'[t].pc = "join" => req[t].pc = "join")
                          /\ (req[t].pc = "over" => req'[t].pc = "over")
    BY <1>6, Routes DEF Moved
  <2> QED
    BY <2>1, <2>3, <2>4, Untouching
<1>7. ASSUME NEW u \in Uploads, Save(u) PROVE OwnPieces'
  <2>1. \A p \in Pieces(u) : files'[p] \in {None, u}
    BY <1>7, Wiping
  <2>2. lock.by = u
    BY <1>7 DEF Save, Held, Relying
  <2>3. lock'.by \in {u, None}
    BY <1>7, <2>2 DEF Save, Absent, held, Unlink
  <2> QED
    BY <2>1, <2>3 DEF OwnPieces, Midway, Pieces, Piece
<1>8. ASSUME NEW u \in Uploads, Join(u) PROVE OwnPieces'
  <2>1. lock.by = u
    BY <1>8 DEF Join, Held, Relying
  <2>2. lock'.by \in {u, None}
    BY <1>8, <2>1 DEF Join, Absent, held, Unlink
  <2>3. \A p \in Pieces(u) : files'[p] = None
    BY <1>8 DEF Join, Joined, AllPieces
  <2> QED
    BY <2>2, <2>3 DEF OwnPieces, Midway, Pieces, Piece
<1>9. ASSUME NEW u \in Uploads, StopWorkers(u) PROVE OwnPieces'
  <2>1. UNCHANGED files
    BY <1>9 DEF StopWorkers
  <2>2. \/ UNCHANGED lock
        \/ lock'.by \notin Uploads
        \/ lock'.st = "empty"
    BY <1>9 DEF StopWorkers, Absent, held, Unlink
  <2>3. \A t \in Uploads : req'[t].chunk = req[t].chunk
                          /\ (req'[t].pc = "join" => req[t].pc = "join")
                          /\ (req[t].pc = "over" => req'[t].pc = "over")
    BY <1>9, Routes DEF Moved
  <2> QED
    BY <1>9, <2>1, <2>2, <2>3, Untouching
<1>10. ASSUME NEW u \in Uploads, Spawn(u) PROVE OwnPieces'
  <2>1. UNCHANGED files
    BY <1>10 DEF Spawn
  <2>2. \/ UNCHANGED lock
        \/ lock'.by \notin Uploads
        \/ lock'.st = "empty"
    BY <1>10 DEF Spawn, Absent, held, Unlink
  <2>3. \A t \in Uploads : req'[t].chunk = req[t].chunk
                          /\ (req'[t].pc = "join" => req[t].pc = "join")
                          /\ (req[t].pc = "over" => req'[t].pc = "over")
    BY <1>10, Routes DEF Moved
  <2> QED
    BY <1>10, <2>1, <2>2, <2>3, Untouching
<1>11. ASSUME NEW u \in Uploads, Undo(u) PROVE OwnPieces'
  <2>1. UNCHANGED files
    BY <1>11 DEF Undo
  <2>2. \/ UNCHANGED lock
        \/ lock'.by \notin Uploads
        \/ lock'.st = "empty"
    BY <1>11 DEF Undo, Absent, held, Unlink
  <2>3. \A t \in Uploads : req'[t].chunk = req[t].chunk
                          /\ (req'[t].pc = "join" => req[t].pc = "join")
                          /\ (req[t].pc = "over" => req'[t].pc = "over")
    BY <1>11, Routes DEF Moved
  <2> QED
    BY <1>11, <2>1, <2>2, <2>3, Untouching
<1>12. ASSUME NEW u \in Uploads, Release(u) PROVE OwnPieces'
  <2>1. UNCHANGED files
    BY <1>12 DEF Release
  <2>2. \/ UNCHANGED lock
        \/ lock'.by \notin Uploads
        \/ lock'.st = "empty"
    BY <1>12 DEF Release, Absent, held, Unlink
  <2>3. \A t \in Uploads : req'[t].chunk = req[t].chunk
                          /\ (req'[t].pc = "join" => req[t].pc = "join")
                          /\ (req[t].pc = "over" => req'[t].pc = "over")
    BY <1>12, Routes DEF Moved
  <2> QED
    BY <1>12, <2>1, <2>2, <2>3, Untouching
<1>13. ASSUME NEW u \in Uploads, Begin(u) PROVE OwnPieces'
  <2>1. UNCHANGED files
    BY <1>13 DEF Begin
  <2>2. \/ UNCHANGED lock
        \/ lock'.by \notin Uploads
        \/ lock'.st = "empty"
    BY <1>13 DEF Begin, Absent, held, Unlink
  <2>3. \A t \in Uploads : req'[t].chunk = req[t].chunk
                          /\ (req'[t].pc = "join" => req[t].pc = "join")
                          /\ (req[t].pc = "over" => req'[t].pc = "over")
    BY <1>13, Beginning DEF Begin
  <2> QED
    BY <1>13, <2>1, <2>2, <2>3, Untouching
<1>14. ASSUME NEW u \in Uploads, Abort(u) PROVE OwnPieces'
  <2>1. UNCHANGED files
    BY <1>14 DEF Abort
  <2>2. \/ UNCHANGED lock
        \/ lock'.by \notin Uploads
        \/ lock'.st = "empty"
    BY <1>14 DEF Abort, Absent, held, Unlink
  <2>3. \A t \in Uploads : req'[t].chunk = req[t].chunk
                          /\ (req'[t].pc = "join" => req[t].pc = "join")
                          /\ (req[t].pc = "over" => req'[t].pc = "over")
    BY <1>14, Routes DEF Moved
  <2> QED
    BY <1>14, <2>1, <2>2, <2>3, Untouching
<1>15. ASSUME NEW u \in Uploads, Reopen(u) PROVE OwnPieces'
  <2>1. UNCHANGED files
    BY <1>15 DEF Reopen
  <2>2. \/ UNCHANGED lock
        \/ lock'.by \notin Uploads
        \/ lock'.st = "empty"
    BY <1>15 DEF Reopen, Absent, held, Unlink
  <2>3. \A t \in Uploads : req'[t].chunk = req[t].chunk
                          /\ (req'[t].pc = "join" => req[t].pc = "join")
                          /\ (req[t].pc = "over" => req'[t].pc = "over")
    BY <1>15, Routes DEF Moved
  <2> QED
    BY <1>15, <2>1, <2>2, <2>3, Untouching
<1>16. ASSUME NEW u \in Uploads, Replay(u) PROVE OwnPieces'
  <2>1. UNCHANGED files
    BY <1>16 DEF Replay
  <2>2. \/ UNCHANGED lock
        \/ lock'.by \notin Uploads
        \/ lock'.st = "empty"
    BY <1>16 DEF Replay, Absent, held, Unlink
  <2>3. \A t \in Uploads : req'[t].chunk = req[t].chunk
                          /\ (req'[t].pc = "join" => req[t].pc = "join")
                          /\ (req[t].pc = "over" => req'[t].pc = "over")
    BY <1>16, Replaying DEF Replay
  <2> QED
    BY <1>16, <2>1, <2>2, <2>3, Untouching
<1>17. ASSUME NEW u \in Uploads, ReplayFails(u) PROVE OwnPieces'
  <2>1. UNCHANGED files
    BY <1>17 DEF ReplayFails
  <2>2. \/ UNCHANGED lock
        \/ lock'.by \notin Uploads
        \/ lock'.st = "empty"
    BY <1>17 DEF ReplayFails, Absent, held, Unlink
  <2>3. \A t \in Uploads : req'[t].chunk = req[t].chunk
                          /\ (req'[t].pc = "join" => req[t].pc = "join")
                          /\ (req[t].pc = "over" => req'[t].pc = "over")
    BY <1>17, Routes DEF Moved
  <2> QED
    BY <1>17, <2>1, <2>2, <2>3, Untouching
<1>18. ASSUME NEW u \in Uploads, Serve(u) PROVE OwnPieces'
  <2>1. UNCHANGED files
    BY <1>18 DEF Serve
  <2>2. \/ UNCHANGED lock
        \/ lock'.by \notin Uploads
        \/ lock'.st = "empty"
    BY <1>18 DEF Serve, Absent, held, Unlink
  <2>3. \A t \in Uploads : req'[t].chunk = req[t].chunk
                          /\ (req'[t].pc = "join" => req[t].pc = "join")
                          /\ (req[t].pc = "over" => req'[t].pc = "over")
    BY <1>18, Returning DEF Serve
  <2> QED
    BY <1>18, <2>1, <2>2, <2>3, Untouching
<1>19. ASSUME NEW u \in Uploads, Start(u) PROVE OwnPieces'
  <2>1. UNCHANGED files
    BY <1>19 DEF Start
  <2>2. \/ UNCHANGED lock
        \/ lock'.by \notin Uploads
        \/ lock'.st = "empty"
    BY <1>19 DEF Start, Absent, held
  <2>3. \A t \in Uploads : req'[t].chunk = req[t].chunk
                          /\ (req'[t].pc = "join" => req[t].pc = "join")
                          /\ (req[t].pc = "over" => req'[t].pc = "over")
    BY <1>19, Returning DEF Start
  <2> QED
    BY <1>19, <2>1, <2>2, <2>3, Untouching
<1>20. ASSUME NEW u \in Uploads, Free(u) PROVE OwnPieces'
  <2>1. UNCHANGED files
    BY <1>20 DEF Free
  <2>2. \/ UNCHANGED lock
        \/ lock'.by \notin Uploads
        \/ lock'.st = "empty"
    BY <1>20 DEF Free, Absent, held, Unlink
  <2>3. \A t \in Uploads : req'[t].chunk = req[t].chunk
                          /\ (req'[t].pc = "join" => req[t].pc = "join")
                          /\ (req[t].pc = "over" => req'[t].pc = "over")
    BY <1>20, Routes DEF Moved
  <2> QED
    BY <1>20, <2>1, <2>2, <2>3, Untouching
<1>21. ASSUME NEW u \in Uploads, RunnerDies(u) PROVE OwnPieces'
  <2>1. UNCHANGED files
    BY <1>21 DEF RunnerDies
  <2>2. \/ UNCHANGED lock
        \/ lock'.by \notin Uploads
        \/ lock'.st = "empty"
    BY <1>21 DEF RunnerDies, Absent, held, Unlink
  <2>3. \A t \in Uploads : req'[t].chunk = req[t].chunk
                          /\ (req'[t].pc = "join" => req[t].pc = "join")
                          /\ (req[t].pc = "over" => req'[t].pc = "over")
    BY <1>21, Routes DEF Moved
  <2> QED
    BY <1>21, <2>1, <2>2, <2>3, Untouching
<1>22. ASSUME Expire PROVE OwnPieces'
  <2>1. lock'.by = lock.by /\ lock.st # "empty" /\ UNCHANGED <<files, req>>
    BY <1>22 DEF Expire, TypeOK
  <2> QED
    BY <2>1, Untouching
<1>23. ASSUME WebDies PROVE OwnPieces'
  <2>1. UNCHANGED <<files, lock>>
    BY <1>23 DEF WebDies, held, fleet
  <2>2. \A t \in Uploads : req'[t].chunk = req[t].chunk
                          /\ (req'[t].pc = "join" => req[t].pc = "join")
                          /\ (req[t].pc = "over" => req'[t].pc = "over")
    BY <1>23, Dying DEF Ended
  <2> QED
    BY <1>23, <2>1, <2>2, Untouching
<1>24. CASE UNCHANGED vars
  BY <1>24, Untouching DEF vars, services, held, fleet
<1>25. ASSUME NEW c \in Containers, Drop(c) \/ Link(c) PROVE OwnPieces'
  BY <1>25, Untouching DEF Drop, Link, held
<1> QED
  BY Steps, <1>1, <1>2, <1>3, <1>4, <1>5, <1>6, <1>7, <1>8, <1>9, <1>10, <1>11,
     <1>12, <1>13, <1>14, <1>15, <1>16, <1>17, <1>18, <1>19, <1>20, <1>21,
     <1>22, <1>23, <1>24, <1>25

\* So what its pieces are joined to is its own.
LEMMA OwnDumpStep ==
  ASSUME TypeOK, Shapes, Held, OwnPieces, OwnDump, [Next]_vars
  PROVE  OwnDump'
<1>1. ASSUME NEW u \in Uploads, Send(u) PROVE OwnDump'
  <2>1. \A t \in Uploads : req'[t].dump = req[t].dump
    BY <1>1, Routes DEF Moved
  <2>2. \A t \in Uploads : req'[t].pc \in Restoring => req[t].pc \in Restoring
    BY <1>1, Routes DEF Send, Restoring, Detached, Taking, Requested, Moved
  <2> QED
    BY <1>1, <2>1, <2>2 DEF OwnDump
<1>2. ASSUME NEW u \in Uploads, ReadAge(u) PROVE OwnDump'
  <2>1. \A t \in Uploads : req'[t].dump = req[t].dump
    BY <1>2, Routes DEF Moved
  <2>2. \A t \in Uploads : req'[t].pc \in Restoring => req[t].pc \in Restoring
    BY <1>2, Routes DEF ReadAge, Restoring, Detached, Taking, Requested, Moved
  <2> QED
    BY <1>2, <2>1, <2>2 DEF OwnDump
<1>3. ASSUME NEW u \in Uploads, Clear(u) PROVE OwnDump'
  <2>1. \A t \in Uploads : req'[t].dump = req[t].dump
    BY <1>3, Routes DEF Moved
  <2>2. \A t \in Uploads : req'[t].pc \in Restoring => req[t].pc \in Restoring
    BY <1>3, Routes DEF Clear, Restoring, Detached, Taking, Requested, Moved
  <2> QED
    BY <1>3, <2>1, <2>2 DEF OwnDump
<1>4. ASSUME NEW u \in Uploads, Create(u) PROVE OwnDump'
  <2>1. \A t \in Uploads : req'[t].dump = req[t].dump
    BY <1>4, Routes DEF Moved
  <2>2. \A t \in Uploads : req'[t].pc \in Restoring => req[t].pc \in Restoring
    BY <1>4, Routes DEF Create, Restoring, Detached, Taking, Requested, Moved
  <2> QED
    BY <1>4, <2>1, <2>2 DEF OwnDump
<1>5. ASSUME NEW u \in Uploads, Stamp(u) PROVE OwnDump'
  <2>1. \A t \in Uploads : req'[t].dump = req[t].dump
    BY <1>5, Routes DEF Moved
  <2>2. \A t \in Uploads : req'[t].pc \in Restoring => req[t].pc \in Restoring
    BY <1>5, Routes DEF Stamp, Restoring, Detached, Taking, Requested, Moved
  <2> QED
    BY <1>5, <2>1, <2>2 DEF OwnDump
<1>6. ASSUME NEW u \in Uploads, Check(u) PROVE OwnDump'
  <2>1. \A t \in Uploads : req'[t].dump = req[t].dump
    BY <1>6, Routes DEF Moved
  <2>2. \A t \in Uploads : req'[t].pc \in Restoring => req[t].pc \in Restoring
    BY <1>6, Routes DEF Check, Restoring, Detached, Taking, Requested, Moved
  <2> QED
    BY <1>6, <2>1, <2>2 DEF OwnDump
<1>7. ASSUME NEW u \in Uploads, Save(u) PROVE OwnDump'
  BY <1>7, Saving DEF OwnDump, Restoring, Detached
<1>8. ASSUME NEW u \in Uploads, Join(u) PROVE OwnDump'
  <2>1. Midway(u) /\ Chunks[u] > 0 /\ Chunks[u] \in Nat
    BY <1>8 DEF Join, Held, Relying, Midway, Shapes
  <2>2. PICK p \in Pieces(u) : TRUE
    BY <2>1 DEF Pieces
  <2>3. ASSUME Complete(files, u)
        PROVE  {files[q] : q \in Pieces(u)} = {u}
    <3>1. \A q \in Pieces(u) : files[q] = u
      BY <2>1, <2>3 DEF OwnPieces, Complete
    <3> QED
      BY <2>2, <3>1
  <2>4. req'[u].pc = "over" \/ req'[u].dump = {u}
    BY <1>8, <2>3, Joining
  <2>5. \A t \in Uploads \ {u} : req'[t] = req[t]
    BY <1>8, Joining
  <2> QED
    BY <2>4, <2>5 DEF OwnDump, Restoring, Detached
<1>9. ASSUME NEW u \in Uploads, StopWorkers(u) PROVE OwnDump'
  <2>1. \A t \in Uploads : req'[t].dump = req[t].dump
    BY <1>9, Routes DEF Moved
  <2>2. \A t \in Uploads : req'[t].pc \in Restoring => req[t].pc \in Restoring
    BY <1>9, Routes DEF StopWorkers, Restoring, Detached, Taking, Requested, Moved
  <2> QED
    BY <1>9, <2>1, <2>2 DEF OwnDump
<1>10. ASSUME NEW u \in Uploads, Spawn(u) PROVE OwnDump'
  <2>1. \A t \in Uploads : req'[t].dump = req[t].dump
    BY <1>10, Routes DEF Moved
  <2>2. \A t \in Uploads : req'[t].pc \in Restoring => req[t].pc \in Restoring
    BY <1>10, Routes DEF Spawn, Restoring, Detached, Taking, Requested, Moved
  <2> QED
    BY <1>10, <2>1, <2>2 DEF OwnDump
<1>11. ASSUME NEW u \in Uploads, Undo(u) PROVE OwnDump'
  <2>1. \A t \in Uploads : req'[t].dump = req[t].dump
    BY <1>11, Routes DEF Moved
  <2>2. \A t \in Uploads : req'[t].pc \in Restoring => req[t].pc \in Restoring
    BY <1>11, Routes DEF Undo, Restoring, Detached, Taking, Requested, Moved
  <2> QED
    BY <1>11, <2>1, <2>2 DEF OwnDump
<1>12. ASSUME NEW u \in Uploads, Release(u) PROVE OwnDump'
  <2>1. \A t \in Uploads : req'[t].dump = req[t].dump
    BY <1>12, Routes DEF Moved
  <2>2. \A t \in Uploads : req'[t].pc \in Restoring => req[t].pc \in Restoring
    BY <1>12, Routes DEF Release, Restoring, Detached, Taking, Requested, Moved
  <2> QED
    BY <1>12, <2>1, <2>2 DEF OwnDump
<1>13. ASSUME NEW u \in Uploads, Begin(u) PROVE OwnDump'
  <2>1. \A t \in Uploads : req'[t].dump = req[t].dump
    BY <1>13, Beginning
  <2>2. \A t \in Uploads : req'[t].pc \in Restoring => req[t].pc \in Restoring
    BY <1>13, Beginning DEF Begin, Restoring, Detached, Taking, Requested
  <2> QED
    BY <1>13, <2>1, <2>2 DEF OwnDump
<1>14. ASSUME NEW u \in Uploads, Abort(u) PROVE OwnDump'
  <2>1. \A t \in Uploads : req'[t].dump = req[t].dump
    BY <1>14, Routes DEF Moved
  <2>2. \A t \in Uploads : req'[t].pc \in Restoring => req[t].pc \in Restoring
    BY <1>14, Routes DEF Abort, Restoring, Detached, Taking, Requested, Moved
  <2> QED
    BY <1>14, <2>1, <2>2 DEF OwnDump
<1>15. ASSUME NEW u \in Uploads, Reopen(u) PROVE OwnDump'
  <2>1. \A t \in Uploads : req'[t].dump = req[t].dump
    BY <1>15, Routes DEF Moved
  <2>2. \A t \in Uploads : req'[t].pc \in Restoring => req[t].pc \in Restoring
    BY <1>15, Routes DEF Reopen, Restoring, Detached, Taking, Requested, Moved
  <2> QED
    BY <1>15, <2>1, <2>2 DEF OwnDump
<1>16. ASSUME NEW u \in Uploads, Replay(u) PROVE OwnDump'
  <2>1. \A t \in Uploads : req'[t].dump = req[t].dump
    BY <1>16, Replaying
  <2>2. \A t \in Uploads : req'[t].pc \in Restoring => req[t].pc \in Restoring
    BY <1>16, Replaying DEF Replay, Restoring, Detached, Taking, Requested
  <2> QED
    BY <1>16, <2>1, <2>2 DEF OwnDump
<1>17. ASSUME NEW u \in Uploads, ReplayFails(u) PROVE OwnDump'
  <2>1. \A t \in Uploads : req'[t].dump = req[t].dump
    BY <1>17, Routes DEF Moved
  <2>2. \A t \in Uploads : req'[t].pc \in Restoring => req[t].pc \in Restoring
    BY <1>17, Routes DEF ReplayFails, Restoring, Detached, Taking, Requested, Moved
  <2> QED
    BY <1>17, <2>1, <2>2 DEF OwnDump
<1>18. ASSUME NEW u \in Uploads, Serve(u) PROVE OwnDump'
  <2>1. \A t \in Uploads : req'[t].dump = req[t].dump
    BY <1>18, Returning
  <2>2. \A t \in Uploads : req'[t].pc \in Restoring => req[t].pc \in Restoring
    BY <1>18, Returning DEF Serve, Restoring, Detached, Taking, Requested
  <2> QED
    BY <1>18, <2>1, <2>2 DEF OwnDump
<1>19. ASSUME NEW u \in Uploads, Start(u) PROVE OwnDump'
  <2>1. \A t \in Uploads : req'[t].dump = req[t].dump
    BY <1>19, Returning
  <2>2. \A t \in Uploads : req'[t].pc \in Restoring => req[t].pc \in Restoring
    BY <1>19, Returning DEF Start, Restoring, Detached, Taking, Requested
  <2> QED
    BY <1>19, <2>1, <2>2 DEF OwnDump
<1>20. ASSUME NEW u \in Uploads, Free(u) PROVE OwnDump'
  <2>1. \A t \in Uploads : req'[t].dump = req[t].dump
    BY <1>20, Routes DEF Moved
  <2>2. \A t \in Uploads : req'[t].pc \in Restoring => req[t].pc \in Restoring
    BY <1>20, Routes DEF Free, Restoring, Detached, Taking, Requested, Moved
  <2> QED
    BY <1>20, <2>1, <2>2 DEF OwnDump
<1>21. ASSUME NEW u \in Uploads, RunnerDies(u) PROVE OwnDump'
  <2>1. \A t \in Uploads : req'[t].dump = req[t].dump
    BY <1>21, Routes DEF Moved
  <2>2. \A t \in Uploads : req'[t].pc \in Restoring => req[t].pc \in Restoring
    BY <1>21, Routes DEF RunnerDies, Restoring, Detached, Taking, Requested, Moved
  <2> QED
    BY <1>21, <2>1, <2>2 DEF OwnDump
<1>22. ASSUME Expire PROVE OwnDump'
  BY <1>22 DEF Expire, OwnDump
<1>23. ASSUME WebDies PROVE OwnDump'
  BY <1>23, Dying DEF Ended, OwnDump, Restoring, Detached
<1>24. CASE UNCHANGED vars
  BY <1>24 DEF vars, services, held, fleet, OwnDump
<1>25. ASSUME NEW c \in Containers, Drop(c) \/ Link(c) PROVE OwnDump'
  BY <1>25 DEF Drop, Link, OwnDump
<1> QED
  BY Steps, <1>1, <1>2, <1>3, <1>4, <1>5, <1>6, <1>7, <1>8, <1>9, <1>10, <1>11,
     <1>12, <1>13, <1>14, <1>15, <1>16, <1>17, <1>18, <1>19, <1>20, <1>21,
     <1>22, <1>23, <1>24, <1>25

\* A step that moves nobody to where the services or the database matter, and does
\* nothing to them.
LEMMA Bystanding ==
  ASSUME \A t \in Uploads :
           \/ req'[t].pc = req[t].pc /\ req'[t].ok = req[t].ok /\ req'[t].dump = req[t].dump
           \/ req'[t].pc \notin {"spawn", "begin", "psql", "serve", "start", "free"}
  PROVE  /\ Quiet /\ UNCHANGED <<flask, up, unheard>> => Quiet'
         /\ Landed /\ UNCHANGED db => Landed'
BY DEF Quiet, Landed

\* While one upload relies on the lock nobody else is where they matter.
LEMMA Elsewhere ==
  ASSUME Held, NEW u \in Uploads, req[u].pc \in Relying,
         \A t \in Uploads \ {u} : req'[t].pc = req[t].pc \/ req'[t].pc = "over"
  PROVE  \A t \in Uploads \ {u} :
           req'[t].pc \notin {"spawn", "begin", "psql", "serve", "start", "free"}
BY Alone DEF Relying, Detached

\* Nobody but the one restore starts what it has stopped.
LEMMA QuietStep ==
  ASSUME TypeOK, Shapes, Held, Quiet, [Next]_vars
  PROVE  Quiet'
<1>1. ASSUME NEW u \in Uploads, Send(u) PROVE Quiet'
  <2>1. UNCHANGED <<flask, up, unheard>>
    BY <1>1 DEF Send, services, held, fleet
  <2>2. \A t \in Uploads :
          \/ req'[t].pc = req[t].pc /\ req'[t].ok = req[t].ok /\ req'[t].dump = req[t].dump
          \/ req'[t].pc \notin {"spawn", "begin", "psql", "serve", "start", "free"}
    BY <1>1, Routes DEF Moved
  <2> QED
    BY <2>1, <2>2, Bystanding
<1>2. ASSUME NEW u \in Uploads, ReadAge(u) PROVE Quiet'
  <2>1. UNCHANGED <<flask, up, unheard>>
    BY <1>2 DEF ReadAge, services, held, fleet
  <2>2. \A t \in Uploads :
          \/ req'[t].pc = req[t].pc /\ req'[t].ok = req[t].ok /\ req'[t].dump = req[t].dump
          \/ req'[t].pc \notin {"spawn", "begin", "psql", "serve", "start", "free"}
    BY <1>2, Routes DEF Moved
  <2> QED
    BY <2>1, <2>2, Bystanding
<1>3. ASSUME NEW u \in Uploads, Clear(u) PROVE Quiet'
  <2>1. UNCHANGED <<flask, up, unheard>>
    BY <1>3 DEF Clear, services, held, fleet
  <2>2. \A t \in Uploads :
          \/ req'[t].pc = req[t].pc /\ req'[t].ok = req[t].ok /\ req'[t].dump = req[t].dump
          \/ req'[t].pc \notin {"spawn", "begin", "psql", "serve", "start", "free"}
    BY <1>3, Routes DEF Moved
  <2> QED
    BY <2>1, <2>2, Bystanding
<1>4. ASSUME NEW u \in Uploads, Create(u) PROVE Quiet'
  <2>1. UNCHANGED <<flask, up, unheard>>
    BY <1>4 DEF Create, services, held, fleet
  <2>2. \A t \in Uploads :
          \/ req'[t].pc = req[t].pc /\ req'[t].ok = req[t].ok /\ req'[t].dump = req[t].dump
          \/ req'[t].pc \notin {"spawn", "begin", "psql", "serve", "start", "free"}
    BY <1>4, Routes DEF Moved
  <2> QED
    BY <2>1, <2>2, Bystanding
<1>5. ASSUME NEW u \in Uploads, Stamp(u) PROVE Quiet'
  <2>1. UNCHANGED <<flask, up, unheard>>
    BY <1>5 DEF Stamp, services, held, fleet
  <2>2. \A t \in Uploads :
          \/ req'[t].pc = req[t].pc /\ req'[t].ok = req[t].ok /\ req'[t].dump = req[t].dump
          \/ req'[t].pc \notin {"spawn", "begin", "psql", "serve", "start", "free"}
    BY <1>5, Routes DEF Moved
  <2> QED
    BY <2>1, <2>2, Bystanding
<1>6. ASSUME NEW u \in Uploads, Check(u) PROVE Quiet'
  <2>1. UNCHANGED <<flask, up, unheard>>
    BY <1>6 DEF Check, services, held, fleet
  <2>2. \A t \in Uploads :
          \/ req'[t].pc = req[t].pc /\ req'[t].ok = req[t].ok /\ req'[t].dump = req[t].dump
          \/ req'[t].pc \notin {"spawn", "begin", "psql", "serve", "start", "free"}
    BY <1>6, Routes DEF Moved
  <2> QED
    BY <2>1, <2>2, Bystanding
<1>7. ASSUME NEW u \in Uploads, Save(u) PROVE Quiet'
  <2>1. req[u].pc \in Relying
    BY <1>7 DEF Save, Relying, Detached
  <2>2. \A t \in Uploads \ {u} : req'[t].pc = req[t].pc \/ req'[t].pc = "over"
    BY <1>7, Saving
  <2>3. \A t \in Uploads \ {u} : req'[t].pc \notin {"spawn", "begin", "psql", "serve", "start", "free"}
    BY <2>1, <2>2, Elsewhere
  <2>4. req'[u].pc \notin {"spawn", "begin", "psql"}
    BY <1>7, Saving
  <2> QED
    BY <2>3, <2>4 DEF Quiet
<1>8. ASSUME NEW u \in Uploads, Join(u) PROVE Quiet'
  <2>1. req[u].pc \in Relying
    BY <1>8 DEF Join, Relying, Detached
  <2>2. \A t \in Uploads \ {u} : req'[t].pc = req[t].pc \/ req'[t].pc = "over"
    BY <1>8, Joining
  <2>3. \A t \in Uploads \ {u} : req'[t].pc \notin {"spawn", "begin", "psql", "serve", "start", "free"}
    BY <2>1, <2>2, Elsewhere
  <2>4. req'[u].pc \notin {"spawn", "begin", "psql"}
    BY <1>8, Joining
  <2> QED
    BY <2>3, <2>4 DEF Quiet
<1>9. ASSUME NEW u \in Uploads, StopWorkers(u) PROVE Quiet'
  <2>1. req[u].pc \in Relying
    BY <1>9 DEF StopWorkers, Relying, Detached
  <2>2. \A t \in Uploads \ {u} : req'[t].pc = req[t].pc \/ req'[t].pc = "over"
    BY <1>9, Routes DEF Moved
  <2>3. \A t \in Uploads \ {u} : req'[t].pc \notin {"spawn", "begin", "psql", "serve", "start", "free"}
    BY <2>1, <2>2, Elsewhere
  <2>4. CASE WorkersStop(TRUE) /\ Goes(u, "spawn")
    <3>1. Moved(u, "spawn")
      BY <2>4, Going DEF Places, Requested
    <3>2. CountersOK
      BY DEF TypeOK, CountersOK, Fleet
    <3>3. up' \subseteq unheard'
      BY <2>4, <3>2, StoppingWorkers
    <3> QED
      BY <2>3, <3>1, <3>3 DEF Moved, Quiet
  <2>5. CASE Goes(u, "undo")
    <3>1. Moved(u, "undo")
      BY <2>5, Going DEF Places, Requested
    <3> QED
      BY <2>3, <3>1 DEF Moved, Quiet
  <2> QED
    BY <1>9, <2>4, <2>5 DEF StopWorkers
<1>10. ASSUME NEW u \in Uploads, Spawn(u) PROVE Quiet'
  <2>1. req[u].pc \in Relying
    BY <1>10 DEF Spawn, Relying, Detached
  <2>2. \A t \in Uploads \ {u} : req'[t].pc = req[t].pc \/ req'[t].pc = "over"
    BY <1>10, Routes DEF Moved
  <2>3. \A t \in Uploads \ {u} : req'[t].pc \notin {"spawn", "begin", "psql", "serve", "start", "free"}
    BY <2>1, <2>2, Elsewhere
  <2>4. up \subseteq unheard /\ UNCHANGED <<flask, up, unheard>>
    BY <1>10 DEF Spawn, Quiet, services, held, fleet
  <2>5. req'[u].pc \in {"begin", "undo"}
    BY <1>10, Routes DEF Moved
  <2> QED
    BY <2>3, <2>4, <2>5 DEF Quiet
<1>11. ASSUME NEW u \in Uploads, Undo(u) PROVE Quiet'
  <2>1. req[u].pc \in Relying
    BY <1>11 DEF Undo, Relying, Detached
  <2>2. \A t \in Uploads \ {u} : req'[t].pc = req[t].pc \/ req'[t].pc = "over"
    BY <1>11, Routes DEF Moved
  <2>3. \A t \in Uploads \ {u} : req'[t].pc \notin {"spawn", "begin", "psql", "serve", "start", "free"}
    BY <2>1, <2>2, Elsewhere
  <2>4. req'[u].pc \notin {"spawn", "begin", "psql"}
    BY <1>11, Routes DEF Moved
  <2> QED
    BY <2>3, <2>4 DEF Quiet
<1>12. ASSUME NEW u \in Uploads, Release(u) PROVE Quiet'
  <2>1. req[u].pc \in Relying
    BY <1>12 DEF Release, Relying, Detached
  <2>2. \A t \in Uploads \ {u} : req'[t].pc = req[t].pc \/ req'[t].pc = "over"
    BY <1>12, Routes DEF Moved
  <2>3. \A t \in Uploads \ {u} : req'[t].pc \notin {"spawn", "begin", "psql", "serve", "start", "free"}
    BY <2>1, <2>2, Elsewhere
  <2>4. req'[u].pc \notin {"spawn", "begin", "psql"}
    BY <1>12, Routes DEF Moved
  <2> QED
    BY <2>3, <2>4 DEF Quiet
<1>13. ASSUME NEW u \in Uploads, Begin(u) PROVE Quiet'
  <2>1. req[u].pc \in Relying
    BY <1>13 DEF Begin, Relying, Detached
  <2>2. \A t \in Uploads \ {u} : req'[t].pc = req[t].pc \/ req'[t].pc = "over"
    BY <1>13, Beginning
  <2>3. \A t \in Uploads \ {u} : req'[t].pc \notin {"spawn", "begin", "psql", "serve", "start", "free"}
    BY <2>1, <2>2, Elsewhere
  <2>4. up \subseteq unheard /\ UNCHANGED <<up, unheard>>
    BY <1>13 DEF Begin, Quiet, fleet
  <2>5. req'[u].pc \in {"psql", "abort"} /\ (req'[u].pc = "psql" => ~flask')
    BY <1>13, Beginning
  <2> QED
    BY <2>3, <2>4, <2>5 DEF Quiet
<1>14. ASSUME NEW u \in Uploads, Abort(u) PROVE Quiet'
  <2>1. req[u].pc \in Relying
    BY <1>14 DEF Abort, Relying, Detached
  <2>2. \A t \in Uploads \ {u} : req'[t].pc = req[t].pc \/ req'[t].pc = "over"
    BY <1>14, Routes DEF Moved
  <2>3. \A t \in Uploads \ {u} : req'[t].pc \notin {"spawn", "begin", "psql", "serve", "start", "free"}
    BY <2>1, <2>2, Elsewhere
  <2>4. req'[u].pc \notin {"spawn", "begin", "psql"}
    BY <1>14, Routes DEF Moved
  <2> QED
    BY <2>3, <2>4 DEF Quiet
<1>15. ASSUME NEW u \in Uploads, Reopen(u) PROVE Quiet'
  <2>1. req[u].pc \in Relying
    BY <1>15 DEF Reopen, Relying, Detached
  <2>2. \A t \in Uploads \ {u} : req'[t].pc = req[t].pc \/ req'[t].pc = "over"
    BY <1>15, Routes DEF Moved
  <2>3. \A t \in Uploads \ {u} : req'[t].pc \notin {"spawn", "begin", "psql", "serve", "start", "free"}
    BY <2>1, <2>2, Elsewhere
  <2>4. req'[u].pc \notin {"spawn", "begin", "psql"}
    BY <1>15, Routes DEF Moved
  <2> QED
    BY <2>3, <2>4 DEF Quiet
<1>16. ASSUME NEW u \in Uploads, Replay(u) PROVE Quiet'
  <2>1. req[u].pc \in Relying
    BY <1>16 DEF Replay, Relying, Detached
  <2>2. \A t \in Uploads \ {u} : req'[t].pc = req[t].pc \/ req'[t].pc = "over"
    BY <1>16, Replaying
  <2>3. \A t \in Uploads \ {u} : req'[t].pc \notin {"spawn", "begin", "psql", "serve", "start", "free"}
    BY <2>1, <2>2, Elsewhere
  <2>4. req'[u].pc \notin {"spawn", "begin", "psql"}
    BY <1>16, Replaying
  <2> QED
    BY <2>3, <2>4 DEF Quiet
<1>17. ASSUME NEW u \in Uploads, ReplayFails(u) PROVE Quiet'
  <2>1. req[u].pc \in Relying
    BY <1>17 DEF ReplayFails, Relying, Detached
  <2>2. \A t \in Uploads \ {u} : req'[t].pc = req[t].pc \/ req'[t].pc = "over"
    BY <1>17, Routes DEF Moved
  <2>3. \A t \in Uploads \ {u} : req'[t].pc \notin {"spawn", "begin", "psql", "serve", "start", "free"}
    BY <2>1, <2>2, Elsewhere
  <2>4. req'[u].pc \notin {"spawn", "begin", "psql"}
    BY <1>17, Routes DEF Moved
  <2> QED
    BY <2>3, <2>4 DEF Quiet
<1>18. ASSUME NEW u \in Uploads, Serve(u) PROVE Quiet'
  <2>1. req[u].pc \in Relying
    BY <1>18 DEF Serve, Relying, Detached
  <2>2. \A t \in Uploads \ {u} : req'[t].pc = req[t].pc \/ req'[t].pc = "over"
    BY <1>18, Returning
  <2>3. \A t \in Uploads \ {u} : req'[t].pc \notin {"spawn", "begin", "psql", "serve", "start", "free"}
    BY <2>1, <2>2, Elsewhere
  <2>4. req'[u].pc \notin {"spawn", "begin", "psql"}
    BY <1>18, Returning
  <2> QED
    BY <2>3, <2>4 DEF Quiet
<1>19. ASSUME NEW u \in Uploads, Start(u) PROVE Quiet'
  <2>1. req[u].pc \in Relying
    BY <1>19 DEF Start, Relying, Detached
  <2>2. \A t \in Uploads \ {u} : req'[t].pc = req[t].pc \/ req'[t].pc = "over"
    BY <1>19, Returning
  <2>3. \A t \in Uploads \ {u} : req'[t].pc \notin {"spawn", "begin", "psql", "serve", "start", "free"}
    BY <2>1, <2>2, Elsewhere
  <2>4. req'[u].pc \notin {"spawn", "begin", "psql"}
    BY <1>19, Returning
  <2> QED
    BY <2>3, <2>4 DEF Quiet
<1>20. ASSUME NEW u \in Uploads, Free(u) PROVE Quiet'
  <2>1. req[u].pc \in Relying
    BY <1>20 DEF Free, Relying, Detached
  <2>2. \A t \in Uploads \ {u} : req'[t].pc = req[t].pc \/ req'[t].pc = "over"
    BY <1>20, Routes DEF Moved
  <2>3. \A t \in Uploads \ {u} : req'[t].pc \notin {"spawn", "begin", "psql", "serve", "start", "free"}
    BY <2>1, <2>2, Elsewhere
  <2>4. req'[u].pc \notin {"spawn", "begin", "psql"}
    BY <1>20, Routes DEF Moved
  <2> QED
    BY <2>3, <2>4 DEF Quiet
<1>21. ASSUME NEW u \in Uploads, RunnerDies(u) PROVE Quiet'
  <2>1. UNCHANGED <<flask, up, unheard>>
    BY <1>21 DEF RunnerDies, services, held, fleet
  <2>2. \A t \in Uploads :
          \/ req'[t].pc = req[t].pc /\ req'[t].ok = req[t].ok /\ req'[t].dump = req[t].dump
          \/ req'[t].pc \notin {"spawn", "begin", "psql", "serve", "start", "free"}
    BY <1>21, Routes DEF Moved
  <2> QED
    BY <2>1, <2>2, Bystanding
<1>22. ASSUME Expire PROVE Quiet'
  BY <1>22 DEF Expire, Quiet, services, held, fleet
<1>23. ASSUME WebDies PROVE Quiet'
  <2>1. UNCHANGED <<flask, up, unheard, db>>
    BY <1>23 DEF WebDies, held, fleet
  <2>2. \A t \in Uploads :
          \/ req'[t].pc = req[t].pc /\ req'[t].ok = req[t].ok /\ req'[t].dump = req[t].dump
          \/ req'[t].pc \notin {"spawn", "begin", "psql", "serve", "start", "free"}
    BY <1>23, Dying DEF Ended
  <2> QED
    BY <2>1, <2>2, Bystanding
<1>24. CASE UNCHANGED vars
  BY <1>24 DEF vars, services, held, fleet, Quiet
<1>25. ASSUME NEW c \in Containers, Drop(c) \/ Link(c) PROVE Quiet'
  BY <1>25 DEF Drop, Link, Quiet
<1> QED
  BY Steps, <1>1, <1>2, <1>3, <1>4, <1>5, <1>6, <1>7, <1>8, <1>9, <1>10, <1>11,
     <1>12, <1>13, <1>14, <1>15, <1>16, <1>17, <1>18, <1>19, <1>20, <1>21,
     <1>22, <1>23, <1>24, <1>25

\* Nobody but the one restore replays a dump.
LEMMA LandedStep ==
  ASSUME TypeOK, Shapes, Held, OwnDump, Landed, [Next]_vars
  PROVE  Landed'
<1>1. ASSUME NEW u \in Uploads, Send(u) PROVE Landed'
  <2>1. UNCHANGED db
    BY <1>1 DEF Send
  <2>2. \A t \in Uploads :
          \/ req'[t].pc = req[t].pc /\ req'[t].ok = req[t].ok
          \/ req'[t].pc \notin {"serve", "start", "free"}
    BY <1>1, Routes DEF Moved
  <2> QED
    BY <2>1, <2>2 DEF Landed
<1>2. ASSUME NEW u \in Uploads, ReadAge(u) PROVE Landed'
  <2>1. UNCHANGED db
    BY <1>2 DEF ReadAge
  <2>2. \A t \in Uploads :
          \/ req'[t].pc = req[t].pc /\ req'[t].ok = req[t].ok
          \/ req'[t].pc \notin {"serve", "start", "free"}
    BY <1>2, Routes DEF Moved
  <2> QED
    BY <2>1, <2>2 DEF Landed
<1>3. ASSUME NEW u \in Uploads, Clear(u) PROVE Landed'
  <2>1. UNCHANGED db
    BY <1>3 DEF Clear
  <2>2. \A t \in Uploads :
          \/ req'[t].pc = req[t].pc /\ req'[t].ok = req[t].ok
          \/ req'[t].pc \notin {"serve", "start", "free"}
    BY <1>3, Routes DEF Moved
  <2> QED
    BY <2>1, <2>2 DEF Landed
<1>4. ASSUME NEW u \in Uploads, Create(u) PROVE Landed'
  <2>1. UNCHANGED db
    BY <1>4 DEF Create
  <2>2. \A t \in Uploads :
          \/ req'[t].pc = req[t].pc /\ req'[t].ok = req[t].ok
          \/ req'[t].pc \notin {"serve", "start", "free"}
    BY <1>4, Routes DEF Moved
  <2> QED
    BY <2>1, <2>2 DEF Landed
<1>5. ASSUME NEW u \in Uploads, Stamp(u) PROVE Landed'
  <2>1. UNCHANGED db
    BY <1>5 DEF Stamp
  <2>2. \A t \in Uploads :
          \/ req'[t].pc = req[t].pc /\ req'[t].ok = req[t].ok
          \/ req'[t].pc \notin {"serve", "start", "free"}
    BY <1>5, Routes DEF Moved
  <2> QED
    BY <2>1, <2>2 DEF Landed
<1>6. ASSUME NEW u \in Uploads, Check(u) PROVE Landed'
  <2>1. UNCHANGED db
    BY <1>6 DEF Check
  <2>2. \A t \in Uploads :
          \/ req'[t].pc = req[t].pc /\ req'[t].ok = req[t].ok
          \/ req'[t].pc \notin {"serve", "start", "free"}
    BY <1>6, Routes DEF Moved
  <2> QED
    BY <2>1, <2>2 DEF Landed
<1>7. ASSUME NEW u \in Uploads, Save(u) PROVE Landed'
  <2>1. UNCHANGED db
    BY <1>7 DEF Save
  <2>2. \A t \in Uploads :
          \/ req'[t].pc = req[t].pc /\ req'[t].ok = req[t].ok
          \/ req'[t].pc \notin {"serve", "start", "free"}
    BY <1>7, Saving
  <2> QED
    BY <2>1, <2>2 DEF Landed
<1>8. ASSUME NEW u \in Uploads, Join(u) PROVE Landed'
  <2>1. UNCHANGED db
    BY <1>8 DEF Join
  <2>2. \A t \in Uploads :
          \/ req'[t].pc = req[t].pc /\ req'[t].ok = req[t].ok
          \/ req'[t].pc \notin {"serve", "start", "free"}
    BY <1>8, Joining
  <2> QED
    BY <2>1, <2>2 DEF Landed
<1>9. ASSUME NEW u \in Uploads, StopWorkers(u) PROVE Landed'
  <2>1. UNCHANGED db
    BY <1>9 DEF StopWorkers
  <2>2. \A t \in Uploads :
          \/ req'[t].pc = req[t].pc /\ req'[t].ok = req[t].ok
          \/ req'[t].pc \notin {"serve", "start", "free"}
    BY <1>9, Routes DEF Moved
  <2> QED
    BY <2>1, <2>2 DEF Landed
<1>10. ASSUME NEW u \in Uploads, Spawn(u) PROVE Landed'
  <2>1. UNCHANGED db
    BY <1>10 DEF Spawn
  <2>2. \A t \in Uploads :
          \/ req'[t].pc = req[t].pc /\ req'[t].ok = req[t].ok
          \/ req'[t].pc \notin {"serve", "start", "free"}
    BY <1>10, Routes DEF Moved
  <2> QED
    BY <2>1, <2>2 DEF Landed
<1>11. ASSUME NEW u \in Uploads, Undo(u) PROVE Landed'
  <2>1. UNCHANGED db
    BY <1>11 DEF Undo
  <2>2. \A t \in Uploads :
          \/ req'[t].pc = req[t].pc /\ req'[t].ok = req[t].ok
          \/ req'[t].pc \notin {"serve", "start", "free"}
    BY <1>11, Routes DEF Moved
  <2> QED
    BY <2>1, <2>2 DEF Landed
<1>12. ASSUME NEW u \in Uploads, Release(u) PROVE Landed'
  <2>1. UNCHANGED db
    BY <1>12 DEF Release
  <2>2. \A t \in Uploads :
          \/ req'[t].pc = req[t].pc /\ req'[t].ok = req[t].ok
          \/ req'[t].pc \notin {"serve", "start", "free"}
    BY <1>12, Routes DEF Moved
  <2> QED
    BY <2>1, <2>2 DEF Landed
<1>13. ASSUME NEW u \in Uploads, Begin(u) PROVE Landed'
  <2>1. UNCHANGED db
    BY <1>13 DEF Begin
  <2>2. \A t \in Uploads :
          \/ req'[t].pc = req[t].pc /\ req'[t].ok = req[t].ok
          \/ req'[t].pc \notin {"serve", "start", "free"}
    BY <1>13, Beginning
  <2> QED
    BY <2>1, <2>2 DEF Landed
<1>14. ASSUME NEW u \in Uploads, Abort(u) PROVE Landed'
  <2>1. UNCHANGED db
    BY <1>14 DEF Abort
  <2>2. \A t \in Uploads :
          \/ req'[t].pc = req[t].pc /\ req'[t].ok = req[t].ok
          \/ req'[t].pc \notin {"serve", "start", "free"}
    BY <1>14, Routes DEF Moved
  <2> QED
    BY <2>1, <2>2 DEF Landed
<1>15. ASSUME NEW u \in Uploads, Reopen(u) PROVE Landed'
  <2>1. UNCHANGED db
    BY <1>15 DEF Reopen
  <2>2. \A t \in Uploads :
          \/ req'[t].pc = req[t].pc /\ req'[t].ok = req[t].ok
          \/ req'[t].pc \notin {"serve", "start", "free"}
    BY <1>15, Routes DEF Moved
  <2> QED
    BY <2>1, <2>2 DEF Landed
<1>16. ASSUME NEW u \in Uploads, Replay(u) PROVE Landed'
  <2>1. req[u].pc \in Relying
    BY <1>16 DEF Replay, Relying, Detached
  <2>2. \A t \in Uploads \ {u} : req'[t].pc = req[t].pc \/ req'[t].pc = "over"
    BY <1>16, Replaying
  <2>3. \A t \in Uploads \ {u} : req'[t].pc \notin {"spawn", "begin", "psql", "serve", "start", "free"}
    BY <2>1, <2>2, Elsewhere
  <2>4. req[u].dump = {u}
    BY <1>16 DEF Replay, OwnDump, Restoring, Detached
  <2>5. db' = [from |-> {u}, whole |-> req'[u].ok] /\ req'[u].ok \in BOOLEAN
    BY <1>16, <2>4, Replaying
  <2> QED
    BY <2>3, <2>5 DEF Landed
<1>17. ASSUME NEW u \in Uploads, ReplayFails(u) PROVE Landed'
  <2>1. req[u].pc \in Relying
    BY <1>17 DEF ReplayFails, Relying, Detached
  <2>2. \A t \in Uploads \ {u} : req'[t].pc = req[t].pc \/ req'[t].pc = "over"
    BY <1>17, Routes DEF Moved
  <2>3. \A t \in Uploads \ {u} : req'[t].pc \notin {"spawn", "begin", "psql", "serve", "start", "free"}
    BY <2>1, <2>2, Elsewhere
  <2>4. ~req'[u].ok
    <3>1. req[u].pc = "psql" /\ Moved(u, "serve")
      BY <1>17, Routes
    <3>2. ~req[u].ok
      BY <3>1 DEF Shapes
    <3> QED
      BY <3>1, <3>2 DEF Moved
  <2> QED
    BY <2>3, <2>4 DEF Landed
<1>18. ASSUME NEW u \in Uploads, Serve(u) PROVE Landed'
  <2>1. req[u].pc \in Relying
    BY <1>18 DEF Serve, Relying, Detached
  <2>2. \A t \in Uploads \ {u} : req'[t].pc = req[t].pc \/ req'[t].pc = "over"
    BY <1>18, Returning
  <2>3. \A t \in Uploads \ {u} : req'[t].pc \notin {"spawn", "begin", "psql", "serve", "start", "free"}
    BY <2>1, <2>2, Elsewhere
  <2>4. UNCHANGED db /\ req[u].pc \in {"serve", "start"} /\ req'[u].ok = req[u].ok
    BY <1>18, Returning DEF Serve
  <2> QED
    BY <2>3, <2>4 DEF Landed
<1>19. ASSUME NEW u \in Uploads, Start(u) PROVE Landed'
  <2>1. req[u].pc \in Relying
    BY <1>19 DEF Start, Relying, Detached
  <2>2. \A t \in Uploads \ {u} : req'[t].pc = req[t].pc \/ req'[t].pc = "over"
    BY <1>19, Returning
  <2>3. \A t \in Uploads \ {u} : req'[t].pc \notin {"spawn", "begin", "psql", "serve", "start", "free"}
    BY <2>1, <2>2, Elsewhere
  <2>4. UNCHANGED db /\ req[u].pc \in {"serve", "start"} /\ req'[u].ok = req[u].ok
    BY <1>19, Returning DEF Start
  <2> QED
    BY <2>3, <2>4 DEF Landed
<1>20. ASSUME NEW u \in Uploads, Free(u) PROVE Landed'
  <2>1. req[u].pc \in Relying
    BY <1>20 DEF Free, Relying, Detached
  <2>2. \A t \in Uploads \ {u} : req'[t].pc = req[t].pc \/ req'[t].pc = "over"
    BY <1>20, Routes DEF Moved
  <2>3. \A t \in Uploads \ {u} : req'[t].pc \notin {"spawn", "begin", "psql", "serve", "start", "free"}
    BY <2>1, <2>2, Elsewhere
  <2>4. req'[u].pc = "over"
    BY <1>20, Routes DEF Moved
  <2> QED
    BY <2>3, <2>4 DEF Landed
<1>21. ASSUME NEW u \in Uploads, RunnerDies(u) PROVE Landed'
  <2>1. UNCHANGED db
    BY <1>21 DEF RunnerDies
  <2>2. \A t \in Uploads :
          \/ req'[t].pc = req[t].pc /\ req'[t].ok = req[t].ok
          \/ req'[t].pc \notin {"serve", "start", "free"}
    BY <1>21, Routes DEF Moved
  <2> QED
    BY <2>1, <2>2 DEF Landed
<1>22. ASSUME Expire PROVE Landed'
  BY <1>22 DEF Expire, Landed
<1>23. ASSUME WebDies PROVE Landed'
  <2>1. UNCHANGED <<flask, up, unheard, db>>
    BY <1>23 DEF WebDies, held, fleet
  <2>2. \A t \in Uploads :
          \/ req'[t].pc = req[t].pc /\ req'[t].ok = req[t].ok /\ req'[t].dump = req[t].dump
          \/ req'[t].pc \notin {"spawn", "begin", "psql", "serve", "start", "free"}
    BY <1>23, Dying DEF Ended
  <2> QED
    BY <2>1, <2>2, Bystanding
<1>24. CASE UNCHANGED vars
  BY <1>24 DEF vars, services, held, fleet, Landed
<1>25. ASSUME NEW c \in Containers, Drop(c) \/ Link(c) PROVE Landed'
  BY <1>25 DEF Drop, Link, Landed
<1> QED
  BY Steps, <1>1, <1>2, <1>3, <1>4, <1>5, <1>6, <1>7, <1>8, <1>9, <1>10, <1>11,
     <1>12, <1>13, <1>14, <1>15, <1>16, <1>17, <1>18, <1>19, <1>20, <1>21,
     <1>22, <1>23, <1>24, <1>25

\* Nobody is under way any more, or was a moment ago: there is nothing to show.
LEMMA Nobody ==
  ASSUME TypeOK, Shapes, UnderWay = {}
  PROVE  Secure
<1>1. \A u \in Uploads : ~Begun(u)
  BY DEF UnderWay
<1> USE <1>1 DEF Begun, Taking
<1>2. Held
  BY DEF Held, Relying, Detached
<1>3. OwnPieces
  <2>1. ASSUME NEW u \in Uploads PROVE ~Midway(u)
    <3>1. req[u].chunk \in Nat
      BY Requests DEF Request
    <3> QED
      BY <3>1 DEF Midway, Shapes
  <2> QED
    BY <2>1 DEF OwnPieces
<1>4. OwnDump /\ Quiet /\ Landed
  BY DEF OwnDump, Quiet, Landed, Restoring, Detached
<1> QED
  BY <1>2, <1>3, <1>4 DEF Secure

LEMMA Inductive ==
  ASSUME TypeOK, IInv, [Next]_vars
  PROVE  IInv' /\ TypeOK'
<1>1. TypeOK' /\ Shapes'
  BY TypeStep DEF IInv
<1>2. Spreads
  BY SpreadStep DEF IInv
<1>3. ASSUME Apart', Apart PROVE Secure'
  BY <1>3, HeldStep, OwnPiecesStep, OwnDumpStep, QuietStep, LandedStep DEF IInv, Secure
<1>4. ASSUME Apart', ~Apart PROVE Secure'
  <2>1. UnderWay' = {}
    BY <1>2, <1>4 DEF Spreads, Apart
  <2>2. TypeOK /\ Shapes /\ UnderWay = {} => Secure
    BY Nobody
  <2>3. (TypeOK /\ Shapes /\ UnderWay = {} => Secure)'
    BY Nobody, PTL
  <2> QED
    BY <1>1, <2>1, <2>3
<1> QED
  BY <1>1, <1>2, <1>3, <1>4 DEF IInv, Spreads

LEMMA Invariantly == Spec => [](TypeOK /\ IInv)
<1>1. Init => TypeOK /\ IInv
  BY Initial
<1>2. (TypeOK /\ IInv) /\ [Next]_vars => (TypeOK /\ IInv)'
  BY Inductive
<1> QED
  BY <1>1, <1>2, PTL DEF Spec

\* Two restores are at work side by side only after the lock was lost: to another
\* that unlinked it, to one that went on without its own, or by a runner that
\* stopped refreshing it.
THEOREM OneAtATime == Spec => []OneRestore
<1>1. TypeOK /\ IInv => OneRestore
  <2> SUFFICES ASSUME TypeOK, IInv,
                      NEW t \in Uploads, NEW u \in Uploads, t # u,
                      req[t].pc \in Restoring, req[u].pc \in Restoring
               PROVE  {t, u} \subseteq crowded
    BY DEF OneRestore
  <2>1. ~Apart
    BY DEF IInv, Secure, Held, Restoring, Relying
  <2>2. Begun(t) /\ Begun(u)
    BY DEF Begun, Restoring, Detached
  <2> QED
    BY <2>1, <2>2 DEF IInv, Spread, UnderWay
<1> QED
  BY <1>1, Invariantly, PTL

\* psql runs for a restore that is not crowded only while neither Flask nor any
\* worker may write whose container could hear the stop.
THEOREM ReplaysInQuiet == Spec => []QuietReplay
<1>1. IInv => QuietReplay
  <2> SUFFICES ASSUME IInv, NEW u \in Uploads \ crowded, req[u].pc = "psql"
               PROVE  ~flask /\ up \subseteq unheard
    BY DEF QuietReplay
  <2>1. Apart
    BY DEF IInv, Spread, UnderWay, Begun
  <2> QED
    BY <2>1 DEF IInv, Secure, Quiet
<1> QED
  BY <1>1, Invariantly, PTL

\* A restore that is not crowded and reports success restored the whole of its own
\* upload.
THEOREM SuccessIsWhole == Spec => CompletedIsWhole
<1> DEFINE Step ==
      \A u \in Uploads \ crowded :
        verdict[u] # "completed" /\ verdict'[u] = "completed"
          => db = [from |-> {u}, whole |-> TRUE]
<1>3. TypeOK /\ IInv /\ [Next]_vars => [Step]_vars
  <2> SUFFICES ASSUME TypeOK, IInv, Next PROVE Step
    OBVIOUS
  <2>1. ASSUME NEW u \in Uploads, verdict[u] # "completed", verdict'[u] = "completed"
        PROVE  Free(u)
    <3>1. verdict \in [Uploads -> {"none", "aborted", "failed", "degraded", "completed"}]
      BY DEF TypeOK
    <3>2. \A t \in Uploads : Free(t) => (t = u \/ verdict'[u] = verdict[u])
      BY <3>1 DEF Free
    <3>3. \A t \in Uploads : ~Reopen(t)
      BY <2>1, <3>1 DEF Reopen
    <3>4. ~UNCHANGED verdict
      BY <2>1
    <3>5. PICK t \in Uploads : Free(t)
      BY <3>3, <3>4, Steps DEF Send, ReadAge, Clear, Create, Stamp, Check, Save,
         Join,
         StopWorkers, Spawn, Undo, Release, Begin, Abort, Replay, ReplayFails, Serve,
         Start, RunnerDies, Expire, WebDies, Drop, Link
    <3> QED
      BY <2>1, <3>2, <3>5
  <2>2. ASSUME NEW u \in Uploads \ crowded, Free(u), verdict[u] # "completed", verdict'[u] = "completed"
        PROVE  db = [from |-> {u}, whole |-> TRUE]
    <3>1. verdict \in [Uploads -> {"none", "aborted", "failed", "degraded", "completed"}]
      BY DEF TypeOK
    <3>2. req[u].pc = "free" /\ req[u].ok
      BY <2>2, <3>1 DEF Free
    <3>3. Apart
      BY <3>2 DEF IInv, Spread, UnderWay, Begun
    <3> QED
      BY <3>2, <3>3 DEF IInv, Secure, Landed
  <2> QED
    BY <2>1, <2>2
<1> QED
  BY <1>3, Invariantly, PTL DEF Spec, CompletedIsWhole
===============================================================================
