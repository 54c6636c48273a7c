---------------------------- MODULE DeletionProofs ----------------------------
(***************************************************************************)
(* Proofs about who removes a publication of module Publishing, about what *)
(* a deletion leaves behind, and about what becomes of what was accepted.  *)
(***************************************************************************)
EXTENDS PublishingProofs

-----------------------------------------------------------------------------
(* Only the owner's requests remove records. *)

Working == {"mark", "render", "put", "finish", "cleanup", "fail"}

\* Whoever has a copy of a record has it with the record's project, so that
\* writing it back does not hand the publication to somebody else.
ProjectIsFixed ==
  /\ \A r \in Reqs : req[r].pc # "idle" /\ db[req[r].id] # NoDoc
       => db[req[r].id].project = req[r].doc.project
  /\ worker.pc \in Working /\ db[worker.task] # NoDoc
       => db[worker.task].project = worker.doc.project

\* A request that goes on to remove a record was found to own the project of
\* the copy it has read.
DeleterOwns ==
  \A r \in Reqs : req[r].pc = "delete" => req[r].user = Owner[req[r].doc.project]

OwnerInv == ProjectIsFixed /\ DeleterOwns

LEMMA OwnerInit == Init => OwnerInv
BY DEF Init, OwnerInv, ProjectIsFixed, DeleterOwns, Working, IdleReq, IdleWorker

\* A copy that replaces the record leaves its project as it is.
LEMMA ProjectOfUpdate ==
  ASSUME TypeInv, OwnerInv, NEW pub \in Pubs, NEW doc \in Docs, NEW o,
         Update(pub, doc, o), db[pub] # NoDoc => doc.project = db[pub].project
  PROVE  \A id \in Pubs : db'[id] # NoDoc => /\ db[id] # NoDoc
                                             /\ db'[id].project = db[id].project
BY DEF Update, TypeInv, TypeOK

\* So do steps that write no record but move requests and the worker on.
LEMMA OwnerKept ==
  ASSUME TypeInv, OwnerInv,
         \A id \in Pubs : db'[id] # NoDoc => /\ db[id] # NoDoc
                                             /\ db'[id].project = db[id].project,
         \A r \in Reqs : req'[r].pc # "idle" =>
           /\ req[r].pc # "idle"
           /\ req'[r].id = req[r].id /\ req'[r].doc = req[r].doc
           /\ req'[r].user = req[r].user
           /\ req'[r].pc = "delete" => req[r].pc = "delete",
         worker'.pc \in Working =>
           /\ worker.pc \in Working /\ worker'.task = worker.task
           /\ worker'.doc.project = worker.doc.project
  PROVE  OwnerInv'
<1> USE DEF OwnerInv, TypeInv
<1>1. DeleterOwns'
  BY DEF DeleterOwns
<1>2. ASSUME NEW r \in Reqs, req'[r].pc # "idle", db'[req'[r].id] # NoDoc
      PROVE  db'[req'[r].id].project = req'[r].doc.project
  BY <1>2 DEF ProjectIsFixed, ReqBound
<1>3. ASSUME worker'.pc \in Working, db'[worker'.task] # NoDoc
      PROVE  db'[worker'.task].project = worker'.doc.project
  BY <1>3 DEF ProjectIsFixed, WorkerBound, Working
<1>4. QED
  BY <1>1, <1>2, <1>3 DEF ProjectIsFixed

LEMMA OwnerNext == TypeInv /\ QueueInv /\ OwnerInv /\ [Next]_vars => OwnerInv'
<1> SUFFICES ASSUME TypeInv, QueueInv, OwnerInv, [Next]_vars PROVE OwnerInv'
  OBVIOUS
<1> DEFINE RecordsStay ==
             \A id \in Pubs : db'[id] # NoDoc => /\ db[id] # NoDoc
                                                 /\ db'[id].project = db[id].project
           RequestsStay ==
             \A r \in Reqs : req'[r].pc # "idle" =>
               /\ req[r].pc # "idle"
               /\ req'[r].id = req[r].id /\ req'[r].doc = req[r].doc
               /\ req'[r].user = req[r].user
               /\ req'[r].pc = "delete" => req[r].pc = "delete"
           WorkerStays ==
             worker'.pc \in Working =>
               /\ worker.pc \in Working /\ worker'.task = worker.task
               /\ worker'.doc.project = worker.doc.project
<1> USE DEF TypeInv, OwnerInv
<1>0. ASSUME RecordsStay, RequestsStay, WorkerStays PROVE OwnerInv'
  BY <1>0, OwnerKept
<1>1. ASSUME NEW r \in Reqs, NEW u \in Users, NEW p \in Projects, NEW id \in Pubs,
             NEW o \in Outcomes, CreateInsert(r, u, p, id, o)
      PROVE  OwnerInv'
  <2>1. worker.pc \notin {"idle", "stopped"} => worker.task # id
    BY <1>1 DEF CreateInsert, QueueInv, MintedFirst, TaskIsQueued
  <2>2. \A q \in Reqs : req[q].pc # "idle" => req[q].id # id
    BY <1>1 DEF CreateInsert, QueueInv, MintedFirst
  <2>3. /\ worker' = worker
        /\ \A k \in Pubs \ {id} : db'[k] = db[k]
        /\ \A q \in Reqs \ {r} : req'[q] = req[q]
        /\ \/ req'[r] = req[r] /\ req[r].pc = "idle"
           \/ /\ req'[r].pc = "publish" /\ req'[r].id = id /\ req'[r].doc.project = p
              /\ db'[id].project = p
    BY <1>1 DEF CreateInsert, TypeOK, Took
  <2>4. DeleterOwns'
    BY <2>3 DEF DeleterOwns
  <2>5. worker.pc \in Working => worker.task \in Pubs \ {id}
    BY <2>1 DEF Working, WorkerBound
  <2>6. ProjectIsFixed'
    BY <2>2, <2>3, <2>5 DEF ProjectIsFixed, ReqBound
  <2>7. QED
    BY <2>4, <2>6
<1>2. ASSUME NEW r \in Reqs, NEW u \in Users, NEW p \in Projects, NEW id \in Pubs,
             DeleteGet(r, u, p, id)
      PROVE  OwnerInv'
  BY <1>2 DEF DeleteGet, ProjectIsFixed, DeleterOwns, TypeOK
<1>3. ASSUME NEW r \in Reqs, NEW o \in Outcomes \cup {"drop"}, CreatePublish(r, o)
      PROVE  OwnerInv'
  <2>1. RecordsStay /\ RequestsStay /\ WorkerStays
    BY <1>3 DEF CreatePublish, TypeOK, IdleReq
  <2>2. QED
    BY <1>0, <2>1
<1>4. ASSUME NEW r \in Reqs, NEW o \in Outcomes, CreateReject(r, o)
      PROVE  OwnerInv'
  <2> DEFINE doc == [req[r].doc EXCEPT !.status = "FAILED"]
  <2>1. doc \in Docs /\ doc.project = req[r].doc.project /\ req[r].id \in Pubs
    BY <1>4 DEF CreateReject, ReqBound, Docs, Statuses
  <2>2. RecordsStay
    BY <1>4, <2>1, ProjectOfUpdate DEF CreateReject, ProjectIsFixed
  <2>3. RequestsStay /\ WorkerStays
    BY <1>4 DEF CreateReject, TypeOK, IdleReq
  <2>4. QED
    BY <1>0, <2>2, <2>3
<1>5. ASSUME NEW r \in Reqs, NEW o \in Outcomes, DeleteDoc(r, o)
      PROVE  OwnerInv'
  <2>1. RecordsStay
    BY <1>5 DEF DeleteDoc, TypeOK, ReqBound
  <2>2. RequestsStay /\ WorkerStays
    BY <1>5 DEF DeleteDoc, TypeOK, IdleReq
  <2>3. QED
    BY <1>0, <2>1, <2>2
<1>6. ASSUME NEW r \in Reqs, NEW o \in Outcomes, DeleteBundle(r, o)
      PROVE  OwnerInv'
  <2>1. RecordsStay /\ RequestsStay /\ WorkerStays
    BY <1>6 DEF DeleteBundle, TypeOK, IdleReq
  <2>2. QED
    BY <1>0, <2>1
<1>7. ASSUME NEW r \in Reqs, NEW kept \in SUBSET Files, DeleteBundlePartly(r, kept)
      PROVE  OwnerInv'
  <2>1. RecordsStay /\ RequestsStay /\ WorkerStays
    BY <1>7 DEF DeleteBundlePartly, TypeOK, IdleReq
  <2>2. QED
    BY <1>0, <2>1
<1>8. ASSUME NEW r \in Reqs, DeletePurge(r)
      PROVE  OwnerInv'
  <2>1. RecordsStay /\ RequestsStay /\ WorkerStays
    BY <1>8 DEF DeletePurge, TypeOK, IdleReq
  <2>2. QED
    BY <1>0, <2>1
<1>9. CASE \/ \E id \in Pubs : Receive(id)
           \/ StopConsuming \/ Nack \/ Ack
  <2>1. /\ UNCHANGED <<db, req>>
        /\ worker'.pc \in {"get", "stopped", "idle"}
    <3>1. ASSUME NEW id \in Pubs, Receive(id)
          PROVE  UNCHANGED <<db, req>> /\ worker'.pc = "get"
      BY <3>1 DEF Receive, IdleWorker
    <3>2. CASE StopConsuming
      BY <3>2 DEF StopConsuming, Goto, TypeOK
    <3>3. CASE Nack \/ Ack
      BY <3>3 DEF Nack, Ack, IdleWorker
    <3>4. QED
      BY <1>9, <3>1, <3>2, <3>3
  <2>2. RecordsStay /\ RequestsStay /\ WorkerStays
    BY <2>1 DEF Working
  <2>3. QED
    BY <1>0, <2>2
<1>10. ASSUME NEW o \in Outcomes, ProcessGet(o)
       PROVE  OwnerInv'
  BY <1>10 DEF ProcessGet, ProjectIsFixed, DeleterOwns, Working, TypeOK, Outcomes
<1>11. ASSUME NEW o \in Outcomes, NEW status \in {"PROCESSING", "FINISHED", "FAILED"},
              NEW doc \in {[worker.doc EXCEPT !.status = status],
                           [worker.doc EXCEPT !.status = status, !.assets = TRUE]},
              worker.pc \in Working, Update(worker.task, doc, o),
              worker'.task = worker.task, worker'.doc = doc, UNCHANGED req
       PROVE  OwnerInv'
  <2>1. worker.task \in Pubs /\ worker.doc \in Docs
    BY <1>11 DEF WorkerBound, Working
  <2>2. doc \in Docs /\ doc.project = worker.doc.project
    BY <1>11, <2>1 DEF Docs, Statuses
  <2>3. RecordsStay
    BY <1>11, <2>1, <2>2, ProjectOfUpdate DEF ProjectIsFixed
  <2>4. RequestsStay /\ WorkerStays
    BY <1>11, <2>2
  <2>5. QED
    BY <1>0, <2>3, <2>4
<1>12. ASSUME NEW o \in Outcomes, ProcessMark(o) \/ ProcessFinish(o) \/ ProcessFail(o)
       PROVE  OwnerInv'
  BY <1>11, <1>12 DEF ProcessMark, ProcessFinish, ProcessFail, Working, TypeOK
<1>13. ASSUME NEW o \in Outcomes, \/ ProcessRender(o) \/ ProcessCleanup(o)
                                  \/ \E f \in Files : PutObject(f, o)
       PROVE  OwnerInv'
  <2>1. RecordsStay /\ RequestsStay /\ WorkerStays
    BY <1>13 DEF ProcessRender, ProcessCleanup, PutObject, Goto, Working, TypeOK
  <2>2. QED
    BY <1>0, <2>1
<1>14. CASE Environment
  <2>1. RecordsStay
    BY <1>14
       DEF Environment, EditDraft, Expire, LoseConnection, Shutdown, Exit, Crash, Restart,
           TypeOK
  <2>2. \/ UNCHANGED <<req, worker>>
        \/ req' = [r \in Reqs |-> IdleReq] /\ worker' = IdleWorker
    BY <1>14
       DEF Environment, EditDraft, Expire, LoseConnection, Shutdown, Exit, Crash, Restart
  <2>3. RequestsStay /\ WorkerStays
    BY <2>2 DEF IdleReq, IdleWorker, Working
  <2>4. QED
    BY <1>0, <2>1, <2>3
<1>15. CASE UNCHANGED vars
  <2>1. RecordsStay /\ RequestsStay /\ WorkerStays
    BY <1>15 DEF vars
  <2>2. QED
    BY <1>0, <2>1
<1>16. QED
  BY <1>1, <1>2, <1>3, <1>4, <1>5, <1>6, <1>7, <1>8, <1>9, <1>10, <1>12, <1>13, <1>14, <1>15
     DEF Next, NextButPurge, NewRequest, Serve, Worker

OwnerRemoves ==
  \A id \in Pubs : db[id] # NoDoc /\ db'[id] = NoDoc
    => \/ budget'["ttl"] # budget["ttl"]
       \/ \E r \in Reqs : /\ req[r].pc = "delete" /\ req[r].id = id
                          /\ req[r].user = Owner[db[id].project]

\* Records go in two ways only: a request's DeleteDoc and the TTL monitor.
LEMMA OwnerRemovesStep == TypeInv /\ OwnerInv /\ [Next]_vars => OwnerRemoves
<1> SUFFICES ASSUME TypeInv, OwnerInv, [Next]_vars,
                    NEW id \in Pubs, db[id] # NoDoc, db'[id] = NoDoc
             PROVE  \/ budget'["ttl"] # budget["ttl"]
                    \/ \E r \in Reqs : /\ req[r].pc = "delete" /\ req[r].id = id
                                       /\ req[r].user = Owner[db[id].project]
  BY DEF OwnerRemoves
<1> USE DEF TypeInv
<1>1. ASSUME NEW pub \in Pubs, NEW doc \in Docs, NEW o, Update(pub, doc, o)
      PROVE  FALSE
  BY <1>1, ConstantsAssumption DEF Update, TypeOK
<1>2. ASSUME NEW r \in Reqs, NEW u \in Users, NEW p \in Projects, NEW pub \in Pubs
      PROVE  /\ ~ DeleteGet(r, u, p, pub)
             /\ \A o \in Outcomes : ~ CreateInsert(r, u, p, pub, o)
  <2> DEFINE doc == [project |-> p, status |-> "PENDING", assets |-> FALSE]
  <2>1. doc \in Docs
    BY DEF Docs, Statuses
  <2> HIDE DEF doc
  <2>2. doc # NoDoc
    BY <2>1, ConstantsAssumption
  <2>3. QED
    BY <2>2 DEF CreateInsert, DeleteGet, TypeOK, doc
<1>3. ~ \E r \in Reqs, o \in Outcomes : CreateReject(r, o)
  BY <1>1 DEF CreateReject, ReqBound, Docs, Statuses
<1>4. ~ \E o \in Outcomes : ProcessMark(o) \/ ProcessFinish(o) \/ ProcessFail(o)
  BY <1>1 DEF ProcessMark, ProcessFinish, ProcessFail, WorkerBound, Docs, Statuses
<1>5. CASE \E r \in Reqs, o \in Outcomes : DeleteDoc(r, o)
  BY <1>5 DEF DeleteDoc, OwnerInv, DeleterOwns, ProjectIsFixed, ReqBound, TypeOK
<1>6. CASE \E pub \in Pubs : Expire(pub)
  BY <1>6 DEF Expire, Spend, TypeOK, FaultKinds
<1>7. QED
  BY <1>2, <1>3, <1>4, <1>5, <1>6
     DEF Next, NextButPurge, NewRequest, Serve, Worker, Environment, CreatePublish, DeleteBundle,
         DeleteBundlePartly, DeletePurge, Receive, StopConsuming, ProcessGet,
         ProcessRender, PutObject, ProcessCleanup, Nack, Ack, EditDraft, LoseConnection,
         Shutdown, Exit, Crash, Restart, vars

\* Under every fault: a record that does not expire is removed by a request of
\* the user who owns the publication's project, although the record is looked
\* at one call before it is removed and written back by others meanwhile.
THEOREM OnlyOwnerDeletesHolds == Spec => OnlyOwnerDeletes
<1>1. TypeInv /\ OwnerInv /\ [Next]_vars => [OwnerRemoves]_vars
  BY OwnerRemovesStep
<1>2. QED
  BY <1>1, TypeInit, TypeNext, QueueInit, QueueNext, OwnerInit, OwnerNext, PTL
     DEF Spec, OnlyOwnerDeletes, OwnerRemoves

-----------------------------------------------------------------------------
(* An answered deletion has left nothing behind. *)

\* What the theorem assumes of S3: DeleteObjects reports what it left behind.
DeletionsReported == Budget["partial"] = 0

DeletesFinished(r) ==
  req[r].pc \in {"delete", "bundle", "purge"} /\ req[r].doc.status = "FINISHED"

\* The steps from which the worker still comes to write objects.
Writing == {"mark", "render", "put", "finish"}

FinishedHasPath == \A id \in Pubs : Status(id) = "FINISHED" => db[id].assets

WritesUnfinished == worker.pc \in Writing => Status(worker.task) # "FINISHED"

\* A publication that was FINISHED when a request to delete it read it: the
\* request knows of its bundle, and nobody takes it up again.
DeletedIsSettled ==
  \A r \in Reqs : DeletesFinished(r) =>
    /\ req[r].doc.assets
    /\ Status(req[r].id) \notin {"PENDING", "PROCESSING"}
    /\ worker.pc \in Writing => worker.task # req[r].id

DeletionInv == /\ budget["partial"] = 0
               /\ FinishedHasPath
               /\ WritesUnfinished
               /\ DeletedIsSettled
               /\ AnsweredDeletionIsComplete

LEMMA DeletionInit == DeletionsReported /\ Init => DeletionInv
BY DEF DeletionsReported, Init, DeletionInv, FinishedHasPath, WritesUnfinished, Status,
       DeletedIsSettled, DeletesFinished, AnsweredDeletionIsComplete, IdleReq, IdleWorker,
       Writing

\* The budget for objects that are left behind stays empty.
LEMMA NothingLeft ==
  ASSUME TypeInv, DeletionInv, [Next]_vars
  PROVE  budget'["partial"] = 0
<1> USE DEF TypeInv, TypeOK, DeletionInv
<1>1. ASSUME NEW k \in FaultKinds, Spend(k) PROVE budget'["partial"] = 0
  BY <1>1 DEF Spend, FaultKinds
<1>2. ASSUME NEW o \in Outcomes \cup {"drop"}, Call(o) \/ (o \in Outcomes /\ WorkerCall(o))
      PROVE  budget'["partial"] = 0
  BY <1>1, <1>2 DEF Call, WorkerCall, FaultKinds, Outcomes
<1>3. ASSUME NEW r \in Reqs, NewRequest(r) \/ Serve(r) \/ DeletePurge(r)
      PROVE  budget'["partial"] = 0
  BY <1>1, <1>2, <1>3, ZenonT(60)
     DEF NewRequest, Serve, CreateInsert, CreatePublish, CreateReject, DeleteGet, DeleteDoc,
         DeleteBundle, DeleteBundlePartly, DeletePurge, FaultKinds
<1>4. CASE Worker
  BY <1>2, <1>4
     DEF Worker, Receive, StopConsuming, ProcessGet, ProcessMark, ProcessRender, PutObject,
         ProcessFinish, ProcessCleanup, ProcessFail, Nack, Ack
<1>5. CASE Environment
  BY <1>1, <1>5
     DEF Environment, EditDraft, Expire, LoseConnection, Shutdown, Exit, Crash, FaultKinds
<1>6. QED
  BY <1>3, <1>4, <1>5 DEF Next, NextButPurge, vars

\* A step that lets no request begin, writes no object but of a publication at
\* work, and leaves records without giving them an open status.
LEMMA DeletionKept ==
  ASSUME TypeInv, DeletionInv, [Next]_vars,
         FinishedHasPath', WritesUnfinished',
         \A id \in Pubs : Status(id)' \in {"PENDING", "PROCESSING"} =>
           \/ Status(id) \in {"PENDING", "PROCESSING"}
           \/ worker.pc \in Writing /\ worker.task = id,
         \A r \in Reqs : req'[r].pc \in {"delete", "bundle", "purge"} =>
           /\ req[r].pc \in {"delete", "bundle", "purge"}
           /\ req'[r].id = req[r].id /\ req'[r].doc = req[r].doc
           /\ req'[r].pc = "purge" /\ req[r].doc.status = "FINISHED"
                => req[r].pc = "purge" \/ obj'[req[r].id] = NoObjects,
         worker'.pc \in Writing =>
           /\ worker'.task = worker.task
           /\ \/ worker.pc \in Writing
              \/ Status(worker.task) \in {"PENDING", "PROCESSING"},
         \A id \in Pubs : \/ obj'[id] \in {obj[id], NoObjects}
                          \/ worker.pc \in Writing /\ worker.task = id
  PROVE  DeletionInv'
<1> USE DEF TypeInv, DeletionInv
<1>1. DeletedIsSettled'
  BY DEF DeletedIsSettled, DeletesFinished, ReqBound
<1>2. AnsweredDeletionIsComplete'
  BY DEF AnsweredDeletionIsComplete, DeletedIsSettled, DeletesFinished, ReqBound
<1>3. QED
  BY <1>1, <1>2, NothingLeft

LEMMA DeletionNext == TypeInv /\ QueueInv /\ DeletionInv /\ [Next]_vars => DeletionInv'
<1> SUFFICES ASSUME TypeInv, QueueInv, DeletionInv, [Next]_vars PROVE DeletionInv'
  OBVIOUS
<1> DEFINE RecordsStay ==
             \A id \in Pubs : Status(id)' \in {"PENDING", "PROCESSING"} =>
               \/ Status(id) \in {"PENDING", "PROCESSING"}
               \/ worker.pc \in Writing /\ worker.task = id
           RequestsStay ==
             \A r \in Reqs : req'[r].pc \in {"delete", "bundle", "purge"} =>
               /\ req[r].pc \in {"delete", "bundle", "purge"}
               /\ req'[r].id = req[r].id /\ req'[r].doc = req[r].doc
               /\ req'[r].pc = "purge" /\ req[r].doc.status = "FINISHED"
                    => req[r].pc = "purge" \/ obj'[req[r].id] = NoObjects
           WorkerStays ==
             worker'.pc \in Writing =>
               /\ worker'.task = worker.task
               /\ \/ worker.pc \in Writing
                  \/ Status(worker.task) \in {"PENDING", "PROCESSING"}
           ObjectsStay ==
             \A id \in Pubs : \/ obj'[id] \in {obj[id], NoObjects}
                              \/ worker.pc \in Writing /\ worker.task = id
<1> USE DEF TypeInv, DeletionInv
<1>0. ASSUME FinishedHasPath', WritesUnfinished', RecordsStay, RequestsStay, WorkerStays,
             ObjectsStay
      PROVE  DeletionInv'
  BY <1>0, DeletionKept
<1>1. ASSUME NEW r \in Reqs, NEW u \in Users, NEW p \in Projects, NEW id \in Pubs,
             NEW o \in Outcomes, CreateInsert(r, u, p, id, o)
      PROVE  DeletionInv'
  <2>1. worker.pc \in Writing => worker.task \in Pubs \ {id}
    BY <1>1 DEF CreateInsert, QueueInv, MintedFirst, TaskIsQueued, Writing, WorkerBound
  <2>2. \A q \in Reqs : req[q].pc # "idle" => req[q].id \in Pubs \ {id}
    BY <1>1 DEF CreateInsert, QueueInv, MintedFirst, ReqBound
  <2>3. /\ UNCHANGED <<worker, obj>>
        /\ \A k \in Pubs \ {id} : Status(k)' = Status(k) /\ db'[k] = db[k]
        /\ db'[id] = db[id] \/ Status(id)' # "FINISHED"
        /\ \A q \in Reqs : req'[q] = req[q] \/ req'[q].pc = "publish"
    <3> DEFINE pub == [project |-> p, status |-> "PENDING", assets |-> FALSE]
    <3>1. pub.status = "PENDING"
      OBVIOUS
    <3>2. db' = db \/ db' = [db EXCEPT ![id] = pub]
      BY <1>1 DEF CreateInsert
    <3> HIDE DEF pub
    <3>3. \A k \in Pubs \ {id} : db'[k] = db[k]
      BY <3>2 DEF TypeOK
    <3>4. db'[id] = db[id] \/ db'[id] = pub
      BY <3>2 DEF TypeOK
    <3>5. UNCHANGED <<worker, obj>>
          /\ \A q \in Reqs : req'[q] = req[q] \/ req'[q].pc = "publish"
      BY <1>1 DEF CreateInsert, TypeOK
    <3>6. QED
      BY <3>1, <3>3, <3>4, <3>5 DEF Status
  <2>4. FinishedHasPath' /\ WritesUnfinished'
    BY <2>1, <2>3 DEF FinishedHasPath, WritesUnfinished, Status
  <2>5. DeletedIsSettled' /\ AnsweredDeletionIsComplete'
    BY <2>2, <2>3
       DEF DeletedIsSettled, DeletesFinished, AnsweredDeletionIsComplete
  <2>6. QED
    BY <2>4, <2>5, NothingLeft
<1>2. ASSUME NEW r \in Reqs, NEW u \in Users, NEW p \in Projects, NEW id \in Pubs,
             DeleteGet(r, u, p, id)
      PROVE  DeletionInv'
  <2>1. /\ UNCHANGED <<worker, obj, db>>
        /\ \A q \in Reqs \ {r} : req'[q] = req[q]
        /\ req'[r].pc = "delete" /\ req'[r].id = id /\ req'[r].doc = db[id]
        /\ Status(id) = db[id].status
    BY <1>2 DEF DeleteGet, TypeOK, Status
  <2>2. FinishedHasPath' /\ WritesUnfinished'
    BY <2>1 DEF FinishedHasPath, WritesUnfinished, Status
  <2>3. DeletedIsSettled' /\ AnsweredDeletionIsComplete'
    BY <2>1
       DEF DeletedIsSettled, DeletesFinished, AnsweredDeletionIsComplete, FinishedHasPath,
           WritesUnfinished, Status
  <2>4. QED
    BY <2>2, <2>3, NothingLeft
<1>3. ASSUME NEW r \in Reqs, NEW o \in Outcomes \cup {"drop"}, CreatePublish(r, o)
      PROVE  DeletionInv'
  <2>1. /\ UNCHANGED <<worker, obj, db>>
        /\ \A q \in Reqs : req'[q] = req[q] \/ req'[q].pc \in {"idle", "reject"}
    BY <1>3 DEF CreatePublish, TypeOK, IdleReq
  <2>2. FinishedHasPath' /\ WritesUnfinished' /\ RecordsStay /\ RequestsStay /\ WorkerStays
        /\ ObjectsStay
    BY <2>1 DEF FinishedHasPath, WritesUnfinished, Status
  <2>3. QED
    BY <1>0, <2>2
<1>4. ASSUME NEW r \in Reqs, NEW o \in Outcomes, CreateReject(r, o)
      PROVE  DeletionInv'
  <2>1. /\ UNCHANGED <<worker, obj>>
        /\ \A id \in Pubs : \/ db'[id] = db[id]
                            \/ db'[id] # NoDoc /\ db'[id].status = "FAILED"
        /\ \A q \in Reqs : req'[q] = req[q] \/ req'[q].pc = "idle"
    <3> DEFINE doc == [req[r].doc EXCEPT !.status = "FAILED"]
    <3>1. doc \in Docs /\ doc.status = "FAILED" /\ req[r].id \in Pubs
      BY <1>4 DEF CreateReject, ReqBound, Docs, Statuses
    <3>2. /\ UNCHANGED <<worker, obj>> /\ Update(req[r].id, doc, o)
          /\ \A q \in Reqs : req'[q] = req[q] \/ req'[q].pc = "idle"
      BY <1>4 DEF CreateReject, TypeOK, IdleReq
    <3> HIDE DEF doc
    <3>3. doc # NoDoc
      BY <3>1, ConstantsAssumption
    <3>4. QED
      BY <3>1, <3>2, <3>3 DEF Update, TypeOK
  <2>2. FinishedHasPath' /\ WritesUnfinished' /\ RecordsStay /\ RequestsStay /\ WorkerStays
        /\ ObjectsStay
    BY <2>1 DEF FinishedHasPath, WritesUnfinished, Status, Writing, WorkerBound
  <2>3. QED
    BY <1>0, <2>2
<1>5. ASSUME NEW r \in Reqs, NEW o \in Outcomes, DeleteDoc(r, o)
      PROVE  DeletionInv'
  <2>1. /\ UNCHANGED <<worker, obj>>
        /\ \A id \in Pubs : db'[id] = db[id] \/ db'[id] = NoDoc
        /\ \A q \in Reqs \ {r} : req'[q] = req[q]
        /\ \/ req'[r].pc = "idle"
           \/ /\ req'[r].id = req[r].id /\ req'[r].doc = req[r].doc
              /\ req'[r].pc = IF req[r].doc.assets THEN "bundle" ELSE "purge"
        /\ req[r].pc = "delete"
    BY <1>5 DEF DeleteDoc, TypeOK, ReqBound, IdleReq
  <2>2. FinishedHasPath' /\ WritesUnfinished' /\ RecordsStay /\ WorkerStays /\ ObjectsStay
    BY <2>1 DEF FinishedHasPath, WritesUnfinished, Status, Writing, WorkerBound
  <2>3. RequestsStay
    BY <2>1 DEF DeletedIsSettled, DeletesFinished
  <2>4. QED
    BY <1>0, <2>2, <2>3
<1>6. ASSUME NEW r \in Reqs, NEW o \in Outcomes, DeleteBundle(r, o)
      PROVE  DeletionInv'
  <2>1. /\ UNCHANGED <<worker, db>>
        /\ \A id \in Pubs : obj'[id] \in {obj[id], NoObjects}
        /\ \A q \in Reqs \ {r} : req'[q] = req[q]
        /\ \/ req'[r].pc = "idle"
           \/ /\ req'[r].id = req[r].id /\ req'[r].doc = req[r].doc
              /\ obj'[req[r].id] = NoObjects
        /\ req[r].pc = "bundle"
    BY <1>6 DEF DeleteBundle, Unlink, Took, TypeOK, ReqBound, IdleReq
  <2>2. FinishedHasPath' /\ WritesUnfinished' /\ RecordsStay /\ RequestsStay /\ WorkerStays
        /\ ObjectsStay
    BY <2>1 DEF FinishedHasPath, WritesUnfinished, Status
  <2>3. QED
    BY <1>0, <2>2
<1>7. ASSUME NEW r \in Reqs, NEW kept \in SUBSET Files, DeleteBundlePartly(r, kept)
      PROVE  DeletionInv'
  BY <1>7 DEF DeleteBundlePartly, Spend
<1>8. ASSUME NEW r \in Reqs, DeletePurge(r)
      PROVE  DeletionInv'
  <2>1. /\ UNCHANGED <<worker, obj, db>>
        /\ \A q \in Reqs : req'[q] = req[q] \/ req'[q].pc = "idle"
    BY <1>8 DEF DeletePurge, TypeOK, IdleReq
  <2>2. FinishedHasPath' /\ WritesUnfinished' /\ RecordsStay /\ RequestsStay /\ WorkerStays
        /\ ObjectsStay
    BY <2>1 DEF FinishedHasPath, WritesUnfinished, Status
  <2>3. QED
    BY <1>0, <2>2
<1>9. CASE \/ \E id \in Pubs : Receive(id)
           \/ StopConsuming \/ Nack \/ Ack
  <2>1. /\ UNCHANGED <<db, obj, req>>
        /\ worker'.pc \in {"get", "stopped", "idle"}
    <3>1. ASSUME NEW id \in Pubs, Receive(id)
          PROVE  UNCHANGED <<db, obj, req>> /\ worker'.pc = "get"
      BY <3>1 DEF Receive, IdleWorker
    <3>2. CASE StopConsuming
      BY <3>2 DEF StopConsuming, Goto, TypeOK
    <3>3. CASE Nack \/ Ack
      BY <3>3 DEF Nack, Ack, IdleWorker
    <3>4. QED
      BY <1>9, <3>1, <3>2, <3>3
  <2>2. FinishedHasPath' /\ WritesUnfinished' /\ RecordsStay /\ RequestsStay /\ WorkerStays
        /\ ObjectsStay
    BY <2>1 DEF FinishedHasPath, WritesUnfinished, Status, Writing
  <2>3. QED
    BY <1>0, <2>2
<1>10. ASSUME NEW o \in Outcomes, ProcessGet(o)
       PROVE  DeletionInv'
  <2>1. /\ UNCHANGED <<db, obj, req>>
        /\ worker'.task = worker.task
        /\ worker'.pc \in {"nack", "ack", "mark"}
        /\ worker'.pc = "mark" => Status(worker.task) \in {"PENDING", "PROCESSING"}
    BY <1>10 DEF ProcessGet, TypeOK, Outcomes, WorkerBound, Status, Docs, Statuses
  <2>2. FinishedHasPath' /\ WritesUnfinished' /\ RecordsStay /\ RequestsStay /\ WorkerStays
        /\ ObjectsStay
    BY <2>1 DEF FinishedHasPath, WritesUnfinished, Status, Writing
  <2>3. QED
    BY <1>0, <2>2
<1>11. ASSUME NEW o \in Outcomes, ProcessMark(o)
       PROVE  DeletionInv'
  <2>1. /\ UNCHANGED <<obj, req>>
        /\ worker.pc = "mark" /\ worker'.task = worker.task /\ worker.task \in Pubs
        /\ \A id \in Pubs \ {worker.task} : db'[id] = db[id]
        /\ \/ db'[worker.task] = db[worker.task]
           \/ db'[worker.task] # NoDoc /\ db'[worker.task].status = "PROCESSING"
    <3> DEFINE doc == [worker.doc EXCEPT !.status = "PROCESSING"]
    <3>1. doc \in Docs /\ doc.status = "PROCESSING" /\ worker.task \in Pubs
      BY <1>11 DEF ProcessMark, TypeOK, WorkerBound, Docs, Statuses
    <3>2. /\ UNCHANGED <<obj, req>> /\ Update(worker.task, doc, o)
          /\ worker.pc = "mark" /\ worker'.task = worker.task
      BY <1>11 DEF ProcessMark, TypeOK
    <3> HIDE DEF doc
    <3>3. doc # NoDoc
      BY <3>1, ConstantsAssumption
    <3>4. QED
      BY <3>1, <3>2, <3>3 DEF Update, TypeOK
  <2>2. FinishedHasPath' /\ WritesUnfinished' /\ RecordsStay /\ RequestsStay /\ WorkerStays
        /\ ObjectsStay
    BY <2>1 DEF FinishedHasPath, WritesUnfinished, Status, Writing
  <2>3. QED
    BY <1>0, <2>2
<1>12. ASSUME NEW o \in Outcomes, ProcessFinish(o)
       PROVE  DeletionInv'
  <2>1. /\ UNCHANGED <<obj, req>>
        /\ worker'.pc \in {"ack", "cleanup"} /\ worker.task \in Pubs
        /\ \A id \in Pubs \ {worker.task} : db'[id] = db[id]
        /\ \/ db'[worker.task] = db[worker.task]
           \/ /\ db'[worker.task].status = "FINISHED"
              /\ db'[worker.task].assets
    BY <1>12 DEF ProcessFinish, Update, TypeOK, WorkerBound, Docs, Statuses
  <2>2. FinishedHasPath' /\ WritesUnfinished' /\ RecordsStay /\ RequestsStay /\ WorkerStays
        /\ ObjectsStay
    BY <2>1 DEF FinishedHasPath, WritesUnfinished, Status, Writing
  <2>3. QED
    BY <1>0, <2>2
<1>13. ASSUME NEW o \in Outcomes, ProcessFail(o)
       PROVE  DeletionInv'
  <2>1. /\ UNCHANGED <<obj, req>>
        /\ worker'.pc = "nack" /\ worker.task \in Pubs
        /\ \A id \in Pubs \ {worker.task} : db'[id] = db[id]
        /\ db'[worker.task] = db[worker.task] \/ db'[worker.task].status = "FAILED"
    BY <1>13 DEF ProcessFail, Update, TypeOK, WorkerBound, Docs, Statuses
  <2>2. FinishedHasPath' /\ WritesUnfinished' /\ RecordsStay /\ RequestsStay /\ WorkerStays
        /\ ObjectsStay
    BY <2>1 DEF FinishedHasPath, WritesUnfinished, Status, Writing
  <2>3. QED
    BY <1>0, <2>2
<1>14. ASSUME NEW o \in Outcomes, ProcessRender(o) \/ \E f \in Files : PutObject(f, o)
       PROVE  DeletionInv'
  <2>1. /\ UNCHANGED <<db, req>>
        /\ worker.pc \in Writing /\ worker'.task = worker.task
        /\ \A id \in Pubs \ {worker.task} : obj'[id] = obj[id]
    BY <1>14 DEF ProcessRender, PutObject, Writing, TypeOK
  <2>2. FinishedHasPath' /\ WritesUnfinished' /\ RecordsStay /\ RequestsStay /\ WorkerStays
        /\ ObjectsStay
    BY <2>1 DEF FinishedHasPath, WritesUnfinished, Status, Writing
  <2>3. QED
    BY <1>0, <2>2
<1>15. ASSUME NEW o \in Outcomes, ProcessCleanup(o)
       PROVE  DeletionInv'
  <2>1. /\ UNCHANGED <<db, req>>
        /\ worker'.pc = "fail"
        /\ \A id \in Pubs : obj'[id] \in {obj[id], NoObjects}
    BY <1>15 DEF ProcessCleanup, Goto, Unlink, TypeOK, WorkerBound
  <2>2. FinishedHasPath' /\ WritesUnfinished' /\ RecordsStay /\ RequestsStay /\ WorkerStays
        /\ ObjectsStay
    BY <2>1 DEF FinishedHasPath, WritesUnfinished, Status, Writing
  <2>3. QED
    BY <1>0, <2>2
<1>16. CASE Environment \/ UNCHANGED vars
  <2>1. /\ UNCHANGED obj
        /\ \A id \in Pubs : db'[id] = db[id] \/ db'[id] = NoDoc
        /\ \A q \in Reqs : req'[q] = req[q] \/ req'[q].pc = "idle"
        /\ worker' = worker \/ worker'.pc = "idle"
    BY <1>16
       DEF Environment, EditDraft, Expire, LoseConnection, Shutdown, Exit, Crash, Restart,
           TypeOK, IdleReq, IdleWorker, vars
  <2>2. FinishedHasPath' /\ WritesUnfinished' /\ RecordsStay /\ RequestsStay /\ WorkerStays
        /\ ObjectsStay
    BY <2>1 DEF FinishedHasPath, WritesUnfinished, Status, Writing, WorkerBound
  <2>3. QED
    BY <1>0, <2>2
<1>17. QED
  BY <1>1, <1>2, <1>3, <1>4, <1>5, <1>6, <1>7, <1>8, <1>9, <1>10, <1>11, <1>12, <1>13, <1>14,
     <1>15, <1>16
     DEF Next, NextButPurge, NewRequest, Serve, Worker

\* While DeleteObjects reports what it left behind, and whatever else fails, is
\* lost, cancelled or restarted: a request that removed a FINISHED publication
\* is not answered as long as an object of it is there.
THEOREM AnsweredDeletionIsCompleteHolds ==
  DeletionsReported /\ Spec => []AnsweredDeletionIsComplete
<1>1. DeletionInv => AnsweredDeletionIsComplete
  BY DEF DeletionInv
<1>2. QED
  BY <1>1, TypeInit, TypeNext, QueueInit, QueueNext, DeletionInit, DeletionNext, PTL
     DEF Spec

-----------------------------------------------------------------------------
(* A publication that was accepted has its task. *)

\* What the theorem assumes: the broker keeps what was written to it.
NothingDropped == Budget["drop"] = 0

AcceptedInv == /\ budget["drop"] = 0
               /\ accepted \subseteq minted
               /\ AcceptedIsQueued

LEMMA AcceptedInit == NothingDropped /\ Init => AcceptedInv
BY DEF NothingDropped, Init, AcceptedInv, AcceptedIsQueued

\* Every action that spends a fault spends one of its kind.
LEMMA NothingMoreDropped ==
  ASSUME TypeInv, budget["drop"] = 0, [Next]_vars
  PROVE  budget'["drop"] = 0
<1> USE DEF TypeInv, TypeOK
<1>1. ASSUME NEW k \in FaultKinds, Spend(k)
      PROVE  budget'["drop"] = 0
  BY <1>1 DEF Spend, FaultKinds
<1>2. ASSUME NEW o \in Outcomes \cup {"drop"}, Call(o)
      PROVE  budget'["drop"] = 0
  BY <1>1, <1>2 DEF Call, Outcomes, FaultKinds
<1>3. ASSUME NEW o \in Outcomes, WorkerCall(o)
      PROVE  budget'["drop"] = 0
  BY <1>2, <1>3 DEF WorkerCall
<1>4. ASSUME NEW r \in Reqs, NewRequest(r) \/ Serve(r) \/ DeletePurge(r)
      PROVE  budget'["drop"] = 0
  <2>1. \/ UNCHANGED budget
        \/ \E o \in Outcomes \cup {"drop"} : Call(o)
        \/ Spend("partial")
    BY <1>4, ZenonT(60)
       DEF NewRequest, Serve, CreateInsert, CreatePublish, CreateReject, DeleteGet, DeleteDoc,
           DeleteBundle, DeleteBundlePartly, DeletePurge
  <2>2. QED
    BY <1>1, <1>2, <2>1 DEF FaultKinds
<1>5. CASE Worker
  <2>1. \/ UNCHANGED budget
        \/ \E o \in Outcomes : WorkerCall(o) \/ Call(o)
    BY <1>5, Zenon
       DEF Worker, Receive, StopConsuming, ProcessGet, ProcessMark, ProcessRender, PutObject,
           ProcessFinish, ProcessCleanup, ProcessFail, Nack, Ack
  <2>2. QED
    BY <1>2, <1>3, <2>1
<1>6. CASE Environment
  <2>1. UNCHANGED budget \/ \E k \in FaultKinds : Spend(k)
    BY <1>6, Zenon
       DEF Environment, EditDraft, Expire, LoseConnection, Shutdown, Exit, Crash, FaultKinds
  <2>2. QED
    BY <1>1, <2>1
<1>7. QED
  BY <1>4, <1>5, <1>6 DEF Next, NextButPurge, vars

\* Only an insertion makes a record PENDING.
LEMMA PendingIsOld ==
  ASSUME TypeInv, [Next]_vars, NEW pub \in Pubs, Status(pub)' = "PENDING"
  PROVE  Status(pub) = "PENDING" \/ pub \notin minted
<1> USE DEF TypeInv
<1>1. ASSUME NEW id \in Pubs, NEW doc \in Docs, NEW o,
             doc.status # "PENDING", Update(id, doc, o)
      PROVE  Status(pub) = "PENDING"
  BY <1>1 DEF Update, Status, TypeOK
<1>2. ASSUME NEW r \in Reqs, NEW u \in Users, NEW p \in Projects, NEW id \in Pubs,
             NEW o \in Outcomes, CreateInsert(r, u, p, id, o)
      PROVE  Status(pub) = "PENDING" \/ pub \notin minted
  <2>1. pub # id => Status(pub) = "PENDING"
    BY <1>2 DEF CreateInsert, Status, TypeOK
  <2>2. QED
    BY <1>2, <2>1 DEF CreateInsert
<1>3. ASSUME NEW r \in Reqs, NEW o \in Outcomes, CreateReject(r, o)
      PROVE  Status(pub) = "PENDING"
  <2>1. PICK doc \in Docs : doc.status # "PENDING" /\ Update(req[r].id, doc, o)
    BY <1>3 DEF CreateReject, ReqBound, Docs, Statuses
  <2>2. QED
    BY <1>1, <1>3, <2>1 DEF CreateReject, ReqBound
<1>4. ASSUME NEW o \in Outcomes, ProcessMark(o) \/ ProcessFinish(o) \/ ProcessFail(o)
      PROVE  Status(pub) = "PENDING"
  <2>1. worker.task \in Pubs /\ worker.doc \in Docs
    BY <1>4 DEF ProcessMark, ProcessFinish, ProcessFail, WorkerBound
  <2>2. PICK doc \in Docs : doc.status # "PENDING" /\ Update(worker.task, doc, o)
    BY <1>4, <2>1 DEF ProcessMark, ProcessFinish, ProcessFail, Docs, Statuses
  <2>3. QED
    BY <1>1, <2>1, <2>2
<1>5. ASSUME NEW r \in Reqs, NEW o \in Outcomes, DeleteDoc(r, o)
      PROVE  Status(pub) = "PENDING"
  BY <1>5, ConstantsAssumption DEF DeleteDoc, Status, TypeOK
<1>6. ASSUME NEW id \in Pubs, Expire(id)
      PROVE  Status(pub) = "PENDING"
  BY <1>6, ConstantsAssumption DEF Expire, Status, TypeOK
<1>7. UNCHANGED db => Status(pub) = "PENDING"
  BY DEF Status
<1>8. CASE Worker
  BY <1>4, <1>7, <1>8
     DEF Worker, Receive, StopConsuming, ProcessGet, ProcessRender, PutObject,
         ProcessCleanup, Nack, Ack
<1>9. CASE Environment
  BY <1>6, <1>7, <1>9
     DEF Environment, EditDraft, LoseConnection, Shutdown, Exit, Crash, Restart
<1>10. ASSUME NEW r \in Reqs, NewRequest(r) \/ Serve(r) \/ DeletePurge(r)
       PROVE  Status(pub) = "PENDING" \/ pub \notin minted
  BY <1>2, <1>3, <1>5, <1>7, <1>10
     DEF NewRequest, Serve, CreatePublish, DeleteGet, DeleteBundle, DeleteBundlePartly,
         DeletePurge
<1>11. QED
  BY <1>7, <1>8, <1>9, <1>10 DEF Next, NextButPurge, vars

\* Only Ack takes a task from the queue, only a creation that succeeds accepts.
LEMMA AcceptedOrAcked ==
  ASSUME TypeInv, QueueInv, AcceptedInv, [Next]_vars
  PROVE  /\ minted \subseteq minted'
         /\ \/ accepted' = accepted /\ queue \subseteq queue'
            \/ \E id \in minted : /\ accepted' \subseteq accepted \cup {id}
                                  /\ queue' = queue \cup {id}
            \/ /\ worker.pc = "ack" /\ queue' = queue \ {worker.task}
               /\ UNCHANGED <<db, accepted>>
<1> USE DEF TypeInv
<1>1. ASSUME NEW r \in Reqs, NEW o \in Outcomes \cup {"drop"}, CreatePublish(r, o)
      PROVE  /\ UNCHANGED minted
             /\ \/ accepted' = accepted /\ queue \subseteq queue'
                \/ \E id \in minted : /\ accepted' \subseteq accepted \cup {id}
                                      /\ queue' = queue \cup {id}
  <2>1. o # "drop"
    BY <1>1 DEF CreatePublish, Call, Spend, AcceptedInv
  <2>2. req[r].id \in minted
    BY <1>1 DEF CreatePublish, QueueInv, MintedFirst
  <2>3. CASE o = "ok"
    BY <1>1, <2>2, <2>3 DEF CreatePublish, Took
  <2>4. CASE o # "ok"
    <3>1. UNCHANGED <<minted, accepted>> /\ queue \subseteq queue'
      BY <1>1, <2>1, <2>4 DEF CreatePublish
    <3>2. QED
      BY <3>1
  <2>5. QED
    BY <2>3, <2>4
<1>2. ASSUME NEW r \in Reqs, NewRequest(r) \/ DeletePurge(r)
      PROVE  minted \subseteq minted' /\ UNCHANGED <<accepted, queue>>
  BY <1>2 DEF NewRequest, CreateInsert, DeleteGet, DeletePurge
<1>3. ASSUME NEW r \in Reqs, Serve(r),
             ~ \E o \in Outcomes \cup {"drop"} : CreatePublish(r, o)
      PROVE  UNCHANGED <<minted, accepted, queue>>
  BY <1>3 DEF Serve, CreateReject, DeleteDoc, DeleteBundle, DeleteBundlePartly
<1>4. CASE Worker
  <2>1. UNCHANGED <<minted, accepted>>
    BY <1>4 DEF Worker, Receive, StopConsuming, ProcessGet, ProcessMark, ProcessRender,
                PutObject, ProcessFinish, ProcessCleanup, ProcessFail, Nack, Ack
  <2>2. \/ UNCHANGED queue
        \/ worker.pc = "ack" /\ queue' = queue \ {worker.task} /\ UNCHANGED db
    BY <1>4 DEF Worker, Receive, StopConsuming, ProcessGet, ProcessMark, ProcessRender,
                PutObject, ProcessFinish, ProcessCleanup, ProcessFail, Nack, Ack
  <2>3. QED
    BY <2>1, <2>2
<1>5. CASE Environment \/ UNCHANGED vars
  BY <1>5
     DEF Environment, EditDraft, Expire, LoseConnection, Shutdown, Exit, Crash, Restart, vars
<1>6. QED
  BY <1>1, <1>2, <1>3, <1>4, <1>5 DEF Next, NextButPurge

LEMMA AcceptedNext == TypeInv /\ QueueInv /\ AcceptedInv /\ [Next]_vars => AcceptedInv'
<1> SUFFICES ASSUME TypeInv, QueueInv, AcceptedInv, [Next]_vars PROVE AcceptedInv'
  OBVIOUS
<1>1. budget'["drop"] = 0
  BY NothingMoreDropped DEF AcceptedInv
<1>2. accepted' \subseteq minted'
  BY AcceptedOrAcked DEF AcceptedInv
<1>3. ASSUME NEW pub \in accepted', Status(pub)' = "PENDING"
      PROVE  pub \in queue'
  <2>1. pub \in minted /\ pub \in Pubs
    BY AcceptedOrAcked DEF AcceptedInv, TypeInv, TypeOK
  <2>2. Status(pub) = "PENDING"
    BY <1>3, <2>1, PendingIsOld
  <2>3. pub \in accepted => pub \in queue
    BY <2>2 DEF AcceptedInv, AcceptedIsQueued
  <2>4. ASSUME worker.pc = "ack", UNCHANGED <<db, accepted>>
        PROVE  pub # worker.task
    BY <2>2, <2>4 DEF QueueInv, AckIsDeserved
  <2>5. QED
    BY <1>3, <2>3, <2>4, AcceptedOrAcked
<1>4. QED
  BY <1>1, <1>2, <1>3 DEF AcceptedInv, AcceptedIsQueued

\* While the broker keeps what was written to it, a publication that is PENDING
\* after its creation was answered with success has its task in the queue, for
\* any number of crashes, shutdowns, failing calls and lost replies.
THEOREM AcceptedIsQueuedHolds == NothingDropped /\ Spec => []AcceptedIsQueued
<1>1. AcceptedInv => AcceptedIsQueued
  BY DEF AcceptedInv
<1>2. QED
  BY <1>1, TypeInit, TypeNext, QueueInit, QueueNext, AcceptedInit, AcceptedNext, PTL
     DEF Spec

=============================================================================
