-------------------------- MODULE PublishingProofs --------------------------
(***************************************************************************)
(* Proofs about Publishing, for any number of publications, requests,      *)
(* users, projects and files and for any budget of faults: its invariants, *)
(* and that it implements PublicationLifecycle.                            *)
(***************************************************************************)
EXTENDS Publishing, TLAPS

-----------------------------------------------------------------------------
(* Type correctness. *)

ReqPcs == {"idle", "publish", "reject", "delete", "bundle", "purge"}

Requests == [pc : ReqPcs, id : Pubs \cup {NoPub}, user : Users \cup {NoUser},
             doc : Docs \cup {NoDoc}]

\* A request in progress has a publication and a copy of its record.
ReqBound ==
  \A r \in Reqs : req[r].pc # "idle" => req[r].id \in Pubs /\ req[r].doc \in Docs

\* A worker in progress has a task, and from its first write on a record.
WorkerBound ==
  /\ worker.pc \notin {"idle", "stopped"} => worker.task \in Pubs
  /\ worker.pc \in {"mark", "render", "put", "finish", "cleanup", "fail"}
       => worker.doc \in Docs
  /\ worker.pc = "put" => worker.snap \in Snapshots

\* TypeOK alone is not inductive: a status is written into a local copy, which
\* must not be NoDoc.
TypeInv == TypeOK /\ ReqBound /\ WorkerBound

\* An outcome's effect on the budget and on the worker's context is typed.
LEMMA SpendTyped ==
  ASSUME TypeOK, NEW kind \in FaultKinds, Spend(kind)
  PROVE  budget' \in [FaultKinds -> Nat]
BY DEF TypeOK, Spend

LEMMA CallTyped ==
  ASSUME TypeOK, NEW o \in Outcomes \cup {"drop"}, Call(o)
  PROVE  budget' \in [FaultKinds -> Nat]
BY SpendTyped DEF TypeOK, Call, FaultKinds, Outcomes

LEMMA WorkerCallTyped ==
  ASSUME TypeOK, NEW o \in Outcomes, WorkerCall(o)
  PROVE  /\ budget' \in [FaultKinds -> Nat]
         /\ ctx' \in {"live", "cancelling", "cancelled"}
BY CallTyped DEF TypeOK, WorkerCall

LEMMA UpdateTyped ==
  ASSUME TypeOK, NEW id \in Pubs, NEW doc \in Docs, NEW o, Update(id, doc, o)
  PROVE  db' \in [Pubs -> Docs \cup {NoDoc}]
BY DEF TypeOK, Update

LEMMA UnlinkTyped ==
  ASSUME TypeOK, NEW id \in Pubs, NEW o, Unlink(id, o)
  PROVE  obj' \in [Pubs -> [Files -> Snapshots \cup {NoSnapshot}]]
BY DEF TypeOK, Unlink, NoObjects

\* Moving a request on, or ending it, keeps it typed.
LEMMA RejectTyped ==
  ASSUME TypeOK, NEW r \in Reqs
  PROVE  [req EXCEPT ![r].pc = "reject"] \in [Reqs -> Requests]
BY SMTT(40) DEF TypeOK, Requests, ReqPcs

LEMMA PurgeTyped ==
  ASSUME TypeOK, NEW r \in Reqs
  PROVE  [req EXCEPT ![r].pc = "purge"] \in [Reqs -> Requests]
BY SMTT(40) DEF TypeOK, Requests, ReqPcs

LEMMA IdleTyped ==
  ASSUME TypeOK, NEW r \in Reqs
  PROVE  [req EXCEPT ![r] = IdleReq] \in [Reqs -> Requests]
BY DEF TypeOK, IdleReq, Requests, ReqPcs

LEMMA TypeInit == Init => TypeInv
BY ConstantsAssumption
   DEF Init, TypeInv, TypeOK, ReqBound, WorkerBound, IdleReq, IdleWorker, NoObjects

LEMMA TypeNext == TypeInv /\ [Next]_vars => TypeInv'
<1> SUFFICES ASSUME TypeInv, [Next]_vars PROVE TypeInv'
  OBVIOUS
<1> USE DEF TypeInv
<1>1. ASSUME NEW r \in Reqs, NEW u \in Users, NEW p \in Projects, NEW id \in Pubs,
             NEW o \in Outcomes, CreateInsert(r, u, p, id, o)
      PROVE  TypeInv'
  <2> DEFINE pub == [project |-> p, status |-> "PENDING", assets |-> FALSE]
  <2>1. pub \in Docs
    BY DEF Docs, Statuses
  <2>2. QED
    BY <1>1, <2>1, CallTyped DEF CreateInsert, TypeOK, ReqBound, WorkerBound, Took
<1>2. ASSUME NEW r \in Reqs, NEW u \in Users, NEW p \in Projects, NEW id \in Pubs,
             DeleteGet(r, u, p, id)
      PROVE  TypeInv'
  BY <1>2 DEF DeleteGet, TypeOK, ReqBound, WorkerBound
<1>3. ASSUME NEW r \in Reqs, NEW o \in Outcomes \cup {"drop"}, CreatePublish(r, o)
      PROVE  TypeInv'
  <2>1. req[r].id \in Pubs /\ budget' \in [FaultKinds -> Nat]
    BY <1>3, CallTyped DEF CreatePublish, ReqBound, TypeOK
  <2>2. accepted' \subseteq Pubs /\ queue' \subseteq Pubs
    BY <1>3, <2>1 DEF CreatePublish, TypeOK
  <2>3. \/ req' = [req EXCEPT ![r] = IdleReq]
        \/ req' = [req EXCEPT ![r].pc = "reject"]
    BY <1>3 DEF CreatePublish
  <2>4. req' \in [Reqs -> Requests]
    BY <2>3, IdleTyped, RejectTyped, Zenon
  <2>5. UNCHANGED <<db, minted, obj, worker, ctx, conn, draft>>
    BY <1>3 DEF CreatePublish
  <2>6. TypeOK'
    BY <2>1, <2>2, <2>4, <2>5, Zenon DEF TypeOK, Requests, ReqPcs
  <2>7. ReqBound'
    BY <1>3, <2>3, <2>5 DEF CreatePublish, ReqBound, TypeOK, IdleReq
  <2>8. QED
    BY <2>5, <2>6, <2>7 DEF WorkerBound
<1>4. ASSUME NEW r \in Reqs, NEW o \in Outcomes, CreateReject(r, o)
      PROVE  TypeInv'
  <2> DEFINE doc == [req[r].doc EXCEPT !.status = "FAILED"]
  <2>1. /\ req[r].id \in Pubs /\ doc \in Docs
        /\ budget' \in [FaultKinds -> Nat]
    BY <1>4, CallTyped DEF CreateReject, ReqBound, Docs, Statuses
  <2>2. /\ Update(req[r].id, doc, o)
        /\ req' = [req EXCEPT ![r] = IdleReq]
        /\ UNCHANGED <<minted, accepted, obj, queue, worker, ctx, conn, draft>>
    BY <1>4 DEF CreateReject
  <2> HIDE DEF doc
  <2>3. db' \in [Pubs -> Docs \cup {NoDoc}] /\ req' \in [Reqs -> Requests]
    BY <2>1, <2>2, UpdateTyped, IdleTyped
  <2>4. TypeOK'
    BY <2>1, <2>2, <2>3, Zenon DEF TypeOK, Requests, ReqPcs
  <2>5. ReqBound' /\ WorkerBound'
    BY <2>2 DEF ReqBound, WorkerBound, TypeOK, IdleReq
  <2>6. QED
    BY <2>4, <2>5
<1>5. ASSUME NEW r \in Reqs, NEW o \in Outcomes, DeleteDoc(r, o)
      PROVE  TypeInv'
  BY <1>5, CallTyped, SMTT(20) DEF DeleteDoc, TypeOK, ReqBound, WorkerBound, IdleReq
<1>6. ASSUME NEW r \in Reqs, NEW o \in Outcomes, DeleteBundle(r, o)
      PROVE  TypeInv'
  <2>1. req[r].id \in Pubs /\ Unlink(req[r].id, o)
    BY <1>6 DEF DeleteBundle, ReqBound
  <2>2. /\ obj' \in [Pubs -> [Files -> Snapshots \cup {NoSnapshot}]]
        /\ budget' \in [FaultKinds -> Nat]
    BY <1>6, <2>1, CallTyped, UnlinkTyped DEF DeleteBundle
  <2>3. req' = [req EXCEPT ![r].pc = "purge"] \/ req' = [req EXCEPT ![r] = IdleReq]
    BY <1>6 DEF DeleteBundle
  <2>4. UNCHANGED <<db, minted, accepted, queue, worker, ctx, conn, draft>>
    BY <1>6 DEF DeleteBundle
  <2>5. TypeOK'
    <3>1. req' \in [Reqs -> Requests]
      BY <2>3, PurgeTyped, IdleTyped, Zenon
    <3>2. QED
      BY <2>2, <2>4, <3>1, Zenon DEF TypeOK, Requests, ReqPcs
  <2>6. ReqBound'
    BY <1>6, <2>3, <2>4 DEF DeleteBundle, ReqBound, TypeOK, IdleReq
  <2>7. QED
    BY <2>4, <2>5, <2>6 DEF WorkerBound
<1>7. ASSUME NEW r \in Reqs, NEW kept \in SUBSET Files, DeleteBundlePartly(r, kept)
      PROVE  TypeInv'
  <2> DEFINE left == [f \in Files |-> IF f \in kept THEN obj[req[r].id][f]
                                                   ELSE NoSnapshot]
  <2>1. /\ req[r].id \in Pubs
        /\ left \in [Files -> Snapshots \cup {NoSnapshot}]
        /\ obj' = [obj EXCEPT ![req[r].id] = left]
    BY <1>7 DEF DeleteBundlePartly, ReqBound, TypeOK
  <2>2. budget' \in [FaultKinds -> Nat]
    BY <1>7, SpendTyped DEF DeleteBundlePartly, FaultKinds
  <2> HIDE DEF left
  <2>3. obj' \in [Pubs -> [Files -> Snapshots \cup {NoSnapshot}]]
    BY <2>1 DEF TypeOK
  <2>4. req' = [req EXCEPT ![r].pc = "purge"] \/ req' = [req EXCEPT ![r] = IdleReq]
    BY <1>7 DEF DeleteBundlePartly
  <2>5. UNCHANGED <<db, minted, accepted, queue, worker, ctx, conn, draft>>
    BY <1>7 DEF DeleteBundlePartly
  <2>6. TypeOK'
    <3>1. req' \in [Reqs -> Requests]
      BY <2>4, PurgeTyped, IdleTyped, Zenon
    <3>2. QED
      BY <2>2, <2>3, <2>5, <3>1, Zenon DEF TypeOK, Requests, ReqPcs
  <2>7. ReqBound'
    BY <2>4, <2>5, <1>7 DEF TypeOK, ReqBound, DeleteBundlePartly
  <2>8. QED
    BY <2>5, <2>6, <2>7 DEF WorkerBound
<1>8. ASSUME NEW r \in Reqs, DeletePurge(r)
      PROVE  TypeInv'
  BY <1>8 DEF DeletePurge, TypeOK, ReqBound, WorkerBound, IdleReq
<1>9. ASSUME NEW id \in Pubs, Receive(id)
      PROVE  TypeInv'
  BY <1>9 DEF Receive, TypeOK, ReqBound, WorkerBound, IdleWorker
<1>10. CASE StopConsuming
  BY <1>10 DEF StopConsuming, Goto, TypeOK, ReqBound, WorkerBound
<1>11. ASSUME NEW o \in Outcomes, ProcessGet(o)
       PROVE  TypeInv'
  BY <1>11, WorkerCallTyped, ZenonT(20) DEF ProcessGet, TypeOK, ReqBound, WorkerBound
<1>12. ASSUME NEW o \in Outcomes, ProcessMark(o)
       PROVE  TypeInv'
  BY <1>12, WorkerCallTyped, UpdateTyped DEF ProcessMark, TypeOK, ReqBound, WorkerBound, Docs, Statuses
<1>13. ASSUME NEW o \in Outcomes, ProcessRender(o)
       PROVE  TypeInv'
  BY <1>13, WorkerCallTyped, ConstantsAssumption DEF ProcessRender, LatestDraft, Renders, TypeOK, ReqBound, WorkerBound, Docs
<1>14. ASSUME NEW f \in Files, NEW o \in Outcomes, PutObject(f, o)
       PROVE  TypeInv'
  BY <1>14, WorkerCallTyped DEF PutObject, TypeOK, ReqBound, WorkerBound
<1>15. ASSUME NEW o \in Outcomes, ProcessFinish(o)
       PROVE  TypeInv'
  BY <1>15, WorkerCallTyped, UpdateTyped DEF ProcessFinish, TypeOK, ReqBound, WorkerBound, Docs, Statuses
<1>16. ASSUME NEW o \in Outcomes, ProcessCleanup(o)
       PROVE  TypeInv'
  BY <1>16, CallTyped, UnlinkTyped DEF ProcessCleanup, Goto, TypeOK, ReqBound, WorkerBound
<1>17. ASSUME NEW o \in Outcomes, ProcessFail(o)
       PROVE  TypeInv'
  BY <1>17, WorkerCallTyped, UpdateTyped DEF ProcessFail, TypeOK, ReqBound, WorkerBound, Docs, Statuses
<1>18. CASE Nack
  BY <1>18 DEF Nack, TypeOK, ReqBound, WorkerBound, IdleWorker
<1>19. CASE Ack
  BY <1>19 DEF Ack, TypeOK, ReqBound, WorkerBound, IdleWorker
<1>20. CASE Environment
  <2>1. ASSUME NEW p \in Projects, NEW s \in Snapshots, EditDraft(p, s)
        PROVE  TypeInv'
    BY <2>1 DEF EditDraft, TypeOK, ReqBound, WorkerBound
  <2>2. ASSUME NEW id \in Pubs, Expire(id)
        PROVE  TypeInv'
    BY <2>2, SpendTyped DEF Expire, FaultKinds, TypeOK, ReqBound, WorkerBound
  <2>3. CASE LoseConnection
    BY <2>3, SpendTyped, ZenonT(20) DEF LoseConnection, FaultKinds, TypeOK, ReqBound, WorkerBound
  <2>4. CASE Shutdown
    BY <2>4, SpendTyped DEF Shutdown, FaultKinds, TypeOK, ReqBound, WorkerBound
  <2>5. ASSUME Restart, budget' \in [FaultKinds -> Nat]
        PROVE  TypeInv'
    BY <2>5 DEF Restart, IdleWorker, IdleReq, TypeOK, ReqBound, WorkerBound
  <2>6. CASE Exit
    BY <2>5, <2>6 DEF Exit, TypeOK
  <2>7. CASE Crash
    BY <2>5, <2>7, SpendTyped DEF Crash, FaultKinds
  <2>8. QED
    BY <1>20, <2>1, <2>2, <2>3, <2>4, <2>6, <2>7 DEF Environment
<1>21. CASE UNCHANGED vars
  BY <1>21 DEF vars, TypeOK, ReqBound, WorkerBound
<1>22. QED
  BY <1>1, <1>2, <1>3, <1>4, <1>5, <1>6, <1>7, <1>8, <1>9, <1>10, <1>11, <1>12, <1>13,
     <1>14, <1>15, <1>16, <1>17, <1>18, <1>19, <1>20, <1>21
     DEF Next, NextButPurge, NewRequest, Serve, Worker

\* Every state is typed: a request or a worker never writes, uploads or
\* deletes on behalf of a publication it does not have.
THEOREM TypeCorrect == Spec => []TypeOK
<1>1. TypeInv => TypeOK
  BY DEF TypeInv
<1>2. QED
  BY <1>1, TypeInit, TypeNext, PTL DEF Spec

-----------------------------------------------------------------------------
(* Removed records stay removed. *)

RemovedStays == \A id \in minted : db[id] = NoDoc => db'[id] = NoDoc

\* Insert uses fresh ids and Update does not insert.
LEMMA RemovedStep == TypeInv /\ [Next]_vars => RemovedStays
<1> SUFFICES ASSUME TypeInv, [Next]_vars, NEW pub \in minted, db[pub] = NoDoc
             PROVE  db'[pub] = NoDoc
  BY DEF RemovedStays
<1> USE DEF TypeInv
<1>1. pub \in Pubs
  BY DEF TypeOK
<1>2. ASSUME NEW id \in Pubs, NEW doc, NEW o, Update(id, doc, o)
      PROVE  db'[pub] = NoDoc
  BY <1>1, <1>2 DEF Update, TypeOK
<1>3. ASSUME NEW r \in Reqs, NewRequest(r)
      PROVE  db'[pub] = NoDoc
  BY <1>1, <1>3 DEF NewRequest, CreateInsert, DeleteGet, TypeOK
<1>4. ASSUME NEW r \in Reqs, Serve(r)
      PROVE  db'[pub] = NoDoc
  <2>1. ASSUME NEW o \in Outcomes, CreateReject(r, o)
        PROVE  db'[pub] = NoDoc
    BY <1>2, <2>1 DEF CreateReject, ReqBound
  <2>2. ASSUME NEW o \in Outcomes, DeleteDoc(r, o)
        PROVE  db'[pub] = NoDoc
    BY <1>1, <2>2 DEF DeleteDoc, TypeOK
  <2>3. QED
    BY <1>4, <2>1, <2>2 DEF Serve, CreatePublish, DeleteBundle, DeleteBundlePartly
<1>5. ASSUME NEW r \in Reqs, DeletePurge(r)
      PROVE  db'[pub] = NoDoc
  BY <1>5 DEF DeletePurge
<1>6. CASE Worker
  <2>1. ASSUME NEW o \in Outcomes, ProcessMark(o)
        PROVE  db'[pub] = NoDoc
    BY <1>2, <2>1 DEF ProcessMark, WorkerBound
  <2>2. ASSUME NEW o \in Outcomes, ProcessFinish(o)
        PROVE  db'[pub] = NoDoc
    BY <1>2, <2>2 DEF ProcessFinish, WorkerBound
  <2>3. ASSUME NEW o \in Outcomes, ProcessFail(o)
        PROVE  db'[pub] = NoDoc
    BY <1>2, <2>3 DEF ProcessFail, WorkerBound
  <2>4. QED
    BY <1>6, <2>1, <2>2, <2>3
       DEF Worker, Receive, StopConsuming, ProcessGet, ProcessRender, PutObject,
           ProcessCleanup, Nack, Ack
<1>7. CASE Environment
  BY <1>1, <1>7
     DEF Environment, EditDraft, Expire, LoseConnection, Shutdown, Exit, Crash, Restart,
         TypeOK
<1>8. CASE UNCHANGED vars
  BY <1>8 DEF vars
<1>9. QED
  BY <1>3, <1>4, <1>5, <1>6, <1>7, <1>8 DEF Next, NextButPurge

\* No fault and no interleaving brings the record of a removed publication
\* back.
THEOREM RemovedStaysRemovedHolds == Spec => RemovedStaysRemoved
<1>1. TypeInv /\ [Next]_vars => [RemovedStays]_vars
  BY RemovedStep
<1>2. QED
  BY <1>1, TypeInit, TypeNext, PTL DEF Spec, RemovedStaysRemoved, RemovedStays

-----------------------------------------------------------------------------
(* A PROCESSING record has its task. *)

\* An id is in use only after it was given out, so a fresh id is nowhere.
MintedFirst ==
  /\ \A id \in Pubs : db[id] # NoDoc => id \in minted
  /\ queue \subseteq minted
  /\ \A r \in Reqs : req[r].pc # "idle" => req[r].id \in minted

\* The message of the task at hand is not acked yet, so the broker holds it.
TaskIsQueued == worker.pc \notin {"idle", "stopped"} => worker.task \in queue

\* A task is acked only if its record is removed or settled.
AckIsDeserved ==
  worker.pc = "ack" => Status(worker.task) \notin {"PENDING", "PROCESSING"}

QueueInv == /\ MintedFirst
            /\ TaskIsQueued
            /\ AckIsDeserved
            /\ ProcessingHasTask

LEMMA QueueInit == Init => QueueInv
BY DEF Init, QueueInv, MintedFirst, TaskIsQueued, AckIsDeserved, ProcessingHasTask,
       Status, IdleReq, IdleWorker

LEMMA QueueNext == TypeInv /\ QueueInv /\ [Next]_vars => QueueInv'
<1> SUFFICES ASSUME TypeInv, QueueInv, [Next]_vars PROVE QueueInv'
  OBVIOUS
<1> USE DEF TypeInv, QueueInv, MintedFirst, TaskIsQueued, AckIsDeserved,
            ProcessingHasTask, Status
<1>1. ASSUME NEW r \in Reqs, NEW u \in Users, NEW p \in Projects, NEW id \in Pubs,
             NEW o \in Outcomes, CreateInsert(r, u, p, id, o)
      PROVE  QueueInv'
  BY <1>1 DEF CreateInsert, TypeOK, WorkerBound
<1>2. ASSUME NEW r \in Reqs, NEW u \in Users, NEW p \in Projects, NEW id \in Pubs,
             DeleteGet(r, u, p, id)
      PROVE  QueueInv'
  BY <1>2 DEF DeleteGet, TypeOK
<1>3. ASSUME NEW r \in Reqs, NEW o \in Outcomes \cup {"drop"}, CreatePublish(r, o)
      PROVE  QueueInv'
  BY <1>3 DEF CreatePublish, TypeOK, ReqBound, IdleReq
<1>4. ASSUME NEW r \in Reqs, NEW o \in Outcomes, CreateReject(r, o)
      PROVE  QueueInv'
  BY <1>4 DEF CreateReject, Update, TypeOK, ReqBound, IdleReq, Docs
<1>5. ASSUME NEW r \in Reqs, NEW o \in Outcomes, DeleteDoc(r, o)
      PROVE  QueueInv'
  BY <1>5 DEF DeleteDoc, TypeOK, ReqBound, IdleReq
<1>6. ASSUME NEW r \in Reqs, NEW o \in Outcomes, DeleteBundle(r, o)
      PROVE  QueueInv'
  BY <1>6 DEF DeleteBundle, TypeOK, IdleReq
<1>7. ASSUME NEW r \in Reqs, NEW kept \in SUBSET Files, DeleteBundlePartly(r, kept)
      PROVE  QueueInv'
  BY <1>7 DEF DeleteBundlePartly, TypeOK
<1>8. ASSUME NEW r \in Reqs, DeletePurge(r)
      PROVE  QueueInv'
  BY <1>8 DEF DeletePurge, TypeOK, IdleReq
<1>9. ASSUME NEW id \in Pubs, Receive(id)
      PROVE  QueueInv'
  BY <1>9 DEF Receive, TypeOK, IdleWorker
<1>10. CASE StopConsuming
  BY <1>10 DEF StopConsuming, Goto, TypeOK
<1>11. ASSUME NEW o \in Outcomes, ProcessGet(o)
       PROVE  QueueInv'
  BY <1>11 DEF ProcessGet, TypeOK, Docs, Statuses, Outcomes
<1>12. ASSUME NEW o \in Outcomes, ProcessMark(o)
       PROVE  QueueInv'
  BY <1>12 DEF ProcessMark, Update, Updated, TypeOK, WorkerBound, Docs
<1>13. ASSUME NEW o \in Outcomes, ProcessRender(o)
       PROVE  QueueInv'
  BY <1>13 DEF ProcessRender, LatestDraft, Renders, TypeOK
<1>14. ASSUME NEW f \in Files, NEW o \in Outcomes, PutObject(f, o)
       PROVE  QueueInv'
  BY <1>14 DEF PutObject, TypeOK
<1>15. ASSUME NEW o \in Outcomes, ProcessFinish(o)
       PROVE  QueueInv'
  BY <1>15 DEF ProcessFinish, Update, Updated, Took, TypeOK, WorkerBound, Docs
<1>16. ASSUME NEW o \in Outcomes, ProcessCleanup(o)
       PROVE  QueueInv'
  BY <1>16 DEF ProcessCleanup, Goto, TypeOK
<1>17. ASSUME NEW o \in Outcomes, ProcessFail(o)
       PROVE  QueueInv'
  BY <1>17 DEF ProcessFail, Update, TypeOK, WorkerBound, Docs
<1>18. CASE Nack
  BY <1>18 DEF Nack, TypeOK, IdleWorker
<1>19. CASE Ack
  BY <1>19 DEF Ack, TypeOK, IdleWorker, WorkerBound
<1>20. ASSUME NEW p \in Projects, NEW s \in Snapshots, EditDraft(p, s)
       PROVE  QueueInv'
  BY <1>20 DEF EditDraft
<1>21. ASSUME NEW id \in Pubs, Expire(id)
       PROVE  QueueInv'
  BY <1>21 DEF Expire, TypeOK
<1>22. CASE LoseConnection \/ Shutdown
  BY <1>22 DEF LoseConnection, Shutdown
<1>23. CASE Exit \/ Crash
  BY <1>23 DEF Exit, Crash, Restart, IdleReq, IdleWorker
<1>24. CASE UNCHANGED vars
  BY <1>24 DEF vars
<1>25. QED
  BY <1>1, <1>2, <1>3, <1>4, <1>5, <1>6, <1>7, <1>8, <1>9, <1>10, <1>11, <1>12, <1>13,
     <1>14, <1>15, <1>16, <1>17, <1>18, <1>19, <1>20, <1>21, <1>22, <1>23, <1>24
     DEF Next, NextButPurge, NewRequest, Serve, Worker, Environment

\* Under every fault and any number of them: a publication that says it is
\* being processed can be taken up again by the next consumer.
THEOREM ProcessingHasTaskHolds == Spec => []ProcessingHasTask
<1>1. QueueInv => ProcessingHasTask
  BY DEF QueueInv
<1>2. QED
  BY <1>1, TypeInit, TypeNext, QueueInit, QueueNext, PTL DEF Spec

-----------------------------------------------------------------------------
(* A FINISHED record has its bundle, which never changes. *)

\* What the theorems of this section assume of the environment: no call takes
\* effect and loses its reply, no shutdown cancels one half way.  Calls may
\* fail, messages may be dropped, connections break, processes crash, records
\* expire and deletions leave objects behind, any number of times.
RepliesArrive == Budget["lost"] = 0 /\ Budget["stop"] = 0

NothingCancelled == budget["lost"] = 0 /\ budget["stop"] = 0 /\ ctx = "live"

\* The worker never works on a FINISHED publication: it reads the record
\* first, and nobody else finishes one.
WorkIsUnfinished ==
  worker.pc \in {"mark", "render", "put", "finish", "cleanup", "fail"}
    => Status(worker.task) # "FINISHED"

\* A bundle is deleted only when the record is gone, for good.
RecordGoesFirst ==
  \A r \in Reqs : req[r].pc = "bundle" => db[req[r].id] = NoDoc

\* What has been uploaded is in the object store, unless a client deletes the
\* publication meanwhile; then there is no record to finish.
UploadedSoFar ==
  worker.pc \in {"put", "finish"} =>
    /\ worker.snap \in Snapshots
    /\ Index \in Bundle[worker.snap]
    /\ worker.pc = "finish" => worker.todo = {}
    /\ db[worker.task] # NoDoc =>
         \A f \in Bundle[worker.snap] \ worker.todo : obj[worker.task][f] = worker.snap

PageInv == /\ NothingCancelled
           /\ WorkIsUnfinished
           /\ RecordGoesFirst
           /\ UploadedSoFar
           /\ FinishedHasBundle

LEMMA PageInit == RepliesArrive /\ Init => PageInv
BY DEF RepliesArrive, Init, PageInv, NothingCancelled, WorkIsUnfinished, RecordGoesFirst,
       UploadedSoFar, FinishedHasBundle, Status, IdleReq, IdleWorker

\* No call is lost and no worker call is cancelled, and that stays so.
LEMMA Reported ==
  ASSUME TypeOK, NothingCancelled, NEW o \in Outcomes, Call(o) \/ WorkerCall(o)
  PROVE  /\ o # "lost"
         /\ budget'["lost"] = 0 /\ budget'["stop"] = 0
         /\ WorkerCall(o) => ctx' = "live"
BY DEF TypeOK, NothingCancelled, Outcomes, Call, WorkerCall, Spend, FaultKinds

LEMMA PageNext == TypeInv /\ QueueInv /\ PageInv /\ [Next]_vars => PageInv'
<1> SUFFICES ASSUME TypeInv, QueueInv, PageInv, [Next]_vars PROVE PageInv'
  OBVIOUS
<1> USE DEF TypeInv, PageInv, WorkIsUnfinished, RecordGoesFirst, UploadedSoFar,
            FinishedHasBundle, Status, Holds
<1>1. ASSUME NEW r \in Reqs, NEW u \in Users, NEW p \in Projects, NEW id \in Pubs,
             NEW o \in Outcomes, CreateInsert(r, u, p, id, o)
      PROVE  PageInv'
  <2>1. NothingCancelled'
    BY <1>1, Reported DEF CreateInsert, NothingCancelled
  <2>2. worker.pc \notin {"idle", "stopped"} => worker.task # id
    BY <1>1 DEF CreateInsert, QueueInv, MintedFirst, TaskIsQueued
  <2>3. \A q \in Reqs : req[q].pc # "idle" => req[q].id # id
    BY <1>1 DEF CreateInsert, QueueInv, MintedFirst
  <2>4. QED
    BY <1>1, <2>1, <2>2, <2>3 DEF CreateInsert, TypeOK, WorkerBound, ReqBound
<1>2. ASSUME NEW r \in Reqs, NEW u \in Users, NEW p \in Projects, NEW id \in Pubs,
             DeleteGet(r, u, p, id)
      PROVE  PageInv'
  BY <1>2 DEF DeleteGet, TypeOK, NothingCancelled
<1>3. ASSUME NEW r \in Reqs, NEW o \in Outcomes \cup {"drop"}, CreatePublish(r, o)
      PROVE  PageInv'
  BY <1>3 DEF CreatePublish, Call, Spend, FaultKinds, TypeOK, IdleReq, NothingCancelled
<1>4. ASSUME NEW r \in Reqs, NEW o \in Outcomes, CreateReject(r, o)
      PROVE  PageInv'
  <2>1. NothingCancelled'
    BY <1>4, Reported DEF CreateReject, NothingCancelled
  <2>2. QED
    BY <1>4, <2>1 DEF CreateReject, Update, TypeOK, ReqBound, WorkerBound, IdleReq, Docs
<1>5. ASSUME NEW r \in Reqs, NEW o \in Outcomes, DeleteDoc(r, o)
      PROVE  PageInv'
  <2>1. NothingCancelled'
    BY <1>5, Reported DEF DeleteDoc, NothingCancelled
  <2>2. QED
    BY <1>5, <2>1, Reported DEF DeleteDoc, Took, TypeOK, ReqBound, WorkerBound, IdleReq
<1>6. ASSUME NEW r \in Reqs, NEW o \in Outcomes, DeleteBundle(r, o)
      PROVE  PageInv'
  <2>1. NothingCancelled'
    BY <1>6, Reported DEF DeleteBundle, NothingCancelled
  <2>2. QED
    BY <1>6, <2>1 DEF DeleteBundle, Unlink, TypeOK, ReqBound, WorkerBound, IdleReq
<1>7. ASSUME NEW r \in Reqs, NEW kept \in SUBSET Files, DeleteBundlePartly(r, kept)
      PROVE  PageInv'
  <2>1. NothingCancelled'
    BY <1>7 DEF DeleteBundlePartly, Spend, FaultKinds, TypeOK, NothingCancelled
  <2>2. /\ req[r].id \in Pubs /\ db[req[r].id] = NoDoc
        /\ \A id \in Pubs \ {req[r].id} : obj'[id] = obj[id]
    BY <1>7 DEF DeleteBundlePartly, TypeOK, ReqBound
  <2>3. \A q \in Reqs : req'[q].pc = "bundle" => req[q].pc = "bundle" /\ req'[q].id = req[q].id
    BY <1>7 DEF DeleteBundlePartly, TypeOK
  <2>4. UNCHANGED <<db, worker>>
    BY <1>7 DEF DeleteBundlePartly
  <2>5. RecordGoesFirst'
    BY <2>3, <2>4
  <2>6. UploadedSoFar'
    BY <2>2, <2>4 DEF WorkerBound
  <2>7. QED
    BY <2>1, <2>2, <2>4, <2>5, <2>6
<1>8. ASSUME NEW r \in Reqs, DeletePurge(r)
      PROVE  PageInv'
  BY <1>8 DEF DeletePurge, TypeOK, IdleReq, NothingCancelled
<1>9. ASSUME NEW id \in Pubs, Receive(id)
      PROVE  PageInv'
  BY <1>9 DEF Receive, TypeOK, IdleWorker, NothingCancelled
<1>10. CASE StopConsuming
  BY <1>10 DEF StopConsuming, Goto, TypeOK, NothingCancelled
<1>11. ASSUME NEW o \in Outcomes, ProcessGet(o)
       PROVE  PageInv'
  <2>1. NothingCancelled'
    BY <1>11, Reported DEF ProcessGet, NothingCancelled
  <2>2. QED
    BY <1>11, <2>1 DEF ProcessGet, TypeOK, Docs, Statuses, Outcomes
<1>12. ASSUME NEW o \in Outcomes, ProcessMark(o)
       PROVE  PageInv'
  <2>1. NothingCancelled'
    BY <1>12, Reported DEF ProcessMark, NothingCancelled
  <2>2. QED
    BY <1>12, <2>1 DEF ProcessMark, Update, Updated, TypeOK, WorkerBound, Docs
<1>13. ASSUME NEW o \in Outcomes, ProcessRender(o)
       PROVE  PageInv'
  <2>1. NothingCancelled'
    BY <1>13, Reported DEF ProcessRender, LatestDraft, Renders, NothingCancelled
  <2>2. QED
    BY <1>13, <2>1, ConstantsAssumption DEF ProcessRender, LatestDraft, Renders, TypeOK, WorkerBound, Docs
<1>14. ASSUME NEW f \in Files, NEW o \in Outcomes, PutObject(f, o)
       PROVE  PageInv'
  <2>1. NothingCancelled'
    BY <1>14, Reported DEF PutObject, NothingCancelled
  <2>2. QED
    BY <1>14, <2>1, ConstantsAssumption DEF PutObject, Took, TypeOK, WorkerBound
<1>15. ASSUME NEW o \in Outcomes, ProcessFinish(o)
       PROVE  PageInv'
  <2>1. NothingCancelled' /\ o # "lost"
    BY <1>15, Reported DEF ProcessFinish, NothingCancelled
  <2> DEFINE doc == [worker.doc EXCEPT !.status = "FINISHED", !.assets = TRUE]
  <2>2. /\ worker.pc = "finish" /\ worker.task \in Pubs
        /\ doc.status = "FINISHED" /\ doc # NoDoc
        /\ Update(worker.task, doc, o)
        /\ worker'.pc = IF Updated(worker.task, o) THEN "ack" ELSE "cleanup"
        /\ worker'.task = worker.task
        /\ UNCHANGED <<obj, req>>
    BY <1>15, ConstantsAssumption, ZenonT(20)
       DEF ProcessFinish, TypeOK, WorkerBound, Docs, Statuses
  <2> HIDE DEF doc
  <2>3. \A id \in Pubs : db'[id] = db[id] \/ (id = worker.task /\ db[id] # NoDoc /\ db'[id] = doc)
    BY <2>2 DEF Update, TypeOK
  <2>4. RecordGoesFirst' /\ UploadedSoFar'
    BY <2>2, <2>3 DEF ReqBound
  <2>5. WorkIsUnfinished'
    BY <2>1, <2>2 DEF Update, Updated, Took, Outcomes, TypeOK
  <2>6. FinishedHasBundle'
    <3>1. db[worker.task] # NoDoc =>
            \E s \in Snapshots : /\ Index \in Bundle[s]
                                 /\ \A f \in Bundle[s] : obj[worker.task][f] = s
      BY <2>2
    <3>2. QED
      BY <2>2, <2>3, <3>1
  <2>7. QED
    BY <2>1, <2>4, <2>5, <2>6
<1>16. ASSUME NEW o \in Outcomes, ProcessCleanup(o)
       PROVE  PageInv'
  <2>1. NothingCancelled'
    BY <1>16, Reported DEF ProcessCleanup, NothingCancelled
  <2>2. QED
    BY <1>16, <2>1 DEF ProcessCleanup, Goto, Unlink, TypeOK, WorkerBound
<1>17. ASSUME NEW o \in Outcomes, ProcessFail(o)
       PROVE  PageInv'
  <2>1. NothingCancelled'
    BY <1>17, Reported DEF ProcessFail, NothingCancelled
  <2>2. QED
    BY <1>17, <2>1 DEF ProcessFail, Update, TypeOK, WorkerBound, Docs
<1>18. CASE Nack
  BY <1>18 DEF Nack, TypeOK, IdleWorker, NothingCancelled
<1>19. CASE Ack
  BY <1>19 DEF Ack, TypeOK, IdleWorker, NothingCancelled
<1>20. ASSUME NEW p \in Projects, NEW s \in Snapshots, EditDraft(p, s)
       PROVE  PageInv'
  BY <1>20 DEF EditDraft, NothingCancelled
<1>21. ASSUME NEW id \in Pubs, Expire(id)
       PROVE  PageInv'
  BY <1>21 DEF Expire, Spend, FaultKinds, TypeOK, ReqBound, WorkerBound, NothingCancelled
<1>22. CASE LoseConnection \/ Shutdown
  BY <1>22 DEF LoseConnection, Shutdown, Spend, FaultKinds, TypeOK, NothingCancelled
<1>23. CASE Exit \/ Crash
  BY <1>23 DEF Exit, Crash, Spend, FaultKinds, TypeOK, Restart, IdleReq, IdleWorker,
               NothingCancelled
<1>24. CASE UNCHANGED vars
  BY <1>24 DEF vars, NothingCancelled
<1>25. QED
  BY <1>1, <1>2, <1>3, <1>4, <1>5, <1>6, <1>7, <1>8, <1>9, <1>10, <1>11, <1>12, <1>13,
     <1>14, <1>15, <1>16, <1>17, <1>18, <1>19, <1>20, <1>21, <1>22, <1>23, <1>24
     DEF Next, NextButPurge, NewRequest, Serve, Worker, Environment

\* While every call's reply arrives, a FINISHED publication can be shown, with
\* any number of requests, redeliveries, crashes and failures.
THEOREM FinishedHasBundleHolds == RepliesArrive /\ Spec => []FinishedHasBundle
<1>1. PageInv => FinishedHasBundle
  BY DEF PageInv
<1>2. QED
  BY <1>1, TypeInit, TypeNext, QueueInit, QueueNext, PageInit, PageNext, PTL
     DEF Spec

BundlesKept ==
  \A id \in Pubs : Status(id) = "FINISHED" /\ Status(id)' = "FINISHED"
    => obj'[id] = obj[id]

\* Objects are written and removed on behalf of unfinished or removed records.
LEMMA BundlesKeptStep == TypeInv /\ PageInv /\ [Next]_vars => BundlesKept
<1> SUFFICES ASSUME TypeInv, PageInv, [Next]_vars,
                    NEW pub \in Pubs, Status(pub) = "FINISHED"
             PROVE  obj'[pub] = obj[pub]
  BY DEF BundlesKept
<1> USE DEF TypeInv, PageInv, Status
<1>1. CASE UNCHANGED obj
  BY <1>1
<1>2. ASSUME NEW r \in Reqs, NEW o \in Outcomes, DeleteBundle(r, o)
      PROVE  obj'[pub] = obj[pub]
  BY <1>2 DEF DeleteBundle, Unlink, RecordGoesFirst, TypeOK
<1>3. ASSUME NEW r \in Reqs, NEW kept \in SUBSET Files, DeleteBundlePartly(r, kept)
      PROVE  obj'[pub] = obj[pub]
  BY <1>3 DEF DeleteBundlePartly, RecordGoesFirst, TypeOK
<1>4. ASSUME NEW f \in Files, NEW o \in Outcomes, PutObject(f, o)
      PROVE  obj'[pub] = obj[pub]
  BY <1>4 DEF PutObject, WorkIsUnfinished, TypeOK
<1>5. ASSUME NEW o \in Outcomes, ProcessCleanup(o)
      PROVE  obj'[pub] = obj[pub]
  BY <1>5 DEF ProcessCleanup, Unlink, WorkIsUnfinished, TypeOK
<1>6. CASE Environment
  BY <1>1, <1>6
     DEF Environment, EditDraft, Expire, LoseConnection, Shutdown, Exit, Crash, Restart
<1>7. ASSUME NEW r \in Reqs, NewRequest(r) \/ DeletePurge(r)
      PROVE  obj'[pub] = obj[pub]
  BY <1>1, <1>7 DEF NewRequest, CreateInsert, DeleteGet, DeletePurge
<1>8. QED
  BY <1>1, <1>2, <1>3, <1>4, <1>5, <1>6, <1>7
     DEF Next, NextButPurge, Serve, CreatePublish, CreateReject, DeleteDoc, Worker, Receive,
         StopConsuming, ProcessGet, ProcessMark, ProcessRender, ProcessFinish, ProcessFail,
         Nack, Ack, vars

\* While every call's reply arrives, what a FINISHED publication shows never
\* changes.
THEOREM SnapshotImmutableHolds == RepliesArrive /\ Spec => SnapshotImmutable
<1>1. TypeInv /\ PageInv /\ [Next]_vars => [BundlesKept]_vars
  BY BundlesKeptStep
<1>2. QED
  BY <1>1, TypeInit, TypeNext, QueueInit, QueueNext, PageInit, PageNext, PTL
     DEF Spec, SnapshotImmutable, BundlesKept

-----------------------------------------------------------------------------
(* The invariant of the refinement: every step of a request, the worker or *)
(* the environment is a step of one publication's lifecycle, or changes    *)
(* nothing that a client sees.                                             *)

InCreate(r) == req[r].pc \in {"publish", "reject"}

\* Until its Create is over nobody else knows a publication's id as a task: the
\* FAILED of CreateReject overwrites PENDING, or nothing.
CreateIsAlone ==
  \A r \in Reqs : InCreate(r) =>
    /\ req[r].id \notin queue
    /\ Status(req[r].id) \in {"NONE", "PENDING"}
    /\ \A q \in Reqs \ {r} : InCreate(q) => req[q].id # req[r].id

\* What the worker overwrites.
WorkIsMarked ==
  /\ worker.pc = "mark" => Status(worker.task) \in {"NONE", "PENDING", "PROCESSING"}
  /\ worker.pc \in {"render", "put", "finish", "cleanup", "fail"}
       => Status(worker.task) \in {"NONE", "PROCESSING"}

StageInv == CreateIsAlone /\ WorkIsMarked

LEMMA StageInit == Init => StageInv
BY DEF Init, StageInv, CreateIsAlone, WorkIsMarked, InCreate, IdleReq, IdleWorker

LEMMA StageNext ==
  TypeInv /\ QueueInv /\ PageInv /\ StageInv /\ [Next]_vars => StageInv'
<1> SUFFICES ASSUME TypeInv, QueueInv, PageInv, StageInv, [Next]_vars PROVE StageInv'
  OBVIOUS
<1> USE DEF TypeInv, StageInv, CreateIsAlone, WorkIsMarked, InCreate, Status
<1>1. ASSUME NEW r \in Reqs, NEW u \in Users, NEW p \in Projects, NEW id \in Pubs,
             NEW o \in Outcomes, CreateInsert(r, u, p, id, o)
      PROVE  StageInv'
  <2>1. /\ id \notin queue /\ db[id] = NoDoc
        /\ worker.pc \notin {"idle", "stopped"} => worker.task # id
        /\ \A q \in Reqs : req[q].pc # "idle" => req[q].id # id
    BY <1>1 DEF CreateInsert, QueueInv, MintedFirst, TaskIsQueued
  <2>2. WorkIsMarked'
    BY <1>1, <2>1 DEF CreateInsert, TypeOK, WorkerBound
  <2>3. CreateIsAlone'
    BY <1>1, <2>1 DEF CreateInsert, TypeOK, ReqBound
  <2>4. QED
    BY <2>2, <2>3
<1>2. ASSUME NEW r \in Reqs, NEW u \in Users, NEW p \in Projects, NEW id \in Pubs,
             DeleteGet(r, u, p, id)
      PROVE  StageInv'
  BY <1>2 DEF DeleteGet, TypeOK
<1>3. ASSUME NEW r \in Reqs, NEW o \in Outcomes \cup {"drop"}, CreatePublish(r, o)
      PROVE  StageInv'
  <2>1. o # "lost"
    BY <1>3 DEF CreatePublish, Call, Spend, PageInv, NothingCancelled
  <2>2. CreateIsAlone'
    BY <1>3, <2>1 DEF CreatePublish, Took, Outcomes, TypeOK, ReqBound, IdleReq
  <2>3. QED
    BY <1>3, <2>2 DEF CreatePublish
<1>4. ASSUME NEW r \in Reqs, NEW o \in Outcomes, CreateReject(r, o)
      PROVE  StageInv'
  <2>1. worker.pc \notin {"idle", "stopped"} => worker.task # req[r].id
    BY <1>4 DEF CreateReject, QueueInv, TaskIsQueued
  <2>2. WorkIsMarked'
    BY <1>4, <2>1 DEF CreateReject, Update, TypeOK, ReqBound, WorkerBound
  <2>3. CreateIsAlone'
    BY <1>4 DEF CreateReject, Update, TypeOK, ReqBound, IdleReq
  <2>4. QED
    BY <2>2, <2>3
<1>5. ASSUME NEW r \in Reqs, NEW o \in Outcomes, DeleteDoc(r, o)
      PROVE  StageInv'
  BY <1>5 DEF DeleteDoc, TypeOK, ReqBound, WorkerBound, IdleReq
<1>6. ASSUME NEW r \in Reqs, NEW o \in Outcomes, DeleteBundle(r, o)
      PROVE  StageInv'
  BY <1>6 DEF DeleteBundle, TypeOK, IdleReq
<1>7. ASSUME NEW r \in Reqs, NEW kept \in SUBSET Files, DeleteBundlePartly(r, kept)
      PROVE  StageInv'
  BY <1>7 DEF DeleteBundlePartly, TypeOK
<1>8. ASSUME NEW r \in Reqs, DeletePurge(r)
      PROVE  StageInv'
  BY <1>8 DEF DeletePurge, TypeOK, IdleReq
<1>9. ASSUME NEW id \in Pubs, Receive(id)
      PROVE  StageInv'
  BY <1>9 DEF Receive, TypeOK, IdleWorker
<1>10. CASE StopConsuming
  BY <1>10 DEF StopConsuming, Goto, TypeOK
<1>11. ASSUME NEW o \in Outcomes, ProcessGet(o)
       PROVE  StageInv'
  BY <1>11 DEF ProcessGet, TypeOK, Docs, Statuses, Outcomes, WorkerBound
<1>12. ASSUME NEW o \in Outcomes, NEW doc \in Docs, Update(worker.task, doc, o),
              worker.pc \notin {"idle", "stopped"}, UNCHANGED <<queue, req>>
       PROVE  CreateIsAlone'
  BY <1>12 DEF Update, TypeOK, WorkerBound, ReqBound, QueueInv, TaskIsQueued
<1>13. ASSUME NEW o \in Outcomes, ProcessMark(o)
       PROVE  StageInv'
  <2>1. CreateIsAlone'
    <3>1. [worker.doc EXCEPT !.status = "PROCESSING"] \in Docs
      BY <1>13 DEF ProcessMark, WorkerBound, Docs, Statuses
    <3>2. QED
      BY <1>12, <1>13, <3>1 DEF ProcessMark
  <2>2. WorkIsMarked'
    BY <1>13 DEF ProcessMark, Update, Updated, Took, TypeOK, WorkerBound, Docs
  <2>3. QED
    BY <2>1, <2>2
<1>14. ASSUME NEW o \in Outcomes, ProcessRender(o)
       PROVE  StageInv'
  BY <1>14 DEF ProcessRender, LatestDraft, Renders, TypeOK
<1>15. ASSUME NEW f \in Files, NEW o \in Outcomes, PutObject(f, o)
       PROVE  StageInv'
  BY <1>15 DEF PutObject, TypeOK
<1>16. ASSUME NEW o \in Outcomes, ProcessFinish(o)
       PROVE  StageInv'
  <2>1. CreateIsAlone'
    <3>1. [worker.doc EXCEPT !.status = "FINISHED", !.assets = TRUE] \in Docs
      BY <1>16 DEF ProcessFinish, WorkerBound, Docs, Statuses
    <3>2. QED
      BY <1>12, <1>16, <3>1 DEF ProcessFinish
  <2>2. o # "lost"
    BY <1>16, Reported DEF ProcessFinish, PageInv
  <2>3. WorkIsMarked'
    BY <1>16, <2>2 DEF ProcessFinish, Update, Updated, Took, TypeOK, WorkerBound
  <2>4. QED
    BY <2>1, <2>3
<1>17. ASSUME NEW o \in Outcomes, ProcessCleanup(o)
       PROVE  StageInv'
  BY <1>17 DEF ProcessCleanup, Goto, TypeOK
<1>18. ASSUME NEW o \in Outcomes, ProcessFail(o)
       PROVE  StageInv'
  <2>1. CreateIsAlone'
    <3>1. [worker.doc EXCEPT !.status = "FAILED"] \in Docs
      BY <1>18 DEF ProcessFail, WorkerBound, Docs, Statuses
    <3>2. QED
      BY <1>12, <1>18, <3>1 DEF ProcessFail
  <2>2. WorkIsMarked'
    BY <1>18 DEF ProcessFail, TypeOK
  <2>3. QED
    BY <2>1, <2>2
<1>19. CASE Nack
  BY <1>19 DEF Nack, TypeOK, IdleWorker
<1>20. CASE Ack
  BY <1>20 DEF Ack, TypeOK, IdleWorker
<1>21. ASSUME NEW p \in Projects, NEW s \in Snapshots, EditDraft(p, s)
       PROVE  StageInv'
  BY <1>21 DEF EditDraft
<1>22. ASSUME NEW id \in Pubs, Expire(id)
       PROVE  StageInv'
  BY <1>22 DEF Expire, TypeOK, ReqBound, WorkerBound
<1>23. CASE LoseConnection \/ Shutdown
  BY <1>23 DEF LoseConnection, Shutdown
<1>24. CASE Exit \/ Crash
  BY <1>24 DEF Exit, Crash, Restart, IdleReq, IdleWorker
<1>25. CASE UNCHANGED vars
  BY <1>25 DEF vars
<1>26. QED
  BY <1>1, <1>2, <1>3, <1>4, <1>5, <1>6, <1>7, <1>8, <1>9, <1>10, <1>11, <1>13,
     <1>14, <1>15, <1>16, <1>17, <1>18, <1>19, <1>20, <1>21, <1>22, <1>23, <1>24, <1>25
     DEF Next, NextButPurge, NewRequest, Serve, Worker, Environment

-----------------------------------------------------------------------------
(* Steps map to steps. *)

AllInv == TypeInv /\ QueueInv /\ PageInv /\ StageInv

\* Nothing that a client sees changes.
Unseen == UNCHANGED <<lifecycleStatus, lifecyclePage>>

\* One publication's record changes, the others' and all pages stay.
OnlyRecordOf(pub) ==
  /\ \A id \in Pubs \ {pub} : db'[id] = db[id] /\ (id \in minted' <=> id \in minted)
  /\ UNCHANGED obj

LEMMA RecordsKept ==
  ASSUME AllInv, UNCHANGED <<db, minted>>, BundlesKept
  PROVE  Unseen
BY DEF Unseen, lifecycleStatus, lifecyclePage, BundlesKept, Status, AllInv, TypeInv, TypeOK

LEMMA OneStatusMoves ==
  ASSUME AllInv, NEW pub \in Pubs, OnlyRecordOf(pub)
  PROVE  lifecycleStatus'
           = [lifecycleStatus EXCEPT ![pub] = lifecycleStatus[pub]']
BY DEF OnlyRecordOf, lifecycleStatus, Status

LEMMA OnePageMoves ==
  ASSUME AllInv, NEW pub \in Pubs, OnlyRecordOf(pub)
  PROVE  /\ Status(pub) # "FINISHED" /\ Status(pub)' # "FINISHED"
              => UNCHANGED lifecyclePage
         /\ Status(pub)' # "FINISHED"
              => lifecyclePage' = [lifecyclePage EXCEPT ![pub] = NoSnapshot]
         /\ Status(pub)' = "FINISHED"
              => lifecyclePage' = [lifecyclePage EXCEPT ![pub] = obj[pub][Index]]
BY DEF OnlyRecordOf, lifecyclePage, Status

\* A step that replaces the record of pub by one with status st.
LEMMA Replaced ==
  ASSUME AllInv, NEW pub \in Pubs, NEW doc \in Docs, NEW o, Update(pub, doc, o),
         UNCHANGED <<minted, obj>>
  PROVE  OnlyRecordOf(pub) /\ Status(pub)' \in {Status(pub), doc.status}
<1>1. doc # NoDoc
  BY ConstantsAssumption
<1>2. OnlyRecordOf(pub)
  BY DEF Update, OnlyRecordOf, AllInv, TypeInv, TypeOK
<1>3. Status(pub)' \in {Status(pub), doc.status}
  BY <1>1 DEF Update, Status, AllInv, TypeInv, TypeOK
<1>4. QED
  BY <1>2, <1>3

\* A record that is removed, or that was never there.
LEMMA Removed ==
  ASSUME AllInv, NEW pub \in minted, db' = [db EXCEPT ![pub] = NoDoc],
         UNCHANGED <<minted, obj>>
  PROVE  Lifecycle!Next \/ Unseen
<1>1. pub \in Pubs /\ OnlyRecordOf(pub) /\ Status(pub)' = "NONE"
  BY DEF OnlyRecordOf, Status, AllInv, TypeInv, TypeOK
<1>2. lifecycleStatus[pub]' = "GONE"
  BY <1>1 DEF lifecycleStatus, Status, AllInv, TypeInv, TypeOK
<1>3. CASE db[pub] = NoDoc
  BY <1>3, RecordsKept DEF BundlesKept, AllInv, TypeInv, TypeOK
<1>4. CASE db[pub] # NoDoc
  <2>1. lifecycleStatus[pub] \in {"PENDING", "PROCESSING", "FINISHED", "FAILED"}
    BY <1>1, <1>4 DEF lifecycleStatus, Status, AllInv, TypeInv, TypeOK, Docs, Statuses
  <2>2. Lifecycle!Remove(pub)
    BY <1>1, <1>2, <2>1, OneStatusMoves, OnePageMoves DEF Lifecycle!Remove, Lifecycle!Move
  <2>3. QED
    BY <1>1, <2>2 DEF Lifecycle!Next
<1>5. QED
  BY <1>3, <1>4

\* A record that moves on within one status or from one to the next.
LEMMA Progress ==
  ASSUME AllInv, NEW pub \in Pubs, NEW doc \in Docs, NEW o, Update(pub, doc, o),
         UNCHANGED <<minted, obj>>,
         \/ doc.status = "PROCESSING" /\ Status(pub) \in {"NONE", "PENDING", "PROCESSING"}
         \/ doc.status = "FAILED" /\ Status(pub) \in {"NONE", "PENDING", "PROCESSING"}
  PROVE  Lifecycle!Next \/ Unseen
<1>1. OnlyRecordOf(pub) /\ Status(pub)' \in {Status(pub), doc.status}
  BY Replaced
<1>2. UNCHANGED lifecyclePage
  BY <1>1, OnePageMoves
<1>3. CASE db[pub] = NoDoc
  BY <1>3, RecordsKept DEF Update, BundlesKept
<1>4. CASE db[pub] # NoDoc
  <2>1. /\ db'[pub] # NoDoc
        /\ lifecycleStatus[pub] = Status(pub)
        /\ lifecycleStatus[pub]' = Status(pub)'
    BY <1>4, ConstantsAssumption DEF lifecycleStatus, Update, AllInv, TypeInv, TypeOK, Status
  <2>2. CASE Status(pub)' = Status(pub)
    <3>1. lifecycleStatus' = [lifecycleStatus EXCEPT ![pub] = lifecycleStatus[pub]]
      BY <1>1, <2>1, <2>2, OneStatusMoves
    <3>2. UNCHANGED lifecycleStatus
      BY <3>1 DEF lifecycleStatus
    <3>3. QED
      BY <1>2, <3>2 DEF Unseen
  <2>3. CASE Status(pub)' # Status(pub)
    <3>1. Lifecycle!Start(pub) \/ Lifecycle!Fail(pub)
      <4>1. lifecycleStatus' = [lifecycleStatus EXCEPT ![pub] = doc.status]
        BY <1>1, <2>1, <2>3, OneStatusMoves
      <4>2. lifecycleStatus[pub] \in {"PENDING", "PROCESSING"}
        BY <1>4, <2>1, ConstantsAssumption DEF Status, AllInv, TypeInv, TypeOK, Docs, Statuses
      <4>3. doc.status = "PROCESSING" => lifecycleStatus[pub] = "PENDING"
        BY <1>1, <2>1, <2>3, <4>2
      <4>4. QED
        BY <1>2, <4>1, <4>2, <4>3 DEF Lifecycle!Start, Lifecycle!Fail, Lifecycle!Move
    <3>2. QED
      BY <3>1 DEF Lifecycle!Next
  <2>4. QED
    BY <2>2, <2>3
<1>5. QED
  BY <1>3, <1>4

LEMMA LifecycleInit == Init => Lifecycle!Init
BY DEF Init, Lifecycle!Init, lifecycleStatus, lifecyclePage, Status

LEMMA LifecycleNext ==
  AllInv /\ [Next]_vars => Lifecycle!Next \/ Unseen
<1> SUFFICES ASSUME AllInv, [Next]_vars PROVE Lifecycle!Next \/ Unseen
  OBVIOUS
<1>0. BundlesKept
  BY BundlesKeptStep DEF AllInv
<1>1. CASE UNCHANGED <<db, minted>>
  BY <1>0, <1>1, RecordsKept
<1>2. ASSUME NEW r \in Reqs, NEW u \in Users, NEW p \in Projects, NEW id \in Pubs,
             NEW o \in Outcomes, CreateInsert(r, u, p, id, o)
      PROVE  Lifecycle!Next
  <2>1. /\ OnlyRecordOf(id)
        /\ db[id] = NoDoc
        /\ db'[id] = NoDoc \/ (db'[id] # NoDoc /\ db'[id].status = "PENDING")
        /\ id \notin minted /\ id \in minted'
    BY <1>2, ConstantsAssumption
       DEF CreateInsert, OnlyRecordOf, AllInv, TypeInv, TypeOK, QueueInv, MintedFirst
  <2>2. UNCHANGED lifecyclePage
    BY <2>1, OnePageMoves DEF Status
  <2>3. lifecycleStatus[id] = "NONE" /\ lifecycleStatus[id]' \in {"GONE", "PENDING"}
    BY <2>1 DEF lifecycleStatus, Status
  <2>4. Lifecycle!Accept(id)
    BY <2>1, <2>2, <2>3, OneStatusMoves DEF Lifecycle!Accept, Lifecycle!Move
  <2>5. QED
    BY <2>4 DEF Lifecycle!Next
<1>3. ASSUME NEW r \in Reqs, NEW o \in Outcomes, CreateReject(r, o)
      PROVE  Lifecycle!Next \/ Unseen
  <2> DEFINE doc == [req[r].doc EXCEPT !.status = "FAILED"]
  <2>1. doc \in Docs /\ doc.status = "FAILED" /\ req[r].id \in Pubs
    BY <1>3 DEF CreateReject, AllInv, TypeInv, ReqBound, Docs, Statuses
  <2>2. Status(req[r].id) \in {"NONE", "PENDING"}
    BY <1>3 DEF CreateReject, AllInv, StageInv, CreateIsAlone, InCreate
  <2>3. Update(req[r].id, doc, o) /\ UNCHANGED <<minted, obj>>
    BY <1>3 DEF CreateReject
  <2> HIDE DEF doc
  <2>4. QED
    BY <2>1, <2>2, <2>3, Progress
<1>4. ASSUME NEW r \in Reqs, NEW o \in Outcomes, DeleteDoc(r, o)
      PROVE  Lifecycle!Next \/ Unseen
  <2>1. req[r].id \in minted /\ UNCHANGED <<minted, obj>>
    BY <1>4 DEF DeleteDoc, AllInv, QueueInv, MintedFirst
  <2>2. CASE db' = db
    BY <2>1, <2>2, <1>1
  <2>3. CASE db' = [db EXCEPT ![req[r].id] = NoDoc]
    BY <2>1, <2>3, Removed
  <2>4. QED
    BY <1>4, <2>2, <2>3 DEF DeleteDoc
<1>5. ASSUME NEW o \in Outcomes, ProcessMark(o)
      PROVE  Lifecycle!Next \/ Unseen
  <2> DEFINE doc == [worker.doc EXCEPT !.status = "PROCESSING"]
  <2>1. doc \in Docs /\ doc.status = "PROCESSING" /\ worker.task \in Pubs
    BY <1>5 DEF ProcessMark, AllInv, TypeInv, WorkerBound, Docs, Statuses
  <2>2. Status(worker.task) \in {"NONE", "PENDING", "PROCESSING"}
    BY <1>5 DEF ProcessMark, AllInv, StageInv, WorkIsMarked
  <2>3. Update(worker.task, doc, o) /\ UNCHANGED <<minted, obj>>
    BY <1>5 DEF ProcessMark
  <2> HIDE DEF doc
  <2>4. QED
    BY <2>1, <2>2, <2>3, Progress
<1>6. ASSUME NEW o \in Outcomes, ProcessFail(o)
      PROVE  Lifecycle!Next \/ Unseen
  <2> DEFINE doc == [worker.doc EXCEPT !.status = "FAILED"]
  <2>1. doc \in Docs /\ doc.status = "FAILED" /\ worker.task \in Pubs
    BY <1>6 DEF ProcessFail, AllInv, TypeInv, WorkerBound, Docs, Statuses
  <2>2. Status(worker.task) \in {"NONE", "PROCESSING"}
    BY <1>6 DEF ProcessFail, AllInv, StageInv, WorkIsMarked
  <2>3. Update(worker.task, doc, o) /\ UNCHANGED <<minted, obj>>
    BY <1>6 DEF ProcessFail
  <2> HIDE DEF doc
  <2>4. QED
    BY <2>1, <2>2, <2>3, Progress
<1>7. ASSUME NEW o \in Outcomes, ProcessFinish(o)
      PROVE  Lifecycle!Next \/ Unseen
  <2> DEFINE doc == [worker.doc EXCEPT !.status = "FINISHED", !.assets = TRUE]
  <2>1. doc \in Docs /\ doc.status = "FINISHED" /\ worker.task \in Pubs
    BY <1>7 DEF ProcessFinish, AllInv, TypeInv, WorkerBound, Docs, Statuses
  <2>2. Update(worker.task, doc, o) /\ UNCHANGED <<minted, obj>>
    BY <1>7 DEF ProcessFinish
  <2> HIDE DEF doc
  <2>3. CASE db' = db
    BY <1>1, <2>2, <2>3
  <2>4. CASE db[worker.task] # NoDoc /\ db' = [db EXCEPT ![worker.task] = doc]
    <3>1. PICK pub \in Pubs : pub = worker.task
      BY <2>1
    <3>2. OnlyRecordOf(pub)
      BY <2>1, <2>2, <3>1, Replaced
    <3>3. lifecycleStatus[pub] = "PROCESSING"
      BY <1>7, <2>4, <3>1, ConstantsAssumption
         DEF ProcessFinish, AllInv, StageInv, WorkIsMarked, TypeInv, TypeOK, lifecycleStatus,
             Status, Docs, Statuses
    <3>4. Status(pub)' = "FINISHED" /\ lifecycleStatus[pub]' = "FINISHED"
      BY <2>1, <2>4, <3>1, ConstantsAssumption
         DEF AllInv, TypeInv, TypeOK, lifecycleStatus, Status
    <3>5. obj[pub][Index] \in Snapshots
      BY <1>7, <2>4, <3>1 DEF ProcessFinish, AllInv, PageInv, UploadedSoFar
    <3>6. lifecycleStatus' = [lifecycleStatus EXCEPT ![pub] = "FINISHED"]
      BY <3>2, <3>4, OneStatusMoves
    <3>7. lifecyclePage' = [lifecyclePage EXCEPT ![pub] = obj[pub][Index]]
      BY <3>2, <3>4, OnePageMoves
    <3>8. Lifecycle!Finish(pub)
      BY <3>3, <3>5, <3>6, <3>7 DEF Lifecycle!Finish, Lifecycle!Move
    <3>9. QED
      BY <3>8 DEF Lifecycle!Next
  <2>5. QED
    BY <2>2, <2>3, <2>4 DEF Update
<1>8. ASSUME NEW id \in Pubs, Expire(id)
      PROVE  Lifecycle!Next \/ Unseen
  BY <1>8, Removed DEF Expire, AllInv, QueueInv, MintedFirst
<1>9. CASE NextButPurge
  <2>1. CASE \E q \in Reqs : NewRequest(q) \/ Serve(q)
    <3>1. ASSUME NEW q \in Reqs, NewRequest(q) PROVE Lifecycle!Next \/ Unseen
      BY <1>1, <1>2, <3>1 DEF NewRequest, DeleteGet
    <3>2. ASSUME NEW q \in Reqs, Serve(q) PROVE Lifecycle!Next \/ Unseen
      BY <1>1, <1>3, <1>4, <3>2
         DEF Serve, CreatePublish, DeleteBundle, DeleteBundlePartly
    <3>3. QED
      BY <2>1, <3>1, <3>2
  <2>2. CASE Worker
    BY <1>1, <1>5, <1>6, <1>7, <2>2
       DEF Worker, Receive, StopConsuming, ProcessGet, ProcessRender, PutObject,
           ProcessCleanup, Nack, Ack
  <2>3. CASE Environment
    BY <1>1, <1>8, <2>3
       DEF Environment, EditDraft, LoseConnection, Shutdown, Exit, Crash, Restart
  <2>4. QED
    BY <1>9, <2>1, <2>2, <2>3 DEF NextButPurge
<1>10. QED
  BY <1>1, <1>9 DEF Next, DeletePurge, vars

\* While every call's reply arrives, a client of the API sees each publication
\* go through its lifecycle: requests, tasks, redeliveries and crashes are
\* steps of it or do not show.
THEOREM RefinesLifecycleHolds == RepliesArrive /\ Spec => RefinesLifecycle
<1>1. AllInv /\ [Next]_vars => [Lifecycle!Next]_<<lifecycleStatus, lifecyclePage>>
  BY LifecycleNext DEF Unseen
<1>2. QED
  BY <1>1, TypeInit, TypeNext, QueueInit, QueueNext, PageInit, PageNext, StageInit,
     StageNext, LifecycleInit, PTL
     DEF Spec, AllInv, RefinesLifecycle, Lifecycle!Spec, Lifecycle!lifecycleVars

=============================================================================
