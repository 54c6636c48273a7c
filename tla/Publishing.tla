----------------------------- MODULE Publishing -----------------------------
(***************************************************************************)
(* The publishing component: API requests that create and delete           *)
(* publications, the RabbitMQ queue, the single worker goroutine that      *)
(* renders a draft and uploads the bundle, the MongoDB records and the     *)
(* objects in S3.  Every call to MongoDB, RabbitMQ or S3 is one step, so   *)
(* requests, the worker, failures and restarts interleave between any two  *)
(* calls.                                                                  *)
(*                                                                         *)
(* A call may return an error.  "fail": the call had no effect.  "lost":   *)
(* the call took effect but its caller got an error (connection reset,     *)
(* request context cancelled by the client).  Faults of every kind are     *)
(* bounded by Budget.                                                      *)
(***************************************************************************)
EXTENDS Integers, FiniteSets

CONSTANTS
  Pubs,       \* publication ids, each used at most once (uuid.NewString)
  Projects,
  Users,
  Owner,      \* Owner[p]: the owner_id of project p, never changed
  Reqs,       \* goroutines that serve API requests
  Files,      \* paths inside a bundle
  Index,      \* the path index.html
  Snapshots,  \* contents a project's draft may have
  Bundle,     \* Bundle[s]: the files the CLI renders from snapshot s
  Budget,     \* how many faults of each kind a behaviour contains
  NoDoc,      \* "no such record"
  NoPub,      \* "no publication"
  NoSnapshot, \* "no such object", and "nothing rendered"
  NoUser

Statuses == {"PENDING", "PROCESSING", "FINISHED", "FAILED"}

\* A record of the publications collection; assets: AssetsPath is not empty.
Docs == [project : Projects, status : Statuses, assets : BOOLEAN]

FaultKinds == {"fail",     \* a call returns an error and had no effect
               "lost",     \* a call took effect and returned an error
               "drop",     \* Publish returned nil, the broker lost the message
               "partial",  \* DeleteObjects left objects behind and returned nil
               "conn",     \* the AMQP connection breaks
               "crash",    \* the process dies and is restarted
               "stop",     \* SIGTERM: graceful shutdown, then a restart
               "ttl"}      \* MongoDB's TTL monitor removes a record

ASSUME ConstantsAssumption ==
  /\ Owner \in [Projects -> Users]
  /\ Index \in Files
  /\ Bundle \in [Snapshots -> SUBSET Files]
  /\ Budget \in [FaultKinds -> Nat]
  /\ NoDoc \notin Docs
  /\ NoPub \notin Pubs
  /\ NoSnapshot \notin Snapshots
  /\ NoUser \notin Users

VARIABLES
  db,        \* db[id]: the record of publication id, or NoDoc
  minted,    \* ids that have been given out
  accepted,  \* ids whose creation was answered with success (history)
  obj,       \* obj[id][f]: the rendering stored at publications/id/f
  queue,     \* ids whose task message the broker holds (ready or not acked)
  worker,    \* the worker goroutine
  ctx,       \* the worker's context: "live", "cancelling" or "cancelled"
  conn,      \* the AMQP connection is open
  req,       \* req[r]: the request goroutine r serves
  draft,     \* draft[p]: what GetLatestDraft returns for project p
  budget     \* faults that may still happen

vars == <<db, minted, accepted, obj, queue, worker, ctx, conn, req, draft, budget>>

-----------------------------------------------------------------------------
IdleReq == [pc |-> "idle", id |-> NoPub, user |-> NoUser, doc |-> NoDoc]

IdleWorker == [pc |-> "idle", task |-> NoPub, doc |-> NoDoc,
               snap |-> NoSnapshot, todo |-> {}]

NoObjects == [f \in Files |-> NoSnapshot]

TypeOK ==
  /\ db \in [Pubs -> Docs \cup {NoDoc}]
  /\ minted \subseteq Pubs
  /\ accepted \subseteq Pubs
  /\ obj \in [Pubs -> [Files -> Snapshots \cup {NoSnapshot}]]
  /\ queue \subseteq Pubs
  /\ worker \in [pc : {"idle", "get", "mark", "render", "put", "finish",
                       "cleanup", "fail", "nack", "ack", "stopped"},
                 task : Pubs \cup {NoPub},
                 doc : Docs \cup {NoDoc},
                 snap : Snapshots \cup {NoSnapshot},
                 todo : SUBSET Files]
  /\ ctx \in {"live", "cancelling", "cancelled"}
  /\ conn \in BOOLEAN
  /\ req \in [Reqs -> [pc : {"idle", "publish", "reject", "delete", "bundle",
                             "purge"},
                       id : Pubs \cup {NoPub},
                       user : Users \cup {NoUser},
                       doc : Docs \cup {NoDoc}]]
  /\ draft \in [Projects -> Snapshots]
  /\ budget \in [FaultKinds -> Nat]

Init ==
  /\ db = [id \in Pubs |-> NoDoc]
  /\ minted = {}
  /\ accepted = {}
  /\ obj = [id \in Pubs |-> NoObjects]
  /\ queue = {}
  /\ worker = IdleWorker
  /\ ctx = "live"
  /\ conn = TRUE
  /\ req = [r \in Reqs |-> IdleReq]
  /\ draft \in [Projects -> Snapshots]
  /\ budget = Budget

-----------------------------------------------------------------------------
(* Outcomes of calls. *)

Spend(kind) ==
  /\ budget[kind] > 0
  /\ budget' = [budget EXCEPT ![kind] = @ - 1]

Outcomes == {"ok", "fail", "lost"}

\* The outcome o of a call that no context cancels.
Call(o) == IF o = "ok" THEN UNCHANGED budget ELSE Spend(o)

\* The outcome o of a worker call: once the worker's context is cancelled the
\* call in flight ends in any way, and every later call fails at once.
WorkerCall(o) ==
  \/ ctx = "live" /\ Call(o) /\ UNCHANGED ctx
  \/ ctx = "cancelling" /\ ctx' = "cancelled" /\ UNCHANGED budget
  \/ ctx = "cancelled" /\ o = "fail" /\ UNCHANGED <<ctx, budget>>

Took(o) == o \in {"ok", "lost"}

\* Variant of Update: the replacement inserts a record where there is none.
UpsertUpdate(id, doc, o) ==
  db' = IF Took(o) THEN [db EXCEPT ![id] = doc] ELSE db

\* repo.Update: replaces the whole record, never inserts one.
Update(id, doc, o) ==
  db' = IF Took(o) /\ db[id] # NoDoc THEN [db EXCEPT ![id] = doc] ELSE db

\* What repo.Update returns is nil: the call went well and matched a record.
Updated(id, o) == o = "ok" /\ db[id] # NoDoc

\* blob.DeleteBundle: removes every object under publications/id/.
Unlink(id, o) == obj' = IF Took(o) THEN [obj EXCEPT ![id] = NoObjects] ELSE obj

-----------------------------------------------------------------------------
(* PublicationService.Create. *)

\* Ownership, a readable draft, a fresh id, the PENDING record.  If Insert
\* reports an error the request ends; the record may exist all the same.
CreateInsert(r, u, p, id, o) ==
  LET pub == [project |-> p, status |-> "PENDING", assets |-> FALSE]
  IN  /\ req[r].pc = "idle" /\ ctx = "live"
      /\ Owner[p] = u
      /\ id \notin minted
      /\ o \in Outcomes /\ Call(o)
      /\ minted' = minted \cup {id}
      /\ db' = IF Took(o) THEN [db EXCEPT ![id] = pub] ELSE db
      /\ req' = IF o = "ok"
                THEN [req EXCEPT ![r] = [pc |-> "publish", id |-> id,
                                         user |-> u, doc |-> pub]]
                ELSE req
      /\ UNCHANGED <<accepted, obj, queue, worker, ctx, conn, draft>>

\* publisher.Publish: no publisher confirms, so success only says that the
\* message was written to the connection.
CreatePublish(r, o) ==
  /\ req[r].pc = "publish"
  /\ IF conn THEN o \in Outcomes \cup {"drop"} /\ Call(o)
             ELSE o = "fail" /\ UNCHANGED budget
  /\ queue' = IF Took(o) THEN queue \cup {req[r].id} ELSE queue
  /\ accepted' = IF o \in {"ok", "drop"} THEN accepted \cup {req[r].id} ELSE accepted
  /\ req' = IF o \in {"ok", "drop"} THEN [req EXCEPT ![r] = IdleReq]
                                    ELSE [req EXCEPT ![r].pc = "reject"]
  /\ UNCHANGED <<db, minted, obj, worker, ctx, conn, draft>>

\* Publish failed: the local copy, still without assets, becomes FAILED and
\* replaces the record; an error of Update is ignored.
CreateReject(r, o) ==
  /\ req[r].pc = "reject"
  /\ o \in Outcomes /\ Call(o)
  /\ Update(req[r].id, [req[r].doc EXCEPT !.status = "FAILED"], o)
  /\ req' = [req EXCEPT ![r] = IdleReq]
  /\ UNCHANGED <<minted, accepted, obj, queue, worker, ctx, conn, draft>>

-----------------------------------------------------------------------------
(* PublicationService.Delete. *)

\* Variant of DeleteGet: the record's project is not compared with the path's.
AnyProjectGet(r, u, p, id) ==
  /\ req[r].pc = "idle" /\ ctx = "live"
  /\ Owner[p] = u
  /\ db[id] # NoDoc
  /\ req' = [req EXCEPT ![r] = [pc |-> "delete", id |-> id, user |-> u,
                                doc |-> db[id]]]
  /\ UNCHANGED <<db, minted, accepted, obj, queue, worker, ctx, conn, draft, budget>>

\* Variant of DeleteGet: the bundle is deleted while the record still exists.
BundleFirstGet(r, u, p, id) ==
  /\ req[r].pc = "idle" /\ ctx = "live"
  /\ Owner[p] = u
  /\ db[id] # NoDoc
  /\ db[id].project = p
  /\ req' = [req EXCEPT ![r] =
               [pc |-> IF db[id].assets THEN "bundle" ELSE "delete",
                id |-> id, user |-> u, doc |-> db[id]]]
  /\ UNCHANGED <<db, minted, accepted, obj, queue, worker, ctx, conn, draft, budget>>

\* Ownership of the path's project, then the record, which must belong to it.
\* The request keeps the record it read.
DeleteGet(r, u, p, id) ==
  /\ req[r].pc = "idle" /\ ctx = "live"
  /\ Owner[p] = u
  /\ db[id] # NoDoc
  /\ db[id].project = p
  /\ req' = [req EXCEPT ![r] = [pc |-> "delete", id |-> id, user |-> u,
                                doc |-> db[id]]]
  /\ UNCHANGED <<db, minted, accepted, obj, queue, worker, ctx, conn, draft, budget>>

\* Variant of DeleteDoc: the record is marked as deleted and stays.
SoftDeleteDoc(r, o) ==
  /\ req[r].pc = "delete"
  /\ o \in Outcomes /\ Call(o)
  /\ db' = IF Took(o) /\ db[req[r].id] # NoDoc
           THEN [db EXCEPT ![req[r].id].status = "DELETED"] ELSE db
  /\ req' = [req EXCEPT ![r] = IdleReq]
  /\ UNCHANGED <<minted, accepted, obj, queue, worker, ctx, conn, draft>>

\* repo.Delete; that no record matched is not an error.
DeleteDoc(r, o) ==
  /\ req[r].pc = "delete"
  /\ o \in Outcomes /\ Call(o)
  /\ db' = IF Took(o) THEN [db EXCEPT ![req[r].id] = NoDoc] ELSE db
  /\ req' = IF o = "ok"
            THEN [req EXCEPT ![r].pc = IF req[r].doc.assets THEN "bundle" ELSE "purge"]
            ELSE [req EXCEPT ![r] = IdleReq]
  /\ UNCHANGED <<minted, accepted, obj, queue, worker, ctx, conn, draft>>

\* blob.DeleteBundle.
DeleteBundle(r, o) ==
  /\ req[r].pc = "bundle"
  /\ o \in Outcomes /\ Call(o)
  /\ Unlink(req[r].id, o)
  /\ req' = IF o = "ok" THEN [req EXCEPT ![r].pc = "purge"]
                        ELSE [req EXCEPT ![r] = IdleReq]
  /\ UNCHANGED <<db, minted, accepted, queue, worker, ctx, conn, draft>>

\* The per-object errors of DeleteObjects are not looked at (Quiet): any set
\* of objects may stay.
DeleteBundlePartly(r, kept) ==
  /\ req[r].pc = "bundle"
  /\ Spend("partial")
  /\ obj' = [obj EXCEPT ![req[r].id] =
               [f \in Files |-> IF f \in kept THEN @[f] ELSE NoSnapshot]]
  /\ req' = [req EXCEPT ![r].pc = "purge"]
  /\ UNCHANGED <<db, minted, accepted, queue, worker, ctx, conn, draft>>

\* cachePurger.PurgePublication and the end of the request, with or without
\* an error.  The cache itself is a matter of module Delivery.
DeletePurge(r) ==
  /\ req[r].pc = "purge"
  /\ req' = [req EXCEPT ![r] = IdleReq]
  /\ UNCHANGED <<db, minted, accepted, obj, queue, worker, ctx, conn, draft, budget>>

-----------------------------------------------------------------------------
(* The worker goroutine: the consume loop and ProcessPublication. *)

Goto(pc) == worker' = [worker EXCEPT !.pc = pc]

\* Consume: a delivery, while the channel is open.  After a shutdown the
\* select may still pick a delivery.
Receive(id) ==
  /\ worker.pc = "idle" /\ conn
  /\ id \in queue
  /\ worker' = [IdleWorker EXCEPT !.pc = "get", !.task = id]
  /\ UNCHANGED <<db, minted, accepted, obj, queue, ctx, conn, req, draft, budget>>

\* Consume returns: the context is cancelled or the deliveries are closed.
\* main only logs it; nothing starts the worker again.
StopConsuming ==
  /\ worker.pc = "idle"
  /\ ctx # "live" \/ ~conn
  /\ Goto("stopped")
  /\ UNCHANGED <<db, minted, accepted, obj, queue, ctx, conn, req, draft, budget>>

\* Variant of ProcessGet: a redelivered task of a settled record is processed.
EagerGet(o) ==
  LET doc == db[worker.task]
  IN  /\ worker.pc = "get"
      /\ o \in {"ok", "fail"} /\ WorkerCall(o)
      /\ worker' = IF o = "fail" THEN [worker EXCEPT !.pc = "nack"]
                   ELSE IF doc = NoDoc THEN [worker EXCEPT !.pc = "ack"]
                   ELSE [worker EXCEPT !.pc = "mark", !.doc = doc]
      /\ UNCHANGED <<db, minted, accepted, obj, queue, conn, req, draft>>

\* repo.Get; a missing or settled record needs no work.
ProcessGet(o) ==
  LET doc == db[worker.task]
  IN  /\ worker.pc = "get"
      /\ o \in {"ok", "fail"} /\ WorkerCall(o)
      /\ worker' =
           CASE o = "fail" -> [worker EXCEPT !.pc = "nack"]
             [] o = "ok" /\ doc = NoDoc -> [worker EXCEPT !.pc = "ack"]
             [] o = "ok" /\ doc # NoDoc ->
                  [worker EXCEPT !.pc = IF doc.status \in {"FINISHED", "FAILED"}
                                        THEN "ack" ELSE "mark",
                                 !.doc = doc]
      /\ UNCHANGED <<db, minted, accepted, obj, queue, conn, req, draft>>

\* Variant of ProcessMark: a task whose record could not be marked is acked.
GivingUpMark(o) ==
  LET doc == [worker.doc EXCEPT !.status = "PROCESSING"]
  IN  /\ worker.pc = "mark"
      /\ o \in Outcomes /\ WorkerCall(o)
      /\ Update(worker.task, doc, o)
      /\ worker' = [worker EXCEPT
                      !.doc = doc,
                      !.pc = IF Updated(worker.task, o) THEN "render" ELSE "ack"]
      /\ UNCHANGED <<minted, accepted, obj, queue, conn, req, draft>>

\* The local copy becomes PROCESSING and replaces the record.
ProcessMark(o) ==
  LET doc == [worker.doc EXCEPT !.status = "PROCESSING"]
  IN  /\ worker.pc = "mark"
      /\ o \in Outcomes /\ WorkerCall(o)
      /\ Update(worker.task, doc, o)
      /\ worker' = [worker EXCEPT
                      !.doc = doc,
                      !.pc = IF Updated(worker.task, o) THEN "render" ELSE "nack"]
      /\ UNCHANGED <<minted, accepted, obj, queue, conn, req, draft>>

\* GetLatestDraft of the draft reader: the draft as it is now.
LatestDraft(project) == draft[project]

\* Render of the CLI: a bundle without index.html is an error.
Renders(s) == Index \in Bundle[s]

\* drafts.GetLatestDraft and render.Render.
ProcessRender(o) ==
  LET s == LatestDraft(worker.doc.project)
  IN  /\ worker.pc = "render"
      /\ o \in {"ok", "fail"} /\ WorkerCall(o)
      /\ worker' = IF o = "ok" /\ Renders(s)
                   THEN [worker EXCEPT !.pc = "put", !.snap = s,
                                       !.todo = Bundle[s]]
                   ELSE [worker EXCEPT !.pc = "fail"]
      /\ UNCHANGED <<db, minted, accepted, obj, queue, conn, req, draft>>

\* Variant of PutObject: the loop ends one object early.
ShortPut(f, o) ==
  /\ worker.pc = "put"
  /\ f \in worker.todo
  /\ o \in Outcomes /\ WorkerCall(o)
  /\ obj' = IF Took(o) THEN [obj EXCEPT ![worker.task][f] = worker.snap]
                       ELSE obj
  /\ worker' = IF o = "ok"
               THEN [worker EXCEPT
                      !.todo = @ \ {f},
                      !.pc = IF Cardinality(worker.todo) <= 2
                             THEN "finish" ELSE "put"]
               ELSE [worker EXCEPT !.pc = "fail"]
  /\ UNCHANGED <<db, minted, accepted, queue, conn, req, draft>>

\* blob.PutBundle, one object at a time; the first error ends it and leaves
\* the objects stored so far.
PutObject(f, o) ==
  /\ worker.pc = "put"
  /\ f \in worker.todo
  /\ o \in Outcomes /\ WorkerCall(o)
  /\ obj' = IF Took(o) THEN [obj EXCEPT ![worker.task][f] = worker.snap]
                       ELSE obj
  /\ worker' = IF o = "ok"
               THEN [worker EXCEPT
                      !.todo = @ \ {f},
                      !.pc = IF worker.todo = {f} THEN "finish" ELSE "put"]
               ELSE [worker EXCEPT !.pc = "fail"]
  /\ UNCHANGED <<db, minted, accepted, queue, conn, req, draft>>

\* The local copy becomes FINISHED with its AssetsPath and replaces the record.
ProcessFinish(o) ==
  LET doc == [worker.doc EXCEPT !.status = "FINISHED", !.assets = TRUE]
  IN  /\ worker.pc = "finish"
      /\ o \in Outcomes /\ WorkerCall(o)
      /\ Update(worker.task, doc, o)
      /\ worker' = [worker EXCEPT
                      !.doc = doc,
                      !.pc = IF Updated(worker.task, o) THEN "ack" ELSE "cleanup"]
      /\ UNCHANGED <<minted, accepted, obj, queue, conn, req, draft>>

\* blob.DeleteBundle under context.Background(), its error ignored.
ProcessCleanup(o) ==
  /\ worker.pc = "cleanup"
  /\ o \in Outcomes /\ Call(o)
  /\ Unlink(worker.task, o)
  /\ Goto("fail")
  /\ UNCHANGED <<db, minted, accepted, queue, ctx, conn, req, draft>>

\* The local copy becomes FAILED, keeping an AssetsPath it already has; an
\* error of Update is ignored, the error of the render is returned.
ProcessFail(o) ==
  LET doc == [worker.doc EXCEPT !.status = "FAILED"]
  IN  /\ worker.pc = "fail"
      /\ o \in Outcomes /\ WorkerCall(o)
      /\ Update(worker.task, doc, o)
      /\ worker' = [worker EXCEPT !.doc = doc, !.pc = "nack"]
      /\ UNCHANGED <<minted, accepted, obj, queue, conn, req, draft>>

\* Variant of Nack: the message is dropped, not requeued.
DroppingNack ==
  /\ worker.pc = "nack"
  /\ queue' = queue \ {worker.task}
  /\ worker' = IdleWorker
  /\ UNCHANGED <<db, minted, accepted, obj, ctx, conn, req, draft, budget>>

\* delivery.Nack(requeue): the message stays.  Its error is ignored.
Nack ==
  /\ worker.pc = "nack"
  /\ worker' = IdleWorker
  /\ UNCHANGED <<db, minted, accepted, obj, queue, ctx, conn, req, draft, budget>>

\* delivery.Ack: on a closed channel it fails and ends Consume.
Ack ==
  /\ worker.pc = "ack"
  /\ IF conn THEN queue' = queue \ {worker.task} /\ worker' = IdleWorker
             ELSE UNCHANGED queue /\ worker' = [IdleWorker EXCEPT !.pc = "stopped"]
  /\ UNCHANGED <<db, minted, accepted, obj, ctx, conn, req, draft, budget>>

-----------------------------------------------------------------------------
(* The editor, the infrastructure and the process. *)

EditDraft(p, s) ==
  /\ draft[p] # s
  /\ draft' = [draft EXCEPT ![p] = s]
  /\ UNCHANGED <<db, minted, accepted, obj, queue, worker, ctx, conn, req, budget>>

\* The TTL index on created_at removes a record; its bundle stays.
Expire(id) ==
  /\ db[id] # NoDoc
  /\ Spend("ttl")
  /\ db' = [db EXCEPT ![id] = NoDoc]
  /\ UNCHANGED <<minted, accepted, obj, queue, worker, ctx, conn, req, draft>>

\* The AMQP connection breaks; only a new process opens another.  Messages
\* that were delivered and not acked return to the queue.
LoseConnection ==
  /\ conn /\ Spend("conn")
  /\ conn' = FALSE
  /\ UNCHANGED <<db, minted, accepted, obj, queue, worker, ctx, req, draft>>

\* SIGTERM: workerCancel, and srv.Shutdown accepts no new request.  A call
\* made under the worker's context may be in flight.
Shutdown ==
  /\ ctx = "live" /\ Spend("stop")
  /\ ctx' = IF worker.pc \in {"get", "mark", "render", "put", "finish", "fail"}
            THEN "cancelling" ELSE "cancelled"
  /\ UNCHANGED <<db, minted, accepted, obj, queue, worker, conn, req, draft>>

\* A new process: connections dialled, requests and local state gone.
Restart ==
  /\ worker' = IdleWorker
  /\ ctx' = "live"
  /\ conn' = TRUE
  /\ req' = [r \in Reqs |-> IdleReq]
  /\ UNCHANGED <<db, minted, accepted, obj, queue, draft>>

\* The end of main: requests have drained or 30s have passed, the worker
\* goroutine is not waited for.
Exit == ctx # "live" /\ Restart /\ UNCHANGED budget

Crash == Spend("crash") /\ Restart

-----------------------------------------------------------------------------
\* Every step of a request in progress but the purge of the page cache.
Serve(r) ==
  \/ \E o \in Outcomes \cup {"drop"} : CreatePublish(r, o)
  \/ \E o \in Outcomes :
       CreateReject(r, o) \/ DeleteDoc(r, o) \/ DeleteBundle(r, o)
  \/ \E kept \in SUBSET Files : DeleteBundlePartly(r, kept)

NewRequest(r) ==
  \E u \in Users, p \in Projects, id \in Pubs :
    \/ \E o \in Outcomes : CreateInsert(r, u, p, id, o)
    \/ DeleteGet(r, u, p, id)

Worker ==
  \/ \E id \in Pubs : Receive(id)
  \/ StopConsuming
  \/ \E o \in Outcomes :
       \/ ProcessGet(o) \/ ProcessMark(o) \/ ProcessRender(o)
       \/ \E f \in Files : PutObject(f, o)
       \/ ProcessFinish(o) \/ ProcessCleanup(o) \/ ProcessFail(o)
  \/ Nack \/ Ack

Environment ==
  \/ \E p \in Projects, s \in Snapshots : EditDraft(p, s)
  \/ \E id \in Pubs : Expire(id)
  \/ LoseConnection \/ Shutdown \/ Exit \/ Crash

NextButPurge ==
  \/ \E r \in Reqs : NewRequest(r) \/ Serve(r)
  \/ Worker
  \/ Environment

Next == NextButPurge \/ \E r \in Reqs : DeletePurge(r)

Spec == Init /\ [][Next]_vars

\* The scheduler runs every goroutine that can run, every call (MongoDB, S3,
\* the CLI) returns, and a process that was told to stop exits.  Users, the
\* editor and faults are under no obligation to act.
Fairness ==
  /\ \A r \in Reqs : WF_vars(Serve(r) \/ DeletePurge(r))
  /\ WF_vars(Worker)
  /\ WF_vars(Exit)

FairSpec == Spec /\ Fairness

-----------------------------------------------------------------------------
(* Properties. *)

Status(id) == IF db[id] = NoDoc THEN "NONE" ELSE db[id].status

\* publications/id/ holds every file of one rendering of snapshot s.
Holds(id, s) == \A f \in Bundle[s] : obj[id][f] = s

\* A FINISHED record has a page: index.html and every other file of the
\* rendering of one and the same snapshot are in the object store (models.go:
\* "bundle is stored").  Whatever was deleted, retried or restarted meanwhile,
\* provided no call loses its reply and no shutdown cancels one half way.
FinishedHasBundle ==
  \A id \in Pubs : Status(id) = "FINISHED" =>
    \E s \in Snapshots : Index \in Bundle[s] /\ Holds(id, s)

\* While a record stays FINISHED no object of its bundle is written or
\* removed: a publication is an immutable snapshot (publishing/README.md),
\* whatever the editor does to the draft and whatever is redelivered.
SnapshotImmutable ==
  [][\A id \in Pubs : Status(id) = "FINISHED" /\ Status(id)' = "FINISHED"
        => obj'[id] = obj[id]]_vars

\* A PROCESSING record still has its task in the queue, so a worker that died,
\* lost its connection or failed to write a status finds it again.  Holds
\* under every fault.
ProcessingHasTask ==
  \A id \in Pubs : Status(id) = "PROCESSING" => id \in queue

\* A removed record never comes back, under every fault: the worker and a
\* failing Create write their local copy with ReplaceOne, which matches
\* nothing once a client or the TTL monitor has removed the record.
RemovedStaysRemoved ==
  [][\A id \in minted : db[id] = NoDoc => db'[id] = NoDoc]_vars

\* A PENDING record whose creation was answered with success has its task in
\* the queue (models.go: "record created, task queued"), whatever fails, dies
\* or is redelivered, as long as the broker keeps what was written to it.
AcceptedIsQueued ==
  \A id \in accepted : Status(id) = "PENDING" => id \in queue

\* Nobody works on publication id any more: no request, no task, no worker.
Quiet(id) ==
  /\ \A r \in Reqs : req[r].id # id
  /\ worker.task # id
  /\ id \notin queue

\* Once everybody is done with a publication whose record is gone, so is its
\* bundle (handler.go: deletes the publication and its files).
NoOrphanBundle ==
  \A id \in minted : db[id] = NoDoc /\ Quiet(id) => obj[id] = NoObjects

\* A deletion of a FINISHED publication that is about to be answered has left
\* none of its objects behind (handler.go: deletes the publication and its
\* files), although the record goes first: no worker still writes there.
AnsweredDeletionIsComplete ==
  \A r \in Reqs :
    req[r].pc = "purge" /\ req[r].doc.status = "FINISHED"
      => obj[req[r].id] = NoObjects

\* Only a request of the owner of a publication's project removes its record
\* (handler.go: access for the project's owner only), unless it expires.
OnlyOwnerDeletes ==
  [][\A id \in Pubs : db[id] # NoDoc /\ db'[id] = NoDoc
        => \/ budget'["ttl"] # budget["ttl"]
           \/ \E r \in Reqs : /\ req[r].pc = "delete" /\ req[r].id = id
                              /\ req[r].user = Owner[db[id].project]]_vars

\* Every accepted publication leaves PENDING and PROCESSING: it becomes
\* FINISHED or FAILED, or is deleted (publishing/README.md: the worker takes
\* the status to FINISHED or FAILED, the client polls until then).
EventuallySettles ==
  \A id \in Pubs : Status(id) \in {"PENDING", "PROCESSING"}
                  ~> Status(id) \notin {"PENDING", "PROCESSING"}

\* A publication with a task in the queue is settled in the end, although
\* calls fail and are retried and the process dies or is restarted in the
\* middle of it (rabbitmq.go, Consume: ack when it is done, nack otherwise).
TaskSettles ==
  \A id \in Pubs : id \in queue /\ Status(id) \in {"PENDING", "PROCESSING"}
                  ~> Status(id) \notin {"PENDING", "PROCESSING"}

\* The lifecycle a client of the API sees: the record's status, GONE once the
\* id was given out and no record is left, and the snapshot on the page.
lifecycleStatus ==
  [id \in Pubs |-> IF db[id] = NoDoc /\ id \in minted THEN "GONE" ELSE Status(id)]

lifecyclePage ==
  [id \in Pubs |-> IF Status(id) = "FINISHED" THEN obj[id][Index] ELSE NoSnapshot]

Lifecycle == INSTANCE PublicationLifecycle
               WITH status <- lifecycleStatus, page <- lifecyclePage

\* The component implements the lifecycle: no status is skipped or taken back,
\* a removed record never reappears (Update does not insert), a page is
\* chosen once, by the step that makes the record FINISHED.
RefinesLifecycle == Lifecycle!Spec

=============================================================================
