------------------------ MODULE PublicationLifecycle ------------------------
(***************************************************************************)
(* What the publishing component promises of each publication, without the *)
(* queue, the worker, the requests or their failures: a publication is     *)
(* accepted once, is worked on, settles as FINISHED with a page that never *)
(* changes or as FAILED without one, and may be removed for good at any    *)
(* time (publishing/README.md, publishing/models.go).                      *)
(***************************************************************************)
CONSTANTS Pubs, Snapshots, NoSnapshot

VARIABLES
  status,  \* status[id]: "NONE" before and "GONE" after the record exists
  page     \* page[id]: the snapshot a FINISHED publication shows

lifecycleVars == <<status, page>>

Init ==
  /\ status = [id \in Pubs |-> "NONE"]
  /\ page = [id \in Pubs |-> NoSnapshot]

Move(id, from, to) ==
  /\ status[id] \in from
  /\ status' = [status EXCEPT ![id] = to]

\* A publication is accepted, or its id is spent without a record.
Accept(id) ==
  /\ \/ Move(id, {"NONE"}, "PENDING")
     \/ Move(id, {"NONE"}, "GONE")
  /\ UNCHANGED page

Start(id) == Move(id, {"PENDING"}, "PROCESSING") /\ UNCHANGED page

Finish(id) ==
  /\ Move(id, {"PROCESSING"}, "FINISHED")
  /\ \E s \in Snapshots : page' = [page EXCEPT ![id] = s]

Fail(id) == Move(id, {"PENDING", "PROCESSING"}, "FAILED") /\ UNCHANGED page

Remove(id) ==
  /\ Move(id, {"PENDING", "PROCESSING", "FINISHED", "FAILED"}, "GONE")
  /\ page' = [page EXCEPT ![id] = NoSnapshot]

Next ==
  \E id \in Pubs :
    Accept(id) \/ Start(id) \/ Finish(id) \/ Fail(id) \/ Remove(id)

Spec == Init /\ [][Next]_lifecycleVars

=============================================================================
