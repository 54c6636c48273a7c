----------------------------- MODULE PageHistory -----------------------------
(***************************************************************************)
(* What the draft service promises of the page of one project, without     *)
(* versions, stored drafts, the semaphore or the calls to MongoDB: a       *)
(* mutation takes effect at one instant, on the page of that instant, and  *)
(* a read shows the page of one instant between its begin and its end,     *)
(* under a version that is not older than the page.                        *)
(***************************************************************************)
EXTENDS History

CONSTANTS
  Ops,      \* the mutations clients send
  Readers,  \* clients that read the page
  Versions, \* the versions they ask for
  Latest    \* what a read of the latest version asks for: above every version

VARIABLES
  history,  \* the mutations that took effect, in that order
  read      \* read[p]: what client p asked for, since when, and the reply

pageVars == <<history, read>>

NoReply == [version |-> 0, page |-> {}, given |-> FALSE]

NoRead == [open |-> FALSE, from |-> 0, asked |-> 0, reply |-> NoReply]

Init ==
  /\ history = <<>>
  /\ read = [p \in Readers |-> NoRead]

\* The content val with the given fields in place of its own.
Changed(val, given) ==
  [f \in DOMAIN val \cup DOMAIN given |->
     IF f \in DOMAIN given THEN given[f] ELSE val[f]]

\* The mutation that op is on the present page: none for the update of an
\* element that is not there.
Effects(op) ==
  CASE op.kind = "create" -> {Content(op.id, op.val)}
    [] op.kind = "delete" -> {Deletion(op.id)}
    [] op.kind = "revert" -> {Reversion(op.count)}
    [] op.kind = "update" ->
         {Content(e.id, Changed(e.val, op.val)) :
            e \in {x \in Page(history) : x.id = op.id}}

Apply(op) ==
  /\ UNCHANGED read
  /\ \E m \in Effects(op) : history' = Append(history, m)

Ask(p, version) ==
  /\ ~read[p].open
  /\ read' = [read EXCEPT ![p] = [open |-> TRUE, from |-> Len(history),
                                  asked |-> version, reply |-> NoReply]]
  /\ UNCHANGED history

\* The page as it was after n mutations, n of some time since Ask, or of the
\* version asked for if that is less; a read of the latest version is told a
\* version w that may be newer than the page.
Answer(p) ==
  /\ read[p].open /\ ~read[p].reply.given
  /\ UNCHANGED history
  /\ \E n \in read[p].from .. Len(history) : \E w \in n .. Len(history) :
       LET asked == read[p].asked
           shown == IF asked < n THEN asked ELSE n
           version == IF asked = Latest THEN w ELSE asked
       IN  read' = [read EXCEPT ![p].reply =
                      [version |-> version, page |-> Page(SubSeq(history, 1, shown)),
                       given |-> TRUE]]

\* Reads end, answered or not.
Leave(S) ==
  /\ read' = [p \in Readers |-> IF p \in S THEN NoRead ELSE read[p]]
  /\ UNCHANGED history

Next ==
  \/ \E op \in Ops : Apply(op)
  \/ \E p \in Readers, version \in Versions : Ask(p, version)
  \/ \E p \in Readers : Answer(p)
  \/ \E S \in SUBSET Readers : Leave(S)

Spec == Init /\ [][Next]_pageVars

=============================================================================
