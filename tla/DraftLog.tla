------------------------------ MODULE DraftLog ------------------------------
(***************************************************************************)
(* The mutation log of one project (storage/service.go,                    *)
(* storage/repository.go): goroutines that apply mutations or read the     *)
(* page, between them one step per call to MongoDB.  The service limits    *)
(* how many of them are at work with a semaphore, where the others wait in *)
(* the order in which they came; nothing orders those at work on the same  *)
(* project, and no index makes versions unique.  MongoDB removes mutations *)
(* and drafts that have reached their TTL.                                 *)
(***************************************************************************)
EXTENDS History

CONSTANTS
  Writers,    \* goroutines that serve mutations
  Readers,    \* goroutines that serve reads of the page
  Lookups,    \* goroutines that serve CreateProject and GetProject
  Ops,        \* the mutations clients send
  Asked,      \* the versions clients read, MaxInt for the latest
  Threshold,  \* CollapsThreshould: a draft is stored every so many versions
  Capacity,   \* MaxConnections: the size of the semaphore
  MaxLog,     \* bound on the number of mutations stored
  Shallow,    \* clients revert only what came after the last stored draft
  Expiry,     \* mutations and drafts reach their TTL
  NoOp        \* "no mutation": the request is a read

\* math.MaxInt as the version of the latest page: above every version.
MaxInt == MaxLog + 1

Procs == Writers \cup Readers \cup Lookups

Kinds == {"create", "update", "delete", "revert"}

\* A mutation request; val maps the fields it gives to their values.
OpTyped(op) ==
  /\ op.kind \in Kinds
  /\ IF op.kind = "revert" THEN op.count \in Nat \ {0} ELSE op.id # NoElem

ASSUME DraftLogAssumption ==
  /\ Threshold \in Nat \ {0}
  /\ Capacity \in Nat
  /\ MaxLog \in Nat
  /\ Shallow \in BOOLEAN
  /\ Expiry \in BOOLEAN
  /\ IsFiniteSet(Procs)
  /\ Asked \subseteq 0 .. MaxInt
  /\ \A op \in Ops : OpTyped(op)
  /\ NoOp \notin Ops

VARIABLES
  log,     \* every mutation ever inserted, in that order
  drafts,  \* every draft ever inserted, in that order
  swept,   \* how many of each, the oldest, MongoDB has removed again
  line,    \* goroutines in the service, in the order in which they came
  proc,    \* proc[p]: the request that goroutine p serves
  acked    \* the replies to mutations: [version, mutation]

vars == <<log, drafts, swept, line, proc, acked>>

-----------------------------------------------------------------------------
(* Queries. *)

\* The mutations collection, and the drafts collection: the positions still
\* there.
Mutations == {i \in DOMAIN log : i > swept.log}
Drafts == {i \in DOMAIN drafts : i > swept.drafts}

\* repo.GetLatestMutationVersion; 0 when there is none.
LatestVersion ==
  LET versions == {log[i].version : i \in Mutations} IN
  IF versions = {} THEN 0
  ELSE CHOOSE v \in versions : \A w \in versions : w <= v

NoDraft == [version |-> 0, mutations |-> <<>>]

\* repo.GetDraft: the stored draft of the highest version up to v.  The index
\* on (project_id, version) is read backwards: of equals, the last inserted.
LatestDraft(v) ==
  LET below == {i \in Drafts : drafts[i].version <= v}
      before(i, j) == \/ drafts[i].version < drafts[j].version
                      \/ drafts[i].version = drafts[j].version /\ i <= j
  IN  IF below = {} THEN NoDraft
      ELSE drafts[CHOOSE j \in below : \A i \in below : before(i, j)]

\* Variant of MutationsInRange: the limit is one too small.
ShortRange(from, to) ==
  LET found == {i \in Mutations : log[i].version \in from .. to}
      before(i, j) == \/ log[i].version < log[j].version
                      \/ log[i].version = log[j].version /\ i < j
      nth(k) == CHOOSE i \in found :
                  Cardinality({j \in found : before(j, i)}) = k - 1
      limit == to - from
      size == IF Cardinality(found) <= limit THEN Cardinality(found) ELSE limit
  IN  [k \in 1..size |-> log[nth(k)].mutation]

\* repo.GetMutationsInRange: by version, equals in the order of insertion (the
\* order of the index), and not more of them than versions in the range.
MutationsInRange(from, to) ==
  LET found == {i \in Mutations : log[i].version \in from .. to}
      before(i, j) == \/ log[i].version < log[j].version
                      \/ log[i].version = log[j].version /\ i < j
      nth(k) == CHOOSE i \in found :
                  Cardinality({j \in found : before(j, i)}) = k - 1
      limit == to - from + 1
      size == IF Cardinality(found) <= limit THEN Cardinality(found) ELSE limit
  IN  [k \in 1..size |-> log[nth(k)].mutation]

\* Variant of CollapseOnto: the first mutation after the draft is left out.
LateCollapseOnto(draft, to) ==
  IF draft.version = to THEN draft.mutations
  ELSE Collapse(draft.mutations \o MutationsInRange(draft.version + 2, to))

\* collapseMutations once a draft has been read: the draft itself, or the
\* draft with the mutations after it on top.
CollapseOnto(draft, to) ==
  IF draft.version = to THEN draft.mutations
  ELSE Collapse(draft.mutations \o MutationsInRange(draft.version + 1, to))

-----------------------------------------------------------------------------
NoMutation == Content(NoElem, NoVal)

\* pc: the call to make next.  page: what a collapse returned, which the call
\* at next makes use of.  start: how long the log was when a read began.
\* label: the version a read is answered with.
Idle == [pc |-> "idle", op |-> NoOp, new |-> NoMutation, upto |-> 0,
         draft |-> NoDraft, page |-> <<>>, next |-> "idle", start |-> 0,
         label |-> 0]

Init ==
  /\ log = <<>>
  /\ drafts = <<>>
  /\ swept = [log |-> 0, drafts |-> 0]
  /\ line = <<>>
  /\ proc = [p \in Procs |-> Idle]
  /\ acked = {}

\* A goroutine that comes in sends to the channel s.semaphore, whose buffer
\* has room for Capacity, and waits there behind those that came before it,
\* whatever becomes of its request.
Enter(p, request) ==
  /\ proc[p].pc = "idle"
  /\ line' = Append(line, p)
  /\ proc' = [proc EXCEPT ![p] = request]

\* Goroutine p has its slot: those that came first have, up to Capacity.
Holds(p) == \E i \in DOMAIN line : i <= Capacity /\ line[i] = p

At(p, pc) == proc[p].pc = pc /\ Holds(p)

Leave(p) ==
  \E i \in DOMAIN line :
    /\ line[i] = p
    /\ line' = SubSeq(line, 1, i - 1) \o SubSeq(line, i + 1, Len(line))

\* The service returns and releases the semaphore: who waits longest moves up.
Return(p) ==
  /\ proc' = [proc EXCEPT ![p] = Idle]
  /\ Leave(p)

-----------------------------------------------------------------------------
(* DraftService.ApplyMutation. *)

\* What create, delete and revert insert is known at once.
Mutation(op) ==
  CASE op.kind = "create" -> Content(op.id, op.val)
    [] op.kind = "delete" -> Deletion(op.id)
    [] op.kind = "revert" -> Reversion(op.count)

\* Variant of Merge: the given fields replace the whole content.
Overwrite(val, fields) == fields

\* mergeBSON: the given fields replace those of the element.  A field is the
\* path of a leaf, so that the recursion into nested objects is one step.
Merge(val, fields) ==
  [f \in DOMAIN val \cup DOMAIN fields |->
     IF f \in DOMAIN fields THEN fields[f] ELSE val[f]]

\* A client that asks to revert only what came after the last stored draft.
WithinDraft(op) ==
  op.kind = "revert" => op.count <= LatestVersion - LatestDraft(MaxInt).version

Busy == {p \in Writers : proc[p].pc # "idle"}

\* applyMutation lets a valid mutation of the owner's through.
BeginMutation(p, op) ==
  /\ Len(log) + Cardinality(Busy) < MaxLog
  /\ Shallow => WithinDraft(op)
  /\ Enter(p, IF op.kind = "update"
              THEN [Idle EXCEPT !.pc = "latest", !.op = op]
              ELSE [Idle EXCEPT !.pc = "number", !.op = op,
                                !.new = Mutation(op)])
  /\ UNCHANGED <<log, drafts, swept, acked>>

\* getEffectiveElementMutation: the version to collapse up to.
EffectiveVersion(p) ==
  /\ At(p, "latest")
  /\ proc' = [proc EXCEPT ![p] = [@ EXCEPT !.upto = LatestVersion, !.pc = "draft",
                                           !.next = "merge"]]
  /\ UNCHANGED <<log, drafts, swept, line, acked>>

\* collapseMutations, first call: the stored draft.  One of the very version
\* asked for is the result.
CollapseDraft(p) ==
  LET r == proc[p]
      draft == LatestDraft(r.upto)
  IN  /\ At(p, "draft")
      /\ proc' = [proc EXCEPT
                    ![p] = IF draft.version = r.upto
                           THEN [r EXCEPT !.page = draft.mutations, !.pc = r.next]
                           ELSE [r EXCEPT !.draft = draft, !.pc = "range"]]
      /\ UNCHANGED <<log, drafts, swept, line, acked>>

\* Variant of CollapseRange: where the range begins is looked up once more.
RereadRange(p) ==
  LET r == proc[p]
      from == LatestDraft(r.upto).version + 1
      rest == MutationsInRange(from, r.upto)
  IN  /\ At(p, "range")
      /\ proc' = [proc EXCEPT
                    ![p] = [r EXCEPT
                              !.page = Collapse(r.draft.mutations \o rest),
                              !.draft = NoDraft, !.pc = r.next]]
      /\ UNCHANGED <<log, drafts, swept, line, acked>>

\* collapseMutations, second call: the mutations after the draft, on top of it.
CollapseRange(p) ==
  LET r == proc[p] IN
  /\ At(p, "range")
  /\ proc' = [proc EXCEPT
                ![p] = [r EXCEPT !.page = CollapseOnto(r.draft, r.upto),
                                 !.draft = NoDraft, !.pc = r.next]]
  /\ UNCHANGED <<log, drafts, swept, line, acked>>

\* The element to update, as the collapse found it, with the new fields.
MergeFields(p) ==
  LET r == proc[p] IN
  /\ At(p, "merge")
  /\ \E m \in Elements(r.page) :
       /\ m.id = r.op.id
       /\ proc' = [proc EXCEPT
                     ![p] = [r EXCEPT !.new = Content(m.id, Merge(m.val, r.op.val)),
                                      !.page = <<>>, !.pc = "number"]]
  /\ UNCHANGED <<log, drafts, swept, line, acked>>

\* An element that is not on the page cannot be updated: ErrMutationNotFound.
MergeNothing(p) ==
  /\ At(p, "merge")
  /\ \A m \in Elements(proc[p].page) : m.id # proc[p].op.id
  /\ Return(p)
  /\ UNCHANGED <<log, drafts, swept, acked>>

\* Variant of NumberMutation: counts the mutations after the latest draft only.
DraftNumber(p) ==
  /\ At(p, "number")
  /\ proc' = [proc EXCEPT ![p] = [@ EXCEPT !.upto = LatestDraft(MaxInt).version + 1,
                                           !.pc = "insert"]]
  /\ UNCHANGED <<log, drafts, swept, line, acked>>

\* Variant of NumberMutation: the number of the mutations in the collection.
CountedNumber(p) ==
  /\ At(p, "number")
  /\ proc' = [proc EXCEPT ![p] = [@ EXCEPT !.upto = Cardinality(Mutations) + 1,
                                           !.pc = "insert"]]
  /\ UNCHANGED <<log, drafts, swept, line, acked>>

\* repo.InsertMutation, first call: the version after the latest.
NumberMutation(p) ==
  /\ At(p, "number")
  /\ proc' = [proc EXCEPT ![p] = [@ EXCEPT !.upto = LatestVersion + 1, !.pc = "insert"]]
  /\ UNCHANGED <<log, drafts, swept, line, acked>>

Reply(p) ==
  acked' = acked \cup {[version |-> proc[p].upto, mutation |-> proc[p].new]}

Store(p) ==
  log' = Append(log, [version |-> proc[p].upto, mutation |-> proc[p].new])

\* repo.InsertMutation, second call.  Every Threshold-th version goes on to
\* collapse the log up to itself; the others are answered.
InsertMutation(p) ==
  /\ At(p, "insert")
  /\ Store(p)
  /\ IF proc[p].upto % Threshold = 0
     THEN /\ proc' = [proc EXCEPT ![p] = [@ EXCEPT !.pc = "draft", !.next = "save"]]
          /\ UNCHANGED <<line, acked>>
     ELSE Return(p) /\ Reply(p)
  /\ UNCHANGED <<drafts, swept>>

\* InsertOne took effect, but its reply was lost: the mutation stays, nobody is
\* answered and no draft is stored.
InsertUnanswered(p) ==
  /\ At(p, "insert")
  /\ Store(p)
  /\ Return(p)
  /\ UNCHANGED <<drafts, swept, acked>>

\* Variant of SaveDraft: the draft is filed under the next version.
NextVersionSave(p) ==
  /\ At(p, "save")
  /\ drafts' = Append(drafts, [version |-> proc[p].upto + 1,
                               mutations |-> proc[p].page])
  /\ Return(p) /\ Reply(p)
  /\ UNCHANGED <<log, swept>>

\* repo.InsertDraft, and the reply.
SaveDraft(p) ==
  /\ At(p, "save")
  /\ drafts' = Append(drafts, [version |-> proc[p].upto,
                               mutations |-> proc[p].page])
  /\ Return(p) /\ Reply(p)
  /\ UNCHANGED <<log, swept>>

-----------------------------------------------------------------------------
(* DraftService.GetDraft, CreateProject and GetProject. *)

\* sendPage reads version v, sendLatestPage the latest (MaxInt).
BeginRead(p, v) ==
  /\ Enter(p, [Idle EXCEPT !.pc = "draft", !.upto = v, !.next = "label",
                           !.start = Len(log)])
  /\ UNCHANGED <<log, drafts, swept, acked>>

\* The version that the page is sent with: the one asked for, or the latest as
\* it is by now.
Label(p) ==
  LET asked == proc[p].upto
      version == IF asked = MaxInt THEN LatestVersion ELSE asked
  IN  /\ At(p, "label")
      /\ proc' = [proc EXCEPT ![p] = [@ EXCEPT !.label = version, !.pc = "reply"]]
      /\ UNCHANGED <<log, drafts, swept, line, acked>>

SendPage(p) ==
  /\ At(p, "reply")
  /\ Return(p)
  /\ UNCHANGED <<log, drafts, swept, acked>>

\* createProject, getProject: what they do to projects is in module Accounts.
BeginLookup(p) ==
  /\ Enter(p, [Idle EXCEPT !.pc = "project"])
  /\ UNCHANGED <<log, drafts, swept, acked>>

Lookup(p) ==
  /\ At(p, "project")
  /\ Return(p)
  /\ UNCHANGED <<log, drafts, swept, acked>>

-----------------------------------------------------------------------------
(* Failures. *)

\* Variant of Abort: a request that fails keeps its slot.
LeakyAbort(p) ==
  /\ proc[p].pc # "idle" /\ Holds(p)
  /\ proc' = [proc EXCEPT ![p] = Idle]
  /\ UNCHANGED <<log, drafts, swept, line, acked>>

\* A call fails or the request is cancelled: what was inserted stays, and the
\* deferred receive releases the semaphore.  A stored draft whose reply is lost
\* is left out: an answer only adds to what the properties demand.
Abort(p) ==
  /\ proc[p].pc # "idle" /\ Holds(p)
  /\ Return(p)
  /\ UNCHANGED <<log, drafts, swept, acked>>

\* The process dies and is started again.
Crash ==
  /\ line # <<>>
  /\ line' = <<>>
  /\ proc' = [p \in Procs |-> Idle]
  /\ UNCHANGED <<log, drafts, swept, acked>>

\* The TTL indexes on created_at: MongoDB removes what has expired from each
\* collection at any time, also while requests are half way, the oldest first
\* and without regard to the other collection.
ExpireDraft ==
  /\ Expiry
  /\ swept.drafts < Len(drafts)
  /\ swept' = [swept EXCEPT !.drafts = @ + 1]
  /\ UNCHANGED <<log, drafts, line, proc, acked>>

\* A mutation is older than the draft made of it and may go before it does.
ExpireMutation ==
  /\ Expiry
  /\ swept.log < Len(log)
  /\ swept' = [swept EXCEPT !.log = @ + 1]
  /\ UNCHANGED <<log, drafts, line, proc, acked>>

-----------------------------------------------------------------------------
Step(p) ==
  \/ EffectiveVersion(p) \/ CollapseDraft(p) \/ CollapseRange(p)
  \/ MergeFields(p) \/ MergeNothing(p) \/ NumberMutation(p)
  \/ InsertMutation(p) \/ InsertUnanswered(p) \/ SaveDraft(p)
  \/ Label(p) \/ SendPage(p) \/ Lookup(p)

Next ==
  \/ \E p \in Writers, op \in Ops : BeginMutation(p, op)
  \/ \E p \in Readers, v \in Asked : BeginRead(p, v)
  \/ \E p \in Lookups : BeginLookup(p)
  \/ \E p \in Procs : Step(p) \/ Abort(p)
  \/ Crash
  \/ ExpireDraft \/ ExpireMutation

Spec == Init /\ [][Next]_vars

\* Every call to MongoDB returns, with a result or with an error.
FairSpec == Spec /\ \A p \in Procs : WF_vars(Abort(p) \/ Step(p))

-----------------------------------------------------------------------------
(* Properties. *)

Pcs == {"idle", "latest", "draft", "range", "merge", "number", "insert",
        "save", "label", "reply", "project"}

TypeOK ==
  /\ \A i \in DOMAIN log : log[i].version \in Nat \ {0}
  /\ \A i \in DOMAIN drafts : /\ drafts[i].version \in Nat \ {0}
                              /\ drafts[i].version % Threshold = 0
  /\ swept.log \in 0 .. Len(log) /\ swept.drafts \in 0 .. Len(drafts)
  /\ line \in Seq(Procs)
  /\ \A p \in Procs : /\ proc[p].pc \in Pcs
                      /\ proc[p].op \in Ops \cup {NoOp}
                      /\ proc[p].upto \in 0 .. MaxInt

\* What GetDraft(v) answers when nothing else happens meanwhile.
VersionPage(v) == Elements(CollapseOnto(LatestDraft(v), v))

\* The first n mutations stored.
FirstOf(n) == [i \in 1..n |-> log[i].mutation]

\* The versions in the collection are consecutive in the order of insertion
\* (service.go, resolveMutations: the mutations in the order of their versions
\* v1, v2, ...): none twice and none missing, with failures anywhere between the
\* two calls of InsertMutation.  They start again at 1 only after as many
\* mutations as have all expired.  Provided one mutation is served at a time.
VersionsConsecutive ==
  \E before \in 0 .. swept.log : \A i \in Mutations : log[i].version = i - before

\* The page of every version is what its history means, at any time later:
\* stored drafts, including those missing because a request failed between
\* the mutation and its draft, never show (handler.go: the page of the given
\* version).  For serial mutations and reverts that stay within a draft.
VersionPageIsHistory ==
  \A v \in 0 .. Len(log) : VersionPage(v) = Page(FirstOf(v))

\* A mutation that was answered with a version is in the page of that version
\* (handler.go: applied, returns the version).
AckedTakesEffect ==
  \A a \in acked : LET m == a.mutation IN
    IsElement(m) =>
      IF m.deleted THEN \A e \in VersionPage(a.version) : e.id # m.id
                   ELSE m \in VersionPage(a.version)

\* A revert of n that was answered with version v brings back the page of
\* version v - 1 - n (models.go: rolls back the n preceding mutations).
RevertRestores ==
  \A a \in acked : LET n == a.mutation.revert IN
    IsRevert(a.mutation) =>
      VersionPage(a.version)
        = VersionPage(IF n < a.version THEN a.version - 1 - n ELSE 0)

\* What clients see of a read: a page once it is sent.
pageRead ==
  [p \in Readers |->
     LET sent == proc[p].pc = "reply" IN
     [open |-> proc[p].pc # "idle", from |-> proc[p].start, asked |-> proc[p].upto,
      reply |-> [version |-> proc[p].label, given |-> sent,
                 page |-> IF sent THEN Elements(proc[p].page) ELSE {}]]]

Service == INSTANCE PageHistory
             WITH history <- [i \in DOMAIN log |-> log[i].mutation],
                  read <- pageRead, Latest <- MaxInt, Versions <- Asked

\* Next to reads, and with calls that fail and a process that dies anywhere, a
\* mutation is as if applied at once: an update keeps the fields it does not
\* give (models.go: updates an existing element) and brings back nothing that
\* was deleted.  A page is that of one moment of its read, never a mixture of
\* a draft and a range that do not fit, and is not newer than its version.
ImplementsPageHistory == Service!Spec

\* Every request that waits for the semaphore or has a slot gets its answer,
\* although requests fail, nobody gives up waiting and others keep coming.
EveryRequestReturns ==
  \A p \in Procs : proc[p].pc # "idle" ~> proc[p].pc = "idle"

\* Some of the mutations, in the order of insertion.
InOrder(some) ==
  [k \in 1..Cardinality(some) |->
     log[CHOOSE i \in some : Cardinality({j \in some : j < i}) = k - 1].mutation]

\* Whatever has expired, and in whichever order, the latest page shows all that
\* the mutations stored after the newest draft make of it.  What else it shows
\* is in that draft and not touched by them (a draft outlives its mutations, and
\* versions that start again below it stay out of its range until it goes too),
\* and nothing else that the full history would not show.
OnlyDraftsLinger ==
  LET newest == LatestDraft(MaxInt)
      rest == InOrder({i \in Mutations : log[i].version > newest.version})
      effect == InEffect(rest)
      Untouched(e) == \A k \in DOMAIN effect : effect[k].id # e.id
  IN  /\ Page(rest) \subseteq VersionPage(MaxInt) \cap Page(FirstOf(Len(log)))
      /\ \A e \in VersionPage(MaxInt) \ Page(rest) :
           e \in Elements(newest.mutations) /\ Untouched(e)

=============================================================================
