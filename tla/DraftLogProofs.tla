---------------------------- MODULE DraftLogProofs ----------------------------
(***************************************************************************)
(* Proofs about DraftLog, for any number of goroutines, any mutations,     *)
(* threshold and capacity.                                                 *)
(***************************************************************************)
EXTENDS DraftLog, HistoryLemmas

-----------------------------------------------------------------------------
(* The inductive invariant, whatever the number of writers. *)

Fields == {"pc", "op", "new", "upto", "draft", "page", "next", "start", "label"}

\* A request has these fields, whatever mutations and pages they hold.
Shaped(r) == r = [f \in Fields |-> r[f]]

ProcsShaped ==
  /\ proc = [p \in Procs |-> proc[p]]
  /\ \A p \in Procs : Shaped(proc[p])

Collapsing(r) == r.pc \in {"draft", "range"}

\* A mutation that has not been stored yet.
Mutating(r) ==
  \/ r.pc \in {"latest", "merge", "number", "insert"}
  \/ Collapsing(r) /\ r.next = "merge"

\* The version of a request fits what the request does next.
Carries(r, n) ==
  /\ r.pc \in Pcs /\ r.op \in Ops \cup {NoOp}
  /\ r.upto \in 0 .. MaxInt
  /\ Collapsing(r) => r.next \in {"merge", "save", "label"}
  /\ r.pc = "insert" => r.upto \in 1 .. n + 1
  /\ r.pc = "save" \/ (Collapsing(r) /\ r.next = "save")
       => r.upto # 0 /\ r.upto % Threshold = 0

Underway == {p \in Procs : Mutating(proc[p])}

\* Every mutation begun has room in the log.
RoomLeft ==
  /\ \A p \in Procs : Mutating(proc[p]) => p \in Writers
  /\ Len(log) + Cardinality(Underway) <= MaxLog

LogInv ==
  /\ IsSequence(log) /\ IsSequence(drafts)
  /\ \A i \in 1..Len(log) : log[i].version \in 1 .. Len(log)
  /\ \A i \in 1..Len(drafts) : /\ drafts[i].version \in Nat \ {0}
                               /\ drafts[i].version % Threshold = 0
  /\ swept \in [log : 0 .. Len(log), drafts : 0 .. Len(drafts)]
  /\ line \in Seq(Procs)
  /\ ProcsShaped
  /\ \A p \in Procs : Carries(proc[p], Len(log))
  /\ RoomLeft

LEMMA LogInvTyped == LogInv => TypeOK
BY SequenceDomain DEF LogInv, TypeOK, Carries

LEMMA UnderwayFinite ==
  ASSUME NEW S \in SUBSET Procs
  PROVE  IsFiniteSet(S) /\ Cardinality(S) \in Nat
BY DraftLogAssumption, FS_Subset, FS_CardinalityType

LEMMA LogBounded == LogInv => Len(log) \in 0 .. MaxLog
<1> SUFFICES ASSUME LogInv PROVE Len(log) \in 0 .. MaxLog
  OBVIOUS
<1>1. Cardinality(Underway) \in Nat
  BY UnderwayFinite DEF Underway
<1>2. Len(log) \in Nat
  BY SequenceDomain DEF LogInv
<1>3. QED
  BY <1>1, <1>2, DraftLogAssumption DEF LogInv, RoomLeft

\* The latest version is that of a mutation in the collection.
LEMMA LatestVersionTyped ==
  ASSUME LogInv
  PROVE  /\ LatestVersion \in 0 .. Len(log)
         /\ \A i \in Mutations : log[i].version <= LatestVersion
<1> DEFINE versions == {log[i].version : i \in Mutations}
<1>1. Len(log) \in Nat /\ versions \subseteq 0 .. Len(log)
  BY SequenceDomain DEF LogInv, Mutations
<1>2. \A i \in Mutations : log[i].version \in versions
  OBVIOUS
<1>3. LatestVersion = IF versions = {} THEN 0
                      ELSE CHOOSE v \in versions : \A w \in versions : w <= v
  BY DEF LatestVersion
<1> HIDE DEF versions
<1>4. CASE versions = {}
  BY <1>1, <1>2, <1>3, <1>4
<1>5. CASE versions # {}
  <2>1. \E v \in versions : \A w \in versions : w <= v
    BY <1>1, <1>5, LargestExists
  <2>2. LatestVersion \in versions /\ \A w \in versions : w <= LatestVersion
    BY <1>3, <1>5, <2>1
  <2>3. QED
    BY <1>1, <1>2, <2>2
<1>6. QED
  BY <1>4, <1>5

-----------------------------------------------------------------------------
(* What a step does to the goroutine that takes it. *)

LEMMA LeaveTyped ==
  ASSUME line \in Seq(Procs), NEW p, Leave(p)
  PROVE  line' \in Seq(Procs)
<1>1. PICK i \in DOMAIN line :
        line' = SubSeq(line, 1, i - 1) \o SubSeq(line, i + 1, Len(line))
  BY DEF Leave
<1>2. /\ i \in 1..Len(line) /\ Len(line) \in Nat
      /\ \A j \in 1..Len(line) : line[j] \in Procs
  OBVIOUS
<1>3. SubSeq(line, 1, i - 1) \in Seq(Procs)
  BY <1>2, SubSeqProperties
<1>4. SubSeq(line, i + 1, Len(line)) \in Seq(Procs)
  BY <1>2, SubSeqProperties
<1>5. QED
  BY <1>1, <1>3, <1>4, ConcatProperties

LEMMA Moves ==
  ASSUME ProcsShaped, NEW p \in Procs, NEW r, Shaped(r), proc' = [proc EXCEPT ![p] = r]
  PROVE  /\ ProcsShaped'
         /\ proc'[p] = r
         /\ \A q \in Procs \ {p} : proc'[q] = proc[q]
<1>1. DOMAIN proc = Procs
  BY DEF ProcsShaped
<1>2. /\ proc'[p] = r
      /\ \A q \in Procs \ {p} : proc'[q] = proc[q]
      /\ proc' = [q \in Procs |-> proc'[q]]
  BY <1>1
<1>3. QED
  BY <1>2 DEF ProcsShaped

\* Goroutine p moves on in a request of its own, or is done with it.
LEMMA MoveOn ==
  ASSUME LogInv, NEW p \in Procs, NEW r, Shaped(r), proc' = [proc EXCEPT ![p] = r],
         Carries(r, Len(log)), Mutating(r) => Mutating(proc[p]),
         UNCHANGED <<log, swept>>, line' \in Seq(Procs),
         IsSequence(drafts'), Len(drafts) <= Len(drafts'),
         \A i \in 1..Len(drafts') : /\ drafts'[i].version \in Nat \ {0}
                                    /\ drafts'[i].version % Threshold = 0
  PROVE  LogInv'
<1> USE DEF LogInv
<1>1. /\ ProcsShaped' /\ proc'[p] = r
      /\ \A q \in Procs \ {p} : proc'[q] = proc[q]
  BY Moves
<1>2. Underway' \subseteq Underway
  BY <1>1 DEF Underway
<1>3. Cardinality(Underway') <= Cardinality(Underway)
  BY <1>2, UnderwayFinite, FS_Subset DEF Underway
<1>4. RoomLeft'
  <2>1. /\ Cardinality(Underway) \in Nat /\ Cardinality(Underway') \in Nat
        /\ Len(log) \in Nat /\ MaxLog \in Nat
    BY <1>2, UnderwayFinite, SequenceDomain, DraftLogAssumption DEF Underway
  <2>2. Len(log') + Cardinality(Underway') <= MaxLog
    BY <1>3, <2>1 DEF RoomLeft
  <2>3. QED
    BY <1>1, <2>2 DEF RoomLeft
<1>5. swept' \in [log : 0 .. Len(log'), drafts : 0 .. Len(drafts')]
  BY SequenceDomain
<1>6. \A q \in Procs : Carries(proc'[q], Len(log'))
  BY <1>1
<1>7. QED
  BY <1>1, <1>4, <1>5, <1>6

LEMMA IdleFits == Shaped(Idle) /\ ~Mutating(Idle) /\ \A n : Carries(Idle, n)
<1>1. Shaped(Idle)
  BY DEF Shaped, Fields, Idle
<1>2. Idle.pc = "idle" /\ Idle.op = NoOp /\ Idle.upto = 0
  BY DEF Idle
<1>3. 0 \in 0 .. MaxInt
  BY DraftLogAssumption DEF MaxInt
<1>4. QED
  BY <1>1, <1>2, <1>3, Zenon DEF Mutating, Collapsing, Carries, Pcs

\* A goroutine that returns, with or without an answer.
LEMMA ReturnStep ==
  ASSUME LogInv, NEW p \in Procs, Return(p), UNCHANGED <<log, drafts, swept>>
  PROVE  LogInv'
<1>1. line' \in Seq(Procs)
  BY LeaveTyped DEF Return, LogInv
<1>2. proc' = [proc EXCEPT ![p] = Idle]
  BY DEF Return
<1>3. /\ IsSequence(drafts') /\ Len(drafts) <= Len(drafts')
      /\ \A i \in 1..Len(drafts') : /\ drafts'[i].version \in Nat \ {0}
                                    /\ drafts'[i].version % Threshold = 0
  BY SequenceDomain DEF LogInv
<1>4. QED
  BY <1>1, <1>2, <1>3, MoveOn, IdleFits

-----------------------------------------------------------------------------
(* The steps. *)

\* Goroutine p moves on within its request, without a word to the database.
LEMMA Advance ==
  ASSUME LogInv, NEW p \in Procs, NEW r, Shaped(r), proc' = [proc EXCEPT ![p] = r],
         Carries(r, Len(log)), Mutating(r) => Mutating(proc[p]),
         UNCHANGED <<log, drafts, swept, line>>
  PROVE  LogInv'
<1>1. /\ IsSequence(drafts') /\ Len(drafts) <= Len(drafts')
      /\ \A i \in 1..Len(drafts') : /\ drafts'[i].version \in Nat \ {0}
                                    /\ drafts'[i].version % Threshold = 0
      /\ line' \in Seq(Procs)
  BY SequenceDomain DEF LogInv
<1>2. QED
  BY <1>1, MoveOn

LEMMA EffectiveVersionStep ==
  ASSUME LogInv, NEW p \in Procs, EffectiveVersion(p)
  PROVE  LogInv'
<1> DEFINE r == [proc[p] EXCEPT !.upto = LatestVersion, !.pc = "draft", !.next = "merge"]
<1>1. Shaped(proc[p]) /\ proc[p].op \in Ops \cup {NoOp} /\ proc[p].pc = "latest"
  BY DEF LogInv, ProcsShaped, Carries, EffectiveVersion, At
<1>2. LatestVersion \in 0 .. MaxInt
  BY LatestVersionTyped, LogBounded, DraftLogAssumption DEF MaxInt
<1>3. proc' = [proc EXCEPT ![p] = r]
  BY DEF EffectiveVersion
<1>4. /\ Shaped(r) /\ r.pc = "draft" /\ r.next = "merge" /\ r.upto = LatestVersion
      /\ r.op = proc[p].op
  BY <1>1 DEF Shaped, Fields
<1> HIDE DEF r
<1>5. Carries(r, Len(log)) /\ Mutating(proc[p])
  BY <1>1, <1>2, <1>4 DEF Carries, Collapsing, Pcs, Mutating
<1>6. QED
  BY <1>3, <1>4, <1>5, Advance DEF EffectiveVersion

LEMMA CollapseDraftStep ==
  ASSUME LogInv, NEW p \in Procs, CollapseDraft(p)
  PROVE  LogInv'
<1> DEFINE old == proc[p]
           draft == LatestDraft(old.upto)
           done == [old EXCEPT !.page = draft.mutations, !.pc = old.next]
           rest == [old EXCEPT !.draft = draft, !.pc = "range"]
<1>1. Shaped(old) /\ Carries(old, Len(log)) /\ old.pc = "draft"
  BY DEF LogInv, ProcsShaped, CollapseDraft, At
<1>2. PICK r \in {done, rest} : proc' = [proc EXCEPT ![p] = r]
  BY DEF CollapseDraft
<1>3. /\ Shaped(r) /\ r.upto = old.upto /\ r.op = old.op /\ r.next = old.next
      /\ r.pc = "range" \/ r.pc = old.next
  BY <1>1, <1>2 DEF Shaped, Fields
<1> HIDE DEF done, rest, draft, old
<1>4. Carries(r, Len(log)) /\ (Mutating(r) => Mutating(old))
  BY <1>1, <1>3 DEF Carries, Collapsing, Pcs, Mutating
<1>5. QED
  BY <1>2, <1>3, <1>4, Advance DEF CollapseDraft, old

LEMMA CollapseRangeStep ==
  ASSUME LogInv, NEW p \in Procs, CollapseRange(p)
  PROVE  LogInv'
<1> DEFINE old == proc[p]
           r == [old EXCEPT !.page = CollapseOnto(old.draft, old.upto), !.draft = NoDraft,
                            !.pc = old.next]
<1>1. Shaped(old) /\ Carries(old, Len(log)) /\ old.pc = "range"
  BY DEF LogInv, ProcsShaped, CollapseRange, At
<1>2. proc' = [proc EXCEPT ![p] = r]
  BY DEF CollapseRange
<1>3. /\ Shaped(r) /\ r.upto = old.upto /\ r.op = old.op /\ r.next = old.next
      /\ r.pc = old.next
  BY <1>1 DEF Shaped, Fields
<1> HIDE DEF r, old
<1>4. Carries(r, Len(log)) /\ (Mutating(r) => Mutating(old))
  BY <1>1, <1>3 DEF Carries, Collapsing, Pcs, Mutating
<1>5. QED
  BY <1>2, <1>3, <1>4, Advance DEF CollapseRange, old

LEMMA MergeFieldsStep ==
  ASSUME LogInv, NEW p \in Procs, MergeFields(p)
  PROVE  LogInv'
<1> DEFINE old == proc[p]
           With(m) == [old EXCEPT !.new = Content(m.id, Merge(m.val, old.op.val)),
                                  !.page = <<>>, !.pc = "number"]
<1>1. Shaped(old) /\ Carries(old, Len(log)) /\ old.pc = "merge"
  BY DEF LogInv, ProcsShaped, MergeFields, At
<1>2. PICK m \in Elements(old.page) : proc' = [proc EXCEPT ![p] = With(m)]
  BY DEF MergeFields
<1> DEFINE r == With(m)
<1>3. /\ Shaped(r) /\ r.upto = old.upto /\ r.op = old.op /\ r.next = old.next
      /\ r.pc = "number"
  BY <1>1 DEF Shaped, Fields
<1>4. proc' = [proc EXCEPT ![p] = r]
  BY <1>2
<1> HIDE DEF r, old
<1>5. Carries(r, Len(log)) /\ Mutating(old)
  BY <1>1, <1>3 DEF Carries, Collapsing, Pcs, Mutating
<1>6. QED
  BY <1>3, <1>4, <1>5, Advance DEF MergeFields, old

LEMMA NumberMutationStep ==
  ASSUME LogInv, NEW p \in Procs, NumberMutation(p)
  PROVE  LogInv'
<1> DEFINE old == proc[p]
           r == [old EXCEPT !.upto = LatestVersion + 1, !.pc = "insert"]
<1>1. Shaped(old) /\ Carries(old, Len(log)) /\ old.pc = "number"
  BY DEF LogInv, ProcsShaped, NumberMutation, At
<1>2. LatestVersion + 1 \in 1 .. Len(log) + 1 /\ LatestVersion + 1 \in 0 .. MaxInt
  BY LatestVersionTyped, LogBounded, DraftLogAssumption DEF MaxInt
<1>3. proc' = [proc EXCEPT ![p] = r]
  BY DEF NumberMutation
<1>4. Shaped(r) /\ r.upto = LatestVersion + 1 /\ r.op = old.op /\ r.pc = "insert"
  BY <1>1 DEF Shaped, Fields
<1> HIDE DEF r, old
<1>5. Carries(r, Len(log)) /\ Mutating(old)
  BY <1>1, <1>2, <1>4 DEF Carries, Collapsing, Pcs, Mutating
<1>6. QED
  BY <1>3, <1>4, <1>5, Advance DEF NumberMutation, old

LEMMA LabelStep ==
  ASSUME LogInv, NEW p \in Procs, Label(p)
  PROVE  LogInv'
<1> DEFINE old == proc[p]
           version == IF old.upto = MaxInt THEN LatestVersion ELSE old.upto
           r == [old EXCEPT !.label = version, !.pc = "reply"]
<1>1. Shaped(old) /\ Carries(old, Len(log))
  BY DEF LogInv, ProcsShaped
<1>2. proc' = [proc EXCEPT ![p] = r]
  BY DEF Label
<1>3. Shaped(r) /\ r.upto = old.upto /\ r.op = old.op /\ r.pc = "reply"
  BY <1>1 DEF Shaped, Fields
<1> HIDE DEF r, old
<1>4. Carries(r, Len(log)) /\ ~Mutating(r)
  BY <1>1, <1>3 DEF Carries, Collapsing, Pcs, Mutating
<1>5. QED
  BY <1>2, <1>3, <1>4, Advance DEF Label

\* A goroutine that comes in with a request r, which may be a mutation.
LEMMA EnterStep ==
  ASSUME LogInv, NEW p \in Procs, NEW r, Shaped(r), Enter(p, r), Carries(r, Len(log)),
         Mutating(r) => p \in Writers /\ Len(log) + Cardinality(Busy) < MaxLog,
         UNCHANGED <<log, drafts, swept>>
  PROVE  LogInv'
<1>1. line' \in Seq(Procs) /\ proc' = [proc EXCEPT ![p] = r] /\ proc[p].pc = "idle"
  BY DEF Enter, LogInv
<1>2. CASE ~Mutating(r)
  <2>1. /\ IsSequence(drafts') /\ Len(drafts) <= Len(drafts')
        /\ \A i \in 1..Len(drafts') : /\ drafts'[i].version \in Nat \ {0}
                                      /\ drafts'[i].version % Threshold = 0
    BY SequenceDomain DEF LogInv
  <2>2. QED
    BY <1>1, <1>2, <2>1, MoveOn
<1>3. CASE Mutating(r)
  <2>1. /\ ProcsShaped' /\ proc'[p] = r
        /\ \A q \in Procs \ {p} : proc'[q] = proc[q]
    BY <1>1, Moves DEF LogInv
  <2>2. ~Mutating(proc[p])
    BY <1>1 DEF Mutating, Collapsing
  <2>3. Underway' = Underway \cup {p} /\ p \notin Underway
    BY <1>3, <2>1, <2>2 DEF Underway
  <2>4. Cardinality(Underway') = Cardinality(Underway) + 1
    BY <2>3, UnderwayFinite, FS_AddElement DEF Underway
  <2>5. Underway \subseteq Busy /\ Busy \subseteq Procs
    BY DEF LogInv, RoomLeft, Underway, Busy, Mutating, Collapsing, Procs
  <2>6. Cardinality(Underway) <= Cardinality(Busy)
    BY <2>5, UnderwayFinite, FS_Subset
  <2>7. /\ Cardinality(Underway) \in Nat /\ Cardinality(Busy) \in Nat
        /\ Len(log) \in Nat /\ MaxLog \in Nat
    BY <2>5, UnderwayFinite, SequenceDomain, DraftLogAssumption DEF LogInv, Underway
  <2>8. Len(log') + Cardinality(Underway') <= MaxLog
    BY <1>3, <2>4, <2>6, <2>7
  <2>9. RoomLeft'
    BY <1>3, <2>1, <2>8 DEF LogInv, RoomLeft
  <2>10. \A q \in Procs : Carries(proc'[q], Len(log'))
    BY <2>1 DEF LogInv
  <2>11. QED
    BY <1>1, <2>1, <2>9, <2>10 DEF LogInv
<1>4. QED
  BY <1>2, <1>3

LEMMA BeginMutationStep ==
  ASSUME LogInv, NEW p \in Writers, NEW op \in Ops, BeginMutation(p, op)
  PROVE  LogInv'
<1>1. PICK r \in {[Idle EXCEPT !.pc = "latest", !.op = op],
                  [Idle EXCEPT !.pc = "number", !.op = op, !.new = Mutation(op)]} : Enter(p, r)
  BY DEF BeginMutation
<1>2. Shaped(r) /\ r.pc \in {"latest", "number"} /\ r.op = op /\ r.upto = 0
  BY <1>1 DEF Shaped, Fields, Idle
<1>3. 0 \in 0 .. MaxInt
  BY DraftLogAssumption DEF MaxInt
<1>4. Carries(r, Len(log))
  BY <1>2, <1>3 DEF Carries, Collapsing, Pcs
<1>5. QED
  BY <1>1, <1>2, <1>4, EnterStep DEF BeginMutation, Procs

LEMMA BeginReadStep ==
  ASSUME LogInv, NEW p \in Readers, NEW v \in Asked, BeginRead(p, v)
  PROVE  LogInv'
<1> DEFINE r == [Idle EXCEPT !.pc = "draft", !.upto = v, !.next = "label",
                             !.start = Len(log)]
<1>1. Shaped(r) /\ r.pc = "draft" /\ r.op = NoOp /\ r.upto = v /\ r.next = "label"
  BY DEF Shaped, Fields, Idle
<1>2. Enter(p, r)
  BY DEF BeginRead
<1>3. v \in 0 .. MaxInt
  BY DraftLogAssumption
<1> HIDE DEF r
<1>4. Carries(r, Len(log)) /\ ~Mutating(r)
  BY <1>1, <1>3 DEF Carries, Collapsing, Pcs, Mutating
<1>5. QED
  BY <1>1, <1>2, <1>4, EnterStep DEF BeginRead, Procs

LEMMA BeginLookupStep ==
  ASSUME LogInv, NEW p \in Lookups, BeginLookup(p)
  PROVE  LogInv'
<1> DEFINE r == [Idle EXCEPT !.pc = "project"]
<1>1. Shaped(r) /\ r.pc = "project" /\ r.op = NoOp /\ r.upto = 0
  BY DEF Shaped, Fields, Idle
<1>2. Enter(p, r)
  BY DEF BeginLookup
<1>3. 0 \in 0 .. MaxInt
  BY DraftLogAssumption DEF MaxInt
<1> HIDE DEF r
<1>4. Carries(r, Len(log)) /\ ~Mutating(r)
  BY <1>1, <1>3 DEF Carries, Collapsing, Pcs, Mutating
<1>5. QED
  BY <1>1, <1>2, <1>4, EnterStep DEF BeginLookup, Procs

\* The mutation of goroutine p is stored; p goes on with request r.
LEMMA StoreStep ==
  ASSUME LogInv, NEW p \in Procs, At(p, "insert"), Store(p),
         NEW r, Shaped(r), proc' = [proc EXCEPT ![p] = r], Carries(r, Len(log) + 1),
         ~Mutating(r), UNCHANGED <<drafts, swept>>, line' \in Seq(Procs)
  PROVE  LogInv'
<1> USE DEF LogInv
<1>1. /\ ProcsShaped' /\ proc'[p] = r
      /\ \A q \in Procs \ {p} : proc'[q] = proc[q]
  BY Moves
<1>2. Len(log) \in Nat /\ Len(drafts) \in Nat /\ MaxLog \in Nat
  BY SequenceDomain, DraftLogAssumption
<1>3. /\ IsSequence(log') /\ Len(log') = Len(log) + 1
      /\ \A i \in 1..Len(log) : log'[i] = log[i]
      /\ log'[Len(log) + 1].version = proc[p].upto
  BY AppendSequence DEF Store
<1>4. proc[p].upto \in 1 .. Len(log) + 1
  BY DEF At, Carries
<1>5. ASSUME NEW i \in 1..Len(log') PROVE log'[i].version \in 1 .. Len(log')
  <2>1. CASE i = Len(log) + 1
    BY <1>2, <1>3, <1>4, <2>1
  <2>2. CASE i # Len(log) + 1
    <3>1. i \in 1..Len(log)
      BY <1>2, <1>3, <2>2
    <3>2. log'[i] = log[i] /\ log[i].version \in 1 .. Len(log)
      BY <1>3, <3>1
    <3>3. QED
      BY <1>2, <1>3, <3>2
  <2>3. QED
    BY <2>1, <2>2
<1>6. Underway' = Underway \ {p} /\ p \in Underway
  BY <1>1 DEF Underway, Mutating, At
<1>7. Cardinality(Underway') = Cardinality(Underway) - 1 /\ Cardinality(Underway) \in Nat
  BY <1>6, UnderwayFinite, FS_RemoveElement, ZenonT(60) DEF Underway
<1>8. RoomLeft'
  BY <1>1, <1>2, <1>3, <1>7 DEF RoomLeft
<1>9. \A q \in Procs : Carries(proc'[q], Len(log'))
  <2>1. ASSUME NEW q \in Procs \ {p} PROVE Carries(proc'[q], Len(log'))
    BY <1>1, <1>2, <1>3 DEF Carries
  <2>2. QED
    BY <1>1, <1>3, <2>1
<1>10. swept' \in [log : 0 .. Len(log'), drafts : 0 .. Len(drafts')]
  BY <1>2, <1>3
<1>11. QED
  BY <1>1, <1>3, <1>5, <1>8, <1>9, <1>10

LEMMA InsertMutationStep ==
  ASSUME LogInv, NEW p \in Procs, InsertMutation(p)
  PROVE  LogInv'
<1> DEFINE old == proc[p]
           r == [old EXCEPT !.pc = "draft", !.next = "save"]
<1>1. Shaped(old) /\ Carries(old, Len(log)) /\ old.pc = "insert" /\ old.upto \in Nat \ {0}
  BY SequenceDomain DEF LogInv, ProcsShaped, InsertMutation, At, Carries
<1>2. CASE old.upto % Threshold = 0
  <2>1. /\ Shaped(r) /\ r.pc = "draft" /\ r.next = "save" /\ r.op = old.op
        /\ r.upto = old.upto
    BY <1>1 DEF Shaped, Fields
  <2>2. proc' = [proc EXCEPT ![p] = r] /\ line' \in Seq(Procs)
    BY <1>2 DEF InsertMutation, LogInv
  <2> HIDE DEF r
  <2>3. Carries(r, Len(log) + 1) /\ ~Mutating(r)
    BY <1>1, <1>2, <2>1 DEF Carries, Collapsing, Pcs, Mutating
  <2>4. QED
    BY <2>1, <2>2, <2>3, StoreStep DEF InsertMutation
<1>3. CASE old.upto % Threshold # 0
  <2>1. proc' = [proc EXCEPT ![p] = Idle] /\ line' \in Seq(Procs)
    BY <1>3, LeaveTyped DEF InsertMutation, Return, LogInv
  <2>2. QED
    BY <2>1, IdleFits, StoreStep DEF InsertMutation
<1>4. QED
  BY <1>2, <1>3

LEMMA InsertUnansweredStep ==
  ASSUME LogInv, NEW p \in Procs, InsertUnanswered(p)
  PROVE  LogInv'
<1>1. proc' = [proc EXCEPT ![p] = Idle] /\ line' \in Seq(Procs)
  BY LeaveTyped DEF InsertUnanswered, Return, LogInv
<1>2. QED
  BY <1>1, IdleFits, StoreStep DEF InsertUnanswered

LEMMA SaveDraftStep ==
  ASSUME LogInv, NEW p \in Procs, SaveDraft(p)
  PROVE  LogInv'
<1>1. proc' = [proc EXCEPT ![p] = Idle] /\ line' \in Seq(Procs)
  BY LeaveTyped DEF SaveDraft, Return, LogInv
<1>2. /\ proc[p].upto \in Nat \ {0} /\ proc[p].upto % Threshold = 0
  BY DEF LogInv, Carries, SaveDraft, At
<1>3. IsSequence(drafts) /\ Len(drafts) \in Nat
  BY SequenceDomain DEF LogInv
<1>4. /\ IsSequence(drafts') /\ Len(drafts') = Len(drafts) + 1
      /\ \A i \in 1..Len(drafts) : drafts'[i] = drafts[i]
      /\ drafts'[Len(drafts) + 1].version = proc[p].upto
  BY <1>3, AppendSequence DEF SaveDraft
<1>5. \A i \in 1..Len(drafts') : /\ drafts'[i].version \in Nat \ {0}
                                 /\ drafts'[i].version % Threshold = 0
  BY <1>2, <1>3, <1>4 DEF LogInv
<1>6. Len(drafts) <= Len(drafts')
  BY <1>3, <1>4
<1>7. QED
  BY <1>1, <1>4, <1>5, <1>6, IdleFits, MoveOn DEF SaveDraft

LEMMA CrashStep ==
  ASSUME LogInv, Crash
  PROVE  LogInv'
<1> USE DEF LogInv
<1>1. \A p \in Procs : proc'[p] = Idle
  BY DEF Crash
<1>2. ProcsShaped'
  BY <1>1, IdleFits DEF Crash, ProcsShaped
<1>3. Underway' = {}
  BY <1>1, IdleFits DEF Underway
<1>4. RoomLeft'
  <2>1. Len(log) \in 0 .. MaxLog /\ MaxLog \in Nat
    BY LogBounded, DraftLogAssumption
  <2>2. QED
    BY <1>1, <1>3, <2>1, IdleFits, FS_EmptySet DEF Crash, RoomLeft
<1>5. QED
  BY <1>1, <1>2, <1>4, IdleFits DEF Crash

LEMMA ExpireStep ==
  ASSUME LogInv, ExpireDraft \/ ExpireMutation
  PROVE  LogInv'
<1>1. Len(log) \in Nat /\ DOMAIN log = 1..Len(log) /\ Len(drafts) \in Nat
  BY SequenceDomain DEF LogInv
<1>2. swept' \in [log : 0 .. Len(log), drafts : 0 .. Len(drafts)]
  BY <1>1 DEF LogInv, ExpireDraft, ExpireMutation
<1>3. UNCHANGED <<log, drafts, line, proc>>
  BY DEF ExpireDraft, ExpireMutation
<1>4. QED
  BY <1>2, <1>3 DEF LogInv, ProcsShaped, RoomLeft, Underway

-----------------------------------------------------------------------------
(* Type correctness. *)

LEMMA LogInit == Init => LogInv
<1> SUFFICES ASSUME Init PROVE LogInv
  OBVIOUS
<1>1. /\ IsSequence(log) /\ IsSequence(drafts)
      /\ Len(log) = 0 /\ Len(drafts) = 0
  BY DEF Init, IsSequence
<1>2. ProcsShaped
  BY IdleFits DEF Init, ProcsShaped
<1>3. Underway = {}
  BY IdleFits DEF Init, Underway
<1>4. RoomLeft
  BY <1>1, <1>3, IdleFits, FS_EmptySet, DraftLogAssumption DEF Init, RoomLeft
<1>5. QED
  BY <1>1, <1>2, <1>4, IdleFits DEF Init, LogInv

LEMMA LogNext == LogInv /\ [Next]_vars => LogInv'
<1> SUFFICES ASSUME LogInv, [Next]_vars PROVE LogInv'
  OBVIOUS
<1>1. ASSUME NEW p \in Procs, Step(p)
      PROVE  LogInv'
  <2>1. CASE MergeNothing(p) \/ SendPage(p) \/ Lookup(p)
    BY <2>1, ReturnStep DEF MergeNothing, SendPage, Lookup
  <2>2. QED
    BY <1>1, <2>1, EffectiveVersionStep, CollapseDraftStep, CollapseRangeStep,
       MergeFieldsStep, NumberMutationStep, InsertMutationStep, InsertUnansweredStep,
       SaveDraftStep, LabelStep
       DEF Step
<1>2. ASSUME NEW p \in Procs, Abort(p)
      PROVE  LogInv'
  BY <1>2, ReturnStep DEF Abort
<1>3. CASE UNCHANGED vars
  BY <1>3 DEF vars, LogInv, ProcsShaped, RoomLeft, Underway
<1>4. QED
  BY <1>1, <1>2, <1>3, BeginMutationStep, BeginReadStep, BeginLookupStep, CrashStep,
     ExpireStep
     DEF Next

\* With any number of goroutines that race, fail or die, and with mutations
\* that expire: versions are positive, drafts are stored for multiples of
\* Threshold only, and no request works on a version beyond the log's end.
THEOREM DraftLogTypeCorrect == Spec => []TypeOK
<1>1. LogInv => TypeOK
  BY LogInvTyped
<1>2. QED
  BY <1>1, LogInit, LogNext, PTL DEF Spec

-----------------------------------------------------------------------------
(* One mutation at a time. *)

\* One goroutine serves mutations of the project.
OneWriter == \A p, q \in Writers : p = q

\* What the theorem assumes of the deployment: one goroutine serves mutations
\* of the project, or the semaphore has a single slot.
OneAtATime == OneWriter \/ Capacity = 1

\* One goroutine serves mutations, and none of them has expired yet.
Serial == OneWriter /\ ~Expiry

\* The inductive invariant: the versions still in the collection continue from
\* the number of mutations before them that do not count any more, and a
\* mutation about to be inserted comes next.
NumberedFrom(b) ==
  /\ \A i \in swept.log + 1 .. Len(log) : log[i].version = i - b
  /\ \A p \in Procs : proc[p].pc = "insert" => proc[p].upto = Len(log) + 1 - b

Numbered == \E b \in 0 .. swept.log : NumberedFrom(b)

\* The latest version is that of the last mutation, if that is still there.
LEMMA LatestOfNumbered ==
  ASSUME LogInv, NEW b \in 0 .. swept.log, NumberedFrom(b)
  PROVE  /\ b \in Nat /\ swept.log \in Nat /\ Len(log) \in Nat
         /\ b <= swept.log /\ swept.log <= Len(log)
         /\ Mutations = swept.log + 1 .. Len(log)
         /\ LatestVersion = IF swept.log = Len(log) THEN 0 ELSE Len(log) - b
<1>1. /\ b \in Nat /\ swept.log \in Nat /\ Len(log) \in Nat
      /\ b <= swept.log /\ swept.log <= Len(log) /\ DOMAIN log = 1..Len(log)
  BY SequenceDomain DEF LogInv
<1>2. Mutations = swept.log + 1 .. Len(log)
  BY <1>1 DEF Mutations
<1> DEFINE versions == {log[i].version : i \in Mutations}
<1>3. LatestVersion = IF versions = {} THEN 0
                      ELSE CHOOSE v \in versions : \A w \in versions : w <= v
  BY DEF LatestVersion
<1>4. \A i \in Mutations : log[i].version = i - b
  BY <1>2 DEF NumberedFrom
<1>5. CASE swept.log = Len(log)
  <2>1. versions = {}
    BY <1>1, <1>2, <1>5
  <2>2. QED
    BY <1>1, <1>2, <1>3, <1>5, <2>1
<1>6. CASE swept.log # Len(log)
  <2>1. Len(log) \in Mutations
    BY <1>1, <1>2, <1>6
  <2>2. log[Len(log)].version \in versions
    BY <2>1
  <2>3. log[Len(log)].version = Len(log) - b
    BY <1>4, <2>1
  <2>4. \A w \in versions : w \in Int /\ w <= Len(log) - b
    BY <1>1, <1>2, <1>4
  <2> HIDE DEF versions
  <2>5. \E v \in versions : \A w \in versions : w <= v
    BY <2>2, <2>3, <2>4
  <2>6. LatestVersion \in versions /\ \A w \in versions : w <= LatestVersion
    BY <1>3, <2>2, <2>5
  <2>7. LatestVersion = Len(log) - b
    BY <1>1, <2>2, <2>3, <2>4, <2>6
  <2>8. QED
    BY <1>1, <1>2, <1>6, <2>7
<1>7. QED
  BY <1>5, <1>6

LEMMA IdlePc == Idle.pc = "idle"
BY DEF Idle

\* With a single slot, whoever is about to insert is the first in the service.
AtHead ==
  Capacity = 1 =>
    \A p \in Procs : proc[p].pc = "insert" => Len(line) # 0 /\ line[1] = p

\* A goroutine that is served makes a call, or returns.
LEMMA StepKinds ==
  ASSUME NEW p \in Procs, Step(p) \/ Abort(p)
  PROVE  /\ Holds(p)
         /\ Return(p) \/ (UNCHANGED line /\ \E r : proc' = [proc EXCEPT ![p] = r])
<1>1. CASE \/ MergeNothing(p) \/ SendPage(p) \/ Lookup(p) \/ InsertUnanswered(p)
           \/ SaveDraft(p) \/ Abort(p)
  BY <1>1 DEF MergeNothing, SendPage, Lookup, InsertUnanswered, SaveDraft, Abort, At
<1>2. CASE InsertMutation(p)
  BY <1>2 DEF InsertMutation, At
<1>3. CASE \/ EffectiveVersion(p) \/ CollapseDraft(p) \/ CollapseRange(p)
           \/ MergeFields(p) \/ NumberMutation(p) \/ Label(p)
  <2>1. Holds(p) /\ UNCHANGED line
    BY <1>3
       DEF EffectiveVersion, CollapseDraft, CollapseRange, MergeFields, NumberMutation,
           Label, At
  <2>2. \E r : proc' = [proc EXCEPT ![p] = r]
    BY <1>3
       DEF EffectiveVersion, CollapseDraft, CollapseRange, MergeFields, NumberMutation,
           Label
  <2>3. QED
    BY <2>1, <2>2
<1>4. QED
  BY <1>1, <1>2, <1>3 DEF Step

\* A request begins with one of these.
LEMMA BeginKinds ==
  ASSUME \/ \E p \in Writers, op \in Ops : BeginMutation(p, op)
         \/ \E p \in Readers, v \in Asked : BeginRead(p, v)
         \/ \E p \in Lookups : BeginLookup(p)
  PROVE  \E p \in Procs : \E r : Enter(p, r) /\ r.pc # "insert"
<1>1. ASSUME NEW p \in Writers, NEW op \in Ops, BeginMutation(p, op)
      PROVE  \E r : Enter(p, r) /\ r.pc # "insert"
  <2>1. PICK r \in {[Idle EXCEPT !.pc = "latest", !.op = op],
                    [Idle EXCEPT !.pc = "number", !.op = op, !.new = Mutation(op)]} :
          Enter(p, r)
    BY <1>1 DEF BeginMutation
  <2>2. r.pc # "insert"
    BY <2>1 DEF Idle
  <2>3. QED
    BY <2>1, <2>2
<1>2. ASSUME NEW p \in Readers, NEW v \in Asked, BeginRead(p, v)
      PROVE  \E r : Enter(p, r) /\ r.pc # "insert"
  <2> DEFINE r == [Idle EXCEPT !.pc = "draft", !.upto = v, !.next = "label",
                               !.start = Len(log)]
  <2>1. Enter(p, r)
    BY <1>2 DEF BeginRead
  <2>2. r.pc # "insert"
    BY DEF Idle
  <2>3. QED
    BY <2>1, <2>2
<1>3. ASSUME NEW p \in Lookups, BeginLookup(p)
      PROVE  \E r : Enter(p, r) /\ r.pc # "insert"
  BY <1>3 DEF BeginLookup, Idle
<1>4. QED
  BY <1>1, <1>2, <1>3 DEF Procs

LEMMA AtHeadNext == LogInv /\ AtHead /\ [Next]_vars => AtHead'
<1> SUFFICES ASSUME LogInv, AtHead, [Next]_vars, Capacity = 1,
                    NEW q \in Procs, proc'[q].pc = "insert"
             PROVE  Len(line') # 0 /\ line'[1] = q
  BY DEF AtHead
<1>1. DOMAIN proc = Procs /\ line \in Seq(Procs) /\ Len(line) \in Nat
  BY DEF LogInv, ProcsShaped
<1>2. ASSUME NEW p \in Procs, Step(p) \/ Abort(p)
      PROVE  Len(line') # 0 /\ line'[1] = q
  <2>1. Len(line) # 0 /\ line[1] = p
    <3>1. Holds(p)
      BY <1>2, StepKinds
    <3>2. QED
      BY <1>1, <3>1 DEF Holds
  <2>2. PICK r : proc' = [proc EXCEPT ![p] = r]
    BY <1>2, StepKinds DEF Return
  <2>3. q = p
    <3> SUFFICES ASSUME q # p PROVE FALSE
      OBVIOUS
    <3>1. proc[q].pc = "insert"
      BY <1>1, <2>2
    <3>2. QED
      BY <2>1, <3>1 DEF AtHead
  <2>4. UNCHANGED line
    BY <1>1, <1>2, <2>3, StepKinds, IdlePc DEF Return
  <2>5. QED
    BY <2>1, <2>3, <2>4
<1>3. ASSUME NEW p \in Procs, NEW r, Enter(p, r), r.pc # "insert"
      PROVE  Len(line') # 0 /\ line'[1] = q
  <2>1. proc[q].pc = "insert"
    BY <1>1, <1>3 DEF Enter
  <2>2. Len(line) # 0 /\ line[1] = q
    BY <2>1 DEF AtHead
  <2>3. QED
    BY <1>1, <1>3, <2>2 DEF Enter
<1>4. ~Crash
  BY IdlePc DEF Crash
<1>5. CASE ExpireDraft \/ ExpireMutation \/ UNCHANGED vars
  BY <1>5 DEF ExpireDraft, ExpireMutation, vars, AtHead
<1>6. QED
  BY <1>2, <1>3, <1>4, <1>5, BeginKinds DEF Next

\* While a goroutine that is served is at its mutation, nobody else is about to
\* insert one.
LEMMA AloneAtInsert ==
  ASSUME OneAtATime, LogInv, AtHead, NEW p \in Procs, Holds(p), Mutating(proc[p]),
         NEW q \in Procs, q # p
  PROVE  proc[q].pc # "insert"
<1> SUFFICES ASSUME proc[q].pc = "insert" PROVE FALSE
  OBVIOUS
<1>1. CASE OneWriter
  BY <1>1 DEF LogInv, RoomLeft, Mutating, OneWriter
<1>2. CASE Capacity = 1
  <2>1. line[1] = p
    BY <1>2 DEF Holds, LogInv
  <2>2. QED
    BY <1>2, <2>1 DEF AtHead
<1>3. QED
  BY <1>1, <1>2 DEF OneAtATime

LEMMA NumberedNext ==
  ASSUME OneAtATime, LogInv, AtHead, Numbered, [Next]_vars
  PROVE  Numbered'
<1>0. PICK b \in 0 .. swept.log : NumberedFrom(b)
  BY DEF Numbered
<1>1. DOMAIN proc = Procs /\ \A q \in Procs : Shaped(proc[q])
  BY DEF LogInv, ProcsShaped
<1>2. ASSUME NEW p \in Procs, NEW r, proc' = [proc EXCEPT ![p] = r], r.pc # "insert",
             UNCHANGED <<log, swept>>
      PROVE  Numbered'
  BY <1>0, <1>1, <1>2 DEF NumberedFrom, Numbered
<1>3. ASSUME NEW p \in Procs, NumberMutation(p)
      PROVE  Numbered'
  <2> DEFINE r == [proc[p] EXCEPT !.upto = LatestVersion + 1, !.pc = "insert"]
  <2>1. /\ proc' = [proc EXCEPT ![p] = r] /\ UNCHANGED <<log, swept>>
        /\ Holds(p) /\ proc[p].pc = "number"
    BY <1>3 DEF NumberMutation, At
  <2>2. PICK c \in 0 .. swept.log :
          /\ LatestVersion + 1 = Len(log) + 1 - c
          /\ \A i \in swept.log + 1 .. Len(log) : log[i].version = i - c
    <3>1. CASE swept.log = Len(log)
      <4>1. /\ Len(log) \in 0 .. swept.log /\ LatestVersion + 1 = Len(log) + 1 - Len(log)
            /\ \A i \in swept.log + 1 .. Len(log) : FALSE
        BY <1>0, <3>1, LatestOfNumbered
      <4>2. QED
        BY <4>1
    <3>2. CASE swept.log # Len(log)
      <4>1. LatestVersion + 1 = Len(log) + 1 - b
        BY <1>0, <3>2, LatestOfNumbered
      <4>2. QED
        BY <1>0, <4>1 DEF NumberedFrom
    <3>3. QED
      BY <3>1, <3>2
  <2>3. r.upto = Len(log) + 1 - c
    BY <1>1, <2>2 DEF Shaped, Fields
  <2> HIDE DEF r
  <2>4. \A q \in Procs : q # p => proc'[q].pc # "insert"
    BY <1>1, <2>1, AloneAtInsert DEF Mutating
  <2>5. NumberedFrom(c)'
    BY <1>1, <2>1, <2>2, <2>3, <2>4 DEF NumberedFrom
  <2>6. QED
    BY <2>1, <2>5 DEF Numbered
<1>4. ASSUME NEW p \in Procs, At(p, "insert"), Store(p), NEW r,
             proc' = [proc EXCEPT ![p] = r], r.pc # "insert", UNCHANGED swept
      PROVE  Numbered'
  <2>1. /\ proc[p].upto = Len(log) + 1 - b /\ Len(log) \in Nat /\ b \in Nat
        /\ swept.log \in Nat /\ swept.log <= Len(log)
    BY <1>0, <1>4, LatestOfNumbered DEF At, NumberedFrom
  <2>2. /\ Len(log') = Len(log) + 1
        /\ \A i \in 1..Len(log) : log'[i] = log[i]
        /\ log'[Len(log) + 1].version = Len(log) + 1 - b
    BY <1>4, <2>1, AppendSequence DEF Store, LogInv
  <2>3. ASSUME NEW i \in swept.log + 1 .. Len(log')
        PROVE  log'[i].version = i - b
    <3>1. CASE i = Len(log) + 1
      BY <2>2, <3>1
    <3>2. CASE i # Len(log) + 1
      <4>1. i \in 1..Len(log) /\ i \in swept.log + 1 .. Len(log)
        BY <2>1, <2>2, <3>2
      <4>2. log[i].version = i - b
        BY <1>0, <4>1 DEF NumberedFrom
      <4>3. QED
        BY <2>2, <4>1, <4>2
    <3>3. QED
      BY <3>1, <3>2
  <2>4. \A q \in Procs : proc'[q].pc # "insert"
    BY <1>1, <1>4, AloneAtInsert DEF At, Mutating
  <2>5. NumberedFrom(b)'
    BY <1>4, <2>3, <2>4 DEF NumberedFrom
  <2>6. QED
    BY <1>4, <2>5 DEF Numbered
<1>5. ASSUME NEW p \in Procs, InsertMutation(p) \/ InsertUnanswered(p)
      PROVE  Numbered'
  <2>1. PICK r \in {Idle, [proc[p] EXCEPT !.pc = "draft", !.next = "save"]} :
          proc' = [proc EXCEPT ![p] = r]
    BY <1>5 DEF InsertMutation, InsertUnanswered, Return
  <2>2. r.pc # "insert"
    <3>1. [proc[p] EXCEPT !.pc = "draft", !.next = "save"].pc = "draft"
      BY <1>1 DEF Shaped, Fields
    <3>2. QED
      BY <2>1, <3>1, IdlePc
  <2>3. QED
    BY <1>4, <1>5, <2>1, <2>2 DEF InsertMutation, InsertUnanswered
<1>6. ASSUME NEW p \in Procs,
             \/ MergeNothing(p) \/ SendPage(p) \/ Lookup(p) \/ SaveDraft(p) \/ Abort(p)
      PROVE  Numbered'
  <2>1. proc' = [proc EXCEPT ![p] = Idle] /\ UNCHANGED <<log, swept>>
    BY <1>6 DEF MergeNothing, SendPage, Lookup, SaveDraft, Abort, Return
  <2>2. QED
    BY <1>2, <2>1, IdlePc
<1>7. ASSUME NEW p \in Procs,
             EffectiveVersion(p) \/ CollapseDraft(p) \/ CollapseRange(p) \/ MergeFields(p)
             \/ Label(p)
      PROVE  Numbered'
  <2>1. proc[p].pc \in {"draft", "range"} => proc[p].next # "insert"
    BY DEF LogInv, Carries, Collapsing
  <2>2. UNCHANGED <<log, swept>>
    BY <1>7 DEF EffectiveVersion, CollapseDraft, CollapseRange, MergeFields, Label
  <2>3. CASE EffectiveVersion(p)
    <3> DEFINE r == [proc[p] EXCEPT !.upto = LatestVersion, !.pc = "draft", !.next = "merge"]
    <3>1. proc' = [proc EXCEPT ![p] = r]
      BY <2>3 DEF EffectiveVersion
    <3>2. r.pc # "insert"
      BY <1>1 DEF Shaped, Fields
    <3> HIDE DEF r
    <3>3. QED
      BY <1>2, <2>2, <3>1, <3>2
  <2>4. CASE CollapseDraft(p)
    <3> DEFINE draft == LatestDraft(proc[p].upto)
               found == [proc[p] EXCEPT !.page = draft.mutations, !.pc = proc[p].next]
               more  == [proc[p] EXCEPT !.draft = draft, !.pc = "range"]
    <3>1. PICK r \in {found, more} : proc' = [proc EXCEPT ![p] = r]
      BY <2>4 DEF CollapseDraft
    <3>2. found.pc # "insert"
      BY <1>1, <2>1, <2>4 DEF CollapseDraft, At, Shaped, Fields
    <3>3. more.pc # "insert"
      BY <1>1 DEF Shaped, Fields
    <3> HIDE DEF found, more
    <3>4. QED
      BY <1>2, <2>2, <3>1, <3>2, <3>3
  <2>5. CASE CollapseRange(p)
    <3> DEFINE r == [proc[p] EXCEPT !.page = CollapseOnto(proc[p].draft, proc[p].upto),
                                    !.draft = NoDraft, !.pc = proc[p].next]
    <3>1. proc' = [proc EXCEPT ![p] = r]
      BY <2>5 DEF CollapseRange
    <3>2. r.pc # "insert"
      BY <1>1, <2>1, <2>5 DEF CollapseRange, At, Shaped, Fields
    <3> HIDE DEF r
    <3>3. QED
      BY <1>2, <2>2, <3>1, <3>2
  <2>6. CASE MergeFields(p)
    <3>1. PICK m \in Elements(proc[p].page) :
            proc' = [proc EXCEPT
                       ![p] = [proc[p] EXCEPT
                                 !.new = Content(m.id, Merge(m.val, proc[p].op.val)),
                                 !.page = <<>>, !.pc = "number"]]
      BY <2>6 DEF MergeFields
    <3> DEFINE r == [proc[p] EXCEPT !.new = Content(m.id, Merge(m.val, proc[p].op.val)),
                                    !.page = <<>>, !.pc = "number"]
    <3>2. proc' = [proc EXCEPT ![p] = r]
      BY <3>1
    <3>3. r.pc # "insert"
      BY <1>1 DEF Shaped, Fields
    <3> HIDE DEF r
    <3>4. QED
      BY <1>2, <2>2, <3>2, <3>3
  <2>7. CASE Label(p)
    <3> DEFINE version == IF proc[p].upto = MaxInt THEN LatestVersion ELSE proc[p].upto
               r == [proc[p] EXCEPT !.label = version, !.pc = "reply"]
    <3>1. proc' = [proc EXCEPT ![p] = r]
      BY <2>7 DEF Label
    <3>2. r.pc # "insert"
      BY <1>1 DEF Shaped, Fields
    <3> HIDE DEF r
    <3>3. QED
      BY <1>2, <2>2, <3>1, <3>2
  <2>8. QED
    BY <1>7, <2>3, <2>4, <2>5, <2>6, <2>7
<1>8. ASSUME NEW p \in Procs, NEW r, Enter(p, r), r.pc # "insert", UNCHANGED <<log, swept>>
      PROVE  Numbered'
  BY <1>2, <1>8 DEF Enter
<1>9. ASSUME NEW p \in Writers, NEW op \in Ops, BeginMutation(p, op)
      PROVE  Numbered'
  <2>1. PICK r \in {[Idle EXCEPT !.pc = "latest", !.op = op],
                    [Idle EXCEPT !.pc = "number", !.op = op, !.new = Mutation(op)]} :
          Enter(p, r)
    BY <1>9 DEF BeginMutation
  <2>2. r.pc # "insert"
    BY <2>1 DEF Idle
  <2>3. QED
    BY <1>8, <1>9, <2>1, <2>2 DEF BeginMutation, Procs
<1>10. ASSUME NEW p \in Readers, NEW v \in Asked, BeginRead(p, v)
       PROVE  Numbered'
  BY <1>8, <1>10 DEF BeginRead, Idle, Procs
<1>11. ASSUME NEW p \in Lookups, BeginLookup(p)
       PROVE  Numbered'
  BY <1>8, <1>11 DEF BeginLookup, Idle, Procs
<1>12. CASE Crash
  <2>1. NumberedFrom(b)'
    BY <1>0, <1>12 DEF Crash, Idle, NumberedFrom
  <2>2. QED
    BY <1>12, <2>1 DEF Crash, Numbered
<1>13. CASE ExpireDraft \/ ExpireMutation
  <2>1. /\ UNCHANGED <<log, proc>> /\ swept.log \in Nat
        /\ swept'.log \in {swept.log, swept.log + 1}
    BY <1>0, <1>13, LatestOfNumbered DEF ExpireDraft, ExpireMutation, LogInv
  <2>2. \A i \in swept'.log + 1 .. Len(log) : i \in swept.log + 1 .. Len(log)
    BY <2>1
  <2>3. NumberedFrom(b)'
    BY <1>0, <2>1, <2>2 DEF NumberedFrom
  <2>4. b \in 0 .. swept'.log
    BY <2>1
  <2>5. QED
    BY <2>3, <2>4 DEF Numbered
<1>14. CASE UNCHANGED vars
  BY <1>0, <1>14 DEF vars, Numbered, NumberedFrom
<1>15. QED
  BY <1>3, <1>5, <1>6, <1>7, <1>9, <1>10, <1>11, <1>12, <1>13, <1>14 DEF Next, Step

LEMMA NumberedInit == Init => Numbered /\ AtHead
<1> SUFFICES ASSUME Init PROVE Numbered /\ AtHead
  OBVIOUS
<1>1. Len(log) = 0 /\ swept.log = 0 /\ \A p \in Procs : proc[p].pc # "insert"
  BY DEF Init, Idle
<1>2. NumberedFrom(0) /\ 0 \in 0 .. swept.log
  BY <1>1 DEF NumberedFrom
<1>3. QED
  BY <1>1, <1>2 DEF Numbered, AtHead

\* While one mutation is served at a time, because one goroutine serves them or
\* because the semaphore has a single slot, versions are consecutive in the
\* order of insertion, however often requests fail between the two calls of
\* InsertMutation or the process dies, whatever expires meanwhile, and with any
\* number of readers.
THEOREM VersionsConsecutiveHolds == OneAtATime /\ Spec => []VersionsConsecutive
<1> SUFFICES ASSUME OneAtATime PROVE Spec => []VersionsConsecutive
  OBVIOUS
<1>1. Init => Numbered /\ AtHead
  BY NumberedInit
<1>2. LogInv /\ Numbered => VersionsConsecutive
  <2> SUFFICES ASSUME LogInv, NEW b \in 0 .. swept.log, NumberedFrom(b)
               PROVE  VersionsConsecutive
    BY DEF Numbered
  <2>1. \A i \in Mutations : log[i].version = i - b
    BY LatestOfNumbered DEF NumberedFrom
  <2>2. QED
    BY <2>1 DEF VersionsConsecutive
<1>3. LogInv /\ AtHead /\ Numbered /\ [Next]_vars => Numbered'
  BY NumberedNext
<1>4. QED
  BY <1>1, <1>2, <1>3, LogInit, LogNext, AtHeadNext, PTL DEF Spec

\* While nothing has expired the version of a mutation is its position.
NumberedInOrder ==
  /\ swept.log = 0
  /\ \A i \in 1..Len(log) : log[i].version = i
  /\ \A p \in Procs : proc[p].pc = "insert" => proc[p].upto = Len(log) + 1

LEMMA NumberedAtPosition ==
  LogInv => (NumberedInOrder <=> swept.log = 0 /\ Numbered)
<1> SUFFICES ASSUME LogInv, swept.log = 0 PROVE NumberedInOrder <=> Numbered
  BY DEF NumberedInOrder
<1>1. Len(log) \in Nat /\ 0 \in 0 .. swept.log /\ \A b \in 0 .. swept.log : b = 0
  BY SequenceDomain DEF LogInv
<1>2. NumberedFrom(0) <=> NumberedInOrder
  BY <1>1 DEF NumberedFrom, NumberedInOrder
<1>3. QED
  BY <1>1, <1>2 DEF Numbered

\* The next version is one more than the number of mutations.
LEMMA LatestIsLength ==
  ASSUME LogInv, NumberedInOrder
  PROVE  LatestVersion = Len(log)
<1>1. NumberedFrom(0) /\ 0 \in 0 .. swept.log /\ swept.log = 0
  BY SequenceDomain DEF LogInv, NumberedInOrder, NumberedFrom
<1>2. QED
  BY <1>1, LatestOfNumbered

LEMMA SerialNext ==
  ASSUME OneAtATime, ~Expiry, LogInv, AtHead, NumberedInOrder, [Next]_vars
  PROVE  NumberedInOrder'
<1>1. Numbered' /\ LogInv'
  BY NumberedAtPosition, NumberedNext, LogNext
<1>2. swept' = swept
  BY DEF Next, vars, Step, BeginMutation, BeginRead, BeginLookup, EffectiveVersion,
         CollapseDraft, CollapseRange, MergeFields, MergeNothing, NumberMutation,
         InsertMutation, InsertUnanswered, SaveDraft, Label, SendPage, Lookup, Abort,
         Crash, ExpireDraft, ExpireMutation
<1>3. (swept.log = 0)'
  BY <1>2 DEF NumberedInOrder
<1>4. QED
  BY <1>1, <1>3, NumberedAtPosition, PTL

-----------------------------------------------------------------------------
(* The page, when one mutation is served at a time and clients revert only *)
(* what came after the last stored draft.                                  *)

\* The first n mutations of a log.
Prefix(l, n) == [i \in 1..n |-> l[i].mutation]

\* No revert after version v of a log reaches it.
Safe(l, v) ==
  \A i \in v + 1 .. Len(l) :
    IsRevert(l[i].mutation) => l[i].mutation.revert < i - v

\* The page of version n of a log, each element once.
Shows(page, l, n) == IsDraft(page) /\ Elements(page) = Page(Prefix(l, n))

\* A draft that may stand for the first mutations of a log.
Stands(d, l) ==
  /\ d.version \in 0 .. Len(l)
  /\ Shows(d.mutations, l, d.version)
  /\ Safe(l, d.version)

\* A draft that LatestDraft may have found.
Known(d, ds) == d = NoDraft \/ \E j \in 1..Len(ds) : d = ds[j]

Updating(r) == r.pc \in {"latest", "merge"} \/ (Collapsing(r) /\ r.next = "merge")
Saving(r) == r.pc = "save" \/ (Collapsing(r) /\ r.next = "save")
Reading(r) == r.pc \in {"label", "reply"} \/ (Collapsing(r) /\ r.next = "label")

\* What a request is about to do to a log l next to the drafts ds: none of them
\* is reached by its revert.
Applies(r, l, ds) ==
  /\ r.op \in Ops
  /\ IF r.op.kind = "update"
     THEN \E e \in Page(Prefix(l, Len(l))) :
            e.id = r.op.id /\ r.new = Content(e.id, Merge(e.val, r.op.val))
     ELSE r.new = Mutation(r.op)
  /\ IsMutation(r.new)
  /\ IsRevert(r.new) => /\ r.new.revert <= Len(l)
                        /\ \A j \in 1..Len(ds) : r.new.revert <= Len(l) - ds[j].version

\* The page of a moment of the read, or of the version asked for.
ShowsMoment(r, l) ==
  \E n \in r.start .. Len(l) :
    Elements(r.page) = Page(Prefix(l, IF r.upto < n THEN r.upto ELSE n))

Serves(r, l, ds) ==
  /\ Updating(r) => r.op \in Ops /\ r.op.kind = "update"
  /\ Updating(r) /\ r.pc # "latest" => r.upto = Len(l)
  /\ r.pc = "range" => Known(r.draft, ds) /\ r.draft.version < r.upto
  /\ r.pc \in {"merge", "save"} => Shows(r.page, l, Len(l))
  /\ r.pc \in {"number", "insert"} => Applies(r, l, ds)
  /\ Saving(r) => r.upto = Len(l) /\ r.new = l[Len(l)].mutation
  /\ Reading(r) => r.start \in 0 .. Len(l)
  /\ r.pc = "label" => ShowsMoment(r, l)
  /\ r.pc # "reply" => r.label = 0

\* Who does what.
InRole(p, r) ==
  /\ Mutating(r) \/ Saving(r) => p \in Writers
  /\ Reading(r) => p \in Readers
  /\ r.pc = "project" => p \in Lookups

\* The inductive invariant: stored drafts, and the pages that requests hold,
\* are those of the history up to their version, and what was answered is in
\* the log.
PageInv ==
  /\ swept.drafts = 0
  /\ \A i \in 1..Len(log) : IsMutation(log[i].mutation)
  /\ Safe(log, 0)
  /\ \A j \in 1..Len(drafts) : Stands(drafts[j], log)
  /\ \A p \in Procs : Serves(proc[p], log, drafts) /\ InRole(p, proc[p])
  /\ \A a \in acked : a.version \in 1..Len(log) /\ a.mutation = log[a.version].mutation

LEMMA PrefixHistory ==
  ASSUME NEW l, NEW n \in Nat, \A i \in 1..n : IsMutation(l[i].mutation)
  PROVE  /\ IsHistory(Prefix(l, n)) /\ Len(Prefix(l, n)) = n
         /\ \A i \in 1..n : Prefix(l, n)[i] = l[i].mutation
<1> DEFINE h == Prefix(l, n)
<1>1. h = [i \in 1..n |-> h[i]] /\ \A i \in 1..n : h[i] = l[i].mutation
  BY DEF Prefix
<1> HIDE DEF h
<1>2. \A i \in 1..n : IsMutation(h[i])
  BY <1>1
<1>3. IsHistory(h) /\ Len(h) = n
  BY <1>1, <1>2, HistoryOf
<1>4. QED
  BY <1>1, <1>3 DEF h

LEMMA NoDraftStands ==
  ASSUME LogInv, PageInv
  PROVE  Stands(NoDraft, log)
<1>1. NoDraft.version = 0 /\ NoDraft.mutations = <<>>
  BY DEF NoDraft
<1>2. Prefix(log, 0) = <<>>
  BY DEF Prefix
<1>3. 0 \in 0 .. Len(log)
  BY LogBounded
<1>4. QED
  BY <1>1, <1>2, <1>3, EmptyHistory DEF PageInv, Stands, Shows

LEMMA KnownStands ==
  ASSUME LogInv, PageInv, NEW d, Known(d, drafts)
  PROVE  Stands(d, log) /\ d.version \in 0 .. Len(log)
BY NoDraftStands DEF Known, PageInv, Stands

\* LatestDraft finds the stored draft of the highest version up to v.
LEMMA DraftFound ==
  ASSUME LogInv, NEW n \in Nat, \A j \in Drafts : drafts[j].version \in 0 .. n,
         NEW v \in Nat
  PROVE  LET d == LatestDraft(v) IN
         /\ d = NoDraft \/ \E j \in Drafts : d = drafts[j]
         /\ d.version <= v
         /\ \A j \in Drafts :
              drafts[j].version <= v => drafts[j].version <= d.version
<1> DEFINE below == {i \in Drafts : drafts[i].version <= v}
           Before(i, j) == \/ drafts[i].version < drafts[j].version
                           \/ drafts[i].version = drafts[j].version /\ i <= j
           d == LatestDraft(v)
<1>1. Len(drafts) \in Nat /\ Drafts \subseteq 1..Len(drafts)
  BY SequenceDomain DEF LogInv, Drafts
<1>2. d = IF below = {} THEN NoDraft
          ELSE drafts[CHOOSE j \in below : \A i \in below : Before(i, j)]
  BY DEF LatestDraft
<1>3. NoDraft.version = 0
  BY DEF NoDraft
<1>4. \A i \in Drafts : i \in below <=> drafts[i].version <= v
  OBVIOUS
<1>5. below \subseteq Drafts
  OBVIOUS
<1> HIDE DEF d, below
<1>6. CASE below = {}
  BY <1>2, <1>3, <1>4, <1>6 DEF d
<1>7. CASE below # {}
  <2> DEFINE versions == {drafts[i].version : i \in below}
  <2>1. versions \in SUBSET (0 .. n) /\ versions # {}
    BY <1>5, <1>7
  <2>2. PICK w \in versions : \A u \in versions : u <= w
    <3> HIDE DEF versions
    <3> QED BY <2>1, LargestExists
  <2> DEFINE newest == {i \in below : drafts[i].version = w}
  <2>3. newest \in SUBSET (0 .. Len(drafts)) /\ newest # {}
    <3>1. \E i \in below : drafts[i].version = w
      OBVIOUS
    <3>2. below \subseteq 0 .. Len(drafts)
      BY <1>1, <1>5
    <3>3. QED
      BY <3>1, <3>2
  <2>4. PICK j \in newest : \A i \in newest : i <= j
    <3> HIDE DEF newest
    <3> QED BY <1>1, <2>3, LargestExists
  <2>5. j \in below /\ \A i \in below : Before(i, j)
    <3> SUFFICES ASSUME NEW i \in below PROVE Before(i, j)
      OBVIOUS
    <3>1. drafts[i].version \in versions /\ drafts[i].version <= w /\ drafts[j].version = w
      BY <2>2
    <3>2. drafts[i].version \in Nat /\ w \in Nat
      BY <2>1, <3>1
    <3>3. CASE drafts[i].version = w
      BY <2>4, <3>1, <3>3
    <3>4. CASE drafts[i].version # w
      BY <3>1, <3>2, <3>4
    <3>5. QED
      BY <3>3, <3>4
  <2> DEFINE k == CHOOSE l \in below : \A i \in below : Before(i, l)
  <2>6. k \in below /\ \A i \in below : Before(i, k)
    <3> HIDE DEF Before
    <3> QED BY <2>5
  <2>7. d = drafts[k]
    BY <1>2, <1>7
  <2> HIDE DEF k
  <2>8. k \in Drafts /\ drafts[k].version <= v
    BY <1>4, <1>5, <2>6
  <2>9. ASSUME NEW i \in Drafts, drafts[i].version <= v
        PROVE  drafts[i].version <= drafts[k].version
    <3>1. i \in below
      BY <1>4, <2>9
    <3>2. Before(i, k) /\ drafts[i].version \in Nat /\ drafts[k].version \in Nat
      BY <2>6, <2>8, <3>1
    <3>3. QED
      BY <3>2
  <2>10. QED
    BY <2>7, <2>8, <2>9 DEF d
<1>8. QED
  BY <1>6, <1>7

LEMMA LatestDraftFound ==
  ASSUME LogInv, PageInv, NEW v \in Nat
  PROVE  LET d == LatestDraft(v) IN
         /\ Known(d, drafts) /\ d.version <= v
         /\ \A j \in 1..Len(drafts) :
              drafts[j].version <= v => drafts[j].version <= d.version
<1>1. Drafts = 1..Len(drafts) /\ Len(log) \in Nat
  BY SequenceDomain, LogBounded DEF LogInv, PageInv, Drafts
<1>2. \A j \in Drafts : drafts[j].version \in 0 .. Len(log)
  BY <1>1 DEF PageInv, Stands
<1>3. QED
  BY <1>1, <1>2, DraftFound DEF Known

\* The mutations with a version in the range are those at positions s + 1 to
\* s + size, where position i carries version i - c.
LiesAt(from, to, s, size, c) ==
  /\ \A i \in s + 1 .. s + size :
       i \in Mutations /\ log[i].version = i - c /\ i - c \in from .. to
  /\ \A i \in Mutations : log[i].version \in from .. to => i \in s + 1 .. s + size
  /\ size <= to - from + 1

\* Mutations at neighbouring positions, numbered in their order, are found in
\* that order.
LEMMA RangeFound ==
  ASSUME NEW from \in Nat, NEW to \in Nat, NEW s \in Nat, NEW size \in Nat, NEW c \in Nat,
         LiesAt(from, to, s, size, c)
  PROVE  MutationsInRange(from, to) = [k \in 1..size |-> log[s + k].mutation]
<1>0. /\ \A i \in s + 1 .. s + size :
           i \in Mutations /\ log[i].version = i - c /\ i - c \in from .. to
      /\ \A i \in Mutations : log[i].version \in from .. to => i \in s + 1 .. s + size
      /\ size <= to - from + 1
  BY DEF LiesAt
<1> DEFINE found == {i \in Mutations : log[i].version \in from .. to}
           Before(i, j) == \/ log[i].version < log[j].version
                           \/ log[i].version = log[j].version /\ i < j
           nth(k) == CHOOSE i \in found : Cardinality({j \in found : Before(j, i)}) = k - 1
           last == s + size
<1>1. found = s + 1 .. last
  <2>1. \A i \in s + 1 .. last : log[i].version \in from .. to
    BY <1>0
  <2>2. QED
    BY <1>0, <2>1
<1>2. \A i, j \in s + 1 .. last : Before(j, i) <=> j < i
  BY <1>0
<1>3. ASSUME NEW i \in s + 1 .. last
      PROVE  Cardinality({j \in found : Before(j, i)}) = i - 1 - s
  <2>1. {j \in found : Before(j, i)} = s + 1 .. i - 1
    <3> HIDE DEF Before
    <3>1. {j \in found : Before(j, i)} = {j \in s + 1 .. last : j < i}
      BY <1>1, <1>2
    <3>2. {j \in s + 1 .. last : j < i} = s + 1 .. i - 1
      OBVIOUS
    <3>3. QED
      BY <3>1, <3>2
  <2>2. /\ i - 1 \in Int /\ s + 1 \in Int
        /\ (IF s + 1 > i - 1 THEN 0 ELSE (i - 1) - (s + 1) + 1) = i - 1 - s
    OBVIOUS
  <2>3. QED
    BY <2>1, <2>2, FS_Interval
<1>4. Cardinality(found) = size
  <2>1. /\ last \in Int /\ s + 1 \in Int
        /\ (IF s + 1 > last THEN 0 ELSE last - (s + 1) + 1) = size
    OBVIOUS
  <2>2. QED
    BY <1>1, <2>1, FS_Interval
<1>5. MutationsInRange(from, to) = [k \in 1..size |-> log[nth(k)].mutation]
  <2>1. MutationsInRange(from, to)
          = [k \in 1..(IF Cardinality(found) <= to - from + 1 THEN Cardinality(found)
                       ELSE to - from + 1) |-> log[nth(k)].mutation]
    BY DEF MutationsInRange
  <2> HIDE DEF found, nth
  <2>2. QED
    BY <1>0, <1>4, <2>1
<1> HIDE DEF found, Before
<1>6. ASSUME NEW k \in 1..size PROVE nth(k) = s + k
  <2> DEFINE i == s + k
  <2>1. i \in s + 1 .. last /\ i - 1 - s = k - 1
    OBVIOUS
  <2> HIDE DEF i
  <2>2. i \in found /\ Cardinality({j \in found : Before(j, i)}) = k - 1
    BY <1>1, <1>3, <2>1
  <2>3. ASSUME NEW l \in found, Cardinality({j \in found : Before(j, l)}) = k - 1
        PROVE  l = i
    <3>1. l \in s + 1 .. last /\ l - 1 - s = k - 1
      BY <1>1, <1>3, <2>3
    <3>2. QED
      BY <2>1, <3>1
  <2>4. nth(k) = i
    BY <2>2, <2>3
  <2>5. QED
    BY <2>4 DEF i
<1> HIDE DEF nth
<1>7. QED
  BY <1>5, <1>6

\* The mutations after version s are those that the log holds there.
LEMMA RangeIsSlice ==
  ASSUME LogInv, NumberedInOrder, NEW s \in Nat, NEW to \in Nat, s < to,
         NEW size \in Nat, s + size <= Len(log),
         s + size = to \/ s + size = Len(log), s + size <= to
  PROVE  MutationsInRange(s + 1, to) = [k \in 1..size |-> log[s + k].mutation]
<1>1. /\ Len(log) \in Nat /\ Mutations = 1..Len(log)
      /\ \A i \in 1..Len(log) : log[i].version = i
  BY SequenceDomain DEF LogInv, NumberedInOrder, Mutations
<1> DEFINE from == s + 1
           c == 0
<1>2. from \in Nat /\ c \in Nat /\ LiesAt(from, to, s, size, c)
  BY <1>1 DEF LiesAt
<1> HIDE DEF from, c
<1>3. MutationsInRange(from, to) = [k \in 1..size |-> log[s + k].mutation]
  BY <1>2, RangeFound, SMTT(20)
<1>4. QED
  BY <1>3 DEF from

\* A prefix of a log and the mutations after it.
LEMMA SliceJoins ==
  ASSUME NEW l, Len(l) \in Nat, \A i \in 1..Len(l) : IsMutation(l[i].mutation),
         NEW n \in 0 .. Len(l), NEW cut \in 0 .. n, NEW size, size = n - cut,
         NEW r, r = [k \in 1..size |-> l[cut + k].mutation]
  PROVE  /\ IsHistory(r) /\ IsHistory(Prefix(l, n)) /\ IsHistory(Prefix(l, cut))
         /\ Joins(Prefix(l, n), Prefix(l, cut), r)
         /\ Safe(l, cut) => Within(r)
<1> DEFINE h == Prefix(l, n)
           a == Prefix(l, cut)
<1>1. size \in Nat /\ cut \in Nat /\ n \in Nat /\ cut <= n /\ n <= Len(l) /\ n = cut + size
  OBVIOUS
<1>2. /\ r = [k \in 1..size |-> r[k]]
      /\ \A k \in 1..size : r[k] = l[cut + k].mutation
  OBVIOUS
<1>3. \A k \in 1..size : cut + k \in 1..n /\ cut + k \in 1..Len(l)
  BY <1>1
<1>4. IsHistory(r) /\ Len(r) = size
  <2>1. \A k \in 1..size : IsMutation(r[k])
    BY <1>2, <1>3
  <2>2. QED
    BY <1>1, <1>2, <2>1, HistoryOf
<1>5. /\ IsHistory(a) /\ Len(a) = cut
      /\ \A i \in 1..cut : a[i] = l[i].mutation
  <2>1. \A i \in 1..cut : IsMutation(l[i].mutation)
    BY <1>1
  <2>2. QED
    BY <1>1, <2>1, PrefixHistory
<1>6. /\ IsHistory(h) /\ Len(h) = n
      /\ \A i \in 1..n : h[i] = l[i].mutation
  <2>1. \A i \in 1..n : IsMutation(l[i].mutation)
    BY <1>1
  <2>2. QED
    BY <1>1, <2>1, PrefixHistory
<1> HIDE DEF a, h
<1>7. Joins(h, a, r)
  <2>1. Len(h) = Len(a) + Len(r)
    BY <1>1, <1>4, <1>5, <1>6
  <2>2. ASSUME NEW i \in 1 .. Len(a) PROVE h[i] = a[i]
    <3>1. i \in 1..cut /\ i \in 1..n
      BY <1>1, <1>5
    <3>2. QED
      BY <1>5, <1>6, <3>1
  <2>3. \A k \in 1..size : h[cut + k] = r[k]
    BY <1>2, <1>3, <1>6
  <2>4. QED
    BY <1>4, <1>5, <2>1, <2>2, <2>3 DEF Joins
<1>8. ASSUME Safe(l, cut) PROVE Within(r)
  <2> SUFFICES ASSUME NEW k \in 1..size, IsRevert(r[k]) PROVE r[k].revert < k
    BY <1>4 DEF Within
  <2>1. cut + k \in cut + 1 .. Len(l) /\ r[k] = l[cut + k].mutation
    BY <1>1, <1>2, <1>3
  <2>2. r[k].revert < (cut + k) - cut
    BY <1>8, <2>1 DEF Safe
  <2>3. QED
    BY <1>1, <2>2
<1>9. QED
  BY <1>4, <1>5, <1>6, <1>7, <1>8 DEF a, h

\* What collapseMutations makes of a draft and the mutations after it: the page
\* of the version asked for, or the latest if there are not so many.
LEMMA CollapseOntoShows ==
  ASSUME LogInv, NumberedInOrder, PageInv, NEW d, Stands(d, log),
         NEW v \in Nat, d.version <= v,
         NEW m \in Nat, m = IF v < Len(log) THEN v ELSE Len(log)
  PROVE  Shows(CollapseOnto(d, v), log, m)
<1>1. /\ Len(log) \in Nat /\ d.version \in 0 .. Len(log)
      /\ \A i \in 1..Len(log) : IsMutation(log[i].mutation)
  BY LogBounded DEF Stands, PageInv
<1>2. CASE d.version = v
  <2>1. CollapseOnto(d, v) = d.mutations /\ m = d.version
    BY <1>1, <1>2 DEF CollapseOnto
  <2>2. QED
    BY <2>1 DEF Stands
<1>3. CASE d.version # v
  <2> DEFINE size == m - d.version
             r == MutationsInRange(d.version + 1, v)
  <2>1. /\ size \in Nat /\ d.version \in Nat /\ d.version < v
        /\ d.version + size <= Len(log) /\ d.version + size <= v
        /\ d.version + size = v \/ d.version + size = Len(log)
        /\ m \in 0 .. Len(log) /\ d.version \in 0 .. m /\ size = m - d.version
    BY <1>1, <1>3
  <2> HIDE DEF size
  <2>2. r = [k \in 1..size |-> log[d.version + k].mutation]
    BY <2>1, RangeIsSlice
  <2> HIDE DEF r
  <2>3. /\ IsHistory(r) /\ IsHistory(Prefix(log, m)) /\ IsHistory(Prefix(log, d.version))
        /\ Joins(Prefix(log, m), Prefix(log, d.version), r)
        /\ Within(r)
    BY <1>1, <2>1, <2>2, SliceJoins DEF Stands
  <2>4. IsDraft(d.mutations) /\ Elements(d.mutations) = Page(Prefix(log, d.version))
    BY DEF Stands, Shows
  <2>5. /\ IsDraft(Collapse(d.mutations \o r))
        /\ Elements(Collapse(d.mutations \o r)) = Page(Prefix(log, m))
    BY <2>3, <2>4, Checkpoint
  <2>6. CollapseOnto(d, v) = Collapse(d.mutations \o r)
    BY <1>3 DEF CollapseOnto, r
  <2>7. QED
    BY <2>5, <2>6 DEF Shows
<1>4. QED
  BY <1>2, <1>3

\* What the service answers for a version, and for the latest.
LEMMA VersionPageShown ==
  ASSUME LogInv, NumberedInOrder, PageInv, NEW v \in Nat,
         NEW m \in Nat, m = IF v < Len(log) THEN v ELSE Len(log)
  PROVE  VersionPage(v) = Page(Prefix(log, m))
<1> DEFINE d == LatestDraft(v)
<1>1. Known(d, drafts) /\ d.version <= v
  BY LatestDraftFound
<1> HIDE DEF d
<1>2. Stands(d, log)
  BY <1>1, KnownStands
<1>3. Shows(CollapseOnto(d, v), log, m)
  BY <1>1, <1>2, CollapseOntoShows
<1>4. QED
  BY <1>3 DEF Shows, VersionPage, d

-----------------------------------------------------------------------------
(* What the steps do to the page. *)

LEMMA IdleServes ==
  \A l, ds, p : Serves(Idle, l, ds) /\ InRole(p, Idle)
<1>1. Idle.pc = "idle" /\ Idle.label = 0
  BY DEF Idle
<1>2. QED
  BY <1>1, Zenon DEF Serves, InRole, Updating, Saving, Reading, Mutating, Collapsing

\* Goroutine p moves on, without a change to the collections.
LEMMA PageKept ==
  ASSUME LogInv, PageInv, NEW p \in Procs, NEW r, proc' = [proc EXCEPT ![p] = r],
         UNCHANGED <<log, drafts, swept, acked>>, Serves(r, log, drafts), InRole(p, r)
  PROVE  PageInv'
<1>1. DOMAIN proc = Procs
  BY DEF LogInv, ProcsShaped
<1>2. \A q \in Procs : proc'[q] = r \/ proc'[q] = proc[q]
  BY <1>1
<1>3. \A q \in Procs : Serves(proc'[q], log, drafts) /\ InRole(q, proc'[q])
  <2> SUFFICES ASSUME NEW q \in Procs
               PROVE  Serves(proc'[q], log, drafts) /\ InRole(q, proc'[q])
    OBVIOUS
  <2>1. CASE q = p
    BY <1>1, <2>1
  <2>2. CASE q # p
    BY <1>1, <2>2 DEF PageInv
  <2>3. QED
    BY <2>1, <2>2
<1>4. QED
  BY <1>3 DEF PageInv

\* A log k that is one mutation longer than l.
Extends(k, l) ==
  /\ Len(l) \in Nat /\ Len(k) = Len(l) + 1
  /\ \A i \in 1..Len(l) : k[i] = l[i]

LEMMA PrefixKept ==
  ASSUME NEW k, NEW l, Extends(k, l), NEW n \in 0 .. Len(l)
  PROVE  Prefix(k, n) = Prefix(l, n)
BY DEF Extends, Prefix

\* The mutation at its end does not reach version v.
LEMMA SafeGrows ==
  ASSUME NEW k, NEW l, Extends(k, l), NEW v \in 0 .. Len(l), Safe(l, v),
         NEW m, m = k[Len(l) + 1].mutation, IsMutation(m),
         IsRevert(m) => m.revert <= Len(l) - v
  PROVE  Safe(k, v)
<1> SUFFICES ASSUME NEW i \in v + 1 .. Len(k), IsRevert(k[i].mutation)
             PROVE  k[i].mutation.revert < i - v
  BY DEF Safe
<1>1. CASE i = Len(l) + 1
  <2>1. m.revert \in Nat /\ m.revert <= Len(l) - v
    BY <1>1 DEF IsMutation
  <2>2. QED
    BY <1>1, <2>1 DEF Extends
<1>2. CASE i # Len(l) + 1
  <2>1. i \in v + 1 .. Len(l) /\ i \in 1..Len(l)
    BY <1>2 DEF Extends
  <2>2. QED
    BY <2>1 DEF Safe, Extends
<1>3. QED
  BY <1>1, <1>2

\* A mutation m at the end of a log that no stored draft is reached by.
LEMMA PageGrows ==
  ASSUME LogInv, PageInv, NEW l, Len(l) = Len(log) + 1,
         \A i \in 1..Len(log) : l[i] = log[i],
         NEW m, m = l[Len(log) + 1].mutation, IsMutation(m),
         IsRevert(m) => /\ m.revert <= Len(log)
                        /\ \A j \in 1..Len(drafts) : m.revert <= Len(log) - drafts[j].version
  PROVE  /\ \A n \in 0 .. Len(log) : Prefix(l, n) = Prefix(log, n)
         /\ \A i \in 1..Len(l) : IsMutation(l[i].mutation)
         /\ Safe(l, 0)
         /\ \A j \in 1..Len(drafts) : Stands(drafts[j], l)
<1>1. Len(log) \in Nat /\ Len(l) \in Nat
  BY LogBounded
<1>2. ASSUME NEW n \in 0 .. Len(log) PROVE Prefix(l, n) = Prefix(log, n)
  BY <1>1, PrefixKept DEF Extends
<1>3. ASSUME NEW i \in 1..Len(l) PROVE IsMutation(l[i].mutation)
  <2>1. CASE i = Len(log) + 1
    BY <2>1
  <2>2. CASE i # Len(log) + 1
    <3>1. i \in 1..Len(log)
      BY <1>1, <2>2
    <3>2. QED
      BY <3>1 DEF PageInv
  <2>3. QED
    BY <2>1, <2>2
<1>4. ASSUME NEW v \in 0 .. Len(log), Safe(log, v),
             IsRevert(m) => m.revert <= Len(log) - v
      PROVE  Safe(l, v)
  <2>1. Extends(l, log)
    BY <1>1 DEF Extends
  <2>2. QED
    BY <1>4, <2>1, SafeGrows
<1>5. Safe(l, 0)
  <2>1. 0 \in 0 .. Len(log) /\ (IsRevert(m) => m.revert <= Len(log) - 0)
    BY <1>1
  <2>2. Safe(log, 0)
    BY DEF PageInv
  <2>3. QED
    BY <1>4, <2>1, <2>2
<1>6. ASSUME NEW j \in 1..Len(drafts) PROVE Stands(drafts[j], l)
  <2>1. Stands(drafts[j], log)
    BY DEF PageInv
  <2>2. drafts[j].version \in 0 .. Len(log) /\ drafts[j].version \in 0 .. Len(l)
    BY <1>1, <2>1 DEF Stands
  <2>3. Safe(l, drafts[j].version)
    BY <1>4, <2>1, <2>2 DEF Stands
  <2>4. Shows(drafts[j].mutations, l, drafts[j].version)
    BY <1>2, <2>1, <2>2 DEF Stands, Shows
  <2>5. QED
    BY <2>2, <2>3, <2>4 DEF Stands
<1>7. QED
  BY <1>2, <1>3, <1>5, <1>6

\* Nobody else is at a mutation, nor about to store a draft.
LEMMA OtherwiseReading ==
  ASSUME Serial, LogInv, PageInv, NEW p \in Writers, NEW q \in Procs, q # p
  PROVE  ~Mutating(proc[q]) /\ ~Saving(proc[q])
BY DEF Serial, OneWriter, PageInv, InRole

\* A request that does not mutate is served on when the collections grow.
LEMMA ServedOn ==
  ASSUME NEW r, NEW l, NEW k, NEW ds, NEW es, Serves(r, l, ds),
         ~Mutating(r), ~Saving(r),
         r.upto \in Nat, Len(l) \in Nat, Len(k) \in Nat, Len(l) <= Len(k), Len(ds) \in Nat,
         Len(es) \in Nat, Len(ds) <= Len(es), \A j \in 1..Len(ds) : es[j] = ds[j],
         \A n \in 0 .. Len(l) : Prefix(k, n) = Prefix(l, n)
  PROVE  Serves(r, k, es)
<1>1. /\ ~Updating(r) /\ r.pc \notin {"merge", "save", "number", "insert"}
  BY DEF Mutating, Saving, Updating
<1>2. r.pc = "range" => Known(r.draft, es) /\ r.draft.version < r.upto
  <2>1. ASSUME Known(r.draft, ds) PROVE Known(r.draft, es)
    BY <2>1 DEF Known
  <2>2. QED
    BY <2>1, Zenon DEF Serves
<1>3. r.pc = "label" => ShowsMoment(r, k)
  <2> SUFFICES ASSUME r.pc = "label" PROVE ShowsMoment(r, k)
    OBVIOUS
  <2>1. r.start \in 0 .. Len(l) /\ ShowsMoment(r, l)
    BY DEF Serves, Reading
  <2>2. PICK n \in r.start .. Len(l) :
          Elements(r.page) = Page(Prefix(l, IF r.upto < n THEN r.upto ELSE n))
    BY <2>1 DEF ShowsMoment
  <2>3. n \in r.start .. Len(k)
    BY <2>1
  <2> DEFINE m == IF r.upto < n THEN r.upto ELSE n
  <2>4. Prefix(k, m) = Prefix(l, m)
    <3>1. Prefix(k, n) = Prefix(l, n) /\ n \in Nat
      BY <2>1
    <3>2. m = n \/ r.upto < n
      OBVIOUS
    <3>3. ASSUME r.upto < n PROVE Prefix(k, r.upto) = Prefix(l, r.upto)
      BY <2>1, <3>3
    <3>4. QED
      BY <3>1, <3>3
  <2>5. QED
    BY <2>2, <2>3, <2>4 DEF ShowsMoment
<1>4. Reading(r) => r.start \in 0 .. Len(k)
  <2>1. Reading(r) => r.start \in 0 .. Len(l)
    BY Zenon DEF Serves
  <2>2. QED
    BY <2>1
<1>5. r.pc # "reply" => r.label = 0
  BY Zenon DEF Serves
<1>6. QED
  BY <1>1, <1>2, <1>3, <1>4, <1>5, Zenon DEF Serves

\* The mutation of goroutine p is stored; p goes on with request r.
LEMMA PageStores ==
  ASSUME Serial, LogInv, NumberedInOrder, PageInv, NEW p \in Procs,
         At(p, "insert"), Store(p), NEW r, proc' = [proc EXCEPT ![p] = r],
         Serves(r, log', drafts), InRole(p, r), UNCHANGED <<drafts, swept>>,
         acked' = acked \/ acked' = acked \cup {[version |-> proc[p].upto,
                                                 mutation |-> proc[p].new]}
  PROVE  PageInv'
<1> DEFINE old == proc[p]
           n == Len(log)
<1>1. /\ DOMAIN proc = Procs /\ IsSequence(log) /\ n \in Nat /\ Len(drafts) \in Nat
      /\ p \in Writers /\ old.upto = n + 1 /\ Applies(old, log, drafts)
  <2>1. Serves(old, log, drafts) /\ InRole(p, old) /\ old.pc = "insert"
    BY DEF PageInv, At
  <2>2. Applies(old, log, drafts) /\ p \in Writers
    BY <2>1, Zenon DEF Serves, InRole, Mutating
  <2>3. QED
    BY <2>1, <2>2, SequenceDomain DEF LogInv, ProcsShaped, NumberedInOrder
<1>2. /\ Len(log') = n + 1
      /\ \A i \in 1..n : log'[i] = log[i]
      /\ log'[n + 1] = [version |-> old.upto, mutation |-> old.new]
  BY <1>1, AppendSequence DEF Store
<1>3. /\ old.new = log'[n + 1].mutation /\ IsMutation(old.new)
      /\ IsRevert(old.new) => /\ old.new.revert <= n
                              /\ \A j \in 1..Len(drafts) : old.new.revert <= n - drafts[j].version
  <2>1. log'[n + 1].mutation = old.new
    BY <1>2
  <2>2. QED
    BY <1>1, <2>1, Zenon DEF Applies, n
<1>4. /\ \A k \in 0 .. n : Prefix(log', k) = Prefix(log, k)
      /\ \A i \in 1..Len(log') : IsMutation(log'[i].mutation)
      /\ Safe(log', 0)
      /\ \A j \in 1..Len(drafts) : Stands(drafts[j], log')
  <2> HIDE DEF old
  <2> QED BY <1>1, <1>2, <1>3, PageGrows
<1>5. ASSUME NEW q \in Procs
      PROVE  Serves(proc'[q], log', drafts) /\ InRole(q, proc'[q])
  <2>1. CASE q = p
    BY <1>1, <2>1
  <2>2. CASE q # p
    <3>1. proc'[q] = proc[q] /\ ~Mutating(proc[q]) /\ ~Saving(proc[q])
      BY <1>1, <2>2, OtherwiseReading
    <3>2. Serves(proc[q], log, drafts) /\ InRole(q, proc[q])
      BY DEF PageInv
    <3>3. proc[q].upto \in Nat
      BY DraftLogAssumption DEF LogInv, Carries, MaxInt
    <3>4. Serves(proc[q], log', drafts)
      BY <1>1, <1>2, <1>4, <3>1, <3>2, <3>3, ServedOn
    <3>5. QED
      BY <3>1, <3>2, <3>4
  <2>3. QED
    BY <2>1, <2>2
<1>6. \A a \in acked' : a.version \in 1..Len(log') /\ a.mutation = log'[a.version].mutation
  <2>1. ASSUME NEW a \in acked
        PROVE  a.version \in 1..Len(log') /\ a.mutation = log'[a.version].mutation
    <3>1. a.version \in 1..n /\ a.mutation = log[a.version].mutation
      BY DEF PageInv
    <3>2. QED
      BY <1>1, <1>2, <3>1
  <2>2. ASSUME NEW a, a = [version |-> old.upto, mutation |-> old.new]
        PROVE  a.version \in 1..Len(log') /\ a.mutation = log'[a.version].mutation
    <3>1. a.version = n + 1 /\ a.mutation = old.new
      BY <1>1, <2>2
    <3>2. n + 1 \in 1..Len(log')
      BY <1>1, <1>2
    <3>3. QED
      BY <1>3, <3>1, <3>2
  <2>3. QED
    BY <2>1, <2>2
<1>7. swept'.drafts = 0
  BY DEF PageInv
<1>8. QED
  BY <1>4, <1>5, <1>6, <1>7 DEF PageInv

LEMMA InsertPage ==
  ASSUME Serial, LogInv, NumberedInOrder, PageInv, NEW p \in Procs,
         InsertMutation(p) \/ InsertUnanswered(p)
  PROVE  PageInv'
<1> DEFINE old == proc[p]
           r == [old EXCEPT !.pc = "draft", !.next = "save"]
<1>1. At(p, "insert") /\ Store(p) /\ UNCHANGED <<drafts, swept>>
  BY DEF InsertMutation, InsertUnanswered
<1>2. /\ Shaped(old) /\ old.pc = "insert" /\ old.upto = Len(log) + 1 /\ p \in Writers
      /\ old.label = 0 /\ IsSequence(log)
  <2>1. Serves(old, log, drafts) /\ InRole(p, old) /\ old.pc = "insert"
    BY <1>1 DEF PageInv, At
  <2>2. old.label = 0 /\ p \in Writers
    BY <2>1, Zenon DEF Serves, InRole, Mutating
  <2>3. QED
    BY <2>1, <2>2 DEF LogInv, ProcsShaped, NumberedInOrder
<1>3. CASE proc' = [proc EXCEPT ![p] = Idle]
  <2>1. acked' = acked \/ acked' = acked \cup {[version |-> old.upto, mutation |-> old.new]}
    BY DEF InsertMutation, InsertUnanswered, Reply
  <2>2. QED
    BY <1>1, <1>3, <2>1, IdleServes, PageStores
<1>4. CASE proc' = [proc EXCEPT ![p] = r] /\ UNCHANGED acked
  <2>1. /\ r.pc = "draft" /\ r.next = "save" /\ r.upto = old.upto /\ r.new = old.new
        /\ r.label = 0
    BY <1>2 DEF Shaped, Fields
  <2>2. Len(log') = Len(log) + 1 /\ log'[Len(log) + 1].mutation = old.new
    BY <1>1, <1>2, AppendSequence DEF Store
  <2> HIDE DEF r
  <2>3. r.upto = Len(log') /\ r.new = log'[Len(log')].mutation
    BY <1>2, <2>1, <2>2
  <2>4. Serves(r, log', drafts) /\ InRole(p, r)
    BY <1>2, <2>1, <2>3 DEF Serves, InRole, Updating, Saving, Reading, Mutating, Collapsing
  <2>5. QED
    BY <1>1, <1>4, <2>4, PageStores
<1>5. QED
  BY <1>3, <1>4 DEF InsertMutation, InsertUnanswered, Return

LEMMA SavePage ==
  ASSUME Serial, LogInv, PageInv, NEW p \in Procs, SaveDraft(p)
  PROVE  PageInv'
<1> DEFINE old == proc[p]
           new == [version |-> old.upto, mutations |-> old.page]
           n == Len(drafts)
<1>1. /\ DOMAIN proc = Procs /\ IsSequence(drafts) /\ n \in Nat /\ Len(log) \in Nat
      /\ old.upto = Len(log) /\ old.new = log[Len(log)].mutation
      /\ Shows(old.page, log, Len(log)) /\ p \in Writers /\ Len(log) # 0
  <2>1. /\ Serves(old, log, drafts) /\ InRole(p, old) /\ old.pc = "save"
        /\ Carries(old, Len(log))
    BY DEF PageInv, SaveDraft, At, LogInv
  <2>2. /\ old.upto = Len(log) /\ old.new = log[Len(log)].mutation
        /\ Shows(old.page, log, Len(log)) /\ p \in Writers
    BY <2>1, Zenon DEF Serves, InRole, Saving
  <2>3. old.upto # 0
    BY <2>1, Zenon DEF Carries
  <2>4. QED
    BY <2>2, <2>3, SequenceDomain DEF LogInv, ProcsShaped
<1>2. /\ Len(drafts') = n + 1
      /\ \A j \in 1..n : drafts'[j] = drafts[j]
      /\ drafts'[n + 1] = new
  BY <1>1, AppendSequence DEF SaveDraft
<1>3. /\ proc' = [proc EXCEPT ![p] = Idle] /\ UNCHANGED <<log, swept>>
      /\ acked' = acked \cup {[version |-> old.upto, mutation |-> old.new]}
  BY DEF SaveDraft, Return, Reply
<1>4. Stands(new, log)
  <2>1. new.version = Len(log) /\ new.mutations = old.page
    BY <1>1
  <2>2. Safe(log, Len(log))
    BY <1>1 DEF Safe
  <2>3. QED
    BY <1>1, <2>1, <2>2 DEF Stands
<1>5. \A j \in 1..Len(drafts') : Stands(drafts'[j], log)
  <2> SUFFICES ASSUME NEW j \in 1..Len(drafts') PROVE Stands(drafts'[j], log)
    OBVIOUS
  <2>1. CASE j = n + 1
    BY <1>2, <1>4, <2>1
  <2>2. CASE j # n + 1
    <3>1. j \in 1..n
      BY <1>1, <1>2, <2>2
    <3>2. QED
      BY <1>2, <3>1 DEF PageInv
  <2>3. QED
    BY <2>1, <2>2
<1>6. ASSUME NEW q \in Procs
      PROVE  Serves(proc'[q], log, drafts') /\ InRole(q, proc'[q])
  <2>1. CASE q = p
    BY <1>1, <1>3, <2>1, IdleServes
  <2>2. CASE q # p
    <3>1. proc'[q] = proc[q] /\ ~Mutating(proc[q]) /\ ~Saving(proc[q])
      BY <1>1, <1>3, <2>2, OtherwiseReading
    <3>2. Serves(proc[q], log, drafts) /\ InRole(q, proc[q])
      BY DEF PageInv
    <3>3. proc[q].upto \in Nat
      BY DraftLogAssumption DEF LogInv, Carries, MaxInt
    <3>4. Len(drafts) <= Len(drafts') /\ Len(drafts') \in Nat
      BY <1>1, <1>2
    <3>5. Serves(proc[q], log, drafts')
      BY <1>1, <1>2, <3>1, <3>2, <3>3, <3>4, ServedOn
    <3>6. QED
      BY <3>1, <3>2, <3>5
  <2>3. QED
    BY <2>1, <2>2
<1>7. \A a \in acked' : a.version \in 1..Len(log) /\ a.mutation = log[a.version].mutation
  <2>1. \A a \in acked : a.version \in 1..Len(log) /\ a.mutation = log[a.version].mutation
    BY DEF PageInv
  <2>2. Len(log) \in 1..Len(log)
    BY <1>1
  <2>3. QED
    BY <1>1, <1>3, <2>1, <2>2
<1>8. QED
  BY <1>3, <1>5, <1>6, <1>7 DEF PageInv

\* The update of an element: the version to collapse up to is the last one.
LEMMA EffectivePage ==
  ASSUME LogInv, NumberedInOrder, PageInv, NEW p \in Procs, EffectiveVersion(p)
  PROVE  PageInv'
<1> DEFINE old == proc[p]
           r == [old EXCEPT !.upto = LatestVersion, !.pc = "draft", !.next = "merge"]
<1>1. /\ Shaped(old) /\ old.pc = "latest" /\ Serves(old, log, drafts) /\ InRole(p, old)
      /\ LatestVersion = Len(log)
  BY LatestIsLength DEF LogInv, ProcsShaped, PageInv, EffectiveVersion, At
<1>2. proc' = [proc EXCEPT ![p] = r] /\ UNCHANGED <<log, drafts, swept, acked>>
  BY DEF EffectiveVersion
<1>3. /\ r.pc = "draft" /\ r.next = "merge" /\ r.upto = Len(log) /\ r.op = old.op
      /\ r.label = old.label
  BY <1>1 DEF Shaped, Fields
<1> HIDE DEF r, old
<1>4. Serves(r, log, drafts) /\ InRole(p, r)
  BY <1>1, <1>3 DEF Serves, InRole, Updating, Saving, Reading, Mutating, Collapsing
<1>5. QED
  BY <1>2, <1>4, PageKept

\* A request r that has collapsed the log, as old asked for: the page is that
\* of the version, or the latest.
LEMMA CollapsedPage ==
  ASSUME LogInv, PageInv, NEW p \in Procs, NEW old, old = proc[p], Collapsing(old),
         NEW m \in Nat, m = IF old.upto < Len(log) THEN old.upto ELSE Len(log),
         NEW r, Shows(r.page, log, m), r.pc = old.next, r.op = old.op, r.new = old.new,
         r.upto = old.upto, r.start = old.start, r.label = old.label
  PROVE  Serves(r, log, drafts) /\ InRole(p, r)
<1>1. /\ Serves(old, log, drafts) /\ InRole(p, old) /\ Len(log) \in Nat
      /\ old.next \in {"merge", "save", "label"} /\ old.upto \in Nat
      /\ old.pc \in {"draft", "range"}
  BY LogBounded, DraftLogAssumption DEF PageInv, LogInv, Carries, MaxInt, Collapsing
<1>2. old.label = 0
  BY <1>1 DEF Serves
<1>3. CASE old.next = "merge"
  <2>1. Updating(old) /\ Mutating(old) /\ old.pc # "latest"
    BY <1>1, <1>3 DEF Updating, Mutating, Collapsing
  <2>2. old.upto = Len(log) /\ old.op \in Ops /\ old.op.kind = "update" /\ p \in Writers
    BY <1>1, <2>1, Zenon DEF Serves, InRole
  <2>3. Shows(r.page, log, Len(log)) /\ r.pc = "merge"
    BY <1>1, <1>3, <2>2
  <2>4. QED
    BY <1>2, <2>2, <2>3
       DEF Serves, InRole, Updating, Saving, Reading, Mutating, Collapsing
<1>4. CASE old.next = "save"
  <2>1. Saving(old)
    BY <1>1, <1>4 DEF Saving, Collapsing
  <2>2. old.upto = Len(log) /\ old.new = log[Len(log)].mutation /\ p \in Writers
    BY <1>1, <2>1, Zenon DEF Serves, InRole
  <2>3. Shows(r.page, log, Len(log)) /\ r.pc = "save"
    BY <1>1, <1>4, <2>2
  <2>4. QED
    BY <1>2, <2>2, <2>3
       DEF Serves, InRole, Updating, Saving, Reading, Mutating, Collapsing
<1>5. CASE old.next = "label"
  <2>1. Reading(old)
    BY <1>1, <1>5 DEF Reading, Collapsing
  <2>2. old.start \in 0 .. Len(log) /\ p \in Readers
    BY <1>1, <2>1, Zenon DEF Serves, InRole
  <2>3. ShowsMoment(r, log)
    <3>1. Len(log) \in r.start .. Len(log)
      BY <1>1, <2>2
    <3>2. Elements(r.page)
            = Page(Prefix(log, IF r.upto < Len(log) THEN r.upto ELSE Len(log)))
      BY DEF Shows
    <3>3. QED
      BY <3>1, <3>2 DEF ShowsMoment
  <2>4. r.pc = "label" /\ r.start \in 0 .. Len(log)
    BY <1>5, <2>2
  <2>5. QED
    BY <1>2, <2>2, <2>3, <2>4
       DEF Serves, InRole, Updating, Saving, Reading, Mutating, Collapsing
<1>6. QED
  BY <1>1, <1>3, <1>4, <1>5

LEMMA CollapseDraftPage ==
  ASSUME LogInv, NumberedInOrder, PageInv, NEW p \in Procs, CollapseDraft(p)
  PROVE  PageInv'
<1> DEFINE old == proc[p]
           draft == LatestDraft(old.upto)
           done == [old EXCEPT !.page = draft.mutations, !.pc = old.next]
           rest == [old EXCEPT !.draft = draft, !.pc = "range"]
<1>1. /\ Shaped(old) /\ old.pc = "draft" /\ old.upto \in Nat /\ Len(log) \in Nat
      /\ Serves(old, log, drafts) /\ InRole(p, old) /\ UNCHANGED <<log, drafts, swept, acked>>
  BY LogBounded, DraftLogAssumption
     DEF LogInv, ProcsShaped, PageInv, Carries, MaxInt, CollapseDraft, At
<1>2. Known(draft, drafts) /\ draft.version <= old.upto
  <2> HIDE DEF old
  <2> QED BY <1>1, LatestDraftFound
<1>3. Stands(draft, log) /\ draft.version \in 0 .. Len(log)
  BY <1>2, KnownStands
<1>4. CASE draft.version = old.upto
  <2>1. proc' = [proc EXCEPT ![p] = done]
    BY <1>4 DEF CollapseDraft
  <2>2. /\ done.page = draft.mutations /\ done.pc = old.next /\ done.op = old.op
        /\ done.new = old.new /\ done.upto = old.upto /\ done.start = old.start
        /\ done.label = old.label
    BY <1>1 DEF Shaped, Fields
  <2> DEFINE m == IF old.upto < Len(log) THEN old.upto ELSE Len(log)
  <2>3. m \in Nat /\ m = draft.version /\ Collapsing(old)
    BY <1>1, <1>3, <1>4 DEF Collapsing
  <2> HIDE DEF done, draft
  <2>4. Shows(done.page, log, m)
    BY <1>3, <2>2, <2>3 DEF Stands
  <2>5. Serves(done, log, drafts) /\ InRole(p, done)
    BY <2>2, <2>3, <2>4, CollapsedPage
  <2>6. QED
    BY <1>1, <2>1, <2>5, PageKept
<1>5. CASE draft.version # old.upto
  <2>1. proc' = [proc EXCEPT ![p] = rest]
    BY <1>5 DEF CollapseDraft
  <2>2. /\ rest.draft = draft /\ rest.pc = "range" /\ rest.op = old.op /\ rest.next = old.next
        /\ rest.new = old.new /\ rest.upto = old.upto /\ rest.start = old.start
        /\ rest.label = old.label
    BY <1>1 DEF Shaped, Fields
  <2>3. draft.version < old.upto
    BY <1>1, <1>2, <1>3, <1>5
  <2> HIDE DEF rest, draft, old
  <2>4. Serves(rest, log, drafts) /\ InRole(p, rest)
    BY <1>1, <1>2, <2>2, <2>3
       DEF Serves, InRole, Updating, Saving, Reading, Mutating, Collapsing
  <2>5. QED
    BY <1>1, <2>1, <2>4, PageKept
<1>6. QED
  BY <1>4, <1>5

LEMMA CollapseRangePage ==
  ASSUME LogInv, NumberedInOrder, PageInv, NEW p \in Procs, CollapseRange(p)
  PROVE  PageInv'
<1> DEFINE old == proc[p]
           r == [old EXCEPT !.page = CollapseOnto(old.draft, old.upto), !.draft = NoDraft,
                            !.pc = old.next]
           m == IF old.upto < Len(log) THEN old.upto ELSE Len(log)
<1>1. /\ Shaped(old) /\ old.pc = "range" /\ old.upto \in Nat /\ Len(log) \in Nat
      /\ Serves(old, log, drafts) /\ UNCHANGED <<log, drafts, swept, acked>>
      /\ proc' = [proc EXCEPT ![p] = r]
  BY LogBounded, DraftLogAssumption
     DEF LogInv, ProcsShaped, PageInv, Carries, MaxInt, CollapseRange, At
<1>2. Known(old.draft, drafts) /\ old.draft.version < old.upto
  BY <1>1, Zenon DEF Serves
<1>3. Stands(old.draft, log) /\ old.draft.version \in 0 .. Len(log)
  BY <1>2, KnownStands
<1>4. m \in Nat /\ old.draft.version <= old.upto
  BY <1>1, <1>2, <1>3
<1>5. /\ r.page = CollapseOnto(old.draft, old.upto) /\ r.pc = old.next /\ r.op = old.op
      /\ r.new = old.new /\ r.upto = old.upto /\ r.start = old.start /\ r.label = old.label
  BY <1>1 DEF Shaped, Fields
<1> HIDE DEF r
<1>6. Shows(r.page, log, m)
  BY <1>1, <1>3, <1>4, <1>5, CollapseOntoShows
<1>7. Collapsing(old)
  BY <1>1 DEF Collapsing
<1>8. Serves(r, log, drafts) /\ InRole(p, r)
  BY <1>4, <1>5, <1>6, <1>7, CollapsedPage
<1>9. QED
  BY <1>1, <1>8, PageKept

LEMMA MergePage ==
  ASSUME LogInv, PageInv, NEW p \in Procs, MergeFields(p)
  PROVE  PageInv'
<1> DEFINE old == proc[p]
           With(m) == [old EXCEPT !.new = Content(m.id, Merge(m.val, old.op.val)),
                                  !.page = <<>>, !.pc = "number"]
<1>1. /\ Shaped(old) /\ old.pc = "merge" /\ Serves(old, log, drafts) /\ InRole(p, old)
      /\ UNCHANGED <<log, drafts, swept, acked>>
  BY DEF LogInv, ProcsShaped, PageInv, MergeFields, At
<1>2. PICK m \in Elements(old.page) :
        m.id = old.op.id /\ proc' = [proc EXCEPT ![p] = With(m)]
  BY DEF MergeFields
<1> DEFINE r == With(m)
<1>3. /\ r.new = Content(m.id, Merge(m.val, r.op.val)) /\ r.op = old.op /\ r.pc = "number"
      /\ r.label = old.label
  BY <1>1 DEF Shaped, Fields
<1>4. proc' = [proc EXCEPT ![p] = r]
  BY <1>2
<1> HIDE DEF r, old
<1>5. /\ Shows(old.page, log, Len(log)) /\ old.label = 0 /\ p \in Writers
      /\ old.op \in Ops /\ old.op.kind = "update"
  BY <1>1, Zenon DEF Serves, InRole, Updating, Mutating
<1>6. m \in Page(Prefix(log, Len(log))) /\ m.id # NoElem
  BY <1>2, <1>5, DraftLogAssumption DEF Shows, OpTyped
<1>7. IsMutation(r.new) /\ ~IsRevert(r.new)
  BY <1>3, <1>6 DEF Content, IsMutation, IsElement, IsRevert
<1>8. Applies(r, log, drafts)
  BY <1>2, <1>3, <1>5, <1>6, <1>7, Zenon DEF Applies
<1>9. Serves(r, log, drafts) /\ InRole(p, r)
  BY <1>3, <1>5, <1>8 DEF Serves, InRole, Updating, Saving, Reading, Mutating, Collapsing
<1>10. QED
  BY <1>1, <1>4, <1>9, PageKept

LEMMA NumberPage ==
  ASSUME LogInv, PageInv, NEW p \in Procs, NumberMutation(p)
  PROVE  PageInv'
<1> DEFINE old == proc[p]
           r == [old EXCEPT !.upto = LatestVersion + 1, !.pc = "insert"]
<1>1. /\ Shaped(old) /\ old.pc = "number" /\ Serves(old, log, drafts) /\ InRole(p, old)
      /\ UNCHANGED <<log, drafts, swept, acked>> /\ proc' = [proc EXCEPT ![p] = r]
  BY DEF LogInv, ProcsShaped, PageInv, NumberMutation, At
<1>2. r.pc = "insert" /\ r.op = old.op /\ r.new = old.new /\ r.label = old.label
  BY <1>1 DEF Shaped, Fields
<1> HIDE DEF r, old
<1>3. Applies(old, log, drafts) /\ old.label = 0 /\ p \in Writers
  BY <1>1 DEF Serves, InRole, Mutating
<1>4. Applies(r, log, drafts)
  BY <1>2, <1>3, Zenon DEF Applies
<1>5. Serves(r, log, drafts) /\ InRole(p, r)
  BY <1>2, <1>3, <1>4 DEF Serves, InRole, Updating, Saving, Reading, Mutating, Collapsing
<1>6. QED
  BY <1>1, <1>5, PageKept

LEMMA LabelPage ==
  ASSUME LogInv, PageInv, NEW p \in Procs, Label(p)
  PROVE  PageInv'
<1> DEFINE old == proc[p]
           version == IF old.upto = MaxInt THEN LatestVersion ELSE old.upto
           r == [old EXCEPT !.label = version, !.pc = "reply"]
<1>1. /\ Shaped(old) /\ old.pc = "label" /\ Serves(old, log, drafts) /\ InRole(p, old)
      /\ UNCHANGED <<log, drafts, swept, acked>> /\ proc' = [proc EXCEPT ![p] = r]
  BY DEF LogInv, ProcsShaped, PageInv, Label, At
<1>2. r.pc = "reply" /\ r.start = old.start
  BY <1>1 DEF Shaped, Fields
<1> HIDE DEF r, old
<1>3. old.start \in 0 .. Len(log) /\ p \in Readers
  BY <1>1, Zenon DEF Serves, InRole, Reading
<1>4. Serves(r, log, drafts) /\ InRole(p, r)
  BY <1>2, <1>3 DEF Serves, InRole, Updating, Saving, Reading, Mutating, Collapsing
<1>5. QED
  BY <1>1, <1>4, PageKept

\* A client that reverts only what came after the last stored draft.
LEMMA MutationApplies ==
  ASSUME Serial, Shallow, LogInv, NumberedInOrder, PageInv, NEW op \in Ops,
         op.kind # "update", WithinDraft(op),
         NEW r, r.op = op, r.new = Mutation(op)
  PROVE  Applies(r, log, drafts)
<1>1. OpTyped(op) /\ Len(log) \in 0 .. MaxLog /\ MaxInt \in Nat
  BY LogBounded, DraftLogAssumption DEF MaxInt
<1>2. CASE op.kind = "revert"
  <2> DEFINE d == LatestDraft(MaxInt)
  <2>1. /\ Known(d, drafts)
        /\ \A j \in 1..Len(drafts) : drafts[j].version <= MaxInt => drafts[j].version <= d.version
    BY <1>1, LatestDraftFound
  <2>2. d.version \in 0 .. Len(log)
    BY <2>1, KnownStands
  <2>3. op.count \in Nat \ {0} /\ op.count <= Len(log) - d.version
    BY <1>1, <1>2, LatestIsLength DEF OpTyped, WithinDraft
  <2> HIDE DEF d
  <2>4. ASSUME NEW j \in 1..Len(drafts)
        PROVE  op.count <= Len(log) - drafts[j].version
    <3>1. drafts[j].version \in 0 .. Len(log)
      BY DEF PageInv, Stands
    <3>2. drafts[j].version <= d.version
      BY <1>1, <2>1, <3>1, DraftLogAssumption DEF MaxInt
    <3>3. QED
      BY <1>1, <2>2, <2>3, <3>1, <3>2
  <2>5. r.new = Reversion(op.count)
    BY <1>2 DEF Mutation
  <2>6. IsMutation(r.new) /\ r.new.revert = op.count
    BY <2>3, <2>5 DEF Reversion, IsMutation, IsElement
  <2>7. op.count <= Len(log)
    BY <1>1, <2>2, <2>3
  <2>8. QED
    BY <2>4, <2>6, <2>7 DEF Applies
<1>3. CASE op.kind # "revert"
  <2>1. op.kind \in {"create", "delete"} /\ op.id # NoElem
    BY <1>1, <1>3 DEF OpTyped, Kinds
  <2>2. r.new = Content(op.id, op.val) \/ r.new = Deletion(op.id)
    BY <2>1 DEF Mutation
  <2>3. IsMutation(r.new) /\ ~IsRevert(r.new)
    BY <2>1, <2>2 DEF Content, Deletion, IsMutation, IsElement, IsRevert
  <2>4. QED
    BY <2>3 DEF Applies
<1>4. QED
  BY <1>2, <1>3

LEMMA BeginMutationPage ==
  ASSUME Serial, Shallow, LogInv, NumberedInOrder, PageInv,
         NEW p \in Writers, NEW op \in Ops, BeginMutation(p, op)
  PROVE  PageInv'
<1> DEFINE u == [Idle EXCEPT !.pc = "latest", !.op = op]
           m == [Idle EXCEPT !.pc = "number", !.op = op, !.new = Mutation(op)]
<1>1. /\ WithinDraft(op) /\ UNCHANGED <<log, drafts, swept, acked>> /\ p \in Procs
      /\ proc' = [proc EXCEPT ![p] = IF op.kind = "update" THEN u ELSE m]
  BY DEF BeginMutation, Enter, Procs
<1>2. /\ u.pc = "latest" /\ u.op = op /\ u.label = 0
      /\ m.pc = "number" /\ m.op = op /\ m.new = Mutation(op) /\ m.label = 0
  BY DEF Idle
<1> HIDE DEF u, m
<1>3. CASE op.kind = "update"
  <2>1. Serves(u, log, drafts) /\ InRole(p, u)
    BY <1>2, <1>3 DEF Serves, InRole, Updating, Saving, Reading, Mutating, Collapsing
  <2>2. QED
    BY <1>1, <1>3, <2>1, PageKept
<1>4. CASE op.kind # "update"
  <2>1. Applies(m, log, drafts)
    BY <1>1, <1>2, <1>4, MutationApplies
  <2>2. Serves(m, log, drafts) /\ InRole(p, m)
    BY <1>2, <2>1 DEF Serves, InRole, Updating, Saving, Reading, Mutating, Collapsing
  <2>3. QED
    BY <1>1, <1>4, <2>2, PageKept
<1>5. QED
  BY <1>3, <1>4

LEMMA BeginReadPage ==
  ASSUME LogInv, PageInv, NEW p \in Readers, NEW v \in Asked, BeginRead(p, v)
  PROVE  PageInv'
<1> DEFINE r == [Idle EXCEPT !.pc = "draft", !.upto = v, !.next = "label",
                             !.start = Len(log)]
<1>1. r.pc = "draft" /\ r.next = "label" /\ r.start = Len(log) /\ r.label = 0
  BY DEF Idle
<1>2. /\ UNCHANGED <<log, drafts, swept, acked>> /\ p \in Procs
      /\ proc' = [proc EXCEPT ![p] = r]
  BY DEF BeginRead, Enter, Procs
<1>3. Len(log) \in 0 .. Len(log)
  BY LogBounded
<1> HIDE DEF r
<1>4. Serves(r, log, drafts) /\ InRole(p, r)
  BY <1>1, <1>3 DEF Serves, InRole, Updating, Saving, Reading, Mutating, Collapsing
<1>5. QED
  BY <1>2, <1>4, PageKept

LEMMA BeginLookupPage ==
  ASSUME LogInv, PageInv, NEW p \in Lookups, BeginLookup(p)
  PROVE  PageInv'
<1> DEFINE r == [Idle EXCEPT !.pc = "project"]
<1>1. r.pc = "project" /\ r.label = 0
  BY DEF Idle
<1>2. /\ UNCHANGED <<log, drafts, swept, acked>> /\ p \in Procs
      /\ proc' = [proc EXCEPT ![p] = r]
  BY DEF BeginLookup, Enter, Procs
<1> HIDE DEF r
<1>3. Serves(r, log, drafts) /\ InRole(p, r)
  BY <1>1 DEF Serves, InRole, Updating, Saving, Reading, Mutating, Collapsing
<1>4. QED
  BY <1>2, <1>3, PageKept

LEMMA PageInit == Init => PageInv
<1> SUFFICES ASSUME Init PROVE PageInv
  OBVIOUS
<1>1. Len(log) = 0 /\ Len(drafts) = 0 /\ swept.drafts = 0 /\ acked = {}
  BY DEF Init
<1>2. Safe(log, 0)
  BY <1>1 DEF Safe
<1>3. \A p \in Procs : proc[p] = Idle
  BY DEF Init
<1>4. QED
  BY <1>1, <1>2, <1>3, IdleServes DEF PageInv

LEMMA PageNext ==
  ASSUME Serial, Shallow, LogInv, NumberedInOrder, PageInv, [Next]_vars
  PROVE  PageInv'
<1>1. ASSUME NEW p \in Procs,
             MergeNothing(p) \/ SendPage(p) \/ Lookup(p) \/ Abort(p)
      PROVE  PageInv'
  <2>1. proc' = [proc EXCEPT ![p] = Idle] /\ UNCHANGED <<log, drafts, swept, acked>>
    BY <1>1 DEF MergeNothing, SendPage, Lookup, Abort, Return
  <2>2. QED
    BY <2>1, IdleServes, PageKept
<1>2. ASSUME NEW p \in Procs, Step(p)
      PROVE  PageInv'
  BY <1>1, <1>2, EffectivePage, CollapseDraftPage, CollapseRangePage, MergePage,
     NumberPage, InsertPage, SavePage, LabelPage
     DEF Step
<1>3. CASE Crash
  <2>1. /\ UNCHANGED <<log, drafts, swept, acked>>
        /\ \A p \in Procs : proc'[p] = Idle
    BY <1>3 DEF Crash
  <2>2. \A p \in Procs : Serves(proc'[p], log, drafts) /\ InRole(p, proc'[p])
    BY <2>1, IdleServes
  <2>3. QED
    BY <2>1, <2>2 DEF PageInv
<1>4. ~ExpireDraft /\ ~ExpireMutation
  BY DEF ExpireDraft, ExpireMutation, Serial
<1>5. CASE UNCHANGED vars
  BY <1>5 DEF vars, PageInv
<1>6. QED
  BY <1>1, <1>2, <1>3, <1>4, <1>5, BeginMutationPage, BeginReadPage, BeginLookupPage
     DEF Next

-----------------------------------------------------------------------------
(* What clients may rely on: with failures and crashes anywhere and any      *)
(* number of readers, for one mutation at a time and clients that revert     *)
(* only what came after the last stored draft.                               *)

LEMMA PageInvHolds ==
  Serial /\ Shallow /\ Spec => [](LogInv /\ NumberedInOrder /\ PageInv)
<1> SUFFICES ASSUME Serial, Shallow
             PROVE  Spec => [](LogInv /\ NumberedInOrder /\ PageInv)
  OBVIOUS
<1>1. Init => NumberedInOrder /\ AtHead
  BY DEF Init, NumberedInOrder, AtHead, Idle
<1>2. LogInv /\ AtHead /\ NumberedInOrder /\ [Next]_vars => NumberedInOrder'
  BY SerialNext DEF Serial, OneAtATime
<1>3. LogInv /\ NumberedInOrder /\ PageInv /\ [Next]_vars => PageInv'
  BY PageNext
<1>4. QED
  BY <1>1, <1>2, <1>3, LogInit, LogNext, AtHeadNext, PageInit, PTL DEF Spec

LEMMA AnswerOfVersion ==
  ASSUME LogInv, NumberedInOrder, PageInv, NEW v \in 0 .. Len(log)
  PROVE  VersionPage(v) = Page(Prefix(log, v))
<1>1. v \in Nat /\ v = IF v < Len(log) THEN v ELSE Len(log)
  BY LogBounded
<1>2. QED
  BY <1>1, VersionPageShown

LEMMA HistoryOfVersion ==
  ASSUME LogInv, PageInv, NEW v \in 0 .. Len(log)
  PROVE  /\ IsHistory(Prefix(log, v)) /\ Len(Prefix(log, v)) = v
         /\ \A i \in 1..v : Prefix(log, v)[i] = log[i].mutation
<1>1. v \in Nat /\ \A i \in 1..v : IsMutation(log[i].mutation)
  BY LogBounded DEF PageInv
<1>2. QED
  BY <1>1, PrefixHistory

\* The page of every version is, at any time later, what the history up to that
\* version means: stored drafts, those missing included, never show.
THEOREM VersionPageHolds == Serial /\ Shallow /\ Spec => []VersionPageIsHistory
<1>1. LogInv /\ NumberedInOrder /\ PageInv => VersionPageIsHistory
  <2> SUFFICES ASSUME LogInv, NumberedInOrder, PageInv, NEW v \in 0 .. Len(log)
               PROVE  VersionPage(v) = Page(FirstOf(v))
    BY DEF VersionPageIsHistory
  <2>1. FirstOf(v) = Prefix(log, v)
    BY DEF FirstOf, Prefix
  <2>2. QED
    BY <2>1, AnswerOfVersion
<1>2. QED
  BY <1>1, PageInvHolds, PTL

\* What was answered with a version is in the page of that version.
THEOREM AckedEffectHolds == Serial /\ Shallow /\ Spec => []AckedTakesEffect
<1>1. LogInv /\ NumberedInOrder /\ PageInv => AckedTakesEffect
  <2> SUFFICES ASSUME LogInv, NumberedInOrder, PageInv, NEW a \in acked,
                      IsElement(a.mutation)
               PROVE  IF a.mutation.deleted
                      THEN \A e \in VersionPage(a.version) : e.id # a.mutation.id
                      ELSE a.mutation \in VersionPage(a.version)
    BY DEF AckedTakesEffect
  <2> DEFINE h == Prefix(log, a.version)
  <2>1. /\ a.version \in 1..Len(log) /\ a.version \in 0 .. Len(log)
        /\ a.mutation = log[a.version].mutation /\ IsMutation(a.mutation)
    BY DEF PageInv
  <2>2. /\ IsHistory(h) /\ Len(h) = a.version /\ h[Len(h)] = a.mutation
        /\ VersionPage(a.version) = Page(h)
    BY <2>1, HistoryOfVersion, AnswerOfVersion
  <2> HIDE DEF h
  <2>3. ~IsRevert(a.mutation) /\ Len(h) # 0
    BY <2>1, <2>2 DEF IsMutation, IsRevert
  <2>4. QED
    BY <2>2, <2>3, LastDecides
<1>2. QED
  BY <1>1, PageInvHolds, PTL

\* A revert of n that was answered with version v shows the page of version
\* v - 1 - n again.
THEOREM RevertHolds == Serial /\ Shallow /\ Spec => []RevertRestores
<1>1. LogInv /\ NumberedInOrder /\ PageInv => RevertRestores
  <2> SUFFICES ASSUME LogInv, NumberedInOrder, PageInv, NEW a \in acked,
                      IsRevert(a.mutation)
               PROVE  VersionPage(a.version)
                        = VersionPage(IF a.mutation.revert < a.version
                                      THEN a.version - 1 - a.mutation.revert ELSE 0)
    BY DEF RevertRestores
  <2> DEFINE v == a.version
             h == Prefix(log, v)
             b == Back(h, v)
             g == Prefix(log, b)
  <2>1. /\ v \in 1..Len(log) /\ v \in 0 .. Len(log)
        /\ a.mutation = log[v].mutation /\ IsMutation(a.mutation) /\ Len(log) \in Nat
    BY LogBounded DEF PageInv
  <2>2. /\ IsHistory(h) /\ Len(h) = v /\ h[v] = a.mutation
        /\ VersionPage(v) = Page(h) /\ \A i \in 1..v : h[i] = log[i].mutation
    BY <2>1, HistoryOfVersion, AnswerOfVersion
  <2>3. b = IF a.mutation.revert < v THEN v - 1 - a.mutation.revert ELSE 0
    BY <2>2 DEF Back
  <2>4. b \in 0 .. Len(log) /\ b \in 0 .. v - 1
    <3> HIDE DEF h
    <3>1. b \in 0 .. v - 1
      BY <2>1, <2>2, HistoryDomain
    <3>2. QED
      BY <2>1, <3>1
  <2> HIDE DEF b
  <2>5. /\ IsHistory(g) /\ Len(g) = b /\ \A i \in 1..b : g[i] = log[i].mutation
        /\ VersionPage(b) = Page(g)
    BY <2>4, HistoryOfVersion, AnswerOfVersion
  <2>6. \A i \in 1..Len(g) : g[i] = h[i]
    BY <2>1, <2>2, <2>4, <2>5
  <2> HIDE DEF g, h, v
  <2>7. Page(h) = Page(g)
    BY <2>1, <2>2, <2>5, <2>6, RevertGoesBack DEF b
  <2>8. QED
    BY <2>2, <2>3, <2>5, <2>7 DEF v
<1>2. QED
  BY <1>1, PageInvHolds, PTL

-----------------------------------------------------------------------------
(* PageHistory. *)

\* What the theorem assumes of the goroutines: each serves one kind of request.
Separate == Readers \cap Writers = {} /\ Readers \cap Lookups = {}

\* What clients see of a request r that reads.
ViewOf(r) ==
  LET sent == r.pc = "reply" IN
  [open |-> r.pc # "idle", from |-> r.start, asked |-> r.upto,
   reply |-> [version |-> r.label, given |-> sent,
              page |-> IF sent THEN Elements(r.page) ELSE {}]]

\* A page means the same in PageHistory.
LEMMA SamePage == \A h : Service!Page(h) = Page(h)
<1>1. ASSUME NEW h
      PROVE  Service!EffectAfter(h) = EffectAfter(h)
  BY Zenon DEF Service!EffectAfter, Service!IsRevert, EffectAfter, IsRevert
<1>2. ASSUME NEW e
      PROVE  Service!Shown(e) = Shown(e)
  BY Zenon DEF Service!Shown, Shown
<1>3. QED
  BY <1>1, <1>2, Zenon DEF Service!Page, Service!InEffect, Page, InEffect

LEMMA SameMutations ==
  /\ \A e, val : Service!Content(e, val) = Content(e, val)
  /\ \A e : Service!Deletion(e) = Deletion(e)
  /\ \A n : Service!Reversion(n) = Reversion(n)
  /\ \A val, given : Service!Changed(val, given) = Merge(val, given)
BY DEF Service!Content, Content, Service!Deletion, Deletion, Service!Reversion, Reversion,
   Service!Changed, Merge

\* The history, and what the readers see, as functions of the state.
LEMMA ViewsOfState ==
  ASSUME LogInv
  PROVE  /\ [i \in DOMAIN log |-> log[i].mutation] = Prefix(log, Len(log))
         /\ pageRead = [p \in Readers |-> ViewOf(proc[p])]
BY SequenceDomain DEF LogInv, Prefix, pageRead, ViewOf

\* Goroutine p moves on: its view changes at most.
LEMMA ViewMoves ==
  ASSUME LogInv, NEW p \in Procs, NEW r, proc' = [proc EXCEPT ![p] = r]
  PROVE  /\ p \in Readers => pageRead' = [pageRead EXCEPT ![p] = ViewOf(r)]
         /\ p \notin Readers \/ ViewOf(r) = ViewOf(proc[p]) => pageRead' = pageRead
<1>1. /\ \A q \in Readers : proc'[q] = IF q = p THEN r ELSE proc[q]
      /\ pageRead = [q \in Readers |-> ViewOf(proc[q])]
  BY ViewsOfState DEF LogInv, ProcsShaped, Procs
<1>2. pageRead' = [q \in Readers |-> ViewOf(proc'[q])]
  BY DEF pageRead, ViewOf
<1> HIDE DEF ViewOf
<1>3. QED
  BY <1>1, <1>2

LEMMA IdleView == ViewOf(Idle) = Service!NoRead
BY DEF ViewOf, Idle, Service!NoRead, Service!NoReply

\* What PageHistory does at a step, as a relation of the state.
Seen == Service!Next \/ UNCHANGED Service!pageVars

\* A step that clients do not see.
LEMMA Unseen ==
  ASSUME LogInv, NEW p \in Procs, NEW r, proc' = [proc EXCEPT ![p] = r], UNCHANGED log,
         p \notin Readers \/ ViewOf(r) = ViewOf(proc[p])
  PROVE  Seen
<1>1. pageRead' = pageRead
  BY ViewMoves
<1>2. QED
  BY <1>1 DEF Seen, Service!pageVars

\* A request ends: the read is over, if it is one.
LEMMA ReturnSeen ==
  ASSUME LogInv, NEW p \in Procs, proc' = [proc EXCEPT ![p] = Idle], UNCHANGED log
  PROVE  Seen
<1>1. CASE p \in Readers
  <2>1. pageRead' = [pageRead EXCEPT ![p] = ViewOf(Idle)]
    BY <1>1, ViewMoves
  <2>2. pageRead = [q \in Readers |-> ViewOf(proc[q])]
    BY ViewsOfState
  <2>3. pageRead' = [q \in Readers |-> IF q \in {p} THEN Service!NoRead ELSE pageRead[q]]
    BY <2>1, <2>2, IdleView
  <2>4. Service!Leave({p})
    BY <2>3 DEF Service!Leave
  <2>5. {p} \in SUBSET Readers
    BY <1>1
  <2>6. QED
    BY <2>4, <2>5 DEF Seen, Service!Next
<1>2. CASE p \notin Readers
  BY <1>2, Unseen
<1>3. QED
  BY <1>1, <1>2

LEMMA CrashSeen ==
  ASSUME LogInv, Crash
  PROVE  Seen
<1>1. UNCHANGED log /\ \A p \in Readers : proc'[p] = Idle
  BY DEF Crash, Procs
<1>2. pageRead' = [q \in Readers |-> ViewOf(proc'[q])]
  BY DEF pageRead, ViewOf
<1>3. pageRead' = [q \in Readers |-> IF q \in Readers THEN Service!NoRead ELSE pageRead[q]]
  BY <1>1, <1>2, IdleView
<1>4. Service!Leave(Readers)
  BY <1>1, <1>3 DEF Service!Leave
<1>5. QED
  BY <1>4 DEF Seen, Service!Next

\* A mutation takes effect when it is inserted, on the page as it is then.
LEMMA InsertSeen ==
  ASSUME Serial, Separate, LogInv, NumberedInOrder, PageInv, NEW p \in Procs,
         InsertMutation(p) \/ InsertUnanswered(p)
  PROVE  Seen
<1> DEFINE old == proc[p]
           n == Len(log)
           h == Prefix(log, n)
<1>1. /\ At(p, "insert") /\ Store(p)
      /\ \E r : proc' = [proc EXCEPT ![p] = r]
  BY DEF InsertMutation, InsertUnanswered, Return
<1>2. /\ p \in Writers /\ p \notin Readers /\ Applies(old, log, drafts)
      /\ IsSequence(log) /\ n \in Nat
  <2>1. Serves(old, log, drafts) /\ InRole(p, old) /\ old.pc = "insert"
    BY <1>1 DEF PageInv, At
  <2>2. Applies(old, log, drafts) /\ p \in Writers
    BY <2>1, Zenon DEF Serves, InRole, Mutating
  <2>3. QED
    BY <2>2, SequenceDomain DEF Separate, LogInv
<1>3. UNCHANGED pageRead
  BY <1>1, <1>2, ViewMoves
<1>4. /\ IsSequence(log') /\ Len(log') = n + 1
      /\ \A i \in 1..n : log'[i] = log[i]
      /\ log'[n + 1] = [version |-> old.upto, mutation |-> old.new]
  BY <1>1, <1>2, AppendSequence DEF Store
<1>5. IsHistory(h) /\ Len(h) = n /\ \A i \in 1..n : h[i] = log[i].mutation
  BY <1>2, PrefixHistory DEF PageInv
<1> DEFINE g == Append(h, old.new)
<1>6. /\ IsSequence(g) /\ Len(g) = n + 1
      /\ \A i \in 1..n : g[i] = log[i].mutation
      /\ g[n + 1] = old.new
  <2> HIDE DEF h, old
  <2> QED BY <1>2, <1>5, AppendSequence DEF IsHistory
<1>7. [i \in DOMAIN log' |-> log'[i].mutation] = g
  <2>1. DOMAIN log' = 1..n + 1 /\ DOMAIN g = 1..n + 1 /\ g = [i \in 1..n + 1 |-> g[i]]
    <3>1. DOMAIN log' = 1..n + 1 /\ DOMAIN g = 1..n + 1
      BY <1>4, <1>6, SequenceDomain
    <3> HIDE DEF g
    <3>2. g = [i \in DOMAIN g |-> g[i]]
      BY <1>6 DEF IsSequence
    <3>3. QED
      BY <3>1, <3>2
  <2> HIDE DEF g, h
  <2>2. ASSUME NEW i \in 1..n + 1 PROVE log'[i].mutation = g[i]
    <3>1. CASE i = n + 1
      <4>1. log'[n + 1].mutation = old.new
        BY <1>4
      <4>2. QED
        BY <1>6, <3>1, <4>1
    <3>2. CASE i # n + 1
      <4>1. i \in 1..n
        BY <1>2, <3>2
      <4>2. QED
        BY <1>4, <1>6, <4>1
    <3>3. QED
      BY <3>1, <3>2
  <2>3. QED
    BY <2>1, <2>2
<1>8. [i \in DOMAIN log |-> log[i].mutation] = h
  BY ViewsOfState
<1>9. old.op \in Ops /\ old.new \in Service!Effects(old.op)
  <2> DEFINE op == old.op
  <2>1. op \in Ops /\ op.kind \in Kinds
    BY <1>2, DraftLogAssumption DEF Applies, OpTyped
  <2>2. CASE op.kind = "update"
    <3>1. PICK e \in Page(h) : e.id = op.id /\ old.new = Content(e.id, Merge(e.val, op.val))
      BY <1>2, <2>2, Zenon DEF Applies, h, n
    <3>2. Service!Effects(op)
            = {Content(x.id, Merge(x.val, op.val)) : x \in {y \in Page(h) : y.id = op.id}}
      <4> HIDE DEF op, h
      <4> QED BY <1>8, <2>2, SamePage, SameMutations DEF Service!Effects
    <3>3. QED
      BY <2>1, <3>1, <3>2
  <2>3. CASE op.kind # "update"
    <3>1. old.new = Mutation(op)
      BY <1>2, <2>3, Zenon DEF Applies
    <3> HIDE DEF op, h
    <3>2. old.new \in Service!Effects(op)
      BY <2>1, <2>3, <3>1, SameMutations DEF Service!Effects, Mutation, Kinds
    <3>3. QED
      BY <2>1, <3>2 DEF op
  <2>4. QED
    BY <2>2, <2>3
<1>10. PICK op \in Ops : old.op = op /\ old.new \in Service!Effects(op)
  BY <1>9
<1>11. Service!Apply(op)
  <2> HIDE DEF g, h, old
  <2>1. [i \in DOMAIN log' |-> log'[i].mutation]
          = Append([i \in DOMAIN log |-> log[i].mutation], old.new)
    BY <1>7, <1>8 DEF g
  <2>2. QED
    BY <1>3, <1>10, <2>1 DEF Service!Apply
<1>12. QED
  BY <1>11 DEF Seen, Service!Next

\* A read begins.
LEMMA AskSeen ==
  ASSUME LogInv, NEW p \in Readers, NEW v \in Asked, BeginRead(p, v)
  PROVE  Seen
<1> DEFINE r == [Idle EXCEPT !.pc = "draft", !.upto = v, !.next = "label",
                             !.start = Len(log)]
<1>1. /\ r.pc = "draft" /\ r.start = Len(log) /\ r.upto = v /\ r.label = 0
      /\ proc' = [proc EXCEPT ![p] = r] /\ UNCHANGED log /\ proc[p].pc = "idle"
      /\ p \in Procs
  BY DEF Idle, BeginRead, Enter, Procs
<1> HIDE DEF r
<1>2. ViewOf(r) = [open |-> TRUE, from |-> Len(log), asked |-> v, reply |-> Service!NoReply]
  BY <1>1 DEF ViewOf, Service!NoReply
<1>3. pageRead' = [pageRead EXCEPT ![p] = ViewOf(r)]
  BY <1>1, ViewMoves
<1>4. ~pageRead[p].open
  <2>1. pageRead[p] = ViewOf(proc[p])
    BY ViewsOfState
  <2>2. ViewOf(proc[p]).open = FALSE
    BY <1>1 DEF ViewOf
  <2>3. QED
    BY <2>1, <2>2
<1>5. Len([i \in DOMAIN log |-> log[i].mutation]) = Len(log)
  <2>1. /\ Len(log) \in Nat
        /\ [i \in DOMAIN log |-> log[i].mutation] = [i \in 1..Len(log) |-> log[i].mutation]
    BY SequenceDomain DEF LogInv
  <2>2. QED
    BY <2>1
<1>6. Service!Ask(p, v)
  BY <1>1, <1>2, <1>3, <1>4, <1>5 DEF Service!Ask
<1>7. QED
  BY <1>6 DEF Seen, Service!Next

\* A read gets the page of a moment of it, and its label: from here on clients
\* may see both.
LEMMA AnswerSeen ==
  ASSUME Separate, LogInv, NumberedInOrder, PageInv, NEW p \in Procs, Label(p)
  PROVE  Seen
<1> DEFINE old == proc[p]
           version == IF old.upto = MaxInt THEN LatestVersion ELSE old.upto
           r == [old EXCEPT !.label = version, !.pc = "reply"]
           h == [i \in DOMAIN log |-> log[i].mutation]
           n == Len(log)
<1>1. /\ Shaped(old) /\ old.pc = "label" /\ Serves(old, log, drafts) /\ InRole(p, old)
      /\ UNCHANGED log /\ proc' = [proc EXCEPT ![p] = r]
      /\ old.upto \in Nat
  BY DraftLogAssumption DEF LogInv, ProcsShaped, Carries, MaxInt, PageInv, Label, At
<1>2. /\ old.start \in 0 .. n /\ p \in Readers /\ ShowsMoment(old, log) /\ old.label = 0
  BY <1>1, Zenon DEF Serves, InRole, Reading, n
<1>3. /\ r.pc = "reply" /\ r.start = old.start /\ r.upto = old.upto /\ r.page = old.page
      /\ r.label = version
  BY <1>1 DEF Shaped, Fields
<1>4. /\ IsHistory(Prefix(log, n)) /\ n \in Nat /\ h = Prefix(log, n) /\ Len(h) = n
      /\ \A i \in 1..n : h[i] = log[i].mutation
  <2>1. n \in Nat /\ h = Prefix(log, n)
    BY LogBounded, ViewsOfState
  <2>2. QED
    BY <2>1, PrefixHistory DEF PageInv
<1>5. PICK m \in old.start .. n :
        Elements(old.page) = Page(Prefix(log, IF old.upto < m THEN old.upto ELSE m))
  BY <1>2 DEF ShowsMoment
<1> DEFINE shown == IF old.upto < m THEN old.upto ELSE m
<1> HIDE DEF r, h, old
<1>6. shown \in 0 .. n /\ m \in 0 .. n
  BY <1>1, <1>2, <1>4, <1>5
<1>7. SubSeq(h, 1, shown) = Prefix(log, shown)
  <2> HIDE DEF shown
  <2>1. SubSeq(h, 1, shown) = [i \in 1..shown |-> h[i]]
    BY <1>4, <1>6 DEF IsHistory, IsSequence
  <2>2. QED
    BY <1>4, <1>6, <2>1 DEF Prefix
<1>8. PICK w \in m .. n : version = IF old.upto = MaxInt THEN w ELSE old.upto
  <2>1. LatestVersion = n /\ n \in m .. n
    BY <1>4, <1>6, LatestIsLength
  <2>2. QED
    BY <2>1
<1>9. /\ pageRead[p].open /\ ~pageRead[p].reply.given
      /\ pageRead[p].from = old.start /\ pageRead[p].asked = old.upto
      /\ ViewOf(r) = [pageRead[p] EXCEPT
                        !.reply = [version |-> version, given |-> TRUE,
                                   page |-> Elements(old.page)]]
  <2>1. pageRead[p] = ViewOf(old)
    BY <1>2, ViewsOfState DEF old
  <2>2. ViewOf(old) = [open |-> TRUE, from |-> old.start, asked |-> old.upto,
                       reply |-> [version |-> 0, given |-> FALSE, page |-> {}]]
    BY <1>1, <1>2 DEF ViewOf
  <2>3. ViewOf(r) = [open |-> TRUE, from |-> old.start, asked |-> old.upto,
                     reply |-> [version |-> version, given |-> TRUE,
                                page |-> Elements(old.page)]]
    <3> HIDE DEF version
    <3> QED BY <1>3 DEF ViewOf
  <2> HIDE DEF version
  <2>4. /\ pageRead[p].open /\ pageRead[p].from = old.start /\ pageRead[p].asked = old.upto
        /\ pageRead[p].reply = [version |-> 0, given |-> FALSE, page |-> {}]
    BY <2>1, <2>2
  <2> DEFINE before == [version |-> 0, given |-> FALSE, page |-> {}]
             reply == [version |-> version, given |-> TRUE, page |-> Elements(old.page)]
  <2>5. ViewOf(r) = [pageRead[p] EXCEPT !.reply = reply]
    <3> DEFINE open == TRUE
               was == [open |-> open, from |-> old.start, asked |-> old.upto,
                       reply |-> before]
               is == [open |-> open, from |-> old.start, asked |-> old.upto,
                      reply |-> reply]
    <3>1. pageRead[p] = was /\ ViewOf(r) = is
      BY <2>1, <2>2, <2>3
    <3> HIDE DEF before, reply, open
    <3>2. is = [was EXCEPT !.reply = reply]
      OBVIOUS
    <3> HIDE DEF was, is
    <3>3. QED
      BY <3>1, <3>2
  <2>6. QED
    BY <2>4, <2>5
<1>10. pageRead' = [pageRead EXCEPT ![p] = ViewOf(r)]
  BY <1>1, <1>2, ViewMoves
<1>11. Service!Answer(p)
  <2>1. Elements(old.page) = Service!Page(SubSeq(h, 1, shown))
    BY <1>5, <1>7, SamePage
  <2>2. pageRead' = [pageRead EXCEPT ![p].reply =
                       [version |-> IF old.upto = MaxInt THEN w ELSE old.upto,
                        page |-> Service!Page(SubSeq(h, 1, shown)), given |-> TRUE]]
    <3> HIDE DEF version, shown
    <3> QED BY <1>8, <1>9, <1>10, <2>1
  <2>3. h = [i \in DOMAIN log |-> log[i].mutation]
    BY DEF h
  <2>4. h' = h
    BY <1>1 DEF h
  <2>5. m \in pageRead[p].from .. Len(h) /\ w \in m .. Len(h)
    BY <1>4, <1>5, <1>8, <1>9
  <2>6. QED
    BY <1>9, <2>2, <2>3, <2>4, <2>5, Zenon DEF Service!Answer, shown, h
<1>12. QED
  BY <1>2, <1>11 DEF Seen, Service!Next

\* The calls to MongoDB that neither insert nor answer anything.
LEMMA CallUnseen ==
  ASSUME Separate, LogInv, PageInv, NEW p \in Procs,
         \/ EffectiveVersion(p) \/ CollapseDraft(p) \/ CollapseRange(p)
         \/ MergeFields(p) \/ NumberMutation(p) \/ SaveDraft(p)
  PROVE  Seen
<1> DEFINE old == proc[p]
<1>1. /\ Shaped(old) /\ Serves(old, log, drafts) /\ InRole(p, old)
      /\ Carries(old, Len(log))
  BY DEF LogInv, ProcsShaped, PageInv
<1>2. /\ UNCHANGED log
      /\ \E r : proc' = [proc EXCEPT ![p] = r]
  BY DEF EffectiveVersion, CollapseDraft, CollapseRange, MergeFields, NumberMutation,
         SaveDraft, Return
<1>3. CASE EffectiveVersion(p) \/ MergeFields(p) \/ NumberMutation(p) \/ SaveDraft(p)
  <2>1. Mutating(old) \/ Saving(old)
    BY <1>3 DEF EffectiveVersion, MergeFields, NumberMutation, SaveDraft, At, Mutating,
                Saving
  <2>2. p \notin Readers
    BY <1>1, <2>1 DEF InRole, Separate
  <2>3. QED
    BY <1>2, <2>2, Unseen
<1>4. ASSUME NEW r, proc' = [proc EXCEPT ![p] = r], Collapsing(old),
             r.pc \in {"range", old.next},
             r.start = old.start, r.upto = old.upto, r.label = old.label
      PROVE  Seen
  <2> HIDE DEF old
  <2>1. /\ old.pc \notin {"idle", "reply"} /\ r.pc \notin {"idle", "reply"}
    BY <1>1, <1>4 DEF Collapsing, Carries
  <2>2. ViewOf(r) = ViewOf(old)
    BY <1>4, <2>1 DEF ViewOf
  <2>3. QED
    BY <1>2, <1>4, <2>2, Unseen DEF old
<1>5. CASE CollapseDraft(p)
  <2> DEFINE draft == LatestDraft(old.upto)
             done == [old EXCEPT !.page = draft.mutations, !.pc = old.next]
             rest == [old EXCEPT !.draft = draft, !.pc = "range"]
  <2>1. PICK r \in {done, rest} : proc' = [proc EXCEPT ![p] = r]
    BY <1>5 DEF CollapseDraft
  <2>2. /\ r.pc \in {"range", old.next} /\ r.start = old.start /\ r.upto = old.upto
        /\ r.label = old.label
    BY <1>1, <2>1 DEF Shaped, Fields
  <2>3. Collapsing(old)
    BY <1>5 DEF CollapseDraft, At, Collapsing
  <2>4. QED
    BY <1>4, <2>1, <2>2, <2>3
<1>6. CASE CollapseRange(p)
  <2> DEFINE r == [old EXCEPT !.page = CollapseOnto(old.draft, old.upto),
                              !.draft = NoDraft, !.pc = old.next]
  <2>1. proc' = [proc EXCEPT ![p] = r] /\ Collapsing(old)
    BY <1>6 DEF CollapseRange, At, Collapsing
  <2>2. /\ r.pc \in {"range", old.next} /\ r.start = old.start /\ r.upto = old.upto
        /\ r.label = old.label
    BY <1>1 DEF Shaped, Fields
  <2> HIDE DEF r
  <2>3. QED
    BY <1>4, <2>1, <2>2
<1>7. QED
  BY <1>3, <1>5, <1>6

\* A mutation or a lookup begins.
LEMMA BeginUnseen ==
  ASSUME Separate, LogInv, NEW p \in Writers \cup Lookups, NEW r, Enter(p, r), UNCHANGED log
  PROVE  Seen
<1>1. p \notin Readers /\ p \in Procs /\ proc' = [proc EXCEPT ![p] = r]
  BY DEF Separate, Enter, Procs
<1>2. QED
  BY <1>1, Unseen

LEMMA NextSeen ==
  ASSUME Serial, Separate, LogInv, NumberedInOrder, PageInv, [Next]_vars
  PROVE  Seen
<1>1. ASSUME NEW p \in Procs,
             MergeNothing(p) \/ SendPage(p) \/ Lookup(p) \/ Abort(p)
      PROVE  Seen
  <2>1. proc' = [proc EXCEPT ![p] = Idle] /\ UNCHANGED log
    BY <1>1 DEF MergeNothing, SendPage, Lookup, Abort, Return
  <2>2. QED
    BY <2>1, ReturnSeen
<1>2. ASSUME NEW p \in Procs, Step(p)
      PROVE  Seen
  <2>1. CASE InsertMutation(p) \/ InsertUnanswered(p)
    BY <2>1, InsertSeen
  <2>2. CASE Label(p)
    BY <2>2, AnswerSeen
  <2>3. CASE \/ EffectiveVersion(p) \/ CollapseDraft(p) \/ CollapseRange(p)
             \/ MergeFields(p) \/ NumberMutation(p) \/ SaveDraft(p)
    BY <2>3, CallUnseen
  <2>4. CASE MergeNothing(p) \/ SendPage(p) \/ Lookup(p)
    BY <1>1, <2>4
  <2>5. QED
    BY <1>2, <2>1, <2>2, <2>3, <2>4, Zenon DEF Step
<1>3. ASSUME NEW p \in Writers, NEW op \in Ops, BeginMutation(p, op)
      PROVE  Seen
  <2>1. (\E r : Enter(p, r)) /\ UNCHANGED log
    BY <1>3 DEF BeginMutation
  <2>2. QED
    BY <2>1, BeginUnseen
<1>4. ASSUME NEW p \in Lookups, BeginLookup(p)
      PROVE  Seen
  <2>1. (\E r : Enter(p, r)) /\ UNCHANGED log
    BY <1>4 DEF BeginLookup
  <2>2. QED
    BY <2>1, BeginUnseen
<1>5. ~ExpireDraft /\ ~ExpireMutation
  BY DEF ExpireDraft, ExpireMutation, Serial
<1>6. CASE UNCHANGED vars
  BY <1>6 DEF vars, Seen, Service!pageVars, pageRead
<1>7. QED
  BY <1>1, <1>2, <1>3, <1>4, <1>5, <1>6, AskSeen, CrashSeen, Zenon DEF Next

\* Next to reads, and with failures and crashes anywhere, the service implements
\* PageHistory: a mutation is as if applied at once, on the page of that
\* instant, and a read shows the page of one moment of it.
THEOREM ImplementsPageHistoryHolds ==
  Serial /\ Shallow /\ Separate /\ Spec => ImplementsPageHistory
<1> SUFFICES ASSUME Serial, Shallow, Separate PROVE Spec => ImplementsPageHistory
  OBVIOUS
<1>1. Init => Service!Init
  <2> SUFFICES ASSUME Init PROVE Service!Init
    OBVIOUS
  <2>1. [i \in DOMAIN log |-> log[i].mutation] = <<>>
    BY DEF Init
  <2>2. pageRead = [p \in Readers |-> Service!NoRead]
    <3>1. pageRead = [p \in Readers |-> ViewOf(proc[p])]
      BY DEF pageRead, ViewOf
    <3>2. \A p \in Readers : proc[p] = Idle
      BY DEF Init, Procs
    <3>3. QED
      BY <3>1, <3>2, IdleView
  <2>3. QED
    BY <2>1, <2>2 DEF Service!Init
<1>2. LogInv /\ NumberedInOrder /\ PageInv /\ [Next]_vars => [Service!Next]_(Service!pageVars)
  BY NextSeen DEF Seen
<1>3. Spec => [](LogInv /\ NumberedInOrder /\ PageInv)
  BY PageInvHolds
<1>4. QED
  BY <1>1, <1>2, <1>3, PTL DEF Spec, ImplementsPageHistory, Service!Spec

-----------------------------------------------------------------------------
(* The page when mutations and drafts expire. *)

\* A draft that can be built on.
Usable(d) == IsDraft(d.mutations) /\ d.version \in 0 .. MaxInt

\* What a request brings into the collections.
Sound(r) ==
  /\ Updating(r) => r.op \in Ops /\ r.op.kind = "update"
  /\ r.pc \in {"number", "insert"} => IsMutation(r.new)
  /\ r.pc = "range" => Usable(r.draft) /\ r.draft.version < r.upto
  /\ r.pc = "save" => IsDraft(r.page)

\* The inductive invariant: the log and the drafts are made of mutations.
AllSound ==
  /\ \A i \in 1..Len(log) : IsMutation(log[i].mutation)
  /\ \A j \in 1..Len(drafts) : Usable(drafts[j])
  /\ \A p \in Procs : Sound(proc[p])

LEMMA IdleSound == Sound(Idle)
<1>1. Idle.pc = "idle"
  BY DEF Idle
<1>2. QED
  BY <1>1 DEF Sound, Updating, Collapsing

LEMMA NothingUsable == Usable(NoDraft)
<1>1. 0 \in 0 .. MaxInt
  BY DraftLogAssumption DEF MaxInt
<1>2. QED
  BY <1>1, EmptyHistory DEF Usable, NoDraft

\* Goroutine p moves on, without a change to the collections.
LEMMA SoundKept ==
  ASSUME LogInv, AllSound, NEW p \in Procs, NEW r, proc' = [proc EXCEPT ![p] = r],
         UNCHANGED <<log, drafts>>, Sound(r)
  PROVE  AllSound'
<1>1. DOMAIN proc = Procs
  BY DEF LogInv, ProcsShaped
<1>2. ASSUME NEW q \in Procs PROVE Sound(proc'[q])
  <2>1. CASE q = p
    BY <1>1, <2>1
  <2>2. CASE q # p
    <3>1. proc'[q] = proc[q]
      BY <1>1, <2>2
    <3>2. QED
      BY <3>1 DEF AllSound
  <2>3. QED
    BY <2>1, <2>2
<1>3. QED
  BY <1>2 DEF AllSound

\* The draft to start from can be built on.
LEMMA DraftUsable ==
  ASSUME LogInv, AllSound, NEW v \in Nat
  PROVE  LET d == LatestDraft(v) IN Usable(d) /\ d.version <= v
<1>1. MaxInt \in Nat /\ Drafts \subseteq 1..Len(drafts)
  BY SequenceDomain, DraftLogAssumption DEF LogInv, Drafts, MaxInt
<1>2. \A j \in Drafts : drafts[j].version \in 0 .. MaxInt
  BY <1>1 DEF AllSound, Usable
<1>3. QED
  BY <1>1, <1>2, DraftFound, NothingUsable DEF AllSound

\* The mutations of a range of versions are neighbours in the log.
LEMMA RangeLies ==
  ASSUME LogInv, NEW b \in 0 .. swept.log, NumberedFrom(b), NEW from \in Nat,
         NEW to \in Nat, from <= to + 1
  PROVE  \E s \in 0 .. Len(log) : \E size \in 0 .. Len(log) - s :
           LiesAt(from, to, s, size, b)
<1> DEFINE n == Len(log)
           first == IF from + b > swept.log THEN from + b ELSE swept.log + 1
           last == IF to + b < n THEN to + b ELSE n
<1>1. /\ b \in Nat /\ swept.log \in Nat /\ n \in Nat /\ b <= swept.log /\ swept.log <= n
      /\ Mutations = swept.log + 1 .. n
      /\ \A i \in swept.log + 1 .. n : log[i].version = i - b
  BY LatestOfNumbered DEF NumberedFrom
<1> HIDE DEF n
<1>2. /\ first \in Nat \ {0} /\ last \in Nat /\ last <= n /\ first >= swept.log + 1
      /\ first - b >= from /\ last - b <= to
      /\ \A i \in Mutations : i - b \in from .. to <=> i \in first .. last
  BY <1>1
<1> HIDE DEF first, last
<1>3. CASE first <= last
  <2> DEFINE s == first - 1
             size == last - s
  <2>1. /\ s \in 0 .. n /\ size \in 0 .. n - s /\ s + 1 = first /\ s + size = last
        /\ size \in Nat
    BY <1>1, <1>2, <1>3
  <2> HIDE DEF s, size
  <2>2. \A i \in s + 1 .. s + size :
          i \in Mutations /\ log[i].version = i - b /\ i - b \in from .. to
    <3> SUFFICES ASSUME NEW i \in first .. last
                 PROVE  i \in Mutations /\ log[i].version = i - b /\ i - b \in from .. to
      BY <2>1
    <3>1. i \in Mutations
      BY <1>1, <1>2
    <3>2. QED
      BY <1>1, <1>2, <3>1
  <2>3. \A i \in Mutations : log[i].version \in from .. to => i \in s + 1 .. s + size
    BY <1>1, <1>2, <2>1
  <2>4. size <= to - from + 1
    BY <1>1, <1>2, <2>1
  <2>5. LiesAt(from, to, s, size, b)
    BY <2>2, <2>3, <2>4 DEF LiesAt
  <2>6. QED
    BY <2>1, <2>5 DEF n
<1>4. CASE ~(first <= last)
  <2> DEFINE s == 0
             size == 0
  <2>1. \A i \in s + 1 .. s + size : FALSE
    OBVIOUS
  <2>2. \A i \in Mutations : log[i].version \notin from .. to
    BY <1>1, <1>2, <1>4
  <2>3. size <= to - from + 1
    OBVIOUS
  <2>4. LiesAt(from, to, s, size, b)
    BY <2>1, <2>2, <2>3 DEF LiesAt
  <2>5. s \in 0 .. n /\ size \in 0 .. n - s
    BY <1>1
  <2>6. QED
    BY <2>4, <2>5 DEF n
<1>5. QED
  BY <1>3, <1>4

LEMMA SliceSound ==
  ASSUME LogInv, AllSound, NEW s \in 0 .. Len(log), NEW size \in 0 .. Len(log) - s,
         NEW r, r = [k \in 1..size |-> log[s + k].mutation]
  PROVE  /\ IsHistory(r) /\ IsHistory(Prefix(log, s + size)) /\ IsHistory(Prefix(log, s))
         /\ Joins(Prefix(log, s + size), Prefix(log, s), r)
<1> DEFINE n == s + size
<1>1. /\ Len(log) \in Nat /\ n \in 0 .. Len(log) /\ s \in 0 .. n /\ size = n - s
      /\ \A i \in 1..Len(log) : IsMutation(log[i].mutation)
  BY SequenceDomain DEF LogInv, AllSound
<1> HIDE DEF n
<1>2. /\ IsHistory(r) /\ IsHistory(Prefix(log, n)) /\ IsHistory(Prefix(log, s))
      /\ Joins(Prefix(log, n), Prefix(log, s), r)
  BY <1>1, SliceJoins
<1>3. QED
  BY <1>2 DEF n

\* What is collapsed is a draft again.
LEMMA CollapsedSound ==
  ASSUME LogInv, Numbered, AllSound, NEW d, Usable(d), NEW v \in Nat, d.version <= v
  PROVE  IsDraft(CollapseOnto(d, v))
<1>1. CASE d.version = v
  BY <1>1 DEF CollapseOnto, Usable
<1>2. CASE d.version # v
  <2> DEFINE from == d.version + 1
             r == MutationsInRange(from, v)
  <2>1. from \in Nat /\ from <= v + 1
    BY DEF Usable
  <2>2. PICK b \in 0 .. swept.log : NumberedFrom(b)
    BY DEF Numbered
  <2> HIDE DEF from
  <2>3. PICK s \in 0 .. Len(log) :
          \E size \in 0 .. Len(log) - s : LiesAt(from, v, s, size, b)
    BY <2>1, <2>2, RangeLies
  <2>4. PICK size \in 0 .. Len(log) - s : LiesAt(from, v, s, size, b)
    BY <2>3
  <2>5. s \in Nat /\ size \in Nat /\ b \in Nat
    BY <2>2, LatestOfNumbered
  <2>6. r = [k \in 1..size |-> log[s + k].mutation]
    <3>1. /\ from \in Nat /\ v \in Nat /\ s \in Nat /\ size \in Nat /\ b \in Nat
          /\ LiesAt(from, v, s, size, b)
      BY <2>1, <2>4, <2>5
    <3>2. MutationsInRange(from, v) = [k \in 1..size |-> log[s + k].mutation]
      BY <3>1, RangeFound, SMTT(20)
    <3>3. QED
      BY <3>2
  <2> HIDE DEF r
  <2>7. IsHistory(r)
    BY <2>6, SliceSound
  <2>8. IsDraft(Collapse(d.mutations \o r))
    BY <2>7, DraftOnTop DEF Usable
  <2>9. QED
    BY <1>2, <2>8 DEF CollapseOnto, r, from
<1>3. QED
  BY <1>1, <1>2

\* A request r that has collapsed the log, as old asked for.
LEMMA CollapseSound ==
  ASSUME LogInv, AllSound, NEW p \in Procs, NEW old, old = proc[p], Collapsing(old),
         NEW r, r.pc = old.next, r.op = old.op, IsDraft(r.page)
  PROVE  Sound(r)
<1>1. Sound(old) /\ old.next \in {"merge", "save", "label"}
  BY DEF AllSound, LogInv, Carries
<1>2. old.next = "merge" => Updating(old)
  BY DEF Updating
<1>3. QED
  BY <1>1, <1>2 DEF Sound, Updating, Collapsing

LEMMA StepSound ==
  ASSUME LogInv, Numbered, AllSound, NEW p \in Procs, Step(p) \/ Abort(p)
  PROVE  AllSound'
<1> DEFINE old == proc[p]
<1>1. /\ Shaped(old) /\ Sound(old) /\ old.upto \in Nat /\ old.upto \in 0 .. MaxInt
      /\ DOMAIN proc = Procs
  BY DraftLogAssumption DEF LogInv, ProcsShaped, AllSound, Carries, MaxInt
<1>2. CASE MergeNothing(p) \/ SendPage(p) \/ Lookup(p) \/ Abort(p)
  <2>1. proc' = [proc EXCEPT ![p] = Idle] /\ UNCHANGED <<log, drafts>>
    BY <1>2 DEF MergeNothing, SendPage, Lookup, Abort, Return
  <2>2. QED
    BY <2>1, IdleSound, SoundKept
<1>3. CASE EffectiveVersion(p)
  <2> DEFINE r == [old EXCEPT !.upto = LatestVersion, !.pc = "draft", !.next = "merge"]
  <2>1. /\ proc' = [proc EXCEPT ![p] = r] /\ UNCHANGED <<log, drafts>>
        /\ old.pc = "latest"
    BY <1>3 DEF EffectiveVersion, At
  <2>2. r.pc = "draft" /\ r.op = old.op
    BY <1>1 DEF Shaped, Fields
  <2> HIDE DEF r, old
  <2>3. Sound(r)
    BY <1>1, <2>1, <2>2 DEF Sound, Updating
  <2>4. QED
    BY <2>1, <2>3, SoundKept
<1>4. CASE CollapseDraft(p)
  <2> DEFINE draft == LatestDraft(old.upto)
             done == [old EXCEPT !.page = draft.mutations, !.pc = old.next]
             more == [old EXCEPT !.draft = draft, !.pc = "range"]
  <2>1. UNCHANGED <<log, drafts>> /\ old.pc = "draft" /\ Collapsing(old)
    BY <1>4 DEF CollapseDraft, At, Collapsing
  <2>2. Usable(draft) /\ draft.version <= old.upto
    <3> HIDE DEF old
    <3> QED BY <1>1, DraftUsable
  <2>3. CASE draft.version = old.upto
    <3>1. proc' = [proc EXCEPT ![p] = done]
      BY <1>4, <2>3 DEF CollapseDraft
    <3>2. done.page = draft.mutations /\ done.pc = old.next /\ done.op = old.op
      BY <1>1 DEF Shaped, Fields
    <3> HIDE DEF done, draft
    <3>3. Sound(done)
      BY <2>1, <2>2, <3>2, CollapseSound DEF Usable
    <3>4. QED
      BY <2>1, <3>1, <3>3, SoundKept
  <2>4. CASE draft.version # old.upto
    <3>1. proc' = [proc EXCEPT ![p] = more]
      BY <1>4, <2>4 DEF CollapseDraft
    <3>2. /\ more.draft = draft /\ more.pc = "range" /\ more.op = old.op
          /\ more.next = old.next /\ more.upto = old.upto
      BY <1>1 DEF Shaped, Fields
    <3>3. draft.version < old.upto
      BY <1>1, <2>2, <2>4 DEF Usable
    <3> HIDE DEF more, draft, old
    <3>4. Sound(more)
      BY <1>1, <2>1, <2>2, <3>2, <3>3 DEF Sound, Updating, Collapsing
    <3>5. QED
      BY <2>1, <3>1, <3>4, SoundKept
  <2>5. QED
    BY <2>3, <2>4
<1>5. CASE CollapseRange(p)
  <2> DEFINE r == [old EXCEPT !.page = CollapseOnto(old.draft, old.upto),
                              !.draft = NoDraft, !.pc = old.next]
  <2>1. /\ proc' = [proc EXCEPT ![p] = r] /\ UNCHANGED <<log, drafts>>
        /\ old.pc = "range" /\ Collapsing(old)
    BY <1>5 DEF CollapseRange, At, Collapsing
  <2>2. /\ r.page = CollapseOnto(old.draft, old.upto) /\ r.pc = old.next
        /\ r.op = old.op
    BY <1>1 DEF Shaped, Fields
  <2> HIDE DEF r
  <2>3. Usable(old.draft) /\ old.draft.version <= old.upto
    BY <1>1, <2>1 DEF Sound, Usable
  <2>4. IsDraft(r.page)
    BY <1>1, <2>2, <2>3, CollapsedSound
  <2>5. Sound(r)
    BY <2>1, <2>2, <2>4, CollapseSound
  <2>6. QED
    BY <2>1, <2>5, SoundKept
<1>6. CASE MergeFields(p)
  <2> DEFINE With(m) == [old EXCEPT !.new = Content(m.id, Merge(m.val, old.op.val)),
                                    !.page = <<>>, !.pc = "number"]
  <2>1. PICK m \in Elements(old.page) :
          m.id = old.op.id /\ proc' = [proc EXCEPT ![p] = With(m)]
    BY <1>6 DEF MergeFields
  <2>2. UNCHANGED <<log, drafts>> /\ old.pc = "merge"
    BY <1>6 DEF MergeFields, At
  <2> DEFINE r == With(m)
  <2>3. r.new = Content(m.id, Merge(m.val, old.op.val)) /\ r.pc = "number"
    BY <1>1 DEF Shaped, Fields
  <2>4. proc' = [proc EXCEPT ![p] = r]
    BY <2>1
  <2> HIDE DEF r, old
  <2>5. old.op \in Ops /\ old.op.kind = "update"
    BY <1>1, <2>2 DEF Sound, Updating
  <2>6. m.id # NoElem
    BY <2>1, <2>5, DraftLogAssumption DEF OpTyped
  <2>7. IsMutation(r.new)
    BY <2>3, <2>6 DEF Content, IsMutation, IsElement
  <2>8. Sound(r)
    BY <2>3, <2>7 DEF Sound, Updating, Collapsing
  <2>9. QED
    BY <2>2, <2>4, <2>8, SoundKept
<1>7. CASE NumberMutation(p)
  <2> DEFINE r == [old EXCEPT !.upto = LatestVersion + 1, !.pc = "insert"]
  <2>1. /\ proc' = [proc EXCEPT ![p] = r] /\ UNCHANGED <<log, drafts>>
        /\ old.pc = "number"
    BY <1>7 DEF NumberMutation, At
  <2>2. r.pc = "insert" /\ r.new = old.new
    BY <1>1 DEF Shaped, Fields
  <2> HIDE DEF r, old
  <2>3. Sound(r)
    BY <1>1, <2>1, <2>2 DEF Sound, Updating, Collapsing
  <2>4. QED
    BY <2>1, <2>3, SoundKept
<1>8. CASE Label(p)
  <2> DEFINE version == IF old.upto = MaxInt THEN LatestVersion ELSE old.upto
             r == [old EXCEPT !.label = version, !.pc = "reply"]
  <2>1. proc' = [proc EXCEPT ![p] = r] /\ UNCHANGED <<log, drafts>>
    BY <1>8 DEF Label
  <2>2. r.pc = "reply"
    BY <1>1 DEF Shaped, Fields
  <2> HIDE DEF r
  <2>3. Sound(r)
    BY <2>2 DEF Sound, Updating, Collapsing
  <2>4. QED
    BY <2>1, <2>3, SoundKept
<1>9. CASE InsertMutation(p) \/ InsertUnanswered(p)
  <2>1. PICK r \in {Idle, [old EXCEPT !.pc = "draft", !.next = "save"]} :
          proc' = [proc EXCEPT ![p] = r]
    BY <1>9 DEF InsertMutation, InsertUnanswered, Return
  <2>2. /\ Store(p) /\ UNCHANGED drafts /\ IsMutation(old.new)
        /\ Len(log) \in Nat /\ IsSequence(log)
    BY <1>1, <1>9, SequenceDomain
       DEF InsertMutation, InsertUnanswered, At, Sound, LogInv
  <2>3. Sound(r)
    <3>1. CASE r = Idle
      BY <3>1, IdleSound
    <3>2. CASE r = [old EXCEPT !.pc = "draft", !.next = "save"]
      <4>1. r.pc = "draft" /\ r.next = "save"
        BY <1>1, <3>2 DEF Shaped, Fields
      <4>2. QED
        BY <4>1 DEF Sound, Updating, Collapsing
    <3>3. QED
      BY <2>1, <3>1, <3>2
  <2>4. /\ Len(log') = Len(log) + 1
        /\ \A i \in 1..Len(log) : log'[i] = log[i]
        /\ log'[Len(log) + 1].mutation = old.new
    BY <2>2, AppendSequence DEF Store
  <2>5. ASSUME NEW i \in 1..Len(log') PROVE IsMutation(log'[i].mutation)
    <3>1. CASE i = Len(log) + 1
      BY <2>2, <2>4, <3>1
    <3>2. CASE i # Len(log) + 1
      <4>1. i \in 1..Len(log)
        BY <2>2, <2>4, <3>2
      <4>2. QED
        BY <2>4, <4>1 DEF AllSound
    <3>3. QED
      BY <3>1, <3>2
  <2>6. \A q \in Procs : Sound(proc'[q])
    <3> SUFFICES ASSUME NEW q \in Procs PROVE Sound(proc'[q])
      OBVIOUS
    <3>1. CASE q = p
      BY <1>1, <2>1, <2>3, <3>1
    <3>2. CASE q # p
      BY <1>1, <2>1, <3>2 DEF AllSound
    <3>3. QED
      BY <3>1, <3>2
  <2>7. QED
    BY <2>2, <2>5, <2>6 DEF AllSound
<1>10. CASE SaveDraft(p)
  <2> DEFINE new == [version |-> old.upto, mutations |-> old.page]
  <2>1. /\ proc' = [proc EXCEPT ![p] = Idle] /\ UNCHANGED log
        /\ drafts' = Append(drafts, new) /\ old.pc = "save"
        /\ IsSequence(drafts) /\ Len(drafts) \in Nat
    BY <1>10, SequenceDomain DEF SaveDraft, At, Return, LogInv
  <2>2. Usable(new)
    BY <1>1, <2>1 DEF Sound, Usable
  <2> HIDE DEF new
  <2>3. /\ Len(drafts') = Len(drafts) + 1
        /\ \A j \in 1..Len(drafts) : drafts'[j] = drafts[j]
        /\ drafts'[Len(drafts) + 1] = new
    BY <2>1, AppendSequence
  <2>4. ASSUME NEW j \in 1..Len(drafts') PROVE Usable(drafts'[j])
    <3>1. CASE j = Len(drafts) + 1
      BY <2>2, <2>3, <3>1
    <3>2. CASE j # Len(drafts) + 1
      <4>1. j \in 1..Len(drafts)
        BY <2>1, <2>3, <3>2
      <4>2. QED
        BY <2>3, <4>1 DEF AllSound
    <3>3. QED
      BY <3>1, <3>2
  <2>5. \A q \in Procs : Sound(proc'[q])
    <3> SUFFICES ASSUME NEW q \in Procs PROVE Sound(proc'[q])
      OBVIOUS
    <3>1. CASE q = p
      BY <1>1, <2>1, <3>1, IdleSound
    <3>2. CASE q # p
      BY <1>1, <2>1, <3>2 DEF AllSound
    <3>3. QED
      BY <3>1, <3>2
  <2>6. QED
    BY <2>1, <2>4, <2>5 DEF AllSound
<1>11. QED
  BY <1>2, <1>3, <1>4, <1>5, <1>6, <1>7, <1>8, <1>9, <1>10 DEF Step

LEMMA BeginSound ==
  ASSUME LogInv, AllSound,
         \/ \E p \in Writers, op \in Ops : BeginMutation(p, op)
         \/ \E p \in Readers, v \in Asked : BeginRead(p, v)
         \/ \E p \in Lookups : BeginLookup(p)
  PROVE  AllSound'
<1>1. ASSUME NEW p \in Procs, NEW r, Enter(p, r), UNCHANGED <<log, drafts>>, Sound(r)
      PROVE  AllSound'
  BY <1>1, SoundKept DEF Enter
<1>2. ASSUME NEW p \in Writers, NEW op \in Ops, BeginMutation(p, op)
      PROVE  AllSound'
  <2> DEFINE u == [Idle EXCEPT !.pc = "latest", !.op = op]
             m == [Idle EXCEPT !.pc = "number", !.op = op, !.new = Mutation(op)]
  <2>1. /\ Enter(p, IF op.kind = "update" THEN u ELSE m)
        /\ UNCHANGED <<log, drafts>> /\ p \in Procs
    BY <1>2 DEF BeginMutation, Procs
  <2>2. /\ u.pc = "latest" /\ u.op = op
        /\ m.pc = "number" /\ m.new = Mutation(op)
    BY DEF Idle
  <2> HIDE DEF u, m
  <2>3. CASE op.kind = "update"
    <3>1. Sound(u)
      BY <2>2, <2>3 DEF Sound, Updating, Collapsing
    <3>2. QED
      BY <1>1, <2>1, <2>3, <3>1
  <2>4. CASE op.kind # "update"
    <3>1. OpTyped(op)
      BY DraftLogAssumption
    <3>2. IsMutation(Mutation(op))
      <4>1. CASE op.kind = "revert"
        <5>1. Mutation(op) = Reversion(op.count) /\ op.count \in Nat \ {0}
          BY <3>1, <4>1 DEF Mutation, OpTyped
        <5>2. QED
          BY <5>1 DEF Reversion, IsMutation, IsElement
      <4>2. CASE op.kind # "revert"
        <5>1. op.kind \in {"create", "delete"} /\ op.id # NoElem
          BY <2>4, <3>1, <4>2 DEF OpTyped, Kinds
        <5>2. Mutation(op) = Content(op.id, op.val) \/ Mutation(op) = Deletion(op.id)
          BY <5>1 DEF Mutation
        <5>3. QED
          BY <5>1, <5>2 DEF Content, Deletion, IsMutation, IsElement
      <4>3. QED
        BY <4>1, <4>2
    <3>3. Sound(m)
      BY <2>2, <3>2 DEF Sound, Updating, Collapsing
    <3>4. QED
      BY <1>1, <2>1, <2>4, <3>3
  <2>5. QED
    BY <2>3, <2>4
<1>3. ASSUME NEW p \in Readers, NEW v \in Asked, BeginRead(p, v)
      PROVE  AllSound'
  <2> DEFINE r == [Idle EXCEPT !.pc = "draft", !.upto = v, !.next = "label",
                               !.start = Len(log)]
  <2>1. Enter(p, r) /\ UNCHANGED <<log, drafts>> /\ p \in Procs
    BY <1>3 DEF BeginRead, Procs
  <2>2. r.pc = "draft" /\ r.next = "label"
    BY DEF Idle
  <2> HIDE DEF r
  <2>3. Sound(r)
    BY <2>2 DEF Sound, Updating, Collapsing
  <2>4. QED
    BY <1>1, <2>1, <2>3
<1>4. ASSUME NEW p \in Lookups, BeginLookup(p)
      PROVE  AllSound'
  <2> DEFINE r == [Idle EXCEPT !.pc = "project"]
  <2>1. Enter(p, r) /\ UNCHANGED <<log, drafts>> /\ p \in Procs
    BY <1>4 DEF BeginLookup, Procs
  <2>2. r.pc = "project"
    BY DEF Idle
  <2> HIDE DEF r
  <2>3. Sound(r)
    BY <2>2 DEF Sound, Updating, Collapsing
  <2>4. QED
    BY <1>1, <2>1, <2>3
<1>5. QED
  BY <1>2, <1>3, <1>4

LEMMA SoundNext == LogInv /\ Numbered /\ AllSound /\ [Next]_vars => AllSound'
<1> SUFFICES ASSUME LogInv, Numbered, AllSound, [Next]_vars PROVE AllSound'
  OBVIOUS
<1>1. CASE Crash
  <2>1. UNCHANGED <<log, drafts>> /\ \A p \in Procs : proc'[p] = Idle
    BY <1>1 DEF Crash
  <2>2. QED
    BY <2>1, IdleSound DEF AllSound
<1>2. CASE ExpireDraft \/ ExpireMutation \/ UNCHANGED vars
  BY <1>2 DEF ExpireDraft, ExpireMutation, vars, AllSound
<1>3. QED
  BY <1>1, <1>2, StepSound, BeginSound DEF Next

\* Neighbours in the log, in the order of insertion.
LEMMA InOrderSlice ==
  ASSUME NEW s \in Nat, NEW size \in Nat
  PROVE  InOrder(s + 1 .. s + size) = [k \in 1..size |-> log[s + k].mutation]
<1> DEFINE some == s + 1 .. s + size
           nth(k) == CHOOSE i \in some : Cardinality({j \in some : j < i}) = k - 1
<1>1. ASSUME NEW i \in some
      PROVE  Cardinality({j \in some : j < i}) = i - 1 - s
  <2>1. {j \in some : j < i} = s + 1 .. i - 1
    OBVIOUS
  <2>2. /\ i - 1 \in Int /\ s + 1 \in Int
        /\ (IF s + 1 > i - 1 THEN 0 ELSE (i - 1) - (s + 1) + 1) = i - 1 - s
    OBVIOUS
  <2>3. QED
    BY <2>1, <2>2, FS_Interval
<1>2. Cardinality(some) = size
  <2>1. /\ s + size \in Int /\ s + 1 \in Int
        /\ (IF s + 1 > s + size THEN 0 ELSE s + size - (s + 1) + 1) = size
    OBVIOUS
  <2>2. QED
    BY <2>1, FS_Interval
<1>3. ASSUME NEW k \in 1..size PROVE nth(k) = s + k
  <2> DEFINE i == s + k
  <2>1. i \in some /\ i - 1 - s = k - 1
    OBVIOUS
  <2> HIDE DEF i, some
  <2>2. Cardinality({j \in some : j < i}) = k - 1
    BY <1>1, <2>1
  <2>3. ASSUME NEW l \in some, Cardinality({j \in some : j < l}) = k - 1
        PROVE  l = i
    <3>1. l - 1 - s = k - 1 /\ l \in Int
      BY <1>1, <2>3 DEF some
    <3>2. QED
      BY <2>1, <3>1 DEF i
  <2>4. nth(k) = i
    BY <2>1, <2>2, <2>3
  <2>5. QED
    BY <2>4 DEF i
<1>4. InOrder(some) = [k \in 1..Cardinality(some) |-> log[nth(k)].mutation]
  BY DEF InOrder
<1> HIDE DEF nth, some
<1>5. InOrder(some) = [k \in 1..size |-> log[s + k].mutation]
  BY <1>2, <1>3, <1>4
<1>6. QED
  BY <1>5 DEF some

LEMMA OnlyLinger ==
  ASSUME LogInv, Numbered, AllSound
  PROVE  OnlyDraftsLinger
<1> DEFINE n == Len(log)
           d == LatestDraft(MaxInt)
           from == d.version + 1
           after == {i \in Mutations : log[i].version > d.version}
           rest == InOrder(after)
           shown == VersionPage(MaxInt)
<1>1. MaxInt \in Nat /\ n \in Nat /\ n <= MaxInt
  BY LogBounded, DraftLogAssumption DEF MaxInt
<1>2. /\ Usable(d) /\ d.version \in Nat /\ d.version <= MaxInt
      /\ from \in Nat /\ from <= MaxInt + 1 /\ from = d.version + 1
  BY <1>1, DraftUsable DEF Usable
<1>3. PICK b \in 0 .. swept.log : NumberedFrom(b)
  BY DEF Numbered
<1>4. /\ b \in Nat /\ swept.log \in Nat /\ b <= swept.log /\ swept.log <= n
      /\ Mutations = swept.log + 1 .. n
      /\ \A i \in Mutations : log[i].version = i - b
  BY <1>3, LatestOfNumbered DEF NumberedFrom
<1>5. shown = Elements(CollapseOnto(d, MaxInt))
  BY DEF VersionPage
<1> HIDE DEF n, d, from
<1>6. PICK s \in 0 .. n : \E size \in 0 .. n - s : LiesAt(from, MaxInt, s, size, b)
  BY <1>1, <1>2, <1>3, RangeLies DEF n
<1>7. PICK size \in 0 .. n - s : LiesAt(from, MaxInt, s, size, b)
  BY <1>6
<1>8. s \in Nat /\ size \in Nat /\ s + size \in 0 .. n
  BY <1>1, <1>7
<1>9. after = s + 1 .. s + size
  <2>1. \A i \in Mutations : log[i].version > d.version <=> log[i].version \in from .. MaxInt
    <3> SUFFICES ASSUME NEW i \in Mutations
                 PROVE  i - b > d.version <=> i - b \in from .. MaxInt
      BY <1>4
    <3>1. i \in Nat /\ i <= n
      BY <1>1, <1>4
    <3>2. i - b \in Int /\ i - b <= MaxInt
      BY <1>1, <1>4, <3>1
    <3>3. QED
      BY <1>1, <1>2, <3>2
  <2>2. /\ \A i \in s + 1 .. s + size : i \in Mutations /\ log[i].version \in from .. MaxInt
        /\ \A i \in Mutations : log[i].version \in from .. MaxInt => i \in s + 1 .. s + size
    BY <1>7 DEF LiesAt
  <2>3. QED
    BY <2>1, <2>2
<1>10. s + size = n \/ size = 0
  <2> SUFFICES ASSUME size # 0 PROVE s + size = n
    OBVIOUS
  <2>1. s + 1 \in Mutations /\ log[s + 1].version > d.version
    BY <1>8, <1>9
  <2>2. n \in Mutations /\ n - b >= s + 1 - b
    BY <1>1, <1>4, <1>8, <2>1
  <2>3. n \in after
    BY <1>1, <1>2, <1>4, <1>8, <2>1, <2>2
  <2>4. QED
    BY <1>8, <1>9, <2>3
<1> HIDE DEF after
<1>11. rest = [k \in 1..size |-> log[s + k].mutation]
  BY <1>8, <1>9, InOrderSlice
<1> HIDE DEF rest
<1>12. /\ IsHistory(rest) /\ IsHistory(Prefix(log, s + size)) /\ IsHistory(Prefix(log, s))
       /\ Joins(Prefix(log, s + size), Prefix(log, s), rest)
  BY <1>7, <1>11, SliceSound DEF n
<1>13. size = 0 => rest = <<>>
  BY <1>11
<1>14. Page(rest) \subseteq Page(FirstOf(n))
  <2>1. CASE size = 0
    BY <1>13, <2>1, EmptyHistory
  <2>2. CASE s + size = n
    <3>1. FirstOf(n) = Prefix(log, s + size)
      BY <2>2 DEF FirstOf, Prefix
    <3>2. QED
      BY <1>12, <3>1, SuffixForgets
  <2>3. QED
    BY <1>10, <2>1, <2>2
<1>15. /\ Page(rest) \subseteq shown
       /\ shown \subseteq Page(rest) \cup Untouched(rest, Elements(d.mutations))
  <2>1. CASE d.version = MaxInt
    <3>1. shown = Elements(d.mutations)
      BY <1>5, <2>1 DEF CollapseOnto
    <3>2. size = 0
      <4> SUFFICES ASSUME size # 0 PROVE FALSE
        OBVIOUS
      <4>1. s + 1 \in Mutations /\ s + 1 - b \in from .. MaxInt
        BY <1>7, <1>8 DEF LiesAt
      <4>2. QED
        BY <1>1, <1>2, <1>8, <2>1, <4>1
    <3>3. Page(rest) = {} /\ InEffect(rest) = <<>>
      BY <1>13, <3>2, EmptyHistory, DraftInEffect
    <3>4. QED
      BY <3>1, <3>3 DEF Untouched
  <2>2. CASE d.version # MaxInt
    <3>1. MutationsInRange(from, MaxInt) = rest
      <4>1. /\ from \in Nat /\ MaxInt \in Nat /\ s \in Nat /\ size \in Nat /\ b \in Nat
            /\ LiesAt(from, MaxInt, s, size, b)
        BY <1>1, <1>2, <1>4, <1>7, <1>8
      <4>2. MutationsInRange(from, MaxInt) = [k \in 1..size |-> log[s + k].mutation]
        BY <4>1, RangeFound, SMTT(20)
      <4>3. QED
        BY <1>11, <4>2
    <3>2. shown = Elements(Collapse(d.mutations \o rest))
      BY <1>2, <1>5, <2>2, <3>1 DEF CollapseOnto
    <3>3. QED
      BY <1>2, <1>12, <3>2, DraftOnTop DEF Usable
  <2>3. QED
    BY <2>1, <2>2
<1>16. DOMAIN InEffect(rest) = 1..Len(InEffect(rest))
  BY <1>12, EffectSequence
<1> HIDE DEF shown
<1>17. ASSUME NEW e \in shown \ Page(rest)
       PROVE  /\ e \in Elements(d.mutations)
              /\ \A k \in DOMAIN InEffect(rest) : InEffect(rest)[k].id # e.id
  BY <1>15, <1>16, <1>17 DEF Untouched
<1>18. QED
  BY <1>14, <1>15, <1>17 DEF OnlyDraftsLinger, rest, after, shown, d, n

\* Whatever expires and whenever, with failures and crashes anywhere, any number
\* of readers and whatever clients revert: the latest page shows all that the
\* mutations after the newest draft make of it, as the whole history would, and
\* besides only what is in that draft and not touched by them, while one
\* mutation is served at a time.
THEOREM OnlyDraftsLingerHolds == OneAtATime /\ Spec => []OnlyDraftsLinger
<1> SUFFICES ASSUME OneAtATime PROVE Spec => []OnlyDraftsLinger
  OBVIOUS
<1>1. Init => AllSound
  <2> SUFFICES ASSUME Init PROVE AllSound
    OBVIOUS
  <2>1. Len(log) = 0 /\ Len(drafts) = 0 /\ \A p \in Procs : proc[p] = Idle
    BY DEF Init
  <2>2. QED
    BY <2>1, IdleSound DEF AllSound
<1>2. Init => Numbered /\ AtHead
  BY NumberedInit
<1>3. LogInv /\ AtHead /\ Numbered /\ [Next]_vars => Numbered'
  BY NumberedNext
<1>4. LogInv /\ Numbered /\ AllSound => OnlyDraftsLinger
  BY OnlyLinger
<1>5. QED
  BY <1>1, <1>2, <1>3, <1>4, LogInit, LogNext, AtHeadNext, SoundNext, PTL DEF Spec

=============================================================================
