---------------------------- MODULE HistoryProofs ----------------------------
(***************************************************************************)
(* The algorithm of History against its reference, for every history that  *)
(* MCHistory builds, of any elements, contents and reverts and of any      *)
(* length.                                                                 *)
(***************************************************************************)
EXTENDS MCHistory, HistoryLemmas

\* The inductive invariant: mutations of the three kinds, and none about the
\* element that reverts have for an id.
Fits == IsHistory(history)

LEMMA ExtendsHistory ==
  Fits /\ [Next]_history => Fits'
<1> SUFFICES ASSUME Fits, [Next]_history PROVE IsHistory(history')
  BY DEF Fits
<1> USE DEF Fits
<1>1. CASE UNCHANGED history
  BY <1>1
<1>2. ASSUME NEW m \in Mutations, history' = Append(history, m)
      PROVE  IsHistory(history')
  <2>1. IsMutation(m)
    BY MCHistoryAssumption
       DEF Mutations, Content, Deletion, Reversion, IsMutation, IsElement
  <2>2. IsSequence(history) /\ Len(history) \in Nat
    BY HistoryDomain DEF IsHistory
  <2>3. /\ IsSequence(history') /\ Len(history') = Len(history) + 1
        /\ \A i \in 1 .. Len(history) : history'[i] = history[i]
        /\ history'[Len(history) + 1] = m
    BY <1>2, <2>2, AppendSequence
  <2>4. ASSUME NEW i \in 1 .. Len(history') PROVE IsMutation(history'[i])
    <3>1. i \in 1 .. Len(history) \/ i = Len(history) + 1
      BY <2>2, <2>3
    <3>2. QED
      BY <2>1, <2>3, <3>1 DEF IsHistory
  <2>5. QED
    BY <2>3, <2>4 DEF IsHistory
<1>3. QED
  BY <1>1, <1>2 DEF Next, Extend

LEMMA StartsHistory == Init => Fits
BY EmptyHistory DEF Init, IsDraft, Fits

\* resolveMutations, which walks back over the log and drops what reverts
\* count, leaves exactly the mutations in effect, in their order: however many
\* reverts there are, also of reverts and past the beginning.
THEOREM ResolveUndoes == Spec => []ResolveIsUndo
<1>1. Fits => ResolveIsUndo
  <2> SUFFICES ASSUME IsHistory(history) PROVE ResolveIsUndo
    BY DEF Fits
  <2> DEFINE s == Survivors(history)
  <2>1. [k \in 1..Cardinality(s) |->
           history[CHOOSE i \in s : Cardinality({j \in s : j < i}) = k - 1]]
          = InEffect(history)
    BY ResolvedAreInEffect
  <2>2. QED
    BY <2>1, Zenon DEF ResolveIsUndo
<1>2. QED
  BY <1>1, StartsHistory, ExtendsHistory, PTL DEF Spec

\* What collapse yields is the page of the history, no element twice.
THEOREM CollapseYieldsPage == Spec => []CollapseIsPage
<1>1. Fits => CollapseIsPage
  BY CollapsesToPage, Zenon DEF CollapseIsPage, Fits
<1>2. QED
  BY <1>1, StartsHistory, ExtendsHistory, PTL DEF Spec

\* A stored draft may stand for the mutations before it wherever no later
\* revert reaches it.
THEOREM CheckpointsTransparent == Spec => []CheckpointIsTransparent
<1>1. ASSUME IsHistory(history), NEW k \in 0 .. Len(history), Confined(k)
      PROVE  LET draft == Collapse(SubSeq(history, 1, k))
                 rest == SubSeq(history, k + 1, Len(history))
             IN  Elements(Collapse(draft \o rest)) = Page(history)
  <2> DEFINE n == Len(history)
             a == SubSeq(history, 1, k)
             rest == SubSeq(history, k + 1, n)
  <2>1. n \in Nat /\ \A i \in 1 .. n : IsMutation(history[i])
    BY <1>1, HistoryDomain DEF IsHistory
  <2>2. /\ a = [i \in 1 .. k |-> history[i]]
        /\ rest = [i \in 1 .. n - k |-> history[k + i]]
    BY <2>1 DEF IsHistory
  <2> HIDE DEF n, a, rest
  <2>3. IsHistory(a) /\ Len(a) = k /\ \A i \in 1 .. k : a[i] = history[i]
    <3>1. k \in Nat /\ a = [i \in 1 .. k |-> a[i]] /\ \A i \in 1 .. k : a[i] = history[i]
      BY <1>1, <2>1, <2>2 DEF n
    <3>2. \A i \in 1 .. k : IsMutation(a[i])
      BY <1>1, <2>1, <3>1 DEF n
    <3>3. QED
      BY <3>1, <3>2, HistoryOf
  <2>4. IsHistory(rest) /\ Len(rest) = n - k /\ \A i \in 1 .. n - k : rest[i] = history[k + i]
    <3>1. /\ n - k \in Nat /\ rest = [i \in 1 .. n - k |-> rest[i]]
          /\ \A i \in 1 .. n - k : rest[i] = history[k + i] /\ k + i \in 1 .. n
      BY <1>1, <2>1, <2>2 DEF n
    <3>2. \A i \in 1 .. n - k : IsMutation(rest[i])
      BY <2>1, <3>1
    <3>3. QED
      BY <3>1, <3>2, HistoryOf
  <2>5. Joins(history, a, rest)
    BY <1>1, <2>1, <2>3, <2>4 DEF Joins, n
  <2>6. Within(rest)
    <3> SUFFICES ASSUME NEW i \in 1 .. n - k, IsRevert(rest[i])
                 PROVE  rest[i].revert < i
      BY <2>4 DEF Within
    <3>1. k + i \in k + 1 .. n /\ k + i \in 1 .. n /\ rest[i] = history[k + i]
      BY <1>1, <2>1, <2>4 DEF n
    <3>2. IsRevert(history[k + i])
      BY <3>1
    <3>3. (k + i) - history[k + i].revert > k
      BY <1>1, <3>1, <3>2 DEF Confined, n
    <3>4. rest[i].revert \in Nat /\ rest[i] = history[k + i]
      BY <2>1, <3>1 DEF IsMutation
    <3>5. QED
      BY <1>1, <2>1, <3>3, <3>4
  <2>7. IsDraft(Collapse(a)) /\ Elements(Collapse(a)) = Page(a)
    BY <2>3, CollapsesToPage
  <2>8. Elements(Collapse(Collapse(a) \o rest)) = Page(history)
    BY <1>1, <2>3, <2>4, <2>5, <2>6, <2>7, Checkpoint
  <2>9. QED
    BY <2>8 DEF a, rest, n
<1>2. Fits => CheckpointIsTransparent
  BY <1>1 DEF CheckpointIsTransparent, Fits
<1>3. QED
  BY <1>2, StartsHistory, ExtendsHistory, PTL DEF Spec

=============================================================================
