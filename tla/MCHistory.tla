------------------------------ MODULE MCHistory ------------------------------
(***************************************************************************)
(* Every history of at most MaxLen mutations, built one mutation at a      *)
(* time, to compare the algorithm of History with its reference.           *)
(***************************************************************************)
EXTENDS History

CONSTANTS Elems, Vals, MaxRevert, MaxLen

ASSUME MCHistoryAssumption == NoElem \notin Elems

VARIABLE history

Mutations ==
  {Content(e, v) : e \in Elems, v \in Vals}
    \cup {Deletion(e) : e \in Elems}
    \cup {Reversion(n) : n \in 1..MaxRevert}

Init == history = <<>>

Extend(m) == Len(history) < MaxLen /\ history' = Append(history, m)

Next == \E m \in Mutations : Extend(m)

Spec == Init /\ [][Next]_history

\* The mutations that survive resolveMutations are, in order, the ones in
\* effect, also when reverts revert reverts or reach past the beginning
\* (service.go, resolveMutations, issue #52).
ResolveIsUndo ==
  LET s == Survivors(history)
      up == [k \in 1..Cardinality(s) |->
               history[CHOOSE i \in s : Cardinality({j \in s : j < i}) = k - 1]]
  IN  up = InEffect(history)

\* The elements that collapse yields are the page of the history, none twice
\* (service.go, dedupElementMutations).
CollapseIsPage ==
  /\ Elements(Collapse(history)) = Page(history)
  /\ Len(Collapse(history)) = Cardinality(Page(history))

\* Where a revert at or after position k does not reach k or what precedes
\* it, collapsing the first k mutations first and the rest on top of them
\* gives the same page as collapsing everything (service.go,
\* collapseMutations: a stored draft stands for the mutations before it).
Confined(k) ==
  \A i \in k + 1 .. Len(history) :
    IsRevert(history[i]) => i - history[i].revert > k

CheckpointIsTransparent ==
  \A k \in 0 .. Len(history) :
    LET draft == Collapse(SubSeq(history, 1, k))
        rest == SubSeq(history, k + 1, Len(history))
    IN  Confined(k) => Elements(Collapse(draft \o rest)) = Page(history)

=============================================================================
