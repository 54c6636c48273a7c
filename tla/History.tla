------------------------------- MODULE History -------------------------------
(***************************************************************************)
(* The pure part of storage.DraftService: how a sequence of mutations, in  *)
(* the order of their versions, collapses into the elements of a page      *)
(* (resolveMutations, dedupElementMutations), and a reference definition   *)
(* of what that history means.                                             *)
(***************************************************************************)
EXTENDS Integers, Sequences, FiniteSets

CONSTANTS
  NoElem,  \* "no element": the id of a revert
  NoVal    \* "no content": of a deletion and of a revert

\* A mutation: a new content of an element, the deletion of an element, or
\* the revert of the n mutations before it.
Content(e, val) == [id |-> e, val |-> val, deleted |-> FALSE, revert |-> 0]
Deletion(e) == [id |-> e, val |-> NoVal, deleted |-> TRUE, revert |-> 0]
Reversion(n) == [id |-> NoElem, val |-> NoVal, deleted |-> FALSE, revert |-> n]

IsRevert(m) == m.revert > 0
IsElement(m) == m.id # NoElem

-----------------------------------------------------------------------------
(* The code's algorithm. *)

\* Variant of Newest: one more.
NewestAndOne(S, n) == {i \in S : Cardinality({j \in S : j > i}) <= n}

\* The n largest numbers of S.
Newest(S, n) == {i \in S : Cardinality({j \in S : j > i}) < n}

\* Elements of S in descending order.
Descending(S) ==
  [k \in 1..Cardinality(S) |->
     CHOOSE i \in S : Cardinality({j \in S : j > i}) = k - 1]

\* Variant of ActiveFrom: a reverted revert still reverts.
StubbornActiveFrom(combined) ==
  LET n == Len(combined)
      active[i \in 1 .. n + 1] ==
        IF i = n + 1 THEN 1 .. n
        ELSE LET later == active[i + 1] IN
             IF IsRevert(combined[i])
             THEN (later \ {i}) \ Newest({j \in later : j < i}, combined[i].revert)
             ELSE later
  IN  active[1]

\* resolveMutations: the positions still active once position i and every
\* later one have been looked at, from the newest to the oldest.
Activity(combined) ==
  LET n == Len(combined)
      active[i \in 1 .. n + 1] ==
        IF i = n + 1 THEN 1 .. n
        ELSE LET later == active[i + 1] IN
             IF i \in later /\ IsRevert(combined[i])
             THEN (later \ {i}) \ Newest({j \in later : j < i}, combined[i].revert)
             ELSE later
  IN  active

ActiveFrom(combined) == Activity(combined)[1]

\* resolveMutations: the positions of the element mutations that remain.
Survivors(combined) ==
  {i \in ActiveFrom(combined) : IsElement(combined[i])}

\* Variant of Dedup: a deletion is skipped, what it deleted shows again.
SkippingDedup(combined, survivors) ==
  LET live == {i \in survivors : ~combined[i].deleted}
      kept == {i \in live : \A j \in live :
                 combined[j].id = combined[i].id => j <= i}
  IN  [k \in 1..Cardinality(kept) |-> combined[Descending(kept)[k]]]

\* Variant of Dedup: the oldest mutation of an element is kept.
OldestDedup(combined, survivors) ==
  LET oldest == {i \in survivors : \A j \in survivors :
                   combined[j].id = combined[i].id => j >= i}
      kept == {i \in oldest : ~combined[i].deleted}
  IN  [k \in 1..Cardinality(kept) |-> combined[Descending(kept)[k]]]

\* dedupElementMutations of the survivors: the newest mutation of each
\* element, unless it is a deletion; the newest element comes first.
Dedup(combined, survivors) ==
  LET newest == {i \in survivors : \A j \in survivors :
                   combined[j].id = combined[i].id => j <= i}
      kept == {i \in newest : ~combined[i].deleted}
  IN  [k \in 1..Cardinality(kept) |-> combined[Descending(kept)[k]]]

Collapse(combined) == Dedup(combined, Survivors(combined))

Elements(page) == {page[k] : k \in DOMAIN page}

-----------------------------------------------------------------------------
(* The reference: undo by going back. *)

\* effect[i]: the mutations in effect after the first i of a history.  A revert
\* of n brings back what was in effect before the n mutations that precede it.
EffectAfter(history) ==
  LET effect[i \in 0 .. Len(history)] ==
        IF i = 0 THEN <<>>
        ELSE IF IsRevert(history[i])
             THEN effect[IF history[i].revert < i THEN i - 1 - history[i].revert
                                                  ELSE 0]
             ELSE Append(effect[i - 1], history[i])
  IN  effect

InEffect(history) == EffectAfter(history)[Len(history)]

\* The last content given to each element, if the last thing that happened to
\* the element is not its deletion.
Shown(effect) ==
  LET Last(i) == \A j \in DOMAIN effect : effect[j].id = effect[i].id => j <= i
  IN  {effect[i] : i \in {k \in DOMAIN effect : Last(k) /\ ~effect[k].deleted}}

\* The page of a history.
Page(history) == Shown(InEffect(history))

=============================================================================
