----------------------------- MODULE MCDraftLog -----------------------------
(* Small instances of DraftLog for TLC. *)
EXTENDS DraftLog, TLC

Create(e, x, y) ==
  [kind |-> "create", id |-> e, val |-> [x |-> x, y |-> y], count |-> 0]
Change(e, fields) ==
  [kind |-> "update", id |-> e, val |-> fields, count |-> 0]
Delete(e) == [kind |-> "delete", id |-> e, val |-> NoVal, count |-> 0]
Revert(n) == [kind |-> "revert", id |-> NoElem, val |-> NoVal, count |-> n]

\* The life of one element, a field of which is updated.
EditorOps == {Create("a", 0, 0), Change("a", [x |-> 1]), Delete("a"),
              Revert(1), Revert(2)}
TwoElements == {Create("a", 0, 0), Create("b", 0, 0), Delete("a")}
RevertOps == {Create("a", 0, 0), Create("b", 0, 0), Revert(1)}
AgingOps == {Create("a", 0, 0), Delete("a"), Revert(2)}
\* A version that gets a draft, one that does not, and the latest.
SomeVersions == {2, 3, MaxInt}

Symmetric == Permutations(Writers) \cup Permutations(Readers)

=============================================================================
