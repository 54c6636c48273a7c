SPECIFICATION Spec

CONSTANTS
  NoElem = NoElem
  NoVal = NoVal
  Elems = {a, b}
  Vals = {1}
  MaxRevert = 3
  MaxLen = 6

INVARIANT ResolveIsUndo
INVARIANT CollapseIsPage
INVARIANT CheckpointIsTransparent

CHECK_DEADLOCK FALSE
