SPECIFICATION Spec

CONSTANTS
  Writers = {w1}
  Readers = {r1}
  Lookups = {}
  Ops <- EditorOps
  Asked <- SomeVersions
  Threshold = 2
  Capacity = 2
  MaxLog = 4
  Shallow = TRUE
  Expiry = FALSE
  NoElem = NoElem
  NoVal = NoVal
  NoOp = NoOp

INVARIANT TypeOK
INVARIANT VersionsConsecutive
INVARIANT VersionPageIsHistory
INVARIANT AckedTakesEffect
INVARIANT RevertRestores
PROPERTY ImplementsPageHistory
