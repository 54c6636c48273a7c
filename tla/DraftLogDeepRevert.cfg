SPECIFICATION Spec

CONSTANTS
  Writers = {w1}
  Readers = {}
  Lookups = {}
  Ops <- RevertOps
  Asked <- SomeVersions
  Threshold = 2
  Capacity = 1
  MaxLog = 4
  Shallow = FALSE
  Expiry = FALSE
  NoElem = NoElem
  NoVal = NoVal
  NoOp = NoOp

INVARIANT RevertRestores
