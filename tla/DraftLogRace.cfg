SPECIFICATION Spec

CONSTANTS
  Writers = {w1, w2}
  Readers = {}
  Lookups = {}
  Ops <- TwoElements
  Asked <- SomeVersions
  Threshold = 2
  Capacity = 2
  MaxLog = 3
  Shallow = TRUE
  Expiry = FALSE
  NoElem = NoElem
  NoVal = NoVal
  NoOp = NoOp

SYMMETRY Symmetric

INVARIANT AckedTakesEffect
