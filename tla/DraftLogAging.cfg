SPECIFICATION FairSpec

CONSTANTS
  Writers = {w1}
  Readers = {}
  Lookups = {g1}
  Ops <- AgingOps
  Asked <- SomeVersions
  Threshold = 2
  Capacity = 1
  MaxLog = 4
  Shallow = FALSE
  Expiry = TRUE
  NoElem = NoElem
  NoVal = NoVal
  NoOp = NoOp

INVARIANT VersionsConsecutive
INVARIANT OnlyDraftsLinger
PROPERTY EveryRequestReturns
