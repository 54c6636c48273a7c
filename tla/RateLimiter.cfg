SPECIFICATION Spec

CONSTANTS
  Projects = {p1, p2}
  Limit = 2
  Window = 4
  Second = 2
  MaxTime = 8

SYMMETRY Symmetric

INVARIANT LimiterTypeOK
INVARIANT AtMostLimit
INVARIANT MemoryBounded
PROPERTY ImplementsWindow
