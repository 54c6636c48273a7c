SPECIFICATION DeliveryFairSpec

CONSTANTS
  Pubs = {a}
  Projects = {"p1"}
  Users = {"u1"}
  Owner <- OneOwner
  Reqs = {r1}
  Files = {"index.html"}
  Index = "index.html"
  Snapshots = {"s2", "s4"}
  Bundle <- McBundle
  Budget <- DeliveryFaults
  NoDoc = NoDoc
  NoPub = NoPub
  NoSnapshot = NoSnapshot
  NoUser = NoUser
  Uris = {"/index.html", "/index.html?v"}
  Canonical = "/index.html"
  CachePathSet = TRUE
  NoEntry = NoEntry
  NotFound = NotFound

INVARIANT DeliveryTypeOK
PROPERTY NoNewStaleAnswers
PROPERTY DeletedPageFadesOut
PROPERTY FinishedPageComesThrough
