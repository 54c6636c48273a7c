SPECIFICATION FairSpec

CONSTANTS
  Pubs = {a}
  Projects = {"p1", "p2"}
  Users = {"u1", "u2"}
  Owner <- TwoOwners
  Reqs = {r1}
  Files = {"index.html", "app.css"}
  Index = "index.html"
  Snapshots = {"s2", "s3"}
  Bundle <- McBundle
  Budget <- RestartFaults
  NoDoc = NoDoc
  NoPub = NoPub
  NoSnapshot = NoSnapshot
  NoUser = NoUser

INVARIANT ProcessingHasTask
PROPERTY RemovedStaysRemoved
PROPERTY OnlyOwnerDeletes
PROPERTY TaskSettles
