SPECIFICATION FairSpec

CONSTANTS
  Pubs = {a}
  Projects = {"p1"}
  Users = {"u1"}
  Owner <- OneOwner
  Reqs = {r1}
  Files = {"index.html", "app.css"}
  Index = "index.html"
  Snapshots = {"s1", "s2"}
  Bundle <- McBundle
  Budget <- NoFaults
  NoDoc = NoDoc
  NoPub = NoPub
  NoSnapshot = NoSnapshot
  NoUser = NoUser

INVARIANT NoOrphanBundle
