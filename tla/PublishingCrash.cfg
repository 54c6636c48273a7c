SPECIFICATION Spec

CONSTANTS
  Pubs = {a, b}
  Projects = {"p1"}
  Users = {"u1"}
  Owner <- OneOwner
  Reqs = {r1, r2}
  Files = {"index.html", "app.css"}
  Index = "index.html"
  Snapshots = {"s1", "s2"}
  Bundle <- McBundle
  Budget <- CrashFaults
  NoDoc = NoDoc
  NoPub = NoPub
  NoSnapshot = NoSnapshot
  NoUser = NoUser

SYMMETRY Symmetric

INVARIANT TypeOK
INVARIANT FinishedHasBundle
INVARIANT AnsweredDeletionIsComplete
INVARIANT AcceptedIsQueued
PROPERTY SnapshotImmutable
PROPERTY RefinesLifecycle
