---------------------------- MODULE MCPublishing ----------------------------
(* Small instances of Publishing for TLC. *)
EXTENDS Publishing, TLC

\* Two users, a project each.
TwoOwners == [p \in Projects |-> IF p = "p1" THEN "u1" ELSE "u2"]
OneOwner == [p \in Projects |-> "u1"]

\* s1 renders to a page with a stylesheet, s2 and s4 to pages without one, s3
\* to a bundle that lacks index.html.
McBundle == [s \in Snapshots |-> CASE s = "s1" -> {"index.html", "app.css"}
                                   [] s \in {"s2", "s4"} -> {"index.html"}
                                   [] s = "s3" -> {"app.css"}]

Symmetric == Permutations(Reqs) \cup Permutations(Pubs)

Faults(f) == [k \in FaultKinds |-> IF k \in DOMAIN f THEN f[k] ELSE 0]

CrashFaults == Faults([fail |-> 1, crash |-> 1, conn |-> 1])
RestartFaults == Faults([fail |-> 2, lost |-> 1, drop |-> 1, partial |-> 1,
                         crash |-> 1, stop |-> 1, ttl |-> 1])
OneConn == Faults([conn |-> 1])
NoFaults == [k \in FaultKinds |-> 0]

=============================================================================
