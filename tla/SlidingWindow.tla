---------------------------- MODULE SlidingWindow ----------------------------
(***************************************************************************)
(* What the limit on mutations promises: a project gets a request through  *)
(* exactly when fewer than Limit of its requests went through during the   *)
(* last Window.  A refusal says in its text the shortest wait after which, *)
(* if nobody else comes first, the next request goes through; its header   *)
(* Retry-After counts the whole seconds of that wait, so that a client     *)
(* that obeys the header comes up to a second early and is refused again.  *)
(***************************************************************************)
EXTENDS Integers, Sequences, FiniteSets

CONSTANTS
  Projects,
  Limit,   \* requests per window
  Window,  \* the length of the window
  Second   \* a second, in units of the clock

VARIABLES
  now,     \* the time
  stamps,  \* stamps[p][i]: when the i-th request of project p went through
  answer   \* the latest answer: [project, wait, seconds], 0 and 0 if admitted

window == <<now, stamps, answer>>

Admitted(p) == [project |-> p, wait |-> 0, seconds |-> 0]

NoAnswer == Admitted("none")

\* The requests of p that count at time t.
Recent(p, t) == {i \in DOMAIN stamps[p] : stamps[p][i] > t - Window}

Room(p, t) == Cardinality(Recent(p, t)) < Limit

WindowInit ==
  /\ now = 0
  /\ stamps = [p \in Projects |-> <<>>]
  /\ answer = NoAnswer

Pass == now' = now + 1 /\ UNCHANGED <<stamps, answer>>

Grant(p) ==
  /\ Room(p, now)
  /\ stamps' = [stamps EXCEPT ![p] = Append(@, now)]
  /\ answer' = Admitted(p)
  /\ UNCHANGED now

Deny(p) ==
  \E wait \in 1..Window, seconds \in 0..Window :
    /\ Room(p, now + wait)
    /\ \A earlier \in 0..wait - 1 : ~Room(p, now + earlier)
    /\ seconds * Second <= wait /\ wait < seconds * Second + Second
    /\ answer' = [project |-> p, wait |-> wait, seconds |-> seconds]
    /\ UNCHANGED <<now, stamps>>

WindowNext == Pass \/ \E p \in Projects : Grant(p) \/ Deny(p)

WindowSpec == WindowInit /\ [][WindowNext]_window

=============================================================================
