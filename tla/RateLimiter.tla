----------------------------- MODULE RateLimiter -----------------------------
(***************************************************************************)
(* RateLimiter of storage/handler.go, which applyMutation asks before it   *)
(* looks at anything else.  Allow and cleanup each run under the mutex and *)
(* read the clock there, so each is one step.                              *)
(*                                                                         *)
(* The slice of timestamps of a project is the set of the numbers of the   *)
(* requests that put them there: stamps, which the code does not keep,     *)
(* says for every admitted request when it came.  What SlidingWindow, the  *)
(* promise, decides from all stamps the limiter decides from its slice.    *)
(* The clock counts parts of a second.  X-RateLimit-Reset, the wall-clock  *)
(* second in which the wait ends, taken from a second look at the clock,   *)
(* is left out.                                                            *)
(***************************************************************************)
EXTENDS SlidingWindow

CONSTANT MaxTime  \* bound on the clock

ASSUME LimiterAssumption ==
  /\ Limit \in Nat \ {0}   \* cfg.RateLimit
  /\ Window \in Nat \ {0}  \* time.Minute, in units of the clock
  /\ Second \in Nat \ {0}
  /\ MaxTime \in Nat

\* requests[p]: the stored timestamps of project p; {}: p is no key of the map.
VARIABLE requests

vars == <<now, stamps, requests, answer>>

LimiterTypeOK ==
  /\ now \in Nat
  /\ stamps \in [Projects -> Seq(Nat)]
  /\ requests \in [Projects -> SUBSET Nat]
  /\ \A p \in Projects : requests[p] \subseteq DOMAIN stamps[p]
  /\ answer \in [project : Projects \cup {"none"}, wait : 0..Window,
                 seconds : 0..Window]

Init ==
  /\ WindowInit
  /\ requests = [p \in Projects |-> {}]

Tick ==
  /\ now < MaxTime
  /\ now' = now + 1
  /\ UNCHANGED <<stamps, requests, answer>>

-----------------------------------------------------------------------------
\* Variant of Filtered: a timestamp that is as old as the window leaves late.
LateFiltered(p) == {i \in requests[p] : stamps[p][i] >= now - Window}

\* Variant of Filtered: the window is a unit too short.
ShortFiltered(p) == {i \in requests[p] : stamps[p][i] > now - Window + 1}

\* The timestamps after the start of the window.
Filtered(p) == {i \in requests[p] : stamps[p][i] > now - Window}

\* filtered[0]: timestamps are appended in the order they are taken.
Oldest(s) == CHOOSE i \in s : \A j \in s : i <= j

\* Variant of Admit: the timestamps that left the window stay in the slice.
HoardingAdmit(p) ==
  /\ requests[p] = {} \/ Cardinality(Filtered(p)) < Limit
  /\ stamps' = [stamps EXCEPT ![p] = Append(@, now)]
  /\ requests' = [requests EXCEPT ![p] = @ \cup {Len(stamps[p]) + 1}]
  /\ answer' = Admitted(p)
  /\ UNCHANGED now

\* Allow, for a project that is not in the map or has room: the filtered
\* slice with the new timestamp is stored.
Admit(p) ==
  /\ requests[p] = {} \/ Cardinality(Filtered(p)) < Limit
  /\ stamps' = [stamps EXCEPT ![p] = Append(@, now)]
  /\ requests' = [requests EXCEPT ![p] = Filtered(p) \cup {Len(stamps[p]) + 1}]
  /\ answer' = Admitted(p)
  /\ UNCHANGED now

\* Variant of RetryAfter: the operands of the inner subtraction swapped.
SwappedRetryAfter(p) == Window - (stamps[p][Oldest(Filtered(p))] - now)

RetryAfter(p) == Window - (now - stamps[p][Oldest(Filtered(p))])

\* int64(d.Seconds()): the rest of a second is cut off.
WholeSeconds(d) == d \div Second

\* Allow, otherwise: nothing is stored, not even the filtered slice.
\* handleLimit answers 429 with the duration in its text, the whole seconds of
\* it in the header Retry-After.
Refuse(p) ==
  /\ requests[p] # {}
  /\ Cardinality(Filtered(p)) >= Limit
  /\ answer' = [project |-> p, wait |-> RetryAfter(p),
                seconds |-> WholeSeconds(RetryAfter(p))]
  /\ UNCHANGED <<now, stamps, requests>>

\* cleanup, from the goroutine with the ticker, at any moment: every slice is
\* filtered, an empty one is no longer a key.
Cleanup ==
  /\ requests' = [p \in Projects |-> Filtered(p)]
  /\ UNCHANGED <<now, stamps, answer>>

Next ==
  \/ Tick
  \/ \E p \in Projects : Admit(p) \/ Refuse(p)
  \/ Cleanup

Spec == Init /\ [][Next]_vars

-----------------------------------------------------------------------------
(* Properties. *)

Within(p, t) == {i \in DOMAIN stamps[p] : t - Window < stamps[p][i] /\ stamps[p][i] <= t}

\* No window of the length Window, wherever it begins, contains more than
\* Limit admitted requests of a project (CONTRIBUTING.md, RATE_LIMIT: requests
\* per minute), although the map forgets timestamps in Allow and in cleanup.
AtMostLimit ==
  \A p \in Projects, t \in 0..now : Cardinality(Within(p, t)) <= Limit

\* However many requests are refused and whenever cleanup runs, the limiter
\* keeps at most Limit timestamps of a project, and only such as were within
\* the window when it last stored the slice.
MemoryBounded ==
  \A p \in Projects : /\ Cardinality(requests[p]) <= Limit
                      /\ \A i, j \in requests[p] : stamps[p][j] - stamps[p][i] < Window

\* The limiter is the sliding window it is called (handler.go, RateLimiter):
\* it refuses nobody that has room, cleanup changes no answer, the wait in the
\* text of a refusal is exactly the time until there is room again, and
\* Retry-After is less than a second short of it and never longer.
ImplementsWindow == WindowSpec

=============================================================================
