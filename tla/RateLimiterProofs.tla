-------------------------- MODULE RateLimiterProofs --------------------------
(***************************************************************************)
(* Proofs about RateLimiter, for any projects, limit, window and bound on  *)
(* the clock.                                                              *)
(***************************************************************************)
EXTENDS RateLimiter, FiniteSetTheorems, WellFoundedInduction, TLAPS

Counting(p) == Recent(p, now)

Answers == [project : Projects \cup {"none"}, wait : 0..Window, seconds : 0..Window]

-----------------------------------------------------------------------------
(* The inductive invariant. *)

\* Stamps are taken from the clock, one after the other.
Chronological ==
  \A p \in Projects :
    /\ \A i \in DOMAIN stamps[p] : stamps[p][i] <= now
    /\ \A i, j \in DOMAIN stamps[p] : i <= j => stamps[p][i] <= stamps[p][j]

\* What a filter drops has left the window for good.
KeepsRecent == \A p \in Projects : Counting(p) \subseteq requests[p]

\* A stored slice was within the window when it was stored.
StoredTogether ==
  \A p \in Projects : \E t \in Nat : requests[p] \subseteq Within(p, t)

\* AtMostLimit for every window, also one that has not ended yet.
Bounded == \A p \in Projects, t \in Nat : Cardinality(Within(p, t)) <= Limit

LimiterInv ==
  /\ LimiterTypeOK
  /\ Chronological
  /\ KeepsRecent
  /\ StoredTogether
  /\ Bounded

-----------------------------------------------------------------------------
(* Facts about a state. *)

LEMMA StampsFinite ==
  ASSUME LimiterTypeOK, NEW p \in Projects, NEW s \in SUBSET DOMAIN stamps[p]
  PROVE  IsFiniteSet(s) /\ Cardinality(s) \in Nat
<1>1. DOMAIN stamps[p] = 1..Len(stamps[p]) /\ Len(stamps[p]) \in Nat
  BY DEF LimiterTypeOK
<1>2. IsFiniteSet(DOMAIN stamps[p])
  BY <1>1, FS_Interval
<1>3. IsFiniteSet(s)
  BY <1>2, FS_Subset
<1>4. QED
  BY <1>3, FS_CardinalityType

\* The filter sees exactly the requests that count, which are also those of
\* the window that ends now.
LEMMA FilteredIsRecent ==
  ASSUME LimiterTypeOK, Chronological, KeepsRecent, NEW p \in Projects
  PROVE  /\ Filtered(p) = Counting(p)
         /\ Filtered(p) = Within(p, now)
         /\ Filtered(p) \in SUBSET DOMAIN stamps[p]
<1>1. Filtered(p) = Counting(p)
  BY DEF LimiterTypeOK, KeepsRecent, Filtered, Counting, Recent
<1>2. \A i \in DOMAIN stamps[p] : stamps[p][i] \in Nat /\ stamps[p][i] <= now
  BY DEF LimiterTypeOK, Chronological
<1>3. Counting(p) = Within(p, now)
  BY <1>2, LimiterAssumption DEF LimiterTypeOK, Counting, Recent, Within
<1>4. QED
  BY <1>1, <1>3 DEF Within

LEMMA OldestIsFirst ==
  ASSUME NEW s \in SUBSET Nat, s # {}
  PROVE  Oldest(s) \in s /\ \A j \in s : Oldest(s) <= j
<1>1. PICK i \in s : \A j \in s : ~(<<j, i>> \in OpToRel(<, Nat))
  BY NatLessThanWellFounded, WFMin
<1>2. ASSUME NEW j \in s
      PROVE  i <= j
  <2>1. i \in Nat /\ j \in Nat
    OBVIOUS
  <2>2. ~(<<j, i>> \in {ss \in Nat \X Nat : ss[1] < ss[2]})
    BY <1>1 DEF OpToRel
  <2>3. QED
    BY <2>1, <2>2
<1>3. QED
  BY <1>2 DEF Oldest

\* The header never asks for more than the wait, nor for a second less.
LEMMA SecondsAreRight ==
  ASSUME NEW d \in 1..Window
  PROVE  /\ WholeSeconds(d) \in 0..Window
         /\ WholeSeconds(d) * Second <= d
         /\ d < WholeSeconds(d) * Second + Second
<1> DEFINE q == d \div Second
<1>1. q \in Nat /\ q * Second <= d /\ d < q * Second + Second
  BY LimiterAssumption
<1>2. q <= q * Second
  BY <1>1, LimiterAssumption
<1>3. q <= Window
  BY <1>1, <1>2, LimiterAssumption
<1>4. QED
  BY <1>1, <1>3 DEF WholeSeconds

\* A refused project waits until the oldest request of the window leaves it.
LEMMA WaitIsRight ==
  ASSUME LimiterInv, NEW p \in Projects, Cardinality(Filtered(p)) >= Limit
  PROVE  /\ RetryAfter(p) \in 1..Window
         /\ Room(p, now + RetryAfter(p))
         /\ \A e \in 0..RetryAfter(p) - 1 : ~Room(p, now + e)
<1> DEFINE f == Filtered(p)
           o == Oldest(f)
           s == stamps[p]
<1>1. /\ f = Counting(p) /\ f = Within(p, now) /\ f \in SUBSET DOMAIN s
  BY FilteredIsRecent DEF LimiterInv
<1>2. IsFiniteSet(f) /\ Cardinality(f) \in Nat
  BY <1>1, StampsFinite DEF LimiterInv
<1>3. Cardinality(f) = Limit
  <2>1. Cardinality(f) <= Limit
    BY <1>1 DEF LimiterInv, Bounded, LimiterTypeOK
  <2>2. QED
    BY <2>1, <1>2, LimiterAssumption
<1>4. f # {}
  BY <1>3, FS_EmptySet, LimiterAssumption
<1>5. DOMAIN s \subseteq Nat /\ \A i \in DOMAIN s : s[i] \in Nat
  BY DEF LimiterInv, LimiterTypeOK
<1>6. o \in f /\ \A j \in f : o <= j
  BY <1>1, <1>4, <1>5, OldestIsFirst
<1>7. /\ now \in Nat /\ s[o] \in Nat
      /\ now - Window < s[o] /\ s[o] <= now
  BY <1>1, <1>5, <1>6 DEF LimiterInv, LimiterTypeOK, Chronological, Filtered
<1>8. RetryAfter(p) = Window - (now - s[o])
  BY DEF RetryAfter
<1>9. RetryAfter(p) \in 1..Window
  BY <1>7, <1>8, LimiterAssumption
<1>10. Room(p, now + RetryAfter(p))
  <2> DEFINE later == Recent(p, now + RetryAfter(p))
  <2>1. later = {i \in DOMAIN s : s[i] > s[o]}
    BY <1>7, <1>8, LimiterAssumption DEF Recent
  <2>2. later \subseteq f \ {o}
    BY <2>1, <1>1, <1>5, <1>7, LimiterAssumption, SMTT(20) DEF Counting, Recent
  <2>3. IsFiniteSet(f \ {o}) /\ Cardinality(f \ {o}) = Limit - 1
    BY <1>2, <1>3, <1>6, FS_RemoveElement
  <2>4. Cardinality(later) <= Limit - 1
    BY <2>2, <2>3, FS_Subset
  <2>5. Cardinality(later) \in Nat
    BY <2>1, StampsFinite DEF LimiterInv
  <2>6. QED
    BY <2>4, <2>5, LimiterAssumption DEF Room
<1>11. ASSUME NEW e \in 0..RetryAfter(p) - 1
       PROVE  ~Room(p, now + e)
  <2> DEFINE later == Recent(p, now + e)
  <2>1. \A i \in f : s[o] <= s[i]
    BY <1>1, <1>6 DEF LimiterInv, Chronological
  <2>2. now + e - Window < s[o]
    BY <1>7, <1>8, LimiterAssumption
  <2>3. f \subseteq later
    BY <2>1, <2>2, <1>1, <1>5, <1>7, LimiterAssumption DEF Recent
  <2>4. IsFiniteSet(later) /\ Cardinality(later) \in Nat
    BY StampsFinite DEF LimiterInv, Recent
  <2>5. Cardinality(f) <= Cardinality(later)
    BY <2>3, <2>4, FS_Subset
  <2>6. QED
    BY <2>4, <2>5, <1>3, LimiterAssumption DEF Room
<1>12. QED
  BY <1>9, <1>10, <1>11


-----------------------------------------------------------------------------
(* The invariant is inductive. *)

LEMMA LimiterInit ==
  ASSUME Init
  PROVE  LimiterInv
<1>1. \A p \in Projects : stamps[p] = <<>> /\ DOMAIN stamps[p] = {}
  BY DEF Init, WindowInit
<1>2. now \in Nat /\ requests = [p \in Projects |-> {}] /\ answer = NoAnswer
  BY DEF Init, WindowInit
<1>3. LimiterTypeOK
  BY <1>2, LimiterAssumption DEF Init, WindowInit, LimiterTypeOK, NoAnswer, Admitted
<1>4. Chronological /\ KeepsRecent
  BY <1>1 DEF Chronological, KeepsRecent, Counting, Recent
<1>5. StoredTogether
  BY <1>2 DEF StoredTogether
<1>6. Bounded
  <2>1. \A p \in Projects, t \in Nat : Within(p, t) = {}
    BY <1>1 DEF Within
  <2>2. QED
    BY <2>1, FS_EmptySet, LimiterAssumption DEF Bounded
<1>7. QED
  BY <1>3, <1>4, <1>5, <1>6 DEF LimiterInv

\* What a step that admits nothing leaves as it is.
LEMMA SameStamps ==
  ASSUME LimiterInv, stamps' = stamps, now' \in Nat, now' >= now,
         requests' \in [Projects -> SUBSET Nat],
         \A p \in Projects : requests'[p] \subseteq requests[p],
         \A p \in Projects : Filtered(p) \subseteq requests'[p],
         answer' \in Answers
  PROVE  LimiterInv'
<1>1. LimiterTypeOK'
  BY DEF LimiterInv, LimiterTypeOK, Answers
<1>2. Chronological'
  BY DEF LimiterInv, LimiterTypeOK, Chronological
<1>3. KeepsRecent'
  <2>1. \A p \in Projects : Counting(p)' \subseteq Counting(p)
    BY LimiterAssumption DEF LimiterInv, LimiterTypeOK, Counting, Recent
  <2>2. \A p \in Projects : Counting(p) = Filtered(p)
    BY FilteredIsRecent DEF LimiterInv
  <2>3. QED
    BY <2>1, <2>2 DEF KeepsRecent
<1>4. StoredTogether'
  BY DEF LimiterInv, StoredTogether, Within
<1>5. Bounded'
  BY DEF LimiterInv, Bounded, Within
<1>6. QED
  BY <1>1, <1>2, <1>3, <1>4, <1>5 DEF LimiterInv

\* Every window that contains a new request ends now or later, and what counts
\* now left room for it.
LEMMA AdmitKeeps ==
  ASSUME LimiterInv, NEW p \in Projects, Admit(p)
  PROVE  LimiterInv'
<1> DEFINE n == Len(stamps[p]) + 1
<1>1. /\ stamps \in [Projects -> Seq(Nat)] /\ now \in Nat /\ now' = now
      /\ requests \in [Projects -> SUBSET Nat]
  BY DEF LimiterInv, LimiterTypeOK, Admit
<1>2. /\ n \in Nat /\ stamps'[p] = Append(stamps[p], now)
      /\ DOMAIN stamps[p] = 1..n - 1 /\ DOMAIN stamps'[p] = 1..n
      /\ stamps'[p][n] = now
      /\ \A i \in DOMAIN stamps[p] : stamps'[p][i] = stamps[p][i]
  BY <1>1 DEF Admit
<1>3. \A q \in Projects : q # p => stamps'[q] = stamps[q] /\ requests'[q] = requests[q]
  BY <1>1 DEF Admit
<1>4. /\ requests'[p] = Filtered(p) \cup {n}
      /\ stamps' \in [Projects -> Seq(Nat)]
      /\ requests' \in [Projects -> SUBSET Nat]
  BY <1>1 DEF Admit, Filtered
<1>5. /\ Filtered(p) = Counting(p) /\ Filtered(p) = Within(p, now)
      /\ Filtered(p) \in SUBSET DOMAIN stamps[p]
  BY FilteredIsRecent DEF LimiterInv
<1>6. LimiterTypeOK'
  <2>1. requests'[p] \subseteq DOMAIN stamps'[p]
    BY <1>2, <1>4, <1>5
  <2>2. answer' \in Answers
    BY LimiterAssumption DEF Admit, Admitted, Answers
  <2>3. QED
    BY <1>1, <1>3, <1>4, <2>1, <2>2 DEF LimiterInv, LimiterTypeOK, Answers
<1>7. Chronological'
  <2>1. ASSUME NEW i \in DOMAIN stamps'[p]
        PROVE  stamps'[p][i] <= now'
    BY <1>1, <1>2 DEF LimiterInv, Chronological
  <2>2. ASSUME NEW i \in DOMAIN stamps'[p], NEW j \in DOMAIN stamps'[p], i <= j
        PROVE  stamps'[p][i] <= stamps'[p][j]
    <3>1. CASE j = n
      BY <1>1, <1>2, <2>1, <3>1
    <3>2. CASE j # n
      <4>1. i \in DOMAIN stamps[p] /\ j \in DOMAIN stamps[p]
        BY <1>2, <2>2, <3>2
      <4>2. QED
        BY <1>2, <2>2, <4>1 DEF LimiterInv, Chronological
    <3>3. QED
      BY <3>1, <3>2
  <2>3. QED
    BY <1>1, <1>3, <2>1, <2>2 DEF LimiterInv, Chronological
<1>8. KeepsRecent'
  <2>1. Counting(p)' \subseteq requests'[p]
    BY <1>1, <1>2, <1>4, <1>5 DEF Counting, Recent
  <2>2. QED
    BY <1>1, <1>3, <2>1 DEF LimiterInv, KeepsRecent, Counting, Recent
<1>9. StoredTogether'
  <2>1. requests'[p] \subseteq Within(p, now)'
    BY <1>1, <1>2, <1>4, <1>5, LimiterAssumption DEF Within
  <2>2. \A q \in Projects : q # p => \A t \in Nat : Within(q, t)' = Within(q, t)
    BY <1>3 DEF Within
  <2>3. QED
    BY <1>1, <1>3, <2>1, <2>2 DEF LimiterInv, StoredTogether
<1>10. Cardinality(Filtered(p)) < Limit
  <2>1. CASE requests[p] = {}
    BY <2>1, FS_EmptySet, LimiterAssumption DEF Filtered
  <2>2. QED
    BY <2>1 DEF Admit
<1>11. ASSUME NEW t \in Nat
       PROVE  Cardinality(Within(p, t)') <= Limit
  <2>1. CASE t < now
    <3>1. Within(p, t)' = Within(p, t)
      BY <1>1, <1>2, <2>1 DEF Within
    <3>2. QED
      BY <3>1 DEF LimiterInv, Bounded
  <2>2. CASE t >= now
    <3>1. Within(p, t)' \subseteq Filtered(p) \cup {n}
      BY <1>1, <1>2, <1>5, <2>2, LimiterAssumption DEF Within, Counting, Recent
    <3>2. IsFiniteSet(Filtered(p)) /\ Cardinality(Filtered(p)) \in Nat
      BY <1>5, StampsFinite DEF LimiterInv
    <3>3. /\ IsFiniteSet(Filtered(p) \cup {n})
          /\ Cardinality(Filtered(p) \cup {n}) <= Limit
      <4> HIDE DEF n
      <4>1. /\ IsFiniteSet(Filtered(p) \cup {n})
            /\ Cardinality(Filtered(p) \cup {n})
                 = IF n \in Filtered(p) THEN Cardinality(Filtered(p))
                                        ELSE Cardinality(Filtered(p)) + 1
        BY <3>2, FS_AddElement
      <4>2. QED
        BY <4>1, <3>2, <1>10, LimiterAssumption
    <3>4. Cardinality(Within(p, t)') <= Cardinality(Filtered(p) \cup {n})
      BY <3>1, <3>3, FS_Subset
    <3>5. IsFiniteSet(Within(p, t)') /\ Cardinality(Filtered(p) \cup {n}) \in Nat
      BY <3>1, <3>3, FS_Subset, FS_CardinalityType
    <3>6. Cardinality(Within(p, t)') \in Nat
      BY <3>5, FS_CardinalityType
    <3>7. QED
      BY <3>3, <3>4, <3>5, <3>6, LimiterAssumption
  <2>3. QED
    BY <1>1, <2>1, <2>2
<1>12. Bounded'
  BY <1>3, <1>11 DEF LimiterInv, Bounded, Within
<1>13. QED
  BY <1>6, <1>7, <1>8, <1>9, <1>12 DEF LimiterInv

LEMMA LimiterNext ==
  ASSUME LimiterInv, [Next]_vars
  PROVE  LimiterInv'
<1>1. /\ now \in Nat /\ requests \in [Projects -> SUBSET Nat]
      /\ answer \in Answers
      /\ \A p \in Projects : Filtered(p) \subseteq requests[p]
  BY DEF LimiterInv, LimiterTypeOK, Filtered, Answers
<1>2. CASE Tick
  BY <1>1, <1>2, SameStamps DEF Tick
<1>3. ASSUME NEW p \in Projects, Admit(p)
      PROVE  LimiterInv'
  BY <1>3, AdmitKeeps
<1>4. ASSUME NEW p \in Projects, Refuse(p)
      PROVE  LimiterInv'
  <2>1. RetryAfter(p) \in 1..Window
    BY <1>4, WaitIsRight DEF Refuse
  <2>2. answer' \in Answers
    BY <1>4, <2>1, SecondsAreRight, LimiterAssumption DEF Refuse, Answers
  <2>3. QED
    BY <1>1, <1>4, <2>2, SameStamps DEF Refuse
<1>5. CASE Cleanup
  BY <1>1, <1>5, SameStamps DEF Cleanup
<1>6. CASE UNCHANGED vars
  BY <1>1, <1>6, SameStamps DEF vars
<1>7. QED
  BY <1>2, <1>3, <1>4, <1>5, <1>6 DEF Next

-----------------------------------------------------------------------------
(* The theorems. *)

\* The stored timestamps are those of admitted requests, and what a refusal
\* answers lies within the window.
THEOREM LimiterTypeCorrect == Spec => []LimiterTypeOK
<1>1. LimiterInv => LimiterTypeOK
  BY DEF LimiterInv
<1>2. QED
  BY <1>1, LimiterInit, LimiterNext, PTL DEF Spec

\* Whatever the limit and the window, no window has more admitted requests of
\* a project than the limit, although timestamps are forgotten on the way.
THEOREM AtMostLimitHolds == Spec => []AtMostLimit
<1>1. LimiterInv => AtMostLimit
  BY DEF LimiterInv, LimiterTypeOK, Bounded, AtMostLimit
<1>2. QED
  BY <1>1, LimiterInit, LimiterNext, PTL DEF Spec

\* The map never holds more timestamps of a project than the limit, nor any
\* two that are a window apart.
THEOREM MemoryBoundedHolds == Spec => []MemoryBounded
<1>1. ASSUME LimiterInv, NEW p \in Projects
      PROVE  /\ Cardinality(requests[p]) <= Limit
             /\ \A i, j \in requests[p] : stamps[p][j] - stamps[p][i] < Window
  <2>1. PICK t \in Nat : requests[p] \subseteq Within(p, t)
    BY <1>1 DEF LimiterInv, StoredTogether
  <2>2. IsFiniteSet(Within(p, t)) /\ Cardinality(Within(p, t)) \in Nat
    BY <1>1, StampsFinite DEF LimiterInv, Within
  <2>3. /\ Cardinality(requests[p]) <= Cardinality(Within(p, t))
        /\ IsFiniteSet(requests[p])
    BY <2>1, <2>2, FS_Subset
  <2>4. Cardinality(requests[p]) \in Nat
    BY <2>3, FS_CardinalityType
  <2>5. Cardinality(Within(p, t)) <= Limit
    BY <1>1 DEF LimiterInv, Bounded
  <2>6. \A i \in DOMAIN stamps[p] : stamps[p][i] \in Nat
    BY <1>1 DEF LimiterInv, LimiterTypeOK
  <2>7. \A i, j \in requests[p] : stamps[p][j] - stamps[p][i] < Window
    BY <2>1, <2>6, LimiterAssumption DEF Within
  <2>8. QED
    BY <2>2, <2>3, <2>4, <2>5, <2>7, LimiterAssumption
<1>2. LimiterInv => MemoryBounded
  BY <1>1 DEF MemoryBounded
<1>3. QED
  BY <1>2, LimiterInit, LimiterNext, PTL DEF Spec

LEMMA WindowStep ==
  ASSUME LimiterInv, [Next]_vars
  PROVE  [WindowNext]_window
<1>1. CASE Tick
  BY <1>1 DEF Tick, WindowNext, Pass
<1>2. ASSUME NEW p \in Projects, Admit(p)
      PROVE  Grant(p)
  <2>1. Filtered(p) = Recent(p, now)
    BY FilteredIsRecent DEF LimiterInv, Counting
  <2>2. Cardinality(Filtered(p)) < Limit
    <3>1. CASE requests[p] = {}
      BY <3>1, FS_EmptySet, LimiterAssumption DEF Filtered
    <3>2. QED
      BY <1>2, <3>1 DEF Admit
  <2>3. QED
    BY <1>2, <2>1, <2>2 DEF Admit, Grant, Room
<1>3. ASSUME NEW p \in Projects, Refuse(p)
      PROVE  Deny(p)
  <2>1. /\ RetryAfter(p) \in 1..Window
        /\ Room(p, now + RetryAfter(p))
        /\ \A e \in 0..RetryAfter(p) - 1 : ~Room(p, now + e)
    BY <1>3, WaitIsRight DEF Refuse
  <2>2. /\ WholeSeconds(RetryAfter(p)) \in 0..Window
        /\ WholeSeconds(RetryAfter(p)) * Second <= RetryAfter(p)
        /\ RetryAfter(p) < WholeSeconds(RetryAfter(p)) * Second + Second
    BY <2>1, SecondsAreRight
  <2>3. QED
    BY <1>3, <2>1, <2>2, Zenon DEF Refuse, Deny
<1>4. CASE Cleanup
  BY <1>4 DEF Cleanup, window
<1>5. CASE UNCHANGED vars
  BY <1>5 DEF vars, window
<1>6. QED
  BY <1>1, <1>2, <1>3, <1>4, <1>5 DEF Next, WindowNext

\* The limiter decides as if it remembered every request: it implements
\* SlidingWindow, with the exact wait in the text of a refusal and its whole
\* seconds in the header.
THEOREM ImplementsWindowHolds == Spec => ImplementsWindow
<1>1. Init => WindowInit
  BY DEF Init
<1>2. QED
  BY <1>1, LimiterInit, LimiterNext, WindowStep, PTL
     DEF Spec, ImplementsWindow, WindowSpec

=============================================================================
