---------------------------- MODULE HistoryLemmas ----------------------------
(***************************************************************************)
(* What the operators of History compute, for histories of any length.     *)
(***************************************************************************)
EXTENDS History, FiniteSetTheorems, SequenceTheorems, WellFoundedInduction, TLAPS

-----------------------------------------------------------------------------
(* Induction.  A statement about numbers is the set of those for which it  *)
(* is true.                                                                *)

LEMMA StrongInduction ==
  ASSUME NEW S, \A n \in Nat : (\A m \in 0 .. n - 1 : m \in S) => n \in S
  PROVE  \A n \in Nat : n \in S
<1> DEFINE bad == Nat \ S
<1> SUFFICES ASSUME bad # {} PROVE FALSE
  OBVIOUS
<1>1. PICK u \in bad : \A x \in bad : ~(<<x, u>> \in OpToRel(<, Nat))
  <2>1. bad \subseteq Nat
    OBVIOUS
  <2> HIDE DEF bad
  <2>2. QED
    BY <2>1, NatLessThanWellFounded, WFMin
<1>2. \A x \in bad : ~(<<x, u>> \in {ss \in Nat \X Nat : ss[1] < ss[2]})
  BY <1>1 DEF OpToRel
<1>3. \A m \in 0 .. u - 1 : m \in S
  <2> SUFFICES ASSUME NEW m \in 0 .. u - 1, m \notin S PROVE FALSE
    OBVIOUS
  <2>1. m \in bad /\ m \in Nat /\ u \in Nat /\ m < u
    OBVIOUS
  <2>2. QED
    BY <1>2, <2>1
<1>4. QED
  BY <1>3

LEMMA Induction ==
  ASSUME NEW S, 0 \in S, \A n \in Nat : n \in S => n + 1 \in S
  PROVE  \A n \in Nat : n \in S
<1>1. ASSUME NEW n \in Nat, \A m \in 0 .. n - 1 : m \in S
      PROVE  n \in S
  <2>1. CASE n = 0
    BY <2>1
  <2>2. CASE n # 0
    <3>1. n - 1 \in Nat /\ n - 1 \in S /\ (n - 1) + 1 = n
      BY <1>1, <2>2
    <3>2. QED
      BY <3>1
  <2>3. QED
    BY <2>1, <2>2
<1>2. QED
  BY <1>1, StrongInduction

\* From the last position of a sequence down to the first.
LEMMA DownwardInduction ==
  ASSUME NEW n \in Nat, NEW S, n \in S, \A i \in 1 .. n : i \in S => i - 1 \in S
  PROVE  \A i \in 0 .. n : i \in S
<1> DEFINE T == {d \in Nat : d <= n => n - d \in S}
<1>1. 0 \in T
  OBVIOUS
<1>2. ASSUME NEW d \in Nat, d \in T PROVE d + 1 \in T
  <2> SUFFICES ASSUME d + 1 <= n PROVE n - (d + 1) \in S
    OBVIOUS
  <2>1. n - d \in 1 .. n /\ n - d \in S /\ (n - d) - 1 = n - (d + 1)
    BY <1>2
  <2>2. QED
    BY <2>1
<1>3. \A d \in Nat : d \in T
  <2> HIDE DEF T
  <2> QED BY <1>1, <1>2, Induction
<1>4. QED
  <2> SUFFICES ASSUME NEW i \in 0 .. n PROVE i \in S
    OBVIOUS
  <2>1. n - i \in T /\ n - i <= n /\ n - (n - i) = i
    BY <1>3
  <2>2. QED
    BY <2>1

-----------------------------------------------------------------------------
(* Sequences and numbers. *)

\* A sequence, of whatever elements.
IsSequence(s) == s \in Seq({s[i] : i \in DOMAIN s})

LEMMA SequenceDomain ==
  ASSUME NEW s, IsSequence(s)
  PROVE  Len(s) \in Nat /\ DOMAIN s = 1..Len(s)
BY DEF IsSequence

LEMMA AppendSequence ==
  ASSUME NEW s, IsSequence(s), NEW e
  PROVE  /\ IsSequence(Append(s, e))
         /\ Len(Append(s, e)) = Len(s) + 1
         /\ \A i \in 1..Len(s) : Append(s, e)[i] = s[i]
         /\ Append(s, e)[Len(s) + 1] = e
<1> DEFINE S == {s[i] : i \in DOMAIN s} \cup {e}
           t == Append(s, e)
<1>1. s \in Seq({s[i] : i \in DOMAIN s})
  BY DEF IsSequence
<1>2. s \in Seq(S) /\ e \in S
  BY <1>1, SeqMonotonic
<1> HIDE DEF S
<1>3. /\ t \in Seq(S) /\ Len(t) = Len(s) + 1
      /\ \A i \in 1..Len(s) : t[i] = s[i]
      /\ t[Len(s) + 1] = e
  BY <1>2
<1>4. t \in Seq({t[i] : i \in DOMAIN t})
  <2> HIDE DEF t
  <2>1. DOMAIN t = 1..Len(t) /\ Len(t) \in Nat /\ t \in [1..Len(t) -> S]
    BY <1>3, LenProperties
  <2>2. t \in [1..Len(t) -> {t[i] : i \in 1..Len(t)}]
    BY <2>1
  <2>3. QED
    BY <2>1, <2>2
<1>5. QED
  BY <1>3, <1>4 DEF IsSequence

\* A bounded set of numbers has a largest one.
LEMMA LargestExists ==
  ASSUME NEW b \in Nat, NEW s \in SUBSET (0..b), s # {}
  PROVE  \E v \in s : \A w \in s : w <= v
<1> DEFINE above == {u \in Nat : \A w \in s : w <= u}
<1>1. above \subseteq Nat /\ b \in above
  OBVIOUS
<1>2. PICK u \in above : \A x \in above : ~(<<x, u>> \in OpToRel(<, Nat))
  BY <1>1, NatLessThanWellFounded, WFMin
<1>3. \A x \in above : u <= x
  <2> SUFFICES ASSUME NEW x \in above PROVE u <= x
    OBVIOUS
  <2>1. ~(<<x, u>> \in {ss \in Nat \X Nat : ss[1] < ss[2]})
    BY <1>2 DEF OpToRel
  <2>2. QED
    BY <1>1, <2>1
<1>4. u \in s
  <2> SUFFICES ASSUME u \notin s PROVE FALSE
    OBVIOUS
  <2>1. \A w \in s : w \in Nat /\ w <= u /\ w # u
    OBVIOUS
  <2>2. u \in Nat /\ \A w \in s : w <= u - 1
    BY <2>1
  <2>3. PICK w \in s : TRUE
    OBVIOUS
  <2>4. u - 1 \in Nat
    BY <2>1, <2>2, <2>3
  <2>5. u - 1 \in above
    BY <2>2, <2>4
  <2>6. QED
    BY <1>3, <2>2, <2>5
<1>5. QED
  BY <1>4

-----------------------------------------------------------------------------
(* The recursive functions of History are what their definitions say. *)

\* The step of the loop over the positions in resolveMutations.
Resolve(combined, i, later) ==
  IF i \in later /\ IsRevert(combined[i])
  THEN (later \ {i}) \ Newest({j \in later : j < i}, combined[i].revert)
  ELSE later

LEMMA ActivityUnfolds ==
  ASSUME NEW combined, Len(combined) \in Nat
  PROVE  LET n == Len(combined) IN
         /\ Activity(combined)[n + 1] = 1 .. n
         /\ \A i \in 1 .. n :
              Activity(combined)[i] = Resolve(combined, i, Activity(combined)[i + 1])
<1> DEFINE n == Len(combined)
           Body(f, i) == IF i = n + 1 THEN 1 .. n
                         ELSE Resolve(combined, i, f[i + 1])
           Full(f) == f = [i \in 1 .. n + 1 |-> Body(f, i)]
           From(f, m) == \A i \in n + 1 - m .. n + 1 : f[i] = Body(f, i)
           S == {m \in Nat : m <= n => \E f : From(f, m)}
<1>1. 0 \in S
  <2> DEFINE f == [i \in 1 .. n + 1 |-> 1 .. n]
  <2>1. From(f, 0)
    OBVIOUS
  <2>2. QED
    BY <2>1
<1>2. ASSUME NEW m \in Nat, m \in S PROVE m + 1 \in S
  <2> SUFFICES ASSUME m + 1 <= n PROVE \E g : From(g, m + 1)
    OBVIOUS
  <2>1. PICK f : From(f, m)
    BY <1>2
  <2> DEFINE k == n + 1 - (m + 1)
             g == [i \in k .. n + 1 |-> IF i = k THEN Body(f, k) ELSE f[i]]
  <2>2. k \in 1 .. n /\ k + 1 = n + 1 - m
    OBVIOUS
  <2>3. \A i \in k + 1 .. n + 1 : g[i] = f[i]
    BY <2>2
  <2>4. g[k] = Body(f, k)
    BY <2>2
  <2> HIDE DEF g
  <2>5. ASSUME NEW i \in k .. n + 1 PROVE g[i] = Body(g, i)
    <3>1. CASE i = n + 1
      BY <2>1, <2>2, <2>3, <3>1
    <3>2. CASE i = k
      BY <2>2, <2>3, <2>4, <3>2
    <3>3. CASE i \in k + 1 .. n
      <4>1. i + 1 \in k + 1 .. n + 1 /\ i \in k + 1 .. n + 1 /\ i \in n + 1 - m .. n + 1
        BY <2>2, <3>3
      <4>2. g[i] = f[i] /\ g[i + 1] = f[i + 1] /\ f[i] = Body(f, i)
        BY <2>1, <2>3, <4>1
      <4>3. QED
        BY <4>2
    <3>4. QED
      BY <3>1, <3>2, <3>3
  <2>6. QED
    BY <2>5
<1>3. n \in S
  <2> HIDE DEF S
  <2> QED BY <1>1, <1>2, Induction
<1>4. \E f : Full(f)
  <2>1. PICK f : From(f, n)
    BY <1>3
  <2> DEFINE g == [i \in 1 .. n + 1 |-> f[i]]
  <2>2. \A i \in 1 .. n + 1 : Body(g, i) = Body(f, i)
    OBVIOUS
  <2>3. \A i \in 1 .. n + 1 : f[i] = Body(f, i)
    BY <2>1
  <2>4. Full(g)
    BY <2>2, <2>3
  <2>5. QED
    BY <2>4
<1>5. Activity(combined) = CHOOSE f : Full(f)
  BY DEF Activity, Resolve
<1>6. Full(Activity(combined))
  <2> HIDE DEF Full
  <2> QED BY <1>4, <1>5
<1>7. \A i \in 1 .. n + 1 : Activity(combined)[i] = Body(Activity(combined), i)
  BY <1>6
<1>8. QED
  BY <1>7

\* How far back a mutation at position i goes: a revert undoes it and those it
\* counts.
Back(history, i) ==
  IF IsRevert(history[i])
  THEN IF history[i].revert < i THEN i - 1 - history[i].revert ELSE 0
  ELSE i - 1

\* A mutation is a revert or about an element, and a history a sequence of
\* mutations.
IsMutation(m) == m.revert \in Nat /\ (IsElement(m) <=> m.revert = 0)

IsHistory(h) == IsSequence(h) /\ \A i \in 1 .. Len(h) : IsMutation(h[i])

LEMMA HistoryDomain ==
  ASSUME NEW h, IsHistory(h)
  PROVE  /\ Len(h) \in Nat /\ DOMAIN h = 1 .. Len(h)
         /\ \A i \in 1 .. Len(h) : Back(h, i) \in 0 .. i - 1
BY DEF IsHistory, IsSequence, IsMutation, Back, IsRevert

LEMMA EffectUnfolds ==
  ASSUME NEW h, IsHistory(h)
  PROVE  /\ EffectAfter(h)[0] = <<>>
         /\ \A i \in 1 .. Len(h) :
              EffectAfter(h)[i] = IF IsRevert(h[i]) THEN EffectAfter(h)[Back(h, i)]
                                  ELSE Append(EffectAfter(h)[i - 1], h[i])
<1> DEFINE n == Len(h)
           Body(f, i) == IF i = 0 THEN <<>>
                         ELSE IF IsRevert(h[i])
                              THEN f[IF h[i].revert < i THEN i - 1 - h[i].revert ELSE 0]
                              ELSE Append(f[i - 1], h[i])
           Full(f) == f = [i \in 0 .. n |-> Body(f, i)]
           Upto(f, m) == \A i \in 0 .. m : f[i] = Body(f, i)
           S == {m \in Nat : m <= n => \E f : Upto(f, m)}
<1>0. /\ n \in Nat
      /\ \A i \in 1 .. n : Back(h, i) \in 0 .. i - 1
      /\ \A f : \A i \in 1 .. n :
           Body(f, i) = IF IsRevert(h[i]) THEN f[Back(h, i)] ELSE Append(f[i - 1], h[i])
  BY HistoryDomain DEF Back
<1>1. 0 \in S
  <2> DEFINE f == [i \in {0} |-> <<>>]
  <2>1. Upto(f, 0)
    OBVIOUS
  <2>2. QED
    BY <2>1
<1>2. ASSUME NEW m \in Nat, m \in S PROVE m + 1 \in S
  <2> SUFFICES ASSUME m + 1 <= n PROVE \E g : Upto(g, m + 1)
    OBVIOUS
  <2>1. PICK f : Upto(f, m)
    BY <1>2
  <2> DEFINE g == [i \in 0 .. m + 1 |-> IF i = m + 1 THEN Body(f, m + 1) ELSE f[i]]
  <2>2. g[m + 1] = Body(f, m + 1) /\ \A i \in 0 .. m : g[i] = f[i]
    OBVIOUS
  <2>3. \A i \in 0 .. m : f[i] = Body(f, i)
    BY <2>1
  <2> HIDE DEF g, Upto
  <2>4. ASSUME NEW i \in 1 .. m + 1 PROVE Body(g, i) = Body(f, i)
    <3>1. i - 1 \in 0 .. m /\ Back(h, i) \in 0 .. m /\ i \in 1 .. n
      BY <1>0
    <3>2. g[i - 1] = f[i - 1] /\ g[Back(h, i)] = f[Back(h, i)]
      BY <2>2, <3>1
    <3> HIDE DEF Body
    <3>3. QED
      BY <1>0, <3>1, <3>2
  <2>5. Body(g, 0) = Body(f, 0)
    OBVIOUS
  <2>6. ASSUME NEW i \in 0 .. m + 1 PROVE g[i] = Body(g, i)
    <3> HIDE DEF Body
    <3>1. Body(g, i) = Body(f, i)
      BY <2>4, <2>5
    <3>2. g[i] = Body(f, i)
      BY <2>2, <2>3
    <3>3. QED
      BY <3>1, <3>2
  <2>7. QED
    BY <2>6 DEF Upto
<1>3. n \in S
  <2> HIDE DEF S
  <2> QED BY <1>0, <1>1, <1>2, Induction
<1>4. \E f : Full(f)
  <2>1. PICK f : Upto(f, n)
    BY <1>0, <1>3
  <2> DEFINE g == [i \in 0 .. n |-> f[i]]
  <2>2. ASSUME NEW i \in 0 .. n PROVE Body(g, i) = Body(f, i)
    <3>1. CASE i = 0
      BY <3>1
    <3>2. CASE i # 0
      <4>1. i \in 1 .. n /\ i - 1 \in 0 .. n /\ Back(h, i) \in 0 .. n
        BY <1>0, <3>2
      <4>2. g[i - 1] = f[i - 1] /\ g[Back(h, i)] = f[Back(h, i)]
        BY <4>1
      <4> HIDE DEF Body, g
      <4>3. QED
        BY <1>0, <4>1, <4>2
    <3>3. QED
      BY <3>1, <3>2
  <2>3. \A i \in 0 .. n : f[i] = Body(f, i)
    BY <2>1
  <2>4. Full(g)
    <3> HIDE DEF Body
    <3> QED BY <2>2, <2>3
  <2>5. QED
    BY <2>4
<1>5. EffectAfter(h) = CHOOSE f : Full(f)
  BY DEF EffectAfter
<1>6. Full(EffectAfter(h))
  <2> HIDE DEF Full
  <2> QED BY <1>4, <1>5
<1>7. \A i \in 0 .. n : EffectAfter(h)[i] = Body(EffectAfter(h), i)
  <2> HIDE DEF Body
  <2> QED BY <1>6
<1>8. EffectAfter(h)[0] = <<>>
  BY <1>0, <1>7
<1>9. ASSUME NEW i \in 1 .. n
      PROVE  EffectAfter(h)[i] = IF IsRevert(h[i]) THEN EffectAfter(h)[Back(h, i)]
                                 ELSE Append(EffectAfter(h)[i - 1], h[i])
  <2> DEFINE e == EffectAfter(h)
  <2> HIDE DEF e, Body
  <2>1. Body(e, i) = IF IsRevert(h[i]) THEN e[Back(h, i)] ELSE Append(e[i - 1], h[i])
    BY <1>0
  <2>2. i \in 0 .. n /\ e[i] = Body(e, i)
    BY <1>0, <1>7 DEF e
  <2>3. QED
    BY <2>1, <2>2 DEF e
<1>10. QED
  BY <1>8, <1>9

-----------------------------------------------------------------------------
(* resolveMutations undoes by going back. *)

LEMMA NewestOfInterval ==
  ASSUME NEW m \in Nat, NEW n \in Nat
  PROVE  Newest(1 .. m, n) = {j \in 1 .. m : m - j < n}
<1>1. ASSUME NEW j \in 1 .. m
      PROVE  Cardinality({l \in 1 .. m : l > j}) = m - j
  <2>1. {l \in 1 .. m : l > j} = j + 1 .. m
    OBVIOUS
  <2>2. j + 1 \in Int /\ m \in Int
    OBVIOUS
  <2>3. Cardinality(j + 1 .. m) = IF j + 1 > m THEN 0 ELSE m - (j + 1) + 1
    BY <2>2, FS_Interval
  <2> DEFINE larger == {l \in 1 .. m : l > j}
             size == Cardinality(larger)
  <2>4. size = IF j + 1 > m THEN 0 ELSE m - (j + 1) + 1
    BY <2>1, <2>3
  <2> HIDE DEF size
  <2>5. size = m - j
    BY <2>4
  <2>6. QED
    BY <2>5 DEF size
<1>2. QED
  BY <1>1 DEF Newest

\* One round of the loop, when what is still active below it is the first b
\* positions: the revert at b undoes itself and what it counts.
LEMMA ResolveStep ==
  ASSUME NEW h, IsHistory(h), NEW i \in 1 .. Len(h), NEW b \in 0 .. i,
         NEW X \in SUBSET (i + 1 .. Len(h))
  PROVE  LET left == Resolve(h, i, (1 .. b) \cup X) IN
         /\ b < i => left = (1 .. b) \cup X
         /\ b = i /\ IsRevert(h[i]) => left = (1 .. Back(h, i)) \cup X
         /\ b = i /\ ~IsRevert(h[i]) => left = (1 .. i - 1) \cup ({i} \cup X)
<1> DEFINE later == (1 .. b) \cup X
<1>1. /\ Len(h) \in Nat
      /\ h[i].revert \in Nat
      /\ Back(h, i) \in 0 .. i - 1
  BY HistoryDomain DEF IsHistory, IsMutation
<1>2. CASE b < i
  BY <1>1, <1>2 DEF Resolve
<1>3. CASE b = i /\ ~IsRevert(h[i])
  <2>1. 1 .. b = (1 .. i - 1) \cup {i}
    BY <1>3
  <2>2. QED
    BY <1>3, <2>1 DEF Resolve
<1>4. CASE b = i /\ IsRevert(h[i])
  <2>1. {j \in later : j < i} = 1 .. i - 1
    <3>1. \A j \in X : j \in Nat /\ i < j
      BY <1>1
    <3>2. \A j \in 1 .. b : j < i <=> j \in 1 .. i - 1
      BY <1>4
    <3>3. \A j \in 1 .. i - 1 : j \in 1 .. b /\ j < i
      BY <1>4
    <3>4. \A j \in X : ~(j < i)
      BY <3>1
    <3>5. QED
      BY <3>2, <3>3, <3>4
  <2>2. Newest(1 .. i - 1, h[i].revert) = {j \in 1 .. i - 1 : (i - 1) - j < h[i].revert}
    BY <1>1, NewestOfInterval
  <2>3. (later \ {i}) \ Newest(1 .. i - 1, h[i].revert) = (1 .. Back(h, i)) \cup X
    BY <1>1, <1>4, <2>2 DEF Back
  <2>4. i \in later
    BY <1>4
  <2>5. Resolve(h, i, later)
          = (later \ {i}) \ Newest({j \in later : j < i}, h[i].revert)
    BY <1>4, <2>4 DEF Resolve
  <2> HIDE DEF later
  <2>6. Resolve(h, i, later) = (1 .. Back(h, i)) \cup X
    BY <2>1, <2>3, <2>5
  <2>7. ~(b < i)
    BY <1>4
  <2>8. QED
    BY <1>4, <2>6, <2>7, Zenon DEF later
<1>5. QED
  BY <1>2, <1>3, <1>4

\* q lists the numbers of X in their order.
Lists(q, X) ==
  /\ q \in Seq(Nat)
  /\ X = {q[k] : k \in 1 .. Len(q)}
  /\ \A k, l \in 1 .. Len(q) : k < l => q[k] < q[l]

\* The mutations of h at the positions q.
Select(h, q) == [k \in 1 .. Len(q) |-> h[q[k]]]

LEMMA ListsSmaller ==
  ASSUME NEW q, NEW X, Lists(q, X), NEW i \in Nat, \A x \in X : i < x
  PROVE  Lists(<<i>> \o q, {i} \cup X)
<1> DEFINE p == <<i>> \o q
<1>1. p \in Seq(Nat) /\ Len(p) = Len(q) + 1 /\ Len(q) \in Nat
  BY DEF Lists
<1>2. p[1] = i /\ \A k \in 1 .. Len(q) : p[k + 1] = q[k]
  BY DEF Lists
<1>3. \A k \in 1 .. Len(q) : q[k] \in X /\ q[k] \in Nat
  BY DEF Lists
<1> HIDE DEF p
<1>4. \A k \in 2 .. Len(p) : k - 1 \in 1 .. Len(q) /\ p[k] = q[k - 1]
  BY <1>1, <1>2
<1>5. {i} \cup X = {p[k] : k \in 1 .. Len(p)}
  <2>1. ASSUME NEW k \in 1 .. Len(p) PROVE p[k] \in {i} \cup X
    <3>1. CASE k = 1
      BY <1>2, <3>1
    <3>2. CASE k # 1
      BY <1>1, <1>3, <1>4, <3>2
    <3>3. QED
      BY <3>1, <3>2
  <2>2. \A x \in X : \E k \in 1 .. Len(p) : p[k] = x
    <3> SUFFICES ASSUME NEW x \in X PROVE \E k \in 1 .. Len(p) : p[k] = x
      OBVIOUS
    <3>1. PICK k \in 1 .. Len(q) : q[k] = x
      BY DEF Lists
    <3>2. k + 1 \in 1 .. Len(p) /\ p[k + 1] = x
      BY <1>1, <1>2, <3>1
    <3>3. QED
      BY <3>2
  <2>3. 1 \in 1 .. Len(p)
    BY <1>1
  <2>4. QED
    BY <1>2, <2>1, <2>2, <2>3
<1>6. ASSUME NEW k \in 1 .. Len(p), NEW l \in 1 .. Len(p), k < l
      PROVE  p[k] < p[l]
  <2>1. CASE k = 1
    <3>1. l - 1 \in 1 .. Len(q) /\ p[l] = q[l - 1] /\ p[k] = i
      BY <1>1, <1>2, <1>4, <1>6, <2>1
    <3>2. q[l - 1] \in X /\ q[l - 1] \in Nat
      BY <1>3, <3>1
    <3>3. QED
      BY <3>1, <3>2
  <2>2. CASE k # 1
    <3>1. /\ k - 1 \in 1 .. Len(q) /\ l - 1 \in 1 .. Len(q) /\ k - 1 < l - 1
          /\ p[k] = q[k - 1] /\ p[l] = q[l - 1]
      BY <1>1, <1>4, <1>6, <2>2
    <3>2. QED
      BY <3>1 DEF Lists
  <2>3. QED
    BY <2>1, <2>2
<1>7. QED
  BY <1>1, <1>5, <1>6 DEF Lists, p

\* The mutations of h that are no reverts.
Changes(h) == {h[i] : i \in {j \in 1 .. Len(h) : ~IsRevert(h[j])}}

LEMMA EffectTyped ==
  ASSUME NEW h, IsHistory(h)
  PROVE  \A i \in 0 .. Len(h) : EffectAfter(h)[i] \in Seq(Changes(h))
<1> DEFINE n == Len(h)
           e == EffectAfter(h)
           S == {i \in Nat : i <= n => e[i] \in Seq(Changes(h))}
<1>1. n \in Nat /\ \A i \in 1 .. n : Back(h, i) \in 0 .. i - 1
  BY HistoryDomain
<1>2. /\ e[0] = <<>>
      /\ \A i \in 1 .. n : e[i] = IF IsRevert(h[i]) THEN e[Back(h, i)]
                                  ELSE Append(e[i - 1], h[i])
  BY EffectUnfolds
<1>3. ASSUME NEW i \in Nat, \A m \in 0 .. i - 1 : m \in S
      PROVE  i \in S
  <2> SUFFICES ASSUME i <= n PROVE e[i] \in Seq(Changes(h))
    OBVIOUS
  <2> HIDE DEF e
  <2>1. CASE i = 0
    <3>1. e[i] = <<>>
      BY <1>2, <2>1
    <3>2. QED
      BY <3>1, EmptySeq
  <2>2. CASE i # 0 /\ IsRevert(h[i])
    <3>1. e[i] = e[Back(h, i)] /\ Back(h, i) \in 0 .. i - 1 /\ Back(h, i) <= n
      BY <1>1, <1>2, <2>2
    <3>2. QED
      BY <1>3, <3>1
  <2>3. CASE i # 0 /\ ~IsRevert(h[i])
    <3>0. i \in 1 .. n
      BY <1>1, <2>3
    <3>1. e[i] = Append(e[i - 1], h[i]) /\ h[i] \in Changes(h)
      BY <1>2, <2>3, <3>0 DEF Changes
    <3>2. i - 1 \in 0 .. i - 1 /\ i - 1 <= n
      BY <1>1, <2>3
    <3>3. e[i - 1] \in Seq(Changes(h))
      BY <1>3, <3>2
    <3>4. QED
      BY <3>1, <3>3, AppendProperties
  <2>4. QED
    BY <2>1, <2>2, <2>3
<1>4. \A i \in Nat : i \in S
  <2> HIDE DEF S
  <2> QED BY <1>3, StrongInduction
<1>5. QED
  BY <1>1, <1>4

LEMMA SelectTyped ==
  ASSUME NEW h, IsHistory(h), NEW X \in SUBSET (1 .. Len(h)), NEW q, Lists(q, X),
         \A x \in X : ~IsRevert(h[x])
  PROVE  /\ Select(h, q) \in Seq(Changes(h))
         /\ Len(Select(h, q)) = Len(q) /\ Len(q) \in Nat
<1>1. Len(q) \in Nat /\ \A k \in 1 .. Len(q) : q[k] \in X
  BY DEF Lists
<1>2. \A x \in X : h[x] \in Changes(h)
  BY DEF Changes
<1>3. Select(h, q) \in [1 .. Len(q) -> Changes(h)]
  BY <1>1, <1>2 DEF Select
<1>4. Select(h, q) \in Seq(Changes(h)) /\ DOMAIN Select(h, q) = 1 .. Len(q)
  BY <1>1, <1>3
<1>5. Len(Select(h, q)) = Len(q)
  BY <1>1, <1>4, LenProperties
<1>6. QED
  BY <1>1, <1>4, <1>5 DEF Select

LEMMA Prepend ==
  ASSUME NEW S, NEW x \in S, NEW s \in Seq(S)
  PROVE  /\ <<x>> \o s \in Seq(S) /\ Len(<<x>> \o s) = Len(s) + 1 /\ Len(s) \in Nat
         /\ (<<x>> \o s)[1] = x
         /\ \A k \in 1 .. Len(s) : (<<x>> \o s)[k + 1] = s[k]
         /\ \A k \in 2 .. Len(s) + 1 : (<<x>> \o s)[k] = s[k - 1]
OBVIOUS

LEMMA SelectSmaller ==
  ASSUME NEW h, IsHistory(h), NEW i \in 1 .. Len(h), ~IsRevert(h[i]),
         NEW X \in SUBSET (i + 1 .. Len(h)), NEW q, Lists(q, X),
         \A x \in X : ~IsRevert(h[x]),
         NEW e \in Seq(Changes(h))
  PROVE  Append(e, h[i]) \o Select(h, q) = e \o Select(h, <<i>> \o q)
<1> DEFINE s == Select(h, q)
<1>1. Len(h) \in Nat /\ X \in SUBSET (1 .. Len(h))
  BY HistoryDomain
<1>2. h[i] \in Changes(h)
  BY DEF Changes
<1>3. /\ s \in Seq(Changes(h)) /\ Len(s) = Len(q) /\ Len(q) \in Nat
      /\ \A k \in 1 .. Len(q) : s[k] = h[q[k]]
  <2>1. \A k \in 1 .. Len(q) : s[k] = h[q[k]]
    BY DEF Select
  <2>2. QED
    BY <1>1, <2>1, SelectTyped
<1> HIDE DEF s
<1>4. Select(h, <<i>> \o q) = <<h[i]>> \o s
  <2> DEFINE p == <<i>> \o q
             t == Select(h, p)
             u == <<h[i]>> \o s
  <2>1. /\ Len(p) = Len(q) + 1 /\ p[1] = i
        /\ \A k \in 2 .. Len(q) + 1 : p[k] = q[k - 1]
    BY Prepend DEF Lists
  <2>2. /\ u \in Seq(Changes(h)) /\ Len(u) = Len(s) + 1 /\ u[1] = h[i]
        /\ \A k \in 2 .. Len(s) + 1 : u[k] = s[k - 1]
    BY <1>2, <1>3, Prepend
  <2> HIDE DEF p, u
  <2>3. t = [k \in 1 .. Len(q) + 1 |-> h[p[k]]]
    BY <2>1 DEF Select
  <2>4. ASSUME NEW k \in 1 .. Len(q) + 1 PROVE h[p[k]] = u[k]
    <3>1. CASE k = 1
      BY <2>1, <2>2, <3>1
    <3>2. CASE k # 1
      <4>1. k \in 2 .. Len(q) + 1 /\ k - 1 \in 1 .. Len(q)
        BY <1>3, <3>2
      <4>2. u[k] = s[k - 1] /\ p[k] = q[k - 1] /\ s[k - 1] = h[q[k - 1]]
        BY <1>3, <2>1, <2>2, <4>1
      <4>3. QED
        BY <4>2
    <3>3. QED
      BY <3>1, <3>2
  <2>5. u = [k \in 1 .. Len(q) + 1 |-> u[k]]
    BY <1>3, <2>2, LenProperties
  <2>6. t = u
    BY <2>3, <2>4, <2>5
  <2>7. QED
    BY <2>6 DEF p, u
<1>5. Append(e, h[i]) = e \o <<h[i]>>
  BY <1>2, AppendIsConcat
<1>6. (e \o <<h[i]>>) \o s = e \o (<<h[i]>> \o s)
  <2>1. <<h[i]>> \in Seq(Changes(h))
    BY <1>2
  <2>2. QED
    BY <1>3, <2>1, ConcatAssociative
<1>7. QED
  BY <1>4, <1>5, <1>6 DEF s

\* What remains active is a part of what it was about, and what is in effect
\* is what remains, in its order.
LEMMA ActiveInEffect ==
  ASSUME NEW h, IsHistory(h)
  PROVE  /\ ActiveFrom(h) \in SUBSET (1 .. Len(h))
         /\ \A i \in ActiveFrom(h) : ~IsRevert(h[i])
         /\ \E q : Lists(q, ActiveFrom(h)) /\ InEffect(h) = Select(h, q)
<1> DEFINE n == Len(h)
           e == EffectAfter(h)
           a == Activity(h)
           Fits(i, b, X, q) ==
             /\ Lists(q, X)
             /\ a[i + 1] = (1 .. b) \cup X
             /\ \A x \in X : ~IsRevert(h[x])
             /\ InEffect(h) = e[b] \o Select(h, q)
           S == {i \in 0 .. n : \E b \in 0 .. i : \E X \in SUBSET (i + 1 .. n) :
                                  \E q : Fits(i, b, X, q)}
<1>1. n \in Nat /\ \A i \in 1 .. n : Back(h, i) \in 0 .. i - 1
  BY HistoryDomain
<1>2. /\ e[0] = <<>>
      /\ \A i \in 1 .. n : e[i] = IF IsRevert(h[i]) THEN e[Back(h, i)]
                                  ELSE Append(e[i - 1], h[i])
      /\ \A i \in 0 .. n : e[i] \in Seq(Changes(h))
  BY EffectUnfolds, EffectTyped
<1>3. /\ a[n + 1] = 1 .. n
      /\ \A i \in 1 .. n : a[i] = Resolve(h, i, a[i + 1])
  BY <1>1, ActivityUnfolds
<1>4. n \in S
  <2>1. Select(h, <<>>) = <<>>
    BY DEF Select
  <2>2. e[n] \o <<>> = e[n]
    BY <1>1, <1>2, ConcatEmptySeq
  <2>3. Lists(<<>>, {})
    BY DEF Lists
  <2>4. InEffect(h) = e[n] \o Select(h, <<>>)
    BY <2>1, <2>2 DEF InEffect
  <2> HIDE DEF a, e
  <2>5. Fits(n, n, {}, <<>>)
    BY <1>3, <2>3, <2>4
  <2>6. n \in 0 .. n /\ {} \in SUBSET (n + 1 .. n)
    BY <1>1
  <2> HIDE DEF Fits
  <2>7. QED
    BY <2>5, <2>6
<1>5. ASSUME NEW i \in 1 .. n, i \in S
      PROVE  i - 1 \in S
  <2>0. PICK b \in 0 .. i, X \in SUBSET (i + 1 .. n) : \E q : Fits(i, b, X, q)
    BY <1>5
  <2>1. PICK q : Fits(i, b, X, q)
    BY <2>0
  <2>2. a[i] = Resolve(h, i, (1 .. b) \cup X)
    BY <1>3, <2>1
  <2>3. /\ b < i => a[i] = (1 .. b) \cup X
        /\ b = i /\ IsRevert(h[i]) => a[i] = (1 .. Back(h, i)) \cup X
        /\ b = i /\ ~IsRevert(h[i]) => a[i] = (1 .. i - 1) \cup ({i} \cup X)
    BY <2>2, ResolveStep
  <2>4. /\ (i - 1) + 1 = i /\ i - 1 \in 0 .. n
        /\ X \in SUBSET (i .. n) /\ {i} \cup X \in SUBSET (i .. n)
        /\ i - 1 \in 0 .. i - 1 /\ Back(h, i) \in 0 .. i - 1
    BY <1>1
  <2>5. \E c \in 0 .. i - 1 : \E Y \in SUBSET (i .. n) : \E r : Fits(i - 1, c, Y, r)
    <3>1. CASE b < i
      <4>1. b \in 0 .. i - 1 /\ a[i] = (1 .. b) \cup X
        BY <2>3, <3>1
      <4> HIDE DEF a, e
      <4>2. Fits(i - 1, b, X, q)
        BY <2>1, <2>4, <4>1
      <4> HIDE DEF Fits
      <4>3. QED
        BY <2>4, <4>1, <4>2
    <3>2. CASE b = i /\ IsRevert(h[i])
      <4>1. a[i] = (1 .. Back(h, i)) \cup X
        BY <2>3, <3>2
      <4> HIDE DEF a, e
      <4>2. e[b] = e[Back(h, i)]
        BY <1>2, <3>2
      <4>3. Fits(i - 1, Back(h, i), X, q)
        BY <2>1, <2>4, <4>1, <4>2
      <4> HIDE DEF Fits
      <4>4. QED
        BY <2>4, <4>3
    <3>3. CASE b = i /\ ~IsRevert(h[i])
      <4> DEFINE p == <<i>> \o q
      <4>1. a[i] = (1 .. i - 1) \cup ({i} \cup X)
        BY <2>3, <3>3
      <4> HIDE DEF a, e
      <4>2. e[b] = Append(e[i - 1], h[i]) /\ e[i - 1] \in Seq(Changes(h))
        BY <1>2, <2>4, <3>3
      <4>3. Lists(p, {i} \cup X)
        <5>1. i \in Nat /\ \A x \in X : i < x
          BY <1>1
        <5>2. QED
          BY <2>1, <5>1, ListsSmaller
      <4>4. Append(e[i - 1], h[i]) \o Select(h, q) = e[i - 1] \o Select(h, p)
        BY <2>1, <3>3, <4>2, SelectSmaller
      <4> HIDE DEF p
      <4>5. InEffect(h) = e[i - 1] \o Select(h, p)
        BY <2>1, <4>2, <4>4
      <4>6. Fits(i - 1, i - 1, {i} \cup X, p)
        BY <2>1, <2>4, <3>3, <4>1, <4>3, <4>5
      <4> HIDE DEF Fits
      <4>7. QED
        BY <2>4, <4>6
    <3> HIDE DEF Fits
    <3>4. b < i \/ b = i
      OBVIOUS
    <3>5. QED
      BY <3>1, <3>2, <3>3, <3>4, Zenon
  <2> HIDE DEF Fits
  <2>6. QED
    BY <2>4, <2>5
<1>6. 0 \in S
  <2> HIDE DEF S
  <2>1. 0 \in 0 .. n
    BY <1>1
  <2>2. QED
    BY <1>1, <1>4, <1>5, <2>1, DownwardInduction
<1>7. PICK X \in SUBSET (1 .. n) : \E q : Fits(0, 0, X, q)
  <2> HIDE DEF Fits
  <2>1. PICK b \in 0 .. 0, X \in SUBSET (0 + 1 .. n) : \E q : Fits(0, b, X, q)
    BY <1>6
  <2>2. b = 0 /\ 0 + 1 = 1
    OBVIOUS
  <2>3. QED
    BY <2>1, <2>2
<1>8. PICK q : Fits(0, 0, X, q)
  BY <1>7
<1>9. ActiveFrom(h) = X
  BY <1>8 DEF ActiveFrom
<1>10. InEffect(h) = Select(h, q)
  <2>1. Select(h, q) \in Seq(Changes(h))
    BY <1>8, SelectTyped
  <2>2. <<>> \o Select(h, q) = Select(h, q)
    BY <2>1, ConcatEmptySeq
  <2>3. QED
    BY <1>2, <1>8, <2>2
<1>11. QED
  BY <1>8, <1>9, <1>10

\* Every mutation that remains is about an element.
LEMMA SurvivorsActive ==
  ASSUME NEW h, IsHistory(h)
  PROVE  Survivors(h) = ActiveFrom(h)
<1>1. \A i \in ActiveFrom(h) : i \in 1 .. Len(h) /\ ~IsRevert(h[i])
  BY ActiveInEffect
<1>2. \A i \in 1 .. Len(h) : IsMutation(h[i])
  BY DEF IsHistory
<1>3. QED
  BY <1>1, <1>2 DEF Survivors, IsMutation, IsRevert

-----------------------------------------------------------------------------
(* Counting. *)

LEMMA Counted ==
  ASSUME NEW m \in Nat, NEW T, NEW f,
         \A k \in 1 .. m : f[k] \in T,
         \A k, l \in 1 .. m : k # l => f[k] # f[l],
         \A x \in T : \E k \in 1 .. m : f[k] = x
  PROVE  IsFiniteSet(T) /\ Cardinality(T) = m
<1> DEFINE g == [k \in 1 .. m |-> f[k]]
<1>1. g \in Bijection(1 .. m, T)
  BY DEF Bijection, Injection, Surjection, IsInjective
<1>2. ExistsBijection(1 .. m, T)
  BY <1>1 DEF ExistsBijection
<1>3. IsFiniteSet(1 .. m) /\ Cardinality(1 .. m) = m
  <2>1. 1 \in Int /\ m \in Int /\ (IF 1 > m THEN 0 ELSE m - 1 + 1) = m
    OBVIOUS
  <2>2. QED
    BY <2>1, FS_Interval
<1>4. QED
  BY <1>2, <1>3, FS_Bijection

LEMMA ListsCount ==
  ASSUME NEW q, NEW X, Lists(q, X)
  PROVE  /\ X \in SUBSET Nat /\ IsFiniteSet(X) /\ Cardinality(X) = Len(q)
         /\ \A k \in 1 .. Len(q) : Cardinality({j \in X : j < q[k]}) = k - 1
<1>1. /\ Len(q) \in Nat /\ \A k \in 1 .. Len(q) : q[k] \in X /\ q[k] \in Nat
      /\ \A x \in X : \E k \in 1 .. Len(q) : q[k] = x
      /\ \A k, l \in 1 .. Len(q) : k < l => q[k] < q[l]
  BY DEF Lists
<1>2. \A k, l \in 1 .. Len(q) : k # l => q[k] # q[l]
  <2> SUFFICES ASSUME NEW k \in 1 .. Len(q), NEW l \in 1 .. Len(q), k # l
               PROVE  q[k] # q[l]
    OBVIOUS
  <2>1. q[k] < q[l] \/ q[l] < q[k]
    BY <1>1
  <2>2. QED
    BY <1>1, <2>1
<1>3. IsFiniteSet(X) /\ Cardinality(X) = Len(q)
  BY <1>1, <1>2, Counted
<1>4. ASSUME NEW k \in 1 .. Len(q)
      PROVE  Cardinality({j \in X : j < q[k]}) = k - 1
  <2> DEFINE T == {j \in X : j < q[k]}
  <2>1. k - 1 \in Nat /\ \A l \in 1 .. k - 1 : l \in 1 .. Len(q) /\ q[l] \in T
    BY <1>1
  <2>2. ASSUME NEW x \in T PROVE \E l \in 1 .. k - 1 : q[l] = x
    <3>1. PICK l \in 1 .. Len(q) : q[l] = x
      BY <1>1
    <3>2. ~(k < l) /\ l # k
      BY <1>1, <3>1
    <3>3. QED
      BY <3>1, <3>2
  <2>3. \A l, j \in 1 .. k - 1 : l # j => q[l] # q[j]
    BY <1>1, <1>2
  <2> HIDE DEF T
  <2>4. Cardinality(T) = k - 1
    BY <2>1, <2>2, <2>3, Counted
  <2>5. QED
    BY <2>4 DEF T
<1>5. QED
  BY <1>1, <1>3, <1>4

\* Of two members, the larger one has fewer above it.
LEMMA FewerAbove ==
  ASSUME NEW X \in SUBSET Nat, IsFiniteSet(X), NEW i \in X, NEW j \in X, i < j
  PROVE  Cardinality({l \in X : l > j}) < Cardinality({l \in X : l > i})
<1> DEFINE above == {l \in X : l > i}
           beyond == {l \in X : l > j}
<1>1. IsFiniteSet(above) /\ Cardinality(above) \in Nat
  BY FS_Subset, FS_CardinalityType
<1>2. beyond \in SUBSET above /\ j \in above /\ j \notin beyond
  <2>1. \A l \in X : l \in Nat /\ (l > j => l > i)
    OBVIOUS
  <2>2. j > i /\ ~(j > j)
    OBVIOUS
  <2>3. QED
    BY <2>1, <2>2
<1> HIDE DEF above, beyond
<1>3. /\ Cardinality(beyond) <= Cardinality(above)
      /\ Cardinality(above) # Cardinality(beyond)
      /\ Cardinality(beyond) \in Nat
  BY <1>1, <1>2, FS_Subset, FS_CardinalityType
<1>4. Cardinality(beyond) < Cardinality(above)
  BY <1>1, <1>3
<1>5. QED
  BY <1>4 DEF above, beyond

\* Descending lists the members of a finite set of numbers, each once.
LEMMA DescendingLists ==
  ASSUME NEW X \in SUBSET Nat, IsFiniteSet(X)
  PROVE  /\ Cardinality(X) \in Nat
         /\ \A k \in 1 .. Cardinality(X) : Descending(X)[k] \in X
         /\ \A k, l \in 1 .. Cardinality(X) :
              k # l => Descending(X)[k] # Descending(X)[l]
         /\ \A i \in X : \E k \in 1 .. Cardinality(X) : Descending(X)[k] = i
<1> DEFINE n == Cardinality(X)
           d == Descending(X)
           f == [i \in X |-> Cardinality({j \in X : j > i})]
<1>1. n \in Nat
  BY FS_CardinalityType
<1>2. ASSUME NEW i \in X PROVE f[i] \in 0 .. n - 1
  <2> DEFINE above == {j \in X : j > i}
  <2>1. above \in SUBSET X /\ i \notin above
    OBVIOUS
  <2>2. f[i] = Cardinality(above)
    OBVIOUS
  <2> HIDE DEF above, f
  <2>3. Cardinality(above) \in Nat /\ Cardinality(above) <= n /\ Cardinality(above) # n
    BY <2>1, FS_Subset, FS_CardinalityType
  <2>4. QED
    BY <1>1, <2>2, <2>3
<1>3. ASSUME NEW i \in X, NEW j \in X, f[i] = f[j] PROVE i = j
  <2>1. f[i] \in Nat /\ f[j] \in Nat
    BY <1>2
  <2>2. \A k, l \in X : k < l => f[l] < f[k]
    BY FewerAbove
  <2> HIDE DEF f
  <2>3. ~(i < j) /\ ~(j < i)
    BY <1>3, <2>1, <2>2
  <2>4. i \in Nat /\ j \in Nat
    OBVIOUS
  <2>5. QED
    BY <2>3, <2>4
<1>4. IsFiniteSet(0 .. n - 1) /\ Cardinality(0 .. n - 1) = n
  <2>1. 0 \in Int /\ n - 1 \in Int /\ (IF 0 > n - 1 THEN 0 ELSE (n - 1) - 0 + 1) = n
    BY <1>1
  <2> HIDE DEF n
  <2>2. QED
    BY <2>1, FS_Interval
<1>5. \A m \in 0 .. n - 1 : \E i \in X : f[i] = m
  <2>1. f \in Injection(X, 0 .. n - 1)
    <3>1. f \in [X -> 0 .. n - 1]
      BY <1>2
    <3> HIDE DEF f
    <3>2. QED
      BY <1>3, <3>1 DEF Injection, IsInjective
  <2> HIDE DEF f
  <2>2. f \in Surjection(X, 0 .. n - 1)
    BY <1>4, <2>1, FS_Injection
  <2>3. QED
    BY <2>2 DEF Surjection
<1>6. ASSUME NEW k \in 1 .. n PROVE d[k] \in X /\ f[d[k]] = k - 1
  <2>1. d[k] = CHOOSE i \in X : Cardinality({j \in X : j > i}) = k - 1
    BY DEF Descending
  <2>2. k - 1 \in 0 .. n - 1
    BY <1>1
  <2>3. \E i \in X : Cardinality({j \in X : j > i}) = k - 1
    BY <1>5, <2>2
  <2> HIDE DEF d
  <2>4. d[k] \in X /\ Cardinality({j \in X : j > d[k]}) = k - 1
    BY <2>1, <2>3
  <2>5. QED
    BY <2>4
<1> HIDE DEF d, f
<1>7. ASSUME NEW k \in 1 .. n, NEW l \in 1 .. n, d[k] = d[l] PROVE k = l
  <2>1. k - 1 = l - 1
    BY <1>6, <1>7
  <2>2. QED
    BY <1>1, <2>1
<1>8. ASSUME NEW i \in X PROVE \E k \in 1 .. n : d[k] = i
  <2>1. f[i] + 1 \in 1 .. n /\ (f[i] + 1) - 1 = f[i]
    BY <1>1, <1>2
  <2>2. d[f[i] + 1] = i
    BY <1>3, <1>6, <2>1
  <2>3. QED
    BY <2>1, <2>2
<1>9. QED
  BY <1>1, <1>6, <1>7, <1>8 DEF d

-----------------------------------------------------------------------------
(* The page of a history. *)

\* The mutations that remain, in their order, are those in effect.
LEMMA ResolvedAreInEffect ==
  ASSUME NEW h, IsHistory(h)
  PROVE  LET s == Survivors(h) IN
         [k \in 1 .. Cardinality(s) |->
            h[CHOOSE i \in s : Cardinality({j \in s : j < i}) = k - 1]] = InEffect(h)
<1> DEFINE s == Survivors(h)
<1>1. PICK q : Lists(q, s) /\ InEffect(h) = Select(h, q)
  BY ActiveInEffect, SurvivorsActive
<1>2. /\ Len(q) \in Nat /\ Cardinality(s) = Len(q)
      /\ \A k \in 1 .. Len(q) : q[k] \in s
      /\ \A k \in 1 .. Len(q) : Cardinality({j \in s : j < q[k]}) = k - 1
      /\ \A x \in s : \E k \in 1 .. Len(q) : q[k] = x
  <2>1. /\ Len(q) \in Nat
        /\ \A k \in 1 .. Len(q) : q[k] \in s
        /\ \A x \in s : \E k \in 1 .. Len(q) : q[k] = x
    BY <1>1 DEF Lists
  <2> HIDE DEF s
  <2>2. QED
    BY <1>1, <2>1, ListsCount
<1> HIDE DEF s
<1>3. ASSUME NEW k \in 1 .. Len(q)
      PROVE  (CHOOSE i \in s : Cardinality({j \in s : j < i}) = k - 1) = q[k]
  <2>1. ASSUME NEW i \in s, Cardinality({j \in s : j < i}) = k - 1
        PROVE  i = q[k]
    <3>1. PICK l \in 1 .. Len(q) : q[l] = i
      BY <1>2
    <3>2. l - 1 = k - 1
      BY <1>2, <2>1, <3>1
    <3>3. l = k
      BY <1>2, <3>2
    <3>4. QED
      BY <3>1, <3>3
  <2>2. q[k] \in s /\ Cardinality({j \in s : j < q[k]}) = k - 1
    BY <1>2
  <2>3. QED
    BY <2>1, <2>2
<1> DEFINE nth(k) == CHOOSE i \in s : Cardinality({j \in s : j < i}) = k - 1
<1>4. [k \in 1 .. Cardinality(s) |-> h[nth(k)]] = Select(h, q)
  <2>1. \A k \in 1 .. Len(q) : nth(k) = q[k]
    BY <1>3
  <2> HIDE DEF nth
  <2>2. QED
    BY <1>2, <2>1 DEF Select
<1>5. QED
  BY <1>1, <1>4 DEF s

\* The positions that dedupElementMutations keeps.
Kept(h, S) ==
  {i \in S : /\ \A j \in S : h[j].id = h[i].id => j <= i
             /\ ~h[i].deleted}

LEMMA DedupKeeps ==
  ASSUME NEW h, NEW S \in SUBSET Nat, IsFiniteSet(S)
  PROVE  LET kept == Kept(h, S) IN
         /\ Cardinality(kept) \in Nat
         /\ Dedup(h, S) = [k \in 1 .. Cardinality(kept) |-> h[Descending(kept)[k]]]
         /\ \A k \in 1 .. Cardinality(kept) : Descending(kept)[k] \in kept
         /\ \A k, l \in 1 .. Cardinality(kept) :
              k # l => Descending(kept)[k] # Descending(kept)[l]
         /\ \A i \in kept : \E k \in 1 .. Cardinality(kept) : Descending(kept)[k] = i
<1> DEFINE kept == Kept(h, S)
<1>1. kept \in SUBSET S /\ kept \in SUBSET Nat
  BY DEF Kept
<1>2. Dedup(h, S) = [k \in 1 .. Cardinality(kept) |-> h[Descending(kept)[k]]]
  <2>1. kept = {i \in {i \in S : \A j \in S : h[j].id = h[i].id => j <= i} :
                  ~h[i].deleted}
    BY DEF Kept
  <2> HIDE DEF kept
  <2>2. QED
    BY <2>1 DEF Dedup
<1> HIDE DEF kept
<1>3. IsFiniteSet(kept)
  BY <1>1, FS_Subset
<1>4. QED
  BY <1>1, <1>2, <1>3, DescendingLists DEF kept

LEMMA PageIsKept ==
  ASSUME NEW h, IsHistory(h)
  PROVE  Page(h) = {h[i] : i \in Kept(h, ActiveFrom(h))}
<1> DEFINE S == ActiveFrom(h)
           e == InEffect(h)
           Last(k) == \A j \in DOMAIN e : e[j].id = e[k].id => j <= k
           shown == {k \in DOMAIN e : Last(k) /\ ~e[k].deleted}
<1>1. PICK q : Lists(q, S) /\ e = Select(h, q)
  BY ActiveInEffect
<1>2. /\ Len(q) \in Nat /\ DOMAIN e = 1 .. Len(q)
      /\ \A k \in 1 .. Len(q) : e[k] = h[q[k]] /\ q[k] \in S /\ q[k] \in Nat
      /\ \A x \in S : \E k \in 1 .. Len(q) : q[k] = x
      /\ \A k, l \in 1 .. Len(q) : k < l => q[k] < q[l]
  BY <1>1 DEF Lists, Select
<1>3. Page(h) = {e[k] : k \in shown}
  BY DEF Page, Shown
<1> HIDE DEF S, e
<1>4. \A j, k \in 1 .. Len(q) : j <= k <=> q[j] <= q[k]
  <2> SUFFICES ASSUME NEW j \in 1 .. Len(q), NEW k \in 1 .. Len(q)
               PROVE  j <= k <=> q[j] <= q[k]
    OBVIOUS
  <2>1. j < k \/ j = k \/ k < j
    BY <1>2
  <2>2. QED
    BY <1>2, <2>1
<1>5. ASSUME NEW k \in 1 .. Len(q)
      PROVE  k \in shown <=> q[k] \in Kept(h, S)
  <2>1. (\A j \in 1 .. Len(q) : e[j].id = e[k].id => j <= k)
          <=> (\A x \in S : h[x].id = h[q[k]].id => x <= q[k])
    <3>1. (\A x \in S : h[x].id = h[q[k]].id => x <= q[k])
            <=> (\A j \in 1 .. Len(q) : h[q[j]].id = h[q[k]].id => q[j] <= q[k])
      BY <1>2
    <3>2. (\A j \in 1 .. Len(q) : e[j].id = e[k].id => j <= k)
            <=> (\A j \in 1 .. Len(q) : h[q[j]].id = h[q[k]].id => q[j] <= q[k])
      BY <1>2, <1>4
    <3>3. QED
      BY <3>1, <3>2
  <2>2. QED
    BY <1>2, <2>1 DEF Kept
<1> HIDE DEF shown
<1>6. shown \subseteq 1 .. Len(q)
  BY <1>2 DEF shown
<1>7. \A m \in {e[k] : k \in shown} : m \in {h[i] : i \in Kept(h, S)}
  BY <1>2, <1>5, <1>6
<1>8. ASSUME NEW i \in Kept(h, S) PROVE h[i] \in {e[k] : k \in shown}
  <2>1. PICK k \in 1 .. Len(q) : q[k] = i
    BY <1>2 DEF Kept
  <2>2. k \in shown /\ e[k] = h[i]
    BY <1>2, <1>5, <2>1
  <2>3. QED
    BY <2>2
<1>9. QED
  BY <1>3, <1>7, <1>8 DEF S

\* A draft: contents of different elements.
IsDraft(d) ==
  /\ IsHistory(d)
  /\ \A k \in 1 .. Len(d) : ~IsRevert(d[k]) /\ ~d[k].deleted
  /\ \A k, l \in 1 .. Len(d) : d[k].id = d[l].id => k = l

\* What collapseMutations makes of a history is the page of the history, each
\* element once.
LEMMA CollapsesToPage ==
  ASSUME NEW h, IsHistory(h)
  PROVE  /\ IsDraft(Collapse(h))
         /\ Elements(Collapse(h)) = Page(h)
         /\ Len(Collapse(h)) = Cardinality(Page(h))
<1> DEFINE S == ActiveFrom(h)
           kept == Kept(h, S)
           n == Cardinality(kept)
           d == Descending(kept)
           c == Collapse(h)
<1>1. /\ S \in SUBSET (1 .. Len(h)) /\ \A i \in S : ~IsRevert(h[i])
      /\ Len(h) \in Nat
  BY ActiveInEffect, HistoryDomain
<1>2. S \in SUBSET Nat /\ IsFiniteSet(S)
  <2>1. IsFiniteSet(1 .. Len(h))
    BY <1>1, FS_Interval
  <2> HIDE DEF S
  <2>2. IsFiniteSet(S)
    BY <1>1, <2>1, FS_Subset
  <2>3. S \in SUBSET Nat
    BY <1>1
  <2>4. QED
    BY <2>2, <2>3
<1>3. c = Dedup(h, S)
  BY SurvivorsActive DEF Collapse
<1> HIDE DEF S, c
<1>4. /\ n \in Nat
      /\ c = [k \in 1 .. n |-> h[d[k]]]
      /\ \A k \in 1 .. n : d[k] \in kept
      /\ \A k, l \in 1 .. n : k # l => d[k] # d[l]
      /\ \A i \in kept : \E k \in 1 .. n : d[k] = i
  BY <1>2, <1>3, DedupKeeps
<1>5. \A i, j \in kept : h[i].id = h[j].id => i = j
  <2> SUFFICES ASSUME NEW i \in kept, NEW j \in kept, h[i].id = h[j].id
               PROVE  i = j
    OBVIOUS
  <2>1. i \in S /\ j \in S /\ i <= j /\ j <= i
    BY DEF Kept
  <2>2. i \in Nat /\ j \in Nat
    BY <1>2, <2>1
  <2>3. QED
    BY <2>1, <2>2
<1>6. \A i \in kept : /\ i \in 1 .. Len(h) /\ IsMutation(h[i])
                      /\ ~IsRevert(h[i]) /\ ~h[i].deleted
  BY <1>1 DEF Kept, IsHistory
<1> HIDE DEF kept, n, d
<1>7. /\ IsSequence(c) /\ DOMAIN c = 1 .. Len(c) /\ Len(c) = n
      /\ \A k \in 1 .. n : c[k] = h[d[k]]
  <2>1. DOMAIN c = 1 .. n /\ \A k \in 1 .. n : c[k] = h[d[k]]
    BY <1>4
  <2>2. c \in [1 .. n -> {c[k] : k \in 1 .. n}]
    BY <1>4
  <2>3. c \in Seq({c[k] : k \in 1 .. n})
    BY <1>4, <2>2
  <2>4. Len(c) = n
    BY <1>4, <2>1, <2>3, LenProperties
  <2>5. QED
    BY <2>1, <2>3, <2>4 DEF IsSequence
<1>8. IsDraft(c)
  <2>1. ASSUME NEW k \in 1 .. n, NEW l \in 1 .. n, c[k].id = c[l].id
        PROVE  k = l
    BY <1>4, <1>5, <1>7, <2>1
  <2>2. \A k \in 1 .. n : IsMutation(c[k]) /\ ~IsRevert(c[k]) /\ ~c[k].deleted
    BY <1>4, <1>6, <1>7
  <2>3. QED
    BY <1>7, <2>1, <2>2 DEF IsDraft, IsHistory
<1>9. Page(h) = {h[i] : i \in kept}
  BY PageIsKept DEF S, kept
<1>10. Elements(c) = Page(h)
  <2>1. \A k \in 1 .. n : c[k] \in {h[i] : i \in kept}
    BY <1>4, <1>7
  <2>2. \A i \in kept : \E k \in 1 .. n : c[k] = h[i]
    BY <1>4, <1>7
  <2>3. Elements(c) = {c[k] : k \in 1 .. n}
    BY <1>7 DEF Elements
  <2>4. QED
    BY <1>9, <2>1, <2>2, <2>3
<1>11. Cardinality(Page(h)) = n
  <2>1. \A k \in 1 .. n : c[k] \in Page(h)
    BY <1>4, <1>7, <1>9
  <2>2. \A x \in Page(h) : \E k \in 1 .. n : c[k] = x
    BY <1>4, <1>7, <1>9
  <2>3. \A k, l \in 1 .. n : k # l => c[k] # c[l]
    BY <1>7, <1>8 DEF IsDraft
  <2>4. n \in Nat
    BY <1>4
  <2>5. QED
    BY <2>1, <2>2, <2>3, <2>4, Counted
<1>12. QED
  BY <1>7, <1>8, <1>10, <1>11 DEF c

-----------------------------------------------------------------------------
(* Histories one after the other. *)

\* h is a followed by r.
Joins(h, a, r) ==
  /\ Len(h) = Len(a) + Len(r)
  /\ \A i \in 1 .. Len(a) : h[i] = a[i]
  /\ \A i \in 1 .. Len(r) : h[Len(a) + i] = r[i]

LEMMA ConcatSequence ==
  ASSUME NEW a, IsSequence(a), NEW r, IsSequence(r)
  PROVE  IsSequence(a \o r) /\ Joins(a \o r, a, r)
<1> DEFINE A == {a[i] : i \in DOMAIN a}
           R == {r[i] : i \in DOMAIN r}
           t == a \o r
           S == A \cup R
<1>1. a \in Seq(S) /\ r \in Seq(S)
  <2>1. a \in Seq(A) /\ r \in Seq(R) /\ A \subseteq S /\ R \subseteq S
    BY DEF IsSequence
  <2> HIDE DEF A, R, S
  <2>2. QED
    BY <2>1, SeqMonotonic
<1> HIDE DEF S
<1>2. /\ t \in Seq(S) /\ Len(t) = Len(a) + Len(r) /\ Len(a) \in Nat /\ Len(r) \in Nat
      /\ \A i \in 1 .. Len(a) + Len(r) :
           t[i] = IF i <= Len(a) THEN a[i] ELSE r[i - Len(a)]
  BY <1>1, ConcatProperties, LenProperties
<1> HIDE DEF t
<1>3. IsSequence(t)
  <2>1. DOMAIN t = 1..Len(t) /\ Len(t) \in Nat /\ t \in [1..Len(t) -> S]
    BY <1>2, LenProperties
  <2>2. t \in [1..Len(t) -> {t[i] : i \in 1..Len(t)}]
    BY <2>1
  <2>3. QED
    BY <2>1, <2>2 DEF IsSequence
<1>4. \A i \in 1 .. Len(a) : t[i] = a[i]
  BY <1>2
<1>5. ASSUME NEW i \in 1 .. Len(r) PROVE t[Len(a) + i] = r[i]
  <2>1. /\ Len(a) + i \in 1 .. Len(a) + Len(r) /\ ~(Len(a) + i <= Len(a))
        /\ (Len(a) + i) - Len(a) = i
    BY <1>2
  <2>2. t[Len(a) + i] = r[(Len(a) + i) - Len(a)]
    BY <1>2, <2>1
  <2>3. QED
    BY <2>1, <2>2
<1>6. QED
  BY <1>2, <1>3, <1>4, <1>5 DEF Joins, t

LEMMA JoinedHistory ==
  ASSUME NEW h, IsSequence(h), NEW a, IsHistory(a), NEW r, IsHistory(r), Joins(h, a, r)
  PROVE  IsHistory(h)
<1>1. Len(a) \in Nat /\ Len(r) \in Nat
  BY HistoryDomain
<1>2. ASSUME NEW i \in 1 .. Len(h) PROVE IsMutation(h[i])
  <2>1. CASE i <= Len(a)
    BY <1>1, <2>1 DEF Joins, IsHistory
  <2>2. CASE ~(i <= Len(a))
    <3>1. i - Len(a) \in 1 .. Len(r) /\ Len(a) + (i - Len(a)) = i
      BY <1>1, <2>2 DEF Joins
    <3>2. h[i] = r[i - Len(a)]
      BY <3>1 DEF Joins
    <3>3. QED
      BY <3>1, <3>2 DEF IsHistory
  <2>3. QED
    BY <2>1, <2>2
<1>3. QED
  BY <1>2 DEF IsHistory

\* What was in effect at some point does not depend on what came later.
LEMMA EffectOfPrefix ==
  ASSUME NEW h, IsHistory(h), NEW g, IsHistory(g), Len(g) <= Len(h),
         \A i \in 1 .. Len(g) : g[i] = h[i]
  PROVE  \A i \in 0 .. Len(g) : EffectAfter(g)[i] = EffectAfter(h)[i]
<1> DEFINE e == EffectAfter(h)
           f == EffectAfter(g)
           S == {i \in Nat : i <= Len(g) => f[i] = e[i]}
<1>1. /\ Len(h) \in Nat /\ Len(g) \in Nat
      /\ e[0] = <<>> /\ f[0] = <<>>
      /\ \A i \in 1 .. Len(h) : e[i] = IF IsRevert(h[i]) THEN e[Back(h, i)]
                                       ELSE Append(e[i - 1], h[i])
      /\ \A i \in 1 .. Len(g) : /\ f[i] = IF IsRevert(g[i]) THEN f[Back(g, i)]
                                          ELSE Append(f[i - 1], g[i])
                                /\ Back(g, i) \in 0 .. i - 1
  BY HistoryDomain, EffectUnfolds
<1> HIDE DEF e, f
<1>2. ASSUME NEW i \in Nat, \A m \in 0 .. i - 1 : m \in S
      PROVE  i \in S
  <2> SUFFICES ASSUME i <= Len(g) PROVE f[i] = e[i]
    OBVIOUS
  <2>1. CASE i = 0
    BY <1>1, <2>1
  <2>2. CASE i # 0
    <3>1. i \in 1 .. Len(g) /\ i \in 1 .. Len(h) /\ g[i] = h[i]
      BY <1>1, <2>2
    <3>2. Back(g, i) = Back(h, i)
      BY <3>1 DEF Back
    <3>3. i - 1 \in S /\ Back(g, i) \in S
      BY <1>1, <1>2, <3>1
    <3>4. i - 1 <= Len(g) /\ Back(g, i) <= Len(g)
      BY <1>1, <3>1
    <3>5. f[i - 1] = e[i - 1] /\ f[Back(g, i)] = e[Back(g, i)]
      BY <3>3, <3>4
    <3>6. f[i] = IF IsRevert(h[i]) THEN e[Back(h, i)] ELSE Append(e[i - 1], h[i])
      BY <1>1, <3>1, <3>2, <3>5
    <3>7. QED
      BY <1>1, <3>1, <3>6
  <2>3. QED
    BY <2>1, <2>2
<1>3. \A i \in Nat : i \in S
  <2> HIDE DEF S
  <2> QED BY <1>2, StrongInduction
<1>4. QED
  BY <1>1, <1>3 DEF e, f

\* Reverts that stay within r leave what was in effect before.
Within(r) == \A i \in 1 .. Len(r) : IsRevert(r[i]) => r[i].revert < i

LEMMA EffectOnTop ==
  ASSUME NEW h, IsHistory(h), NEW a, IsHistory(a), NEW r, IsHistory(r),
         Joins(h, a, r), Within(r)
  PROVE  InEffect(h) = InEffect(a) \o InEffect(r)
<1> DEFINE e == EffectAfter(h)
           f == EffectAfter(r)
           x == InEffect(a)
           l == Len(a)
           S == {j \in Nat : j <= Len(r) => e[l + j] = x \o f[j]}
           C == Changes(h)
<1>1. /\ Len(r) \in Nat /\ l \in Nat /\ Len(h) = l + Len(r)
      /\ \A i \in 1 .. l : h[i] = a[i]
      /\ \A i \in 1 .. Len(r) : h[l + i] = r[i]
  BY HistoryDomain DEF Joins
<1>2. /\ \A i \in 1 .. Len(h) : e[i] = IF IsRevert(h[i]) THEN e[Back(h, i)]
                                       ELSE Append(e[i - 1], h[i])
      /\ f[0] = <<>>
      /\ \A i \in 1 .. Len(r) : /\ f[i] = IF IsRevert(r[i]) THEN f[Back(r, i)]
                                          ELSE Append(f[i - 1], r[i])
                                /\ Back(r, i) \in 0 .. i - 1
  BY HistoryDomain, EffectUnfolds
<1>3. x = e[l]
  BY <1>1, EffectOfPrefix DEF InEffect
<1>4. x \in Seq(C)
  <2>1. l \in 0 .. Len(h)
    BY <1>1
  <2>2. QED
    BY <1>3, <2>1, EffectTyped
<1>5. Changes(r) \subseteq C
  <2> SUFFICES ASSUME NEW i \in 1 .. Len(r), ~IsRevert(r[i]) PROVE r[i] \in C
    BY DEF Changes
  <2>1. l + i \in 1 .. Len(h) /\ h[l + i] = r[i]
    BY <1>1
  <2>2. QED
    BY <2>1 DEF Changes
<1>6. \A j \in 0 .. Len(r) : f[j] \in Seq(C)
  BY <1>5, EffectTyped, SeqMonotonic
<1>7. \A i \in 1 .. Len(r) : ~IsRevert(r[i]) => r[i] \in C
  BY <1>5 DEF Changes
<1>8. \A i \in 1 .. Len(r) : r[i].revert \in Nat
  BY DEF IsHistory, IsMutation
<1> HIDE DEF e, f, x, l, C
<1>9. ASSUME NEW j \in Nat, \A m \in 0 .. j - 1 : m \in S
      PROVE  j \in S
  <2> SUFFICES ASSUME j <= Len(r) PROVE e[l + j] = x \o f[j]
    OBVIOUS
  <2>1. CASE j = 0
    <3>1. l + j = l
      BY <1>1, <2>1
    <3>2. x \o <<>> = x
      BY <1>4, ConcatEmptySeq
    <3>3. QED
      BY <1>2, <1>3, <2>1, <3>1, <3>2
  <2>2. CASE j # 0
    <3>1. j \in 1 .. Len(r) /\ l + j \in 1 .. Len(h) /\ h[l + j] = r[j]
      BY <1>1, <2>2
    <3>2. e[l + j] = IF IsRevert(r[j]) THEN e[Back(h, l + j)]
                     ELSE Append(e[(l + j) - 1], r[j])
      BY <1>2, <3>1
    <3>3. CASE IsRevert(r[j])
      <4>1. r[j].revert < j /\ r[j].revert \in Nat
        BY <1>8, <3>1, <3>3 DEF Within
      <4>2. Back(h, l + j) = l + Back(r, j)
        <5>1. Back(r, j) = j - 1 - r[j].revert
          BY <3>3, <4>1 DEF Back
        <5>2. r[j].revert < l + j
          BY <1>1, <3>1, <4>1
        <5>3. Back(h, l + j) = (l + j) - 1 - r[j].revert
          BY <3>1, <3>3, <5>2 DEF Back
        <5>4. QED
          BY <1>1, <3>1, <4>1, <5>1, <5>3
      <4>3. Back(r, j) \in 0 .. j - 1 /\ Back(r, j) <= Len(r)
        BY <1>1, <1>2, <3>1
      <4>4. e[l + Back(r, j)] = x \o f[Back(r, j)]
        BY <1>9, <4>3
      <4>5. f[j] = f[Back(r, j)]
        BY <1>2, <3>1, <3>3
      <4>6. QED
        BY <3>2, <3>3, <4>2, <4>4, <4>5
    <3>4. CASE ~IsRevert(r[j])
      <4>1. j - 1 \in 0 .. j - 1 /\ j - 1 \in 0 .. Len(r) /\ (l + j) - 1 = l + (j - 1)
        BY <1>1, <3>1
      <4>2. e[l + (j - 1)] = x \o f[j - 1]
        BY <1>9, <4>1
      <4>3. e[l + j] = Append(x \o f[j - 1], r[j])
        BY <3>2, <3>4, <4>1, <4>2
      <4>4. f[j - 1] \in Seq(C) /\ r[j] \in C /\ <<r[j]>> \in Seq(C)
        BY <1>6, <1>7, <3>1, <3>4, <4>1
      <4>5. x \o f[j - 1] \in Seq(C)
        BY <1>4, <4>4, ConcatProperties
      <4>6. Append(x \o f[j - 1], r[j]) = (x \o f[j - 1]) \o <<r[j]>>
        BY <4>4, <4>5, AppendIsConcat
      <4>7. (x \o f[j - 1]) \o <<r[j]>> = x \o (f[j - 1] \o <<r[j]>>)
        <5> DEFINE y == f[j - 1]
                   w == <<r[j]>>
        <5>1. y \in Seq(C) /\ w \in Seq(C)
          BY <4>4
        <5> HIDE DEF y, w
        <5>2. (x \o y) \o w = x \o (y \o w)
          BY <1>4, <5>1, ConcatAssociative
        <5>3. QED
          BY <5>2 DEF y, w
      <4>8. f[j] = Append(f[j - 1], r[j])
        BY <1>2, <3>1, <3>4
      <4>9. Append(f[j - 1], r[j]) = f[j - 1] \o <<r[j]>>
        BY <4>4, AppendIsConcat
      <4>10. QED
        BY <4>3, <4>6, <4>7, <4>8, <4>9
    <3>5. QED
      BY <3>3, <3>4
  <2>3. QED
    BY <2>1, <2>2
<1>10. \A j \in Nat : j \in S
  <2> HIDE DEF S
  <2> QED BY <1>9, StrongInduction
<1>11. e[l + Len(r)] = x \o f[Len(r)]
  BY <1>1, <1>10
<1>12. QED
  BY <1>1, <1>11 DEF InEffect, e, f, x, l

\* What is shown of y on top of x.
LEMMA ShownOnTop ==
  ASSUME NEW S, NEW x \in Seq(S), NEW y \in Seq(S)
  PROVE  Shown(x \o y)
           = Shown(y) \cup {m \in Shown(x) : \A k \in 1 .. Len(y) : y[k].id # m.id}
<1> DEFINE z == x \o y
           Over(m) == \A k \in 1 .. Len(y) : y[k].id # m.id
           ShownAt(s, i, m) ==
             /\ s[i] = m /\ ~m.deleted
             /\ \A j \in 1 .. Len(s) : s[j].id = m.id => j <= i
<1>1. /\ Len(x) \in Nat /\ Len(y) \in Nat /\ Len(z) = Len(x) + Len(y)
      /\ DOMAIN x = 1 .. Len(x) /\ DOMAIN y = 1 .. Len(y) /\ DOMAIN z = 1 .. Len(z)
      /\ \A i \in 1 .. Len(x) : z[i] = x[i]
      /\ \A i \in 1 .. Len(y) : z[Len(x) + i] = y[i]
  OBVIOUS
<1> HIDE DEF z
<1>2. ASSUME NEW s, DOMAIN s = 1 .. Len(s)
      PROVE  \A m : m \in Shown(s) <=> \E i \in 1 .. Len(s) : ShownAt(s, i, m)
  BY <1>2 DEF Shown
<1> HIDE DEF ShownAt
<1>3. ASSUME NEW m, NEW i \in 1 .. Len(z), ShownAt(z, i, m)
      PROVE  m \in Shown(y) \/ (m \in Shown(x) /\ Over(m))
  <2>1. CASE i <= Len(x)
    <3>1. i \in 1 .. Len(x) /\ ShownAt(x, i, m)
      BY <1>1, <1>3, <2>1 DEF ShownAt
    <3>2. ASSUME NEW k \in 1 .. Len(y), y[k].id = m.id PROVE FALSE
      <4>1. Len(x) + k \in 1 .. Len(z) /\ z[Len(x) + k].id = m.id
        BY <1>1, <3>2
      <4>2. Len(x) + k <= i
        BY <1>3, <4>1 DEF ShownAt
      <4>3. QED
        BY <1>1, <2>1, <4>2
    <3>3. QED
      BY <1>1, <1>2, <3>1, <3>2
  <2>2. CASE ~(i <= Len(x))
    <3> DEFINE k == i - Len(x)
    <3>1. k \in 1 .. Len(y) /\ Len(x) + k = i
      BY <1>1, <2>2
    <3> HIDE DEF k
    <3>2. y[k] = m /\ ~m.deleted
      BY <1>1, <1>3, <3>1 DEF ShownAt
    <3>3. ASSUME NEW j \in 1 .. Len(y), y[j].id = m.id PROVE j <= k
      <4>1. Len(x) + j \in 1 .. Len(z) /\ z[Len(x) + j].id = m.id
        BY <1>1, <3>3
      <4>2. Len(x) + j <= i
        BY <1>3, <4>1 DEF ShownAt
      <4>3. QED
        BY <1>1, <3>1, <4>2
    <3>4. ShownAt(y, k, m)
      BY <3>2, <3>3 DEF ShownAt
    <3>5. QED
      BY <1>1, <1>2, <3>1, <3>4
  <2>3. QED
    BY <2>1, <2>2
<1>4. ASSUME NEW m, m \in Shown(y)
      PROVE  m \in Shown(z)
  <2>1. PICK k \in 1 .. Len(y) : ShownAt(y, k, m)
    BY <1>1, <1>2, <1>4
  <2>2. Len(x) + k \in 1 .. Len(z) /\ z[Len(x) + k] = m /\ ~m.deleted
    BY <1>1, <2>1 DEF ShownAt
  <2>3. ASSUME NEW j \in 1 .. Len(z), z[j].id = m.id PROVE j <= Len(x) + k
    <3>1. CASE j <= Len(x)
      BY <1>1, <3>1
    <3>2. CASE ~(j <= Len(x))
      <4>1. j - Len(x) \in 1 .. Len(y) /\ Len(x) + (j - Len(x)) = j
        BY <1>1, <3>2
      <4>2. y[j - Len(x)].id = m.id
        BY <1>1, <2>3, <4>1
      <4>3. j - Len(x) <= k
        BY <2>1, <4>1, <4>2 DEF ShownAt
      <4>4. QED
        BY <1>1, <4>1, <4>3
    <3>3. QED
      BY <3>1, <3>2
  <2>4. ShownAt(z, Len(x) + k, m)
    BY <2>2, <2>3 DEF ShownAt
  <2>5. QED
    BY <1>1, <1>2, <2>2, <2>4
<1>5. ASSUME NEW m, m \in Shown(x), Over(m)
      PROVE  m \in Shown(z)
  <2>1. PICK k \in 1 .. Len(x) : ShownAt(x, k, m)
    BY <1>1, <1>2, <1>5
  <2>2. k \in 1 .. Len(z) /\ z[k] = m /\ ~m.deleted
    BY <1>1, <2>1 DEF ShownAt
  <2>3. ASSUME NEW j \in 1 .. Len(z), z[j].id = m.id PROVE j <= k
    <3>1. CASE j <= Len(x)
      BY <1>1, <2>1, <2>3, <3>1 DEF ShownAt
    <3>2. CASE ~(j <= Len(x))
      <4>1. j - Len(x) \in 1 .. Len(y) /\ Len(x) + (j - Len(x)) = j
        BY <1>1, <3>2
      <4>2. y[j - Len(x)].id = m.id
        BY <1>1, <2>3, <4>1
      <4>3. QED
        BY <1>5, <4>1, <4>2
    <3>3. QED
      BY <3>1, <3>2
  <2>4. ShownAt(z, k, m)
    BY <2>2, <2>3 DEF ShownAt
  <2>5. QED
    BY <1>1, <1>2, <2>2, <2>4
<1>6. \A m : m \in Shown(z) => \E i \in 1 .. Len(z) : ShownAt(z, i, m)
  BY <1>1, <1>2
<1> HIDE DEF Over
<1>7. \A m : m \in Shown(z) <=> m \in Shown(y) \/ (m \in Shown(x) /\ Over(m))
  BY <1>3, <1>4, <1>5, <1>6
<1>8. Shown(z) = Shown(y) \cup {m \in Shown(x) : Over(m)}
  BY <1>7
<1>9. QED
  BY <1>8 DEF z, Over

\* In a draft everything is in effect, and everything in effect is shown.
LEMMA DraftInEffect ==
  ASSUME NEW d, IsDraft(d)
  PROVE  InEffect(d) = d /\ Page(d) = Elements(d)
<1> DEFINE e == EffectAfter(d)
           C == Changes(d)
           S == {i \in Nat : i <= Len(d) =>
                   Len(e[i]) = i /\ \A k \in 1 .. i : e[i][k] = d[k]}
<1>1. /\ IsHistory(d) /\ Len(d) \in Nat /\ DOMAIN d = 1 .. Len(d)
      /\ \A k \in 1 .. Len(d) : ~IsRevert(d[k]) /\ ~d[k].deleted /\ d[k] \in C
      /\ \A k, l \in 1 .. Len(d) : d[k].id = d[l].id => k = l
  BY HistoryDomain DEF IsDraft, Changes
<1>2. /\ e[0] = <<>>
      /\ \A i \in 1 .. Len(d) : e[i] = Append(e[i - 1], d[i])
      /\ \A i \in 0 .. Len(d) : e[i] \in Seq(C)
  BY <1>1, EffectUnfolds, EffectTyped
<1> HIDE DEF e, C
<1>3. 0 \in S
  BY <1>2
<1>4. ASSUME NEW i \in Nat, i \in S PROVE i + 1 \in S
  <2> SUFFICES ASSUME i + 1 <= Len(d)
               PROVE  Len(e[i + 1]) = i + 1 /\ \A k \in 1 .. i + 1 : e[i + 1][k] = d[k]
    OBVIOUS
  <2>1. i + 1 \in 1 .. Len(d) /\ (i + 1) - 1 = i /\ i \in 0 .. Len(d) /\ i <= Len(d)
    BY <1>1
  <2>2. e[i + 1] = Append(e[i], d[i + 1]) /\ e[i] \in Seq(C) /\ d[i + 1] \in C
    BY <1>1, <1>2, <2>1
  <2>3. Len(e[i]) = i /\ \A k \in 1 .. i : e[i][k] = d[k]
    BY <1>4, <2>1
  <2>4. /\ Len(e[i + 1]) = i + 1
        /\ \A k \in 1 .. i : e[i + 1][k] = e[i][k]
        /\ e[i + 1][i + 1] = d[i + 1]
    BY <2>2, <2>3, AppendProperties
  <2>5. QED
    BY <2>3, <2>4
<1>5. \A i \in Nat : i \in S
  <2> HIDE DEF S
  <2> QED BY <1>3, <1>4, Induction
<1>6. /\ Len(e[Len(d)]) = Len(d) /\ \A k \in 1 .. Len(d) : e[Len(d)][k] = d[k]
      /\ e[Len(d)] \in Seq(C)
  BY <1>1, <1>2, <1>5
<1>7. d \in Seq(C)
  <2>1. d = [k \in 1 .. Len(d) |-> d[k]]
    BY <1>1, LenProperties DEF IsHistory, IsSequence
  <2>2. QED
    BY <1>1, <2>1
<1>8. e[Len(d)] = d
  BY <1>6, <1>7, SeqEqual
<1>9. Shown(d) = Elements(d)
  BY <1>1 DEF Shown, Elements
<1>10. QED
  BY <1>8, <1>9 DEF InEffect, Page, e

LEMMA EffectSequence ==
  ASSUME NEW h, IsHistory(h)
  PROVE  InEffect(h) \in Seq(Changes(h))
<1>1. Len(h) \in 0 .. Len(h)
  BY HistoryDomain
<1>2. QED
  BY <1>1, EffectTyped DEF InEffect

\* A draft d in place of a history a, before mutations r that leave it alone:
\* what they do not touch shows as it did.
Untouched(r, shown) ==
  {m \in shown : \A k \in 1 .. Len(InEffect(r)) : InEffect(r)[k].id # m.id}

LEMMA CheckpointOnTop ==
  ASSUME NEW h, IsHistory(h), NEW a, IsHistory(a), NEW r, IsHistory(r), Joins(h, a, r),
         Within(r), NEW d, IsDraft(d)
  PROVE  /\ IsDraft(Collapse(d \o r))
         /\ Elements(Collapse(d \o r)) = Page(r) \cup Untouched(r, Elements(d))
         /\ Page(h) = Page(r) \cup Untouched(r, Page(a))
<1> DEFINE g == d \o r
           x == InEffect(a)
           y == InEffect(r)
           S == (Changes(a) \cup Changes(d)) \cup Changes(r)
<1>1. IsHistory(d)
  BY DEF IsDraft
<1>2. IsHistory(g) /\ Joins(g, d, r)
  <2>1. IsSequence(g) /\ Joins(g, d, r)
    BY <1>1, ConcatSequence DEF IsHistory
  <2> HIDE DEF g
  <2>2. QED
    BY <1>1, <2>1, JoinedHistory
<1> HIDE DEF g
<1>3. IsDraft(Collapse(g)) /\ Elements(Collapse(g)) = Page(g)
  BY <1>2, CollapsesToPage
<1>4. InEffect(g) = d \o y /\ InEffect(h) = x \o y
  <2>1. InEffect(g) = InEffect(d) \o InEffect(r) /\ InEffect(d) = d
    BY <1>1, <1>2, EffectOnTop, DraftInEffect
  <2>2. InEffect(h) = InEffect(a) \o InEffect(r)
    BY EffectOnTop
  <2>3. QED
    BY <2>1, <2>2
<1>5. x \in Seq(Changes(a)) /\ d \in Seq(Changes(d)) /\ y \in Seq(Changes(r))
  BY <1>1, EffectSequence, DraftInEffect
<1>6. x \in Seq(S) /\ d \in Seq(S) /\ y \in Seq(S)
  <2>1. Changes(a) \subseteq S /\ Changes(d) \subseteq S /\ Changes(r) \subseteq S
    OBVIOUS
  <2> HIDE DEF S, x, y
  <2>2. QED
    BY <1>5, <2>1, SeqMonotonic
<1> HIDE DEF S
<1>7. Shown(d) = Elements(d) /\ Shown(x) = Page(a) /\ Shown(y) = Page(r)
  BY DraftInEffect DEF Page
<1>8. /\ Untouched(r, Elements(d)) = {m \in Elements(d) : \A k \in 1 .. Len(y) : y[k].id # m.id}
      /\ Untouched(r, Page(a)) = {m \in Page(a) : \A k \in 1 .. Len(y) : y[k].id # m.id}
  BY DEF Untouched
<1> HIDE DEF x, y
<1>9. Shown(d \o y) = Page(r) \cup Untouched(r, Elements(d))
  BY <1>6, <1>7, <1>8, ShownOnTop
<1>10. Shown(x \o y) = Page(r) \cup Untouched(r, Page(a))
  BY <1>6, <1>7, <1>8, ShownOnTop
<1>11. Page(g) = Shown(d \o y) /\ Page(h) = Shown(x \o y)
  BY <1>4 DEF Page
<1>12. QED
  BY <1>3, <1>9, <1>10, <1>11 DEF g

\* A draft of the page of a: the page of the whole history.
LEMMA Checkpoint ==
  ASSUME NEW h, IsHistory(h), NEW a, IsHistory(a), NEW r, IsHistory(r), Joins(h, a, r),
         Within(r), NEW d, IsDraft(d), Elements(d) = Page(a)
  PROVE  /\ IsDraft(Collapse(d \o r))
         /\ Elements(Collapse(d \o r)) = Page(h)
BY CheckpointOnTop

\* Without its first mutations a history has less in effect, whatever its
\* reverts reach: what it has in effect besides is of the first mutations.
LEMMA EffectOfSuffix ==
  ASSUME NEW h, IsHistory(h), NEW a, IsHistory(a), NEW r, IsHistory(r), Joins(h, a, r)
  PROVE  \E x \in Seq(Changes(a)) : InEffect(h) = x \o InEffect(r)
<1> DEFINE e == EffectAfter(h)
           f == EffectAfter(r)
           l == Len(a)
           C == Changes(h)
           B == Changes(a)
           S == {j \in Nat : j <= Len(r) => \E x \in Seq(B) : e[l + j] = x \o f[j]}
<1>1. /\ Len(r) \in Nat /\ l \in Nat /\ Len(h) = l + Len(r)
      /\ \A i \in 1 .. Len(r) : h[l + i] = r[i]
  BY HistoryDomain DEF Joins
<1>2. /\ \A i \in 1 .. Len(h) : e[i] = IF IsRevert(h[i]) THEN e[Back(h, i)]
                                       ELSE Append(e[i - 1], h[i])
      /\ f[0] = <<>>
      /\ \A i \in 1 .. Len(r) : f[i] = IF IsRevert(r[i]) THEN f[Back(r, i)]
                                       ELSE Append(f[i - 1], r[i])
  BY EffectUnfolds
<1>3. /\ \A i \in 0 .. Len(h) : e[i] \in Seq(C)
      /\ \A j \in 0 .. Len(r) : f[j] \in Seq(Changes(r))
  BY EffectTyped
<1>4. Changes(r) \subseteq C
  <2> SUFFICES ASSUME NEW i \in 1 .. Len(r), ~IsRevert(r[i]) PROVE r[i] \in C
    BY DEF Changes
  <2>1. l + i \in 1 .. Len(h) /\ h[l + i] = r[i]
    BY <1>1
  <2>2. QED
    BY <2>1 DEF Changes
<1>5. \A j \in 0 .. Len(r) : f[j] \in Seq(C)
  <2> HIDE DEF f, C
  <2> QED BY <1>3, <1>4, SeqMonotonic
<1>6. \A i \in 1 .. Len(r) : /\ ~IsRevert(r[i]) => r[i] \in C
                             /\ r[i].revert \in Nat
  BY <1>4 DEF Changes, IsHistory, IsMutation
<1>7. B \subseteq C
  <2> SUFFICES ASSUME NEW i \in 1 .. l, ~IsRevert(a[i]) PROVE a[i] \in C
    BY DEF Changes
  <2>1. i \in 1 .. Len(h) /\ h[i] = a[i]
    BY <1>1 DEF Joins
  <2>2. QED
    BY <2>1 DEF Changes
<1>8. \A i \in 0 .. l : e[i] \in Seq(B)
  <2>1. \A i \in 0 .. l : EffectAfter(a)[i] = e[i]
    BY <1>1, EffectOfPrefix, SMTT(20) DEF Joins
  <2>2. \A i \in 0 .. l : EffectAfter(a)[i] \in Seq(B)
    BY EffectTyped
  <2>3. QED
    BY <2>1, <2>2
<1> HIDE DEF e, f, l, B, C
<1>9. ASSUME NEW j \in Nat, \A m \in 0 .. j - 1 : m \in S
      PROVE  j \in S
  <2> SUFFICES ASSUME j <= Len(r) PROVE \E x \in Seq(B) : e[l + j] = x \o f[j]
    OBVIOUS
  <2>1. ASSUME e[l + j] \in Seq(B), f[j] = <<>>
        PROVE  \E x \in Seq(B) : e[l + j] = x \o f[j]
    <3>1. e[l + j] = e[l + j] \o <<>>
      BY <2>1, ConcatEmptySeq
    <3>2. QED
      BY <2>1, <3>1
  <2>2. CASE j = 0
    <3>1. l + j = l /\ l \in 0 .. l
      BY <1>1, <2>2
    <3>2. e[l + j] \in Seq(B) /\ f[j] = <<>>
      BY <1>2, <1>8, <2>2, <3>1
    <3>3. QED
      BY <2>1, <3>2
  <2>3. CASE j # 0 /\ IsRevert(r[j]) /\ r[j].revert < j
    <3>1. j \in 1 .. Len(r) /\ l + j \in 1 .. Len(h) /\ h[l + j] = r[j]
      BY <1>1, <2>3
    <3>2. f[j] = f[Back(r, j)] /\ e[l + j] = e[Back(h, l + j)]
      BY <1>2, <2>3, <3>1
    <3>3. r[j].revert < j /\ r[j].revert \in Nat
      BY <1>6, <2>3, <3>1
    <3>4. Back(r, j) = j - 1 - r[j].revert
      BY <2>3, <3>3 DEF Back
    <3>5. Back(h, l + j) = (l + j) - 1 - r[j].revert
      <4>1. r[j].revert < l + j
        BY <1>1, <3>1, <3>3
      <4>2. QED
        BY <2>3, <3>1, <4>1 DEF Back
    <3>6. Back(h, l + j) = l + Back(r, j) /\ Back(r, j) \in 0 .. j - 1 /\ Back(r, j) <= Len(r)
      <4>1. /\ l \in Nat /\ Len(r) \in Nat /\ j \in Nat /\ j <= Len(r)
            /\ r[j].revert \in Nat /\ r[j].revert < j
        BY <1>1, <3>1, <3>3
      <4>2. ASSUME NEW n \in Nat, n < j
            PROVE  (l + j) - 1 - n = l + (j - 1 - n) /\ j - 1 - n \in 0 .. j - 1
        BY <4>1, <4>2
      <4>3. Back(r, j) \in 0 .. j - 1 /\ Back(h, l + j) = l + Back(r, j)
        BY <3>4, <3>5, <4>1, <4>2
      <4>4. QED
        BY <4>1, <4>3
    <3>7. \E x \in Seq(B) : e[l + Back(r, j)] = x \o f[Back(r, j)]
      BY <1>9, <3>6
    <3>8. QED
      BY <3>2, <3>6, <3>7
  <2>4. CASE j # 0 /\ IsRevert(r[j]) /\ ~(r[j].revert < j)
    <3>1. /\ j \in 1 .. Len(r) /\ l + j \in 1 .. Len(h) /\ h[l + j] = r[j]
          /\ r[j].revert \in Nat
      BY <1>1, <1>6, <2>4
    <3>2. f[j] = <<>>
      BY <1>2, <2>4, <3>1 DEF Back
    <3>3. Back(h, l + j) \in 0 .. l
      <4>1. Back(h, l + j) = IF r[j].revert < l + j THEN (l + j) - 1 - r[j].revert ELSE 0
        BY <2>4, <3>1 DEF Back
      <4>2. /\ l \in Nat /\ j \in Nat /\ r[j].revert \in Nat /\ r[j].revert >= j
        BY <1>1, <2>4, <3>1
      <4>3. ASSUME NEW n \in Nat, n >= j, n < l + j
            PROVE  (l + j) - 1 - n \in 0 .. l
        BY <4>2, <4>3
      <4>4. QED
        BY <4>1, <4>2, <4>3
    <3>4. e[l + j] = e[Back(h, l + j)]
      BY <1>2, <2>4, <3>1
    <3>5. QED
      BY <1>8, <2>1, <3>2, <3>3, <3>4
  <2>5. CASE j # 0 /\ ~IsRevert(r[j])
    <3>1. j \in 1 .. Len(r) /\ l + j \in 1 .. Len(h) /\ h[l + j] = r[j]
      BY <1>1, <2>5
    <3>2. j - 1 \in 0 .. j - 1 /\ j - 1 \in 0 .. Len(r) /\ (l + j) - 1 = l + (j - 1)
      BY <1>1, <3>1
    <3>3. PICK x \in Seq(B) : e[l + (j - 1)] = x \o f[j - 1]
      BY <1>9, <3>2
    <3> DEFINE y == f[j - 1]
               w == <<r[j]>>
    <3>4. x \in Seq(C)
      BY <1>7, SeqMonotonic
    <3>5. y \in Seq(C) /\ w \in Seq(C) /\ r[j] \in C
      BY <1>5, <1>6, <2>5, <3>1, <3>2
    <3>6. f[j] = Append(y, r[j]) /\ e[l + j] = Append(x \o y, r[j])
      BY <1>2, <2>5, <3>1, <3>2, <3>3
    <3> HIDE DEF y
    <3>7. Append(y, r[j]) = y \o w /\ Append(x \o y, r[j]) = (x \o y) \o w
      <4>1. x \o y \in Seq(C)
        BY <3>5, <3>4, ConcatProperties
      <4> DEFINE z == x \o y
      <4> HIDE DEF z
      <4>2. QED
        BY <3>5, <4>1, AppendIsConcat DEF z
    <3> HIDE DEF w
    <3>8. (x \o y) \o w = x \o (y \o w)
      BY <3>5, <3>4, ConcatAssociative, SMTT(20)
    <3>9. QED
      BY <3>6, <3>7, <3>8
  <2>6. QED
    BY <2>2, <2>3, <2>4, <2>5
<1>10. \A j \in Nat : j \in S
  <2> HIDE DEF S
  <2> QED BY <1>9, StrongInduction
<1>11. \E x \in Seq(B) : e[l + Len(r)] = x \o f[Len(r)]
  <2>1. Len(r) \in S /\ Len(r) <= Len(r)
    <3> HIDE DEF S
    <3> QED BY <1>1, <1>10
  <2>2. QED
    BY <2>1
<1>12. QED
  BY <1>1, <1>11 DEF InEffect, e, f, l, B

\* Without its first mutations a history shows less.
LEMMA SuffixForgets ==
  ASSUME NEW h, IsHistory(h), NEW a, IsHistory(a), NEW r, IsHistory(r), Joins(h, a, r)
  PROVE  Page(r) \subseteq Page(h)
<1> DEFINE y == InEffect(r)
           S == Changes(a) \cup Changes(r)
<1>1. PICK x \in Seq(Changes(a)) : InEffect(h) = x \o y
  BY EffectOfSuffix
<1>2. y \in Seq(Changes(r))
  BY EffectSequence
<1>3. x \in Seq(S) /\ y \in Seq(S)
  <2>1. Changes(a) \subseteq S /\ Changes(r) \subseteq S
    OBVIOUS
  <2> HIDE DEF S, y
  <2>2. QED
    BY <1>2, <2>1, SeqMonotonic
<1> HIDE DEF S, y
<1>4. Shown(y) \subseteq Shown(x \o y)
  BY <1>3, ShownOnTop
<1>5. QED
  BY <1>1, <1>4 DEF Page, y

\* A draft in place of what came before mutations r, whatever their reverts
\* reach: all that r makes of itself shows, and of the draft only what r does
\* not touch.
LEMMA DraftOnTop ==
  ASSUME NEW d, IsDraft(d), NEW r, IsHistory(r)
  PROVE  LET page == Collapse(d \o r) IN
         /\ IsDraft(page)
         /\ Page(r) \subseteq Elements(page)
         /\ Elements(page) \subseteq Page(r) \cup Untouched(r, Elements(d))
<1> DEFINE h == d \o r
           y == InEffect(r)
           B == Changes(d)
           S == B \cup Changes(r)
<1>1. IsHistory(d)
  BY DEF IsDraft
<1>2. IsHistory(h) /\ Joins(h, d, r)
  <2>1. IsSequence(h) /\ Joins(h, d, r)
    BY <1>1, ConcatSequence DEF IsHistory
  <2> HIDE DEF h
  <2>2. QED
    BY <1>1, <2>1, JoinedHistory
<1> HIDE DEF h
<1>3. IsDraft(Collapse(h)) /\ Elements(Collapse(h)) = Shown(InEffect(h))
  BY <1>2, CollapsesToPage DEF Page
<1>4. PICK x \in Seq(B) : InEffect(h) = x \o y
  BY <1>1, <1>2, EffectOfSuffix, SMTT(20)
<1>5. x \in Seq(S) /\ y \in Seq(S)
  <2>1. y \in Seq(Changes(r)) /\ B \subseteq S /\ Changes(r) \subseteq S
    BY EffectSequence
  <2> HIDE DEF S, B, y
  <2>2. QED
    BY <1>4, <2>1, SeqMonotonic
<1> HIDE DEF S
<1>6. Shown(x \o y)
        = Shown(y) \cup {m \in Shown(x) : \A k \in 1 .. Len(y) : y[k].id # m.id}
  BY <1>5, ShownOnTop
<1>7. Shown(x) \subseteq Elements(d)
  <2>1. B \subseteq Elements(d)
    BY <1>1, HistoryDomain DEF Changes, Elements
  <2>2. \A i \in DOMAIN x : x[i] \in B
    <3> HIDE DEF B
    <3> QED BY <1>4
  <2>3. QED
    BY <2>1, <2>2 DEF Shown
<1>8. QED
  BY <1>3, <1>4, <1>6, <1>7 DEF Page, Untouched, h

\* A sequence given by its members.
LEMMA HistoryOf ==
  ASSUME NEW n \in Nat, NEW h, h = [i \in 1 .. n |-> h[i]],
         \A i \in 1 .. n : IsMutation(h[i])
  PROVE  IsHistory(h) /\ Len(h) = n
<1>1. h \in [1 .. n -> {h[i] : i \in 1 .. n}]
  OBVIOUS
<1>2. h \in Seq({h[i] : i \in 1 .. n}) /\ DOMAIN h = 1 .. n
  <2> DEFINE S == {h[i] : i \in 1 .. n}
  <2>1. h \in [1 .. n -> S] /\ DOMAIN h = 1 .. n
    BY <1>1
  <2> HIDE DEF S
  <2>2. h \in Seq(S)
    BY <2>1
  <2>3. QED
    BY <2>1, <2>2 DEF S
<1>3. Len(h) = n
  BY <1>2, LenProperties
<1>4. QED
  BY <1>2, <1>3 DEF IsHistory, IsSequence

LEMMA EmptyHistory == IsDraft(<<>>) /\ Page(<<>>) = {} /\ Elements(<<>>) = {}
<1>1. IsDraft(<<>>)
  BY DEF IsDraft, IsHistory, IsSequence
<1>2. Elements(<<>>) = {}
  BY DEF Elements
<1>3. QED
  BY <1>1, <1>2, DraftInEffect

\* The last mutation about an element decides what is shown of it.
LEMMA LastDecides ==
  ASSUME NEW h, IsHistory(h), Len(h) # 0, ~IsRevert(h[Len(h)])
  PROVE  LET m == h[Len(h)] IN
         /\ ~m.deleted => m \in Page(h)
         /\ m.deleted => \A x \in Page(h) : x.id # m.id
<1> DEFINE n == Len(h)
           m == h[n]
           e == EffectAfter(h)[n - 1]
           y == <<m>>
           S == Changes(h)
<1>1. n \in Nat /\ n \in 1 .. n /\ n - 1 \in 0 .. n
  BY HistoryDomain
<1>2. e \in Seq(S) /\ m \in S /\ EffectAfter(h)[n] = Append(e, m)
  BY <1>1, EffectTyped, EffectUnfolds DEF Changes
<1> HIDE DEF n, m, e, S
<1>3. y \in Seq(S) /\ Len(y) = 1 /\ y[1] = m /\ DOMAIN y = {1}
  BY <1>2
<1>4. InEffect(h) = e \o y
  BY <1>2, AppendIsConcat DEF InEffect, n
<1>5. Shown(y) = {m} \/ m.deleted
  BY DEF Shown
<1>6. m.deleted => Shown(y) = {}
  BY DEF Shown
<1> HIDE DEF y
<1> DEFINE Over(x) == \A k \in 1 .. Len(y) : y[k].id # x.id
<1>7. Page(h) = Shown(y) \cup {x \in Shown(e) : Over(x)}
  <2>0. e \in Seq(S) /\ y \in Seq(S)
    BY <1>2, <1>3
  <2>1. Shown(e \o y) = Shown(y) \cup {x \in Shown(e) : Over(x)}
    BY <2>0, ShownOnTop
  <2>2. Page(h) = Shown(e \o y)
    BY <1>4 DEF Page
  <2>3. QED
    BY <2>1, <2>2, Zenon
<1>8. \A x : Over(x) => x.id # m.id
  BY <1>3
<1> HIDE DEF Over
<1>9. (~m.deleted => m \in Page(h)) /\ (m.deleted => \A x \in Page(h) : x.id # m.id)
  BY <1>5, <1>6, <1>7, <1>8
<1>10. QED
  BY <1>9 DEF m, n

\* A revert brings back the page of the history that it goes back to.
LEMMA RevertGoesBack ==
  ASSUME NEW h, IsHistory(h), Len(h) # 0, IsRevert(h[Len(h)]),
         NEW g, IsHistory(g), Len(g) = Back(h, Len(h)),
         \A i \in 1 .. Len(g) : g[i] = h[i]
  PROVE  Page(h) = Page(g)
<1>1. /\ Len(h) \in 1 .. Len(h) /\ Len(g) \in Nat /\ Len(h) \in Nat
      /\ Len(g) <= Len(h) /\ Len(g) \in 0 .. Len(g)
  <2>1. Len(h) \in Nat /\ Len(g) \in Nat /\ Len(h) \in 1 .. Len(h)
    BY HistoryDomain
  <2>2. Back(h, Len(h)) \in 0 .. Len(h) - 1
    BY <2>1, HistoryDomain
  <2>3. QED
    BY <2>1, <2>2
<1>2. InEffect(h) = EffectAfter(h)[Len(g)]
  BY <1>1, EffectUnfolds DEF InEffect
<1>3. InEffect(g) = EffectAfter(h)[Len(g)]
  BY <1>1, EffectOfPrefix DEF InEffect
<1>4. QED
  BY <1>2, <1>3 DEF Page

=============================================================================
