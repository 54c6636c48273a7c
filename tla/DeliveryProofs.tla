--------------------------- MODULE DeliveryProofs ---------------------------
(***************************************************************************)
(* Proofs about what visitors see of publications: the composition with    *)
(* nginx's page cache is Publishing to everybody else, and visitors come   *)
(* by no stale answer of a publication that is FINISHED.                   *)
(***************************************************************************)
EXTENDS PublishingProofs, Delivery

-----------------------------------------------------------------------------
(* Visitors and the cache take no part in what Publishing does. *)

LEMMA ComposedInit == DeliveryInit => Init
BY DEF DeliveryInit

LEMMA ComposedStep == [DeliveryNext]_deliveryVars => [Next]_vars
BY DEF DeliveryNext, Next, Purging, DeletePurgeCached, DeletePurgeFails, Visit, CacheMiss,
       CacheStore, CacheExpire, deliveryVars

-----------------------------------------------------------------------------
(* Type correctness. *)

EdgeTyped ==
  /\ cache \in [Pubs -> [Uris -> Responses \cup {NoEntry}]]
  /\ fetch \in [Pubs -> [Uris -> SUBSET Responses]]

LEMMA OriginTyped ==
  ASSUME TypeOK, NEW id \in Pubs
  PROVE  Origin(id) \in Responses
BY ConstantsAssumption DEF TypeOK, Origin, Responses

LEMMA EdgeKept == TypeInv /\ EdgeTyped /\ [DeliveryNext]_deliveryVars => EdgeTyped'
<1> SUFFICES ASSUME TypeInv, EdgeTyped, [DeliveryNext]_deliveryVars PROVE EdgeTyped'
  OBVIOUS
<1> USE DEF TypeInv, EdgeTyped
<1>1. CASE UNCHANGED edge
  BY <1>1 DEF edge
<1>2. ASSUME NEW r \in Reqs, DeletePurgeCached(r)
      PROVE  EdgeTyped'
  <2>1. /\ cache' \in {cache, [cache EXCEPT ![req[r].id][Canonical] = NoEntry]}
        /\ UNCHANGED fetch
    BY <1>2 DEF DeletePurgeCached, PurgePublication
  <2>2. CASE cache' = cache
    BY <2>1, <2>2
  <2>3. CASE cache' = [cache EXCEPT ![req[r].id][Canonical] = NoEntry]
    BY <2>1, <2>3
  <2>4. QED
    BY <2>1, <2>2, <2>3
<1>3. ASSUME NEW id \in Pubs, NEW u \in Uris, CacheMiss(id, u)
      PROVE  EdgeTyped'
  BY <1>3, OriginTyped DEF CacheMiss
<1>4. ASSUME NEW id \in Pubs, NEW u \in Uris, NEW response \in Responses,
             CacheStore(id, u, response)
      PROVE  EdgeTyped'
  BY <1>4 DEF CacheStore
<1>5. ASSUME NEW id \in Pubs, NEW u \in Uris, CacheExpire(id, u)
      PROVE  EdgeTyped'
  BY <1>5 DEF CacheExpire
<1>6. QED
  BY <1>1, <1>2, <1>3, <1>4, <1>5
     DEF DeliveryNext, Purging, DeletePurgeFails, Visit, deliveryVars, edge

LEMMA EdgeInit == DeliveryInit => EdgeTyped
BY DEF DeliveryInit, EdgeTyped

\* Whatever happens, what the cache holds and what is on its way to it are
\* pages or 404s.
THEOREM DeliveryTypeCorrect == DeliverySpec => []DeliveryTypeOK
<1>1. TypeInv /\ EdgeTyped => DeliveryTypeOK
  BY DEF TypeInv, EdgeTyped, DeliveryTypeOK
<1>2. QED
  BY <1>1, ComposedInit, ComposedStep, TypeInit, TypeNext, EdgeInit, EdgeKept, PTL
     DEF DeliverySpec

-----------------------------------------------------------------------------
(* Stale answers. *)

\* The page of a FINISHED publication is there to be fetched.
LEMMA OriginIsPage ==
  ASSUME TypeInv, PageInv, NEW pub \in Pubs, Status(pub) = "FINISHED"
  PROVE  Origin(pub) = obj[pub][Index]
<1>1. PICK s \in Snapshots : Index \in Bundle[s] /\ Holds(pub, s)
  BY DEF PageInv, FinishedHasBundle
<1>2. QED
  BY <1>1, ConstantsAssumption DEF Holds, Origin

\* A step gives visitors of a URI no answer they did not have, except by a look
\* at the object store.
LEMMA NewAnswerIsOrigin ==
  ASSUME TypeInv, EdgeTyped, [DeliveryNext]_deliveryVars,
         NEW pub \in Pubs, NEW uri \in Uris
  PROVE  Answers(pub, uri)' \subseteq Answers(pub, uri) \cup {Origin(pub)}
<1> USE DEF TypeInv, EdgeTyped, Answers
<1>1. CASE UNCHANGED edge
  BY <1>1 DEF edge
<1>2. ASSUME NEW r \in Reqs, DeletePurgeCached(r)
      PROVE  Answers(pub, uri)' \subseteq Answers(pub, uri)
  <2>1. UNCHANGED fetch /\ cache'[pub][uri] \in {NoEntry, cache[pub][uri]}
    BY <1>2 DEF DeletePurgeCached, PurgePublication
  <2>2. QED
    BY <2>1
<1>3. ASSUME NEW id \in Pubs, NEW u \in Uris, CacheMiss(id, u)
      PROVE  Answers(pub, uri)' \subseteq Answers(pub, uri) \cup {Origin(pub)}
  <2>1. UNCHANGED cache /\ fetch'[pub][uri] \subseteq fetch[pub][uri] \cup {Origin(pub)}
    BY <1>3 DEF CacheMiss
  <2>2. QED
    BY <2>1
<1>4. ASSUME NEW id \in Pubs, NEW u \in Uris, NEW response \in Responses,
             CacheStore(id, u, response)
      PROVE  Answers(pub, uri)' \subseteq Answers(pub, uri)
  <2>1. /\ fetch'[pub][uri] \subseteq fetch[pub][uri]
        /\ cache'[pub][uri] = cache[pub][uri] \/ cache'[pub][uri] \in fetch[pub][uri]
    BY <1>4 DEF CacheStore
  <2>2. QED
    BY <2>1
<1>5. ASSUME NEW id \in Pubs, NEW u \in Uris, CacheExpire(id, u)
      PROVE  Answers(pub, uri)' \subseteq Answers(pub, uri)
  <2>1. UNCHANGED fetch /\ cache'[pub][uri] \in {NoEntry, cache[pub][uri]}
    BY <1>5 DEF CacheExpire
  <2>2. QED
    BY <2>1
<1>6. QED
  BY <1>1, <1>2, <1>3, <1>4, <1>5
     DEF DeliveryNext, Purging, DeletePurgeFails, Visit, deliveryVars, edge

NothingNewIsStale ==
  \A id \in Pubs : Status(id) = "FINISHED" /\ Status(id)' = "FINISHED" =>
    \A u \in Uris : StaleAnswers(id, u)' \subseteq StaleAnswers(id, u)

LEMMA StaleStep ==
  TypeInv /\ PageInv /\ EdgeTyped /\ [DeliveryNext]_deliveryVars => NothingNewIsStale
<1> SUFFICES ASSUME TypeInv, PageInv, EdgeTyped, [DeliveryNext]_deliveryVars,
                    NEW pub \in Pubs, Status(pub) = "FINISHED", Status(pub)' = "FINISHED",
                    NEW uri \in Uris
             PROVE  StaleAnswers(pub, uri)' \subseteq StaleAnswers(pub, uri)
  BY DEF NothingNewIsStale
<1>1. obj'[pub] = obj[pub]
  BY ComposedStep, BundlesKeptStep DEF BundlesKept
<1>2. Origin(pub) = obj[pub][Index]
  BY OriginIsPage
<1>3. Answers(pub, uri)' \subseteq Answers(pub, uri) \cup {Origin(pub)}
  BY NewAnswerIsOrigin
<1>4. QED
  BY <1>1, <1>2, <1>3 DEF StaleAnswers

\* While every call that takes effect also reports so, a publication that is
\* FINISHED gets no visitor a stale answer that was not on its way or in the
\* cache before: for any number of crashes, failing calls, redelivered tasks,
\* interrupted renderings, deletions and visitors.
THEOREM NoNewStaleAnswersHolds == RepliesArrive /\ DeliverySpec => NoNewStaleAnswers
<1> SUFFICES ASSUME RepliesArrive PROVE DeliverySpec => NoNewStaleAnswers
  OBVIOUS
<1>1. DeliveryInit => TypeInv /\ QueueInv /\ PageInv /\ EdgeTyped
  BY ComposedInit, TypeInit, QueueInit, PageInit, EdgeInit
<1>2. TypeInv /\ PageInv /\ EdgeTyped /\ [DeliveryNext]_deliveryVars
        => [NothingNewIsStale]_deliveryVars
  BY StaleStep
<1>3. [][NothingNewIsStale]_deliveryVars => NoNewStaleAnswers
  BY PTL DEF NoNewStaleAnswers, NothingNewIsStale
<1>4. QED
  BY <1>1, <1>2, <1>3, ComposedStep, TypeNext, QueueNext, PageNext, EdgeKept, PTL
     DEF DeliverySpec

=============================================================================
