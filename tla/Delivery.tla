------------------------------ MODULE Delivery ------------------------------
(***************************************************************************)
(* The publishing component with what visitors see of it: nginx in front   *)
(* of the object store (docker/cdn/nginx.conf), with its page cache, and   *)
(* the purge of that cache at the end of PublicationService.Delete.        *)
(*                                                                         *)
(* The public URL is in the reply to Create (handler.fillPublicURL), so a  *)
(* page is requested at any time after its id was given out.  The cache is *)
(* keyed by $request_uri: one page has several entries, one per query      *)
(* string, and the purger knows the key of the plain URI alone.            *)
(***************************************************************************)
EXTENDS Publishing

CONSTANTS
  Uris,         \* request URIs that name /publications/{id}/index.html
  Canonical,    \* the one without a query string
  CachePathSet, \* the path of the cache is configured
  NoEntry,      \* "nothing cached"
  NotFound      \* the object store's 404

Responses == Snapshots \cup {NotFound}

ASSUME DeliveryAssumption ==
  /\ Canonical \in Uris
  /\ CachePathSet \in BOOLEAN
  /\ NoEntry \notin Responses
  /\ NotFound \notin Snapshots

VARIABLES
  cache,  \* cache[id][u]: the response cached for URI u of publication id
  fetch   \* fetch[id][u]: the responses on their way from the object store

edge == <<cache, fetch>>

deliveryVars == <<vars, cache, fetch>>

DeliveryTypeOK ==
  /\ TypeOK
  /\ cache \in [Pubs -> [Uris -> Responses \cup {NoEntry}]]
  /\ fetch \in [Pubs -> [Uris -> SUBSET Responses]]

DeliveryInit ==
  /\ Init
  /\ cache = [id \in Pubs |-> [u \in Uris |-> NoEntry]]
  /\ fetch = [id \in Pubs |-> [u \in Uris |-> {}]]

-----------------------------------------------------------------------------
\* Variant of Origin: a missing object is not told from a page.
BlindOrigin(id) == obj[id][Index]

\* What the object store answers for index.html.
Origin(id) == IF obj[id][Index] = NoSnapshot THEN NotFound ELSE obj[id][Index]

\* A visitor's request that misses the cache reaches the object store.  No
\* proxy_cache_lock: several may be on their way for the same URI.
CacheMiss(id, u) ==
  /\ id \in minted
  /\ cache[id][u] = NoEntry
  /\ fetch' = [fetch EXCEPT ![id][u] = @ \cup {Origin(id)}]
  /\ UNCHANGED <<vars, cache>>

\* A response is complete and is stored: 200 for ten minutes, 404 for 30s.
CacheStore(id, u, response) ==
  /\ response \in fetch[id][u]
  /\ cache' = [cache EXCEPT ![id][u] = response]
  /\ fetch' = [fetch EXCEPT ![id][u] = @ \ {response}]
  /\ UNCHANGED vars

\* Variant of CacheExpire: a page is kept until it is purged, a 404 runs out.
MissExpire(id, u) ==
  /\ cache[id][u] = NotFound
  /\ cache' = [cache EXCEPT ![id][u] = NoEntry]
  /\ UNCHANGED <<vars, fetch>>

\* Variant of CacheExpire: a 404 is kept for ever.
PageExpire(id, u) ==
  /\ cache[id][u] \notin {NoEntry, NotFound}
  /\ cache' = [cache EXCEPT ![id][u] = NoEntry]
  /\ UNCHANGED <<vars, fetch>>

\* The entry's time is over (proxy_cache_valid, inactive) or it is evicted.
CacheExpire(id, u) ==
  /\ cache[id][u] # NoEntry
  /\ cache' = [cache EXCEPT ![id][u] = NoEntry]
  /\ UNCHANGED <<vars, fetch>>

\* FileCDNCachePurger.PurgePublication: removes the cached file whose name is
\* the hash of the plain URI; without a configured path it does nothing.
PurgePublication(id) ==
  cache' = IF CachePathSet THEN [cache EXCEPT ![id][Canonical] = NoEntry] ELSE cache

\* DeletePurge with the purger at work; walking the cache may fail, at any time
\* and without a budget.
DeletePurgeCached(r) ==
  /\ DeletePurge(r)
  /\ PurgePublication(req[r].id)
  /\ UNCHANGED fetch

DeletePurgeFails(r) ==
  /\ DeletePurge(r)
  /\ UNCHANGED edge

Purging(r) == DeletePurgeCached(r) \/ DeletePurgeFails(r)

Visit(id, u) ==
  \/ CacheMiss(id, u)
  \/ \E response \in Responses : CacheStore(id, u, response)
  \/ CacheExpire(id, u)

DeliveryNext ==
  \/ NextButPurge /\ UNCHANGED edge
  \/ \E r \in Reqs : Purging(r)
  \/ \E id \in Pubs, u \in Uris : Visit(id, u)

DeliverySpec == DeliveryInit /\ [][DeliveryNext]_deliveryVars

\* Publishing's fairness, restated for the composed next-state relation; a
\* fetch ends and an entry's time runs out.
DeliveryFairSpec ==
  /\ DeliverySpec
  /\ \A r \in Reqs : WF_deliveryVars((Serve(r) /\ UNCHANGED edge) \/ Purging(r))
  /\ WF_deliveryVars(Worker /\ UNCHANGED edge)
  /\ WF_deliveryVars(Exit /\ UNCHANGED edge)
  /\ \A id \in Pubs, u \in Uris :
       /\ \A response \in Responses : WF_deliveryVars(CacheStore(id, u, response))
       /\ WF_deliveryVars(CacheExpire(id, u))

-----------------------------------------------------------------------------
\* The responses that answer visitors of URI u, now or in a moment.
Answers(id, u) ==
  fetch[id][u] \cup (IF cache[id][u] = NoEntry THEN {} ELSE {cache[id][u]})

\* Answers that are not the page in the object store: 404s, and pages of a
\* rendering that was replaced.
StaleAnswers(id, u) == Answers(id, u) \ {obj[id][Index]}

\* While a record says FINISHED no stale answer comes up: what a visitor gets
\* from a look at the object store is its one page, and that page is not
\* replaced under the answers there are.  Whatever crashes, is redelivered or
\* deleted meanwhile, provided no call loses its reply and no shutdown cancels
\* one half way.
NoNewStaleAnswers ==
  [][\A id \in Pubs : Status(id) = "FINISHED" /\ Status(id)' = "FINISHED" =>
       \A u \in Uris : StaleAnswers(id, u)' \subseteq StaleAnswers(id, u)]_deliveryVars

Shows(id, u) == cache[id][u] \in Snapshots

\* Record and files of the publication are removed, and nobody is at work on it.
Gone(id) == /\ id \in minted /\ db[id] = NoDoc
            /\ obj[id] = NoObjects
            /\ Quiet(id)

\* A deleted publication is in the end served under no URI at all, and stays
\* so: what the purge missed (query strings, fetches in flight) runs out.
DeletedPageFadesOut ==
  \A id \in Pubs : Gone(id) ~> [](\A u \in Uris : ~Shows(id, u))

\* From some time after a publication became FINISHED its page comes from the
\* cache under every URI as it is in the object store, until the record is
\* removed: the 404s and the pages of an earlier, interrupted rendering that
\* were cached or on their way before run out.
FinishedPageComesThrough ==
  \A id \in Pubs :
    Status(id) = "FINISHED"
      ~> [](Status(id) = "FINISHED" =>
              \A u \in Uris : cache[id][u] \in {NoEntry, obj[id][Index]})

=============================================================================
