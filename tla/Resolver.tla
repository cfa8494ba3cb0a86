------------------------------ MODULE Resolver ------------------------------
(***************************************************************************)
(* The DNS-over-HTTPS resolver of exit relays and of the bootstrap         *)
(* (src/src/mesh/doh.c): a cache, a worker that posts the query, and the   *)
(* system's resolver behind it.  What a query of the network answers is    *)
(* any outcome.                                                            *)
(***************************************************************************)
EXTENDS Naturals, Sequences

CONSTANTS
    Requests,   \* calls of trellis_doh_resolve and trellis_doh_resolve_txt
    Hosts,      \* host names asked for
    CacheSlots, \* DOH_CACHE_MAX
    CacheTTL    \* DOH_CACHE_TTL_MS, in ticks

ASSUME ResolverAssumption == {CacheSlots, CacheTTL} \subseteq Nat \ {0}

VARIABLES
    requests, \* per request its host, and where it is
    got,      \* per request, the callbacks made: "address", "text" or "not_found"
    cache     \* per slot the host and the time left, or NotCached

resolverVars == <<requests, got, cache>>

NotCached == [host |-> "", left |-> 0]
NotAsked == [host |-> "", phase |-> "idle"]

ResolverInit ==
    /\ requests = [r \in Requests |-> NotAsked]
    /\ got = [r \in Requests |-> <<>>]
    /\ cache = [i \in 1..CacheSlots |-> NotCached]

\* doh_cache_lookup; expired entries are skipped.
CacheHit(host) == \E i \in 1..CacheSlots : cache[i].host = host /\ cache[i].left > 0

\* The first free or expired slot, or the first one.
FreeSlot ==
    LET free == {i \in 1..CacheSlots : cache[i].left = 0}
    IN IF free = {} THEN 1 ELSE CHOOSE i \in free : \A j \in free : i <= j

\* doh_cache_insert.
InCache(host) == [cache EXCEPT ![FreeSlot] = [host |-> host, left |-> CacheTTL]]

Called(r, what) == got' = [got EXCEPT ![r] = Append(@, what)]
Moves(r, phase) == requests' = [requests EXCEPT ![r].phase = phase]

\* trellis_doh_resolve: an answer from the cache, a job for the worker, or an error.
Resolve(r, host) ==
    /\ requests[r] = NotAsked
    /\ IF CacheHit(host)
       THEN /\ Called(r, "address")
            /\ requests' = [requests EXCEPT ![r] = [host |-> host, phase |-> "done"]]
       ELSE /\ got' = got
            /\ \E phase \in {"posting", "refused"} :
                 requests' = [requests EXCEPT ![r] = [host |-> host, phase |-> phase]]
    /\ UNCHANGED cache

\* trellis_doh_resolve_txt: the cache has no text.
ResolveTxt(r, host) ==
    /\ requests[r] = NotAsked
    /\ \E phase \in {"posting_text", "refused"} :
         requests' = [requests EXCEPT ![r] = [host |-> host, phase |-> phase]]
    /\ UNCHANGED <<got, cache>>

\* doh_work_cb got an address, from the A record or after it from the AAAA record.
DohPosted(r) ==
    /\ requests[r].phase = "posting"
    /\ cache' = InCache(requests[r].host)
    /\ Called(r, "address") /\ Moves(r, "done")

\* Faulty variant of PostFailed: the caller is told although the system's resolver was asked.
PostFailedTold(r) ==
    /\ requests[r].phase = "posting"
    /\ Called(r, "not_found") /\ \E phase \in {"system", "done"} : Moves(r, phase)
    /\ UNCHANGED cache

\* doh_after_work_cb without an address: on to the system's resolver, if it takes the request.
PostFailed(r) ==
    /\ requests[r].phase = "posting"
    /\ \/ Moves(r, "system") /\ got' = got
       \/ Moves(r, "done") /\ Called(r, "not_found")
    /\ UNCHANGED cache

\* doh_fallback_cb.
SystemAnswers(r) ==
    /\ requests[r].phase = "system"
    /\ Moves(r, "done")
    /\ \/ Called(r, "address") /\ cache' = InCache(requests[r].host)
       \/ Called(r, "not_found") /\ cache' = cache

\* doh_txt_work_cb and doh_txt_after_work_cb: there is no other resolver for text.
TxtPosted(r) ==
    /\ requests[r].phase = "posting_text"
    /\ Moves(r, "done")
    /\ \E what \in {"text", "not_found"} : Called(r, what)
    /\ UNCHANGED cache

ResolverTick ==
    /\ \E i \in 1..CacheSlots : cache[i].left > 0
    /\ cache' = [i \in 1..CacheSlots |-> IF cache[i].left > 0 THEN [cache[i] EXCEPT !.left = @ - 1]
                                         ELSE cache[i]]
    /\ UNCHANGED <<requests, got>>

ResolverNext ==
    \/ ResolverTick
    \/ \E r \in Requests :
         \/ \E host \in Hosts : Resolve(r, host) \/ ResolveTxt(r, host)
         \/ DohPosted(r) \/ PostFailed(r) \/ SystemAnswers(r) \/ TxtPosted(r)

ResolverSpec == ResolverInit /\ [][ResolverNext]_resolverVars

----------------------------------------------------------------------------

RequestPhases == {"idle", "refused", "posting", "posting_text", "system", "done"}

ResolverTypeOK ==
    /\ requests \in [Requests -> [host : Hosts \union {""}, phase : RequestPhases]]
    /\ cache \in [1..CacheSlots -> [host : Hosts \union {""}, left : 0..CacheTTL]]

\* The callback of a request is called once, when it is done, and never for a request that was
\* refused, whichever of the resolvers answered (doh_after_work_cb and doh_fallback_cb).
ResolvedOnce == \A r \in Requests : Len(got[r]) = IF requests[r].phase = "done" THEN 1 ELSE 0
=============================================================================
