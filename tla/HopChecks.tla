------------------------------ MODULE HopChecks ------------------------------
(***************************************************************************)
(* What a node knows of the relays it might route through: the warrant     *)
(* canary each of them publishes every day (src/src/mesh/canary.c) and its *)
(* signed descriptor (src/src/mesh/relay_descriptor.c), both fetched from  *)
(* the DHT and cached.  One unit of time serves both.                      *)
(***************************************************************************)
EXTENDS Naturals, FiniteSets

CONSTANTS
    Relays,         \* nodes that publish
    CanaryAge,      \* CANARY_MAX_AGE_MS
    DescriptorAge,  \* max_age of on_desc_dht_result
    RelayDescTTL,  \* DESC_CACHE_TTL_MS
    CanarySlots,    \* CANARY_CACHE_MAX
    DescSlots,      \* DESC_CACHE_MAX
    MaxDay          \* bound: days modelled

ASSUME HopChecksAssumption ==
    /\ {CanaryAge, DescriptorAge, RelayDescTTL, MaxDay} \subseteq Nat
    /\ {CanarySlots, DescSlots} \subseteq Nat \ {0}
    /\ Relays # {}

NoRecord == [issued |-> 0, valid |-> FALSE, verified |-> 0]

VARIABLES
    day,          \* the clock
    canaryStore,  \* relay -> issue days of the canaries that some storer holds
    descStore,    \* relay -> days of the descriptors that some storer holds
    canaries,     \* g_canary_cache: relay -> entry; a relay without a slot has none
    slots,        \* relays with a slot in g_canary_cache
    descs,        \* g_desc_cache: slot -> entry
    used          \* history: <<relay, day>> of the hops that passed, this day

hopVars == <<day, canaryStore, descStore, canaries, slots, descs, used>>

EmptyDesc == [relay |-> CHOOSE r \in Relays : TRUE, published |-> 0, fetched |-> 0, occupied |-> FALSE]

HopInit ==
    /\ day = 0
    /\ canaryStore = [r \in Relays |-> {}]
    /\ descStore = [r \in Relays |-> {}]
    /\ canaries = [r \in Relays |-> NoRecord]
    /\ slots = {}
    /\ descs = [i \in 1..DescSlots |-> EmptyDesc]
    /\ used = {}

Day ==
    /\ day < MaxDay
    /\ day' = day + 1
    /\ used' = {}
    /\ UNCHANGED <<canaryStore, descStore, canaries, slots, descs>>

\* canary_publish_timer_cb: a relay that may still speak publishes; some storers keep an
\* older record.
PublishCanary(r) ==
    /\ canaryStore' = [canaryStore EXCEPT ![r] = @ \cup {day}]
    /\ UNCHANGED <<day, descStore, canaries, slots, descs, used>>

\* trellis_relay_descriptor_sign and publish.
PublishRelayDesc(r) ==
    /\ descStore' = [descStore EXCEPT ![r] = @ \cup {day}]
    /\ UNCHANGED <<day, canaryStore, canaries, slots, descs, used>>

--------------------------------------------------------------------------
(* Canaries *)

\* canary_cache_alloc: only an entry that is valid is found again, so the slot of an
\* invalid one is not reused; the entry verified longest ago makes room.
Evicted ==
    {r \in slots : \A s \in slots : canaries[r].verified <= canaries[s].verified}

\* trellis_canary_verify, at the time of the fetch.
FreshCanary(issued) == day <= issued + CanaryAge

CanaryCached(r, issued) ==
    LET entry == [issued |-> issued, valid |-> TRUE, verified |-> day] IN
    IF canaries[r].valid \/ r \in slots \/ Cardinality(slots) < CanarySlots
    THEN /\ slots' = slots \cup {r}
         /\ canaries' = [canaries EXCEPT ![r] = entry]
    ELSE \E v \in Evicted :
            /\ slots' = (slots \ {v}) \cup {r}
            /\ canaries' = [canaries EXCEPT ![v] = NoRecord, ![r] = entry]

\* trellis_canary_fetch: a cached canary that is fresh ends it, and one that is not stops
\* being valid; on_canary_dht_result caches what verifies.
FetchCanary(r) ==
    /\ ~(canaries[r].valid /\ day - canaries[r].issued < CanaryAge)
    /\ \/ \E issued \in canaryStore[r] : FreshCanary(issued) /\ CanaryCached(r, issued)
       \/ /\ canaries' = [canaries EXCEPT ![r].valid = FALSE]
          /\ UNCHANGED slots
    /\ UNCHANGED <<day, canaryStore, descStore, descs, used>>

\* trellis_canary_revoke.
RevokeCanary(r) ==
    /\ canaries[r].valid
    /\ canaries' = [canaries EXCEPT ![r].valid = FALSE]
    /\ UNCHANGED <<day, canaryStore, descStore, slots, descs, used>>

\* trellis_canary_check_peer.
CheckPeer(r) ==
    IF ~canaries[r].valid THEN "NOT_FOUND"
    ELSE IF day - canaries[r].issued > CanaryAge THEN "EXPIRED" ELSE "OK"

\* Faulty variant of Skipped: the age of a cached canary is not looked at again.
SkippedNever(r) == FALSE

\* The condition under which routing.c passes over a hop.
Skipped(r) == CheckPeer(r) \in {"EXPIRED", "VERIFY_FAILED"}

\* The hop loop of route_onion_ex and route_relay: an expired entry is made invalid by
\* the check that finds it.
ConsiderHop(r) ==
    /\ IF Skipped(r) THEN UNCHANGED used ELSE used' = used \cup {r}
    /\ canaries' = [canaries EXCEPT ![r].valid = @ /\ CheckPeer(r) # "EXPIRED"]
    /\ UNCHANGED <<day, canaryStore, descStore, slots, descs>>

--------------------------------------------------------------------------
(* Descriptors *)

StaleDesc(i) == day - descs[i].fetched > RelayDescTTL

FreedDescs == [i \in 1..DescSlots |->
                  IF descs[i].occupied /\ StaleDesc(i) THEN [descs[i] EXCEPT !.occupied = FALSE]
                  ELSE descs[i]]

\* Faulty variant of CachedDesc: entries do not expire.
CachedDescForever(r) == {i \in 1..DescSlots : descs[i].occupied /\ descs[i].relay = r}

\* desc_cache_lookup.
CachedDesc(r) == {i \in 1..DescSlots : descs[i].occupied /\ ~StaleDesc(i) /\ descs[i].relay = r}

\* The slot that desc_cache_insert takes: the first free or stale one, otherwise the one
\* fetched longest ago.
InsertSlots ==
    LET open == {i \in 1..DescSlots : ~descs[i].occupied \/ StaleDesc(i)} IN
    IF open # {} THEN {i \in open : \A j \in open : i <= j}
    ELSE {i \in 1..DescSlots : \A j \in 1..DescSlots : descs[i].fetched <= descs[j].fetched}

\* The age test of trellis_relay_descriptor_verify, for the signature of its relay.
FreshDescriptor(published) == day <= published + DescriptorAge

\* trellis_relay_descriptor_fetch and on_desc_dht_result.
FetchDescriptor(r) ==
    /\ CachedDesc(r) = {}
    /\ \/ \E published \in descStore[r], i \in InsertSlots :
            /\ FreshDescriptor(published)
            /\ descs' = [FreedDescs EXCEPT ![i] =
                            [relay |-> r, published |-> published, fetched |-> day, occupied |-> TRUE]]
       \/ descs' = FreedDescs
    /\ UNCHANGED <<day, canaryStore, descStore, canaries, slots, used>>

CanaryNext ==
    \/ Day
    \/ \E r \in Relays : PublishCanary(r) \/ FetchCanary(r) \/ RevokeCanary(r) \/ ConsiderHop(r)

DescNext ==
    \/ Day
    \/ \E r \in Relays : PublishRelayDesc(r) \/ FetchDescriptor(r)

\* The two caches share the clock and nothing else.
CanarySpec == HopInit /\ [][CanaryNext]_hopVars
DescSpec == HopInit /\ [][DescNext]_hopVars

--------------------------------------------------------------------------
(* Properties *)

\* Every part of the state has its shape, and the caches keep to their sizes.
HopTypeOK ==
    /\ day \in 0..MaxDay
    /\ canaryStore \in [Relays -> SUBSET (0..MaxDay)]
    /\ descStore \in [Relays -> SUBSET (0..MaxDay)]
    /\ canaries \in [Relays -> [issued : 0..MaxDay, valid : BOOLEAN, verified : 0..MaxDay]]
    /\ slots \subseteq Relays /\ Cardinality(slots) <= CanarySlots
    /\ descs \in [1..DescSlots -> [relay : Relays, published : 0..MaxDay, fetched : 0..MaxDay, occupied : BOOLEAN]]
    /\ used \subseteq Relays

\* A descriptor that the hop selection reads was published at most its lifetime and one
\* cache period ago, whichever of the relay's records the DHT gave and however often it
\* was asked for (relay_descriptor.c: desc_cache_lookup, on_desc_dht_result).
DescriptorsAreRecent ==
    \A r \in Relays : \A i \in CachedDesc(r) : day <= descs[i].published + DescriptorAge + RelayDescTTL

\* A hop whose canary is in the cache and has expired does not pass the check that finds it.
ExpiredIsSkipped ==
    [][\A r \in used' \ used :
          canaries[r].valid => day <= canaries[r].issued + CanaryAge]_hopVars
==============================================================================
