---------------------------- MODULE RoutingTable ----------------------------
(***************************************************************************)
(* The routing table of the DHT (src/src/mesh/dht.c): k-buckets with a     *)
(* limit per /16 subnet, the sibling table of the peers closest to this    *)
(* node, and the eclipse alarm that freezes the table.                     *)
(*                                                                         *)
(* A fingerprint is its distance to this node, so the local fingerprint is *)
(* 0 and bucket_index is the position of the highest bit.  The order of    *)
(* the peers in a bucket decides only which of the equally stale is        *)
(* evicted: a bucket is a set, and that choice is open.                    *)
(***************************************************************************)
EXTENDS Naturals, FiniteSets

CONSTANTS
    TablePeers,    \* the fingerprints of the other nodes
    Subnets,       \* the /16 prefixes
    BucketSize,    \* TRELLIS_DHT_K (20)
    SubnetLimit,   \* KBUCKET_MAX_PER_SUBNET (3)
    EvictAge,      \* 300000 ms
    EclipseMin,    \* 4 siblings
    EclipsePct,    \* ECLIPSE_SUBNET_THRESHOLD_PCT (50)
    FreezeTime,    \* ECLIPSE_FREEZE_DURATION_MS (60 s)
    EclipsePeriod, \* ECLIPSE_CHECK_INTERVAL_MS (30 s)
    TableMaxTime   \* bound: the clock

ASSUME RoutingTableAssumption ==
    /\ TablePeers \subseteq Nat \ {0} /\ IsFiniteSet(TablePeers)
    /\ "none" \notin Subnets
    /\ {BucketSize, SubnetLimit, EclipseMin, EclipsePeriod} \subseteq Nat \ {0}
    /\ {EvictAge, EclipsePct, FreezeTime, TableMaxTime} \subseteq Nat

VARIABLES
    table,     \* peer -> its entry, for the peers in some bucket
    siblings,  \* dht->sibling_table
    eclipse,   \* eclipse_disabled, _detected, _frozen and _freeze_until_ms
    tableNow,  \* trellis_now_ms()
    checkAt    \* when eclipse_timer fires

tableVars == <<table, siblings, eclipse, tableNow, checkAt>>

\* A peer offered without an address.
NoAddress == "none"

Entry == [subnet : Subnets, seen : 0..TableMaxTime]

\* bucket_index: the position of the highest bit of a distance.
BucketIndex[d \in Nat] == IF d < 2 THEN 0 ELSE BucketIndex[d \div 2] + 1
BucketOf(t, p) == {q \in DOMAIN t : BucketIndex[q] = BucketIndex[p]}

\* find_closest_peers to this node: at most BucketSize peers, the closest.
ClosestOf(t) ==
    {p \in DOMAIN t : Cardinality({q \in DOMAIN t : q < p}) < BucketSize}

InSubnet(t, ps, s) == {q \in ps : t[q].subnet = s}

TableInit ==
    /\ table = [p \in {} |-> 0]
    /\ siblings = {}
    /\ eclipse = [disabled |-> FALSE, detected |-> FALSE, frozen |-> FALSE, until |-> 0]
    /\ tableNow = 0
    /\ checkAt = EclipsePeriod

-----------------------------------------------------------------------------
(* The eclipse alarm. *)

ThawedAlarm(e) == [e EXCEPT !.frozen = FALSE, !.detected = FALSE]

Thawed(e) == ThawedAlarm(e)

Share(t, sibs) ==
    LET n == (Cardinality(sibs) * EclipsePct) \div 100 IN IF n < 2 THEN 2 ELSE n

Dominated(t, sibs) ==
    \E s \in Subnets : Cardinality(InSubnet(t, sibs, s)) >= Share(t, sibs)

\* trellis_dht_check_eclipse: a new alarm freezes the table; an old one does
\* not prolong the freeze.
CheckEclipse(e, t, sibs) ==
    IF e.disabled \/ Cardinality(sibs) < EclipseMin THEN e
    ELSE LET raised == Dominated(t, sibs) /\ ~e.detected
             f == [e EXCEPT !.detected = Dominated(t, sibs),
                            !.frozen = @ \/ raised,
                            !.until = IF raised THEN tableNow + FreezeTime ELSE @]
         IN IF f.frozen /\ tableNow >= f.until THEN Thawed(f) ELSE f

-----------------------------------------------------------------------------
(* Buckets. *)

\* The table with p stored as seen now from subnet s, or from where it was.
Stored(t, p, s) ==
    [q \in DOMAIN t \cup {p} |->
        IF q = p THEN [subnet |-> IF s = NoAddress THEN t[p].subnet ELSE s, seen |-> tableNow]
        ELSE t[q]]

Dropped(t, p) == [q \in DOMAIN t \ {p} |-> t[q]]

StaleIn(t, p) ==
    {q \in BucketOf(t, p) :
        /\ \A r \in BucketOf(t, p) : t[q].seen <= t[r].seen
        /\ tableNow - t[q].seen > EvictAge}

SubnetOpen(t, p, s) == Cardinality(InSubnet(t, BucketOf(t, p), s)) < SubnetLimit

\* Faulty variant of Accepting: a full bucket grows.
AcceptingAny(t, p, s) ==
    IF p \notin DOMAIN t /\ s = NoAddress THEN {} ELSE {Stored(t, p, s)}

\* kbucket_add: the tables it can leave when it accepts p (none if it refuses).
\* A known peer moves to the address it now has, whatever its subnet.
Accepting(t, p, s) ==
    IF p \in DOMAIN t THEN {Stored(t, p, s)}
    ELSE IF s = NoAddress \/ ~SubnetOpen(t, p, s) THEN {}
    ELSE IF Cardinality(BucketOf(t, p)) < BucketSize THEN {Stored(t, p, s)}
    ELSE {Stored(Dropped(t, q), p, s) : q \in StaleIn(t, p)}

\* trellis_dht_add_peer, of a peer at an address in subnet s or at none.
AddPeer(p, s) ==
    LET expired == eclipse.frozen /\ tableNow >= eclipse.until
        e == IF expired THEN Thawed(eclipse) ELSE eclipse
    IN \/ e.frozen /\ UNCHANGED tableVars
       \/ /\ ~e.frozen
          /\ Accepting(table, p, s) = {}
          /\ eclipse' = e
          /\ UNCHANGED <<table, siblings, tableNow, checkAt>>
       \/ /\ ~e.frozen
          /\ table' \in Accepting(table, p, s)
          /\ siblings' = ClosestOf(table')
          /\ eclipse' = CheckEclipse(e, table', siblings')
          /\ UNCHANGED <<tableNow, checkAt>>

\* Faulty variant of RemovePeer: the sibling table is left as it was.
RemovePeerOnly(p) ==
    /\ p \in DOMAIN table
    /\ table' = Dropped(table, p)
    /\ UNCHANGED <<siblings, eclipse, tableNow, checkAt>>

\* trellis_dht_remove_peer.
RemovePeer(p) ==
    /\ p \in DOMAIN table
    /\ table' = Dropped(table, p)
    /\ siblings' = ClosestOf(table')
    /\ UNCHANGED <<eclipse, tableNow, checkAt>>

\* trellis_dht_update_peer_seen.
PeerSeen(p) ==
    /\ p \in DOMAIN table
    /\ table' = [table EXCEPT ![p].seen = tableNow]
    /\ UNCHANGED <<siblings, eclipse, tableNow, checkAt>>

\* trellis_dht_set_eclipse_enabled.
SetEclipseEnabled(enabled) ==
    /\ eclipse' = IF enabled THEN [eclipse EXCEPT !.disabled = FALSE]
                  ELSE [Thawed(eclipse) EXCEPT !.disabled = TRUE, !.detected = FALSE]
    /\ UNCHANGED <<table, siblings, tableNow, checkAt>>

\* eclipse_timer_cb.
EclipseTimer ==
    /\ tableNow >= checkAt
    /\ checkAt' = tableNow + EclipsePeriod
    /\ eclipse' = CheckEclipse(eclipse, table, siblings)
    /\ UNCHANGED <<table, siblings, tableNow>>

TableTick ==
    /\ tableNow < TableMaxTime /\ tableNow < checkAt
    /\ tableNow' = tableNow + 1
    /\ UNCHANGED <<table, siblings, eclipse, checkAt>>

TableNext ==
    \/ \E p \in TablePeers, s \in Subnets \cup {NoAddress} : AddPeer(p, s)
    \/ \E p \in TablePeers : RemovePeer(p) \/ PeerSeen(p)
    \/ \E enabled \in BOOLEAN : SetEclipseEnabled(enabled)
    \/ EclipseTimer
    \/ TableTick

TableSpec == TableInit /\ [][TableNext]_tableVars

-----------------------------------------------------------------------------
(* Properties. *)

TableTypeOK ==
    /\ DOMAIN table \subseteq TablePeers
    /\ \A p \in DOMAIN table : table[p] \in Entry /\ Cardinality(BucketOf(table, p)) <= BucketSize
    /\ siblings \subseteq TablePeers
    /\ eclipse \in [disabled : BOOLEAN, detected : BOOLEAN, frozen : BOOLEAN, until : Nat]
    /\ tableNow \in 0..TableMaxTime /\ checkAt \in Nat

\* The sibling table names exactly the closest peers the buckets hold, whatever
\* sequence of insertions, evictions and removals led there: an entry of it never
\* outlives its peer (find_closest_peers, trellis_dht_remove_peer).
SiblingsAreClosest == siblings = ClosestOf(table)
=============================================================================
