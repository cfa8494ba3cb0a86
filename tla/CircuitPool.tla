---------------------------- MODULE CircuitPool ----------------------------
(***************************************************************************)
(* The pool of prebuilt onion circuits (src/src/mesh/circuit_pool.c) and   *)
(* its use when an onion packet is sent (route_onion_ex of                 *)
(* src/src/mesh/routing.c).  Peers of the routing table come, go and       *)
(* rotate their keys between the building of a circuit and its use.        *)
(***************************************************************************)
EXTENDS Naturals, FiniteSets

CONSTANTS
    PoolRelays,       \* the peers that may be hops
    Leaving,      \* those that may leave the routing table
    Rotating,     \* those that may rotate their keys
    Pinned,       \* Pinned[1] the guards, Pinned[2] and Pinned[3] the vanguards
    Dests,        \* the destinations
    PoolSize,     \* CIRCUIT_POOL_SIZE (4)
    MaxStreams,   \* CIRCUIT_MAX_STREAMS (16)
    CircuitAge,   \* CIRCUIT_POOL_MAX_AGE_MS (5 min)
    BuildPeriod,  \* 30 s
    MaxRotations, \* bound: key rotations
    PoolMaxTime   \* bound: the clock

NoDest == "any"

ASSUME CircuitPoolAssumption ==
    /\ Leaving \subseteq PoolRelays /\ Rotating \subseteq PoolRelays
    /\ Pinned \in [1..3 -> SUBSET PoolRelays]
    /\ {PoolSize, MaxStreams, BuildPeriod} \subseteq Nat \ {0}
    /\ {CircuitAge, MaxRotations, PoolMaxTime} \subseteq Nat
    /\ NoDest \notin Dests

VARIABLES
    poolCircuits,  \* router->circuit_pool
    present,   \* the relays in the routing table
    keyOf,     \* relay -> the version of its keys
    misSealed, \* whether a packet was sealed with a key its hop no longer has
    poolNow,   \* trellis_now_ms()
    buildAt    \* when pool_timer fires

poolVars == <<poolCircuits, present, keyOf, misSealed, poolNow, buildAt>>

Empty == [valid |-> FALSE]

\* The stream numbers a circuit can have: random ones, or one the caller reuses.
PoolStreams == 1..MaxStreams

PoolInit ==
    /\ poolCircuits = [i \in 1..PoolSize |-> Empty]
    /\ present = PoolRelays
    /\ keyOf = [r \in PoolRelays |-> 0]
    /\ misSealed = FALSE
    /\ poolNow = 0
    /\ buildAt = 1

-----------------------------------------------------------------------------
(* Building. *)

TooOld(c) == poolNow - c.created > CircuitAge

\* trellis_circuit_pool_expire.
Kept(cs) == [i \in 1..PoolSize |-> IF cs[i].valid /\ TooOld(cs[i]) THEN Empty ELSE cs[i]]

FreeCircuit(cs) == {i \in 1..PoolSize : ~cs[i].valid}
FirstOf(is) == CHOOSE i \in is : \A j \in is : i <= j

\* The hops the selection returns are different relays.
Selections == {h \in [1..3 -> present] : h[1] # h[2] /\ h[1] # h[3] /\ h[2] # h[3]}

\* The hops after the guard and the vanguards are pinned.  A vanguard is compared
\* with the hops before it, and the guard with none.
PinnedHops(h) ==
    {p \in [1..3 -> present] :
        /\ IF Pinned[1] \cap present = {} THEN p[1] = h[1] ELSE p[1] \in Pinned[1]
        /\ LET two == (Pinned[2] \cap present) \ {p[1]}
           IN IF two = {} THEN p[2] = h[2] ELSE p[2] \in two
        /\ LET three == (Pinned[3] \cap present) \ {p[1], p[2]}
           IN IF three = {} THEN p[3] = h[3] ELSE p[3] \in three}

BuiltCircuit(p) ==
    [valid |-> TRUE, hops |-> p, dest |-> NoDest, created |-> poolNow, streams |-> {},
     count |-> 0, encaps |-> TRUE, snapshot |-> [k \in 1..3 |-> keyOf[p[k]]], served |-> {}]

\* pool_build_timer_cb: one circuit at a time.
BuildTimer ==
    /\ poolNow >= buildAt
    /\ buildAt' = poolNow + BuildPeriod
    /\ LET kept == Kept(poolCircuits)
       IN \/ /\ FreeCircuit(kept) = {} \/ Selections = {}
             /\ poolCircuits' = kept
          \/ /\ FreeCircuit(kept) # {}
             /\ \E h \in Selections : \E p \in PinnedHops(h) :
                    poolCircuits' = [kept EXCEPT ![FirstOf(FreeCircuit(kept))] = BuiltCircuit(p)]
    /\ UNCHANGED <<present, keyOf, misSealed, poolNow>>

-----------------------------------------------------------------------------
(* Use. *)

\* The circuits the first loop of trellis_circuit_pool_acquire drops, up to the one it
\* returns; the second loop drops the others.
Young(cs) == [i \in 1..PoolSize |-> IF cs[i].valid /\ ~TooOld(cs[i]) THEN cs[i] ELSE Empty]
Open(cs, d) == {i \in 1..PoolSize : cs[i].valid /\ cs[i].dest = d /\ cs[i].count < MaxStreams}

\* Faulty variant of BoundTo: the circuit stays free for other destinations.
UnboundCircuit(c, d) == c

BoundTo(c, d) == [c EXCEPT !.dest = d]

\* trellis_circuit_pool_alloc_stream_with_id: the circuit with stream s open.
WithStream(c, s) ==
    IF s \in c.streams THEN c ELSE [c EXCEPT !.streams = @ \cup {s}, !.count = @ + 1]

\* trellis_circuit_pool_close_stream.
WithoutStream(c, s) ==
    IF s \in c.streams THEN [c EXCEPT !.streams = @ \ {s}, !.count = @ - 1] ELSE c

\* trellis_circuit_pool_release.
Released(c) == IF c.count = 0 THEN Empty ELSE c

Rotated(c) == \E k \in 1..3 : keyOf[c.hops[k]] # c.snapshot[k]

\* Faulty variant of Current: the snapshot is not compared.
CurrentAlways(c) == c

\* The precomputed encapsulation is dropped when the key of a hop has changed.
Current(c) == IF c.encaps /\ Rotated(c) THEN [c EXCEPT !.encaps = FALSE] ELSE c

Sealed(c, d) == [c EXCEPT !.served = @ \cup {d}]

\* route_onion_ex on circuit i.  A hop that has left, or a destination without keys,
\* gives the circuit back; otherwise the packet leaves if the connection to the first
\* hop takes it (ok), and its stream is closed again if not.
SendOn(cs, i, d, s, ok) ==
    LET c == WithStream(BoundTo(cs[i], d), s)
        u == Current(c)
    IN \/ /\ poolCircuits' = [cs EXCEPT ![i] = Released(WithoutStream(c, s))]
          /\ UNCHANGED misSealed
       \/ /\ \A k \in 1..3 : c.hops[k] \in present
          /\ poolCircuits' =
                [cs EXCEPT ![i] = IF ok THEN Sealed(u, d) ELSE WithoutStream(u, s)]
          /\ misSealed' = (misSealed \/ (ok /\ u.encaps /\ Rotated(u)))

\* route_onion_ex: a pooled circuit bound to d, or a free one, or hops chosen for
\* this packet alone.  A stream number that is open on the circuit is reused.
SendOnion(d, s, ok) ==
    LET young == Young(poolCircuits)
        usable == IF Open(young, d) # {} THEN Open(young, d) ELSE Open(young, NoDest)
        some == FirstOf(usable)
        kept == IF Open(young, d) # {}
                THEN [i \in 1..PoolSize |-> IF i < some THEN young[i] ELSE poolCircuits[i]]
                ELSE young
    IN /\ IF usable = {} THEN poolCircuits' = kept /\ UNCHANGED misSealed
          ELSE SendOn(kept, some, d, s, ok)
       /\ UNCHANGED <<present, keyOf, poolNow, buildAt>>

-----------------------------------------------------------------------------
(* The surroundings. *)

PeerLeaves(r) ==
    /\ r \in present
    /\ present' = present \ {r}
    /\ UNCHANGED <<poolCircuits, keyOf, misSealed, poolNow, buildAt>>

PeerReturns(r) ==
    /\ r \notin present
    /\ present' = present \cup {r}
    /\ UNCHANGED <<poolCircuits, keyOf, misSealed, poolNow, buildAt>>

Rotate(r) ==
    /\ keyOf[r] < MaxRotations
    /\ keyOf' = [keyOf EXCEPT ![r] = @ + 1]
    /\ UNCHANGED <<poolCircuits, present, misSealed, poolNow, buildAt>>

PoolTick ==
    /\ poolNow < PoolMaxTime /\ poolNow < buildAt
    /\ poolNow' = poolNow + 1
    /\ UNCHANGED <<poolCircuits, present, keyOf, misSealed, buildAt>>

PoolNext ==
    \/ BuildTimer \/ PoolTick
    \/ \E d \in Dests, s \in PoolStreams, ok \in BOOLEAN : SendOnion(d, s, ok)
    \/ \E r \in Leaving : PeerLeaves(r) \/ PeerReturns(r)
    \/ \E r \in Rotating : Rotate(r)

PoolSpec == PoolInit /\ [][PoolNext]_poolVars

-----------------------------------------------------------------------------
(* Properties. *)

Live == {i \in 1..PoolSize : poolCircuits[i].valid}

PoolTypeOK ==
    \A i \in Live :
        LET c == poolCircuits[i]
        IN /\ c.hops \in [1..3 -> PoolRelays] /\ c.dest \in Dests \cup {NoDest}
           /\ c.streams \subseteq PoolStreams /\ c.count \in 0..MaxStreams

\* A circuit never carries packets to two destinations, however often it is
\* released, refused or reused (trellis_circuit_pool_acquire).
OneDestination == \A i \in Live : Cardinality(poolCircuits[i].served) <= 1

\* A packet is never sealed with an encapsulation made for a key its hop has given
\* up in the meantime (hop_x25519_snapshot).
SealedForCurrentKeys == ~misSealed
=============================================================================
