------------------------------- MODULE Canopy -------------------------------
(***************************************************************************)
(* Routes and circuits between groves (src/src/mesh/canopy.c, bridge.c).   *)
(* A bridge belongs to several groves.  It announces each of its groves in *)
(* the others; a bridge that hears an announcement keeps the route and     *)
(* passes it on to its other groves with the path made longer.  A circuit  *)
(* follows the routes of the bridges it meets.                             *)
(*                                                                         *)
(* Announcements are gossiped: one that was sent may be heard by any       *)
(* member of its grove, at any time, more than once or never (a lost or    *)
(* rate limited one).  Circuit messages of two bridges arrive in order.    *)
(***************************************************************************)
EXTENDS Naturals, Sequences, FiniteSets

CONSTANTS
    Bridges,
    GrovesOf,        \* bridge -> its groves
    Announcers,      \* the bridges whose announce timer fires
    DefaultTTL,      \* CANOPY_DEFAULT_TTL
    MaxPathLen,      \* TRELLIS_CANOPY_MAX_PATH_LEN
    MaxRoutes,       \* TRELLIS_CANOPY_MAX_ROUTES
    MaxCircuits,     \* CANOPY_MAX_CIRCUITS
    MaxRounds,       \* bound: announcements of a bridge
    MaxCreated       \* bound: circuits a run creates

ASSUME CanopyAssumption ==
    /\ \A b \in Bridges : GrovesOf[b] # {}
    /\ Announcers \subseteq Bridges
    /\ {DefaultTTL, MaxPathLen, MaxRoutes, MaxCircuits} \subseteq Nat \ {0}
    /\ {MaxRounds, MaxCreated} \subseteq Nat

VARIABLES
    routes,     \* bridge -> the routes of canopy->routes
    announced,  \* the announcements sent
    rounds,     \* bridge -> how often it announced (its clock)
    circuits,   \* bridge -> the active entries of canopy->circuits
    wires,      \* <<from, to>> -> circuit messages on the way
    created,    \* how many circuits were created: the next fresh id
    torn        \* the circuits their origin tore down

canopyRoutes == <<routes, announced, rounds>>
canopyCircuits == <<circuits, wires, created, torn>>
canopyVars == <<canopyRoutes, canopyCircuits>>

Groves == UNION {GrovesOf[b] : b \in Bridges}
LastGrove(path) == path[Len(path)]
OnPath(path) == {path[i] : i \in 1..Len(path)}

CanopyInit ==
    /\ routes = [b \in Bridges |-> {}]
    /\ announced = {}
    /\ rounds = [b \in Bridges |-> 0]
    /\ circuits = [b \in Bridges |-> {}]
    /\ wires = [w \in Bridges \X Bridges |-> <<>>]
    /\ created = 0 /\ torn = {}

-----------------------------------------------------------------------------
(* Routes. *)

\* trellis_canopy_announce: every grove of b, in every other one.
Announce(b) ==
    /\ rounds[b] < MaxRounds
    /\ rounds' = [rounds EXCEPT ![b] = @ + 1]
    /\ announced' = announced \cup
            {[origin |-> w[2], path |-> <<w[1]>>, bridge |-> b, ttl |-> DefaultTTL,
              stamp |-> rounds[b] + 1] : w \in {p \in GrovesOf[b] \X GrovesOf[b] : p[1] # p[2]}}
    /\ UNCHANGED <<routes, canopyCircuits>>

\* Faulty variant of Looped: a bridge does not look for its groves in the path.
LoopedUnchecked(b, path) == FALSE

\* The announcement was in one of b's groves before the one it is heard in.
Looped(b, path) ==
    /\ Len(path) > 1
    /\ GrovesOf[b] \cap OnPath(SubSeq(path, 1, Len(path) - 1)) # {}

RouteOf(a) == [target |-> a.origin, path |-> a.path, next |-> a.bridge, stamp |-> a.stamp]

\* The score of a route falls with the length of its path.
Better(r, s) == Len(r.path) < Len(s.path)
Replaces(r, s) == Better(r, s) \/ (Len(r.path) = Len(s.path) /\ r.stamp > s.stamp)
Worst(rs) == {r \in rs : \A s \in rs : ~Better(r, s)}

\* The table after r: the route to its target is replaced by a better one, a full
\* table gives up its worst.
Tables(rs, r) ==
    LET known == {s \in rs : s.target = r.target} IN
    CASE known # {} -> {IF \E s \in known : Replaces(r, s) THEN (rs \ known) \cup {r} ELSE rs}
      [] known = {} /\ Cardinality(rs) < MaxRoutes -> {rs \cup {r}}
      [] OTHER -> {IF Better(r, w) THEN (rs \ {w}) \cup {r} ELSE rs : w \in Worst(rs)}

\* The announcements b makes of one it accepted.
PassedOn(b, a) ==
    {[a EXCEPT !.path = Append(a.path, g), !.bridge = b, !.ttl = a.ttl - 1] :
        g \in {x \in GrovesOf[b] : /\ a.ttl > 1 /\ Len(a.path) < MaxPathLen
                                   /\ x # LastGrove(a.path) /\ x # a.origin}}

\* trellis_canopy_on_announce.
OnAnnounce(b) ==
    /\ \E a \in announced :
        /\ a.bridge # b /\ LastGrove(a.path) \in GrovesOf[b]
        /\ a.ttl > 0 /\ ~Looped(b, a.path)
        /\ \E t \in Tables(routes[b], RouteOf(a)) : routes' = [routes EXCEPT ![b] = t]
        /\ announced' = announced \cup PassedOn(b, a)
    /\ UNCHANGED <<rounds, canopyCircuits>>

\* expire_routes, and trellis_canopy_on_withdraw: a route that was not heard of again,
\* or that its bridge withdrew, is dropped.
DropRoute(b) ==
    /\ \E r \in routes[b] : routes' = [routes EXCEPT ![b] = @ \ {r}]
    /\ UNCHANGED <<announced, rounds, canopyCircuits>>

-----------------------------------------------------------------------------
(* Circuits. *)

Sent(ws, from, to, m) == [ws EXCEPT ![<<from, to>>] = Append(@, m)]
CircuitOf(b, id) == {c \in circuits[b] : c.id = id}
IdsAt(b) == {c.id : c \in circuits[b]}

\* trellis_canopy_circuit_create, as trellis_greenhouse_connect calls it: the bridge
\* the route leads to is also the destination.
CreateCanopyCircuit(b, t) ==
    /\ created < MaxCreated /\ t \notin GrovesOf[b]
    /\ Cardinality(circuits[b]) < MaxCircuits
    /\ \E r \in {x \in routes[b] : x.target = t} :
        /\ circuits' = [circuits EXCEPT ![b] = @ \cup
                {[id |-> created + 1, source |-> b, next |-> r.next, terminal |-> FALSE]}]
        /\ wires' = Sent(wires, b, r.next,
                [kind |-> "create", id |-> created + 1, target |-> t, dest |-> r.next])
    /\ created' = created + 1
    /\ UNCHANGED <<canopyRoutes, torn>>

Arrival(from, to, kind) == wires[<<from, to>>] # <<>> /\ Head(wires[<<from, to>>]).kind = kind
Received(from, to) == [wires EXCEPT ![<<from, to>>] = Tail(@)]

\* trellis_canopy_on_circuit_create: refused when the id is known, the table full or no
\* route leads to the target.
OnCircuitCreate(from, b) ==
    /\ Arrival(from, b, "create")
    /\ LET m == Head(wires[<<from, b>>])
           rest == Received(from, b)
           terminal == m.target \in GrovesOf[b]
           hops == IF terminal THEN {m.dest} ELSE {r.next : r \in {x \in routes[b] : x.target = m.target}}
       IN IF m.id \in IdsAt(b) \/ Cardinality(circuits[b]) >= MaxCircuits \/ hops = {}
          THEN wires' = rest /\ UNCHANGED circuits
          ELSE \E next \in hops :
                  /\ circuits' = [circuits EXCEPT ![b] = @ \cup
                        {[id |-> m.id, source |-> from, next |-> next, terminal |-> terminal]}]
                  /\ wires' = IF terminal THEN rest ELSE Sent(rest, b, next, m)
    /\ UNCHANGED <<canopyRoutes, created, torn>>

\* Faulty variant of OtherEnd: only the next bridge may speak for a circuit.
OtherEndOfNext(c, from) == IF from = c.next THEN {c.source} ELSE {}

\* The other side of a circuit, for a message from one of its sides.
OtherEnd(c, from) ==
    CASE from = c.source -> {c.next}
      [] from # c.source /\ from = c.next -> {c.source}
      [] OTHER -> {}

\* trellis_canopy_on_circuit_destroy: passed on before the entry is cleared.
OnCircuitDestroy(from, b) ==
    /\ Arrival(from, b, "destroy")
    /\ LET m == Head(wires[<<from, b>>])
           ends == {e \in CircuitOf(b, m.id) \X Bridges : e[2] \in OtherEnd(e[1], from)}
       IN IF ends = {}
          THEN wires' = Received(from, b) /\ UNCHANGED circuits
          ELSE \E e \in ends :
                  /\ circuits' = [circuits EXCEPT ![b] = @ \ {e[1]}]
                  /\ wires' = IF e[2] = b THEN Received(from, b) ELSE Sent(Received(from, b), b, e[2], m)
    /\ UNCHANGED <<canopyRoutes, created, torn>>

\* The peer a bridge's own messages on a circuit go to.
FarEnd(b, c) == IF c.next = b THEN c.source ELSE c.next

\* trellis_canopy_circuit_destroy, by the origin.
DestroyCircuit(b) ==
    /\ \E c \in {x \in circuits[b] : x.source = b} :
        /\ circuits' = [circuits EXCEPT ![b] = @ \ {c}]
        /\ wires' = Sent(wires, b, FarEnd(b, c), [kind |-> "destroy", id |-> c.id])
        /\ torn' = torn \cup {c.id}
    /\ UNCHANGED <<canopyRoutes, created>>

CanopyNext ==
    \/ \E b \in Announcers : Announce(b)
    \/ \E b \in Bridges : \/ OnAnnounce(b) \/ DropRoute(b) \/ DestroyCircuit(b)
                          \/ \E t \in Groves : CreateCanopyCircuit(b, t)
                          \/ \E from \in Bridges \ {b} : OnCircuitCreate(from, b) \/ OnCircuitDestroy(from, b)

CanopySpec == CanopyInit /\ [][CanopyNext]_canopyVars

-----------------------------------------------------------------------------
\* Tables hold one route per target and keep their limits.
CanopyTypeOK ==
    /\ \A b \in Bridges :
        /\ Cardinality(routes[b]) <= MaxRoutes /\ Cardinality(circuits[b]) <= MaxCircuits
        /\ \A r, s \in routes[b] : r.target = s.target => r = s
        /\ \A c \in circuits[b] : c.id \in 1..created /\ {c.source, c.next} \subseteq Bridges
    /\ rounds \in [Bridges -> 0..MaxRounds] /\ created \in 0..MaxCreated

\* A way to grove t: from grove to grove over bridges that belong to both, no grove twice.
Joined(g, h) == \E b \in Bridges : {g, h} \subseteq GrovesOf[b]
IsWay(path, t) ==
    /\ \A i, j \in DOMAIN path : i # j => path[i] # path[j]
    /\ t \notin OnPath(path) /\ Joined(t, path[1])
    /\ \A i \in DOMAIN path \ {1} : Joined(path[i - 1], path[i])

\* However announcements were delayed, repeated and replaced, and routes dropped and learnt
\* again, the path of a route is a way through the bridges to its target, and its last
\* grove is one that the bridge shares with the next one (trellis_canopy_on_announce).
RoutesAreWays ==
    \A b \in Bridges : \A r \in routes[b] :
        /\ IsWay(r.path, r.target)
        /\ r.next # b /\ LastGrove(r.path) \in GrovesOf[b] \cap GrovesOf[r.next]

Quiet(id) == \A w \in DOMAIN wires : \A i \in 1..Len(wires[w]) : wires[w][i].id # id

\* When the origin tore a circuit down and the messages about it have arrived, no
\* bridge holds an entry for it any more.
TornDown == \A id \in torn : Quiet(id) => \A b \in Bridges : id \notin IdsAt(b)
=============================================================================
