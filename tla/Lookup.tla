------------------------------- MODULE Lookup -------------------------------
(***************************************************************************)
(* The lookups and stores of the DHT (src/src/mesh/dht.c): iterative RPCs  *)
(* with a timer each, S/Kademlia lookups over disjoint paths that must     *)
(* agree, and operations over several replica keys.  A caller is answered  *)
(* through a callback, sometimes before the call returns.                  *)
(*                                                                         *)
(* A node is its distance to the key.  The other nodes answer as the code  *)
(* does, or late, or not at all; a node may hold an outdated value.        *)
(***************************************************************************)
EXTENDS Naturals, Sequences, FiniteSets

CONSTANTS
    Nodes,       \* the other nodes
    Stored,      \* node -> the value it holds under the key, or NoValue
    Links,       \* node -> the nodes it knows
    FirstKnown,  \* the nodes known at the start
    Callers,     \* the operations, one for each caller
    Mixes,       \* the kinds of operation the callers may ask for
    Slots,       \* the RPC slots (DHT_MAX_PENDING_RPCS of them, 64)
    GroupSlots,  \* the slots for S/Kademlia lookups (SKAD_MAX_GROUPS, 16)
    Alpha,       \* DHT_ALPHA (3)
    Near,        \* TRELLIS_DHT_K (20)
    Quorum,      \* DHT_STORE_QUORUM (3)
    Paths,       \* SKAD_D (3)
    Agree,       \* SKAD_AGREE_THRESHOLD (2)
    Replicas,    \* TRELLIS_DHT_REDUNDANT_REPLICAS (3)
    Covers,      \* PIR_COVER_COUNT (4)
    PrivateSlots \* PIR_MAX_CONCURRENT (16)

\* What a callback carries: a set of nodes, or a value as a singleton.
NoValue == {}
Done == {0}
Kinds == {"store", "value", "node", "skad_value", "skad_node", "stores", "values", "private"}

ASSUME LookupAssumption ==
    /\ Nodes \subseteq Nat /\ IsFiniteSet(Nodes)
    /\ Slots \subseteq Nat /\ IsFiniteSet(Slots)
    /\ GroupSlots \subseteq Nat \ {0} /\ IsFiniteSet(GroupSlots)
    /\ DOMAIN Stored = Nodes /\ DOMAIN Links = Nodes
    /\ \A n \in Nodes : Links[n] \subseteq Nodes
    /\ FirstKnown \subseteq Nodes
    /\ Mixes \subseteq [Callers -> Kinds]
    /\ {Alpha, Near, Quorum, Paths, Agree, Replicas, PrivateSlots} \subseteq Nat \ {0}
    /\ Covers \in Nat

VARIABLES
    rpcs,      \* slot -> RPC or Idle
    groups,    \* slot -> S/Kademlia lookup or Idle
    calls,     \* operation -> its kind, its tally, what its caller was told, and how
               \* many of these answers came before the call returned (a history)
    known,     \* the peers of the routing table
    held       \* the keys of the local store: 0 the key itself, i its replica i

lookupVars == <<rpcs, groups, calls, known, held>>

Idle == [active |-> FALSE]
Keys == 0..Replicas
NewCall(kind) ==
    [kind |-> kind, started |-> FALSE, issuing |-> FALSE, total |-> 1, done |-> 0,
     good |-> 0, found |-> {}, answers |-> <<>>, early |-> 0]

LookupInit ==
    /\ rpcs = [i \in Slots |-> Idle]
    /\ groups = [i \in GroupSlots |-> Idle]
    /\ \E mix \in Mixes : calls = [o \in Callers |-> NewCall(mix[o])]
    /\ known = FirstKnown
    /\ held = {}

\* The state the callbacks work on.
State == [rpc |-> rpcs, group |-> groups, call |-> calls, known |-> known, held |-> held]

Becomes(t) ==
    \E s \in {t} :
        /\ rpcs' = s.rpc /\ groups' = s.group /\ calls' = s.call
        /\ known' = s.known /\ held' = s.held

\* find_closest_peers, and a response's peers: the n closest of a set.
Closest(ps, n) == {p \in ps : Cardinality({q \in ps : q < p}) < n}

FreeSlots(slots) == {i \in DOMAIN slots : ~slots[i].active}
FirstFree(slots) == CHOOSE i \in FreeSlots(slots) : \A j \in FreeSlots(slots) : i <= j

-----------------------------------------------------------------------------
(* Callbacks.  A result is a value with the nodes that gave it.             *)

Result(v, ns) == [value |-> v, givers |-> ns, agreed |-> FALSE]
Nothing == Result(NoValue, {})
Good(r) == r.value # NoValue

Told(c, r) == [c EXCEPT !.answers = Append(@, r)]

\* redundant_store_cb, redundant_find_cb: one replica has ended.  A find passes
\* the first value on at once; the rest waits for the last replica, and for the
\* loop that issues them.
Tallied(c, r, finds) ==
    LET first == finds /\ Good(r) /\ c.good = 0
        t == [c EXCEPT !.done = @ + 1, !.good = IF Good(r) THEN @ + 1 ELSE @]
    IN IF first THEN Told(t, r) ELSE t

\* The answer of a call all of whose replicas have ended.
Closed(c, finds) ==
    IF c.issuing \/ c.done < c.total THEN c
    ELSE IF finds THEN IF c.good = 0 THEN Told(c, Nothing) ELSE c
    ELSE Told(c, IF c.good > 0 THEN Result(Done, {}) ELSE Nothing)

\* pir_sub_cb: the answer waits for the last query, the covers included.
Covered(c, r) ==
    LET t == [c EXCEPT !.done = @ + 1, !.found = IF Good(r) THEN {r} ELSE @]
    IN IF t.done < t.total THEN t
       ELSE Told(t, IF t.found = {} THEN Nothing ELSE CHOOSE v \in t.found : TRUE)

\* The caller's callback.
Answer(s, o, r) ==
    LET kind == s.call[o].kind
    IN [s EXCEPT !.call[o] =
            IF kind = "private" THEN Covered(@, r)
            ELSE IF kind \in {"stores", "values"}
            THEN Closed(Tallied(@, r, kind = "values"), kind = "values")
            ELSE Told(@, r)]

Agreed(rs) ==
    {i \in DOMAIN rs : /\ Good(rs[i])
                       /\ Cardinality({j \in DOMAIN rs : rs[j].value = rs[i].value}) >= Agree}

\* Faulty variant of PathDone: the first path that ends decides.
PathDoneFirst(s, g, r) == Answer([s EXCEPT !.group[g] = Idle], s.group[g].op, r)

\* skad_path_done: a path of lookup g ends with result r; the last one decides.
PathDone(s, g, r) ==
    LET rs == Append(s.group[g].results, r)
        same == {j \in DOMAIN rs : \E i \in Agreed(rs) : rs[j].value = rs[i].value}
        verdict == IF Agreed(rs) = {} THEN Nothing
                   ELSE [value |-> rs[CHOOSE i \in Agreed(rs) : TRUE].value,
                         givers |-> UNION {rs[j].givers : j \in same}, agreed |-> TRUE]
    IN IF Len(rs) < Paths THEN [s EXCEPT !.group[g].results = rs]
       ELSE Answer([s EXCEPT !.group[g] = Idle], s.group[g].op, verdict)

\* The callback of an RPC, which belongs to a path or to the call itself.
Report(s, owner, r) ==
    IF owner.group = 0 THEN Answer(s, owner.op, r) ELSE PathDone(s, owner.group, r)

\* Faulty variant of EndRpc: the RPC is freed without its callback.
EndSilently(s, i, r) == [s EXCEPT !.rpc[i] = Idle]

\* The callback, then dht_free_rpc.
EndRpc(s, i, r) ==
    LET t == Report(s, s.rpc[i].owner, r) IN [t EXCEPT !.rpc[i] = Idle]

-----------------------------------------------------------------------------
(* Starting an operation. *)

\* dht_alloc_rpc, and the requests to its first peers.
Rpc(kind, owner, key, peers) ==
    [active |-> TRUE, kind |-> kind, owner |-> owner, key |-> key, queried |-> peers,
     asked |-> peers, acks |-> 0,
     needed |-> IF Cardinality(peers) < Quorum THEN Cardinality(peers) ELSE Quorum]

Launch(s, rpc) == [s EXCEPT !.rpc[FirstFree(s.rpc)] = rpc]
Full(s) == FreeSlots(s.rpc) = {}
Owner(o, g) == [op |-> o, group |-> g]

\* trellis_dht_store: the value is kept here first.
StartStore(s0, o, key) ==
    LET s == [s0 EXCEPT !.held = @ \cup {key}]
        near == Closest(s.known, Near)
    IN IF near = {} THEN Answer(s, o, Result(Done, {}))
       ELSE IF Full(s) THEN Answer(s, o, Nothing)
       ELSE Launch(s, Rpc("store", Owner(o, 0), key, near))

\* trellis_dht_find_value.
StartValue(s, o, key) ==
    IF key \in s.held THEN Answer(s, o, Result(Done, {}))
    ELSE IF s.known = {} \/ Full(s) THEN Answer(s, o, Nothing)
    ELSE Launch(s, Rpc("value", Owner(o, 0), key, Closest(Closest(s.known, Near), Alpha)))

\* trellis_dht_find_node: without a slot, the answer is what is known.
StartNode(s, o) ==
    IF s.known = {} THEN Answer(s, o, Nothing)
    ELSE IF Full(s) THEN Answer(s, o, Result(Closest(s.known, Near), {}))
    ELSE Launch(s, Rpc("node", Owner(o, 0), 0, Closest(Closest(s.known, Near), Alpha)))

\* The seed of path d: the d-th closest peer.
Seed(ps, d) == CHOOSE p \in ps : Cardinality({q \in ps : q < p}) = d - 1

\* Faulty variant of LaunchPaths: a path that cannot start is not counted.
LaunchPathsUncounted(s, o, g, kind, key, seeds) ==
    LET Path[d \in 0..Paths] ==
            IF d = 0 THEN s
            ELSE LET t == Path[d - 1]
                 IN IF d > Cardinality(seeds) \/ Full(t) THEN t
                    ELSE Launch(t, Rpc(kind, Owner(o, g), key, {Seed(seeds, d)}))
    IN Path[Paths]

\* The loop over the paths of lookup g: a path without a seed or a slot is
\* counted as done.
LaunchPaths(s, o, g, kind, key, seeds) ==
    LET Path[d \in 0..Paths] ==
            IF d = 0 THEN s
            ELSE LET t == Path[d - 1]
                 IN IF d > Cardinality(seeds) \/ Full(t)
                    THEN [t EXCEPT !.group[g].results = Append(@, Nothing)]
                    ELSE Launch(t, Rpc(kind, Owner(o, g), key, {Seed(seeds, d)}))
    IN Path[Paths]

\* trellis_dht_find_value_skad, trellis_dht_find_node_skad: every seed is marked as
\* queried; if no path could start, the answer is immediate.
StartSkad(s, o, kind, key) ==
    LET seeds == Closest(s.known, Paths * Near)
        g == FirstFree(s.group)
        l == LaunchPaths(
                [s EXCEPT !.group[g] = [active |-> TRUE, op |-> o, results |-> <<>>,
                                        global |-> seeds]],
                o, g, kind, key, seeds)
    IN IF kind = "value" /\ key \in s.held THEN Answer(s, o, Result(Done, {}))
       ELSE IF s.known = {} THEN Answer(s, o, Nothing)
       ELSE IF FreeSlots(s.group) = {}
            THEN IF kind = "value" THEN StartValue(s, o, key) ELSE StartNode(s, o)
       ELSE IF Len(l.group[g].results) = Paths
            THEN Answer([l EXCEPT !.group[g] = Idle], o, Nothing)
       ELSE l

\* trellis_dht_store_redundant, trellis_dht_find_value_redundant: the callbacks
\* that come while the loop runs only count.
StartReplicas(s0, o, finds) ==
    LET s == [s0 EXCEPT !.call[o].issuing = TRUE, !.call[o].total = Replicas]
        After[i \in Keys] ==
            IF i = 0 THEN s
            ELSE IF finds THEN StartSkad(After[i - 1], o, "value", i)
            ELSE StartStore(After[i - 1], o, i)
    IN [After[Replicas] EXCEPT !.call[o] = Closed([@ EXCEPT !.issuing = FALSE], finds)]

\* Cover queries ask for keys nobody stores.
CoverKey == Replicas + 1

\* trellis_pir_find_value_skad: the query and its covers.  A query that was answered
\* before the call returned has been counted by its callback, and the end of the
\* loop looks at the tally again.  Without a slot the query goes alone.
StartPrivate(s, o) ==
    LET busy == {p \in Callers \ {o} : /\ s.call[p].kind = "private" /\ s.call[p].started
                                       /\ s.call[p].done < s.call[p].total}
        After[i \in 0..Covers] ==
            IF i = 0 THEN StartSkad([s EXCEPT !.call[o].total = Covers + 1], o, "value", 0)
            ELSE StartSkad(After[i - 1], o, "value", CoverKey)
        t == After[Covers]
    IN IF Cardinality(busy) >= PrivateSlots THEN StartSkad(s, o, "value", 0)
       ELSE IF t.call[o].done = t.call[o].total
            THEN [t EXCEPT !.call[o] = Told(@, Nothing)] ELSE t

Begin(s, o) ==
    LET kind == s.call[o].kind
    IN CASE kind = "store" -> StartStore(s, o, 0)
         [] kind = "value" -> StartValue(s, o, 0)
         [] kind = "node" -> StartNode(s, o)
         [] kind = "skad_value" -> StartSkad(s, o, "value", 0)
         [] kind = "skad_node" -> StartSkad(s, o, "node", 0)
         [] kind = "stores" -> StartReplicas(s, o, FALSE)
         [] kind = "values" -> StartReplicas(s, o, TRUE)
         [] kind = "private" -> StartPrivate(s, o)

Start(o) ==
    LET t == Begin([State EXCEPT !.call[o].started = TRUE], o)
    IN /\ ~calls[o].started
       /\ Becomes([t EXCEPT !.call[o].early = Len(t.call[o].answers)])

-----------------------------------------------------------------------------
(* Responses and timers. *)

Waiting(i, kind, n) == rpcs[i].active /\ rpcs[i].kind = kind /\ n \in rpcs[i].asked

Heard(i, n) == [State EXCEPT !.rpc[i].asked = @ \ {n}]

\* dht_handle_store_ack.
StoreAck(i, n) ==
    /\ Waiting(i, "store", n)
    /\ LET s == [Heard(i, n) EXCEPT !.rpc[i].acks = @ + 1]
       IN Becomes(IF s.rpc[i].acks >= s.rpc[i].needed
                  THEN EndRpc(s, i, Result(Done, {n})) ELSE s)

HeldBy(n, key) == IF key = CoverKey THEN NoValue ELSE Stored[n]

\* dht_handle_find_value_response with a value.
ValueFound(i, n) ==
    /\ Waiting(i, "value", n) /\ HeldBy(n, rpcs[i].key) # NoValue
    /\ Becomes(EndRpc(Heard(i, n), i, Result(Stored[n], {n})))

\* Faulty variant of Fresh: paths may cross.
FreshOfRpc(i, ps) == ps \ rpcs[i].queried

\* The peers of a response that RPC i may ask: not those it asked before, nor
\* those any path of its lookup asked.
Fresh(i, ps) ==
    (ps \ rpcs[i].queried)
        \ (IF rpcs[i].owner.group = 0 THEN {} ELSE groups[rpcs[i].owner.group].global)

\* dht_handle_find_value_response with closer peers: up to Alpha are asked.
ValueNotFound(i, n) ==
    /\ Waiting(i, "value", n) /\ HeldBy(n, rpcs[i].key) = NoValue
    /\ LET more == Closest(Fresh(i, Closest(Links[n], Near)), Alpha)
           g == rpcs[i].owner.group
           h == [Heard(i, n) EXCEPT !.known = @ \cup more,
                    !.rpc[i].queried = @ \cup more, !.rpc[i].asked = @ \cup more]
           s == IF g = 0 THEN h ELSE [h EXCEPT !.group[g].global = @ \cup more]
       IN Becomes(IF s.rpc[i].asked = {} THEN EndRpc(s, i, Nothing) ELSE s)

\* dht_handle_find_node_response: all peers enter the table, and the closest of
\* the table not yet asked by this RPC are asked, whatever path asked them.
NodesFound(i, n) ==
    /\ Waiting(i, "node", n)
    /\ LET k == known \cup Closest(Links[n], Near)
           more == Closest(Closest(k, Near) \ rpcs[i].queried, Alpha)
           s == [Heard(i, n) EXCEPT !.known = k,
                    !.rpc[i].queried = @ \cup more, !.rpc[i].asked = @ \cup more]
       IN Becomes(IF s.rpc[i].asked = {}
                  THEN EndRpc(s, i, Result(Closest(k, Near), {n})) ELSE s)

\* dht_rpc_timeout.
Timeout(i) ==
    /\ rpcs[i].active
    /\ Becomes(EndRpc(State, i, IF rpcs[i].kind = "store" /\ rpcs[i].acks > 0
                                THEN Result(Done, {}) ELSE Nothing))

LookupNext ==
    \/ \E o \in Callers : Start(o)
    \/ \E i \in Slots, n \in Nodes :
            StoreAck(i, n) \/ ValueFound(i, n) \/ ValueNotFound(i, n) \/ NodesFound(i, n)
    \/ \E i \in Slots : Timeout(i)

\* Every RPC has a timer (dht_rpc_timeout).
LookupFairness == \A i \in Slots : WF_lookupVars(Timeout(i))

LookupSpec == LookupInit /\ [][LookupNext]_lookupVars /\ LookupFairness

-----------------------------------------------------------------------------
(* Properties. *)

RpcsOf(o) == {i \in Slots : rpcs[i].active /\ rpcs[i].owner.op = o}
Answered(o) == Len(calls[o].answers) > 0

LookupTypeOK ==
    /\ \A i \in Slots : rpcs[i].active => /\ rpcs[i].asked \subseteq rpcs[i].queried
                                          /\ rpcs[i].queried \subseteq Nodes
                                          /\ rpcs[i].owner.group \in {g \in GroupSlots : groups[g].active} \cup {0}
    /\ \A g \in GroupSlots : groups[g].active => Len(groups[g].results) < Paths
    /\ known \subseteq Nodes /\ held \subseteq Keys

\* A caller is never called back twice, through paths, replicas, exhausted slots and
\* callbacks that come before the call returns (dht.c), but for a private lookup all
\* of whose queries are answered before it returns, and then with nothing the second
\* time (pir.c:395).  A call that has not been answered has an RPC that will answer it.
AnsweredOnce ==
    \A o \in Callers :
        /\ \/ Len(calls[o].answers) <= 1
           \/ /\ calls[o].kind = "private" /\ calls[o].early = 2
              /\ Len(calls[o].answers) = 2 /\ calls[o].answers[2] = Nothing
        /\ calls[o].started /\ ~Answered(o) => RpcsOf(o) # {}

\* pir.c:329 "The callback receives the real value (or NOT_FOUND) only after all queries
\* complete": one of the two, and once.
PrivateAnsweredOnce == \A o \in Callers : calls[o].kind = "private" => Len(calls[o].answers) <= 1

\* Every call is answered in the end.
EveryCallEnds == \A o \in Callers : calls[o].started ~> Answered(o)

\* A value on which paths agreed was given by as many different nodes, so that no
\* single node decides a lookup over disjoint paths (trellis_dht_find_value_skad).
NodesAgree ==
    \A o \in Callers : calls[o].kind # "skad_node" =>
        \A k \in DOMAIN calls[o].answers :
            LET r == calls[o].answers[k] IN r.agreed => Cardinality(r.givers) >= Agree
=============================================================================
