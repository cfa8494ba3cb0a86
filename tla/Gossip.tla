------------------------------- MODULE Gossip -------------------------------
(***************************************************************************)
(* Gossip (src/src/mesh/gossip.c, the dedup set of dht.c, TRELLIS_MSG_GOSSIP *)
(* of sdk/client.c): a message is shown to the subscribers of every node   *)
(* that accepts it and sent on to some of its peers.  Deliveries may be    *)
(* lost, late or repeated.                                                 *)
(***************************************************************************)
EXTENDS Naturals, FiniteSets

CONSTANTS
    Gossipers,     \* the nodes
    Publishers,    \* those that publish
    Neighbours,    \* node -> the peers it is connected to and holds in its table
    Published,     \* the messages of each node: 1..Published
    FanOut,        \* TRELLIS_GOSSIP_FAN_OUT (6)
    SeenCap,       \* DEDUP_SET_MAX_CAP (16384)
    SeenAge,       \* TRELLIS_GOSSIP_DEFAULT_TTL (30 s)
    RateSlots,     \* GOSSIP_PUB_RATE_SLOTS (64)
    RateLimit,     \* GOSSIP_PUB_RATE_LIMIT (10)
    RateWindow,    \* GOSSIP_PUB_RATE_WINDOW (60 s)
    GossipMaxTime  \* bound: the clock

ASSUME GossipAssumption ==
    /\ Publishers \subseteq Gossipers
    /\ \A n \in Gossipers : Neighbours[n] \subseteq Gossipers \ {n}
    /\ {Published, FanOut, SeenAge, RateWindow, GossipMaxTime} \subseteq Nat
    /\ {SeenCap, RateSlots, RateLimit} \subseteq Nat \ {0}

VARIABLES
    seen,      \* node -> the dedup set: message -> when it was inserted
    rates,     \* node -> pub_rates: publisher -> count and start of its window
    shown,     \* node -> how often its subscribers saw each message
    wire,      \* frames on their way: sender, receiver, message
    gossipNow  \* trellis_now_ms()

gossipVars == <<seen, rates, shown, wire, gossipNow>>

News == Publishers \X (1..Published)
Publisher(m) == m[1]
None == [m \in {} |-> 0]

GossipInit ==
    /\ seen = [n \in Gossipers |-> None]
    /\ rates = [n \in Gossipers |-> None]
    /\ shown = [n \in Gossipers |-> [m \in News |-> 0]]
    /\ wire = {}
    /\ gossipNow = 0

Size(s) == Cardinality(DOMAIN s)
WithNode(s, m, x) == [k \in DOMAIN s \cup {m} |-> IF k = m THEN x ELSE s[k]]
OnlyKeys(s, ks) == [k \in DOMAIN s \cap ks |-> s[k]]

\* dedup_set_insert fails once the largest table is three quarters full.
CanInsert(s) == (Size(s) + 1) * 4 <= SeenCap * 3

Expired(s) == {m \in DOMAIN s : gossipNow - s[m] > SeenAge}

\* dedup_evict_expired, called when the table has as many entries as slots.
Swept(s) == IF Size(s) >= SeenCap THEN OnlyKeys(s, DOMAIN s \ Expired(s)) ELSE s

-----------------------------------------------------------------------------
\* gossip_check_publisher_rate: the slots with p's window, the oldest making room.
\* Counts above the limit are all alike.
RateOf(r, p) ==
    LET fresh == [count |-> 0, start |-> gossipNow]
        oldest == CHOOSE q \in DOMAIN r : \A o \in DOMAIN r : r[q].start <= r[o].start
        e == IF p \in DOMAIN r /\ gossipNow - r[p].start < RateWindow THEN r[p] ELSE fresh
        room == IF p \in DOMAIN r \/ Size(r) < RateSlots THEN r
                ELSE OnlyKeys(r, DOMAIN r \ {oldest})
    IN WithNode(room, p, [e EXCEPT !.count = IF @ > RateLimit THEN @ ELSE @ + 1])

\* gossip_fan_out: some of the peers, except the one the message came from.
Targets(n) ==
    {T \in SUBSET Neighbours[n] :
        Cardinality(T) = IF Cardinality(Neighbours[n]) < FanOut
                         THEN Cardinality(Neighbours[n]) ELSE FanOut}
Fanned(n, m, T, skip) == {[from |-> n, to |-> t, news |-> m] : t \in T \ {skip}}

Shown(n, m) == [shown EXCEPT ![n][m] = @ + 1]

\* trellis_gossip_publish.
Publish(n, i) ==
    LET m == <<n, i>>
    IN /\ shown[n][m] = 0
       /\ CanInsert(seen[n])
       /\ seen' = [seen EXCEPT ![n] = WithNode(@, m, gossipNow)]
       /\ shown' = Shown(n, m)
       /\ \E T \in Targets(n) : wire' = wire \cup Fanned(n, m, T, n)
       /\ UNCHANGED <<rates, gossipNow>>

\* The origin the client passes is the peer the frame came from.
Authentic(f) == Publisher(f.news) = f.from

\* Faulty variant of Remembered: the message is not entered in the dedup set.
Forgotten(s, m) == Swept(s)

Remembered(s, m) == WithNode(Swept(s), m, gossipNow)

\* trellis_gossip_receive.
AcceptMessage(f) ==
    LET n == f.to
        m == f.news
    IN /\ rates' = [rates EXCEPT ![n] = RateOf(@, Publisher(m))]
       /\ IF /\ RateOf(rates[n], Publisher(m))[Publisher(m)].count <= RateLimit
             /\ Authentic(f)
             /\ m \notin DOMAIN seen[n]
          THEN IF CanInsert(Swept(seen[n]))
               THEN /\ seen' = [seen EXCEPT ![n] = Remembered(@, m)]
                    /\ shown' = Shown(n, m)
                    /\ \E T \in Targets(n) : wire' = wire \cup Fanned(n, m, T, f.from)
               ELSE UNCHANGED <<seen, shown, wire>>
          ELSE UNCHANGED <<seen, shown, wire>>
       /\ UNCHANGED gossipNow

Receive == \E f \in wire : AcceptMessage(f)

Lose == \E f \in wire : wire' = wire \ {f} /\ UNCHANGED <<seen, rates, shown, gossipNow>>

GossipTick ==
    /\ gossipNow < GossipMaxTime
    /\ gossipNow' = gossipNow + 1
    /\ UNCHANGED <<seen, rates, shown, wire>>

GossipNext ==
    \/ \E n \in Publishers, i \in 1..Published : Publish(n, i)
    \/ Receive \/ Lose \/ GossipTick

\* Every frame sent arrives, as over a stream transport.
GossipFairness ==
    \A n, k \in Gossipers, m \in News :
        LET f == [from |-> n, to |-> k, news |-> m]
        IN WF_gossipVars(f \in wire /\ AcceptMessage(f) /\ shown' # shown)

GossipSpec == GossipInit /\ [][GossipNext]_gossipVars

-----------------------------------------------------------------------------
(* Properties. *)

\* A subscriber sees a message once, however many copies of it arrive
\* (trellis_gossip_receive).
ShownOnce == \A n \in Gossipers, m \in News : shown[n][m] <= 1
=============================================================================
