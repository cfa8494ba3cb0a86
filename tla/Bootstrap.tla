------------------------------ MODULE Bootstrap ------------------------------
(***************************************************************************)
(* How a node finds its first peers (src/src/mesh/bootstrap.c): multicast  *)
(* announcements on the LAN, then the seeds compiled in, then seeds from   *)
(* DNS, each phase after a timeout; the callback reports the outcome.      *)
(***************************************************************************)
EXTENDS Naturals, FiniteSets

CONSTANTS
    LanNodes,    \* nodes of one LAN
    GroveOf,     \* LAN node -> the grove its DHT is bound to
    NoGrove,     \* no grove
    Seeds,       \* g_hardcoded_seeds
    DnsSeeds,    \* peers that the DNS names
    PeerMin,     \* BOOTSTRAP_PEER_MIN
    MaxHeard     \* bound: peers a node is offered

ASSUME BootstrapAssumption ==
    /\ PeerMin \in Nat \ {0}
    /\ MaxHeard \in Nat /\ PeerMin <= MaxHeard
    /\ LanNodes \subseteq DOMAIN GroveOf
    /\ IsFiniteSet(Seeds)

VARIABLES
    boot,     \* node -> trellis_bootstrap_t
    knownPeers,    \* node -> peers offered to its DHT
    airborne  \* announcements on their way, <<from, to>>

bootVars == <<boot, knownPeers, airborne>>

NotStarted == [state |-> "off", phase |-> 0, candidates |-> 0, complete |-> FALSE, dns |-> {}, calls |-> 0]

BootstrapInit ==
    /\ boot = [n \in LanNodes |-> NotStarted]
    /\ knownPeers = [n \in LanNodes |-> {}]
    /\ airborne = {}

Running(n) == boot[n].state = "on"

\* trellis_bootstrap_start: the socket is opened, then one query, which nobody answers,
\* and one announcement go to whoever listens.
StartBootstrap(n) ==
    /\ boot[n].state = "off"
    /\ boot' = [boot EXCEPT ![n].state = "on"]
    /\ airborne' = airborne \cup {<<n, m>> : m \in {x \in LanNodes \ {n} : Running(x)}}
    /\ UNCHANGED knownPeers

\* bootstrap_try_peer after trellis_dht_add_peer took the peer, known or not.
Counted(b) ==
    LET reached == b.candidates + 1 >= PeerMin IN
    [b EXCEPT !.candidates = @ + 1, !.complete = reached, !.calls = IF reached THEN @ + 1 ELSE @]

TryPeer(n, b, p, taken) ==
    IF b.complete \/ ~taken \/ b.candidates >= MaxHeard
    THEN boot' = [boot EXCEPT ![n] = b] /\ UNCHANGED knownPeers
    ELSE boot' = [boot EXCEPT ![n] = Counted(b)] /\ knownPeers' = [knownPeers EXCEPT ![n] = @ \cup {p}]

\* The grove test of on_mdns_recv.
GroveMatch(n, p) == GroveOf[n] # NoGrove => GroveOf[p] = GroveOf[n]

\* on_mdns_recv.
MdnsRecv(a, taken) ==
    LET p == a[1] n == a[2] IN
    /\ airborne' = airborne \ {a}
    /\ IF Running(n) /\ GroveMatch(n, p) THEN TryPeer(n, boot[n], p, taken) ELSE UNCHANGED <<boot, knownPeers>>

MdnsLost(a) == airborne' = airborne \ {a} /\ UNCHANGED <<boot, knownPeers>>

\* bootstrap_try_hardcoded_seeds: the DHT takes some of them; it stops once complete.
SeedsTried(b, taken) ==
    LET more == Cardinality(taken)
        short == PeerMin - b.candidates IN
    IF more >= short THEN [b EXCEPT !.candidates = PeerMin, !.complete = TRUE, !.calls = @ + 1]
    ELSE [b EXCEPT !.candidates = @ + more]

\* Faulty variant of GivenUp: the outcome is reported when there is a peer.
GivenUpSilently(b) == IF b.candidates > 0 THEN [b EXCEPT !.calls = @ + 1] ELSE b

\* Phase 3 of the timer: the callback gets what there is.
GivenUp(b) == [b EXCEPT !.calls = @ + 1]

\* bootstrap_strategy_timer_cb.
StrategyTimer(n) ==
    /\ Running(n) /\ ~boot[n].complete /\ boot[n].phase < 3
    /\ LET b == [boot[n] EXCEPT !.phase = @ + 1] IN
        \/ /\ b.phase = 1
           /\ \E taken \in SUBSET Seeds :
                /\ boot' = [boot EXCEPT ![n] = SeedsTried(b, taken)]
                /\ knownPeers' = [knownPeers EXCEPT ![n] = @ \cup taken]
        \/ /\ b.phase = 2
           /\ boot' = [boot EXCEPT ![n] = [b EXCEPT !.dns = {"a", "txt"}]]
           /\ UNCHANGED knownPeers
        \/ /\ b.phase = 3
           /\ boot' = [boot EXCEPT ![n] = GivenUp(b)]
           /\ UNCHANGED knownPeers
    /\ UNCHANGED airborne

\* on_doh_a_resolve and on_doh_txt_resolve: a late answer still counts.
DnsAnswer(n, q, p, taken) ==
    /\ q \in boot[n].dns
    /\ Running(n)
    /\ TryPeer(n, [boot[n] EXCEPT !.dns = @ \ {q}], p, taken)
    /\ UNCHANGED airborne

\* trellis_bootstrap_add_seed.
AddSeed(n, p, taken) ==
    /\ Running(n) /\ p \notin knownPeers[n]
    /\ TryPeer(n, boot[n], p, taken)
    /\ UNCHANGED airborne

\* trellis_bootstrap_free.
StopBootstrap(n) ==
    /\ Running(n)
    /\ boot' = [boot EXCEPT ![n].state = "freed"]
    /\ UNCHANGED <<knownPeers, airborne>>

BootstrapNext ==
    \/ \E n \in LanNodes :
        \/ StartBootstrap(n) \/ StrategyTimer(n) \/ StopBootstrap(n)
        \/ \E p \in DnsSeeds, taken \in BOOLEAN :
            AddSeed(n, p, taken) \/ \E q \in {"a", "txt"} : DnsAnswer(n, q, p, taken)
    \/ \E a \in airborne : MdnsLost(a) \/ \E taken \in BOOLEAN : MdnsRecv(a, taken)

BootstrapFairness == \A n \in LanNodes : WF_bootVars(StrategyTimer(n))
BootstrapSpec == BootstrapInit /\ [][BootstrapNext]_bootVars /\ BootstrapFairness

-----------------------------------------------------------------------------

BootstrapTypeOK ==
    /\ \A n \in LanNodes :
        boot[n] \in [state : {"off", "on", "freed"}, phase : 0 .. 3, candidates : 0 .. MaxHeard,
                     complete : BOOLEAN, dns : SUBSET {"a", "txt"}, calls : 0 .. 2]
    /\ \A n \in LanNodes : knownPeers[n] \subseteq LanNodes \cup Seeds \cup DnsSeeds

\* Whoever starts hears of the outcome, also when nobody is found, unless it stops first.
BootstrapReports == \A n \in LanNodes : Running(n) ~> (boot[n].calls > 0 \/ ~Running(n))
=============================================================================
