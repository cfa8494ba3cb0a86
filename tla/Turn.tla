-------------------------------- MODULE Turn --------------------------------
(***************************************************************************)
(* The TURN server (src/src/turn/turn.c) and the STUN messages it reads    *)
(* (stun.c).  A client holds one allocation with a relay port, permissions *)
(* by peer IP and channels by peer address; all of them expire, the server *)
(* sweeps in turn_server_tick.  Time counts epochs of 300 seconds.         *)
(***************************************************************************)
EXTENDS Naturals, Sequences, FiniteSets

CONSTANTS
    TurnClients,     \* client addresses
    PeerIPs,         \* IP addresses of peers
    PeerPorts,       \* their ports
    ChannelNumbers,  \* channel numbers in use
    Allocations,     \* TURN_MAX_ALLOCATIONS
    Permissions,     \* TURN_MAX_PERMISSIONS
    Channels,        \* TURN_MAX_CHANNELS
    RelayPorts,      \* relay_port_max - relay_port_min + 1
    MaxEpochs        \* bound: the clock

ASSUME TurnAssumption ==
    /\ {Allocations, Permissions, Channels, RelayPorts} \subseteq Nat \ {0}
    /\ MaxEpochs \in Nat

DefaultLifetime == 2
PermissionLifetime == 1
ChannelLifetime == 2

PeerAddrs == PeerIPs \X PeerPorts

-----------------------------------------------------------------------------
(* STUN: a message is a sequence of attributes <<type, value>>; the value of *)
(* MESSAGE-INTEGRITY is a MAC, which only its key and input reproduce.       *)

Mac(key, attrs) == <<key, attrs>>

\* stun_build_response.
StunBuild(key, attrs) ==
    IF key = "none" THEN Append(attrs, <<"FINGERPRINT", "crc">>)
    ELSE attrs \o << <<"MESSAGE-INTEGRITY", Mac(key, attrs)>>, <<"FINGERPRINT", "crc">> >>

At(msg, type) == {i \in DOMAIN msg : msg[i][1] = type}
LastOf(S) == CHOOSE i \in S : \A j \in S : j <= i

\* stun_parse: the last attribute of a type is kept.
StunParse(msg) == [t \in {msg[i][1] : i \in DOMAIN msg} |-> msg[LastOf(At(msg, t))][2]]

\* stun_verify_integrity: over the attributes before MESSAGE-INTEGRITY.
StunVerifies(msg, key) ==
    LET mi == At(msg, "MESSAGE-INTEGRITY") IN
    mi # {} /\ msg[LastOf(mi)][2] = Mac(key, SubSeq(msg, 1, LastOf(mi) - 1))

\* A built message parses to its attributes and verifies under its key and no other.
ASSUME StunRoundTrip ==
    \A attrs \in UNION {[1 .. n -> {"LIFETIME", "NONCE"} \X {1, 2}] : n \in 0 .. 2} :
        /\ StunVerifies(StunBuild("k", attrs), "k")
        /\ ~StunVerifies(StunBuild("k", attrs), "other")
        /\ ~StunVerifies(StunBuild("none", attrs), "k")
        /\ \A i \in DOMAIN attrs : StunParse(StunBuild("k", attrs))[attrs[i][1]] \in {1, 2}

-----------------------------------------------------------------------------

VARIABLES
    allocs,    \* srv->allocations: the active ones, slot -> record
    nextPort,  \* srv->next_relay_port
    count,     \* srv->alloc_count
    nonce,     \* client -> epoch of the nonce it was last given
    epoch      \* the clock

turnVars == <<allocs, nextPort, count, nonce, epoch>>

NoNonce == 0

TurnInit ==
    /\ allocs = <<>>
    /\ nextPort = 1
    /\ count = 0
    /\ nonce = [c \in TurnClients |-> NoNonce]
    /\ epoch = 1

\* verify_nonce: this epoch's nonce and the last one's are accepted.
NonceFresh(c) == nonce[c] + 1 >= epoch

\* check_auth, of a client that knows the secret.
Authorized(c) == nonce[c] # NoNonce /\ NonceFresh(c)

\* send_unauth, or send_error with STALE_NONCE: the answer carries a fresh nonce.
Challenge(c) ==
    /\ ~Authorized(c)
    /\ nonce' = [nonce EXCEPT ![c] = epoch]
    /\ UNCHANGED <<allocs, nextPort, count, epoch>>

\* turn_server_find_alloc_by_client: an allocation past its time is found until the sweep.
AllocOf(c) == {s \in DOMAIN allocs : allocs[s].client = c}

\* The scan of handle_allocate: the first port from p on, round and round, that is free.
PortsFrom(p) ==
    LET port(d) == 1 + ((p - 1 + d) % RelayPorts)
        free == {d \in 0 .. RelayPorts - 1 : \A s \in DOMAIN allocs : allocs[s].port # port(d)}
    IN {port(d) : d \in {x \in free : \A y \in free : x <= y}}

FirstSlot == {s \in 1 .. Allocations : s \notin DOMAIN allocs /\ 1 .. s - 1 \subseteq DOMAIN allocs}

With(table, s, a) == [x \in DOMAIN table \cup {s} |-> IF x = s THEN a ELSE table[x]]
Without(table, S) == [x \in DOMAIN table \ S |-> table[x]]
Least(a, b) == IF a < b THEN a ELSE b

\* handle_allocate, with the LIFETIME asked for, or the default.
Allocate(c, lifetime) ==
    /\ Authorized(c)
    /\ AllocOf(c) = {} /\ count < Allocations
    /\ \E s \in FirstSlot, p \in PortsFrom(nextPort) :
        /\ allocs' = With(allocs, s, [client |-> c, port |-> p, perms |-> <<>>, channels |-> <<>>,
                                      expires |-> epoch + Least(lifetime, DefaultLifetime)])
        /\ nextPort' = 1 + (p % RelayPorts)
    /\ count' = count + 1
    /\ UNCHANGED <<nonce, epoch>>

\* handle_refresh: LIFETIME 0 gives the allocation up.
Refresh(c, lifetime) ==
    /\ Authorized(c)
    /\ \E s \in AllocOf(c) :
        \/ lifetime = 0 /\ allocs' = Without(allocs, {s}) /\ count' = count - 1
        \/ lifetime > 0 /\ allocs' = [allocs EXCEPT ![s].expires = epoch + lifetime] /\ UNCHANGED count
    /\ UNCHANGED <<nextPort, nonce, epoch>>

\* The slot of a permission: the one of that IP, or a free one, or the one that expires
\* first.  Slots that the sweep cleared keep nothing.
PermSlots(a, ip) ==
    LET P == DOMAIN a.perms
        same == {i \in P : a.perms[i].addr[1] = ip}
        free == {i \in 1 .. Permissions : i \notin P /\ 1 .. i - 1 \subseteq P}
        first == {i \in P : \A j \in P : a.perms[i].expires <= a.perms[j].expires}
    IN IF same # {} THEN same
       ELSE IF free # {} THEN free ELSE {CHOOSE i \in first : \A j \in first : i <= j}

Permit(a, peer, lifetime) ==
    {[a EXCEPT !.perms = With(@, i, [addr |-> peer, expires |-> epoch + lifetime])] : i \in PermSlots(a, peer[1])}

\* handle_create_permission.
CreatePermission(c, peer) ==
    /\ Authorized(c)
    /\ \E s \in AllocOf(c) : \E a \in Permit(allocs[s], peer, PermissionLifetime) :
        allocs' = [allocs EXCEPT ![s] = a]
    /\ UNCHANGED <<nextPort, count, nonce, epoch>>

\* Faulty variant of Conflicts: a peer may be bound to a second channel.
ConflictsOfNumber(a, n, peer) ==
    \E i \in DOMAIN a.channels : a.channels[i].number = n /\ a.channels[i].addr # peer

\* The checks of handle_channel_bind, also against channels that have expired unswept.
Conflicts(a, n, peer) ==
    \E i \in DOMAIN a.channels : (a.channels[i].number = n) # (a.channels[i].addr = peer)

ChannelSlots(a, n) ==
    LET C == DOMAIN a.channels
        same == {i \in C : a.channels[i].number = n}
    IN IF same # {} THEN same ELSE {i \in 1 .. Channels : i \notin C /\ 1 .. i - 1 \subseteq C}

\* handle_channel_bind: the channel, and a permission that lasts as long.
ChannelBind(c, n, peer) ==
    /\ Authorized(c)
    /\ \E s \in AllocOf(c) :
        /\ ~Conflicts(allocs[s], n, peer)
        /\ \E i \in ChannelSlots(allocs[s], n) : \E a \in Permit(allocs[s], peer, ChannelLifetime) :
            allocs' = [allocs EXCEPT ![s] =
                [a EXCEPT !.channels = With(@, i, [number |-> n, addr |-> peer, expires |-> epoch + ChannelLifetime])]]
    /\ UNCHANGED <<nextPort, count, nonce, epoch>>

Fresh(table) == Without(table, {i \in DOMAIN table : table[i].expires <= epoch})

\* turn_server_tick.
Sweep ==
    LET expired == {s \in DOMAIN allocs : allocs[s].expires <= epoch} IN
    /\ allocs' = [s \in DOMAIN allocs \ expired |->
                    [allocs[s] EXCEPT !.perms = Fresh(@), !.channels = Fresh(@)]]
    /\ count' = count - Cardinality(expired)
    /\ UNCHANGED <<nextPort, nonce, epoch>>

NextEpoch == epoch < MaxEpochs /\ epoch' = epoch + 1 /\ UNCHANGED <<allocs, nextPort, count, nonce>>

TurnNext ==
    \/ \E c \in TurnClients :
        \/ Challenge(c)
        \/ \E l \in 0 .. DefaultLifetime : Allocate(c, l) \/ Refresh(c, l)
        \/ \E p \in PeerAddrs : CreatePermission(c, p) \/ \E n \in ChannelNumbers : ChannelBind(c, n, p)
    \/ Sweep
    \/ NextEpoch

TurnSpec == TurnInit /\ [][TurnNext]_turnVars

-----------------------------------------------------------------------------

FindChannels(a, peer) == {i \in DOMAIN a.channels : a.channels[i].addr = peer /\ epoch < a.channels[i].expires}
FindPeers(a, n) == {i \in DOMAIN a.channels : a.channels[i].number = n /\ epoch < a.channels[i].expires}

TurnTypeOK ==
    /\ DOMAIN allocs \subseteq 1 .. Allocations
    /\ \A s \in DOMAIN allocs :
        allocs[s].client \in TurnClients /\ DOMAIN allocs[s].perms \subseteq 1 .. Permissions
            /\ DOMAIN allocs[s].channels \subseteq 1 .. Channels
    /\ nextPort \in 1 .. RelayPorts /\ count = Cardinality(DOMAIN allocs)

\* What a peer sends comes to the client on the channel on which the client's own data
\* goes to that peer: turn_server_deliver and handle_channel_data name the same pair.
ChannelsAgree ==
    \A s \in DOMAIN allocs : \A p \in PeerAddrs :
        \A i, j \in FindChannels(allocs[s], p) : i = j /\ FindPeers(allocs[s], allocs[s].channels[i].number) = {i}
=============================================================================
