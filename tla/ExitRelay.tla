------------------------------ MODULE ExitRelay ------------------------------
(***************************************************************************)
(* The clearnet exit (src/src/mesh/exit_relay.c): streams that arrive over *)
(* circuits and clients of the local SOCKS5 port share one table of        *)
(* connections and one rate limiter.  A name is looked up and a socket     *)
(* connected in callbacks that hold a pointer to a slot; the stream may be *)
(* closed, or the client gone, before they run.                            *)
(***************************************************************************)
EXTENDS Naturals, FiniteSets

CONSTANTS
    ExitStreams,       \* streams of circuits; each is opened once
    SocksClients,  \* clients of the SOCKS5 port
    Sites,         \* targets
    PolicySites,   \* the targets the policy's first matching rule allows
    ExitSlots,     \* EXIT_MAX_CONNECTIONS, for conns and for socks_conns
    ExitRate,      \* EXIT_RATE_LIMIT_MAX_CONN
    MaxSeconds     \* bound: rate windows

Nobody == "nobody"
Nowhere == "nowhere"

ASSUME ExitAssumption ==
    /\ {ExitSlots, ExitRate} \subseteq Nat \ {0}
    /\ MaxSeconds \in Nat
    /\ PolicySites \subseteq Sites /\ Nowhere \notin Sites
    /\ ExitStreams \cap SocksClients = {}

VARIABLES
    conns,     \* er->conns
    socksState,     \* er->socks_conns
    lookups,   \* resolutions in flight: the slot their callback holds, and the target
    asked,     \* user -> the target it asked for
    finished,  \* the streams whose CLOSE was handled
    early,     \* the users that left while their name was looked up
    spentTokens,     \* er->rate.count
    second     \* rate windows gone by

exitVars == <<conns, socksState, lookups, asked, finished, early, spentTokens, second>>

Users == ExitStreams \cup SocksClients
IdleConn == [active |-> FALSE, user |-> Nobody, state |-> "none", socket |-> Nowhere]
IdleSocks == [active |-> FALSE, user |-> Nobody, state |-> "none"]

ExitInit ==
    /\ conns = [s \in 1 .. ExitSlots |-> IdleConn]
    /\ socksState = [s \in 1 .. ExitSlots |-> IdleSocks]
    /\ lookups = {}
    /\ asked = [u \in Users |-> Nowhere]
    /\ finished = {}
    /\ early = {}
    /\ spentTokens = 0
    /\ second = 0

\* exit_rate_check: every command and every SOCKS5 step counts.
WithinRate == spentTokens < ExitRate
Count == spentTokens' = IF WithinRate THEN spentTokens + 1 ELSE spentTokens

NextSecond ==
    /\ second < MaxSeconds
    /\ second' = second + 1
    /\ spentTokens' = 0
    /\ UNCHANGED <<conns, socksState, lookups, asked, finished, early>>

\* Faulty variant of FreeSlots: the first slot, also when it is in use.
FreeSlotsAny(table) == {1}

\* exit_alloc_conn, and the search of socks5_on_accept: the first inactive slot.
FreeSlots(table) ==
    {s \in DOMAIN table : ~table[s].active /\ \A r \in 1 .. s - 1 : table[r].active}

\* exit_policy_allows and pattern_match: what the first matching rule says.
PolicyAllows(t) == t \in PolicySites

\* exit_handle_open.
OpenStream(u, t) ==
    /\ asked[u] = Nowhere
    /\ asked' = [asked EXCEPT ![u] = t]
    /\ Count
    /\ \/ /\ WithinRate /\ PolicyAllows(t)
          /\ \E s \in FreeSlots(conns) :
                /\ conns' = [conns EXCEPT ![s] = [active |-> TRUE, user |-> u, state |-> "none", socket |-> Nowhere]]
                /\ lookups' = lookups \cup {[table |-> "conns", slot |-> s, target |-> t]}
       \/ /\ ~WithinRate \/ ~PolicyAllows(t) \/ FreeSlots(conns) = {}
          /\ UNCHANGED <<conns, lookups>>
    /\ UNCHANGED <<socksState, finished, early, second>>

FreeConn(s) == [conns[s] EXCEPT !.active = FALSE, !.state = "none", !.socket = Nowhere]

\* stream_doh_cb and socks5_doh_cb: whatever has become of the slot it holds.
Connecting(c, t) == [c EXCEPT !.state = "connecting", !.socket = t]

StreamResolved(l, ok) ==
    /\ l.table = "conns"
    /\ lookups' = lookups \ {l}
    /\ conns' = [conns EXCEPT ![l.slot] = IF ok THEN Connecting(@, l.target) ELSE [@ EXCEPT !.active = FALSE]]
    /\ UNCHANGED <<socksState, asked, finished, early, spentTokens, second>>

SocksResolved(l, ok) ==
    /\ l.table = "socksState"
    /\ lookups' = lookups \ {l}
    /\ \/ /\ ok
          /\ \E s \in FreeSlots(conns) :
                conns' = [conns EXCEPT ![s] = Connecting([IdleConn EXCEPT !.active = TRUE,
                                                          !.user = socksState[l.slot].user], l.target)]
          /\ UNCHANGED socksState
       \/ /\ ~ok \/ FreeSlots(conns) = {}
          /\ socksState' = [socksState EXCEPT ![l.slot].active = FALSE]
          /\ UNCHANGED conns
    /\ UNCHANGED <<asked, finished, early, spentTokens, second>>

ClientOf(s) == {k \in DOMAIN socksState : socksState[k].active /\ socksState[k].user = conns[s].user}

\* stream_on_connect and socks5_on_target_connect: the timer is stopped and both sides
\* are read.  The SOCKS5 slot stays active for good.
Connected(s) ==
    /\ conns[s].state = "connecting"
    /\ conns' = [conns EXCEPT ![s].state = "open"]
    /\ socksState' = [k \in DOMAIN socksState |-> IF k \in ClientOf(s) THEN [socksState[k] EXCEPT !.state = "proxy"] ELSE socksState[k]]
    /\ UNCHANGED <<lookups, asked, finished, early, spentTokens, second>>

\* A failed connect, or exit_on_connect_timeout, whose uv_close makes the connect fail.
ConnectFails(s) ==
    /\ conns[s].state = "connecting"
    /\ conns' = [conns EXCEPT ![s] = FreeConn(s)]
    /\ socksState' = [k \in DOMAIN socksState |-> IF k \in ClientOf(s) THEN [socksState[k] EXCEPT !.active = FALSE] ELSE socksState[k]]
    /\ UNCHANGED <<lookups, asked, finished, early, spentTokens, second>>

\* exit_on_downstream_read and exit_on_upstream_read at the end of a side.
SideEnds(s) ==
    /\ conns[s].state = "open"
    /\ conns' = [conns EXCEPT ![s] = FreeConn(s)]
    /\ UNCHANGED <<socksState, lookups, asked, finished, early, spentTokens, second>>

\* exit_find_conn_by_stream.
ConnOf(u) == {s \in DOMAIN conns : conns[s].active /\ conns[s].user = u}

\* exit_handle_close.
CloseStream(u) ==
    /\ asked[u] # Nowhere
    /\ u \notin finished
    /\ Count
    /\ WithinRate
    /\ finished' = finished \cup {u}
    /\ early' = IF \E s \in ConnOf(u) : conns[s].state = "none" THEN early \cup {u} ELSE early
    /\ conns' = [s \in DOMAIN conns |-> IF s \in ConnOf(u) THEN FreeConn(s) ELSE conns[s]]
    /\ UNCHANGED <<socksState, lookups, asked, second>>

\* handle_stream with DATA: the bytes go to the socket of the stream, once there is one.
StreamData(u) ==
    /\ \E s \in ConnOf(u) : conns[s].state = "open"
    /\ Count
    /\ UNCHANGED <<conns, socksState, lookups, asked, finished, early, second>>

\* socks5_on_accept.
AcceptSocks(u) ==
    /\ asked[u] = Nowhere
    /\ \A k \in DOMAIN socksState : socksState[k].user # u
    /\ Count
    /\ WithinRate
    /\ \E k \in FreeSlots(socksState) :
        socksState' = [socksState EXCEPT ![k] = [active |-> TRUE, user |-> u, state |-> "request"]]
    /\ UNCHANGED <<conns, lookups, asked, finished, early, second>>

\* socks5_process in SOCKS5_REQUEST.
Request(k, t) ==
    /\ socksState[k].active /\ socksState[k].state = "request"
    /\ asked' = [asked EXCEPT ![socksState[k].user] = t]
    /\ \/ /\ PolicyAllows(t) /\ WithinRate
          /\ socksState' = [socksState EXCEPT ![k].state = "lookup"]
          /\ lookups' = lookups \cup {[table |-> "socksState", slot |-> k, target |-> t]}
          /\ Count
       \/ /\ ~PolicyAllows(t) \/ ~WithinRate
          /\ socksState' = [socksState EXCEPT ![k].active = FALSE]
          /\ UNCHANGED <<lookups, spentTokens>>
    /\ UNCHANGED <<conns, finished, early, second>>

\* socks5_read_cb at the end of the client's side.
ClientGone(k) ==
    /\ socksState[k].active /\ socksState[k].state # "proxy"
    /\ socksState' = [socksState EXCEPT ![k].active = FALSE]
    /\ early' = early \cup {socksState[k].user}
    /\ UNCHANGED <<conns, lookups, asked, finished, spentTokens, second>>

ExitNext ==
    \/ \E u \in ExitStreams, t \in Sites : OpenStream(u, t)
    \/ \E u \in ExitStreams : CloseStream(u) \/ StreamData(u)
    \/ \E l \in lookups, ok \in BOOLEAN : StreamResolved(l, ok) \/ SocksResolved(l, ok)
    \/ \E s \in DOMAIN conns : Connected(s) \/ ConnectFails(s) \/ SideEnds(s)
    \/ \E u \in SocksClients : AcceptSocks(u)
    \/ \E k \in DOMAIN socksState : ClientGone(k) \/ \E t \in Sites : Request(k, t)
    \/ NextSecond

ExitSpec == ExitInit /\ [][ExitNext]_exitVars

-----------------------------------------------------------------------------

ExitTypeOK ==
    /\ \A s \in DOMAIN conns :
        conns[s] \in [active : BOOLEAN, user : Users \cup {Nobody}, state : {"none", "connecting", "open"},
                      socket : Sites \cup {Nowhere}]
    /\ spentTokens \in 0 .. ExitRate
    /\ asked \in [Users -> Sites \cup {Nowhere}]

\* An open socket leads to the target that its stream or SOCKS5 client asked for, and the
\* policy allows it, as long as nobody left while a name was being looked up.
SocketsLeadToTarget ==
    early = {} => \A s \in DOMAIN conns :
        conns[s].state = "open" => conns[s].socket = asked[conns[s].user] /\ conns[s].socket \in PolicySites
=============================================================================
