------------------------------- MODULE Relay -------------------------------
(***************************************************************************)
(* One relay (src/src/mesh/relay.c), the peers that send cells through it  *)
(* and the peers that keep a media session with it                         *)
(* (src/src/mesh/circuit_pool.c, route_session_relay of routing.c).        *)
(*                                                                         *)
(* An initiator holds a session for PoolAge, sends CREATE_SESSION once and *)
(* does not wait for the answer; the relay forgets the session by its own  *)
(* rules.  Peers may be connected over UDP: a message may be lost or       *)
(* overtaken; it is not repeated, and does not outlive a tick.             *)
(***************************************************************************)
EXTENDS RelayNode

CONSTANTS
    Initiators,   \* the peers that send media
    Removable,    \* the peers that may be removed
    PoolAge,      \* CIRCUIT_POOL_MAX_AGE_MS (5 min)
    SweepPeriod,  \* RELAY_LIFECYCLE_INTERVAL_MS (30 s)
    MaxTime,      \* bound: the clock
    MaxSessions,  \* bound: sessions of an initiator
    MaxFrames     \* bound: frames of a session

ASSUME RelaySystemAssumption ==
    /\ IsFiniteSet(Peers) /\ Initiators \subseteq Peers /\ Removable \subseteq Peers
    /\ {PoolAge, SweepPeriod, MaxTime, MaxSessions, MaxFrames} \subseteq Nat

VARIABLES
    relay,      \* the relay
    pool,       \* router->session_pool of each initiator
    net,        \* messages in flight to the relay
    delivered,  \* the frames of each session the relay passed on, in order
    admissions, \* the times at which each peer was admitted, of the last PeerWindow
    now,        \* trellis_now_ms()
    sweepAt     \* when the lifecycle timer fires

vars == <<relay, pool, net, delivered, admissions, now, sweepAt>>

SessionId == Initiators \X (1..MaxSessions)
NoSession == [valid |-> FALSE]
CreateMsg(p, id) == [type |-> "CREATE_SESSION", from |-> p, id |-> id]
DataMsg(p, id, n) == [type |-> "SESSION_DATA", from |-> p, id |-> id, nonce |-> n]

Init ==
    /\ relay = NewRelay
    /\ pool = [p \in Initiators |-> NoSession]
    /\ net = {}
    /\ delivered = [id \in SessionId |-> <<>>]
    /\ admissions = [p \in Peers |-> <<>>]
    /\ now = 1
    /\ sweepAt = 1 + SweepPeriod

Recorded(p) ==
    IF Admits(relay, p, now) THEN [admissions EXCEPT ![p] = Append(@, now)] ELSE admissions

\* A cell from p to be passed on to q, which is connected: a circuit is created
\* if there is none, and the cell is dropped only if the window is exhausted.
\* The SENDME, if one is owed, goes to p.
RelayCell(p, q) ==
    LET c == CreateCircuit(relay, p, q, now)
    IN /\ relay' = SendmeTaken(Forward(c, p, q, 1, now), p, q)
       /\ admissions' = Recorded(p)
       /\ UNCHANGED <<pool, net, delivered, now, sweepAt>>

-----------------------------------------------------------------------------
(* Initiators. *)

\* The number of sessions p has built.
Built(p) == IF pool[p] = NoSession THEN 0 ELSE pool[p].id[2]

\* Faulty variant of Usable: an old session is kept.
UsableForever(p) == pool[p] # NoSession

Usable(p) == pool[p] # NoSession /\ now - pool[p].created <= PoolAge

\* trellis_session_pool_acquire: the valid session, or a new one.
Acquired(p) ==
    IF Usable(p) THEN pool[p]
    ELSE [valid |-> TRUE, id |-> <<p, Built(p) + 1>>, created |-> now,
          nonce |-> 0, unsent |-> TRUE]

\* route_session_relay: CREATE_SESSION once, and the frame.
SendFrame(p) ==
    LET s == Acquired(p)
    IN /\ s.id[2] <= MaxSessions /\ s.nonce < MaxFrames
       /\ pool' = [pool EXCEPT ![p] = [s EXCEPT !.nonce = @ + 1, !.unsent = FALSE]]
       /\ net' = net \union {DataMsg(p, s.id, s.nonce)}
                     \union (IF s.unsent THEN {CreateMsg(p, s.id)} ELSE {})
       /\ UNCHANGED <<relay, delivered, admissions, now, sweepAt>>

\* The relay is not a connected peer at that moment: nothing is sent, and the
\* session counts as set up all the same.
SendFrameUnconnected(p) ==
    LET s == Acquired(p)
    IN /\ s.id[2] <= MaxSessions /\ s.nonce < MaxFrames
       /\ pool' = [pool EXCEPT ![p] = [s EXCEPT !.nonce = @ + 1, !.unsent = FALSE]]
       /\ UNCHANGED <<relay, net, delivered, admissions, now, sweepAt>>

-----------------------------------------------------------------------------
(* The relay. *)

RecvCreate(m) ==
    /\ m.type = "CREATE_SESSION"
    /\ net' = net \ {m}
    /\ relay' = CreateSession(relay, m.from, m.id, now)
    /\ admissions' = Recorded(m.from)
    /\ UNCHANGED <<pool, delivered, now, sweepAt>>

RecvData(m) ==
    /\ m.type = "SESSION_DATA"
    /\ net' = net \ {m}
    /\ relay' = SessionData(relay, m.from, m.id, m.nonce, now)
    /\ delivered' = IF AcceptsData(relay, m.from, m.id, m.nonce)
                    THEN [delivered EXCEPT ![m.id] = Append(@, m.nonce)] ELSE delivered
    /\ UNCHANGED <<pool, admissions, now, sweepAt>>

\* The peer is removed (a handshake with it timed out, or the control socket
\* asked for it) and connects again; what it had in flight is gone.
RemovePeer(p) ==
    /\ relay' = ClosePeer(relay, p)
    /\ net' = {m \in net : m.from # p}
    /\ UNCHANGED <<pool, delivered, admissions, now, sweepAt>>

Lifecycle ==
    /\ now = sweepAt
    /\ relay' = Swept(relay, now)
    /\ sweepAt' = now + SweepPeriod
    /\ UNCHANGED <<pool, net, delivered, admissions, now>>

\* The times of s, which ascend, that are in the window when the clock has ticked.
Recent(s) ==
    LET old == CHOOSE k \in 0..Len(s) :
                   /\ \A i \in k+1..Len(s) : s[i] > now + 1 - PeerWindow
                   /\ k # 0 => s[k] <= now + 1 - PeerWindow
    IN SubSeq(s, old + 1, Len(s))

Tick ==
    /\ now < MaxTime
    /\ now < sweepAt
    /\ now' = now + 1
    /\ net' = {}
    /\ admissions' = [p \in Peers |-> Recent(admissions[p])]
    /\ UNCHANGED <<relay, pool, delivered, sweepAt>>

Next ==
    \/ \E p, q \in Peers : p # q /\ RelayCell(p, q)
    \/ \E p \in Initiators : SendFrame(p)
    \/ \E p \in Initiators : SendFrameUnconnected(p)
    \/ \E m \in net : RecvCreate(m)
    \/ \E m \in net : RecvData(m)
    \/ \E p \in Removable : RemovePeer(p)
    \/ Lifecycle
    \/ Tick

Spec == Init /\ [][Next]_vars

-----------------------------------------------------------------------------
(* Properties. *)

\* The relay's state is one its structures can hold.
TypeOK ==
    /\ \A i \in Active(relay) :
           /\ relay.slots[i].kind \in {"onion", "session"}
           /\ {relay.slots[i].from, relay.slots[i].to} \subseteq Peers
           /\ relay.slots[i].flow \in Flow
    /\ relay.count \in 0..MaxCircuits
    /\ Len(relay.rates) <= RateSlots
    /\ relay.admitted \in 0..GlobalLimit

\* circuit_count, which capacity and the advertised load are computed from, is
\* the number of circuits in use, however they were opened, evicted and closed.
CountIsActive == relay.count = Cardinality(Active(relay))

\* A pair has at most one circuit and a session at most one slot, so that every
\* lookup that takes the first match takes the only one.
CircuitsDistinct ==
    \A i, j \in Active(relay) :
        i # j => LET a == relay.slots[i]
                     b == relay.slots[j]
                 IN /\ a.kind = "onion" /\ b.kind = "onion" => <<a.from, a.to>> # <<b.from, b.to>>
                    /\ a.kind = "session" /\ b.kind = "session" => a.id # b.id

\* The table of circuits is in order: every slot has its shape, the count is that of the slots
\* in use, and no two slots answer to the same name (relay.c).
CircuitTableOK == TypeOK /\ CountIsActive /\ CircuitsDistinct

\* Media frames are passed on in the order they were sent, each at most once,
\* although the network reorders them and the relay may forget the session.
FramesInOrder ==
    \A id \in SessionId :
        \A i, j \in DOMAIN delivered[id] : i < j => delivered[id][i] < delivered[id][j]

\* Once the lifecycle timer has had its turn no circuit is older than its age
\* limit by more than a period, nor idle for longer than the idle limit.
StaleAreSwept ==
    \A i \in Active(relay) :
        /\ now - relay.slots[i].created <= MaxAge + SweepPeriod
        /\ now - relay.slots[i].activity <= MaxIdle + SweepPeriod

\* A peer that keeps its rate slot is admitted at most PeerLimit times in a
\* window, so at most twice that in any interval of a window's length.
PeerRateBounded ==
    Cardinality(Peers) <= RateSlots =>
        \A p \in Peers : Len(admissions[p]) <= 2 * PeerLimit

\* An initiator never uses a session for longer than the pool's age limit.
SessionsRenewed ==
    [][\A p \in Initiators :
          pool'[p] # pool[p] => now - pool'[p].created <= PoolAge]_vars
=============================================================================
