----------------------------- MODULE RelayNode -----------------------------
(***************************************************************************)
(* The state of one relay and what each call does to it                    *)
(* (src/src/mesh/relay.c), as operators on a record:                       *)
(*   slots    circuits[], a circuit or Free                                *)
(*   count    circuit_count                                                *)
(*   rates    peer_rates[], the slots in use                               *)
(*   started, admitted   global_circuit_window, global_circuit_count       *)
(* Times are in ticks.                                                     *)
(*                                                                         *)
(* The SENDME window of a circuit (src/src/mesh/flow.c) is a record too,   *)
(* and data is counted in cells:                                           *)
(*   window    send_window                                                 *)
(*   deliver   deliver_count                                               *)
(*   owed      recv_window = 1, "a SENDME should be sent"                  *)
(*   cwnd      the Vegas congestion window                                 *)
(*   inflight  inflight                                                    *)
(***************************************************************************)
EXTENDS Naturals, Sequences, FiniteSets

CONSTANTS
    Peers,         \* fingerprints
    MaxCircuits,   \* RELAY_MAX_CIRCUITS (128)
    MaxCapacity,   \* max_capacity; the client passes 0, which means MaxCircuits
    MaxAge,        \* RELAY_CIRCUIT_MAX_AGE_MS (10 min)
    MaxIdle,       \* RELAY_CIRCUIT_IDLE_MS (2 min)
    RateSlots,     \* RELAY_PEER_RATE_SLOTS (256)
    PeerLimit,     \* RELAY_PEER_CIRCUIT_LIMIT (5)
    PeerWindow,    \* RELAY_PEER_RATE_WINDOW_MS (60 s)
    GlobalLimit,   \* RELAY_GLOBAL_CIRCUIT_RATE (50)
    GlobalWindow,  \* 1 s
    WindowInit,    \* FLOW_WINDOW_INIT (1000)
    Increment,     \* FLOW_WINDOW_INCREMENT (100)
    CwndMin,       \* FLOW_CWND_MIN (50)
    CwndMax        \* FLOW_CWND_MAX (2000)

ASSUME RelayAssumption ==
    /\ {MaxCircuits, MaxCapacity, RateSlots, PeerWindow} \subseteq Nat \ {0}
    /\ {MaxAge, MaxIdle, PeerLimit, GlobalLimit, GlobalWindow} \subseteq Nat

ASSUME FlowAssumption ==
    /\ {WindowInit, Increment, CwndMin, CwndMax} \subseteq Nat \ {0}
    /\ CwndMin <= WindowInit /\ WindowInit <= CwndMax

-----------------------------------------------------------------------------
(* Flow control. *)

Flow == [window : 0..CwndMax, deliver : Nat, owed : BOOLEAN,
         cwnd : CwndMin..CwndMax, inflight : Nat]

NewFlow == [window |-> WindowInit, deliver |-> 0, owed |-> FALSE,
            cwnd |-> WindowInit, inflight |-> 0]

Minus(a, b) == IF a > b THEN a - b ELSE 0

CanSend(f) == f.window > 0

OnSend(f, cells) ==
    [f EXCEPT !.window = Minus(@, cells), !.inflight = @ + cells]

\* Faulty variant of OnRecv: a SENDME is owed one cell too early.
OnRecvEarly(f, cells) ==
    IF f.deliver + cells + 1 >= Increment
    THEN [f EXCEPT !.deliver = Minus(@ + cells, Increment), !.owed = TRUE]
    ELSE [f EXCEPT !.deliver = @ + cells]

OnRecv(f, cells) ==
    IF f.deliver + cells >= Increment
    THEN [f EXCEPT !.deliver = @ + cells - Increment, !.owed = TRUE]
    ELSE [f EXCEPT !.deliver = @ + cells]

OnSendme(f) ==
    [f EXCEPT !.window = IF @ + Increment > f.cwnd THEN f.cwnd ELSE @ + Increment,
              !.inflight = Minus(@, Increment)]

\* The RTT estimate says the path has room, is steady, or is queueing.
VegasUpdate(f, load) ==
    [f EXCEPT !.cwnd = CASE load = "room" /\ @ < CwndMax -> @ + 1
                         [] load = "queueing" /\ @ > CwndMin -> @ - 1
                         [] OTHER -> @]

-----------------------------------------------------------------------------
(* The relay. *)

Slot == 1..MaxCircuits
Free == [kind |-> "free"]

\* A circuit of handle_onion and of RELAY messages, and a session circuit: its
\* id stands for session_circuit_id and the session key derived with it.
OnionCircuit(from, to, now) ==
    [kind |-> "onion", from |-> from, to |-> to, created |-> now,
     activity |-> now, flow |-> NewFlow]
SessionCircuit(peer, id, now) ==
    [kind |-> "session", from |-> peer, to |-> peer, created |-> now,
     activity |-> now, flow |-> NewFlow, id |-> id, nonce |-> 0]

NewRelay ==
    [slots |-> [i \in Slot |-> Free], count |-> 0, rates |-> <<>>,
     started |-> 0, admitted |-> 0]

Active(r) == {i \in Slot : r.slots[i] # Free}
Circuits(r, from, to) ==
    {i \in Active(r) : r.slots[i].from = from /\ r.slots[i].to = to}
Sessions(r, peer, id) ==
    {i \in Active(r) : /\ r.slots[i].kind = "session"
                       /\ r.slots[i].from = peer /\ r.slots[i].id = id}
First(S) == CHOOSE i \in S : \A j \in S : i <= j

-----------------------------------------------------------------------------
(* Admission: the global and per-peer rate of circuit creation. *)

GlobalRolled(r, now) ==
    IF now - r.started >= GlobalWindow
    THEN [r EXCEPT !.started = now, !.admitted = 0] ELSE r

RateOf(rates, peer) == {i \in DOMAIN rates : rates[i].peer = peer}

OldestRate(rates) ==
    CHOOSE i \in DOMAIN rates :
        \A j \in DOMAIN rates :
            rates[i].start < rates[j].start \/ (rates[i].start = rates[j].start /\ i <= j)

\* The rate table with a slot for the peer whose window contains now.
Claimed(rates, peer, now) ==
    LET fresh == [peer |-> peer, start |-> now, count |-> 0]
        known == First(RateOf(rates, peer))
    IN IF RateOf(rates, peer) # {}
       THEN IF now - rates[known].start >= PeerWindow
            THEN [rates EXCEPT ![known] = fresh] ELSE rates
       ELSE IF Len(rates) < RateSlots THEN Append(rates, fresh)
       ELSE [rates EXCEPT ![OldestRate(rates)] = fresh]

GlobalOpen(r, now) == GlobalRolled(r, now).admitted < GlobalLimit

Admits(r, peer, now) ==
    LET rates == Claimed(r.rates, peer, now)
    IN GlobalOpen(r, now) /\ rates[First(RateOf(rates, peer))].count < PeerLimit

\* Faulty variant of CheckedRate: the peer's circuit is not counted.
CheckedRateForgets(r, peer, now) ==
    LET g == GlobalRolled(r, now)
    IN IF ~GlobalOpen(r, now) THEN g
       ELSE IF ~Admits(r, peer, now)
       THEN [g EXCEPT !.rates = Claimed(@, peer, now)]
       ELSE [g EXCEPT !.rates = Claimed(@, peer, now), !.admitted = @ + 1]

\* The relay after relay_check_peer_rate, whether or not the peer is admitted.
CheckedRate(r, peer, now) ==
    LET g == GlobalRolled(r, now)
        rates == Claimed(r.rates, peer, now)
    IN IF ~GlobalOpen(r, now) THEN g
       ELSE IF ~Admits(r, peer, now) THEN [g EXCEPT !.rates = rates]
       ELSE [g EXCEPT !.rates = [rates EXCEPT ![First(RateOf(rates, peer))].count = @ + 1],
                      !.admitted = @ + 1]

-----------------------------------------------------------------------------
(* Circuits. *)

LeastRecent(r) ==
    CHOOSE i \in Active(r) :
        \A j \in Active(r) :
            \/ r.slots[i].activity < r.slots[j].activity
            \/ r.slots[i].activity = r.slots[j].activity /\ i <= j

\* Faulty variants of CreateCircuit: a second circuit for the same pair; an
\* evicted circuit still counted.
CreateCircuitTwice(r, from, to, now) ==
    LET c == CheckedRate(r, from, now)
        free == Slot \ Active(r)
    IN IF ~Admits(r, from, now) THEN c
       ELSE IF free # {}
       THEN [c EXCEPT !.slots[First(free)] = OnionCircuit(from, to, now), !.count = @ + 1]
       ELSE IF c.count >= MaxCapacity
       THEN [c EXCEPT !.slots[LeastRecent(r)] = OnionCircuit(from, to, now)]
       ELSE c

CreateCircuitMiscounts(r, from, to, now) ==
    LET c == CheckedRate(r, from, now)
        free == Slot \ Active(r)
    IN IF ~Admits(r, from, now) \/ Circuits(r, from, to) # {} THEN c
       ELSE IF free # {}
       THEN [c EXCEPT !.slots[First(free)] = OnionCircuit(from, to, now), !.count = @ + 1]
       ELSE IF c.count >= MaxCapacity
       THEN [c EXCEPT !.slots[LeastRecent(r)] = OnionCircuit(from, to, now), !.count = @ + 1]
       ELSE c

CreateCircuit(r, from, to, now) ==
    LET c == CheckedRate(r, from, now)
        free == Slot \ Active(r)
    IN IF ~Admits(r, from, now) \/ Circuits(r, from, to) # {} THEN c
       ELSE IF free # {}
       THEN [c EXCEPT !.slots[First(free)] = OnionCircuit(from, to, now), !.count = @ + 1]
       ELSE IF c.count >= MaxCapacity
       THEN [c EXCEPT !.slots[LeastRecent(r)] = OnionCircuit(from, to, now)]
       ELSE c

\* trellis_relay_forward answers RATE_LIMITED, and the cell is dropped.
Blocked(r, from, to) ==
    /\ Circuits(r, from, to) # {}
    /\ ~CanSend(r.slots[First(Circuits(r, from, to))].flow)

Forward(r, from, to, cells, now) ==
    IF Circuits(r, from, to) = {} \/ Blocked(r, from, to) THEN r
    ELSE LET i == First(Circuits(r, from, to))
             flow == OnRecv(OnSend(r.slots[i].flow, cells), cells)
         IN [r EXCEPT !.slots[i] = [@ EXCEPT !.activity = now, !.flow = flow]]

NeedsSendme(r, from, to) ==
    /\ Circuits(r, from, to) # {}
    /\ r.slots[First(Circuits(r, from, to))].flow.owed

SendmeTaken(r, from, to) ==
    IF NeedsSendme(r, from, to)
    THEN [r EXCEPT !.slots[First(Circuits(r, from, to))].flow.owed = FALSE] ELSE r

\* A SENDME message: the window is refilled and the RTT sample taken.
TakeSendme(r, from, to, load, now) ==
    IF Circuits(r, from, to) = {} THEN r
    ELSE LET i == First(Circuits(r, from, to))
             flow == VegasUpdate(OnSendme(r.slots[i].flow), load)
         IN [r EXCEPT !.slots[i] = [@ EXCEPT !.activity = now, !.flow = flow]]

\* Faulty variant of Closed: the circuits are still counted.
ClosedKeepsCount(r, S) ==
    [r EXCEPT !.slots = [i \in Slot |-> IF i \in S THEN Free ELSE r.slots[i]]]

\* Slots S are closed.
Closed(r, S) ==
    [r EXCEPT !.slots = [i \in Slot |-> IF i \in S THEN Free ELSE r.slots[i]],
              !.count = Minus(@, Cardinality(S))]

\* trellis_relay_close_circuits_for_peer
ClosePeer(r, peer) == Closed(r, {i \in Active(r) : peer \in {r.slots[i].from, r.slots[i].to}})

\* Faulty variant of Stale: only the age counts.
StaleByAge(r, now) == {i \in Active(r) : now - r.slots[i].created > MaxAge}

Stale(r, now) ==
    {i \in Active(r) : \/ now - r.slots[i].created > MaxAge
                       \/ /\ r.slots[i].activity > 0
                          /\ now - r.slots[i].activity > MaxIdle}

Swept(r, now) == Closed(r, Stale(r, now))

-----------------------------------------------------------------------------
(* Session circuits. *)

CreateSession(r, peer, id, now) ==
    LET c == CheckedRate(r, peer, now)
        free == Slot \ Active(r)
    IN IF \/ ~Admits(r, peer, now)
          \/ Sessions(r, peer, id) # {}
          \/ c.count >= MaxCapacity
          \/ free = {}
       THEN c
       ELSE [c EXCEPT !.slots[First(free)] = SessionCircuit(peer, id, now),
                      !.count = @ + 1]

\* CREATED_SESSION is sent.
CreatesSession(r, peer, id, now) ==
    /\ Admits(r, peer, now)
    /\ \/ Sessions(r, peer, id) # {}
       \/ r.count < MaxCapacity /\ Active(r) # Slot

\* Faulty variant of AcceptsData: no check of the counter in the nonce.
AcceptsAnyData(r, peer, id, nonce) == Sessions(r, peer, id) # {}

AcceptsData(r, peer, id, nonce) ==
    /\ Sessions(r, peer, id) # {}
    /\ nonce >= r.slots[First(Sessions(r, peer, id))].nonce

SessionData(r, peer, id, nonce, now) ==
    IF ~AcceptsData(r, peer, id, nonce) THEN r
    ELSE [r EXCEPT !.slots[First(Sessions(r, peer, id))] =
             [@ EXCEPT !.nonce = nonce + 1, !.activity = now]]
=============================================================================
