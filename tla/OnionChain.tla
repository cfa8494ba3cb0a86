----------------------------- MODULE OnionChain -----------------------------
(***************************************************************************)
(* Streams over a chain of relays: an origin, Hops relays and an exit, all *)
(* of them clients (handle_onion, circuit_data_write_cb and the SENDME and *)
(* CIRCUIT_DATA cases of dispatch_message in src/src/sdk/client.c, over    *)
(* the relay of src/src/mesh/relay.c and the circuit table of              *)
(* src/src/mesh/flow.c).                                                   *)
(*                                                                         *)
(* Nodes are numbered along the chain, the origin 0 and the exit Hops + 1. *)
(* Every packet of a stream is an onion of its own with fresh layer keys.  *)
(* Neighbours are connected by ordered reliable transports; no packet      *)
(* repeats, so onion_replay has nothing to drop.                           *)
(***************************************************************************)
EXTENDS RelayNode, Functions

CONSTANTS
    Hops,        \* relays of the chain
    Streams,     \* stream ids of the origin
    TableMax,    \* CIRCUIT_TABLE_MAX (512)
    HopLimit,    \* CIRCUIT_MAX_HOPS (8)
    MaxPackets,  \* bound: onions of the origin
    MaxReturn,   \* bound: writes of the exit to a stream
    MaxTime      \* bound: the clock

ASSUME ChainAssumption ==
    /\ {Hops, MaxPackets, MaxReturn} \subseteq Nat
    /\ {TableMax, HopLimit, MaxTime} \subseteq Nat \ {0}
    /\ Peers = 0..(Hops + 1)

RelayId == 1..Hops
Exit == Hops + 1

VARIABLES
    relay,      \* the relay record of each relay
    table,      \* circuit_table of each relay and of the exit
    fwd,        \* onions in flight to each node from its predecessor
    back,       \* messages in flight from each node to its predecessor
    packets,    \* onions the origin made, by stream
    written,    \* writes of the exit, by stream
    received,   \* return data the origin's stream callback got
    tooDeep,    \* streams of which a packet was dropped as too deep
    forwarded,  \* cells each relay passed on
    sendmes,    \* SENDMEs each relay sent
    now

vars == <<relay, table, fwd, back, packets, written, received, tooDeep,
          forwarded, sendmes, now>>

\* The key of relay i's layer in packet k of stream s.
LayerKey(s, k, i) == <<s, k, i>>
Onion(s, k) == [sid |-> s, seq |-> k]
CircuitData(s, n, layers) ==
    [type |-> "CIRCUIT_DATA", sid |-> s, n |-> n, layers |-> layers]
Sendme(from, to) == [type |-> "SENDME", from |-> from, to |-> to]

Unused == [active |-> FALSE, hops |-> 0]

Init ==
    /\ relay = [i \in RelayId |-> NewRelay]
    /\ table = [i \in 1..Exit |-> [j \in 1..TableMax |-> Unused]]
    /\ fwd = [i \in 1..Exit |-> <<>>]
    /\ back = [i \in 1..Exit |-> <<>>]
    /\ packets = [s \in Streams |-> 0]
    /\ written = [s \in Streams |-> 0]
    /\ received = [s \in Streams |-> <<>>]
    /\ tooDeep = {}
    /\ forwarded = [i \in RelayId |-> 0]
    /\ sendmes = [i \in RelayId |-> 0]
    /\ now = 1

-----------------------------------------------------------------------------
(* The circuit table.  An entry names the previous hop, here always the    *)
(* predecessor in the chain.                                               *)

Entries(t, s) == {j \in 1..TableMax : t[j].active /\ t[j].sid = s}
Lookup(t, s) == t[First(Entries(t, s))]

Oldest(t) ==
    CHOOSE j \in 1..TableMax :
        \A k \in 1..TableMax :
            t[j].created < t[k].created \/ (t[j].created = t[k].created /\ j <= k)

InsertAt(t) ==
    IF \E j \in 1..TableMax : ~t[j].active
    THEN First({j \in 1..TableMax : ~t[j].active}) ELSE Oldest(t)

\* Faulty variant of Insert: the slot's layer key is not replaced.
InsertKeepsKey(t, s, key) ==
    [t EXCEPT ![InsertAt(t)] =
        [active |-> TRUE, sid |-> s, created |-> now, hops |-> @.hops,
         key |-> IF @.active THEN @.key ELSE key]]

\* A reused slot keeps its hop_count.
Insert(t, s, key) ==
    [t EXCEPT ![InsertAt(t)] =
        [active |-> TRUE, sid |-> s, key |-> key, created |-> now, hops |-> @.hops]]

Expired(t) ==
    [j \in 1..TableMax |->
        IF t[j].active /\ now - t[j].created > MaxAge
        THEN [active |-> FALSE, hops |-> t[j].hops] ELSE t[j]]

\* handle_onion's record of the reverse path: insert, then count the hop on the
\* entry a lookup finds.
Recorded(t, s, key) ==
    LET u == Insert(t, s, key)
        hops == IF Entries(t, s) = {} THEN 1 ELSE Lookup(t, s).hops + 1
    IN [u EXCEPT ![First(Entries(u, s))].hops = hops]

\* Faulty variant of TooDeep: one packet too many.
TooDeepLate(t, s) == Entries(t, s) # {} /\ Lookup(t, s).hops > HopLimit

TooDeep(t, s) == Entries(t, s) # {} /\ Lookup(t, s).hops >= HopLimit

-----------------------------------------------------------------------------
(* Towards the exit. *)

SendPacket(s) ==
    /\ FoldFunction(+, 0, packets) < MaxPackets
    /\ packets' = [packets EXCEPT ![s] = @ + 1]
    /\ fwd' = [fwd EXCEPT ![1] = Append(@, Onion(s, packets[s] + 1))]
    /\ UNCHANGED <<relay, table, back, written, received, tooDeep, forwarded,
                   sendmes, now>>

\* The relay drops an onion of a stream that is already at its limit.
DropTooDeep(i) ==
    /\ fwd[i] # <<>> /\ TooDeep(table[i], Head(fwd[i]).sid)
    /\ fwd' = [fwd EXCEPT ![i] = Tail(@)]
    /\ tooDeep' = tooDeep \union {Head(fwd[i]).sid}
    /\ UNCHANGED <<relay, table, back, packets, written, received, forwarded,
                   sendmes, now>>

\* Otherwise it records the reverse path, makes sure of a circuit and either
\* passes the inner onion on, with a SENDME to its predecessor when one is
\* owed, or drops it because the circuit's window is exhausted.
PeelAndForward(i) ==
    LET m == Head(fwd[i])
        c == CreateCircuit(relay[i], i - 1, i + 1, now)
        f == Forward(c, i - 1, i + 1, 1, now)
    IN /\ fwd[i] # <<>> /\ ~TooDeep(table[i], m.sid)
       /\ table' = [table EXCEPT ![i] = Recorded(@, m.sid, LayerKey(m.sid, m.seq, i))]
       /\ IF Blocked(c, i - 1, i + 1)
          THEN /\ relay' = [relay EXCEPT ![i] = c]
               /\ fwd' = [fwd EXCEPT ![i] = Tail(@)]
               /\ UNCHANGED <<back, forwarded, sendmes>>
          ELSE /\ relay' = [relay EXCEPT ![i] = SendmeTaken(f, i - 1, i + 1)]
               /\ fwd' = [fwd EXCEPT ![i] = Tail(@), ![i + 1] = Append(@, m)]
               /\ forwarded' = [forwarded EXCEPT ![i] = @ + 1]
               /\ IF NeedsSendme(f, i - 1, i + 1)
                  THEN /\ back' = [back EXCEPT ![i] = Append(@, Sendme(i - 1, i + 1))]
                       /\ sendmes' = [sendmes EXCEPT ![i] = @ + 1]
                  ELSE UNCHANGED <<back, sendmes>>
       /\ UNCHANGED <<packets, written, received, tooDeep, now>>

\* The exit records the reverse path and hands the data to its exit relay.
ExitPeel ==
    LET m == Head(fwd[Exit])
    IN /\ fwd[Exit] # <<>>
       /\ fwd' = [fwd EXCEPT ![Exit] = Tail(@)]
       /\ table' = [table EXCEPT ![Exit] =
                       Insert(@, m.sid, LayerKey(m.sid, m.seq, Exit))]
       /\ UNCHANGED <<relay, back, packets, written, received, tooDeep,
                      forwarded, sendmes, now>>

-----------------------------------------------------------------------------
(* Back to the origin. *)

\* The exit relay has data from the outside for a stream it serves.
ExitWrite(s) ==
    /\ written[s] < MaxReturn
    /\ Entries(table[Exit], s) # {}
    /\ written' = [written EXCEPT ![s] = @ + 1]
    /\ back' = [back EXCEPT ![Exit] = Append(@, CircuitData(s, written[s] + 1, {}))]
    /\ UNCHANGED <<relay, table, fwd, packets, received, tooDeep, forwarded,
                   sendmes, now>>

\* XOR with the keystream of a layer key: applied twice it cancels.
Xor(layers, key) == IF key \in layers THEN layers \ {key} ELSE layers \union {key}

\* Relay i has an entry: it adds its layer and passes the data back.  Without
\* one it takes itself for the origin, and its application gets the data.
ReturnData(i) ==
    LET m == Head(back[i + 1])
        known == Entries(table[i], m.sid) # {}
    IN /\ back[i + 1] # <<>> /\ m.type = "CIRCUIT_DATA"
       /\ back' = IF known
                  THEN [back EXCEPT ![i + 1] = Tail(@),
                           ![i] = Append(@, [m EXCEPT !.layers =
                                                Xor(@, Lookup(table[i], m.sid).key)])]
                  ELSE [back EXCEPT ![i + 1] = Tail(@)]
       /\ UNCHANGED <<relay, table, fwd, packets, written, received, tooDeep,
                      forwarded, sendmes, now>>

\* The SENDME of relay i + 1 reaches relay i.
ReturnSendme(i) ==
    LET m == Head(back[i + 1])
    IN /\ back[i + 1] # <<>> /\ m.type = "SENDME"
       /\ back' = [back EXCEPT ![i + 1] = Tail(@)]
       /\ \E load \in {"room", "steady", "queueing"} :
              relay' = [relay EXCEPT ![i] = TakeSendme(@, m.from, m.to, load, now)]
       /\ UNCHANGED <<table, fwd, packets, written, received, tooDeep, forwarded,
                      sendmes, now>>

\* The origin has no entry and no circuit: a SENDME means nothing to it, and
\* the data goes to the stream's callback as it came.
OriginRecv ==
    LET m == Head(back[1])
    IN /\ back[1] # <<>>
       /\ back' = [back EXCEPT ![1] = Tail(@)]
       /\ received' = IF m.type = "CIRCUIT_DATA"
                      THEN [received EXCEPT ![m.sid] =
                               Append(@, [n |-> m.n, layers |-> m.layers])]
                      ELSE received
       /\ UNCHANGED <<relay, table, fwd, packets, written, tooDeep, forwarded,
                      sendmes, now>>

-----------------------------------------------------------------------------
\* The lifecycle timer of each relay; its phase is arbitrary.
Lifecycle(i) ==
    /\ relay' = [relay EXCEPT ![i] = Swept(@, now)]
    /\ table' = [table EXCEPT ![i] = Expired(@)]
    /\ UNCHANGED <<fwd, back, packets, written, received, tooDeep, forwarded,
                   sendmes, now>>

Tick ==
    /\ now < MaxTime
    /\ now' = now + 1
    /\ UNCHANGED <<relay, table, fwd, back, packets, written, received, tooDeep,
                   forwarded, sendmes>>

Next ==
    \/ \E s \in Streams : SendPacket(s)
    \/ \E i \in RelayId : DropTooDeep(i)
    \/ \E i \in RelayId : PeelAndForward(i)
    \/ ExitPeel
    \/ \E s \in Streams : ExitWrite(s)
    \/ \E i \in RelayId : ReturnData(i)
    \/ \E i \in RelayId : ReturnSendme(i)
    \/ OriginRecv
    \/ \E i \in RelayId : Lifecycle(i)
    \/ Tick

Spec == Init /\ [][Next]_vars

-----------------------------------------------------------------------------
(* Properties. *)

\* The state is one the structures can hold.
TypeOK ==
    /\ \A i \in 1..Exit, j \in 1..TableMax :
           /\ table[i][j].hops \in 0..HopLimit
           /\ table[i][j].active => table[i][j].sid \in Streams
    /\ \A i \in RelayId, j \in Slot :
           relay[i].slots[j] # Free => relay[i].slots[j].flow \in Flow
    /\ \A s \in Streams : packets[s] \in Nat /\ written[s] \in 0..MaxReturn
    /\ now \in 1..MaxTime

\* Return data reaches the origin under exactly one layer per relay, each of a
\* key the origin made for that very stream: with the keys of its own packets
\* it could open it, whatever the tables have evicted and expired meanwhile.
OneLayerPerRelay ==
    \A s \in Streams : \A d \in DOMAIN received[s] :
        LET layers == received[s][d].layers
        IN /\ Cardinality(layers) = Hops
           /\ \A i \in RelayId : \E k \in 1..packets[s] : LayerKey(s, k, i) \in layers

\* A relay sends one SENDME for Increment cells, never more.
SendmesEarned ==
    \A i \in RelayId : sendmes[i] * Increment <= forwarded[i]

\* internal.h:582 "absolute maximum circuit extension depth": a circuit that is
\* no longer than the limit is not dropped for being too deep.
DepthAloneIsLimited ==
    Hops < HopLimit => tooDeep = {}

\* client.c:1171 "so the exit relay can send data back": the callback gets the
\* bytes the exit wrote.
ReturnReadable ==
    \A s \in Streams : \A d \in DOMAIN received[s] : received[s][d].layers = {}
=============================================================================
