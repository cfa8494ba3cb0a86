---------------------------- MODULE OnionProofs ----------------------------
(***************************************************************************)
(* Proofs about OnionChain, for any number of relays, streams and table    *)
(* entries, any limits and any window.  The invariant says of each relay   *)
(* what its own state promises (its circuits, its table) and of each link  *)
(* what is on it (the onions towards the exit, the messages towards the    *)
(* origin); a step disturbs one relay or the ends of a link.               *)
(***************************************************************************)
EXTENDS OnionChain, OrderLemmas, SequenceTheorems

-----------------------------------------------------------------------------
(* Vocabulary of the invariant. *)

\* A relay's record, whatever is in its fields.
Shape(r) ==
    /\ r = [slots |-> r.slots, count |-> r.count, rates |-> r.rates,
            started |-> r.started, admitted |-> r.admitted]
    /\ DOMAIN r.slots = Slot

\* A circuit between two neighbours that owes no SENDME.
CircuitFor(p, q) ==
    [kind : {"onion"}, from : {p}, to : {q}, created : Nat, activity : Nat,
     flow : {f \in Flow : ~f.owed}]

\* The relay between p and q has at most one circuit, which is between them, and
\* it counted no more cells than were passed on and not yet acknowledged.
RelayOK(r, p, q, cells, acks) ==
    /\ Shape(r)
    /\ acks * Increment <= cells
    /\ \A j \in Active(r) :
           /\ r.slots[j] \in CircuitFor(p, q)
           /\ acks * Increment + r.slots[j].flow.deliver <= cells
    /\ \A j, k \in Active(r) : j = k

\* The keys of relay i's layers in the first n packets of a stream.
Keys(s, i, n) == {LayerKey(s, k, i) : k \in 1..n}

\* A table entry of node i: its key is one the origin made for the stream.
Vacant == [active : {FALSE}, hops : 0..HopLimit]
InUse(i, made) ==
    {e \in [active : {TRUE}, sid : Streams, key : Streams \X Nat \X Nat, created : Nat,
            hops : 0..HopLimit] : e.key \in Keys(e.sid, i, made[e.sid])}
TableOK(t, i, made) ==
    /\ DOMAIN t = 1..TableMax
    /\ \A j \in 1..TableMax : t[j] \in Vacant \union InUse(i, made)

\* Layers of relays i to Hops, one each.
Layered(layers, s, i, n) ==
    \E f \in [i..Hops -> 1..n] : layers = {LayerKey(s, f[j], j) : j \in i..Hops}

\* What is on a link: onions the origin made; SENDMEs, and data that every relay
\* from i on has put its layer on.
Cell(made) == {m \in [sid : Streams, seq : Nat \ {0}] : m.seq <= made[m.sid]}
Data(i, made) ==
    {m \in [type : {"CIRCUIT_DATA"}, sid : Streams, n : Nat, layers : SUBSET (Streams \X Nat \X Nat)] :
         Layered(m.layers, m.sid, i, made[m.sid])}
Ack == [type : {"SENDME"}, from : Nat, to : Nat]
Got(s, made) ==
    {d \in [n : Nat, layers : SUBSET (Streams \X Nat \X Nat)] : Layered(d.layers, s, 1, made[s])}

Counters ==
    /\ packets \in [Streams -> Nat] /\ written \in [Streams -> 0..MaxReturn]
    /\ forwarded \in [RelayId -> Nat] /\ sendmes \in [RelayId -> Nat]
    /\ now \in 1..MaxTime

RelaysOK ==
    /\ DOMAIN relay = RelayId
    /\ \A i \in RelayId : RelayOK(relay[i], i - 1, i + 1, forwarded[i], sendmes[i])
TablesOK == DOMAIN table = 1..Exit /\ \A i \in 1..Exit : TableOK(table[i], i, packets)
FwdOK == DOMAIN fwd = 1..Exit /\ \A i \in 1..Exit : fwd[i] \in Seq(Cell(packets))
BackOK == DOMAIN back = 1..Exit /\ \A i \in 1..Exit : back[i] \in Seq(Data(i, packets) \union Ack)
ReceivedOK == DOMAIN received = Streams /\ \A s \in Streams : received[s] \in Seq(Got(s, packets))

Inv == Counters /\ RelaysOK /\ TablesOK /\ FwdOK /\ BackOK /\ ReceivedOK

-----------------------------------------------------------------------------
(* Numbers. *)

\* The first match of a lookup that finds one is a match.
LEMMA FirstIn == ASSUME NEW S, S \subseteq Nat, S # {} PROVE First(S) \in S
BY LeastNatural DEF First

\* The numbers of the chain.
LEMMA ChainNumbers ==
    /\ Hops \in Nat /\ Exit \in Nat /\ Exit = Hops + 1 /\ TableMax \in Nat \ {0}
    /\ HopLimit \in Nat \ {0} /\ MaxReturn \in Nat /\ MaxTime \in Nat \ {0}
    /\ RelayId = 1..Hops /\ Increment \in Nat \ {0} /\ MaxCircuits \in Nat \ {0}
    /\ Slot \subseteq Nat /\ Slot = 1..MaxCircuits
BY ChainAssumption, FlowAssumption, RelayAssumption, SMTT(60)
   DEF ChainAssumption, FlowAssumption, RelayAssumption, RelayId, Exit, Slot

\* Increment more for one SENDME more.
LEMMA Earning ==
    ASSUME NEW a \in Nat
    PROVE  a * Increment \in Nat /\ (a + 1) * Increment = a * Increment + Increment
BY ChainNumbers

-----------------------------------------------------------------------------
(* The circuit of a relay. *)

\* A cell that leaves a flow owing nothing is counted, and takes Increment off when that
\* many are there.
LEMMA CellCounted ==
    ASSUME NEW f \in Flow, ~f.owed
    PROVE  LET g == OnRecv(OnSend(f, 1), 1)
           IN  /\ g \in Flow
               /\ g.owed => g.deliver + Increment = f.deliver + 1
               /\ ~g.owed => g.deliver = f.deliver + 1
<1> DEFINE h == OnSend(f, 1)
           g == OnRecv(h, 1)
<1>1. {Increment, CwndMin, CwndMax} \subseteq Nat
  BY FlowAssumption DEF FlowAssumption
<1>2. f.window \in 0..CwndMax /\ f.inflight \in Nat /\ f.deliver \in Nat /\ f.cwnd \in CwndMin..CwndMax
  BY DEF Flow
<1>3. h \in Flow /\ h.deliver = f.deliver /\ h.owed = FALSE
  <2>1. Minus(f.window, 1) \in 0..CwndMax /\ f.inflight + 1 \in Nat
    BY <1>1, <1>2 DEF Minus
  <2> QED
    BY <2>1 DEF OnSend, Flow
<1> HIDE DEF h
<1>4. CASE h.deliver + 1 >= Increment
  <2>1. h.deliver + 1 - Increment \in Nat
    BY <1>1, <1>2, <1>3, <1>4
  <2>2. g = [h EXCEPT !.deliver = @ + 1 - Increment, !.owed = TRUE]
    BY <1>4 DEF OnRecv
  <2>3. g \in Flow /\ g.owed = TRUE /\ g.deliver = h.deliver + 1 - Increment
    BY <1>3, <2>1, <2>2 DEF Flow
  <2> QED
    BY <1>1, <1>2, <1>3, <2>3 DEF h
<1>5. CASE ~(h.deliver + 1 >= Increment)
  <2>1. g = [h EXCEPT !.deliver = @ + 1]
    BY <1>5 DEF OnRecv
  <2>2. h.deliver + 1 \in Nat
    BY <1>2, <1>3
  <2>3. g \in Flow /\ g.owed = FALSE /\ g.deliver = h.deliver + 1
    BY <1>3, <2>1, <2>2 DEF Flow
  <2> QED
    BY <1>2, <1>3, <2>3 DEF h
<1> QED
  BY <1>4, <1>5

\* A SENDME changes neither what is counted nor what is owed.
LEMMA SendmeCounted ==
    ASSUME NEW f \in Flow, NEW load
    PROVE  LET g == VegasUpdate(OnSendme(f), load)
           IN  g \in Flow /\ g.owed = f.owed /\ g.deliver = f.deliver
<1> DEFINE h == OnSendme(f)
           g == VegasUpdate(h, load)
<1>1. {Increment, CwndMin, CwndMax} \subseteq Nat
  BY FlowAssumption DEF FlowAssumption
<1>2. f.window \in 0..CwndMax /\ f.inflight \in Nat /\ f.cwnd \in CwndMin..CwndMax
  BY DEF Flow
<1>3. h \in Flow /\ h.owed = f.owed /\ h.deliver = f.deliver
  <2>1. Minus(f.inflight, Increment) \in Nat
    BY <1>1, <1>2 DEF Minus
  <2>2. (IF f.window + Increment > f.cwnd THEN f.cwnd ELSE f.window + Increment) \in 0..CwndMax
    BY <1>1, <1>2
  <2> QED
    BY <2>1, <2>2 DEF OnSendme, Flow
<1> HIDE DEF h
<1>4. PICK w : g = [h EXCEPT !.cwnd = w] /\ w \in CwndMin..CwndMax
  <2> DEFINE w == CASE load = "room" /\ h.cwnd < CwndMax -> h.cwnd + 1
                    [] load = "queueing" /\ h.cwnd > CwndMin -> h.cwnd - 1
                    [] OTHER -> h.cwnd
  <2>1. g = [h EXCEPT !.cwnd = w]
    BY DEF VegasUpdate
  <2>2. h.cwnd \in CwndMin..CwndMax
    BY <1>3 DEF Flow
  <2>3. w \in CwndMin..CwndMax
    BY <1>1, <2>2
  <2> QED
    BY <2>1, <2>3
<1> HIDE DEF g
<1> QED
  BY <1>3, <1>4 DEF Flow, g, h

\* Counting a circuit against the rates leaves the slots alone.
LEMMA RateKeepsSlots ==
    ASSUME NEW r, Shape(r), NEW p, NEW t
    PROVE  Shape(CheckedRate(r, p, t)) /\ CheckedRate(r, p, t).slots = r.slots
<1> DEFINE g == GlobalRolled(r, t)
           rates == Claimed(r.rates, p, t)
           c == CheckedRate(r, p, t)
<1>1. Shape(g) /\ g.slots = r.slots
  BY DEF GlobalRolled, Shape
<1>2. \/ c = g
      \/ c = [g EXCEPT !.rates = rates]
      \/ c = [g EXCEPT !.rates = [rates EXCEPT ![First(RateOf(rates, p))].count = @ + 1],
                       !.admitted = @ + 1]
  BY DEF CheckedRate
<1> HIDE DEF g, rates, c
<1>3. Shape(c) /\ c.slots = g.slots
  BY <1>1, <1>2 DEF Shape
<1> QED
  BY <1>1, <1>3 DEF c

\* A circuit that is put into a slot of a relay without another one, or in the place of
\* the one it has, makes a relay with one circuit.
LEMMA OnlyCircuit ==
    ASSUME NEW r, Shape(r), NEW p, NEW q, NEW i \in Slot, Active(r) \subseteq {i},
           NEW v \in CircuitFor(p, q), NEW w, Shape(w),
           w.slots = [r.slots EXCEPT ![i] = v],
           NEW n \in Nat, NEW a \in Nat, a * Increment + v.flow.deliver <= n
    PROVE  RelayOK(w, p, q, n, a)
<1>1. v.flow.deliver \in Nat /\ a * Increment \in Nat
  BY Earning DEF CircuitFor, Flow
<1>2. a * Increment <= n
  BY <1>1
<1>3. Active(w) \subseteq {i} /\ w.slots[i] = v
  BY DEF Active, Shape
<1> QED
  BY <1>2, <1>3 DEF RelayOK

\* A new circuit has counted nothing.
LEMMA NewCircuit ==
    ASSUME NEW p, NEW q, NEW t \in Nat
    PROVE  OnionCircuit(p, q, t) \in CircuitFor(p, q) /\ OnionCircuit(p, q, t).flow.deliver = 0
<1>1. NewFlow \in Flow /\ ~NewFlow.owed /\ NewFlow.deliver = 0
  BY FlowAssumption DEF FlowAssumption, NewFlow, Flow
<1> QED
  BY <1>1 DEF OnionCircuit, CircuitFor

\* What the lookup of the circuit between p and q finds: the relay's only one, if any.
LEMMA CircuitsAre ==
    ASSUME NEW r, NEW p, NEW q, NEW n, NEW a, RelayOK(r, p, q, n, a)
    PROVE  /\ Circuits(r, p, q) = Active(r)
           /\ Active(r) # {} => /\ First(Circuits(r, p, q)) \in Slot
                                /\ Active(r) = {First(Circuits(r, p, q))}
<1>1. Circuits(r, p, q) = Active(r)
  BY DEF RelayOK, Circuits, CircuitFor
<1>2. Active(r) \subseteq Slot /\ Slot \subseteq Nat
  BY ChainNumbers DEF Active
<1>3. ASSUME Active(r) # {} PROVE First(Active(r)) \in Active(r)
  BY <1>2, <1>3, FirstIn
<1> QED
  BY <1>1, <1>2, <1>3 DEF RelayOK

\* Making sure of a circuit keeps what the relay promises.
LEMMA CreateKeeps ==
    ASSUME NEW r, NEW p, NEW q, NEW n \in Nat, NEW a \in Nat, RelayOK(r, p, q, n, a),
           NEW t \in Nat
    PROVE  RelayOK(CreateCircuit(r, p, q, t), p, q, n, a)
<1> DEFINE c == CheckedRate(r, p, t)
           free == Slot \ Active(r)
           d == CreateCircuit(r, p, q, t)
           v == OnionCircuit(p, q, t)
<1>1. Shape(r) /\ Shape(c) /\ c.slots = r.slots
  BY RateKeepsSlots DEF RelayOK
<1>2. RelayOK(c, p, q, n, a)
  BY <1>1 DEF RelayOK, Active
<1>3. Circuits(r, p, q) = Active(r)
  BY CircuitsAre
<1>4. Slot # {}
  <2>1. 1 \in Slot
    BY ChainNumbers
  <2> QED
    BY <2>1
<1>5. CASE Circuits(r, p, q) = {} /\ d = [c EXCEPT !.slots[First(free)] = v, !.count = @ + 1]
  <2> DEFINE i == First(free)
  <2>1. i \in Slot
    <3>1. free \subseteq Nat /\ free # {}
      BY <1>3, <1>4, <1>5, ChainNumbers
    <3> QED
      BY <3>1, FirstIn
  <2> HIDE DEF i, v, c, d, free
  <2>2. Shape(d) /\ d.slots = [r.slots EXCEPT ![i] = v]
    BY <1>1, <1>5 DEF Shape, i
  <2>3. v \in CircuitFor(p, q) /\ v.flow.deliver = 0
    BY NewCircuit DEF v
  <2>4. a * Increment + v.flow.deliver <= n
    BY <2>3, Earning DEF RelayOK
  <2>5. Active(r) \subseteq {i}
    BY <1>3, <1>5
  <2>6. RelayOK(d, p, q, n, a)
    BY <1>1, <2>1, <2>2, <2>3, <2>4, <2>5, OnlyCircuit
  <2> QED
    BY <2>6 DEF d
<1>6. CASE d = c
  BY <1>2, <1>6
<1>7. Circuits(r, p, q) = {} => free # {}
  BY <1>3, <1>4
<1> QED
  BY <1>5, <1>6, <1>7, Zenon DEF CreateCircuit

\* Passing a cell on, or dropping it for a closed window, and answering with a SENDME when
\* one is owed, keeps what the relay promises: one SENDME more is one Increment less in hand.
LEMMA ForwardKeeps ==
    ASSUME NEW r, NEW p, NEW q, NEW n \in Nat, NEW a \in Nat, RelayOK(r, p, q, n, a),
           NEW t \in Nat, ~Blocked(r, p, q)
    PROVE  LET f == Forward(r, p, q, 1, t)
               g == SendmeTaken(f, p, q)
           IN  /\ NeedsSendme(f, p, q) => RelayOK(g, p, q, n + 1, a + 1)
               /\ ~NeedsSendme(f, p, q) => RelayOK(g, p, q, n + 1, a)
<1> DEFINE f == Forward(r, p, q, 1, t)
           g == SendmeTaken(f, p, q)
<1>1. CASE Active(r) = {}
  <2>1. Circuits(r, p, q) = {}
    BY <1>1, CircuitsAre
  <2>2. f = r /\ ~NeedsSendme(f, p, q) /\ g = r
    BY <2>1 DEF Forward, NeedsSendme, SendmeTaken
  <2>3. RelayOK(r, p, q, n + 1, a)
    BY <1>1, Earning DEF RelayOK
  <2> QED
    BY <2>2, <2>3
<1>2. CASE Active(r) # {}
  <2> DEFINE i == First(Circuits(r, p, q))
             v == r.slots[i]
             h == OnRecv(OnSend(v.flow, 1), 1)
             k == [h EXCEPT !.owed = FALSE]
             w == [v EXCEPT !.activity = t, !.flow = h]
             x == [v EXCEPT !.activity = t, !.flow = k]
  <2>1. i \in Slot /\ Active(r) = {i} /\ Circuits(r, p, q) = {i}
    BY <1>2, CircuitsAre
  <2>2. v \in CircuitFor(p, q) /\ a * Increment + v.flow.deliver <= n /\ Shape(r)
    BY <2>1 DEF RelayOK
  <2>3. v.flow \in Flow /\ ~v.flow.owed /\ v.flow.deliver \in Nat
    BY <2>2 DEF CircuitFor, Flow
  <2>4. /\ h \in Flow
        /\ h.owed => h.deliver + Increment = v.flow.deliver + 1
        /\ ~h.owed => h.deliver = v.flow.deliver + 1
    BY <2>3, CellCounted
  <2>5. f = [r EXCEPT !.slots[i] = w]
    BY <2>1 DEF Forward
  <2> HIDE DEF f, i, h
  <2>6. k \in Flow /\ ~k.owed /\ k.deliver = h.deliver /\ h.deliver \in Nat /\ h.owed \in BOOLEAN
    BY <2>4 DEF Flow
  <2>7. /\ w.kind = "onion" /\ w.from = p /\ w.to = q /\ w.flow = h /\ w # Free
        /\ x \in CircuitFor(p, q) /\ x.flow = k
        /\ x = [w EXCEPT !.flow.owed = FALSE]
        /\ ~h.owed => w = x
    <3>1. w.kind = "onion" /\ w.from = p /\ w.to = q /\ w.flow = h
      BY <2>2 DEF CircuitFor
    <3>2. w # Free
      BY <2>2 DEF CircuitFor, Free
    <3> HIDE DEF k
    <3>3. x \in CircuitFor(p, q) /\ x.flow = k
      BY <2>2, <2>6 DEF CircuitFor
    <3>4. x = [w EXCEPT !.flow.owed = FALSE]
      BY <2>2 DEF CircuitFor, k
    <3>5. ~h.owed => k = h
      BY <2>4, <2>6 DEF Flow, k
    <3> QED
      BY <3>1, <3>2, <3>3, <3>4, <3>5
  <2> HIDE DEF v, k, w, x
  <2>8. Shape(f) /\ f.slots = [r.slots EXCEPT ![i] = w] /\ f.slots[i] = w
    BY <2>1, <2>2, <2>5 DEF Shape
  <2>9. Active(f) = {i} /\ Circuits(f, p, q) = {i}
    <3>1. Active(f) = {i}
      BY <2>1, <2>2, <2>7, <2>8 DEF Active, Shape
    <3> QED
      BY <2>7, <2>8, <3>1 DEF Circuits
  <2>10. First(Circuits(f, p, q)) = i
    <3>1. First({i}) \in {i}
      BY <2>1, ChainNumbers, FirstIn
    <3> QED
      BY <2>9, <3>1
  <2>11. NeedsSendme(f, p, q) <=> h.owed
    BY <2>7, <2>8, <2>9, <2>10 DEF NeedsSendme
  <2>12. g = IF h.owed THEN [f EXCEPT !.slots[i].flow.owed = FALSE] ELSE f
    BY <2>10, <2>11, Zenon DEF SendmeTaken
  <2> HIDE DEF g
  <2>13. Shape(g) /\ g.slots = [r.slots EXCEPT ![i] = x]
    <3>1. CASE h.owed
      <4>1. g.slots = [f.slots EXCEPT ![i] = [w EXCEPT !.flow.owed = FALSE]] /\ Shape(g)
        BY <2>1, <2>8, <2>12, <3>1 DEF Shape
      <4>2. [[r.slots EXCEPT ![i] = w] EXCEPT ![i] = x] = [r.slots EXCEPT ![i] = x]
        OBVIOUS
      <4> QED
        BY <2>7, <2>8, <4>1, <4>2
    <3>2. CASE ~h.owed
      BY <2>7, <2>8, <2>12, <3>2
    <3> QED
      BY <3>1, <3>2
  <2>14. CASE h.owed
    <3>1. (a + 1) * Increment + x.flow.deliver <= n + 1
      <4>1. /\ a * Increment \in Nat /\ (a + 1) * Increment = a * Increment + Increment
            /\ Increment \in Nat
        BY Earning, ChainNumbers
      <4> QED
        BY <2>2, <2>3, <2>4, <2>6, <2>7, <2>14, <4>1
    <3>2. RelayOK(g, p, q, n + 1, a + 1)
      <4>1. n + 1 \in Nat /\ a + 1 \in Nat /\ Active(r) \subseteq {i} /\ x \in CircuitFor(p, q)
        BY <2>1, <2>7
      <4> QED
        BY <2>1, <2>2, <2>13, <3>1, <4>1, OnlyCircuit
    <3> QED
      BY <2>11, <2>14, <3>2 DEF f, g
  <2>15. CASE ~h.owed
    <3>1. a * Increment + x.flow.deliver <= n + 1
      <4>1. a * Increment \in Nat
        BY Earning
      <4> QED
        BY <2>2, <2>3, <2>4, <2>6, <2>7, <2>15, <4>1
    <3>2. RelayOK(g, p, q, n + 1, a)
      <4>1. n + 1 \in Nat /\ Active(r) \subseteq {i} /\ x \in CircuitFor(p, q)
        BY <2>1, <2>7
      <4> QED
        BY <2>1, <2>2, <2>13, <3>1, <4>1, OnlyCircuit
    <3> QED
      BY <2>11, <2>15, <3>2 DEF f, g
  <2> QED
    BY <2>14, <2>15
<1> QED
  BY <1>1, <1>2

\* So does a SENDME for any pair of neighbours.
LEMMA SendmeKeeps ==
    ASSUME NEW r, NEW p, NEW q, NEW n \in Nat, NEW a \in Nat, RelayOK(r, p, q, n, a),
           NEW from, NEW to, NEW load, NEW t \in Nat
    PROVE  RelayOK(TakeSendme(r, from, to, load, t), p, q, n, a)
<1> DEFINE S == Circuits(r, from, to)
           i == First(S)
           v == r.slots[i]
           h == VegasUpdate(OnSendme(v.flow), load)
           w == [v EXCEPT !.activity = t, !.flow = h]
           g == TakeSendme(r, from, to, load, t)
<1>1. CASE S = {}
  BY <1>1 DEF TakeSendme
<1>2. CASE S # {}
  <2>1. i \in Slot /\ i \in Active(r)
    <3>1. S \subseteq Slot /\ S \subseteq Active(r) /\ Slot \subseteq Nat
      BY ChainNumbers DEF Circuits, Active
    <3> QED
      BY <1>2, <3>1, FirstIn
  <2>2. Active(r) \subseteq {i} /\ v \in CircuitFor(p, q) /\ a * Increment + v.flow.deliver <= n
    BY <2>1 DEF RelayOK
  <2>3. v.flow \in Flow /\ ~v.flow.owed
    BY <2>2 DEF CircuitFor
  <2>4. h \in Flow /\ ~h.owed /\ h.deliver = v.flow.deliver
    BY <2>3, SendmeCounted
  <2>5. g = [r EXCEPT !.slots[i] = w]
    BY <1>2 DEF TakeSendme
  <2> HIDE DEF g, i, h, S
  <2>6. w \in CircuitFor(p, q) /\ w.flow = h
    BY <2>2, <2>4 DEF CircuitFor
  <2> HIDE DEF w
  <2>7. Shape(r) /\ Shape(g) /\ g.slots = [r.slots EXCEPT ![i] = w]
    BY <2>1, <2>5 DEF Shape, RelayOK
  <2>8. a * Increment + w.flow.deliver <= n
    BY <2>2, <2>4, <2>6
  <2>9. RelayOK(g, p, q, n, a)
    BY <2>1, <2>2, <2>6, <2>7, <2>8, OnlyCircuit
  <2> QED
    BY <2>9 DEF g
<1> QED
  BY <1>1, <1>2

\* And closing circuits.
LEMMA SweepKeeps ==
    ASSUME NEW r, NEW p, NEW q, NEW n \in Nat, NEW a \in Nat, RelayOK(r, p, q, n, a), NEW t
    PROVE  RelayOK(Swept(r, t), p, q, n, a)
<1> DEFINE S == Stale(r, t)
           c == Closed(r, S)
           left == [i \in Slot |-> IF i \in S THEN Free ELSE r.slots[i]]
           count == Minus(r.count, Cardinality(S))
<1> HIDE DEF S
<1>1. Shape(c) /\ c.slots = left
  <2>1. Shape(r)
    BY DEF RelayOK
  <2>2. c = [r EXCEPT !.slots = left, !.count = Minus(@, Cardinality(S))]
    BY DEF Closed
  <2>3. c = [r EXCEPT !.slots = left, !.count = count]
    BY <2>1, <2>2 DEF Shape
  <2>4. DOMAIN left = Slot
    OBVIOUS
  <2> HIDE DEF c, left, count
  <2> QED
    BY <2>1, <2>3, <2>4 DEF Shape
<1> HIDE DEF c
<1>2. \A i \in Active(c) : i \in Active(r) /\ c.slots[i] = r.slots[i]
  BY <1>1 DEF Active
<1>3. RelayOK(c, p, q, n, a)
  BY <1>1, <1>2 DEF RelayOK
<1> QED
  BY <1>3 DEF Swept, c, S


-----------------------------------------------------------------------------
(* The circuit table, and what the origin made. *)

\* More packets only make more keys; what was in order stays in order.
LEMMA MadeGrows ==
    ASSUME NEW made \in [Streams -> Nat], NEW more \in [Streams -> Nat],
           \A s \in Streams : made[s] <= more[s]
    PROVE  /\ \A i \in Nat : InUse(i, made) \subseteq InUse(i, more)
           /\ Cell(made) \subseteq Cell(more)
           /\ \A i \in Nat : Data(i, made) \subseteq Data(i, more)
           /\ \A s \in Streams : Got(s, made) \subseteq Got(s, more)
<1>1. \A s \in Streams : 1..made[s] \subseteq 1..more[s]
  OBVIOUS
<1>2. \A s \in Streams, i \in Nat : Keys(s, i, made[s]) \subseteq Keys(s, i, more[s])
  BY <1>1 DEF Keys
<1>3. ASSUME NEW s \in Streams, NEW i, NEW layers, Layered(layers, s, i, made[s])
      PROVE  Layered(layers, s, i, more[s])
  <2>1. PICK f \in [i..Hops -> 1..made[s]] : layers = {LayerKey(s, f[j], j) : j \in i..Hops}
    BY <1>3 DEF Layered
  <2>2. f \in [i..Hops -> 1..more[s]]
    BY <1>1
  <2> QED
    BY <2>1, <2>2 DEF Layered
<1>4. \A i \in Nat : InUse(i, made) \subseteq InUse(i, more)
  BY <1>2 DEF InUse
<1>5. ASSUME NEW m \in Cell(made) PROVE m \in Cell(more)
  <2>1. m \in [sid : Streams, seq : Nat \ {0}] /\ m.seq <= made[m.sid]
    BY DEF Cell
  <2>2. m.sid \in Streams /\ m.seq \in Nat /\ made[m.sid] \in Nat /\ more[m.sid] \in Nat
        /\ made[m.sid] <= more[m.sid]
    BY <2>1
  <2>3. m.seq <= more[m.sid]
    BY <2>1, <2>2
  <2> QED
    BY <2>1, <2>3 DEF Cell
<1>6. \A i \in Nat : Data(i, made) \subseteq Data(i, more)
  BY <1>3 DEF Data
<1>7. \A s \in Streams : Got(s, made) \subseteq Got(s, more)
  BY <1>3 DEF Got
<1> QED
  BY <1>4, <1>5, <1>6, <1>7

\* The first entry a lookup of a stream finds is of that stream, and its key is of a
\* packet of the stream.
LEMMA LookupIs ==
    ASSUME NEW t, NEW i, NEW made, TableOK(t, i, made), NEW s \in Streams, Entries(t, s) # {}
    PROVE  /\ Lookup(t, s) \in InUse(i, made) /\ Lookup(t, s).sid = s
           /\ Lookup(t, s).hops \in 0..HopLimit
           /\ Lookup(t, s).key \in Keys(s, i, made[s])
<1>1. Entries(t, s) \subseteq Nat
  BY ChainNumbers DEF Entries
<1>2. First(Entries(t, s)) \in Entries(t, s)
  BY <1>1, FirstIn
<1>3. Lookup(t, s).active /\ Lookup(t, s).sid = s /\ Lookup(t, s) \in Vacant \union InUse(i, made)
  BY <1>2 DEF Entries, Lookup, TableOK
<1>4. Lookup(t, s) \in InUse(i, made)
  BY <1>3 DEF Vacant
<1> QED
  BY <1>3, <1>4 DEF InUse

\* A recorded packet puts an entry with its own key into the table, whatever the slot held.
LEMMA InsertKeeps ==
    ASSUME NEW t, NEW i, NEW made, TableOK(t, i, made), now \in Nat, NEW s \in Streams,
           NEW key \in Keys(s, i, made[s]), key \in Streams \X Nat \X Nat
    PROVE  TableOK(Insert(t, s, key), i, made)
<1> DEFINE x == InsertAt(t)
           u == Insert(t, s, key)
<1>1. \A j \in 1..TableMax : t[j].hops \in 0..HopLimit
  BY DEF TableOK, Vacant, InUse
<1>2. u = [t EXCEPT ![x] = [active |-> TRUE, sid |-> s, key |-> key, created |-> now, hops |-> @.hops]]
  BY DEF Insert
<1> HIDE DEF x, u
<1>3. DOMAIN u = 1..TableMax
  BY <1>2 DEF TableOK
<1>4. ASSUME NEW j \in 1..TableMax PROVE u[j] \in Vacant \union InUse(i, made)
  <2>1. CASE j = x
    <3>1. u[j] = [active |-> TRUE, sid |-> s, key |-> key, created |-> now, hops |-> t[j].hops]
      BY <1>2, <2>1 DEF TableOK
    <3>2. u[j] \in [active : {TRUE}, sid : Streams, key : Streams \X Nat \X Nat, created : Nat,
                    hops : 0..HopLimit]
      BY <1>1, <3>1
    <3>3. u[j].sid = s /\ u[j].key = key
      BY <3>1
    <3> QED
      BY <3>2, <3>3 DEF InUse
  <2>2. CASE j # x
    BY <1>2, <2>2 DEF TableOK
  <2> QED
    BY <2>1, <2>2
<1> QED
  BY <1>3, <1>4 DEF TableOK, u

\* Counting a hop keeps the table within the limit.
LEMMA RecordedKeeps ==
    ASSUME NEW t, NEW i, NEW made, TableOK(t, i, made), now \in Nat, NEW s \in Streams,
           NEW key \in Keys(s, i, made[s]), key \in Streams \X Nat \X Nat, ~TooDeep(t, s)
    PROVE  TableOK(Recorded(t, s, key), i, made)
<1> DEFINE u == Insert(t, s, key)
           hops == IF Entries(t, s) = {} THEN 1 ELSE Lookup(t, s).hops + 1
           x == First(Entries(u, s))
           w == Recorded(t, s, key)
<1>1. TableOK(u, i, made)
  BY InsertKeeps
<1>2. hops \in 0..HopLimit
  <2>1. CASE Entries(t, s) = {}
    BY <2>1, ChainNumbers
  <2>2. CASE Entries(t, s) # {}
    <3>1. Lookup(t, s).hops \in 0..HopLimit
      BY <2>2, LookupIs
    <3>2. ~(Lookup(t, s).hops >= HopLimit)
      BY <2>2 DEF TooDeep
    <3> QED
      BY <2>2, <3>1, <3>2, ChainNumbers
  <2> QED
    BY <2>1, <2>2
<1>3. w = [u EXCEPT ![x].hops = hops]
  BY DEF Recorded
<1> HIDE DEF u, hops, x, w
<1>4. DOMAIN w = 1..TableMax
  BY <1>1, <1>3 DEF TableOK
<1>5. ASSUME NEW j \in 1..TableMax PROVE w[j] \in Vacant \union InUse(i, made)
  <2>1. CASE j = x
    <3>1. u[j] \in Vacant \union InUse(i, made) /\ w[j] = [u[j] EXCEPT !.hops = hops]
      BY <1>1, <1>3, <2>1 DEF TableOK
    <3>2. CASE u[j] \in Vacant
      BY <1>2, <3>1, <3>2 DEF Vacant
    <3>3. CASE u[j] \in InUse(i, made)
      BY <1>2, <3>1, <3>3 DEF InUse
    <3> QED
      BY <3>1, <3>2, <3>3
  <2>2. CASE j # x
    BY <1>1, <1>3, <2>2 DEF TableOK
  <2> QED
    BY <2>1, <2>2
<1> QED
  BY <1>4, <1>5 DEF TableOK, w

\* Expiry only takes entries away.
LEMMA ExpiredKeeps ==
    ASSUME NEW t, NEW i, NEW made, TableOK(t, i, made) PROVE TableOK(Expired(t), i, made)
<1> DEFINE u == Expired(t)
<1>1. \A j \in 1..TableMax : t[j].hops \in 0..HopLimit
  BY DEF TableOK, Vacant, InUse
<1>2. \A j \in 1..TableMax : u[j] \in {[active |-> FALSE, hops |-> t[j].hops], t[j]}
  BY DEF Expired
<1>3. DOMAIN u = 1..TableMax
  BY DEF Expired
<1> HIDE DEF u
<1>4. \A j \in 1..TableMax : [active |-> FALSE, hops |-> t[j].hops] \in Vacant
  BY <1>1 DEF Vacant
<1>5. \A j \in 1..TableMax : u[j] \in Vacant \union InUse(i, made)
  BY <1>2, <1>4 DEF TableOK
<1> QED
  BY <1>3, <1>5 DEF TableOK, u

\* A relay's layer on data that carries those of the relays behind it.
LEMMA LayerAdded ==
    ASSUME NEW s, NEW i \in RelayId, NEW n \in Nat, NEW layers, Layered(layers, s, i + 1, n),
           NEW key \in Keys(s, i, n)
    PROVE  Layered(Xor(layers, key), s, i, n)
<1>1. PICK f \in [(i + 1)..Hops -> 1..n] : layers = {LayerKey(s, f[j], j) : j \in (i + 1)..Hops}
  BY DEF Layered
<1>2. PICK k \in 1..n : key = LayerKey(s, k, i)
  BY DEF Keys
<1>3. i \in Nat /\ i \in 1..Hops /\ Hops \in Nat
  BY ChainNumbers
<1> DEFINE g == [j \in i..Hops |-> IF j = i THEN k ELSE f[j]]
<1>4. \A j \in i..Hops : j # i => j \in (i + 1)..Hops
  BY <1>3
<1>5. \A j \in (i + 1)..Hops : j # i /\ j \in i..Hops
  BY <1>3
<1>6. g \in [i..Hops -> 1..n]
  BY <1>1, <1>2, <1>4
<1>7. key \notin layers
  BY <1>1, <1>2, <1>5 DEF LayerKey
<1>8. layers \union {key} = {LayerKey(s, g[j], j) : j \in i..Hops}
  <2>1. i \in i..Hops /\ g[i] = k
    BY <1>3
  <2>2. \A j \in (i + 1)..Hops : g[j] = f[j]
    BY <1>5
  <2>3. \A j \in i..Hops : j # i => g[j] = f[j]
    OBVIOUS
  <2> HIDE DEF g
  <2> QED
    BY <1>1, <1>2, <1>4, <1>5, <2>1, <2>2, <2>3
<1> QED
  BY <1>6, <1>7, <1>8 DEF Layered, Xor

\* Data under one layer of each relay is under as many as there are relays.
LEMMA LayersAre ==
    ASSUME NEW s, NEW n \in Nat, NEW layers, Layered(layers, s, 1, n)
    PROVE  /\ Cardinality(layers) = Hops
           /\ \A i \in RelayId : \E k \in 1..n : LayerKey(s, k, i) \in layers
<1>1. PICK f \in [1..Hops -> 1..n] : layers = {LayerKey(s, f[j], j) : j \in 1..Hops}
  BY DEF Layered
<1> DEFINE g == [j \in 1..Hops |-> LayerKey(s, f[j], j)]
<1>2. g \in Bijection(1..Hops, layers)
  <2>1. \A j, k \in 1..Hops : g[j] = g[k] => j = k
    BY DEF LayerKey
  <2>2. g \in [1..Hops -> layers]
    BY <1>1
  <2>3. \A x \in layers : \E j \in 1..Hops : g[j] = x
    BY <1>1
  <2> HIDE DEF g
  <2>4. g \in Injection(1..Hops, layers)
    BY <2>1, <2>2 DEF Injection, IsInjective
  <2>5. g \in Surjection(1..Hops, layers)
    BY <2>2, <2>3 DEF Surjection
  <2> QED
    BY <2>4, <2>5 DEF Bijection
<1>3. IsFiniteSet(1..Hops) /\ Cardinality(1..Hops) = Hops
  <2>1. Hops \in Int /\ 1 \in Int /\ (1 > Hops => Hops = 0) /\ Hops - 1 + 1 = Hops
    BY ChainNumbers
  <2> QED
    BY <2>1, FS_Interval
<1>4. ExistsBijection(1..Hops, layers)
  BY <1>2 DEF ExistsBijection
<1>5. Cardinality(layers) = Hops
  BY <1>3, <1>4, FS_Bijection
<1>6. \A i \in RelayId : f[i] \in 1..n /\ LayerKey(s, f[i], i) \in layers
  BY <1>1, ChainNumbers
<1> QED
  BY <1>5, <1>6


-----------------------------------------------------------------------------
(* The steps. *)

\* A sequence over a set is one over any larger set.
LEMMA SeqGrows == ASSUME NEW A, NEW B, A \subseteq B PROVE Seq(A) \subseteq Seq(B)
<1> SUFFICES ASSUME NEW q \in Seq(A) PROVE q \in Seq(B)
  OBVIOUS
<1>1. Len(q) \in Nat /\ q \in [1..Len(q) -> A]
  BY LenProperties
<1>2. q \in [1..Len(q) -> B]
  BY <1>1
<1> QED
  BY <1>1, <1>2

\* The ends of a queue.
LEMMA Ends ==
    ASSUME NEW A, NEW q \in Seq(A)
    PROVE  /\ q # <<>> => Head(q) \in A /\ Tail(q) \in Seq(A)
           /\ \A m \in A : Append(q, m) \in Seq(A)
OBVIOUS

\* All starts in order.
LEMMA Starts == Init => Inv
<1> SUFFICES ASSUME Init PROVE Inv
  OBVIOUS
<1> USE DEF Init
<1>1. Counters
  BY ChainNumbers DEF Counters
<1>2. RelaysOK
  <2> SUFFICES ASSUME NEW i \in RelayId PROVE RelayOK(NewRelay, i - 1, i + 1, 0, 0)
    BY DEF RelaysOK
  <2>1. Shape(NewRelay) /\ Active(NewRelay) = {}
    BY DEF Shape, NewRelay, Active
  <2>2. 0 * Increment <= 0
    BY ChainNumbers
  <2> QED
    BY <2>1, <2>2 DEF RelayOK
<1>3. TablesOK
  BY ChainNumbers DEF TablesOK, TableOK, Vacant, Unused
<1>4. FwdOK /\ BackOK
  BY DEF FwdOK, BackOK
<1>5. ReceivedOK
  BY DEF ReceivedOK
<1> QED
  BY <1>1, <1>2, <1>3, <1>4, <1>5 DEF Inv

\* A packet of the origin makes keys and an onion of its own.
LEMMA SendPacketKeeps == ASSUME Inv, NEW s \in Streams, SendPacket(s) PROVE Inv'
<1>1. /\ packets' \in [Streams -> Nat] /\ packets \in [Streams -> Nat]
      /\ \A x \in Streams : packets[x] <= packets'[x]
      /\ packets'[s] = packets[s] + 1
  <2>1. packets \in [Streams -> Nat] /\ packets' = [packets EXCEPT ![s] = @ + 1]
    BY DEF Inv, Counters, SendPacket
  <2>2. packets[s] \in Nat /\ packets[s] + 1 \in Nat /\ \A n \in Nat : n <= n /\ n <= n + 1
    BY <2>1
  <2> QED
    BY <2>1, <2>2
<1>10. /\ fwd' = [fwd EXCEPT ![1] = Append(@, Onion(s, packets[s] + 1))]
      /\ UNCHANGED <<relay, table, back, written, received, forwarded, sendmes, now>>
      /\ Counters /\ RelaysOK /\ TablesOK /\ FwdOK /\ BackOK /\ ReceivedOK
  BY DEF SendPacket, Inv
<1>2. /\ \A i \in Nat : InUse(i, packets) \subseteq InUse(i, packets')
      /\ Cell(packets) \subseteq Cell(packets')
      /\ \A i \in Nat : Data(i, packets) \subseteq Data(i, packets')
      /\ \A x \in Streams : Got(x, packets) \subseteq Got(x, packets')
  <2> DEFINE more == packets'
  <2>1. more \in [Streams -> Nat] /\ \A x \in Streams : packets[x] <= more[x]
    BY <1>1
  <2> HIDE DEF more
  <2>2. /\ \A i \in Nat : InUse(i, packets) \subseteq InUse(i, more)
        /\ Cell(packets) \subseteq Cell(more)
        /\ \A i \in Nat : Data(i, packets) \subseteq Data(i, more)
        /\ \A x \in Streams : Got(x, packets) \subseteq Got(x, more)
    BY <1>1, <2>1, MadeGrows
  <2> QED
    BY <2>2 DEF more
<1>3. \A i \in 1..Exit : i \in Nat
  BY ChainNumbers
<1>4. Counters'
  BY <1>10, <1>1 DEF Counters
<1>5. RelaysOK'
  BY <1>10 DEF RelaysOK
<1>6. TablesOK'
  <2> SUFFICES ASSUME NEW i \in 1..Exit PROVE TableOK(table[i], i, packets')
    BY <1>10 DEF TablesOK
  <2>1. InUse(i, packets) \subseteq InUse(i, packets') /\ TableOK(table[i], i, packets)
    BY <1>10, <1>2, <1>3 DEF TablesOK
  <2> QED
    BY <2>1 DEF TableOK
<1>7. FwdOK'
  <2>1. Seq(Cell(packets)) \subseteq Seq(Cell(packets'))
    BY <1>2, SeqGrows
  <2>2. Onion(s, packets[s] + 1) \in Cell(packets')
    BY <1>1 DEF Onion, Cell
  <2>3. 1 \in 1..Exit
    BY ChainNumbers
  <2>4. Append(fwd[1], Onion(s, packets[s] + 1)) \in Seq(Cell(packets'))
    BY <1>10, <2>1, <2>2, <2>3, Ends DEF FwdOK
  <2> QED
    BY <1>10, <2>1, <2>4 DEF FwdOK
<1>8. BackOK'
  <2> SUFFICES ASSUME NEW i \in 1..Exit PROVE back[i] \in Seq(Data(i, packets') \union Ack)
    BY <1>10 DEF BackOK
  <2>1. Data(i, packets) \subseteq Data(i, packets') /\ back[i] \in Seq(Data(i, packets) \union Ack)
    BY <1>10, <1>2, <1>3 DEF BackOK
  <2>2. Data(i, packets) \union Ack \subseteq Data(i, packets') \union Ack
    BY <2>1
  <2>3. Seq(Data(i, packets) \union Ack) \subseteq Seq(Data(i, packets') \union Ack)
    BY <2>2, SeqGrows
  <2> QED
    BY <2>1, <2>3
<1>9. ReceivedOK'
  <2> SUFFICES ASSUME NEW x \in Streams PROVE received[x] \in Seq(Got(x, packets'))
    BY <1>10 DEF ReceivedOK
  <2>1. Seq(Got(x, packets)) \subseteq Seq(Got(x, packets'))
    BY <1>2, SeqGrows
  <2> QED
    BY <1>10, <2>1 DEF ReceivedOK
<1> QED
  BY <1>4, <1>5, <1>6, <1>7, <1>8, <1>9 DEF Inv

\* The numbers around a relay.
LEMMA Around ==
    ASSUME NEW i \in RelayId
    PROVE  i \in Nat /\ i \in 1..Exit /\ i + 1 \in 1..Exit /\ i + 1 # i /\ i # Exit
           /\ i - 1 \in Nat /\ i + 1 \in Nat
BY ChainNumbers

\* The onion at the head of a link, and the key of a layer of it.
LEMMA HeadOnion ==
    ASSUME Inv, NEW i \in 1..Exit, fwd[i] # <<>>
    PROVE  LET m == Head(fwd[i])
           IN  /\ m \in Cell(packets) /\ m.sid \in Streams /\ Tail(fwd[i]) \in Seq(Cell(packets))
               /\ LayerKey(m.sid, m.seq, i) \in Keys(m.sid, i, packets[m.sid])
               /\ LayerKey(m.sid, m.seq, i) \in Streams \X Nat \X Nat
<1> DEFINE m == Head(fwd[i])
<1>1. m \in Cell(packets) /\ Tail(fwd[i]) \in Seq(Cell(packets))
  BY Ends DEF Inv, FwdOK
<1>2. m \in [sid : Streams, seq : Nat \ {0}] /\ m.seq <= packets[m.sid]
  BY <1>1 DEF Cell
<1>3. m.sid \in Streams /\ m.seq \in Nat \ {0} /\ packets[m.sid] \in Nat /\ i \in Nat
  BY <1>2, ChainNumbers DEF Inv, Counters
<1>4. m.seq \in 1..packets[m.sid]
  BY <1>2, <1>3
<1> QED
  BY <1>1, <1>3, <1>4 DEF Keys, LayerKey

\* A dropped onion leaves the relay as it was.
LEMMA DropTooDeepKeeps == ASSUME Inv, NEW i \in RelayId, DropTooDeep(i) PROVE Inv'
<1> USE DEF Inv, DropTooDeep
<1>1. FwdOK'
  BY Around, HeadOnion DEF FwdOK
<1> QED
  BY <1>1 DEF Counters, RelaysOK, TablesOK, BackOK, ReceivedOK

\* A relay that peels records a key of the packet's own stream, and counts the cell it passes on.
LEMMA PeelAndForwardKeeps == ASSUME Inv, NEW i \in RelayId, PeelAndForward(i) PROVE Inv'
<1> DEFINE m == Head(fwd[i])
           p == i - 1
           q == i + 1
           c == CreateCircuit(relay[i], p, q, now)
           f == Forward(c, p, q, 1, now)
           g == SendmeTaken(f, p, q)
           key == LayerKey(m.sid, m.seq, i)
<1> USE DEF Inv
<1>1. /\ m \in Cell(packets) /\ m.sid \in Streams /\ Tail(fwd[i]) \in Seq(Cell(packets))
      /\ key \in Keys(m.sid, i, packets[m.sid]) /\ key \in Streams \X Nat \X Nat
  BY Around, HeadOnion DEF PeelAndForward
<1>2. now \in Nat /\ forwarded[i] \in Nat /\ sendmes[i] \in Nat
  BY ChainNumbers DEF Counters
<1>3. RelayOK(c, p, q, forwarded[i], sendmes[i])
  BY <1>2, CreateKeeps DEF RelaysOK
<1>4. TablesOK'
  <2>1. TableOK(table[i], i, packets) /\ ~TooDeep(table[i], m.sid)
    BY Around DEF TablesOK, PeelAndForward
  <2>2. TableOK(Recorded(table[i], m.sid, key), i, packets)
    BY <1>1, <1>2, <2>1, RecordedKeeps
  <2>3. table' = [table EXCEPT ![i] = Recorded(@, m.sid, key)] /\ packets' = packets
    BY DEF PeelAndForward
  <2> HIDE DEF key, m
  <2> QED
    BY <2>2, <2>3 DEF TablesOK
<1>5. CASE Blocked(c, p, q)
  <2>1. /\ relay' = [relay EXCEPT ![i] = c] /\ fwd' = [fwd EXCEPT ![i] = Tail(@)]
        /\ UNCHANGED <<back, forwarded, sendmes, packets, written, received, now>>
    BY <1>5 DEF PeelAndForward
  <2> HIDE DEF c, m
  <2>2. RelaysOK'
    BY <1>3, <2>1 DEF RelaysOK
  <2>3. FwdOK'
    BY <1>1, <2>1 DEF FwdOK
  <2> QED
    BY <1>4, <2>1, <2>2, <2>3 DEF Counters, BackOK, ReceivedOK
<1>6. CASE ~Blocked(c, p, q)
  <2>1. /\ relay' = [relay EXCEPT ![i] = g]
        /\ fwd' = [fwd EXCEPT ![i] = Tail(@), ![i + 1] = Append(@, m)]
        /\ forwarded' = [forwarded EXCEPT ![i] = @ + 1]
        /\ IF NeedsSendme(f, p, q)
           THEN /\ back' = [back EXCEPT ![i] = Append(@, Sendme(p, q))]
                /\ sendmes' = [sendmes EXCEPT ![i] = @ + 1]
           ELSE UNCHANGED <<back, sendmes>>
        /\ UNCHANGED <<packets, written, received, now>>
    BY <1>6 DEF PeelAndForward
  <2>2. /\ NeedsSendme(f, p, q) => RelayOK(g, p, q, forwarded[i] + 1, sendmes[i] + 1)
        /\ ~NeedsSendme(f, p, q) => RelayOK(g, p, q, forwarded[i] + 1, sendmes[i])
    BY <1>2, <1>3, <1>6, ForwardKeeps
  <2> DEFINE owes == NeedsSendme(f, p, q)
             sent == sendmes[i] + IF owes THEN 1 ELSE 0
  <2>10. /\ RelayOK(g, p, q, forwarded[i] + 1, sent)
        /\ sent \in Nat /\ sendmes' = [sendmes EXCEPT ![i] = sent]
    <3>1. CASE owes
      BY <1>2, <2>1, <2>2, <3>1
    <3>2. CASE ~owes
      <4>1. sent = sendmes[i]
        BY <1>2, <3>2
      <4>2. sendmes' = [sendmes EXCEPT ![i] = sent]
        BY <2>1, <3>2, <4>1 DEF Counters
      <4> QED
        BY <1>2, <2>2, <3>2, <4>1, <4>2
    <3> QED
      BY <3>1, <3>2
  <2> HIDE DEF f, g, c, m, owes, sent
  <2>3. RelaysOK' /\ Counters'
    <3>1. RelaysOK'
      BY <1>2, <2>1, <2>10 DEF RelaysOK, Counters
    <3>2. Counters'
      BY <1>2, <2>1, <2>10 DEF Counters
    <3> QED
      BY <3>1, <3>2
  <2>4. FwdOK'
    <3>1. Append(fwd[i + 1], m) \in Seq(Cell(packets))
      BY <1>1, Around, Ends DEF FwdOK
    <3> QED
      BY <1>1, <2>1, <3>1, Around DEF FwdOK
  <2>5. BackOK'
    <3>1. Sendme(p, q) \in Ack
      BY Around DEF Sendme, Ack
    <3>2. Append(back[i], Sendme(p, q)) \in Seq(Data(i, packets) \union Ack)
      BY <3>1, Around, Ends DEF BackOK
    <3> QED
      BY <2>1, <3>2 DEF BackOK
  <2> QED
    BY <1>4, <2>1, <2>3, <2>4, <2>5 DEF ReceivedOK
<1> QED
  BY <1>5, <1>6


\* So does the exit, which passes nothing on.
LEMMA ExitPeelKeeps == ASSUME Inv, ExitPeel PROVE Inv'
<1> DEFINE m == Head(fwd[Exit])
           key == LayerKey(m.sid, m.seq, Exit)
<1> USE DEF Inv
<1>1. Exit \in 1..Exit /\ now \in Nat
  BY ChainNumbers DEF Counters
<1>2. /\ m.sid \in Streams /\ Tail(fwd[Exit]) \in Seq(Cell(packets))
      /\ key \in Keys(m.sid, Exit, packets[m.sid]) /\ key \in Streams \X Nat \X Nat
  BY <1>1, HeadOnion DEF ExitPeel
<1>3. TableOK(Insert(table[Exit], m.sid, key), Exit, packets)
  BY <1>1, <1>2, InsertKeeps DEF TablesOK
<1>4. /\ fwd' = [fwd EXCEPT ![Exit] = Tail(@)]
      /\ table' = [table EXCEPT ![Exit] = Insert(@, m.sid, key)]
      /\ UNCHANGED <<relay, back, packets, written, received, forwarded, sendmes, now>>
  BY DEF ExitPeel
<1> HIDE DEF key, m
<1>5. TablesOK' /\ FwdOK'
  BY <1>1, <1>2, <1>3, <1>4 DEF TablesOK, FwdOK
<1> QED
  BY <1>4, <1>5 DEF Counters, RelaysOK, BackOK, ReceivedOK

\* What the exit writes is under no layer, and no relay is behind it.
LEMMA ExitWriteKeeps == ASSUME Inv, NEW s \in Streams, ExitWrite(s) PROVE Inv'
<1> DEFINE m == CircuitData(s, written[s] + 1, {})
<1> USE DEF Inv
<1>1. Exit \in 1..Exit /\ written[s] \in Nat
  BY ChainNumbers DEF Counters
<1>2. written' = [written EXCEPT ![s] = @ + 1] /\ written[s] + 1 \in 0..MaxReturn
  BY <1>1, ChainNumbers DEF ExitWrite, Counters
<1>3. Layered({}, s, Exit, packets[s])
  <2>1. Exit..Hops = {}
    BY ChainNumbers
  <2>2. [j \in Exit..Hops |-> 1] \in [Exit..Hops -> 1..packets[s]]
    BY <2>1
  <2> QED
    BY <2>1, <2>2 DEF Layered
<1>4. m \in Data(Exit, packets)
  BY <1>1, <1>3 DEF CircuitData, Data
<1> HIDE DEF m
<1>5. BackOK'
  <2>1. back' = [back EXCEPT ![Exit] = Append(@, m)] /\ packets' = packets
    BY DEF ExitWrite, m
  <2>2. Append(back[Exit], m) \in Seq(Data(Exit, packets) \union Ack)
    BY <1>1, <1>4, Ends DEF BackOK
  <2> QED
    BY <2>1, <2>2 DEF BackOK
<1>6. Counters'
  BY <1>2 DEF Counters, ExitWrite
<1> QED
  BY <1>5, <1>6 DEF RelaysOK, TablesOK, FwdOK, ReceivedOK, ExitWrite

\* The message at the head of a link towards the origin.
LEMMA HeadBack ==
    ASSUME Inv, NEW i \in 1..Exit, back[i] # <<>>
    PROVE  LET m == Head(back[i])
           IN  /\ Tail(back[i]) \in Seq(Data(i, packets) \union Ack)
               /\ m.type = "CIRCUIT_DATA" => m \in Data(i, packets) /\ m.sid \in Streams
               /\ m.type # "CIRCUIT_DATA" => m \in Ack
<1> DEFINE m == Head(back[i])
<1>1. m \in Data(i, packets) \union Ack /\ Tail(back[i]) \in Seq(Data(i, packets) \union Ack)
  BY Ends DEF Inv, BackOK
<1> HIDE DEF m
<1>2. m \in Data(i, packets) => m.type = "CIRCUIT_DATA" /\ m.sid \in Streams
  BY DEF Data
<1>3. m \in Ack => m.type = "SENDME"
  BY DEF Ack
<1> QED
  BY <1>1, <1>2, <1>3 DEF m

\* A relay puts the layer of its own entry on the data that passes back.
LEMMA ReturnDataKeeps == ASSUME Inv, NEW i \in RelayId, ReturnData(i) PROVE Inv'
<1> DEFINE m == Head(back[i + 1])
           d == [m EXCEPT !.layers = Xor(@, Lookup(table[i], m.sid).key)]
<1> USE DEF Inv
<1>1. /\ Tail(back[i + 1]) \in Seq(Data(i + 1, packets) \union Ack)
      /\ m \in Data(i + 1, packets) /\ m.sid \in Streams
  BY Around, HeadBack DEF ReturnData
<1>2. ASSUME Entries(table[i], m.sid) # {} PROVE d \in Data(i, packets)
  <2>1. TableOK(table[i], i, packets) /\ packets[m.sid] \in Nat
    BY <1>1, Around DEF TablesOK, Counters
  <2> DEFINE key == Lookup(table[i], m.sid).key
  <2>2. Lookup(table[i], m.sid) \in InUse(i, packets) /\ key \in Keys(m.sid, i, packets[m.sid])
    BY <1>1, <1>2, <2>1, LookupIs
  <2>3. key \in Streams \X Nat \X Nat
    BY <2>2 DEF InUse
  <2> HIDE DEF key
  <2>4. /\ m \in [type : {"CIRCUIT_DATA"}, sid : Streams, n : Nat, layers : SUBSET (Streams \X Nat \X Nat)]
        /\ Layered(m.layers, m.sid, i + 1, packets[m.sid])
    BY <1>1 DEF Data
  <2>5. Layered(Xor(m.layers, key), m.sid, i, packets[m.sid])
    BY <1>1, <2>1, <2>2, <2>4, LayerAdded
  <2>6. Xor(m.layers, key) \in SUBSET (Streams \X Nat \X Nat)
    BY <2>3, <2>4 DEF Xor
  <2>7. d = [m EXCEPT !.layers = Xor(m.layers, key)]
    BY DEF key
  <2> HIDE DEF d, m
  <2>8. /\ d \in [type : {"CIRCUIT_DATA"}, sid : Streams, n : Nat, layers : SUBSET (Streams \X Nat \X Nat)]
        /\ d.sid = m.sid /\ d.layers = Xor(m.layers, key)
    BY <2>4, <2>6, <2>7
  <2> QED
    BY <2>5, <2>8 DEF Data
<1>3. /\ back' = IF Entries(table[i], m.sid) # {}
                 THEN [back EXCEPT ![i + 1] = Tail(@), ![i] = Append(@, d)]
                 ELSE [back EXCEPT ![i + 1] = Tail(@)]
      /\ UNCHANGED <<relay, table, fwd, packets, written, received, forwarded, sendmes, now>>
  BY DEF ReturnData
<1> HIDE DEF d, m
<1>4. BackOK'
  <2>1. CASE Entries(table[i], m.sid) # {}
    <3>1. Append(back[i], d) \in Seq(Data(i, packets) \union Ack)
      BY <1>2, <2>1, Around, Ends DEF BackOK
    <3> QED
      BY <1>1, <1>3, <2>1, <3>1, Around DEF BackOK
  <2>2. CASE Entries(table[i], m.sid) = {}
    BY <1>1, <1>3, <2>2, Around DEF BackOK
  <2> QED
    BY <2>1, <2>2
<1> QED
  BY <1>3, <1>4 DEF Counters, RelaysOK, TablesOK, FwdOK, ReceivedOK

\* A SENDME refills the window of the relay it reaches and counts nothing.
LEMMA ReturnSendmeKeeps == ASSUME Inv, NEW i \in RelayId, ReturnSendme(i) PROVE Inv'
<1> DEFINE m == Head(back[i + 1])
<1> USE DEF Inv
<1>1. Tail(back[i + 1]) \in Seq(Data(i + 1, packets) \union Ack)
  BY Around, HeadBack DEF ReturnSendme
<1>2. PICK load : relay' = [relay EXCEPT ![i] = TakeSendme(@, m.from, m.to, load, now)]
  BY DEF ReturnSendme
<1>3. RelayOK(TakeSendme(relay[i], m.from, m.to, load, now), i - 1, i + 1, forwarded[i], sendmes[i])
  <2>1. now \in Nat /\ forwarded[i] \in Nat /\ sendmes[i] \in Nat
    BY DEF Counters
  <2>2. RelayOK(relay[i], i - 1, i + 1, forwarded[i], sendmes[i])
    BY DEF RelaysOK
  <2> QED
    BY <2>1, <2>2, SendmeKeeps
<1>4. /\ back' = [back EXCEPT ![i + 1] = Tail(@)]
      /\ UNCHANGED <<table, fwd, packets, written, received, forwarded, sendmes, now>>
  BY DEF ReturnSendme
<1> HIDE DEF m
<1>5. RelaysOK'
  BY <1>2, <1>3, <1>4 DEF RelaysOK
<1>6. BackOK'
  BY <1>1, <1>4 DEF BackOK
<1> QED
  BY <1>4, <1>5, <1>6 DEF Counters, TablesOK, FwdOK, ReceivedOK

\* The origin keeps what it gets.
LEMMA OriginRecvKeeps == ASSUME Inv, OriginRecv PROVE Inv'
<1> DEFINE m == Head(back[1])
           d == [n |-> m.n, layers |-> m.layers]
<1> USE DEF Inv
<1>1. 1 \in 1..Exit
  BY ChainNumbers
<1>2. /\ Tail(back[1]) \in Seq(Data(1, packets) \union Ack)
      /\ m.type = "CIRCUIT_DATA" => m \in Data(1, packets) /\ m.sid \in Streams
  BY <1>1, HeadBack DEF OriginRecv
<1>3. ASSUME m.type = "CIRCUIT_DATA" PROVE d \in Got(m.sid, packets)
  BY <1>2, <1>3 DEF Data, Got
<1>4. /\ back' = [back EXCEPT ![1] = Tail(@)]
      /\ received' = IF m.type = "CIRCUIT_DATA"
                     THEN [received EXCEPT ![m.sid] = Append(@, d)] ELSE received
      /\ UNCHANGED <<relay, table, fwd, packets, written, forwarded, sendmes, now>>
  BY DEF OriginRecv
<1> HIDE DEF m, d
<1>5. BackOK'
  BY <1>2, <1>4 DEF BackOK
<1>6. ReceivedOK'
  <2>1. CASE m.type = "CIRCUIT_DATA"
    <3>1. Append(received[m.sid], d) \in Seq(Got(m.sid, packets))
      BY <1>2, <1>3, <2>1, Ends DEF ReceivedOK
    <3> QED
      BY <1>4, <2>1, <3>1 DEF ReceivedOK
  <2>2. CASE m.type # "CIRCUIT_DATA"
    BY <1>4, <2>2 DEF ReceivedOK
  <2> QED
    BY <2>1, <2>2
<1> QED
  BY <1>4, <1>5, <1>6 DEF Counters, RelaysOK, TablesOK, FwdOK

\* The lifecycle timer closes circuits and expires entries.
LEMMA LifecycleKeeps == ASSUME Inv, NEW i \in RelayId, Lifecycle(i) PROVE Inv'
<1> USE DEF Inv
<1>1. /\ relay' = [relay EXCEPT ![i] = Swept(@, now)]
      /\ table' = [table EXCEPT ![i] = Expired(@)]
      /\ UNCHANGED <<fwd, back, packets, written, received, forwarded, sendmes, now>>
  BY DEF Lifecycle
<1>2. RelayOK(Swept(relay[i], now), i - 1, i + 1, forwarded[i], sendmes[i])
  <2>1. forwarded[i] \in Nat /\ sendmes[i] \in Nat
    BY DEF Counters
  <2>2. RelayOK(relay[i], i - 1, i + 1, forwarded[i], sendmes[i])
    BY DEF RelaysOK
  <2> QED
    BY <2>1, <2>2, SweepKeeps
<1>3. TableOK(Expired(table[i]), i, packets)
  BY Around, ExpiredKeeps DEF TablesOK
<1>4. RelaysOK' /\ TablesOK'
  BY <1>1, <1>2, <1>3 DEF RelaysOK, TablesOK
<1> QED
  BY <1>1, <1>4 DEF Counters, FwdOK, BackOK, ReceivedOK

\* Time alone disturbs nothing.
LEMMA TickKeeps == ASSUME Inv, Tick PROVE Inv'
<1>1. Counters'
  BY ChainNumbers DEF Inv, Counters, Tick
<1> QED
  BY <1>1 DEF Inv, Tick, RelaysOK, TablesOK, FwdOK, BackOK, ReceivedOK

\* Every step keeps the invariant.
LEMMA StepKeeps == ASSUME Inv, [Next]_vars PROVE Inv'
<1>1. CASE UNCHANGED vars
  BY <1>1 DEF vars, Inv, Counters, RelaysOK, TablesOK, FwdOK, BackOK, ReceivedOK
<1>2. CASE \E s \in Streams : SendPacket(s) \/ ExitWrite(s)
  BY <1>2, SendPacketKeeps, ExitWriteKeeps
<1>3. CASE \E i \in RelayId : DropTooDeep(i) \/ PeelAndForward(i)
  BY <1>3, DropTooDeepKeeps, PeelAndForwardKeeps
<1>4. CASE \E i \in RelayId : ReturnData(i) \/ ReturnSendme(i) \/ Lifecycle(i)
  BY <1>4, ReturnDataKeeps, ReturnSendmeKeeps, LifecycleKeeps
<1>5. CASE ExitPeel \/ OriginRecv \/ Tick
  BY <1>5, ExitPeelKeeps, OriginRecvKeeps, TickKeeps
<1> QED
  BY <1>1, <1>2, <1>3, <1>4, <1>5 DEF Next

-----------------------------------------------------------------------------
(* The theorems. *)

\* The invariant holds in every reachable state: handle_onion, the SENDME and CIRCUIT_DATA
\* handlers and the lifecycle timer keep it whatever order they run in at the nodes.
THEOREM ChainInvariant == Spec => []Inv
BY Starts, StepKeeps, PTL DEF Spec

\* The circuit tables, the flows and the counters stay within their limits, a path that is
\* walked again and again among them (hop_count never passes CIRCUIT_MAX_HOPS).
THEOREM ChainTypes == Spec => []TypeOK
<1>1. Inv => TypeOK
  <2> SUFFICES ASSUME Inv PROVE TypeOK
    OBVIOUS
  <2>1. ASSUME NEW i \in 1..Exit, NEW j \in 1..TableMax
        PROVE  table[i][j].hops \in 0..HopLimit /\ (table[i][j].active => table[i][j].sid \in Streams)
    BY <2>1 DEF Inv, TablesOK, TableOK, Vacant, InUse
  <2>2. ASSUME NEW i \in RelayId, NEW j \in Slot, relay[i].slots[j] # Free
        PROVE  relay[i].slots[j].flow \in Flow
    BY <2>2 DEF Inv, RelaysOK, RelayOK, Active, CircuitFor
  <2>3. /\ \A s \in Streams : packets[s] \in Nat /\ written[s] \in 0..MaxReturn
        /\ now \in 1..MaxTime
    BY DEF Inv, Counters
  <2> QED
    BY <2>1, <2>2, <2>3 DEF TypeOK
<1> QED
  BY <1>1, ChainInvariant, PTL

\* What comes back to the origin is under exactly one layer per relay, of keys the origin
\* made for that stream, whatever the tables evicted, reused or expired on the way
\* (circuit_data_write_cb and the CIRCUIT_DATA case of dispatch_message).
THEOREM OneLayerPerRelayHolds == Spec => []OneLayerPerRelay
<1>1. Inv => OneLayerPerRelay
  <2> SUFFICES ASSUME Inv, NEW s \in Streams, NEW d \in DOMAIN received[s]
               PROVE  /\ Cardinality(received[s][d].layers) = Hops
                      /\ \A i \in RelayId : \E k \in 1..packets[s] :
                             LayerKey(s, k, i) \in received[s][d].layers
    BY DEF OneLayerPerRelay
  <2>1. received[s] \in Seq(Got(s, packets)) /\ packets[s] \in Nat
    BY DEF Inv, ReceivedOK, Counters
  <2>2. received[s][d] \in Got(s, packets)
    BY <2>1, ElementOfSeq, LenProperties
  <2>3. Layered(received[s][d].layers, s, 1, packets[s])
    BY <2>2 DEF Got
  <2> QED
    BY <2>1, <2>3, LayersAre
<1> QED
  BY <1>1, ChainInvariant, PTL

\* A relay never sends more SENDMEs than one for Increment cells it passed on, though its
\* circuits are closed, evicted and opened again in between (trellis_flow_on_recv and the
\* SENDME answered in handle_onion).
THEOREM SendmesEarnedHolds == Spec => []SendmesEarned
<1>1. Inv => SendmesEarned
  BY DEF Inv, RelaysOK, RelayOK, SendmesEarned
<1> QED
  BY <1>1, ChainInvariant, PTL
=============================================================================
