---------------------------- MODULE RelayProofs ----------------------------
(***************************************************************************)
(* Proofs about Relay, for any number of peers, circuits, rate slots and   *)
(* frames, and any limits.  Every operator of RelayNode is first shown to  *)
(* put one circuit into one slot, to close some, or to leave the slots     *)
(* alone; the table's invariant is then kept by "put" and by "close".      *)
(***************************************************************************)
EXTENDS Relay, OrderLemmas, SequenceTheorems

Onion == [kind : {"onion"}, from : Peers, to : Peers, created : Nat, activity : Nat, flow : Flow]
Session == [kind : {"session"}, from : Peers, to : Peers, created : Nat, activity : Nat, flow : Flow,
            id : SessionId, nonce : Nat]
Circuit == Onion \union Session
Rate == [peer : Peers, start : Nat, count : Nat]

RelayState == [slots : [Slot -> Circuit \union {Free}], count : Nat, rates : Seq(Rate),
               started : Nat, admitted : Nat]

\* Two circuits that a lookup would not tell apart.
Same(a, b) ==
    \/ a.kind = "onion" /\ b.kind = "onion" /\ a.from = b.from /\ a.to = b.to
    \/ a.kind = "session" /\ b.kind = "session" /\ a.id = b.id

\* A session belongs to the peer that its id names.
Owned(c) == c.kind = "session" => c.id[1] = c.from

RelayOK(r) ==
    /\ r \in RelayState
    /\ Len(r.rates) <= RateSlots /\ r.admitted <= GlobalLimit
    /\ r.count = Cardinality(Active(r))
    /\ \A i \in Active(r) : Owned(r.slots[i])
    /\ \A i, j \in Active(r) : i # j => ~Same(r.slots[i], r.slots[j])

\* The slots are finitely many numbers.
LEMMA SlotNumbers == Slot \subseteq Nat /\ IsFiniteSet(Slot) /\ Cardinality(Slot) = MaxCircuits
<1>1. MaxCircuits \in Int /\ 1 \in Int /\ MaxCircuits >= 1
  BY RelayAssumption DEF RelayAssumption
<1>2. IsFiniteSet(1..MaxCircuits) /\ Cardinality(1..MaxCircuits) = MaxCircuits
  <2>1. ~(1 > MaxCircuits) /\ MaxCircuits - 1 + 1 = MaxCircuits
    BY <1>1
  <2> QED
    BY <1>1, <2>1, FS_Interval
<1> QED
  BY <1>1, <1>2 DEF Slot

\* The first match of a lookup that finds one is a match.
LEMMA FirstIn == ASSUME NEW S, S \subseteq Nat, S # {} PROVE First(S) \in S
BY LeastNatural DEF First

\* A circuit starts with a window within its limits.
LEMMA NewFlowIsFlow == NewFlow \in Flow
BY FlowAssumption DEF FlowAssumption, NewFlow, Flow

\* A free slot is not mistaken for a circuit.
LEMMA FreeIsNoCircuit == Free \notin Circuit
BY DEF Free, Circuit, Onion, Session

\* A relay with other circuits, or with another rate table, is a relay.
LEMMA StateOf ==
    ASSUME NEW r \in RelayState, NEW s \in [Slot -> Circuit \union {Free}], NEW n \in Nat
    PROVE  [r EXCEPT !.slots = s, !.count = n] \in RelayState
BY DEF RelayState

\* The same for the rate table and the global window.
LEMMA StateOfRates ==
    ASSUME NEW r \in RelayState, NEW rates \in Seq(Rate), NEW n \in Nat
    PROVE  [r EXCEPT !.rates = rates, !.admitted = n] \in RelayState
BY DEF RelayState

\* The slots in use are finitely many, and hold circuits.
LEMMA ActiveIs ==
    ASSUME NEW r \in RelayState
    PROVE  /\ Active(r) = {i \in Slot : r.slots[i] \in Circuit}
           /\ IsFiniteSet(Active(r)) /\ Cardinality(Active(r)) \in Nat
           /\ Cardinality(Active(r)) <= MaxCircuits
<1>1. Active(r) = {i \in Slot : r.slots[i] \in Circuit}
  BY FreeIsNoCircuit DEF Active, RelayState
<1>2. Active(r) \in SUBSET Slot
  BY DEF Active
<1> QED
  BY <1>1, <1>2, SlotNumbers, FS_Subset, FS_CardinalityType
-----------------------------------------------------------------------------
(* The rate of creation. *)

\* The oldest entry of the rate table is one of them.
LEMMA OldestIsRate ==
    ASSUME NEW rates \in Seq(Rate), rates # <<>> PROVE OldestRate(rates) \in DOMAIN rates
<1> DEFINE time == [i \in DOMAIN rates |-> rates[i].start]
<1>1. DOMAIN rates \subseteq Nat /\ DOMAIN rates # {}
  <2>1. DOMAIN rates = 1..Len(rates) /\ Len(rates) \in Nat /\ Len(rates) # 0
    BY LenProperties, EmptySeq, SeqEqual
  <2>2. 1 \in 1..Len(rates)
    BY <2>1
  <2> QED
    BY <2>1, <2>2
<1>2. \A i \in DOMAIN rates : time[i] \in Nat
  <2>1. \A i \in DOMAIN rates : rates[i] \in Rate
    BY ElementOfSeq
  <2> QED
    BY <2>1 DEF Rate
<1>3. \E i \in DOMAIN rates : \A j \in DOMAIN rates :
          time[i] < time[j] \/ (time[i] = time[j] /\ i <= j)
  <2> HIDE DEF time
  <2> QED
    BY <1>1, <1>2, LeastByTime
<1>4. \E i \in DOMAIN rates : \A j \in DOMAIN rates :
          rates[i].start < rates[j].start \/ (rates[i].start = rates[j].start /\ i <= j)
  BY <1>3
<1> QED
  BY <1>4 DEF OldestRate

\* The entry that Claimed gives a peer.
RateIndex(rates, peer) == First(RateOf(rates, peer))

\* A peer that has an entry in the rate table is found there.
LEMMA RateIndexIn ==
    ASSUME NEW rates \in Seq(Rate), NEW peer, RateOf(rates, peer) # {}
    PROVE  RateIndex(rates, peer) \in DOMAIN rates /\ rates[RateIndex(rates, peer)].peer = peer
<1>1. RateOf(rates, peer) \subseteq Nat
  BY LenProperties DEF RateOf
<1>2. RateIndex(rates, peer) \in RateOf(rates, peer)
  BY <1>1, FirstIn DEF RateIndex
<1> QED
  BY <1>2 DEF RateOf

\* A sequence with one entry changed, and with one more.
LEMMA ExceptRate ==
    ASSUME NEW rates \in Seq(Rate), NEW i \in DOMAIN rates, NEW e \in Rate
    PROVE  /\ [rates EXCEPT ![i] = e] \in Seq(Rate) /\ Len([rates EXCEPT ![i] = e]) = Len(rates)
           /\ DOMAIN [rates EXCEPT ![i] = e] = DOMAIN rates
           /\ \A j \in DOMAIN rates : [rates EXCEPT ![i] = e][j] = IF j = i THEN e ELSE rates[j]
BY ExceptSeq

\* Claiming an entry keeps the table a table, within its size, with an entry of the peer.
LEMMA ClaimedIs ==
    ASSUME NEW rates \in Seq(Rate), Len(rates) <= RateSlots, NEW peer \in Peers, NEW t \in Nat
    PROVE  LET c == Claimed(rates, peer, t)
           IN  /\ c \in Seq(Rate) /\ Len(c) <= RateSlots
               /\ RateIndex(c, peer) \in DOMAIN c /\ c[RateIndex(c, peer)].peer = peer
<1> DEFINE fresh == [peer |-> peer, start |-> t, count |-> 0]
           c == Claimed(rates, peer, t)
<1>0. fresh \in Rate /\ fresh.peer = peer /\ RateSlots \in Nat \ {0}
  BY RelayAssumption DEF Rate, RelayAssumption
<1>1. SUFFICES c \in Seq(Rate) /\ Len(c) <= RateSlots /\ RateOf(c, peer) # {}
  BY <1>1, RateIndexIn
<1>2. CASE RateOf(rates, peer) # {}
  <2> DEFINE k == RateIndex(rates, peer)
  <2>1. k \in DOMAIN rates /\ rates[k].peer = peer
    BY <1>2, RateIndexIn
  <2>2. c = rates \/ c = [rates EXCEPT ![k] = fresh]
    BY <1>2 DEF Claimed, RateIndex
  <2>3. k \in RateOf(c, peer)
    <3> HIDE DEF k, c, fresh
    <3>1. CASE c = rates
      BY <2>1, <3>1 DEF RateOf
    <3>2. CASE c = [rates EXCEPT ![k] = fresh]
      BY <1>0, <2>1, <3>2, ExceptRate DEF RateOf
    <3> QED
      BY <2>2, <3>1, <3>2
  <2> HIDE DEF k, c, fresh
  <2> QED
    BY <1>0, <2>1, <2>2, <2>3, ExceptRate
<1>3. CASE RateOf(rates, peer) = {} /\ Len(rates) < RateSlots
  <2>1. c = Append(rates, fresh)
    BY <1>3 DEF Claimed
  <2>2. /\ Append(rates, fresh) \in Seq(Rate) /\ Len(Append(rates, fresh)) = Len(rates) + 1
        /\ Append(rates, fresh)[Len(rates) + 1] = fresh
        /\ Len(rates) \in Nat /\ DOMAIN Append(rates, fresh) = 1..Len(rates) + 1
    BY <1>0, AppendProperties, LenProperties
  <2>3. Len(rates) + 1 \in RateOf(c, peer)
    BY <1>0, <2>1, <2>2 DEF RateOf
  <2> QED
    BY <1>0, <1>3, <2>1, <2>2, <2>3
<1>4. CASE RateOf(rates, peer) = {} /\ ~(Len(rates) < RateSlots)
  <2> DEFINE k == OldestRate(rates)
  <2>1. k \in DOMAIN rates
    <3>1. rates # <<>>
      BY <1>0, <1>4, EmptySeq
    <3> QED
      BY <3>1, OldestIsRate
  <2>2. c = [rates EXCEPT ![k] = fresh]
    BY <1>4 DEF Claimed
  <2>3. k \in RateOf(c, peer)
    <3> HIDE DEF k, c, fresh
    <3> QED
      BY <1>0, <2>1, <2>2, ExceptRate DEF RateOf
  <2> HIDE DEF k, c, fresh
  <2> QED
    BY <1>0, <2>1, <2>2, <2>3, ExceptRate
<1> QED
  BY <1>2, <1>3, <1>4

\* The check of the rate changes nothing but the rate table and the global window.
LEMMA CheckedRateIs ==
    ASSUME NEW r \in RelayState, Len(r.rates) <= RateSlots, r.admitted <= GlobalLimit,
           NEW peer \in Peers, NEW t \in Nat
    PROVE  LET c == CheckedRate(r, peer, t)
           IN  /\ c \in RelayState /\ Len(c.rates) <= RateSlots /\ c.admitted <= GlobalLimit
               /\ c.slots = r.slots /\ c.count = r.count
<1> DEFINE g == GlobalRolled(r, t)
           rates == Claimed(r.rates, peer, t)
           k == RateIndex(rates, peer)
<1>1. /\ g \in RelayState /\ g.rates = r.rates /\ g.slots = r.slots /\ g.count = r.count
      /\ g.admitted <= GlobalLimit
  <2>1. GlobalLimit \in Nat
    BY RelayAssumption DEF RelayAssumption
  <2>2. CASE g = r
    BY <2>2
  <2>3. CASE g = [r EXCEPT !.started = t, !.admitted = 0]
    <3> HIDE DEF g
    <3>1. g.admitted = 0 /\ g.started = t /\ g.rates = r.rates /\ g.slots = r.slots /\ g.count = r.count
      BY <2>3 DEF RelayState
    <3>2. g \in RelayState
      BY <2>3 DEF RelayState
    <3> QED
      BY <2>1, <3>1, <3>2
  <2> QED
    BY <2>2, <2>3 DEF GlobalRolled
<1>2. /\ rates \in Seq(Rate) /\ Len(rates) <= RateSlots /\ k \in DOMAIN rates
  BY ClaimedIs DEF RelayState
<1>3. CASE ~GlobalOpen(r, t)
  BY <1>1, <1>3 DEF CheckedRate
<1>4. CASE GlobalOpen(r, t) /\ ~Admits(r, peer, t)
  <2>1. CheckedRate(r, peer, t) = [g EXCEPT !.rates = rates]
    BY <1>4 DEF CheckedRate
  <2> HIDE DEF g, rates, k
  <2> QED
    BY <1>1, <1>2, <2>1 DEF RelayState
<1>5. CASE GlobalOpen(r, t) /\ Admits(r, peer, t)
  <2> DEFINE more == [rates EXCEPT ![k].count = @ + 1]
  <2>1. CheckedRate(r, peer, t) = [g EXCEPT !.rates = more, !.admitted = @ + 1]
    BY <1>5, Zenon DEF CheckedRate, RateIndex
  <2>2. g.admitted < GlobalLimit /\ GlobalLimit \in Nat /\ g.admitted \in Nat
    BY <1>1, <1>5, RelayAssumption DEF GlobalOpen, RelayAssumption, RelayState
  <2>3. more \in Seq(Rate) /\ Len(more) = Len(rates)
    <3> HIDE DEF g, rates, k
    <3>1. rates[k] \in Rate
      BY <1>2, ElementOfSeq, LenProperties
    <3>2. [rates[k] EXCEPT !.count = @ + 1] \in Rate
      BY <3>1 DEF Rate
    <3>3. more = [rates EXCEPT ![k] = [rates[k] EXCEPT !.count = @ + 1]]
      OBVIOUS
    <3> HIDE DEF more
    <3> QED
      BY <1>2, <3>2, <3>3, ExceptRate
  <2> DEFINE c == CheckedRate(r, peer, t)
  <2> HIDE DEF g, rates, k, more
  <2>4. c.admitted = g.admitted + 1 /\ c.rates = more /\ c.slots = g.slots /\ c.count = g.count
    BY <1>1, <2>1 DEF RelayState
  <2>5. c \in RelayState
    <3>1. c = [g EXCEPT !.rates = more, !.admitted = g.admitted + 1]
      BY <2>1
    <3>2. g.admitted + 1 \in Nat
      BY <2>2
    <3> QED
      BY <1>1, <2>3, <3>1, <3>2, StateOfRates, SMTT(60), ZenonT(60)
  <2> QED
    BY <1>1, <1>2, <2>2, <2>3, <2>4, <2>5
<1> QED
  BY <1>3, <1>4, <1>5
-----------------------------------------------------------------------------
(* The table of circuits. *)

\* What is left of a relay when its slots and count are set aside.
RatesOK(r) == Len(r.rates) <= RateSlots /\ r.admitted <= GlobalLimit

\* c is r with circuit v put into slot i, and perhaps another rate table.
IsPut(c, r, i, v) ==
    /\ c.slots = [r.slots EXCEPT ![i] = v]
    /\ c.count = IF i \in Active(r) THEN r.count ELSE r.count + 1

\* Putting a circuit that no other slot answers for keeps the table in order.
LEMMA PutKeeps ==
    ASSUME NEW r, RelayOK(r), NEW c \in RelayState, RatesOK(c), NEW i \in Slot, NEW v \in Circuit,
           IsPut(c, r, i, v), Owned(v), \A j \in Active(r) \ {i} : ~Same(r.slots[j], v)
    PROVE  RelayOK(c)
<1>1. r \in RelayState /\ r.count = Cardinality(Active(r))
  BY DEF RelayOK
<1>2. /\ c.slots[i] = v /\ \A j \in Slot \ {i} : c.slots[j] = r.slots[j]
  BY <1>1 DEF IsPut, RelayState
<1>3. Active(c) = Active(r) \union {i}
  BY <1>2, FreeIsNoCircuit DEF Active
<1>4. c.count = Cardinality(Active(c))
  <2>1. IsFiniteSet(Active(r))
    BY <1>1, ActiveIs
  <2>2. Cardinality(Active(c)) = IF i \in Active(r) THEN Cardinality(Active(r)) ELSE Cardinality(Active(r)) + 1
    BY <1>3, <2>1, FS_AddElement
  <2> QED
    BY <1>1, <2>2 DEF IsPut
<1>5. \A j \in Active(c) : Owned(c.slots[j])
  BY <1>2, <1>3 DEF RelayOK, Active
<1>6. ASSUME NEW j \in Active(c), NEW k \in Active(c), j # k PROVE ~Same(c.slots[j], c.slots[k])
  <2>1. \A a, b : Same(a, b) => Same(b, a)
    BY DEF Same
  <2>2. CASE j # i /\ k # i
    BY <1>2, <1>3, <1>6, <2>2 DEF RelayOK, Active
  <2>3. CASE j = i
    BY <1>2, <1>3, <1>6, <2>1, <2>3 DEF Active
  <2>4. CASE k = i
    BY <1>2, <1>3, <1>6, <2>4 DEF Active
  <2> QED
    BY <2>2, <2>3, <2>4
<1> QED
  BY <1>4, <1>5, <1>6 DEF RelayOK, RatesOK

\* The circuit in a slot that is in use may change in all but its name.
LEMMA TouchKeeps ==
    ASSUME NEW r, RelayOK(r), NEW c \in RelayState, RatesOK(c), NEW i \in Active(r), NEW v \in Circuit,
           IsPut(c, r, i, v),
           v.kind = r.slots[i].kind, v.from = r.slots[i].from, v.to = r.slots[i].to,
           v.kind = "session" => v.id = r.slots[i].id
    PROVE  RelayOK(c)
<1>1. Owned(v)
  BY DEF RelayOK, Owned
<1>2. \A j \in Active(r) \ {i} : ~Same(r.slots[j], v)
  <2>1. \A j \in Active(r) \ {i} : ~Same(r.slots[j], r.slots[i])
    BY DEF RelayOK
  <2>2. \A a : Same(a, v) => Same(a, r.slots[i])
    BY DEF Same
  <2> QED
    BY <2>1, <2>2
<1>3. i \in Slot
  BY DEF Active
<1> QED
  BY <1>1, <1>2, <1>3, PutKeeps

\* Closing any of the circuits keeps the table in order.
LEMMA ClosedKeeps ==
    ASSUME NEW r, RelayOK(r), NEW S, S \subseteq Active(r)
    PROVE  /\ RelayOK(Closed(r, S))
           /\ \A i \in Slot : Closed(r, S).slots[i] = IF i \in S THEN Free ELSE r.slots[i]
<1> DEFINE c == Closed(r, S)
<1>1. r \in RelayState /\ r.count = Cardinality(Active(r))
  BY DEF RelayOK
<1>2. IsFiniteSet(Active(r)) /\ Cardinality(Active(r)) \in Nat
  BY <1>1, ActiveIs
<1>3. /\ IsFiniteSet(S) /\ Cardinality(S) \in Nat /\ Cardinality(S) <= Cardinality(Active(r))
      /\ Cardinality(Active(r) \ S) = Cardinality(Active(r)) - Cardinality(S)
  <2>1. IsFiniteSet(S) /\ Cardinality(S) <= Cardinality(Active(r))
    BY <1>2, FS_Subset
  <2>2. Active(r) \cap S = S
    OBVIOUS
  <2> QED
    BY <1>2, <2>1, <2>2, FS_Difference, FS_CardinalityType
<1>4. /\ c.slots = [i \in Slot |-> IF i \in S THEN Free ELSE r.slots[i]]
      /\ c.count = r.count - Cardinality(S) /\ c.rates = r.rates /\ c.admitted = r.admitted
  <2>1. c.count = Minus(r.count, Cardinality(S))
    BY <1>1 DEF Closed, RelayState
  <2>2. Minus(r.count, Cardinality(S)) = r.count - Cardinality(S)
    BY <1>1, <1>2, <1>3 DEF Minus
  <2> QED
    BY <1>1, <2>1, <2>2 DEF Closed, RelayState
<1>5. c \in RelayState
  <2>1. c.slots \in [Slot -> Circuit \union {Free}]
    BY <1>1, <1>4 DEF RelayState
  <2>2. c.count \in Nat
    BY <1>1, <1>2, <1>3, <1>4
  <2>3. c = [r EXCEPT !.slots = c.slots, !.count = c.count]
    BY <1>1 DEF Closed, RelayState
  <2> HIDE DEF c
  <2> QED
    BY <1>1, <2>1, <2>2, <2>3 DEF RelayState
<1>6. Active(c) = Active(r) \ S
  <2> HIDE DEF c
  <2> QED
    BY <1>4 DEF Active
<1>7. c.count = Cardinality(Active(c))
  BY <1>1, <1>3, <1>4, <1>6
<1>8. \A i \in Active(c) : c.slots[i] = r.slots[i] /\ i \in Active(r)
  <2> HIDE DEF c
  <2> QED
    BY <1>4, <1>6 DEF Active
<1>9. RelayOK(c)
  <2> HIDE DEF c
  <2> QED
    BY <1>4, <1>5, <1>7, <1>8 DEF RelayOK
<1> QED
  BY <1>4, <1>9

\* The least recently used circuit is one of them.
LEMMA LeastRecentIn ==
    ASSUME NEW r \in RelayState, Active(r) # {} PROVE LeastRecent(r) \in Active(r)
<1> DEFINE time == [i \in Slot |-> r.slots[i].activity]
<1>1. Active(r) \subseteq Nat
  BY SlotNumbers DEF Active
<1>2. \A i \in Active(r) : time[i] \in Nat
  BY ActiveIs DEF Active, Circuit, Onion, Session
<1>3. \E i \in Active(r) : \A j \in Active(r) :
          time[i] < time[j] \/ (time[i] = time[j] /\ i <= j)
  <2> HIDE DEF time
  <2> QED
    BY <1>1, <1>2, LeastByTime
<1>4. \E i \in Active(r) : \A j \in Active(r) :
          \/ r.slots[i].activity < r.slots[j].activity
          \/ r.slots[i].activity = r.slots[j].activity /\ i <= j
  BY <1>3 DEF Active
<1> QED
  BY <1>4 DEF LeastRecent

\* What is put into a slot by an open call is a circuit, and a session is of its peer.
LEMMA NewCircuits ==
    ASSUME NEW p \in Peers, NEW q \in Peers, NEW t \in Nat
    PROVE  /\ OnionCircuit(p, q, t) \in Circuit /\ Owned(OnionCircuit(p, q, t))
           /\ \A id \in SessionId : SessionCircuit(p, id, t) \in Circuit
BY NewFlowIsFlow DEF OnionCircuit, SessionCircuit, Circuit, Onion, Session, Owned

\* A circuit for a pair is opened once, in a free slot or in the place of another one.
LEMMA CreateCircuitKeeps ==
    ASSUME NEW r, RelayOK(r), NEW p \in Peers, NEW q \in Peers, NEW t \in Nat
    PROVE  LET c == CreateCircuit(r, p, q, t)
           IN  /\ RelayOK(c)
               /\ \A i \in Slot : c.slots[i] \in {r.slots[i], OnionCircuit(p, q, t)}
<1> DEFINE a == CheckedRate(r, p, t)
           c == CreateCircuit(r, p, q, t)
           v == OnionCircuit(p, q, t)
           free == Slot \ Active(r)
<1>1. /\ a \in RelayState /\ RatesOK(a) /\ a.slots = r.slots /\ a.count = r.count
      /\ r \in RelayState
  BY CheckedRateIs DEF RelayOK, RatesOK
<1>2. RelayOK(a)
  BY <1>1 DEF RelayOK, RatesOK, Active
<1>3. v \in Circuit /\ Owned(v)
  BY NewCircuits
<1>4. ASSUME Circuits(r, p, q) = {} PROVE \A j \in Active(r) : ~Same(r.slots[j], v)
  BY <1>4 DEF Circuits, Same, OnionCircuit
<1>5. CASE c = a
  BY <1>1, <1>2, <1>5
<1>6. CASE /\ Circuits(r, p, q) = {} /\ free # {}
           /\ c = [a EXCEPT !.slots[First(free)] = v, !.count = @ + 1]
  <2> DEFINE i == First(free)
  <2>1. i \in Slot /\ i \notin Active(r)
    BY <1>6, SlotNumbers, FirstIn
  <2>2. /\ c.slots = [r.slots EXCEPT ![i] = v] /\ c.count = r.count + 1
        /\ c.rates = a.rates /\ c.admitted = a.admitted
    <3> HIDE DEF i, a, v, c
    <3> QED
      BY <1>1, <1>6 DEF RelayState, i
  <2>3. c \in RelayState
    <3> HIDE DEF i, a, v, c
    <3>1. c.slots \in [Slot -> Circuit \union {Free}] /\ c.count \in Nat
      BY <1>1, <1>3, <2>1, <2>2 DEF RelayState
    <3>2. c = [a EXCEPT !.slots = c.slots, !.count = c.count]
      BY <1>1, <1>6 DEF RelayState, i
    <3>3. [a EXCEPT !.slots = c.slots, !.count = c.count] \in RelayState
      BY <1>1, <3>1, StateOf
    <3> QED
      BY <3>2, <3>3, Zenon
  <2> HIDE DEF i, a, v, c
  <2>4. RelayOK(c)
    <3>1. RatesOK(c) /\ IsPut(c, r, i, v)
      BY <1>1, <2>1, <2>2 DEF RatesOK, IsPut
    <3> QED
      BY <1>3, <1>4, <1>6, <2>1, <2>3, <3>1, PutKeeps
  <2> QED
    BY <1>1, <2>2, <2>4 DEF RelayState, v, c
<1>7. CASE /\ Circuits(r, p, q) = {} /\ free = {}
           /\ c = [a EXCEPT !.slots[LeastRecent(r)] = v]
  <2> DEFINE i == LeastRecent(r)
  <2>1. i \in Slot /\ i \in Active(r)
    <3>1. 1 \in Slot
      BY RelayAssumption DEF RelayAssumption, Slot
    <3>2. Active(r) # {}
      BY <1>7, <3>1
    <3> QED
      BY <1>1, <3>2, LeastRecentIn DEF Active
  <2>2. /\ c.slots = [r.slots EXCEPT ![i] = v] /\ c.count = r.count
        /\ c.rates = a.rates /\ c.admitted = a.admitted
    <3> HIDE DEF i, a, v, c
    <3> QED
      BY <1>1, <1>7 DEF RelayState, i
  <2>3. c \in RelayState
    <3> HIDE DEF i, a, v, c
    <3> QED
      BY <1>1, <1>3, <1>7, <2>1 DEF RelayState, i
  <2> HIDE DEF i, a, v, c
  <2>4. RelayOK(c)
    <3>1. RatesOK(c) /\ IsPut(c, r, i, v)
      BY <1>1, <2>1, <2>2 DEF RatesOK, IsPut
    <3> QED
      BY <1>3, <1>4, <1>7, <2>1, <2>3, <3>1, PutKeeps
  <2> QED
    BY <1>1, <2>2, <2>4 DEF RelayState, v, c
<1> QED
  BY <1>5, <1>6, <1>7 DEF CreateCircuit

\* A session is opened once, in a free slot only.
LEMMA CreateSessionKeeps ==
    ASSUME NEW r, RelayOK(r), NEW p \in Peers, NEW id \in SessionId, id[1] = p, NEW t \in Nat
    PROVE  LET c == CreateSession(r, p, id, t)
           IN  /\ RelayOK(c)
               /\ \A i \in Slot : c.slots[i] \in {r.slots[i], SessionCircuit(p, id, t)}
               /\ c.slots = r.slots \/ Sessions(r, p, id) = {}
<1> DEFINE a == CheckedRate(r, p, t)
           c == CreateSession(r, p, id, t)
           v == SessionCircuit(p, id, t)
           free == Slot \ Active(r)
<1>1. /\ a \in RelayState /\ RatesOK(a) /\ a.slots = r.slots /\ a.count = r.count
      /\ r \in RelayState
  BY CheckedRateIs DEF RelayOK, RatesOK
<1>2. RelayOK(a)
  BY <1>1 DEF RelayOK, RatesOK, Active
<1>3. v \in Circuit /\ Owned(v)
  BY NewCircuits DEF Owned, SessionCircuit
<1>4. ASSUME Sessions(r, p, id) = {} PROVE \A j \in Active(r) : ~Same(r.slots[j], v)
  <2>1. \A j \in Active(r) : r.slots[j].kind = "session" => r.slots[j].id # id \/ r.slots[j].from # p
    BY <1>4 DEF Sessions
  <2>2. \A j \in Active(r) : Owned(r.slots[j])
    BY DEF RelayOK
  <2> QED
    BY <2>1, <2>2 DEF Owned, Same, SessionCircuit
<1>5. CASE c = a
  BY <1>1, <1>2, <1>5
<1>6. CASE /\ Sessions(r, p, id) = {} /\ free # {}
           /\ c = [a EXCEPT !.slots[First(free)] = v, !.count = @ + 1]
  <2> DEFINE i == First(free)
  <2>1. i \in Slot /\ i \notin Active(r)
    BY <1>6, SlotNumbers, FirstIn
  <2>2. /\ c.slots = [r.slots EXCEPT ![i] = v] /\ c.count = r.count + 1
        /\ c.rates = a.rates /\ c.admitted = a.admitted
    <3> HIDE DEF i, a, v, c
    <3> QED
      BY <1>1, <1>6 DEF RelayState, i
  <2>3. c \in RelayState
    <3> HIDE DEF i, a, v, c
    <3>1. c.slots \in [Slot -> Circuit \union {Free}] /\ c.count \in Nat
      BY <1>1, <1>3, <2>1, <2>2 DEF RelayState
    <3>2. c = [a EXCEPT !.slots = c.slots, !.count = c.count]
      BY <1>1, <1>6 DEF RelayState, i
    <3>3. [a EXCEPT !.slots = c.slots, !.count = c.count] \in RelayState
      BY <1>1, <3>1, StateOf
    <3> QED
      BY <3>2, <3>3, Zenon
  <2> HIDE DEF i, a, v, c
  <2>4. RelayOK(c)
    <3>1. RatesOK(c) /\ IsPut(c, r, i, v)
      BY <1>1, <2>1, <2>2 DEF RatesOK, IsPut
    <3> QED
      BY <1>3, <1>4, <1>6, <2>1, <2>3, <3>1, PutKeeps
  <2> QED
    BY <1>1, <1>6, <2>2, <2>4 DEF RelayState, v, c
<1> QED
  BY <1>5, <1>6 DEF CreateSession

-----------------------------------------------------------------------------
(* Cells and frames. *)

\* The calls of flow.c keep a window within its limits.
LEMMA FlowCalls ==
    ASSUME NEW f \in Flow, NEW n \in Nat
    PROVE  OnRecv(OnSend(f, n), n) \in Flow /\ [f EXCEPT !.owed = FALSE] \in Flow
<1>1. {Increment, CwndMin, CwndMax} \subseteq Nat
  BY FlowAssumption DEF FlowAssumption
<1>2. \A g \in Flow : g.window \in 0..CwndMax /\ g.inflight \in Nat /\ g.deliver \in Nat
  BY DEF Flow
<1>3. OnSend(f, n) \in Flow
  <2>1. Minus(f.window, n) \in 0..CwndMax /\ f.inflight + n \in Nat
    BY <1>1, <1>2 DEF Minus
  <2> QED
    BY <2>1 DEF OnSend, Flow
<1>4. \A g \in Flow : OnRecv(g, n) \in Flow
  <2> TAKE g \in Flow
  <2>1. CASE g.deliver + n >= Increment
    <3>1. g.deliver + n - Increment \in Nat
      BY <1>1, <1>2, <2>1
    <3>2. OnRecv(g, n) = [g EXCEPT !.deliver = @ + n - Increment, !.owed = TRUE]
      BY <2>1 DEF OnRecv
    <3> QED
      BY <3>1, <3>2 DEF Flow
  <2>2. CASE ~(g.deliver + n >= Increment)
    <3>1. OnRecv(g, n) = [g EXCEPT !.deliver = @ + n]
      BY <2>2 DEF OnRecv
    <3>2. g.deliver + n \in Nat
      BY <1>2
    <3> QED
      BY <3>1, <3>2 DEF Flow
  <2> QED
    BY <2>1, <2>2
<1> QED
  BY <1>3, <1>4 DEF Flow

\* v is circuit u after some traffic at time t.
Refreshed(v, u, t) ==
    /\ v \in Circuit /\ v.kind = u.kind /\ v.from = u.from /\ v.to = u.to
    /\ v.created = u.created /\ v.activity \in {u.activity, t}
    /\ v.kind = "session" => v.id = u.id

\* The changes of a circuit that the code makes are of this kind, and only a media frame
\* moves the nonce of a session.
LEMMA Refreshing ==
    ASSUME NEW u \in Circuit, NEW t \in Nat, NEW f \in Flow
    PROVE  LET v == [u EXCEPT !.activity = t, !.flow = f]
               w == [u EXCEPT !.flow = f]
           IN  /\ Refreshed(v, u, t) /\ (u.kind = "session" => v.nonce = u.nonce)
               /\ Refreshed(w, u, t) /\ (u.kind = "session" => w.nonce = u.nonce)
<1>1. CASE u \in Onion
  BY <1>1 DEF Onion, Session, Circuit, Refreshed
<1>2. CASE u \in Session
  BY <1>2 DEF Onion, Session, Circuit, Refreshed
<1> QED
  BY <1>1, <1>2 DEF Circuit

\* A session that took a frame is a session, whose nonce moved on.
LEMMA NonceMoves ==
    ASSUME NEW u \in Circuit, u.kind = "session", NEW t \in Nat, NEW n \in Nat
    PROVE  LET v == [u EXCEPT !.nonce = n, !.activity = t]
           IN  Refreshed(v, u, t) /\ v.nonce = n
<1>1. u \in Session
  BY DEF Onion, Session, Circuit
<1> QED
  BY <1>1 DEF Onion, Session, Circuit, Refreshed

\* r is a relay in order, of which c differs in slots whose circuits were refreshed.
Kept(c, r, t) ==
    \A i \in Slot : \/ c.slots[i] = r.slots[i]
                    \/ /\ i \in Active(r) /\ Refreshed(c.slots[i], r.slots[i], t)
                       /\ r.slots[i].kind = "session" => c.slots[i].nonce = r.slots[i].nonce

\* r with circuit v in slot i.
WithCircuit(r, i, v) == [r EXCEPT !.slots[i] = v]
OnlyDiffers(c, r, i, v) == c.slots[i] = v /\ \A j \in Slot \ {i} : c.slots[j] = r.slots[j]

\* Refreshing the circuit of one slot keeps the table in order.
LEMMA RefreshKeeps ==
    ASSUME NEW r, RelayOK(r), NEW i \in Active(r), NEW t, NEW v, Refreshed(v, r.slots[i], t)
    PROVE  RelayOK(WithCircuit(r, i, v)) /\ OnlyDiffers(WithCircuit(r, i, v), r, i, v)
<1> DEFINE c == [r EXCEPT !.slots[i] = v]
<1>0. WithCircuit(r, i, v) = c
  BY DEF WithCircuit
<1>1. r \in RelayState /\ i \in Slot /\ v \in Circuit
  BY DEF RelayOK, Active, Refreshed
<1>2. c.slots = [r.slots EXCEPT ![i] = v] /\ c.count = r.count /\ c.rates = r.rates /\ c.admitted = r.admitted
  BY <1>1 DEF RelayState
<1>3. c \in RelayState
  <2>1. [r.slots EXCEPT ![i] = v] \in [Slot -> Circuit \union {Free}]
    BY <1>1 DEF RelayState
  <2>2. c = [r EXCEPT !.slots = [r.slots EXCEPT ![i] = v], !.count = r.count]
    BY <1>1 DEF RelayState
  <2>3. r.count \in Nat
    BY <1>1 DEF RelayState
  <2>4. [r EXCEPT !.slots = [r.slots EXCEPT ![i] = v], !.count = r.count] \in RelayState
    BY <1>1, <2>1, <2>3, StateOf
  <2> QED
    BY <2>2, <2>4, Zenon
<1>4. RelayOK(c)
  <2> HIDE DEF c
  <2>1. RatesOK(c) /\ IsPut(c, r, i, v)
    BY <1>2 DEF RelayOK, RatesOK, IsPut
  <2> QED
    BY <1>1, <1>3, <2>1, TouchKeeps DEF Refreshed
<1>5. c.slots[i] = v /\ \A j \in Slot \ {i} : c.slots[j] = r.slots[j]
  BY <1>1, <1>2 DEF RelayState
<1> QED
  BY <1>0, <1>4, <1>5 DEF OnlyDiffers

\* A lookup that finds a circuit returns a slot in use, with a circuit in it.
LEMMA CircuitsIn ==
    ASSUME NEW r \in RelayState, NEW p, NEW q, Circuits(r, p, q) # {}
    PROVE  First(Circuits(r, p, q)) \in Active(r) /\ r.slots[First(Circuits(r, p, q))] \in Circuit
<1>1. Circuits(r, p, q) \subseteq Active(r) /\ Active(r) \subseteq Nat
  BY SlotNumbers DEF Circuits, Active
<1>2. First(Circuits(r, p, q)) \in Circuits(r, p, q)
  BY <1>1, FirstIn
<1> QED
  BY <1>1, <1>2, ActiveIs

\* Passing cells on (trellis_relay_forward) refreshes one circuit at most.
LEMMA ForwardKeeps ==
    ASSUME NEW r, RelayOK(r), NEW p, NEW q, NEW n \in Nat, NEW t \in Nat
    PROVE  RelayOK(Forward(r, p, q, n, t)) /\ Kept(Forward(r, p, q, n, t), r, t)
<1> DEFINE c == Forward(r, p, q, n, t)
           i == First(Circuits(r, p, q))
           u == r.slots[i]
           f == OnRecv(OnSend(u.flow, n), n)
           v == [u EXCEPT !.activity = t, !.flow = f]
<1>1. CASE Circuits(r, p, q) = {} \/ Blocked(r, p, q)
  BY <1>1 DEF Forward, Kept
<1>2. CASE ~(Circuits(r, p, q) = {} \/ Blocked(r, p, q))
  <2>1. i \in Active(r) /\ u \in Circuit
    BY <1>2, CircuitsIn DEF RelayOK
  <2>2. f \in Flow
    BY <2>1, FlowCalls DEF Circuit, Onion, Session
  <2>3. c = [r EXCEPT !.slots[i] = v]
    BY <1>2 DEF Forward
  <2> DEFINE d == WithCircuit(r, i, v)
  <2>4. u = r.slots[i]
    OBVIOUS
  <2> HIDE DEF i, f, u
  <2>5. Refreshed(v, u, t) /\ (u.kind = "session" => v.nonce = u.nonce)
    BY <2>1, <2>2, Refreshing
  <2> HIDE DEF v
  <2>6. RelayOK(d) /\ OnlyDiffers(d, r, i, v)
    <3>1. i \in Active(r) /\ Refreshed(v, r.slots[i], t)
      BY <2>1, <2>4, <2>5
    <3> QED
      BY <3>1, RefreshKeeps
  <2>7. c = d
    BY <2>3 DEF WithCircuit
  <2> HIDE DEF d
  <2>8. Kept(d, r, t)
    BY <2>1, <2>4, <2>5, <2>6 DEF Kept, OnlyDiffers
  <2> QED
    BY <2>6, <2>7, <2>8
<1> QED
  BY <1>1, <1>2

\* Taking the SENDME that is owed changes one window at most.
LEMMA SendmeTakenKeeps ==
    ASSUME NEW r, RelayOK(r), NEW p, NEW q, NEW t \in Nat
    PROVE  RelayOK(SendmeTaken(r, p, q)) /\ Kept(SendmeTaken(r, p, q), r, t)
<1> DEFINE c == SendmeTaken(r, p, q)
           i == First(Circuits(r, p, q))
           u == r.slots[i]
           f == [u.flow EXCEPT !.owed = FALSE]
           v == [u EXCEPT !.flow = f]
<1>1. CASE ~NeedsSendme(r, p, q)
  BY <1>1 DEF SendmeTaken, Kept
<1>2. CASE NeedsSendme(r, p, q)
  <2>1. i \in Active(r) /\ u \in Circuit
    BY <1>2, CircuitsIn DEF RelayOK, NeedsSendme
  <2>2. f \in Flow
    BY <2>1, FlowCalls DEF Circuit, Onion, Session
  <2>3. c = [r EXCEPT !.slots[i] = v]
    BY <1>2 DEF SendmeTaken
  <2> DEFINE d == WithCircuit(r, i, v)
  <2>4. u = r.slots[i]
    OBVIOUS
  <2> HIDE DEF i, f, u
  <2>5. Refreshed(v, u, t) /\ (u.kind = "session" => v.nonce = u.nonce)
    BY <2>1, <2>2, Refreshing
  <2> HIDE DEF v
  <2>6. RelayOK(d) /\ OnlyDiffers(d, r, i, v)
    <3>1. i \in Active(r) /\ Refreshed(v, r.slots[i], t)
      BY <2>1, <2>4, <2>5
    <3> QED
      BY <3>1, RefreshKeeps
  <2>7. c = d
    BY <2>3 DEF WithCircuit
  <2> HIDE DEF d
  <2>8. Kept(d, r, t)
    BY <2>1, <2>4, <2>5, <2>6 DEF Kept, OnlyDiffers
  <2> QED
    BY <2>6, <2>7, <2>8
<1> QED
  BY <1>1, <1>2

\* c is r with frame n passed on in the session id.
FrameTaken(c, r, id, n, t) ==
    \E i \in Active(r) :
        /\ r.slots[i].kind = "session" /\ r.slots[i].id = id /\ n >= r.slots[i].nonce
        /\ Refreshed(c.slots[i], r.slots[i], t) /\ c.slots[i].nonce = n + 1
        /\ \A j \in Slot \ {i} : c.slots[j] = r.slots[j]

\* A frame that is accepted moves the nonce of its session past its own; its session is the
\* only one with that id.
LEMMA SessionDataKeeps ==
    ASSUME NEW r, RelayOK(r), NEW p \in Peers, NEW id \in SessionId, NEW n \in Nat, NEW t \in Nat,
           AcceptsData(r, p, id, n)
    PROVE  RelayOK(SessionData(r, p, id, n, t)) /\ FrameTaken(SessionData(r, p, id, n, t), r, id, n, t)
<1> DEFINE c == SessionData(r, p, id, n, t)
           i == First(Sessions(r, p, id))
           u == r.slots[i]
           v == [u EXCEPT !.nonce = n + 1, !.activity = t]
<1>1. Sessions(r, p, id) \subseteq Active(r) /\ Active(r) \subseteq Nat /\ Sessions(r, p, id) # {}
  BY SlotNumbers DEF Sessions, Active, AcceptsData
<1>2. i \in Sessions(r, p, id)
  BY <1>1, FirstIn
<1>3. i \in Active(r) /\ u \in Circuit /\ u.kind = "session" /\ u.id = id
  BY <1>1, <1>2, ActiveIs DEF Sessions, RelayOK
<1>4. n >= u.nonce
  BY DEF AcceptsData
<1>5. c = [r EXCEPT !.slots[i] = v]
  BY DEF SessionData
<1> DEFINE d == WithCircuit(r, i, v)
<1>6. u = r.slots[i] /\ n + 1 \in Nat
  OBVIOUS
<1> HIDE DEF i, u
<1>7. Refreshed(v, u, t) /\ v.nonce = n + 1
  <2>1. u.flow \in Flow
    BY <1>3 DEF Circuit, Onion, Session
  <2> QED
    BY <1>3, <1>6, <2>1, NonceMoves, SMTT(60), ZenonT(60)
<1> HIDE DEF v
<1>8. RelayOK(d) /\ OnlyDiffers(d, r, i, v)
  <2>1. i \in Active(r) /\ Refreshed(v, r.slots[i], t)
    BY <1>3, <1>6, <1>7
  <2> QED
    BY <2>1, RefreshKeeps
<1>9. c = d
  BY <1>5 DEF WithCircuit
<1> HIDE DEF d
<1> HIDE DEF c
<1>10. /\ RelayOK(c)
       /\ r.slots[i].kind = "session" /\ r.slots[i].id = id /\ n >= r.slots[i].nonce
       /\ Refreshed(c.slots[i], r.slots[i], t) /\ c.slots[i].nonce = n + 1
       /\ \A j \in Slot \ {i} : c.slots[j] = r.slots[j]
  BY <1>3, <1>4, <1>6, <1>7, <1>8, <1>9 DEF OnlyDiffers
<1> QED
  BY <1>3, <1>10 DEF c, FrameTaken

-----------------------------------------------------------------------------
(* The invariant of the system.                                            *)

Entry == [valid : {TRUE}, id : SessionId, created : Nat, nonce : Nat, unsent : {FALSE}]

IsMsg(m) ==
    /\ m.id \in SessionId /\ m.from = m.id[1]
    /\ m = CreateMsg(m.from, m.id) \/ (m.nonce \in Nat /\ m = DataMsg(m.from, m.id, m.nonce))

SystemOK ==
    /\ RelayOK(relay)
    /\ pool \in [Initiators -> Entry \union {NoSession}]
    /\ \A p \in Initiators : pool[p] # NoSession => pool[p].id[1] = p
    /\ \A m \in net : IsMsg(m)
    /\ delivered \in [SessionId -> Seq(Nat)]
    /\ now \in Nat /\ now > 0

\* The timer's last turn was a period before its next one, and what it left was young enough.
SweepInv ==
    /\ sweepAt \in Nat /\ now <= sweepAt /\ sweepAt <= now + SweepPeriod
    /\ \A i \in Active(relay) :
           /\ sweepAt <= relay.slots[i].created + MaxAge + SweepPeriod
           /\ sweepAt <= relay.slots[i].activity + MaxIdle + SweepPeriod
           /\ relay.slots[i].activity > 0

HasSession(r, id) == \E i \in Active(r) : r.slots[i].kind = "session" /\ r.slots[i].id = id

\* There is a trace of the session beyond the initiator's pool.
Known(id) == delivered[id] # <<>> \/ CreateMsg(id[1], id) \in net \/ HasSession(relay, id)

\* A session is asked for once: its CREATE_SESSION is not under way when the relay has it, or
\* has passed on a frame of it, and sessions are built one after the other.  What the relay
\* passed on lies below the nonce of the session's slot.
SessionInv ==
    \A id \in SessionId :
        /\ Known(id) => id[2] <= Built(id[1])
        /\ CreateMsg(id[1], id) \in net => delivered[id] = <<>> /\ ~HasSession(relay, id)
        /\ \A i \in Active(relay) :
               relay.slots[i].kind = "session" /\ relay.slots[i].id = id
               => \A k \in DOMAIN delivered[id] : delivered[id][k] < relay.slots[i].nonce
        /\ \A i, j \in DOMAIN delivered[id] : i < j => delivered[id][i] < delivered[id][j]

\* The admissions A of a peer whose entry in the rate table starts at `start`: all of them are
\* in the last window, and the first k of them are older than the entry.
Within(A, start, count) ==
    \E k \in 0..Len(A) : /\ k <= PeerLimit /\ Len(A) - k <= count
                         /\ \A i \in 1..k : A[i] <= start

\* When the rate table has a slot for every peer, its entries are those of different peers and
\* none is given up; so a peer was admitted in the window of its entry as often as the entry
\* counts, and before it at most PeerLimit times.
RateInv ==
    /\ admissions \in [Peers -> Seq(Nat)]
    /\ \A p \in Peers : \A i \in DOMAIN admissions[p] :
           admissions[p][i] <= now /\ now < admissions[p][i] + PeerWindow
    /\ \A i, j \in DOMAIN relay.rates : relay.rates[i].peer = relay.rates[j].peer => i = j
    /\ \A i \in DOMAIN relay.rates :
           /\ relay.rates[i].count <= PeerLimit
           /\ Within(admissions[relay.rates[i].peer], relay.rates[i].start, relay.rates[i].count)
    /\ \A p \in Peers : RateOf(relay.rates, p) = {} => admissions[p] = <<>>

CanRate == Cardinality(Peers) <= RateSlots => RateInv

-----------------------------------------------------------------------------
(* What the steps of the relay do to the age of circuits and to sessions.  *)

Aged(c, r, t) ==
    \A i \in Active(c) :
        \/ c.slots[i].created = t /\ c.slots[i].activity = t
        \/ /\ i \in Active(r) /\ c.slots[i].created = r.slots[i].created
           /\ c.slots[i].activity \in {r.slots[i].activity, t}

SessionsKept(c, r) ==
    \A i \in Active(c) :
        c.slots[i].kind = "session" =>
            /\ i \in Active(r) /\ r.slots[i].kind = "session"
            /\ r.slots[i].id = c.slots[i].id /\ r.slots[i].nonce = c.slots[i].nonce

\* A call that only refreshes makes no circuit older than it was, and opens no session.
LEMMA KeptAges ==
    ASSUME NEW r, NEW c, NEW t, Kept(c, r, t) PROVE Aged(c, r, t) /\ SessionsKept(c, r)
BY DEF Kept, Aged, SessionsKept, Refreshed, Active

\* Two such calls in a row are such a call.
LEMMA AgedTwice ==
    ASSUME NEW r, NEW c, NEW d, NEW t, Aged(c, r, t), Aged(d, c, t), SessionsKept(c, r), SessionsKept(d, c)
    PROVE  Aged(d, r, t) /\ SessionsKept(d, r)
BY DEF Aged, SessionsKept

\* The RELAY case of dispatch_message is made of such calls.
LEMMA CellIs ==
    ASSUME RelayOK(relay), now \in Nat, NEW p \in Peers, NEW q \in Peers, RelayCell(p, q)
    PROVE  RelayOK(relay') /\ Aged(relay', relay, now) /\ SessionsKept(relay', relay)
<1> DEFINE c == CreateCircuit(relay, p, q, now)
           f == Forward(c, p, q, 1, now)
           s == SendmeTaken(f, p, q)
<1>1. RelayOK(c) /\ \A i \in Slot : c.slots[i] \in {relay.slots[i], OnionCircuit(p, q, now)}
  BY CreateCircuitKeeps
<1>2. Aged(c, relay, now) /\ SessionsKept(c, relay)
  <2> HIDE DEF c
  <2> QED
    BY <1>1 DEF Aged, SessionsKept, Active, OnionCircuit
<1>3. RelayOK(f) /\ Aged(f, c, now) /\ SessionsKept(f, c)
  <2> HIDE DEF c
  <2>1. 1 \in Nat
    OBVIOUS
  <2> QED
    BY <1>1, <2>1, ForwardKeeps, KeptAges
<1>4. RelayOK(s) /\ Aged(s, f, now) /\ SessionsKept(s, f)
  <2> HIDE DEF f
  <2> QED
    BY <1>3, SendmeTakenKeeps, KeptAges
<1>5. Aged(s, relay, now) /\ SessionsKept(s, relay)
  <2> HIDE DEF c, f, s
  <2>1. Aged(f, relay, now) /\ SessionsKept(f, relay)
    BY <1>2, <1>3, AgedTwice
  <2> QED
    BY <1>4, <2>1, AgedTwice
<1>6. relay' = s
  BY DEF RelayCell
<1> QED
  BY <1>4, <1>5, <1>6, Zenon

\* Closing circuits ages none, opens none, and frees exactly the slots it is told.
LEMMA ClosedAges ==
    ASSUME NEW r, RelayOK(r), NEW S, S \subseteq Active(r), NEW t
    PROVE  /\ RelayOK(Closed(r, S)) /\ Aged(Closed(r, S), r, t) /\ SessionsKept(Closed(r, S), r)
           /\ Active(Closed(r, S)) = Active(r) \ S
           /\ \A i \in Active(r) \ S : Closed(r, S).slots[i] = r.slots[i]
<1> DEFINE c == Closed(r, S)
<1>1. RelayOK(c) /\ \A i \in Slot : c.slots[i] = IF i \in S THEN Free ELSE r.slots[i]
  BY ClosedKeeps
<1> HIDE DEF c
<1>2. Active(c) = Active(r) \ S /\ \A i \in Active(r) \ S : c.slots[i] = r.slots[i]
  BY <1>1 DEF Active
<1>3. Aged(c, r, t) /\ SessionsKept(c, r)
  BY <1>2 DEF Aged, SessionsKept
<1> QED
  BY <1>1, <1>2, <1>3 DEF c

\* A step that only ages circuits keeps what the timer will find.
LEMMA AgedSweeps ==
    ASSUME SystemOK, SweepInv, Aged(relay', relay, now), now' = now, sweepAt' = sweepAt
    PROVE  SweepInv'
<1>1. MaxAge \in Nat /\ MaxIdle \in Nat /\ SweepPeriod \in Nat /\ now \in Nat /\ now > 0 /\ sweepAt \in Nat
  BY RelayAssumption, RelaySystemAssumption
     DEF RelayAssumption, RelaySystemAssumption, SystemOK, SweepInv
<1>2. ASSUME NEW i \in Active(relay')
      PROVE  /\ sweepAt <= relay'.slots[i].created + MaxAge + SweepPeriod
             /\ sweepAt <= relay'.slots[i].activity + MaxIdle + SweepPeriod
             /\ relay'.slots[i].activity > 0
  <2>1. sweepAt <= now + SweepPeriod
    BY DEF SweepInv
  <2>2. CASE relay'.slots[i].created = now /\ relay'.slots[i].activity = now
    BY <1>1, <2>1, <2>2
  <2>3. CASE /\ i \in Active(relay) /\ relay'.slots[i].created = relay.slots[i].created
             /\ relay'.slots[i].activity \in {relay.slots[i].activity, now}
    <3>1. /\ sweepAt <= relay.slots[i].created + MaxAge + SweepPeriod
          /\ sweepAt <= relay.slots[i].activity + MaxIdle + SweepPeriod
          /\ relay.slots[i].activity > 0
      BY <2>3 DEF SweepInv
    <3> QED
      BY <1>1, <2>1, <2>3, <3>1
  <2> QED
    BY <1>2, <2>2, <2>3 DEF Aged
<1> QED
  BY <1>1, <1>2 DEF SweepInv

-----------------------------------------------------------------------------
(* Every step keeps it.                                                    *)

TableInv == SystemOK /\ SweepInv /\ SessionInv

\* A step that opens no session, and passes nothing on, keeps what is known of sessions.
LEMMA SessionsStay ==
    ASSUME SystemOK, SessionInv, SessionsKept(relay', relay), RelayOK(relay'),
           net' \subseteq net, UNCHANGED <<pool, delivered>>
    PROVE  SessionInv'
<1> SUFFICES ASSUME NEW id \in SessionId
             PROVE  /\ Known(id)' => id[2] <= Built(id[1])'
                    /\ CreateMsg(id[1], id) \in net' => delivered'[id] = <<>> /\ ~HasSession(relay', id)
                    /\ \A i \in Active(relay') :
                           relay'.slots[i].kind = "session" /\ relay'.slots[i].id = id
                           => \A k \in DOMAIN delivered'[id] : delivered'[id][k] < relay'.slots[i].nonce
                    /\ \A i, j \in DOMAIN delivered'[id] : i < j => delivered'[id][i] < delivered'[id][j]
  BY DEF SessionInv
<1>1. Built(id[1])' = Built(id[1]) /\ delivered' = delivered
  BY DEF Built
<1>2. HasSession(relay', id) => HasSession(relay, id)
  BY DEF SessionsKept, HasSession
<1>3. Known(id)' => Known(id)
  BY <1>1, <1>2 DEF Known
<1>4. \A i \in Active(relay') :
          relay'.slots[i].kind = "session" /\ relay'.slots[i].id = id
          => \A k \in DOMAIN delivered[id] : delivered[id][k] < relay'.slots[i].nonce
  BY DEF SessionInv, SessionsKept
<1> QED
  BY <1>1, <1>2, <1>3, <1>4 DEF SessionInv

\* An empty relay meets the invariant.
LEMMA InvStarts == Init => TableInv
<1> SUFFICES ASSUME Init PROVE TableInv
  OBVIOUS
<1>1. Active(relay) = {}
  BY DEF Init, NewRelay, Active
<1>2. RelayOK(relay)
  <2>1. relay \in RelayState
    <3>1. <<>> \in Seq(Rate)
      BY EmptySeq
    <3> QED
      BY <3>1 DEF Init, NewRelay, RelayState
  <2>2. Len(relay.rates) = 0 /\ relay.admitted = 0 /\ relay.count = 0
    BY DEF Init, NewRelay
  <2>3. RateSlots \in Nat /\ GlobalLimit \in Nat
    BY RelayAssumption DEF RelayAssumption
  <2> QED
    BY <1>1, <2>1, <2>2, <2>3, FS_EmptySet DEF RelayOK
<1>3. SystemOK
  <2>1. delivered \in [SessionId -> Seq(Nat)]
    BY EmptySeq DEF Init
  <2> QED
    BY <1>2, <2>1 DEF Init, SystemOK
<1>4. SweepInv
  BY <1>1, RelaySystemAssumption DEF RelaySystemAssumption, Init, SweepInv
<1>5. SessionInv
  <2>1. net = {} /\ \A id \in SessionId : delivered[id] = <<>>
    BY DEF Init
  <2>2. \A id \in SessionId : ~Known(id) /\ DOMAIN delivered[id] = {}
    BY <1>1, <2>1 DEF Known, HasSession
  <2> QED
    BY <1>1, <2>1, <2>2 DEF SessionInv
<1> QED
  BY <1>3, <1>4, <1>5 DEF TableInv

\* A cell to pass on keeps it (CREATE on demand, forward, SENDME).
LEMMA CellKeeps == ASSUME TableInv, NEW p \in Peers, NEW q \in Peers, RelayCell(p, q) PROVE TableInv'
<1>1. RelayOK(relay') /\ Aged(relay', relay, now) /\ SessionsKept(relay', relay)
  BY CellIs DEF TableInv, SystemOK
<1>2. UNCHANGED <<pool, net, delivered, now, sweepAt>>
  BY DEF RelayCell
<1>3. SystemOK'
  BY <1>1, <1>2 DEF TableInv, SystemOK, IsMsg
<1>4. SweepInv'
  BY <1>1, <1>2, AgedSweeps DEF TableInv
<1>5. SessionInv'
  BY <1>1, <1>2, SessionsStay DEF TableInv
<1> QED
  BY <1>3, <1>4, <1>5 DEF TableInv

\* The removal of a peer keeps it (trellis_relay_close_circuits_for_peer).
LEMMA RemoveKeeps == ASSUME TableInv, NEW p \in Removable, RemovePeer(p) PROVE TableInv'
<1> DEFINE S == {i \in Active(relay) : p \in {relay.slots[i].from, relay.slots[i].to}}
<1>1. relay' = Closed(relay, S)
  BY DEF RemovePeer, ClosePeer
<1>2. RelayOK(relay') /\ Aged(relay', relay, now) /\ SessionsKept(relay', relay)
  <2>1. S \subseteq Active(relay) /\ RelayOK(relay)
    BY DEF TableInv, SystemOK
  <2> HIDE DEF S
  <2> QED
    BY <1>1, <2>1, ClosedAges
<1>3. net' \subseteq net /\ UNCHANGED <<pool, delivered, now, sweepAt>>
  BY DEF RemovePeer
<1>4. SystemOK'
  BY <1>2, <1>3 DEF TableInv, SystemOK, IsMsg
<1>5. SweepInv'
  BY <1>2, <1>3, AgedSweeps DEF TableInv
<1>6. SessionInv'
  BY <1>2, <1>3, SessionsStay DEF TableInv
<1> QED
  BY <1>4, <1>5, <1>6 DEF TableInv

\* The timer's turn: what is left is within its limits now.
LEMMA LifecycleKeeps == ASSUME TableInv, Lifecycle PROVE TableInv'
<1> DEFINE S == Stale(relay, now)
<1>1. relay' = Closed(relay, S)
  BY DEF Lifecycle, Swept
<1>2. /\ RelayOK(relay') /\ SessionsKept(relay', relay) /\ Active(relay') = Active(relay) \ S
      /\ \A i \in Active(relay) \ S : relay'.slots[i] = relay.slots[i]
  <2>1. S \subseteq Active(relay) /\ RelayOK(relay)
    BY DEF TableInv, SystemOK, Stale
  <2> HIDE DEF S
  <2> QED
    BY <1>1, <2>1, ClosedAges
<1>3. UNCHANGED <<pool, net, delivered, now>> /\ sweepAt' = now + SweepPeriod
  BY DEF Lifecycle
<1>4. SystemOK'
  BY <1>2, <1>3 DEF TableInv, SystemOK, IsMsg
<1>5. SweepInv'
  <2>1. MaxAge \in Nat /\ MaxIdle \in Nat /\ SweepPeriod \in Nat /\ now \in Nat
    BY RelayAssumption, RelaySystemAssumption
       DEF RelayAssumption, RelaySystemAssumption, TableInv, SystemOK
  <2>2. ASSUME NEW i \in Active(relay')
        PROVE  /\ sweepAt' <= relay'.slots[i].created + MaxAge + SweepPeriod
               /\ sweepAt' <= relay'.slots[i].activity + MaxIdle + SweepPeriod
               /\ relay'.slots[i].activity > 0
    <3>1. i \in Active(relay) /\ i \notin S /\ relay'.slots[i] = relay.slots[i]
      BY <1>2, <2>2
    <3>2. relay.slots[i].created \in Nat /\ relay.slots[i].activity \in Nat
      BY <3>1, ActiveIs DEF TableInv, SystemOK, RelayOK, Circuit, Onion, Session
    <3>3. relay.slots[i].activity > 0
      BY <3>1 DEF TableInv, SweepInv
    <3>4. now - relay.slots[i].created <= MaxAge /\ now - relay.slots[i].activity <= MaxIdle
      BY <2>1, <3>1, <3>2, <3>3 DEF Stale
    <3> QED
      BY <1>3, <2>1, <3>1, <3>2, <3>3, <3>4
  <2> QED
    BY <1>3, <2>1, <2>2 DEF SweepInv
<1>6. SessionInv'
  BY <1>2, <1>3, SessionsStay DEF TableInv
<1> QED
  BY <1>4, <1>5, <1>6 DEF TableInv

\* The passing of time keeps it, as the timer is due before a bound is passed.
LEMMA TickKeeps == ASSUME TableInv, Tick PROVE TableInv'
<1>1. net' = {} /\ now' = now + 1 /\ now < sweepAt /\ UNCHANGED <<relay, pool, delivered, sweepAt>>
  BY DEF Tick
<1>2. SystemOK'
  BY <1>1 DEF TableInv, SystemOK
<1>3. SweepInv'
  <2>1. now \in Nat /\ sweepAt \in Nat /\ SweepPeriod \in Nat
    BY RelaySystemAssumption DEF RelaySystemAssumption, TableInv, SystemOK, SweepInv
  <2>2. now' <= sweepAt' /\ sweepAt' <= now' + SweepPeriod /\ sweepAt' \in Nat
    BY <1>1, <2>1 DEF TableInv, SweepInv
  <2>3. \A i \in Active(relay) :
           /\ sweepAt <= relay.slots[i].created + MaxAge + SweepPeriod
           /\ sweepAt <= relay.slots[i].activity + MaxIdle + SweepPeriod
           /\ relay.slots[i].activity > 0
    BY DEF TableInv, SweepInv
  <2> QED
    BY <1>1, <2>2, <2>3 DEF SweepInv
<1>4. SessionInv'
  <2>1. SessionsKept(relay', relay) /\ RelayOK(relay')
    BY <1>1 DEF SessionsKept, TableInv, SystemOK
  <2> QED
    BY <1>1, <2>1, SessionsStay DEF TableInv
<1> QED
  BY <1>2, <1>3, <1>4 DEF TableInv

\* What the pool holds for an initiator that has a session.
LEMMA EntryIs ==
    \A e \in Entry : e # NoSession /\ e.id \in SessionId /\ e.created \in Nat /\ e.nonce \in Nat /\ ~e.unsent
<1> SUFFICES ASSUME NEW e \in Entry
             PROVE  e # NoSession /\ e.id \in SessionId /\ e.created \in Nat /\ e.nonce \in Nat /\ ~e.unsent
  OBVIOUS
<1>1. e.valid = TRUE /\ e.unsent = FALSE
  BY Zenon DEF Entry
<1>2. NoSession.valid = FALSE
  BY Zenon DEF NoSession
<1>3. e.id \in SessionId /\ e.created \in Nat /\ e.nonce \in Nat
  BY DEF Entry
<1> QED
  BY <1>1, <1>2, <1>3, Zenon

\* A session is named by its initiator and a number.
LEMMA IdIs == \A id \in SessionId : id[1] \in Initiators /\ id[2] \in 1..MaxSessions /\ id[2] \in Nat
BY RelaySystemAssumption DEF RelaySystemAssumption, SessionId

\* An initiator has built a number of sessions.
LEMMA BuiltIs ==
    ASSUME NEW e \in Entry \union {NoSession}
    PROVE  (IF e = NoSession THEN 0 ELSE e.id[2]) \in Nat
<1>1. CASE e = NoSession
  BY <1>1
<1>2. CASE e \in Entry
  <2>1. e # NoSession /\ e.id[2] \in Nat
    BY <1>2, EntryIs, IdIs
  <2> QED
    BY <2>1
<1> QED
  BY <1>1, <1>2

\* The session that p sends its frame on: the one it has, or the next one.
LEMMA AcquiredIs ==
    ASSUME SystemOK, NEW p \in Initiators, Acquired(p).id[2] <= MaxSessions
    PROVE  LET s == Acquired(p)
           IN  /\ s.id \in SessionId /\ s.id[1] = p /\ s.nonce \in Nat /\ s.created \in Nat
               /\ [s EXCEPT !.nonce = @ + 1, !.unsent = FALSE] \in Entry
               /\ [s EXCEPT !.nonce = @ + 1, !.unsent = FALSE].id = s.id
               /\ Built(p) <= s.id[2] /\ (s.unsent => Built(p) < s.id[2])
<1> DEFINE s == Acquired(p)
           e == [s EXCEPT !.nonce = @ + 1, !.unsent = FALSE]
<1>1. Built(p) \in Nat
  BY BuiltIs DEF Built, SystemOK
<1>2. CASE Usable(p)
  <2>1. s = pool[p] /\ pool[p] \in Entry /\ pool[p].id[1] = p /\ pool[p].id[2] = Built(p)
    BY <1>2 DEF Acquired, Usable, SystemOK, Built
  <2>2. s.id \in SessionId /\ s.nonce \in Nat /\ s.created \in Nat /\ ~s.unsent
    BY <2>1, EntryIs
  <2>3. e \in Entry /\ e.id = s.id
    <3> HIDE DEF s
    <3>1. s \in Entry /\ s.nonce + 1 \in Nat
      BY <2>1, <2>2
    <3> QED
      BY <3>1 DEF Entry
  <2> QED
    BY <1>1, <2>1, <2>2, <2>3
<1>3. CASE ~Usable(p)
  <2>1. s = [valid |-> TRUE, id |-> <<p, Built(p) + 1>>, created |-> now, nonce |-> 0, unsent |-> TRUE]
    BY <1>3 DEF Acquired
  <2>2. now \in Nat /\ MaxSessions \in Nat
    BY RelaySystemAssumption DEF RelaySystemAssumption, SystemOK
  <2> HIDE DEF s
  <2>3. s.id = <<p, Built(p) + 1>> /\ s.nonce = 0 /\ s.created = now
    BY <2>1
  <2>4. s.id \in SessionId
    <3>1. Built(p) + 1 \in 1..MaxSessions
      BY <1>1, <2>2, <2>3 DEF s
    <3> QED
      BY <2>3, <3>1 DEF SessionId
  <2>5. e \in Entry /\ e.id = s.id
    <3>1. s \in [valid : {TRUE}, id : SessionId, created : Nat, nonce : Nat, unsent : {TRUE}]
      BY <2>1, <2>2, <2>3, <2>4
    <3>2. s.nonce + 1 \in Nat
      BY <2>3
    <3> QED
      BY <3>1, <3>2 DEF Entry
  <2> QED
    BY <1>1, <2>2, <2>3, <2>4, <2>5 DEF s
<1> QED
  BY <1>2, <1>3

\* Of the relay and what it passed on nothing changes when a frame is sent, with the
\* CREATE_SESSION before it or not, or is lost before it is sent.
LEMMA SendKeeps ==
    ASSUME TableInv, NEW p \in Initiators, SendFrame(p) \/ SendFrameUnconnected(p)
    PROVE  TableInv'
<1> DEFINE s == Acquired(p)
           e == [s EXCEPT !.nonce = @ + 1, !.unsent = FALSE]
           more == {DataMsg(p, s.id, s.nonce)} \union (IF s.unsent THEN {CreateMsg(p, s.id)} ELSE {})
<1>1. /\ s.id[2] <= MaxSessions /\ pool' = [pool EXCEPT ![p] = e]
      /\ net' \subseteq net \union more
      /\ UNCHANGED <<relay, delivered, admissions, now, sweepAt>>
  BY DEF SendFrame, SendFrameUnconnected
<1>2. /\ s.id \in SessionId /\ s.id[1] = p /\ s.nonce \in Nat /\ e \in Entry /\ e.id = s.id
      /\ Built(p) <= s.id[2] /\ (s.unsent => Built(p) < s.id[2])
  BY <1>1, AcquiredIs DEF TableInv
<1> HIDE DEF s, e
<1>3. SystemOK'
  <2>1. pool' \in [Initiators -> Entry \union {NoSession}]
    BY <1>1, <1>2 DEF TableInv, SystemOK
  <2>2. \A i \in Initiators : pool'[i] # NoSession => pool'[i].id[1] = i
    BY <1>1, <1>2 DEF TableInv, SystemOK
  <2>3. \A m \in more : IsMsg(m)
    BY <1>2 DEF IsMsg, DataMsg, CreateMsg
  <2> HIDE DEF more
  <2>4. \A m \in net' : IsMsg(m)
    BY <1>1, <2>3 DEF TableInv, SystemOK
  <2>5. (\A m \in net : IsMsg(m))'
    BY <2>4 DEF IsMsg
  <2> QED
    BY <1>1, <2>1, <2>2, <2>5 DEF TableInv, SystemOK
<1>4. SweepInv'
  BY <1>1 DEF TableInv, SweepInv
<1>5. ASSUME NEW id \in SessionId PROVE Built(id[1]) <= Built(id[1])'
  <2>1. e # NoSession /\ id[1] \in Initiators /\ pool'[id[1]] = IF id[1] = p THEN e ELSE pool[id[1]]
    BY <1>1, <1>2, EntryIs, IdIs DEF TableInv, SystemOK
  <2>2. CASE id[1] = p
    BY <1>2, <2>1, <2>2 DEF Built
  <2>3. CASE id[1] # p
    <3>1. Built(id[1])' = Built(id[1])
      BY <2>1, <2>3 DEF Built
    <3>2. Built(id[1]) \in Nat
      BY <2>1, BuiltIs DEF Built, TableInv, SystemOK
    <3> QED
      BY <3>1, <3>2
  <2> QED
    BY <2>2, <2>3
<1>6. ASSUME NEW id \in SessionId, CreateMsg(id[1], id) \in net', CreateMsg(id[1], id) \notin net
      PROVE  id = s.id /\ s.unsent
  BY <1>1, <1>6 DEF CreateMsg, DataMsg
<1>7. Built(p)' = s.id[2]
  BY <1>1, <1>2, EntryIs DEF Built, TableInv, SystemOK
<1>8. SessionInv'
  <2> SUFFICES ASSUME NEW id \in SessionId
               PROVE  /\ Known(id)' => id[2] <= Built(id[1])'
                      /\ CreateMsg(id[1], id) \in net' => delivered[id] = <<>> /\ ~HasSession(relay, id)
    BY <1>1 DEF SessionInv, TableInv, HasSession
  <2>1. id[2] \in Nat /\ Built(id[1]) \in Nat /\ Built(id[1])' \in Nat
    <3>1. \A q \in Initiators : Built(q) \in Nat
      BY BuiltIs DEF Built, TableInv, SystemOK
    <3>2. \A q \in Initiators : Built(q)' \in Nat
      BY <1>3, BuiltIs DEF Built, SystemOK
    <3> QED
      BY <3>1, <3>2, IdIs
  <2>2. CASE CreateMsg(id[1], id) \in net' /\ CreateMsg(id[1], id) \notin net
    <3>1. id = s.id /\ s.unsent
      BY <1>6, <2>2
    <3>2. Built(p) < id[2]
      BY <1>2, <3>1
    <3>3. ~Known(id)
      BY <1>2, <2>1, <3>1, <3>2 DEF TableInv, SessionInv
    <3> QED
      BY <1>2, <1>7, <2>1, <3>1, <3>3 DEF Known
  <2>3. CASE ~(CreateMsg(id[1], id) \in net' /\ CreateMsg(id[1], id) \notin net)
    <3>1. Known(id)' => Known(id)
      BY <1>1, <2>3 DEF Known, HasSession
    <3>2. Known(id) => id[2] <= Built(id[1])
      BY DEF TableInv, SessionInv
    <3> QED
      BY <1>5, <2>1, <2>3, <3>1, <3>2 DEF TableInv, SessionInv
  <2> QED
    BY <2>2, <2>3
<1> QED
  BY <1>3, <1>4, <1>8 DEF TableInv

\* A CREATE_SESSION arrives: nothing of the session was passed on before, and no other
\* message asks for it.
LEMMA RecvCreateKeeps == ASSUME TableInv, NEW m \in net, RecvCreate(m) PROVE TableInv'
<1> DEFINE new == SessionCircuit(m.from, m.id, now)
<1>1. /\ m.id \in SessionId /\ m.from = m.id[1] /\ m.from \in Peers
      /\ m = CreateMsg(m.id[1], m.id)
  <2>1. IsMsg(m) /\ m.type = "CREATE_SESSION"
    BY DEF TableInv, SystemOK, RecvCreate
  <2>2. m = CreateMsg(m.from, m.id)
    BY <2>1 DEF IsMsg, DataMsg
  <2> QED
    BY <2>1, <2>2, IdIs, RelaySystemAssumption DEF IsMsg, RelaySystemAssumption
<1>2. relay' = CreateSession(relay, m.from, m.id, now)
  BY DEF RecvCreate
<1>3. /\ RelayOK(relay') /\ (relay'.slots = relay.slots \/ Sessions(relay, m.from, m.id) = {})
      /\ \A i \in Slot : relay'.slots[i] \in {relay.slots[i], new}
  BY <1>1, <1>2, CreateSessionKeeps DEF TableInv, SystemOK
<1>4. net' = net \ {m} /\ UNCHANGED <<pool, delivered, now, sweepAt>>
  BY DEF RecvCreate
<1>5. new.kind = "session" /\ new.id = m.id /\ new.created = now /\ new.activity = now
  BY DEF SessionCircuit
<1> HIDE DEF new
<1>6. Aged(relay', relay, now)
  BY <1>3, <1>5 DEF Aged, Active
<1>7. SystemOK'
  BY <1>3, <1>4 DEF TableInv, SystemOK, IsMsg
<1>8. SweepInv'
  BY <1>4, <1>6, AgedSweeps DEF TableInv
<1>9. delivered[m.id] = <<>> /\ Known(m.id)
  BY <1>1 DEF TableInv, SessionInv, Known
<1>10. CreateMsg(m.id[1], m.id) \notin net'
  BY <1>1, <1>4
<1>11. SessionInv'
  <2> SUFFICES ASSUME NEW id \in SessionId
               PROVE  /\ Known(id)' => id[2] <= Built(id[1])
                      /\ CreateMsg(id[1], id) \in net' => delivered[id] = <<>> /\ ~HasSession(relay', id)
                      /\ \A i \in Active(relay') :
                             relay'.slots[i].kind = "session" /\ relay'.slots[i].id = id
                             => \A k \in DOMAIN delivered[id] : delivered[id][k] < relay'.slots[i].nonce
    BY <1>4 DEF SessionInv, TableInv, Built
  <2>1. CASE id = m.id
    <3>1. DOMAIN delivered[id] = {}
      BY <1>9, <2>1
    <3>2. id[2] <= Built(id[1])
      BY <1>9, <2>1 DEF TableInv, SessionInv
    <3> QED
      BY <1>10, <2>1, <3>1, <3>2
  <2>2. CASE id # m.id
    <3>1. \A i \in Active(relay') : relay'.slots[i].kind = "session" /\ relay'.slots[i].id = id
              => i \in Active(relay) /\ relay'.slots[i] = relay.slots[i]
      BY <1>3, <1>5, <2>2 DEF Active
    <3>2. HasSession(relay', id) => HasSession(relay, id)
      BY <3>1 DEF HasSession
    <3>3. Known(id)' => Known(id)
      BY <1>4, <3>2 DEF Known
    <3> QED
      BY <1>4, <3>1, <3>2, <3>3 DEF TableInv, SessionInv
  <2> QED
    BY <2>1, <2>2
<1> QED
  BY <1>7, <1>8, <1>11 DEF TableInv

\* A frame arrives: it is passed on only past everything that was.
LEMMA RecvDataKeeps == ASSUME TableInv, NEW m \in net, RecvData(m) PROVE TableInv'
<1> DEFINE id0 == m.id
           n == m.nonce
<1>1. /\ id0 \in SessionId /\ m.from = id0[1] /\ m.from \in Peers /\ n \in Nat
  <2>1. IsMsg(m) /\ m.type = "SESSION_DATA"
    BY DEF TableInv, SystemOK, RecvData
  <2>2. m # CreateMsg(m.from, m.id)
    BY <2>1 DEF CreateMsg
  <2> QED
    BY <2>1, <2>2, IdIs, RelaySystemAssumption DEF IsMsg, RelaySystemAssumption
<1>2. /\ net' = net \ {m} /\ UNCHANGED <<pool, now, sweepAt>>
      /\ relay' = SessionData(relay, m.from, id0, n, now)
      /\ delivered' = IF AcceptsData(relay, m.from, id0, n)
                      THEN [delivered EXCEPT ![id0] = Append(@, n)] ELSE delivered
  BY DEF RecvData
<1>3. CASE ~AcceptsData(relay, m.from, id0, n)
  <2>1. relay' = relay /\ delivered' = delivered
    BY <1>2, <1>3 DEF SessionData
  <2>2. SystemOK' /\ SweepInv'
    BY <1>2, <2>1 DEF TableInv, SystemOK, SweepInv, IsMsg
  <2>3. SessionsKept(relay', relay) /\ RelayOK(relay')
    BY <2>1 DEF SessionsKept, TableInv, SystemOK
  <2>4. SessionInv'
    BY <1>2, <2>1, <2>3, SessionsStay DEF TableInv
  <2> QED
    BY <2>2, <2>4 DEF TableInv
<1>4. CASE AcceptsData(relay, m.from, id0, n)
  <2>1. delivered' = [delivered EXCEPT ![id0] = Append(@, n)]
    BY <1>2, <1>4
  <2>2. RelayOK(relay') /\ FrameTaken(relay', relay, id0, n, now)
    BY <1>1, <1>2, <1>4, SessionDataKeeps DEF TableInv, SystemOK
  <2>3. PICK i \in Active(relay) :
               /\ relay.slots[i].kind = "session" /\ relay.slots[i].id = id0 /\ n >= relay.slots[i].nonce
               /\ Refreshed(relay'.slots[i], relay.slots[i], now) /\ relay'.slots[i].nonce = n + 1
               /\ \A j \in Slot \ {i} : relay'.slots[j] = relay.slots[j]
    BY <2>2 DEF FrameTaken
  <2>4. relay.slots[i] \in Session /\ relay.slots[i].nonce \in Nat
    <3>1. relay.slots[i] \in Circuit
      BY ActiveIs DEF TableInv, SystemOK, RelayOK
    <3> QED
      BY <2>3, <3>1 DEF Circuit, Onion, Session
  <2>5. Aged(relay', relay, now)
    BY <2>3 DEF Aged, Active, Refreshed
  <2>6. delivered[id0] \in Seq(Nat) /\ delivered'[id0] = Append(delivered[id0], n)
    BY <1>1, <2>1 DEF TableInv, SystemOK
  <2>7. /\ delivered'[id0] \in Seq(Nat) /\ Len(delivered[id0]) \in Nat
        /\ DOMAIN delivered'[id0] = 1..Len(delivered[id0]) + 1 /\ DOMAIN delivered[id0] = 1..Len(delivered[id0])
        /\ delivered'[id0][Len(delivered[id0]) + 1] = n
        /\ \A k \in 1..Len(delivered[id0]) : delivered'[id0][k] = delivered[id0][k] /\ delivered[id0][k] \in Nat
    BY <1>1, <2>6, AppendProperties, LenProperties, ElementOfSeq, SMTT(60)
  <2>8. SystemOK'
    <3>1. delivered' \in [SessionId -> Seq(Nat)]
      BY <1>1, <2>1, <2>6, <2>7 DEF TableInv, SystemOK
    <3>2. pool' = pool /\ now' = now /\ \A x \in net' : IsMsg(x)
      BY <1>2 DEF TableInv, SystemOK
    <3> QED
      BY <2>2, <3>1, <3>2 DEF TableInv, SystemOK, IsMsg
  <2>9. SweepInv'
    BY <1>2, <2>5, AgedSweeps DEF TableInv
  <2>10. \A k \in 1..Len(delivered[id0]) : delivered[id0][k] < relay.slots[i].nonce
    BY <1>1, <2>3, <2>7 DEF TableInv, SessionInv
  <2>11. HasSession(relay, id0) /\ Known(id0) /\ id0[2] <= Built(id0[1])
    BY <1>1, <2>3 DEF HasSession, Known, TableInv, SessionInv
  <2>12. CreateMsg(id0[1], id0) \notin net
    BY <1>1, <2>11 DEF TableInv, SessionInv
  <2>13. \A j \in Active(relay') : relay'.slots[j].kind = "session" =>
             /\ j \in Active(relay) /\ relay.slots[j].kind = "session"
             /\ relay.slots[j].id = relay'.slots[j].id
             /\ j # i => relay'.slots[j] = relay.slots[j] /\ relay.slots[j].id # id0
    <3>1. \A j \in Active(relay) : j # i => ~Same(relay.slots[i], relay.slots[j])
      BY DEF TableInv, SystemOK, RelayOK
    <3> QED
      BY <2>3, <3>1 DEF Active, Refreshed, Same
  <2>14. ASSUME NEW id \in SessionId
         PROVE  /\ Known(id)' => id[2] <= Built(id[1])'
                /\ CreateMsg(id[1], id) \in net' => delivered'[id] = <<>> /\ ~HasSession(relay', id)
                /\ \A j \in Active(relay') :
                       relay'.slots[j].kind = "session" /\ relay'.slots[j].id = id
                       => \A k \in DOMAIN delivered'[id] : delivered'[id][k] < relay'.slots[j].nonce
                /\ \A j, k \in DOMAIN delivered'[id] : j < k => delivered'[id][j] < delivered'[id][k]
    <3>1. Built(id[1])' = Built(id[1])
      BY <1>2 DEF Built
    <3>2. HasSession(relay', id) => HasSession(relay, id)
      BY <2>13 DEF HasSession
    <3>3. CASE id = id0
      <4>1. \A j \in Active(relay') : relay'.slots[j].kind = "session" /\ relay'.slots[j].id = id0 => j = i
        BY <2>13
      <4>2. \A k \in DOMAIN delivered'[id0] : delivered'[id0][k] < n + 1
        <5>1. \A k \in 1..Len(delivered[id0]) : delivered'[id0][k] < n + 1
          <6>1. \A k \in 1..Len(delivered[id0]) : delivered[id0][k] \in Nat /\ delivered'[id0][k] = delivered[id0][k]
            BY <2>7
          <6> QED
            BY <1>1, <2>3, <2>4, <2>10, <6>1
        <5>2. \A k \in DOMAIN delivered'[id0] : k \in 1..Len(delivered[id0]) \/ k = Len(delivered[id0]) + 1
          BY <2>7
        <5>3. delivered'[id0][Len(delivered[id0]) + 1] < n + 1
          BY <1>1, <2>7
        <5> QED
          BY <5>1, <5>2, <5>3
      <4>3. \A j, k \in 1..Len(delivered[id0]) : j < k => delivered[id0][j] < delivered[id0][k]
        BY <1>1, <2>7 DEF TableInv, SessionInv
      <4>4. \A j, k \in DOMAIN delivered'[id0] : j < k => delivered'[id0][j] < delivered'[id0][k]
        <5> SUFFICES ASSUME NEW j \in 1..Len(delivered[id0]) + 1, NEW k \in 1..Len(delivered[id0]) + 1, j < k
                     PROVE  delivered'[id0][j] < delivered'[id0][k]
          BY <2>7
        <5>1. j \in 1..Len(delivered[id0])
          BY <2>7
        <5>2. CASE k = Len(delivered[id0]) + 1
          BY <1>1, <2>3, <2>4, <2>7, <2>10, <5>1, <5>2, SMTT(60)
        <5>3. CASE k # Len(delivered[id0]) + 1
          <6>1. k \in 1..Len(delivered[id0])
            BY <2>7, <5>3
          <6> QED
            BY <2>7, <4>3, <5>1, <6>1
        <5> QED
          BY <5>2, <5>3
      <4>5. CreateMsg(id0[1], id0) \notin net'
        BY <1>2, <2>12
      <4> QED
        BY <2>3, <2>11, <3>1, <3>3, <4>1, <4>2, <4>4, <4>5
    <3>4. CASE id # id0
      <4>1. delivered'[id] = delivered[id]
        BY <2>1, <3>4 DEF TableInv, SystemOK
      <4>2. Known(id)' => Known(id)
        BY <1>2, <3>2, <4>1 DEF Known
      <4>3. \A j \in Active(relay') : relay'.slots[j].kind = "session" /\ relay'.slots[j].id = id
                => j \in Active(relay) /\ relay'.slots[j] = relay.slots[j]
        BY <2>3, <2>13, <3>4 DEF Refreshed
      <4>4. \A j \in Active(relay) : relay.slots[j].kind = "session" /\ relay.slots[j].id = id
                => \A k \in DOMAIN delivered[id] : delivered[id][k] < relay.slots[j].nonce
        BY DEF TableInv, SessionInv
      <4>5. /\ Known(id) => id[2] <= Built(id[1])
            /\ CreateMsg(id[1], id) \in net => delivered[id] = <<>> /\ ~HasSession(relay, id)
            /\ \A j, k \in DOMAIN delivered[id] : j < k => delivered[id][j] < delivered[id][k]
        BY DEF TableInv, SessionInv
      <4>6. \A j \in Active(relay') :
                relay'.slots[j].kind = "session" /\ relay'.slots[j].id = id
                => \A k \in DOMAIN delivered[id] : delivered[id][k] < relay'.slots[j].nonce
        BY <4>3, <4>4
      <4>7. CreateMsg(id[1], id) \in net' => CreateMsg(id[1], id) \in net
        BY <1>2
      <4> QED
        BY <3>1, <3>2, <4>1, <4>2, <4>5, <4>6, <4>7
    <3> QED
      BY <3>3, <3>4
  <2>15. SessionInv'
    BY <2>14 DEF SessionInv
  <2> QED
    BY <2>8, <2>9, <2>15 DEF TableInv
<1> QED
  BY <1>3, <1>4

-----------------------------------------------------------------------------
(* The rate of admissions.                                                 *)

Distinct(rates) == \A i, j \in DOMAIN rates : rates[i].peer = rates[j].peer => i = j

\* A peer without an entry finds a free slot when there is one for every peer.
LEMMA FreeRateSlot ==
    ASSUME NEW rates \in Seq(Rate), Distinct(rates), NEW p \in Peers, RateOf(rates, p) = {},
           Cardinality(Peers) <= RateSlots
    PROVE  Len(rates) < RateSlots
<1> DEFINE D == 1..Len(rates)
           others == Peers \ {p}
           f == [i \in D |-> rates[i].peer]
<1>1. Len(rates) \in Nat /\ DOMAIN rates = D /\ \A i \in D : rates[i] \in Rate
  BY LenProperties, ElementOfSeq
<1>2. IsFiniteSet(Peers) /\ RateSlots \in Nat
  BY RelayAssumption, RelaySystemAssumption DEF RelayAssumption, RelaySystemAssumption
<1>3. IsFiniteSet(others) /\ Cardinality(others) = Cardinality(Peers) - 1
  BY <1>2, FS_RemoveElement
<1>4. f \in Injection(D, others)
  <2>1. f \in [D -> others]
    BY <1>1 DEF RateOf, Rate
  <2>2. \A i, j \in D : f[i] = f[j] => i = j
    BY <1>1 DEF Distinct
  <2> HIDE DEF f
  <2> QED
    BY <2>1, <2>2 DEF Injection, IsInjective
<1>5. Cardinality(D) <= Cardinality(others)
  BY <1>3, <1>4, FS_Injection
<1>6. Cardinality(D) = Len(rates)
  <2>1. 1 \in Int /\ Len(rates) \in Int /\ (IF 1 > Len(rates) THEN 0 ELSE Len(rates) - 1 + 1) = Len(rates)
    BY <1>1
  <2> QED
    BY <2>1, FS_Interval
<1>7. Cardinality(Peers) \in Nat
  BY <1>2, FS_CardinalityType
<1> QED
  BY <1>1, <1>2, <1>3, <1>5, <1>6, <1>7

\* c is rates with the entry of p at k, which is the one it had, one for a new window, or a
\* new one.
IsClaimed(c, rates, p, t, k) ==
    /\ k \in DOMAIN c /\ c[k].peer = p /\ c \in Seq(Rate)
    /\ DOMAIN rates \subseteq DOMAIN c
    /\ \A i \in DOMAIN c \ {k} : i \in DOMAIN rates /\ c[i] = rates[i] /\ c[i].peer # p
    /\ \/ k \in DOMAIN rates /\ c[k] = rates[k]
       \/ /\ k \in DOMAIN rates /\ rates[k].peer = p /\ t - rates[k].start >= PeerWindow
          /\ c[k] = [peer |-> p, start |-> t, count |-> 0]
       \/ /\ k \notin DOMAIN rates /\ RateOf(rates, p) = {}
          /\ c[k] = [peer |-> p, start |-> t, count |-> 0]

\* In a table without duplicates, and with room, claiming changes the entry of the peer only.
LEMMA ClaimedForPeer ==
    ASSUME NEW rates \in Seq(Rate), Distinct(rates), NEW p \in Peers, NEW t \in Nat,
           Cardinality(Peers) <= RateSlots, Len(rates) <= RateSlots
    PROVE  IsClaimed(Claimed(rates, p, t), rates, p, t, RateIndex(Claimed(rates, p, t), p))
<1> DEFINE fresh == [peer |-> p, start |-> t, count |-> 0]
           c == Claimed(rates, p, t)
           k == RateIndex(c, p)
<1>1. c \in Seq(Rate) /\ k \in DOMAIN c /\ c[k].peer = p
  BY ClaimedIs
<1>2. fresh \in Rate /\ fresh.peer = p
  BY DEF Rate
<1>3. CASE RateOf(rates, p) # {}
  <2> DEFINE h == RateIndex(rates, p)
  <2>1. h \in DOMAIN rates /\ rates[h].peer = p
    BY <1>3, RateIndexIn
  <2>2. c = rates \/ (t - rates[h].start >= PeerWindow /\ c = [rates EXCEPT ![h] = fresh])
    BY <1>3 DEF Claimed, RateIndex
  <2> HIDE DEF c, k, h, fresh
  <2>3. \A i \in DOMAIN rates : i # h => rates[i].peer # p
    BY <2>1 DEF Distinct
  <2>4. CASE c = rates
    <3>1. k = h
      BY <1>1, <2>1, <2>3, <2>4
    <3> QED
      BY <1>1, <2>3, <2>4, <3>1 DEF IsClaimed, c, k
  <2>5. CASE t - rates[h].start >= PeerWindow /\ c = [rates EXCEPT ![h] = fresh]
    <3>1. /\ DOMAIN c = DOMAIN rates /\ c[h] = fresh
          /\ \A i \in DOMAIN rates \ {h} : c[i] = rates[i]
      BY <1>2, <2>1, <2>5, ExceptRate
    <3>2. k = h
      BY <1>1, <2>1, <2>3, <3>1
    <3> QED
      BY <1>1, <2>1, <2>3, <2>5, <3>1, <3>2 DEF IsClaimed, c, k, fresh
  <2> QED
    BY <2>2, <2>4, <2>5
<1>4. CASE RateOf(rates, p) = {}
  <2>1. Len(rates) < RateSlots
    BY <1>4, FreeRateSlot
  <2>2. c = Append(rates, fresh)
    BY <1>4, <2>1 DEF Claimed
  <2>3. /\ Len(rates) \in Nat /\ DOMAIN rates = 1..Len(rates)
        /\ DOMAIN Append(rates, fresh) = 1..Len(rates) + 1
        /\ Append(rates, fresh)[Len(rates) + 1] = fresh
        /\ \A i \in 1..Len(rates) : Append(rates, fresh)[i] = rates[i]
    BY <1>2, AppendProperties, LenProperties
  <2> HIDE DEF c, k, fresh
  <2>4. \A i \in DOMAIN c : i \in DOMAIN rates \/ i = Len(rates) + 1
    BY <2>2, <2>3
  <2>5. \A i \in DOMAIN rates : rates[i].peer # p /\ i \in DOMAIN c /\ c[i] = rates[i] /\ i # Len(rates) + 1
    BY <1>4, <2>2, <2>3 DEF RateOf
  <2>6. k = Len(rates) + 1 /\ c[k] = fresh
    <3>1. k = Len(rates) + 1
      BY <1>1, <2>4, <2>5
    <3> QED
      BY <2>2, <2>3, <3>1
  <2> QED
    BY <1>1, <1>4, <2>4, <2>5, <2>6 DEF IsClaimed, c, k, fresh
<1> QED
  BY <1>3, <1>4

\* What the rates say when the peer's window is the one that contains now: an admission
\* before it is out of the last window's length, and the one that it replaced counted the rest.
LEMMA ClaimedWithin ==
    ASSUME SystemOK, RateInv, Cardinality(Peers) <= RateSlots, NEW p \in Peers,
           NEW c, NEW k, IsClaimed(c, relay.rates, p, now, k)
    PROVE  c[k] \in Rate /\ c[k].count <= PeerLimit /\ Within(admissions[p], c[k].start, c[k].count)
<1> DEFINE A == admissions[p]
           R == relay.rates
<1>1. /\ A \in Seq(Nat) /\ Len(A) \in Nat /\ DOMAIN A = 1..Len(A)
      /\ \A i \in 1..Len(A) : A[i] \in Nat /\ A[i] <= now /\ now < A[i] + PeerWindow
  <2>1. A \in Seq(Nat)
    BY DEF RateInv
  <2>2. \A i \in DOMAIN A : A[i] <= now /\ now < A[i] + PeerWindow
    BY DEF RateInv
  <2> QED
    BY <2>1, <2>2, LenProperties, ElementOfSeq
<1>2. PeerLimit \in Nat /\ PeerWindow \in Nat /\ now \in Nat /\ R \in Seq(Rate)
  BY RelayAssumption DEF RelayAssumption, SystemOK, RelayOK, RelayState
<1>3. c[k] \in Rate
  <2>1. c \in Seq(Rate) /\ k \in DOMAIN c
    BY DEF IsClaimed
  <2> QED
    BY <2>1, LenProperties, ElementOfSeq
<1>4. CASE k \in DOMAIN R /\ c[k] = R[k]
  <2>1. R[k].peer = p
    BY <1>4 DEF IsClaimed
  <2> QED
    BY <1>3, <1>4, <2>1 DEF RateInv
<1>5. CASE /\ k \in DOMAIN R /\ R[k].peer = p /\ now - R[k].start >= PeerWindow
           /\ c[k] = [peer |-> p, start |-> now, count |-> 0]
  <2>1. R[k] \in Rate /\ R[k].count <= PeerLimit /\ Within(A, R[k].start, R[k].count)
    BY <1>2, <1>5, LenProperties, ElementOfSeq DEF RateInv
  <2>2. PICK j \in 0..Len(A) : Len(A) - j <= R[k].count /\ \A i \in 1..j : A[i] <= R[k].start
    BY <2>1 DEF Within
  <2>3. R[k].start \in Nat /\ R[k].count \in Nat
    BY <2>1 DEF Rate
  <2>4. j = 0
    <3> SUFFICES ASSUME j # 0 PROVE FALSE
      OBVIOUS
    <3>1. 1 \in 1..j /\ 1 \in 1..Len(A)
      BY <1>1, <2>2
    <3>2. A[1] <= R[k].start /\ A[1] \in Nat /\ now < A[1] + PeerWindow
      BY <1>1, <2>2, <3>1
    <3> QED
      BY <1>2, <1>5, <2>3, <3>2
  <2>5. Len(A) <= PeerLimit
    BY <1>1, <1>2, <2>1, <2>2, <2>3, <2>4
  <2>6. c[k].start = now /\ c[k].count = 0
    BY <1>5
  <2>7. Within(A, now, 0)
    <3>1. Len(A) \in 0..Len(A) /\ Len(A) - Len(A) <= 0
      BY <1>1
    <3> QED
      BY <1>1, <2>5, <3>1 DEF Within
  <2> QED
    BY <1>2, <1>3, <2>6, <2>7
<1>6. CASE RateOf(R, p) = {} /\ c[k] = [peer |-> p, start |-> now, count |-> 0]
  <2>1. A = <<>>
    BY <1>6 DEF RateInv
  <2>2. Within(A, now, 0)
    <3>1. Len(A) = 0
      BY <2>1, EmptySeq
    <3> QED
      BY <1>2, <3>1 DEF Within
  <2>3. c[k].start = now /\ c[k].count = 0
    BY <1>6
  <2> QED
    BY <1>2, <1>3, <2>2, <2>3
<1> QED
  BY <1>4, <1>5, <1>6 DEF IsClaimed

\* One more admission is within one more count.
LEMMA WithinOneMore ==
    ASSUME NEW A \in Seq(Nat), NEW t \in Nat, NEW s \in Nat, NEW n \in Nat, Within(A, s, n)
    PROVE  Within(Append(A, t), s, n + 1)
<1>1. /\ Len(A) \in Nat /\ Len(Append(A, t)) = Len(A) + 1
      /\ \A i \in 1..Len(A) : Append(A, t)[i] = A[i]
  BY AppendProperties, LenProperties
<1>2. PICK k \in 0..Len(A) : k <= PeerLimit /\ Len(A) - k <= n /\ \A i \in 1..k : A[i] <= s
  BY DEF Within
<1>3. k \in 0..Len(A) + 1 /\ Len(A) + 1 - k <= n + 1 /\ \A i \in 1..k : i \in 1..Len(A)
  BY <1>1, <1>2
<1>4. \A i \in 1..k : Append(A, t)[i] <= s
  BY <1>1, <1>2, <1>3
<1> QED
  BY <1>1, <1>2, <1>3, <1>4 DEF Within

\* An attempt to open a circuit for p keeps the rates, whether or not it is admitted.
LEMMA AttemptKeeps ==
    ASSUME SystemOK, RateInv, Cardinality(Peers) <= RateSlots, NEW p \in Peers,
           relay'.rates = CheckedRate(relay, p, now).rates, admissions' = Recorded(p), now' = now
    PROVE  RateInv'
<1> DEFINE R == relay.rates
           c == Claimed(R, p, now)
           k == RateIndex(c, p)
           more == [c EXCEPT ![k].count = @ + 1]
           g == GlobalRolled(relay, now)
<1>1. /\ R \in Seq(Rate) /\ Len(R) <= RateSlots /\ now \in Nat /\ relay \in RelayState
      /\ g \in RelayState /\ g.rates = R
  BY DEF SystemOK, RelayOK, RelayState, GlobalRolled
<1>2. IsClaimed(c, R, p, now, k)
  <2>1. Distinct(R)
    BY DEF RateInv, Distinct
  <2> QED
    BY <1>1, <2>1, ClaimedForPeer
<1>3. c[k] \in Rate /\ c[k].count <= PeerLimit /\ Within(admissions[p], c[k].start, c[k].count)
  BY <1>2, ClaimedWithin
<1>4. CASE ~GlobalOpen(relay, now)
  <2>1. relay'.rates = R
    BY <1>1, <1>4 DEF CheckedRate
  <2>2. admissions' = admissions
    BY <1>4 DEF Recorded, Admits
  <2> QED
    BY <2>1, <2>2 DEF RateInv
<1>5. CASE GlobalOpen(relay, now) /\ ~Admits(relay, p, now)
  <2>1. relay'.rates = c
    <3>1. relay'.rates = [g EXCEPT !.rates = c].rates
      BY <1>5 DEF CheckedRate
    <3> HIDE DEF g, c
    <3> QED
      BY <1>1, <3>1 DEF RelayState
  <2>2. admissions' = admissions
    BY <1>5 DEF Recorded
  <2> HIDE DEF c, k, R
  <2>3. \A i, j \in DOMAIN c : c[i].peer = c[j].peer => i = j
    BY <1>2 DEF RateInv, IsClaimed, R
  <2>4. \A i \in DOMAIN c : c[i].count <= PeerLimit /\ Within(admissions[c[i].peer], c[i].start, c[i].count)
    BY <1>2, <1>3 DEF RateInv, IsClaimed, R
  <2>5. \A q \in Peers : RateOf(c, q) = {} => admissions[q] = <<>>
    <3> SUFFICES ASSUME NEW q \in Peers, RateOf(c, q) = {} PROVE RateOf(R, q) = {}
      BY DEF RateInv, R
    <3>1. q # p
      BY <1>2 DEF IsClaimed, RateOf
    <3> QED
      BY <1>2, <3>1 DEF IsClaimed, RateOf
  <2> QED
    BY <2>1, <2>2, <2>3, <2>4, <2>5 DEF RateInv
<1>6. CASE GlobalOpen(relay, now) /\ Admits(relay, p, now)
  <2>1. relay'.rates = more
    <3>1. relay'.rates = [g EXCEPT !.rates = more, !.admitted = @ + 1].rates
      BY <1>6 DEF CheckedRate, RateIndex
    <3> HIDE DEF g, more
    <3> QED
      BY <1>1, <3>1 DEF RelayState
  <2>2. c[k].count < PeerLimit
    BY <1>6 DEF Admits, RateIndex
  <2>3. admissions' = [admissions EXCEPT ![p] = Append(@, now)]
    BY <1>6 DEF Recorded
  <2> HIDE DEF c, k, R, g
  <2>4. /\ DOMAIN more = DOMAIN c /\ more[k].peer = p /\ more[k].start = c[k].start
        /\ more[k].count = c[k].count + 1 /\ \A i \in DOMAIN c \ {k} : more[i] = c[i]
    BY <1>2, <1>3 DEF IsClaimed, Rate
  <2> HIDE DEF more
  <2>5. /\ admissions \in [Peers -> Seq(Nat)] /\ admissions'[p] = Append(admissions[p], now)
        /\ \A q \in Peers \ {p} : admissions'[q] = admissions[q]
    BY <2>3 DEF RateInv
  <2>6. /\ Len(admissions[p]) \in Nat /\ DOMAIN admissions[p] = 1..Len(admissions[p])
        /\ admissions'[p] \in Seq(Nat) /\ DOMAIN admissions'[p] = 1..Len(admissions[p]) + 1
        /\ admissions'[p][Len(admissions[p]) + 1] = now
        /\ \A i \in 1..Len(admissions[p]) : admissions'[p][i] = admissions[p][i]
    BY <1>1, <2>5, AppendProperties, LenProperties
  <2>7. admissions' \in [Peers -> Seq(Nat)]
    BY <2>3, <2>5, <2>6
  <2>8. \A q \in Peers : \A i \in DOMAIN admissions'[q] :
            admissions'[q][i] <= now /\ now < admissions'[q][i] + PeerWindow
    <3>1. PeerWindow \in Nat \ {0}
      BY RelayAssumption DEF RelayAssumption
    <3>2. now <= now /\ now < now + PeerWindow
      BY <1>1, <3>1
    <3>3. \A i \in DOMAIN admissions'[p] : i \in DOMAIN admissions[p] \/ i = Len(admissions[p]) + 1
      BY <2>6
    <3>4. \A q \in Peers : \A i \in DOMAIN admissions[q] :
              admissions[q][i] <= now /\ now < admissions[q][i] + PeerWindow
      BY DEF RateInv
    <3>5. \A i \in DOMAIN admissions'[p] : admissions'[p][i] <= now /\ now < admissions'[p][i] + PeerWindow
      BY <2>6, <3>2, <3>3, <3>4
    <3> QED
      BY <2>5, <3>4, <3>5
  <2>9. \A i, j \in DOMAIN more : more[i].peer = more[j].peer => i = j
    <3>1. \A i \in DOMAIN c : more[i].peer = c[i].peer
      BY <1>2, <2>4 DEF IsClaimed
    <3>2. \A i, j \in DOMAIN c : c[i].peer = c[j].peer => i = j
      BY <1>2 DEF RateInv, IsClaimed, R
    <3> QED
      BY <2>4, <3>1, <3>2
  <2>10. \A i \in DOMAIN more :
            more[i].count <= PeerLimit /\ Within(admissions'[more[i].peer], more[i].start, more[i].count)
    <3>1. c[k].count + 1 <= PeerLimit /\ c[k].count \in Nat /\ c[k].start \in Nat
      BY <1>3, <2>2, RelayAssumption DEF Rate, RelayAssumption
    <3>2. Within(Append(admissions[p], now), c[k].start, c[k].count + 1)
      BY <1>1, <1>3, <2>5, <3>1, WithinOneMore
    <3>3. ASSUME NEW i \in DOMAIN c \ {k}
          PROVE  more[i].count <= PeerLimit /\ Within(admissions'[more[i].peer], more[i].start, more[i].count)
      <4>1. i \in DOMAIN R /\ more[i] = R[i] /\ R[i].peer # p
        BY <1>2, <2>4 DEF IsClaimed
      <4>2. R[i].peer \in Peers
        <5>1. R[i] \in Rate
          BY <1>1, <4>1, LenProperties, ElementOfSeq
        <5> QED
          BY <5>1 DEF Rate
      <4> QED
        BY <2>5, <4>1, <4>2 DEF RateInv, R
    <3> QED
      BY <2>4, <2>5, <3>1, <3>2, <3>3
  <2>11. \A q \in Peers : RateOf(more, q) = {} => admissions'[q] = <<>>
    <3> SUFFICES ASSUME NEW q \in Peers, RateOf(more, q) = {} PROVE admissions'[q] = <<>>
      OBVIOUS
    <3>1. q # p
      BY <1>2, <2>4 DEF IsClaimed, RateOf
    <3>2. RateOf(R, q) = {}
      BY <1>2, <2>4, <3>1 DEF IsClaimed, RateOf
    <3> QED
      BY <2>5, <3>1, <3>2 DEF RateInv, R
  <2> QED
    BY <2>1, <2>7, <2>8, <2>9, <2>10, <2>11 DEF RateInv
<1> QED
  BY <1>4, <1>5, <1>6

\* A step without an admission keeps the account of rates.
LEMMA RatesUntouched ==
    ASSUME SystemOK, RateInv, relay'.rates = relay.rates, admissions' = admissions, now' = now
    PROVE  RateInv'
BY DEF RateInv

\* Opening a circuit or a session checks the rate once; nothing else touches it.
LEMMA RatesOfCalls ==
    ASSUME NEW r, RelayOK(r), NEW p \in Peers, NEW q \in Peers, NEW t \in Nat
    PROVE  /\ CreateCircuit(r, p, q, t).rates = CheckedRate(r, p, t).rates
           /\ \A id \in SessionId : CreateSession(r, p, id, t).rates = CheckedRate(r, p, t).rates
           /\ \A n \in Nat : Forward(r, p, q, n, t).rates = r.rates
           /\ SendmeTaken(r, p, q).rates = r.rates
           /\ \A id \in SessionId, n \in Nat : SessionData(r, p, id, n, t).rates = r.rates
           /\ \A S : Closed(r, S).rates = r.rates
<1> DEFINE a == CheckedRate(r, p, t)
<1>1. a \in RelayState /\ r \in RelayState
  BY CheckedRateIs DEF RelayOK
<1> HIDE DEF a
<1>2. CreateCircuit(r, p, q, t).rates = a.rates
  BY <1>1 DEF CreateCircuit, a, RelayState
<1>3. \A id \in SessionId : CreateSession(r, p, id, t).rates = a.rates
  BY <1>1 DEF CreateSession, a, RelayState
<1>4. \A n \in Nat : Forward(r, p, q, n, t).rates = r.rates
  BY <1>1 DEF Forward, RelayState
<1>5. SendmeTaken(r, p, q).rates = r.rates
  BY <1>1 DEF SendmeTaken, RelayState
<1>6. \A id \in SessionId, n \in Nat : SessionData(r, p, id, n, t).rates = r.rates
  BY <1>1 DEF SessionData, RelayState
<1>7. \A S : Closed(r, S).rates = r.rates
  BY <1>1 DEF Closed, RelayState
<1> QED
  BY <1>2, <1>3, <1>4, <1>5, <1>6, <1>7 DEF a

\* The times that a tick keeps are those that end the sequence.
LEMMA RecentIs ==
    ASSUME NEW A \in Seq(Nat), now \in Nat
    PROVE  \E k \in 0..Len(A) :
               /\ Recent(A) = SubSeq(A, k + 1, Len(A))
               /\ \A i \in k+1..Len(A) : A[i] > now + 1 - PeerWindow
<1> DEFINE good(k) == \A i \in k+1..Len(A) : A[i] > now + 1 - PeerWindow
           S == {k \in 0..Len(A) : good(k)}
<1>1. Len(A) \in Nat
  BY LenProperties
<1>2. S \subseteq Nat /\ Len(A) \in S
  BY <1>1
<1>3. PICK k \in S : \A j \in S : k <= j
  <2> HIDE DEF S
  <2> QED
    BY <1>2, LeastNatural
<1>4. k # 0 => A[k] <= now + 1 - PeerWindow
  <2> SUFFICES ASSUME k # 0, ~(A[k] <= now + 1 - PeerWindow) PROVE FALSE
    OBVIOUS
  <2>1. k - 1 \in 0..Len(A) /\ k \in 1..Len(A)
    BY <1>1, <1>3
  <2>2. A[k] \in Nat
    BY <2>1, ElementOfSeq
  <2>3. A[k] > now + 1 - PeerWindow
    BY <2>2, RelayAssumption, SMTT(60) DEF RelayAssumption
  <2>4. good(k - 1)
    <3>1. \A i \in (k - 1)+1..Len(A) : i = k \/ i \in k+1..Len(A)
      BY <2>1
    <3> QED
      BY <1>3, <2>3, <3>1
  <2>5. k - 1 \in S
    BY <2>1, <2>4
  <2> QED
    <3>1. k <= k - 1
      BY <1>3, <2>5
    <3>2. k \in Nat
      BY <1>2, <1>3
    <3> QED
      BY <3>1, <3>2
<1>5. k \in 0..Len(A) /\ good(k) /\ (k # 0 => A[k] <= now + 1 - PeerWindow)
  BY <1>3, <1>4
<1> DEFINE old == CHOOSE j \in 0..Len(A) : good(j) /\ (j # 0 => A[j] <= now + 1 - PeerWindow)
<1>6. old \in 0..Len(A) /\ good(old)
  BY <1>5
<1>7. Recent(A) = SubSeq(A, old + 1, Len(A))
  BY DEF Recent
<1> QED
  BY <1>6, <1>7

\* The passing of time only drops admissions that are out of the window.
LEMMA RateTick ==
    ASSUME SystemOK, RateInv, Tick PROVE RateInv'
<1>1. /\ relay' = relay /\ now' = now + 1 /\ now \in Nat
      /\ admissions' = [p \in Peers |-> Recent(admissions[p])]
  BY DEF Tick, SystemOK
<1>2. PeerWindow \in Nat
  BY RelayAssumption DEF RelayAssumption
<1>3. ASSUME NEW p \in Peers
      PROVE  /\ Recent(admissions[p]) \in Seq(Nat)
             /\ \A i \in DOMAIN Recent(admissions[p]) :
                    Recent(admissions[p])[i] <= now + 1 /\ now + 1 < Recent(admissions[p])[i] + PeerWindow
             /\ \A s, n \in Nat : Within(admissions[p], s, n) => Within(Recent(admissions[p]), s, n)
             /\ admissions[p] = <<>> => Recent(admissions[p]) = <<>>
  <2> DEFINE A == admissions[p]
             B == Recent(A)
  <2>1. A \in Seq(Nat) /\ Len(A) \in Nat /\ \A i \in 1..Len(A) : A[i] \in Nat /\ A[i] <= now
    <3>1. A \in Seq(Nat)
      BY DEF RateInv
    <3> QED
      BY <3>1, LenProperties, ElementOfSeq DEF RateInv
  <2>2. PICK k \in 0..Len(A) : /\ B = SubSeq(A, k + 1, Len(A))
                               /\ \A i \in k+1..Len(A) : A[i] > now + 1 - PeerWindow
    BY <1>1, <2>1, RecentIs
  <2>3. /\ B \in Seq(Nat) /\ Len(B) = Len(A) - k /\ DOMAIN B = 1..Len(A) - k
        /\ \A i \in 1..Len(A) - k : B[i] = A[k + i]
    <3>1. /\ k + 1 \in Int /\ Len(A) \in Int /\ Len(A) - (k + 1) + 1 = Len(A) - k
          /\ Len(A) - k = IF k + 1 <= Len(A) THEN Len(A) - (k + 1) + 1 ELSE 0
          /\ \A i \in Nat : (k + 1) + i - 1 = k + i
      BY <2>1, <2>2
    <3>2. \A i \in k+1..Len(A) : A[i] \in Nat
      BY <2>1, <2>2
    <3> HIDE DEF A, B
    <3> DEFINE m == k + 1
               n == Len(A)
    <3>3. m \in Int /\ n \in Int /\ \A i \in m..n : A[i] \in Nat
      BY <3>1, <3>2
    <3>4. B = SubSeq(A, m, n)
      BY <2>2
    <3>5. /\ Len(A) - k = IF m <= n THEN n - m + 1 ELSE 0
          /\ \A i \in 1..Len(A) - k : i \in 1..n - m + 1 /\ m + i - 1 = k + i
      BY <2>1, <2>2
    <3> HIDE DEF m, n
    <3>6. /\ B \in Seq(Nat) /\ Len(B) = IF m <= n THEN n - m + 1 ELSE 0
          /\ \A i \in 1..n - m + 1 : B[i] = A[m + i - 1]
      BY <3>3, <3>4, SubSeqProperties
    <3>7. \A i \in 1..Len(A) - k : B[i] = A[k + i]
      BY <3>5, <3>6
    <3> QED
      BY <3>5, <3>6, <3>7, LenProperties
  <2> HIDE DEF A, B
  <2>4. \A i \in DOMAIN B : B[i] <= now + 1 /\ now + 1 < B[i] + PeerWindow
    <3> SUFFICES ASSUME NEW i \in DOMAIN B PROVE B[i] <= now + 1 /\ now + 1 < B[i] + PeerWindow
      OBVIOUS
    <3>1. k + i \in 1..Len(A) /\ k + i \in k+1..Len(A) /\ B[i] = A[k + i]
      BY <2>1, <2>2, <2>3, SMTT(60)
    <3>2. B[i] \in Nat /\ B[i] <= now /\ B[i] > now + 1 - PeerWindow
      BY <2>1, <2>2, <3>1
    <3> QED
      BY <1>1, <1>2, <3>2
  <2>5. ASSUME NEW s \in Nat, NEW n \in Nat, Within(A, s, n) PROVE Within(B, s, n)
    <3>1. PICK j \in 0..Len(A) : j <= PeerLimit /\ Len(A) - j <= n /\ \A i \in 1..j : A[i] <= s
      BY <2>5 DEF Within
    <3>2. CASE j <= k
      <4>1. 0 \in 0..Len(B) /\ 0 <= PeerLimit /\ Len(B) - 0 <= n /\ 1..0 = {}
        BY <2>1, <2>2, <2>3, <2>5, <3>1, <3>2, RelayAssumption DEF RelayAssumption
      <4> QED
        BY <4>1 DEF Within
    <3>3. CASE ~(j <= k)
      <4>1. j - k \in 0..Len(B) /\ j - k <= PeerLimit /\ Len(B) - (j - k) <= n
        BY <2>1, <2>2, <2>3, <2>5, <3>1, <3>3, RelayAssumption DEF RelayAssumption
      <4>2. \A i \in 1..j - k : B[i] <= s
        <5> SUFFICES ASSUME NEW i \in 1..j - k PROVE B[i] <= s
          OBVIOUS
        <5>1. k + i \in 1..j /\ i \in 1..Len(A) - k
          BY <2>1, <2>2, <3>1, <3>3
        <5> QED
          BY <2>3, <3>1, <5>1
      <4> QED
        BY <4>1, <4>2 DEF Within
    <3> QED
      BY <3>2, <3>3
  <2>6. A = <<>> => B = <<>>
    <3> SUFFICES ASSUME A = <<>> PROVE B = <<>>
      OBVIOUS
    <3>1. Len(B) = 0
      BY <2>2, <2>3
    <3> QED
      BY <2>3, <3>1, EmptySeq
  <2> QED
    BY <2>3, <2>4, <2>5, <2>6 DEF A, B
<1>4. \A p \in Peers : admissions'[p] = Recent(admissions[p])
  BY <1>1
<1>5. admissions' \in [Peers -> Seq(Nat)]
  BY <1>1, <1>3
<1>6. \A i \in DOMAIN relay.rates :
           /\ relay.rates[i].count <= PeerLimit
           /\ Within(admissions'[relay.rates[i].peer], relay.rates[i].start, relay.rates[i].count)
  <2> TAKE i \in DOMAIN relay.rates
  <2>1. relay.rates[i] \in Rate
    BY LenProperties, ElementOfSeq DEF SystemOK, RelayOK, RelayState
  <2>2. relay.rates[i].peer \in Peers /\ relay.rates[i].start \in Nat /\ relay.rates[i].count \in Nat
    BY <2>1 DEF Rate
  <2>3. /\ relay.rates[i].count <= PeerLimit
        /\ Within(admissions[relay.rates[i].peer], relay.rates[i].start, relay.rates[i].count)
    BY DEF RateInv
  <2> QED
    BY <1>3, <1>4, <2>2, <2>3
<1> QED
  BY <1>1, <1>3, <1>4, <1>5, <1>6 DEF RateInv

-----------------------------------------------------------------------------
(* The theorems.                                                           *)

\* Nothing is admitted yet, and the rate table is empty.
LEMMA RateStarts == Init => CanRate
<1> SUFFICES ASSUME Init PROVE RateInv
  BY DEF CanRate
<1>1. admissions = [p \in Peers |-> <<>>] /\ relay.rates = <<>> /\ <<>> \in Seq(Nat) /\ DOMAIN <<>> = {}
  <2>1. relay = NewRelay /\ admissions = [p \in Peers |-> <<>>]
    BY DEF Init
  <2>2. NewRelay.rates = <<>>
    BY DEF NewRelay
  <2> QED
    BY <2>1, <2>2
<1>2. admissions \in [Peers -> Seq(Nat)] /\ \A p \in Peers : admissions[p] = <<>>
  BY <1>1
<1> QED
  BY <1>1, <1>2 DEF RateInv

\* A message is of a session that an initiator, which is a peer, has built.
LEMMA MsgIs ==
    ASSUME SystemOK, NEW m \in net
    PROVE  /\ m.from \in Peers /\ m.id \in SessionId
           /\ (m.type = "SESSION_DATA" => m.nonce \in Nat)
<1>1. IsMsg(m)
  BY DEF SystemOK
<1>2. m.id \in SessionId /\ m.from \in Peers
  BY <1>1, IdIs, RelaySystemAssumption DEF IsMsg, RelaySystemAssumption
<1>3. CreateMsg(m.from, m.id).type # "SESSION_DATA"
  BY DEF CreateMsg
<1>4. m.type = "SESSION_DATA" => m.nonce \in Nat
  BY <1>1, <1>3 DEF IsMsg
<1> QED
  BY <1>2, <1>4

\* Every step keeps the table, the timer's bounds and the sessions.
LEMMA TableStepKeeps == ASSUME TableInv, [Next]_vars PROVE TableInv'
<1>1. CASE \E p, q \in Peers : p # q /\ RelayCell(p, q)
  BY <1>1, CellKeeps
<1>2. CASE \E p \in Initiators : SendFrame(p) \/ SendFrameUnconnected(p)
  BY <1>2, SendKeeps
<1>3. CASE \E m \in net : RecvCreate(m)
  BY <1>3, RecvCreateKeeps
<1>4. CASE \E m \in net : RecvData(m)
  BY <1>4, RecvDataKeeps
<1>5. CASE \E p \in Removable : RemovePeer(p)
  BY <1>5, RemoveKeeps
<1>6. CASE Lifecycle
  BY <1>6, LifecycleKeeps
<1>7. CASE Tick
  BY <1>7, TickKeeps
<1>8. CASE UNCHANGED vars
  BY <1>8 DEF vars, TableInv, SystemOK, SweepInv, SessionInv, Known, Built
<1> QED
  BY <1>1, <1>2, <1>3, <1>4, <1>5, <1>6, <1>7, <1>8 DEF Next

\* A cell admits its peer as relay_check_peer_rate does; passing it on touches no rate.
LEMMA CellRates ==
    ASSUME SystemOK, NEW p \in Peers, NEW q \in Peers, RelayCell(p, q)
    PROVE  relay'.rates = CheckedRate(relay, p, now).rates
<1> DEFINE c == CreateCircuit(relay, p, q, now)
           f == Forward(c, p, q, 1, now)
<1>1. RelayOK(relay) /\ now \in Nat /\ 1 \in Nat
  BY DEF SystemOK
<1>2. RelayOK(c) /\ c.rates = CheckedRate(relay, p, now).rates
  BY <1>1, CreateCircuitKeeps, RatesOfCalls
<1>3. relay' = SendmeTaken(f, p, q)
  BY DEF RelayCell
<1> HIDE DEF c
<1>4. RelayOK(f) /\ f.rates = c.rates
  BY <1>1, <1>2, ForwardKeeps, RatesOfCalls
<1> HIDE DEF f
<1>5. SendmeTaken(f, p, q).rates = f.rates
  BY <1>1, <1>4, RatesOfCalls
<1> QED
  BY <1>2, <1>3, <1>4, <1>5

\* Every step keeps the account of admissions.
LEMMA RateStepKeeps == ASSUME TableInv, CanRate, [Next]_vars PROVE CanRate'
<1> SUFFICES ASSUME Cardinality(Peers) <= RateSlots PROVE RateInv'
  BY DEF CanRate
<1> USE DEF CanRate
<1>1. SystemOK /\ RateInv /\ RelayOK(relay) /\ now \in Nat
  BY DEF TableInv, SystemOK
<1>2. CASE \E p, q \in Peers : p # q /\ RelayCell(p, q)
  <2>1. PICK p \in Peers, q \in Peers : RelayCell(p, q)
    BY <1>2
  <2>2. admissions' = Recorded(p) /\ now' = now
    BY <2>1 DEF RelayCell
  <2> QED
    BY <1>1, <2>1, <2>2, CellRates, AttemptKeeps
<1>3. CASE \E p \in Initiators : SendFrame(p) \/ SendFrameUnconnected(p)
  <2>1. relay' = relay /\ admissions' = admissions /\ now' = now
    BY <1>3 DEF SendFrame, SendFrameUnconnected
  <2> QED
    BY <1>1, <2>1, RatesUntouched
<1>4. CASE \E m \in net : RecvCreate(m)
  <2>1. PICK m \in net : RecvCreate(m)
    BY <1>4
  <2>2. m.from \in Peers /\ m.id \in SessionId
    BY <1>1, MsgIs
  <2>3. /\ relay' = CreateSession(relay, m.from, m.id, now)
        /\ admissions' = Recorded(m.from) /\ now' = now
    BY <2>1 DEF RecvCreate
  <2>4. relay'.rates = CheckedRate(relay, m.from, now).rates
    BY <1>1, <2>2, <2>3, RatesOfCalls
  <2> QED
    BY <1>1, <2>2, <2>3, <2>4, AttemptKeeps
<1>5. CASE \E m \in net : RecvData(m)
  <2>1. PICK m \in net : RecvData(m)
    BY <1>5
  <2>2. m.from \in Peers /\ m.id \in SessionId /\ m.nonce \in Nat
    BY <1>1, <2>1, MsgIs DEF RecvData
  <2>3. /\ relay' = SessionData(relay, m.from, m.id, m.nonce, now)
        /\ admissions' = admissions /\ now' = now
    BY <2>1 DEF RecvData
  <2>4. relay'.rates = relay.rates
    BY <1>1, <2>3 DEF SessionData, RelayOK, RelayState
  <2> QED
    BY <1>1, <2>3, <2>4, RatesUntouched
<1>6. CASE (\E p \in Removable : RemovePeer(p)) \/ Lifecycle
  <2>1. (\E S : relay' = Closed(relay, S)) /\ admissions' = admissions /\ now' = now
    BY <1>6 DEF RemovePeer, Lifecycle, ClosePeer, Swept
  <2>2. PICK S : relay' = Closed(relay, S)
    BY <2>1
  <2>3. Closed(relay, S).rates = relay.rates
    BY <1>1 DEF Closed, RelayOK, RelayState
  <2> QED
    BY <1>1, <2>1, <2>2, <2>3, RatesUntouched
<1>7. CASE Tick
  BY <1>1, <1>7, RateTick
<1>8. CASE UNCHANGED vars
  BY <1>1, <1>8, RatesUntouched DEF vars
<1> QED
  BY <1>2, <1>3, <1>4, <1>5, <1>6, <1>7, <1>8 DEF Next

\* The invariants hold of every behaviour.
THEOREM RelayInvariant == Spec => [](TableInv /\ CanRate)
<1>1. Init => TableInv /\ CanRate
  BY InvStarts, RateStarts
<1>2. TableInv /\ CanRate /\ [Next]_vars => TableInv' /\ CanRate'
  BY TableStepKeeps, RateStepKeeps
<1> QED
  BY <1>1, <1>2, PTL DEF Spec

\* The relay's table of circuits stays in order for any number of peers and slots, however
\* circuits are opened, evicted, swept and closed (relay.c).
THEOREM CircuitTableHolds == Spec => []CircuitTableOK
<1>1. TableInv => CircuitTableOK
  <2> SUFFICES ASSUME TableInv PROVE CircuitTableOK
    OBVIOUS
  <2>1. RelayOK(relay) /\ relay \in RelayState /\ IsFiniteSet(Active(relay))
    <3>1. RelayOK(relay)
      BY DEF TableInv, SystemOK
    <3> QED
      BY <3>1, ActiveIs DEF RelayOK
  <2>2. \A i \in Active(relay) : relay.slots[i] \in Circuit
    BY <2>1 DEF Active, RelayState
  <2>3. TypeOK
    <3>1. \A i \in Active(relay) :
              /\ relay.slots[i].kind \in {"onion", "session"}
              /\ {relay.slots[i].from, relay.slots[i].to} \subseteq Peers
              /\ relay.slots[i].flow \in Flow
      BY <2>2 DEF Circuit, Onion, Session
    <3>2. relay.count \in 0..MaxCircuits
      <4>1. Active(relay) \subseteq Slot
        BY DEF Active
      <4>2. Cardinality(Active(relay)) \in Nat /\ Cardinality(Active(relay)) <= MaxCircuits
        BY <4>1, SlotNumbers, FS_Subset, FS_CardinalityType
      <4> QED
        BY <2>1, <4>2, RelayAssumption DEF RelayOK, RelayAssumption
    <3>3. Len(relay.rates) <= RateSlots /\ relay.admitted \in 0..GlobalLimit
      BY <2>1, RelayAssumption DEF RelayOK, RelayState, RelayAssumption
    <3> QED
      BY <3>1, <3>2, <3>3 DEF TypeOK
  <2>4. CountIsActive
    BY <2>1 DEF CountIsActive, RelayOK
  <2>5. CircuitsDistinct
    BY <2>1 DEF CircuitsDistinct, RelayOK, Same
  <2> QED
    BY <2>3, <2>4, <2>5 DEF CircuitTableOK
<1> QED
  BY <1>1, RelayInvariant, PTL

\* Frames of a session are passed on in the order they were sent, each at most once, for any
\* number of frames and whatever the relay forgets (trellis_relay_handle_session_data).
THEOREM FramesInOrderHolds == Spec => []FramesInOrder
<1>1. TableInv => FramesInOrder
  BY DEF TableInv, SessionInv, FramesInOrder
<1> QED
  BY <1>1, RelayInvariant, PTL

\* No circuit outlives its limits by more than a period of the lifecycle timer.
THEOREM StaleAreSweptHolds == Spec => []StaleAreSwept
<1>1. TableInv => StaleAreSwept
  <2> SUFFICES ASSUME TableInv, NEW i \in Active(relay)
               PROVE  /\ now - relay.slots[i].created <= MaxAge + SweepPeriod
                      /\ now - relay.slots[i].activity <= MaxIdle + SweepPeriod
    BY DEF StaleAreSwept
  <2>1. /\ sweepAt \in Nat /\ now \in Nat /\ now <= sweepAt
        /\ sweepAt <= relay.slots[i].created + MaxAge + SweepPeriod
        /\ sweepAt <= relay.slots[i].activity + MaxIdle + SweepPeriod
    BY DEF TableInv, SweepInv, SystemOK
  <2>2. relay.slots[i].created \in Nat /\ relay.slots[i].activity \in Nat
    BY DEF TableInv, SystemOK, RelayOK, RelayState, Active, Circuit, Onion, Session
  <2>3. MaxAge \in Nat /\ MaxIdle \in Nat /\ SweepPeriod \in Nat
    BY RelayAssumption, RelaySystemAssumption DEF RelayAssumption, RelaySystemAssumption
  <2> QED
    BY <2>1, <2>2, <2>3
<1> QED
  BY <1>1, RelayInvariant, PTL

\* When the rate table has a slot for every peer, no peer is admitted more than twice the
\* limit in any window, wherever the windows of its entry fall (relay_check_peer_rate).
THEOREM PeerRateBoundedHolds == Spec => []PeerRateBounded
<1>1. TableInv /\ CanRate => PeerRateBounded
  <2> SUFFICES ASSUME TableInv, RateInv, NEW p \in Peers
               PROVE  Len(admissions[p]) <= 2 * PeerLimit
    BY DEF PeerRateBounded, CanRate
  <2>1. PeerLimit \in Nat /\ admissions[p] \in Seq(Nat) /\ Len(admissions[p]) \in Nat
    <3>1. admissions[p] \in Seq(Nat)
      BY DEF RateInv
    <3> QED
      BY <3>1, LenProperties, RelayAssumption DEF RelayAssumption
  <2>2. CASE RateOf(relay.rates, p) = {}
    <3>1. admissions[p] = <<>>
      BY <2>2 DEF RateInv
    <3> QED
      BY <2>1, <3>1, EmptySeq
  <2>3. CASE RateOf(relay.rates, p) # {}
    <3>1. PICK i \in DOMAIN relay.rates : relay.rates[i].peer = p
      BY <2>3 DEF RateOf
    <3>2. relay.rates[i].count \in Nat
      <4>1. relay.rates[i] \in Rate
        BY <3>1, LenProperties, ElementOfSeq DEF TableInv, SystemOK, RelayOK, RelayState
      <4> QED
        BY <4>1 DEF Rate
    <3>3. /\ relay.rates[i].count <= PeerLimit
          /\ Within(admissions[p], relay.rates[i].start, relay.rates[i].count)
      BY <3>1 DEF RateInv
    <3>4. PICK k \in 0..Len(admissions[p]) :
              k <= PeerLimit /\ Len(admissions[p]) - k <= relay.rates[i].count
      BY <3>3 DEF Within
    <3> QED
      BY <2>1, <3>2, <3>3, <3>4
  <2> QED
    BY <2>2, <2>3
<1> QED
  BY <1>1, RelayInvariant, PTL

\* An initiator sends on no session that is older than the pool allows
\* (trellis_session_pool_acquire).
THEOREM SessionsRenewedHolds == Spec => SessionsRenewed
<1> DEFINE Renews == \A p \in Initiators : pool'[p] # pool[p] => now - pool'[p].created <= PoolAge
<1>1. TableInv /\ [Next]_vars => [Renews]_vars
  <2> SUFFICES ASSUME TableInv, Next, NEW p \in Initiators, pool'[p] # pool[p]
               PROVE  now - pool'[p].created <= PoolAge
    OBVIOUS
  <2>1. PICK q \in Initiators : SendFrame(q) \/ SendFrameUnconnected(q)
    BY DEF Next, RelayCell, RecvCreate, RecvData, RemovePeer, Lifecycle, Tick
  <2> DEFINE s == Acquired(q)
  <2>2. s.id[2] <= MaxSessions /\ pool' = [pool EXCEPT ![q] = [s EXCEPT !.nonce = @ + 1, !.unsent = FALSE]]
    BY <2>1 DEF SendFrame, SendFrameUnconnected
  <2>3. pool \in [Initiators -> Entry \union {NoSession}] /\ now \in Nat /\ PoolAge \in Nat
    BY RelaySystemAssumption DEF TableInv, SystemOK, RelaySystemAssumption
  <2>4. p = q /\ pool'[p] = [s EXCEPT !.nonce = @ + 1, !.unsent = FALSE]
    BY <2>2, <2>3
  <2>5. now - s.created <= PoolAge
    <3>1. CASE Usable(q)
      BY <3>1 DEF Acquired, Usable
    <3>2. CASE ~Usable(q)
      <4>1. s.created = now
        BY <3>2 DEF Acquired
      <4> QED
        BY <2>3, <4>1
    <3> QED
      BY <3>1, <3>2
  <2>6. [s EXCEPT !.nonce = @ + 1, !.unsent = FALSE].created = s.created
    <3>1. "created" \in DOMAIN s
      <4>1. CASE Usable(q)
        BY <4>1, <2>3 DEF Acquired, Usable, Entry
      <4>2. CASE ~Usable(q)
        BY <4>2 DEF Acquired
      <4> QED
        BY <4>1, <4>2
    <3> HIDE DEF s
    <3> QED
      BY <3>1
  <2> QED
    BY <2>4, <2>5, <2>6
<1> QED
  BY <1>1, RelayInvariant, PTL DEF Spec, SessionsRenewed
=============================================================================
