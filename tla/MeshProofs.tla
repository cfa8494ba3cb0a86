----------------------------- MODULE MeshProofs -----------------------------
(***************************************************************************)
(* Proofs about the components of the mesh run, for every value of their   *)
(* constants.  Each component has an inductive invariant (GateInv,         *)
(* GuardingInv, MuxInv, PoolInv, HandshakeInv, GossipInv, SendInv,         *)
(* ExitInv, TurnInv, GuardInv, HopInv, RateInv, FrameInv;                  *)
(* SiblingsAreClosest and TableTypeOK are inductive themselves) and a      *)
(* lemma per action; what its tables, queues and counters are bounded by   *)
(* follows at the end of its section.  Where a property of the run is one  *)
(* component's, the theorem is about that component's own specification,   *)
(* whose steps are those of its part in MCMesh; where it joins several, it *)
(* is about MeshSpec (last section).                                       *)
(***************************************************************************)
EXTENDS MCMesh, OrderLemmas, SequenceTheorems

----------------------------------------------------------------------------
(* RoutingTable. *)

\* The closest peers depend on which peers the table holds, not on their entries.
LEMMA ClosestOfDomain == ASSUME NEW t, NEW u, DOMAIN t = DOMAIN u PROVE ClosestOf(t) = ClosestOf(u)
BY DEF ClosestOf

\* The sibling table is the closest peers of the buckets, for tables, buckets and limits of any
\* size and whatever the eclipse alarm does (trellis_dht_add_peer, trellis_dht_remove_peer).
THEOREM SiblingsAreClosestHolds == TableSpec => []SiblingsAreClosest
<1>1. TableInit => SiblingsAreClosest
  <2>1. DOMAIN [p \in {} |-> 0] = {}
    OBVIOUS
  <2> QED
    BY <2>1 DEF TableInit, SiblingsAreClosest, ClosestOf
<1>2. SiblingsAreClosest /\ [TableNext]_tableVars => SiblingsAreClosest'
  <2> SUFFICES ASSUME SiblingsAreClosest, [TableNext]_tableVars PROVE SiblingsAreClosest'
    OBVIOUS
  <2>1. ASSUME UNCHANGED <<table, siblings>> PROVE SiblingsAreClosest'
    BY <2>1 DEF SiblingsAreClosest
  <2>2. ASSUME NEW p, NEW s, AddPeer(p, s) PROVE SiblingsAreClosest'
    BY <2>1, <2>2 DEF AddPeer, SiblingsAreClosest, tableVars
  <2>3. ASSUME NEW p, RemovePeer(p) PROVE SiblingsAreClosest'
    BY <2>3 DEF RemovePeer, SiblingsAreClosest
  <2>4. ASSUME NEW p, PeerSeen(p) PROVE SiblingsAreClosest'
    <3>1. DOMAIN table' = DOMAIN table /\ siblings' = siblings
      BY <2>4 DEF PeerSeen
    <3> QED
      BY <3>1, ClosestOfDomain DEF SiblingsAreClosest
  <2> QED
    BY <2>1, <2>2, <2>3, <2>4 DEF TableNext, SetEclipseEnabled, EclipseTimer, TableTick, tableVars
<1> QED
  BY <1>1, <1>2, PTL DEF TableSpec

\* A table of known peers whose buckets are not overfull.
TableFits(t) ==
    /\ DOMAIN t \subseteq TablePeers
    /\ \A p \in DOMAIN t : t[p] \in Entry /\ Cardinality(BucketOf(t, p)) <= BucketSize

\* A part of a finite set is finite and no larger.
LEMMA PartNoLarger ==
    ASSUME NEW S, IsFiniteSet(S), NEW R, R \subseteq S
    PROVE  /\ IsFiniteSet(R) /\ Cardinality(R) \in Nat /\ Cardinality(S) \in Nat
           /\ Cardinality(R) <= Cardinality(S)
BY FS_Subset, FS_CardinalityType

\* Buckets are finite.
LEMMA BucketsFinite ==
    ASSUME NEW t, DOMAIN t \subseteq TablePeers, NEW p
    PROVE  IsFiniteSet(BucketOf(t, p)) /\ Cardinality(BucketOf(t, p)) \in Nat
<1>1. IsFiniteSet(TablePeers) /\ BucketOf(t, p) \subseteq TablePeers
  BY RoutingTableAssumption DEF BucketOf
<1> HIDE DEF BucketOf
<1> QED
  BY <1>1, PartNoLarger

\* A table that holds fewer peers fits.
LEMMA DroppedFits ==
    ASSUME NEW t, TableFits(t), NEW p
    PROVE  TableFits(Dropped(t, p))
<1> DEFINE u == Dropped(t, p)
<1>1. DOMAIN u = DOMAIN t \ {p} /\ DOMAIN t \subseteq TablePeers /\ \A q \in DOMAIN u : u[q] = t[q]
  BY DEF Dropped, TableFits
<1> HIDE DEF u
<1>2. ASSUME NEW q \in DOMAIN u PROVE u[q] \in Entry /\ Cardinality(BucketOf(u, q)) <= BucketSize
  <2>1. q \in DOMAIN t /\ u[q] = t[q] /\ t[q] \in Entry /\ Cardinality(BucketOf(t, q)) <= BucketSize
    BY <1>1, <1>2 DEF TableFits
  <2>2. BucketOf(u, q) \subseteq BucketOf(t, q)
    BY <1>1 DEF BucketOf
  <2>3. IsFiniteSet(BucketOf(t, q))
    BY <1>1, BucketsFinite
  <2>4. /\ Cardinality(BucketOf(u, q)) <= Cardinality(BucketOf(t, q))
        /\ Cardinality(BucketOf(u, q)) \in Nat /\ Cardinality(BucketOf(t, q)) \in Nat
    BY <2>2, <2>3, PartNoLarger
  <2>5. BucketSize \in Nat
    BY RoutingTableAssumption
  <2> QED
    BY <2>1, <2>4, <2>5
<1>3. TableFits(u)
  BY <1>1, <1>2 DEF TableFits
<1> QED
  BY <1>3 DEF u

\* So does one in which a peer is seen again, or gets a place that is free.
LEMMA StoredFits ==
    ASSUME NEW t, TableFits(t), NEW p \in TablePeers, NEW s \in Subnets \cup {NoAddress},
           tableNow \in 0..TableMaxTime, p \in DOMAIN t \/ s # NoAddress,
           p \in DOMAIN t \/ Cardinality(BucketOf(t, p)) < BucketSize
    PROVE  TableFits(Stored(t, p, s))
<1> DEFINE u == Stored(t, p, s)
<1>1. /\ DOMAIN u = DOMAIN t \cup {p} /\ DOMAIN t \subseteq TablePeers
      /\ \A q \in DOMAIN t \ {p} : u[q] = t[q]
      /\ u[p] = [subnet |-> IF s = NoAddress THEN t[p].subnet ELSE s, seen |-> tableNow]
  BY DEF Stored, TableFits
<1>2. u[p] \in Entry
  BY <1>1, RoutingTableAssumption DEF Entry, TableFits, NoAddress
<1> HIDE DEF u
<1>3. ASSUME NEW q \in DOMAIN u PROVE u[q] \in Entry
  BY <1>1, <1>2, <1>3 DEF TableFits
<1>4. ASSUME NEW q \in DOMAIN u PROVE Cardinality(BucketOf(u, q)) <= BucketSize
  <2>0. BucketSize \in Nat
    BY RoutingTableAssumption
  <2>1. CASE BucketOf(u, q) = BucketOf(t, q) /\ q \in DOMAIN t
    BY <2>1 DEF TableFits
  <2>2. ASSUME BucketIndex[q] = BucketIndex[p], p \notin DOMAIN t
        PROVE  Cardinality(BucketOf(u, q)) <= BucketSize
    <3>1. BucketOf(u, q) = BucketOf(t, p) \cup {p}
      BY <1>1, <2>2 DEF BucketOf
    <3>2. /\ IsFiniteSet(BucketOf(t, p)) /\ Cardinality(BucketOf(t, p)) < BucketSize
      BY <1>1, <2>2, BucketsFinite
    <3>3. /\ Cardinality(BucketOf(t, p)) \in Nat /\ Cardinality(BucketOf(t, p) \cup {p}) \in Nat
          /\ Cardinality(BucketOf(t, p) \cup {p}) <= Cardinality(BucketOf(t, p)) + 1
      BY <3>2, OneMore
    <3> QED
      BY <2>0, <3>1, <3>2, <3>3
  <2>3. ASSUME ~(BucketIndex[q] = BucketIndex[p] /\ p \notin DOMAIN t)
        PROVE  BucketOf(u, q) = BucketOf(t, q) /\ q \in DOMAIN t
    BY <1>1, <1>4, <2>3 DEF BucketOf
  <2> QED
    BY <2>1, <2>2, <2>3
<1>5. TableFits(u)
  BY <1>1, <1>3, <1>4 DEF TableFits
<1> QED
  BY <1>5 DEF u

\* A peer that takes the place of a stale one of its bucket finds the place free.
LEMMA StaleMakesRoom ==
    ASSUME NEW t, TableFits(t), NEW p, NEW q \in StaleIn(t, p), p \notin DOMAIN t
    PROVE  Cardinality(BucketOf(Dropped(t, q), p)) < BucketSize
<1>1. q \in DOMAIN t /\ BucketIndex[q] = BucketIndex[p] /\ DOMAIN t \subseteq TablePeers
  BY DEF StaleIn, BucketOf, TableFits
<1>2. BucketOf(t, p) = BucketOf(t, q) /\ q \in BucketOf(t, p)
  BY <1>1 DEF BucketOf
<1>3. Cardinality(BucketOf(t, p)) <= BucketSize
  BY <1>1, <1>2 DEF TableFits
<1>4. BucketOf(Dropped(t, q), p) = BucketOf(t, p) \ {q}
  BY DEF BucketOf, Dropped
<1>5. IsFiniteSet(BucketOf(t, p)) /\ Cardinality(BucketOf(t, p)) \in Nat
  BY <1>1, BucketsFinite
<1>6. Cardinality(BucketOf(t, p) \ {q}) = Cardinality(BucketOf(t, p)) - 1
  BY <1>2, <1>5, FS_RemoveElement
<1>7. BucketSize \in Nat
  BY RoutingTableAssumption
<1> QED
  BY <1>3, <1>4, <1>5, <1>6, <1>7

\* What kbucket_add leaves is a table that fits.
LEMMA AcceptedFits ==
    ASSUME TableFits(table), tableNow \in 0..TableMaxTime, NEW p \in TablePeers,
           NEW s \in Subnets \cup {NoAddress}, NEW t \in Accepting(table, p, s)
    PROVE  TableFits(t)
<1>1. CASE p \in DOMAIN table
  BY <1>1, StoredFits DEF Accepting
<1>2. CASE p \notin DOMAIN table /\ s # NoAddress /\ t = Stored(table, p, s)
           /\ Cardinality(BucketOf(table, p)) < BucketSize
  BY <1>2, StoredFits
<1>3. ASSUME p \notin DOMAIN table, s # NoAddress, NEW q \in StaleIn(table, p),
             t = Stored(Dropped(table, q), p, s)
      PROVE  TableFits(t)
  <2>1. TableFits(Dropped(table, q)) /\ Cardinality(BucketOf(Dropped(table, q), p)) < BucketSize
    BY <1>3, DroppedFits, StaleMakesRoom
  <2> QED
    BY <1>3, <2>1, StoredFits
<1>4. p \in DOMAIN table \/ s # NoAddress
  BY DEF Accepting
<1>5. CASE p \notin DOMAIN table
  <2>1. \/ t = Stored(table, p, s) /\ Cardinality(BucketOf(table, p)) < BucketSize
        \/ \E q \in StaleIn(table, p) : t = Stored(Dropped(table, q), p, s)
    BY <1>5 DEF Accepting
  <2> QED
    BY <1>2, <1>3, <1>4, <1>5, <2>1
<1> QED
  BY <1>1, <1>5

\* The alarm: what it was checked or thawed to.
Alarms == [disabled : BOOLEAN, detected : BOOLEAN, frozen : BOOLEAN, until : Nat]

\* Thawing, disarming, rearming and checking keep the shape of an alarm.
LEMMA AlarmsStay ==
    ASSUME NEW e \in Alarms, tableNow \in 0..TableMaxTime
    PROVE  /\ Thawed(e) \in Alarms /\ [e EXCEPT !.disabled = FALSE] \in Alarms
           /\ [Thawed(e) EXCEPT !.disabled = TRUE, !.detected = FALSE] \in Alarms
           /\ \A t, sibs : CheckEclipse(e, t, sibs) \in Alarms
<1>1. \A f \in Alarms : Thawed(f) \in Alarms
  BY DEF Alarms, Thawed, ThawedAlarm
<1>2. /\ [e EXCEPT !.disabled = FALSE] \in Alarms
      /\ [Thawed(e) EXCEPT !.disabled = TRUE, !.detected = FALSE] \in Alarms
  BY DEF Alarms, Thawed, ThawedAlarm
<1>3. ASSUME NEW t, NEW sibs PROVE CheckEclipse(e, t, sibs) \in Alarms
  <2> DEFINE dom == Dominated(t, sibs)
             raised == dom /\ ~e.detected
             f == [e EXCEPT !.detected = dom, !.frozen = @ \/ raised,
                            !.until = IF raised THEN tableNow + FreezeTime ELSE @]
  <2>1. dom \in BOOLEAN
    BY DEF Dominated
  <2>2. tableNow + FreezeTime \in Nat
    BY RoutingTableAssumption
  <2>3. f \in Alarms
    <3> HIDE DEF dom
    <3> QED
      BY <2>1, <2>2 DEF Alarms
  <2>4. CheckEclipse(e, t, sibs) = IF e.disabled \/ Cardinality(sibs) < EclipseMin THEN e
                                   ELSE IF f.frozen /\ tableNow >= f.until THEN Thawed(f) ELSE f
    BY DEF CheckEclipse
  <2> HIDE DEF f
  <2> QED
    BY <1>1, <2>3, <2>4
<1> QED
  BY <1>1, <1>2, <1>3

\* The table, its siblings and the alarm keep their shapes, and no bucket is overfull.
LEMMA TableTypeKept ==
    /\ TableInit => TableTypeOK
    /\ TableTypeOK /\ [TableNext]_tableVars => TableTypeOK'
<1>0. /\ TableMaxTime \in Nat /\ EclipsePeriod \in Nat
      /\ TableTypeOK <=> /\ TableFits(table) /\ siblings \subseteq TablePeers /\ eclipse \in Alarms
                         /\ tableNow \in 0..TableMaxTime /\ checkAt \in Nat
  BY RoutingTableAssumption DEF TableTypeOK, TableFits, Alarms
<1>1. ASSUME TableInit PROVE TableTypeOK
  <2>1. DOMAIN [p \in {} |-> 0] = {}
    OBVIOUS
  <2>2. TableFits(table)
    BY <1>1, <2>1 DEF TableInit, TableFits
  <2> QED
    BY <1>0, <1>1, <2>2 DEF TableInit, Alarms
<1> SUFFICES ASSUME TableTypeOK, [TableNext]_tableVars PROVE TableTypeOK'
  BY <1>1
<1>2. /\ TableFits(table) /\ siblings \subseteq TablePeers /\ eclipse \in Alarms
      /\ tableNow \in 0..TableMaxTime /\ checkAt \in Nat
  BY <1>0
<1>3. ASSUME TableFits(table'), siblings' \subseteq TablePeers, eclipse' \in Alarms,
             tableNow' \in 0..TableMaxTime, checkAt' \in Nat
      PROVE  TableTypeOK'
  BY <1>3 DEF TableTypeOK, TableFits, Alarms, BucketOf, Entry
<1>4. ASSUME NEW t, TableFits(t) PROVE ClosestOf(t) \subseteq TablePeers
  BY <1>4 DEF ClosestOf, TableFits
<1>5. ASSUME NEW p \in TablePeers, NEW s \in Subnets \cup {NoAddress}, AddPeer(p, s) PROVE TableTypeOK'
  <2> DEFINE e == IF eclipse.frozen /\ tableNow >= eclipse.until THEN Thawed(eclipse) ELSE eclipse
  <2>1. e \in Alarms
    BY <1>2, AlarmsStay
  <2>2. CASE UNCHANGED tableVars
    BY <1>2, <1>3, <2>2 DEF tableVars
  <2>3. CASE eclipse' = e /\ UNCHANGED <<table, siblings, tableNow, checkAt>>
    BY <1>2, <1>3, <2>1, <2>3
  <2>4. ASSUME table' \in Accepting(table, p, s), siblings' = ClosestOf(table'),
               eclipse' = CheckEclipse(e, table', siblings'), UNCHANGED <<tableNow, checkAt>>
        PROVE  TableTypeOK'
    <3>1. TableFits(table')
      BY <1>2, <2>4, AcceptedFits
    <3>2. siblings' \subseteq TablePeers
      BY <1>4, <2>4, <3>1
    <3>3. eclipse' \in Alarms
      <4> HIDE DEF e
      <4> QED
        BY <1>2, <2>1, <2>4, AlarmsStay
    <3> QED
      BY <1>2, <1>3, <2>4, <3>1, <3>2, <3>3
  <2> QED
    BY <1>5, <2>2, <2>3, <2>4 DEF AddPeer
<1>6. ASSUME NEW p \in TablePeers, RemovePeer(p) PROVE TableTypeOK'
  <2>1. TableFits(table')
    BY <1>2, <1>6, DroppedFits DEF RemovePeer
  <2> QED
    BY <1>2, <1>3, <1>4, <1>6, <2>1 DEF RemovePeer
<1>7. ASSUME NEW p \in TablePeers, PeerSeen(p) PROVE TableTypeOK'
  <2>1. /\ DOMAIN table' = DOMAIN table
        /\ \A q \in DOMAIN table : table'[q] \in Entry
    BY <1>2, <1>7 DEF PeerSeen, TableFits, Entry
  <2>2. ASSUME NEW q PROVE BucketOf(table', q) = BucketOf(table, q)
    BY <2>1 DEF BucketOf
  <2>3. TableFits(table')
    BY <1>2, <2>1, <2>2 DEF TableFits
  <2> QED
    BY <1>2, <1>3, <1>7, <2>3 DEF PeerSeen
<1>8. ASSUME NEW enabled \in BOOLEAN, SetEclipseEnabled(enabled) PROVE TableTypeOK'
  BY <1>2, <1>3, <1>8, AlarmsStay DEF SetEclipseEnabled
<1>9. CASE EclipseTimer
  <2>1. eclipse' \in Alarms
    BY <1>2, <1>9, AlarmsStay DEF EclipseTimer
  <2>2. checkAt' \in Nat
    BY <1>0, <1>2, <1>9 DEF EclipseTimer
  <2> QED
    BY <1>2, <1>3, <1>9, <2>1, <2>2 DEF EclipseTimer
<1>10. CASE TableTick
  <2>1. tableNow' \in 0..TableMaxTime
    BY <1>0, <1>2, <1>10 DEF TableTick
  <2> QED
    BY <1>2, <1>3, <1>10, <2>1 DEF TableTick
<1>11. CASE UNCHANGED tableVars
  BY <1>2, <1>3, <1>11 DEF tableVars
<1> QED
  BY <1>5, <1>6, <1>7, <1>8, <1>9, <1>10, <1>11 DEF TableNext

----------------------------------------------------------------------------
(* Multiplexer. *)

Pieces == Seq(Nat)
MuxStream == [open : BOOLEAN, paused : BOOLEAN, receiving : BOOLEAN, backlog : Pieces]

MuxShape ==
    /\ muxed \in [StreamIds -> MuxStream] /\ sentOn \in Nat
    /\ wired \in Seq([stream : StreamIds, piece : Nat])
    /\ due \in [StreamIds -> Pieces] /\ handed \in [StreamIds -> Pieces]

\* Only a paused stream keeps data.
StreamOK(s) ==
    s \notin stranded /\ muxed[s].open =>
        /\ handed[s] \o muxed[s].backlog = due[s]
        /\ muxed[s].paused \/ muxed[s].backlog = <<>>

MuxInv == MuxShape /\ \A s \in StreamIds : StreamOK(s)

\* A piece appended to the backlog is appended to what came in.
LEMMA AppendOfConcat ==
    \A p, q \in Pieces, e \in Nat : Append(p \o q, e) = p \o Append(q, e)
<1> SUFFICES ASSUME NEW p \in Seq(Nat), NEW q \in Seq(Nat), NEW e \in Nat
             PROVE  Append(p \o q, e) = p \o Append(q, e)
  BY DEF Pieces
<1>1. /\ Append(p \o q, e) \in Seq(Nat) /\ p \o Append(q, e) \in Seq(Nat)
      /\ Len(Append(p \o q, e)) = Len(p \o Append(q, e))
  OBVIOUS
<1>2. \A i \in 1..Len(Append(p \o q, e)) : Append(p \o q, e)[i] = (p \o Append(q, e))[i]
  OBVIOUS
<1> QED
  BY <1>1, <1>2, SeqEqual

\* A slot without a stream has nothing to hand over.
LEMMA NoStreamIsOne == NoStream \in MuxStream /\ NoStream.backlog = <<>> /\ ~NoStream.open
BY DEF NoStream, MuxStream, Pieces

\* Nothing is open at the start.
LEMMA MuxInvStarts == MuxInit => MuxInv
BY NoStreamIsOne DEF MuxInit, MuxInv, MuxShape, StreamOK, Pieces

\* Opening, pausing and closing a stream, and a receiver that comes or goes.
LEMMA StreamCallsKeep ==
    ASSUME MuxInv, NEW s \in StreamIds, NEW on \in BOOLEAN,
           OpenMuxStream(s) \/ Pause(s) \/ CloseMuxStream(s) \/ MuxReceiver(s, on)
    PROVE  MuxInv'
<1>1. muxed[s] \in MuxStream
  BY DEF MuxInv, MuxShape
<1>2. \A t \in StreamIds : StreamOK(t)
  BY DEF MuxInv
<1>3. CASE OpenMuxStream(s)
  <2> DEFINE x == [NoStream EXCEPT !.open = TRUE]
  <2>1. x \in MuxStream /\ x.backlog = <<>>
    <3>1. ASSUME NEW o \in MuxStream
          PROVE  [o EXCEPT !.open = TRUE] \in MuxStream /\ [o EXCEPT !.open = TRUE].backlog = o.backlog
      BY DEF MuxStream
    <3> QED
      BY <3>1, NoStreamIsOne
  <2>2. MuxShape'
    BY <1>3, <2>1 DEF MuxInv, MuxShape, OpenMuxStream, Pieces
  <2>3. \A t \in StreamIds : StreamOK(t)'
    <3> HIDE DEF x
    <3>1. <<>> \o x.backlog = <<>>
      BY <2>1
    <3> QED
      BY <1>2, <1>3, <2>1, <3>1 DEF OpenMuxStream, StreamOK, MuxInv, MuxShape, x
  <2> QED
    BY <2>2, <2>3 DEF MuxInv
<1>4. ASSUME NEW x \in MuxStream, muxed' = [muxed EXCEPT ![s] = x], UNCHANGED <<sentOn, wired, due, handed, stranded>>,
             ~x.open \/ (x.backlog = muxed[s].backlog /\ (muxed[s].paused => x.paused) /\ muxed[s].open)
      PROVE  MuxInv'
  <2>1. MuxShape'
    BY <1>4 DEF MuxInv, MuxShape
  <2>2. \A t \in StreamIds : StreamOK(t)'
    BY <1>2, <1>4 DEF StreamOK, MuxInv, MuxShape
  <2> QED
    BY <2>1, <2>2 DEF MuxInv
<1>5. CASE Pause(s)
  <2> DEFINE x == [muxed[s] EXCEPT !.paused = TRUE]
  <2>1. x \in MuxStream /\ x.backlog = muxed[s].backlog /\ x.paused
    BY <1>1 DEF MuxStream
  <2>2. muxed' = [muxed EXCEPT ![s] = x]
    BY <1>5 DEF Pause
  <2> HIDE DEF x
  <2> QED
    BY <1>4, <1>5, <2>1, <2>2 DEF Pause
<1>6. CASE CloseMuxStream(s)
  BY <1>4, <1>6, NoStreamIsOne DEF CloseMuxStream
<1>7. CASE MuxReceiver(s, on)
  <2> DEFINE x == [muxed[s] EXCEPT !.receiving = on]
  <2>1. x \in MuxStream /\ x.backlog = muxed[s].backlog /\ x.paused = muxed[s].paused
    BY <1>1 DEF MuxStream
  <2>2. muxed' = [muxed EXCEPT ![s] = x]
    BY <1>7 DEF MuxReceiver
  <2> HIDE DEF x
  <2> QED
    BY <1>4, <1>7, <2>1, <2>2 DEF MuxReceiver
<1> QED
  BY <1>3, <1>5, <1>6, <1>7

\* A piece that comes in is handed over or joins the backlog (mux_on_recv).
LEMMA MuxRecvKeeps == ASSUME MuxInv, MuxRecv PROVE MuxInv'
<1> DEFINE f == Head(wired)
<1>1. f \in [stream : StreamIds, piece : Nat] /\ Tail(wired) \in Seq([stream : StreamIds, piece : Nat])
  <2>1. wired \in Seq([stream : StreamIds, piece : Nat]) /\ wired # <<>>
    BY DEF MuxRecv, MuxInv, MuxShape
  <2> QED
    BY <2>1, HeadTailProperties
<1>2. PICK s \in StreamIds, piece \in Nat : f.stream = s /\ f.piece = piece
  BY <1>1
<1>3. wired' = Tail(wired) /\ sentOn' = sentOn /\ stranded' = stranded
  BY DEF MuxRecv
<1>4. muxed[s] \in MuxStream /\ handed[s] \in Pieces /\ due[s] \in Pieces /\ StreamOK(s)
      /\ muxed[s].backlog \in Pieces
  BY <1>2 DEF MuxInv, MuxShape, MuxStream
<1>5. CASE muxed[s].open /\ muxed[s].paused
  <2> DEFINE x == [muxed[s] EXCEPT !.backlog = Append(@, piece)]
             y == Append(due[s], piece)
  <2>1. muxed' = [muxed EXCEPT ![s] = x] /\ handed' = handed /\ due' = [due EXCEPT ![s] = y]
    BY <1>2, <1>5 DEF MuxRecv
  <2>2. /\ x \in MuxStream /\ x.backlog = Append(muxed[s].backlog, piece) /\ x.paused = muxed[s].paused
        /\ x.open = muxed[s].open
    <3>1. Append(muxed[s].backlog, piece) \in Pieces
      BY <1>2, <1>4 DEF Pieces
    <3> QED
      BY <1>4, <3>1 DEF MuxStream
  <2>3. y \in Pieces
    BY <1>2, <1>4 DEF Pieces
  <2>4. handed[s] \o muxed[s].backlog = due[s] => handed[s] \o x.backlog = y
    <3>1. Append(handed[s] \o muxed[s].backlog, piece) = handed[s] \o Append(muxed[s].backlog, piece)
      BY <1>4, AppendOfConcat
    <3> QED
      BY <2>2, <3>1
  <2> HIDE DEF x, y
  <2>5. MuxShape'
    BY <1>1, <1>2, <1>3, <2>1, <2>2, <2>3 DEF MuxInv, MuxShape
  <2>6. \A t \in StreamIds : StreamOK(t)'
    BY <1>2, <1>3, <1>5, <2>1, <2>2, <2>4 DEF StreamOK, MuxInv, MuxShape
  <2> QED
    BY <2>5, <2>6 DEF MuxInv
<1>6. CASE muxed[s].open /\ ~muxed[s].paused /\ muxed[s].receiving
  <2> DEFINE x == Append(handed[s], piece)
             y == Append(due[s], piece)
  <2>1. muxed' = muxed /\ handed' = [handed EXCEPT ![s] = x] /\ due' = [due EXCEPT ![s] = y]
    BY <1>2, <1>6 DEF MuxRecv
  <2>2. x \in Pieces /\ y \in Pieces
    BY <1>2, <1>4 DEF Pieces
  <2>3. StreamOK(s)'
    <3>1. handed'[s] = x /\ due'[s] = y
      BY <1>2, <2>1 DEF MuxInv, MuxShape
    <3>2. ASSUME s \notin stranded PROVE x \o muxed[s].backlog = y /\ muxed[s].backlog = <<>>
      <4>1. muxed[s].backlog = <<>> /\ handed[s] \o <<>> = due[s]
        BY <1>4, <1>6, <3>2 DEF StreamOK
      <4>2. handed[s] \o <<>> = handed[s] /\ x \o <<>> = x
        BY <1>4, <2>2, ConcatEmptySeq DEF Pieces
      <4> QED
        BY <4>1, <4>2
    <3> HIDE DEF x, y
    <3> QED
      BY <1>3, <2>1, <3>1, <3>2 DEF StreamOK
  <2> HIDE DEF x, y
  <2>4. MuxShape'
    BY <1>1, <1>2, <1>3, <2>1, <2>2 DEF MuxInv, MuxShape
  <2>5. ASSUME NEW t \in StreamIds PROVE StreamOK(t)'
    <3>1. CASE t = s
      BY <2>3, <3>1
    <3>2. CASE t # s
      <4>1. handed'[t] = handed[t] /\ due'[t] = due[t] /\ StreamOK(t)
        BY <2>1, <3>2 DEF MuxInv, MuxShape
      <4> QED
        BY <1>3, <2>1, <4>1 DEF StreamOK
    <3> QED
      BY <3>1, <3>2
  <2> QED
    BY <2>4, <2>5 DEF MuxInv
<1>7. CASE ~(muxed[s].open /\ muxed[s].paused) /\ ~(muxed[s].open /\ ~muxed[s].paused /\ muxed[s].receiving)
  <2>1. UNCHANGED <<muxed, handed, due>>
    BY <1>2, <1>7 DEF MuxRecv
  <2> QED
    BY <1>1, <1>3, <2>1 DEF MuxInv, MuxShape, StreamOK
<1> QED
  BY <1>5, <1>6, <1>7

\* Resuming hands over the backlog in order (trellis_mux_stream_resume).
LEMMA ResumeKeeps == ASSUME MuxInv, NEW s \in StreamIds, Resume(s) PROVE MuxInv'
<1>1. muxed[s] \in MuxStream /\ handed[s] \in Pieces /\ StreamOK(s) /\ muxed[s].backlog \in Pieces
      /\ muxed[s].open
  BY DEF MuxInv, MuxShape, MuxStream, Resume
<1>2. CASE muxed[s].receiving
  <2> DEFINE x == [muxed[s] EXCEPT !.paused = FALSE, !.backlog = <<>>]
             y == handed[s] \o muxed[s].backlog
  <2>1. /\ muxed' = [muxed EXCEPT ![s] = x] /\ handed' = [handed EXCEPT ![s] = y]
        /\ UNCHANGED <<sentOn, wired, due, stranded>>
    BY <1>1, <1>2 DEF Resume, MuxInv, MuxShape
  <2>2. x \in MuxStream /\ x.backlog = <<>>
    <3>1. ASSUME NEW o \in MuxStream, NEW b \in Pieces
          PROVE  LET z == [o EXCEPT !.paused = FALSE, !.backlog = b]
                 IN z \in MuxStream /\ z.backlog = b
      BY DEF MuxStream
    <3>2. <<>> \in Pieces
      BY DEF Pieces
    <3> QED
      BY <1>1, <3>1, <3>2
  <2>3. y \in Pieces /\ y \o <<>> = y
    BY <1>1, ConcatEmptySeq DEF Pieces
  <2>4. s \notin stranded => y = due[s]
    BY <1>1 DEF StreamOK
  <2> HIDE DEF x, y
  <2>5. MuxShape'
    BY <2>1, <2>2, <2>3 DEF MuxInv, MuxShape
  <2>6. \A t \in StreamIds : StreamOK(t)'
    BY <2>1, <2>2, <2>3, <2>4 DEF StreamOK, MuxInv, MuxShape
  <2> QED
    BY <2>5, <2>6 DEF MuxInv
<1>3. CASE ~muxed[s].receiving
  <2> DEFINE x == [muxed[s] EXCEPT !.paused = FALSE]
  <2>1. /\ muxed' = [muxed EXCEPT ![s] = x] /\ UNCHANGED <<handed, sentOn, wired, due>>
        /\ stranded' = IF muxed[s].backlog = <<>> THEN stranded ELSE stranded \union {s}
    BY <1>3 DEF Resume
  <2>2. x \in MuxStream /\ x.backlog = muxed[s].backlog
    BY <1>1 DEF MuxStream
  <2> HIDE DEF x
  <2>3. MuxShape'
    BY <2>1, <2>2 DEF MuxInv, MuxShape
  <2>4. \A t \in StreamIds : StreamOK(t)'
    BY <1>1, <2>1, <2>2 DEF StreamOK, MuxInv, MuxShape
  <2> QED
    BY <2>3, <2>4 DEF MuxInv
<1> QED
  BY <1>2, <1>3

\* Every step of the multiplexer keeps its invariant.
LEMMA MuxStepKeeps == MuxInv /\ [MuxNext]_muxVars => MuxInv'
<1> SUFFICES ASSUME MuxInv, [MuxNext]_muxVars PROVE MuxInv'
  OBVIOUS
<1>1. CASE UNCHANGED muxVars
  BY <1>1 DEF muxVars, MuxInv, MuxShape, StreamOK
<1>2. CASE FreeMux
  <2>1. MuxShape'
    BY <1>2, NoStreamIsOne DEF FreeMux, MuxInv, MuxShape
  <2>2. \A t \in StreamIds : StreamOK(t)'
    BY <1>2, NoStreamIsOne DEF FreeMux, StreamOK
  <2> QED
    BY <2>1, <2>2 DEF MuxInv
<1>3. ASSUME NEW s \in StreamIds, SendOnStream(s) PROVE MuxInv'
  <2>1. [stream |-> s, piece |-> sentOn + 1] \in [stream : StreamIds, piece : Nat] /\ sentOn' \in Nat
    BY <1>3 DEF MuxInv, MuxShape, SendOnStream
  <2>2. wired' \in Seq([stream : StreamIds, piece : Nat])
    BY <1>3, <2>1 DEF MuxInv, MuxShape, SendOnStream
  <2> QED
    BY <1>3, <2>1, <2>2 DEF MuxInv, MuxShape, StreamOK, SendOnStream
<1> QED
  BY <1>1, <1>2, <1>3, MuxRecvKeeps, ResumeKeeps, StreamCallsKeep DEF MuxNext

\* An open stream that was never resumed without a receiver hands out what it was due, in
\* order, for any number of streams and pieces (mux_on_recv and trellis_mux_stream_resume).
THEOREM BacklogInOrderHolds == MuxSpec => []BacklogInOrder
<1>1. MuxSpec => []MuxInv
  BY MuxInvStarts, MuxStepKeeps, PTL DEF MuxSpec
<1>2. MuxInv => BacklogInOrder
  BY DEF MuxInv, StreamOK, BacklogInOrder
<1> QED
  BY <1>1, <1>2, PTL

\* What streams keep and what is on the way was sent.
SentPieces(q, n) == q \in Pieces /\ \A i \in 1..Len(q) : q[i] \in 1..n
Numbered(w, n) ==
    w \in Seq([stream : StreamIds, piece : Nat]) /\ \A i \in 1..Len(w) : w[i].piece \in 1..n
MuxFits ==
    /\ sentOn \in 0..MaxSentOn /\ stranded \subseteq StreamIds /\ Numbered(wired, sentOn)
    /\ \A s \in StreamIds : SentPieces(muxed[s].backlog, sentOn)

\* A piece that was sent is appended to what was.
LEMMA PieceAppended ==
    ASSUME NEW n \in Nat, NEW q, SentPieces(q, n), NEW p \in 1..n
    PROVE  SentPieces(Append(q, p), n)
<1>1. q \in Seq(Nat) /\ p \in Nat /\ \A i \in 1..Len(q) : q[i] \in 1..n
  BY DEF SentPieces, Pieces
<1>2. /\ Append(q, p) \in Seq(Nat) /\ Len(Append(q, p)) = Len(q) + 1
      /\ \A i \in 1..Len(q) : Append(q, p)[i] = q[i]
      /\ Append(q, p)[Len(q) + 1] = p
  BY <1>1
<1>3. Len(q) \in Nat
  BY <1>1, LenProperties
<1>4. ASSUME NEW i \in 1..Len(Append(q, p)) PROVE Append(q, p)[i] \in 1..n
  BY <1>1, <1>2, <1>3
<1> QED
  BY <1>2, <1>4 DEF SentPieces, Pieces

\* More pieces are sent, and what was sent stays.
LEMMA PiecesStay ==
    ASSUME NEW n \in Nat, NEW q, SentPieces(q, n)
    PROVE  SentPieces(q, n + 1)
BY DEF SentPieces

\* A stream takes its next piece off the connection, or it is discarded.
LEMMA MuxRecvFits == ASSUME MuxInv, MuxFits, MuxRecv PROVE MuxFits'
<1> DEFINE f == Head(wired)
<1>1. /\ wired \in Seq([stream : StreamIds, piece : Nat]) /\ wired # <<>>
      /\ sentOn \in Nat /\ Len(wired) \in Nat
      /\ \A i \in 1..Len(wired) : wired[i].piece \in 1..sentOn
  <2>1. wired \in Seq([stream : StreamIds, piece : Nat]) /\ sentOn \in 0..MaxSentOn /\ MaxSentOn \in Nat
    BY MultiplexerAssumption DEF MuxInv, MuxShape, MuxFits
  <2>2. \A i \in 1..Len(wired) : wired[i].piece \in 1..sentOn
    BY DEF MuxFits, Numbered
  <2>3. Len(wired) \in Nat
    BY <2>1, LenProperties
  <2> QED
    BY <2>1, <2>2, <2>3 DEF MuxRecv
<1>2. /\ Tail(wired) \in Seq([stream : StreamIds, piece : Nat]) /\ Len(Tail(wired)) = Len(wired) - 1
      /\ \A i \in 1..Len(Tail(wired)) : Tail(wired)[i] = wired[i + 1]
  BY <1>1, HeadTailProperties
<1>3. f.stream \in StreamIds /\ f.piece \in 1..sentOn
  <2>1. f = wired[1] /\ 1 \in 1..Len(wired) /\ f \in [stream : StreamIds, piece : Nat]
    <3>1. Len(wired) # 0
      BY <1>1, EmptySeq
    <3>2. 1 \in 1..Len(wired)
      BY <1>1, <3>1
    <3>3. f = wired[1]
      BY <1>1
    <3>4. f \in [stream : StreamIds, piece : Nat]
      BY <1>1, HeadTailProperties
    <3> QED
      BY <3>2, <3>3, <3>4
  <2> QED
    BY <1>1, <2>1
<1>4. Numbered(Tail(wired), sentOn)
  <2>1. ASSUME NEW i \in 1..Len(Tail(wired)) PROVE Tail(wired)[i].piece \in 1..sentOn
    <3>1. i + 1 \in 1..Len(wired)
      BY <1>1, <1>2
    <3> QED
      BY <1>1, <1>2, <3>1
  <2> QED
    BY <1>2, <2>1 DEF Numbered
<1>5. wired' = Tail(wired) /\ sentOn' = sentOn /\ stranded' = stranded
  BY DEF MuxRecv
<1> DEFINE s == f.stream
           p == f.piece
<1>6. muxed' = [muxed EXCEPT ![s].backlog = Append(@, p)] \/ muxed' = muxed
  BY DEF MuxRecv
<1>7. muxed \in [StreamIds -> MuxStream]
  BY DEF MuxInv, MuxShape
<1> HIDE DEF s, p
<1>8. ASSUME NEW t \in StreamIds PROVE SentPieces(muxed'[t].backlog, sentOn)
  <2>1. SentPieces(muxed[t].backlog, sentOn)
    BY DEF MuxFits
  <2>2. CASE t = s /\ muxed' = [muxed EXCEPT ![s].backlog = Append(@, p)]
    <3>1. muxed[s] \in MuxStream
      BY <1>3, <1>7 DEF s
    <3>2. muxed'[t].backlog = Append(muxed[s].backlog, p)
      BY <1>7, <2>2, <3>1 DEF MuxStream
    <3>3. SentPieces(muxed[s].backlog, sentOn) /\ p \in 1..sentOn
      BY <1>3, <2>1, <2>2 DEF p
    <3> QED
      BY <1>1, <3>2, <3>3, PieceAppended
  <2>3. CASE t # s \/ muxed' = muxed
    <3>1. muxed'[t] = muxed[t]
      BY <1>6, <1>7, <2>3
    <3> QED
      BY <2>1, <3>1
  <2> QED
    BY <1>6, <2>2, <2>3
<1> QED
  BY <1>4, <1>5, <1>8 DEF MuxFits

\* The shape of the multiplexer is kept.
LEMMA MuxFitsKept ==
    /\ MuxInit => MuxFits
    /\ MuxInv /\ MuxFits /\ [MuxNext]_muxVars => MuxFits'
<1>0. SentPieces(<<>>, 0) /\ Numbered(<<>>, 0) /\ MaxSentOn \in Nat
  BY MultiplexerAssumption DEF SentPieces, Numbered, Pieces
<1>1. ASSUME MuxInit PROVE MuxFits
  <2>1. \A s \in StreamIds : muxed[s].backlog = <<>>
    BY <1>1, NoStreamIsOne DEF MuxInit
  <2>2. sentOn = 0 /\ wired = <<>> /\ stranded = {}
    BY <1>1 DEF MuxInit
  <2> QED
    BY <1>0, <2>1, <2>2 DEF MuxFits
<1> SUFFICES ASSUME MuxInv, MuxFits, [MuxNext]_muxVars PROVE MuxFits'
  BY <1>1
<1>2. /\ muxed \in [StreamIds -> MuxStream] /\ sentOn \in Nat /\ sentOn \in 0..MaxSentOn
      /\ \A s \in StreamIds : SentPieces(muxed[s].backlog, sentOn)
  BY <1>0 DEF MuxInv, MuxShape, MuxFits
<1>3. \A n \in Nat : SentPieces(<<>>, n)
  BY DEF SentPieces, Pieces
<1>4. CASE UNCHANGED muxVars
  BY <1>4 DEF muxVars, MuxFits
\* A step that sends nothing, after which a stream keeps what it had or nothing.
<1>5. ASSUME UNCHANGED <<sentOn, wired>>, stranded' \subseteq StreamIds,
             \A t \in StreamIds : muxed'[t].backlog = muxed[t].backlog \/ muxed'[t].backlog = <<>>
      PROVE  MuxFits'
  <2>1. ASSUME NEW t \in StreamIds PROVE SentPieces(muxed'[t].backlog, sentOn)
    BY <1>2, <1>3, <1>5
  <2> QED
    BY <1>5, <2>1 DEF MuxFits
<1>6. CASE FreeMux
  <2>1. \A t \in StreamIds : muxed'[t].backlog = <<>>
    BY <1>6, NoStreamIsOne DEF FreeMux
  <2> QED
    BY <1>5, <1>6, <2>1 DEF FreeMux, MuxFits
<1>7. ASSUME NEW s \in StreamIds, SendOnStream(s) PROVE MuxFits'
  <2> DEFINE m == [stream |-> s, piece |-> sentOn + 1]
  <2>1. wired' = Append(wired, m) /\ sentOn' = sentOn + 1 /\ sentOn < MaxSentOn /\ UNCHANGED <<muxed, stranded>>
    BY <1>7 DEF SendOnStream
  <2>2. m \in [stream : StreamIds, piece : Nat] /\ m.piece = sentOn + 1
    BY <1>2
  <2> HIDE DEF m
  <2>3. wired \in Seq([stream : StreamIds, piece : Nat]) /\ \A i \in 1..Len(wired) : wired[i].piece \in 1..sentOn
    BY DEF MuxFits, Numbered
  <2>4. Len(wired) \in Nat
    BY <2>3, LenProperties
  <2>5. /\ Append(wired, m) \in Seq([stream : StreamIds, piece : Nat]) /\ Len(Append(wired, m)) = Len(wired) + 1
        /\ \A i \in 1..Len(wired) : Append(wired, m)[i] = wired[i]
        /\ Append(wired, m)[Len(wired) + 1] = m
    BY <2>2, <2>3, AppendProperties
  <2>6. ASSUME NEW i \in 1..Len(Append(wired, m)) PROVE Append(wired, m)[i].piece \in 1..sentOn + 1
    <3>1. CASE i \in 1..Len(wired)
      <4>1. wired[i].piece \in 1..sentOn
        BY <2>3, <3>1
      <4> QED
        BY <1>2, <2>5, <3>1, <4>1
    <3>2. CASE i = Len(wired) + 1
      BY <1>2, <2>2, <2>5, <3>2
    <3> QED
      BY <2>4, <2>5, <3>1, <3>2
  <2>7. Numbered(wired', sentOn')
    BY <2>1, <2>5, <2>6 DEF Numbered
  <2>8. \A t \in StreamIds : SentPieces(muxed'[t].backlog, sentOn')
    BY <1>2, <2>1, PiecesStay
  <2>9. sentOn' \in 0..MaxSentOn
    BY <1>0, <1>2, <2>1
  <2>10. stranded' \subseteq StreamIds
    BY <2>1 DEF MuxFits
  <2> QED
    BY <2>7, <2>8, <2>9, <2>10 DEF MuxFits
<1>8. ASSUME NEW s \in StreamIds,
             OpenMuxStream(s) \/ Pause(s) \/ CloseMuxStream(s) \/ \E on \in BOOLEAN : MuxReceiver(s, on)
      PROVE  MuxFits'
  <2>1. UNCHANGED <<sentOn, wired>> /\ stranded' \subseteq stranded
    BY <1>8 DEF OpenMuxStream, Pause, CloseMuxStream, MuxReceiver
  <2>2. stranded' \subseteq StreamIds
    BY <2>1 DEF MuxFits
  <2>3. muxed[s] \in MuxStream
    BY <1>2
  <2>4. ASSUME NEW on \in BOOLEAN PROVE [muxed[s] EXCEPT !.receiving = on].backlog = muxed[s].backlog
    BY <2>3 DEF MuxStream
  <2>5. [muxed[s] EXCEPT !.paused = TRUE].backlog = muxed[s].backlog
    BY <2>3 DEF MuxStream
  <2>6. [NoStream EXCEPT !.open = TRUE].backlog = <<>> /\ NoStream.backlog = <<>>
    BY DEF NoStream
  <2>7. PICK x : muxed' = [muxed EXCEPT ![s] = x] /\ (x.backlog = muxed[s].backlog \/ x.backlog = <<>>)
    <3>1. CASE OpenMuxStream(s)
      BY <2>6, <3>1 DEF OpenMuxStream
    <3>2. CASE Pause(s)
      BY <2>5, <3>2 DEF Pause
    <3>3. CASE CloseMuxStream(s)
      BY <2>6, <3>3 DEF CloseMuxStream
    <3>4. ASSUME NEW on \in BOOLEAN, MuxReceiver(s, on)
          PROVE  \E x : muxed' = [muxed EXCEPT ![s] = x] /\ x.backlog = muxed[s].backlog
      <4>1. muxed' = [muxed EXCEPT ![s] = [muxed[s] EXCEPT !.receiving = on]]
        BY <3>4 DEF MuxReceiver
      <4> QED
        BY <2>4, <4>1
    <3> QED
      BY <1>8, <3>1, <3>2, <3>3, <3>4
  <2>8. \A t \in StreamIds : muxed'[t].backlog = muxed[t].backlog \/ muxed'[t].backlog = <<>>
    BY <1>2, <2>7
  <2> QED
    BY <1>5, <2>1, <2>2, <2>8
<1>9. ASSUME NEW s \in StreamIds, Resume(s) PROVE MuxFits'
  <2>1. UNCHANGED <<sentOn, wired>> /\ stranded' \subseteq stranded \union {s}
    BY <1>9 DEF Resume
  <2>2. stranded' \subseteq StreamIds
    BY <2>1 DEF MuxFits
  <2>3. muxed[s] \in MuxStream
    BY <1>2
  <2>4. \/ muxed' = [muxed EXCEPT ![s] = [@ EXCEPT !.paused = FALSE, !.backlog = <<>>]]
        \/ muxed' = [muxed EXCEPT ![s] = [@ EXCEPT !.paused = FALSE]]
    BY <1>2, <1>9, <2>3 DEF Resume
  <2>5. /\ [muxed[s] EXCEPT !.paused = FALSE, !.backlog = <<>>].backlog = <<>>
        /\ [muxed[s] EXCEPT !.paused = FALSE].backlog = muxed[s].backlog
    BY <2>3 DEF MuxStream
  <2>6. \A t \in StreamIds : muxed'[t].backlog = muxed[t].backlog \/ muxed'[t].backlog = <<>>
    BY <1>2, <2>4, <2>5
  <2> QED
    BY <1>5, <2>1, <2>2, <2>6
<1> QED
  BY <1>4, <1>6, <1>7, <1>8, <1>9, MuxRecvFits DEF MuxNext

\* So the multiplexer has its type.
LEMMA MuxTyped == MuxInv /\ MuxFits => MuxTypeOK
<1> SUFFICES ASSUME MuxInv, MuxFits PROVE MuxTypeOK
  OBVIOUS
<1>1. ASSUME NEW s \in StreamIds
      PROVE  /\ {muxed[s].open, muxed[s].paused, muxed[s].receiving} \subseteq BOOLEAN
             /\ \A i \in DOMAIN muxed[s].backlog : muxed[s].backlog[i] \in 1..sentOn
  <2>1. muxed[s] \in MuxStream
    BY DEF MuxInv, MuxShape
  <2>2. SentPieces(muxed[s].backlog, sentOn)
    BY DEF MuxFits
  <2>3. DOMAIN muxed[s].backlog = 1..Len(muxed[s].backlog)
    BY <2>2, LenProperties DEF SentPieces
  <2> QED
    BY <2>1, <2>2, <2>3 DEF MuxStream, SentPieces
<1> QED
  BY <1>1 DEF MuxFits, MuxTypeOK

----------------------------------------------------------------------------
(* ConnGate. *)

Seed == [id : Nat, age : Nat]

SeedsOK == seeds \in Seq(Seed) /\ Len(seeds) >= 1 /\ nextSeed \in Nat
WaitingOK == waiting \in [GateConns -> [seed : Nat, left : 0..AnswerTime]]

\* The seed of a challenge is the newest, or the one before, and then its answer is due
\* before the newest is replaced.
InTime(c) ==
    \/ waiting[c].seed = seeds[1].id
    \/ /\ Len(seeds) >= 2 /\ waiting[c].seed = seeds[2].id
       /\ waiting[c].left + seeds[1].age <= AnswerTime

GateInv == SeedsOK /\ WaitingOK /\ \A c \in GateConns : waiting[c] # NoChallenge => InTime(c)

\* maybe_rotate keeps a sequence of seeds, and the seed that was the newest stays the second.
LEMMA Rotation ==
    ASSUME SeedsOK
    PROVE  /\ SeedsRotated \in Seq(Seed) /\ Len(SeedsRotated) >= 1
           /\ seeds[1].age < SeedLife => SeedsRotated = seeds
           /\ ~(seeds[1].age < SeedLife) =>
                /\ Len(SeedsRotated) >= 2
                /\ SeedsRotated[1] = [id |-> nextSeed, age |-> 0] /\ SeedsRotated[2] = seeds[1]
<1> DEFINE kept == <<[id |-> nextSeed, age |-> 0]>> \o seeds
           n == IF Len(kept) < SeedsKept THEN Len(kept) ELSE SeedsKept
<1>1. SeedsKept \in Nat /\ SeedsKept >= 2
  BY GateAssumption DEF GateAssumption
<1>2. CASE seeds[1].age < SeedLife
  BY <1>2 DEF SeedsRotated, SeedsOK
<1>3. CASE ~(seeds[1].age < SeedLife)
  <2>1. [id |-> nextSeed, age |-> 0] \in Seed
    BY DEF SeedsOK, Seed
  <2>2. /\ kept \in Seq(Seed) /\ Len(kept) = Len(seeds) + 1
        /\ kept[1] = [id |-> nextSeed, age |-> 0] /\ kept[2] = seeds[1]
    BY <2>1 DEF SeedsOK
  <2>3. n \in 2..Len(kept)
    BY <1>1, <2>2 DEF SeedsOK
  <2>4. SeedsRotated = SubSeq(kept, 1, n)
    BY <1>3 DEF SeedsRotated
  <2> HIDE DEF kept, n
  <2>5. /\ SubSeq(kept, 1, n) \in Seq(Seed) /\ Len(SubSeq(kept, 1, n)) = n
        /\ SubSeq(kept, 1, n)[1] = kept[1] /\ SubSeq(kept, 1, n)[2] = kept[2]
    BY <2>2, <2>3
  <2> QED
    BY <1>3, <2>2, <2>3, <2>4, <2>5
<1> QED
  BY <1>2, <1>3

\* No challenge stands open at the start.
LEMMA GateInvStarts == GateInit => GateInv
<1> SUFFICES ASSUME GateInit PROVE GateInv
  OBVIOUS
<1>1. [id |-> 1, age |-> 0] \in Seed
  BY DEF Seed
<1>2. SeedsOK
  BY <1>1 DEF GateInit, SeedsOK
<1>3. WaitingOK /\ \A c \in GateConns : waiting[c] = NoChallenge
  BY GateAssumption DEF GateAssumption, GateInit, WaitingOK, NoChallenge
<1> QED
  BY <1>2, <1>3 DEF GateInv

\* A challenge that is made is under the newest seed.
LEMMA IssuedKeeps == ASSUME GateInv, NEW c \in GateConns, IssueChallenge(c) PROVE GateInv'
<1> DEFINE mine == [seed |-> seeds'[1].id, left |-> AnswerTime]
<1>1. /\ AnswerTime \in Nat /\ SeedLife \in Nat /\ AnswerTime < SeedLife
  BY GateAssumption DEF GateAssumption
<1>2. seeds' = SeedsRotated /\ waiting' = [waiting EXCEPT ![c] = mine]
  BY DEF IssueChallenge
<1>3. SeedsOK /\ WaitingOK
  BY DEF GateInv
<1>4. SeedsOK'
  BY <1>2, <1>3, Rotation DEF SeedsOK, IssueChallenge
<1>5. seeds'[1] \in Seed /\ seeds[1] \in Seed
  BY <1>3, <1>4 DEF SeedsOK
<1>6. WaitingOK'
  BY <1>1, <1>2, <1>3, <1>5 DEF WaitingOK, Seed
<1>7. ASSUME NEW d \in GateConns, waiting'[d] # NoChallenge PROVE InTime(d)'
  <2>1. CASE d = c
    BY <1>2, <1>3, <2>1 DEF InTime, WaitingOK
  <2>2. CASE d # c
    <3>1. waiting'[d] = waiting[d] /\ waiting[d] \in [seed : Nat, left : 0..AnswerTime]
      BY <1>2, <1>3, <2>2 DEF WaitingOK
    <3>2. InTime(d)
      BY <1>7, <3>1 DEF GateInv
    <3>3. CASE seeds[1].age < SeedLife
      BY <1>2, <1>3, <3>1, <3>2, <3>3, Rotation DEF InTime
    <3>4. CASE ~(seeds[1].age < SeedLife)
      <4>1. waiting[d].seed = seeds[1].id
        BY <1>1, <1>5, <3>1, <3>2, <3>4 DEF InTime, Seed
      <4>2. Len(seeds') >= 2 /\ seeds'[1].age = 0 /\ seeds'[2] = seeds[1]
        BY <1>2, <1>3, <3>4, Rotation
      <4> QED
        BY <1>1, <3>1, <4>1, <4>2 DEF InTime
    <3> QED
      BY <3>3, <3>4
  <2> QED
    BY <2>1, <2>2
<1> QED
  BY <1>4, <1>6, <1>7 DEF GateInv

\* An answered challenge no longer counts.
LEMMA AnsweredKeeps == ASSUME GateInv, NEW c \in GateConns, Answered(c) PROVE GateInv'
<1>1. SeedsOK'
  BY DEF GateInv, SeedsOK, Answered
<1>2. WaitingOK'
  BY GateAssumption DEF GateAssumption, GateInv, WaitingOK, Answered, NoChallenge
<1>3. ASSUME NEW d \in GateConns, waiting'[d] # NoChallenge PROVE InTime(d)'
  BY <1>3 DEF GateInv, WaitingOK, Answered, InTime
<1> QED
  BY <1>1, <1>2, <1>3 DEF GateInv

\* Time that passes takes from the time to answer what it adds to the age of the seed.
LEMMA PowTickKeeps == ASSUME GateInv, PowTick PROVE GateInv'
<1> DEFINE older(e) == [e EXCEPT !.age = IF @ < SeedLife THEN @ + 1 ELSE @]
<1>1. /\ AnswerTime \in Nat /\ SeedLife \in Nat /\ AnswerTime < SeedLife
  BY GateAssumption DEF GateAssumption
<1>2. SeedsOK /\ WaitingOK
  BY DEF GateInv
<1>3. /\ seeds' = [i \in 1..Len(seeds) |-> older(seeds[i])]
      /\ \A i \in 1..Len(seeds) : seeds[i] \in Seed
  BY <1>2 DEF PowTick, SeedsOK
<1>4. \A e \in Seed : /\ older(e) \in Seed /\ older(e).id = e.id
                      /\ older(e).age = IF e.age < SeedLife THEN e.age + 1 ELSE e.age
  BY <1>1 DEF Seed
<1> HIDE DEF older
<1>5. SeedsOK' /\ Len(seeds') = Len(seeds)
  <2>1. Len(seeds) \in Nat
    BY <1>2 DEF SeedsOK
  <2>2. seeds' \in [1..Len(seeds) -> Seed]
    BY <1>3, <1>4
  <2>3. seeds' \in Seq(Seed) /\ Len(seeds') = Len(seeds)
    BY <2>1, <2>2
  <2> QED
    BY <1>2, <2>3 DEF SeedsOK, PowTick
<1>6. \A d \in GateConns : waiting[d] # NoChallenge =>
             /\ waiting'[d] = [seed |-> waiting[d].seed, left |-> waiting[d].left - 1]
             /\ waiting[d].seed \in Nat /\ waiting[d].left \in 1..AnswerTime
  <2> SUFFICES ASSUME NEW d \in GateConns, waiting[d] # NoChallenge
               PROVE  /\ waiting'[d] = [seed |-> waiting[d].seed, left |-> waiting[d].left - 1]
                      /\ waiting[d].seed \in Nat /\ waiting[d].left \in 1..AnswerTime
    OBVIOUS
  <2>1. waiting[d] \in [seed : Nat, left : 0..AnswerTime] /\ waiting[d].left > 0
    BY <1>2 DEF WaitingOK, PowTick
  <2>2. waiting'[d] = [waiting[d] EXCEPT !.left = @ - 1]
    BY DEF PowTick
  <2> QED
    BY <1>1, <2>1, <2>2
<1>7. WaitingOK'
  <2>1. waiting' = [d \in GateConns |-> waiting'[d]]
    BY DEF PowTick
  <2>2. ASSUME NEW d \in GateConns PROVE waiting'[d] \in [seed : Nat, left : 0..AnswerTime]
    <3>1. CASE waiting[d] = NoChallenge
      BY <1>1, <3>1 DEF PowTick, NoChallenge
    <3>2. CASE waiting[d] # NoChallenge
      <4>1. /\ waiting'[d] = [seed |-> waiting[d].seed, left |-> waiting[d].left - 1]
            /\ waiting[d].seed \in Nat /\ waiting[d].left \in 1..AnswerTime
        BY <1>6, <3>2
      <4> QED
        BY <1>1, <4>1
    <3> QED
      BY <3>1, <3>2
  <2> QED
    BY <2>1, <2>2 DEF WaitingOK
<1>8. ASSUME NEW d \in GateConns, waiting'[d] # NoChallenge PROVE InTime(d)'
  <2>1. waiting[d] # NoChallenge
    BY <1>8 DEF PowTick
  <2>2. InTime(d) /\ waiting[d].left \in 1..AnswerTime
        /\ waiting'[d].seed = waiting[d].seed /\ waiting'[d].left = waiting[d].left - 1
    <3>1. InTime(d)
      BY <2>1 DEF GateInv
    <3>2. /\ waiting'[d] = [seed |-> waiting[d].seed, left |-> waiting[d].left - 1]
          /\ waiting[d].left \in 1..AnswerTime
      BY <1>6, <2>1
    <3> QED
      BY <3>1, <3>2
  <2>3. 1 \in 1..Len(seeds) /\ seeds[1] \in Seed /\ seeds'[1] = older(seeds[1])
    BY <1>2, <1>3 DEF SeedsOK
  <2>4. CASE waiting[d].seed = seeds[1].id
    BY <1>4, <2>2, <2>3, <2>4 DEF InTime
  <2>5. CASE /\ Len(seeds) >= 2 /\ waiting[d].seed = seeds[2].id
             /\ waiting[d].left + seeds[1].age <= AnswerTime
    <3>1. seeds[2] \in Seed /\ seeds'[2] = older(seeds[2])
      BY <1>2, <1>3, <2>5 DEF SeedsOK
    <3>2. waiting'[d].seed = seeds'[2].id
      BY <1>4, <2>2, <2>5, <3>1
    <3>3. seeds[1].age \in Nat /\ seeds[1].age < SeedLife
      BY <1>1, <2>2, <2>3, <2>5 DEF Seed
    <3>4. seeds'[1].age = seeds[1].age + 1
      BY <1>4, <2>3, <3>3
    <3>5. waiting'[d].left + seeds'[1].age <= AnswerTime
      BY <1>1, <2>2, <2>5, <3>3, <3>4
    <3> QED
      BY <1>5, <2>5, <3>2, <3>5 DEF InTime
  <2> QED
    BY <2>2, <2>4, <2>5 DEF InTime
<1> QED
  BY <1>5, <1>7, <1>8 DEF GateInv

\* Every step of the gate keeps its invariant.
LEMMA GateStepKeeps == GateInv /\ [PowNext \/ GuardingNext]_gateVars => GateInv'
<1> SUFFICES ASSUME GateInv, [PowNext \/ GuardingNext]_gateVars PROVE GateInv'
  OBVIOUS
<1>1. CASE UNCHANGED powVars
  BY <1>1 DEF powVars, GateInv, SeedsOK, WaitingOK, InTime
<1>2. CASE PowNext
  BY <1>2, IssuedKeeps, AnsweredKeeps, PowTickKeeps DEF PowNext
<1>3. CASE GuardingNext
  BY <1>1, <1>3 DEF GuardingNext, PeerFrame, SendPong, PongArrives, PongTimer, RekeyTimer,
                    PeerTurnsHour, HourTurns, GateTick
<1> QED
  BY <1>1, <1>2, <1>3 DEF gateVars

\* The seed of a challenge that is not answered yet is one that find_seed finds.
LEMMA GateInvFinds == GateInv => ChallengesStandOpen
<1> SUFFICES ASSUME GateInv, NEW c \in GateConns, waiting[c] # NoChallenge
             PROVE  waiting[c].seed \in SeedsFound
  BY DEF ChallengesStandOpen
<1>1. InTime(c) /\ Len(seeds) \in Nat /\ Len(seeds) >= 1
  BY DEF GateInv, SeedsOK
<1> QED
  BY <1>1 DEF InTime, SeedsFound

\* A connection that answers its challenge in time finds its seed kept, for any lifetime of
\* the seeds longer than the time to answer (maybe_rotate and find_seed of conn_pow.c).
THEOREM ChallengesStandOpenHolds == GateSpec => []ChallengesStandOpen
<1>1. GateSpec => []GateInv
  BY GateInvStarts, GateStepKeeps, PTL DEF GateSpec
<1> QED
  BY <1>1, GateInvFinds, PTL

\* The probe guard and the keepalive.  The two timers are started together.
InStep ==
    \/ since.rekey = since.ping \/ since.rekey = since.ping + PingPeriod
    \/ since.rekey = since.ping + RekeyPeriod \/ since.ping = since.rekey + PingPeriod

GuardingShape ==
    /\ guard \in [epoch : Nat, count : Nat, blocked : BOOLEAN]
    /\ since \in [reset : Nat, pong : Nat, ping : 0..PingPeriod, rekey : 0..RekeyPeriod, hour : 0..HourLength]
    /\ hour \in Nat /\ overran \in Nat /\ peer \in {"up", "removed"}
    /\ pong \in {"none", "due", "before", "now", "next"}
    /\ InStep

\* The guard's key is that of this hour or, until the rekey timer fires, of the one before.
HoursOK ==
    /\ guard.epoch # hour => guard.epoch + 1 = hour /\ since.hour <= since.rekey
    /\ peerAhead => since.hour = HourLength
    /\ pong = "next" => peerAhead
    /\ pong = "before" => since.hour = 0

\* A peer is in the filter for an excess that is not older than the filter.
FilterOK == guard.blocked => overran <= since.reset \/ since.reset >= BloomLife

\* The answer to a PING is here before time passes, and after the rekey timer if that is due.
Pinged ==
    /\ pong # "none" => since.ping = 0
    /\ since.rekey = RekeyPeriod /\ since.ping = 0 => pong # "none"

\* The last PING was answered, or some were not since the hour turned: before the rekey
\* timer fired, or just now, when the PING that will be answered is due or under way.
OnTime == since.pong <= since.ping + (IF pong = "none" THEN 0 ELSE PingPeriod)
OldKey ==
    /\ since.hour <= since.rekey /\ since.rekey <= since.hour + PingPeriod
    /\ since.pong <= since.rekey + PingPeriod
NewKey ==
    /\ since.rekey = 0 /\ (since.ping = PingPeriod \/ pong # "none")
    /\ since.hour \in PingPeriod..RekeyPeriod /\ since.pong <= 3 * PingPeriod

\* Otherwise a PONG was lost to the filter, and the excess was not much longer ago.
PongOK ==
    /\ since.pong <= DeadAfter + since.ping
    /\ OnTime \/ OldKey \/ NewKey \/ overran < BloomLife + since.pong

GuardingInv ==
    /\ GuardingShape /\ HoursOK /\ FilterOK /\ RemovedForExcess
    /\ peer = "up" => Pinged /\ PongOK

\* The periods are those of the code.
LEMMA Periods ==
    /\ {BloomLife, PingPeriod, RekeyPeriod, DeadAfter, HourLength} \subseteq Nat \ {0}
    /\ RekeyPeriod = 2 * PingPeriod /\ DeadAfter >= 3 * PingPeriod /\ RekeyPeriod < HourLength
    /\ Forgiven \in Nat /\ Forgiven = BloomLife + RekeyPeriod + DeadAfter + PingPeriod
  BY GateAssumption DEF GateAssumption, Forgiven

\* The guard starts with the timers.
LEMMA GuardingInvStarts == GateInit => GuardingInv
<1> SUFFICES ASSUME GateInit PROVE GuardingInv
  OBVIOUS
<1>1. /\ guard = [epoch |-> 0, count |-> 0, blocked |-> FALSE] /\ hour = 0 /\ peerAhead = FALSE
      /\ since = [reset |-> 0, pong |-> 0, ping |-> 0, rekey |-> 0, hour |-> HourLength]
      /\ pong = "none" /\ overran = Forgiven /\ peer = "up"
  BY DEF GateInit
<1>2. GuardingShape
  BY <1>1, Periods DEF GuardingShape, InStep
<1>3. HoursOK /\ FilterOK /\ RemovedForExcess
  BY <1>1 DEF HoursOK, FilterOK, RemovedForExcess
<1>4. Pinged /\ PongOK
  BY <1>1, Periods DEF Pinged, PongOK, OnTime
<1> QED
  BY <1>2, <1>3, <1>4 DEF GuardingInv

\* A frame leaves the key, and puts the peer into the filter only as an excess.
LEMMA CheckedKeeps ==
    ASSUME GuardingShape
    PROVE  /\ Checked \in [epoch : Nat, count : Nat, blocked : BOOLEAN] /\ Checked.epoch = guard.epoch
           /\ Checked.blocked => Excess \/ (guard.blocked /\ ~BloomCleared)
<1> DEFINE blocked == guard.blocked /\ ~BloomCleared
           counted == IF blocked \/ guard.count > FrameLimit THEN guard.count ELSE guard.count + 1
           now == blocked \/ counted > FrameLimit
<1>1. guard \in [epoch : Nat, count : Nat, blocked : BOOLEAN]
  BY DEF GuardingShape
<1>2. Checked = [guard EXCEPT !.count = counted, !.blocked = now]
  BY DEF Checked
<1>3. counted \in Nat /\ now \in BOOLEAN
  BY <1>1
<1> HIDE DEF counted, now
<1>4. /\ Checked \in [epoch : Nat, count : Nat, blocked : BOOLEAN] /\ Checked.epoch = guard.epoch
  BY <1>1, <1>2, <1>3
<1> QED
  BY <1>4 DEF Excess

\* The filter, after a frame: reset is the time since it was cleared then.
LEMMA FrameKeeps ==
    ASSUME GuardingInv, guard' = Checked, overran' = IF Excess THEN 0 ELSE overran,
           since'.reset = IF BloomCleared THEN 0 ELSE since.reset, since'.reset \in Nat
    PROVE  FilterOK' /\ overran' \in Nat /\ overran' <= overran
<1>1. GuardingShape /\ FilterOK
  BY DEF GuardingInv
<1>2. overran \in Nat /\ since.reset \in Nat
  BY <1>1 DEF GuardingShape
<1>3. overran' \in Nat /\ overran' <= overran
  BY <1>2
<1>4. ASSUME guard'.blocked PROVE overran' <= since'.reset \/ since'.reset >= BloomLife
  <2>1. CASE Excess
    BY <2>1
  <2>2. CASE ~Excess
    <3>1. guard.blocked /\ ~BloomCleared
      BY <1>1, <1>4, <2>2, CheckedKeeps
    <3> QED
      BY <1>1, <2>2, <3>1 DEF FilterOK
  <2> QED
    BY <2>1, <2>2
<1> QED
  BY <1>3, <1>4 DEF FilterOK

\* An ordinary frame of the peer.
LEMMA PeerFrameKeeps == ASSUME GuardingInv, PeerFrame PROVE GuardingInv'
<1> DEFINE reset == IF BloomCleared THEN 0 ELSE since.reset
<1>1. GuardingShape /\ HoursOK /\ RemovedForExcess /\ peer = "up" /\ Pinged /\ PongOK
  BY DEF GuardingInv, PeerFrame
<1>2. reset \in Nat
  BY <1>1 DEF GuardingShape
<1>3. since' = [since EXCEPT !.reset = reset]
  BY DEF PeerFrame
<1> HIDE DEF reset
<1>4. /\ since' \in [reset : Nat, pong : Nat, ping : 0..PingPeriod, rekey : 0..RekeyPeriod, hour : 0..HourLength]
      /\ since'.reset = reset /\ since'.pong = since.pong /\ since'.ping = since.ping
      /\ since'.rekey = since.rekey /\ since'.hour = since.hour
  BY <1>1, <1>2, <1>3 DEF GuardingShape
<1>5. guard' = Checked /\ UNCHANGED <<hour, peerAhead, pong, peer>> /\ overran' = IF Excess THEN 0 ELSE overran
  BY DEF PeerFrame
<1>6. FilterOK' /\ overran' \in Nat /\ overran' <= overran
  BY <1>2, <1>4, <1>5, FrameKeeps DEF reset
<1>7. guard' \in [epoch : Nat, count : Nat, blocked : BOOLEAN] /\ guard'.epoch = guard.epoch
  BY <1>1, <1>5, CheckedKeeps
<1>8. GuardingShape'
  BY <1>1, <1>4, <1>5, <1>6, <1>7 DEF GuardingShape, InStep
<1>9. HoursOK' /\ RemovedForExcess'
  BY <1>1, <1>4, <1>5, <1>7 DEF HoursOK, RemovedForExcess
<1>10. Pinged'
  BY <1>1, <1>4, <1>5 DEF Pinged
<1>11. PongOK'
  <2>1. overran \in Nat /\ since.pong \in Nat /\ BloomLife \in Nat
    BY <1>1, Periods DEF GuardingShape
  <2>2. overran < BloomLife + since.pong => overran' < BloomLife + since.pong
    BY <1>6, <2>1
  <2> QED
    BY <1>1, <1>4, <1>5, <2>2 DEF PongOK, OnTime, OldKey, NewKey
<1> QED
  BY <1>6, <1>8, <1>9, <1>10, <1>11 DEF GuardingInv

\* The peer answers a PING.
LEMMA SendPongKeeps == ASSUME GuardingInv, SendPong PROVE GuardingInv'
<1>1. GuardingShape /\ HoursOK /\ FilterOK /\ RemovedForExcess /\ peer = "up" /\ Pinged /\ PongOK
  BY DEF GuardingInv, SendPong
<1>2. /\ pong = "due" /\ UNCHANGED <<guard, hour, peerAhead, since, overran, peer>>
      /\ pong' \in {"now", "next"} /\ (pong' = "next" => peerAhead)
  BY DEF SendPong
<1>3. GuardingShape'
  BY <1>1, <1>2 DEF GuardingShape, InStep
<1>4. HoursOK' /\ FilterOK' /\ RemovedForExcess'
  BY <1>1, <1>2 DEF HoursOK, FilterOK, RemovedForExcess
<1>5. Pinged' /\ PongOK'
  BY <1>1, <1>2 DEF Pinged, PongOK, OnTime, OldKey, NewKey
<1> QED
  BY <1>3, <1>4, <1>5 DEF GuardingInv

\* A PONG that does not pass was lost to the filter, or to the old key since the hour turned.
LEMMA LostPong ==
    ASSUME GuardingInv, PongArrives, ~Passes(pong)
    PROVE  overran' < BloomLife \/ since.hour <= since.rekey
<1>1. GuardingShape /\ HoursOK /\ FilterOK
  BY DEF GuardingInv
<1>2. pong \in {"before", "now", "next"} /\ overran' = IF Excess THEN 0 ELSE overran
  BY DEF PongArrives
<1>3. CASE Checked.blocked
  <2>1. CASE Excess
    BY <1>2, <2>1, Periods
  <2>2. CASE ~Excess
    <3>1. guard.blocked /\ ~BloomCleared
      BY <1>1, <1>3, <2>2, CheckedKeeps
    <3>2. overran <= since.reset /\ since.reset < BloomLife /\ since.reset \in Nat /\ overran \in Nat
      BY <1>1, <3>1, Periods DEF FilterOK, GuardingShape, BloomCleared
    <3> QED
      BY <1>2, <2>2, <3>2, Periods
  <2> QED
    BY <2>1, <2>2
<1>4. CASE ~Checked.blocked
  <2>1. HourOf(pong) # guard.epoch /\ HourOf(pong) # hour + 1
    BY <1>4 DEF Passes
  <2>2. CASE pong = "before"
    BY <1>1, <2>2 DEF HoursOK, GuardingShape
  <2>3. CASE pong = "now"
    BY <1>1, <2>1, <2>3 DEF HoursOK, HourOf
  <2>4. CASE pong = "next"
    BY <2>1, <2>4 DEF HourOf
  <2> QED
    BY <1>2, <2>2, <2>3, <2>4
<1> QED
  BY <1>3, <1>4

\* A PONG arrives: the time is counted anew, or it is one of those that the old key costs.
LEMMA PongArrivesKeeps == ASSUME GuardingInv, PongArrives PROVE GuardingInv'
<1> DEFINE reset == IF BloomCleared THEN 0 ELSE since.reset
           last == IF Passes(pong) THEN 0 ELSE since.pong
<1>1. GuardingShape /\ HoursOK /\ RemovedForExcess /\ peer = "up" /\ Pinged /\ PongOK
  BY DEF GuardingInv, PongArrives
<1>2. reset \in Nat /\ last \in Nat
  BY <1>1 DEF GuardingShape
<1>3. since' = [since EXCEPT !.reset = reset, !.pong = last]
  BY DEF PongArrives
<1> HIDE DEF reset, last
<1>4. /\ since' \in [reset : Nat, pong : Nat, ping : 0..PingPeriod, rekey : 0..RekeyPeriod, hour : 0..HourLength]
      /\ since'.reset = reset /\ since'.pong = last /\ since'.ping = since.ping
      /\ since'.rekey = since.rekey /\ since'.hour = since.hour
  BY <1>1, <1>2, <1>3 DEF GuardingShape
<1>5. /\ guard' = Checked /\ UNCHANGED <<hour, peerAhead, peer>> /\ pong' = "none" /\ pong # "none"
      /\ overran' = (IF Excess THEN 0 ELSE overran) /\ since.rekey < RekeyPeriod
  BY DEF PongArrives
<1>6. FilterOK' /\ overran' \in Nat /\ overran' <= overran
  BY <1>2, <1>4, <1>5, FrameKeeps DEF reset
<1>7. guard' \in [epoch : Nat, count : Nat, blocked : BOOLEAN] /\ guard'.epoch = guard.epoch
  BY <1>1, <1>5, CheckedKeeps
<1>8. GuardingShape'
  BY <1>1, <1>4, <1>5, <1>6, <1>7 DEF GuardingShape, InStep
<1>9. HoursOK' /\ RemovedForExcess'
  BY <1>1, <1>4, <1>5, <1>7 DEF HoursOK, RemovedForExcess
<1>10. Pinged'
  BY <1>1, <1>4, <1>5 DEF Pinged
<1>11. PongOK'
  <2>1. /\ since.ping = 0 /\ since.rekey \in {0, PingPeriod} /\ since.pong \in Nat /\ since.hour \in Nat
    BY <1>1, <1>5, Periods DEF Pinged, GuardingShape, InStep
  <2>2. CASE Passes(pong)
    BY <1>4, <1>5, <2>1, <2>2, Periods DEF last, PongOK, OnTime
  <2>3. CASE ~Passes(pong)
    <3>1. since'.pong = since.pong /\ since.pong <= DeadAfter + since.ping
      BY <1>1, <1>4, <2>3 DEF last, PongOK
    <3>2. CASE overran' < BloomLife \/ overran < BloomLife + since.pong
      BY <1>1, <1>4, <1>6, <2>1, <3>1, <3>2, Periods DEF PongOK, GuardingShape
    <3>3. CASE since.hour <= since.rekey /\ ~(overran < BloomLife + since.pong)
      <4>1. OnTime \/ OldKey \/ NewKey
        BY <1>1, <3>3 DEF PongOK
      <4>2. since.pong <= since.rekey + PingPeriod
        BY <1>5, <2>1, <3>3, <4>1, Periods DEF OnTime, OldKey, NewKey
      <4>3. OldKey'
        BY <1>4, <2>1, <3>1, <3>3, <4>2, Periods DEF OldKey
      <4> QED
        BY <1>4, <3>1, <4>3 DEF PongOK
    <3> QED
      BY <2>3, <3>2, <3>3, LostPong
  <2> QED
    BY <2>2, <2>3
<1> QED
  BY <1>6, <1>8, <1>9, <1>10, <1>11 DEF GuardingInv

\* A peer that the timer removes lost its last PONG to the filter.
LEMMA PongTimerKeeps == ASSUME GuardingInv, PongTimer PROVE GuardingInv'
<1>1. GuardingShape /\ HoursOK /\ FilterOK /\ peer = "up" /\ Pinged /\ PongOK
  BY DEF GuardingInv, PongTimer
<1>2. since' = [since EXCEPT !.ping = 0] /\ since.ping = PingPeriod
  BY DEF PongTimer
<1>3. /\ since' \in [reset : Nat, pong : Nat, ping : 0..PingPeriod, rekey : 0..RekeyPeriod, hour : 0..HourLength]
      /\ since'.reset = since.reset /\ since'.pong = since.pong /\ since'.ping = 0
      /\ since'.rekey = since.rekey /\ since'.hour = since.hour
  BY <1>1, <1>2, Periods DEF GuardingShape
<1>4. UNCHANGED <<guard, hour, peerAhead, overran>>
  BY DEF PongTimer
<1>5. pong = "none" /\ since.pong \in Nat /\ since.rekey \in 0..RekeyPeriod /\ overran \in Nat
  BY <1>1, <1>2, Periods DEF Pinged, GuardingShape
<1>6. pong' \in {"none", "due"} /\ peer' \in {"up", "removed"}
  BY <1>5 DEF PongTimer
<1>7. InStep'
  BY <1>1, <1>2, <1>3, <1>5, Periods DEF GuardingShape, InStep
<1>8. GuardingShape'
  BY <1>1, <1>3, <1>4, <1>6, <1>7 DEF GuardingShape
<1>9. HoursOK' /\ FilterOK'
  BY <1>1, <1>3, <1>4, <1>6 DEF HoursOK, FilterOK
<1>10. CASE since.pong > DeadAfter
  <2>1. peer' = "removed"
    BY <1>10 DEF PongTimer
  <2>2. ~OnTime /\ ~OldKey /\ ~NewKey
    BY <1>2, <1>5, <1>10, Periods DEF OnTime, OldKey, NewKey
  <2>3. overran < BloomLife + since.pong /\ since.pong <= DeadAfter + PingPeriod
    BY <1>1, <1>2, <2>2 DEF PongOK
  <2>4. overran < Forgiven
    BY <1>5, <2>3, Periods
  <2> QED
    BY <1>4, <1>8, <1>9, <2>1, <2>4 DEF GuardingInv, RemovedForExcess
<1>11. CASE ~(since.pong > DeadAfter)
  <2>1. peer' = "up" /\ pong' = "due"
    BY <1>1, <1>11 DEF PongTimer
  <2>2. Pinged'
    BY <1>3, <2>1 DEF Pinged
  <2>3. PongOK'
    BY <1>1, <1>2, <1>3, <1>4, <1>5, <1>11, <2>1, Periods DEF PongOK, OnTime, OldKey, NewKey
  <2> QED
    BY <1>8, <1>9, <2>1, <2>2, <2>3 DEF GuardingInv, RemovedForExcess
<1> QED
  BY <1>10, <1>11

\* The guard gets the key of this hour.
LEMMA RekeyTimerKeeps == ASSUME GuardingInv, RekeyTimer PROVE GuardingInv'
<1>1. GuardingShape /\ HoursOK /\ FilterOK /\ RemovedForExcess
  BY DEF GuardingInv
<1>2. since' = [since EXCEPT !.rekey = 0] /\ guard' = [guard EXCEPT !.epoch = hour]
  BY DEF RekeyTimer
<1>3. /\ since' \in [reset : Nat, pong : Nat, ping : 0..PingPeriod, rekey : 0..RekeyPeriod, hour : 0..HourLength]
      /\ since'.reset = since.reset /\ since'.pong = since.pong /\ since'.ping = since.ping
      /\ since'.rekey = 0 /\ since'.hour = since.hour
  BY <1>1, <1>2, Periods DEF GuardingShape
<1>4. guard' \in [epoch : Nat, count : Nat, blocked : BOOLEAN] /\ guard'.epoch = hour /\ guard'.blocked = guard.blocked
  BY <1>1, <1>2 DEF GuardingShape
<1>5. UNCHANGED <<hour, peerAhead, pong, overran, peer>> /\ since.rekey = RekeyPeriod
  BY DEF RekeyTimer
<1>6. InStep'
  BY <1>1, <1>3, <1>5, Periods DEF GuardingShape, InStep
<1>7. GuardingShape'
  BY <1>1, <1>3, <1>4, <1>5, <1>6 DEF GuardingShape
<1>8. HoursOK' /\ FilterOK' /\ RemovedForExcess'
  BY <1>1, <1>3, <1>4, <1>5 DEF HoursOK, FilterOK, RemovedForExcess
<1>9. ASSUME peer = "up" PROVE Pinged' /\ PongOK'
  <2>1. Pinged /\ PongOK
    BY <1>9 DEF GuardingInv
  <2>2. Pinged'
    BY <1>3, <1>5, <2>1, Periods DEF Pinged
  <2>3. /\ since.ping \in 0..PingPeriod /\ since.hour \in Nat /\ since.pong \in Nat
    BY <1>1 DEF GuardingShape
  <2>4. since.ping = PingPeriod \/ pong # "none"
    BY <1>1, <1>5, <2>1, <2>3, Periods DEF GuardingShape, InStep, Pinged
  <2>5. OnTime => OnTime'
    BY <1>3, <1>5 DEF OnTime
  <2>6. OldKey => NewKey'
    BY <1>3, <1>5, <2>3, <2>4, Periods DEF OldKey, NewKey
  <2>7. ~NewKey
    BY <1>5, Periods DEF NewKey
  <2> QED
    BY <1>3, <1>5, <2>1, <2>2, <2>5, <2>6, <2>7 DEF PongOK
<1> QED
  BY <1>5, <1>7, <1>8, <1>9 DEF GuardingInv

\* The clock of the peer turns the hour: the guard's key is that of this node's hour.
LEMMA PeerTurnsHourKeeps == ASSUME GuardingInv, PeerTurnsHour PROVE GuardingInv'
<1>1. /\ UNCHANGED <<guard, hour, pong, since, overran, peer>> /\ since.hour = HourLength
      /\ (pong = "next" => peerAhead')
  BY DEF PeerTurnsHour
<1>2. GuardingShape' /\ HoursOK' /\ FilterOK' /\ RemovedForExcess'
  BY <1>1 DEF GuardingInv, GuardingShape, InStep, HoursOK, FilterOK, RemovedForExcess
<1>3. peer = "up" => Pinged' /\ PongOK'
  BY <1>1 DEF GuardingInv, Pinged, PongOK, OnTime, OldKey, NewKey
<1> QED
  BY <1>1, <1>2, <1>3 DEF GuardingInv

\* The hour turns: no PONG was lost to the turn before.
LEMMA HourTurnsKeeps == ASSUME GuardingInv, HourTurns PROVE GuardingInv'
<1>1. GuardingShape /\ HoursOK /\ FilterOK /\ RemovedForExcess
  BY DEF GuardingInv
<1>2. since' = [since EXCEPT !.hour = 0] /\ since.hour = HourLength /\ hour' = hour + 1 /\ peerAhead' = FALSE
  BY DEF HourTurns
<1>3. /\ since' \in [reset : Nat, pong : Nat, ping : 0..PingPeriod, rekey : 0..RekeyPeriod, hour : 0..HourLength]
      /\ since'.reset = since.reset /\ since'.pong = since.pong /\ since'.ping = since.ping
      /\ since'.rekey = since.rekey /\ since'.hour = 0
  BY <1>1, <1>2, Periods DEF GuardingShape
<1>4. /\ UNCHANGED <<guard, overran, peer>> /\ pong' \in {"none", "due", "before", "now"}
      /\ (pong' = "none" <=> pong = "none")
  BY <1>1 DEF HourTurns, GuardingShape
<1>5. guard.epoch = hour /\ hour \in Nat /\ since.rekey \in 0..RekeyPeriod
  BY <1>1, <1>2, Periods DEF HoursOK, GuardingShape
<1>6. GuardingShape'
  BY <1>1, <1>2, <1>3, <1>4, <1>5 DEF GuardingShape, InStep
<1>7. HoursOK'
  BY <1>2, <1>3, <1>4, <1>5 DEF HoursOK
<1>8. FilterOK' /\ RemovedForExcess'
  BY <1>1, <1>3, <1>4 DEF FilterOK, RemovedForExcess
<1>9. ASSUME peer = "up" PROVE Pinged' /\ PongOK'
  <2>1. Pinged /\ PongOK
    BY <1>9 DEF GuardingInv
  <2>2. ~OldKey /\ ~NewKey
    BY <1>2, <1>5, Periods DEF OldKey, NewKey
  <2>3. Pinged'
    BY <1>3, <1>4, <2>1 DEF Pinged
  <2>4. OnTime => OnTime'
    BY <1>3, <1>4 DEF OnTime
  <2> QED
    BY <1>3, <1>4, <2>1, <2>2, <2>3, <2>4 DEF PongOK
<1> QED
  BY <1>4, <1>6, <1>7, <1>8, <1>9 DEF GuardingInv

\* Time passes when no PONG is awaited.
LEMMA GateTickKeeps == ASSUME GuardingInv, GateTick PROVE GuardingInv'
<1> DEFINE reset == IF since.reset < BloomLife THEN since.reset + 1 ELSE since.reset
           turned == IF since.hour < HourLength THEN since.hour + 1 ELSE since.hour
<1>1. /\ GuardingShape /\ HoursOK /\ FilterOK /\ peer = "up" /\ Pinged /\ PongOK
  BY DEF GuardingInv, GateTick
<1>2. /\ since.pong \in Nat /\ since.ping \in Nat /\ since.rekey \in Nat /\ since.reset \in Nat
      /\ since.hour \in 0..HourLength /\ overran \in Nat
  BY <1>1, Periods DEF GuardingShape
<1>3. /\ since' = [since EXCEPT !.reset = reset, !.pong = @ + 1, !.ping = @ + 1, !.rekey = @ + 1, !.hour = turned]
      /\ since.ping < PingPeriod /\ since.rekey < RekeyPeriod
  BY DEF GateTick
<1>4. reset \in Nat /\ turned \in 0..HourLength
  BY <1>2, Periods
<1> HIDE DEF reset, turned
<1>5. /\ since' \in [reset : Nat, pong : Nat, ping : 0..PingPeriod, rekey : 0..RekeyPeriod, hour : 0..HourLength]
      /\ since'.reset = reset /\ since'.pong = since.pong + 1 /\ since'.ping = since.ping + 1
      /\ since'.rekey = since.rekey + 1 /\ since'.hour = turned
  <2> DEFINE last == since.pong + 1
             pinged == since.ping + 1
             rekeyed == since.rekey + 1
  <2>1. last \in Nat /\ pinged \in 0..PingPeriod /\ rekeyed \in 0..RekeyPeriod
    BY <1>2, <1>3, Periods
  <2>2. since' = [since EXCEPT !.reset = reset, !.pong = last, !.ping = pinged, !.rekey = rekeyed, !.hour = turned]
    BY <1>3
  <2> HIDE DEF last, pinged, rekeyed
  <2>3. /\ since' \in [reset : Nat, pong : Nat, ping : 0..PingPeriod, rekey : 0..RekeyPeriod, hour : 0..HourLength]
        /\ since'.reset = reset /\ since'.pong = last /\ since'.ping = pinged
        /\ since'.rekey = rekeyed /\ since'.hour = turned
    BY <1>1, <1>4, <2>1, <2>2 DEF GuardingShape
  <2> QED
    BY <2>3 DEF last, pinged, rekeyed
<1>6. guard' = [guard EXCEPT !.count = 0]
  BY DEF GateTick
<1>7. guard' \in [epoch : Nat, count : Nat, blocked : BOOLEAN] /\ guard'.epoch = guard.epoch /\ guard'.blocked = guard.blocked
  BY <1>1, <1>6 DEF GuardingShape
<1>8. UNCHANGED <<hour, peerAhead, pong, peer>> /\ pong = "none"
  BY DEF GateTick
<1>9. overran' \in Nat /\ overran' <= overran + 1
  BY <1>2 DEF GateTick
<1>10. GuardingShape'
  BY <1>1, <1>2, <1>5, <1>7, <1>8, <1>9, Periods DEF GuardingShape, InStep
<1>11. HoursOK'
  BY <1>1, <1>2, <1>5, <1>7, <1>8, Periods DEF HoursOK, turned
<1>12. FilterOK'
  BY <1>1, <1>2, <1>5, <1>7, <1>9, Periods DEF FilterOK, reset
<1>13. Pinged'
  BY <1>2, <1>5, <1>8 DEF Pinged
<1>14. PongOK'
  <2>1. OnTime => OnTime'
    BY <1>2, <1>5, <1>8 DEF OnTime
  <2>2. OldKey => OldKey'
    BY <1>2, <1>3, <1>5, Periods DEF OldKey, turned
  <2>3. ~NewKey
    BY <1>2, <1>3, <1>8 DEF NewKey
  <2>4. overran < BloomLife + since.pong => overran' < BloomLife + since'.pong
    BY <1>2, <1>5, <1>9, Periods
  <2>5. since'.pong <= DeadAfter + since'.ping
    BY <1>1, <1>2, <1>5, Periods DEF PongOK
  <2> QED
    BY <1>1, <2>1, <2>2, <2>3, <2>4, <2>5 DEF PongOK
<1> QED
  BY <1>1, <1>8, <1>10, <1>11, <1>12, <1>13, <1>14 DEF GuardingInv, RemovedForExcess

\* Every step of the guard and the keepalive; the steps of the challenges do not touch them.
LEMMA GuardingStepKeeps == GuardingInv /\ [PowNext \/ GuardingNext]_gateVars => GuardingInv'
<1> SUFFICES ASSUME GuardingInv, [PowNext \/ GuardingNext]_gateVars PROVE GuardingInv'
  OBVIOUS
<1>1. CASE UNCHANGED guardingVars
  BY <1>1 DEF guardingVars, GuardingInv, GuardingShape, InStep, HoursOK, FilterOK, RemovedForExcess,
              Pinged, PongOK, OnTime, OldKey, NewKey
<1>2. CASE PowNext
  BY <1>1, <1>2 DEF PowNext, PowTick, IssueChallenge, Answered
<1>3. CASE GuardingNext
  BY <1>3, PeerFrameKeeps, SendPongKeeps, PongArrivesKeeps, PongTimerKeeps, RekeyTimerKeeps,
     PeerTurnsHourKeeps, HourTurnsKeeps, GateTickKeeps DEF GuardingNext
<1> QED
  BY <1>1, <1>2, <1>3 DEF gateVars

\* The keepalive removes a peer that answers every PING only after an excess of frames, for
\* any limit and life of the filter: the change of the hourly key costs it one PONG or two
\* (on_keepalive_timer, on_probe_guard_epoch_timer and trellis_client_on_data).
THEOREM RemovedForExcessHolds == GateSpec => []RemovedForExcess
<1>1. GateSpec => []GuardingInv
  BY GuardingInvStarts, GuardingStepKeeps, PTL DEF GateSpec
<1>2. GuardingInv => RemovedForExcess
  BY DEF GuardingInv
<1> QED
  BY <1>1, <1>2, PTL

\* The seeds kept are no more than there is room for, and their numbers within the bound.
SeedsFit(s) == Len(s) <= SeedsKept /\ s[1].id \in 0..SeedBound
PowFits ==
    /\ SeedsFit(seeds) /\ nextSeed \in 2..SeedBound + 1
    /\ waiting \in [GateConns -> [seed : 0..SeedBound, left : 0..AnswerTime]]

\* The counters of the guard and the times since stop where the code caps them.
GuardingFits ==
    /\ peerAhead \in BOOLEAN /\ hour <= HourBound /\ guard.count <= FrameLimit + 1
    /\ since.reset <= BloomLife /\ since.pong <= DeadAfter + PingPeriod /\ overran <= Forgiven

\* The bounds are numbers.
LEMMA GateBounds ==
    /\ {SeedsKept, SeedBound, AnswerTime, FrameLimit, HourBound} \subseteq Nat
    /\ SeedsKept >= 2 /\ SeedBound >= 1
  BY GateAssumption DEF GateAssumption

\* A seed that is rotated in pushes out the one that there is no room for.
LEMMA RotatedFits ==
    ASSUME GateInv, PowFits, seeds[1].age < SeedLife \/ nextSeed <= SeedBound
    PROVE  SeedsFit(SeedsRotated)
<1>1. SeedsOK /\ SeedsFit(seeds) /\ nextSeed \in Nat
  BY GateBounds DEF GateInv, PowFits, SeedsOK
<1>2. CASE seeds[1].age < SeedLife
  BY <1>1, <1>2, Rotation
<1>3. CASE ~(seeds[1].age < SeedLife)
  <2> DEFINE kept == <<[id |-> nextSeed, age |-> 0]>> \o seeds
             n == IF Len(kept) < SeedsKept THEN Len(kept) ELSE SeedsKept
  <2>1. SeedsRotated = SubSeq(kept, 1, n)
    BY <1>3 DEF SeedsRotated
  <2>2. kept \in Seq(Seed)
    <3>1. [id |-> nextSeed, age |-> 0] \in Seed /\ seeds \in Seq(Seed)
      BY <1>1 DEF SeedsOK, Seed
    <3>2. <<[id |-> nextSeed, age |-> 0]>> \in Seq(Seed)
      BY <3>1
    <3> QED
      BY <3>1, <3>2
  <2>3. n \in 0..SeedsKept /\ n \in 0..Len(kept)
    <3>1. Len(kept) \in Nat
      BY <2>2, LenProperties
    <3> HIDE DEF kept
    <3> QED
      BY <3>1, GateBounds
  <2> HIDE DEF kept, n
  <2>4. Len(SubSeq(kept, 1, n)) = n
    BY <2>2, <2>3
  <2>5. SeedsRotated[1].id = nextSeed
    BY <1>1, <1>3, Rotation
  <2>6. nextSeed \in 0..SeedBound
    BY <1>1, <1>3, GateBounds
  <2>7. Len(SeedsRotated) <= SeedsKept
    BY <2>1, <2>3, <2>4, GateBounds
  <2> QED
    BY <2>5, <2>6, <2>7 DEF SeedsFit
<1> QED
  BY <1>2, <1>3

\* A challenge is under a seed within the bound.
LEMMA IssueFits == ASSUME GateInv, PowFits, NEW c \in GateConns, IssueChallenge(c) PROVE PowFits'
<1> DEFINE mine == [seed |-> seeds'[1].id, left |-> AnswerTime]
<1>1. /\ seeds' = SeedsRotated /\ waiting' = [waiting EXCEPT ![c] = mine]
      /\ seeds[1].age < SeedLife \/ nextSeed <= SeedBound
      /\ nextSeed' = nextSeed + (IF seeds' = seeds THEN 0 ELSE 1)
  BY DEF IssueChallenge
<1>2. SeedsFit(seeds')
  BY <1>1, RotatedFits
<1>3. mine \in [seed : 0..SeedBound, left : 0..AnswerTime]
  <2>1. seeds'[1].id \in 0..SeedBound
    BY <1>2 DEF SeedsFit
  <2>2. AnswerTime \in 0..AnswerTime
    BY GateBounds
  <2> QED
    BY <2>1, <2>2
<1> HIDE DEF mine
<1>4. waiting' \in [GateConns -> [seed : 0..SeedBound, left : 0..AnswerTime]]
  BY <1>1, <1>3 DEF PowFits
<1>5. nextSeed' \in 2..SeedBound + 1
  <2>1. nextSeed \in 2..SeedBound + 1
    BY DEF PowFits
  <2>2. CASE seeds[1].age < SeedLife
    <3>1. seeds' = seeds
      BY <1>1, <2>2, Rotation DEF GateInv
    <3> QED
      BY <1>1, <2>1, <3>1, GateBounds
  <2>3. CASE nextSeed <= SeedBound
    BY <1>1, <2>1, <2>3, GateBounds
  <2> QED
    BY <1>1, <2>2, <2>3
<1> QED
  BY <1>2, <1>4, <1>5 DEF PowFits

\* So it stays while it waits.
LEMMA PowTickFits == ASSUME GateInv, PowFits, PowTick PROVE PowFits'
<1>1. /\ seeds \in Seq(Seed) /\ Len(seeds) >= 1 /\ Len(seeds) \in Nat
      /\ Len(seeds) <= SeedsKept /\ seeds[1].id \in 0..SeedBound
  BY DEF GateInv, SeedsOK, PowFits, SeedsFit
<1> DEFINE older(e) == [e EXCEPT !.age = IF @ < SeedLife THEN @ + 1 ELSE @]
<1>2. seeds' = [i \in 1..Len(seeds) |-> older(seeds[i])]
  BY DEF PowTick
<1>3. 1 \in 1..Len(seeds) /\ seeds[1] \in Seed
  BY <1>1
<1>4. older(seeds[1]).id = seeds[1].id
  BY <1>3 DEF Seed
<1>5. \A e \in Seed : older(e) \in Seed
  BY GateAssumption DEF GateAssumption, Seed
<1> HIDE DEF older
<1>6. seeds' \in [1..Len(seeds) -> Seed]
  BY <1>1, <1>2, <1>5
<1>7. Len(seeds') = Len(seeds)
  BY <1>1, <1>6
<1>8. SeedsFit(seeds')
  BY <1>1, <1>2, <1>3, <1>4, <1>7 DEF SeedsFit
<1>9. waiting' \in [GateConns -> [seed : 0..SeedBound, left : 0..AnswerTime]]
  <2> DEFINE next(w) == IF w = NoChallenge THEN NoChallenge ELSE [w EXCEPT !.left = @ - 1]
  <2>1. waiting' = [c \in GateConns |-> next(waiting[c])]
    BY DEF PowTick
  <2>2. ASSUME NEW c \in GateConns PROVE next(waiting[c]) \in [seed : 0..SeedBound, left : 0..AnswerTime]
    <3>1. CASE waiting[c] = NoChallenge
      <4>1. NoChallenge \in [seed : 0..SeedBound, left : 0..AnswerTime]
        BY GateBounds DEF NoChallenge
      <4> QED
        BY <3>1, <4>1
    <3>2. CASE waiting[c] # NoChallenge
      <4>1. waiting[c] \in [seed : 0..SeedBound, left : 0..AnswerTime] /\ waiting[c].left > 0
        BY <3>2 DEF PowFits, PowTick
      <4>2. waiting[c].left - 1 \in 0..AnswerTime
        BY <4>1, GateBounds
      <4> QED
        BY <3>2, <4>1, <4>2
    <3> QED
      BY <3>1, <3>2
  <2> HIDE DEF next
  <2> QED
    BY <2>1, <2>2
<1>10. nextSeed' = nextSeed
  BY DEF PowTick
<1> QED
  BY <1>8, <1>9, <1>10 DEF PowFits

\* The shape of the challenges is kept.
LEMMA PowFitsKept ==
    /\ GateInit => PowFits
    /\ GateInv /\ PowFits /\ [PowNext \/ GuardingNext]_gateVars => PowFits'
<1>0. NoChallenge \in [seed : 0..SeedBound, left : 0..AnswerTime]
  BY GateBounds DEF NoChallenge
<1>1. ASSUME GateInit PROVE PowFits
  <2>1. Len(<<[id |-> 1, age |-> 0]>>) = 1 /\ <<[id |-> 1, age |-> 0]>>[1].id = 1
    OBVIOUS
  <2>2. SeedsFit(seeds)
    BY <1>1, <2>1, GateBounds DEF GateInit, SeedsFit
  <2>3. nextSeed \in 2..SeedBound + 1
    BY <1>1, GateBounds DEF GateInit
  <2> QED
    BY <1>0, <1>1, <2>2, <2>3 DEF GateInit, PowFits
<1> SUFFICES ASSUME GateInv, PowFits, [PowNext \/ GuardingNext]_gateVars PROVE PowFits'
  BY <1>1
<1>2. CASE UNCHANGED powVars
  BY <1>2 DEF powVars, PowFits, SeedsFit
<1>3. CASE GuardingNext
  BY <1>2, <1>3 DEF GuardingNext, PeerFrame, SendPong, PongArrives, PongTimer, RekeyTimer,
                    PeerTurnsHour, HourTurns, GateTick
<1>4. ASSUME NEW c \in GateConns, Answered(c) PROVE PowFits'
  BY <1>0, <1>4 DEF Answered, PowFits, SeedsFit
<1> QED
  BY <1>2, <1>3, <1>4, IssueFits, PowTickFits DEF gateVars, PowNext

\* A frame is counted up to one more than the limit.
LEMMA CheckedFits ==
    ASSUME GuardingShape, guard.count <= FrameLimit + 1
    PROVE  Checked.count <= FrameLimit + 1
<1> DEFINE blocked == guard.blocked /\ ~BloomCleared
           counted == IF blocked \/ guard.count > FrameLimit THEN guard.count ELSE guard.count + 1
           now == blocked \/ counted > FrameLimit
<1>1. guard \in [epoch : Nat, count : Nat, blocked : BOOLEAN]
  BY DEF GuardingShape
<1>2. Checked = [guard EXCEPT !.count = counted, !.blocked = now]
  BY DEF Checked
<1>3. counted <= FrameLimit + 1
  BY <1>1, GateBounds
<1> HIDE DEF counted, now
<1> QED
  BY <1>1, <1>2, <1>3

\* Time that passes adds to the times up to their caps.
LEMMA GateTickFits ==
    ASSUME GuardingShape, GuardingFits, GateTick
    PROVE  guard'.count = 0 /\ since'.reset <= BloomLife /\ overran' <= Forgiven
<1>1. guard \in [epoch : Nat, count : Nat, blocked : BOOLEAN]
  BY DEF GuardingShape
<1>2. since \in [reset : Nat, pong : Nat, ping : 0..PingPeriod, rekey : 0..RekeyPeriod, hour : 0..HourLength]
  BY DEF GuardingShape
<1> DEFINE r == IF since.reset < BloomLife THEN since.reset + 1 ELSE since.reset
<1>3. r <= BloomLife
  BY <1>2, Periods DEF GuardingFits
<1>4. since'.reset = r
  <2> HIDE DEF r
  <2> DEFINE a == since.pong + 1
             b == since.ping + 1
             d == since.rekey + 1
             e == IF since.hour < HourLength THEN since.hour + 1 ELSE since.hour
  <2>1. since' = [since EXCEPT !.reset = r, !.pong = a, !.ping = b, !.rekey = d, !.hour = e]
    BY DEF GateTick, r
  <2> HIDE DEF a, b, d, e
  <2> QED
    BY <1>2, <2>1
<1>5. guard'.count = 0
  BY <1>1 DEF GateTick
<1>6. overran' <= Forgiven
  BY Periods DEF GateTick, GuardingFits, GuardingShape
<1> QED
  BY <1>3, <1>4, <1>5, <1>6

\* The shape of the guard is kept.
LEMMA GuardingFitsKept ==
    /\ GateInit => GuardingFits
    /\ GuardingInv /\ GuardingFits /\ [PowNext \/ GuardingNext]_gateVars => GuardingFits'
<1>1. ASSUME GateInit PROVE GuardingFits
  <2>1. /\ guard = [epoch |-> 0, count |-> 0, blocked |-> FALSE] /\ hour = 0 /\ peerAhead = FALSE
        /\ since = [reset |-> 0, pong |-> 0, ping |-> 0, rekey |-> 0, hour |-> HourLength]
        /\ overran = Forgiven
    BY <1>1 DEF GateInit
  <2>2. guard.count = 0 /\ since.reset = 0 /\ since.pong = 0
    BY <2>1
  <2>3. 0 <= HourBound /\ 0 <= FrameLimit + 1
    BY GateBounds
  <2>4. 0 <= BloomLife /\ 0 <= DeadAfter + PingPeriod /\ Forgiven <= Forgiven
    BY Periods
  <2> QED
    BY <2>1, <2>2, <2>3, <2>4 DEF GuardingFits
<1> SUFFICES ASSUME GuardingInv, GuardingFits, [PowNext \/ GuardingNext]_gateVars PROVE GuardingFits'
  BY <1>1
<1>2. GuardingShape /\ GuardingInv'
  BY GuardingStepKeeps DEF GuardingInv
<1>3. /\ guard \in [epoch : Nat, count : Nat, blocked : BOOLEAN]
      /\ since \in [reset : Nat, pong : Nat, ping : 0..PingPeriod, rekey : 0..RekeyPeriod, hour : 0..HourLength]
      /\ overran \in Nat /\ hour \in Nat
  BY <1>2 DEF GuardingShape
<1>4. CASE UNCHANGED guardingVars
  BY <1>4 DEF guardingVars, GuardingFits
<1>5. CASE PowNext
  BY <1>4, <1>5 DEF PowNext, PowTick, IssueChallenge, Answered
<1>6. CASE GuardingNext
  <2>1. peerAhead' \in BOOLEAN
    BY <1>6 DEF GuardingFits, GuardingNext, PeerFrame, SendPong, PongArrives, PongTimer, RekeyTimer,
                PeerTurnsHour, HourTurns, GateTick
  <2>2. hour' <= HourBound
    BY <1>3, <1>6, GateBounds DEF GuardingFits, GuardingNext, PeerFrame, SendPong, PongArrives, PongTimer,
                RekeyTimer, PeerTurnsHour, HourTurns, GateTick
  <2>3. guard'.count <= FrameLimit + 1
    <3>1. guard' = guard \/ guard' = Checked \/ guard' = [guard EXCEPT !.epoch = hour] \/ guard'.count = 0
      BY <1>2, <1>6, GateTickFits DEF GuardingNext, PeerFrame, SendPong, PongArrives, PongTimer, RekeyTimer,
                PeerTurnsHour, HourTurns
    <3>2. guard.count <= FrameLimit + 1 /\ [guard EXCEPT !.epoch = hour].count = guard.count
      BY <1>3 DEF GuardingFits
    <3>3. Checked.count <= FrameLimit + 1
      BY <1>2, <3>2, CheckedFits
    <3>4. 0 <= FrameLimit + 1
      BY GateBounds
    <3> QED
      BY <3>1, <3>2, <3>3, <3>4
  <2>4. overran' <= Forgiven
    <3>1. overran' = overran \/ overran' = 0 \/ overran' <= Forgiven
      BY <1>2, <1>6, GateTickFits DEF GuardingNext, PeerFrame, SendPong, PongArrives, PongTimer, RekeyTimer,
                PeerTurnsHour, HourTurns
    <3> QED
      BY <3>1, Periods DEF GuardingFits
  <2>5. since'.reset <= BloomLife
    <3>1. CASE GateTick
      BY <1>2, <3>1, GateTickFits
    <3>2. CASE PeerFrame \/ PongArrives
      <4> DEFINE r == IF BloomCleared THEN 0 ELSE since.reset
                 p == IF Passes(pong) THEN 0 ELSE since.pong
      <4>1. since' = [since EXCEPT !.reset = r] \/ since' = [since EXCEPT !.reset = r, !.pong = p]
        BY <3>2 DEF PeerFrame, PongArrives
      <4>2. r <= BloomLife
        BY <1>3, Periods DEF GuardingFits
      <4> HIDE DEF r, p
      <4>3. since'.reset = r
        BY <1>3, <4>1
      <4> QED
        BY <4>2, <4>3
    <3>3. CASE SendPong \/ PongTimer \/ RekeyTimer \/ PeerTurnsHour \/ HourTurns
      <4>1. \/ since' = since \/ since' = [since EXCEPT !.ping = 0]
            \/ since' = [since EXCEPT !.rekey = 0] \/ since' = [since EXCEPT !.hour = 0]
        BY <3>3 DEF SendPong, PongTimer, RekeyTimer, PeerTurnsHour, HourTurns
      <4>2. since'.reset = since.reset
        BY <1>3, <4>1
      <4> QED
        BY <4>2 DEF GuardingFits
    <3> QED
      BY <1>6, <3>1, <3>2, <3>3 DEF GuardingNext
  <2>6. since'.pong <= DeadAfter + PingPeriod
    <3>1. CASE peer' = "up"
      <4>1. PongOK' /\ GuardingShape'
        BY <1>2, <3>1 DEF GuardingInv
      <4>2. since'.pong <= DeadAfter + since'.ping
        BY <4>1 DEF PongOK
      <4>3. since'.ping \in 0..PingPeriod /\ since'.pong \in Nat
        BY <4>1 DEF GuardingShape
      <4> QED
        BY <4>2, <4>3, Periods
    <3>2. CASE peer' # "up"
      <4>1. PongTimer \/ RekeyTimer \/ PeerTurnsHour \/ HourTurns
        BY <1>6, <3>2 DEF GuardingNext, PeerFrame, SendPong, PongArrives, GateTick
      <4>2. \/ since' = since \/ since' = [since EXCEPT !.ping = 0]
            \/ since' = [since EXCEPT !.rekey = 0] \/ since' = [since EXCEPT !.hour = 0]
        BY <4>1 DEF PongTimer, RekeyTimer, PeerTurnsHour, HourTurns
      <4>3. since'.pong = since.pong
        BY <1>3, <4>2
      <4> QED
        BY <4>3 DEF GuardingFits
    <3> QED
      BY <3>1, <3>2
  <2> QED
    BY <2>1, <2>2, <2>3, <2>4, <2>5, <2>6 DEF GuardingFits
<1> QED
  BY <1>4, <1>5, <1>6 DEF gateVars

\* So the gate has its type.
LEMMA GateTyped == GateInv /\ GuardingInv /\ PowFits /\ GuardingFits => GateTypeOK
<1> SUFFICES ASSUME GateInv, GuardingInv, PowFits, GuardingFits PROVE GateTypeOK
  OBVIOUS
<1>1. GuardingShape /\ HoursOK
  BY DEF GuardingInv
<1>2. /\ guard \in [epoch : Nat, count : Nat, blocked : BOOLEAN]
      /\ since \in [reset : Nat, pong : Nat, ping : 0..PingPeriod, rekey : 0..RekeyPeriod, hour : 0..HourLength]
      /\ overran \in Nat /\ hour \in Nat
  BY <1>1 DEF GuardingShape
<1>3. guard.epoch \in 0..HourBound /\ hour \in 0..HourBound
  <2>1. hour <= HourBound /\ HourBound \in Nat
    BY GateBounds DEF GuardingFits
  <2>2. guard.epoch # hour => guard.epoch + 1 = hour
    BY <1>1 DEF HoursOK
  <2>3. guard.epoch \in Nat
    BY <1>2
  <2> QED
    BY <1>2, <2>1, <2>2, <2>3
<1>4. guard.count \in 0..(FrameLimit + 1) /\ guard.blocked \in BOOLEAN
  BY <1>2, GateBounds DEF GuardingFits
<1>5. guard \in [epoch : 0..HourBound, count : 0..(FrameLimit + 1), blocked : BOOLEAN]
  BY <1>2, <1>3, <1>4
<1>6. since.reset \in 0..BloomLife /\ since.pong \in 0..(DeadAfter + PingPeriod)
  BY <1>2, Periods DEF GuardingFits
<1>7. since \in [reset : 0..BloomLife, pong : 0..(DeadAfter + PingPeriod),
                 ping : 0..PingPeriod, rekey : 0..RekeyPeriod, hour : 0..HourLength]
  BY <1>2, <1>6
<1>8. overran \in 0..Forgiven
  BY <1>2, Periods DEF GuardingFits
<1>9. Len(seeds) \in 1..SeedsKept
  <2>1. Len(seeds) \in Nat /\ Len(seeds) >= 1 /\ Len(seeds) <= SeedsKept
    BY LenProperties DEF GateInv, SeedsOK, PowFits, SeedsFit
  <2> QED
    BY <2>1, GateBounds
<1>10. nextSeed \in 2..(SeedBound + 1) /\ waiting \in [GateConns -> [seed : 0..SeedBound, left : 0..AnswerTime]]
  BY DEF PowFits
<1>11. peerAhead \in BOOLEAN /\ pong \in {"none", "due", "before", "now", "next"} /\ peer \in {"up", "removed"}
  BY <1>1 DEF GuardingFits, GuardingShape
<1> QED
  BY <1>3, <1>5, <1>7, <1>8, <1>9, <1>10, <1>11 DEF GateTypeOK

----------------------------------------------------------------------------
(* CircuitPool. *)

\* The first of a set of slots is one of them.
LEMMA FirstIsOne ==
    ASSUME NEW is \in SUBSET (1..PoolSize), is # {}
    PROVE  FirstOf(is) \in is
<1>1. is \subseteq Nat
  OBVIOUS
<1> QED
  BY <1>1, LeastNatural DEF FirstOf

Circuit == [valid : {TRUE}, hops : [1..3 -> PoolRelays], dest : Dests \union {NoDest}, created : Nat,
            streams : SUBSET PoolStreams, count : Int, encaps : BOOLEAN, snapshot : [1..3 -> Nat],
            served : SUBSET Dests]

\* A circuit that is in use has carried packets to its destination only, a free one none, and
\* counts its streams.
Bound(c) ==
    /\ c.served \subseteq {c.dest} /\ (c.dest = NoDest => c.served = {})
    /\ c.count = Cardinality(c.streams)

PoolSlot == {Empty} \union {c \in Circuit : Bound(c)}

PoolInv ==
    /\ poolCircuits \in [1..PoolSize -> PoolSlot] /\ misSealed = FALSE
    /\ present \subseteq PoolRelays /\ keyOf \in [PoolRelays -> Nat] /\ poolNow \in Nat

\* A slot that is valid holds a circuit bound to what it served.
LEMMA ValidIsCircuit == \A c \in PoolSlot : c.valid => c \in Circuit /\ Bound(c)
BY DEF PoolSlot, Empty

\* A stream opened or closed on a circuit leaves it bound.
LEMMA StreamKeepsBound ==
    ASSUME NEW c \in Circuit, Bound(c), NEW s \in PoolStreams
    PROVE  /\ WithStream(c, s) \in Circuit /\ Bound(WithStream(c, s))
           /\ WithoutStream(c, s) \in Circuit /\ Bound(WithoutStream(c, s))
           /\ WithStream(c, s).dest = c.dest /\ WithoutStream(c, s).dest = c.dest
<1>1. ASSUME NEW ss \in SUBSET PoolStreams, NEW n \in Int, n = Cardinality(ss)
      PROVE  [c EXCEPT !.streams = ss, !.count = n] \in Circuit
             /\ Bound([c EXCEPT !.streams = ss, !.count = n])
             /\ [c EXCEPT !.streams = ss, !.count = n].dest = c.dest
  BY <1>1 DEF Circuit, Bound
<1>2. /\ c.streams \union {s} \in SUBSET PoolStreams /\ c.streams \ {s} \in SUBSET PoolStreams
      /\ c.streams \in SUBSET PoolStreams
  BY DEF Circuit
<1>3. c.count + 1 \in Int /\ c.count - 1 \in Int /\ c.count = Cardinality(c.streams)
  BY DEF Circuit, Bound
<1>4. IsFiniteSet(c.streams)
  <2>1. IsFiniteSet(PoolStreams)
    BY CircuitPoolAssumption, FS_Interval DEF PoolStreams
  <2> QED
    BY <1>2, <2>1, FS_Subset
<1>5. /\ s \notin c.streams => Cardinality(c.streams \union {s}) = c.count + 1
      /\ s \in c.streams => Cardinality(c.streams \ {s}) = c.count - 1
  <2>1. ASSUME s \notin c.streams PROVE Cardinality(c.streams \union {s}) = Cardinality(c.streams) + 1
    BY <1>4, <2>1, FS_AddElement
  <2>2. ASSUME s \in c.streams PROVE Cardinality(c.streams \ {s}) = Cardinality(c.streams) - 1
    BY <1>4, <2>2, FS_RemoveElement
  <2> QED
    BY <1>3, <2>1, <2>2
<1>6. CASE s \notin c.streams
  <2>1. WithStream(c, s) = [c EXCEPT !.streams = c.streams \union {s}, !.count = c.count + 1]
    BY <1>6 DEF WithStream
  <2> QED
    BY <1>1, <1>2, <1>3, <1>5, <1>6, <2>1 DEF WithoutStream
<1>7. CASE s \in c.streams
  <2>1. WithoutStream(c, s) = [c EXCEPT !.streams = c.streams \ {s}, !.count = c.count - 1]
    BY <1>7 DEF WithoutStream
  <2> QED
    BY <1>1, <1>2, <1>3, <1>5, <1>7, <2>1 DEF WithStream
<1> QED
  BY <1>6, <1>7

\* A circuit stays bound when it serves its destination, takes new keys or is given back.
LEMMA UseKeepsBound ==
    ASSUME NEW c \in Circuit, NEW d \in Dests, Bound(c), c.dest \in {d, NoDest}
    PROVE  /\ BoundTo(c, d) \in Circuit /\ Bound(BoundTo(c, d)) /\ BoundTo(c, d).dest = d
           /\ Current(c) \in Circuit /\ Bound(Current(c)) /\ Current(c).dest = c.dest
           /\ Released(c) \in PoolSlot
BY CircuitPoolAssumption DEF CircuitPoolAssumption, BoundTo, Current, Released, Circuit, Bound, PoolSlot

\* An encapsulation that is used was made for the keys that the hops have.
LEMMA CurrentFits ==
    ASSUME NEW c \in Circuit
    PROVE  ~(Current(c).encaps /\ Rotated(Current(c)))
<1>1. CASE c.encaps /\ Rotated(c)
  <2>1. Current(c) = [c EXCEPT !.encaps = FALSE]
    BY <1>1 DEF Current
  <2>2. [c EXCEPT !.encaps = FALSE].encaps = FALSE
    BY DEF Circuit
  <2> QED
    BY <2>1, <2>2
<1>2. CASE ~(c.encaps /\ Rotated(c))
  BY <1>2 DEF Current
<1> QED
  BY <1>1, <1>2

\* However the packet fares, its circuit stays bound to the one destination.
LEMMA SendOnKeeps ==
    ASSUME NEW cs \in [1..PoolSize -> PoolSlot], NEW i \in 1..PoolSize, NEW d \in Dests,
           NEW s \in PoolStreams, NEW ok \in BOOLEAN,
           cs[i].valid, cs[i].dest \in {d, NoDest}, SendOn(cs, i, d, s, ok), misSealed = FALSE
    PROVE  poolCircuits' \in [1..PoolSize -> PoolSlot] /\ misSealed' = FALSE
<1> DEFINE b == BoundTo(cs[i], d)
           c == WithStream(b, s)
           u == Current(c)
<1>1. cs[i] \in Circuit /\ Bound(cs[i])
  BY ValidIsCircuit
<1>2. b \in Circuit /\ Bound(b) /\ b.dest = d
  BY <1>1, UseKeepsBound
<1>3. c \in Circuit /\ Bound(c) /\ c.dest = d
  BY <1>2, StreamKeepsBound
<1>4. u \in Circuit /\ Bound(u) /\ u.dest = d
  BY <1>3, UseKeepsBound
<1>5. Sealed(u, d) \in PoolSlot
  <2> HIDE DEF u
  <2> QED
    BY <1>4, CircuitPoolAssumption DEF CircuitPoolAssumption, Sealed, Circuit, Bound, PoolSlot
<1>6. WithoutStream(u, s) \in PoolSlot
  <2> HIDE DEF u
  <2> QED
    BY <1>4, StreamKeepsBound DEF PoolSlot
<1>7. Released(WithoutStream(c, s)) \in PoolSlot
  <2> HIDE DEF c
  <2>1. WithoutStream(c, s) \in Circuit /\ Bound(WithoutStream(c, s)) /\ WithoutStream(c, s).dest = d
    BY <1>3, StreamKeepsBound
  <2> QED
    BY <2>1, UseKeepsBound
<1>9. ~(u.encaps /\ Rotated(u))
  <2> HIDE DEF c
  <2> QED
    BY <1>3, CurrentFits
<1> HIDE DEF u, c
<1>8. \E x \in PoolSlot : poolCircuits' = [cs EXCEPT ![i] = x]
  BY <1>5, <1>6, <1>7 DEF SendOn, u, c
<1>10. misSealed' = misSealed \/ misSealed' = (misSealed \/ (ok /\ u.encaps /\ Rotated(u)))
  BY DEF SendOn, u, c
<1> QED
  BY <1>8, <1>9, <1>10

\* Expiring old circuits, or those whose hops are gone, leaves slots of the pool.
LEMMA YoungKeeps ==
    ASSUME NEW cs \in [1..PoolSize -> PoolSlot]
    PROVE  Young(cs) \in [1..PoolSize -> PoolSlot] /\ Kept(cs) \in [1..PoolSize -> PoolSlot]
<1>1. Empty \in PoolSlot
  BY DEF PoolSlot
<1> QED
  BY <1>1 DEF Young, Kept

\* A message sent along a prebuilt circuit keeps it (route_onion_ex).
LEMMA SendOnionKeeps ==
    ASSUME PoolInv, NEW d \in Dests, NEW s \in PoolStreams, NEW ok \in BOOLEAN, SendOnion(d, s, ok)
    PROVE  PoolInv'
<1> DEFINE young == Young(poolCircuits)
           usable == IF Open(young, d) # {} THEN Open(young, d) ELSE Open(young, NoDest)
           some == FirstOf(usable)
           kept == IF Open(young, d) # {}
                   THEN [i \in 1..PoolSize |-> IF i < some THEN young[i] ELSE poolCircuits[i]]
                   ELSE young
<1>1. young \in [1..PoolSize -> PoolSlot] /\ poolCircuits \in [1..PoolSize -> PoolSlot]
  BY YoungKeeps DEF PoolInv
<1>2. kept \in [1..PoolSize -> PoolSlot]
  BY <1>1
<1>3. usable \in SUBSET (1..PoolSize)
  BY DEF Open
<1>4. ASSUME usable # {} PROVE some \in 1..PoolSize /\ kept[some].valid /\ kept[some].dest \in {d, NoDest}
  <2>1. some \in usable
    <3> HIDE DEF usable
    <3> QED
      BY <1>3, <1>4, FirstIsOne
  <2>2. some \in 1..PoolSize /\ young[some].valid /\ young[some].dest \in {d, NoDest}
    BY <2>1 DEF Open
  <2>3. poolCircuits[some].valid /\ young[some] = poolCircuits[some]
    BY <2>2 DEF Young, Empty
  <2>4. kept[some] \in {young[some], poolCircuits[some]}
    BY <2>2
  <2> QED
    BY <2>2, <2>3, <2>4
<1>5. IF usable = {} THEN poolCircuits' = kept /\ UNCHANGED misSealed ELSE SendOn(kept, some, d, s, ok)
  BY DEF SendOnion
<1> HIDE DEF kept, usable, some
<1>6. poolCircuits' \in [1..PoolSize -> PoolSlot] /\ misSealed' = FALSE
  BY <1>2, <1>4, <1>5, SendOnKeeps DEF PoolInv
<1> QED
  BY <1>6 DEF PoolInv, SendOnion

\* The circuits that the timer builds have served nobody.
LEMMA BuildTimerKeeps == ASSUME PoolInv, BuildTimer PROVE PoolInv'
<1> DEFINE kept == Kept(poolCircuits)
<1>1. kept \in [1..PoolSize -> PoolSlot]
  BY YoungKeeps DEF PoolInv
<1>2. ASSUME NEW h \in Selections, NEW p \in PinnedHops(h) PROVE BuiltCircuit(p) \in PoolSlot
  <2>1. p \in [1..3 -> PoolRelays]
    BY DEF PinnedHops, PoolInv
  <2>2. [k \in 1..3 |-> keyOf[p[k]]] \in [1..3 -> Nat] /\ poolNow \in Nat
    BY <2>1 DEF PoolInv
  <2>3. BuiltCircuit(p) \in Circuit
    BY <2>1, <2>2 DEF BuiltCircuit, Circuit
  <2>4. Bound(BuiltCircuit(p))
    BY FS_EmptySet DEF BuiltCircuit, Bound
  <2> QED
    BY <2>3, <2>4 DEF PoolSlot
<1>3. \/ poolCircuits' = kept
      \/ \E h \in Selections : \E p \in PinnedHops(h) :
            poolCircuits' = [kept EXCEPT ![FirstOf(FreeCircuit(kept))] = BuiltCircuit(p)]
  BY DEF BuildTimer
<1> HIDE DEF kept
<1>4. poolCircuits' \in [1..PoolSize -> PoolSlot]
  <2>1. CASE poolCircuits' = kept
    BY <1>1, <2>1
  <2>2. ASSUME NEW h \in Selections, NEW p \in PinnedHops(h),
               poolCircuits' = [kept EXCEPT ![FirstOf(FreeCircuit(kept))] = BuiltCircuit(p)]
        PROVE  poolCircuits' \in [1..PoolSize -> PoolSlot]
    <3>1. BuiltCircuit(p) \in PoolSlot
      BY <1>2
    <3> QED
      BY <1>1, <2>2, <3>1
  <2> QED
    BY <1>3, <2>1, <2>2
<1> QED
  BY <1>4 DEF PoolInv, BuildTimer

\* The pool starts without circuits.
LEMMA PoolInvStarts == PoolInit => PoolInv
<1> SUFFICES ASSUME PoolInit PROVE PoolInv
  OBVIOUS
<1>1. Empty \in PoolSlot
  BY DEF PoolSlot
<1> QED
  BY <1>1 DEF PoolInit, PoolInv

\* Every step of the pool keeps its invariant.
LEMMA PoolStepKeeps == PoolInv /\ [PoolNext]_poolVars => PoolInv'
<1> SUFFICES ASSUME PoolInv, [PoolNext]_poolVars PROVE PoolInv'
  OBVIOUS
<1>1. CASE UNCHANGED poolVars
  BY <1>1 DEF poolVars, PoolInv
<1>2. CASE BuildTimer
  BY <1>2, BuildTimerKeeps
<1>3. CASE PoolTick
  BY <1>3 DEF PoolTick, PoolInv
<1>4. ASSUME NEW d \in Dests, NEW s \in PoolStreams, NEW ok \in BOOLEAN, SendOnion(d, s, ok)
      PROVE  PoolInv'
  BY <1>4, SendOnionKeeps
<1>5. ASSUME NEW r \in Leaving, PeerLeaves(r) \/ PeerReturns(r) PROVE PoolInv'
  <2>1. Leaving \subseteq PoolRelays
    BY CircuitPoolAssumption DEF CircuitPoolAssumption
  <2> QED
    BY <1>5, <2>1 DEF PeerLeaves, PeerReturns, PoolInv
<1>6. ASSUME NEW r \in Rotating, Rotate(r) PROVE PoolInv'
  <2>1. r \in PoolRelays
    BY CircuitPoolAssumption DEF CircuitPoolAssumption
  <2> QED
    BY <1>6, <2>1 DEF Rotate, PoolInv
<1> QED
  BY <1>1, <1>2, <1>3, <1>4, <1>5, <1>6 DEF PoolNext

\* A circuit that is bound served one destination at most.
LEMMA PoolInvServesOne == PoolInv => OneDestination
<1> SUFFICES ASSUME PoolInv, NEW i \in Live PROVE Cardinality(poolCircuits[i].served) <= 1
  BY DEF OneDestination
<1> DEFINE c == poolCircuits[i]
<1>1. c.served \subseteq {c.dest}
  BY ValidIsCircuit DEF PoolInv, Live, Bound
<1>2. c.served = {} \/ c.served = {c.dest}
  BY <1>1
<1>3. Cardinality({}) = 0 /\ Cardinality({c.dest}) = 1
  BY FS_EmptySet, FS_Singleton
<1> QED
  BY <1>2, <1>3

\* A circuit has as many streams as there are numbers for them.
LEMMA PoolTyped == PoolInv => PoolTypeOK
<1> SUFFICES ASSUME PoolInv, NEW i \in Live
             PROVE  /\ poolCircuits[i].hops \in [1..3 -> PoolRelays]
                    /\ poolCircuits[i].dest \in Dests \cup {NoDest}
                    /\ poolCircuits[i].streams \subseteq PoolStreams
                    /\ poolCircuits[i].count \in 0..MaxStreams
  BY DEF PoolTypeOK
<1> DEFINE c == poolCircuits[i]
<1>1. c \in Circuit /\ Bound(c)
  BY ValidIsCircuit DEF PoolInv, Live
<1>2. c.streams \subseteq PoolStreams /\ c.count = Cardinality(c.streams)
  BY <1>1 DEF Circuit, Bound
<1>3. IsFiniteSet(1..MaxStreams) /\ Cardinality(1..MaxStreams) = MaxStreams /\ MaxStreams \in Nat
  BY CircuitPoolAssumption, FS_Interval
<1>4. Cardinality(c.streams) \in Nat /\ Cardinality(c.streams) <= MaxStreams
  BY <1>2, <1>3, FS_Subset, FS_CardinalityType DEF PoolStreams
<1>5. c.hops \in [1..3 -> PoolRelays] /\ c.dest \in Dests \cup {NoDest}
  BY <1>1 DEF Circuit
<1>6. c.count \in 0..MaxStreams
  BY <1>2, <1>3, <1>4
<1> QED
  BY <1>2, <1>5, <1>6

\* A circuit carries packets to one destination at most, for any number of circuits, streams
\* and destinations (trellis_circuit_pool_acquire).
THEOREM OneDestinationHolds == PoolSpec => []OneDestination
<1>1. PoolSpec => []PoolInv
  BY PoolInvStarts, PoolStepKeeps, PTL DEF PoolSpec
<1> QED
  BY <1>1, PoolInvServesOne, PTL

----------------------------------------------------------------------------
(* Handshake. *)

\* What the opener of connection a says first, what the responder of d answers to it, and
\* what the opener says to that: each is determined by the two connections.
Msg1(a) == [type |-> 1, eph |-> Eph("initiator", a), id |-> OpenerOf[a]]
Body2(d, a) == [type |-> 2, eph |-> Eph("responder", d),
                ct |-> Encapsulated(Eph("initiator", a), d), id |-> AnswererOf[d]]
Sig2(d, a) == Signature(AnswererOf[d], <<Msg1(a), Body2(d, a)>>)
Msg2(d, a) == [type |-> 2, body |-> Body2(d, a), sig |-> Sig2(d, a)]
Body3(a) == [type |-> 3, id |-> OpenerOf[a]]
Sig3(d, a) == Signature(OpenerOf[a], <<Msg1(a), Body2(d, a), Sig2(d, a), Body3(a)>>)
Msg3(d, a) == [type |-> 3, body |-> Body3(a), sig |-> Sig3(d, a)]
KeyOf(d, a) == SessionKey({Eph("initiator", a), Eph("responder", d)}, <<d, "shared">>,
                          <<Msg1(a), Body2(d, a), Sig2(d, a)>>)

Parts == {Msg1(a) : a \in Handshakes} \union {Body3(a) : a \in Handshakes}
         \union {Body2(d, a) : a, d \in Handshakes} \union {Sig2(d, a) : a, d \in Handshakes}
         \union {Sig3(d, a) : a, d \in Handshakes}

\* The responder of d holds the answer it gave to a.
Answers(d, a) ==
    /\ hs[d]["responder"].state \in {"AWAITING_MSG3", "COMPLETE"}
    /\ hs[d]["responder"].remote = OpenerOf[a] /\ hs[d]["responder"].key = KeyOf(d, a)

\* The initiator of a has taken the answer of d.
Takes(a, d) ==
    /\ hs[a]["initiator"].state = "COMPLETE"
    /\ hs[a]["initiator"].remote = AnswererOf[d] /\ hs[a]["initiator"].key = KeyOf(d, a)

States == {"INIT", "AWAITING_MSG2", "AWAITING_MSG3", "COMPLETE"}
Remotes == {NoRemote} \union {OpenerOf[a] : a \in Handshakes} \union {AnswererOf[a] : a \in Handshakes}
SessionKeys == {NoKey} \union {KeyOf(d, a) : a, d \in Handshakes}
Object == [state : States, transcript : Seq(Parts), remote : Remotes, key : SessionKeys]

HsType == hs \in [Handshakes -> [Roles -> Object]]

\* A transcript that has not been spoilt is the one that both ends have.
InitiatorOK(a) ==
    LET me == hs[a]["initiator"]
    IN /\ me.state # "AWAITING_MSG3"
       /\ me.state = "INIT" => me.transcript = <<>>
       /\ me.state = "AWAITING_MSG2" => me.transcript = <<Msg1(a)>> \/ Len(me.transcript) >= 2
       /\ me.state = "COMPLETE" => \E d \in Handshakes : Takes(a, d) /\ Answers(d, a)

ResponderOK(d) ==
    LET me == hs[d]["responder"]
    IN /\ me.state # "AWAITING_MSG2"
       /\ me.state = "INIT" => me.transcript = <<>>
       /\ me.state = "AWAITING_MSG3" =>
             \E a \in Handshakes :
                /\ Answers(d, a)
                /\ me.transcript = <<Msg1(a), Body2(d, a), Sig2(d, a)>> \/ Len(me.transcript) >= 4
       /\ me.state = "COMPLETE" => \E a \in Handshakes : Takes(a, d) /\ Answers(d, a)

FlightsOK ==
    \A m \in flights : \E a \in Handshakes :
        \/ m = Msg1(a)
        \/ \E d \in Handshakes : m = Msg2(d, a) /\ Answers(d, a)
        \/ \E d \in Handshakes : m = Msg3(d, a) /\ Takes(a, d) /\ Answers(d, a)

HandshakeInv ==
    /\ HsType /\ FlightsOK
    /\ \A c \in Handshakes : InitiatorOK(c) /\ ResponderOK(c)

\* No message exists, and each object is at its start.
LEMMA HandshakeInvStarts == HandshakeInit => HandshakeInv
BY DEF HandshakeInit, HandshakeInv, HsType, Object, States, Remotes, SessionKeys, FlightsOK, InitiatorOK, ResponderOK, Roles

\* The messages are told apart by their types, the keys by the ephemeral keys in them.
LEMMA TermsDiffer ==
    ASSUME NEW a, NEW d, NEW b, NEW e
    PROVE  /\ Msg1(a).type = 1 /\ Msg2(d, a).type = 2 /\ Msg3(d, a).type = 3
           /\ Msg1(a) = Msg1(b) => a = b
           /\ Body2(d, a) = Body2(e, b) => d = e
           /\ KeyOf(d, a) = KeyOf(e, b) => d = e /\ a = b
<1>1. Msg1(a) = Msg1(b) => a = b
  BY DEF Msg1, Eph
<1>2. Body2(d, a) = Body2(e, b) => d = e
  BY DEF Body2, Eph
<1>3. KeyOf(d, a) = KeyOf(e, b) => Msg1(a) = Msg1(b) /\ Body2(d, a) = Body2(e, b)
  BY DEF KeyOf, SessionKey
<1> QED
  BY <1>1, <1>2, <1>3 DEF Msg1, Msg2, Msg3

\* What the messages of two objects are made of are parts.
LEMMA PartsIn ==
    ASSUME NEW a \in Handshakes, NEW d \in Handshakes
    PROVE  {Msg1(a), Body2(d, a), Sig2(d, a), Body3(a), Sig3(d, a)} \subseteq Parts
BY DEF Parts

\* A step changes one object, x is what it becomes.
Becomes(c, role, x) ==
    /\ hs' \in [Handshakes -> [Roles -> Object]] /\ hs'[c][role] = x
    /\ \A d \in Handshakes, r \in Roles : d # c \/ r # role => hs'[d][r] = hs[d][r]

\* Only the object that takes the step changes.
LEMMA OneBecomes ==
    ASSUME HsType, NEW c \in Handshakes, NEW role \in Roles, NEW x \in Object,
           hs' = [hs EXCEPT ![c][role] = x]
    PROVE  Becomes(c, role, x)
BY DEF HsType, Becomes

\* Answers that were given and taken stay so, when an object that has neither changes.
LEMMA AnswersStay ==
    ASSUME NEW c \in Handshakes, NEW role \in Roles, NEW x, Becomes(c, role, x),
           \/ hs[c][role].state \in {"INIT", "AWAITING_MSG2"}
           \/ role = "responder" /\ x.state \in {"AWAITING_MSG3", "COMPLETE"}
              /\ x.remote = hs[c][role].remote /\ x.key = hs[c][role].key
    PROVE  \A a, d \in Handshakes : /\ Answers(d, a) => Answers(d, a)'
                                    /\ Takes(a, d) => Takes(a, d)'
BY DEF Becomes, Answers, Takes, Roles

\* Writing message 1 keeps the invariant.
LEMMA CreateMsg1Keeps == ASSUME HandshakeInv, NEW c \in Handshakes, CreateMsg1(c) PROVE HandshakeInv'
<1> DEFINE me == hs[c]["initiator"]
           x == [me EXCEPT !.state = "AWAITING_MSG2", !.transcript = Absorbed(@, Msg1(c))]
<1>1. HsType /\ InitiatorOK(c) /\ me.state = "INIT" /\ "initiator" \in Roles /\ me \in Object
  BY DEF HandshakeInv, HsType, CreateMsg1, Roles
<1>2. Absorbed(me.transcript, Msg1(c)) = <<Msg1(c)>>
  <2>1. me.transcript = <<>>
    BY <1>1 DEF InitiatorOK
  <2>2. Absorbed(<<>>, Msg1(c)) = <<Msg1(c)>>
    BY HandshakeAssumption DEF HandshakeAssumption, Absorbed, Fits
  <2> QED
    BY <2>1, <2>2
<1>3. <<Msg1(c)>> \in Seq(Parts)
  BY PartsIn
<1>4. x \in Object /\ x.state = "AWAITING_MSG2" /\ x.transcript = <<Msg1(c)>>
  <2>1. ASSUME NEW t \in Seq(Parts), NEW o \in Object
        PROVE  LET y == [o EXCEPT !.state = "AWAITING_MSG2", !.transcript = t]
               IN y \in Object /\ y.state = "AWAITING_MSG2" /\ y.transcript = t
    BY DEF Object, States
  <2> QED
    BY <1>1, <1>2, <1>3, <2>1
<1>5. hs' = [hs EXCEPT ![c]["initiator"] = x] /\ flights' = flights \union {Msg1(c)}
  BY <1>1 DEF CreateMsg1, Msg1, HsType
<1> HIDE DEF x
<1>6. Becomes(c, "initiator", x)
  BY <1>1, <1>4, <1>5, OneBecomes
<1>7. \A a, d \in Handshakes : (Answers(d, a) => Answers(d, a)') /\ (Takes(a, d) => Takes(a, d)')
  BY <1>1, <1>6, AnswersStay
<1>8. FlightsOK'
  BY <1>5, <1>7 DEF HandshakeInv, FlightsOK
<1>9. ASSUME NEW d \in Handshakes PROVE InitiatorOK(d)' /\ ResponderOK(d)'
  <2>1. InitiatorOK(d) /\ ResponderOK(d)
    BY DEF HandshakeInv
  <2>2. hs'[d]["responder"] = hs[d]["responder"]
    BY <1>6 DEF Becomes, Roles
  <2>3. ResponderOK(d)'
    BY <1>7, <2>1, <2>2 DEF ResponderOK
  <2>4. CASE d = c
    <3>1. hs'[d]["initiator"] = x
      BY <1>6, <2>4 DEF Becomes
    <3>2. InitiatorOK(d)'
      BY <1>4, <2>4, <3>1 DEF InitiatorOK
    <3> QED
      BY <2>3, <3>2
  <2>5. CASE d # c
    <3>1. hs'[d]["initiator"] = hs[d]["initiator"]
      BY <1>6, <2>5 DEF Becomes, Roles
    <3>2. InitiatorOK(d)'
      BY <1>7, <2>1, <3>1 DEF InitiatorOK
    <3> QED
      BY <2>3, <3>2
  <2> QED
    BY <2>4, <2>5
<1> QED
  BY <1>6, <1>8, <1>9 DEF HandshakeInv, HsType, Becomes

\* The object that changes keeps its part of the invariant, and so do the others.
LEMMA OthersKeep ==
    ASSUME HandshakeInv, NEW c \in Handshakes, NEW role \in Roles, NEW x, Becomes(c, role, x),
           \A a, d \in Handshakes : (Answers(d, a) => Answers(d, a)') /\ (Takes(a, d) => Takes(a, d)'),
           role = "initiator" => InitiatorOK(c)', role = "responder" => ResponderOK(c)', FlightsOK'
    PROVE  HandshakeInv'
<1>1. ASSUME NEW d \in Handshakes PROVE InitiatorOK(d)'
  <2>1. InitiatorOK(d)
    BY DEF HandshakeInv
  <2>2. CASE hs'[d]["initiator"] = hs[d]["initiator"]
    BY <2>1, <2>2 DEF InitiatorOK
  <2>3. CASE d = c /\ role = "initiator"
    BY <2>3
  <2> QED
    BY <2>2, <2>3 DEF Becomes, Roles
<1>2. ASSUME NEW d \in Handshakes PROVE ResponderOK(d)'
  <2>1. ResponderOK(d)
    BY DEF HandshakeInv
  <2>2. CASE hs'[d]["responder"] = hs[d]["responder"]
    BY <2>1, <2>2 DEF ResponderOK
  <2>3. CASE d = c /\ role = "responder"
    BY <2>3
  <2> QED
    BY <2>2, <2>3 DEF Becomes, Roles
<1> QED
  BY <1>1, <1>2 DEF HandshakeInv, HsType, Becomes

\* What a message is can be told from its type.
LEMMA MessageOfType ==
    ASSUME HandshakeInv, NEW m \in flights
    PROVE  /\ m.type = 1 => \E a \in Handshakes : m = Msg1(a)
           /\ m.type = 2 => \E a, d \in Handshakes : m = Msg2(d, a) /\ Answers(d, a)
           /\ m.type = 3 => \E a, d \in Handshakes : m = Msg3(d, a) /\ Takes(a, d) /\ Answers(d, a)
<1>1. PICK a \in Handshakes :
        \/ m = Msg1(a)
        \/ \E d \in Handshakes : m = Msg2(d, a) /\ Answers(d, a)
        \/ \E d \in Handshakes : m = Msg3(d, a) /\ Takes(a, d) /\ Answers(d, a)
  BY DEF HandshakeInv, FlightsOK
<1>2. \A d : Msg1(a).type = 1 /\ Msg2(d, a).type = 2 /\ Msg3(d, a).type = 3
  BY DEF Msg1, Msg2, Msg3
<1> QED
  BY <1>1, <1>2

\* A sequence that is one longer and ends in e is the other one with e appended.
LEMMA AppendIs ==
    ASSUME NEW S, NEW s \in Seq(S), NEW t \in Seq(S), NEW e \in S,
           Len(t) = Len(s) + 1, \A i \in 1..Len(s) : t[i] = s[i], t[Len(s) + 1] = e
    PROVE  Append(s, e) = t
<1>1. Append(s, e) \in Seq(S) /\ Len(Append(s, e)) = Len(t) /\ Len(s) \in Nat
  OBVIOUS
<1>2. \A i \in 1..Len(Append(s, e)) : Append(s, e)[i] = t[i]
  BY <1>1
<1> QED
  BY <1>1, <1>2, SeqEqual

\* The parts that make up a transcript.
LEMMA Transcripts ==
    /\ \A p : Append(<<>>, p) = <<p>>
    /\ \A p, q : Append(<<p>>, q) = <<p, q>>
    /\ \A p, q, r : Append(<<p, q>>, r) = <<p, q, r>>
    /\ \A p, q, r, u : Append(<<p, q, r>>, u) = <<p, q, r, u>>
    /\ \A p, q, r, u, v : Append(<<p, q, r, u>>, v) = <<p, q, r, u, v>>
<1>1. \A p : Append(<<>>, p) = <<p>>
  OBVIOUS
<1>2. \A p, q : Append(<<p>>, q) = <<p, q>>
  <2> TAKE p, q
  <2>1. /\ <<p>> \in Seq({p, q}) /\ <<p, q>> \in Seq({p, q}) /\ q \in {p, q}
        /\ Len(<<p, q>>) = Len(<<p>>) + 1 /\ <<p, q>>[Len(<<p>>) + 1] = q
        /\ \A i \in 1..Len(<<p>>) : <<p, q>>[i] = <<p>>[i]
    OBVIOUS
  <2> QED
    BY <2>1, AppendIs, ZenonT(60)
<1>3. \A p, q, r : Append(<<p, q>>, r) = <<p, q, r>>
  <2> TAKE p, q, r
  <2>1. /\ <<p, q>> \in Seq({p, q, r}) /\ <<p, q, r>> \in Seq({p, q, r}) /\ r \in {p, q, r}
        /\ Len(<<p, q, r>>) = Len(<<p, q>>) + 1 /\ <<p, q, r>>[Len(<<p, q>>) + 1] = r
        /\ \A i \in 1..Len(<<p, q>>) : <<p, q, r>>[i] = <<p, q>>[i]
    OBVIOUS
  <2> QED
    BY <2>1, AppendIs, ZenonT(60)
<1>4. \A p, q, r, u : Append(<<p, q, r>>, u) = <<p, q, r, u>>
  <2> TAKE p, q, r, u
  <2>1. /\ <<p, q, r>> \in Seq({p, q, r, u}) /\ <<p, q, r, u>> \in Seq({p, q, r, u}) /\ u \in {p, q, r, u}
        /\ Len(<<p, q, r, u>>) = Len(<<p, q, r>>) + 1 /\ <<p, q, r, u>>[Len(<<p, q, r>>) + 1] = u
        /\ \A i \in 1..Len(<<p, q, r>>) : <<p, q, r, u>>[i] = <<p, q, r>>[i]
    OBVIOUS
  <2> QED
    BY <2>1, AppendIs, ZenonT(60)
<1>5. \A p, q, r, u, v : Append(<<p, q, r, u>>, v) = <<p, q, r, u, v>>
  <2> TAKE p, q, r, u, v
  <2>1. /\ <<p, q, r, u>> \in Seq({p, q, r, u, v}) /\ <<p, q, r, u, v>> \in Seq({p, q, r, u, v}) /\ v \in {p, q, r, u, v}
        /\ Len(<<p, q, r, u, v>>) = Len(<<p, q, r, u>>) + 1 /\ <<p, q, r, u, v>>[Len(<<p, q, r, u>>) + 1] = v
        /\ \A i \in 1..Len(<<p, q, r, u>>) : <<p, q, r, u, v>>[i] = <<p, q, r, u>>[i]
    OBVIOUS
  <2> QED
    BY <2>1, AppendIs, Zenon
<1> QED
  BY <1>1, <1>2, <1>3, <1>4, <1>5

\* Reading message 1 and writing message 2 keeps the invariant, taken or refused.
LEMMA ProcessMsg1Keeps ==
    ASSUME HandshakeInv, NEW c \in Handshakes, NEW m \in flights, ProcessMsg1(c, m)
    PROVE  HandshakeInv'
<1> DEFINE me == hs[c]["responder"]
<1>1. HsType /\ ResponderOK(c) /\ me.state = "INIT" /\ me.transcript = <<>> /\ "responder" \in Roles
  BY DEF HandshakeInv, ProcessMsg1, ResponderOK, Roles
<1>2. PICK a \in Handshakes : m = Msg1(a)
  BY MessageOfType DEF ProcessMsg1
<1> DEFINE t == <<Msg1(a), Body2(c, a), Sig2(c, a)>>
           x == [state |-> "AWAITING_MSG3", transcript |-> t, remote |-> OpenerOf[a], key |-> KeyOf(c, a)]
<1>3. /\ m.eph = Eph("initiator", a) /\ m.id = OpenerOf[a]
      /\ Decapsulated(Encapsulated(m.eph, c), m.eph) = <<c, "shared">>
      /\ Body2(c, a) = [type |-> 2, eph |-> Eph("responder", c), ct |-> Encapsulated(m.eph, c),
                        id |-> AnswererOf[c]]
      /\ Body2(c, a).ct = Encapsulated(m.eph, c)
  BY <1>2 DEF Msg1, Body2, Decapsulated, Encapsulated
<1>4. /\ Append(Append(me.transcript, m), Body2(c, a)) = <<Msg1(a), Body2(c, a)>>
      /\ Append(<<Msg1(a), Body2(c, a)>>, Sig2(c, a)) = t
  BY <1>1, <1>2, Transcripts, Zenon
<1>5. hs' = [hs EXCEPT ![c]["responder"] = x] /\ flights' = flights \union {Msg2(c, a)}
  BY <1>3, <1>4 DEF ProcessMsg1, Sig2, Msg2, KeyOf
<1>6. x \in Object
  <2>1. t \in Seq(Parts)
    BY PartsIn
  <2>2. OpenerOf[a] \in Remotes /\ KeyOf(c, a) \in SessionKeys
    BY DEF Remotes, SessionKeys
  <2> QED
    BY <2>1, <2>2 DEF Object, States
<1>7. Becomes(c, "responder", x)
  BY <1>1, <1>5, <1>6, OneBecomes
<1>8. \A b, d \in Handshakes : (Answers(d, b) => Answers(d, b)') /\ (Takes(b, d) => Takes(b, d)')
  BY <1>1, <1>7, AnswersStay
<1>9. Answers(c, a)'
  BY <1>7 DEF Becomes, Answers
<1>10. ResponderOK(c)'
  BY <1>7, <1>9 DEF Becomes, ResponderOK
<1>11. FlightsOK'
  BY <1>5, <1>8, <1>9 DEF HandshakeInv, FlightsOK
<1> QED
  BY <1>1, <1>7, <1>8, <1>10, <1>11, OthersKeep

\* Reading message 2 and writing message 3 keeps it, taken or refused.
LEMMA ProcessMsg2Keeps ==
    ASSUME HandshakeInv, NEW c \in Handshakes, NEW m \in flights, ProcessMsg2(c, m)
    PROVE  HandshakeInv'
<1> DEFINE me == hs[c]["initiator"]
           heard == Absorbed(me.transcript, m.body)
           signed == Append(heard, m.sig)
           closing == Append(signed, Body3(c))
           sig == Signature(OpenerOf[c], closing)
           passed == Fits(me.transcript) /\ Verifies(m.sig, m.body.id, heard) /\ Len(closing) < Room
<1>1. /\ HsType /\ InitiatorOK(c) /\ me.state = "AWAITING_MSG2" /\ "initiator" \in Roles
      /\ me \in Object /\ me.transcript \in Seq(Parts)
  BY DEF HandshakeInv, ProcessMsg2, Roles, HsType, Object
<1>2. PICK a \in Handshakes, d \in Handshakes : m = Msg2(d, a) /\ Answers(d, a)
  BY MessageOfType DEF ProcessMsg2
<1>3. m.body = Body2(d, a) /\ m.sig = Sig2(d, a) /\ m.body.id = AnswererOf[d]
  BY <1>2 DEF Msg2, Body2
<1>4. heard \in Seq(Parts) /\ (Fits(me.transcript) => Len(heard) = Len(me.transcript) + 1)
      /\ (~Fits(me.transcript) => heard = me.transcript)
  BY <1>1, <1>3, PartsIn DEF Absorbed, Fits
<1>5. CASE passed
  <2>1. heard = <<Msg1(a), Body2(d, a)>>
    BY <1>3, <1>5 DEF Verifies, Sig2, Signature
  <2>2. me.transcript = <<Msg1(c)>>
    <3>1. Len(me.transcript) = 1
      <4>1. Len(heard) = 2
        BY <2>1
      <4>2. Len(heard) = Len(me.transcript) + 1
        BY <1>4, <1>5
      <4>3. Len(me.transcript) \in Nat
        BY <1>1
      <4>4. \A k \in Nat : 2 = k + 1 => k = 1
        OBVIOUS
      <4> QED
        BY <4>1, <4>2, <4>3, <4>4, Zenon
    <3> QED
      BY <1>1, <3>1 DEF InitiatorOK
  <2>3. a = c
    <3>1. heard[1] = Msg1(c)
      BY <1>3, <1>5, <2>2 DEF Absorbed
    <3> QED
      BY <2>1, <3>1, TermsDiffer
  <2>4. /\ signed = <<Msg1(c), Body2(d, c), Sig2(d, c)>>
        /\ closing = <<Msg1(c), Body2(d, c), Sig2(d, c), Body3(c)>>
        /\ Append(closing, Sig3(d, c)) = <<Msg1(c), Body2(d, c), Sig2(d, c), Body3(c), Sig3(d, c)>>
        /\ sig = Sig3(d, c)
    <3>1. heard = <<Msg1(c), Body2(d, c)>> /\ m.sig = Sig2(d, c)
      BY <1>3, <2>1, <2>3
    <3> HIDE DEF heard
    <3>2. signed = <<Msg1(c), Body2(d, c), Sig2(d, c)>>
      BY <3>1, Transcripts, Zenon
    <3> HIDE DEF signed
    <3>3. closing = <<Msg1(c), Body2(d, c), Sig2(d, c), Body3(c)>>
      BY <3>2, Transcripts, ZenonT(60)
    <3> HIDE DEF closing
    <3>4. sig = Sig3(d, c)
      BY <3>3 DEF Sig3
    <3>5. Append(closing, Sig3(d, c)) = <<Msg1(c), Body2(d, c), Sig2(d, c), Body3(c), Sig3(d, c)>>
      <4>1. Append(<<Msg1(c), Body2(d, c), Sig2(d, c), Body3(c)>>, Sig3(d, c))
              = <<Msg1(c), Body2(d, c), Sig2(d, c), Body3(c), Sig3(d, c)>>
        BY Transcripts
      <4> QED
        BY <3>3, <4>1
    <3> QED
      BY <3>2, <3>3, <3>4, <3>5
  <2> DEFINE t == <<Msg1(c), Body2(d, c), Sig2(d, c), Body3(c), Sig3(d, c)>>
             x == [state |-> "COMPLETE", transcript |-> t, remote |-> AnswererOf[d], key |-> KeyOf(d, c)]
  <2>5. SessionKey({Eph("initiator", c), m.body.eph}, Decapsulated(m.body.ct, Eph("initiator", c)), signed)
          = KeyOf(d, c)
    <3>1. m.body.eph = Eph("responder", d) /\ m.body.ct = Encapsulated(Eph("initiator", c), d)
      BY <1>3, <2>3 DEF Body2
    <3>2. Decapsulated(Encapsulated(Eph("initiator", c), d), Eph("initiator", c)) = <<d, "shared">>
      BY DEF Decapsulated, Encapsulated
    <3> HIDE DEF signed
    <3> QED
      BY <2>4, <3>1, <3>2, Zenon DEF KeyOf
  <2>6. hs' = [hs EXCEPT ![c]["initiator"] = x] /\ flights' = flights \union {Msg3(d, c)}
    BY <1>3, <1>5, <2>4, <2>5 DEF ProcessMsg2, Msg3, Body3
  <2>7. x \in Object
    <3>1. t \in Seq(Parts)
      BY PartsIn
    <3>2. AnswererOf[d] \in Remotes /\ KeyOf(d, c) \in SessionKeys
      BY DEF Remotes, SessionKeys
    <3> QED
      BY <3>1, <3>2 DEF Object, States
  <2>8. Becomes(c, "initiator", x)
    BY <1>1, <2>6, <2>7, OneBecomes
  <2>9. \A b, e \in Handshakes : (Answers(e, b) => Answers(e, b)') /\ (Takes(b, e) => Takes(b, e)')
    BY <1>1, <2>8, AnswersStay
  <2>10. Takes(c, d)' /\ Answers(d, c)'
    BY <1>2, <2>3, <2>8, <2>9 DEF Becomes, Takes
  <2>11. InitiatorOK(c)'
    BY <2>8, <2>10 DEF Becomes, InitiatorOK
  <2>12. FlightsOK'
    BY <2>6, <2>9, <2>10 DEF HandshakeInv, FlightsOK
  <2> QED
    BY <1>1, <2>8, <2>9, <2>11, <2>12, OthersKeep
<1>6. CASE ~passed
  <2> DEFINE x == [me EXCEPT !.transcript = heard, !.remote = AnswererOf[d]]
  <2>1. hs' = [hs EXCEPT ![c]["initiator"] = x] /\ flights' = flights
    BY <1>3, <1>6, <1>1 DEF ProcessMsg2, Body3, HsType
  <2>2. x \in Object /\ x.state = "AWAITING_MSG2" /\ x.transcript = heard
    <3>1. ASSUME NEW u \in Seq(Parts), NEW r \in Remotes, NEW o \in Object
          PROVE  LET y == [o EXCEPT !.transcript = u, !.remote = r]
                 IN y \in Object /\ y.state = o.state /\ y.transcript = u
      BY DEF Object
    <3>2. AnswererOf[d] \in Remotes
      BY DEF Remotes
    <3>3. heard \in Seq(Parts) /\ me \in Object
      BY <1>1, <1>4
    <3> HIDE DEF me, heard
    <3>4. LET y == [me EXCEPT !.transcript = heard, !.remote = AnswererOf[d]]
          IN y \in Object /\ y.state = me.state /\ y.transcript = heard
      BY <3>1, <3>2, <3>3
    <3> QED
      BY <1>1, <3>4
  <2>3. Len(heard) >= 2
    BY <1>1, <1>4, HandshakeAssumption DEF HandshakeAssumption, InitiatorOK, Fits
  <2>4. Becomes(c, "initiator", x)
    BY <1>1, <2>1, <2>2, OneBecomes
  <2>5. \A b, e \in Handshakes : (Answers(e, b) => Answers(e, b)') /\ (Takes(b, e) => Takes(b, e)')
    BY <1>1, <2>4, AnswersStay
  <2>6. InitiatorOK(c)'
    BY <2>2, <2>3, <2>4 DEF Becomes, InitiatorOK
  <2>7. FlightsOK'
    BY <2>1, <2>5 DEF HandshakeInv, FlightsOK
  <2> QED
    BY <1>1, <2>4, <2>5, <2>6, <2>7, OthersKeep
<1> QED
  BY <1>5, <1>6

\* Reading message 3 keeps it, taken or refused.
LEMMA ProcessMsg3Keeps ==
    ASSUME HandshakeInv, NEW c \in Handshakes, NEW m \in flights, ProcessMsg3(c, m)
    PROVE  HandshakeInv'
<1> DEFINE me == hs[c]["responder"]
           heard == Absorbed(me.transcript, m.body)
           passed == Fits(me.transcript) /\ Fits(heard) /\ Verifies(m.sig, me.remote, heard)
<1>1. /\ HsType /\ ResponderOK(c) /\ me.state = "AWAITING_MSG3" /\ "responder" \in Roles
      /\ me \in Object /\ me.transcript \in Seq(Parts)
  BY DEF HandshakeInv, ProcessMsg3, Roles, HsType, Object
<1>2. PICK a \in Handshakes, d \in Handshakes : m = Msg3(d, a) /\ Takes(a, d) /\ Answers(d, a)
  BY MessageOfType DEF ProcessMsg3
<1>3. m.body = Body3(a) /\ m.sig = Sig3(d, a)
  BY <1>2 DEF Msg3
<1>4. PICK b \in Handshakes :
        /\ Answers(c, b)
        /\ me.transcript = <<Msg1(b), Body2(c, b), Sig2(c, b)>> \/ Len(me.transcript) >= 4
  BY <1>1 DEF ResponderOK
<1>5. heard \in Seq(Parts) /\ (Fits(me.transcript) => Len(heard) = Len(me.transcript) + 1)
      /\ (~Fits(me.transcript) => heard = me.transcript)
  BY <1>1, <1>3, PartsIn DEF Absorbed, Fits
<1>6. CASE passed
  <2>1. heard = <<Msg1(a), Body2(d, a), Sig2(d, a), Body3(a)>>
    BY <1>3, <1>6 DEF Verifies, Sig3, Signature
  <2>2. me.transcript = <<Msg1(b), Body2(c, b), Sig2(c, b)>>
    <3>1. Len(heard) = 4
      BY <2>1
    <3>2. Len(heard) = Len(me.transcript) + 1
      BY <1>5, <1>6
    <3>3. Len(me.transcript) \in Nat
      BY <1>1
    <3>4. \A k \in Nat : 4 = k + 1 => ~(k >= 4)
      OBVIOUS
    <3>5. ~(Len(me.transcript) >= 4)
      BY <3>1, <3>2, <3>3, <3>4, Zenon
    <3> QED
      BY <1>4, <3>5
  <2>3. a = b /\ d = c
    <3>1. heard = <<Msg1(b), Body2(c, b), Sig2(c, b), Body3(a)>>
      <4>1. heard = Append(me.transcript, Body3(a))
        BY <1>3, <1>6 DEF Absorbed
      <4>2. Append(<<Msg1(b), Body2(c, b), Sig2(c, b)>>, Body3(a))
              = <<Msg1(b), Body2(c, b), Sig2(c, b), Body3(a)>>
        BY Transcripts
      <4> QED
        BY <2>2, <4>1, <4>2
    <3>2. Msg1(a) = Msg1(b) /\ Body2(d, a) = Body2(c, b)
      <4> HIDE DEF heard
      <4> QED
        BY <2>1, <3>1
    <3> QED
      BY <3>2, TermsDiffer
  <2> DEFINE t == Append(heard, m.sig)
             x == [me EXCEPT !.state = "COMPLETE", !.transcript = t]
  <2>4. hs' = [hs EXCEPT ![c]["responder"] = x] /\ flights' = flights
    BY <1>1, <1>6 DEF ProcessMsg3, HsType
  <2>5. x \in Object /\ x.state = "COMPLETE" /\ x.remote = me.remote /\ x.key = me.key
    <3>1. ASSUME NEW u \in Seq(Parts), NEW o \in Object
          PROVE  LET y == [o EXCEPT !.state = "COMPLETE", !.transcript = u]
                 IN y \in Object /\ y.state = "COMPLETE" /\ y.remote = o.remote /\ y.key = o.key
      BY DEF Object, States
    <3>2. m.sig \in Parts
      BY <1>3, PartsIn
    <3>3. t \in Seq(Parts) /\ me \in Object
      <4> HIDE DEF heard
      <4> QED
        BY <1>1, <1>5, <3>2
    <3> HIDE DEF me, t
    <3> QED
      BY <3>1, <3>3
  <2>6. Becomes(c, "responder", x)
    BY <1>1, <2>4, <2>5, OneBecomes
  <2>7. \A e, f \in Handshakes : (Answers(f, e) => Answers(f, e)') /\ (Takes(e, f) => Takes(e, f)')
    <3> HIDE DEF x
    <3> QED
      BY <1>1, <2>5, <2>6, AnswersStay
  <2>8. Takes(a, c)' /\ Answers(c, a)'
    BY <1>2, <2>3, <2>7
  <2>9. ResponderOK(c)'
    <3>1. hs'[c]["responder"].state = "COMPLETE"
      BY <2>5, <2>6 DEF Becomes
    <3> QED
      BY <2>8, <3>1 DEF ResponderOK
  <2>10. FlightsOK'
    BY <2>4, <2>7 DEF HandshakeInv, FlightsOK
  <2> QED
    BY <1>1, <2>6, <2>7, <2>9, <2>10, OthersKeep
<1>7. CASE ~passed
  <2> DEFINE x == [me EXCEPT !.transcript = heard]
  <2>1. hs' = [hs EXCEPT ![c]["responder"] = x] /\ flights' = flights
    BY <1>1, <1>7 DEF ProcessMsg3, HsType
  <2>2. x \in Object /\ x.state = "AWAITING_MSG3" /\ x.transcript = heard
        /\ x.remote = me.remote /\ x.key = me.key
    <3>1. ASSUME NEW u \in Seq(Parts), NEW o \in Object
          PROVE  LET y == [o EXCEPT !.transcript = u]
                 IN /\ y \in Object /\ y.state = o.state /\ y.transcript = u
                    /\ y.remote = o.remote /\ y.key = o.key
      BY DEF Object
    <3>2. heard \in Seq(Parts) /\ me \in Object
      BY <1>1, <1>5
    <3> HIDE DEF me, heard
    <3>3. LET y == [me EXCEPT !.transcript = heard]
          IN /\ y \in Object /\ y.state = me.state /\ y.transcript = heard
             /\ y.remote = me.remote /\ y.key = me.key
      BY <3>1, <3>2
    <3>4. me.state = "AWAITING_MSG3"
      BY <1>1
    <3> QED
      BY <3>3, <3>4
  <2>3. Len(heard) >= 4
    <3>1. Len(me.transcript) \in Nat /\ Len(me.transcript) >= 3
      <4>1. Len(<<Msg1(b), Body2(c, b), Sig2(c, b)>>) = 3
        OBVIOUS
      <4>2. Len(me.transcript) \in Nat
        BY <1>1
      <4>3. \A n \in Nat : n = 3 \/ n >= 4 => n >= 3
        OBVIOUS
      <4>4. Len(me.transcript) = 3 \/ Len(me.transcript) >= 4
        BY <1>4, <4>1, Zenon
      <4> QED
        BY <4>2, <4>3, <4>4, Zenon
    <3>2. CASE Fits(me.transcript)
      BY <1>5, <3>1, <3>2
    <3>3. CASE ~Fits(me.transcript)
      BY <1>5, <3>1, <3>3, HandshakeAssumption DEF HandshakeAssumption, Fits
    <3> QED
      BY <3>2, <3>3
  <2>4. Becomes(c, "responder", x)
    BY <1>1, <2>1, <2>2, OneBecomes
  <2>5. \A e, f \in Handshakes : (Answers(f, e) => Answers(f, e)') /\ (Takes(e, f) => Takes(e, f)')
    <3> HIDE DEF x
    <3> QED
      BY <1>1, <2>2, <2>4, AnswersStay
  <2>6. ResponderOK(c)'
    <3>1. hs'[c]["responder"].state = "AWAITING_MSG3" /\ hs'[c]["responder"].transcript = heard
      BY <2>2, <2>4 DEF Becomes
    <3>2. Answers(c, b)'
      BY <1>4, <2>5
    <3> HIDE DEF heard
    <3> QED
      BY <2>3, <3>1, <3>2 DEF ResponderOK
  <2>7. FlightsOK'
    BY <2>1, <2>5 DEF HandshakeInv, FlightsOK
  <2> QED
    BY <1>1, <2>4, <2>5, <2>6, <2>7, OthersKeep
<1> QED
  BY <1>6, <1>7

\* Every step of a handshake keeps the invariant.
LEMMA HandshakeStepKeeps == HandshakeInv /\ [HandshakeNext]_handshakeVars => HandshakeInv'
<1> SUFFICES ASSUME HandshakeInv, [HandshakeNext]_handshakeVars PROVE HandshakeInv'
  OBVIOUS
<1>1. CASE UNCHANGED handshakeVars
  BY <1>1 DEF handshakeVars, HandshakeInv, HsType, FlightsOK, InitiatorOK, ResponderOK, Answers, Takes
<1>2. CASE HandshakeNext
  BY <1>2, CreateMsg1Keeps, ProcessMsg1Keeps, ProcessMsg2Keeps, ProcessMsg3Keeps
     DEF HandshakeNext, GiveMessage
<1> QED
  BY <1>1, <1>2

\* Two ends that are done hold the key of one answer, and no other answer has that key.
LEMMA HandshakeInvAgrees == HandshakeInv => KeysAgree
<1> SUFFICES ASSUME HandshakeInv, NEW c \in Handshakes
             PROVE  /\ Completed(c, "initiator") => \E d \in Handshakes : Agree(c, "initiator", d, "responder")
                    /\ Completed(c, "responder") =>
                          \E d \in Handshakes : Completed(d, "initiator") /\ Agree(c, "responder", d, "initiator")
                    /\ \A d \in Handshakes \ {c} : \A role \in Roles :
                          Completed(c, role) /\ Completed(d, role) => hs[c][role].key # hs[d][role].key
  BY DEF KeysAgree
<1>1. \A d \in Handshakes : InitiatorOK(d) /\ ResponderOK(d)
  BY DEF HandshakeInv
<1>2. \A a, d \in Handshakes : Takes(a, d) /\ Answers(d, a) =>
         Agree(a, "initiator", d, "responder") /\ Agree(d, "responder", a, "initiator")
  BY DEF Takes, Answers, Agree, PartyOf
<1>3. ASSUME Completed(c, "initiator")
      PROVE  \E d \in Handshakes : Agree(c, "initiator", d, "responder")
  BY <1>1, <1>2, <1>3 DEF InitiatorOK, Completed
<1>4. ASSUME Completed(c, "responder")
      PROVE  \E d \in Handshakes : Completed(d, "initiator") /\ Agree(c, "responder", d, "initiator")
  <2>1. PICK a \in Handshakes : Takes(a, c) /\ Answers(c, a)
    BY <1>1, <1>4 DEF ResponderOK, Completed
  <2> QED
    BY <1>2, <2>1 DEF Takes, Completed
<1>5. ASSUME NEW d \in Handshakes \ {c}, Completed(c, "initiator"), Completed(d, "initiator")
      PROVE  hs[c]["initiator"].key # hs[d]["initiator"].key
  <2>1. PICK e \in Handshakes : Takes(c, e)
    BY <1>1, <1>5 DEF InitiatorOK, Completed
  <2>2. PICK f \in Handshakes : Takes(d, f)
    BY <1>1, <1>5 DEF InitiatorOK, Completed
  <2> QED
    BY <2>1, <2>2, TermsDiffer DEF Takes
<1>6. ASSUME NEW d \in Handshakes \ {c}, Completed(c, "responder"), Completed(d, "responder")
      PROVE  hs[c]["responder"].key # hs[d]["responder"].key
  <2>1. PICK a \in Handshakes : Answers(c, a)
    BY <1>1, <1>6 DEF ResponderOK, Completed
  <2>2. PICK b \in Handshakes : Answers(d, b)
    BY <1>1, <1>6 DEF ResponderOK, Completed
  <2> QED
    BY <2>1, <2>2, TermsDiffer DEF Answers
<1> QED
  BY <1>3, <1>4, <1>5, <1>6 DEF Roles

\* Ends that complete a handshake agree on key and peers, for any connections between any
\* nodes and any messages of theirs, lost, repeated or given to another connection.
THEOREM KeysAgreeHolds == HandshakeSpec => []KeysAgree
<1>1. HandshakeSpec => []HandshakeInv
  BY HandshakeInvStarts, HandshakeStepKeeps, PTL DEF HandshakeSpec
<1> QED
  BY <1>1, HandshakeInvAgrees, PTL

\* The transcript of every object has room.
TranscriptsFit == \A c \in Handshakes, role \in Roles : Len(hs[c][role].transcript) <= Room

\* What is appended makes a sequence one longer.
LEMMA AppendLength ==
    ASSUME NEW S, NEW t \in Seq(S), NEW e
    PROVE  Append(t, e) \in Seq(S \union {e}) /\ Len(Append(t, e)) = Len(t) + 1 /\ Len(t) \in Nat
<1>1. t \in Seq(S \union {e}) /\ e \in S \union {e}
  OBVIOUS
<1> QED
  BY <1>1

\* What is absorbed has room.
LEMMA AbsorbedFits ==
    ASSUME NEW S, NEW t \in Seq(S), NEW e, Len(t) <= Room
    PROVE  Absorbed(t, e) \in Seq(S \union {e}) /\ Len(Absorbed(t, e)) <= Room
<1>1. Room \in Nat
  BY HandshakeAssumption DEF HandshakeAssumption
<1>2. CASE Fits(t)
  BY <1>1, <1>2, AppendLength DEF Absorbed, Fits
<1>3. CASE ~Fits(t)
  BY <1>3 DEF Absorbed
<1> QED
  BY <1>2, <1>3

\* One object changes.
LEMMA OneTranscript ==
    ASSUME HsType, TranscriptsFit, NEW c \in Handshakes, NEW role \in Roles, NEW x,
           hs' = [hs EXCEPT ![c][role] = x], Len(x.transcript) <= Room
    PROVE  TranscriptsFit'
<1>1. ASSUME NEW d \in Handshakes, NEW r \in Roles
      PROVE  hs'[d][r] = IF d = c /\ r = role THEN x ELSE hs[d][r]
  BY DEF HsType
<1> QED
  BY <1>1 DEF TranscriptsFit

\* The first message is absorbed.
LEMMA CreateMsg1Fits ==
    ASSUME HandshakeInv, TranscriptsFit, NEW c \in Handshakes, CreateMsg1(c)
    PROVE  TranscriptsFit'
<1> DEFINE me == hs[c]["initiator"]
           t == Absorbed(me.transcript, Msg1(c))
           x == [me EXCEPT !.state = "AWAITING_MSG2", !.transcript = t]
<1>1. HsType /\ me \in Object /\ me.transcript \in Seq(Parts) /\ Len(me.transcript) <= Room /\ "initiator" \in Roles
  BY DEF HandshakeInv, HsType, Object, Roles, TranscriptsFit
<1>2. Len(t) <= Room
  BY <1>1, AbsorbedFits
<1>3. hs' = [hs EXCEPT ![c]["initiator"] = x]
  BY <1>1 DEF CreateMsg1, Msg1, HsType
<1>4. x.transcript = t
  <2> HIDE DEF t
  <2> QED
    BY <1>1 DEF Object
<1> HIDE DEF x
<1> QED
  BY <1>1, <1>2, <1>3, <1>4, OneTranscript

\* The responder absorbs the first message, its answer and its signature.
LEMMA ProcessMsg1Fits ==
    ASSUME HandshakeInv, TranscriptsFit, NEW c \in Handshakes, NEW m, ProcessMsg1(c, m)
    PROVE  TranscriptsFit'
<1> DEFINE me == hs[c]["responder"]
<1>1. HsType /\ me.transcript = <<>> /\ "responder" \in Roles
  BY DEF HandshakeInv, ResponderOK, ProcessMsg1, Roles
<1>2. PICK e, f, k : hs' = [hs EXCEPT ![c]["responder"] =
          [state |-> "AWAITING_MSG3", transcript |-> Append(Append(Append(me.transcript, m), e), f),
           remote |-> m.id, key |-> k]]
  BY DEF ProcessMsg1
<1> DEFINE t == Append(Append(Append(me.transcript, m), e), f)
           x == [state |-> "AWAITING_MSG3", transcript |-> t, remote |-> m.id, key |-> k]
<1>3. Len(t) = 3
  <2> DEFINE u == Append(<<>>, m)
             v == Append(u, e)
  <2>1. <<>> \in Seq({}) /\ Len(<<>>) = 0
    OBVIOUS
  <2>2. u \in Seq({} \union {m}) /\ Len(u) = 1
    BY <2>1, AppendLength
  <2> HIDE DEF u
  <2>3. v \in Seq({} \union {m} \union {e}) /\ Len(v) = 2
    <3>1. v \in Seq({} \union {m} \union {e}) /\ Len(v) = Len(u) + 1
      BY <2>2, AppendLength
    <3> QED
      BY <2>2, <3>1
  <2> HIDE DEF v
  <2>4. Len(Append(v, f)) = 3
    <3>1. Len(Append(v, f)) = Len(v) + 1
      BY <2>3, AppendLength
    <3> QED
      BY <2>3, <3>1
  <2> QED
    BY <1>1, <2>4 DEF u, v
<1>4. Len(t) <= Room
  BY <1>3, HandshakeAssumption DEF HandshakeAssumption
<1>5. hs' = [hs EXCEPT ![c]["responder"] = x] /\ x.transcript = t
  BY <1>2
<1> HIDE DEF x, t
<1> QED
  BY <1>1, <1>4, <1>5, OneTranscript

\* The initiator absorbs the answer; it signs only what it has room for.
LEMMA ProcessMsg2Fits ==
    ASSUME HandshakeInv, TranscriptsFit, NEW c \in Handshakes, NEW m, ProcessMsg2(c, m)
    PROVE  TranscriptsFit'
<1> DEFINE me == hs[c]["initiator"]
           heard == Absorbed(me.transcript, m.body)
           signed == Append(heard, m.sig)
           body == [type |-> 3, id |-> OpenerOf[c]]
           closing == Append(signed, body)
           sig == Signature(OpenerOf[c], closing)
<1>1. HsType /\ me \in Object /\ me.transcript \in Seq(Parts) /\ Len(me.transcript) <= Room /\ "initiator" \in Roles
  BY DEF HandshakeInv, HsType, Object, Roles, TranscriptsFit
<1>2. heard \in Seq(Parts \union {m.body}) /\ Len(heard) <= Room
  BY <1>1, AbsorbedFits
<1>3. CASE Len(closing) < Room /\ \E k : hs' = [hs EXCEPT ![c]["initiator"] =
             [state |-> "COMPLETE", transcript |-> Append(closing, sig), remote |-> m.body.id, key |-> k]]
  <2>1. PICK k : hs' = [hs EXCEPT ![c]["initiator"] =
             [state |-> "COMPLETE", transcript |-> Append(closing, sig), remote |-> m.body.id, key |-> k]]
    BY <1>3
  <2> DEFINE t == Append(closing, sig)
             x == [state |-> "COMPLETE", transcript |-> t, remote |-> m.body.id, key |-> k]
  <2>2. hs' = [hs EXCEPT ![c]["initiator"] = x] /\ x.transcript = t
    BY <2>1
  <2>3. Len(t) <= Room
    <3> HIDE DEF heard
    <3>1. signed \in Seq(Parts \union {m.body} \union {m.sig})
      BY <1>2, AppendLength
    <3> HIDE DEF signed
    <3>2. closing \in Seq(Parts \union {m.body} \union {m.sig} \union {body}) /\ Len(closing) \in Nat
      BY <3>1, AppendLength, LenProperties
    <3> HIDE DEF closing
    <3>3. Len(t) = Len(closing) + 1
      BY <3>2, AppendLength
    <3>4. Room \in Nat
      BY HandshakeAssumption DEF HandshakeAssumption
    <3> HIDE DEF t
    <3> QED
      BY <1>3, <3>2, <3>3, <3>4
  <2> HIDE DEF x, t
  <2> QED
    BY <1>1, <2>2, <2>3, OneTranscript
<1>4. CASE hs' = [hs EXCEPT ![c]["initiator"].transcript = heard, ![c]["initiator"].remote = m.body.id]
  <2> DEFINE x == [me EXCEPT !.transcript = heard, !.remote = m.body.id]
  <2>1. hs' = [hs EXCEPT ![c]["initiator"] = x]
    BY <1>1, <1>4 DEF HsType
  <2>2. x.transcript = heard
    <3> HIDE DEF heard
    <3> QED
      BY <1>1 DEF Object
  <2> HIDE DEF x, heard
  <2> QED
    BY <1>1, <1>2, <2>1, <2>2, OneTranscript
<1> QED
  BY <1>3, <1>4 DEF ProcessMsg2

\* The responder absorbs the last message, and its signature where there is room.
LEMMA ProcessMsg3Fits ==
    ASSUME HandshakeInv, TranscriptsFit, NEW c \in Handshakes, NEW m, ProcessMsg3(c, m)
    PROVE  TranscriptsFit'
<1> DEFINE me == hs[c]["responder"]
           heard == Absorbed(me.transcript, m.body)
<1>1. HsType /\ me \in Object /\ me.transcript \in Seq(Parts) /\ Len(me.transcript) <= Room /\ "responder" \in Roles
  BY DEF HandshakeInv, HsType, Object, Roles, TranscriptsFit
<1>2. heard \in Seq(Parts \union {m.body}) /\ Len(heard) <= Room
  BY <1>1, AbsorbedFits
<1>3. CASE Fits(heard) /\ hs' = [hs EXCEPT ![c]["responder"].state = "COMPLETE",
                                           ![c]["responder"].transcript = Append(heard, m.sig)]
  <2> DEFINE t == Append(heard, m.sig)
             x == [me EXCEPT !.state = "COMPLETE", !.transcript = t]
  <2>1. hs' = [hs EXCEPT ![c]["responder"] = x]
    BY <1>1, <1>3 DEF HsType
  <2>2. Len(t) <= Room
    <3> HIDE DEF heard
    <3>1. Len(t) = Len(heard) + 1 /\ Len(heard) \in Nat
      BY <1>2, AppendLength
    <3>2. Room \in Nat
      BY HandshakeAssumption DEF HandshakeAssumption
    <3> HIDE DEF t
    <3> QED
      BY <1>3, <3>1, <3>2 DEF Fits
  <2>3. x.transcript = t
    <3> HIDE DEF t
    <3> QED
      BY <1>1 DEF Object
  <2> HIDE DEF x, t
  <2> QED
    BY <1>1, <2>1, <2>2, <2>3, OneTranscript
<1>4. CASE hs' = [hs EXCEPT ![c]["responder"].transcript = heard]
  <2> DEFINE x == [me EXCEPT !.transcript = heard]
  <2>1. hs' = [hs EXCEPT ![c]["responder"] = x]
    BY <1>1, <1>4 DEF HsType
  <2>2. x.transcript = heard
    <3> HIDE DEF heard
    <3> QED
      BY <1>1 DEF Object
  <2> HIDE DEF x, heard
  <2> QED
    BY <1>1, <1>2, <2>1, <2>2, OneTranscript
<1> QED
  BY <1>3, <1>4 DEF ProcessMsg3

\* The room of the transcripts is kept.
LEMMA TranscriptsFitKept ==
    /\ HandshakeInit => TranscriptsFit
    /\ HandshakeInv /\ TranscriptsFit /\ [HandshakeNext]_handshakeVars => TranscriptsFit'
<1>1. ASSUME HandshakeInit PROVE TranscriptsFit
  <2>1. Len(<<>>) <= Room
    BY HandshakeAssumption DEF HandshakeAssumption
  <2>2. \A c \in Handshakes, role \in Roles : hs[c][role].transcript = <<>>
    BY <1>1 DEF HandshakeInit
  <2> QED
    BY <2>1, <2>2 DEF TranscriptsFit
<1> SUFFICES ASSUME HandshakeInv, TranscriptsFit, [HandshakeNext]_handshakeVars PROVE TranscriptsFit'
  BY <1>1
<1>2. CASE UNCHANGED handshakeVars
  BY <1>2 DEF handshakeVars, TranscriptsFit
<1>3. CASE HandshakeNext
  BY <1>3, CreateMsg1Fits, ProcessMsg1Fits, ProcessMsg2Fits, ProcessMsg3Fits DEF HandshakeNext, GiveMessage
<1> QED
  BY <1>2, <1>3

\* So the handshakes have their type: an object that is complete has a key.
LEMMA HandshakeTyped == HandshakeInv /\ TranscriptsFit => HandshakeTypeOK
<1> SUFFICES ASSUME HandshakeInv, TranscriptsFit, NEW c \in Handshakes, NEW role \in Roles
             PROVE  /\ hs[c][role].state \in {"INIT", "AWAITING_MSG2", "AWAITING_MSG3", "COMPLETE"}
                    /\ Len(hs[c][role].transcript) <= Room
                    /\ hs[c][role].state = "COMPLETE" => hs[c][role].key # NoKey
  BY DEF HandshakeTypeOK
<1>1. hs[c][role] \in Object
  BY DEF HandshakeInv, HsType
<1>2. ASSUME NEW d, NEW a PROVE KeyOf(d, a) # NoKey
  BY DEF KeyOf, SessionKey, NoKey
<1>3. ASSUME hs[c][role].state = "COMPLETE" PROVE hs[c][role].key # NoKey
  <2>1. CASE role = "initiator"
    <3>1. PICK d \in Handshakes : Takes(c, d)
      BY <1>3, <2>1 DEF HandshakeInv, InitiatorOK
    <3> QED
      BY <1>2, <2>1, <3>1 DEF Takes
  <2>2. CASE role = "responder"
    <3>1. PICK a \in Handshakes : Answers(c, a)
      BY <1>3, <2>2 DEF HandshakeInv, ResponderOK
    <3> QED
      BY <1>2, <2>2, <3>1 DEF Answers
  <2> QED
    BY <2>1, <2>2 DEF Roles
<1> QED
  BY <1>1, <1>3 DEF Object, States, TranscriptsFit

----------------------------------------------------------------------------
(* Gossip. *)

\* What a node has shown once is in its dedup set, which never gets as full as the sweep
\* of old entries needs.
SeenOK(s) ==
    /\ s = [m \in DOMAIN s |-> s[m]]
    /\ IsFiniteSet(DOMAIN s) /\ Size(s) * 4 <= SeenCap * 3

GossipInv ==
    /\ DOMAIN seen = Gossipers
    /\ shown \in [Gossipers -> [News -> 0..1]]
    /\ wire \subseteq [from : Gossipers, to : Gossipers, news : News]
    /\ \A n \in Gossipers : SeenOK(seen[n])
    /\ \A n \in Gossipers, m \in News : shown[n][m] # 0 => m \in DOMAIN seen[n]

\* There is no more in the set than CanInsert allows, so there is nothing to sweep.
LEMMA NeverSwept == ASSUME NEW s, SeenOK(s) PROVE Swept(s) = s
<1>1. SeenCap \in Nat \ {0}
  BY GossipAssumption DEF GossipAssumption
<1>2. Size(s) \in Nat /\ Size(s) * 4 <= SeenCap * 3
  BY FS_CardinalityType DEF SeenOK, Size
<1>3. ~(Size(s) >= SeenCap)
  BY <1>1, <1>2
<1> QED
  BY <1>3 DEF Swept

\* An entry that is inserted joins those that are there.
LEMMA Inserted ==
    ASSUME NEW s, NEW m, NEW x, SeenOK(s), CanInsert(s)
    PROVE  SeenOK(WithNode(s, m, x)) /\ DOMAIN WithNode(s, m, x) = DOMAIN s \cup {m}
<1>1. SeenCap \in Nat \ {0}
  BY GossipAssumption DEF GossipAssumption
<1>2. DOMAIN WithNode(s, m, x) = DOMAIN s \cup {m}
  BY DEF WithNode
<1>3. /\ IsFiniteSet(DOMAIN s \cup {m})
      /\ Cardinality(DOMAIN s \cup {m}) = IF m \in DOMAIN s THEN Cardinality(DOMAIN s) ELSE Cardinality(DOMAIN s) + 1
  BY FS_AddElement DEF SeenOK
<1>4. Cardinality(DOMAIN s) \in Nat /\ (Cardinality(DOMAIN s) + 1) * 4 <= SeenCap * 3
  BY FS_CardinalityType DEF SeenOK, CanInsert, Size
<1>5. Cardinality(DOMAIN s \cup {m}) * 4 <= SeenCap * 3
  BY <1>1, <1>3, <1>4
<1>6. WithNode(s, m, x) = [k \in DOMAIN WithNode(s, m, x) |-> WithNode(s, m, x)[k]]
  BY DEF WithNode
<1> QED
  BY <1>2, <1>3, <1>5, <1>6 DEF SeenOK, Size

\* Frames go to neighbours.
LEMMA FannedToNeighbours ==
    ASSUME NEW n \in Gossipers, NEW m \in News, NEW T \in Targets(n), NEW skip
    PROVE  Fanned(n, m, T, skip) \subseteq [from : Gossipers, to : Gossipers, news : News]
BY GossipAssumption DEF GossipAssumption, Targets, Fanned

\* A node shows a message that it had not entered, and enters it.
LEMMA ShownIsEntered ==
    ASSUME GossipInv, NEW n \in Gossipers, NEW m \in News, NEW T \in Targets(n), NEW skip,
           shown[n][m] = 0, CanInsert(seen[n]),
           seen' = [seen EXCEPT ![n] = WithNode(@, m, gossipNow)], shown' = Shown(n, m),
           wire' = wire \cup Fanned(n, m, T, skip)
    PROVE  GossipInv'
<1>1. SeenOK(WithNode(seen[n], m, gossipNow)) /\ DOMAIN WithNode(seen[n], m, gossipNow) = DOMAIN seen[n] \cup {m}
  BY Inserted DEF GossipInv
<1>2. DOMAIN seen' = Gossipers /\ seen'[n] = WithNode(seen[n], m, gossipNow)
      /\ \A k \in Gossipers \ {n} : seen'[k] = seen[k]
  BY DEF GossipInv
<1>3. shown' = [shown EXCEPT ![n] = [shown[n] EXCEPT ![m] = 1]]
  BY DEF Shown, GossipInv
<1>4. [shown[n] EXCEPT ![m] = 1] \in [News -> 0..1]
  BY DEF GossipInv
<1>5. shown' \in [Gossipers -> [News -> 0..1]]
  BY <1>3, <1>4 DEF GossipInv
<1>6. wire' \subseteq [from : Gossipers, to : Gossipers, news : News]
  BY FannedToNeighbours DEF GossipInv
<1>7. \A k \in Gossipers : SeenOK(seen'[k])
  BY <1>1, <1>2 DEF GossipInv
<1>8. ASSUME NEW k \in Gossipers, NEW o \in News, shown'[k][o] # 0 PROVE o \in DOMAIN seen'[k]
  <2>1. CASE k = n /\ o = m
    BY <1>1, <1>2, <2>1
  <2>2. CASE ~(k = n /\ o = m)
    <3>1. shown'[k][o] = shown[k][o]
      BY <1>3, <2>2 DEF GossipInv
    <3> QED
      BY <1>1, <1>2, <1>8, <3>1 DEF GossipInv
  <2> QED
    BY <2>1, <2>2
<1> QED
  BY <1>2, <1>5, <1>6, <1>7, <1>8 DEF GossipInv

\* Publishing, and a frame that arrives.
LEMMA GossipStepKeeps == ASSUME GossipInv, [GossipNext]_gossipVars PROVE GossipInv'
<1>1. ASSUME NEW n \in Publishers, NEW i \in 1..Published, Publish(n, i) PROVE GossipInv'
  <2>1. n \in Gossipers /\ <<n, i>> \in News
    BY GossipAssumption DEF GossipAssumption, News
  <2>2. PICK T \in Targets(n) : wire' = wire \cup Fanned(n, <<n, i>>, T, n)
    BY <1>1 DEF Publish
  <2> QED
    BY <1>1, <2>1, <2>2, ShownIsEntered DEF Publish
<1>2. ASSUME NEW f \in wire, AcceptMessage(f) PROVE GossipInv'
  <2>1. f.to \in Gossipers /\ f.news \in News
    BY DEF GossipInv
  <2>2. CASE UNCHANGED <<seen, shown, wire>>
    BY <2>2 DEF GossipInv
  <2>3. CASE ~UNCHANGED <<seen, shown, wire>>
    <3>1. /\ f.news \notin DOMAIN seen[f.to] /\ CanInsert(Swept(seen[f.to]))
          /\ seen' = [seen EXCEPT ![f.to] = Remembered(@, f.news)]
          /\ shown' = Shown(f.to, f.news)
          /\ \E T \in Targets(f.to) : wire' = wire \cup Fanned(f.to, f.news, T, f.from)
      BY <1>2, <2>3 DEF AcceptMessage
    <3>2. Swept(seen[f.to]) = seen[f.to] /\ shown[f.to][f.news] = 0
      BY <2>1, <3>1, NeverSwept DEF GossipInv
    <3>3. seen' = [seen EXCEPT ![f.to] = WithNode(@, f.news, gossipNow)]
      BY <3>1, <3>2 DEF Remembered
    <3>4. PICK T \in Targets(f.to) : wire' = wire \cup Fanned(f.to, f.news, T, f.from)
      BY <3>1
    <3> QED
      BY <2>1, <3>1, <3>2, <3>3, <3>4, ShownIsEntered
  <2> QED
    BY <2>2, <2>3
<1>3. CASE Lose
  BY <1>3 DEF Lose, GossipInv
<1>4. CASE GossipTick \/ UNCHANGED gossipVars
  BY <1>4 DEF GossipTick, gossipVars, GossipInv
<1> QED
  BY <1>1, <1>2, <1>3, <1>4 DEF GossipNext, Receive

\* Nothing is shown at the start.
LEMMA GossipInvStarts == GossipInit => GossipInv
<1> SUFFICES ASSUME GossipInit PROVE GossipInv
  OBVIOUS
<1>1. SeenOK(None)
  <2>1. DOMAIN None = {}
    BY DEF None
  <2>2. None = [m \in DOMAIN None |-> None[m]]
    BY DEF None
  <2>3. IsFiniteSet({}) /\ Cardinality({}) = 0 /\ SeenCap \in Nat
    BY FS_EmptySet, GossipAssumption DEF GossipAssumption
  <2> QED
    BY <2>1, <2>2, <2>3 DEF SeenOK, Size
<1>2. shown = [n \in Gossipers |-> [m \in News |-> 0]] /\ seen = [n \in Gossipers |-> None] /\ wire = {}
  BY DEF GossipInit
<1> QED
  BY <1>1, <1>2 DEF GossipInv

\* The counts are 0 or 1.
LEMMA GossipShowsOnce == GossipInv => ShownOnce
<1> SUFFICES ASSUME GossipInv, NEW n \in Gossipers, NEW m \in News PROVE shown[n][m] <= 1
  BY DEF ShownOnce
<1>1. shown[n][m] \in 0..1
  BY DEF GossipInv
<1> QED
  BY <1>1

----------------------------------------------------------------------------
(* Sequences of messages. *)

\* A function on the first n numbers is a sequence of length n.
LEMMA SeqOfLength ==
    ASSUME NEW S, NEW n \in Nat, NEW s \in [1..n -> S]
    PROVE  s \in Seq(S) /\ Len(s) = n /\ DOMAIN s = 1..n
<1>1. s \in Seq(S)
  BY SeqDef
<1>2. DOMAIN s = 1..Len(s) /\ Len(s) \in Nat /\ DOMAIN s = 1..n
  BY <1>1, LenProperties
<1>3. Len(s) = n
  <2>1. CASE Len(s) < n
    <3>1. n \in 1..n /\ n \notin 1..Len(s)
      BY <1>2, <2>1
    <3> QED
      BY <1>2, <3>1
  <2>2. CASE n < Len(s)
    <3>1. Len(s) \in 1..Len(s) /\ Len(s) \notin 1..n
      BY <1>2, <2>2
    <3> QED
      BY <1>2, <3>1
  <2> QED
    BY <1>2, <2>1, <2>2
<1> QED
  BY <1>1, <1>2, <1>3

\* The members of a sequence are what it has at its places.
LEMMA MembersOfSeq ==
    ASSUME NEW S, NEW s \in Seq(S)
    PROVE  /\ \A i \in 1..Len(s) : s[i] \in ToSet(s)
           /\ \A x \in ToSet(s) : \E i \in 1..Len(s) : s[i] = x
<1>1. DOMAIN s = 1..Len(s)
  BY LenProperties
<1> QED
  BY <1>1 DEF ToSet

\* The members of a sequence are as many as it is long at most.
LEMMA SizeOfSeq ==
    ASSUME NEW s \in Seq(Nat)
    PROVE  IsFiniteSet(ToSet(s)) /\ Cardinality(ToSet(s)) <= Len(s) /\ ToSet(s) \subseteq Nat
<1>1. s \in Surjection(1..Len(s), ToSet(s)) /\ ToSet(s) \subseteq Nat
  BY DEF Surjection, ToSet
<1>2. IsFiniteSet(1..Len(s)) /\ Cardinality(1..Len(s)) = Len(s)
  <2>1. Len(s) \in Nat /\ Len(s) \in Int /\ 1 \in Int
    OBVIOUS
  <2>2. IsFiniteSet(1..Len(s)) /\ Cardinality(1..Len(s)) = IF 1 > Len(s) THEN 0 ELSE Len(s) - 1 + 1
    BY <2>1, FS_Interval
  <2> QED
    BY <2>1, <2>2
<1> QED
  BY <1>1, <1>2, FS_Surjection

\* A rearrangement of a sequence misses no place: otherwise two places would be the same.
LEMMA RearrangedIsOnto ==
    ASSUME NEW n \in Nat, NEW f \in [1..n -> 1..n], \A i, j \in DOMAIN f : f[i] = f[j] => i = j,
           NEW k \in 1..n
    PROVE  \E i \in 1..n : f[i] = k
<1> SUFFICES ASSUME \A i \in 1..n : f[i] # k PROVE FALSE
  OBVIOUS
<1>1. f \in [1..n -> (1..n) \ {k}]
  OBVIOUS
<1>2. n \in Int /\ 1 \in Int
  OBVIOUS
<1>3. IsFiniteSet(1..n)
  BY <1>2, FS_Interval
<1>4. IsFiniteSet((1..n) \ {k}) /\ Cardinality((1..n) \ {k}) = Cardinality(1..n) - 1
  BY <1>3, FS_RemoveElement
<1>5. Cardinality((1..n) \ {k}) < Cardinality(1..n)
  BY <1>3, <1>4, FS_CardinalityType
<1>6. PICK i \in 1..n, j \in 1..n : i # j /\ f[i] = f[j]
  BY <1>1, <1>3, <1>4, <1>5, FS_PigeonHole
<1> QED
  BY <1>6

\* t is the sequence s with its places rearranged by f.
Rearranged(t, s, f) ==
    /\ t \in [1..Len(s) -> Nat]
    /\ \A i \in 1..Len(s) : f[i] \in 1..Len(s) /\ t[i] = s[f[i]]
    /\ \A k \in 1..Len(s) : \E i \in 1..Len(s) : f[i] = k
\* Sequences of the same length with the same members.
Alike(t, s) == t \in Seq(Nat) /\ Len(t) = Len(s) /\ ToSet(t) = ToSet(s)
\* A sequence has the members of two others, and is as long as both.
Joined(t, s, u) ==
    t \in Seq(Nat) /\ Len(t) = Len(s) + Len(u) /\ ToSet(t) = ToSet(s) \cup ToSet(u)

\* A sequence with its places rearranged has the same members.
LEMMA MembersRearranged ==
    ASSUME NEW s \in Seq(Nat), NEW f, NEW t, Rearranged(t, s, f)
    PROVE  Alike(t, s)
<1> USE DEF Rearranged
<1>1. Len(s) \in Nat
  BY LenProperties
<1>2. t \in Seq(Nat) /\ Len(t) = Len(s)
  BY <1>1, SeqOfLength
<1>3. ASSUME NEW x \in ToSet(t) PROVE x \in ToSet(s)
  <2>1. PICK i \in 1..Len(t) : t[i] = x
    BY <1>2, MembersOfSeq
  <2>2. f[i] \in 1..Len(s) /\ x = s[f[i]]
    BY <1>2, <2>1
  <2> QED
    BY <2>2, MembersOfSeq
<1>4. ASSUME NEW x \in ToSet(s) PROVE x \in ToSet(t)
  <2>1. PICK k \in 1..Len(s) : s[k] = x
    BY MembersOfSeq
  <2>2. PICK i \in 1..Len(s) : f[i] = k
    OBVIOUS
  <2>3. i \in 1..Len(t) /\ t[i] = x
    BY <1>2, <2>1, <2>2
  <2> QED
    BY <1>2, <2>3, MembersOfSeq
<1> QED
  BY <1>2, <1>3, <1>4 DEF Alike

\* The members of two sequences, one after the other, are those of both.
LEMMA MembersOfBoth ==
    ASSUME NEW s \in Seq(Nat), NEW t \in Seq(Nat)
    PROVE  Joined(s \o t, s, t)
<1> DEFINE both == s \o t
<1>1. both \in Seq(Nat) /\ Len(both) = Len(s) + Len(t)
  BY ConcatProperties
<1>2. \A i \in 1..Len(s) + Len(t) : both[i] = IF i <= Len(s) THEN s[i] ELSE t[i - Len(s)]
  BY ConcatProperties
<1>3. Len(s) \in Nat /\ Len(t) \in Nat
  BY LenProperties
<1> HIDE DEF both
<1>4. ASSUME NEW x \in ToSet(both) PROVE x \in ToSet(s) \cup ToSet(t)
  <2>1. PICK i \in 1..Len(both) : both[i] = x
    BY <1>1, MembersOfSeq
  <2>2. CASE i <= Len(s)
    <3>1. i \in 1..Len(s) /\ x = s[i]
      BY <1>1, <1>2, <1>3, <2>1, <2>2
    <3> QED
      BY <3>1, MembersOfSeq
  <2>3. CASE ~(i <= Len(s))
    <3>1. i - Len(s) \in 1..Len(t) /\ x = t[i - Len(s)]
      BY <1>1, <1>2, <1>3, <2>1, <2>3
    <3> QED
      BY <3>1, MembersOfSeq
  <2> QED
    BY <2>2, <2>3
<1>5. ASSUME NEW x \in ToSet(s) PROVE x \in ToSet(both)
  <2>1. PICK i \in 1..Len(s) : s[i] = x
    BY MembersOfSeq
  <2>2. i \in 1..Len(both) /\ both[i] = x
    BY <1>1, <1>2, <1>3, <2>1
  <2> QED
    BY <1>1, <2>2, MembersOfSeq
<1>6. ASSUME NEW x \in ToSet(t) PROVE x \in ToSet(both)
  <2>1. PICK i \in 1..Len(t) : t[i] = x
    BY MembersOfSeq
  <2> DEFINE k == Len(s) + i
  <2>2. k \in 1..Len(s) + Len(t) /\ ~(k <= Len(s)) /\ k - Len(s) = i
    BY <1>3
  <2>3. k \in 1..Len(both) /\ both[k] = x
    BY <1>1, <1>2, <2>1, <2>2
  <2> QED
    BY <1>1, <2>3, MembersOfSeq
<1>7. ToSet(both) = ToSet(s) \cup ToSet(t)
  BY <1>4, <1>5, <1>6
<1> QED
  BY <1>1, <1>7 DEF both, Joined

----------------------------------------------------------------------------
(* ClientSend. *)

\* What is put on the send list joins what is there.
LEMMA QueuedJoins ==
    ASSUME NEW list \in Seq(Nat), NEW msgs \in Seq(Nat)
    PROVE  Joined(Queued(list, msgs), list, msgs)
<1> DEFINE f == [i \in 1..Len(msgs) |-> (Len(msgs) - i) + 1]
           back == Reverse(msgs)
<1>1. Len(msgs) \in Nat
  BY LenProperties
<1>2. \A i \in 1..Len(msgs) : f[i] \in 1..Len(msgs) /\ (Len(msgs) - f[i]) + 1 = i
  BY <1>1
<1>3. f \in [1..Len(msgs) -> 1..Len(msgs)] /\ \A k \in 1..Len(msgs) : f[f[k]] = k
  BY <1>1, <1>2
<1>4. /\ DOMAIN back = 1..Len(msgs)
      /\ \A i \in 1..Len(msgs) : f[i] \in 1..Len(msgs) /\ back[i] = msgs[f[i]]
  BY <1>1, <1>2 DEF Reverse
<1>11. \A i \in 1..Len(msgs) : msgs[i] \in Nat
  BY ElementOfSeq
<1>12. back = [i \in 1..Len(msgs) |-> msgs[(Len(msgs) - i) + 1]]
  BY DEF Reverse
<1>13. back \in [1..Len(msgs) -> Nat]
  BY <1>1, <1>2, <1>11, <1>12
<1> HIDE DEF f, back
<1>5. \A k \in 1..Len(msgs) : \E i \in 1..Len(msgs) : f[i] = k
  BY <1>3
<1>6. Rearranged(back, msgs, f)
  BY <1>4, <1>5, <1>13 DEF Rearranged
<1>14. Alike(back, msgs)
  BY <1>6, MembersRearranged
<1>7. Queued(list, msgs) = back \o list
  BY DEF Queued, back
<1>8. Joined(back \o list, back, list)
  BY <1>14, MembersOfBoth DEF Alike
<1>9. Len(list) \in Nat
  BY LenProperties
<1> QED
  BY <1>1, <1>14, <1>7, <1>8, <1>9 DEF Alike, Joined

\* The batch is put on the send list, shuffled.
LEMMA FlushedJoins ==
    ASSUME NEW msgs \in Seq(Nat), sendList \in Seq(Nat), Flushed(msgs)
    PROVE  batch' = <<>> /\ Joined(sendList', sendList, msgs)
<1>1. PICK f \in [1..Len(msgs) -> 1..Len(msgs)] :
        /\ \A i, j \in DOMAIN f : f[i] = f[j] => i = j
        /\ sendList' = Queued(sendList, [i \in DOMAIN f |-> msgs[f[i]]])
  BY DEF Flushed
<1> DEFINE shuffled == [i \in 1..Len(msgs) |-> msgs[f[i]]]
<1>2. Len(msgs) \in Nat /\ DOMAIN f = 1..Len(msgs)
  BY LenProperties
<1>3. \A k \in 1..Len(msgs) : \E i \in 1..Len(msgs) : f[i] = k
  BY <1>1, <1>2, RearrangedIsOnto
<1>4. sendList' = Queued(sendList, shuffled)
  BY <1>1, <1>2
<1>11. \A i \in 1..Len(msgs) : msgs[i] \in Nat
  BY ElementOfSeq
<1>5. /\ DOMAIN shuffled = 1..Len(msgs) /\ shuffled \in [1..Len(msgs) -> Nat]
      /\ \A i \in 1..Len(msgs) : f[i] \in 1..Len(msgs) /\ shuffled[i] = msgs[f[i]]
  BY <1>11
<1> HIDE DEF shuffled
<1>6. Alike(shuffled, msgs)
  <2>1. Rearranged(shuffled, msgs, f)
    BY <1>3, <1>5 DEF Rearranged
  <2> QED
    BY <2>1, MembersRearranged
<1>8. Joined(sendList', sendList, shuffled)
  BY <1>4, <1>6, QueuedJoins DEF Alike
<1>7. batch' = <<>>
  BY DEF Flushed
<1> QED
  BY <1>6, <1>7, <1>8 DEF Alike, Joined

\* What a set takes in from a sequence makes it larger by the length of that at most.
LEMMA GrowsByLength ==
    ASSUME NEW D, IsFiniteSet(D), NEW s \in Seq(Nat), NEW E, E \subseteq D \cup ToSet(s)
    PROVE  IsFiniteSet(E) /\ Cardinality(E) <= Cardinality(D) + Len(s)
<1>1. IsFiniteSet(ToSet(s)) /\ Cardinality(ToSet(s)) <= Len(s) /\ Len(s) \in Nat
  BY SizeOfSeq, LenProperties
<1>2. /\ IsFiniteSet(D \cup ToSet(s))
      /\ Cardinality(D \cup ToSet(s)) = Cardinality(D) + Cardinality(ToSet(s)) - Cardinality(D \cap ToSet(s))
  BY <1>1, FS_Union
<1>3. IsFiniteSet(E) /\ Cardinality(E) <= Cardinality(D \cup ToSet(s))
  BY <1>2, FS_Subset
<1>4. IsFiniteSet(D \cap ToSet(s))
  BY <1>1, FS_Intersection
<1>5. /\ Cardinality(D) \in Nat /\ Cardinality(ToSet(s)) \in Nat /\ Cardinality(D \cap ToSet(s)) \in Nat
      /\ Cardinality(D \cup ToSet(s)) \in Nat /\ Cardinality(E) \in Nat
  BY <1>1, <1>2, <1>3, <1>4, FS_CardinalityType
<1> QED
  BY <1>1, <1>2, <1>3, <1>5

\* The messages that have left the queues.
Gone == Framed \cup discarded
\* A frame has a message, a peer and a jitter.
FramesMade == \A f \in frames : \E m, p : f \in [msg : {m}, peer : {p}, jittered : BOOLEAN]

\* The three places a message can be in.
Places == ToSet(batch) \cup ToSet(sendList) \cup Gone

SendInv ==
    /\ accepted \in Nat /\ batch \in Seq(Nat) /\ sendList \in Seq(Nat)
    /\ FramesMade /\ IsFiniteSet(Gone)
    /\ 1..accepted = Places \/ ~running
    /\ Len(batch) + Len(sendList) + Cardinality(Gone) <= accepted

\* The promise follows.
LEMMA SendInvSuffices ==
    ASSUME SendInv
    PROVE  AcceptedOnce
<1>1. Places = ToSet(batch) \cup ToSet(sendList) \cup Framed \cup discarded
  BY DEF Places, Gone
<1> QED
  BY <1>1 DEF SendInv, AcceptedOnce, Gone

\* No message is anywhere at the start.
LEMMA SendInvStarts ==
    ASSUME SendInit
    PROVE  SendInv
<1>1. accepted = 0 /\ batch = <<>> /\ sendList = <<>> /\ frames = {} /\ discarded = {}
  BY DEF SendInit
<1>2. <<>> \in Seq(Nat) /\ Len(<<>>) = 0 /\ 0 \in Nat
  OBVIOUS
<1>3. ToSet(<<>>) = {}
  <2>1. DOMAIN <<>> = {}
    OBVIOUS
  <2> QED
    BY <2>1 DEF ToSet
<1>4. Gone = {}
  BY <1>1 DEF Gone, Framed
<1>5. IsFiniteSet(Gone) /\ Cardinality(Gone) = 0
  BY <1>4, FS_EmptySet
<1>6. Places = {} /\ 1..accepted = {}
  BY <1>1, <1>3, <1>4 DEF Places
<1>7. FramesMade
  BY <1>1 DEF FramesMade
<1> QED
  BY <1>1, <1>2, <1>5, <1>6, <1>7 DEF SendInv

\* trellis_client_send_message: the new message joins the batch or the send list.
LEMMA SendMessageKeeps ==
    ASSUME SendInv, SendMessage
    PROVE  SendInv'
<1> USE DEF SendInv
<1> DEFINE n == accepted + 1
           msgs == Append(batch, n)
<1>1. accepted' = n /\ n \in Nat /\ running /\ frames' = frames /\ discarded' = discarded
  BY DEF SendMessage
<1>2. <<n>> \in Seq(Nat) /\ Len(<<n>>) = 1 /\ ToSet(<<n>>) = {n}
  BY <1>1 DEF ToSet
<1>3. Joined(msgs, batch, <<n>>)
  <2>1. msgs = batch \o <<n>>
    BY <1>1
  <2> QED
    BY <1>2, <2>1, MembersOfBoth
<1>4. Gone' = Gone /\ FramesMade'
  BY <1>1 DEF Gone, Framed, FramesMade
<1>5. 1..n = (1..accepted) \cup {n}
  BY <1>1
<1>11. Len(batch) \in Nat /\ Len(sendList) \in Nat
  BY LenProperties
<1>6. /\ batch' \in Seq(Nat) /\ sendList' \in Seq(Nat)
      /\ Len(batch') + Len(sendList') = Len(batch) + Len(sendList) + 1
      /\ ToSet(batch') \cup ToSet(sendList') = ToSet(batch) \cup ToSet(sendList) \cup {n}
  <2>1. CASE Flushed(msgs)
    <3>1. batch' = <<>> /\ Joined(sendList', sendList, msgs)
      BY <1>3, <2>1, FlushedJoins DEF Joined
    <3>2. <<>> \in Seq(Nat) /\ Len(<<>>) = 0 /\ ToSet(<<>>) = {}
      BY DEF ToSet
    <3>3. sendList' \in Seq(Nat) /\ Len(sendList') = Len(sendList) + (Len(batch) + 1)
      BY <1>2, <1>3, <3>1 DEF Joined
    <3>4. ToSet(sendList') = ToSet(sendList) \cup (ToSet(batch) \cup {n})
      BY <1>2, <1>3, <3>1 DEF Joined
    <3>5. Len(batch') + Len(sendList') = Len(batch) + Len(sendList) + 1
      BY <1>11, <3>1, <3>2, <3>3
    <3>6. ToSet(batch') = {} /\ batch' \in Seq(Nat)
      BY <3>1, <3>2
    <3> QED
      BY <3>3, <3>4, <3>5, <3>6
  <2>2. CASE Held(msgs)
    <3>1. batch' = msgs /\ sendList' = sendList
      BY <2>2 DEF Held
    <3> QED
      BY <1>11, <1>2, <1>3, <3>1 DEF Joined
  <2>3. CASE sendList' = Queued(sendList, <<n>>) /\ batch' = batch
    <3>1. Joined(sendList', sendList, <<n>>)
      BY <1>2, <2>3, QueuedJoins
    <3>2. ToSet(sendList') = ToSet(sendList) \cup {n} /\ Len(sendList') = Len(sendList) + 1
      BY <1>2, <3>1 DEF Joined
    <3>3. sendList' \in Seq(Nat)
      BY <3>1 DEF Joined
    <3>4. batch' = batch
      BY <2>3
    <3>5. Len(batch') + Len(sendList') = Len(batch) + Len(sendList) + 1
      BY <1>11, <3>2, <3>4
    <3> QED
      BY <3>2, <3>3, <3>4, <3>5
  <2> QED
    BY <1>1, <2>1, <2>2, <2>3 DEF SendMessage
<1>7. Places' = Places \cup {n}
  BY <1>4, <1>6 DEF Places
<1>8. 1..accepted' = Places' \/ ~running'
  BY <1>1, <1>5, <1>7
<1>9. Len(batch') + Len(sendList') + Cardinality(Gone') <= accepted'
  <2>1. Cardinality(Gone) \in Nat
    BY FS_CardinalityType
  <2>2. Len(batch) \in Nat /\ Len(sendList) \in Nat
    BY LenProperties
  <2> QED
    BY <1>1, <1>4, <1>6, <2>1, <2>2
<1> QED
  BY <1>1, <1>4, <1>6, <1>8, <1>9

\* trellis_client_stop: what waits is given up.
LEMMA StopKeeps ==
    ASSUME SendInv, Stop
    PROVE  SendInv'
<1> USE DEF SendInv
<1>1. /\ accepted' = accepted /\ batch' = <<>> /\ sendList' = <<>> /\ running' = FALSE
      /\ discarded' = discarded \cup ToSet(batch) \cup ToSet(sendList) /\ frames' \subseteq frames
  BY DEF Stop
<1>2. <<>> \in Seq(Nat) /\ Len(<<>>) = 0
  OBVIOUS
<1>3. FramesMade' /\ Framed' \subseteq Framed
  BY <1>1 DEF FramesMade, Framed
<1>4. Gone' \subseteq (Gone \cup ToSet(batch)) \cup ToSet(sendList)
  BY <1>1, <1>3 DEF Gone
<1>5. /\ IsFiniteSet(Gone \cup ToSet(batch))
      /\ Cardinality(Gone \cup ToSet(batch)) <= Cardinality(Gone) + Len(batch)
  BY GrowsByLength
<1>6. IsFiniteSet(Gone') /\ Cardinality(Gone') <= Cardinality(Gone \cup ToSet(batch)) + Len(sendList)
  BY <1>4, <1>5, GrowsByLength
<1>7. Len(batch) \in Nat /\ Len(sendList) \in Nat
  BY LenProperties
<1>8. /\ Cardinality(Gone) \in Nat /\ Cardinality(Gone') \in Nat
      /\ Cardinality(Gone \cup ToSet(batch)) \in Nat
  BY <1>5, <1>6, FS_CardinalityType
<1>9. Len(batch') + Len(sendList') + Cardinality(Gone') <= accepted'
  BY <1>1, <1>2, <1>5, <1>6, <1>7, <1>8
<1> QED
  BY <1>1, <1>2, <1>3, <1>6, <1>9

\* The batch timer puts the batch on the send list.
LEMMA BatchTimerKeeps ==
    ASSUME SendInv, BatchTimer
    PROVE  SendInv'
<1> USE DEF SendInv
<1>1. /\ accepted' = accepted /\ frames' = frames /\ discarded' = discarded
      /\ running /\ running' = running /\ Flushed(batch)
  BY DEF BatchTimer
<1>2. batch' = <<>> /\ Joined(sendList', sendList, batch)
  BY <1>1, FlushedJoins
<1>3. <<>> \in Seq(Nat) /\ Len(<<>>) = 0 /\ ToSet(<<>>) = {}
  BY DEF ToSet
<1>4. Gone' = Gone /\ FramesMade'
  BY <1>1 DEF Gone, Framed, FramesMade
<1>5. Places' = Places
  BY <1>2, <1>3, <1>4 DEF Places, Joined
<1>6. Len(batch) \in Nat /\ Len(sendList) \in Nat /\ Cardinality(Gone) \in Nat
  BY LenProperties, FS_CardinalityType
<1>7. Len(batch') + Len(sendList') + Cardinality(Gone') <= accepted'
  BY <1>1, <1>2, <1>3, <1>4, <1>6 DEF Joined
<1> QED
  BY <1>1, <1>2, <1>3, <1>4, <1>5, <1>7 DEF Joined

\* on_send_async: what is on the send list is framed, or given up when no peer is there.
LEMMA OnSendAsyncKeeps ==
    ASSUME SendInv, OnSendAsync
    PROVE  SendInv'
<1> USE DEF SendInv
<1>1. /\ accepted' = accepted /\ batch' = batch /\ sendList' = <<>>
      /\ running' = running
      /\ discarded' = IF linked = {} THEN discarded \cup ToSet(sendList) ELSE discarded
  BY DEF OnSendAsync, Taken
<1>2. PICK late \in BOOLEAN :
        frames' = frames \cup {[msg |-> m, peer |-> p, jittered |-> late] : m \in ToSet(sendList), p \in linked}
  BY DEF OnSendAsync
<1> DEFINE new == {[msg |-> m, peer |-> p, jittered |-> late] : m \in ToSet(sendList), p \in linked}
<1>3. {f.msg : f \in new} = IF linked = {} THEN {} ELSE ToSet(sendList)
  <2>1. ASSUME NEW f \in new PROVE f.msg \in ToSet(sendList) /\ linked # {}
    OBVIOUS
  <2>2. ASSUME NEW m \in ToSet(sendList), NEW p \in linked PROVE \E f \in new : f.msg = m
    <3>1. [msg |-> m, peer |-> p, jittered |-> late] \in new
      OBVIOUS
    <3>2. [msg |-> m, peer |-> p, jittered |-> late].msg = m
      OBVIOUS
    <3> HIDE DEF new
    <3> QED
      BY <3>1, <3>2
  <2> HIDE DEF new
  <2> QED
    BY <2>1, <2>2
<1>4. FramesMade'
  <2>1. \A f \in new : \E m, p : f \in [msg : {m}, peer : {p}, jittered : BOOLEAN]
    OBVIOUS
  <2>2. frames' = frames \cup new
    BY <1>2
  <2> HIDE DEF new
  <2> QED
    BY <2>1, <2>2 DEF FramesMade
<1>5. Framed' = Framed \cup {f.msg : f \in new}
  <2>1. frames' = frames \cup new
    BY <1>2
  <2> HIDE DEF new
  <2> QED
    BY <2>1 DEF Framed
<1> HIDE DEF new
<1>6. Gone' = Gone \cup ToSet(sendList)
  BY <1>1, <1>3, <1>5 DEF Gone
<1>7. IsFiniteSet(Gone') /\ Cardinality(Gone') <= Cardinality(Gone) + Len(sendList)
  BY <1>6, GrowsByLength
<1>8. <<>> \in Seq(Nat) /\ Len(<<>>) = 0 /\ ToSet(<<>>) = {}
  BY DEF ToSet
<1>9. Places' = Places
  BY <1>1, <1>6, <1>8 DEF Places
<1>10. /\ Len(batch) \in Nat /\ Len(sendList) \in Nat /\ Cardinality(Gone) \in Nat
       /\ Cardinality(Gone') \in Nat
  BY <1>7, LenProperties, FS_CardinalityType
<1>11. Len(batch') + Len(sendList') + Cardinality(Gone') <= accepted'
  BY <1>1, <1>7, <1>8, <1>10
<1> QED
  BY <1>1, <1>4, <1>7, <1>8, <1>9, <1>11

\* on_jitter_timer: a frame that was held back is still that of its message.
LEMMA OnJitterTimerKeeps ==
    ASSUME SendInv, NEW f \in frames, OnJitterTimer(f)
    PROVE  SendInv'
<1> USE DEF SendInv
<1> DEFINE out == [f EXCEPT !.jittered = FALSE]
<1>1. /\ frames' = (frames \ {f}) \cup {out}
      /\ UNCHANGED <<running, accepted, batch, sendList, discarded>>
  BY DEF OnJitterTimer
<1>2. PICK m, p : f \in [msg : {m}, peer : {p}, jittered : BOOLEAN]
  BY DEF FramesMade
<1>3. out \in [msg : {m}, peer : {p}, jittered : BOOLEAN] /\ out.msg = f.msg
  BY <1>2
<1> HIDE DEF out
<1>4. FramesMade'
  BY <1>1, <1>3 DEF FramesMade
<1>5. Framed' = Framed
  BY <1>1, <1>3 DEF Framed
<1>6. Gone' = Gone /\ Places' = Places
  BY <1>1, <1>5 DEF Gone, Places
<1> QED
  BY <1>1, <1>4, <1>6

\* Every step keeps the queues: the others are steps of the peers and of the routing mode.
LEMMA SendStepKeeps ==
    ASSUME SendInv, [SendNext]_sendVars
    PROVE  SendInv'
<1>1. CASE UNCHANGED <<running, queueVars>>
  BY <1>1 DEF SendInv, Places, FramesMade, Gone, Framed, queueVars
<1>2. CASE SendingNext
  <2>1. CASE SendMessage \/ Stop \/ BatchTimer \/ OnSendAsync
    BY <2>1, SendMessageKeeps, StopKeeps, BatchTimerKeeps, OnSendAsyncKeeps
  <2>2. CASE \E f \in frames : OnJitterTimer(f)
    BY <2>2, OnJitterTimerKeeps
  <2>3. CASE DialEnds \/ KeepaliveTimer
    BY <2>3, <1>1 DEF DialEnds, KeepaliveTimer
  <2>4. CASE \E p \in SendPeers : LinkLost(p) \/ FallsSilent(p) \/ Pong(p) \/ PeerExchange(p)
    BY <2>4, <1>1 DEF LinkLost, FallsSilent, Pong, PeerExchange
  <2> QED
    BY <1>2, <2>1, <2>2, <2>3, <2>4 DEF SendingNext
<1>3. CASE ModeNext
  <2>1. UNCHANGED <<running, queueVars>>
    BY <1>3 DEF ModeNext, SetRouting, DecoyBorrows, DecoyReturns, ExitBorrows, ExitReturns
  <2> QED
    BY <1>1, <2>1
<1>4. CASE UNCHANGED sendVars
  BY <1>1, <1>4 DEF sendVars, queueVars
<1> QED
  BY <1>2, <1>3, <1>4 DEF SendNext

\* The messages by their numbers.
Messages == 1..MaxSent

\* Queues of messages, frames of messages for peers, addresses of peers and a mode to return to.
QueuesFit ==
    /\ running \in BOOLEAN /\ accepted \in 0..MaxSent
    /\ batch \in Seq(Messages) /\ sendList \in Seq(Messages) /\ batchTimer \in BOOLEAN
    /\ frames \subseteq Frame /\ discarded \subseteq Messages
PeersFit ==
    /\ silent \subseteq linked /\ linked \subseteq SendPeers /\ IsFiniteSet(linked)
    /\ reconnect \in Seq(SendPeers) /\ dials \in Seq(SendPeers)
RouteFits ==
    route \in [mode : RouteModes, choice : RouteModes,
               decoy : RouteModes \cup {Unborrowed}, exit : RouteModes \cup {Unborrowed}]

\* The addresses that are left of a list are addresses of it.
LEMMA UnlinkedIsPart ==
    ASSUME NEW S, NEW list \in Seq(S), NEW up
    PROVE  Unlinked(list, up) \in Seq(S)
<1> DEFINE n == Len(list)
           V == Seq(S)
           before == [x \in Nat |-> x - 1]
           next == [x \in Nat |-> [s \in V |->
                       IF x \in 1..n /\ list[x] \notin up THEN Append(s, list[x]) ELSE s]]
           Row(g, i) == IF i = 0 THEN <<>>
                        ELSE IF list[i] \in up THEN g[i - 1] ELSE Append(g[i - 1], list[i])
<1>0. n \in Nat /\ \A i \in 1..n : list[i] \in S
  BY ElementOfSeq, LenProperties
<1>1. PICK f : UpToBy(f, n, before, <<>>, next, V)
  <2>1. GoesDown(before)
    BY DEF GoesDown
  <2>2. StepsWithin(next, V)
    <3>1. ASSUME NEW x \in Nat, NEW s \in V
          PROVE  (IF x \in 1..n /\ list[x] \notin up THEN Append(s, list[x]) ELSE s) \in V
      <4>1. CASE x \in 1..n
        <5>1. list[x] \in S
          BY <1>0, <4>1
        <5> QED
          BY <5>1
      <4>2. CASE x \notin 1..n
        BY <4>2
      <4> QED
        BY <4>1, <4>2
    <3> QED
      BY <3>1 DEF StepsWithin
  <2>3. <<>> \in V
    OBVIOUS
  <2> HIDE DEF before, next, V, n
  <2> QED
    BY <1>0, <2>1, <2>2, <2>3, UpToByExists
<1>2. /\ f \in [0..n -> V]
      /\ \A i \in 0..n : f[i] = IF i = 0 THEN <<>> ELSE next[i][f[before[i]]]
  BY <1>1 DEF UpToBy
<1>3. ASSUME NEW i \in 0..n PROVE f[i] = Row(f, i)
  <2>1. CASE i = 0
    BY <1>2, <2>1
  <2>2. CASE i # 0
    <3>1. i \in 1..n /\ i - 1 \in 0..n /\ i \in Nat /\ before[i] = i - 1
      BY <1>0, <2>2
    <3>2. f[i - 1] \in V
      BY <1>2, <3>1
    <3>3. f[i] = next[i][f[i - 1]]
      BY <1>2, <2>2, <3>1
    <3>4. next[i][f[i - 1]] = IF list[i] \notin up THEN Append(f[i - 1], list[i]) ELSE f[i - 1]
      <4> HIDE DEF V
      <4> QED
        BY <3>1, <3>2
    <3> QED
      BY <2>2, <3>3, <3>4
  <2> QED
    BY <2>1, <2>2
<1> DEFINE body(g) == [i \in 0..n |-> IF i = 0 THEN <<>>
                         ELSE IF list[i] \in up THEN g[i - 1] ELSE Append(g[i - 1], list[i])]
           F == CHOOSE g : g = body(g)
<1>4. f = body(f)
  BY <1>2, <1>3
<1>5. F = body(F)
  <2> HIDE DEF body
  <2> QED
    BY <1>4
<1>6. Unlinked(list, up) = F[n]
  BY DEF Unlinked
<1> HIDE DEF F
<1>7. ASSUME NEW i \in 0..n PROVE F[i] = IF i = 0 THEN <<>>
                         ELSE IF list[i] \in up THEN F[i - 1] ELSE Append(F[i - 1], list[i])
  BY <1>5
<1>8. \A i \in Nat : i <= n => F[i] = f[i]
  <2> DEFINE Bad == {i \in Nat : i <= n /\ F[i] # f[i]}
  <2> SUFFICES ASSUME Bad # {} PROVE FALSE
    OBVIOUS
  <2>1. PICK i \in Bad : \A j \in Bad : i <= j
    <3>1. Bad \subseteq Nat
      OBVIOUS
    <3> HIDE DEF Bad
    <3> QED
      BY <3>1, LeastNatural
  <2>2. i \in 0..n /\ F[i] # f[i]
    BY <1>0, <2>1
  <2>3. CASE i = 0
    BY <1>3, <1>7, <2>2, <2>3
  <2>4. CASE i # 0
    <3>1. i - 1 \in Nat /\ i - 1 <= n /\ ~(i <= i - 1)
      BY <1>0, <2>2, <2>4
    <3>2. F[i - 1] = f[i - 1]
      BY <2>1, <3>1
    <3> QED
      BY <1>3, <1>7, <2>2, <2>4, <3>2
  <2> QED
    BY <2>3, <2>4
<1>9. F[n] = f[n] /\ f[n] \in V
  BY <1>0, <1>2, <1>8
<1> QED
  BY <1>6, <1>9

\* A queue turned round and put before another is a queue.
LEMMA QueuedFits ==
    ASSUME NEW S, NEW list \in Seq(S), NEW msgs \in Seq(S)
    PROVE  Queued(list, msgs) \in Seq(S)
<1>1. Len(msgs) \in Nat /\ \A i \in 1..Len(msgs) : msgs[i] \in S
  BY ElementOfSeq, LenProperties
<1>2. Reverse(msgs) \in Seq(S)
  <2> DEFINE n == Len(msgs)
  <2>1. Reverse(msgs) = [i \in 1..n |-> msgs[(n - i) + 1]]
    BY DEF Reverse
  <2>2. \A i \in 1..n : (n - i) + 1 \in 1..n
    BY <1>1
  <2>3. [i \in 1..n |-> msgs[(n - i) + 1]] \in [1..n -> S]
    BY <1>1, <2>2
  <2>4. [1..n -> S] \subseteq Seq(S)
    BY <1>1, SeqDef
  <2> QED
    BY <2>1, <2>3, <2>4
<1> QED
  BY <1>2 DEF Queued

\* So is the send list after a flush.
LEMMA FlushedFits ==
    ASSUME NEW S, sendList \in Seq(S), NEW msgs \in Seq(S), Flushed(msgs)
    PROVE  batch' = <<>> /\ batchTimer' = FALSE /\ sendList' \in Seq(S)
<1>1. PICK f \in [1..Len(msgs) -> 1..Len(msgs)] :
          sendList' = Queued(sendList, [i \in DOMAIN f |-> msgs[f[i]]])
  BY DEF Flushed
<1>2. Len(msgs) \in Nat /\ \A i \in 1..Len(msgs) : msgs[i] \in S
  BY ElementOfSeq, LenProperties
<1> DEFINE n == Len(msgs)
           m == [i \in DOMAIN f |-> msgs[f[i]]]
<1>3. m \in [1..n -> S]
  BY <1>2
<1>4. [1..n -> S] \subseteq Seq(S)
  BY <1>2, SeqDef
<1>5. m \in Seq(S)
  BY <1>3, <1>4
<1> HIDE DEF m
<1>6. sendList' \in Seq(S)
  BY <1>1, <1>5, QueuedFits DEF m
<1> QED
  BY <1>6 DEF Flushed

\* What a sequence lists is what it is a sequence of.
LEMMA ListedAre ==
    ASSUME NEW S, NEW s \in Seq(S)
    PROVE  ToSet(s) \subseteq S
<1>1. \A i \in DOMAIN s : s[i] \in S
  BY ElementOfSeq, LenProperties
<1> QED
  BY <1>1 DEF ToSet

\* The queues keep their shape.
LEMMA QueuesKept ==
    ASSUME QueuesFit, linked \subseteq SendPeers, [SendNext]_sendVars
    PROVE  QueuesFit'
<1>0. /\ running \in BOOLEAN /\ accepted \in 0..MaxSent /\ MaxSent \in Nat
      /\ batch \in Seq(Messages) /\ sendList \in Seq(Messages) /\ batchTimer \in BOOLEAN
      /\ frames \subseteq Frame /\ discarded \subseteq Messages
      /\ <<>> \in Seq(Messages)
  BY ClientSendAssumption DEF QueuesFit
<1>1. CASE UNCHANGED <<running, queueVars>>
  BY <1>1 DEF QueuesFit, queueVars
<1>2. CASE SendMessage
  <2> DEFINE msgs == Append(batch, accepted + 1)
  <2>1. accepted' = accepted + 1 /\ accepted' \in 0..MaxSent /\ accepted + 1 \in Messages
    BY <1>0, <1>2 DEF SendMessage, Messages
  <2>2. msgs \in Seq(Messages) /\ <<accepted + 1>> \in Seq(Messages)
    BY <1>0, <2>1
  <2> HIDE DEF msgs
  <2>3. UNCHANGED <<running, frames, discarded>>
    BY <1>2 DEF SendMessage
  <2>4. CASE Flushed(msgs)
    BY <1>0, <2>1, <2>2, <2>3, <2>4, FlushedFits DEF QueuesFit
  <2>5. CASE Held(msgs)
    BY <1>0, <2>1, <2>2, <2>3, <2>5 DEF Held, QueuesFit
  <2>6. CASE sendList' = Queued(sendList, <<accepted + 1>>) /\ UNCHANGED <<batch, batchTimer>>
    <3>1. sendList' \in Seq(Messages)
      BY <1>0, <2>2, <2>6, QueuedFits
    <3> QED
      BY <1>0, <2>1, <2>3, <2>6, <3>1 DEF QueuesFit
  <2> QED
    BY <1>2, <2>1, <2>4, <2>5, <2>6 DEF SendMessage, msgs
<1>3. CASE Stop
  <2>1. ToSet(batch) \subseteq Messages /\ ToSet(sendList) \subseteq Messages
    BY <1>0, ListedAre
  <2> QED
    BY <1>0, <1>3, <2>1 DEF Stop, QueuesFit
<1>4. CASE BatchTimer
  <2>1. batch' = <<>> /\ batchTimer' = FALSE /\ sendList' \in Seq(Messages)
    BY <1>0, <1>4, FlushedFits DEF BatchTimer
  <2> QED
    BY <1>0, <1>4, <2>1 DEF BatchTimer, QueuesFit
<1>5. CASE OnSendAsync
  <2>1. ToSet(sendList) \subseteq Messages
    BY <1>0, ListedAre
  <2>2. PICK late \in BOOLEAN :
          frames' = frames \cup {[msg |-> m, peer |-> p, jittered |-> late] : m \in ToSet(sendList), p \in linked}
    BY <1>5 DEF OnSendAsync
  <2>3. ASSUME NEW m \in ToSet(sendList), NEW p \in linked
        PROVE  [msg |-> m, peer |-> p, jittered |-> late] \in Frame
    BY <2>1 DEF Frame, Messages
  <2>4. frames' \subseteq Frame
    BY <1>0, <2>2, <2>3
  <2>5. /\ discarded' \subseteq Messages /\ sendList' = <<>>
        /\ UNCHANGED <<running, accepted, batch, batchTimer>>
    BY <1>0, <1>5, <2>1 DEF OnSendAsync, Taken
  <2> QED
    BY <1>0, <2>4, <2>5 DEF QueuesFit
<1>6. ASSUME NEW f \in frames, OnJitterTimer(f) PROVE QueuesFit'
  <2>1. [f EXCEPT !.jittered = FALSE] \in Frame
    BY <1>0 DEF Frame
  <2> QED
    BY <1>0, <1>6, <2>1 DEF OnJitterTimer, QueuesFit
<1>7. CASE SendingNext
  <2>1. CASE DialEnds \/ KeepaliveTimer
    BY <2>1, <1>1 DEF DialEnds, KeepaliveTimer
  <2>2. CASE \E p \in SendPeers : LinkLost(p) \/ FallsSilent(p) \/ Pong(p) \/ PeerExchange(p)
    BY <2>2, <1>1 DEF LinkLost, FallsSilent, Pong, PeerExchange
  <2> QED
    BY <1>2, <1>3, <1>4, <1>5, <1>6, <1>7, <2>1, <2>2 DEF SendingNext
<1>8. CASE ModeNext
  BY <1>1, <1>8 DEF ModeNext, SetRouting, DecoyBorrows, DecoyReturns, ExitBorrows, ExitReturns
<1>9. CASE UNCHANGED sendVars
  BY <1>1, <1>9 DEF sendVars, queueVars
<1> QED
  BY <1>7, <1>8, <1>9 DEF SendNext

\* The addresses that a keepalive dials are peers'.
LEMMA RedialledArePeers ==
    ASSUME PeersFit, KeepaliveTimer
    PROVE  dials' \in Seq(SendPeers)
<1>1. /\ silent \subseteq SendPeers /\ IsFiniteSet(silent) /\ Cardinality(silent) \in Nat
      /\ reconnect \in Seq(SendPeers) /\ dials \in Seq(SendPeers)
  <2>1. IsFiniteSet(silent) /\ Cardinality(silent) \in Nat
    BY FS_Subset, FS_CardinalityType DEF PeersFit
  <2> QED
    BY <2>1 DEF PeersFit
<1>2. PICK lost \in SetToSeqs(silent) :
        LET room == IF ReconnectCap > Len(reconnect) THEN ReconnectCap - Len(reconnect) ELSE 0
            kept == IF Len(lost) > room THEN SubSeq(lost, 1, room) ELSE lost
            list == reconnect \o kept
        IN dials' = dials \o Unlinked(list, linked')
  BY DEF KeepaliveTimer
<1>3. lost \in Seq(SendPeers)
  <2>1. lost \in [1..Cardinality(silent) -> silent]
    BY DEF SetToSeqs
  <2>2. [1..Cardinality(silent) -> silent] \subseteq Seq(silent)
    BY <1>1, SeqDef
  <2> QED
    BY <1>1, <2>1, <2>2
<1> DEFINE room == IF ReconnectCap > Len(reconnect) THEN ReconnectCap - Len(reconnect) ELSE 0
           kept == IF Len(lost) > room THEN SubSeq(lost, 1, room) ELSE lost
<1>4. room \in Nat /\ Len(lost) \in Nat
  BY <1>1, <1>3, ClientSendAssumption
<1>5. kept \in Seq(SendPeers)
  <2> HIDE DEF room
  <2>1. CASE Len(lost) > room
    BY <1>3, <1>4, <2>1
  <2> QED
    BY <1>3, <2>1
<1>6. dials' = dials \o Unlinked(reconnect \o kept, linked')
  BY <1>2
<1> HIDE DEF kept
<1>7. reconnect \o kept \in Seq(SendPeers)
  BY <1>1, <1>5
<1>8. Unlinked(reconnect \o kept, linked') \in Seq(SendPeers)
  BY <1>7, UnlinkedIsPart
<1> QED
  BY <1>1, <1>6, <1>8

\* The peers keep their shape.
LEMMA PeersKept ==
    ASSUME PeersFit, [SendNext]_sendVars
    PROVE  PeersFit'
<1>0. /\ silent \subseteq linked /\ linked \subseteq SendPeers /\ IsFiniteSet(linked)
      /\ reconnect \in Seq(SendPeers) /\ dials \in Seq(SendPeers) /\ <<>> \in Seq(SendPeers)
  BY DEF PeersFit
<1>1. CASE UNCHANGED peerVars
  BY <1>1 DEF PeersFit, peerVars
<1>2. CASE Stop
  BY <1>0, <1>2, FS_EmptySet DEF Stop, PeersFit
<1>3. CASE DialEnds
  <2>1. Head(dials) \in SendPeers /\ Tail(dials) \in Seq(SendPeers)
    BY <1>0, <1>3 DEF DialEnds
  <2>2. IsFiniteSet(linked \cup {Head(dials)})
    BY <1>0, FS_AddElement
  <2> QED
    BY <1>0, <1>3, <2>1, <2>2 DEF DialEnds, PeersFit
<1>4. CASE KeepaliveTimer
  <2>1. dials' \in Seq(SendPeers)
    BY <1>4, RedialledArePeers
  <2>2. linked' = linked \ silent /\ silent' = {} /\ reconnect' = <<>>
    BY <1>4 DEF KeepaliveTimer, Redialled
  <2>3. IsFiniteSet(linked')
    BY <1>0, <2>2, FS_Subset
  <2> QED
    BY <1>0, <2>1, <2>2, <2>3 DEF PeersFit
<1>5. ASSUME NEW p \in SendPeers, LinkLost(p) \/ FallsSilent(p) \/ Pong(p) PROVE PeersFit'
  <2>1. IsFiniteSet(linked \ {p})
    BY <1>0, FS_Subset
  <2>2. (linked' = linked \/ linked' = linked \ {p}) /\ UNCHANGED <<reconnect, dials>>
    BY <1>5 DEF LinkLost, FallsSilent, Pong
  <2>3. silent' \subseteq linked'
    BY <1>0, <1>5 DEF LinkLost, FallsSilent, Pong
  <2> QED
    BY <1>0, <2>1, <2>2, <2>3 DEF PeersFit
<1>6. ASSUME NEW p \in SendPeers, PeerExchange(p) PROVE PeersFit'
  BY <1>0, <1>6 DEF PeerExchange, PeersFit
<1>7. CASE SendMessage \/ BatchTimer \/ OnSendAsync \/ (\E f \in frames : OnJitterTimer(f))
  BY <1>1, <1>7 DEF SendMessage, BatchTimer, OnSendAsync, OnJitterTimer
<1>8. CASE ModeNext
  BY <1>1, <1>8 DEF ModeNext, SetRouting, DecoyBorrows, DecoyReturns, ExitBorrows, ExitReturns
<1>9. CASE UNCHANGED sendVars
  BY <1>1, <1>9 DEF sendVars, peerVars
<1>10. CASE SendingNext
  BY <1>2, <1>3, <1>4, <1>5, <1>6, <1>7, <1>10 DEF SendingNext
<1> QED
  BY <1>8, <1>9, <1>10 DEF SendNext

\* The mode is one of the modes, and so is what a borrower returns to.
LEMMA RouteKept ==
    ASSUME RouteFits, [SendNext]_sendVars
    PROVE  RouteFits'
<1>1. CASE route' = route
  BY <1>1 DEF RouteFits
<1>2. ASSUME NEW m \in RouteModes, SetRouting(m) PROVE RouteFits'
  BY <1>2 DEF SetRouting, RouteFits
<1>3. CASE DecoyBorrows
  BY <1>3, ClientSendAssumption DEF DecoyBorrows, RouteFits
<1>4. CASE DecoyReturns
  BY <1>4 DEF DecoyReturns, RouteFits
<1>5. CASE ExitBorrows
  BY <1>5, ClientSendAssumption DEF ExitBorrows, RouteFits
<1>6. CASE ExitReturns
  BY <1>6 DEF ExitReturns, RouteFits
<1>7. CASE SendingNext
  <2>1. route' = route
    BY <1>7 DEF SendingNext, SendMessage, Stop, BatchTimer, OnSendAsync, OnJitterTimer, DialEnds,
                KeepaliveTimer, LinkLost, FallsSilent, Pong, PeerExchange
  <2> QED
    BY <1>1, <2>1
<1>8. CASE UNCHANGED sendVars
  BY <1>1, <1>8 DEF sendVars
<1> QED
  BY <1>2, <1>3, <1>4, <1>5, <1>6, <1>7, <1>8 DEF SendNext, ModeNext

\* All of it holds at the start and through every step.
SendFits == QueuesFit /\ PeersFit /\ RouteFits

\* They are kept.
LEMMA SendFitsKept ==
    /\ SendInit => SendFits
    /\ SendFits /\ [SendNext]_sendVars => SendFits'
<1>1. ASSUME SendInit PROVE SendFits
  <2>1. QueuesFit
    <3>1. <<>> \in Seq(Messages) /\ 0 \in 0..MaxSent
      BY ClientSendAssumption
    <3>2. /\ running = TRUE /\ accepted = 0 /\ batch = <<>> /\ batchTimer = FALSE /\ sendList = <<>>
          /\ frames = {} /\ discarded = {}
      BY <1>1 DEF SendInit
    <3> QED
      BY <3>1, <3>2 DEF QueuesFit
  <2>2. PeersFit
    <3>1. ASSUME NEW seed \in SendPeers PROVE <<seed>> \in Seq(SendPeers)
      OBVIOUS
    <3>2. linked = {} /\ silent = {} /\ \E seed \in SendPeers : reconnect = <<seed>> /\ dials = <<seed>>
      BY <1>1 DEF SendInit
    <3>3. IsFiniteSet(linked)
      BY <3>2, FS_EmptySet
    <3> QED
      BY <3>1, <3>2, <3>3 DEF PeersFit
  <2>3. RouteFits
    BY <1>1 DEF SendInit, RouteFits
  <2> QED
    BY <2>1, <2>2, <2>3 DEF SendFits
<1>2. ASSUME SendFits, [SendNext]_sendVars PROVE SendFits'
  <2>1. linked \subseteq SendPeers
    BY <1>2 DEF SendFits, PeersFit
  <2> QED
    BY <1>2, <2>1, QueuesKept, PeersKept, RouteKept DEF SendFits
<1> QED
  BY <1>1, <1>2

\* The queues, peers and modes have their shapes.
LEMMA SendTyped == SendFits => SendTypeOK
BY DEF SendFits, QueuesFit, PeersFit, RouteFits, SendTypeOK, Messages

----------------------------------------------------------------------------
(* ExitRelay. *)

ConnRecords == [active : BOOLEAN, user : Users \cup {Nobody}, state : {"none", "connecting", "open"},
                socket : Sites \cup {Nowhere}]
SocksRecords == [active : BOOLEAN, user : SocksClients \cup {Nobody},
                 state : {"none", "request", "lookup", "proxy"}]
ExitLookups == [table : {"conns", "socksState"}, slot : 1..ExitSlots, target : PolicySites]

ExitShape ==
    /\ conns \in [1..ExitSlots -> ConnRecords] /\ socksState \in [1..ExitSlots -> SocksRecords]
    /\ lookups \subseteq ExitLookups /\ asked \in [Users -> Sites \cup {Nowhere}]

\* The slot of a stream whose name is looked up stays that stream's.
StreamLookupOK(l) ==
    /\ conns[l.slot].active /\ conns[l.slot].state = "none"
    /\ conns[l.slot].user \in ExitStreams /\ asked[conns[l.slot].user] = l.target

\* So does that of a client of the SOCKS5 port, which has no connection yet.
SocksLookupOK(l) ==
    /\ socksState[l.slot].active /\ socksState[l.slot].state = "lookup"
    /\ socksState[l.slot].user \in SocksClients /\ asked[socksState[l.slot].user] = l.target
    /\ \A s \in 1..ExitSlots : conns[s].state # "none" => conns[s].user # socksState[l.slot].user

\* A socket leads where its user asked.
SocketOK(s) ==
    conns[s].state # "none" =>
        /\ conns[s].user \in Users /\ conns[s].socket \in PolicySites
        /\ asked[conns[s].user] = conns[s].socket

\* A slot in use has a client; before its request that has asked for nothing.
RequestOK(k) ==
    socksState[k].active =>
        /\ socksState[k].state # "none"
        /\ socksState[k].state = "request" =>
              socksState[k].user \in SocksClients /\ asked[socksState[k].user] = Nowhere

\* Slots in use have different clients.
ClientsDiffer ==
    \A j, k \in 1..ExitSlots :
        socksState[j].state # "none" /\ socksState[k].state # "none"
            /\ socksState[j].user = socksState[k].user => j = k

\* While nobody has left early, every lookup and every socket is that of its user.
ExitSlotsOK ==
    /\ ExitShape /\ ClientsDiffer
    /\ \A s \in 1..ExitSlots : SocketOK(s) /\ RequestOK(s)
    /\ \A l \in lookups : (l.table = "conns" => StreamLookupOK(l)) /\ (l.table = "socksState" => SocksLookupOK(l))

ExitInv == early = {} => ExitSlotsOK

\* While no client has left early, the socket of a slot in use leads to the
\* target that the slot holds.
LEMMA ExitInvSuffices ==
    ASSUME ExitInv
    PROVE  SocketsLeadToTarget
BY DEF ExitInv, ExitSlotsOK, ExitShape, SocketOK, SocketsLeadToTarget

\* A relay with no lookup and no slot in use satisfies the invariant.
LEMMA ExitInvStarts ==
    ASSUME ExitInit
    PROVE  ExitInv
<1>1. IdleConn \in ConnRecords /\ IdleSocks \in SocksRecords
  BY DEF IdleConn, IdleSocks, ConnRecords, SocksRecords
<1>2. \A s \in 1..ExitSlots : conns[s] = IdleConn /\ socksState[s] = IdleSocks
  BY DEF ExitInit
<1>3. ExitShape
  BY <1>1 DEF ExitInit, ExitShape
<1>4. IdleConn.state = "none" /\ IdleSocks.state = "none" /\ ~IdleSocks.active
  BY DEF IdleConn, IdleSocks
<1> QED
  BY <1>2, <1>3, <1>4 DEF ExitInit, ExitInv, ExitSlotsOK, ClientsDiffer, SocketOK, RequestOK

\* exit_handle_open: the slot it takes was free, so no lookup has it; its stream had not asked.
LEMMA OpenStreamKeeps ==
    ASSUME ExitSlotsOK, NEW u \in ExitStreams, NEW t \in Sites, OpenStream(u, t)
    PROVE  ExitSlotsOK'
<1> USE ExitAssumption DEF ExitSlotsOK
<1>1. /\ asked[u] = Nowhere /\ asked' = [asked EXCEPT ![u] = t] /\ socksState' = socksState
      /\ u \in Users /\ u \notin SocksClients
  BY DEF OpenStream, Users
<1>2. asked' \in [Users -> Sites \cup {Nowhere}] /\ \A v \in Users \ {u} : asked'[v] = asked[v]
  BY <1>1 DEF ExitShape
<1>3. \A k \in 1..ExitSlots : socksState[k].user \in SocksClients =>
        asked'[socksState[k].user] = asked[socksState[k].user]
  BY <1>1, <1>2 DEF Users
<1>4. ClientsDiffer' /\ \A s \in 1..ExitSlots : RequestOK(s)'
  BY <1>1, <1>3 DEF ClientsDiffer, RequestOK
<1>5. \A s \in 1..ExitSlots : conns[s].state # "none" => conns[s].user # u
  BY <1>1 DEF SocketOK
<1>6. \A l \in lookups : l.table = "conns" => conns[l.slot].user # u
  BY <1>1 DEF StreamLookupOK, ExitShape, ExitLookups
<1>7. CASE conns' = conns /\ lookups' = lookups
  <2>1. ExitShape'
    BY <1>1, <1>2, <1>7 DEF ExitShape
  <2>2. \A s \in 1..ExitSlots : SocketOK(s)'
    BY <1>2, <1>5, <1>7 DEF SocketOK
  <2>3. \A l \in lookups' : l.table = "conns" => StreamLookupOK(l)'
    BY <1>2, <1>6, <1>7 DEF StreamLookupOK, Users
  <2>4. \A l \in lookups' : l.table = "socksState" => SocksLookupOK(l)'
    BY <1>1, <1>3, <1>7 DEF SocksLookupOK, ExitShape, ExitLookups
  <2> QED
    BY <1>4, <2>1, <2>2, <2>3, <2>4
<1>8. CASE conns' # conns \/ lookups' # lookups
  <2> DEFINE conn == [active |-> TRUE, user |-> u, state |-> "none", socket |-> Nowhere]
  <2>1. t \in PolicySites /\ \E s \in FreeSlots(conns) :
          /\ conns' = [conns EXCEPT ![s] = conn]
          /\ lookups' = lookups \cup {[table |-> "conns", slot |-> s, target |-> t]}
    BY <1>8 DEF OpenStream, PolicyAllows
  <2>2. PICK s \in FreeSlots(conns) :
          /\ conns' = [conns EXCEPT ![s] = conn]
          /\ lookups' = lookups \cup {[table |-> "conns", slot |-> s, target |-> t]}
    BY <2>1
  <2> DEFINE new == [table |-> "conns", slot |-> s, target |-> t]
  <2>3. s \in 1..ExitSlots /\ ~conns[s].active
    BY DEF FreeSlots, ExitShape
  <2>4. conn \in ConnRecords /\ conn.active /\ conn.user = u /\ conn.state = "none"
    BY <1>1 DEF ConnRecords
  <2>5. new \in ExitLookups /\ new.table = "conns" /\ new.slot = s /\ new.target = t
    BY <2>1, <2>3 DEF ExitLookups
  <2>6. lookups' = lookups \cup {new} /\ conns' = [conns EXCEPT ![s] = conn]
    BY <2>2
  <2> HIDE DEF conn, new
  <2>7. ExitShape'
    BY <1>1, <1>2, <2>3, <2>4, <2>5, <2>6 DEF ExitShape
  <2>8. conns'[s] = conn /\ \A r \in 1..ExitSlots : r # s => conns'[r] = conns[r]
    BY <2>3, <2>6 DEF ExitShape
  <2>9. \A r \in 1..ExitSlots : SocketOK(r)'
    BY <1>2, <1>5, <2>4, <2>8 DEF SocketOK
  <2>10. asked'[u] = t
    BY <1>1 DEF ExitShape
  <2>11. ASSUME NEW l \in lookups', l.table = "conns" PROVE StreamLookupOK(l)'
    <3>1. CASE l = new
      BY <2>4, <2>5, <2>8, <2>10, <3>1 DEF StreamLookupOK
    <3>2. CASE l \in lookups
      <4>1. l.slot \in 1..ExitSlots /\ l.slot # s /\ StreamLookupOK(l)
        BY <2>3, <2>11, <3>2 DEF ExitShape, ExitLookups, StreamLookupOK
      <4> QED
        BY <1>2, <1>6, <2>8, <2>11, <3>2, <4>1 DEF StreamLookupOK, Users
    <3> QED
      BY <2>6, <2>11, <3>1, <3>2
  <2>12. ASSUME NEW l \in lookups', l.table = "socksState" PROVE SocksLookupOK(l)'
    <3>1. l \in lookups /\ l.slot \in 1..ExitSlots /\ SocksLookupOK(l)
      BY <2>5, <2>6, <2>12 DEF ExitShape, ExitLookups
    <3> QED
      BY <1>1, <1>3, <2>4, <2>8, <3>1 DEF SocksLookupOK
  <2> QED
    BY <1>4, <2>7, <2>9, <2>11, <2>12
<1> QED
  BY <1>7, <1>8

\* A slot of conns may take this record: no lookup is left that has the slot, and a socket
\* in it is that of its user, who waits for no lookup.
ConnFits(s) ==
    /\ \A l \in lookups' : l.table = "conns" => l.slot # s
    /\ conns'[s].state # "none" =>
        /\ conns'[s].user \in Users /\ conns'[s].socket \in PolicySites
        /\ asked[conns'[s].user] = conns'[s].socket
        /\ \A l \in lookups' : l.table = "socksState" => conns'[s].user # socksState[l.slot].user

\* Slots of the SOCKS5 port that no lookup has may be freed or turn to the proxy state.
SocksFit ==
    /\ socksState' \in [1..ExitSlots -> SocksRecords]
    /\ \A k \in 1..ExitSlots :
        \/ socksState'[k] = socksState[k]
        \/ /\ socksState'[k].user = socksState[k].user
           /\ socksState[k].state = "none" => socksState'[k].state = "none"
           /\ socksState'[k].active => socksState'[k].state = "proxy"
           /\ \A l \in lookups' : l.table = "socksState" => l.slot # k

\* Such changes, while nobody asks for anything and no lookup is added.
LEMMA SlotsKeep ==
    ASSUME ExitSlotsOK, conns' \in [1..ExitSlots -> ConnRecords],
           \A s \in 1..ExitSlots : conns'[s] = conns[s] \/ ConnFits(s),
           SocksFit, lookups' \subseteq lookups, asked' = asked
    PROVE  ExitSlotsOK'
<1> USE DEF ExitSlotsOK
<1>1. ExitShape'
  BY DEF ExitShape, SocksFit
<1>2. \A k \in 1..ExitSlots : socksState'[k].user = socksState[k].user
  BY DEF SocksFit
<1>3. ClientsDiffer'
  BY DEF ClientsDiffer, SocksFit
<1>4. \A k \in 1..ExitSlots : RequestOK(k)'
  BY DEF RequestOK, SocksFit
<1>5. \A s \in 1..ExitSlots : SocketOK(s)'
  BY DEF SocketOK, ConnFits
<1>6. ASSUME NEW l \in lookups', l.table = "conns" PROVE StreamLookupOK(l)'
  <2>1. l \in lookups /\ l.slot \in 1..ExitSlots /\ ~ConnFits(l.slot)
    BY <1>6 DEF ExitShape, ExitLookups, ConnFits
  <2> QED
    BY <1>6, <2>1 DEF StreamLookupOK
<1>7. ASSUME NEW l \in lookups', l.table = "socksState" PROVE SocksLookupOK(l)'
  <2>1. l \in lookups /\ l.slot \in 1..ExitSlots /\ SocksLookupOK(l)
    BY <1>7 DEF ExitShape, ExitLookups
  <2>2. socksState'[l.slot] = socksState[l.slot]
    BY <1>7, <2>1 DEF SocksFit
  <2>3. \A s \in 1..ExitSlots : conns'[s].state # "none" => conns'[s].user # socksState[l.slot].user
    BY <1>7, <2>1 DEF ConnFits, SocksLookupOK
  <2> QED
    BY <2>1, <2>2, <2>3 DEF SocksLookupOK
<1> QED
  BY <1>1, <1>3, <1>4, <1>5, <1>6, <1>7

\* Two lookups for the same slot of the same table are one.
LEMMA OneLookup ==
    ASSUME ExitSlotsOK, NEW l \in lookups, NEW m \in lookups, l.table = m.table, l.slot = m.slot
    PROVE  l = m
<1>1. l \in ExitLookups /\ m \in ExitLookups
  BY DEF ExitSlotsOK, ExitShape
<1>2. l.target = m.target
  <2>1. CASE l.table = "conns"
    BY <2>1 DEF ExitSlotsOK, StreamLookupOK
  <2>2. CASE l.table = "socksState"
    BY <2>2 DEF ExitSlotsOK, SocksLookupOK
  <2> QED
    BY <1>1, <2>1, <2>2 DEF ExitLookups
<1> QED
  BY <1>1, <1>2 DEF ExitLookups

\* stream_doh_cb: the slot is still that of the stream the name was looked up for.
LEMMA StreamResolvedKeeps ==
    ASSUME ExitSlotsOK, NEW l \in lookups, NEW ok \in BOOLEAN, StreamResolved(l, ok)
    PROVE  ExitSlotsOK'
<1>1. /\ l.table = "conns" /\ lookups' = lookups \ {l} /\ UNCHANGED <<socksState, asked>>
      /\ conns' = [conns EXCEPT ![l.slot] = IF ok THEN Connecting(conns[l.slot], l.target)
                                            ELSE [conns[l.slot] EXCEPT !.active = FALSE]]
  BY DEF StreamResolved
<1> DEFINE s == l.slot
           old == conns[s]
           c == IF ok THEN Connecting(old, l.target) ELSE [old EXCEPT !.active = FALSE]
<1>2. s \in 1..ExitSlots /\ l.target \in PolicySites /\ StreamLookupOK(l) /\ old \in ConnRecords
  BY <1>1 DEF ExitSlotsOK, ExitShape, ExitLookups
<1>3. old.user \in ExitStreams /\ asked[old.user] = l.target /\ old.state = "none"
  BY <1>2 DEF StreamLookupOK
<1>4. l.target \in Sites
  BY <1>2, ExitAssumption
<1> HIDE DEF old
<1>5. c \in ConnRecords /\ (c.state # "none" => c.user = old.user /\ c.socket = l.target)
  <2>1. CASE ok
    BY <1>2, <1>4, <2>1 DEF Connecting, ConnRecords
  <2>2. CASE ~ok
    BY <1>2, <1>3, <2>2 DEF ConnRecords
  <2> QED
    BY <2>1, <2>2
<1>6. conns' = [conns EXCEPT ![s] = c]
  BY <1>1 DEF old
<1>7. conns'[s] = c /\ \A r \in 1..ExitSlots : r # s => conns'[r] = conns[r]
  BY <1>2, <1>6 DEF ExitSlotsOK, ExitShape
<1>8. conns' \in [1..ExitSlots -> ConnRecords]
  <2> HIDE DEF c, s
  <2> QED
    BY <1>2, <1>5, <1>6 DEF ExitSlotsOK, ExitShape
<1>9. \A m \in lookups' : m.table = "conns" => m.slot # s
  BY <1>1, OneLookup
<1>10. \A m \in lookups' : m.table = "socksState" => old.user # socksState[m.slot].user
  BY <1>1, <1>3, ExitAssumption DEF ExitSlotsOK, SocksLookupOK
<1> HIDE DEF c, s
<1>11. ConnFits(s)
  BY <1>2, <1>3, <1>5, <1>7, <1>9, <1>10 DEF ConnFits, Users
<1>12. SocksFit
  BY <1>1 DEF SocksFit, ExitSlotsOK, ExitShape
<1> QED
  BY <1>1, <1>7, <1>8, <1>11, <1>12, SlotsKeep

\* socks5_doh_cb: the connection is made for the client whose name was looked up.
LEMMA SocksResolvedKeeps ==
    ASSUME ExitSlotsOK, NEW l \in lookups, NEW ok \in BOOLEAN, SocksResolved(l, ok)
    PROVE  ExitSlotsOK'
<1>1. l.table = "socksState" /\ lookups' = lookups \ {l} /\ asked' = asked
  BY DEF SocksResolved
<1>2. l.slot \in 1..ExitSlots /\ l.target \in PolicySites /\ SocksLookupOK(l)
  BY <1>1 DEF ExitSlotsOK, ExitShape, ExitLookups
<1>3. \A m \in lookups' : m.table = "socksState" => m.slot # l.slot
  BY <1>1, OneLookup
<1>4. CASE socksState' = socksState /\ \E s \in FreeSlots(conns) :
             conns' = [conns EXCEPT ![s] = Connecting([IdleConn EXCEPT !.active = TRUE,
                                                       !.user = socksState[l.slot].user], l.target)]
  <2> DEFINE u == socksState[l.slot].user
             c == Connecting([IdleConn EXCEPT !.active = TRUE, !.user = u], l.target)
  <2>1. PICK s \in FreeSlots(conns) : conns' = [conns EXCEPT ![s] = c]
    BY <1>4
  <2>2. s \in 1..ExitSlots /\ ~conns[s].active
    BY DEF FreeSlots, ExitSlotsOK, ExitShape
  <2>3. u \in SocksClients /\ u \in Users /\ asked[u] = l.target /\ l.target \in Sites
    BY <1>2, ExitAssumption DEF SocksLookupOK, Users
  <2> HIDE DEF u
  <2>4. IdleConn \in [active : {FALSE}, user : {Nobody}, state : {"none"}, socket : {Nowhere}]
    BY DEF IdleConn
  <2>12. c \in [active : {TRUE}, user : {u}, state : {"connecting"}, socket : {l.target}]
    BY <2>4 DEF Connecting
  <2>5. c \in ConnRecords /\ c.user = u /\ c.socket = l.target
    BY <2>3, <2>12 DEF ConnRecords, Users
  <2> HIDE DEF c
  <2>6. conns'[s] = c /\ \A r \in 1..ExitSlots : r # s => conns'[r] = conns[r]
    BY <2>1, <2>2 DEF ExitSlotsOK, ExitShape
  <2>7. conns' \in [1..ExitSlots -> ConnRecords]
    BY <2>1, <2>2, <2>5 DEF ExitSlotsOK, ExitShape
  <2>8. \A m \in lookups' : m.table = "conns" => m.slot # s
    BY <1>1, <2>2 DEF ExitSlotsOK, StreamLookupOK
  <2>9. ASSUME NEW m \in lookups', m.table = "socksState" PROVE u # socksState[m.slot].user
    <3>1. m \in lookups /\ m.slot \in 1..ExitSlots /\ m.slot # l.slot /\ SocksLookupOK(m)
      BY <1>1, <1>3, <2>9 DEF ExitSlotsOK, ExitShape, ExitLookups
    <3> QED
      BY <1>2, <3>1 DEF ExitSlotsOK, ClientsDiffer, SocksLookupOK, u
  <2>10. ConnFits(s)
    BY <1>2, <2>3, <2>5, <2>6, <2>8, <2>9 DEF ConnFits
  <2>11. SocksFit
    BY <1>4 DEF SocksFit, ExitSlotsOK, ExitShape
  <2> QED
    BY <1>1, <2>6, <2>7, <2>10, <2>11, SlotsKeep
<1>5. CASE conns' = conns /\ socksState' = [socksState EXCEPT ![l.slot].active = FALSE]
  <2> DEFINE c == [socksState[l.slot] EXCEPT !.active = FALSE]
  <2>1. socksState[l.slot] \in SocksRecords
    BY <1>2 DEF ExitSlotsOK, ExitShape
  <2>2. /\ c \in SocksRecords /\ c.user = socksState[l.slot].user /\ c.state = socksState[l.slot].state
        /\ ~c.active
    BY <2>1 DEF SocksRecords
  <2>3. socksState' = [socksState EXCEPT ![l.slot] = c]
    BY <1>5
  <2> HIDE DEF c
  <2>4. SocksFit
    BY <1>2, <1>3, <2>2, <2>3 DEF SocksFit, ExitSlotsOK, ExitShape
  <2>5. conns' \in [1..ExitSlots -> ConnRecords] /\ lookups' \subseteq lookups
    BY <1>1, <1>5 DEF ExitSlotsOK, ExitShape
  <2> QED
    BY <1>1, <1>5, <2>4, <2>5, SlotsKeep
<1> QED
  BY <1>4, <1>5 DEF SocksResolved

\* stream_on_connect and socks5_on_target_connect, and their failure.
LEMMA ConnectEndsKeeps ==
    ASSUME ExitSlotsOK, NEW s \in 1..ExitSlots, Connected(s) \/ ConnectFails(s)
    PROVE  ExitSlotsOK'
<1> DEFINE old == conns[s]
<1>1. /\ old.state = "connecting" /\ lookups' = lookups /\ asked' = asked
      /\ \/ conns' = [conns EXCEPT ![s].state = "open"]
         \/ conns' = [conns EXCEPT ![s] = FreeConn(s)]
      /\ \/ socksState' = [k \in DOMAIN socksState |-> IF k \in ClientOf(s)
                THEN [socksState[k] EXCEPT !.state = "proxy"] ELSE socksState[k]]
         \/ socksState' = [k \in DOMAIN socksState |-> IF k \in ClientOf(s)
                THEN [socksState[k] EXCEPT !.active = FALSE] ELSE socksState[k]]
  BY DEF Connected, ConnectFails
<1>2. old \in ConnRecords /\ SocketOK(s)
  BY DEF ExitSlotsOK, ExitShape
<1>3. PICK c : c \in {[old EXCEPT !.state = "open"], FreeConn(s)} /\ conns' = [conns EXCEPT ![s] = c]
  BY <1>1
<1>4. c \in ConnRecords /\ (c.state # "none" => c.user = old.user /\ c.socket = old.socket)
  BY <1>2, <1>3 DEF FreeConn, ConnRecords
<1>5. conns'[s] = c /\ \A r \in 1..ExitSlots : r # s => conns'[r] = conns[r]
  BY <1>3 DEF ExitSlotsOK, ExitShape
<1>6. conns' \in [1..ExitSlots -> ConnRecords]
  BY <1>3, <1>4 DEF ExitSlotsOK, ExitShape
<1>7. \A l \in lookups : (l.table = "conns" => l.slot # s)
                          /\ (l.table = "socksState" => old.user # socksState[l.slot].user)
  BY <1>1 DEF ExitSlotsOK, StreamLookupOK, SocksLookupOK
<1>8. ConnFits(s)
  BY <1>1, <1>2, <1>4, <1>5, <1>7 DEF ConnFits, SocketOK
<1>9. SocksFit
  <2>1. ASSUME NEW k \in ClientOf(s)
        PROVE  /\ k \in 1..ExitSlots /\ socksState[k] \in SocksRecords /\ socksState[k].state # "none"
               /\ \A l \in lookups : l.table = "socksState" => l.slot # k
    BY <1>7 DEF ClientOf, ExitSlotsOK, ExitShape, RequestOK
  <2>2. ASSUME NEW k \in ClientOf(s)
        PROVE  /\ socksState'[k] \in SocksRecords /\ socksState'[k].user = socksState[k].user
               /\ socksState'[k].active => socksState'[k].state = "proxy"
    <3>1. k \in DOMAIN socksState /\ socksState[k] \in SocksRecords
      BY <2>1 DEF ExitSlotsOK, ExitShape
    <3>2. PICK d : d \in {[socksState[k] EXCEPT !.state = "proxy"], [socksState[k] EXCEPT !.active = FALSE]}
                   /\ socksState'[k] = d
      BY <1>1, <3>1
    <3> QED
      BY <3>1, <3>2 DEF SocksRecords
  <2>3. \A k \in 1..ExitSlots : k \notin ClientOf(s) => socksState'[k] = socksState[k]
    BY <1>1 DEF ExitSlotsOK, ExitShape
  <2>4. socksState' \in [1..ExitSlots -> SocksRecords]
    <3>1. DOMAIN socksState' = 1..ExitSlots /\ socksState' = [k \in 1..ExitSlots |-> socksState'[k]]
      BY <1>1 DEF ExitSlotsOK, ExitShape
    <3>2. \A k \in 1..ExitSlots : socksState'[k] \in SocksRecords
      BY <2>1, <2>2, <2>3 DEF ExitSlotsOK, ExitShape
    <3> QED
      BY <3>1, <3>2
  <2> QED
    BY <1>1, <2>1, <2>2, <2>3, <2>4 DEF SocksFit
<1> QED
  BY <1>1, <1>5, <1>6, <1>8, <1>9, SlotsKeep

\* The end of a side of an open connection.
LEMMA SideEndsKeeps ==
    ASSUME ExitSlotsOK, NEW s \in 1..ExitSlots, SideEnds(s)
    PROVE  ExitSlotsOK'
<1> DEFINE c == FreeConn(s)
<1>1. /\ conns[s].state = "open" /\ conns' = [conns EXCEPT ![s] = c]
      /\ UNCHANGED <<socksState, lookups, asked>>
  BY DEF SideEnds
<1>2. c \in ConnRecords /\ c.state = "none"
  BY DEF FreeConn, ExitSlotsOK, ExitShape, ConnRecords
<1> HIDE DEF c
<1>3. conns'[s] = c /\ \A r \in 1..ExitSlots : r # s => conns'[r] = conns[r]
  BY <1>1 DEF ExitSlotsOK, ExitShape
<1>4. conns' \in [1..ExitSlots -> ConnRecords]
  BY <1>1, <1>2 DEF ExitSlotsOK, ExitShape
<1>5. ConnFits(s)
  BY <1>1, <1>2, <1>3 DEF ConnFits, ExitSlotsOK, StreamLookupOK
<1>6. SocksFit
  BY <1>1 DEF SocksFit, ExitSlotsOK, ExitShape
<1> QED
  BY <1>1, <1>3, <1>4, <1>5, <1>6, SlotsKeep

\* exit_handle_close, of a stream whose name is not being looked up.
LEMMA CloseStreamKeeps ==
    ASSUME ExitSlotsOK, NEW u \in ExitStreams, CloseStream(u), early' = {}
    PROVE  ExitSlotsOK'
<1>1. /\ conns' = [s \in DOMAIN conns |-> IF s \in ConnOf(u) THEN FreeConn(s) ELSE conns[s]]
      /\ UNCHANGED <<socksState, lookups, asked>>
      /\ \A s \in ConnOf(u) : conns[s].state # "none"
  BY DEF CloseStream
<1>2. \A s \in 1..ExitSlots : FreeConn(s) \in ConnRecords /\ FreeConn(s).state = "none"
  BY DEF FreeConn, ExitSlotsOK, ExitShape, ConnRecords
<1>3. conns' \in [1..ExitSlots -> ConnRecords]
  <2>1. conns' = [s \in 1..ExitSlots |-> conns'[s]]
    BY <1>1 DEF ExitSlotsOK, ExitShape
  <2>2. \A s \in 1..ExitSlots : conns'[s] \in ConnRecords
    BY <1>1, <1>2 DEF ExitSlotsOK, ExitShape
  <2> QED
    BY <2>1, <2>2
<1>4. ASSUME NEW s \in 1..ExitSlots PROVE conns'[s] = conns[s] \/ ConnFits(s)
  <2>1. CASE s \in ConnOf(u)
    <3>1. conns'[s].state = "none"
      BY <1>1, <1>2, <2>1 DEF ExitSlotsOK, ExitShape
    <3> QED
      BY <1>1, <2>1, <3>1 DEF ConnFits, ExitSlotsOK, StreamLookupOK
  <2>2. CASE s \notin ConnOf(u)
    BY <1>1, <2>2 DEF ExitSlotsOK, ExitShape
  <2> QED
    BY <2>1, <2>2
<1>5. SocksFit
  BY <1>1 DEF SocksFit, ExitSlotsOK, ExitShape
<1> QED
  BY <1>1, <1>3, <1>4, <1>5, SlotsKeep

\* socks5_on_accept: the slot was free, and the client is in no other.
LEMMA AcceptSocksKeeps ==
    ASSUME ExitSlotsOK, NEW u \in SocksClients, AcceptSocks(u)
    PROVE  ExitSlotsOK'
<1> USE DEF ExitSlotsOK
<1>1. PICK k \in FreeSlots(socksState) :
        socksState' = [socksState EXCEPT ![k] = [active |-> TRUE, user |-> u, state |-> "request"]]
  BY DEF AcceptSocks
<1> DEFINE c == [active |-> TRUE, user |-> u, state |-> "request"]
<1>2. /\ asked[u] = Nowhere /\ UNCHANGED <<conns, lookups, asked>>
      /\ \A j \in 1..ExitSlots : socksState[j].user # u
  BY DEF AcceptSocks, ExitShape
<1>3. k \in 1..ExitSlots /\ ~socksState[k].active
  BY DEF FreeSlots, ExitShape
<1>4. c \in SocksRecords /\ c.user = u /\ c.state = "request"
  BY DEF SocksRecords
<1>5. socksState' = [socksState EXCEPT ![k] = c]
  BY <1>1
<1> HIDE DEF c
<1>6. socksState'[k] = c /\ \A j \in 1..ExitSlots : j # k => socksState'[j] = socksState[j]
  BY <1>3, <1>5 DEF ExitShape
<1>7. ExitShape'
  BY <1>2, <1>3, <1>4, <1>5 DEF ExitShape
<1>8. ClientsDiffer'
  BY <1>2, <1>4, <1>6 DEF ClientsDiffer
<1>9. \A s \in 1..ExitSlots : SocketOK(s)' /\ RequestOK(s)'
  BY <1>2, <1>4, <1>6 DEF SocketOK, RequestOK
<1>10. ASSUME NEW l \in lookups'
       PROVE  (l.table = "conns" => StreamLookupOK(l)') /\ (l.table = "socksState" => SocksLookupOK(l)')
  <2>1. l \in lookups /\ l.slot \in 1..ExitSlots
    BY <1>2, <1>10 DEF ExitShape, ExitLookups
  <2>2. l.table = "socksState" => l.slot # k
    BY <1>3, <2>1 DEF SocksLookupOK
  <2> QED
    BY <1>2, <1>6, <2>1, <2>2 DEF StreamLookupOK, SocksLookupOK
<1> QED
  BY <1>7, <1>8, <1>9, <1>10

\* socks5_process in SOCKS5_REQUEST: what was looked up or connected before was for others.
LEMMA RequestKeeps ==
    ASSUME ExitSlotsOK, NEW k \in 1..ExitSlots, NEW t \in Sites, Request(k, t)
    PROVE  ExitSlotsOK'
<1> USE ExitAssumption DEF ExitSlotsOK
<1> DEFINE v == socksState[k].user
<1>1. socksState[k].active /\ socksState[k].state = "request" /\ asked' = [asked EXCEPT ![v] = t] /\ conns' = conns
  BY DEF Request
<1>2. v \in SocksClients /\ v \in Users /\ v \notin ExitStreams /\ asked[v] = Nowhere
  BY <1>1 DEF RequestOK, Users
<1>3. asked'[v] = t /\ \A w \in Users : w # v => asked'[w] = asked[w]
  BY <1>1, <1>2 DEF ExitShape
<1>4. asked' \in [Users -> Sites \cup {Nowhere}]
  BY <1>1, <1>2 DEF ExitShape
<1>5. PICK c : socksState' = [socksState EXCEPT ![k] = c]
               /\ c \in {[socksState[k] EXCEPT !.state = "lookup"], [socksState[k] EXCEPT !.active = FALSE]}
  BY DEF Request
<1>6. c \in SocksRecords /\ c.user = v /\ c.state # "none" /\ (c.active => c.state = "lookup")
  BY <1>1, <1>5 DEF ExitShape, SocksRecords
<1>7. socksState'[k] = c /\ \A j \in 1..ExitSlots : j # k => socksState'[j] = socksState[j]
  BY <1>5 DEF ExitShape
<1>8. \A j \in 1..ExitSlots : j # k /\ socksState[j].state # "none" => socksState[j].user # v
  BY <1>1 DEF ClientsDiffer
<1>9. socksState' \in [1..ExitSlots -> SocksRecords]
  BY <1>5, <1>6 DEF ExitShape
<1>10. \A s \in 1..ExitSlots : conns[s].state # "none" => conns[s].user # v
  BY <1>2 DEF SocketOK
<1> HIDE DEF v
<1>11. ClientsDiffer'
  BY <1>6, <1>7, <1>8 DEF ClientsDiffer
<1>12. \A s \in 1..ExitSlots : SocketOK(s)'
  BY <1>1, <1>3, <1>10 DEF SocketOK
<1>13. ASSUME NEW j \in 1..ExitSlots PROVE RequestOK(j)'
  <2>1. CASE j = k
    BY <1>6, <1>7, <2>1 DEF RequestOK
  <2>2. CASE j # k
    BY <1>3, <1>7, <1>8, <2>2 DEF RequestOK, Users
  <2> QED
    BY <2>1, <2>2
<1>14. ASSUME NEW l \in lookups
       PROVE  (l.table = "conns" => StreamLookupOK(l)') /\ (l.table = "socksState" => SocksLookupOK(l)')
  <2>1. l.slot \in 1..ExitSlots
    BY DEF ExitShape, ExitLookups
  <2>2. CASE l.table = "conns"
    <3>1. conns[l.slot].user \in Users /\ conns[l.slot].user # v
      BY <1>2, <2>2 DEF StreamLookupOK, Users
    <3> QED
      BY <1>1, <1>3, <2>2, <3>1 DEF StreamLookupOK
  <2>3. CASE l.table = "socksState"
    <3>1. SocksLookupOK(l) /\ l.slot # k
      BY <1>1, <2>3 DEF SocksLookupOK
    <3>2. socksState'[l.slot] = socksState[l.slot] /\ socksState[l.slot].user # v
      BY <1>7, <1>8, <2>1, <3>1 DEF SocksLookupOK
    <3>3. socksState[l.slot].user \in Users
      BY <3>1 DEF SocksLookupOK, Users
    <3> QED
      BY <1>1, <1>3, <2>3, <3>1, <3>2, <3>3 DEF SocksLookupOK
  <2> QED
    BY <2>2, <2>3
<1>15. CASE lookups' = lookups
  <2>1. ExitShape'
    BY <1>1, <1>4, <1>9, <1>15 DEF ExitShape
  <2> QED
    BY <1>11, <1>12, <1>13, <1>14, <1>15, <2>1
<1>16. CASE lookups' # lookups
  <2> DEFINE new == [table |-> "socksState", slot |-> k, target |-> t]
  <2>1. /\ t \in PolicySites /\ lookups' = lookups \cup {new}
        /\ socksState' = [socksState EXCEPT ![k].state = "lookup"]
    BY <1>16 DEF Request, PolicyAllows
  <2>2. new \in ExitLookups /\ new.table = "socksState" /\ new.slot = k /\ new.target = t
    BY <2>1 DEF ExitLookups
  <2> HIDE DEF new
  <2>3. ExitShape'
    BY <1>1, <1>4, <1>9, <2>1, <2>2 DEF ExitShape
  <2>4. socksState'[k].active /\ socksState'[k].state = "lookup" /\ socksState'[k].user = v
    BY <1>1, <2>1 DEF ExitShape, SocksRecords, v
  <2>5. SocksLookupOK(new)'
    BY <1>1, <1>2, <1>3, <1>10, <2>2, <2>4 DEF SocksLookupOK
  <2>6. \A l \in lookups' : (l.table = "conns" => StreamLookupOK(l)') /\ (l.table = "socksState" => SocksLookupOK(l)')
    <3>1. ASSUME NEW l \in lookups'
          PROVE  (l.table = "conns" => StreamLookupOK(l)') /\ (l.table = "socksState" => SocksLookupOK(l)')
      <4>1. CASE l = new
        BY <2>2, <2>5, <4>1
      <4>2. CASE l \in lookups
        BY <1>14, <4>2
      <4> QED
        BY <2>1, <4>1, <4>2
    <3> QED
      BY <3>1
  <2> QED
    BY <1>11, <1>12, <1>13, <2>3, <2>6
<1> QED
  BY <1>15, <1>16

\* Every step keeps the slots and what is looked up for them.
LEMMA ExitStepKeeps ==
    ASSUME ExitInv, [ExitNext]_exitVars
    PROVE  ExitInv'
<1> SUFFICES ASSUME early' = {} PROVE ExitSlotsOK'
  BY DEF ExitInv
<1>1. CASE UNCHANGED <<conns, socksState, lookups, asked, early>>
  BY <1>1 DEF ExitInv, ExitSlotsOK, ExitShape, ClientsDiffer, SocketOK, RequestOK, StreamLookupOK, SocksLookupOK
<1>2. CASE ExitNext
  <2>1. early = {}
    BY <1>2 DEF ExitNext, OpenStream, CloseStream, StreamData, StreamResolved, SocksResolved, Connected,
                ConnectFails, SideEnds, AcceptSocks, ClientGone, Request, NextSecond
  <2>2. ExitSlotsOK
    BY <2>1 DEF ExitInv
  <2>3. DOMAIN conns = 1..ExitSlots /\ DOMAIN socksState = 1..ExitSlots
    BY <2>2 DEF ExitSlotsOK, ExitShape
  <2>4. CASE \E u \in ExitStreams, t \in Sites : OpenStream(u, t)
    BY <2>2, <2>4, OpenStreamKeeps
  <2>5. CASE \E u \in ExitStreams : CloseStream(u) \/ StreamData(u)
    BY <1>1, <2>2, <2>5, CloseStreamKeeps DEF StreamData
  <2>6. CASE \E l \in lookups, ok \in BOOLEAN : StreamResolved(l, ok) \/ SocksResolved(l, ok)
    BY <2>2, <2>6, StreamResolvedKeeps, SocksResolvedKeeps
  <2>7. CASE \E s \in DOMAIN conns : Connected(s) \/ ConnectFails(s) \/ SideEnds(s)
    BY <2>2, <2>3, <2>7, ConnectEndsKeeps, SideEndsKeeps
  <2>8. CASE \E u \in SocksClients : AcceptSocks(u)
    BY <2>2, <2>8, AcceptSocksKeeps
  <2>9. CASE \E k \in DOMAIN socksState : ClientGone(k) \/ \E t \in Sites : Request(k, t)
    BY <2>2, <2>3, <2>9, RequestKeeps DEF ClientGone
  <2>10. CASE NextSecond
    BY <1>1, <2>10 DEF NextSecond
  <2> QED
    BY <1>2, <2>4, <2>5, <2>6, <2>7, <2>8, <2>9, <2>10 DEF ExitNext
<1> QED
  BY <1>1, <1>2 DEF exitVars

\* The tables of the relay have their shape whoever left early, and its rate window its limit.
RelayFits == ExitShape /\ spentTokens \in 0..ExitRate

\* A connection or a client's slot that a step changes keeps its shape.
LEMMA RelayRecords ==
    /\ IdleConn \in ConnRecords /\ IdleSocks \in SocksRecords
    /\ \A c \in ConnRecords : [c EXCEPT !.active = FALSE] \in ConnRecords
    /\ \A c \in ConnRecords : [c EXCEPT !.state = "open"] \in ConnRecords
    /\ \A c \in ConnRecords : [c EXCEPT !.active = FALSE, !.state = "none", !.socket = Nowhere] \in ConnRecords
    /\ \A c \in ConnRecords : \A t \in PolicySites : Connecting(c, t) \in ConnRecords
    /\ \A c \in SocksRecords : [c EXCEPT !.active = FALSE] \in SocksRecords
    /\ \A c \in SocksRecords : [c EXCEPT !.state = "proxy"] \in SocksRecords
    /\ \A c \in SocksRecords : [c EXCEPT !.state = "lookup"] \in SocksRecords
<1>1. IdleConn \in ConnRecords /\ IdleSocks \in SocksRecords
  BY DEF IdleConn, IdleSocks, ConnRecords, SocksRecords
<1>2. \A c \in ConnRecords : /\ [c EXCEPT !.active = FALSE] \in ConnRecords
                             /\ [c EXCEPT !.state = "open"] \in ConnRecords
  BY DEF ConnRecords
<1>3. \A c \in ConnRecords :
          [c EXCEPT !.active = FALSE, !.state = "none", !.socket = Nowhere] \in ConnRecords
  BY DEF ConnRecords
<1>4. ASSUME NEW c \in ConnRecords, NEW t \in PolicySites PROVE Connecting(c, t) \in ConnRecords
  <2>1. t \in Sites
    BY ExitAssumption
  <2> QED
    BY <2>1 DEF ConnRecords, Connecting
<1>5. \A c \in SocksRecords : /\ [c EXCEPT !.active = FALSE] \in SocksRecords
                              /\ [c EXCEPT !.state = "proxy"] \in SocksRecords
                              /\ [c EXCEPT !.state = "lookup"] \in SocksRecords
  BY DEF SocksRecords
<1> QED
  BY <1>1, <1>2, <1>3, <1>4, <1>5

\* The limiter counts up to its limit.
LEMMA CountFits ==
    ASSUME spentTokens \in 0..ExitRate, Count \/ spentTokens' = spentTokens \/ spentTokens' = 0
    PROVE  spentTokens' \in 0..ExitRate
<1>1. ExitRate \in Nat
  BY ExitAssumption
<1> QED
  BY <1>1 DEF Count, WithinRate

\* Commands of streams and their answers keep the shape.
LEMMA StreamShape ==
    ASSUME ExitShape, NEW u \in ExitStreams,
           (\E t \in Sites : OpenStream(u, t)) \/ CloseStream(u) \/ StreamData(u)
    PROVE  ExitShape'
<1>0. /\ conns \in [1..ExitSlots -> ConnRecords] /\ socksState \in [1..ExitSlots -> SocksRecords]
      /\ lookups \subseteq ExitLookups /\ asked \in [Users -> Sites \cup {Nowhere}]
      /\ DOMAIN conns = 1..ExitSlots /\ u \in Users
  BY DEF ExitShape, Users
<1>1. ASSUME NEW t \in Sites, OpenStream(u, t) PROVE ExitShape'
  <2>1. asked' \in [Users -> Sites \cup {Nowhere}] /\ socksState' = socksState
    BY <1>0, <1>1 DEF OpenStream
  <2>2. ASSUME NEW s \in FreeSlots(conns), t \in PolicySites,
               conns' = [conns EXCEPT ![s] = [active |-> TRUE, user |-> u, state |-> "none", socket |-> Nowhere]],
               lookups' = lookups \cup {[table |-> "conns", slot |-> s, target |-> t]}
        PROVE  ExitShape'
    <3>1. [active |-> TRUE, user |-> u, state |-> "none", socket |-> Nowhere] \in ConnRecords
      BY <1>0 DEF ConnRecords
    <3>2. s \in 1..ExitSlots
      BY <1>0 DEF FreeSlots
    <3>3. [table |-> "conns", slot |-> s, target |-> t] \in ExitLookups
      BY <2>2, <3>2 DEF ExitLookups
    <3>4. conns' \in [1..ExitSlots -> ConnRecords] /\ lookups' \subseteq ExitLookups
      BY <1>0, <2>2, <3>1, <3>3
    <3> QED
      BY <1>0, <2>1, <3>4 DEF ExitShape
  <2> QED
    BY <1>0, <1>1, <2>1, <2>2 DEF OpenStream, ExitShape, PolicyAllows
<1>2. CASE CloseStream(u)
  <2>1. conns' = [s \in DOMAIN conns |-> IF s \in ConnOf(u) THEN FreeConn(s) ELSE conns[s]]
        /\ UNCHANGED <<socksState, lookups, asked>>
    BY <1>2 DEF CloseStream
  <2>2. \A s \in 1..ExitSlots : FreeConn(s) \in ConnRecords
    BY <1>0, RelayRecords DEF FreeConn
  <2> QED
    BY <1>0, <2>1, <2>2 DEF ExitShape
<1>3. CASE StreamData(u)
  BY <1>0, <1>3 DEF StreamData, ExitShape
<1> QED
  BY <1>1, <1>2, <1>3

\* So do answers to lookups.
LEMMA ResolvedShape ==
    ASSUME ExitShape, NEW l \in lookups, NEW ok \in BOOLEAN, StreamResolved(l, ok) \/ SocksResolved(l, ok)
    PROVE  ExitShape'
<1>0. /\ conns \in [1..ExitSlots -> ConnRecords] /\ socksState \in [1..ExitSlots -> SocksRecords]
      /\ lookups \subseteq ExitLookups /\ asked \in [Users -> Sites \cup {Nowhere}]
      /\ DOMAIN conns = 1..ExitSlots /\ l.slot \in 1..ExitSlots /\ l.target \in PolicySites
  BY DEF ExitShape, ExitLookups
<1>1. CASE StreamResolved(l, ok)
  <2>1. \E c \in ConnRecords : conns' = [conns EXCEPT ![l.slot] = c]
    <3>1. /\ Connecting(conns[l.slot], l.target) \in ConnRecords
          /\ [conns[l.slot] EXCEPT !.active = FALSE] \in ConnRecords
      BY <1>0, RelayRecords
    <3> QED
      BY <1>1, <3>1 DEF StreamResolved
  <2>2. lookups' \subseteq lookups /\ UNCHANGED <<socksState, asked>>
    BY <1>1 DEF StreamResolved
  <2> QED
    BY <1>0, <2>1, <2>2 DEF ExitShape
<1>2. CASE SocksResolved(l, ok)
  <2>1. lookups' \subseteq lookups /\ UNCHANGED asked
    BY <1>2 DEF SocksResolved
  <2>2. ASSUME NEW s \in FreeSlots(conns),
               conns' = [conns EXCEPT ![s] = Connecting([IdleConn EXCEPT !.active = TRUE,
                                                         !.user = socksState[l.slot].user], l.target)]
        PROVE  conns' \in [1..ExitSlots -> ConnRecords]
    <3>1. socksState[l.slot].user \in Users \cup {Nobody}
      BY <1>0 DEF SocksRecords, Users
    <3>2. ASSUME NEW w \in Users \cup {Nobody}, NEW c \in ConnRecords
          PROVE  [c EXCEPT !.active = TRUE, !.user = w] \in ConnRecords
      BY DEF ConnRecords
    <3>3. [IdleConn EXCEPT !.active = TRUE, !.user = socksState[l.slot].user] \in ConnRecords
      BY <3>1, <3>2, RelayRecords
    <3>4. Connecting([IdleConn EXCEPT !.active = TRUE, !.user = socksState[l.slot].user], l.target) \in ConnRecords
      <4> DEFINE c == [IdleConn EXCEPT !.active = TRUE, !.user = socksState[l.slot].user]
      <4>1. c \in ConnRecords
        BY <3>3
      <4> HIDE DEF c
      <4>2. Connecting(c, l.target) \in ConnRecords
        BY <1>0, <4>1, RelayRecords
      <4> QED
        BY <4>2 DEF c
    <3> QED
      BY <1>0, <2>2, <3>4
  <2>3. conns' \in [1..ExitSlots -> ConnRecords]
    BY <1>0, <1>2, <2>2 DEF SocksResolved
  <2>4. socksState' \in [1..ExitSlots -> SocksRecords]
    <3>1. [socksState[l.slot] EXCEPT !.active = FALSE] \in SocksRecords
      BY <1>0, RelayRecords
    <3> QED
      BY <1>0, <1>2, <3>1 DEF SocksResolved
  <2> QED
    BY <1>0, <2>1, <2>3, <2>4 DEF ExitShape
<1> QED
  BY <1>1, <1>2

\* And sockets that open, fail and end.
LEMMA SocketShape ==
    ASSUME ExitShape, NEW s \in DOMAIN conns, Connected(s) \/ ConnectFails(s) \/ SideEnds(s)
    PROVE  ExitShape'
<1>0. /\ conns \in [1..ExitSlots -> ConnRecords] /\ socksState \in [1..ExitSlots -> SocksRecords]
      /\ lookups \subseteq ExitLookups /\ asked \in [Users -> Sites \cup {Nowhere}]
      /\ DOMAIN conns = 1..ExitSlots /\ DOMAIN socksState = 1..ExitSlots
  BY DEF ExitShape
<1>1. /\ FreeConn(s) \in ConnRecords /\ [conns[s] EXCEPT !.state = "open"] \in ConnRecords
      /\ \A k \in 1..ExitSlots : /\ [socksState[k] EXCEPT !.state = "proxy"] \in SocksRecords
                                 /\ [socksState[k] EXCEPT !.active = FALSE] \in SocksRecords
  BY <1>0, RelayRecords DEF FreeConn
<1>2. CASE Connected(s)
  <2>1. conns' \in [1..ExitSlots -> ConnRecords] /\ socksState' \in [1..ExitSlots -> SocksRecords]
    BY <1>0, <1>1, <1>2 DEF Connected
  <2> QED
    BY <1>0, <1>2, <2>1 DEF Connected, ExitShape
<1>3. CASE ConnectFails(s)
  <2>1. conns' \in [1..ExitSlots -> ConnRecords] /\ socksState' \in [1..ExitSlots -> SocksRecords]
    BY <1>0, <1>1, <1>3 DEF ConnectFails
  <2> QED
    BY <1>0, <1>3, <2>1 DEF ConnectFails, ExitShape
<1>4. CASE SideEnds(s)
  <2>1. conns' \in [1..ExitSlots -> ConnRecords]
    BY <1>0, <1>1, <1>4 DEF SideEnds
  <2> QED
    BY <1>0, <1>4, <2>1 DEF SideEnds, ExitShape
<1> QED
  BY <1>2, <1>3, <1>4

\* And the clients of the SOCKS5 port.
LEMMA SocksShape ==
    ASSUME ExitShape,
           \/ \E u \in SocksClients : AcceptSocks(u)
           \/ \E k \in DOMAIN socksState : ClientGone(k) \/ \E t \in Sites : Request(k, t)
    PROVE  ExitShape'
<1>0. /\ conns \in [1..ExitSlots -> ConnRecords] /\ socksState \in [1..ExitSlots -> SocksRecords]
      /\ lookups \subseteq ExitLookups /\ asked \in [Users -> Sites \cup {Nowhere}]
      /\ DOMAIN socksState = 1..ExitSlots
  BY DEF ExitShape
<1>1. ASSUME NEW u \in SocksClients, AcceptSocks(u) PROVE ExitShape'
  <2>1. [active |-> TRUE, user |-> u, state |-> "request"] \in SocksRecords
    BY DEF SocksRecords
  <2>2. socksState' \in [1..ExitSlots -> SocksRecords]
    BY <1>0, <1>1, <2>1 DEF AcceptSocks
  <2> QED
    BY <1>0, <1>1, <2>2 DEF AcceptSocks, ExitShape
<1>2. ASSUME NEW k \in 1..ExitSlots
      PROVE  /\ [socksState[k] EXCEPT !.active = FALSE] \in SocksRecords
             /\ [socksState[k] EXCEPT !.state = "lookup"] \in SocksRecords
  BY <1>0, RelayRecords
<1>3. ASSUME NEW k \in 1..ExitSlots, ClientGone(k) PROVE ExitShape'
  <2>1. socksState' = [socksState EXCEPT ![k] = [socksState[k] EXCEPT !.active = FALSE]]
    BY <1>3 DEF ClientGone
  <2>2. socksState' \in [1..ExitSlots -> SocksRecords]
    BY <1>0, <1>2, <2>1
  <2> QED
    BY <1>0, <1>3, <2>2 DEF ClientGone, ExitShape
<1>4. ASSUME NEW k \in 1..ExitSlots, NEW t \in Sites, Request(k, t) PROVE ExitShape'
  <2>1. asked' \in [Users -> Sites \cup {Nowhere}] /\ conns' = conns
    BY <1>0, <1>4 DEF Request
  <2>2. socksState' \in [1..ExitSlots -> SocksRecords]
    <3>1. \/ socksState' = [socksState EXCEPT ![k] = [socksState[k] EXCEPT !.state = "lookup"]]
          \/ socksState' = [socksState EXCEPT ![k] = [socksState[k] EXCEPT !.active = FALSE]]
      BY <1>4 DEF Request
    <3> QED
      BY <1>0, <1>2, <3>1
  <2>3. lookups' \subseteq ExitLookups
    <3>1. t \in PolicySites => [table |-> "socksState", slot |-> k, target |-> t] \in ExitLookups
      BY <1>4 DEF ExitLookups
    <3> QED
      BY <1>0, <1>4, <3>1 DEF Request, PolicyAllows
  <2> QED
    BY <1>0, <2>1, <2>2, <2>3 DEF ExitShape
<1> QED
  BY <1>0, <1>1, <1>3, <1>4

\* The relay keeps its shape.
LEMMA RelayFitsKept ==
    /\ ExitInit => RelayFits
    /\ RelayFits /\ [ExitNext]_exitVars => RelayFits'
<1>1. ASSUME ExitInit PROVE RelayFits
  <2>1. ExitShape
    BY <1>1, RelayRecords DEF ExitInit, ExitShape
  <2>2. spentTokens \in 0..ExitRate
    BY <1>1, ExitAssumption DEF ExitInit
  <2> QED
    BY <2>1, <2>2 DEF RelayFits
<1> SUFFICES ASSUME RelayFits, [ExitNext]_exitVars PROVE RelayFits'
  BY <1>1
<1>2. ExitShape /\ spentTokens \in 0..ExitRate
  BY DEF RelayFits
<1>3. ExitShape'
  <2>1. CASE NextSecond
    BY <1>2, <2>1 DEF NextSecond, ExitShape
  <2>2. CASE UNCHANGED exitVars
    BY <1>2, <2>2 DEF exitVars, ExitShape
  <2> QED
    BY <1>2, <2>1, <2>2, StreamShape, ResolvedShape, SocketShape, SocksShape DEF ExitNext
<1>4. Count \/ spentTokens' = spentTokens \/ spentTokens' = 0
  BY DEF ExitNext, exitVars, OpenStream, CloseStream, StreamData, StreamResolved, SocksResolved, Connected,
         ConnectFails, SideEnds, AcceptSocks, ClientGone, Request, NextSecond
<1> QED
  BY <1>2, <1>3, <1>4, CountFits DEF RelayFits

\* The connections of the relay are connections, and its commands within the limit of a second.
LEMMA ExitTyped == RelayFits => ExitTypeOK
BY DEF RelayFits, ExitShape, ExitTypeOK, ConnRecords

----------------------------------------------------------------------------
(* Turn. *)

\* An allocation is a record of these fields.
IsAllocation(a) ==
    \E c, p, x, y, e :
        a \in [client : {c}, port : {p}, perms : {x}, channels : {y}, expires : {e}]

\* No two channels of an allocation have the same number or the same peer, expired or not.
ChannelsDiffer(channels) ==
    \A i, j \in DOMAIN channels :
        channels[i].number = channels[j].number \/ channels[i].addr = channels[j].addr => i = j

TurnInv ==
    \A s \in DOMAIN allocs : IsAllocation(allocs[s]) /\ ChannelsDiffer(allocs[s].channels)

\* The promise follows: channels that have not expired are among them.
LEMMA TurnInvSuffices ==
    ASSUME TurnInv
    PROVE  ChannelsAgree
<1> SUFFICES ASSUME NEW s \in DOMAIN allocs, NEW p \in PeerAddrs,
                    NEW i \in FindChannels(allocs[s], p), NEW j \in FindChannels(allocs[s], p)
             PROVE  i = j /\ FindPeers(allocs[s], allocs[s].channels[i].number) = {i}
  BY DEF ChannelsAgree
<1>1. ChannelsDiffer(allocs[s].channels)
  BY DEF TurnInv
<1>2. i = j
  BY <1>1 DEF FindChannels, ChannelsDiffer
<1>3. i \in FindPeers(allocs[s], allocs[s].channels[i].number)
  BY DEF FindChannels, FindPeers
<1>4. \A k \in FindPeers(allocs[s], allocs[s].channels[i].number) : k = i
  BY <1>1 DEF FindChannels, FindPeers, ChannelsDiffer
<1> QED
  BY <1>2, <1>3, <1>4

\* What handle_create_permission writes is no matter of the channels.
LEMMA PermitKeeps ==
    ASSUME NEW a, IsAllocation(a), NEW dest, NEW lifetime, NEW b \in Permit(a, dest, lifetime)
    PROVE  IsAllocation(b) /\ b.channels = a.channels
<1>1. PICK c, p, x, y, e :
        a \in [client : {c}, port : {p}, perms : {x}, channels : {y}, expires : {e}]
  BY DEF IsAllocation
<1>2. PICK v : b = [a EXCEPT !.perms = v]
  BY DEF Permit
<1>3. b \in [client : {c}, port : {p}, perms : {v}, channels : {y}, expires : {e}]
  BY <1>1, <1>2
<1> QED
  BY <1>1, <1>3 DEF IsAllocation

\* A channel that handle_channel_bind writes differs from the others: neither its number
\* nor its peer is that of another slot.
LEMMA BoundDiffers ==
    ASSUME NEW a, ChannelsDiffer(a.channels), NEW n, NEW dest, ~Conflicts(a, n, dest),
           NEW i \in ChannelSlots(a, n), NEW c, c.number = n, c.addr = dest
    PROVE  ChannelsDiffer(With(a.channels, i, c))
<1> DEFINE ch == a.channels
           new == With(ch, i, c)
<1>1. DOMAIN new = DOMAIN ch \cup {i} /\ new[i] = c /\ \A k \in DOMAIN ch \ {i} : new[k] = ch[k]
  BY DEF With
<1>2. \A k \in DOMAIN ch \ {i} : ch[k].number # n /\ ch[k].addr # dest
  <2>1. \A k \in DOMAIN ch : ch[k].number = n <=> ch[k].addr = dest
    BY DEF Conflicts
  <2>2. CASE {k \in DOMAIN ch : ch[k].number = n} = {}
    BY <2>1, <2>2
  <2>3. CASE {k \in DOMAIN ch : ch[k].number = n} # {}
    <3>1. i \in DOMAIN ch /\ ch[i].number = n
      BY <2>3 DEF ChannelSlots
    <3> QED
      BY <2>1, <3>1 DEF ChannelsDiffer
  <2> QED
    BY <2>2, <2>3
<1>3. ChannelsDiffer(ch)
  OBVIOUS
<1> HIDE DEF new, ch
<1>4. ASSUME NEW j \in DOMAIN new, NEW k \in DOMAIN new,
             new[j].number = new[k].number \/ new[j].addr = new[k].addr
      PROVE  j = k
  <2>1. CASE j = i
    BY <1>1, <1>2, <1>4, <2>1
  <2>2. CASE k = i
    BY <1>1, <1>2, <1>4, <2>2
  <2>3. CASE j # i /\ k # i
    BY <1>1, <1>3, <1>4, <2>3 DEF ChannelsDiffer
  <2> QED
    BY <2>1, <2>2, <2>3
<1>5. ChannelsDiffer(new)
  BY <1>4 DEF ChannelsDiffer
<1> QED
  BY <1>5 DEF new, ch

\* Every step of the server keeps the channels of each allocation apart.
LEMMA TurnStepKeeps ==
    ASSUME TurnInv, [TurnNext]_turnVars
    PROVE  TurnInv'
<1> DEFINE Good(a) == IsAllocation(a) /\ ChannelsDiffer(a.channels)
<1>1. \A s \in DOMAIN allocs : Good(allocs[s])
  BY DEF TurnInv
<1>2. CASE UNCHANGED allocs
  BY <1>2 DEF TurnInv
<1>3. ASSUME NEW s, NEW a, Good(a),
             \/ allocs' = [allocs EXCEPT ![s] = a]
             \/ allocs' = With(allocs, s, a)
      PROVE  TurnInv'
  <2>1. \A k \in DOMAIN allocs' : (k \in DOMAIN allocs /\ allocs'[k] = allocs[k]) \/ allocs'[k] = a
    BY <1>3 DEF With
  <2> QED
    BY <1>1, <1>3, <2>1 DEF TurnInv
<1>4. ASSUME NEW c, NEW l, Allocate(c, l) PROVE TurnInv'
  <2>1. PICK s, p : allocs' = With(allocs, s, [client |-> c, port |-> p, perms |-> <<>>, channels |-> <<>>,
                                      expires |-> epoch + Least(l, DefaultLifetime)])
    BY <1>4 DEF Allocate
  <2> DEFINE e == epoch + Least(l, DefaultLifetime)
             a == [client |-> c, port |-> p, perms |-> <<>>, channels |-> <<>>, expires |-> e]
  <2>2. a \in [client : {c}, port : {p}, perms : {<<>>}, channels : {<<>>}, expires : {e}]
    OBVIOUS
  <2>3. a.channels = <<>>
    OBVIOUS
  <2>4. ChannelsDiffer(<<>>)
    BY DEF ChannelsDiffer
  <2>5. allocs' = With(allocs, s, a)
    BY <2>1
  <2> HIDE DEF a, e
  <2>6. IsAllocation(a)
    BY <2>2 DEF IsAllocation
  <2> QED
    BY <1>3, <2>3, <2>4, <2>5, <2>6
<1>5. ASSUME NEW c, NEW l, Refresh(c, l) PROVE TurnInv'
  <2>1. PICK s \in AllocOf(c) :
          allocs' = Without(allocs, {s}) \/ allocs' = [allocs EXCEPT ![s].expires = epoch + l]
    BY <1>5 DEF Refresh
  <2>2. CASE allocs' = Without(allocs, {s})
    BY <1>1, <2>2 DEF Without, TurnInv
  <2>3. CASE allocs' = [allocs EXCEPT ![s].expires = epoch + l]
    <3> DEFINE a == [allocs[s] EXCEPT !.expires = epoch + l]
    <3>1. allocs' = [allocs EXCEPT ![s] = a]
      BY <2>3
    <3>2. Good(allocs[s])
      BY <1>1 DEF AllocOf
    <3>3. PICK k, p, x, y, e :
            allocs[s] \in [client : {k}, port : {p}, perms : {x}, channels : {y}, expires : {e}]
      BY <3>2 DEF IsAllocation
    <3>4. a \in [client : {k}, port : {p}, perms : {x}, channels : {y}, expires : {epoch + l}]
      BY <3>3
    <3>5. Good(a)
      BY <3>2, <3>3, <3>4 DEF IsAllocation
    <3> QED
      BY <1>3, <3>1, <3>5
  <2> QED
    BY <2>1, <2>2, <2>3
<1>6. ASSUME NEW c, NEW p, CreatePermission(c, p) PROVE TurnInv'
  <2>1. PICK s \in AllocOf(c) : \E a \in Permit(allocs[s], p, PermissionLifetime) :
          allocs' = [allocs EXCEPT ![s] = a]
    BY <1>6 DEF CreatePermission
  <2>2. PICK a \in Permit(allocs[s], p, PermissionLifetime) : allocs' = [allocs EXCEPT ![s] = a]
    BY <2>1
  <2>3. Good(allocs[s])
    BY <1>1 DEF AllocOf
  <2>4. Good(a)
    BY <2>2, <2>3, PermitKeeps
  <2> QED
    BY <1>3, <2>2, <2>4
<1>7. ASSUME NEW c, NEW n, NEW p, ChannelBind(c, n, p) PROVE TurnInv'
  <2> DEFINE e == epoch + ChannelLifetime
             new == [number |-> n, addr |-> p, expires |-> e]
  <2>1. PICK s, i, a :
          /\ s \in AllocOf(c) /\ ~Conflicts(allocs[s], n, p) /\ i \in ChannelSlots(allocs[s], n)
          /\ a \in Permit(allocs[s], p, ChannelLifetime)
          /\ allocs' = [allocs EXCEPT ![s] = [a EXCEPT !.channels = With(@, i, new)]]
    BY <1>7 DEF ChannelBind
  <2> DEFINE b == [a EXCEPT !.channels = With(a.channels, i, new)]
  <2>2. allocs' = [allocs EXCEPT ![s] = b]
    BY <2>1
  <2>3. Good(allocs[s])
    BY <1>1, <2>1 DEF AllocOf
  <2>4. IsAllocation(a) /\ a.channels = allocs[s].channels
    BY <2>1, <2>3, PermitKeeps
  <2>5. new.number = n /\ new.addr = p
    OBVIOUS
  <2> HIDE DEF new, e
  <2>6. ChannelsDiffer(With(allocs[s].channels, i, new))
    BY <2>1, <2>3, <2>5, BoundDiffers
  <2>7. PICK k, q, x, y, f :
          a \in [client : {k}, port : {q}, perms : {x}, channels : {y}, expires : {f}]
    BY <2>4 DEF IsAllocation
  <2>8. b \in [client : {k}, port : {q}, perms : {x}, channels : {With(a.channels, i, new)}, expires : {f}]
    BY <2>7
  <2> HIDE DEF b
  <2>9. Good(b)
    BY <2>4, <2>6, <2>8 DEF IsAllocation
  <2> QED
    BY <1>3, <2>2, <2>9
<1>8. CASE Sweep
  <2> DEFINE expired == {s \in DOMAIN allocs : allocs[s].expires <= epoch}
  <2>1. allocs' = [s \in DOMAIN allocs \ expired |->
                    [allocs[s] EXCEPT !.perms = Fresh(@), !.channels = Fresh(@)]]
    BY <1>8 DEF Sweep
  <2> SUFFICES ASSUME NEW s \in DOMAIN allocs' PROVE Good(allocs'[s])
    BY DEF TurnInv
  <2> DEFINE a == allocs[s]
             b == [a EXCEPT !.perms = Fresh(a.perms), !.channels = Fresh(a.channels)]
  <2>2. s \in DOMAIN allocs /\ allocs'[s] = b
    BY <2>1
  <2>3. Good(a)
    BY <1>1, <2>2
  <2>4. PICK k, q, x, y, f :
          a \in [client : {k}, port : {q}, perms : {x}, channels : {y}, expires : {f}]
    BY <2>3 DEF IsAllocation
  <2>5. b \in [client : {k}, port : {q}, perms : {Fresh(a.perms)}, channels : {Fresh(a.channels)}, expires : {f}]
    BY <2>4
  <2>6. ChannelsDiffer(Fresh(a.channels))
    BY <2>3 DEF ChannelsDiffer, Fresh, Without
  <2> HIDE DEF b, a
  <2>7. Good(b)
    BY <2>5, <2>6 DEF IsAllocation
  <2> QED
    BY <2>2, <2>7
<1>9. CASE TurnNext
  <2>1. ASSUME NEW c \in TurnClients, Challenge(c) PROVE TurnInv'
    BY <1>2, <2>1 DEF Challenge
  <2>2. CASE NextEpoch
    BY <1>2, <2>2 DEF NextEpoch
  <2> QED
    BY <1>4, <1>5, <1>6, <1>7, <1>8, <1>9, <2>1, <2>2 DEF TurnNext
<1> QED
  BY <1>2, <1>9 DEF turnVars

\* The slots of an allocation: its permissions and channels have their tables' sizes.
PermsFit(perms) == DOMAIN perms \subseteq 1..Permissions /\ \A i \in DOMAIN perms : perms[i].expires \in Nat
AllocationFits(a) ==
    a.client \in TurnClients /\ PermsFit(a.perms) /\ DOMAIN a.channels \subseteq 1..Channels
ServerFits ==
    /\ DOMAIN allocs \subseteq 1..Allocations /\ count = Cardinality(DOMAIN allocs)
    /\ \A s \in DOMAIN allocs : AllocationFits(allocs[s])
    /\ nextPort \in 1..RelayPorts /\ epoch \in Nat

\* A permission gets a slot of the table: the one of its address, a free one, or that of the
\* permission that expires first.
LEMMA PermSlotExists ==
    ASSUME NEW a, PermsFit(a.perms), NEW ip, NEW i \in PermSlots(a, ip)
    PROVE  i \in 1..Permissions
<1> DEFINE P == DOMAIN a.perms
           free == {k \in 1..Permissions : k \notin P /\ 1..k - 1 \subseteq P}
           first == {k \in P : \A j \in P : a.perms[k].expires <= a.perms[j].expires}
           time == [k \in P |-> a.perms[k].expires]
<1>0. Permissions \in Nat \ {0} /\ P \subseteq 1..Permissions /\ \A k \in P : time[k] \in Nat
  BY TurnAssumption DEF PermsFit
<1>1. CASE i \in P \/ i \in free
  BY <1>0, <1>1
<1>2. CASE free = {} /\ i = CHOOSE k \in first : \A j \in first : k <= j
  <2>1. P # {}
    <3> SUFFICES ASSUME P = {} PROVE FALSE
      OBVIOUS
    <3>1. 1 \in 1..Permissions /\ 1..1 - 1 = {}
      BY <1>0
    <3> QED
      BY <1>2, <3>1
  <2>2. P \subseteq Nat
    BY <1>0
  <2>3. PICK k \in P : \A j \in P : time[k] < time[j] \/ (time[k] = time[j] /\ k <= j)
    <3> HIDE DEF P, time
    <3> QED
      BY <1>0, <2>1, <2>2, LeastByTime
  <2>4. k \in first
    <3>1. ASSUME NEW j \in P PROVE a.perms[k].expires <= a.perms[j].expires
      <4>1. time[k] \in Nat /\ time[j] \in Nat
        BY <1>0
      <4>2. time[k] <= time[j]
        BY <2>3, <4>1
      <4> QED
        BY <4>2
    <3> QED
      BY <3>1
  <2>5. \A j \in first : k <= j
    <3> SUFFICES ASSUME NEW j \in first PROVE k <= j
      OBVIOUS
    <3>1. time[j] <= time[k] /\ time[k] \in Nat /\ time[j] \in Nat
      BY <1>0
    <3> QED
      BY <2>3, <3>1
  <2>6. i \in first
    <3> HIDE DEF first
    <3> QED
      BY <1>2, <2>4, <2>5
  <2> QED
    BY <1>0, <2>6
<1> QED
  BY <1>1, <1>2 DEF PermSlots

\* A permission is put where it fits.
LEMMA PermittedFits ==
    ASSUME NEW a, IsAllocation(a), AllocationFits(a), epoch \in Nat, NEW to, NEW lifetime \in Nat,
           NEW b \in Permit(a, to, lifetime)
    PROVE  IsAllocation(b) /\ AllocationFits(b) /\ b.channels = a.channels
<1>1. PICK i \in PermSlots(a, to[1]) :
          b = [a EXCEPT !.perms = With(@, i, [addr |-> to, expires |-> epoch + lifetime])]
  BY DEF Permit
<1>2. i \in 1..Permissions
  BY PermSlotExists DEF AllocationFits
<1> DEFINE e == [addr |-> to, expires |-> epoch + lifetime]
           q == With(a.perms, i, e)
<1>3. PermsFit(q)
  <2>1. e.expires \in Nat
    OBVIOUS
  <2> HIDE DEF e
  <2>2. DOMAIN q = DOMAIN a.perms \cup {i} /\ \A k \in DOMAIN q : q[k] = e \/ (k \in DOMAIN a.perms /\ q[k] = a.perms[k])
    BY DEF With
  <2> HIDE DEF q
  <2> QED
    BY <1>2, <2>1, <2>2 DEF AllocationFits, PermsFit
<1>4. b = [a EXCEPT !.perms = q]
  BY <1>1
<1> HIDE DEF q
<1>5. PICK k, p, x, y, f : a \in [client : {k}, port : {p}, perms : {x}, channels : {y}, expires : {f}]
  BY DEF IsAllocation
<1>6. b \in [client : {k}, port : {p}, perms : {q}, channels : {y}, expires : {f}]
  BY <1>4, <1>5
<1>7. b.client = a.client /\ b.perms = q /\ b.channels = a.channels
  BY <1>5, <1>6
<1> QED
  BY <1>3, <1>6, <1>7 DEF IsAllocation, AllocationFits

\* One allocation changes, for one that fits.
LEMMA OneAllocation ==
    ASSUME ServerFits, NEW s \in DOMAIN allocs, NEW a, AllocationFits(a),
           allocs' = [allocs EXCEPT ![s] = a], UNCHANGED <<nextPort, count, epoch>>
    PROVE  ServerFits'
<1>1. DOMAIN allocs' = DOMAIN allocs /\ \A x \in DOMAIN allocs : allocs'[x] = a \/ allocs'[x] = allocs[x]
  OBVIOUS
<1> QED
  BY <1>1 DEF ServerFits

\* The server holds finitely many allocations.
LEMMA AllocsFinite ==
    ASSUME ServerFits
    PROVE  IsFiniteSet(DOMAIN allocs)
<1>1. Allocations \in Nat /\ 1 \in Int /\ DOMAIN allocs \subseteq 1..Allocations
  BY TurnAssumption DEF ServerFits
<1>2. IsFiniteSet(1..Allocations)
  BY <1>1, FS_Interval
<1> QED
  BY <1>1, <1>2, FS_Subset

\* An allocation gets the first free slot and a port of the range.
LEMMA AllocateFits ==
    ASSUME ServerFits, NEW c \in TurnClients, NEW lifetime, Allocate(c, lifetime)
    PROVE  ServerFits'
<1>0. /\ DOMAIN allocs \subseteq 1..Allocations /\ count = Cardinality(DOMAIN allocs)
      /\ \A s \in DOMAIN allocs : AllocationFits(allocs[s])
      /\ nextPort \in 1..RelayPorts /\ epoch \in Nat /\ Allocations \in Nat /\ RelayPorts \in Nat \ {0}
  BY TurnAssumption DEF ServerFits
<1>1. PICK s \in FirstSlot, p \in PortsFrom(nextPort) :
        /\ allocs' = With(allocs, s, [client |-> c, port |-> p, perms |-> <<>>, channels |-> <<>>,
                                      expires |-> epoch + Least(lifetime, DefaultLifetime)])
        /\ nextPort' = 1 + (p % RelayPorts)
  BY DEF Allocate
<1> DEFINE a == [client |-> c, port |-> p, perms |-> <<>>, channels |-> <<>>,
                 expires |-> epoch + Least(lifetime, DefaultLifetime)]
<1>2. AllocationFits(a)
  <2>1. DOMAIN <<>> = {}
    OBVIOUS
  <2> QED
    BY <2>1 DEF AllocationFits, PermsFit
<1>3. s \in 1..Allocations /\ s \notin DOMAIN allocs
  BY DEF FirstSlot
<1>4. allocs' = With(allocs, s, a)
  BY <1>1
<1> HIDE DEF a
<1>5. DOMAIN allocs' = DOMAIN allocs \cup {s} /\ \A x \in DOMAIN allocs' : allocs'[x] = a \/ (x \in DOMAIN allocs /\ allocs'[x] = allocs[x])
  BY <1>4 DEF With
<1>6. nextPort' \in 1..RelayPorts
  <2>1. p \in Int
    <3>1. PICK d \in 0..RelayPorts - 1 : p = 1 + ((nextPort - 1 + d) % RelayPorts)
      BY DEF PortsFrom
    <3> QED
      BY <1>0, <3>1
  <2> QED
    BY <1>0, <1>1, <2>1
<1>7. Cardinality(DOMAIN allocs \cup {s}) = Cardinality(DOMAIN allocs) + 1
  <2>1. IsFiniteSet(DOMAIN allocs)
    BY AllocsFinite
  <2> QED
    BY <1>3, <2>1, FS_AddElement
<1>8. count' = count + 1 /\ epoch' = epoch
  BY DEF Allocate
<1>9. count' = Cardinality(DOMAIN allocs')
  BY <1>0, <1>5, <1>7, <1>8
<1>10. \A x \in DOMAIN allocs' : AllocationFits(allocs'[x])
  BY <1>0, <1>2, <1>5
<1> QED
  BY <1>0, <1>3, <1>5, <1>6, <1>8, <1>9, <1>10 DEF ServerFits

\* A client refreshes its allocation or gives it up.
LEMMA RefreshFits ==
    ASSUME TurnInv, ServerFits, NEW c, NEW lifetime, Refresh(c, lifetime)
    PROVE  ServerFits'
<1>0. /\ DOMAIN allocs \subseteq 1..Allocations /\ count = Cardinality(DOMAIN allocs)
      /\ \A s \in DOMAIN allocs : AllocationFits(allocs[s]) /\ Allocations \in Nat
  BY TurnAssumption DEF ServerFits
<1>1. PICK s \in DOMAIN allocs :
        \/ allocs' = Without(allocs, {s}) /\ count' = count - 1
        \/ allocs' = [allocs EXCEPT ![s].expires = epoch + lifetime] /\ UNCHANGED count
  BY DEF Refresh, AllocOf
<1>2. UNCHANGED <<nextPort, epoch>>
  BY DEF Refresh
<1>3. CASE allocs' = Without(allocs, {s}) /\ count' = count - 1
  <2>1. DOMAIN allocs' = DOMAIN allocs \ {s} /\ \A x \in DOMAIN allocs' : allocs'[x] = allocs[x]
    BY <1>3 DEF Without
  <2>2. IsFiniteSet(DOMAIN allocs)
    BY AllocsFinite
  <2>3. Cardinality(DOMAIN allocs \ {s}) = Cardinality(DOMAIN allocs) - 1
    BY <2>2, FS_RemoveElement
  <2>4. count' = Cardinality(DOMAIN allocs')
    BY <1>0, <1>3, <2>1, <2>3
  <2>5. DOMAIN allocs' \subseteq 1..Allocations /\ \A x \in DOMAIN allocs' : AllocationFits(allocs'[x])
    BY <1>0, <2>1
  <2> QED
    BY <1>2, <2>4, <2>5 DEF ServerFits
<1>4. CASE allocs' = [allocs EXCEPT ![s].expires = epoch + lifetime] /\ UNCHANGED count
  <2> DEFINE a == allocs[s]
             b == [a EXCEPT !.expires = epoch + lifetime]
  <2>1. PICK k, p, x, y, f : a \in [client : {k}, port : {p}, perms : {x}, channels : {y}, expires : {f}]
    BY DEF TurnInv, IsAllocation
  <2>2. b.client = a.client /\ b.perms = a.perms /\ b.channels = a.channels
    BY <2>1
  <2>3. AllocationFits(b)
    <3> HIDE DEF b
    <3> QED
      BY <1>0, <2>2 DEF AllocationFits
  <2>4. allocs' = [allocs EXCEPT ![s] = b]
    BY <1>4
  <2> HIDE DEF b
  <2> QED
    BY <1>2, <1>4, <2>3, <2>4, OneAllocation
<1> QED
  BY <1>1, <1>3, <1>4

\* A channel is bound in a slot of the table.
LEMMA BindFits ==
    ASSUME TurnInv, ServerFits, NEW c, NEW n, NEW to, ChannelBind(c, n, to)
    PROVE  ServerFits'
<1>0. epoch \in Nat /\ (\A s \in DOMAIN allocs : AllocationFits(allocs[s])) /\ ChannelLifetime \in Nat
  BY DEF ServerFits, ChannelLifetime
<1>1. PICK s \in DOMAIN allocs :
        \E i \in ChannelSlots(allocs[s], n) : \E a \in Permit(allocs[s], to, ChannelLifetime) :
            allocs' = [allocs EXCEPT ![s] =
                [a EXCEPT !.channels = With(@, i, [number |-> n, addr |-> to, expires |-> epoch + ChannelLifetime])]]
  BY DEF ChannelBind, AllocOf
<1>2. PICK i \in ChannelSlots(allocs[s], n), a \in Permit(allocs[s], to, ChannelLifetime) :
            allocs' = [allocs EXCEPT ![s] =
                [a EXCEPT !.channels = With(@, i, [number |-> n, addr |-> to, expires |-> epoch + ChannelLifetime])]]
  BY <1>1
<1>3. IsAllocation(a) /\ AllocationFits(a) /\ a.channels = allocs[s].channels
  <2>1. IsAllocation(allocs[s]) /\ AllocationFits(allocs[s])
    BY <1>0 DEF TurnInv
  <2> QED
    BY <1>0, <2>1, PermittedFits
<1>4. i \in 1..Channels
  <2>1. DOMAIN allocs[s].channels \subseteq 1..Channels
    BY <1>0 DEF AllocationFits
  <2> QED
    BY <2>1 DEF ChannelSlots
<1> DEFINE e == [number |-> n, addr |-> to, expires |-> epoch + ChannelLifetime]
           q == With(a.channels, i, e)
           b == [a EXCEPT !.channels = q]
<1>5. DOMAIN q = DOMAIN a.channels \cup {i}
  BY DEF With
<1> HIDE DEF q
<1>6. PICK k, p, x, y, f : a \in [client : {k}, port : {p}, perms : {x}, channels : {y}, expires : {f}]
  BY <1>3 DEF IsAllocation
<1>7. b.client = a.client /\ b.perms = a.perms /\ b.channels = q
  BY <1>6
<1>8. allocs' = [allocs EXCEPT ![s] = b]
  BY <1>2 DEF q
<1> HIDE DEF b
<1>9. AllocationFits(b)
  BY <1>3, <1>4, <1>5, <1>7 DEF AllocationFits
<1>10. UNCHANGED <<nextPort, count, epoch>>
  BY DEF ChannelBind
<1> QED
  BY <1>8, <1>9, <1>10, OneAllocation

\* A permission is created in a slot of the table.
LEMMA CreateFits ==
    ASSUME TurnInv, ServerFits, NEW c, NEW to, CreatePermission(c, to)
    PROVE  ServerFits'
<1>0. epoch \in Nat /\ (\A s \in DOMAIN allocs : AllocationFits(allocs[s])) /\ PermissionLifetime \in Nat
  BY DEF ServerFits, PermissionLifetime
<1>1. PICK s \in DOMAIN allocs : \E a \in Permit(allocs[s], to, PermissionLifetime) :
        allocs' = [allocs EXCEPT ![s] = a]
  BY DEF CreatePermission, AllocOf
<1>2. PICK a \in Permit(allocs[s], to, PermissionLifetime) : allocs' = [allocs EXCEPT ![s] = a]
  BY <1>1
<1>3. IsAllocation(allocs[s]) /\ AllocationFits(allocs[s])
  BY <1>0 DEF TurnInv
<1>4. AllocationFits(a)
  BY <1>0, <1>3, PermittedFits
<1>5. UNCHANGED <<nextPort, count, epoch>>
  BY DEF CreatePermission
<1> QED
  BY <1>2, <1>4, <1>5, OneAllocation

\* The sweep frees what has expired.
LEMMA SweepFits ==
    ASSUME TurnInv, ServerFits, Sweep
    PROVE  ServerFits'
<1> DEFINE expired == {s \in DOMAIN allocs : allocs[s].expires <= epoch}
<1>0. /\ DOMAIN allocs \subseteq 1..Allocations /\ count = Cardinality(DOMAIN allocs)
      /\ \A s \in DOMAIN allocs : AllocationFits(allocs[s]) /\ Allocations \in Nat
  BY TurnAssumption DEF ServerFits
<1>1. /\ allocs' = [s \in DOMAIN allocs \ expired |-> [allocs[s] EXCEPT !.perms = Fresh(@), !.channels = Fresh(@)]]
      /\ count' = count - Cardinality(expired) /\ UNCHANGED <<nextPort, epoch>>
  BY DEF Sweep
<1>2. count' = Cardinality(DOMAIN allocs \ expired)
  <2>1. expired \subseteq DOMAIN allocs
    OBVIOUS
  <2> HIDE DEF expired
  <2>2. IsFiniteSet(DOMAIN allocs)
    BY AllocsFinite
  <2>3. /\ Cardinality(DOMAIN allocs \ expired) = Cardinality(DOMAIN allocs) - Cardinality(DOMAIN allocs \cap expired)
    BY <2>2, FS_Difference
  <2>4. DOMAIN allocs \cap expired = expired
    BY <2>1
  <2> QED
    BY <1>0, <1>1, <2>3, <2>4
<1>3. ASSUME NEW s \in DOMAIN allocs \ expired PROVE AllocationFits(allocs'[s])
  <2> DEFINE a == allocs[s]
             b == [a EXCEPT !.perms = Fresh(a.perms), !.channels = Fresh(a.channels)]
  <2>1. allocs'[s] = b
    <3> HIDE DEF expired
    <3> QED
      BY <1>1
  <2>2. PICK k, p, x, y, f : a \in [client : {k}, port : {p}, perms : {x}, channels : {y}, expires : {f}]
    BY DEF TurnInv, IsAllocation
  <2>3. b.client = a.client /\ b.perms = Fresh(a.perms) /\ b.channels = Fresh(a.channels)
    BY <2>2
  <2> HIDE DEF b
  <2>4. ASSUME NEW t PROVE DOMAIN Fresh(t) \subseteq DOMAIN t /\ \A i \in DOMAIN Fresh(t) : Fresh(t)[i] = t[i]
    BY DEF Fresh, Without
  <2>5. AllocationFits(a)
    BY <1>0
  <2>6. PermsFit(Fresh(a.perms)) /\ DOMAIN Fresh(a.channels) \subseteq 1..Channels
    BY <2>4, <2>5 DEF AllocationFits, PermsFit
  <2> QED
    BY <2>1, <2>3, <2>5, <2>6 DEF AllocationFits
<1>4. DOMAIN allocs' = DOMAIN allocs \ expired
  BY <1>1
<1> HIDE DEF expired
<1>5. DOMAIN allocs' \subseteq 1..Allocations /\ count' = Cardinality(DOMAIN allocs')
  BY <1>0, <1>2, <1>4
<1> QED
  BY <1>1, <1>3, <1>4, <1>5 DEF ServerFits

\* The server keeps its shape.
LEMMA ServerFitsKept ==
    /\ TurnInit => ServerFits
    /\ TurnInv /\ ServerFits /\ [TurnNext]_turnVars => ServerFits'
<1>1. ASSUME TurnInit PROVE ServerFits
  <2>1. DOMAIN <<>> = {} /\ Cardinality({}) = 0 /\ 1 \in 1..RelayPorts
    BY TurnAssumption, FS_EmptySet
  <2> QED
    BY <1>1, <2>1 DEF TurnInit, ServerFits
<1> SUFFICES ASSUME TurnInv, ServerFits, [TurnNext]_turnVars PROVE ServerFits'
  BY <1>1
<1>2. CASE allocs' = allocs /\ nextPort' = nextPort /\ count' = count /\ epoch' \in Nat
  BY <1>2 DEF ServerFits
<1>3. CASE NextEpoch
  BY <1>2, <1>3 DEF NextEpoch, ServerFits
<1>4. CASE UNCHANGED turnVars
  BY <1>2, <1>4 DEF turnVars, ServerFits
<1>5. ASSUME NEW c \in TurnClients, Challenge(c) PROVE ServerFits'
  BY <1>2, <1>5 DEF Challenge, ServerFits
<1> QED
  BY <1>3, <1>4, <1>5, AllocateFits, RefreshFits, CreateFits, BindFits, SweepFits DEF TurnNext

\* The tables of the server have their sizes, and its count is that of its allocations.
LEMMA ServerTyped == ServerFits => TurnTypeOK
BY DEF ServerFits, AllocationFits, PermsFit, TurnTypeOK

----------------------------------------------------------------------------
(* Guard. *)

FilledRecords == [valid : {TRUE}, fp : GuardPeers, expires : Nat, failures : Nat, active : BOOLEAN,
                  attempted : Nat, succeeded : Nat, collapsed : Nat]
EmptyRecords == [valid : {FALSE}, attempted : Nat, succeeded : Nat, collapsed : Nat]
GuardRecords == FilledRecords \cup EmptyRecords

\* Guards in different slots have different subnets.
Diverse(gs) ==
    \A i, j \in GuardSlots : gs[i].valid /\ gs[j].valid /\ i # j => SubnetOf[gs[i].fp] # SubnetOf[gs[j].fp]
\* The table in memory and the one in the file.
TableOfGuards(gs) == gs \in [GuardSlots -> GuardRecords] /\ Diverse(gs)
\* What a table has in a slot, the other has too.
KeptIn(gs, kept) == \A i \in GuardSlots : gs[i].valid => kept[i].valid /\ kept[i].fp = gs[i].fp
\* The guards of the table are in the file.
OnFile(gs) == \A i \in GuardSlots : gs[i].valid => file.intact /\ file.guards[i].valid /\ file.guards[i].fp = gs[i].fp

GuardInv ==
    /\ TableOfGuards(guards) /\ OnFile(guards) /\ guardNow \in Nat
    /\ file.intact \in BOOLEAN /\ (file.intact => TableOfGuards(file.guards))

\* The invariant holds the two properties of the guard table.
LEMMA GuardInvSuffices ==
    ASSUME GuardInv
    PROVE  GuardsKept /\ GuardsDiverse
BY DEF GuardInv, OnFile, TableOfGuards, Diverse, GuardsKept, GuardsDiverse, ValidSlots

\* A record is a guard or an empty slot, and keeps being one when counters change.
LEMMA RecordEdits ==
    ASSUME NEW g \in GuardRecords, NEW a \in Nat, NEW s \in Nat, NEW c \in Nat
    PROVE  /\ g.attempted \in Nat /\ g.succeeded \in Nat /\ g.collapsed \in Nat
           /\ g.valid => g.fp \in GuardPeers /\ g.failures \in Nat /\ g.expires \in Nat
           /\ [NoGuard EXCEPT !.attempted = a, !.succeeded = s, !.collapsed = c] \in EmptyRecords
           /\ g.valid \in BOOLEAN /\ NoGuard \in EmptyRecords
<1>1. NoGuard \in EmptyRecords
  BY DEF NoGuard, EmptyRecords
<1>2. [NoGuard EXCEPT !.attempted = a, !.succeeded = s, !.collapsed = c] \in EmptyRecords
  <2> DEFINE n == NoGuard
  <2>1. n \in EmptyRecords
    BY <1>1
  <2> HIDE DEF n
  <2>2. [n EXCEPT !.attempted = a, !.succeeded = s, !.collapsed = c] \in EmptyRecords
    BY <2>1 DEF EmptyRecords
  <2> QED
    BY <2>2 DEF n
<1> QED
  BY <1>1, <1>2 DEF GuardRecords, FilledRecords, EmptyRecords

\* What the counters of a guard become leaves it that guard.
LEMMA ReportEdits ==
    ASSUME NEW g \in FilledRecords, NEW h,
           \/ h = [g EXCEPT !.attempted = g.attempted + 1, !.active = TRUE, !.failures = 0]
           \/ h = [g EXCEPT !.succeeded = g.succeeded + 1]
           \/ h = [g EXCEPT !.collapsed = g.collapsed + 1]
           \/ h = [g EXCEPT !.failures = g.failures + 1]
    PROVE  h \in FilledRecords /\ h.fp = g.fp
<1>1. g.attempted + 1 \in Nat /\ g.succeeded + 1 \in Nat /\ g.collapsed + 1 \in Nat /\ g.failures + 1 \in Nat
  BY DEF FilledRecords
<1>2. ASSUME NEW a \in Nat, h = [g EXCEPT !.attempted = a, !.active = TRUE, !.failures = 0]
      PROVE  h \in FilledRecords /\ h.fp = g.fp
  BY <1>2 DEF FilledRecords
<1>3. ASSUME NEW a \in Nat, h = [g EXCEPT !.succeeded = a] PROVE h \in FilledRecords /\ h.fp = g.fp
  BY <1>3 DEF FilledRecords
<1>4. ASSUME NEW a \in Nat, h = [g EXCEPT !.collapsed = a] PROVE h \in FilledRecords /\ h.fp = g.fp
  BY <1>4 DEF FilledRecords
<1>5. ASSUME NEW a \in Nat, h = [g EXCEPT !.failures = a] PROVE h \in FilledRecords /\ h.fp = g.fp
  BY <1>5 DEF FilledRecords
<1> QED
  BY <1>1, <1>2, <1>3, <1>4, <1>5

\* A table that has nothing but what another has is diverse when that is.
LEMMA PartIsDiverse ==
    ASSUME NEW gs, NEW kept, Diverse(kept), KeptIn(gs, kept)
    PROVE  Diverse(gs)
BY DEF Diverse, KeptIn

\* An empty slot holds no guard.
LEMMA EmptyIsInvalid == \A g \in EmptyRecords : ~g.valid
BY DEF EmptyRecords

\* What guard_save writes has the guards of the table.
LEMMA ImageKeeps ==
    ASSUME NEW gs, TableOfGuards(gs), NEW vs
    PROVE  /\ Image(gs, vs).intact = TRUE /\ TableOfGuards(Image(gs, vs).guards)
           /\ KeptIn(gs, Image(gs, vs).guards)
<1> DEFINE kept == [i \in GuardSlots |->
                    IF gs[i].valid THEN [gs[i] EXCEPT !.attempted = 0, !.succeeded = 0, !.collapsed = 0]
                    ELSE NoGuard]
<1>1. Image(gs, vs).intact = TRUE /\ Image(gs, vs).guards = kept
  BY DEF Image
<1>2. ASSUME NEW i \in GuardSlots
      PROVE  /\ kept[i] \in GuardRecords /\ kept[i].valid = gs[i].valid
             /\ gs[i].valid => kept[i].fp = gs[i].fp
  <2>1. gs[i] \in GuardRecords
    BY DEF TableOfGuards
  <2>2. CASE gs[i].valid
    <3>1. gs[i] \in FilledRecords
      BY <2>1, <2>2 DEF GuardRecords, EmptyRecords
    <3>2. kept[i] = [gs[i] EXCEPT !.attempted = 0, !.succeeded = 0, !.collapsed = 0]
      BY <2>2
    <3> QED
      BY <3>1, <3>2 DEF GuardRecords, FilledRecords
  <2>3. CASE ~gs[i].valid
    <3>1. kept[i] = NoGuard /\ NoGuard \in EmptyRecords
      BY <2>3 DEF NoGuard, EmptyRecords
    <3>2. gs[i].valid = FALSE
      BY <2>1, <2>3 DEF GuardRecords, FilledRecords, EmptyRecords
    <3> QED
      BY <2>3, <3>1, <3>2 DEF GuardRecords, EmptyRecords
  <2> QED
    BY <2>2, <2>3
<1>3. kept \in [GuardSlots -> GuardRecords]
  BY <1>2
<1> HIDE DEF kept
<1>4. KeptIn(gs, kept) /\ KeptIn(kept, gs)
  BY <1>2 DEF KeptIn
<1>5. Diverse(kept)
  BY <1>4, PartIsDiverse DEF TableOfGuards
<1> QED
  BY <1>1, <1>3, <1>4, <1>5 DEF TableOfGuards

\* An expired guard leaves its slot; the others stay.
LEMMA LapsedKeeps ==
    ASSUME NEW gs, TableOfGuards(gs)
    PROVE  TableOfGuards(Lapsed(gs)) /\ KeptIn(Lapsed(gs), gs)
<1> DEFINE kept == Lapsed(gs)
<1>1. ASSUME NEW i \in GuardSlots PROVE kept[i] = gs[i] \/ kept[i] \in EmptyRecords
  <2>1. gs[i] \in GuardRecords
    BY DEF TableOfGuards
  <2>2. [NoGuard EXCEPT !.attempted = gs[i].attempted, !.succeeded = gs[i].succeeded,
                        !.collapsed = gs[i].collapsed] \in EmptyRecords
    BY <2>1, RecordEdits
  <2> QED
    BY <2>2 DEF Lapsed
<1>2. kept \in [GuardSlots -> GuardRecords]
  <2>1. kept = [i \in GuardSlots |-> kept[i]]
    BY DEF Lapsed
  <2> HIDE DEF kept
  <2> QED
    BY <1>1, <2>1 DEF TableOfGuards, GuardRecords
<1>3. KeptIn(kept, gs)
  BY <1>1, EmptyIsInvalid DEF KeptIn
<1> QED
  BY <1>2, <1>3, PartIsDiverse DEF TableOfGuards

\* Filling: a guard that is chosen differs from those before it and from those that stay.
LEMMA FilledKeeps ==
    ASSUME NEW gs, TableOfGuards(gs), NEW fg \in GuardsFilled(gs), guardNow \in Nat
    PROVE  TableOfGuards(fg)
<1> DEFINE Until(i) == [k \in GuardSlots |-> IF k < i THEN fg[k] ELSE gs[k]]
           New(i, peers) == {NewGuard(gs[i], p, life) : p \in peers, life \in GuardLife}
           Filling(i, free) == IF gs[i].valid \/ free = {} THEN {gs[i]} ELSE New(i, free)
<1>7. fg \in {g \in [GuardSlots -> UNION {New(i, GuardPeers) \cup {gs[i]} : i \in GuardSlots}] :
                \A i \in GuardSlots :
                    g[i] \in Filling(i, GuardChoices([k \in GuardSlots |-> IF k < i THEN g[k] ELSE gs[k]]))}
  BY DEF GuardsFilled
<1>1. fg \in [GuardSlots -> UNION {New(i, GuardPeers) \cup {gs[i]} : i \in GuardSlots}]
      /\ \A i \in GuardSlots : fg[i] \in Filling(i, GuardChoices(Until(i)))
  <2> HIDE DEF Filling, New
  <2> QED
    BY <1>7
<1>2. ASSUME NEW i \in GuardSlots, NEW p \in GuardPeers, NEW life \in GuardLife
      PROVE  NewGuard(gs[i], p, life) \in FilledRecords /\ NewGuard(gs[i], p, life).fp = p
  <2>1. gs[i] \in GuardRecords /\ life \in Nat /\ guardNow + life \in Nat
    BY GuardAssumption DEF TableOfGuards
  <2>2. gs[i].attempted \in Nat /\ gs[i].succeeded \in Nat /\ gs[i].collapsed \in Nat
    BY <2>1, RecordEdits
  <2> QED
    BY <2>1, <2>2 DEF NewGuard, FilledRecords
<1>3. ASSUME NEW i \in GuardSlots
      PROVE  \/ fg[i] = gs[i]
             \/ /\ ~gs[i].valid /\ fg[i] \in FilledRecords
                /\ \A k \in GuardSlots : Until(i)[k].valid => SubnetOf[Until(i)[k].fp] # SubnetOf[fg[i].fp]
  <2>1. fg[i] = gs[i] \/ (~gs[i].valid /\ fg[i] \in New(i, GuardChoices(Until(i))))
    BY <1>1
  <2>2. CASE ~gs[i].valid /\ fg[i] \in New(i, GuardChoices(Until(i)))
    <3>1. PICK p \in GuardChoices(Until(i)), life \in GuardLife : fg[i] = NewGuard(gs[i], p, life)
      BY <2>2
    <3>2. p \in GuardPeers /\ \A k \in ValidSlots(Until(i)) : SubnetOf[Until(i)[k].fp] # SubnetOf[p]
      BY <3>1 DEF GuardChoices
    <3>3. fg[i] \in FilledRecords /\ fg[i].fp = p
      BY <1>2, <3>1, <3>2
    <3> QED
      BY <2>2, <3>2, <3>3 DEF ValidSlots
  <2> QED
    BY <2>1, <2>2
<1>4. fg \in [GuardSlots -> GuardRecords]
  BY <1>1, <1>3 DEF TableOfGuards, GuardRecords
<1>5. ASSUME NEW i \in GuardSlots, NEW j \in GuardSlots, i < j, fg[i].valid, fg[j].valid
      PROVE  SubnetOf[fg[i].fp] # SubnetOf[fg[j].fp]
  <2>1. Until(i)[j] = gs[j] /\ Until(j)[i] = fg[i] /\ i # j
    <3>1. i \in Nat /\ j \in Nat
      BY DEF GuardSlots
    <3> QED
      BY <1>5, <3>1
  <2> HIDE DEF Until, New, Filling
  <2>2. CASE fg[j] # gs[j]
    BY <1>3, <1>5, <2>1, <2>2
  <2>3. CASE fg[j] = gs[j] /\ fg[i] # gs[i]
    BY <1>3, <1>5, <2>1, <2>3
  <2>4. CASE fg[j] = gs[j] /\ fg[i] = gs[i]
    BY <1>5, <2>1, <2>4 DEF TableOfGuards, Diverse
  <2> QED
    BY <2>2, <2>3, <2>4
<1>6. Diverse(fg)
  <2>1. \A i, j \in GuardSlots : i < j \/ j < i \/ i = j
    BY DEF GuardSlots
  <2> QED
    BY <1>5, <2>1 DEF Diverse
<1> QED
  BY <1>4, <1>6 DEF TableOfGuards

\* trellis_guard_select: what it fills is written.
LEMMA SelectKeeps ==
    ASSUME GuardInv, NEW gs, TableOfGuards(gs), OnFile(gs), Select(gs), guardNow' \in Nat
    PROVE  GuardInv'
<1> DEFINE kept == Lapsed(gs)
<1>0. PICK fg \in GuardsFilled(kept) : \E fv \in VanguardsFilled(fg, vanguards) :
        guards' = fg /\ file' = Saved(fg, fv, kept, vanguards)
  BY DEF Select
<1>1. PICK fv \in VanguardsFilled(fg, vanguards) : guards' = fg /\ file' = Saved(fg, fv, kept, vanguards)
  BY <1>0
<1>2. TableOfGuards(kept) /\ KeptIn(kept, gs)
  BY LapsedKeeps
<1> HIDE DEF kept
<1>3. TableOfGuards(fg)
  BY <1>1, <1>2, FilledKeeps DEF GuardInv
<1>4. CASE file' = Image(fg, fv)
  <2> DEFINE im == Image(fg, fv)
  <2>1. im.intact = TRUE /\ TableOfGuards(im.guards) /\ KeptIn(fg, im.guards)
    BY <1>3, ImageKeeps
  <2> HIDE DEF im
  <2>2. guards' = fg /\ file' = im
    BY <1>1, <1>4 DEF im
  <2>3. OnFile(guards)'
    BY <2>1, <2>2 DEF OnFile, KeptIn
  <2>4. TableOfGuards(guards)' /\ TableOfGuards(file.guards)' /\ file.intact'
    BY <1>3, <2>1, <2>2 DEF TableOfGuards, Diverse
  <2> QED
    BY <2>1, <2>2, <2>3, <2>4 DEF GuardInv
<1>5. CASE file' = file /\ fg = kept
  <2>1. OnFile(guards)'
    BY <1>1, <1>2, <1>5 DEF OnFile, KeptIn
  <2>2. TableOfGuards(guards)' /\ (file.intact' => TableOfGuards(file.guards)')
    BY <1>1, <1>3, <1>5 DEF TableOfGuards, Diverse, GuardInv
  <2> QED
    BY <1>5, <2>1, <2>2 DEF GuardInv
<1> QED
  BY <1>1, <1>4, <1>5 DEF Saved

\* Counters of a slot move; the guard in it stays.
LEMMA CountersKeep ==
    ASSUME GuardInv, UNCHANGED <<file, guardNow>>, guards' \in [GuardSlots -> GuardRecords],
           KeptIn(guards', guards)
    PROVE  GuardInv'
<1>1. Diverse(guards')
  BY PartIsDiverse DEF GuardInv, TableOfGuards
<1>2. TableOfGuards(guards)'
  BY <1>1 DEF TableOfGuards, Diverse
<1>3. OnFile(guards)'
  BY DEF OnFile, KeptIn, GuardInv
<1>4. file.intact' => TableOfGuards(file.guards)'
  BY DEF TableOfGuards, Diverse, GuardInv
<1> QED
  BY <1>2, <1>3, <1>4 DEF GuardInv

\* One slot changes, but for its guard.
LEMMA UpdateKeeps ==
    ASSUME GuardInv, NEW i \in GuardSlots, guards[i].valid, NEW g \in FilledRecords,
           g.fp = guards[i].fp, Update(i, g)
    PROVE  GuardInv'
<1>1. guards' = [guards EXCEPT ![i] = g] /\ UNCHANGED <<file, guardNow>>
  BY DEF Update
<1>2. guards' \in [GuardSlots -> GuardRecords]
  BY <1>1 DEF GuardInv, TableOfGuards, GuardRecords
<1>3. KeptIn(guards', guards)
  BY <1>1 DEF KeptIn, GuardInv, TableOfGuards
<1> QED
  BY <1>1, <1>2, <1>3, CountersKeep

\* What circuits report of a guard.
LEMMA ReportsKeep ==
    ASSUME GuardInv, NEW i \in GuardSlots,
           Attempt(i) \/ GuardFails(i) \/ \E good \in BOOLEAN : Outcome(i, good)
    PROVE  GuardInv'
<1> DEFINE g == guards[i]
<1>1. g.valid /\ g \in FilledRecords
  BY DEF Attempt, GuardFails, Outcome, GuardInv, TableOfGuards, GuardRecords, EmptyRecords
<1>2. CASE Attempt(i)
  <2> DEFINE h == [g EXCEPT !.attempted = g.attempted + 1, !.active = TRUE, !.failures = 0]
  <2>1. h \in FilledRecords /\ h.fp = g.fp
    BY <1>1, ReportEdits
  <2>2. Update(i, h)
    BY <1>2 DEF Attempt
  <2> HIDE DEF h
  <2> QED
    BY <1>1, <2>1, <2>2, UpdateKeeps
<1>3. ASSUME NEW good \in BOOLEAN, Outcome(i, good) PROVE GuardInv'
  <2> DEFINE h == IF good THEN [g EXCEPT !.succeeded = g.succeeded + 1]
                  ELSE [g EXCEPT !.collapsed = g.collapsed + 1]
  <2>1. h \in FilledRecords /\ h.fp = g.fp
    BY <1>1, ReportEdits
  <2>2. Update(i, h)
    BY <1>3 DEF Outcome
  <2> HIDE DEF h
  <2> QED
    BY <1>1, <2>1, <2>2, UpdateKeeps
<1>4. CASE GuardFails(i)
  <2> DEFINE h == [g EXCEPT !.failures = g.failures + 1]
             none == [NoGuard EXCEPT !.attempted = h.attempted, !.succeeded = h.succeeded, !.collapsed = h.collapsed]
             gs == [guards EXCEPT ![i] = none]
  <2>1. h \in FilledRecords /\ h.fp = g.fp
    BY <1>1, ReportEdits
  <2>2. Update(i, h) \/ (Select(gs) /\ guardNow' = guardNow)
    BY <1>4 DEF GuardFails
  <2>3. none \in EmptyRecords /\ ~none.valid
    <3>1. h \in GuardRecords
      BY <2>1 DEF GuardRecords
    <3> HIDE DEF h
    <3>2. none \in EmptyRecords
      BY <3>1, RecordEdits
    <3> QED
      BY <3>2, EmptyIsInvalid
  <2> HIDE DEF h, none
  <2>4. TableOfGuards(gs) /\ OnFile(gs)
    <3>1. gs \in [GuardSlots -> GuardRecords]
      BY <2>3 DEF GuardInv, TableOfGuards, GuardRecords
    <3>2. KeptIn(gs, guards)
      BY <2>3 DEF KeptIn, GuardInv, TableOfGuards
    <3> HIDE DEF gs
    <3>3. Diverse(gs)
      BY <3>2, PartIsDiverse DEF GuardInv, TableOfGuards
    <3>4. OnFile(gs)
      BY <3>2 DEF KeptIn, OnFile, GuardInv
    <3> QED
      BY <3>1, <3>3, <3>4 DEF TableOfGuards
  <2> HIDE DEF gs
  <2>5. CASE Update(i, h)
    BY <1>1, <2>1, <2>5, UpdateKeeps
  <2>6. CASE Select(gs) /\ guardNow' = guardNow
    BY <2>4, <2>6, SelectKeeps DEF GuardInv
  <2> QED
    BY <2>2, <2>5, <2>6
<1> QED
  BY <1>2, <1>3, <1>4

\* trellis_guard_path_bias_check writes the guards it keeps.
LEMMA BiasCheckKeeps ==
    ASSUME GuardInv, BiasCheck
    PROVE  GuardInv'
<1> DEFINE gs == [i \in GuardSlots |->
                    IF Biased(guards[i]) THEN [guards[i] EXCEPT !.active = FALSE] ELSE guards[i]]
           im == Image(gs, vanguards)
<1>1. guards' = gs /\ file' = im /\ guardNow' = guardNow
  BY DEF BiasCheck
<1>2. ASSUME NEW i \in GuardSlots
      PROVE  gs[i] \in GuardRecords /\ (gs[i].valid => guards[i].valid /\ guards[i].fp = gs[i].fp)
  <2>1. guards[i] \in GuardRecords
    BY DEF GuardInv, TableOfGuards
  <2>2. CASE Biased(guards[i])
    <3>1. guards[i] \in FilledRecords /\ gs[i] = [guards[i] EXCEPT !.active = FALSE]
      BY <2>1, <2>2 DEF Biased, GuardRecords, EmptyRecords
    <3> QED
      BY <2>2, <3>1 DEF GuardRecords, FilledRecords
  <2>3. CASE ~Biased(guards[i])
    BY <2>1, <2>3
  <2> QED
    BY <2>2, <2>3
<1>3. gs \in [GuardSlots -> GuardRecords]
  BY <1>2
<1> HIDE DEF gs
<1>4. TableOfGuards(gs)
  <2>1. KeptIn(gs, guards)
    BY <1>2 DEF KeptIn
  <2> QED
    BY <1>3, <2>1, PartIsDiverse DEF GuardInv, TableOfGuards
<1>5. im.intact = TRUE /\ TableOfGuards(im.guards) /\ KeptIn(gs, im.guards)
  BY <1>4, ImageKeeps
<1> HIDE DEF im
<1>6. OnFile(guards)'
  BY <1>1, <1>5 DEF OnFile, KeptIn
<1>7. TableOfGuards(guards)' /\ TableOfGuards(file.guards)' /\ file.intact' = TRUE
  BY <1>1, <1>4, <1>5 DEF TableOfGuards, Diverse
<1> QED
  BY <1>1, <1>6, <1>7 DEF GuardInv

\* The process reads the file, or finds none.
LEMMA ReloadedKeeps ==
    ASSUME GuardInv, NEW f, Reloaded(f), f.intact \in BOOLEAN, f.intact => TableOfGuards(f.guards)
    PROVE  GuardInv'
<1>1. file' = f /\ guardNow' = guardNow
  BY DEF Reloaded
<1>2. CASE f.intact
  <2>1. guards' = f.guards
    BY <1>2 DEF Reloaded
  <2> QED
    BY <1>1, <1>2, <2>1 DEF GuardInv, OnFile, TableOfGuards, Diverse
<1>3. CASE ~f.intact
  <2>1. guards' = [i \in GuardSlots |-> NoGuard]
    BY <1>3 DEF Reloaded
  <2>2. NoGuard \in GuardRecords /\ ~NoGuard.valid
    BY DEF NoGuard, GuardRecords, EmptyRecords
  <2>3. \A i \in GuardSlots : guards'[i] = NoGuard
    BY <2>1
  <2>4. guards' \in [GuardSlots -> GuardRecords]
    BY <2>1, <2>2
  <2> QED
    BY <1>1, <1>3, <2>2, <2>3, <2>4 DEF GuardInv, OnFile, TableOfGuards, Diverse
<1> QED
  BY <1>2, <1>3

\* An empty table without a file satisfies the invariant.
LEMMA GuardInvStarts ==
    ASSUME GuardInit
    PROVE  GuardInv
<1>1. NoGuard \in GuardRecords /\ ~NoGuard.valid /\ NoFile.intact = FALSE
  BY DEF NoGuard, GuardRecords, EmptyRecords, NoFile
<1>2. guards \in [GuardSlots -> GuardRecords] /\ \A i \in GuardSlots : ~guards[i].valid
  BY <1>1 DEF GuardInit
<1> QED
  BY <1>1, <1>2 DEF GuardInit, GuardInv, TableOfGuards, Diverse, OnFile

\* Every step keeps the guards on file, and different.
LEMMA GuardStepKeeps ==
    ASSUME GuardInv, [GuardNext]_guardVars
    PROVE  GuardInv'
<1>1. CASE UNCHANGED <<guards, file, guardNow>>
  BY <1>1 DEF GuardInv, TableOfGuards, Diverse, OnFile
<1>2. CASE GuardTick
  BY <1>2, SelectKeeps DEF GuardTick, GuardInv
<1>3. CASE Restart
  BY <1>3, ReloadedKeeps DEF Restart, GuardInv
<1>4. CASE StopInSave
  <2>1. NoFile.intact = FALSE
    BY DEF NoFile
  <2> QED
    BY <1>4, <2>1, ReloadedKeeps DEF StopInSave
<1>5. CASE GuardClock
  BY <1>5 DEF GuardClock, GuardInv, TableOfGuards, Diverse, OnFile
<1>6. CASE \E v \in VanguardSlots : VanguardFails(v)
  BY <1>1, <1>6 DEF VanguardFails
<1>7. CASE UNCHANGED guardVars
  BY <1>1, <1>7 DEF guardVars
<1> QED
  BY <1>2, <1>3, <1>4, <1>5, <1>6, <1>7, ReportsKeep, BiasCheckKeeps DEF GuardNext

\* The vanguards in memory and in the file are peers, or free slots.
Vanguards == {NoVanguard} \cup [valid : {TRUE}, fp : GuardPeers, rotates : Nat]
TableOfVanguards(vs) == vs \in [VanguardSlots -> Vanguards]
VanguardInv ==
    /\ TableOfVanguards(vanguards) /\ guardNow \in Nat
    /\ file.intact => TableOfVanguards(file.vanguards)

\* What the selection fills are tables of vanguards.
LEMMA FilledVanguards ==
    ASSUME NEW gs, NEW old, TableOfVanguards(old), guardNow \in Nat, NEW vs \in VanguardsFilled(gs, old)
    PROVE  TableOfVanguards(vs)
<1> DEFINE New(slot, peers) == {[valid |-> TRUE, fp |-> p, rotates |-> guardNow + life] :
                                   p \in peers, life \in VanguardLife[slot[1]]}
<1>1. vs \in [VanguardSlots -> UNION {New(w, GuardPeers) \cup {old[w]} : w \in VanguardSlots}]
  BY DEF VanguardsFilled
<1>2. ASSUME NEW w \in VanguardSlots PROVE New(w, GuardPeers) \subseteq Vanguards
  <2>1. w[1] \in 2..3
    BY DEF VanguardSlots
  <2>2. VanguardLife[w[1]] \subseteq Nat
    BY <2>1, GuardAssumption
  <2>3. ASSUME NEW life \in VanguardLife[w[1]] PROVE guardNow + life \in Nat
    BY <2>2
  <2>4. ASSUME NEW p \in GuardPeers, NEW life \in VanguardLife[w[1]]
        PROVE  [valid |-> TRUE, fp |-> p, rotates |-> guardNow + life] \in Vanguards
    BY <2>3 DEF Vanguards
  <2> QED
    BY <2>4
<1>3. ASSUME NEW w \in VanguardSlots PROVE old[w] \in Vanguards
  BY DEF TableOfVanguards
<1> HIDE DEF New
<1>4. UNION {New(w, GuardPeers) \cup {old[w]} : w \in VanguardSlots} \subseteq Vanguards
  BY <1>2, <1>3
<1> QED
  BY <1>1, <1>4 DEF TableOfVanguards

\* A selection leaves tables of vanguards, in memory and in the file.
LEMMA SelectVanguards ==
    ASSUME VanguardInv, NEW gs, Select(gs), guardNow' = guardNow
    PROVE  VanguardInv'
<1>1. PICK fg : \E fv \in VanguardsFilled(fg, vanguards) :
          vanguards' = fv /\ file' = Saved(fg, fv, Lapsed(gs), vanguards)
  BY DEF Select
<1>2. PICK fv \in VanguardsFilled(fg, vanguards) :
          vanguards' = fv /\ file' = Saved(fg, fv, Lapsed(gs), vanguards)
  BY <1>1
<1>3. TableOfVanguards(fv)
  BY FilledVanguards DEF VanguardInv
<1>4. file' = file \/ (file'.intact /\ file'.vanguards = fv)
  BY <1>2 DEF Saved, Image
<1> QED
  BY <1>2, <1>3, <1>4 DEF VanguardInv, TableOfVanguards

\* The vanguards keep their shape, also through the file and restarts.
LEMMA VanguardsKept ==
    /\ GuardInit => VanguardInv
    /\ VanguardInv /\ [GuardNext]_guardVars => VanguardInv'
<1>0. TableOfVanguards([v \in VanguardSlots |-> NoVanguard])
  BY DEF TableOfVanguards, Vanguards
<1>1. GuardInit => VanguardInv
  BY <1>0 DEF GuardInit, VanguardInv, NoFile
<1> SUFFICES ASSUME VanguardInv, [GuardNext]_guardVars PROVE VanguardInv'
  BY <1>1
<1>2. CASE UNCHANGED <<vanguards, file, guardNow>>
  BY <1>2 DEF VanguardInv, TableOfVanguards
<1>3. ASSUME GuardTick \/ (\E i \in GuardSlots : GuardFails(i)) PROVE VanguardInv'
  <2>1. CASE GuardTick
    BY <2>1, SelectVanguards DEF GuardTick
  <2>2. ASSUME NEW i \in GuardSlots, GuardFails(i) PROVE VanguardInv'
    <3>1. (\E g : Update(i, g)) \/ (\E gs : Select(gs) /\ UNCHANGED guardNow)
      BY <2>2 DEF GuardFails
    <3> QED
      BY <1>2, <3>1, SelectVanguards DEF Update
  <2> QED
    BY <1>3, <2>1, <2>2
<1>4. CASE BiasCheck
  <2>1. /\ vanguards' = vanguards /\ guardNow' = guardNow
        /\ file'.intact /\ file'.vanguards = vanguards
    BY <1>4 DEF BiasCheck, Image
  <2> QED
    BY <2>1 DEF VanguardInv, TableOfVanguards
<1>5. ASSUME NEW f, Reloaded(f), f.intact => TableOfVanguards(f.vanguards) PROVE VanguardInv'
  <2>1. /\ file' = f /\ guardNow' = guardNow
        /\ vanguards' = IF f.intact THEN f.vanguards ELSE [v \in VanguardSlots |-> NoVanguard]
    BY <1>5 DEF Reloaded
  <2> QED
    BY <1>0, <1>5, <2>1 DEF VanguardInv, TableOfVanguards
<1>6. CASE Restart
  BY <1>5, <1>6 DEF Restart, VanguardInv
<1>7. CASE StopInSave
  BY <1>5, <1>7 DEF StopInSave, NoFile
<1>8. CASE GuardClock
  BY <1>8 DEF GuardClock, VanguardInv, TableOfVanguards
<1>9. ASSUME NEW i \in GuardSlots, NEW good \in BOOLEAN, Attempt(i) \/ Outcome(i, good) PROVE VanguardInv'
  BY <1>2, <1>9 DEF Attempt, Outcome, Update
<1>10. ASSUME NEW v \in VanguardSlots, VanguardFails(v) PROVE VanguardInv'
  <2>1. \A w \in VanguardSlots : vanguards[w] \in Vanguards
    BY DEF VanguardInv, TableOfVanguards
  <2>2. ASSUME NEW x \in Vanguards, x.valid PROVE [x EXCEPT !.rotates = 0] \in Vanguards
    BY <2>2 DEF Vanguards, NoVanguard
  <2>3. TableOfVanguards(vanguards') /\ UNCHANGED <<file, guardNow>>
    BY <1>10, <2>1, <2>2 DEF VanguardFails, TableOfVanguards
  <2> QED
    BY <2>3 DEF VanguardInv, TableOfVanguards
<1>11. CASE UNCHANGED guardVars
  BY <1>2, <1>11 DEF guardVars
<1> QED
  BY <1>3, <1>4, <1>6, <1>7, <1>8, <1>9, <1>10, <1>11 DEF GuardNext

\* Guards and vanguards are peers.
LEMMA GuardTyped == GuardInv /\ VanguardInv => GuardTypeOK
<1> SUFFICES ASSUME GuardInv, VanguardInv PROVE GuardTypeOK
  OBVIOUS
<1>1. ASSUME NEW i \in ValidSlots(guards) PROVE guards[i].fp \in GuardPeers
  BY <1>1 DEF GuardInv, TableOfGuards, ValidSlots, GuardRecords, FilledRecords, EmptyRecords
<1>2. ASSUME NEW v \in VanguardSlots, vanguards[v].valid PROVE vanguards[v].fp \in GuardPeers
  <2>1. ASSUME NEW x \in Vanguards, x.valid PROVE x.fp \in GuardPeers
    <3>1. ~NoVanguard.valid
      BY DEF NoVanguard
    <3> QED
      BY <2>1, <3>1 DEF Vanguards
  <2> QED
    BY <1>2, <2>1 DEF VanguardInv, TableOfVanguards
<1> QED
  BY <1>1, <1>2 DEF GuardTypeOK

----------------------------------------------------------------------------
(* HopChecks. *)

Days == 0..MaxDay
CanaryEntries == [issued : Days, valid : BOOLEAN, verified : Days]
DescEntries == [relay : Relays, published : Days, fetched : Days, occupied : BOOLEAN]

\* An entry of the descriptor cache was young enough when it was fetched.
HopInv ==
    /\ day \in Days /\ canaryStore \in [Relays -> SUBSET Days] /\ descStore \in [Relays -> SUBSET Days]
    /\ canaries \in [Relays -> CanaryEntries] /\ descs \in [1..DescSlots -> DescEntries]
    /\ \A i \in 1..DescSlots : descs[i].occupied => descs[i].fetched <= descs[i].published + DescriptorAge

\* The days are numbers, from the first on.
LEMMA DaysAreNumbers == Days \subseteq Nat /\ 0 \in Days
BY HopChecksAssumption DEF Days

\* A descriptor young enough when it was fetched, and still in the cache, is
\* not older than the two ages together.
LEMMA HopInvSuffices ==
    ASSUME HopInv
    PROVE  DescriptorsAreRecent
<1> SUFFICES ASSUME NEW r \in Relays, NEW i \in CachedDesc(r)
             PROVE  day <= descs[i].published + DescriptorAge + RelayDescTTL
  BY DEF DescriptorsAreRecent
<1>1. /\ descs[i].published \in Nat /\ descs[i].fetched \in Nat /\ day \in Nat
      /\ DescriptorAge \in Nat /\ RelayDescTTL \in Nat
  BY HopChecksAssumption, DaysAreNumbers DEF HopInv, CachedDesc, DescEntries
<1>2. descs[i].fetched <= descs[i].published + DescriptorAge
  BY DEF HopInv, CachedDesc
<1>3. ~(day - descs[i].fetched > RelayDescTTL)
  BY DEF CachedDesc, StaleDesc
<1> QED
  BY <1>1, <1>2, <1>3

\* Empty caches satisfy the invariant.
LEMMA HopInvStarts ==
    ASSUME HopInit
    PROVE  HopInv
<1>1. EmptyDesc \in DescEntries /\ ~EmptyDesc.occupied
  BY DaysAreNumbers, HopChecksAssumption DEF EmptyDesc, DescEntries
<1>2. NoRecord \in CanaryEntries
  BY DaysAreNumbers DEF NoRecord, CanaryEntries
<1> QED
  BY <1>1, <1>2, DaysAreNumbers DEF HopInit, HopInv

\* The canaries keep their shape.
LEMMA CanaryStepKeeps ==
    ASSUME HopInv, NEW r \in Relays,
           PublishCanary(r) \/ FetchCanary(r) \/ RevokeCanary(r) \/ ConsiderHop(r)
    PROVE  HopInv'
<1>1. UNCHANGED <<day, descStore, descs>>
  BY DEF PublishCanary, FetchCanary, RevokeCanary, ConsiderHop
<1>2. canaryStore' \in [Relays -> SUBSET Days]
  BY DEF PublishCanary, FetchCanary, RevokeCanary, ConsiderHop, HopInv
<1>3. \A s \in Relays : \A b \in BOOLEAN : [canaries[s] EXCEPT !.valid = b] \in CanaryEntries
  BY DEF HopInv, CanaryEntries
<1>4. canaries' \in [Relays -> CanaryEntries]
  <2>1. CASE PublishCanary(r)
    BY <2>1 DEF PublishCanary, HopInv
  <2>2. CASE canaries' = [canaries EXCEPT ![r].valid = FALSE]
    <3>1. [canaries[r] EXCEPT !.valid = FALSE] \in CanaryEntries
      BY <1>3
    <3> QED
      BY <2>2, <3>1 DEF HopInv
  <2>3. CASE ConsiderHop(r)
    <3>1. PICK b \in BOOLEAN : canaries' = [canaries EXCEPT ![r].valid = b]
      <4>1. canaries' = [canaries EXCEPT ![r].valid = (canaries[r].valid /\ CheckPeer(r) # "EXPIRED")]
        BY <2>3 DEF ConsiderHop
      <4>2. (canaries[r].valid /\ CheckPeer(r) # "EXPIRED") \in BOOLEAN
        OBVIOUS
      <4> QED
        BY <4>1, <4>2
    <3>2. [canaries[r] EXCEPT !.valid = b] \in CanaryEntries
      BY <1>3
    <3> QED
      BY <3>1, <3>2 DEF HopInv
  <2>4. ASSUME NEW issued \in canaryStore[r], CanaryCached(r, issued)
        PROVE  canaries' \in [Relays -> CanaryEntries]
    <3> DEFINE entry == [issued |-> issued, valid |-> TRUE, verified |-> day]
    <3>1. entry \in CanaryEntries
      BY DEF HopInv, CanaryEntries
    <3>2. NoRecord \in CanaryEntries
      BY DaysAreNumbers DEF NoRecord, CanaryEntries
    <3>3. \/ canaries' = [canaries EXCEPT ![r] = entry]
          \/ \E v : canaries' = [canaries EXCEPT ![v] = NoRecord, ![r] = entry]
      BY <2>4 DEF CanaryCached
    <3> HIDE DEF entry
    <3> QED
      BY <3>1, <3>2, <3>3 DEF HopInv
  <2> QED
    BY <2>1, <2>2, <2>3, <2>4 DEF FetchCanary, RevokeCanary
<1> QED
  BY <1>1, <1>2, <1>4 DEF HopInv

\* on_desc_dht_result caches a descriptor of this age or less.
LEMMA FetchDescriptorKeeps ==
    ASSUME HopInv, NEW r \in Relays, FetchDescriptor(r)
    PROVE  HopInv'
<1> DEFINE OK(e) == e \in DescEntries /\ (e.occupied => e.fetched <= e.published + DescriptorAge)
<1>1. \A i \in 1..DescSlots : OK(descs[i])
  BY DEF HopInv
<1>2. \A i \in 1..DescSlots : OK([descs[i] EXCEPT !.occupied = FALSE])
  BY <1>1 DEF DescEntries
<1>3. FreedDescs \in [1..DescSlots -> DescEntries] /\ \A i \in 1..DescSlots : OK(FreedDescs[i])
  BY <1>1, <1>2 DEF FreedDescs
<1>4. UNCHANGED <<day, canaryStore, descStore, canaries>>
  BY DEF FetchDescriptor
<1>5. CASE descs' = FreedDescs
  BY <1>3, <1>4, <1>5 DEF HopInv
<1>6. ASSUME NEW published \in descStore[r], NEW i \in InsertSlots, FreshDescriptor(published),
             descs' = [FreedDescs EXCEPT ![i] =
                          [relay |-> r, published |-> published, fetched |-> day, occupied |-> TRUE]]
      PROVE  HopInv'
  <2> DEFINE e == [relay |-> r, published |-> published, fetched |-> day, occupied |-> TRUE]
  <2>1. OK(e)
    BY <1>6, DaysAreNumbers, HopChecksAssumption DEF FreshDescriptor, HopInv, DescEntries
  <2>2. descs' = [FreedDescs EXCEPT ![i] = e]
    BY <1>6
  <2> HIDE DEF e
  <2>3. descs' \in [1..DescSlots -> DescEntries] /\ \A j \in 1..DescSlots : descs'[j] = FreedDescs[j] \/ descs'[j] = e
    BY <1>3, <2>1, <2>2
  <2> QED
    BY <1>3, <1>4, <2>1, <2>3 DEF HopInv
<1> QED
  BY <1>5, <1>6 DEF FetchDescriptor

\* Every step keeps both caches.
LEMMA HopStepKeeps ==
    ASSUME HopInv, [CanaryNext \/ DescNext]_hopVars
    PROVE  HopInv'
<1>1. CASE UNCHANGED hopVars
  BY <1>1 DEF hopVars, HopInv
<1>2. CASE Day
  <2>1. day' \in Days
    BY <1>2, HopChecksAssumption DEF Day, Days, HopInv
  <2> QED
    BY <1>2, <2>1 DEF Day, HopInv
<1>3. ASSUME NEW r \in Relays, PublishRelayDesc(r) PROVE HopInv'
  BY <1>3 DEF PublishRelayDesc, HopInv
<1> QED
  BY <1>1, <1>2, <1>3, CanaryStepKeeps, FetchDescriptorKeeps DEF CanaryNext, DescNext

\* A hop that passes has no canary in the cache that has expired.
LEMMA HopStepSkips ==
    ASSUME HopInv, [CanaryNext \/ DescNext]_hopVars
    PROVE  [\A r \in used' \ used : canaries[r].valid => day <= canaries[r].issued + CanaryAge]_hopVars
<1>1. CASE used' \subseteq used
  BY <1>1
<1>2. ASSUME NEW r \in Relays, ConsiderHop(r), used' = used \cup {r}, ~Skipped(r)
      PROVE  \A q \in used' \ used : canaries[q].valid => day <= canaries[q].issued + CanaryAge
  <2> SUFFICES ASSUME canaries[r].valid PROVE day <= canaries[r].issued + CanaryAge
    BY <1>2
  <2>1. ~(day - canaries[r].issued > CanaryAge)
    BY <1>2 DEF Skipped, CheckPeer
  <2>2. day \in Nat /\ canaries[r].issued \in Nat /\ CanaryAge \in Nat
    BY HopChecksAssumption, DaysAreNumbers DEF HopInv, CanaryEntries
  <2> QED
    BY <2>1, <2>2
<1>3. CASE CanaryNext
  <2>1. CASE Day
    BY <1>1, <2>1 DEF Day
  <2>2. ASSUME NEW r \in Relays, PublishCanary(r) \/ FetchCanary(r) \/ RevokeCanary(r) PROVE used' \subseteq used
    BY <2>2 DEF PublishCanary, FetchCanary, RevokeCanary
  <2>3. ASSUME NEW r \in Relays, ConsiderHop(r)
        PROVE  used' \subseteq used \/ (used' = used \cup {r} /\ ~Skipped(r))
    BY <2>3 DEF ConsiderHop
  <2> QED
    BY <1>1, <1>2, <1>3, <2>1, <2>2, <2>3 DEF CanaryNext
<1>4. CASE DescNext
  BY <1>1, <1>4 DEF DescNext, Day, PublishRelayDesc, FetchDescriptor
<1> QED
  BY <1>3, <1>4

\* The canary cache has its size, a canary that is valid has a slot, and what passed are relays.
Slotted(r) == canaries[r].valid => r \in slots
SlotsFit ==
    /\ slots \subseteq Relays /\ IsFiniteSet(slots) /\ Cardinality(slots) <= CanarySlots
    /\ used \subseteq Relays
    /\ \A r \in Relays : Slotted(r)

\* A canary gets a slot when there is room, or takes the place of another.
LEMMA SlotsKept ==
    /\ HopInit => SlotsFit
    /\ HopInv /\ SlotsFit /\ [CanaryNext \/ DescNext]_hopVars => SlotsFit'
<1>0. CanarySlots \in Nat /\ ~NoRecord.valid
  BY HopChecksAssumption DEF NoRecord
<1>1. HopInit => SlotsFit
  BY <1>0, FS_EmptySet DEF HopInit, SlotsFit, Slotted
<1> SUFFICES ASSUME HopInv, SlotsFit, [CanaryNext \/ DescNext]_hopVars PROVE SlotsFit'
  BY <1>1
<1>2. /\ slots \subseteq Relays /\ IsFiniteSet(slots) /\ Cardinality(slots) <= CanarySlots
      /\ used \subseteq Relays /\ \A r \in Relays : Slotted(r)
  BY DEF SlotsFit
<1>3. canaries \in [Relays -> CanaryEntries]
  BY DEF HopInv
<1>4. ASSUME NEW r \in Relays, NEW issued, CanaryCached(r, issued), used' = used PROVE SlotsFit'
  <2> DEFINE entry == [issued |-> issued, valid |-> TRUE, verified |-> day]
  <2>1. \/ /\ r \in slots \/ Cardinality(slots) < CanarySlots
           /\ slots' = slots \cup {r} /\ canaries' = [canaries EXCEPT ![r] = entry]
        \/ \E v \in Evicted : /\ slots' = (slots \ {v}) \cup {r}
                             /\ canaries' = [canaries EXCEPT ![v] = NoRecord, ![r] = entry]
    BY <1>2, <1>4 DEF CanaryCached, Slotted
  <2> HIDE DEF entry
  <2>2. ASSUME slots' = slots \cup {r}, canaries' = [canaries EXCEPT ![r] = entry],
               r \in slots \/ Cardinality(slots) < CanarySlots
        PROVE  SlotsFit'
    <3>1. IsFiniteSet(slots') /\ Cardinality(slots') <= CanarySlots
      <4>1. CASE r \in slots
        <5>1. slots' = slots
          BY <2>2, <4>1
        <5> QED
          BY <1>2, <5>1
      <4>2. CASE Cardinality(slots) < CanarySlots
        <5>1. /\ IsFiniteSet(slots \cup {r}) /\ Cardinality(slots) \in Nat
              /\ Cardinality(slots \cup {r}) \in Nat /\ Cardinality(slots \cup {r}) <= Cardinality(slots) + 1
          BY <1>2, OneMore
        <5> QED
          BY <1>0, <2>2, <4>2, <5>1
      <4> QED
        BY <2>2, <4>1, <4>2
    <3>2. ASSUME NEW q \in Relays PROVE Slotted(q)'
      BY <1>2, <1>3, <2>2 DEF Slotted
    <3> QED
      BY <1>2, <1>4, <2>2, <3>1, <3>2 DEF SlotsFit
  <2>3. ASSUME NEW v \in Evicted, slots' = (slots \ {v}) \cup {r},
               canaries' = [canaries EXCEPT ![v] = NoRecord, ![r] = entry]
        PROVE  SlotsFit'
    <3>1. v \in slots /\ v \in Relays
      BY <1>2, <2>3 DEF Evicted
    <3>2. /\ IsFiniteSet((slots \ {v}) \cup {r}) /\ Cardinality((slots \ {v}) \cup {r}) \in Nat
          /\ Cardinality((slots \ {v}) \cup {r}) <= Cardinality(slots) /\ Cardinality(slots) \in Nat
      BY <1>2, <3>1, OneForAnother, FS_CardinalityType
    <3>3. IsFiniteSet(slots') /\ Cardinality(slots') <= CanarySlots
      BY <1>0, <1>2, <2>3, <3>2
    <3>4. ASSUME NEW q \in Relays PROVE Slotted(q)'
      BY <1>0, <1>2, <1>3, <2>3, <3>1 DEF Slotted
    <3> QED
      BY <1>2, <1>4, <2>3, <3>3, <3>4 DEF SlotsFit
  <2> QED
    BY <2>1, <2>2, <2>3
<1>5. ASSUME slots' = slots, used' \subseteq Relays,
             \A r \in Relays : canaries'[r].valid => canaries[r].valid
      PROVE  SlotsFit'
  BY <1>2, <1>5 DEF SlotsFit, Slotted
<1>6. ASSUME NEW r \in Relays, NEW b, canaries' = [canaries EXCEPT ![r].valid = b], b => canaries[r].valid,
             slots' = slots, used' \subseteq Relays
      PROVE  SlotsFit'
  <2>1. \A q \in Relays : canaries'[q].valid => canaries[q].valid
    BY <1>3, <1>6 DEF CanaryEntries
  <2> QED
    BY <1>5, <1>6, <2>1
<1>7. ASSUME NEW r \in Relays, PublishCanary(r) \/ FetchCanary(r) \/ RevokeCanary(r) \/ ConsiderHop(r)
      PROVE  SlotsFit'
  <2>1. CASE PublishCanary(r)
    BY <1>2, <1>5, <2>1 DEF PublishCanary
  <2>2. CASE FetchCanary(r)
    BY <1>2, <1>4, <1>6, <2>2 DEF FetchCanary
  <2>3. CASE RevokeCanary(r)
    BY <1>2, <1>6, <2>3 DEF RevokeCanary
  <2>4. CASE ConsiderHop(r)
    <3>1. used' \subseteq Relays /\ slots' = slots
      BY <1>2, <2>4 DEF ConsiderHop
    <3>2. canaries' = [canaries EXCEPT ![r].valid = (canaries[r].valid /\ CheckPeer(r) # "EXPIRED")]
      BY <2>4 DEF ConsiderHop
    <3> QED
      BY <1>6, <3>1, <3>2
  <2> QED
    BY <1>7, <2>1, <2>2, <2>3, <2>4
<1>8. ASSUME NEW r \in Relays, PublishRelayDesc(r) \/ FetchDescriptor(r) PROVE SlotsFit'
  BY <1>2, <1>5, <1>8 DEF PublishRelayDesc, FetchDescriptor
<1>9. CASE Day
  BY <1>2, <1>5, <1>9 DEF Day
<1>10. CASE UNCHANGED hopVars
  BY <1>2, <1>5, <1>10 DEF hopVars
<1> QED
  BY <1>7, <1>8, <1>9, <1>10 DEF CanaryNext, DescNext

\* The stores and caches have their shapes.
LEMMA HopTyped == HopInv /\ SlotsFit => HopTypeOK
BY DEF HopInv, SlotsFit, HopTypeOK, CanaryEntries, DescEntries, Days

----------------------------------------------------------------------------
(* RateScheduler. *)

\* The ring with its indices, and what PushedInOrder says.
RateShape ==
    /\ ring \in [Ring -> Nat] /\ head \in Ring /\ tail \in Ring /\ queued \in 0..RingSize
    /\ pushed \in Nat /\ tail = (head + queued) % RingSize
RateInv == RateShape /\ PushedInOrder

\* Positions from the head, in a ring, are told apart as long as there is room; how far a
\* slot is behind the tail follows from how far it is behind the head.
LEMMA RingSlots ==
    ASSUME NEW R \in Nat \ {0}, NEW h \in 0..(R - 1), NEW q \in 0..R, NEW t, t = (h + q) % R,
           NEW k \in 1..R
    PROVE  /\ (h + k - 1) % R \in 0..(R - 1)
           /\ (((h + k - 1) % R) + R - t) % R = IF k > q THEN k - 1 - q ELSE k - 1 - q + R
<1>1. (h + q) % R = IF h + q < R THEN h + q ELSE h + q - R
  OBVIOUS
<1>2. (h + k - 1) % R = IF h + k - 1 < R THEN h + k - 1 ELSE h + k - 1 - R
  OBVIOUS
<1> QED BY <1>1, <1>2

\* How far the k-th slot from the head is behind the tail.
LEMMA SlotOffset ==
    ASSUME RateInv, NEW k \in 1..RingSize
    PROVE  /\ (head + k - 1) % RingSize \in Ring
           /\ Offset((head + k - 1) % RingSize)
                = IF k > queued THEN k - 1 - queued ELSE k - 1 - queued + RingSize
<1>1. RingSize \in Nat \ {0}
  BY RateAssumption
<1>2. head \in 0..(RingSize - 1) /\ tail = (head + queued) % RingSize /\ queued \in 0..RingSize
  BY DEF RateInv, RateShape, Ring
<1> QED
  BY <1>1, <1>2, RingSlots DEF Offset, Ring

\* n slots further is as far as the remainder says.
LEMMA RingFurther ==
    ASSUME NEW R \in Nat \ {0}, NEW h \in 0..(R - 1), NEW q \in 0..R, NEW n \in 0..(R - q)
    PROVE  /\ (((h + q) % R) + n) % R = (h + (q + n)) % R
           /\ (h + (q + n)) % R \in 0..(R - 1)
<1>1. (h + q) % R = IF h + q < R THEN h + q ELSE h + q - R
  OBVIOUS
<1>2. (h + (q + n)) % R = IF h + (q + n) < R THEN h + (q + n) ELSE h + (q + n) - R
  OBVIOUS
<1> QED BY <1>1, <1>2

\* What is counted from the head is counted from the next slot with one less.
LEMMA RingNext ==
    ASSUME NEW R \in Nat \ {0}, NEW h \in 0..(R - 1), NEW q \in 1..R
    PROVE  /\ (((h + 1) % R) + (q - 1)) % R = (h + q) % R
           /\ (h + 1) % R \in 0..(R - 1)
<1>1. (h + q) % R = IF h + q < R THEN h + q ELSE h + q - R
  OBVIOUS
<1>2. (h + 1) % R = IF h + 1 < R THEN h + 1 ELSE 0
  OBVIOUS
<1> QED BY <1>1, <1>2

\* The frames of a batch with data fit where the batch fits.
LEMMA WithDataFits == ASSUME NEW b \in Seq(BOOLEAN) PROVE WithData(b) \in 0..Len(b)
<1>1. IsFiniteSet(1..Len(b)) /\ Cardinality(1..Len(b)) = Len(b)
  <2>1. Len(b) \in Nat
    BY LenProperties
  <2>2. 1 \in Int /\ Len(b) \in Int /\ Len(b) - 1 + 1 = Len(b) /\ (1 > Len(b) => Len(b) = 0)
    BY <2>1
  <2> QED
    BY <2>2, FS_Interval
<1>2. /\ Cardinality({k \in 1..Len(b) : b[k]}) <= Len(b)
      /\ IsFiniteSet({k \in 1..Len(b) : b[k]})
  BY <1>1, FS_Subset
<1>3. Cardinality({k \in 1..Len(b) : b[k]}) \in Nat
  BY <1>2, FS_CardinalityType
<1> QED BY <1>2, <1>3, LenProperties DEF WithData

\* What n more frames at the tail make of the ring.
LEMMA FramesAdded ==
    ASSUME RateInv, NEW n \in 0..(RingSize - queued), UNCHANGED <<head, emitted>>,
           pushed' = pushed + n, queued' = queued + n, tail' = (tail + n) % RingSize,
           ring' = [i \in Ring |-> IF Offset(i) < n THEN pushed + Offset(i) + 1 ELSE ring[i]],
           owed' = owed \o [k \in 1..n |-> pushed + k]
    PROVE  RateInv'
<1>1. RingSize \in Nat \ {0}
  BY RateAssumption
<1>2. /\ head \in 0..(RingSize - 1) /\ tail = (head + queued) % RingSize /\ queued \in 0..RingSize
      /\ pushed \in Nat
  BY DEF RateInv, RateShape, Ring
<1>3. \A i \in Ring : Offset(i) \in Nat
  BY <1>1, <1>2 DEF RateInv, RateShape, Offset, Ring
<1>4. RateShape'
  <2>1. ring' \in [Ring -> Nat]
    <3>1. \A i \in Ring : ring[i] \in Nat /\ pushed + Offset(i) + 1 \in Nat
      <4>1. ring \in [Ring -> Nat]
        BY DEF RateInv, RateShape
      <4> QED
        BY <1>2, <1>3, <4>1
    <3> QED
      BY <3>1
  <2>2. tail' = (head + (queued + n)) % RingSize /\ tail' \in 0..(RingSize - 1)
    BY <1>1, <1>2, RingFurther
  <2> QED
    BY <1>1, <1>2, <2>1, <2>2 DEF RateInv, RateShape, Ring
<1>5. ASSUME NEW k \in 1..(queued + n)
      PROVE  ring'[(head + k - 1) % RingSize] = IF k <= queued THEN ring[(head + k - 1) % RingSize]
                                                 ELSE pushed + (k - queued)
  <2> DEFINE i == (head + k - 1) % RingSize
  <2>1. k \in 1..RingSize
    BY <1>1, <1>2
  <2>2. i \in Ring /\ Offset(i) = IF k > queued THEN k - 1 - queued ELSE k - 1 - queued + RingSize
    BY <1>2, <2>1, SlotOffset
  <2>3. ring'[i] = IF Offset(i) < n THEN pushed + Offset(i) + 1 ELSE ring[i]
    BY <2>2
  <2> QED
    BY <1>1, <1>2, <2>1, <2>2, <2>3
<1>6. /\ DOMAIN owed' = 1..(queued + n) /\ owed' \in Seq(Nat)
      /\ \A k \in 1..(queued + n) :
            owed'[k] = IF k <= queued THEN ring[(head + k - 1) % RingSize] ELSE pushed + (k - queued)
  <2> DEFINE new == [k \in 1..n |-> pushed + k]
  <2>1. owed = [k \in 1..queued |-> ring[(head + k - 1) % RingSize]]
    BY DEF RateInv, PushedInOrder
  <2>2. \A k \in 1..queued : ring[(head + k - 1) % RingSize] \in Nat
    BY <1>1, <1>2, RingSlots DEF RateInv, RateShape, Ring
  <2>3. /\ owed \in Seq(Nat) /\ Len(owed) = queued
        /\ \A k \in 1..queued : owed[k] = ring[(head + k - 1) % RingSize]
    BY <1>2, <2>1, <2>2
  <2>4. n \in Nat
    BY <1>1, <1>2
  <2>5. new \in Seq(Nat) /\ Len(new) = n /\ \A k \in 1..n : new[k] = pushed + k
    BY <1>2, <2>4
  <2>6. owed' = owed \o new
    OBVIOUS
  <2> HIDE DEF new
  <2>7. /\ owed' \in Seq(Nat) /\ Len(owed') = queued + n
        /\ \A k \in 1..(queued + n) : owed'[k] = IF k <= queued THEN owed[k] ELSE new[k - queued]
    <3>1. /\ owed \o new \in Seq(Nat) /\ Len(owed \o new) = Len(owed) + Len(new)
          /\ \A k \in 1..(Len(owed) + Len(new)) :
                (owed \o new)[k] = IF k <= Len(owed) THEN owed[k] ELSE new[k - Len(owed)]
      <4>1. new \in Seq(Nat) /\ owed \in Seq(Nat)
        BY <2>3, <2>5
      <4> QED
        BY <4>1, ConcatProperties
    <3> QED
      BY <2>3, <2>5, <2>6, <3>1
  <2>8. \A k \in 1..(queued + n) : k <= queued => k \in 1..queued
    BY <1>2, <2>4
  <2>9. \A k \in 1..(queued + n) : ~(k <= queued) => k - queued \in 1..n
    BY <1>2, <2>4
  <2> QED
    BY <2>3, <2>5, <2>7, <2>8, <2>9, LenProperties
<1>7. owed' = [k \in 1..queued' |-> ring'[(head' + k - 1) % RingSize]]
  <2>1. owed' = [k \in DOMAIN owed' |-> owed'[k]]
    BY <1>6
  <2>2. \A k \in 1..(queued + n) : owed'[k] = ring'[(head + k - 1) % RingSize]
    BY <1>5, <1>6
  <2> QED
    BY <1>6, <2>1, <2>2
<1> QED
  BY <1>4, <1>7 DEF RateInv, PushedInOrder

\* A push, and a batch, are frames added at the tail.
LEMMA PushKeepsOrder == ASSUME RateInv, Push PROVE RateInv'
<1>1. RingSize \in Nat \ {0}
  BY RateAssumption
<1>2. /\ head \in 0..(RingSize - 1) /\ tail = (head + queued) % RingSize /\ queued \in 0..RingSize
      /\ pushed \in Nat /\ tail \in Ring /\ ring \in [Ring -> Nat]
  BY DEF RateInv, RateShape, Ring
<1>3. 1 \in 0..(RingSize - queued)
  BY <1>1, <1>2 DEF Push
<1>4. \A i \in Ring : Offset(i) < 1 <=> i = tail
  <2> SUFFICES ASSUME NEW i \in 0..(RingSize - 1) PROVE (i + RingSize - tail) % RingSize < 1 <=> i = tail
    BY DEF Offset, Ring
  <2>1. tail \in 0..(RingSize - 1)
    BY <1>2 DEF Ring
  <2>2. (i + RingSize - tail) % RingSize = IF i < tail THEN i + RingSize - tail ELSE i - tail
    BY <1>1, <2>1
  <2> QED
    BY <1>1, <2>1, <2>2
<1>5. Offset(tail) = 0
  BY <1>1, <1>2, <1>4, RingFurther DEF Offset, Ring
<1>6. ring' = [i \in Ring |-> IF Offset(i) < 1 THEN pushed + Offset(i) + 1 ELSE ring[i]]
  <2>1. ring' = [i \in Ring |-> IF i = tail THEN pushed + 1 ELSE ring[i]]
    BY <1>2 DEF Push
  <2>2. \A i \in Ring : (IF i = tail THEN pushed + 1 ELSE ring[i])
                         = IF Offset(i) < 1 THEN pushed + Offset(i) + 1 ELSE ring[i]
    BY <1>2, <1>4, <1>5
  <2> QED
    BY <2>1, <2>2
<1>7. owed' = owed \o [k \in 1..1 |-> pushed + k]
  <2>1. [k \in 1..1 |-> pushed + k] = <<pushed + 1>>
    BY <1>2
  <2>2. owed \in Seq(Nat)
    <3>1. \A k \in 1..queued : ring[(head + k - 1) % RingSize] \in Nat
      BY <1>1, <1>2, RingSlots DEF Ring
    <3> QED
      BY <1>2, <3>1 DEF RateInv, PushedInOrder
  <2>3. owed' = Append(owed, pushed + 1)
    BY DEF Push
  <2> QED
    BY <1>2, <2>1, <2>2, <2>3, AppendIsConcat
<1> QED
  BY <1>3, <1>6, <1>7, FramesAdded DEF Push, After

\* A batch, of which frames without data are left out.
LEMMA BatchKeepsOrder == ASSUME RateInv, NEW b \in Batches, PushBatch(b) PROVE RateInv'
<1>1. b \in Seq(BOOLEAN) /\ RingSize \in Nat \ {0}
  BY RateAssumption
<1>2. WithData(b) \in 0..Len(b) /\ Len(b) \in Nat
  BY <1>1, WithDataFits, LenProperties
<1>3. WithData(b) \in 0..(RingSize - queued)
  BY <1>1, <1>2 DEF PushBatch, RateInv, RateShape
<1> QED
  BY <1>3, FramesAdded DEF PushBatch

\* A batch that failed leaves the waiting frames as they were.
LEMMA FailureKeepsOrder == ASSUME RateInv, NEW b \in Batches, PushFails(b) PROVE RateInv'
<1>1. b \in Seq(BOOLEAN) /\ RingSize \in Nat \ {0}
  BY RateAssumption
<1>2. WithData(b) \in 0..Len(b) /\ Len(b) \in Nat
  BY <1>1, WithDataFits, LenProperties
<1>3. PICK n \in 0..(WithData(b) - 1) : RolledBack(n)
  BY DEF PushFails
<1>4. /\ head \in 0..(RingSize - 1) /\ tail = (head + queued) % RingSize /\ queued \in 0..RingSize
      /\ ring \in [Ring -> Nat]
  BY DEF RateInv, RateShape, Ring
<1>5. n \in 0..(RingSize - queued)
  BY <1>1, <1>2, <1>3, <1>4 DEF PushFails
<1>6. ring' = [i \in Ring |-> IF Offset(i) < n THEN 0 ELSE ring[i]] /\ tail' = tail
  BY <1>3 DEF RolledBack
<1>7. ASSUME NEW k \in 1..queued
      PROVE  ring'[(head + k - 1) % RingSize] = ring[(head + k - 1) % RingSize]
  <2> DEFINE i == (head + k - 1) % RingSize
  <2>1. k \in 1..RingSize
    BY <1>1, <1>4
  <2>2. i \in Ring /\ Offset(i) = k - 1 - queued + RingSize
    BY <1>4, <2>1, SlotOffset
  <2>3. ~(Offset(i) < n)
    BY <1>1, <1>4, <1>5, <2>1, <2>2
  <2> QED
    BY <1>6, <2>2, <2>3
<1>8. ring' \in [Ring -> Nat]
  BY <1>4, <1>6
<1>9. RateShape'
  BY <1>6, <1>8 DEF RateInv, RateShape, PushFails
<1> QED
  BY <1>7, <1>9 DEF RateInv, PushedInOrder, PushFails

\* The frame a tick sends, or drops, is the one that is due.
LEMMA TickKeepsOrder == ASSUME RateInv, FrameTick PROVE RateInv'
<1>1. RingSize \in Nat \ {0}
  BY RateAssumption
<1>2. /\ head \in 0..(RingSize - 1) /\ tail = (head + queued) % RingSize /\ queued \in 0..RingSize
      /\ ring \in [Ring -> Nat] /\ tail \in Ring /\ pushed \in Nat
  BY DEF RateInv, RateShape, Ring
<1>3. owed = [k \in 1..queued |-> ring[(head + k - 1) % RingSize]]
  BY DEF RateInv, PushedInOrder
<1>4. CASE queued = 0
  <2>1. owed = <<>>
    BY <1>3, <1>4
  <2>2. emitted'.frame = emitted'.due
    BY <1>4, <2>1 DEF FrameTick, RateInv, PushedInOrder
  <2> QED
    BY <1>2, <1>3, <1>4, <2>2 DEF FrameTick, RateInv, RateShape, PushedInOrder
<1>5. CASE queued > 0
  <2>1. \A k \in 1..queued : ring[(head + k - 1) % RingSize] \in Nat
    BY <1>1, <1>2, RingSlots DEF Ring
  <2>2. owed \in Seq(Nat) /\ Len(owed) = queued
    BY <1>2, <1>3, <2>1
  <2>3. owed # <<>> /\ Head(owed) = ring[head]
    <3>1. (head + 1 - 1) % RingSize = head
      BY <1>1, <1>2
    <3>2. 1 \in 1..queued
      BY <1>2, <1>5
    <3>3. owed[1] = ring[head]
      BY <1>3, <3>1, <3>2
    <3> QED
      BY <1>2, <1>5, <2>2, <3>3, HeadTailProperties
  <2>4. emitted'.frame = emitted'.due
    BY <1>5, <2>3 DEF FrameTick, RateInv, PushedInOrder
  <2>5. /\ ring' = [ring EXCEPT ![head] = 0] /\ head' = (head + 1) % RingSize
        /\ queued' = queued - 1 /\ owed' = Tail(owed) /\ UNCHANGED <<tail, pushed>>
    BY <1>2, <1>5, <2>3 DEF FrameTick, After
  <2>6. head' \in Ring /\ tail' = (head' + queued') % RingSize /\ queued' \in 0..RingSize
    <3>2. /\ (((head + 1) % RingSize) + (queued - 1)) % RingSize = (head + queued) % RingSize
          /\ (head + 1) % RingSize \in 0..(RingSize - 1)
      <4>1. queued \in 1..RingSize
        BY <1>1, <1>2, <1>5
      <4> QED
        BY <1>1, <1>2, <4>1, RingNext
    <3>3. queued - 1 \in 0..RingSize
      BY <1>1, <1>2, <1>5
    <3> QED
      BY <2>5, <3>2, <1>2, <3>3 DEF Ring
  <2>7. RateShape'
    BY <1>2, <2>5, <2>6 DEF RateShape
  <2>8. ASSUME NEW k \in 1..(queued - 1)
        PROVE  ring'[(head' + k - 1) % RingSize] = owed[k + 1]
    <3>1. k + 1 \in 1..queued /\ k \in 1..RingSize /\ k <= RingSize - 1
      BY <1>1, <1>2
    <3>2. (head' + k - 1) % RingSize = (head + (k + 1) - 1) % RingSize
      <4>1. /\ (((head + 1) % RingSize) + (k - 1)) % RingSize = (head + k) % RingSize
            /\ (head + 1) % RingSize \in 0..(RingSize - 1)
        BY <1>1, <1>2, <3>1, RingNext
      <4>2. head' = (head + 1) % RingSize
        BY <2>5
      <4>3. head' + k - 1 = head' + (k - 1) /\ head + (k + 1) - 1 = head + k
        BY <1>2, <3>1, <4>1, <4>2
      <4> QED
        BY <4>1, <4>2, <4>3
    <3>3. owed[k + 1] = ring[(head + (k + 1) - 1) % RingSize]
      BY <1>3, <3>1
    <3>4. (head + (k + 1) - 1) % RingSize # head /\ (head + (k + 1) - 1) % RingSize \in Ring
      <4>1. head + (k + 1) - 1 = head + k
        BY <1>2, <3>1
      <4>2. (head + k) % RingSize = IF head + k < RingSize THEN head + k ELSE head + k - RingSize
        BY <1>1, <1>2, <3>1
      <4> QED
        BY <1>1, <1>2, <3>1, <4>1, <4>2, SMTT(30) DEF Ring
    <3> QED
      BY <1>2, <2>5, <3>2, <3>3, <3>4
  <2>9. owed' = [k \in 1..queued' |-> ring'[(head' + k - 1) % RingSize]]
    <3>1. Tail(owed) = [k \in 1..(queued - 1) |-> owed[k + 1]]
      <4>1. /\ Tail(owed) \in Seq(Nat) /\ Len(Tail(owed)) = queued - 1
            /\ \A k \in 1..(queued - 1) : Tail(owed)[k] = owed[k + 1]
        BY <2>2, <2>3, HeadTailProperties
      <4>2. Tail(owed) = [k \in 1..Len(Tail(owed)) |-> Tail(owed)[k]]
        BY <4>1, LenProperties
      <4> QED
        BY <4>1, <4>2
    <3> QED
      BY <2>5, <2>8, <3>1
  <2> QED
    BY <2>4, <2>7, <2>9 DEF RateInv, PushedInOrder
<1> QED
  BY <1>2, <1>4, <1>5

\* Nothing is pushed at first.
LEMMA RateInvStarts == RateInit => RateInv
BY RateAssumption DEF RateInit, RateInv, RateShape, PushedInOrder, Ring

\* Each action of the scheduler keeps it.
LEMMA RateStepKeeps == RateInv /\ [RateNext]_rateVars => RateInv'
<1> SUFFICES ASSUME RateInv, [RateNext]_rateVars PROVE RateInv'
  OBVIOUS
<1>1. ASSUME UNCHANGED <<ring, head, tail, queued, pushed, owed, emitted>> PROVE RateInv'
  BY <1>1 DEF RateInv, RateShape, PushedInOrder
<1>2. ASSUME StartStop \/ NoiseTick PROVE RateInv'
  BY <1>1, <1>2 DEF StartStop, NoiseTick
<1> QED
  BY <1>1, <1>2, PushKeepsOrder, BatchKeepsOrder, FailureKeepsOrder, TickKeepsOrder
  DEF RateNext, rateVars

\* Frames are sent in the order of the pushes, a batch as a whole or not at all, for any ring,
\* any batches and wherever memory runs out (trellis_rate_scheduler_push_batch, sched_tick).
THEOREM PushedInOrderHolds == RateSpec => []PushedInOrder
<1>1. RateInv => PushedInOrder
  BY DEF RateInv
<1> QED
  BY <1>1, RateInvStarts, RateStepKeeps, PTL DEF RateSpec

\* The ring holds frames that were pushed, and no more dummies are owed than the cap.
NoiseState == [pending : 0..NoiseCap, ticks : 0..NoiseWindow]
RingFits == pushed \in 0..MaxPushed /\ \A i \in Ring : ring[i] \in 0..pushed
RateFits == RingFits /\ pushing \in BOOLEAN /\ noise \in NoiseState

\* The bounds are numbers.
LEMMA RateBounds ==
    /\ RingSize \in Nat \ {0} /\ NoiseWindow \in Nat /\ MaxPushed \in Nat /\ NoiseCap \in Nat
    /\ \A b \in Batches : b \in Seq(BOOLEAN)
  BY RateAssumption DEF RateAssumption

\* The tick that checks the noise keeps it within the cap.
LEMMA NoiseFits == ASSUME noise \in NoiseState PROVE NoiseChecked \subseteq NoiseState
<1>1. CASE noise.ticks < NoiseWindow
  <2>1. noise.ticks + 1 \in 0..NoiseWindow
    BY <1>1, RateBounds DEF NoiseState
  <2>2. [noise EXCEPT !.ticks = @ + 1] \in NoiseState
    BY <2>1 DEF NoiseState
  <2> QED
    BY <1>1, <2>2 DEF NoiseChecked
<1>2. CASE ~(noise.ticks < NoiseWindow)
  <2>1. ASSUME NEW extra \in 0..NoiseCap
        PROVE  [pending |-> IF extra > 0 THEN extra ELSE noise.pending, ticks |-> 0] \in NoiseState
    <3>1. 0 \in 0..NoiseWindow
      BY RateBounds
    <3> QED
      BY <3>1 DEF NoiseState
  <2>2. NoiseChecked = {[pending |-> IF extra > 0 THEN extra ELSE noise.pending, ticks |-> 0] : extra \in 0..NoiseCap}
    BY <1>2 DEF NoiseChecked
  <2> QED
    BY <2>1, <2>2
<1> QED
  BY <1>1, <1>2

\* A tick of noise takes one of the dummies.
LEMMA NoiseTickFits == ASSUME noise \in NoiseState, NoiseTick PROVE noise' \in NoiseState
<1>1. PICK n \in NoiseChecked : n.pending > 0 /\ noise' = [n EXCEPT !.pending = @ - 1]
  BY DEF NoiseTick
<1>2. n \in NoiseState
  BY <1>1, NoiseFits
<1>3. n.pending - 1 \in 0..NoiseCap
  BY <1>1, <1>2, RateBounds DEF NoiseState
<1> QED
  BY <1>1, <1>2, <1>3 DEF NoiseState

\* Frames that are added are numbered up to the last that was pushed.
LEMMA AddedFits ==
    ASSUME RateInv, RingFits, NEW n \in Nat, pushed + n <= MaxPushed, pushed' = pushed + n,
           ring' = [i \in Ring |-> IF Offset(i) < n THEN pushed + Offset(i) + 1 ELSE ring[i]]
    PROVE  RingFits'
<1>1. /\ head \in 0..(RingSize - 1) /\ tail \in 0..(RingSize - 1) /\ pushed \in Nat
      /\ \A i \in Ring : ring[i] \in 0..pushed
  BY DEF RateInv, RateShape, Ring, RingFits
<1>2. ASSUME NEW i \in Ring PROVE Offset(i) \in Nat
  <2>1. i + RingSize - tail \in Nat
    BY <1>1, RateBounds DEF Ring
  <2> QED
    BY <2>1, RateBounds DEF Offset
<1>3. ASSUME NEW i \in Ring PROVE ring'[i] \in 0..pushed'
  <2> DEFINE o == Offset(i)
  <2>1. o \in Nat /\ ring[i] \in 0..pushed /\ ring'[i] = IF o < n THEN pushed + o + 1 ELSE ring[i]
    BY <1>1, <1>2
  <2> HIDE DEF o
  <2> QED
    BY <1>1, <2>1
<1>4. pushed' \in 0..MaxPushed
  BY <1>1, RateBounds
<1> QED
  BY <1>3, <1>4 DEF RingFits

\* A frame that leaves the ring, or batches that were rolled back, leave empty slots.
LEMMA FreedFits ==
    ASSUME RingFits, pushed' = pushed, \A i \in Ring : ring'[i] = ring[i] \/ ring'[i] = 0
    PROVE  RingFits'
BY RateBounds DEF RingFits

\* One frame is pushed.
LEMMA PushFits == ASSUME RateInv, RingFits, Push PROVE RingFits'
<1>1. /\ pushed \in 0..MaxPushed /\ \A i \in Ring : ring[i] \in 0..pushed
  BY DEF RingFits
<1>2. ring \in [Ring -> Nat] /\ ring' = [ring EXCEPT ![tail] = pushed + 1]
  BY DEF RateInv, RateShape, Push
<1>3. pushed < MaxPushed /\ pushed' = pushed + 1
  BY DEF Push
<1>4. ASSUME NEW i \in Ring PROVE ring'[i] \in 0..pushed'
  BY <1>1, <1>2, <1>3, RateBounds
<1> QED
  BY <1>1, <1>3, <1>4, RateBounds DEF RingFits

\* A batch is pushed, or rolled back.
LEMMA BatchFits ==
    ASSUME RateInv, RingFits, NEW b \in Batches, PushBatch(b) \/ PushFails(b)
    PROVE  RingFits'
<1>1. CASE PushBatch(b)
  <2>1. WithData(b) \in 0..Len(b) /\ Len(b) \in Nat
    BY RateBounds, WithDataFits, LenProperties
  <2>2. WithData(b) \in Nat
    BY <2>1
  <2> QED
    BY <1>1, <2>2, AddedFits DEF PushBatch
<1>2. CASE PushFails(b)
  <2>1. PICK n \in 0..(WithData(b) - 1) : RolledBack(n)
    BY <1>2 DEF PushFails
  <2>2. \A i \in Ring : ring'[i] = ring[i] \/ ring'[i] = 0
    BY <2>1 DEF RolledBack
  <2> QED
    BY <1>2, <2>2, FreedFits DEF PushFails
<1> QED
  BY <1>1, <1>2

\* A tick sends the frame at the head.
LEMMA FrameTickFits == ASSUME RateInv, RateFits, FrameTick PROVE RateFits'
<1>1. noise' \in NoiseState
  <2>1. noise' \in NoiseChecked
    BY DEF FrameTick
  <2> QED
    BY <2>1, NoiseFits DEF RateFits
<1>2. ring \in [Ring -> Nat]
  BY DEF RateInv, RateShape
<1>3. \A i \in Ring : ring'[i] = ring[i] \/ ring'[i] = 0
  <2>1. ring' = ring \/ ring' = [ring EXCEPT ![head] = 0]
    BY DEF FrameTick
  <2> QED
    BY <1>2, <2>1
<1>4. pushed' = pushed /\ pushing' = pushing
  BY DEF FrameTick
<1>5. RingFits'
  BY <1>3, <1>4, FreedFits DEF RateFits
<1> QED
  BY <1>1, <1>4, <1>5 DEF RateFits

\* The shape of the scheduler is kept.
LEMMA RateFitsKept ==
    /\ RateInit => RateFits
    /\ RateInv /\ RateFits /\ [RateNext]_rateVars => RateFits'
<1>1. ASSUME RateInit PROVE RateFits
  <2>1. [pending |-> 0, ticks |-> 0] \in NoiseState
    BY RateBounds DEF NoiseState
  <2>2. RingFits
    BY <1>1, RateBounds DEF RateInit, RingFits
  <2> QED
    BY <1>1, <2>1, <2>2 DEF RateInit, RateFits
<1> SUFFICES ASSUME RateInv, RateFits, [RateNext]_rateVars PROVE RateFits'
  BY <1>1
<1>2. CASE UNCHANGED rateVars
  BY <1>2 DEF rateVars, RateFits, RingFits
<1>3. CASE StartStop
  BY <1>3 DEF StartStop, RateFits, RingFits
<1>4. CASE NoiseTick
  <2>1. noise' \in NoiseState
    BY <1>4, NoiseTickFits DEF RateFits
  <2> QED
    BY <1>4, <2>1 DEF NoiseTick, RateFits, RingFits
<1>5. CASE Push
  <2>1. RingFits'
    BY <1>5, PushFits DEF RateFits
  <2> QED
    BY <1>5, <2>1 DEF Push, RateFits
<1>6. ASSUME NEW b \in Batches, PushBatch(b) \/ PushFails(b) PROVE RateFits'
  <2>1. RingFits'
    BY <1>6, BatchFits DEF RateFits
  <2> QED
    BY <1>6, <2>1 DEF PushBatch, PushFails, RateFits
<1> QED
  BY <1>2, <1>3, <1>4, <1>5, <1>6, FrameTickFits DEF RateNext

\* So the scheduler has its type.
LEMMA RateTyped == RateInv /\ RateFits => RateTypeOK
<1> SUFFICES ASSUME RateInv, RateFits PROVE RateTypeOK
  OBVIOUS
<1>1. ring \in [Ring -> 0..MaxPushed]
  <2>1. ring \in [Ring -> Nat]
    BY DEF RateInv, RateShape
  <2>2. \A i \in Ring : ring[i] \in 0..MaxPushed
    BY RateBounds DEF RateFits, RingFits
  <2> QED
    BY <2>1, <2>2
<1> QED
  BY <1>1 DEF RateInv, RateShape, RateFits, RingFits, NoiseState, RateTypeOK

----------------------------------------------------------------------------
(* FrameStream. *)

\* The first n steps of the parser on a connection s.
StepsOf(r, s, n) == r[0] = Parser(s, "top") /\ \A k \in 1..n : r[k] = ParserStep(r[k - 1])

\* The parser can be run for any number of steps: the least number without such a run is one more
\* than a number with one.
LEMMA StepsExist == ASSUME NEW s, NEW n0 \in Nat PROVE \E r : StepsOf(r, s, n0)
<1> DEFINE Bad == {n \in Nat : ~\E r : StepsOf(r, s, n)}
<1>1. SUFFICES ASSUME n0 \in Bad PROVE FALSE
  OBVIOUS
<1>2. PICK n \in Bad : \A m \in Bad : n <= m
  <2>1. Bad \subseteq Nat /\ Bad # {}
    BY <1>1
  <2> HIDE DEF Bad
  <2> QED
    BY <2>1, LeastNatural
<1>3. n # 0
  <2> DEFINE r == [k \in {0} |-> Parser(s, "top")]
  <2>1. r[0] = Parser(s, "top") /\ 1..0 = {}
    OBVIOUS
  <2> HIDE DEF r
  <2>2. StepsOf(r, s, 0)
    BY <2>1 DEF StepsOf
  <2> QED
    BY <2>2
<1>4. n - 1 \in Nat /\ n \in Nat /\ ~(n <= n - 1)
  BY <1>2, <1>3
<1>5. PICK q : StepsOf(q, s, n - 1)
  BY <1>2, <1>4
<1> DEFINE r == [k \in 0..n |-> IF k = n THEN ParserStep(q[n - 1]) ELSE q[k]]
<1>6. StepsOf(r, s, n)
  <2>1. r[0] = Parser(s, "top")
    BY <1>3, <1>4, <1>5 DEF StepsOf
  <2>2. ASSUME NEW k \in 1..n PROVE r[k] = ParserStep(r[k - 1])
    <3>1. k - 1 \in 0..n /\ k \in 0..n /\ k - 1 # n
      BY <1>4
    <3>2. r[k - 1] = q[k - 1]
      BY <3>1
    <3>3. CASE k = n
      BY <3>1, <3>2, <3>3
    <3>4. CASE k # n
      <4>1. k \in 1..(n - 1)
        BY <1>4, <3>4
      <4>2. q[k] = ParserStep(q[k - 1])
        BY <1>5, <4>1 DEF StepsOf
      <4>3. r[k] = q[k]
        BY <3>1, <3>4
      <4> QED
        BY <3>2, <4>2, <4>3
    <3> QED
      BY <3>3, <3>4
  <2> HIDE DEF r
  <2> QED
    BY <2>1, <2>2 DEF StepsOf
<1> QED
  BY <1>2, <1>6

\* What is delivered is where the parser is after as many steps.
LEMMA DeliverSteps ==
    ASSUME NEW s, Len(s.buf) \in Nat
    PROVE  \E r : StepsOf(r, s, Len(s.buf) + 2) /\ Deliver(s) = r[Len(s.buf) + 2].conn
<1> DEFINE n == Len(s.buf) + 2
           top(S) == CHOOSE x \in S : \A y \in S : x >= y
           Next1(f) == [S \in SUBSET (1..n) |->
                          IF S = {} THEN Parser(s, "top") ELSE ParserStep(f[S \ {top(S)}])]
           iter == CHOOSE f : f = Next1(f)
<1>1. n \in Nat
  OBVIOUS
<1>2. Deliver(s) = iter[1..n].conn
  <2>1. DOMAIN [i \in 1..(Len(s.buf) + 2) |-> i] = 1..n
    OBVIOUS
  <2> QED
    BY <2>1 DEF Deliver, FoldLeft, MapThenFoldSet, Max
<1> HIDE DEF n
<1>3. \A S \in SUBSET (1..n) : S # {} => top(S) \in S
  <2> SUFFICES ASSUME NEW S \in SUBSET (1..n), S # {} PROVE \E x \in S : \A y \in S : x >= y
    OBVIOUS
  <2> DEFINE D == {n - x : x \in S}
  <2>1. D \subseteq Nat /\ D # {}
    <3>1. \A x \in 1..n : n - x \in Nat
      BY <1>1
    <3> QED
      BY <3>1
  <2>2. PICK d \in D : \A e \in D : d <= e
    <3> HIDE DEF D
    <3> QED
      BY <2>1, LeastNatural
  <2>3. PICK x \in S : d = n - x
    OBVIOUS
  <2>4. ASSUME NEW y \in S PROVE x >= y
    <3>1. n - y \in D /\ x \in Nat /\ y \in Nat
      OBVIOUS
    <3>2. n - x <= n - y
      BY <2>2, <2>3, <3>1
    <3> QED
      BY <1>1, <3>1, <3>2
  <2> QED
    BY <2>4
<1>4. PICK q : StepsOf(q, s, n)
  BY <1>1, StepsExist
<1> DEFINE f == [S \in SUBSET (1..n) |-> q[Cardinality(S)]]
<1>5. f = Next1(f)
  <2>1. ASSUME NEW S \in SUBSET (1..n), S # {} PROVE f[S] = ParserStep(f[S \ {top(S)}])
    <3>1. IsFiniteSet(1..n) /\ Cardinality(1..n) = n
      BY <1>1, FS_Interval
    <3> DEFINE x == top(S)
    <3>2. x \in S
      BY <1>3, <2>1
    <3> HIDE DEF x
    <3>3. IsFiniteSet(S) /\ Cardinality(S) <= n /\ Cardinality(S) \in Nat
      BY <3>1, FS_Subset, FS_CardinalityType
    <3>4. Cardinality(S \ {x}) = Cardinality(S) - 1 /\ Cardinality(S) # 0
      BY <3>2, <3>3, FS_RemoveElement, FS_EmptySet
    <3>5. Cardinality(S) \in 1..n
      BY <1>1, <3>3, <3>4
    <3>6. q[Cardinality(S)] = ParserStep(q[Cardinality(S) - 1])
      BY <1>4, <3>5 DEF StepsOf
    <3>7. f[S] = q[Cardinality(S)] /\ f[S \ {x}] = q[Cardinality(S) - 1]
      BY <3>4
    <3> HIDE DEF f
    <3> QED
      BY <3>6, <3>7 DEF x
  <2>2. f[{}] = Parser(s, "top")
    <3>1. Cardinality({}) = 0
      BY FS_EmptySet
    <3> QED
      BY <1>4, <3>1 DEF StepsOf
  <2>3. \A S \in SUBSET (1..n) : f[S] = IF S = {} THEN Parser(s, "top") ELSE ParserStep(f[S \ {top(S)}])
    BY <2>1, <2>2
  <2>4. f = [S \in SUBSET (1..n) |-> f[S]]
    OBVIOUS
  <2> HIDE DEF f, top
  <2> QED
    BY <2>3, <2>4
<1>6. iter = Next1(iter)
  BY <1>5
<1> HIDE DEF iter
<1> DEFINE r == [k \in 0..n |-> iter[1..k]]
<1>7. StepsOf(r, s, n)
  <2>1. r[0] = Parser(s, "top")
    <3>1. r[0] = iter[{}]
      BY <1>1
    <3> QED
      BY <1>6, <3>1
  <2>2. ASSUME NEW k \in 1..n PROVE r[k] = ParserStep(r[k - 1])
    <3>0. k \in Nat /\ k >= 1 /\ k <= n
      BY <1>1
    <3>1. 1..k \in SUBSET (1..n) /\ 1..k # {} /\ k \in 1..k /\ k - 1 \in 0..n /\ k \in 0..n
      <4>1. 1..k \subseteq 1..n
        BY <1>1, <3>0
      <4>2. k \in 1..k /\ k - 1 \in 0..n /\ k \in 0..n
        BY <1>1, <3>0
      <4> QED
        BY <4>1, <4>2
    <3>2. top(1..k) \in 1..k /\ \A y \in 1..k : top(1..k) >= y
      <4>1. \A y \in 1..k : k >= y
        BY <1>1
      <4>2. \E x \in 1..k : \A y \in 1..k : x >= y
        BY <3>1, <4>1
      <4> QED
        BY <4>2
    <3>3. top(1..k) = k
      <4>1. \A x \in 1..k : x >= k => x = k
        BY <3>0
      <4>2. top(1..k) >= k
        BY <3>1, <3>2
      <4> HIDE DEF top
      <4> QED
        BY <3>2, <4>1, <4>2
    <3>4. (1..k) \ {k} = 1..(k - 1)
      BY <1>1
    <3>5. iter[1..k] = ParserStep(iter[(1..k) \ {top(1..k)}])
      BY <1>6, <3>1
    <3> HIDE DEF top
    <3>6. iter[1..k] = ParserStep(iter[1..(k - 1)])
      BY <3>3, <3>4, <3>5
    <3> QED
      BY <3>1, <3>6
  <2> HIDE DEF r
  <2> QED
    BY <2>1, <2>2 DEF StepsOf
<1>8. r[n] = iter[1..n]
  BY <1>1
<1> HIDE DEF r
<1> QED
  BY <1>2, <1>7, <1>8 DEF n

\* Between the ends, pieces lie in the order of their frames: frame f's part comes at a place
\* that follows from how many frames were taken and whether the hello is still ahead.
PieceState == [frame : Nat, part : 0..2, form : Forms]
FormOf(f) == IF f > Plain /\ Wrapping # "none" THEN "sealed" ELSE "open"
Extra(f, h) == IF f > Plain THEN h ELSE 0
InPlace(x, k, g, h) ==
    /\ x \in PieceState /\ k = 2 * (x.frame - g - 1) + x.part + Extra(x.frame, h)
    /\ x.part = 0 => x.frame = Plain + 1 /\ h = 1
    /\ x.form = FormOf(x.frame)
RunOf(b, from, g, h) == \A k \in 1..Len(b) : InPlace(b[k], from + k, g, h)

\* The buffer b and the pieces w under way are the rest of n frames after g of them.
Laid(b, w, n, g, h) ==
    /\ b \in Seq(PieceState) /\ w \in Seq(PieceState)
    /\ n \in Nat /\ g \in 0..n /\ h \in {0, 1}
    /\ h = 1 => Wrapping = "units" /\ g <= Plain
    /\ h = 0 /\ Wrapping = "units" => g >= Plain /\ n > Plain
    /\ Len(b) + Len(w) = 2 * (n - g) + Extra(n, h)
    /\ RunOf(b, 0, g, h) /\ RunOf(w, Len(b), g, h)

\* The wrappings with which frames that share a buffer are told apart.
ToldApart == Wrapping \in {"none", "units"}

\* The first pieces of the buffer are the hello or the next frame.
LEMMA FirstPieces ==
    ASSUME ToldApart, NEW b, NEW w, NEW n, NEW g, NEW h, Laid(b, w, n, g, h), b # <<>>
    PROVE  \/ b[1].part = 0 /\ h = 1 /\ g = Plain /\ n > Plain
           \/ /\ b[1].part = 1 /\ b[1].frame = g + 1 /\ b[1].form = FormOf(g + 1) /\ g + 1 \in 0..n
              /\ h = 1 => g + 1 <= Plain
              /\ Len(b) >= 2 => b[2] = [b[1] EXCEPT !.part = 2]
<1>1. /\ Len(b) \in Nat /\ Len(b) >= 1 /\ Len(w) \in Nat /\ n \in Nat /\ g \in 0..n /\ h \in {0, 1}
      /\ Plain \in Nat /\ (h = 1 => g <= Plain)
      /\ Len(b) + Len(w) = 2 * (n - g) + Extra(n, h)
  BY FrameAssumption DEF Laid
<1>2. InPlace(b[1], 1, g, h)
  <2>1. InPlace(b[1], 0 + 1, g, h)
    BY <1>1 DEF Laid, RunOf
  <2> QED
    BY <2>1
<1>3. /\ b[1].frame \in Nat /\ b[1].part \in {0, 1, 2}
      /\ 1 = 2 * (b[1].frame - g - 1) + b[1].part + Extra(b[1].frame, h)
      /\ b[1].part = 0 => b[1].frame = Plain + 1 /\ h = 1
      /\ b[1].form = FormOf(b[1].frame) /\ b[1] \in PieceState
  BY <1>2 DEF InPlace, PieceState
<1>4. n > g
  BY <1>1 DEF Extra
<1>5. CASE b[1].part = 0
  <2>1. g = Plain
    BY <1>1, <1>3, <1>5 DEF Extra
  <2> QED
    BY <1>3, <1>4, <1>5, <2>1
<1>6. CASE b[1].part # 0
  <2> DEFINE f == b[1].frame
             p == b[1].part
  <2>1. f \in Nat /\ p \in {1, 2} /\ 1 = 2 * (f - g - 1) + p + Extra(f, h)
    BY <1>3, <1>6
  <2> HIDE DEF f, p
  <2>2. p = 1 /\ f = g + 1 /\ (h = 1 => f <= Plain)
    BY <1>1, <2>1 DEF Extra
  <2>3. ASSUME Len(b) >= 2 PROVE b[2] = [b[1] EXCEPT !.part = 2]
    <3>1. InPlace(b[2], 2, g, h)
      <4>1. InPlace(b[2], 0 + 2, g, h)
        BY <1>1, <2>3 DEF Laid, RunOf
      <4> QED
        BY <4>1
    <3>2. /\ b[2].frame \in Nat /\ b[2].part \in {0, 1, 2}
          /\ 2 = 2 * (b[2].frame - g - 1) + b[2].part + Extra(b[2].frame, h)
          /\ b[2].part = 0 => b[2].frame = Plain + 1 /\ h = 1
          /\ b[2].form = FormOf(b[2].frame) /\ b[2] \in PieceState
      BY <3>1 DEF InPlace, PieceState
    <3> DEFINE e == b[2].frame
               q == b[2].part
    <3>3. e \in Nat /\ q \in {0, 1, 2} /\ 2 = 2 * (e - g - 1) + q + Extra(e, h) /\ (q = 0 => e = Plain + 1 /\ h = 1)
      BY <3>2
    <3> HIDE DEF e, q
    <3>4. q = 2 /\ e = g + 1
      BY <1>1, <2>1, <2>2, <3>3 DEF Extra
    <3>5. b[2].form = b[1].form /\ b[2].frame = b[1].frame /\ b[2].part = 2
      BY <1>3, <2>2, <3>2, <3>4 DEF e, q, f
    <3> QED
      BY <1>3, <3>2, <3>5 DEF PieceState
  <2> QED
    BY <1>1, <1>3, <1>4, <1>6, <2>2, <2>3 DEF f, p
<1> QED
  BY <1>5, <1>6

\* What is left of a sequence after its first m elements.
LEMMA RestOfSeq ==
    ASSUME NEW S, NEW b \in Seq(S), NEW m \in 0..Len(b)
    PROVE  /\ SubSeq(b, m + 1, Len(b)) \in Seq(S) /\ Len(SubSeq(b, m + 1, Len(b))) = Len(b) - m
           /\ \A k \in 1..(Len(b) - m) : SubSeq(b, m + 1, Len(b))[k] = b[m + k] /\ m + k \in 1..Len(b)
<1>1. Len(b) \in Nat /\ m \in Nat /\ m + 1 \in Int /\ Len(b) \in Int
  OBVIOUS
<1>2. \A i \in (m + 1)..Len(b) : b[i] \in S
  BY <1>1
<1>3. /\ SubSeq(b, m + 1, Len(b)) \in Seq(S)
      /\ Len(SubSeq(b, m + 1, Len(b))) = IF m + 1 <= Len(b) THEN Len(b) - (m + 1) + 1 ELSE 0
      /\ \A i \in 1..(Len(b) - (m + 1) + 1) : SubSeq(b, m + 1, Len(b))[i] = b[(m + 1) + i - 1]
  BY <1>1, <1>2, SubSeqProperties
<1>4. Len(SubSeq(b, m + 1, Len(b))) = Len(b) - m
  BY <1>1, <1>3
<1>5. ASSUME NEW k \in 1..(Len(b) - m) PROVE SubSeq(b, m + 1, Len(b))[k] = b[m + k] /\ m + k \in 1..Len(b)
  <2>1. k \in 1..(Len(b) - (m + 1) + 1) /\ (m + 1) + k - 1 = m + k /\ m + k \in 1..Len(b)
    BY <1>1
  <2> QED
    BY <1>3, <2>1
<1> QED
  BY <1>3, <1>4, <1>5

\* The hello is skipped.
LEMMA HelloSkipped ==
    ASSUME NEW b, NEW w, NEW n, Laid(b, w, n, Plain, 1), b # <<>>, n > Plain
    PROVE  Laid(SubSeq(b, 2, Len(b)), w, n, Plain, 0)
<1> DEFINE c == SubSeq(b, 2, Len(b))
<1>1. /\ b \in Seq(PieceState)
      /\ Len(b) \in Nat /\ Len(b) >= 1 /\ Len(w) \in Nat /\ n \in Nat /\ Plain \in 0..n
      /\ Len(b) + Len(w) = 2 * (n - Plain) + 1 /\ Wrapping = "units"
  BY FrameAssumption DEF Laid, Extra
<1>2. /\ c \in Seq(PieceState) /\ Len(c) = Len(b) - 1
      /\ \A k \in 1..(Len(b) - 1) : c[k] = b[k + 1] /\ k + 1 \in 1..Len(b)
  <2>1. 1 \in 0..Len(b) /\ 1 + 1 = 2 /\ \A k \in 1..(Len(b) - 1) : 1 + k = k + 1
    BY <1>1
  <2> HIDE DEF c
  <2>2. /\ SubSeq(b, 1 + 1, Len(b)) \in Seq(PieceState) /\ Len(SubSeq(b, 1 + 1, Len(b))) = Len(b) - 1
        /\ \A k \in 1..(Len(b) - 1) : SubSeq(b, 1 + 1, Len(b))[k] = b[1 + k] /\ 1 + k \in 1..Len(b)
    BY <1>1, <2>1, RestOfSeq
  <2>3. c = SubSeq(b, 1 + 1, Len(b))
    BY <2>1 DEF c
  <2> QED
    BY <2>1, <2>2, <2>3
<1> HIDE DEF c
<1>3. ASSUME NEW x, NEW k \in Nat, k >= 1, InPlace(x, k + 1, Plain, 1) PROVE InPlace(x, k, Plain, 0)
  <2>1. /\ x \in PieceState /\ x.frame \in Nat /\ x.part \in {0, 1, 2}
        /\ k + 1 = 2 * (x.frame - Plain - 1) + x.part + Extra(x.frame, 1)
        /\ x.part = 0 => x.frame = Plain + 1
        /\ x.form = FormOf(x.frame)
    BY <1>3 DEF InPlace, PieceState
  <2>2. \A f \in Nat, p \in {0, 1, 2}, m \in Nat :
            m \in Nat /\ k + 1 = 2 * (f - m - 1) + p + (IF f > m THEN 1 ELSE 0) /\ (p = 0 => f = m + 1)
            => f > m /\ p # 0 /\ k = 2 * (f - m - 1) + p + (IF f > m THEN 0 ELSE 0)
    BY <1>3
  <2>3. Plain \in Nat
    BY FrameAssumption
  <2>4. x.part # 0 /\ k = 2 * (x.frame - Plain - 1) + x.part + Extra(x.frame, 0)
    BY <2>1, <2>2, <2>3 DEF Extra
  <2> QED
    BY <2>1, <2>4 DEF InPlace
<1>4. RunOf(c, 0, Plain, 0)
  <2> SUFFICES ASSUME NEW k \in 1..Len(c) PROVE InPlace(c[k], 0 + k, Plain, 0)
    BY DEF RunOf
  <2>1. k \in Nat /\ k >= 1 /\ k + 1 \in 1..Len(b) /\ c[k] = b[k + 1] /\ 0 + (k + 1) = k + 1 /\ 0 + k = k
    BY <1>1, <1>2
  <2>2. InPlace(b[k + 1], 0 + (k + 1), Plain, 1)
    BY <2>1 DEF Laid, RunOf
  <2> QED
    BY <1>3, <2>1, <2>2
<1>5. RunOf(w, Len(c), Plain, 0)
  <2> SUFFICES ASSUME NEW k \in 1..Len(w) PROVE InPlace(w[k], Len(c) + k, Plain, 0)
    BY DEF RunOf
  <2>1. Len(c) + k \in Nat /\ Len(c) + k >= 1 /\ Len(b) + k = Len(c) + k + 1
    BY <1>1, <1>2
  <2>2. InPlace(w[k], Len(b) + k, Plain, 1)
    BY DEF Laid, RunOf
  <2> QED
    BY <1>3, <2>1, <2>2
<1>6. Len(c) + Len(w) = 2 * (n - Plain) + Extra(n, 0)
  BY <1>1, <1>2 DEF Extra
<1> QED
  BY <1>1, <1>2, <1>4, <1>5, <1>6 DEF Laid, c

\* A frame is taken.
LEMMA FrameTaken ==
    ASSUME NEW b, NEW w, NEW n, NEW g, NEW h, Laid(b, w, n, g, h), Len(b) >= 2, g + 1 \in 0..n,
           h = 1 => g + 1 <= Plain
    PROVE  Laid(SubSeq(b, 3, Len(b)), w, n, g + 1, h)
<1> DEFINE c == SubSeq(b, 3, Len(b))
<1>1. /\ b \in Seq(PieceState)
      /\ Len(b) \in Nat /\ Len(w) \in Nat /\ n \in Nat /\ g \in 0..n /\ h \in {0, 1} /\ Plain \in Nat
      /\ Len(b) + Len(w) = 2 * (n - g) + Extra(n, h)
  BY FrameAssumption DEF Laid
<1>2. /\ c \in Seq(PieceState) /\ Len(c) = Len(b) - 2
      /\ \A k \in 1..(Len(b) - 2) : c[k] = b[k + 2] /\ k + 2 \in 1..Len(b)
  <2>1. 2 \in 0..Len(b) /\ 2 + 1 = 3 /\ \A k \in 1..(Len(b) - 2) : 2 + k = k + 2
    BY <1>1
  <2> HIDE DEF c
  <2>2. /\ SubSeq(b, 2 + 1, Len(b)) \in Seq(PieceState) /\ Len(SubSeq(b, 2 + 1, Len(b))) = Len(b) - 2
        /\ \A k \in 1..(Len(b) - 2) : SubSeq(b, 2 + 1, Len(b))[k] = b[2 + k] /\ 2 + k \in 1..Len(b)
    BY <1>1, <2>1, RestOfSeq
  <2>3. c = SubSeq(b, 2 + 1, Len(b))
    BY <2>1 DEF c
  <2> QED
    BY <2>1, <2>2, <2>3
<1> HIDE DEF c
<1>3. ASSUME NEW x, NEW k \in Nat, InPlace(x, k + 2, g, h) PROVE InPlace(x, k, g + 1, h)
  <2>1. x.frame \in Nat /\ x.part \in {0, 1, 2} /\ Extra(x.frame, h) \in {0, 1}
    BY <1>1, <1>3 DEF InPlace, PieceState, Extra
  <2>2. k + 2 = 2 * (x.frame - g - 1) + x.part + Extra(x.frame, h)
    BY <1>3 DEF InPlace
  <2> DEFINE f == x.frame
             p == x.part
             e == Extra(x.frame, h)
  <2>3. k = 2 * (f - (g + 1) - 1) + p + e
    <3>1. f \in Nat /\ p \in Nat /\ e \in Nat /\ g \in Nat /\ k + 2 = 2 * (f - g - 1) + p + e
      BY <1>1, <2>1, <2>2
    <3> HIDE DEF f, p, e
    <3> QED
      BY <3>1
  <2> QED
    BY <1>3, <2>3 DEF InPlace
<1>4. RunOf(c, 0, g + 1, h)
  <2> SUFFICES ASSUME NEW k \in 1..Len(c) PROVE InPlace(c[k], 0 + k, g + 1, h)
    BY DEF RunOf
  <2>1. k \in Nat /\ k + 2 \in 1..Len(b) /\ c[k] = b[k + 2] /\ 0 + (k + 2) = k + 2 /\ 0 + k = k
    BY <1>1, <1>2
  <2>2. InPlace(b[k + 2], 0 + (k + 2), g, h)
    BY <2>1 DEF Laid, RunOf
  <2> QED
    BY <1>3, <2>1, <2>2
<1>5. RunOf(w, Len(c), g + 1, h)
  <2> SUFFICES ASSUME NEW k \in 1..Len(w) PROVE InPlace(w[k], Len(c) + k, g + 1, h)
    BY DEF RunOf
  <2>1. Len(c) + k \in Nat /\ Len(b) + k = Len(c) + k + 2
    BY <1>1, <1>2
  <2>2. InPlace(w[k], Len(b) + k, g, h)
    BY DEF Laid, RunOf
  <2> QED
    BY <1>3, <2>1, <2>2
<1>6. Len(c) + Len(w) = 2 * (n - (g + 1)) + Extra(n, h)
  <2> DEFINE e == Extra(n, h)
             l == Len(b)
             r == Len(c)
             d == Len(w)
  <2>1. e \in Nat /\ l \in Nat /\ d \in Nat /\ g \in Nat /\ r = l - 2 /\ l + d = 2 * (n - g) + e
    BY <1>1, <1>2 DEF Extra
  <2> HIDE DEF e, l, r, d
  <2>2. r + d = 2 * (n - (g + 1)) + e
    BY <1>1, <2>1
  <2> QED
    BY <2>2 DEF e, r, d
<1> QED
  BY <1>1, <1>2, <1>4, <1>5, <1>6 DEF Laid, c

\* A read moves pieces into the buffer.
LEMMA PiecesRead ==
    ASSUME NEW b, NEW w, NEW n, NEW g, NEW h, Laid(b, w, n, g, h), NEW j \in 1..Len(w)
    PROVE  Laid(b \o SubSeq(w, 1, j), SubSeq(w, j + 1, Len(w)), n, g, h)
<1> DEFINE u == SubSeq(w, 1, j)
           v == SubSeq(w, j + 1, Len(w))
           c == b \o u
<1>1. /\ b \in Seq(PieceState) /\ w \in Seq(PieceState) /\ Len(b) \in Nat /\ Len(w) \in Nat /\ j \in Nat
  BY DEF Laid
<1>2. /\ u \in Seq(PieceState) /\ Len(u) = j /\ \A k \in 1..j : u[k] = w[k] /\ k \in 1..Len(w)
      /\ v \in Seq(PieceState) /\ Len(v) = Len(w) - j
      /\ \A k \in 1..(Len(w) - j) : v[k] = w[j + k] /\ j + k \in 1..Len(w)
  BY <1>1
<1> HIDE DEF u, v
<1>3. /\ c \in Seq(PieceState) /\ Len(c) = Len(b) + j
      /\ \A k \in 1..(Len(b) + j) : c[k] = IF k <= Len(b) THEN b[k] ELSE u[k - Len(b)]
  BY <1>1, <1>2, ConcatProperties
<1> HIDE DEF c
<1>4. RunOf(c, 0, g, h)
  <2> SUFFICES ASSUME NEW k \in 1..Len(c) PROVE InPlace(c[k], 0 + k, g, h)
    BY DEF RunOf
  <2>1. CASE k <= Len(b)
    BY <1>1, <1>3, <2>1 DEF Laid, RunOf
  <2>2. CASE ~(k <= Len(b))
    <3>1. k - Len(b) \in 1..j /\ Len(b) + (k - Len(b)) = 0 + k
      BY <1>1, <1>3, <2>2
    <3>2. c[k] = w[k - Len(b)] /\ k - Len(b) \in 1..Len(w)
      BY <1>2, <1>3, <2>2, <3>1
    <3>3. InPlace(w[k - Len(b)], Len(b) + (k - Len(b)), g, h)
      BY <3>2 DEF Laid, RunOf
    <3> QED
      BY <3>1, <3>2, <3>3
  <2> QED
    BY <2>1, <2>2
<1>5. RunOf(v, Len(c), g, h)
  <2> SUFFICES ASSUME NEW k \in 1..Len(v) PROVE InPlace(v[k], Len(c) + k, g, h)
    BY DEF RunOf
  <2>1. v[k] = w[j + k] /\ j + k \in 1..Len(w) /\ Len(b) + (j + k) = Len(c) + k
    BY <1>1, <1>2, <1>3
  <2>2. InPlace(w[j + k], Len(b) + (j + k), g, h)
    BY <2>1 DEF Laid, RunOf
  <2> QED
    BY <2>1, <2>2
<1>6. Len(c) + Len(v) = Len(b) + Len(w)
  BY <1>1, <1>2, <1>3
<1> QED
  BY <1>2, <1>3, <1>4, <1>5, <1>6 DEF Laid, u, v, c

\* What a frame is made of.
LEMMA BuiltPieces ==
    ASSUME ToldApart, NEW f \in Nat \ {0}, NEW d, d = IF f = Plain + 1 /\ Wrapping = "units" THEN 1 ELSE 0
    PROVE  /\ Built(f) \in Seq(PieceState) /\ Len(Built(f)) = 2 + d
           /\ \A k \in 1..(2 + d) : Built(f)[k] = Piece(f, k - d, FormOf(f))
<1> DEFINE P(k) == Piece(f, k, FormOf(f))
           c == Hello(f, FormOf(f))
           e == <<P(1), P(2)>>
<1>1. Built(f) = c \o e
  BY DEF Built, FormOf
<1>2. P(0) \in PieceState /\ P(1) \in PieceState /\ P(2) \in PieceState
  BY DEF Piece, PieceState, FormOf, Forms
<1> HIDE DEF P
<1>3. e \in Seq(PieceState) /\ Len(e) = 2 /\ e[1] = P(1) /\ e[2] = P(2)
  BY <1>2
<1>4. d \in {0, 1}
  OBVIOUS
<1>5. c \in Seq(PieceState) /\ Len(c) = d /\ (d = 1 => c[1] = P(0))
  <2>1. IF d = 1 THEN c = <<P(0)>> ELSE c = <<>>
    BY DEF Hello, P
  <2>2. <<P(0)>> \in Seq(PieceState) /\ Len(<<P(0)>>) = 1 /\ <<P(0)>>[1] = P(0)
    BY <1>2
  <2>3. <<>> \in Seq(PieceState) /\ Len(<<>>) = 0
    OBVIOUS
  <2> HIDE DEF c
  <2>4. CASE d = 1
    BY <2>1, <2>2, <2>4
  <2>5. CASE d = 0
    <3>1. d # 1
      BY <2>5
    <3>2. c = <<>>
      BY <2>1, <3>1
    <3> QED
      BY <2>3, <2>5, <3>1, <3>2
  <2> QED
    BY <1>4, <2>4, <2>5
<1> HIDE DEF c, e
<1>6. /\ c \o e \in Seq(PieceState) /\ Len(c \o e) = Len(c) + Len(e)
      /\ \A k \in 1..(Len(c) + Len(e)) : (c \o e)[k] = IF k <= Len(c) THEN c[k] ELSE e[k - Len(c)]
  BY <1>3, <1>5, ConcatProperties
<1>7. Len(c) + Len(e) = 2 + d
  BY <1>3, <1>4, <1>5
<1>8. ASSUME NEW k \in 1..(2 + d) PROVE (c \o e)[k] = P(k - d)
  <2>1. (c \o e)[k] = IF k <= d THEN c[k] ELSE e[k - d]
    BY <1>5, <1>6, <1>7
  <2>2. CASE d = 0
    <3>1. (k = 1 \/ k = 2) /\ ~(k <= d) /\ k - d = k
      BY <2>2
    <3> QED
      BY <1>3, <2>1, <3>1
  <2>3. CASE d = 1
    <3>1. k = 1 \/ k = 2 \/ k = 3
      BY <2>3
    <3>2. (k = 1 => k <= d /\ k - d = 0) /\ (k = 2 => ~(k <= d) /\ k - d = 1) /\ (k = 3 => ~(k <= d) /\ k - d = 2)
      BY <2>3
    <3> QED
      BY <1>3, <1>5, <2>1, <2>3, <3>1, <3>2
  <2> QED
    BY <1>4, <2>2, <2>3
<1> QED
  BY <1>1, <1>6, <1>7, <1>8 DEF P

\* The pieces of the frame that is sent next lie behind those under way.
LEMMA FrameSent ==
    ASSUME ToldApart, NEW b, NEW w, NEW n, NEW g, NEW h, Laid(b, w, n, g, h)
    PROVE  Laid(b, w \o Built(n + 1), n + 1, g, h)
<1> DEFINE f == n + 1
           u == Built(f)
           v == w \o u
           d == IF f = Plain + 1 /\ Wrapping = "units" THEN 1 ELSE 0
<1>1. /\ b \in Seq(PieceState) /\ w \in Seq(PieceState) /\ Len(b) \in Nat /\ Len(w) \in Nat
      /\ n \in Nat /\ g \in 0..n /\ h \in {0, 1} /\ Plain \in Nat /\ g \in 0..f /\ f \in Nat \ {0}
      /\ h = 1 => Wrapping = "units" /\ g <= Plain
      /\ h = 0 /\ Wrapping = "units" => g >= Plain /\ n > Plain
      /\ Len(b) + Len(w) = 2 * (n - g) + Extra(n, h)
  BY FrameAssumption DEF Laid
<1>2. d \in {0, 1} /\ (d = 1 <=> (f = Plain + 1 /\ Wrapping = "units"))
  OBVIOUS
<1>3. u \in Seq(PieceState) /\ Len(u) = 2 + d /\ \A k \in 1..(2 + d) : u[k] = Piece(f, k - d, FormOf(f))
  BY <1>1, BuiltPieces
<1> HIDE DEF u, d
<1>4. /\ v \in Seq(PieceState) /\ Len(v) = Len(w) + (2 + d)
      /\ \A k \in 1..(Len(w) + (2 + d)) : v[k] = IF k <= Len(w) THEN w[k] ELSE u[k - Len(w)]
  <2>1. /\ w \o u \in Seq(PieceState) /\ Len(w \o u) = Len(w) + Len(u)
        /\ \A k \in 1..(Len(w) + Len(u)) : (w \o u)[k] = IF k <= Len(w) THEN w[k] ELSE u[k - Len(w)]
    BY <1>1, <1>3, ConcatProperties
  <2> QED
    BY <1>3, <2>1
<1> HIDE DEF v
<1>5. Extra(f, h) = (IF f > Plain THEN h ELSE 0) /\ Extra(n, h) = (IF n > Plain THEN h ELSE 0)
  BY DEF Extra
<1>6. Extra(f, h) = Extra(n, h) + d
  <2>1. d = 1 => h = 1
    BY <1>1, <1>2
  <2>2. h = 1 => (d = 1 <=> f = Plain + 1)
    BY <1>1, <1>2
  <2> QED
    BY <1>1, <1>2, <1>5, <2>1, <2>2
<1>7. Extra(f, h) \in {0, 1} /\ Extra(n, h) \in {0, 1} /\ (d = 1 => Extra(n, h) = 0)
  BY <1>1, <1>2, <1>5
<1>8. Len(b) + Len(v) = 2 * (f - g) + Extra(f, h)
  <2> DEFINE e == Extra(n, h)
  <2>1. e \in Nat /\ d \in Nat /\ g \in Nat /\ Len(b) + Len(w) = 2 * (n - g) + e /\ Extra(f, h) = e + d
    BY <1>1, <1>2, <1>6, <1>7
  <2> HIDE DEF e
  <2>2. Len(b) + (Len(w) + (2 + d)) = 2 * (f - g) + (e + d)
    BY <1>1, <2>1
  <2>3. Len(b) + Len(v) = 2 * (f - g) + (e + d)
    BY <1>4, <2>2
  <2> QED
    BY <2>1, <2>3
<1>9. RunOf(v, Len(b), g, h)
  <2> SUFFICES ASSUME NEW k \in 1..Len(v) PROVE InPlace(v[k], Len(b) + k, g, h)
    BY DEF RunOf
  <2>1. CASE k <= Len(w)
    BY <1>1, <1>4, <2>1 DEF Laid, RunOf
  <2>2. CASE ~(k <= Len(w))
    <3> DEFINE j == k - Len(w)
    <3>1. j \in 1..(2 + d) /\ k = Len(w) + j
      BY <1>1, <1>2, <1>4, <2>2
    <3>2. v[k] = Piece(f, j - d, FormOf(f))
      BY <1>3, <1>4, <2>2, <3>1
    <3>3. j - d \in 0..2 /\ (j - d = 0 => d = 1)
      BY <1>2, <3>1
    <3>4. v[k] \in PieceState /\ v[k].frame = f /\ v[k].part = j - d /\ v[k].form = FormOf(f)
      BY <1>1, <3>2, <3>3 DEF Piece, PieceState, FormOf, Forms
    <3>5. Len(b) + k = 2 * (f - g - 1) + (j - d) + Extra(f, h)
      <4>1. Len(b) + k = 2 * (n - g) + Extra(n, h) + j
        BY <1>1, <1>7, <3>1
      <4> DEFINE e == Extra(n, h)
                 l == Len(b) + k
      <4>2. e \in Nat /\ d \in Nat /\ j \in Nat /\ l = 2 * (n - g) + e + j
        BY <1>2, <1>7, <3>1, <4>1
      <4> HIDE DEF e, l, j
      <4>3. l = 2 * (n + 1 - g - 1) + (j - d) + (e + d)
        BY <1>1, <4>2
      <4>4. l = 2 * (f - g - 1) + (j - d) + (e + d)
        BY <1>1, <4>2, <4>3
      <4> QED
        BY <1>6, <4>4 DEF e, l
    <3>6. d = 1 => f = Plain + 1 /\ h = 1
      BY <1>1, <1>2
    <3> QED
      BY <3>3, <3>4, <3>5, <3>6 DEF InPlace
  <2> QED
    BY <2>1, <2>2
<1> QED
  BY <1>1, <1>4, <1>8, <1>9 DEF Laid, u, v

\* The end of the connection: nothing is broken.
ConnState ==
    [buf : Seq(PieceState), settled : BOOLEAN, validated : BOOLEAN, tokens : 0..MaxTokens,
     got : Seq(Nat), dropped : SUBSET Nat, broken : {FALSE}]
\* The frames up to g were delivered, in order and once, or dropped.
Took(got, dropped, g) ==
    /\ ToSet(got) \cup dropped = 1..g
    /\ \A i, j \in 1..Len(got) : i < j => got[i] < got[j]
    /\ ToSet(got) \cap dropped = {}
\* No frame before the settings falls to the limit, therefore they are made; the tag was
\* looked for when a frame behind it was taken.
Tuned(s, g) ==
    /\ g < Plain => s.tokens + g >= MaxTokens
    /\ s.settled <=> g >= Plain
    /\ s.settled /\ ~s.validated => g = Plain

\* One more frame delivered, or dropped.
LEMMA TookOneMore ==
    ASSUME NEW got \in Seq(Nat), NEW dropped \in SUBSET Nat, NEW g \in Nat, Took(got, dropped, g)
    PROVE  Took(Append(got, g + 1), dropped, g + 1) /\ Took(got, dropped \cup {g + 1}, g + 1)
<1> DEFINE a == Append(got, g + 1)
<1>1. /\ Len(got) \in Nat /\ a \in Seq(Nat) /\ Len(a) = Len(got) + 1
      /\ \A i \in 1..Len(got) : a[i] = got[i] /\ got[i] \in Nat
      /\ a[Len(got) + 1] = g + 1
  BY AppendProperties
<1>2. ToSet(got) = {got[i] : i \in 1..Len(got)} /\ ToSet(a) = {a[i] : i \in 1..Len(a)}
  BY <1>1 DEF ToSet
<1> HIDE DEF a
<1>3. ToSet(a) = ToSet(got) \cup {g + 1}
  <2>1. 1..Len(a) = 1..Len(got) \cup {Len(got) + 1}
    BY <1>1
  <2> QED
    BY <1>1, <1>2, <2>1
<1>4. 1..(g + 1) = 1..g \cup {g + 1} /\ g + 1 \notin 1..g
  OBVIOUS
<1>5. \A i \in 1..Len(got) : got[i] \in 1..g
  BY <1>2 DEF Took
<1>6. ASSUME NEW i \in 1..Len(a), NEW j \in 1..Len(a), i < j PROVE a[i] < a[j]
  <2>1. i \in 1..Len(got) /\ a[i] = got[i] /\ got[i] \in 1..g
    <3>1. i \in 1..Len(got)
      BY <1>1, <1>6
    <3> QED
      BY <1>1, <1>5, <3>1
  <2>2. CASE j = Len(got) + 1
    BY <1>1, <2>1, <2>2
  <2>3. CASE j # Len(got) + 1
    <3>1. j \in 1..Len(got)
      BY <1>1, <2>3
    <3> QED
      BY <1>1, <1>6, <2>1, <3>1 DEF Took
  <2> QED
    BY <2>2, <2>3
<1>7. Took(a, dropped, g + 1)
  BY <1>3, <1>4, <1>6 DEF Took
<1>8. Took(got, dropped \cup {g + 1}, g + 1)
  BY <1>4 DEF Took
<1> QED
  BY <1>7, <1>8 DEF a

\* What skipping and checking change.
LEMMA SkipFields ==
    ASSUME NEW s \in ConnState, NEW n \in Nat, NEW t, t = Skip(s, n),
           SubSeq(s.buf, n + 1, Len(s.buf)) \in Seq(PieceState)
    PROVE  /\ t \in ConnState /\ t.buf = SubSeq(s.buf, n + 1, Len(s.buf))
           /\ t.settled = s.settled /\ t.validated = s.validated /\ t.tokens = s.tokens
           /\ t.got = s.got /\ t.dropped = s.dropped
<1> DEFINE c == SubSeq(s.buf, n + 1, Len(s.buf))
<1>1. c \in Seq(PieceState) /\ t = [s EXCEPT !.buf = c]
  BY DEF Skip
<1> HIDE DEF c
<1> QED
  BY <1>1 DEF ConnState, c

\* What checking the tag changes.
LEMMA ValidatedFields ==
    ASSUME NEW s \in ConnState, NEW t, t = [s EXCEPT !.validated = TRUE]
    PROVE  /\ t \in ConnState /\ t.buf = s.buf /\ t.settled = s.settled /\ t.validated = TRUE
           /\ t.tokens = s.tokens /\ t.got = s.got /\ t.dropped = s.dropped
BY DEF ConnState

\* The next frame is delivered, or falls to the limit once the settings are made.
LEMMA FrameAdmitted ==
    ASSUME NEW s \in ConnState, NEW g \in Nat, Took(s.got, s.dropped, g), Tuned(s, g),
           s.settled => s.validated, NEW t, t = Admit(s, g + 1)
    PROVE  /\ t \in ConnState /\ t.buf = s.buf /\ t.validated = s.validated
           /\ Took(t.got, t.dropped, g + 1) /\ Tuned(t, g + 1)
           /\ s.tokens = 0 => s.settled /\ t.settled
<1>1. /\ Plain \in Nat \ {0} /\ MaxTokens \in Nat /\ Plain <= MaxTokens
      /\ s.tokens \in 0..MaxTokens /\ s.got \in Seq(Nat) /\ s.dropped \in SUBSET Nat
      /\ s.settled \in BOOLEAN /\ s.validated \in BOOLEAN
  BY FrameAssumption DEF ConnState
<1>2. Took(Append(s.got, g + 1), s.dropped, g + 1) /\ Took(s.got, s.dropped \cup {g + 1}, g + 1)
  BY <1>1, TookOneMore
<1>3. CASE s.tokens = 0
  <2>1. t = Limited(s, g + 1)
    BY <1>3 DEF Admit
  <2>2. /\ t \in ConnState /\ t.buf = s.buf /\ t.settled = s.settled /\ t.validated = s.validated
        /\ t.tokens = s.tokens /\ t.got = s.got /\ t.dropped = s.dropped \cup {g + 1}
    <3> DEFINE d == s.dropped \cup {g + 1}
    <3>1. t = [s EXCEPT !.dropped = d]
      BY <2>1 DEF Limited
    <3>2. d \in SUBSET Nat
      <4>1. g + 1 \in Nat
        OBVIOUS
      <4> QED
        BY <1>1, <4>1
    <3> HIDE DEF d
    <3>3. /\ t \in ConnState /\ t.buf = s.buf /\ t.settled = s.settled /\ t.validated = s.validated
          /\ t.tokens = s.tokens /\ t.got = s.got /\ t.dropped = d
      BY <3>1, <3>2 DEF ConnState
    <3> QED
      BY <3>3 DEF d
  <2>3. g >= Plain
    <3>1. ~(g < Plain)
      BY <1>1, <1>3 DEF Tuned
    <3> QED
      BY <1>1, <3>1
  <2>4. s.settled
    BY <2>3 DEF Tuned
  <2>5. Tuned(t, g + 1)
    <3>1. ~(g + 1 < Plain) /\ g + 1 >= Plain
      BY <1>1, <2>3
    <3> QED
      BY <2>2, <2>4, <3>1 DEF Tuned
  <2> QED
    BY <1>2, <2>2, <2>4, <2>5
<1>4. CASE s.tokens # 0
  <2>1. t = Delivered(s, g + 1)
    BY <1>4 DEF Admit
  <2> DEFINE now == s.settled \/ g + 1 = Plain
             a == Append(s.got, g + 1)
             k == s.tokens - 1
  <2>2. now \in BOOLEAN /\ a \in Seq(Nat) /\ k \in 0..MaxTokens
    BY <1>1, <1>4
  <2>3. t = [s EXCEPT !.got = a, !.tokens = k, !.settled = now]
    BY <2>1 DEF Delivered
  <2> HIDE DEF now, a, k
  <2>4. /\ t \in ConnState /\ t.buf = s.buf /\ t.settled = now /\ t.validated = s.validated
        /\ t.tokens = k /\ t.got = a /\ t.dropped = s.dropped
    BY <2>2, <2>3 DEF ConnState
  <2>5. Tuned(t, g + 1)
    <3>1. g + 1 < Plain => t.tokens + (g + 1) >= MaxTokens
      <4>1. g < Plain => s.tokens + g >= MaxTokens
        BY DEF Tuned
      <4> QED
        BY <1>1, <2>4, <4>1 DEF k
    <3>2. t.settled <=> g + 1 >= Plain
      <4>1. s.settled <=> g >= Plain
        BY DEF Tuned
      <4>2. g + 1 >= Plain <=> g >= Plain \/ g + 1 = Plain
        BY <1>1
      <4> QED
        BY <2>4, <4>1, <4>2 DEF now
    <3>3. t.settled /\ ~t.validated => g + 1 = Plain
      BY <2>4 DEF now
    <3> QED
      BY <3>1, <3>2, <3>3 DEF Tuned
  <2> QED
    BY <1>2, <1>4, <2>4, <2>5 DEF a
<1> QED
  BY <1>3, <1>4

\* Where the parser can stop: nothing is left to read, or the first half of a frame.
Idle(b) == b = <<>> \/ (Len(b) = 1 /\ b[1].part = 1)
\* The parser of a connection that has taken g frames.
ParserOK(p, w, n, g, h) ==
    /\ p.conn \in ConnState /\ Laid(p.conn.buf, w, n, g, h)
    /\ Took(p.conn.got, p.conn.dropped, g) /\ Tuned(p.conn, g)
    /\ p.at \in {"top", "frames", "end"}
    /\ p.at = "frames" /\ p.conn.buf # <<>> /\ p.conn.settled => p.conn.validated /\ Wrapping = "none"
    /\ p.at = "end" => Idle(p.conn.buf)
\* The steps it has left at most, and a parser with fewer of them than m.
StepsLeft(p) ==
    CASE p.at = "top" -> Len(p.conn.buf) + 2
      [] p.at = "frames" -> Len(p.conn.buf) + 1
      [] p.at = "end" -> 0
Nearer(p, w, n, m) == \E g, h : ParserOK(p, w, n, g, h) /\ (p.at = "end" \/ StepsLeft(p) < m)

\* The fields of a parser.
LEMMA ParserFields == ASSUME NEW s, NEW at PROVE Parser(s, at).conn = s /\ Parser(s, at).at = at
BY DEF Parser

\* The two pieces of a frame are gone, the tag is checked; the frame is delivered or dropped.
Stripped(x, s) ==
    /\ x \in ConnState /\ x.buf = SubSeq(s.buf, 3, Len(s.buf)) /\ x.settled = s.settled
    /\ x.tokens = s.tokens /\ x.got = s.got /\ x.dropped = s.dropped
    /\ x.settled => x.validated
Advanced(t, x, s, w, n, g, h) ==
    /\ t \in ConnState /\ Laid(t.buf, w, n, g, h) /\ Took(t.got, t.dropped, g) /\ Tuned(t, g)
    /\ t.validated = x.validated /\ (x.tokens = 0 => x.settled /\ t.settled)
    /\ Len(t.buf) = Len(s.buf) - 2

\* A whole frame is taken from the buffer and delivered or dropped.
LEMMA NextFrame ==
    ASSUME NEW s \in ConnState, NEW w, NEW n, NEW g, NEW h, Laid(s.buf, w, n, g, h),
           Took(s.got, s.dropped, g), Tuned(s, g), Len(s.buf) >= 2, g + 1 \in 0..n,
           h = 1 => g + 1 <= Plain, NEW x, Stripped(x, s), NEW t, t = Admit(x, g + 1)
    PROVE  Advanced(t, x, s, w, n, g + 1, h)
<1> USE DEF Stripped
<1>1. g \in Nat /\ s.buf \in Seq(PieceState) /\ Len(s.buf) \in Nat
  BY DEF Laid
<1>2. Tuned(x, g)
  BY DEF Tuned
<1>3. /\ t \in ConnState /\ t.buf = x.buf /\ t.validated = x.validated
      /\ Took(t.got, t.dropped, g + 1) /\ Tuned(t, g + 1)
      /\ x.tokens = 0 => x.settled /\ t.settled
  BY <1>1, <1>2, FrameAdmitted
<1>4. Laid(SubSeq(s.buf, 3, Len(s.buf)), w, n, g + 1, h)
  BY FrameTaken
<1>5. Len(SubSeq(s.buf, 3, Len(s.buf))) = Len(s.buf) - 2
  <2>1. 2 \in 0..Len(s.buf) /\ 2 + 1 = 3
    BY <1>1
  <2>2. Len(SubSeq(s.buf, 2 + 1, Len(s.buf))) = Len(s.buf) - 2
    BY <1>1, <2>1, RestOfSeq
  <2> QED
    BY <2>1, <2>2
<1> QED
  BY <1>3, <1>4, <1>5 DEF Advanced

\* What skipping the first pieces leaves.
LEMMA PiecesSkipped ==
    ASSUME NEW s \in ConnState, NEW m \in Nat, m <= Len(s.buf), NEW t, t = Skip(s, m)
    PROVE  /\ t \in ConnState /\ t.buf = SubSeq(s.buf, m + 1, Len(s.buf))
           /\ t.settled = s.settled /\ t.validated = s.validated /\ t.tokens = s.tokens
           /\ t.got = s.got /\ t.dropped = s.dropped
<1>1. s.buf \in Seq(PieceState)
  BY DEF ConnState
<1>2. m \in 0..Len(s.buf)
  BY <1>1
<1>3. SubSeq(s.buf, m + 1, Len(s.buf)) \in Seq(PieceState)
  BY <1>1, <1>2, RestOfSeq
<1> QED
  BY <1>3, SkipFields

\* A frame behind the tag is one unit.
LEMMA UnitStepOK ==
    ASSUME ToldApart, NEW s \in ConnState, NEW w, NEW n, NEW g, NEW h, Laid(s.buf, w, n, g, h),
           Took(s.got, s.dropped, g), Tuned(s, g), s.settled, Wrapping = "units"
    PROVE  Nearer(UnitStep(s), w, n, Len(s.buf) + 2)
<1>1. /\ s.buf \in Seq(PieceState) /\ Len(s.buf) \in Nat /\ s.broken = FALSE /\ g \in 0..n /\ n \in Nat
      /\ h \in {0, 1} /\ g >= Plain /\ Plain \in Nat /\ (s.validated \in BOOLEAN)
  <2>1. s.buf \in Seq(PieceState) /\ s.broken = FALSE /\ (s.validated \in BOOLEAN)
    BY DEF ConnState
  <2>2. g \in 0..n /\ n \in Nat /\ h \in {0, 1}
    BY DEF Laid
  <2>3. g >= Plain /\ Plain \in Nat
    BY FrameAssumption DEF Tuned
  <2> QED
    BY <2>1, <2>2, <2>3
<1> DEFINE q == UnitStep(s)
<1>2. CASE s.buf = <<>>
  <2>1. q = Parser(s, "end")
    BY <1>2 DEF UnitStep
  <2>2. q.conn = s /\ q.at = "end"
    BY <2>1, ParserFields
  <2> HIDE DEF q
  <2>3. ParserOK(q, w, n, g, h)
    BY <1>2, <2>2 DEF ParserOK, Idle
  <2> QED
    BY <2>2, <2>3 DEF Nearer, q
<1>3. CASE s.buf # <<>> /\ s.buf[1].part = 0
  <2>1. q = Parser(Skip(s, 1), "top")
    BY <1>1, <1>3 DEF UnitStep
  <2>2. h = 1 /\ g = Plain /\ n > Plain
    <3>1. s.buf[1].part # 1
      BY <1>3
    <3> QED
      BY <1>3, <3>1, FirstPieces
  <2> DEFINE t == Skip(s, 1)
  <2>3. 1 <= Len(s.buf) /\ 1 + 1 = 2 /\ 1 \in 0..Len(s.buf)
    BY <1>1, <1>3
  <2>4. /\ t \in ConnState /\ t.buf = SubSeq(s.buf, 1 + 1, Len(s.buf))
        /\ t.settled = s.settled /\ t.validated = s.validated /\ t.tokens = s.tokens
        /\ t.got = s.got /\ t.dropped = s.dropped
    <3> HIDE DEF t
    <3> QED
      BY <2>3, PiecesSkipped DEF t
  <2> HIDE DEF t
  <2>5. Laid(t.buf, w, n, Plain, 0)
    BY <1>3, <2>2, <2>3, <2>4, HelloSkipped
  <2>6. Len(t.buf) = Len(s.buf) - 1
    BY <1>1, <2>3, <2>4, RestOfSeq
  <2>7. q.conn = t /\ q.at = "top"
    BY <2>1, ParserFields DEF t
  <2> HIDE DEF q
  <2>8. Took(t.got, t.dropped, Plain) /\ Tuned(t, Plain)
    BY <2>2, <2>4 DEF Tuned
  <2>9. ParserOK(q, w, n, Plain, 0)
    BY <2>4, <2>5, <2>7, <2>8 DEF ParserOK
  <2>10. StepsLeft(q) < Len(s.buf) + 2
    BY <1>1, <2>6, <2>7 DEF StepsLeft
  <2> QED
    BY <2>9, <2>10 DEF Nearer, q
<1>4. CASE s.buf # <<>> /\ s.buf[1].part # 0
  <2>1. /\ s.buf[1].part = 1 /\ s.buf[1].frame = g + 1 /\ s.buf[1].form = FormOf(g + 1) /\ g + 1 \in 0..n
        /\ h = 1 => g + 1 <= Plain
        /\ Len(s.buf) >= 2 => s.buf[2] = [s.buf[1] EXCEPT !.part = 2]
    BY <1>4, FirstPieces
  <2>2. StartsFrame(s, "sealed")
    <3>1. FormOf(g + 1) = "sealed"
      BY <1>1 DEF FormOf
    <3> QED
      BY <2>1, <3>1 DEF StartsFrame
  <2>3. CASE Len(s.buf) >= 2
    <3>1. WholeFrame(s)
      BY <2>1, <2>3 DEF WholeFrame
    <3>2. ~(NeedsTag(s) /\ ~TagMatches(s))
      <4>1. SUFFICES ASSUME s.settled, ~s.validated PROVE TagMatches(s)
        BY DEF NeedsTag
      <4>2. g = Plain
        BY <4>1 DEF Tuned
      <4> QED
        BY <2>1, <4>2 DEF TagMatches
    <3> DEFINE u == Skip(s, 2)
               x == [u EXCEPT !.validated = TRUE]
               t == Admit(x, g + 1)
    <3>3. q = Parser(t, "top")
      BY <1>1, <1>4, <2>1, <2>2, <3>1, <3>2 DEF UnitStep
    <3>4. /\ u \in ConnState /\ u.buf = SubSeq(s.buf, 2 + 1, Len(s.buf))
          /\ u.settled = s.settled /\ u.tokens = s.tokens
          /\ u.got = s.got /\ u.dropped = s.dropped
      <4>1. 2 \in Nat /\ 2 <= Len(s.buf)
        BY <1>1, <2>3
      <4> HIDE DEF u
      <4> QED
        BY <4>1, PiecesSkipped DEF u
    <3> HIDE DEF u
    <3>5. /\ x \in ConnState /\ x.buf = u.buf /\ x.settled = u.settled /\ x.validated = TRUE
          /\ x.tokens = u.tokens /\ x.got = u.got /\ x.dropped = u.dropped
      <4> HIDE DEF x
      <4> QED
        BY <3>4, ValidatedFields DEF x
    <3> HIDE DEF x, t, q
    <3>6. x.buf = SubSeq(s.buf, 3, Len(s.buf))
      <4>1. 2 + 1 = 3
        OBVIOUS
      <4> QED
        BY <3>4, <3>5, <4>1
    <3>7. /\ t \in ConnState /\ Laid(t.buf, w, n, g + 1, h) /\ Took(t.got, t.dropped, g + 1)
          /\ Tuned(t, g + 1) /\ Len(t.buf) = Len(s.buf) - 2
      <4>1. Stripped(x, s)
        BY <3>4, <3>5, <3>6 DEF Stripped
      <4>2. t = Admit(x, g + 1)
        BY DEF t
      <4>3. g + 1 \in 0..n /\ (h = 1 => g + 1 <= Plain)
        BY <2>1
      <4> QED
        <5>1. Advanced(t, x, s, w, n, g + 1, h)
          BY <2>3, <4>1, <4>2, <4>3, NextFrame
        <5> QED
          BY <5>1 DEF Advanced
    <3>8. q.conn = t /\ q.at = "top"
      BY <3>3, ParserFields
    <3>9. ParserOK(q, w, n, g + 1, h)
      BY <3>7, <3>8 DEF ParserOK
    <3>10. StepsLeft(q) < Len(s.buf) + 2
      BY <1>1, <3>7, <3>8 DEF StepsLeft
    <3> QED
      BY <3>9, <3>10 DEF Nearer, q
  <2>4. CASE ~(Len(s.buf) >= 2)
    <3>1. ~WholeFrame(s)
      BY <2>4 DEF WholeFrame
    <3>2. q = Parser(s, "end")
      BY <1>1, <1>4, <2>2, <3>1 DEF UnitStep
    <3>3. q.conn = s /\ q.at = "end"
      BY <3>2, ParserFields
    <3> HIDE DEF q
    <3>4. Idle(s.buf)
      <4>1. Len(s.buf) # 0
        BY <1>1, <1>4
      <4>2. Len(s.buf) = 1
        <5>1. \A k \in Nat : k # 0 /\ ~(k >= 2) => k = 1
          OBVIOUS
        <5> QED
          BY <1>1, <2>4, <4>1, <5>1
      <4> QED
        BY <2>1, <4>2 DEF Idle
    <3>5. ParserOK(q, w, n, g, h)
      BY <3>3, <3>4 DEF ParserOK
    <3> QED
      BY <3>3, <3>5 DEF Nearer, q
  <2> QED
    BY <2>3, <2>4
<1> QED
  BY <1>2, <1>3, <1>4

\* A frame in the clear.
LEMMA FrameStepOK ==
    ASSUME ToldApart, NEW p, NEW w, NEW n, NEW g, NEW h, ParserOK(p, w, n, g, h), p.at = "frames"
    PROVE  Nearer(FrameStep(p.conn), w, n, Len(p.conn.buf) + 1)
<1> DEFINE s == p.conn
           q == FrameStep(s)
<1>1. s \in ConnState /\ Laid(s.buf, w, n, g, h) /\ Took(s.got, s.dropped, g) /\ Tuned(s, g)
  BY DEF ParserOK
<1>2. s.buf # <<>> /\ s.settled => s.validated /\ Wrapping = "none"
  BY DEF ParserOK
<1> HIDE DEF s
<1>3. /\ s.buf \in Seq(PieceState) /\ Len(s.buf) \in Nat /\ s.broken = FALSE /\ g \in 0..n /\ n \in Nat
      /\ h \in {0, 1} /\ Plain \in Nat /\ s.tokens \in 0..MaxTokens /\ MaxTokens \in Nat
  <2>1. s.buf \in Seq(PieceState) /\ s.broken = FALSE /\ s.tokens \in 0..MaxTokens
    BY <1>1 DEF ConnState
  <2>2. g \in 0..n /\ n \in Nat /\ h \in {0, 1}
    BY <1>1 DEF Laid
  <2> QED
    BY <2>1, <2>2, FrameAssumption
<1>4. CASE s.buf = <<>>
  <2>1. q = Parser(s, "end")
    BY <1>4 DEF FrameStep
  <2>2. q.conn = s /\ q.at = "end"
    BY <2>1, ParserFields
  <2> HIDE DEF q
  <2>3. ParserOK(q, w, n, g, h)
    BY <1>1, <1>4, <2>2 DEF ParserOK, Idle
  <2> QED
    BY <2>2, <2>3 DEF Nearer, q, s
<1>5. CASE s.buf # <<>>
  <2>1. s.settled => Wrapping = "none"
    BY <1>2, <1>5
  <2>2. g < Plain \/ Wrapping = "none"
    <3>1. s.settled \/ ~(g >= Plain)
      BY <1>1 DEF Tuned
    <3> QED
      BY <1>3, <2>1, <3>1
  <2>3. /\ s.buf[1].part = 1 /\ s.buf[1].frame = g + 1 /\ s.buf[1].form = FormOf(g + 1) /\ g + 1 \in 0..n
        /\ h = 1 => g + 1 <= Plain
        /\ Len(s.buf) >= 2 => s.buf[2] = [s.buf[1] EXCEPT !.part = 2]
    <3>1. ~(s.buf[1].part = 0 /\ h = 1 /\ g = Plain /\ n > Plain)
      <4>1. h = 1 => Wrapping = "units"
        BY <1>1 DEF Laid
      <4> QED
        BY <1>3, <2>2, <4>1
    <3> QED
      BY <1>1, <1>5, <3>1, FirstPieces
  <2>4. StartsFrame(s, "open")
    <3>1. FormOf(g + 1) = "open"
      BY <1>3, <2>2 DEF FormOf
    <3> QED
      BY <2>3, <3>1 DEF StartsFrame
  <2>5. CASE Len(s.buf) < 2
    <3>1. q = Parser(s, "end")
      BY <1>3, <1>5, <2>4, <2>5 DEF FrameStep
    <3>2. q.conn = s /\ q.at = "end"
      BY <3>1, ParserFields
    <3> HIDE DEF q
    <3>3. Idle(s.buf)
      <4>1. Len(s.buf) # 0
        BY <1>3, <1>5
      <4>2. Len(s.buf) = 1
        <5>1. \A k \in Nat : k # 0 /\ k < 2 => k = 1
          OBVIOUS
        <5> QED
          BY <1>3, <2>5, <4>1, <5>1
      <4> QED
        BY <2>3, <4>2 DEF Idle
    <3>4. ParserOK(q, w, n, g, h)
      BY <1>1, <3>2, <3>3 DEF ParserOK
    <3> QED
      BY <3>2, <3>4 DEF Nearer, q, s
  <2>6. CASE ~(Len(s.buf) < 2)
    <3>1. Len(s.buf) >= 2
      BY <1>3, <2>6
    <3>2. WholeFrame(s)
      BY <2>3, <3>1 DEF WholeFrame
    <3> DEFINE x == Skip(s, 2)
               t == Admit(x, g + 1)
               at == IF t.settled /\ s.tokens > 0 THEN "top" ELSE "frames"
    <3>3. q = Parser(t, at)
      BY <1>3, <1>5, <2>3, <2>4, <2>6, <3>2 DEF FrameStep
    <3> HIDE DEF q
    <3>4. /\ x \in ConnState /\ x.buf = SubSeq(s.buf, 2 + 1, Len(s.buf))
          /\ x.settled = s.settled /\ x.validated = s.validated /\ x.tokens = s.tokens
          /\ x.got = s.got /\ x.dropped = s.dropped
      <4>1. 2 \in Nat /\ 2 <= Len(s.buf)
        BY <3>1
      <4> HIDE DEF x
      <4> QED
        BY <1>1, <4>1, PiecesSkipped DEF x
    <3> HIDE DEF x, t
    <3>5. x.buf = SubSeq(s.buf, 3, Len(s.buf))
      <4>1. 2 + 1 = 3
        OBVIOUS
      <4> QED
        BY <3>4, <4>1
    <3>6. /\ t \in ConnState /\ Laid(t.buf, w, n, g + 1, h) /\ Took(t.got, t.dropped, g + 1)
          /\ Tuned(t, g + 1) /\ t.validated = x.validated /\ (x.tokens = 0 => x.settled /\ t.settled)
          /\ Len(t.buf) = Len(s.buf) - 2
      <4>1. Stripped(x, s)
        <5>1. x.settled => x.validated
          BY <1>2, <1>5, <3>4
        <5> QED
          BY <3>4, <3>5, <5>1 DEF Stripped
      <4>2. t = Admit(x, g + 1)
        BY DEF t
      <4>3. g + 1 \in 0..n /\ (h = 1 => g + 1 <= Plain)
        BY <2>3
      <4> QED
        <5>1. Advanced(t, x, s, w, n, g + 1, h)
          BY <1>1, <3>1, <4>1, <4>2, <4>3, NextFrame
        <5> QED
          BY <5>1 DEF Advanced
    <3>7. q.conn = t /\ q.at = at /\ at \in {"top", "frames"}
      BY <3>3, ParserFields
    <3>8. at = "frames" /\ t.settled => t.validated /\ Wrapping = "none"
      <4>1. SUFFICES ASSUME at = "frames", t.settled PROVE s.settled
        BY <1>2, <1>5, <3>4, <3>6
      <4>2. s.tokens = 0
        BY <1>3, <4>1
      <4> QED
        BY <3>4, <3>6, <4>2
    <3> HIDE DEF at
    <3>9. ParserOK(q, w, n, g + 1, h)
      BY <3>6, <3>7, <3>8 DEF ParserOK
    <3>10. StepsLeft(q) < Len(s.buf) + 1
      <4>1. StepsLeft(q) = Len(t.buf) + 2 \/ StepsLeft(q) = Len(t.buf) + 1
        BY <3>7 DEF StepsLeft
      <4> QED
        BY <1>3, <3>6, <4>1
    <3> QED
      BY <3>9, <3>10 DEF Nearer, q, s
  <2> QED
    BY <2>5, <2>6
<1> QED
  BY <1>4, <1>5

\* The top of the parser: units, or the tag before the first frame.
LEMMA TopStepOK ==
    ASSUME ToldApart, NEW p, NEW w, NEW n, NEW g, NEW h, ParserOK(p, w, n, g, h), p.at = "top"
    PROVE  Nearer(TopStep(p.conn), w, n, Len(p.conn.buf) + 2)
<1> DEFINE s == p.conn
           q == TopStep(s)
<1>1. s \in ConnState /\ Laid(s.buf, w, n, g, h) /\ Took(s.got, s.dropped, g) /\ Tuned(s, g)
  BY DEF ParserOK
<1> HIDE DEF s
<1>2. CASE s.settled /\ Wrapping = "units"
  <2>1. q = UnitStep(s)
    BY <1>2 DEF TopStep
  <2>2. Nearer(UnitStep(s), w, n, Len(s.buf) + 2)
    BY <1>1, <1>2, UnitStepOK
  <2> QED
    BY <2>1, <2>2 DEF s
<1>3. CASE ~(s.settled /\ Wrapping = "units")
  <2>1. s.settled => Wrapping = "none"
    BY <1>3 DEF ToldApart
  <2>2. s.buf \in Seq(PieceState) /\ Len(s.buf) \in Nat
    BY <1>1 DEF ConnState
  <2>3. Unwrapped(s) = s
    <3>1. CASE s.settled /\ s.buf # <<>>
      <4>1. Revealed(s.buf) = s.buf
        BY <2>1, <3>1 DEF Revealed
      <4>2. [s EXCEPT !.buf = s.buf] = s
        BY <1>1 DEF ConnState
      <4> QED
        BY <3>1, <4>1, <4>2 DEF Unwrapped
    <3> QED
      BY <3>1 DEF Unwrapped
  <2>4. CASE ~NeedsTag(s) \/ s.buf = <<>>
    <3>1. q = Parser(s, "frames")
      BY <1>3, <2>3, <2>4 DEF TopStep
    <3>2. q.conn = s /\ q.at = "frames"
      BY <3>1, ParserFields
    <3> HIDE DEF q
    <3>3. s.buf # <<>> /\ s.settled => s.validated /\ Wrapping = "none"
      BY <2>1, <2>4 DEF NeedsTag
    <3>4. ParserOK(q, w, n, g, h)
      BY <1>1, <3>2, <3>3 DEF ParserOK
    <3>5. StepsLeft(q) < Len(s.buf) + 2
      BY <2>2, <3>2 DEF StepsLeft
    <3> QED
      BY <3>4, <3>5 DEF Nearer, q, s
  <2>5. CASE NeedsTag(s) /\ s.buf # <<>>
    <3>1. s.settled /\ ~s.validated /\ g = Plain /\ Wrapping = "none"
      BY <1>1, <2>1, <2>5 DEF NeedsTag, Tuned
    <3>2. s.buf[1].part = 1 /\ s.buf[1].frame = g + 1 /\ s.buf[1].form = FormOf(g + 1)
      <4>1. h # 1
        BY <1>1, <3>1 DEF Laid
      <4>2. \/ s.buf[1].part = 0 /\ h = 1 /\ g = Plain /\ n > Plain
            \/ /\ s.buf[1].part = 1 /\ s.buf[1].frame = g + 1 /\ s.buf[1].form = FormOf(g + 1) /\ g + 1 \in 0..n
               /\ h = 1 => g + 1 <= Plain
               /\ Len(s.buf) >= 2 => s.buf[2] = [s.buf[1] EXCEPT !.part = 2]
        BY <1>1, <2>5, FirstPieces
      <4> QED
        BY <4>1, <4>2
    <3>3. StartsFrame(s, "open") /\ TagMatches(s)
      BY <3>1, <3>2 DEF StartsFrame, TagMatches, FormOf
    <3> DEFINE t == [s EXCEPT !.validated = TRUE]
    <3>4. q = Parser(t, "frames")
      BY <1>3, <2>3, <2>5, <3>3 DEF TopStep
    <3> HIDE DEF t
    <3>5. /\ t \in ConnState /\ t.buf = s.buf /\ t.settled = s.settled /\ t.validated = TRUE
          /\ t.tokens = s.tokens /\ t.got = s.got /\ t.dropped = s.dropped
      BY <1>1, ValidatedFields DEF t
    <3>6. q.conn = t /\ q.at = "frames"
      BY <3>4, ParserFields
    <3> HIDE DEF q
    <3>7. Tuned(t, g)
      BY <1>1, <3>5 DEF Tuned
    <3>8. ParserOK(q, w, n, g, h)
      BY <1>1, <3>1, <3>5, <3>6, <3>7 DEF ParserOK
    <3>9. StepsLeft(q) < Len(s.buf) + 2
      BY <2>2, <3>5, <3>6 DEF StepsLeft
    <3> QED
      BY <3>8, <3>9 DEF Nearer, q, s
  <2> QED
    BY <2>4, <2>5
<1> QED
  BY <1>2, <1>3

\* Each step of the parser brings it nearer to its end.
LEMMA ParserStepOK ==
    ASSUME ToldApart, NEW p, NEW w, NEW n, NEW g, NEW h, ParserOK(p, w, n, g, h)
    PROVE  Nearer(ParserStep(p), w, n, StepsLeft(p))
<1>1. CASE p.at = "top"
  <2>1. ParserStep(p) = TopStep(p.conn) /\ StepsLeft(p) = Len(p.conn.buf) + 2
    BY <1>1 DEF ParserStep, StepsLeft
  <2> QED
    BY <1>1, <2>1, TopStepOK
<1>2. CASE p.at = "frames"
  <2>1. ParserStep(p) = FrameStep(p.conn) /\ StepsLeft(p) = Len(p.conn.buf) + 1
    BY <1>2 DEF ParserStep, StepsLeft
  <2> QED
    BY <1>2, <2>1, FrameStepOK
<1>3. CASE p.at = "end"
  <2>1. ParserStep(p) = p
    BY <1>3 DEF ParserStep
  <2> QED
    BY <1>3, <2>1 DEF Nearer
<1> QED
  BY <1>1, <1>2, <1>3 DEF ParserOK

\* A connection between two reads.
Rested(s, w, n, g, h) ==
    /\ s \in ConnState /\ Laid(s.buf, w, n, g, h) /\ Took(s.got, s.dropped, g) /\ Tuned(s, g)
    /\ Idle(s.buf)
\* The parser after k of its N steps.
OnItsWay(p, w, n, k, N) ==
    \E g, h : ParserOK(p, w, n, g, h) /\ (p.at = "end" \/ StepsLeft(p) + k <= N)

\* How many steps a parser has left.
LEMMA StepsLeftNat ==
    ASSUME NEW p, NEW w, NEW n, NEW g, NEW h, ParserOK(p, w, n, g, h)
    PROVE  StepsLeft(p) \in Nat /\ (p.at # "end" => StepsLeft(p) >= 1)
<1>1. Len(p.conn.buf) \in Nat /\ p.at \in {"top", "frames", "end"}
  BY DEF ParserOK, ConnState
<1> QED
  BY <1>1 DEF StepsLeft

\* Every step brings the parser on its way.
LEMMA StepOnItsWay ==
    ASSUME ToldApart, NEW p, NEW w, NEW n, NEW N \in Nat, NEW k \in Nat, OnItsWay(p, w, n, k, N)
    PROVE  OnItsWay(ParserStep(p), w, n, k + 1, N)
<1> DEFINE q == ParserStep(p)
<1>1. PICK g, h : ParserOK(p, w, n, g, h) /\ (p.at = "end" \/ StepsLeft(p) + k <= N)
  BY DEF OnItsWay
<1>2. Nearer(q, w, n, StepsLeft(p))
  BY <1>1, ParserStepOK
<1> HIDE DEF q
<1>3. PICK g1, h1 : ParserOK(q, w, n, g1, h1) /\ (q.at = "end" \/ StepsLeft(q) < StepsLeft(p))
  BY <1>2 DEF Nearer
<1>4. StepsLeft(p) \in Nat
  BY <1>1, StepsLeftNat
<1>5. StepsLeft(q) \in Nat /\ (q.at # "end" => StepsLeft(q) >= 1)
  BY <1>3, StepsLeftNat
<1>6. q.at = "end" \/ StepsLeft(q) + (k + 1) <= N
  <2>1. CASE p.at = "end"
    <3>1. StepsLeft(p) = 0
      BY <2>1 DEF StepsLeft
    <3> QED
      BY <1>3, <1>5, <3>1
  <2>2. CASE p.at # "end"
    BY <1>1, <1>3, <1>4, <1>5, <2>2
  <2> QED
    BY <2>1, <2>2
<1> QED
  BY <1>3, <1>6 DEF OnItsWay, q

\* What is delivered from a buffer leaves the connection as it was between two reads.
LEMMA DeliverOK ==
    ASSUME ToldApart, NEW s \in ConnState, NEW w, NEW n, NEW g0, NEW h0, Laid(s.buf, w, n, g0, h0),
           Took(s.got, s.dropped, g0), Tuned(s, g0)
    PROVE  \E g, h : Rested(Deliver(s), w, n, g, h)
<1> DEFINE N == Len(s.buf) + 2
<1>1. Len(s.buf) \in Nat /\ N \in Nat
  BY DEF ConnState
<1>2. PICK r : StepsOf(r, s, N) /\ Deliver(s) = r[N].conn
  BY <1>1, DeliverSteps
<1>3. OnItsWay(r[0], w, n, 0, N)
  <2>1. r[0].conn = s /\ r[0].at = "top"
    BY <1>2, ParserFields DEF StepsOf
  <2> DEFINE p == r[0]
  <2> HIDE DEF p
  <2>2. p.conn = s /\ p.at = "top"
    BY <2>1 DEF p
  <2>3. ParserOK(p, w, n, g0, h0)
    BY <2>2 DEF ParserOK
  <2>4. StepsLeft(p) + 0 <= N
    BY <1>1, <2>2 DEF StepsLeft
  <2> QED
    BY <2>3, <2>4 DEF OnItsWay, p
<1> HIDE DEF N
<1> DEFINE Bad == {k \in 0..N : ~OnItsWay(r[k], w, n, k, N)}
<1>4. Bad = {}
  <2>1. SUFFICES ASSUME Bad # {} PROVE FALSE
    OBVIOUS
  <2>2. PICK k \in Bad : \A m \in Bad : k <= m
    <3>1. Bad \subseteq Nat /\ Bad # {}
      BY <1>1, <2>1
    <3> HIDE DEF Bad
    <3> QED
      BY <3>1, LeastNatural
  <2>3. k \in 0..N /\ ~OnItsWay(r[k], w, n, k, N)
    OBVIOUS
  <2>4. k # 0
    BY <1>3, <2>3
  <2>5. k - 1 \in 0..N /\ k - 1 \in Nat /\ k \in 1..N /\ ~(k <= k - 1) /\ (k - 1) + 1 = k
    BY <1>1, <2>3, <2>4
  <2>6. k - 1 \notin Bad
    BY <2>2, <2>5
  <2>7. OnItsWay(r[k - 1], w, n, k - 1, N)
    BY <2>5, <2>6
  <2>8. r[k] = ParserStep(r[k - 1])
    BY <1>2, <2>5 DEF StepsOf
  <2>9. OnItsWay(ParserStep(r[k - 1]), w, n, (k - 1) + 1, N)
    BY <1>1, <2>5, <2>7, StepOnItsWay
  <2> QED
    BY <2>3, <2>5, <2>8, <2>9
<1>5. OnItsWay(r[N], w, n, N, N)
  BY <1>1, <1>4
<1> DEFINE p == r[N]
<1> HIDE DEF p
<1>6. PICK g, h : ParserOK(p, w, n, g, h) /\ (p.at = "end" \/ StepsLeft(p) + N <= N)
  BY <1>5 DEF OnItsWay, p
<1>7. p.at = "end"
  <2>1. StepsLeft(p) \in Nat /\ (p.at # "end" => StepsLeft(p) >= 1)
    BY <1>6, StepsLeftNat
  <2> QED
    BY <1>1, <1>6, <2>1
<1>8. Rested(p.conn, w, n, g, h)
  BY <1>6, <1>7 DEF ParserOK, Rested
<1> QED
  BY <1>2, <1>8 DEF p

\* Between the two ends lie the rest of the frames that were sent.
FrameInv == \E g, h : Rested(rx, stream, framesSent, g, h)

\* Nothing is sent at first.
LEMMA FrameInvStarts == ASSUME FrameInit PROVE FrameInv
<1> DEFINE h == IF Wrapping = "units" THEN 1 ELSE 0
<1>1. h \in {0, 1} /\ (h = 1 <=> Wrapping = "units") /\ Plain \in Nat \ {0} /\ MaxTokens \in Nat
  BY FrameAssumption
<1> HIDE DEF h
<1>2. rx \in ConnState /\ rx.buf = <<>> /\ rx.got = <<>> /\ rx.dropped = {} /\ rx.settled = FALSE /\ rx.tokens = MaxTokens
  BY <1>1 DEF FrameInit, ConnState
<1>3. stream = <<>> /\ framesSent = 0
  BY DEF FrameInit
<1>4. Laid(<<>>, <<>>, 0, 0, h)
  <2>1. Extra(0, h) = 0
    BY <1>1 DEF Extra
  <2>2. <<>> \in Seq(PieceState) /\ Len(<<>>) = 0 /\ 1..0 = {} /\ 0 \in 0..0
    OBVIOUS
  <2>3. RunOf(<<>>, 0, 0, h)
    BY <2>2 DEF RunOf
  <2> QED
    BY <1>1, <2>1, <2>2, <2>3 DEF Laid
<1>5. Took(<<>>, {}, 0)
  BY DEF Took, ToSet
<1>6. Tuned(rx, 0)
  BY <1>1, <1>2 DEF Tuned
<1>7. Idle(<<>>)
  BY DEF Idle
<1> QED
  BY <1>2, <1>3, <1>4, <1>5, <1>6, <1>7 DEF FrameInv, Rested

\* Sending, reading and the passing of time keep it.
LEMMA FrameStepKeeps == ASSUME ToldApart, FrameInv, [FrameNext]_frameVars PROVE FrameInv'
<1>1. PICK g, h : Rested(rx, stream, framesSent, g, h)
  BY DEF FrameInv
<1>2. /\ rx \in ConnState /\ Laid(rx.buf, stream, framesSent, g, h) /\ Took(rx.got, rx.dropped, g)
      /\ Tuned(rx, g) /\ Idle(rx.buf)
  BY <1>1 DEF Rested
<1>3. CASE SendFrame
  <2>1. rx' = rx /\ framesSent' = framesSent + 1 /\ stream' = stream \o Built(framesSent + 1)
    BY <1>3 DEF SendFrame
  <2>2. Laid(rx.buf, stream \o Built(framesSent + 1), framesSent + 1, g, h)
    BY <1>2, FrameSent
  <2>3. Rested(rx', stream', framesSent', g, h)
    BY <1>2, <2>1, <2>2 DEF Rested
  <2> QED
    BY <2>3 DEF FrameInv
<1>4. CASE ReadPieces
  <2>1. PICK j \in 1..Len(stream) :
           /\ rx' = Deliver([rx EXCEPT !.buf = @ \o SubSeq(stream, 1, j)])
           /\ stream' = SubSeq(stream, j + 1, Len(stream))
    BY <1>4 DEF ReadPieces
  <2>2. framesSent' = framesSent
    BY <1>4 DEF ReadPieces
  <2> DEFINE c == rx.buf \o SubSeq(stream, 1, j)
             s == [rx EXCEPT !.buf = c]
  <2>3. Laid(c, stream', framesSent, g, h)
    BY <1>2, <2>1, PiecesRead
  <2>4. c \in Seq(PieceState)
    BY <2>3 DEF Laid
  <2>5. rx' = Deliver(s)
    BY <2>1
  <2> HIDE DEF c
  <2>6. /\ s \in ConnState /\ s.buf = c /\ s.settled = rx.settled /\ s.validated = rx.validated
        /\ s.tokens = rx.tokens /\ s.got = rx.got /\ s.dropped = rx.dropped
    BY <1>2, <2>4 DEF ConnState
  <2> HIDE DEF s
  <2>7. Laid(s.buf, stream', framesSent, g, h) /\ Took(s.got, s.dropped, g) /\ Tuned(s, g)
    BY <1>2, <2>3, <2>6 DEF Tuned
  <2> DEFINE v == stream'
  <2> HIDE DEF v
  <2>8. Laid(s.buf, v, framesSent, g, h)
    BY <2>7 DEF v
  <2>9. \E g1, h1 : Rested(Deliver(s), v, framesSent, g1, h1)
    BY <2>6, <2>7, <2>8, DeliverOK
  <2> QED
    BY <2>2, <2>5, <2>9 DEF FrameInv, v
<1>5. CASE RefillTokens
  <2> DEFINE k == IF rx.tokens + Refill > MaxTokens THEN MaxTokens ELSE rx.tokens + Refill
  <2>1. rx.tokens \in 0..MaxTokens /\ MaxTokens \in Nat /\ Refill \in Nat \ {0} /\ Plain \in Nat
    BY <1>2, FrameAssumption DEF ConnState
  <2>2. k \in 0..MaxTokens /\ k >= rx.tokens
    BY <2>1
  <2>3. rx' = [rx EXCEPT !.tokens = k] /\ UNCHANGED <<framesSent, stream>>
    BY <1>5 DEF RefillTokens
  <2> HIDE DEF k
  <2>4. /\ rx' \in ConnState /\ rx'.buf = rx.buf /\ rx'.settled = rx.settled /\ rx'.validated = rx.validated
        /\ rx'.tokens = k /\ rx'.got = rx.got /\ rx'.dropped = rx.dropped
    BY <1>2, <2>2, <2>3 DEF ConnState
  <2>5. Tuned(rx', g)
    <3>1. g < Plain => k + g >= MaxTokens
      <4>1. g \in Nat
        BY <1>2 DEF Laid
      <4>2. g < Plain => rx.tokens + g >= MaxTokens
        BY <1>2 DEF Tuned
      <4> QED
        BY <2>1, <2>2, <4>1, <4>2
    <3> QED
      BY <1>2, <2>4, <3>1 DEF Tuned
  <2>6. Rested(rx', stream', framesSent', g, h)
    BY <1>2, <2>3, <2>4, <2>5 DEF Rested
  <2> QED
    BY <2>6 DEF FrameInv
<1>6. CASE UNCHANGED frameVars
  BY <1>6 DEF FrameInv, Rested, frameVars
<1> QED
  BY <1>3, <1>4, <1>5, <1>6 DEF FrameNext

\* The frames that were taken are those no piece of which is under way.
LEMMA TakenAreRead ==
    ASSUME NEW b, NEW w, NEW n, NEW g, NEW h, Laid(b, w, n, g, h), Idle(b)
    PROVE  {f \in 1..n : \A i \in 1..Len(w) : w[i].frame # f} = 1..g
<1>1. /\ Len(b) \in Nat /\ Len(b) <= 1 /\ Len(w) \in Nat /\ n \in Nat /\ g \in 0..n /\ h \in {0, 1}
      /\ Plain \in Nat /\ (h = 1 => g <= Plain) /\ g \in Nat
      /\ Len(b) + Len(w) = 2 * (n - g) + Extra(n, h)
  <2>1. /\ b \in Seq(PieceState) /\ w \in Seq(PieceState) /\ n \in Nat /\ g \in 0..n /\ h \in {0, 1}
        /\ (h = 1 => g <= Plain) /\ Len(b) + Len(w) = 2 * (n - g) + Extra(n, h)
    BY DEF Laid
  <2>2. Len(b) <= 1
    <3>1. b = <<>> \/ Len(b) = 1
      BY DEF Idle
    <3>2. Len(<<>>) = 0
      OBVIOUS
    <3> QED
      BY <3>1, <3>2
  <2>3. Plain \in Nat
    BY FrameAssumption
  <2> QED
    BY <2>1, <2>2, <2>3
<1>2. \A f \in Nat : Extra(f, h) = IF f > Plain THEN h ELSE 0
  BY DEF Extra
<1>3. ASSUME NEW i \in 1..Len(w)
      PROVE  /\ w[i].frame \in Nat /\ w[i].part \in {0, 1, 2}
             /\ Len(b) + i = 2 * (w[i].frame - g - 1) + w[i].part + Extra(w[i].frame, h)
             /\ w[i].part = 0 => w[i].frame = Plain + 1 /\ h = 1
  <2>1. InPlace(w[i], Len(b) + i, g, h)
    BY DEF Laid, RunOf
  <2> QED
    BY <2>1 DEF InPlace, PieceState
<1>4. ASSUME NEW f \in 1..g, NEW i \in 1..Len(w) PROVE w[i].frame # f
  <2>1. SUFFICES ASSUME w[i].frame = f PROVE FALSE
    OBVIOUS
  <2>2. Extra(f, h) = 0
    BY <1>1, <1>2
  <2> DEFINE q == w[i].part
             l == Len(b)
             e == Extra(w[i].frame, h)
  <2>3. q \in {0, 1, 2} /\ l \in Nat /\ i \in Nat \ {0} /\ e = 0 /\ l + i = 2 * (f - g - 1) + q + e
    <3>1. l + i = 2 * (w[i].frame - g - 1) + q + e /\ q \in {0, 1, 2}
      BY <1>3
    <3>2. e = 0 /\ l + i = 2 * (f - g - 1) + q + e
      BY <2>1, <2>2, <3>1
    <3> QED
      BY <1>1, <3>1, <3>2
  <2> HIDE DEF q, l, e
  <2> QED
    BY <1>1, <2>3
<1>5. ASSUME NEW f \in 1..n, f > g PROVE \E i \in 1..Len(w) : w[i].frame = f
  <2> DEFINE e == Extra(f, h)
             i == 2 * (f - g) + e - Len(b)
             l == Extra(n, h)
  <2>1. e \in {0, 1} /\ l \in {0, 1} /\ e <= l /\ e = IF f > Plain THEN h ELSE 0
    BY <1>1, <1>2
  <2> HIDE DEF e, l
  <2>2. Len(b) + Len(w) = 2 * (n - g) + l
    BY <1>1 DEF l
  <2>3. i \in 1..Len(w) /\ Len(b) + i = 2 * (f - g) + e
    BY <1>1, <1>5, <2>1, <2>2
  <2> HIDE DEF i
  <2> DEFINE x == w[i].frame
             q == w[i].part
             d == Extra(x, h)
  <2>4. /\ x \in Nat /\ q \in {0, 1, 2} /\ Len(b) + i = 2 * (x - g - 1) + q + d
        /\ q = 0 => x = Plain + 1 /\ h = 1
        /\ d = IF x > Plain THEN h ELSE 0
    BY <1>2, <1>3, <2>3
  <2> HIDE DEF x, q, d
  <2>5. 2 * (f - g) + e = 2 * (x - g - 1) + q + d
    BY <2>3, <2>4
  <2>6. x = f
    <3>1. d \in {0, 1} /\ f \in Nat
      BY <1>1, <2>4
    <3>2. ~(x < f)
      BY <1>1, <2>1, <2>4, <2>5, <3>1
    <3>3. ~(x > f)
      BY <1>1, <2>1, <2>4, <2>5, <3>1
    <3> QED
      BY <2>4, <3>1, <3>2, <3>3
  <2> QED
    BY <2>3, <2>6 DEF x
<1>6. ASSUME NEW f \in 1..n PROVE (\A i \in 1..Len(w) : w[i].frame # f) <=> f \in 1..g
  <2>1. f \in 1..g \/ f > g
    BY <1>1
  <2>2. ~(f \in 1..g /\ f > g)
    BY <1>1
  <2> QED
    BY <1>4, <1>5, <2>1, <2>2
<1>7. 1..g \subseteq 1..n
  BY <1>1
<1> QED
  BY <1>6, <1>7

\* What the receiver took is what was read.
LEMMA FrameInvSuffices == ASSUME FrameInv PROVE FramesDelivered
<1>1. PICK g, h : Rested(rx, stream, framesSent, g, h)
  BY DEF FrameInv
<1>2. WhollyRead = 1..g
  BY <1>1, TakenAreRead DEF Rested, WhollyRead
<1> QED
  BY <1>1, <1>2 DEF FramesDelivered, Rested, Took

----------------------------------------------------------------------------
(* The properties of the run that join components. *)

\* A step of the whole is a step of each component or leaves it alone.
LEMMA MeshPartsStep ==
    ASSUME MeshNext \/ UNCHANGED meshVars
    PROVE  /\ [GossipNext]_gossipVars /\ [PoolNext]_poolVars /\ [GuardNext]_guardVars
           /\ [CanaryNext \/ DescNext]_hopVars /\ [SendNext]_sendVars
           /\ [ExitNext]_exitVars /\ [TurnNext]_turnVars
BY DEF MeshNext, OthersRest, Rests, meshVars, SendNext

\* The joint invariant of those components.
WholeInv == GossipInv /\ SendInv /\ ExitInv /\ TurnInv /\ GuardInv /\ HopInv /\ PoolInv

\* It holds in every state of the whole.
LEMMA WholeInvHolds == MeshSpec => []WholeInv
<1>1. MeshInit => WholeInv
  <2> SUFFICES ASSUME MeshInit PROVE WholeInv
    OBVIOUS
  <2>1. GossipInit /\ PoolInit /\ GuardInit /\ HopInit /\ SendInit /\ ExitInit /\ TurnInit
    BY DEF MeshInit
  <2>2. TurnInv
    BY <2>1 DEF TurnInit, TurnInv
  <2> QED
    BY <2>1, <2>2, GossipInvStarts, SendInvStarts, ExitInvStarts, GuardInvStarts, HopInvStarts,
       PoolInvStarts DEF WholeInv
<1>2. WholeInv /\ [MeshNext]_meshVars => WholeInv'
  <2> SUFFICES ASSUME WholeInv, [MeshNext]_meshVars PROVE WholeInv'
    OBVIOUS
  <2>1. /\ [GossipNext]_gossipVars /\ [PoolNext]_poolVars /\ [GuardNext]_guardVars
        /\ [CanaryNext \/ DescNext]_hopVars /\ [SendNext]_sendVars
        /\ [ExitNext]_exitVars /\ [TurnNext]_turnVars
    BY MeshPartsStep
  <2> QED
    BY <2>1, GossipStepKeeps, SendStepKeeps, ExitStepKeeps, TurnStepKeeps, GuardStepKeeps, HopStepKeeps,
       PoolStepKeeps DEF WholeInv
<1> QED
  BY <1>1, <1>2, PTL DEF MeshSpec

\* Nothing is taken twice and nothing accepted is lost, for any number of nodes, messages and
\* peers: an announcement is shown once (gossip.c), a message that the application was told
\* is sent is in one place (the batch and the send list of src/src/sdk/client.c).
THEOREM DeliveredOnceHolds == MeshSpec => []DeliveredOnce
<1>1. WholeInv => DeliveredOnce
  BY GossipShowsOnce, SendInvSuffices DEF WholeInv, DeliveredOnce
<1> QED
  BY <1>1, WholeInvHolds, PTL

\* What a client asked to be relayed leads to the target it named, for any number of slots,
\* streams, clients and channels (exit_relay.c, turn.c).
THEOREM RelayedToTargetHolds == MeshSpec => []RelayedToTarget
<1>1. WholeInv => RelayedToTarget
  BY ExitInvSuffices, TurnInvSuffices DEF WholeInv, RelayedToTarget
<1> QED
  BY <1>1, WholeInvHolds, PTL

\* So is the framing, the scheduler's and the multiplexer's part.
LEMMA StreamPartsStep ==
    ASSUME MeshNext \/ UNCHANGED meshVars
    PROVE  [FrameNext]_frameVars /\ [RateNext]_rateVars /\ [MuxNext]_muxVars
BY DEF MeshNext, OthersRest, Rests, meshVars

\* What is written comes out whole and in order, wherever the reads of a connection cut its bytes,
\* for any number of frames, any token bucket, ring, batches, streams and pieces, when the frames
\* that share a buffer are told apart: without a wrapping, or in units of their own
\* (trellis_frame_deliver, sched_tick, mux_on_recv).
THEOREM StreamsInOrderHolds == ToldApart /\ MeshSpec => []StreamsInOrder
<1> SUFFICES ASSUME ToldApart PROVE MeshSpec => []StreamsInOrder
  OBVIOUS
<1> DEFINE Inv == FrameInv /\ RateInv /\ MuxInv
<1>1. MeshInit => Inv
  BY FrameInvStarts, RateInvStarts, MuxInvStarts DEF MeshInit
<1>2. Inv /\ [MeshNext]_meshVars => Inv'
  <2> SUFFICES ASSUME Inv, [MeshNext]_meshVars PROVE Inv'
    OBVIOUS
  <2>1. [FrameNext]_frameVars /\ [RateNext]_rateVars /\ [MuxNext]_muxVars
    BY StreamPartsStep
  <2> QED
    BY <2>1, FrameStepKeeps, RateStepKeeps, MuxStepKeeps
<1>3. Inv => StreamsInOrder
  BY FrameInvSuffices DEF StreamsInOrder, RateInv, MuxInv, StreamOK, BacklogInOrder
<1> HIDE DEF Inv
<1> QED
  BY <1>1, <1>2, <1>3, PTL DEF MeshSpec

\* The route of a message is the one that was decided on, for any number of guards, peers,
\* subnets, relays and circuits, and any lifetimes (guard.c, relay_descriptor.c, canary.c,
\* circuit_pool.c).
THEOREM RoutesHoldHolds == MeshSpec => RoutesHold
<1>1. WholeInv => GuardsKept /\ GuardsDiverse /\ DescriptorsAreRecent /\ SealedForCurrentKeys
  BY GuardInvSuffices, HopInvSuffices DEF WholeInv, PoolInv, SealedForCurrentKeys
<1>2. WholeInv /\ [MeshNext]_meshVars
      => [\A r \in used' \ used : canaries[r].valid => day <= canaries[r].issued + CanaryAge]_hopVars
  BY MeshPartsStep, HopStepSkips DEF WholeInv
<1>3. MeshSpec => [](GuardsKept /\ GuardsDiverse /\ DescriptorsAreRecent /\ SealedForCurrentKeys)
  BY <1>1, WholeInvHolds, PTL
<1>4. MeshSpec => ExpiredIsSkipped
  BY <1>2, WholeInvHolds, PTL DEF MeshSpec, ExpiredIsSkipped
<1> QED
  BY <1>3, <1>4, PTL DEF RoutesHold

\* So is the table's, the gate's and the handshakes' part, and no step changes which part steps.
LEMMA TypePartsStep ==
    ASSUME MeshNext \/ UNCHANGED meshVars
    PROVE  /\ part' = part /\ [TableNext]_tableVars /\ [PowNext \/ GuardingNext]_gateVars
           /\ [HandshakeNext]_handshakeVars
BY DEF MeshNext, OthersRest, Rests, meshVars

\* What the types of the components need together: the invariant of each, and the bounds that
\* its tables, queues and counters keep.
TypeInv ==
    /\ part \in MeshParts /\ TableTypeOK /\ PoolInv
    /\ GuardInv /\ VanguardInv /\ HopInv /\ SlotsFit /\ SendFits /\ RelayFits /\ TurnInv /\ ServerFits
    /\ GateInv /\ GuardingInv /\ PowFits /\ GuardingFits /\ HandshakeInv /\ TranscriptsFit
    /\ RateInv /\ RateFits /\ MuxInv /\ MuxFits

\* It holds in every state of the whole.
LEMMA TypeInvHolds == MeshSpec => []TypeInv
<1>1. MeshInit => TypeInv
  <2> SUFFICES ASSUME MeshInit PROVE TypeInv
    OBVIOUS
  <2>1. /\ part \in MeshParts /\ TableInit /\ PoolInit /\ GuardInit /\ HopInit /\ SendInit /\ ExitInit
        /\ TurnInit /\ GateInit /\ HandshakeInit /\ RateInit /\ MuxInit
    BY DEF MeshInit
  <2>2. TurnInv
    BY <2>1 DEF TurnInit, TurnInv
  <2>3. TableTypeOK /\ PoolInv /\ GuardInv /\ VanguardInv /\ HopInv /\ SlotsFit /\ SendFits
    BY <2>1, TableTypeKept, PoolInvStarts, GuardInvStarts, VanguardsKept, HopInvStarts, SlotsKept, SendFitsKept
  <2>4. RelayFits /\ ServerFits /\ GateInv /\ GuardingInv /\ PowFits /\ GuardingFits
    BY <2>1, RelayFitsKept, ServerFitsKept, GateInvStarts, GuardingInvStarts, PowFitsKept, GuardingFitsKept
  <2>5. HandshakeInv /\ TranscriptsFit /\ RateInv /\ RateFits /\ MuxInv /\ MuxFits
    BY <2>1, HandshakeInvStarts, TranscriptsFitKept, RateInvStarts, RateFitsKept, MuxInvStarts, MuxFitsKept
  <2> QED
    BY <2>1, <2>2, <2>3, <2>4, <2>5 DEF TypeInv
<1>2. TypeInv /\ [MeshNext]_meshVars => TypeInv'
  <2> SUFFICES ASSUME TypeInv, [MeshNext]_meshVars PROVE TypeInv'
    OBVIOUS
  <2>1. /\ [PoolNext]_poolVars /\ [GuardNext]_guardVars /\ [CanaryNext \/ DescNext]_hopVars
        /\ [SendNext]_sendVars /\ [ExitNext]_exitVars /\ [TurnNext]_turnVars
    BY MeshPartsStep
  <2>2. [RateNext]_rateVars /\ [MuxNext]_muxVars
    BY StreamPartsStep
  <2>3. /\ part' = part /\ [TableNext]_tableVars /\ [PowNext \/ GuardingNext]_gateVars
        /\ [HandshakeNext]_handshakeVars
    BY TypePartsStep
  <2>4. /\ part \in MeshParts /\ TableTypeOK /\ PoolInv /\ GuardInv /\ VanguardInv /\ HopInv /\ SlotsFit
        /\ SendFits /\ RelayFits /\ TurnInv /\ ServerFits
    BY DEF TypeInv
  <2>5. /\ GateInv /\ GuardingInv /\ PowFits /\ GuardingFits /\ HandshakeInv /\ TranscriptsFit
        /\ RateInv /\ RateFits /\ MuxInv /\ MuxFits
    BY DEF TypeInv
  <2>6. TableTypeOK' /\ PoolInv' /\ GuardInv' /\ VanguardInv'
    BY <2>1, <2>3, <2>4, TableTypeKept, PoolStepKeeps, GuardStepKeeps, VanguardsKept
  <2>7. HopInv' /\ SlotsFit' /\ SendFits'
    BY <2>1, <2>4, HopStepKeeps, SlotsKept, SendFitsKept
  <2>8. RelayFits' /\ TurnInv' /\ ServerFits'
    BY <2>1, <2>4, RelayFitsKept, TurnStepKeeps, ServerFitsKept
  <2>9. GateInv' /\ GuardingInv' /\ PowFits' /\ GuardingFits'
    BY <2>3, <2>5, GateStepKeeps, GuardingStepKeeps, PowFitsKept, GuardingFitsKept
  <2>10. HandshakeInv' /\ TranscriptsFit'
    BY <2>3, <2>5, HandshakeStepKeeps, TranscriptsFitKept
  <2>11. RateInv' /\ RateFits' /\ MuxInv' /\ MuxFits'
    BY <2>2, <2>5, RateStepKeeps, RateFitsKept, MuxStepKeeps, MuxFitsKept
  <2>12. part' \in MeshParts
    BY <2>3, <2>4 DEF MeshParts
  <2> QED
    BY <2>6, <2>7, <2>8, <2>9, <2>10, <2>11, <2>12 DEF TypeInv
<1> QED
  BY <1>1, <1>2, PTL DEF MeshSpec

\* Every part of the state has its shape, for every value of the constants: buckets, caches,
\* slots, rings and transcripts hold no more than the code has room for, the counts beside the
\* tables (stream_count, alloc_count) are those of what is in them, and the timers and rate
\* counters stop where the code caps them (dht.c, circuit_pool.c, guard.c, canary.c,
\* relay_descriptor.c, exit_relay.c, turn.c, conn_pow.c, probe_resist.c, handshake.c, timing.c,
\* multiplexer.c).
THEOREM MeshTypeOKHolds == MeshSpec => []MeshTypeOK
<1>1. TypeInv => MeshTypeOK
  <2> SUFFICES ASSUME TypeInv PROVE MeshTypeOK
    OBVIOUS
  <2>1. part \in MeshParts /\ TableTypeOK /\ PoolTypeOK /\ GuardTypeOK /\ HopTypeOK /\ SendTypeOK
    BY PoolTyped, GuardTyped, HopTyped, SendTyped DEF TypeInv
  <2>2. ExitTypeOK /\ TurnTypeOK /\ GateTypeOK /\ HandshakeTypeOK /\ RateTypeOK /\ MuxTypeOK
    BY ExitTyped, ServerTyped, GateTyped, HandshakeTyped, RateTyped, MuxTyped DEF TypeInv
  <2> QED
    BY <2>1, <2>2 DEF MeshTypeOK
<1> QED
  BY <1>1, TypeInvHolds, PTL
=============================================================================
