--------------------------- MODULE PeerConnProofs ---------------------------
(***************************************************************************)
(* Proofs about PeerConn, for any number of connections dialled from       *)
(* either side.  The order of the peer table matters only for which entry  *)
(* of a fingerprint is found first, so the table and the timers are        *)
(* treated as sets (Items): NodeOK says what holds of the two sets of a    *)
(* node, and InPhase where a connection stands as long as no timer has     *)
(* interfered.                                                             *)
(***************************************************************************)
EXTENDS PeerConn, OrderLemmas, SequenceTheorems

Items(s) == {s[i] : i \in DOMAIN s}
Uniq(ps) == \A i, j \in DOMAIN ps : ps[i].conn = ps[j].conn => i = j
Injective(s) == \A i, j \in DOMAIN s : s[i] = s[j] => i = j

\* The entries with a fingerprint, and the timers that were started for it.
OfFp(E, fp) == {e \in E : e.fp = fp}
ForFp(n, T, fp) == {t \in T : Placeholder(n, t) = fp}

\* The positions of the timers that were started for it.
TimersFor(n, ts, fp) == {j \in DOMAIN ts : Placeholder(n, ts[j]) = fp}

\* An entry is complete under the real fingerprint, or has the placeholder of its connection
\* and perhaps a timer that was started for that placeholder.
EntryOK(n, e) ==
    \/ e.hs = "COMPLETE" /\ e.fp = Real /\ e.timer = NoTimer
    \/ /\ e.hs # "COMPLETE" /\ e.fp = Placeholder(n, e.conn)
       /\ e.timer = NoTimer \/ Placeholder(n, e.timer) = e.fp

\* The entries E and running timers T of node n, whose ends are in state en.
NodeOK(n, E, T, en) ==
    /\ IsFiniteSet(E) /\ E \subseteq Entry /\ IsFiniteSet(T) /\ T \subseteq Conn
    /\ \A e, f \in E : e.conn = f.conn => e = f
    /\ \A e \in E : EntryOK(n, e) /\ en[e.conn] \in {"open", "closed"}
    /\ \A t \in T : en[t] \in {"open", "closed"}
    /\ \A fp \in Conn \union {Dialled} : Cardinality(OfFp(E, fp)) <= Cardinality(ForFp(n, T, fp))

TableInv ==
    /\ ends \in [Node -> [Conn -> EndState]]
    /\ chan \in [Node -> [Conn -> Seq(Msg)]]
    /\ peers \in [Node -> Seq(Entry)] /\ timers \in [Node -> Seq(Conn)]
    /\ \A n \in Node : /\ Uniq(peers[n]) /\ Injective(timers[n])
                       /\ NodeOK(n, Items(peers[n]), Items(timers[n]), ends[n])

-----------------------------------------------------------------------------
(* Where a connection stands.                                              *)

\* The state of the handshake of n's entry for c: one, or none without an entry.
HsOf(E, c) == {e.hs : e \in {x \in E : x.conn = c}}
Hs(n, c) == HsOf(Items(peers[n]), c)

\* The accepting end of a connection is there once it is dialled.
DialInv == \A c \in Conn : ends[Dialer[c]][c] = "undialled" => ends[Other(Dialer[c])][c] = "undialled"

\* The higher side has one complete entry at most.
OneReal == \A c, d \in Conn : "COMPLETE" \in Hs("hi", c) /\ "COMPLETE" \in Hs("hi", d) => c = d

\* The ends of c are x at the dialling and y at the accepting side.
Ends(c, x, y) == ends[Dialer[c]][c] = x /\ ends[Other(Dialer[c])][c] = y
Chans(c, x, y) == chan[Dialer[c]][c] = x /\ chan[Other(Dialer[c])][c] = y
HsAre(c, x, y) == Hs(Dialer[c], c) = x /\ Hs(Other(Dialer[c]), c) = y
\* The dialling side waits, or has not made an HS1 yet; it has made the one of its own handshake.
Waiting(c) == Hs(Dialer[c], c) \in {{"INIT"}, {"AWAITING_MSG2"}}
Own(c, k) == k \in Conn /\ (k = c => Hs(Dialer[c], c) = {"AWAITING_MSG2"})

Undialled(c) == Ends(c, "undialled", "undialled") /\ Chans(c, <<>>, <<>>) /\ HsAre(c, {}, {})
Challenged(c) ==
    Ends(c, "wait_challenge", "pending_solution") /\ Chans(c, <<Plain("CHALLENGE")>>, <<>>) /\ HsAre(c, {}, {})
Solved(c) ==
    /\ Ends(c, "open", "pending_solution") /\ Waiting(c) /\ Hs(Other(Dialer[c]), c) = {}
    /\ \/ Chans(c, <<>>, <<Plain("SOLUTION")>>)
       \/ \E k \in Conn : Own(c, k) /\ Chans(c, <<>>, <<Plain("SOLUTION"), Hs1(k)>>)
Asked(c) ==
    /\ Ends(c, "open", "pending_hs1") /\ Waiting(c) /\ Hs(Other(Dialer[c]), c) = {}
    /\ Chans(c, <<>>, <<>>) \/ \E k \in Conn : Own(c, k) /\ Chans(c, <<>>, <<Hs1(k)>>)
Answered(c) ==
    /\ Ends(c, "open", "open") /\ Waiting(c) /\ Hs(Other(Dialer[c]), c) = {"AWAITING_MSG3"}
    /\ Chans(c, <<>>, <<>>) \/ \E k \in Conn : Own(c, k) /\ Chans(c, <<Hs2(k)>>, <<>>)
HalfDone(c) ==
    /\ Ends(c, "open", "open") /\ HsAre(c, {"COMPLETE"}, {"AWAITING_MSG3"})
    /\ Chans(c, <<>>, <<Plain("HS3")>>)
Done(c) == Ends(c, "open", "open") /\ HsAre(c, {"COMPLETE"}, {"COMPLETE"}) /\ Chans(c, <<>>, <<>>)
\* The higher side has closed it as a duplicate; the other one has yet to see that.
Dropped(c) ==
    /\ ends["hi"][c] = "closed" /\ ends["lo"][c] = "open" /\ Hs("hi", c) = {} /\ chan["hi"][c] = <<>>
    /\ \/ Hs("lo", c) = {"COMPLETE"} /\ chan["lo"][c] = <<Plain("EOF")>>
       \/ Hs("lo", c) = {"AWAITING_MSG3"} /\ chan["lo"][c] = <<Plain("HS3"), Plain("EOF")>>
Gone(c) == Ends(c, "closed", "closed") /\ Chans(c, <<>>, <<>>) /\ HsAre(c, {}, {})

InPhase(c) ==
    \/ Undialled(c) \/ Challenged(c) \/ Solved(c) \/ Asked(c) \/ Answered(c)
    \/ HalfDone(c) \/ Done(c) \/ Dropped(c) \/ Gone(c)

\* The handshake of c is on its way to completion at both sides, or there.
Alive(c) ==
    \/ Solved(c) /\ chan[Other(Dialer[c])][c] = <<Plain("SOLUTION"), Hs1(c)>>
    \/ Asked(c) /\ chan[Other(Dialer[c])][c] = <<Hs1(c)>>
    \/ Answered(c) /\ chan[Dialer[c]][c] = <<Hs2(c)>>
    \/ HalfDone(c) \/ Done(c)

SetUp(c) == ends[Dialer[c]][c] \notin {"undialled", "wait_challenge"}

\* As long as no timer has given up on a connection: once one is set up, one is alive.
Calm == /\ \A c \in Conn : InPhase(c)
        /\ (\E c \in Conn : SetUp(c)) => \E c \in Conn : Alive(c)
CalmInv == ~expired => Calm

-----------------------------------------------------------------------------
(* Sequences as sets.                                                      *)

\* The first of a set of positions is one of them.
LEMMA FirstIn == ASSUME NEW S, S \subseteq Nat, S # {} PROVE First(S) \in S
BY LeastNatural DEF First

\* The positions of a sequence are numbers, and what stands there are its elements.
LEMMA Positions ==
    ASSUME NEW S, NEW s \in Seq(S)
    PROVE  /\ DOMAIN s = 1..Len(s) /\ Len(s) \in Nat /\ DOMAIN s \subseteq Nat
           /\ \A i \in DOMAIN s : s[i] \in S
           /\ IsFiniteSet(Items(s)) /\ Items(s) \subseteq S
<1>1. DOMAIN s = 1..Len(s) /\ Len(s) \in Nat /\ \A i \in DOMAIN s : s[i] \in S
  BY LenProperties, ElementOfSeq
<1>2. IsFiniteSet(1..Len(s))
  BY <1>1, FS_Interval
<1>3. IsFiniteSet(Items(s))
  <2>1. IsFiniteSet(DOMAIN s)
    BY <1>1, <1>2
  <2>2. s \in Surjection(DOMAIN s, Items(s))
    BY <1>1 DEF Surjection, Items
  <2> QED
    BY <2>1, <2>2, FS_Surjection
<1> QED
  BY <1>1, <1>3 DEF Items

\* The entry that a lookup by connection finds.
LEMMA FindConn ==
    ASSUME NEW ps \in Seq(Entry), Uniq(ps), NEW c, ByConn(ps, c) # {}
    PROVE  /\ First(ByConn(ps, c)) \in DOMAIN ps /\ ps[First(ByConn(ps, c))].conn = c
           /\ ByConn(ps, c) = {First(ByConn(ps, c))}
<1>1. ByConn(ps, c) \subseteq DOMAIN ps /\ DOMAIN ps \subseteq Nat
  BY Positions DEF ByConn
<1>2. First(ByConn(ps, c)) \in ByConn(ps, c)
  BY <1>1, FirstIn
<1> QED
  BY <1>1, <1>2 DEF ByConn, Uniq

\* The entry that a lookup by fingerprint finds.
LEMMA FindFp ==
    ASSUME NEW ps \in Seq(Entry), NEW fp, ByFp(ps, fp) # {}
    PROVE  First(ByFp(ps, fp)) \in DOMAIN ps /\ ps[First(ByFp(ps, fp))].fp = fp
<1>1. ByFp(ps, fp) \subseteq DOMAIN ps /\ DOMAIN ps \subseteq Nat
  BY Positions DEF ByFp
<1>2. First(ByFp(ps, fp)) \in ByFp(ps, fp)
  BY <1>1, FirstIn
<1> QED
  BY <1>2 DEF ByFp

\* Moving the last entry into the place of one removes just that one.
LEMMA SwapRemove ==
    ASSUME NEW ps \in Seq(Entry), Uniq(ps), NEW i \in DOMAIN ps
    PROVE  /\ SwapRemoved(ps, i) \in Seq(Entry) /\ Uniq(SwapRemoved(ps, i))
           /\ Items(SwapRemoved(ps, i)) = Items(ps) \ {ps[i]}
<1> DEFINE m == Len(ps) - 1
           q == SwapRemoved(ps, i)
           from(j) == IF j = i THEN Len(ps) ELSE j
<1>1. DOMAIN ps = 1..Len(ps) /\ Len(ps) \in Nat /\ \A j \in DOMAIN ps : ps[j] \in Entry
  BY Positions
<1>2. m \in Nat /\ i \in 1..Len(ps) /\ Len(ps) = m + 1
  BY <1>1
<1>3. \A j \in 1..m : from(j) \in DOMAIN ps /\ from(j) # i
  BY <1>1, <1>2
<1>4. q = [j \in 1..m |-> ps[from(j)]]
  BY <1>1, <1>2 DEF SwapRemoved
<1>5. DOMAIN q = 1..m /\ \A j \in 1..m : q[j] = ps[from(j)] /\ q[j] \in Entry
  BY <1>1, <1>3, <1>4
<1>6. q \in Seq(Entry)
  BY <1>1, <1>2, <1>3, <1>4
<1>7. Uniq(q)
  <2> SUFFICES ASSUME NEW j \in 1..m, NEW k \in 1..m, q[j].conn = q[k].conn PROVE j = k
    BY <1>5 DEF Uniq
  <2>1. from(j) = from(k)
    BY <1>3, <1>5 DEF Uniq
  <2> QED
    BY <1>2, <2>1
<1>8. Items(q) \subseteq Items(ps) \ {ps[i]}
  <2> SUFFICES ASSUME NEW j \in 1..m PROVE q[j] \in Items(ps) \ {ps[i]}
    BY <1>5 DEF Items
  <2>1. from(j) \in DOMAIN ps /\ from(j) # i /\ q[j] = ps[from(j)]
    BY <1>3, <1>5
  <2>2. ps[from(j)] # ps[i]
    BY <2>1 DEF Uniq
  <2> QED
    BY <2>1, <2>2 DEF Items
<1>9. Items(ps) \ {ps[i]} \subseteq Items(q)
  <2> SUFFICES ASSUME NEW k \in DOMAIN ps, ps[k] # ps[i] PROVE ps[k] \in Items(q)
    BY DEF Items
  <2>1. PICK j \in 1..m : from(j) = k
    <3>1. CASE k = Len(ps)
      <4>1. i \in 1..m /\ from(i) = k
        BY <1>1, <1>2, <3>1
      <4> QED
        BY <4>1
    <3>2. CASE k # Len(ps)
      <4>1. k \in 1..m /\ from(k) = k
        BY <1>1, <1>2, <3>2
      <4> QED
        BY <4>1
    <3> QED
      BY <3>1, <3>2
  <2>2. q[j] = ps[k]
    BY <1>5, <2>1
  <2> QED
    BY <1>5, <2>2 DEF Items
<1> QED
  BY <1>6, <1>7, <1>8, <1>9

\* An entry that changes in its place changes in the set.
LEMMA Replace ==
    ASSUME NEW ps \in Seq(Entry), Uniq(ps), NEW i \in DOMAIN ps, NEW e \in Entry, e.conn = ps[i].conn
    PROVE  /\ [ps EXCEPT ![i] = e] \in Seq(Entry) /\ Uniq([ps EXCEPT ![i] = e])
           /\ Items([ps EXCEPT ![i] = e]) = (Items(ps) \ {ps[i]}) \union {e}
           /\ DOMAIN [ps EXCEPT ![i] = e] = DOMAIN ps
<1> DEFINE q == [ps EXCEPT ![i] = e]
<1>1. DOMAIN q = DOMAIN ps /\ q[i] = e /\ \A j \in DOMAIN ps \ {i} : q[j] = ps[j]
  OBVIOUS
<1>2. q \in Seq(Entry)
  OBVIOUS
<1> HIDE DEF q
<1>3. Uniq(q)
  BY <1>1 DEF Uniq
<1>4. \A j \in DOMAIN ps \ {i} : ps[j] # ps[i]
  BY DEF Uniq
<1>5. Items(q) = (Items(ps) \ {ps[i]}) \union {e}
  BY <1>1, <1>4 DEF Items
<1> QED
  BY <1>1, <1>2, <1>3, <1>5 DEF q

\* An entry that is added at the end is added to the set.
LEMMA AddItem ==
    ASSUME NEW ps \in Seq(Entry), Uniq(ps), NEW e \in Entry, \A x \in Items(ps) : x.conn # e.conn
    PROVE  /\ Append(ps, e) \in Seq(Entry) /\ Uniq(Append(ps, e))
           /\ Items(Append(ps, e)) = Items(ps) \union {e}
           /\ Len(ps) + 1 \in DOMAIN Append(ps, e) /\ Append(ps, e)[Len(ps) + 1] = e
<1> DEFINE q == Append(ps, e)
<1>1. DOMAIN ps = 1..Len(ps) /\ Len(ps) \in Nat
  BY Positions
<1>2. /\ q \in Seq(Entry) /\ DOMAIN q = 1..Len(ps) + 1 /\ q[Len(ps) + 1] = e
      /\ \A j \in 1..Len(ps) : q[j] = ps[j]
  BY AppendProperties, LenProperties
<1> HIDE DEF q
<1>3. Items(q) = Items(ps) \union {e}
  BY <1>1, <1>2 DEF Items
<1>4. Uniq(q)
  BY <1>1, <1>2 DEF Uniq, Items
<1> QED
  BY <1>1, <1>2, <1>3, <1>4 DEF q

\* A timer that is started joins the running ones.
LEMMA TimerStarts ==
    ASSUME NEW ts \in Seq(Conn), Injective(ts), NEW c \in Conn, c \notin Items(ts)
    PROVE  /\ Append(ts, c) \in Seq(Conn) /\ Injective(Append(ts, c))
           /\ Items(Append(ts, c)) = Items(ts) \union {c}
<1> DEFINE q == Append(ts, c)
<1>1. DOMAIN ts = 1..Len(ts) /\ Len(ts) \in Nat
  BY Positions
<1>2. /\ q \in Seq(Conn) /\ DOMAIN q = 1..Len(ts) + 1 /\ q[Len(ts) + 1] = c
      /\ \A j \in 1..Len(ts) : q[j] = ts[j]
  BY AppendProperties, LenProperties
<1> HIDE DEF q
<1>3. Items(q) = Items(ts) \union {c}
  BY <1>1, <1>2 DEF Items
<1>4. Injective(q)
  BY <1>1, <1>2 DEF Injective, Items
<1> QED
  BY <1>2, <1>3, <1>4 DEF q

\* A timer that is stopped is removed, if it was running.
LEMMA TimerStops ==
    ASSUME NEW ts \in Seq(Conn), Injective(ts), NEW t
    PROVE  /\ Without(ts, t) \in Seq(Conn) /\ Injective(Without(ts, t))
           /\ Items(Without(ts, t)) = Items(ts) \ {t}
<1> DEFINE at == {j \in DOMAIN ts : ts[j] = t}
           k == First(at)
           m == Len(ts) - 1
           from(j) == IF j < k THEN j ELSE j + 1
           q == Without(ts, t)
<1>1. DOMAIN ts = 1..Len(ts) /\ Len(ts) \in Nat /\ \A j \in DOMAIN ts : ts[j] \in Conn
  BY Positions
<1>2. CASE at = {}
  BY <1>2 DEF Without, Items
<1>3. CASE at # {}
  <2>1. k \in 1..Len(ts) /\ ts[k] = t
    <3>1. at \subseteq Nat
      BY <1>1
    <3>2. k \in at
      BY <1>3, <3>1, FirstIn
    <3> QED
      BY <1>1, <3>2
  <2>2. m \in Nat /\ Len(ts) = m + 1
    BY <1>1, <2>1
  <2> HIDE DEF k
  <2>3. \A j \in 1..m : from(j) \in DOMAIN ts /\ from(j) # k
    BY <1>1, <2>1, <2>2
  <2>4. q = [j \in 1..m |-> ts[from(j)]]
    BY <1>3, <2>2, <2>3 DEF Without, k
  <2>5. DOMAIN q = 1..m /\ q \in Seq(Conn) /\ \A j \in 1..m : q[j] = ts[from(j)]
    BY <1>1, <2>2, <2>3, <2>4
  <2> HIDE DEF q
  <2>6. Injective(q)
    <3> SUFFICES ASSUME NEW i \in 1..m, NEW j \in 1..m, q[i] = q[j] PROVE i = j
      BY <2>5 DEF Injective
    <3>1. from(i) = from(j)
      BY <2>3, <2>5 DEF Injective
    <3> QED
      BY <2>1, <2>2, <3>1
  <2>7. \A j \in 1..m : q[j] \in Items(ts) \ {t}
    BY <2>1, <2>3, <2>5, <1>1 DEF Injective, Items
  <2>8. ASSUME NEW i \in DOMAIN ts, ts[i] # t PROVE ts[i] \in Items(q)
    <3>1. i \in 1..Len(ts) /\ i # k
      BY <1>1, <2>1, <2>8
    <3>2. PICK j \in 1..m : from(j) = i
      <4>1. CASE i < k
        <5>1. i \in 1..m /\ from(i) = i
          BY <2>1, <2>2, <3>1, <4>1
        <5> QED
          BY <5>1
      <4>2. CASE ~(i < k)
        <5>1. i - 1 \in 1..m /\ from(i - 1) = i
          BY <2>1, <2>2, <3>1, <4>2
        <5> QED
          BY <5>1
      <4> QED
        BY <4>1, <4>2
    <3>3. q[j] = ts[i]
      BY <2>5, <3>2
    <3> QED
      BY <2>5, <3>3 DEF Items
  <2>9. Items(q) = Items(ts) \ {t}
    BY <2>5, <2>7, <2>8 DEF Items
  <2> QED
    BY <2>5, <2>6, <2>9 DEF q
<1> QED
  BY <1>2, <1>3

\* The timer that expires first is no longer running.
LEMMA TimerFires ==
    ASSUME NEW ts \in Seq(Conn), Injective(ts), ts # <<>>
    PROVE  /\ Tail(ts) \in Seq(Conn) /\ Injective(Tail(ts)) /\ Head(ts) \in Items(ts)
           /\ Items(Tail(ts)) = Items(ts) \ {Head(ts)}
<1> DEFINE q == Tail(ts)
           m == Len(ts) - 1
<1>1. DOMAIN ts = 1..Len(ts) /\ Len(ts) \in Nat /\ \A j \in DOMAIN ts : ts[j] \in Conn
  BY Positions
<1>2. /\ Len(ts) \in Nat \ {0} /\ Head(ts) = ts[1] /\ q \in Seq(Conn) /\ DOMAIN q = 1..m
      /\ \A j \in 1..m : q[j] = ts[j + 1]
  BY HeadTailProperties, EmptySeq, LenProperties
<1>3. m \in Nat /\ Len(ts) = m + 1
  BY <1>2
<1> HIDE DEF q, m
<1>4. 1 \in DOMAIN ts /\ \A j \in 1..m : j + 1 \in DOMAIN ts /\ j + 1 # 1
  BY <1>1, <1>3
<1>5. Injective(q)
  <2> SUFFICES ASSUME NEW i \in 1..m, NEW j \in 1..m, q[i] = q[j] PROVE i = j
    BY <1>2 DEF Injective
  <2>1. i + 1 = j + 1
    BY <1>2, <1>4 DEF Injective
  <2> QED
    BY <1>3, <2>1
<1>6. \A j \in 1..m : q[j] \in Items(ts) \ {ts[1]}
  BY <1>2, <1>4 DEF Injective, Items
<1>7. ASSUME NEW i \in DOMAIN ts, ts[i] # ts[1] PROVE ts[i] \in Items(q)
  <2>1. i - 1 \in 1..m /\ (i - 1) + 1 = i
    BY <1>1, <1>3, <1>7
  <2>2. q[i - 1] = ts[i]
    BY <1>2, <2>1
  <2> QED
    BY <1>2, <2>1, <2>2 DEF Items
<1>8. Items(q) = Items(ts) \ {ts[1]}
  BY <1>2, <1>6, <1>7 DEF Items
<1> QED
  BY <1>2, <1>4, <1>5, <1>8 DEF q, Items

\* As many positions hold a fingerprint as there are entries with it, and timers for it.
LEMMA CountItems ==
    ASSUME NEW ps \in Seq(Entry), Uniq(ps), NEW ts \in Seq(Conn), Injective(ts), NEW n, NEW fp
    PROVE  /\ Cardinality(ByFp(ps, fp)) = Cardinality(OfFp(Items(ps), fp))
           /\ Cardinality(TimersFor(n, ts, fp)) = Cardinality(ForFp(n, Items(ts), fp))
<1>1. IsFiniteSet(DOMAIN ps) /\ IsFiniteSet(DOMAIN ts)
  <2>1. /\ DOMAIN ps = 1..Len(ps) /\ Len(ps) \in Nat
        /\ DOMAIN ts = 1..Len(ts) /\ Len(ts) \in Nat
    BY Positions
  <2> QED
    BY <2>1, FS_Interval
<1>2. Cardinality(ByFp(ps, fp)) = Cardinality(OfFp(Items(ps), fp))
  <2> DEFINE B == ByFp(ps, fp)
             F == OfFp(Items(ps), fp)
             g == [i \in B |-> ps[i]]
  <2>1. IsFiniteSet(B)
    BY <1>1, FS_Subset DEF ByFp
  <2>2. g \in Surjection(B, F)
    BY DEF Surjection, ByFp, OfFp, Items
  <2>3. g \in Injection(B, F)
    BY <2>2 DEF Surjection, Injection, IsInjective, ByFp, Uniq
  <2> QED
    BY <2>1, <2>2, <2>3, FS_Surjection
<1>3. Cardinality(TimersFor(n, ts, fp)) = Cardinality(ForFp(n, Items(ts), fp))
  <2> DEFINE B == TimersFor(n, ts, fp)
             F == ForFp(n, Items(ts), fp)
             g == [i \in B |-> ts[i]]
  <2>1. IsFiniteSet(B)
    BY <1>1, FS_Subset DEF TimersFor
  <2>2. g \in Surjection(B, F)
    BY DEF Surjection, ForFp, Items, TimersFor
  <2>3. g \in Injection(B, F)
    BY <2>2 DEF Surjection, Injection, IsInjective, Injective, TimersFor
  <2> QED
    BY <2>1, <2>2, <2>3, FS_Surjection
<1> QED
  BY <1>2, <1>3

-----------------------------------------------------------------------------
(* What the steps do to the entries and timers of a node.                  *)

\* A side and the other one.
LEMMA Sides == \A n \in Node : Other(n) \in Node /\ Other(n) # n /\ Other(Other(n)) = n
                             /\ Node = {n, Other(n)}
BY DEF Node, Other

\* Each connection is dialled from one side.
LEMMA DialerIs == \A c \in Conn : Dialer[c] \in Node
BY DEF Dialer, Node

\* The placeholder of a connection is none of the other names.
LEMMA PlaceholderIs ==
    ASSUME NEW n, NEW c \in Conn
    PROVE  /\ Placeholder(n, c) \in Conn \union {Dialled} /\ Placeholder(n, c) # Real
           /\ Dialer[c] # n => \A d \in Conn : Placeholder(n, d) = Placeholder(n, c) => d = c
           /\ Real \notin Conn \union {Dialled} /\ NoTimer \notin Conn /\ Dialled \notin Conn
BY DialAssumption DEF DialAssumption, Placeholder, Real, Dialled

\* A step that takes one of the entries with a fingerprint takes one of its timers at most.
LEMMA CountsDrop ==
    ASSUME NEW E, IsFiniteSet(E), NEW T, IsFiniteSet(T), NEW n, NEW e \in E, NEW t,
           t \in T => Placeholder(n, t) = e.fp,
           NEW fp, Cardinality(OfFp(E, fp)) <= Cardinality(ForFp(n, T, fp))
    PROVE  Cardinality(OfFp(E \ {e}, fp)) <= Cardinality(ForFp(n, T \ {t}, fp))
<1>1. IsFiniteSet(OfFp(E, fp)) /\ IsFiniteSet(ForFp(n, T, fp))
  BY FS_Subset DEF OfFp, ForFp
<1>2. CASE e.fp = fp
  <2>1. OfFp(E \ {e}, fp) = OfFp(E, fp) \ {e} /\ e \in OfFp(E, fp)
    BY <1>2 DEF OfFp
  <2>2. ForFp(n, T \ {t}, fp) = ForFp(n, T, fp) \ {t}
    BY DEF ForFp
  <2>3. Cardinality(OfFp(E \ {e}, fp)) = Cardinality(OfFp(E, fp)) - 1
    BY <1>1, <2>1, FS_RemoveElement
  <2>4. /\ Cardinality(OfFp(E, fp)) \in Nat /\ Cardinality(ForFp(n, T, fp)) \in Nat
        /\ Cardinality(ForFp(n, T \ {t}, fp)) \in Nat
    BY <1>1, <2>2, FS_RemoveElement, FS_CardinalityType
  <2>5. Cardinality(ForFp(n, T \ {t}, fp)) >= Cardinality(ForFp(n, T, fp)) - 1
    <3>1. CASE t \in ForFp(n, T, fp)
      <4>1. Cardinality(ForFp(n, T \ {t}, fp)) = Cardinality(ForFp(n, T, fp)) - 1
        BY <1>1, <2>2, <3>1, FS_RemoveElement
      <4> QED
        BY <2>4, <4>1
    <3>2. CASE t \notin ForFp(n, T, fp)
      <4>1. ForFp(n, T \ {t}, fp) = ForFp(n, T, fp)
        BY <2>2, <3>2
      <4> QED
        BY <2>4, <4>1
    <3> QED
      BY <3>1, <3>2
  <2> QED
    BY <2>3, <2>4, <2>5
<1>3. CASE e.fp # fp
  <2>1. OfFp(E \ {e}, fp) = OfFp(E, fp) /\ ForFp(n, T \ {t}, fp) = ForFp(n, T, fp)
    BY <1>3 DEF OfFp, ForFp
  <2> QED
    BY <2>1
<1> QED
  BY <1>2, <1>3

\* An entry that keeps its connection and fingerprint may change otherwise.
LEMMA CountsStay ==
    ASSUME NEW E, IsFiniteSet(E), NEW e \in E, NEW f, f.fp = e.fp, f \in E => f = e, NEW fp
    PROVE  Cardinality(OfFp((E \ {e}) \union {f}, fp)) = Cardinality(OfFp(E, fp))
<1>1. IsFiniteSet(OfFp(E, fp))
  BY FS_Subset DEF OfFp
<1>2. CASE e.fp = fp
  <2>1. OfFp((E \ {e}) \union {f}, fp) = (OfFp(E, fp) \ {e}) \union {f} /\ e \in OfFp(E, fp)
    BY <1>2 DEF OfFp
  <2>2. IsFiniteSet(OfFp(E, fp) \ {e}) /\ Cardinality(OfFp(E, fp) \ {e}) = Cardinality(OfFp(E, fp)) - 1
    BY <1>1, <2>1, FS_RemoveElement
  <2>3. f \notin OfFp(E, fp) \ {e}
    BY DEF OfFp
  <2>4. Cardinality((OfFp(E, fp) \ {e}) \union {f}) = Cardinality(OfFp(E, fp)) - 1 + 1
    BY <2>2, <2>3, FS_AddElement
  <2>5. Cardinality(OfFp(E, fp)) \in Nat
    BY <1>1, FS_CardinalityType
  <2>6. \A a, b : a \in Nat /\ b = a - 1 + 1 => b = a
    OBVIOUS
  <2>7. Cardinality((OfFp(E, fp) \ {e}) \union {f}) = Cardinality(OfFp(E, fp))
    BY <2>4, <2>5, <2>6
  <2> QED
    BY <2>1, <2>7
<1>3. CASE e.fp # fp
  <2>1. OfFp((E \ {e}) \union {f}, fp) = OfFp(E, fp)
    BY <1>3 DEF OfFp
  <2> QED
    BY <2>1
<1> QED
  BY <1>2, <1>3

\* An end that opens or closes keeps what is known of the node's entries.
EndsOn(en, em) == \A c \in Conn : en[c] \in {"open", "closed"} => em[c] \in {"open", "closed"}

\* A connection is set up: an entry with its placeholder and a timer for that come in.
LEMMA NodeAdds ==
    ASSUME NEW n, NEW E, NEW T, NEW en, NEW em, NodeOK(n, E, T, en), EndsOn(en, em),
           NEW c \in Conn, en[c] \notin {"open", "closed"}, em[c] = "open",
           NEW e \in Entry, e.conn = c, e.fp = Placeholder(n, c), e.hs # "COMPLETE", e.timer = NoTimer
    PROVE  NodeOK(n, E \union {e}, T \union {c}, em) /\ c \notin T /\ \A x \in E : x.conn # c
<1>1. c \notin T /\ \A x \in E : x.conn # c
  BY DEF NodeOK
<1>2. ASSUME NEW fp \in Conn \union {Dialled}
      PROVE  Cardinality(OfFp(E \union {e}, fp)) <= Cardinality(ForFp(n, T \union {c}, fp))
  <2>1. IsFiniteSet(OfFp(E, fp)) /\ IsFiniteSet(ForFp(n, T, fp))
    BY FS_Subset DEF OfFp, ForFp, NodeOK
  <2>2. Cardinality(OfFp(E, fp)) <= Cardinality(ForFp(n, T, fp))
    BY DEF NodeOK
  <2>3. CASE Placeholder(n, c) = fp
    <3>1. /\ OfFp(E \union {e}, fp) = OfFp(E, fp) \union {e} /\ e \notin OfFp(E, fp)
          /\ ForFp(n, T \union {c}, fp) = ForFp(n, T, fp) \union {c} /\ c \notin ForFp(n, T, fp)
      BY <1>1, <2>3 DEF OfFp, ForFp
    <3>2. /\ Cardinality(OfFp(E, fp) \union {e}) = Cardinality(OfFp(E, fp)) + 1
          /\ Cardinality(ForFp(n, T, fp) \union {c}) = Cardinality(ForFp(n, T, fp)) + 1
      BY <2>1, <3>1, FS_AddElement
    <3>3. Cardinality(OfFp(E, fp)) \in Nat /\ Cardinality(ForFp(n, T, fp)) \in Nat
      BY <2>1, FS_CardinalityType
    <3>4. \A a, b \in Nat : a <= b => a + 1 <= b + 1
      OBVIOUS
    <3>5. Cardinality(OfFp(E, fp)) + 1 <= Cardinality(ForFp(n, T, fp)) + 1
      BY <2>2, <3>3, <3>4
    <3>6. Cardinality(OfFp(E, fp) \union {e}) <= Cardinality(ForFp(n, T, fp) \union {c})
      BY <3>2, <3>5
    <3> QED
      BY <3>1, <3>6
  <2>4. CASE Placeholder(n, c) # fp
    <3>1. OfFp(E \union {e}, fp) = OfFp(E, fp) /\ ForFp(n, T \union {c}, fp) = ForFp(n, T, fp)
      BY <2>4 DEF OfFp, ForFp
    <3> QED
      BY <2>2, <3>1
  <2> QED
    BY <2>3, <2>4
<1>3. IsFiniteSet(E \union {e}) /\ IsFiniteSet(T \union {c})
  BY FS_AddElement DEF NodeOK
<1>4. /\ E \union {e} \subseteq Entry /\ T \union {c} \subseteq Conn
      /\ \A x, y \in E \union {e} : x.conn = y.conn => x = y
  BY <1>1 DEF NodeOK
<1>5. /\ \A x \in E \union {e} : EntryOK(n, x) /\ em[x.conn] \in {"open", "closed"}
      /\ \A t \in T \union {c} : em[t] \in {"open", "closed"}
  <2>1. \A x \in E : x.conn \in Conn
    BY DEF NodeOK, Entry
  <2>2. EntryOK(n, e)
    BY DEF EntryOK
  <2> QED
    BY <2>1, <2>2 DEF NodeOK, EndsOn
<1> QED
  BY <1>1, <1>2, <1>3, <1>4, <1>5 DEF NodeOK

\* An incomplete entry goes on, or takes note of a timer that was started for its fingerprint.
LEMMA NodeChanges ==
    ASSUME NEW n, NEW E, NEW T, NEW en, NodeOK(n, E, T, en), NEW e \in E, e.fp # Real,
           NEW f \in Entry, f.conn = e.conn, f.fp = e.fp, f.hs # "COMPLETE",
           f.timer = NoTimer \/ Placeholder(n, f.timer) = f.fp
    PROVE  NodeOK(n, (E \ {e}) \union {f}, T, en)
<1>1. f \in E => f = e
  BY DEF NodeOK
<1>2. \A fp : Cardinality(OfFp((E \ {e}) \union {f}, fp)) = Cardinality(OfFp(E, fp))
  BY <1>1, CountsStay DEF NodeOK
<1>3. IsFiniteSet((E \ {e}) \union {f})
  BY FS_RemoveElement, FS_AddElement DEF NodeOK
<1>4. EntryOK(n, f)
  BY DEF EntryOK, NodeOK
<1> QED
  BY <1>2, <1>3, <1>4 DEF NodeOK

\* An entry is removed, and the timer that is noted in it.
LEMMA NodeRemoves ==
    ASSUME NEW n, NEW E, NEW T, NEW en, NEW em, NodeOK(n, E, T, en), EndsOn(en, em), NEW e \in E
    PROVE  NodeOK(n, E \ {e}, T \ {e.timer}, em)
<1>1. e.timer \in T => Placeholder(n, e.timer) = e.fp
  <2>1. NoTimer \notin T
    BY DialAssumption DEF NodeOK, DialAssumption
  <2> QED
    BY <2>1 DEF NodeOK, EntryOK
<1>2. IsFiniteSet(E) /\ IsFiniteSet(T)
  BY DEF NodeOK
<1>3. \A fp \in Conn \union {Dialled} :
          Cardinality(OfFp(E \ {e}, fp)) <= Cardinality(ForFp(n, T \ {e.timer}, fp))
  BY <1>1, <1>2, CountsDrop DEF NodeOK
<1>4. IsFiniteSet(E \ {e}) /\ IsFiniteSet(T \ {e.timer})
  BY <1>2, FS_RemoveElement
<1>5. /\ \A x \in E \ {e} : EntryOK(n, x) /\ em[x.conn] \in {"open", "closed"}
      /\ \A t \in T \ {e.timer} : em[t] \in {"open", "closed"}
  <2>1. \A x \in E : x.conn \in Conn
    BY DEF NodeOK, Entry
  <2> QED
    BY <2>1 DEF NodeOK, EndsOn
<1> QED
  BY <1>3, <1>4, <1>5 DEF NodeOK

\* An entry is completed, and the timer that is noted in it is stopped.
LEMMA NodeCompletes ==
    ASSUME NEW n, NEW E, NEW T, NEW en, NodeOK(n, E, T, en), NEW e \in E,
           NEW f \in Entry, f.conn = e.conn, f.fp = Real, f.hs = "COMPLETE", f.timer = NoTimer
    PROVE  NodeOK(n, (E \ {e}) \union {f}, T \ {e.timer}, en)
<1>1. NodeOK(n, E \ {e}, T \ {e.timer}, en)
  BY NodeRemoves DEF EndsOn
<1>2. \A fp \in Conn \union {Dialled} : OfFp((E \ {e}) \union {f}, fp) = OfFp(E \ {e}, fp)
  BY DialAssumption DEF OfFp, DialAssumption, Dialled, Real
<1>3. IsFiniteSet((E \ {e}) \union {f})
  BY <1>1, FS_AddElement DEF NodeOK
<1>4. EntryOK(n, f)
  BY DEF EntryOK
<1>5. \A x, y \in (E \ {e}) \union {f} : x.conn = y.conn => x = y
  BY DEF NodeOK
<1> QED
  BY <1>1, <1>2, <1>3, <1>4, <1>5 DEF NodeOK

\* A timer expires: an entry with the fingerprint that it was started for goes, if there is one.
LEMMA NodeExpires ==
    ASSUME NEW n, NEW E, NEW T, NEW en, NodeOK(n, E, T, en), NEW t \in T
    PROVE  /\ \A e \in E : e.fp = Placeholder(n, t) => NodeOK(n, E \ {e}, T \ {t}, en)
           /\ (\A e \in E : e.fp # Placeholder(n, t)) => NodeOK(n, E, T \ {t}, en)
<1>1. IsFiniteSet(E) /\ IsFiniteSet(T) /\ IsFiniteSet(T \ {t})
  BY FS_RemoveElement DEF NodeOK
<1>2. ASSUME NEW e \in E, e.fp = Placeholder(n, t) PROVE NodeOK(n, E \ {e}, T \ {t}, en)
  <2>1. \A fp \in Conn \union {Dialled} :
            Cardinality(OfFp(E \ {e}, fp)) <= Cardinality(ForFp(n, T \ {t}, fp))
    BY <1>1, <1>2, CountsDrop DEF NodeOK
  <2>2. IsFiniteSet(E \ {e})
    BY <1>1, FS_RemoveElement
  <2> QED
    BY <1>1, <2>1, <2>2 DEF NodeOK
<1>3. ASSUME \A e \in E : e.fp # Placeholder(n, t) PROVE NodeOK(n, E, T \ {t}, en)
  <2>1. ASSUME NEW fp \in Conn \union {Dialled}
        PROVE  Cardinality(OfFp(E, fp)) <= Cardinality(ForFp(n, T \ {t}, fp))
    <3>1. CASE fp = Placeholder(n, t)
      <4>1. OfFp(E, fp) = {}
        BY <1>3, <3>1 DEF OfFp
      <4>2. IsFiniteSet(ForFp(n, T \ {t}, fp))
        BY <1>1, FS_Subset DEF ForFp
      <4> QED
        BY <4>1, <4>2, FS_EmptySet, FS_CardinalityType
    <3>2. CASE fp # Placeholder(n, t)
      <4>1. ForFp(n, T \ {t}, fp) = ForFp(n, T, fp)
        BY <3>2 DEF ForFp
      <4> QED
        BY <4>1 DEF NodeOK
    <3> QED
      BY <3>1, <3>2
  <2> QED
    BY <1>1, <2>1 DEF NodeOK
<1> QED
  BY <1>2, <1>3

\* Ends that open or close leave the rest as it is.
LEMMA NodeEnds ==
    ASSUME NEW n, NEW E, NEW T, NEW en, NEW em, NodeOK(n, E, T, en), EndsOn(en, em)
    PROVE  NodeOK(n, E, T, em)
<1>1. \A x \in E : x.conn \in Conn
  BY DEF NodeOK, Entry
<1> QED
  BY <1>1 DEF NodeOK, EndsOn

-----------------------------------------------------------------------------
(* How far the handshakes are.                                             *)

\* An entry that comes in.
LEMMA HsAdds ==
    ASSUME NEW E, NEW e, \A x \in E : x.conn # e.conn
    PROVE  /\ HsOf(E \union {e}, e.conn) = {e.hs}
           /\ \A d : d # e.conn => HsOf(E \union {e}, d) = HsOf(E, d)
BY DEF HsOf

\* The handshakes when f has taken the place of e in E.
HsChanged(E, e, f) ==
    /\ HsOf((E \ {e}) \union {f}, e.conn) = {f.hs}
    /\ \A d : d # e.conn => HsOf((E \ {e}) \union {f}, d) = HsOf(E, d)

\* An entry that changes in its place.
LEMMA HsChanges ==
    ASSUME NEW E, \A x, y \in E : x.conn = y.conn => x = y, NEW e \in E, NEW f, f.conn = e.conn
    PROVE  HsChanged(E, e, f)
BY DEF HsOf, HsChanged

\* An entry that goes.
LEMMA HsRemoves ==
    ASSUME NEW E, \A x, y \in E : x.conn = y.conn => x = y, NEW e \in E
    PROVE  /\ HsOf(E \ {e}, e.conn) = {}
           /\ \A d : d # e.conn => HsOf(E \ {e}, d) = HsOf(E, d)
BY DEF HsOf

\* A connection has one entry at most.
LEMMA HsIs ==
    ASSUME NEW E, \A x, y \in E : x.conn = y.conn => x = y, NEW e \in E
    PROVE  HsOf(E, e.conn) = {e.hs}
BY DEF HsOf

\* What a lookup by connection says of the handshake.
LEMMA Looked ==
    ASSUME NEW n, NEW c
    PROVE  /\ \A h : Expects(n, c, h) <=> h \in Hs(n, c)
           /\ ByConn(peers[n], c) # {} <=> Hs(n, c) # {}
BY DEF Expects, ByConn, Hs, HsOf, Items

\* What holds of the table of one node.
LEMMA AtNode ==
    ASSUME TableInv, NEW n \in Node
    PROVE  /\ peers[n] \in Seq(Entry) /\ Uniq(peers[n]) /\ timers[n] \in Seq(Conn) /\ Injective(timers[n])
           /\ NodeOK(n, Items(peers[n]), Items(timers[n]), ends[n])
           /\ \A e, f \in Items(peers[n]) : e.conn = f.conn => e = f
           /\ Items(peers[n]) \subseteq Entry
           /\ \A i \in DOMAIN peers[n] : peers[n][i] \in Items(peers[n])
BY DEF TableInv, NodeOK, Items

\* The fields of an entry.
LEMMA EntryFields == \A e \in Entry : /\ e.conn \in Conn /\ e.hs \in HsState
                                      /\ e.fp \in {Dialled, Real} \union Conn
                                      /\ e.timer \in Conn \union {NoTimer}
BY DEF Entry

\* The step moves n's handshake of c to h and no other.
HsMoves(n, c, h) ==
    /\ Hs(n, c)' = h
    /\ \A m \in Node, d \in Conn : m # n \/ d # c => Hs(m, d)' = Hs(m, d)

\* The table of one node changes, and the ends of its connections.
LEMMA TableChanges ==
    ASSUME TableInv, NEW n \in Node, NEW ps \in Seq(Entry), NEW ts \in Seq(Conn), Uniq(ps), Injective(ts),
           peers' = [peers EXCEPT ![n] = ps], timers' = [timers EXCEPT ![n] = ts],
           ends' \in [Node -> [Conn -> EndState]], chan' \in [Node -> [Conn -> Seq(Msg)]],
           \A m \in Node \ {n} : EndsOn(ends[m], ends'[m]),
           NodeOK(n, Items(ps), Items(ts), ends'[n])
    PROVE  /\ TableInv'
           /\ \A d : Hs(n, d)' = HsOf(Items(ps), d)
           /\ \A m \in Node \ {n} : \A d : Hs(m, d)' = Hs(m, d)
<1>1. peers' \in [Node -> Seq(Entry)] /\ timers' \in [Node -> Seq(Conn)]
  BY DEF TableInv
<1>2. peers'[n] = ps /\ timers'[n] = ts
  BY DEF TableInv
<1>3. \A m \in Node \ {n} : peers'[m] = peers[m] /\ timers'[m] = timers[m]
  BY DEF TableInv
<1>4. ASSUME NEW m \in Node
      PROVE  Uniq(peers'[m]) /\ Injective(timers'[m]) /\ NodeOK(m, Items(peers'[m]), Items(timers'[m]), ends'[m])
  <2>1. CASE m = n
    BY <1>2, <2>1
  <2>2. CASE m # n
    <3>1. peers'[m] = peers[m] /\ timers'[m] = timers[m] /\ EndsOn(ends[m], ends'[m])
      BY <1>3, <2>2
    <3>2. Uniq(peers[m]) /\ Injective(timers[m]) /\ NodeOK(m, Items(peers[m]), Items(timers[m]), ends[m])
      BY DEF TableInv
    <3>3. NodeOK(m, Items(peers[m]), Items(timers[m]), ends'[m])
      BY <3>1, <3>2, NodeEnds
    <3> QED
      BY <3>1, <3>2, <3>3
  <2> QED
    BY <2>1, <2>2
<1>5. TableInv'
  BY <1>1, <1>4 DEF TableInv
<1> QED
  BY <1>2, <1>3, <1>5 DEF Hs

\* No table changes.
LEMMA TableStays ==
    ASSUME TableInv, UNCHANGED <<peers, timers>>,
           ends' \in [Node -> [Conn -> EndState]], chan' \in [Node -> [Conn -> Seq(Msg)]],
           \A m \in Node : EndsOn(ends[m], ends'[m])
    PROVE  TableInv' /\ \A m \in Node : \A d : Hs(m, d)' = Hs(m, d)
<1>1. \A m \in Node : NodeOK(m, Items(peers[m]), Items(timers[m]), ends'[m])
  BY NodeEnds DEF TableInv
<1> QED
  BY <1>1 DEF TableInv, Hs

-----------------------------------------------------------------------------
(* Channels and ends.                                                      *)

Network == [Node -> [Conn -> Seq(Msg)]]

\* The messages.
LEMMA Msgs == /\ \A t \in {"CHALLENGE", "SOLUTION", "HS3", "EOF"} : Plain(t) \in Msg
              /\ \A k \in Conn : Hs1(k) \in Msg /\ Hs2(k) \in Msg
BY DEF Plain, Hs1, Hs2, Msg

\* A message is put at the end of what is under way, unless it is closed there.
PutsOn(ch, n, c, m) ==
    /\ Put(ch, n, c, m) \in Network
    /\ ends[n][c] # "closed" => Put(ch, n, c, m)[n][c] = Append(ch[n][c], m)
    /\ ends[n][c] = "closed" => Put(ch, n, c, m) = ch
    /\ \A k \in Node, d \in Conn : k # n \/ d # c => Put(ch, n, c, m)[k][d] = ch[k][d]

\* A message put on a connection is behind those that are under way there.
LEMMA PutIs == ASSUME NEW ch \in Network, NEW n \in Node, NEW c \in Conn, NEW m \in Msg
               PROVE  PutsOn(ch, n, c, m)
<1>1. Append(ch[n][c], m) \in Seq(Msg)
  BY AppendProperties DEF Network
<1> QED
  BY <1>1 DEF Put, Network, PutsOn

\* What has arrived is no longer under way.
LEMMA ReceivedIs ==
    ASSUME TableInv, NEW n \in Node, NEW c \in Conn, chan[n][c] # <<>>
    PROVE  /\ Received(n, c) \in Network
           /\ Received(n, c)[n][c] = Tail(chan[n][c])
           /\ \A k \in Node, d \in Conn : k # n \/ d # c => Received(n, c)[k][d] = chan[k][d]
           /\ Head(chan[n][c]) \in Msg
<1>1. chan \in Network /\ chan[n][c] \in Seq(Msg)
  BY DEF TableInv, Network
<1>2. Tail(chan[n][c]) \in Seq(Msg) /\ Head(chan[n][c]) \in Msg
  BY <1>1, HeadTailProperties
<1> QED
  BY <1>1, <1>2 DEF Received, Network

\* Ends are closed at one node: what was under way there is lost, and the other one will see it.
LEMMA ShutIs ==
    ASSUME TableInv, NEW ch \in Network, NEW n \in Node, NEW S
    PROVE  /\ Shut(ch, n, S) \in Network /\ ShutEnds(n, S) \in [Node -> [Conn -> EndState]]
           /\ \A m \in Node, c \in Conn : c \notin S => Shut(ch, n, S)[m][c] = ch[m][c]
           /\ \A m \in Node, c \in Conn : m # n \/ c \notin S => ShutEnds(n, S)[m][c] = ends[m][c]
           /\ \A c \in Conn : c \in S => Shut(ch, n, S)[n][c] = <<>> /\ ShutEnds(n, S)[n][c] = "closed"
           /\ \A m \in Node, c \in Conn : m # n /\ c \in S /\ ends[m][c] # "closed" =>
                  Shut(ch, n, S)[m][c] = Append(ch[m][c], Plain("EOF"))
           /\ \A m \in Node : EndsOn(ends[m], ShutEnds(n, S)[m])
<1>1. Plain("EOF") \in Msg
  BY Msgs
<1>2. \A m \in Node, c \in Conn : Append(ch[m][c], Plain("EOF")) \in Seq(Msg) /\ ch[m][c] \in Seq(Msg)
  BY <1>1, AppendProperties DEF Network
<1>3. Shut(ch, n, S) \in Network
  BY <1>2 DEF Shut, Network
<1>4. ShutEnds(n, S) \in [Node -> [Conn -> EndState]]
  BY DEF ShutEnds, TableInv, EndState
<1>5. \A m \in Node, c \in Conn :
          ShutEnds(n, S)[m][c] = IF m = n /\ c \in S THEN "closed" ELSE ends[m][c]
  BY DEF ShutEnds, TableInv
<1>6. \A m \in Node, c \in Conn : Shut(ch, n, S)[m][c] =
          IF c \notin S THEN ch[m][c]
          ELSE IF m = n \/ ends[m][c] = "closed" THEN <<>> ELSE Append(ch[m][c], Plain("EOF"))
  BY DEF Shut
<1> QED
  BY <1>3, <1>4, <1>5, <1>6 DEF EndsOn

-----------------------------------------------------------------------------
(* The setup of a connection.                                              *)

\* The table of n with the new entry, before the setup goes on with the first one of its
\* fingerprint; em is the state of n's ends then.
AddedOK(n, c, em) ==
    /\ Timed(n, c) \in Seq(Entry) /\ Uniq(Timed(n, c)) /\ c \notin Items(timers[n])
    /\ NodeOK(n, Items(Timed(n, c)), Items(timers[n]) \union {c}, em)
    /\ FirstLike(n, c) \in DOMAIN Timed(n, c)
    /\ Timed(n, c)[FirstLike(n, c)].fp = Placeholder(n, c)
    /\ Len(peers[n]) + 1 \in DOMAIN Timed(n, c)
    /\ Timed(n, c)[Len(peers[n]) + 1].conn = c /\ Timed(n, c)[Len(peers[n]) + 1].hs = "INIT"
    /\ Timed(n, c)[Len(peers[n]) + 1].fp = Placeholder(n, c)
    /\ HsOf(Items(Timed(n, c)), c) = {"INIT"}
    /\ \A d : d # c => HsOf(Items(Timed(n, c)), d) = Hs(n, d)

\* A new entry with its timer keeps a node's table in order (create_peer_connection).
LEMMA EntryAdded ==
    ASSUME TableInv, NEW n \in Node, NEW c \in Conn, ends[n][c] \notin {"open", "closed"},
           NEW em, EndsOn(ends[n], em), em[c] = "open"
    PROVE  AddedOK(n, c, em)
<1> DEFINE e == [conn |-> c, fp |-> Placeholder(n, c), hs |-> "INIT", timer |-> NoTimer]
           E == Items(peers[n])
           T == Items(timers[n]) \union {c}
           q == Added(n, c)
           j == FirstLike(n, c)
           f == [q[j] EXCEPT !.timer = c]
<1>1. e \in Entry
  BY PlaceholderIs DEF Entry, HsState
<1>2. NodeOK(n, E, Items(timers[n]), ends[n])
  BY AtNode
<1>3. e.conn = c /\ e.fp = Placeholder(n, c) /\ e.hs = "INIT" /\ e.timer = NoTimer
  OBVIOUS
<1>4. q = Append(peers[n], e)
  BY DEF Added
<1> HIDE DEF e
<1>5. NodeOK(n, E \union {e}, T, em) /\ c \notin Items(timers[n]) /\ \A x \in E : x.conn # c
  BY <1>1, <1>2, <1>3, NodeAdds
<1>6. /\ q \in Seq(Entry) /\ Uniq(q) /\ Items(q) = E \union {e}
      /\ Len(peers[n]) + 1 \in DOMAIN q /\ q[Len(peers[n]) + 1] = e
  BY <1>1, <1>3, <1>4, <1>5, AtNode, AddItem
<1>7. HsOf(Items(q), c) = {"INIT"} /\ \A d : d # c => HsOf(Items(q), d) = Hs(n, d)
  <2>1. \A x \in E : x.conn # e.conn
    BY <1>3, <1>5
  <2>2. /\ HsOf(E \union {e}, e.conn) = {e.hs}
        /\ \A d : d # e.conn => HsOf(E \union {e}, d) = HsOf(E, d)
    BY ONLY <2>1, HsAdds
  <2> QED
    BY <1>3, <1>6, <2>2 DEF Hs
<1> HIDE DEF q
<1>8. j \in DOMAIN q /\ q[j].fp = Placeholder(n, c) /\ q[j] \in Entry /\ q[j] \in Items(q)
  <2>1. Len(peers[n]) + 1 \in ByFp(q, Placeholder(n, c))
    BY <1>3, <1>6 DEF ByFp
  <2>2. j = First(ByFp(q, Placeholder(n, c)))
    BY DEF FirstLike, q
  <2>3. j \in DOMAIN q /\ q[j].fp = Placeholder(n, c)
    BY <1>6, <2>1, <2>2, FindFp
  <2> QED
    BY <1>6, <2>3, Positions DEF Items
<1> HIDE DEF j
<1>9. /\ f.conn = q[j].conn /\ f.fp = q[j].fp /\ f.hs = q[j].hs /\ f.timer = c /\ f \in Entry
  BY <1>8 DEF Entry
<1> HIDE DEF f
<1>10. Timed(n, c) = [q EXCEPT ![j] = f]
  BY <1>6, <1>8 DEF Timed, q, j, f
<1>11. /\ Timed(n, c) \in Seq(Entry) /\ Uniq(Timed(n, c))
       /\ Items(Timed(n, c)) = (Items(q) \ {q[j]}) \union {f}
       /\ DOMAIN Timed(n, c) = DOMAIN q
  <2>1. q \in Seq(Entry) /\ Uniq(q) /\ j \in DOMAIN q /\ f \in Entry /\ f.conn = q[j].conn
    BY <1>6, <1>8, <1>9
  <2>2. /\ [q EXCEPT ![j] = f] \in Seq(Entry) /\ Uniq([q EXCEPT ![j] = f])
        /\ Items([q EXCEPT ![j] = f]) = (Items(q) \ {q[j]}) \union {f}
        /\ DOMAIN [q EXCEPT ![j] = f] = DOMAIN q
    BY ONLY <2>1, Replace, Zenon
  <2> QED
    BY ONLY <1>10, <2>2, Zenon
<1>12. Placeholder(n, c) # Real
  BY PlaceholderIs
<1>13. NodeOK(n, Items(q), T, em)
  BY <1>5, <1>6
<1>14. f.hs # "COMPLETE"
  BY <1>8, <1>9, <1>12, <1>13 DEF NodeOK, EntryOK
<1>15. NodeOK(n, Items(Timed(n, c)), T, em)
  BY <1>8, <1>9, <1>11, <1>12, <1>13, <1>14, NodeChanges
<1>16. \A x, y \in Items(q) : x.conn = y.conn => x = y
  BY <1>13 DEF NodeOK
<1>17. \A d : HsOf(Items(Timed(n, c)), d) = HsOf(Items(q), d)
  <2>1. HsOf(Items(q), q[j].conn) = {q[j].hs}
    BY <1>8, <1>16, HsIs
  <2>2. /\ HsOf((Items(q) \ {q[j]}) \union {f}, q[j].conn) = {f.hs}
        /\ \A d : d # q[j].conn => HsOf((Items(q) \ {q[j]}) \union {f}, d) = HsOf(Items(q), d)
    <3>1. HsChanged(Items(q), q[j], f)
      BY <1>8, <1>9, <1>16, HsChanges
    <3> QED
      BY <3>1 DEF HsChanged
  <2> QED
    BY <1>9, <1>11, <2>1, <2>2
<1>18. Timed(n, c)[j] = f /\ \A i \in DOMAIN q : i # j => Timed(n, c)[i] = q[i]
  BY <1>8, <1>10
<1>19. LET l == Len(peers[n]) + 1
       IN  Timed(n, c)[l].conn = c /\ Timed(n, c)[l].hs = "INIT" /\ Timed(n, c)[l].fp = Placeholder(n, c)
  BY <1>3, <1>6, <1>9, <1>18
<1>20. Timed(n, c)[j].fp = Placeholder(n, c)
  BY <1>8, <1>9, <1>18
<1> QED
  BY <1>5, <1>6, <1>7, <1>8, <1>11, <1>15, <1>17, <1>19, <1>20 DEF j, AddedOK

\* The handshake of an entry goes on, without being completed.
GoesOn(q, i, h) == [q EXCEPT ![i].hs = h]
WentOn(n, q, i, h, T, en) ==
    /\ GoesOn(q, i, h) \in Seq(Entry) /\ Uniq(GoesOn(q, i, h))
    /\ NodeOK(n, Items(GoesOn(q, i, h)), T, en)
    /\ HsOf(Items(GoesOn(q, i, h)), q[i].conn) = {h}
    /\ \A d : d # q[i].conn => HsOf(Items(GoesOn(q, i, h)), d) = HsOf(Items(q), d)

\* Another state of the handshake keeps a node's table in order.
LEMMA EntryGoesOn ==
    ASSUME NEW n, NEW q \in Seq(Entry), Uniq(q), NEW T, NEW en, NodeOK(n, Items(q), T, en),
           NEW i \in DOMAIN q, q[i].fp # Real, NEW h \in HsState \ {"COMPLETE"}
    PROVE  WentOn(n, q, i, h, T, en)
<1> DEFINE e == q[i]
           f == [e EXCEPT !.hs = h]
<1>1. e \in Entry /\ e \in Items(q)
  BY Positions DEF Items
<1>2. f \in Entry /\ f.conn = e.conn /\ f.fp = e.fp /\ f.hs = h /\ f.timer = e.timer
  BY <1>1 DEF Entry
<1>3. GoesOn(q, i, h) = [q EXCEPT ![i] = f]
  BY DEF GoesOn
<1> HIDE DEF f
<1>4. /\ GoesOn(q, i, h) \in Seq(Entry) /\ Uniq(GoesOn(q, i, h))
      /\ Items(GoesOn(q, i, h)) = (Items(q) \ {e}) \union {f}
  <2>1. q \in Seq(Entry) /\ Uniq(q) /\ i \in DOMAIN q /\ f \in Entry /\ f.conn = q[i].conn
    BY <1>2
  <2>2. /\ [q EXCEPT ![i] = f] \in Seq(Entry) /\ Uniq([q EXCEPT ![i] = f])
        /\ Items([q EXCEPT ![i] = f]) = (Items(q) \ {q[i]}) \union {f}
    BY ONLY <2>1, Replace, Zenon
  <2> QED
    BY ONLY <1>3, <2>2, Zenon
<1> HIDE DEF e
<1>5. f.timer = NoTimer \/ Placeholder(n, f.timer) = f.fp
  BY <1>1, <1>2 DEF NodeOK, EntryOK, e
<1>6. NodeOK(n, (Items(q) \ {e}) \union {f}, T, en)
  <2>1. e.fp # Real /\ f.hs # "COMPLETE"
    BY <1>2 DEF e
  <2> QED
    BY <1>1, <1>2, <1>5, <2>1, NodeChanges
<1>7. \A x, y \in Items(q) : x.conn = y.conn => x = y
  BY DEF NodeOK
<1>8. /\ HsOf((Items(q) \ {e}) \union {f}, e.conn) = {f.hs}
      /\ \A d : d # e.conn => HsOf((Items(q) \ {e}) \union {f}, d) = HsOf(Items(q), d)
  <2>1. e \in Items(q) /\ f.conn = e.conn
    BY <1>1, <1>2
  <2>2. HsChanged(Items(q), e, f)
    BY <1>7, <2>1, HsChanges
  <2> QED
    BY <2>2 DEF HsChanged
<1> QED
  BY <1>2, <1>4, <1>6, <1>8 DEF e, WentOn

\* HS1 is made by the handshake of k: c's own, or another one of the same placeholder.
Upgraded(n, c, k, ch) ==
    /\ k \in Conn /\ Hs(n, k)' = {"AWAITING_MSG2"} /\ chan' = Put(ch, Other(n), c, Hs1(k))
    /\ k # c => /\ Hs(n, c)' = {"INIT"} /\ Hs(n, k) = {"INIT"} /\ Placeholder(n, k) = Placeholder(n, c)
    /\ \A m \in Node, d \in Conn : m # n \/ (d # c /\ d # k) => Hs(m, d)' = Hs(m, d)

\* No HS1 is made, because the first entry with the placeholder of c has made one already.
NotUpgraded(n, c, ch) ==
    /\ chan' = ch /\ HsMoves(n, c, {"INIT"})
    /\ \E d \in Conn : d # c /\ Hs(n, d) # {} /\ Placeholder(n, d) = Placeholder(n, c)

\* A dialling end is set up.
LEMMA SetUpStep ==
    ASSUME TableInv, NEW n \in Node, NEW c \in Conn, ends[n][c] = "wait_challenge",
           NEW ch \in Network, SetUpAsInitiator(n, c, ch)
    PROVE  /\ TableInv' /\ (NotUpgraded(n, c, ch) \/ \E k \in Conn : Upgraded(n, c, k, ch))
           /\ ends' = [ends EXCEPT ![n][c] = "open"]
<1> DEFINE q == Timed(n, c)
           j == FirstLike(n, c)
           ts == Append(timers[n], c)
           T == Items(timers[n]) \union {c}
<1>0. PICK k : k = q[j].conn
  OBVIOUS
<1>1. /\ ends' = [ends EXCEPT ![n][c] = "open"] /\ timers' = [timers EXCEPT ![n] = ts]
      /\ ends' \in [Node -> [Conn -> EndState]] /\ ends'[n][c] = "open"
      /\ EndsOn(ends[n], ends'[n]) /\ \A m \in Node \ {n} : EndsOn(ends[m], ends'[m])
  BY DEF SetUpAsInitiator, Started, TableInv, EndState, EndsOn
<1>2. /\ q \in Seq(Entry) /\ Uniq(q) /\ c \notin Items(timers[n])
      /\ NodeOK(n, Items(q), T, ends'[n])
      /\ j \in DOMAIN q /\ q[j].fp = Placeholder(n, c)
      /\ HsOf(Items(q), c) = {"INIT"}
      /\ \A d : d # c => HsOf(Items(q), d) = Hs(n, d)
  <2>1. ends[n][c] \notin {"open", "closed"}
    OBVIOUS
  <2>2. AddedOK(n, c, ends'[n])
    BY <1>1, <2>1, EntryAdded
  <2> QED
    BY <2>2 DEF AddedOK
<1>3. ts \in Seq(Conn) /\ Injective(ts) /\ Items(ts) = T
  BY <1>2, AtNode, TimerStarts
<1>4. IF q[j].hs = "INIT"
      THEN /\ peers' = [peers EXCEPT ![n] = GoesOn(q, j, "AWAITING_MSG2")]
           /\ chan' = Put(ch, Other(n), c, Hs1(k))
      ELSE peers' = [peers EXCEPT ![n] = q] /\ chan' = ch
  BY <1>0 DEF SetUpAsInitiator, GoesOn
<1> HIDE DEF q, j, ts
<1>5. q[j] \in Entry /\ q[j] \in Items(q) /\ k \in Conn /\ q[j].fp # Real
  BY <1>0, <1>2, Positions, EntryFields, PlaceholderIs DEF Items
<1>6. \A x, y \in Items(q) : x.conn = y.conn => x = y
  BY <1>2 DEF NodeOK
<1>7. HsOf(Items(q), k) = {q[j].hs}
  BY ONLY <1>0, <1>5, <1>6, HsIs, Zenon
<1>8. q[j].hs # "COMPLETE" /\ Placeholder(n, k) = Placeholder(n, c)
  BY <1>0, <1>2, <1>5 DEF NodeOK, EntryOK
<1> HIDE DEF T
<1>9. CASE q[j].hs = "INIT"
  <2> DEFINE ps == GoesOn(q, j, "AWAITING_MSG2")
  <2>1. /\ ps \in Seq(Entry) /\ Uniq(ps) /\ NodeOK(n, Items(ps), T, ends'[n])
        /\ HsOf(Items(ps), k) = {"AWAITING_MSG2"}
        /\ \A d : d # k => HsOf(Items(ps), d) = HsOf(Items(q), d)
    <3>1. "AWAITING_MSG2" \in HsState \ {"COMPLETE"}
      BY DEF HsState
    <3>2. WentOn(n, q, j, "AWAITING_MSG2", T, ends'[n])
      BY <1>2, <1>5, <3>1, EntryGoesOn
    <3> QED
      BY <1>0, <3>2 DEF WentOn
  <2> HIDE DEF ps
  <2>2. chan' = Put(ch, Other(n), c, Hs1(k)) /\ chan' \in Network /\ peers' = [peers EXCEPT ![n] = ps]
    BY <1>4, <1>5, <1>9, Msgs, PutIs, Sides DEF ps, PutsOn
  <2>3. /\ TableInv'
        /\ \A d : Hs(n, d)' = HsOf(Items(ps), d)
        /\ \A m \in Node \ {n} : \A d : Hs(m, d)' = Hs(m, d)
    BY <1>1, <1>3, <2>1, <2>2, TableChanges DEF Network
  <2>4. Upgraded(n, c, k, ch)
    <3>1. k # c => Hs(n, c)' = {"INIT"} /\ Hs(n, k) = {"INIT"}
      BY <1>2, <1>7, <1>9, <2>1, <2>3
    <3>2. \A m \in Node, d \in Conn : m # n \/ (d # c /\ d # k) => Hs(m, d)' = Hs(m, d)
      BY <1>2, <2>1, <2>3
    <3>3. Hs(n, k)' = {"AWAITING_MSG2"}
      BY <2>1, <2>3
    <3> QED
      BY <1>5, <1>8, <2>2, <3>1, <3>2, <3>3 DEF Upgraded
  <2> QED
    BY <1>1, <1>5, <2>3, <2>4
<1>10. CASE q[j].hs # "INIT"
  <2>1. chan' = ch /\ peers' = [peers EXCEPT ![n] = q] /\ chan' \in Network
    BY <1>4, <1>10
  <2>2. /\ TableInv'
        /\ \A d : Hs(n, d)' = HsOf(Items(q), d)
        /\ \A m \in Node \ {n} : \A d : Hs(m, d)' = Hs(m, d)
    BY <1>1, <1>2, <1>3, <2>1, TableChanges DEF Network
  <2>3. k # c /\ Hs(n, k) # {}
    BY <1>2, <1>7, <1>10
  <2>4. NotUpgraded(n, c, ch)
    BY <1>2, <1>5, <1>8, <2>1, <2>2, <2>3 DEF NotUpgraded, HsMoves
  <2> QED
    BY <1>1, <2>2, <2>4
<1> QED
  BY <1>9, <1>10

\* An accepting end is set up.
LEMMA AcceptStep ==
    ASSUME TableInv, NEW n \in Node, NEW c \in Conn, AcceptHs1(n, c), Arrives(n, c, "HS1")
    PROVE  /\ TableInv' /\ HsMoves(n, c, {"AWAITING_MSG3"})
           /\ ends' = [ends EXCEPT ![n][c] = "open"]
           /\ chan' = Put(Received(n, c), Other(n), c, Hs2(Head(chan[n][c]).by))
<1> DEFINE q == Timed(n, c)
           l == Len(peers[n]) + 1
           ts == Append(timers[n], c)
           T == Items(timers[n]) \union {c}
           ps == GoesOn(q, l, "AWAITING_MSG3")
<1>1. /\ ends' = [ends EXCEPT ![n][c] = "open"] /\ timers' = [timers EXCEPT ![n] = ts]
      /\ ends' \in [Node -> [Conn -> EndState]] /\ ends'[n][c] = "open"
      /\ EndsOn(ends[n], ends'[n]) /\ \A m \in Node \ {n} : EndsOn(ends[m], ends'[m])
  <2>1. ends' = [ends EXCEPT ![n][c] = "open"] /\ timers' = [timers EXCEPT ![n] = ts]
    BY DEF AcceptHs1, Started
  <2> QED
    BY <2>1 DEF TableInv, EndState, EndsOn
<1>2. /\ q \in Seq(Entry) /\ Uniq(q) /\ c \notin Items(timers[n])
      /\ NodeOK(n, Items(q), T, ends'[n])
      /\ l \in DOMAIN q /\ q[l].conn = c /\ q[l].hs = "INIT" /\ q[l].fp = Placeholder(n, c)
      /\ \A d : d # c => HsOf(Items(q), d) = Hs(n, d)
  <2>1. ends[n][c] \notin {"open", "closed"}
    BY DEF AcceptHs1
  <2>2. AddedOK(n, c, ends'[n])
    BY <1>1, <2>1, EntryAdded
  <2> QED
    BY <2>2 DEF AddedOK
<1>3. ts \in Seq(Conn) /\ Injective(ts) /\ Items(ts) = T
  BY <1>2, AtNode, TimerStarts
<1>4. /\ peers' = [peers EXCEPT ![n] = ps]
      /\ chan' = Put(Received(n, c), Other(n), c, Hs2(Head(chan[n][c]).by))
  BY DEF AcceptHs1, GoesOn
<1> HIDE DEF q, l, ts, T
<1>5. /\ ps \in Seq(Entry) /\ Uniq(ps) /\ NodeOK(n, Items(ps), T, ends'[n])
      /\ HsOf(Items(ps), c) = {"AWAITING_MSG3"}
      /\ \A d : d # c => HsOf(Items(ps), d) = HsOf(Items(q), d)
  <2>1. "AWAITING_MSG3" \in HsState \ {"COMPLETE"} /\ q[l].fp # Real
    BY <1>2, PlaceholderIs DEF HsState
  <2>2. WentOn(n, q, l, "AWAITING_MSG3", T, ends'[n])
    BY <1>2, <2>1, EntryGoesOn
  <2> QED
    BY <1>2, <2>2 DEF WentOn
<1> HIDE DEF ps
<1>6. chan' \in Network
  <2>1. chan[n][c] # <<>> /\ Head(chan[n][c]).type = "HS1"
    BY DEF Arrives
  <2>2. Head(chan[n][c]) \in Msg /\ Received(n, c) \in Network
    BY <2>1, ReceivedIs
  <2>3. Hs2(Head(chan[n][c]).by) \in Msg
    BY <2>1, <2>2 DEF Msg, Plain, Hs2
  <2> QED
    BY <1>4, <2>2, <2>3, PutIs, Sides DEF PutsOn
<1>7. /\ TableInv'
      /\ \A d : Hs(n, d)' = HsOf(Items(ps), d)
      /\ \A m \in Node \ {n} : \A d : Hs(m, d)' = Hs(m, d)
  BY <1>1, <1>3, <1>4, <1>5, <1>6, TableChanges DEF Network
<1>8. HsMoves(n, c, {"AWAITING_MSG3"})
  BY <1>2, <1>5, <1>7 DEF HsMoves
<1> QED
  BY <1>1, <1>4, <1>7, <1>8

-----------------------------------------------------------------------------
(* Completion and removal.                                                 *)

\* cleanup_peer_conn_at for the entry of c.
LEMMA RemoveStep ==
    ASSUME TableInv, NEW n \in Node, NEW c \in Conn, ByConn(peers[n], c) # {},
           Removed(n, First(ByConn(peers[n], c))), chan' \in Network,
           ends' \in [Node -> [Conn -> EndState]], \A m \in Node : EndsOn(ends[m], ends'[m])
    PROVE  TableInv' /\ HsMoves(n, c, {})
<1> DEFINE i == First(ByConn(peers[n], c))
           E == Items(peers[n])
           ps == SwapRemoved(peers[n], i)
           e == peers[n][i]
           ts == Without(timers[n], e.timer)
<1>1. i \in DOMAIN peers[n] /\ e.conn = c /\ e \in E
  BY AtNode, FindConn
<1>2. ps \in Seq(Entry) /\ Uniq(ps) /\ Items(ps) = E \ {e}
  BY <1>1, AtNode, SwapRemove
<1>3. ts \in Seq(Conn) /\ Injective(ts) /\ Items(ts) = Items(timers[n]) \ {e.timer}
  BY AtNode, TimerStops
<1>4. NodeOK(n, E \ {e}, Items(timers[n]) \ {e.timer}, ends'[n])
  BY <1>1, AtNode, NodeRemoves
<1>5. peers' = [peers EXCEPT ![n] = ps] /\ timers' = [timers EXCEPT ![n] = ts]
  BY DEF Removed
<1>6. HsOf(E \ {e}, c) = {} /\ \A d : d # c => HsOf(E \ {e}, d) = Hs(n, d)
  <2>1. \A x, y \in E : x.conn = y.conn => x = y
    BY AtNode
  <2>2. /\ HsOf(E \ {e}, e.conn) = {}
        /\ \A d : d # e.conn => HsOf(E \ {e}, d) = HsOf(E, d)
    BY ONLY <1>1, <2>1, HsRemoves, Zenon
  <2> QED
    BY <1>1, <2>2 DEF Hs
<1> HIDE DEF ps, ts, e, E
<1>7. NodeOK(n, Items(ps), Items(ts), ends'[n])
  BY <1>2, <1>3, <1>4
<1>8. /\ TableInv'
      /\ \A d : Hs(n, d)' = HsOf(Items(ps), d)
      /\ \A m \in Node \ {n} : \A d : Hs(m, d)' = Hs(m, d)
  BY <1>2, <1>3, <1>5, <1>7, TableChanges DEF Network
<1> QED
  BY <1>2, <1>6, <1>8 DEF HsMoves

\* finalize_handshake for c at n, where the connections in D are closed as duplicates.
Finished(n, c, D, ch) ==
    /\ ends' = ShutEnds(n, D) /\ chan' = Shut(ch, n, D) /\ Hs(n, c)' = {"COMPLETE"}
    /\ \A d \in D : d \in Conn /\ d # c /\ Hs(n, d) = {"COMPLETE"} /\ Hs(n, d)' = {}
    /\ \A m \in Node, d \in Conn : m # n \/ (d # c /\ d \notin D) => Hs(m, d)' = Hs(m, d)
    /\ n = "hi" => \A d \in Conn \ D : d # c => "COMPLETE" \notin Hs(n, d)
    /\ n = "lo" => D = {}

\* A completed handshake keeps every table in order, and closes only duplicates of its own peer.
LEMMA FinalizeStep ==
    ASSUME TableInv, OneReal, NEW n \in Node, NEW c \in Conn, Hs(n, c) # {}, "COMPLETE" \notin Hs(n, c),
           NEW ch \in Network, Finalize(n, c, ch)
    PROVE  TableInv' /\ \E D : Finished(n, c, D, ch)
<1> DEFINE i == First(ByConn(peers[n], c))
           E == Items(peers[n])
           e == peers[n][i]
           f == [e EXCEPT !.hs = "COMPLETE", !.fp = Real, !.timer = NoTimer]
           F == Finalized(n, i)
           dup == Duplicates(n, i)
           T == Items(timers[n]) \ {e.timer}
           ts == Without(timers[n], e.timer)
<1>1. i \in DOMAIN peers[n] /\ e.conn = c /\ e \in E /\ e \in Entry
  <2>1. ByConn(peers[n], c) # {}
    BY Looked
  <2> QED
    BY <2>1, AtNode, FindConn
<1>2. f \in Entry /\ f.conn = c /\ f.fp = Real /\ f.hs = "COMPLETE" /\ f.timer = NoTimer
  BY <1>1 DEF Entry, HsState
<1>3. F = [peers[n] EXCEPT ![i] = f]
  BY <1>1, AtNode DEF Finalized
<1>4. ts \in Seq(Conn) /\ Injective(ts) /\ Items(ts) = T
  BY AtNode, TimerStops
<1>5. /\ peers' = [peers EXCEPT ![n] = IF dup = {} THEN F ELSE SwapRemoved(F, First(dup))]
      /\ timers' = [timers EXCEPT ![n] = ts]
      /\ ends' = ShutEnds(n, {peers[n][d].conn : d \in dup})
      /\ chan' = Shut(ch, n, {peers[n][d].conn : d \in dup})
  BY DEF Finalize
<1> HIDE DEF f, F
<1>6. F \in Seq(Entry) /\ Uniq(F) /\ Items(F) = (E \ {e}) \union {f} /\ DOMAIN F = DOMAIN peers[n]
  <2>1. /\ peers[n] \in Seq(Entry) /\ Uniq(peers[n]) /\ i \in DOMAIN peers[n]
        /\ f \in Entry /\ f.conn = peers[n][i].conn
    BY <1>1, <1>2, AtNode
  <2>2. /\ [peers[n] EXCEPT ![i] = f] \in Seq(Entry) /\ Uniq([peers[n] EXCEPT ![i] = f])
        /\ Items([peers[n] EXCEPT ![i] = f]) = (Items(peers[n]) \ {peers[n][i]}) \union {f}
        /\ DOMAIN [peers[n] EXCEPT ![i] = f] = DOMAIN peers[n]
    BY ONLY <2>1, Replace, Zenon
  <2> QED
    BY ONLY <1>3, <2>2, Zenon
<1>7. \A j \in DOMAIN peers[n] : F[j] = IF j = i THEN f ELSE peers[n][j]
  BY <1>3
<1>8. NodeOK(n, Items(F), T, ends[n])
  <2>1. NodeOK(n, (E \ {e}) \union {f}, Items(timers[n]) \ {e.timer}, ends[n])
    BY <1>1, <1>2, AtNode, NodeCompletes
  <2> QED
    BY <1>6, <2>1
<1>9. \A x, y \in E : x.conn = y.conn => x = y
  BY AtNode
<1>10. HsOf(Items(F), c) = {"COMPLETE"} /\ \A d : d # c => HsOf(Items(F), d) = Hs(n, d)
  <2>1. e \in E /\ f.conn = e.conn
    BY <1>1, <1>2
  <2> HIDE DEF e, E
  <2>2. /\ HsOf((E \ {e}) \union {f}, e.conn) = {f.hs}
        /\ \A d : d # e.conn => HsOf((E \ {e}) \union {f}, d) = HsOf(E, d)
    <3>1. HsChanged(E, e, f)
      BY <1>9, <2>1, HsChanges
    <3> QED
      BY <3>1 DEF HsChanged
  <2> QED
    BY <1>1, <1>2, <1>6, <2>2 DEF Hs, e, E
<1>11. dup \subseteq DOMAIN peers[n] \ {i} /\ (n = "lo" => dup = {})
  BY <1>6 DEF Duplicates, ByFp, F, Node
<1>12. ASSUME n = "hi", NEW j \in DOMAIN peers[n] \ {i}
       PROVE  j \in dup <=> peers[n][j].hs = "COMPLETE"
  <2>1. j \in dup <=> F[j].fp = Real
    BY <1>6, <1>12 DEF Duplicates, ByFp, F
  <2>2. F[j] = peers[n][j]
    BY <1>7
  <2>3. peers[n][j] \in E
    BY AtNode
  <2>4. peers[n][j].fp = Real <=> peers[n][j].hs = "COMPLETE"
    <3>1. EntryOK(n, peers[n][j]) /\ peers[n][j].conn \in Conn
      BY <2>3, AtNode, EntryFields DEF NodeOK
    <3> QED
      BY <3>1, PlaceholderIs DEF EntryOK
  <2> QED
    BY <2>1, <2>2, <2>4
<1>13. \A d \in Conn : "COMPLETE" \in Hs(n, d) =>
           \E j \in DOMAIN peers[n] \ {i} : peers[n][j].conn = d /\ peers[n][j].hs = "COMPLETE"
  BY <1>1, <1>9 DEF Hs, HsOf, Items
<1>14. CASE dup = {}
  <2>1. {peers[n][d].conn : d \in dup} = {}
    BY <1>14
  <2>2. peers' = [peers EXCEPT ![n] = F] /\ ends' = ShutEnds(n, {}) /\ chan' = Shut(ch, n, {})
    BY <1>5, <1>14, <2>1
  <2>3. /\ ends' \in [Node -> [Conn -> EndState]] /\ chan' \in Network
        /\ \A m \in Node : EndsOn(ends[m], ends'[m])
    BY <2>2, ShutIs
  <2>4. NodeOK(n, Items(F), Items(ts), ends'[n])
    BY <1>4, <1>8, <2>3, NodeEnds
  <2> HIDE DEF ts
  <2>5. /\ TableInv'
        /\ \A d : Hs(n, d)' = HsOf(Items(F), d)
        /\ \A m \in Node \ {n} : \A d : Hs(m, d)' = Hs(m, d)
    BY <1>4, <1>5, <1>6, <2>2, <2>3, <2>4, TableChanges DEF Network
  <2>6. n = "hi" => \A d \in Conn : "COMPLETE" \notin Hs(n, d)
    BY <1>12, <1>13, <1>14
  <2>7. Finished(n, c, {}, ch)
    BY <1>10, <2>2, <2>5, <2>6 DEF Finished
  <2> QED
    BY <2>5, <2>7
<1>15. CASE dup # {}
  <2> DEFINE g == First(dup)
             x == peers[n][g]
             ps == SwapRemoved(F, g)
  <2>1. n = "hi" /\ g \in dup /\ g \in DOMAIN peers[n] \ {i}
    <3>1. dup \subseteq Nat
      BY <1>11, AtNode, Positions
    <3> QED
      BY <1>11, <1>15, <3>1, FirstIn DEF Node
  <2>2. /\ x.hs = "COMPLETE" /\ x \in E /\ x \in Entry /\ x.conn # c /\ F[g] = x /\ x.timer = NoTimer
        /\ x.conn \in Conn
    <3>1. x.hs = "COMPLETE" /\ x \in E /\ x \in Entry /\ F[g] = x
      BY <1>7, <1>12, <2>1, AtNode
    <3>2. x.conn # c
      BY <1>1, <2>1, AtNode DEF Uniq
    <3>3. x.timer = NoTimer
      BY <3>1, AtNode DEF NodeOK, EntryOK
    <3> QED
      BY <3>1, <3>2, <3>3, EntryFields
  <2>3. PICK d : d = x.conn
    OBVIOUS
  <2>4. "COMPLETE" \in Hs(n, d)
    BY <2>2, <2>3 DEF Hs, HsOf
  <2>5. \A j \in dup : peers[n][j].conn = d
    <3> SUFFICES ASSUME NEW j \in dup PROVE peers[n][j].conn = d
      OBVIOUS
    <3>1. peers[n][j] \in E /\ peers[n][j].hs = "COMPLETE" /\ peers[n][j].conn \in Conn
      BY <1>11, <1>12, <2>1, AtNode, EntryFields
    <3>2. "COMPLETE" \in Hs(n, peers[n][j].conn)
      BY <3>1 DEF Hs, HsOf
    <3> QED
      BY <2>1, <2>2, <2>3, <2>4, <3>1, <3>2 DEF OneReal
  <2>6. {peers[n][j].conn : j \in dup} = {d}
    BY <2>1, <2>3, <2>5
  <2>7. peers' = [peers EXCEPT ![n] = ps] /\ ends' = ShutEnds(n, {d}) /\ chan' = Shut(ch, n, {d})
    BY <1>5, <1>15, <2>6
  <2>8. /\ ends' \in [Node -> [Conn -> EndState]] /\ chan' \in Network
        /\ \A m \in Node : EndsOn(ends[m], ends'[m])
    BY <2>7, ShutIs
  <2>9. ps \in Seq(Entry) /\ Uniq(ps) /\ Items(ps) = Items(F) \ {x}
    <3>1. F \in Seq(Entry) /\ Uniq(F) /\ g \in DOMAIN F
      BY <1>6, <2>1
    <3>2. ps \in Seq(Entry) /\ Uniq(ps) /\ Items(ps) = Items(F) \ {F[g]}
      BY ONLY <3>1, SwapRemove, Zenon
    <3> QED
      BY <2>2, <3>2
  <2>10. x \in Items(F)
    BY <1>6, <2>1, <2>2 DEF Items
  <2>11. NodeOK(n, Items(ps), Items(ts), ends'[n])
    <3>1. NodeOK(n, Items(F) \ {x}, T \ {x.timer}, ends'[n])
      BY <1>8, <2>8, <2>10, NodeRemoves
    <3>2. T \ {x.timer} = T
      <4>1. T \subseteq Conn /\ NoTimer \notin Conn
        BY <1>8, PlaceholderIs DEF NodeOK
      <4> QED
        BY <2>2, <4>1
    <3> QED
      BY <1>4, <2>9, <3>1, <3>2
  <2>12. \A y, z \in Items(F) : y.conn = z.conn => y = z
    BY <1>8 DEF NodeOK
  <2>13. HsOf(Items(ps), d) = {} /\ \A k : k # d => HsOf(Items(ps), k) = HsOf(Items(F), k)
    <3>1. /\ HsOf(Items(F) \ {x}, x.conn) = {}
          /\ \A k : k # x.conn => HsOf(Items(F) \ {x}, k) = HsOf(Items(F), k)
      BY ONLY <2>10, <2>12, HsRemoves, Zenon
    <3> QED
      BY <2>3, <2>9, <3>1
  <2>14. Hs(n, d) = {"COMPLETE"}
    <3>1. HsOf(E, x.conn) = {x.hs}
      BY ONLY <1>9, <2>2, HsIs, Zenon
    <3> QED
      BY <2>2, <2>3, <3>1 DEF Hs
  <2> HIDE DEF ts, ps
  <2>15. /\ TableInv'
         /\ \A k : Hs(n, k)' = HsOf(Items(ps), k)
         /\ \A m \in Node \ {n} : \A k : Hs(m, k)' = Hs(m, k)
    BY <1>4, <1>5, <2>7, <2>8, <2>9, <2>11, TableChanges DEF Network
  <2>16. \A k \in Conn \ {d} : "COMPLETE" \notin Hs(n, k)
    BY <2>1, <2>2, <2>3, <2>4 DEF OneReal
  <2>17. Finished(n, c, {d}, ch)
    BY <1>10, <2>1, <2>2, <2>3, <2>7, <2>13, <2>14, <2>15, <2>16 DEF Finished
  <2> QED
    BY <2>15, <2>17
<1> QED
  BY <1>14, <1>15

\* on_handshake_timeout
LEMMA TimeoutStep ==
    ASSUME TableInv, NEW n \in Node, HandshakeTimeout(n)
    PROVE  /\ TableInv' /\ UNCHANGED <<ends, chan>>
           /\ expired' \/ (expired' = expired /\ \A m \in Node : \A c : Hs(m, c)' = Hs(m, c))
           /\ \A m \in Node, c \in Conn : Hs(m, c)' \subseteq Hs(m, c)
<1> DEFINE t == Head(timers[n])
           E == Items(peers[n])
           found == ByFp(peers[n], Placeholder(n, t))
           ts == Tail(timers[n])
<1>1. /\ timers[n] # <<>> /\ timers' = [timers EXCEPT ![n] = ts] /\ UNCHANGED <<ends, chan>>
      /\ IF found # {}
         THEN peers' = [peers EXCEPT ![n] = SwapRemoved(peers[n], First(found))] /\ expired' = TRUE
         ELSE UNCHANGED <<peers, expired>>
  BY DEF HandshakeTimeout, TableInv
<1>2. ts \in Seq(Conn) /\ Injective(ts) /\ t \in Items(timers[n]) /\ Items(ts) = Items(timers[n]) \ {t}
  BY <1>1, AtNode, TimerFires
<1>3. /\ ends' \in [Node -> [Conn -> EndState]] /\ chan' \in Network
      /\ \A m \in Node : EndsOn(ends[m], ends'[m])
  BY <1>1 DEF TableInv, Network, EndsOn
<1>4. CASE found # {}
  <2> DEFINE e == peers[n][First(found)]
             ps == SwapRemoved(peers[n], First(found))
  <2>1. First(found) \in DOMAIN peers[n] /\ e.fp = Placeholder(n, t) /\ e \in E
    BY <1>4, AtNode, FindFp
  <2>2. ps \in Seq(Entry) /\ Uniq(ps) /\ Items(ps) = E \ {e}
    BY <2>1, AtNode, SwapRemove
  <2>3. NodeOK(n, Items(ps), Items(ts), ends'[n])
    <3>1. NodeOK(n, E \ {e}, Items(timers[n]) \ {t}, ends[n])
      BY <1>2, <2>1, AtNode, NodeExpires
    <3> QED
      BY <1>1, <1>2, <2>2, <3>1
  <2>4. peers' = [peers EXCEPT ![n] = ps] /\ expired' = TRUE
    BY <1>1, <1>4
  <2> HIDE DEF ts, ps
  <2>5. /\ TableInv'
        /\ \A d : Hs(n, d)' = HsOf(Items(ps), d)
        /\ \A m \in Node \ {n} : \A d : Hs(m, d)' = Hs(m, d)
    BY <1>1, <1>2, <1>3, <2>2, <2>3, <2>4, TableChanges DEF Network
  <2>6. \A d : HsOf(Items(ps), d) \subseteq Hs(n, d)
    BY <2>2 DEF HsOf, Hs
  <2> QED
    BY <1>1, <2>4, <2>5, <2>6
<1>5. CASE found = {}
  <2>1. UNCHANGED <<peers, expired>>
    BY <1>1, <1>5
  <2>2. \A e \in E : e.fp # Placeholder(n, t)
    BY <1>5 DEF ByFp, Items
  <2>3. NodeOK(n, E, Items(ts), ends'[n])
    BY <1>1, <1>2, <2>2, AtNode, NodeExpires
  <2>4. peers' = [peers EXCEPT ![n] = peers[n]]
    BY <2>1 DEF TableInv
  <2> HIDE DEF ts
  <2>5. /\ TableInv'
        /\ \A d : Hs(n, d)' = HsOf(E, d)
        /\ \A m \in Node \ {n} : \A d : Hs(m, d)' = Hs(m, d)
    BY <1>1, <1>2, <1>3, <2>3, <2>4, AtNode, TableChanges DEF Network
  <2> QED
    BY <1>1, <2>1, <2>5 DEF Hs
<1> QED
  BY <1>4, <1>5

-----------------------------------------------------------------------------
(* The invariants that hold whatever the timers do.                        *)

Inv == TableInv /\ DialInv /\ OneReal

\* Except for dialling, no step leaves or reaches the state of an end that was not dialled.
EndsMove ==
    \A m \in Node, c \in Conn :
        ends'[m][c] = ends[m][c] \/ (ends[m][c] # "undialled" /\ ends'[m][c] # "undialled")

\* A step that dials nothing and completes nothing at the higher side keeps the invariant
\* once it keeps the tables.
LEMMA InvMoves ==
    ASSUME Inv, TableInv', EndsMove,
           \A d \in Conn : "COMPLETE" \in Hs("hi", d)' => "COMPLETE" \in Hs("hi", d)
    PROVE  Inv'
<1>1. OneReal'
  BY DEF Inv, OneReal
<1>2. DialInv'
  BY DialerIs, Sides DEF Inv, DialInv, EndsMove
<1> QED
  BY <1>1, <1>2 DEF Inv

\* Connections are dialled.
LEMMA DialStep ==
    ASSUME Inv, NEW c \in Conn, Dial(c)
    PROVE  Inv' /\ \A m \in Node : \A d : Hs(m, d)' = Hs(m, d)
<1> DEFINE n == Dialer[c]
           o == Other(n)
<1>1. n \in Node /\ o \in Node /\ o # n
  BY DialerIs, Sides
<1>2. ends[n][c] = "undialled" /\ ends[o][c] = "undialled"
  BY DEF Dial, Inv, DialInv
<1>3. /\ ends' = [ends EXCEPT ![n][c] = "wait_challenge", ![o][c] = "pending_solution"]
      /\ chan' = [chan EXCEPT ![n][c] = <<Plain("CHALLENGE")>>] /\ UNCHANGED <<peers, timers>>
  BY DEF Dial
<1>4. TableInv
  BY DEF Inv
<1> HIDE DEF n, o
<1>5. ends' \in [Node -> [Conn -> EndState]]
  BY <1>1, <1>3, <1>4 DEF TableInv, EndState
<1>6. \A m \in Node, d \in Conn : d # c => ends'[m][d] = ends[m][d]
  BY <1>1, <1>3, <1>4 DEF TableInv
<1>7. ends'[n][c] = "wait_challenge" /\ ends'[o][c] = "pending_solution" /\ Node = {n, o}
  BY <1>1, <1>3, <1>4, Sides DEF TableInv, o
<1>8. \A m \in Node : EndsOn(ends[m], ends'[m])
  BY <1>2, <1>6, <1>7 DEF EndsOn
<1>9. chan' \in [Node -> [Conn -> Seq(Msg)]]
  <2>1. <<Plain("CHALLENGE")>> \in Seq(Msg)
    BY Msgs
  <2> QED
    BY <1>1, <1>3, <1>4, <2>1 DEF TableInv
<1>10. TableInv' /\ \A m \in Node : \A d : Hs(m, d)' = Hs(m, d)
  BY <1>3, <1>4, <1>5, <1>8, <1>9, TableStays
<1>11. OneReal'
  BY <1>10 DEF Inv, OneReal, Node
<1>12. DialInv'
  <2> SUFFICES ASSUME NEW d \in Conn, ends'[Dialer[d]][d] = "undialled"
               PROVE  ends'[Other(Dialer[d])][d] = "undialled"
    BY DEF DialInv
  <2>1. d # c
    BY <1>7 DEF n
  <2> QED
    BY <1>6, <2>1, DialerIs, Sides DEF Inv, DialInv
<1> QED
  BY <1>10, <1>11, <1>12 DEF Inv

\* An accepting end is closed before its entry is made.
LEMMA ShutStep ==
    ASSUME Inv, NEW n \in Node, NEW c \in Conn, ends[n][c] # "undialled",
           ends' = ShutEnds(n, {c}), chan' = Shut(chan, n, {c}), UNCHANGED <<peers, timers>>
    PROVE  Inv' /\ \A m \in Node : \A d : Hs(m, d)' = Hs(m, d)
<1>1. TableInv /\ chan \in Network
  BY DEF Inv, TableInv, Network
<1>2. /\ chan' \in Network /\ ends' \in [Node -> [Conn -> EndState]]
      /\ \A m \in Node : EndsOn(ends[m], ends'[m])
      /\ \A m \in Node, d \in Conn : m # n \/ d # c => ends'[m][d] = ends[m][d]
      /\ ends'[n][c] = "closed"
  BY <1>1, ShutIs
<1>3. TableInv' /\ \A m \in Node : \A d : Hs(m, d)' = Hs(m, d)
  BY <1>1, <1>2, TableStays DEF Network
<1>4. EndsMove
  BY <1>2 DEF EndsMove
<1> QED
  BY <1>3, <1>4, InvMoves DEF Node

\* A message is received, with no other effect than perhaps to open an end.
LEMMA ReceiveStep ==
    ASSUME Inv, NEW n \in Node, NEW c \in Conn, chan[n][c] # <<>>, chan' = Received(n, c),
           UNCHANGED <<peers, timers>>,
           \/ ends' = ends
           \/ ends[n][c] = "pending_solution" /\ ends' = [ends EXCEPT ![n][c] = "pending_hs1"]
    PROVE  Inv' /\ \A m \in Node : \A d : Hs(m, d)' = Hs(m, d)
<1>1. TableInv
  BY DEF Inv
<1>2. chan' \in Network
  BY <1>1, ReceivedIs
<1>3. /\ ends' \in [Node -> [Conn -> EndState]]
      /\ \A m \in Node : EndsOn(ends[m], ends'[m])
      /\ EndsMove
  <2>1. CASE ends' = ends
    BY <1>1, <2>1 DEF TableInv, EndsOn, EndsMove
  <2>2. CASE ends[n][c] = "pending_solution" /\ ends' = [ends EXCEPT ![n][c] = "pending_hs1"]
    <3>1. ends' \in [Node -> [Conn -> EndState]]
      BY <1>1, <2>2 DEF TableInv, EndState
    <3>2. \A m \in Node, d \in Conn : ends'[m][d] = IF m = n /\ d = c THEN "pending_hs1" ELSE ends[m][d]
      BY <1>1, <2>2 DEF TableInv
    <3> QED
      BY <2>2, <3>1, <3>2 DEF EndsOn, EndsMove
  <2> QED
    BY <2>1, <2>2
<1>4. TableInv' /\ \A m \in Node : \A d : Hs(m, d)' = Hs(m, d)
  BY <1>1, <1>2, <1>3, TableStays DEF Network
<1> QED
  BY <1>3, <1>4, InvMoves DEF Node

\* A dialling end is set up.
LEMMA SetUpKeeps ==
    ASSUME Inv, NEW n \in Node, NEW c \in Conn, ends[n][c] = "wait_challenge",
           NEW ch \in Network, SetUpAsInitiator(n, c, ch)
    PROVE  Inv'
<1>1. TableInv
  BY DEF Inv
<1>2. /\ TableInv' /\ (NotUpgraded(n, c, ch) \/ \E k \in Conn : Upgraded(n, c, k, ch))
      /\ ends' = [ends EXCEPT ![n][c] = "open"]
  BY <1>1, SetUpStep
<1>3. EndsMove
  BY <1>1, <1>2 DEF EndsMove, TableInv
<1>4. \A d \in Conn : "COMPLETE" \in Hs("hi", d)' => "COMPLETE" \in Hs("hi", d)
  BY <1>2 DEF NotUpgraded, Upgraded, HsMoves, Node
<1> QED
  BY <1>2, <1>3, <1>4, InvMoves

\* A handshake is finalized.
LEMMA FinalizeKeeps ==
    ASSUME Inv, NEW n \in Node, NEW c \in Conn, Hs(n, c) # {}, "COMPLETE" \notin Hs(n, c),
           NEW ch \in Network, Finalize(n, c, ch)
    PROVE  Inv' /\ \E D : Finished(n, c, D, ch)
<1>1. TableInv /\ OneReal
  BY DEF Inv
<1>2. TableInv' /\ \E D : Finished(n, c, D, ch)
  BY <1>1, FinalizeStep
<1>3. PICK D : Finished(n, c, D, ch)
  BY <1>2
<1>4. OneReal'
  <2>1. CASE n = "hi"
    BY <1>3, <2>1 DEF Finished, OneReal
  <2>2. CASE n # "hi"
    BY <1>1, <1>3, <2>2 DEF Finished, OneReal, Node
  <2> QED
    BY <2>1, <2>2
<1>5. \A m \in Node, d \in Conn : ends'[m][d] = ends[m][d]
                                 \/ (ends[m][d] \in {"open", "closed"} /\ ends'[m][d] = "closed")
  <2> TAKE m \in Node, d \in Conn
  <2> SUFFICES ASSUME ends'[m][d] # ends[m][d]
               PROVE  ends[m][d] \in {"open", "closed"} /\ ends'[m][d] = "closed"
    OBVIOUS
  <2>1. ends' = ShutEnds(n, D)
    BY <1>3 DEF Finished
  <2>2. m = n /\ d \in D /\ ends'[m][d] = "closed"
    BY <1>1, <2>1, ShutIs
  <2>3. PICK e \in Items(peers[n]) : e.conn = d
    BY <1>3, <2>2 DEF Finished, Hs, HsOf
  <2> QED
    BY <1>1, <2>2, <2>3, AtNode DEF NodeOK
<1>6. DialInv'
  BY <1>5, DialerIs, Sides DEF Inv, DialInv
<1> QED
  BY <1>2, <1>4, <1>6 DEF Inv

\* The accepting side's entry that waits for HS3, the dialling one's that waits for HS2.
LEMMA Waits ==
    ASSUME TableInv, NEW n \in Node, NEW c, NEW h, Expects(n, c, h)
    PROVE  Hs(n, c) = {h}
<1>1. PICK i \in ByConn(peers[n], c) : peers[n][i].hs = h
  BY DEF Expects
<1>2. peers[n][i] \in Items(peers[n]) /\ peers[n][i].conn = c
  BY AtNode DEF ByConn
<1>3. \A x, y \in Items(peers[n]) : x.conn = y.conn => x = y
  BY AtNode
<1>4. HsOf(Items(peers[n]), peers[n][i].conn) = {peers[n][i].hs}
  BY ONLY <1>2, <1>3, HsIs, Zenon
<1> QED
  BY <1>1, <1>2, <1>4 DEF Hs

\* HS2 arrives and completes the handshake.
LEMMA Hs2Completes ==
    ASSUME Inv, NEW n \in Node, NEW c \in Conn, HandleHs2(n, c),
           Expects(n, c, "AWAITING_MSG2"), Head(chan[n][c]).by = c
    PROVE  Inv' /\ \E D : Finished(n, c, D, Put(Received(n, c), Other(n), c, Plain("HS3")))
<1> DEFINE ch == Put(Received(n, c), Other(n), c, Plain("HS3"))
<1>1. TableInv
  BY DEF Inv
<1>2. Hs(n, c) = {"AWAITING_MSG2"}
  BY <1>1, Waits
<1>3. ch \in Network
  <2>1. chan[n][c] # <<>>
    BY DEF HandleHs2, Arrives
  <2> QED
    BY <1>1, <2>1, ReceivedIs, Msgs, PutIs, Sides DEF PutsOn
<1>4. Finalize(n, c, ch)
  BY DEF HandleHs2
<1> HIDE DEF ch
<1>5. Inv' /\ \E D : Finished(n, c, D, ch)
  BY <1>2, <1>3, <1>4, FinalizeKeeps
<1> QED
  BY <1>5 DEF ch

\* HS3 arrives and completes the handshake.
LEMMA Hs3Completes ==
    ASSUME Inv, NEW n \in Node, NEW c \in Conn, HandleHs3(n, c), Expects(n, c, "AWAITING_MSG3")
    PROVE  Inv' /\ \E D : Finished(n, c, D, Received(n, c))
<1>1. TableInv
  BY DEF Inv
<1>2. Hs(n, c) = {"AWAITING_MSG3"}
  BY <1>1, Waits
<1>3. Received(n, c) \in Network
  <2>1. chan[n][c] # <<>>
    BY DEF HandleHs3, Arrives
  <2> QED
    BY <1>1, <2>1, ReceivedIs
<1>4. Finalize(n, c, Received(n, c))
  BY DEF HandleHs3
<1> QED
  BY <1>2, <1>3, <1>4, FinalizeKeeps

\* The entry of c is removed, and its end closed or not.
LEMMA RemoveKeeps ==
    ASSUME Inv, NEW n \in Node, NEW c \in Conn, ByConn(peers[n], c) # {},
           Removed(n, First(ByConn(peers[n], c))), chan' \in Network,
           ends' = ends \/ (ends[n][c] # "undialled" /\ ends' = [ends EXCEPT ![n][c] = "closed"])
    PROVE  Inv' /\ HsMoves(n, c, {})
<1>1. TableInv
  BY DEF Inv
<1>2. /\ ends' \in [Node -> [Conn -> EndState]]
      /\ \A m \in Node : EndsOn(ends[m], ends'[m])
      /\ EndsMove
  <2>1. CASE ends' = ends
    BY <1>1, <2>1 DEF TableInv, EndsOn, EndsMove
  <2>2. CASE ends[n][c] # "undialled" /\ ends' = [ends EXCEPT ![n][c] = "closed"]
    <3>1. ends' \in [Node -> [Conn -> EndState]]
      BY <1>1, <2>2 DEF TableInv, EndState
    <3>2. \A m \in Node, d \in Conn : ends'[m][d] = IF m = n /\ d = c THEN "closed" ELSE ends[m][d]
      BY <1>1, <2>2 DEF TableInv
    <3> QED
      BY <2>2, <3>1, <3>2 DEF EndsOn, EndsMove
  <2> QED
    BY <2>1, <2>2
<1>3. TableInv' /\ HsMoves(n, c, {})
  BY <1>1, <1>2, RemoveStep
<1>4. \A d \in Conn : "COMPLETE" \in Hs("hi", d)' => "COMPLETE" \in Hs("hi", d)
  BY <1>3 DEF HsMoves, Node
<1> QED
  BY <1>2, <1>3, <1>4, InvMoves

\* Every step keeps the table.
THEOREM InvStep == Inv /\ [Next]_vars => Inv'
<1> SUFFICES ASSUME Inv, [Next]_vars PROVE Inv'
  OBVIOUS
<1>0. TableInv /\ chan \in Network
  BY DEF Inv, TableInv, Network
<1>1. ASSUME NEW c \in Conn, Dial(c) PROVE Inv'
  BY <1>1, DialStep
<1>2. ASSUME NEW n \in Node, NEW c \in Conn, Solve(n, c) PROVE Inv'
  <2> DEFINE ch == Put(Received(n, c), Other(n), c, Plain("SOLUTION"))
  <2>1. chan[n][c] # <<>> /\ ends[n][c] = "wait_challenge" /\ SetUpAsInitiator(n, c, ch)
    BY <1>2 DEF Solve, Arrives
  <2>2. ch \in Network
    BY <1>0, <2>1, ReceivedIs, Msgs, PutIs, Sides DEF PutsOn
  <2> HIDE DEF ch
  <2> QED
    BY <2>1, <2>2, SetUpKeeps
<1>3. ASSUME NEW n \in Node, NEW c \in Conn, CheckSolution(n, c) PROVE Inv'
  <2>1. CASE Arrives(n, c, "SOLUTION")
    BY <1>3, <2>1, ReceiveStep DEF CheckSolution
  <2>2. CASE ~Arrives(n, c, "SOLUTION")
    BY <1>3, <2>2, ShutStep DEF CheckSolution
  <2> QED
    BY <2>1, <2>2
<1>4. ASSUME NEW n \in Node, NEW c \in Conn, AcceptHs1(n, c) PROVE Inv'
  <2>1. CASE Arrives(n, c, "HS1")
    <3>1. TableInv' /\ HsMoves(n, c, {"AWAITING_MSG3"}) /\ ends' = [ends EXCEPT ![n][c] = "open"]
      BY <1>0, <1>4, <2>1, AcceptStep
    <3>2. EndsMove
      <4>1. ends[n][c] # "undialled"
        BY <1>4 DEF AcceptHs1
      <4> QED
        BY <1>0, <3>1, <4>1 DEF EndsMove, TableInv
    <3>3. \A d \in Conn : "COMPLETE" \in Hs("hi", d)' => "COMPLETE" \in Hs("hi", d)
      BY <3>1 DEF HsMoves, Node
    <3> QED
      BY <3>1, <3>2, <3>3, InvMoves
  <2>2. CASE ~Arrives(n, c, "HS1")
    BY <1>4, <2>2, ShutStep DEF AcceptHs1
  <2> QED
    BY <2>1, <2>2
<1>5. ASSUME NEW n \in Node, NEW c \in Conn, HandleHs2(n, c) PROVE Inv'
  <2>1. CASE Expects(n, c, "AWAITING_MSG2") /\ Head(chan[n][c]).by = c
    BY <1>5, <2>1, Hs2Completes
  <2>2. CASE ~(Expects(n, c, "AWAITING_MSG2") /\ Head(chan[n][c]).by = c)
    BY <1>5, <2>2, ReceiveStep DEF HandleHs2, Arrives
  <2> QED
    BY <2>1, <2>2
<1>6. ASSUME NEW n \in Node, NEW c \in Conn, HandleHs3(n, c) PROVE Inv'
  <2>1. CASE Expects(n, c, "AWAITING_MSG3")
    BY <1>6, <2>1, Hs3Completes
  <2>2. CASE ~Expects(n, c, "AWAITING_MSG3")
    BY <1>6, <2>2, ReceiveStep DEF HandleHs3, Arrives
  <2> QED
    BY <2>1, <2>2
<1>7. ASSUME NEW n \in Node, NEW c \in Conn, IgnoreChallenge(n, c) PROVE Inv'
  BY <1>7, ReceiveStep DEF IgnoreChallenge, Arrives
<1>8. ASSUME NEW n \in Node, NEW c \in Conn, HandleEof(n, c) PROVE Inv'
  <2>1. /\ ends[n][c] # "undialled" /\ ends' = [ends EXCEPT ![n][c] = "closed"]
        /\ chan' \in Network /\ chan' = Received(n, c)
    BY <1>0, <1>8, ReceivedIs DEF HandleEof, Arrives
  <2>2. CASE ByConn(peers[n], c) # {}
    BY <1>8, <2>1, <2>2, RemoveKeeps DEF HandleEof
  <2>3. CASE ByConn(peers[n], c) = {}
    <3>1. UNCHANGED <<peers, timers>>
      BY <1>8, <2>3 DEF HandleEof
    <3>2. /\ ends' \in [Node -> [Conn -> EndState]]
          /\ \A m \in Node, d \in Conn : ends'[m][d] = IF m = n /\ d = c THEN "closed" ELSE ends[m][d]
      BY <1>0, <2>1 DEF TableInv, EndState
    <3>3. EndsMove /\ \A m \in Node : EndsOn(ends[m], ends'[m])
      BY <2>1, <3>2 DEF EndsOn, EndsMove
    <3>4. TableInv' /\ \A m \in Node : \A d : Hs(m, d)' = Hs(m, d)
      BY <1>0, <2>1, <3>1, <3>2, <3>3, TableStays DEF Network
    <3> QED
      BY <3>3, <3>4, InvMoves DEF Node
  <2> QED
    BY <2>2, <2>3
<1>9. ASSUME NEW n \in Node, NEW c \in Conn, PowTimeout(n, c) PROVE Inv'
  BY <1>0, <1>9, SetUpKeeps DEF PowTimeout
<1>10. ASSUME NEW n \in Node, NEW c \in Conn, PendingTimeout(n, c) PROVE Inv'
  BY <1>10, ShutStep DEF PendingTimeout
<1>11. ASSUME NEW n \in Node, HandshakeTimeout(n) PROVE Inv'
  <2>1. /\ TableInv' /\ UNCHANGED <<ends, chan>>
        /\ \A m \in Node, c \in Conn : Hs(m, c)' \subseteq Hs(m, c)
    BY <1>0, <1>11, TimeoutStep
  <2>2. EndsMove
    BY <2>1 DEF EndsMove
  <2> QED
    BY <2>1, <2>2, InvMoves DEF Node
<1>12. ASSUME NEW n \in Node, NEW c \in Conn, KeepaliveTimeout(n, c) PROVE Inv'
  <2>1. ByConn(peers[n], c) # {} /\ Removed(n, First(ByConn(peers[n], c))) /\ UNCHANGED <<ends, chan>>
    BY <1>12 DEF KeepaliveTimeout, Expects
  <2> QED
    BY <1>0, <2>1, RemoveKeeps
<1>13. CASE UNCHANGED vars
  <2>1. TableInv' /\ \A m \in Node : \A d : Hs(m, d)' = Hs(m, d)
    BY <1>0, <1>13 DEF vars, TableInv, Hs
  <2>2. EndsMove
    BY <1>13 DEF vars, EndsMove
  <2> QED
    BY <2>1, <2>2, InvMoves DEF Node
<1> QED
  BY <1>1, <1>2, <1>3, <1>4, <1>5, <1>6, <1>7, <1>8, <1>9, <1>10, <1>11, <1>12, <1>13 DEF Next, Receive

\* The state before anything is dialled.
LEMMA InvInit == Init => Inv
<1> SUFFICES ASSUME Init PROVE Inv
  OBVIOUS
<1>1. /\ ends = [n \in Node |-> [c \in Conn |-> "undialled"]]
      /\ peers = [n \in Node |-> <<>>] /\ timers = [n \in Node |-> <<>>]
      /\ chan = [n \in Node |-> [c \in Conn |-> <<>>]]
  BY DEF Init
<1>2. Items(<<>>) = {} /\ Uniq(<<>>) /\ Injective(<<>>)
  BY DEF Items, Uniq, Injective
<1>3. \A n \in Node : peers[n] = <<>> /\ timers[n] = <<>>
  BY <1>1
<1>4. \A n \in Node : NodeOK(n, {}, {}, ends[n])
  <2> SUFFICES ASSUME NEW n \in Node, NEW fp
               PROVE  Cardinality(OfFp({}, fp)) <= Cardinality(ForFp(n, {}, fp)) /\ IsFiniteSet({})
    BY DEF NodeOK
  <2>1. OfFp({}, fp) = {} /\ ForFp(n, {}, fp) = {}
    BY DEF OfFp, ForFp
  <2> QED
    BY <2>1, FS_EmptySet
<1>5. /\ ends \in [Node -> [Conn -> EndState]] /\ chan \in [Node -> [Conn -> Seq(Msg)]]
      /\ peers \in [Node -> Seq(Entry)] /\ timers \in [Node -> Seq(Conn)]
  BY <1>1 DEF EndState
<1>6. TableInv
  BY <1>2, <1>3, <1>4, <1>5 DEF TableInv
<1>7. OneReal
  BY <1>2, <1>3 DEF OneReal, Hs, HsOf, Node
<1>8. DialInv
  BY <1>1, DialerIs, Sides DEF DialInv
<1> QED
  BY <1>6, <1>7, <1>8 DEF Inv

\* Tables are in order, every connection has one dialler, and the higher side keeps one
\* complete connection at most (finalize_handshake).
THEOREM PeerConnInvariant == Spec => []Inv
BY InvInit, InvStep, PTL DEF Spec

\* A set of which any two members are the same has one at most.
LEMMA OneAtMost ==
    ASSUME NEW S, \A x, y \in S : x = y
    PROVE  IsFiniteSet(S) /\ Cardinality(S) \in {0, 1} /\ (S # {} => Cardinality(S) = 1)
<1>1. CASE S = {}
  BY <1>1, FS_EmptySet
<1>2. CASE S # {}
  <2>1. PICK x \in S : S = {x}
    BY <1>2
  <2> QED
    BY <2>1, FS_Singleton
<1> QED
  BY <1>1, <1>2

\* The entries of the peer tables have their shape, no connection has two, and as many timers
\* run for a fingerprint as it has incomplete entries: none of them stays for ever, in whichever
\* entry each timer is noted (start_handshake_timer and cleanup_peer_conn_at in client.c).
THEOREM EntriesOKHolds == Spec => []EntriesOK
<1>1. Inv => EntriesOK
  <2> SUFFICES ASSUME Inv PROVE EntriesOK
    OBVIOUS
  <2>1. TableInv
    BY DEF Inv
  <2>2. \A n \in Node, c \in Conn : Cardinality(ByConn(peers[n], c)) <= 1
    <3> TAKE n \in Node, c \in Conn
    <3>1. \A i, j \in ByConn(peers[n], c) : i = j
      BY <2>1, AtNode DEF ByConn, Uniq
    <3> QED
      BY <3>1, OneAtMost
  <2>3. \A n \in Node : /\ \A i \in DOMAIN peers[n] : peers[n][i] \in Entry
                        /\ \A i \in DOMAIN timers[n] : timers[n][i] \in Conn
    BY <2>1, AtNode, Positions
  <2>4. \A n \in Node, c \in Conn : \A i \in DOMAIN chan[n][c] : chan[n][c][i] \in Msg
    BY <2>1, Positions DEF TableInv
  <2>5. TypeOK
    BY <2>1, <2>2, <2>3, <2>4 DEF TypeOK, TableInv
  <2>6. IncompleteAreTimed
    <3> SUFFICES ASSUME NEW n \in Node, NEW fp \in Conn \union {Dialled}
                 PROVE  Cardinality(ByFp(peers[n], fp)) <= Cardinality(TimersFor(n, timers[n], fp))
      BY DEF IncompleteAreTimed, TimersFor
    <3>1. /\ Cardinality(ByFp(peers[n], fp)) = Cardinality(OfFp(Items(peers[n]), fp))
          /\ Cardinality(TimersFor(n, timers[n], fp)) = Cardinality(ForFp(n, Items(timers[n]), fp))
      <4>1. /\ peers[n] \in Seq(Entry) /\ Uniq(peers[n]) /\ timers[n] \in Seq(Conn) /\ Injective(timers[n])
        BY <2>1, AtNode
      <4> QED
        BY ONLY <4>1, CountItems, Zenon
    <3>2. NodeOK(n, Items(peers[n]), Items(timers[n]), ends[n])
      BY <2>1, AtNode
    <3>3. Cardinality(OfFp(Items(peers[n]), fp)) <= Cardinality(ForFp(n, Items(timers[n]), fp))
      BY <3>2 DEF NodeOK
    <3> QED
      BY <3>1, <3>3
  <2> QED
    BY <2>5, <2>6 DEF EntriesOK
<1> QED
  BY <1>1, PeerConnInvariant, PTL

-----------------------------------------------------------------------------
(* As long as no timer has interfered.                                     *)

\* The step changes nothing of d.
Same(d) == \A n \in Node : ends'[n][d] = ends[n][d] /\ chan'[n][d] = chan[n][d] /\ Hs(n, d)' = Hs(n, d)

\* All that a phase is about.
LEMMA PhaseStays ==
    ASSUME NEW d \in Conn, Same(d)
    PROVE  /\ InPhase(d) => InPhase(d)'
           /\ Alive(d) => Alive(d)'
           /\ SetUp(d)' <=> SetUp(d)
<1>1. /\ ends'[Dialer[d]][d] = ends[Dialer[d]][d] /\ ends'[Other(Dialer[d])][d] = ends[Other(Dialer[d])][d]
      /\ chan'[Dialer[d]][d] = chan[Dialer[d]][d] /\ chan'[Other(Dialer[d])][d] = chan[Other(Dialer[d])][d]
      /\ Hs(Dialer[d], d)' = Hs(Dialer[d], d) /\ Hs(Other(Dialer[d]), d)' = Hs(Other(Dialer[d]), d)
      /\ ends'["hi"][d] = ends["hi"][d] /\ ends'["lo"][d] = ends["lo"][d]
      /\ chan'["hi"][d] = chan["hi"][d] /\ chan'["lo"][d] = chan["lo"][d]
      /\ Hs("hi", d)' = Hs("hi", d) /\ Hs("lo", d)' = Hs("lo", d)
  BY DialerIs, Sides DEF Same, Node
<1> QED
  BY <1>1 DEF InPhase, Alive, SetUp, Undialled, Challenged, Solved, Asked, Answered, HalfDone, Done,
              Dropped, Gone, Ends, Chans, HsAre, Waiting, Own

\* Only the phase of c changes.
LEMMA CalmMoves ==
    ASSUME Calm, NEW c \in Conn, \A d \in Conn \ {c} : Same(d), InPhase(c)',
           Alive(c) => Alive(c)', SetUp(c)' => SetUp(c)
    PROVE  Calm'
<1>1. \A d \in Conn \ {c} : InPhase(d)' /\ (Alive(d) => Alive(d)') /\ (SetUp(d)' => SetUp(d))
  BY PhaseStays DEF Calm
<1>2. \A d \in Conn : InPhase(d)' /\ (Alive(d) => Alive(d)') /\ (SetUp(d)' => SetUp(d))
  BY <1>1
<1> QED
  BY <1>2 DEF Calm

\* Short sequences of messages.
LEMMA Short ==
    /\ \A a : Head(<<a>>) = a /\ Tail(<<a>>) = <<>> /\ <<a>> # <<>> /\ Append(<<>>, a) = <<a>>
    /\ \A a, b : /\ Head(<<a, b>>) = a /\ Tail(<<a, b>>) = <<b>> /\ <<a, b>> # <<>>
                 /\ Append(<<a>>, b) = <<a, b>>
<1>1. ASSUME NEW a
      PROVE  Head(<<a>>) = a /\ Tail(<<a>>) = <<>> /\ <<a>> # <<>> /\ Append(<<>>, a) = <<a>>
  <2>1. Head(<<a>>) = a /\ <<a>> # <<>>
    OBVIOUS
  <2>2. Tail(<<a>>) = <<>>
    OBVIOUS
  <2>3. Append(<<>>, a) = <<a>>
    OBVIOUS
  <2> QED
    BY <2>1, <2>2, <2>3
<1>2. ASSUME NEW a, NEW b
      PROVE  /\ Head(<<a, b>>) = a /\ Tail(<<a, b>>) = <<b>> /\ <<a, b>> # <<>>
             /\ Append(<<a>>, b) = <<a, b>>
  <2>1. Head(<<a, b>>) = a /\ <<a, b>> # <<>>
    OBVIOUS
  <2>2. Tail(<<a, b>>) = <<b>>
    OBVIOUS
  <2>3. Append(<<a>>, b) = <<a, b>>
    <3> DEFINE S == {a, b}
    <3>1. <<a>> \in Seq(S) /\ b \in S /\ <<a, b>> \in Seq(S) /\ Len(<<a>>) = 1 /\ Len(<<a, b>>) = 2
      OBVIOUS
    <3>2. /\ Append(<<a>>, b) \in Seq(S) /\ Len(Append(<<a>>, b)) = 2
          /\ Append(<<a>>, b)[1] = a /\ Append(<<a>>, b)[2] = b
      BY <3>1, AppendProperties
    <3>3. \A i \in 1..2 : Append(<<a>>, b)[i] = <<a, b>>[i]
      BY <3>2
    <3> QED
      BY <3>1, <3>2, <3>3, SeqEqual
  <2> QED
    BY <2>1, <2>2, <2>3
<1> QED
  BY <1>1, <1>2

\* The messages differ in their type.
LEMMA Types == /\ \A t : Plain(t).type = t
               /\ \A k : Hs1(k).type = "HS1" /\ Hs1(k).by = k /\ Hs2(k).type = "HS2" /\ Hs2(k).by = k
BY DEF Plain, Hs1, Hs2

\* The ends of a connection in terms of one of them.
LEMMA EitherEnd ==
    ASSUME NEW n \in Node, NEW c \in Conn
    PROVE  \/ n = Dialer[c] /\ Other(n) = Other(Dialer[c]) /\ n # Other(Dialer[c])
           \/ n = Other(Dialer[c]) /\ Other(n) = Dialer[c] /\ n # Dialer[c]
BY DialerIs, Sides DEF Node

\* In a phase, what a node finds of a connection tells which phase it is.
LEMMA AtChallenge ==
    ASSUME NEW n \in Node, NEW c \in Conn, InPhase(c), ends[n][c] = "wait_challenge"
    PROVE  n = Dialer[c] /\ Challenged(c)
BY EitherEnd DEF InPhase, Undialled, Challenged, Solved, Asked, Answered, HalfDone, Done, Dropped, Gone, Ends, Node

\* What arrives at an end that waits for a solution.
LEMMA AtSolution ==
    ASSUME NEW n \in Node, NEW c \in Conn, InPhase(c), ends[n][c] = "pending_solution", chan[n][c] # <<>>
    PROVE  n = Other(Dialer[c]) /\ Solved(c)
BY EitherEnd DEF InPhase, Undialled, Challenged, Solved, Asked, Answered, HalfDone, Done, Dropped, Gone,
                 Ends, Chans, Node

\* What arrives at an end that waits for HS1.
LEMMA AtHs1 ==
    ASSUME NEW n \in Node, NEW c \in Conn, InPhase(c), ends[n][c] = "pending_hs1", chan[n][c] # <<>>
    PROVE  n = Other(Dialer[c]) /\ Asked(c) /\ \E k \in Conn : Own(c, k) /\ Chans(c, <<>>, <<Hs1(k)>>)
BY EitherEnd DEF InPhase, Undialled, Challenged, Solved, Asked, Answered, HalfDone, Done, Dropped, Gone,
                 Ends, Chans, Node

\* What arrives at an open end, and in which phase.
LEMMA AtOpen ==
    ASSUME NEW n \in Node, NEW c \in Conn, InPhase(c), ends[n][c] = "open", chan[n][c] # <<>>
    PROVE  \/ /\ n = Dialer[c] /\ Answered(c)
              /\ \E k \in Conn : Own(c, k) /\ Chans(c, <<Hs2(k)>>, <<>>) /\ chan[n][c] = <<Hs2(k)>>
           \/ n = Other(Dialer[c]) /\ HalfDone(c) /\ chan[n][c] = <<Plain("HS3")>>
           \/ /\ n = "lo" /\ Dropped(c) /\ Hs("lo", c) = {"COMPLETE"}
              /\ chan[n][c] = <<Plain("EOF")>>
           \/ /\ n = "lo" /\ Dropped(c) /\ Hs("lo", c) = {"AWAITING_MSG3"}
              /\ chan[n][c] = <<Plain("HS3"), Plain("EOF")>>
<1>1. CASE Undialled(c) \/ Challenged(c) \/ Solved(c) \/ Asked(c)
  BY <1>1, EitherEnd DEF Undialled, Challenged, Solved, Asked, Ends, Chans
<1>2. CASE Answered(c)
  BY <1>2, EitherEnd DEF Answered, Chans
<1>3. CASE HalfDone(c) \/ Done(c) \/ Gone(c)
  BY <1>3, EitherEnd DEF HalfDone, Done, Gone, Ends, Chans
<1>4. CASE Dropped(c)
  BY <1>4 DEF Dropped, Node
<1> QED
  BY <1>1, <1>2, <1>3, <1>4 DEF InPhase

\* A connection complete at one side only has something under way.
LEMMA NoneForgotten ==
    ASSUME NEW n \in Node, NEW c \in Conn, InPhase(c), Hs(n, c) = {"COMPLETE"},
           "COMPLETE" \notin Hs(Other(n), c)
    PROVE  chan[n][c] # <<>> \/ chan[Other(n)][c] # <<>>
<1>1. CASE Undialled(c) \/ Challenged(c) \/ Solved(c) \/ Asked(c) \/ Answered(c) \/ Done(c) \/ Gone(c)
  BY <1>1, EitherEnd DEF Undialled, Challenged, Solved, Asked, Answered, Done, Gone, HsAre, Waiting
<1>2. CASE HalfDone(c)
  BY <1>2, EitherEnd, Short DEF HalfDone, HsAre, Chans
<1>3. CASE Dropped(c)
  BY <1>3, Short, Sides DEF Dropped, Node
<1> QED
  BY <1>1, <1>2, <1>3 DEF InPhase

\* A connection is dialled.
LEMMA CalmDial ==
    ASSUME Inv, Calm, NEW c \in Conn, Dial(c)
    PROVE  Calm'
<1> DEFINE n == Dialer[c]
           o == Other(n)
<1>0. n \in Node /\ o \in Node /\ o # n /\ Node = {n, o}
  BY DialerIs, Sides
<1>1. /\ ends' = [ends EXCEPT ![n][c] = "wait_challenge", ![o][c] = "pending_solution"]
      /\ chan' = [chan EXCEPT ![n][c] = <<Plain("CHALLENGE")>>]
      /\ ends[n][c] = "undialled"
  BY DEF Dial
<1>2. ends \in [Node -> [Conn -> EndState]] /\ chan \in [Node -> [Conn -> Seq(Msg)]]
  BY DEF Inv, TableInv
<1>3. \A m \in Node : \A d : Hs(m, d)' = Hs(m, d)
  BY DialStep
<1>4. Undialled(c)
  BY <1>0, <1>1 DEF Calm, InPhase, Challenged, Solved, Asked, Answered, HalfDone, Done, Dropped, Gone, Ends, Node
<1> HIDE DEF n, o
<1>5. \A d \in Conn \ {c} : Same(d)
  BY <1>0, <1>1, <1>2, <1>3 DEF Same
<1>6. /\ ends'[n][c] = "wait_challenge" /\ ends'[o][c] = "pending_solution"
      /\ chan'[n][c] = <<Plain("CHALLENGE")>> /\ chan'[o][c] = chan[o][c]
  BY <1>0, <1>1, <1>2
<1>7. Challenged(c)' /\ ~SetUp(c)'
  BY <1>0, <1>3, <1>4, <1>6 DEF Challenged, Undialled, Ends, Chans, HsAre, SetUp, n, o
<1>8. ~Alive(c)
  BY <1>4 DEF Undialled, Alive, Solved, Asked, Answered, HalfDone, Done, Ends
<1> QED
  BY <1>5, <1>7, <1>8, CalmMoves DEF InPhase

\* The dialling side solves the challenge and starts its handshake.
LEMMA CalmSolve ==
    ASSUME Inv, Calm, NEW n \in Node, NEW c \in Conn, Solve(n, c)
    PROVE  Calm'
<1> DEFINE o == Other(n)
           ch == Put(Received(n, c), o, c, Plain("SOLUTION"))
<1>1. /\ chan[n][c] # <<>> /\ ends[n][c] = "wait_challenge" /\ SetUpAsInitiator(n, c, ch)
      /\ TableInv
  BY DEF Solve, Arrives, Inv
<1>2. n = Dialer[c] /\ Challenged(c) /\ o \in Node /\ o # n /\ Node = {n, o}
  BY <1>1, AtChallenge, Sides DEF Calm
<1>3. /\ chan[n][c] = <<Plain("CHALLENGE")>> /\ chan[o][c] = <<>> /\ ends[o][c] = "pending_solution"
      /\ Hs(n, c) = {} /\ Hs(o, c) = {}
  BY <1>2 DEF Challenged, Ends, Chans, HsAre
<1>4. /\ ch \in Network /\ ch[n][c] = <<>> /\ ch[o][c] = <<Plain("SOLUTION")>>
      /\ \A m \in Node, d \in Conn : d # c => ch[m][d] = chan[m][d]
  <2>1. /\ Received(n, c) \in Network /\ Received(n, c)[n][c] = <<>>
        /\ \A k \in Node, d \in Conn : k # n \/ d # c => Received(n, c)[k][d] = chan[k][d]
    <3>1. /\ Received(n, c) \in Network /\ Received(n, c)[n][c] = Tail(chan[n][c])
          /\ \A k \in Node, d \in Conn : k # n \/ d # c => Received(n, c)[k][d] = chan[k][d]
      BY <1>1, ReceivedIs
    <3>2. Tail(chan[n][c]) = <<>>
      BY <1>3, Short
    <3> QED
      BY <3>1, <3>2
  <2>2. Plain("SOLUTION") \in Msg
    BY Msgs
  <2>3. /\ ch \in Network /\ ch[o][c] = Append(<<>>, Plain("SOLUTION"))
        /\ \A k \in Node, d \in Conn : k # o \/ d # c => ch[k][d] = Received(n, c)[k][d]
    <3>1. ends[o][c] # "closed" /\ Received(n, c)[o][c] = <<>>
      BY <1>2, <1>3, <2>1
    <3> QED
      BY <1>2, <2>1, <2>2, <3>1, PutIs, SMTT(60) DEF PutsOn
  <2>4. Append(<<>>, Plain("SOLUTION")) = <<Plain("SOLUTION")>>
    BY Short
  <2> HIDE DEF ch
  <2> QED
    BY <1>2, <2>1, <2>3, <2>4
<1> HIDE DEF ch
<1>5. /\ NotUpgraded(n, c, ch) \/ \E k \in Conn : Upgraded(n, c, k, ch)
      /\ ends' = [ends EXCEPT ![n][c] = "open"]
  BY <1>1, <1>4, SetUpStep
<1>6. /\ ends'[n][c] = "open" /\ ends'[o][c] = "pending_solution"
      /\ \A m \in Node, d \in Conn : d # c => ends'[m][d] = ends[m][d]
  BY <1>1, <1>2, <1>3, <1>5 DEF TableInv
<1>7. ASSUME NEW d \in Conn, d # c, Hs(n, d) # {}, Placeholder(n, d) = Placeholder(n, c)
      PROVE  Dialer[d] = n /\ SetUp(d) /\ \E a \in Conn : Alive(a)
  <2>1. Dialer[d] = n
    BY <1>2, <1>7, PlaceholderIs DEF Placeholder
  <2>2. InPhase(d)
    BY DEF Calm
  <2>3. SetUp(d)
    BY <1>7, <2>1, <2>2, Sides DEF InPhase, Undialled, Challenged, Solved, Asked, Answered, HalfDone, Done, Dropped,
                      Gone, SetUp, Ends, HsAre, Node
  <2> QED
    BY <2>1, <2>3 DEF Calm
<1>8. ~Alive(c)
  BY <1>2 DEF Challenged, Alive, Solved, Asked, Answered, HalfDone, Done, Ends
<1>9. CASE NotUpgraded(n, c, ch)
  <2>1. /\ chan' = ch /\ Hs(n, c)' = {"INIT"} /\ Hs(o, c)' = {}
        /\ \A m \in Node, d \in Conn : d # c => Hs(m, d)' = Hs(m, d)
    BY <1>2, <1>3, <1>9 DEF NotUpgraded, HsMoves
  <2>2. \A d \in Conn \ {c} : Same(d)
    BY <1>4, <1>6, <2>1 DEF Same
  <2>3. Solved(c)'
    BY <1>2, <1>4, <1>6, <2>1 DEF Solved, Ends, Chans, Waiting, o
  <2>4. PICK a \in Conn : Alive(a)
    BY <1>7, <1>9 DEF NotUpgraded
  <2>5. Alive(a)'
    BY <1>8, <2>2, <2>4, PhaseStays
  <2>6. \A d \in Conn : InPhase(d)'
    BY <2>2, <2>3, PhaseStays DEF Calm, InPhase
  <2> QED
    BY <2>5, <2>6 DEF Calm
<1>10. CASE \E k \in Conn : Upgraded(n, c, k, ch)
  <2>1. PICK k \in Conn : Upgraded(n, c, k, ch)
    BY <1>10
  <2>2. /\ chan' = Put(ch, o, c, Hs1(k)) /\ Hs(n, k)' = {"AWAITING_MSG2"}
        /\ k # c => Hs(n, c)' = {"INIT"} /\ Hs(n, k) = {"INIT"} /\ Placeholder(n, k) = Placeholder(n, c)
        /\ \A m \in Node, d \in Conn : m # n \/ (d # c /\ d # k) => Hs(m, d)' = Hs(m, d)
    BY <2>1 DEF Upgraded
  <2>3. /\ chan'[n][c] = <<>> /\ chan'[o][c] = <<Plain("SOLUTION"), Hs1(k)>>
        /\ \A m \in Node, d \in Conn : d # c => chan'[m][d] = chan[m][d]
    <3>1. Hs1(k) \in Msg
      BY Msgs
    <3>2. /\ chan'[o][c] = Append(<<Plain("SOLUTION")>>, Hs1(k))
          /\ \A m \in Node, d \in Conn : m # o \/ d # c => chan'[m][d] = ch[m][d]
      <4>1. ends[o][c] # "closed"
        BY <1>3
      <4>2. /\ Put(ch, o, c, Hs1(k))[o][c] = Append(ch[o][c], Hs1(k))
            /\ \A m \in Node, d \in Conn : m # o \/ d # c => Put(ch, o, c, Hs1(k))[m][d] = ch[m][d]
        <5>1. PutsOn(ch, o, c, Hs1(k))
          BY <1>2, <1>4, <3>1, PutIs
        <5> QED
          BY <4>1, <5>1 DEF PutsOn
      <4> QED
        BY <1>4, <2>2, <4>2
    <3>3. Append(<<Plain("SOLUTION")>>, Hs1(k)) = <<Plain("SOLUTION"), Hs1(k)>>
      BY Short
    <3> QED
      BY <1>2, <1>4, <3>2, <3>3
  <2>4. Solved(c)'
    <3>1. Hs(n, c)' = {"INIT"} \/ Hs(n, c)' = {"AWAITING_MSG2"}
      BY <2>2
    <3>2. Own(c, k)'
      BY <1>2, <2>2 DEF Own
    <3>3. Hs(o, c)' = {}
      BY <1>2, <1>3, <2>2
    <3> QED
      BY <1>2, <1>6, <2>3, <3>1, <3>2, <3>3 DEF Solved, Ends, Chans, Waiting, o
  <2>5. \A d \in Conn \ {c, k} : Same(d)
    BY <1>6, <2>2, <2>3 DEF Same
  <2>6. CASE k = c
    <3>1. Alive(c)'
      BY <1>2, <2>3, <2>4, <2>6 DEF Alive, o
    <3>2. \A d \in Conn : InPhase(d)'
      BY <2>4, <2>5, <2>6, PhaseStays DEF Calm, InPhase
    <3> QED
      BY <3>1, <3>2 DEF Calm
  <2>7. CASE k # c
    <3>1. Dialer[k] = n /\ Hs(n, k) = {"INIT"} /\ \E a \in Conn : Alive(a)
      BY <1>7, <2>2, <2>7
    <3>2. /\ ends'[n][k] = ends[n][k] /\ ends'[o][k] = ends[o][k]
          /\ chan'[n][k] = chan[n][k] /\ chan'[o][k] = chan[o][k]
          /\ Hs(n, k)' = {"AWAITING_MSG2"} /\ Hs(o, k)' = Hs(o, k)
      BY <1>2, <1>6, <2>2, <2>3, <2>7
    <3>3. /\ Solved(k) => Solved(k)'
          /\ Asked(k) => Asked(k)'
          /\ Answered(k) => Answered(k)'
      BY <1>2, <3>1, <3>2 DEF Solved, Asked, Answered, Ends, Chans, Waiting, Own, o
    <3>4. Solved(k) \/ Asked(k) \/ Answered(k)
      <4>1. InPhase(k)
        BY DEF Calm
      <4> QED
        BY <1>2, <3>1, <4>1 DEF InPhase, Undialled, Challenged, HalfDone, Done, Dropped, Gone, HsAre, Ends, Node
    <3>5. InPhase(k)'
      BY <3>3, <3>4 DEF InPhase
    <3>6. Alive(k) => Alive(k)'
      BY <1>2, <3>1, <3>2, <3>3 DEF Alive, HalfDone, Done, HsAre, o
    <3>7. PICK a \in Conn : Alive(a)
      BY <3>1
    <3>8. Alive(a)'
      BY <1>8, <2>5, <3>6, <3>7, PhaseStays
    <3>9. \A d \in Conn : InPhase(d)'
      BY <2>4, <2>5, <3>5, PhaseStays DEF Calm, InPhase
    <3> QED
      BY <3>8, <3>9 DEF Calm
  <2> QED
    BY <2>6, <2>7
<1> QED
  BY <1>5, <1>9, <1>10

\* The accepting side checks the solution.
LEMMA CalmSolution ==
    ASSUME Inv, Calm, NEW n \in Node, NEW c \in Conn, CheckSolution(n, c)
    PROVE  Calm'
<1> DEFINE o == Other(n)
<1>1. /\ ends[n][c] = "pending_solution" /\ chan[n][c] # <<>> /\ TableInv
      /\ UNCHANGED <<peers, timers>>
  BY DEF CheckSolution, Inv
<1>2. n = Other(Dialer[c]) /\ o = Dialer[c] /\ Solved(c) /\ o \in Node /\ o # n /\ Node = {n, o}
  BY <1>1, AtSolution, DialerIs, Sides DEF Calm
<1>3. /\ ends[o][c] = "open" /\ chan[o][c] = <<>> /\ Waiting(c) /\ Hs(n, c) = {}
      /\ \/ chan[n][c] = <<Plain("SOLUTION")>>
         \/ \E k \in Conn : Own(c, k) /\ chan[n][c] = <<Plain("SOLUTION"), Hs1(k)>>
  BY <1>2 DEF Solved, Ends, Chans
<1>4. Arrives(n, c, "SOLUTION")
  BY <1>1, <1>3, Short, Types DEF Arrives
<1>5. ends' = [ends EXCEPT ![n][c] = "pending_hs1"] /\ chan' = Received(n, c)
  BY <1>4 DEF CheckSolution
<1>6. \A m \in Node : \A d : Hs(m, d)' = Hs(m, d)
  BY <1>1 DEF Hs
<1>7. /\ ends'[n][c] = "pending_hs1" /\ ends'[o][c] = "open"
      /\ chan'[n][c] = Tail(chan[n][c]) /\ chan'[o][c] = <<>>
      /\ \A m \in Node, d \in Conn : d # c => ends'[m][d] = ends[m][d] /\ chan'[m][d] = chan[m][d]
  <2>1. /\ ends'[n][c] = "pending_hs1" /\ ends'[o][c] = "open"
        /\ \A m \in Node, d \in Conn : d # c => ends'[m][d] = ends[m][d]
    BY <1>1, <1>2, <1>3, <1>5 DEF TableInv
  <2>2. /\ Received(n, c)[n][c] = Tail(chan[n][c])
        /\ \A k \in Node, d \in Conn : k # n \/ d # c => Received(n, c)[k][d] = chan[k][d]
    BY <1>1, ReceivedIs
  <2> QED
    BY <1>2, <1>3, <1>5, <2>1, <2>2
<1>8. \A d \in Conn \ {c} : Same(d)
  BY <1>6, <1>7 DEF Same
<1>9. Waiting(c)' /\ \A k : Own(c, k) => Own(c, k)'
  BY <1>2, <1>3, <1>6 DEF Waiting, Own
<1>10. Asked(c)'
  <2>1. chan'[n][c] = <<>> \/ \E k \in Conn : Own(c, k)' /\ chan'[n][c] = <<Hs1(k)>>
    <3>1. CASE chan[n][c] = <<Plain("SOLUTION")>>
      BY <1>7, <3>1, Short
    <3>2. CASE \E k \in Conn : Own(c, k) /\ chan[n][c] = <<Plain("SOLUTION"), Hs1(k)>>
      <4>1. PICK k \in Conn : Own(c, k) /\ chan[n][c] = <<Plain("SOLUTION"), Hs1(k)>>
        BY <3>2
      <4>2. Tail(<<Plain("SOLUTION"), Hs1(k)>>) = <<Hs1(k)>>
        BY Short
      <4> QED
        BY <1>7, <1>9, <4>1, <4>2
    <3> QED
      BY <1>3, <3>1, <3>2
  <2> QED
    BY <1>2, <1>3, <1>6, <1>7, <1>9, <2>1 DEF Asked, Ends, Chans
<1>11. Alive(c) => Alive(c)'
  <2>1. Alive(c) => chan[n][c] = <<Plain("SOLUTION"), Hs1(c)>>
    BY <1>1, <1>2 DEF Alive, Asked, Answered, HalfDone, Done, Ends
  <2>2. Alive(c) => chan'[n][c] = <<Hs1(c)>>
    <3>1. Tail(<<Plain("SOLUTION"), Hs1(c)>>) = <<Hs1(c)>>
      BY Short
    <3> QED
      BY <1>7, <2>1, <3>1
  <2> QED
    BY <1>2, <1>10, <2>2 DEF Alive
<1>12. SetUp(c)
  BY <1>2, <1>3 DEF SetUp
<1> QED
  BY <1>8, <1>10, <1>11, <1>12, CalmMoves DEF InPhase

\* The accepting side answers HS1.
LEMMA CalmAccept ==
    ASSUME Inv, Calm, NEW n \in Node, NEW c \in Conn, AcceptHs1(n, c)
    PROVE  Calm'
<1> DEFINE o == Other(n)
<1>1. ends[n][c] = "pending_hs1" /\ chan[n][c] # <<>> /\ TableInv
  BY DEF AcceptHs1, Inv
<1>2. n = Other(Dialer[c]) /\ o = Dialer[c] /\ Asked(c) /\ o \in Node /\ o # n /\ Node = {n, o}
  BY <1>1, AtHs1, DialerIs, Sides DEF Calm
<1>3. PICK k \in Conn : Own(c, k) /\ Chans(c, <<>>, <<Hs1(k)>>)
  BY <1>1, AtHs1 DEF Calm
<1>4. chan[n][c] = <<Hs1(k)>> /\ chan[o][c] = <<>> /\ ends[o][c] = "open" /\ Waiting(c)
  BY <1>2, <1>3 DEF Chans, Asked, Ends
<1>5. Arrives(n, c, "HS1") /\ Head(chan[n][c]).by = k
  BY <1>1, <1>4, Short, Types DEF Arrives
<1>6. /\ HsMoves(n, c, {"AWAITING_MSG3"}) /\ ends' = [ends EXCEPT ![n][c] = "open"]
      /\ chan' = Put(Received(n, c), o, c, Hs2(k))
  BY <1>1, <1>5, AcceptStep
<1>7. /\ chan'[n][c] = <<>> /\ chan'[o][c] = <<Hs2(k)>>
      /\ \A m \in Node, d \in Conn : d # c => chan'[m][d] = chan[m][d]
  <2>1. /\ Received(n, c) \in Network /\ Received(n, c)[n][c] = <<>>
        /\ \A m \in Node, d \in Conn : m # n \/ d # c => Received(n, c)[m][d] = chan[m][d]
    <3>1. /\ Received(n, c) \in Network /\ Received(n, c)[n][c] = Tail(chan[n][c])
          /\ \A m \in Node, d \in Conn : m # n \/ d # c => Received(n, c)[m][d] = chan[m][d]
      BY <1>1, ReceivedIs
    <3>2. Tail(chan[n][c]) = <<>>
      BY <1>4, Short
    <3> QED
      BY <3>1, <3>2
  <2>2. Hs2(k) \in Msg
    BY Msgs
  <2>3. /\ chan'[o][c] = Append(<<>>, Hs2(k))
        /\ \A m \in Node, d \in Conn : m # o \/ d # c => chan'[m][d] = Received(n, c)[m][d]
    <3>1. ends[o][c] # "closed" /\ Received(n, c)[o][c] = <<>>
      BY <1>2, <1>4, <2>1
    <3>2. /\ Put(Received(n, c), o, c, Hs2(k))[o][c] = Append(Received(n, c)[o][c], Hs2(k))
          /\ \A m \in Node, d \in Conn :
                 m # o \/ d # c => Put(Received(n, c), o, c, Hs2(k))[m][d] = Received(n, c)[m][d]
      <4>1. PutsOn(Received(n, c), o, c, Hs2(k))
        BY <1>2, <2>1, <2>2, PutIs
      <4> QED
        BY <3>1, <4>1 DEF PutsOn
    <3> QED
      BY <1>6, <3>1, <3>2
  <2>4. Append(<<>>, Hs2(k)) = <<Hs2(k)>>
    BY Short
  <2> QED
    BY <1>2, <2>1, <2>3, <2>4
<1>8. /\ ends'[n][c] = "open" /\ ends'[o][c] = "open"
      /\ \A m \in Node, d \in Conn : d # c => ends'[m][d] = ends[m][d]
  BY <1>1, <1>2, <1>4, <1>6 DEF TableInv
<1>9. \A d \in Conn \ {c} : Same(d)
  BY <1>6, <1>7, <1>8 DEF Same, HsMoves
<1>10. Hs(n, c)' = {"AWAITING_MSG3"} /\ Hs(o, c)' = Hs(o, c)
  BY <1>2, <1>6 DEF HsMoves
<1>11. Waiting(c)' /\ Own(c, k)'
  BY <1>2, <1>3, <1>4, <1>10 DEF Waiting, Own
<1>12. Answered(c)'
  BY <1>2, <1>7, <1>8, <1>10, <1>11 DEF Answered, Ends, Chans
<1>13. Alive(c) => Alive(c)'
  <2>1. Alive(c) => chan[n][c] = <<Hs1(c)>>
    BY <1>1, <1>2 DEF Alive, Solved, Answered, HalfDone, Done, Ends
  <2>2. Alive(c) => k = c
    <3>1. \A a, b : <<a>> = <<b>> => a = b
      BY Short
    <3> QED
      BY <1>4, <2>1, <3>1, Types
  <2> QED
    BY <1>2, <1>7, <1>12, <2>2 DEF Alive
<1>14. SetUp(c)
  BY <1>2, <1>4 DEF SetUp
<1> QED
  BY <1>9, <1>12, <1>13, <1>14, CalmMoves DEF InPhase

\* A handshake is completed at n, and duplicates of it are closed: the other connections stay
\* in a phase, and none changes if none is closed.
LEMMA CalmFinish ==
    ASSUME Inv, Calm, NEW n \in Node, NEW c \in Conn, NEW ch \in Network, NEW D, Finished(n, c, D, ch),
           \A m \in Node, d \in Conn : d # c => ch[m][d] = chan[m][d]
    PROVE  /\ \A d \in Conn \ {c} : InPhase(d)' /\ (D = {} => Same(d))
           /\ \A m \in Node : ends'[m][c] = ends[m][c] /\ chan'[m][c] = ch[m][c]
           /\ Hs(n, c)' = {"COMPLETE"} /\ Hs(Other(n), c)' = Hs(Other(n), c)
<1>0. TableInv /\ ends' = ShutEnds(n, D) /\ chan' = Shut(ch, n, D) /\ c \notin D
  BY DEF Inv, Finished
<1>1. /\ \A m \in Node, d \in Conn : d \notin D => chan'[m][d] = ch[m][d]
      /\ \A m \in Node, d \in Conn : m # n \/ d \notin D => ends'[m][d] = ends[m][d]
      /\ \A d \in Conn : d \in D => chan'[n][d] = <<>> /\ ends'[n][d] = "closed"
      /\ \A m \in Node, d \in Conn : m # n /\ d \in D /\ ends[m][d] # "closed" =>
             chan'[m][d] = Append(ch[m][d], Plain("EOF"))
  BY <1>0, ShutIs
<1>2. \A d \in Conn \ {c} : d \notin D => Same(d)
  BY <1>1 DEF Same, Finished
<1>3. ASSUME NEW d \in D PROVE d \in Conn /\ Dropped(d)'
  <2>1. n = "hi" /\ d \in Conn /\ d # c /\ Hs("hi", d) = {"COMPLETE"} /\ Hs("hi", d)' = {}
    BY <1>3 DEF Finished, Node
  <2>2. InPhase(d)
    BY <2>1 DEF Calm
  <2>3. (HalfDone(d) /\ Dialer[d] = "hi") \/ Done(d)
    <3>1. \/ Dialer[d] = "hi" /\ Other(Dialer[d]) = "lo"
          \/ Dialer[d] = "lo" /\ Other(Dialer[d]) = "hi"
      BY <2>1, DialerIs DEF Node, Other
    <3> QED
      BY <2>1, <2>2, <3>1 DEF InPhase, Undialled, Challenged, Solved, Asked, Answered, HalfDone, Dropped,
                              Gone, HsAre, Waiting
  <2>4. /\ ends["lo"][d] = "open"
        /\ \/ Hs("lo", d) = {"COMPLETE"} /\ chan["lo"][d] = <<>>
           \/ Hs("lo", d) = {"AWAITING_MSG3"} /\ chan["lo"][d] = <<Plain("HS3")>>
    <3>1. \/ Dialer[d] = "hi" /\ Other(Dialer[d]) = "lo"
          \/ Dialer[d] = "lo" /\ Other(Dialer[d]) = "hi"
      BY <2>1, DialerIs DEF Node, Other
    <3> QED
      BY <2>3, <3>1 DEF HalfDone, Done, Ends, Chans, HsAre
  <2>5. /\ ends'["hi"][d] = "closed" /\ ends'["lo"][d] = "open" /\ chan'["hi"][d] = <<>>
        /\ chan'["lo"][d] = Append(chan["lo"][d], Plain("EOF"))
    <3>1. "lo" \in Node /\ "lo" # "hi" /\ ch["lo"][d] = chan["lo"][d]
      BY <2>1 DEF Node
    <3> QED
      BY <1>1, <1>3, <2>1, <2>4, <3>1, SMTT(60)
  <2>6. Hs("lo", d)' = Hs("lo", d)
    BY <2>1 DEF Finished, Node
  <2>7. /\ Append(<<>>, Plain("EOF")) = <<Plain("EOF")>>
        /\ Append(<<Plain("HS3")>>, Plain("EOF")) = <<Plain("HS3"), Plain("EOF")>>
    BY Short
  <2> QED
    BY <2>1, <2>4, <2>5, <2>6, <2>7 DEF Dropped
<1>4. \A d \in Conn \ {c} : InPhase(d)'
  BY <1>2, <1>3, PhaseStays DEF Calm, InPhase
<1>5. \A m \in Node : ends'[m][c] = ends[m][c] /\ chan'[m][c] = ch[m][c]
  BY <1>0, <1>1
<1>6. Hs(n, c)' = {"COMPLETE"} /\ Hs(Other(n), c)' = Hs(Other(n), c)
  BY Sides DEF Finished
<1> QED
  BY <1>2, <1>4, <1>5, <1>6

\* The dialling side receives HS2.
LEMMA CalmHs2 ==
    ASSUME Inv, Calm, NEW n \in Node, NEW c \in Conn, HandleHs2(n, c)
    PROVE  Calm'
<1> DEFINE o == Other(n)
<1>1. ends[n][c] = "open" /\ chan[n][c] # <<>> /\ Head(chan[n][c]).type = "HS2" /\ TableInv
  BY DEF HandleHs2, Arrives, Inv
<1>2. PICK k \in Conn : /\ n = Dialer[c] /\ Answered(c) /\ Own(c, k)
                        /\ Chans(c, <<Hs2(k)>>, <<>>) /\ chan[n][c] = <<Hs2(k)>>
  <2>1. InPhase(c)
    BY DEF Calm
  <2>2. \/ n = Dialer[c] /\ Answered(c)
           /\ \E k \in Conn : Own(c, k) /\ Chans(c, <<Hs2(k)>>, <<>>) /\ chan[n][c] = <<Hs2(k)>>
        \/ chan[n][c] = <<Plain("HS3")>> \/ chan[n][c] = <<Plain("EOF")>>
        \/ chan[n][c] = <<Plain("HS3"), Plain("EOF")>>
    BY <1>1, <2>1, AtOpen
  <2>3. Head(<<Plain("HS3")>>).type # "HS2" /\ Head(<<Plain("EOF")>>).type # "HS2"
    BY Short, Types
  <2>4. Head(<<Plain("HS3"), Plain("EOF")>>).type # "HS2"
    BY Short, Types
  <2> QED
    BY <1>1, <2>2, <2>3, <2>4
<1>3. /\ o \in Node /\ o # n /\ Node = {n, o} /\ ends[o][c] = "open" /\ chan[o][c] = <<>>
      /\ Hs(o, c) = {"AWAITING_MSG3"} /\ Waiting(c)
  BY <1>2, Sides DEF Answered, Ends, Chans
<1>4. Head(chan[n][c]).by = k /\ Tail(chan[n][c]) = <<>>
  BY <1>2, Short, Types
<1>5. /\ Received(n, c) \in Network /\ Received(n, c)[n][c] = <<>>
      /\ \A m \in Node, d \in Conn : m # n \/ d # c => Received(n, c)[m][d] = chan[m][d]
  BY <1>1, <1>4, ReceivedIs
<1>6. CASE k = c
  <2> DEFINE ch == Put(Received(n, c), o, c, Plain("HS3"))
  <2>1. Hs(n, c) = {"AWAITING_MSG2"}
    BY <1>2, <1>6 DEF Own
  <2>2. Expects(n, c, "AWAITING_MSG2")
    BY <2>1, Looked
  <2>3. PICK D : Finished(n, c, D, ch)
    BY <1>4, <1>6, <2>2, Hs2Completes
  <2>4. /\ ch \in Network /\ ch[n][c] = <<>> /\ ch[o][c] = Append(<<>>, Plain("HS3"))
        /\ \A m \in Node, d \in Conn : d # c => ch[m][d] = chan[m][d]
    <3>1. PutsOn(Received(n, c), o, c, Plain("HS3"))
      BY <1>3, <1>5, Msgs, PutIs
    <3> QED
      BY <1>3, <1>5, <3>1 DEF PutsOn
  <2> HIDE DEF ch
  <2>5. Append(<<>>, Plain("HS3")) = <<Plain("HS3")>>
    BY Short
  <2>6. /\ \A d \in Conn \ {c} : InPhase(d)'
        /\ \A m \in Node : ends'[m][c] = ends[m][c] /\ chan'[m][c] = ch[m][c]
        /\ Hs(n, c)' = {"COMPLETE"} /\ Hs(o, c)' = Hs(o, c)
    BY <2>3, <2>4, CalmFinish
  <2>7. HalfDone(c)'
    BY <1>1, <1>2, <1>3, <2>4, <2>5, <2>6 DEF HalfDone, Ends, Chans, HsAre
  <2> QED
    BY <2>6, <2>7 DEF Calm, InPhase, Alive
<1>7. CASE k # c
  <2>1. chan' = Received(n, c) /\ UNCHANGED <<ends, peers, timers>>
    BY <1>4, <1>7 DEF HandleHs2
  <2>2. \A m \in Node : \A d : Hs(m, d)' = Hs(m, d)
    BY <2>1 DEF Hs
  <2>3. \A d \in Conn \ {c} : Same(d)
    BY <1>5, <2>1, <2>2 DEF Same
  <2>4. Waiting(c)'
    BY <1>2, <1>3, <2>2 DEF Waiting
  <2>5. Answered(c)'
    BY <1>1, <1>2, <1>3, <1>5, <2>1, <2>2, <2>4 DEF Answered, Ends, Chans
  <2>6. ~Alive(c)
    <3>1. \A a, b : <<a>> = <<b>> => a = b
      BY Short
    <3>2. chan[n][c] # <<Hs2(c)>>
      BY <1>2, <1>7, <3>1, Types
    <3> QED
      BY <1>1, <1>2, <1>3, <3>2 DEF Alive, Solved, Asked, HalfDone, Done, Ends, HsAre, Waiting
  <2>7. SetUp(c)
    BY <1>1, <1>2 DEF SetUp
  <2> QED
    BY <2>3, <2>5, <2>6, <2>7, CalmMoves DEF InPhase
<1> QED
  BY <1>6, <1>7

\* A connection that the higher side has closed is not alive.
LEMMA DroppedIs ==
    ASSUME NEW c \in Conn, Dropped(c)
    PROVE  /\ ~Alive(c) /\ SetUp(c)
           /\ ends["hi"][c] = "closed" /\ ends["lo"][c] = "open" /\ Hs("hi", c) = {} /\ chan["hi"][c] = <<>>
<1>1. \/ Dialer[c] = "hi" /\ Other(Dialer[c]) = "lo"
      \/ Dialer[c] = "lo" /\ Other(Dialer[c]) = "hi"
  BY DialerIs DEF Node, Other
<1> QED
  BY <1>1 DEF Dropped, Alive, Solved, Asked, Answered, HalfDone, Done, Ends, SetUp

\* The accepting side receives HS3.
LEMMA CalmHs3 ==
    ASSUME Inv, Calm, NEW n \in Node, NEW c \in Conn, HandleHs3(n, c)
    PROVE  Calm'
<1> DEFINE o == Other(n)
           ch == Received(n, c)
<1>1. ends[n][c] = "open" /\ chan[n][c] # <<>> /\ Head(chan[n][c]).type = "HS3" /\ TableInv
  BY DEF HandleHs3, Arrives, Inv
<1>2. \/ n = Other(Dialer[c]) /\ HalfDone(c) /\ chan[n][c] = <<Plain("HS3")>>
      \/ /\ n = "lo" /\ Dropped(c) /\ Hs("lo", c) = {"AWAITING_MSG3"}
         /\ chan[n][c] = <<Plain("HS3"), Plain("EOF")>>
  <2>1. InPhase(c)
    BY DEF Calm
  <2>2. \/ \E k \in Conn : chan[n][c] = <<Hs2(k)>>
        \/ n = Other(Dialer[c]) /\ HalfDone(c) /\ chan[n][c] = <<Plain("HS3")>>
        \/ chan[n][c] = <<Plain("EOF")>>
        \/ /\ n = "lo" /\ Dropped(c) /\ Hs("lo", c) = {"AWAITING_MSG3"}
           /\ chan[n][c] = <<Plain("HS3"), Plain("EOF")>>
    BY <1>1, <2>1, AtOpen
  <2>3. Head(<<Plain("EOF")>>).type # "HS3" /\ \A k : Head(<<Hs2(k)>>).type # "HS3"
    BY Short, Types
  <2> QED
    BY <1>1, <2>2, <2>3
<1>3. /\ ch \in Network /\ ch[n][c] = Tail(chan[n][c])
      /\ \A m \in Node, d \in Conn : m # n \/ d # c => ch[m][d] = chan[m][d]
  BY <1>1, ReceivedIs
<1>4. Tail(<<Plain("HS3")>>) = <<>> /\ Tail(<<Plain("HS3"), Plain("EOF")>>) = <<Plain("EOF")>>
  BY Short
<1>5. o \in Node /\ o # n /\ Node = {n, o}
  BY Sides
<1>6. Hs(n, c) = {"AWAITING_MSG3"}
  BY <1>2 DEF HalfDone, HsAre
<1>7. PICK D : Finished(n, c, D, ch)
  <2>1. Expects(n, c, "AWAITING_MSG3")
    BY <1>6, Looked
  <2> QED
    BY <2>1, Hs3Completes
<1> HIDE DEF ch
<1>8. \A m \in Node, d \in Conn : d # c => ch[m][d] = chan[m][d]
  BY <1>3
<1>9. /\ \A d \in Conn \ {c} : InPhase(d)' /\ (D = {} => Same(d))
      /\ \A m \in Node : ends'[m][c] = ends[m][c] /\ chan'[m][c] = ch[m][c]
      /\ Hs(n, c)' = {"COMPLETE"} /\ Hs(o, c)' = Hs(o, c)
  BY <1>3, <1>7, <1>8, CalmFinish
<1>10. CASE n = Other(Dialer[c]) /\ HalfDone(c) /\ chan[n][c] = <<Plain("HS3")>>
  <2>1. o = Dialer[c] /\ ends[o][c] = "open" /\ chan[o][c] = <<>> /\ Hs(o, c) = {"COMPLETE"}
    BY <1>10, DialerIs, Sides DEF HalfDone, Ends, Chans, HsAre
  <2>2. /\ ends'[n][c] = "open" /\ ends'[o][c] = "open" /\ chan'[n][c] = <<>> /\ chan'[o][c] = <<>>
        /\ Hs(n, c)' = {"COMPLETE"} /\ Hs(o, c)' = {"COMPLETE"}
    BY <1>1, <1>3, <1>4, <1>5, <1>9, <1>10, <2>1
  <2>3. Done(c)'
    BY <1>10, <2>1, <2>2 DEF Done, Ends, Chans, HsAre
  <2> QED
    BY <1>9, <2>3 DEF Calm, InPhase, Alive
<1>11. CASE /\ n = "lo" /\ Dropped(c) /\ Hs("lo", c) = {"AWAITING_MSG3"}
            /\ chan[n][c] = <<Plain("HS3"), Plain("EOF")>>
  <2>1. D = {}
    BY <1>7, <1>11 DEF Finished
  <2>2. ~Alive(c) /\ SetUp(c)
    BY <1>11, DroppedIs
  <2>3. o = "hi"
    BY <1>11 DEF Other
  <2>4. /\ ends'["hi"][c] = "closed" /\ ends'["lo"][c] = "open" /\ Hs("hi", c)' = {} /\ chan'["hi"][c] = <<>>
        /\ Hs("lo", c)' = {"COMPLETE"} /\ chan'["lo"][c] = <<Plain("EOF")>>
    BY <1>3, <1>4, <1>5, <1>9, <1>11, <2>3, DroppedIs
  <2>5. Dropped(c)'
    BY <2>4 DEF Dropped
  <2> QED
    BY <1>9, <2>1, <2>2, <2>5, CalmMoves DEF InPhase
<1> QED
  BY <1>2, <1>10, <1>11

\* The other side sees that its connection was closed.
LEMMA CalmEof ==
    ASSUME Inv, Calm, NEW n \in Node, NEW c \in Conn, HandleEof(n, c)
    PROVE  Calm'
<1>1. /\ ends[n][c] \in {"wait_challenge", "open"} /\ chan[n][c] # <<>> /\ Head(chan[n][c]).type = "EOF"
      /\ TableInv /\ InPhase(c)
  BY DEF HandleEof, Arrives, Inv, Calm
<1>2. ends[n][c] = "open"
  <2>1. ASSUME ends[n][c] = "wait_challenge" PROVE FALSE
    <3>1. chan[n][c] = <<Plain("CHALLENGE")>>
      BY <1>1, <2>1, AtChallenge DEF Challenged, Chans
    <3> QED
      BY <1>1, <3>1, Short, Types
  <2> QED
    BY <1>1, <2>1
<1>3. n = "lo" /\ Dropped(c) /\ Hs("lo", c) = {"COMPLETE"} /\ chan[n][c] = <<Plain("EOF")>>
  <2>1. \/ \E k \in Conn : chan[n][c] = <<Hs2(k)>>
        \/ chan[n][c] = <<Plain("HS3")>>
        \/ n = "lo" /\ Dropped(c) /\ Hs("lo", c) = {"COMPLETE"} /\ chan[n][c] = <<Plain("EOF")>>
        \/ chan[n][c] = <<Plain("HS3"), Plain("EOF")>>
    BY <1>1, <1>2, AtOpen
  <2>2. Head(<<Plain("HS3")>>).type # "EOF" /\ \A k : Head(<<Hs2(k)>>).type # "EOF"
    BY Short, Types
  <2>3. Head(<<Plain("HS3"), Plain("EOF")>>).type # "EOF"
    BY Short, Types
  <2> QED
    BY <1>1, <2>1, <2>2, <2>3
<1>4. /\ ~Alive(c) /\ SetUp(c)
      /\ ends["hi"][c] = "closed" /\ Hs("hi", c) = {} /\ chan["hi"][c] = <<>>
  BY <1>3, DroppedIs
<1>5. ends' = [ends EXCEPT ![n][c] = "closed"] /\ chan' = Received(n, c)
  BY DEF HandleEof
<1>6. /\ Received(n, c) \in Network /\ Received(n, c)[n][c] = <<>>
      /\ \A m \in Node, d \in Conn : m # n \/ d # c => Received(n, c)[m][d] = chan[m][d]
  <2>1. Tail(chan[n][c]) = <<>>
    BY <1>3, Short
  <2> QED
    BY <1>1, <2>1, ReceivedIs
<1>7. HsMoves(n, c, {})
  <2>1. ByConn(peers[n], c) # {}
    BY <1>3, Looked
  <2>2. Removed(n, First(ByConn(peers[n], c)))
    BY <2>1 DEF HandleEof
  <2> QED
    BY <1>2, <1>5, <1>6, <2>1, <2>2, RemoveKeeps
<1>8. /\ ends'["lo"][c] = "closed" /\ ends'["hi"][c] = "closed"
      /\ \A m \in Node, d \in Conn : d # c => ends'[m][d] = ends[m][d]
  BY <1>1, <1>3, <1>4, <1>5 DEF TableInv, Node
<1>9. \A d \in Conn \ {c} : Same(d)
  BY <1>5, <1>6, <1>7, <1>8 DEF Same, HsMoves
<1>10. /\ chan'["lo"][c] = <<>> /\ chan'["hi"][c] = <<>> /\ Hs("lo", c)' = {} /\ Hs("hi", c)' = {}
  BY <1>3, <1>4, <1>5, <1>6, <1>7 DEF HsMoves, Node
<1>11. Gone(c)'
  <2>1. \/ Dialer[c] = "hi" /\ Other(Dialer[c]) = "lo"
        \/ Dialer[c] = "lo" /\ Other(Dialer[c]) = "hi"
    BY DialerIs DEF Node, Other
  <2> QED
    BY <1>8, <1>10, <2>1 DEF Gone, Ends, Chans, HsAre
<1> QED
  BY <1>4, <1>9, <1>11, CalmMoves DEF InPhase

\* Every step that is not a timer's keeps each connection in its phase, and one of them alive.
THEOREM CalmStep == Inv /\ CalmInv /\ [Next]_vars => CalmInv'
<1> SUFFICES ASSUME Inv, CalmInv, [Next]_vars, ~expired' PROVE Calm'
  BY DEF CalmInv
<1>0. TableInv
  BY DEF Inv
<1>1. Calm
  <2>1. ~expired
    <3>1. ASSUME NEW c \in Conn, Dial(c) PROVE expired' = expired
      BY <3>1 DEF Dial
    <3>2. ASSUME NEW n \in Node, NEW c \in Conn, Receive(n, c) PROVE expired' = expired
      BY <3>2 DEF Receive, Solve, CheckSolution, AcceptHs1, HandleHs2, HandleHs3, IgnoreChallenge, HandleEof
    <3>3. ASSUME NEW n \in Node, NEW c \in Conn, PowTimeout(n, c) \/ PendingTimeout(n, c) PROVE expired' = TRUE
      BY <3>3 DEF PowTimeout, PendingTimeout
    <3>4. ASSUME NEW n \in Node, HandshakeTimeout(n) PROVE expired' = TRUE \/ expired' = expired
      BY <3>4 DEF HandshakeTimeout
    <3>5. ASSUME NEW n \in Node, NEW c \in Conn, KeepaliveTimeout(n, c) PROVE expired' = expired
      BY <3>5 DEF KeepaliveTimeout
    <3> QED
      BY <3>1, <3>2, <3>3, <3>4, <3>5 DEF Next, vars
  <2> QED
    BY <2>1 DEF CalmInv
<1>2. ASSUME \A d \in Conn : Same(d) PROVE Calm'
  BY <1>1, <1>2, PhaseStays DEF Calm
<1>3. ASSUME NEW c \in Conn, Dial(c) PROVE Calm'
  BY <1>1, <1>3, CalmDial
<1>4. ASSUME NEW n \in Node, NEW c \in Conn, Receive(n, c) PROVE Calm'
  <2>1. ASSUME IgnoreChallenge(n, c) PROVE FALSE
    <3>1. /\ InPhase(c) /\ ends[n][c] = "open" /\ chan[n][c] # <<>>
          /\ Head(chan[n][c]).type = "CHALLENGE"
      BY <1>1, <2>1 DEF IgnoreChallenge, Arrives, Calm
    <3>2. \/ \E k \in Conn : chan[n][c] = <<Hs2(k)>>
          \/ chan[n][c] = <<Plain("HS3")>> \/ chan[n][c] = <<Plain("EOF")>>
          \/ chan[n][c] = <<Plain("HS3"), Plain("EOF")>>
      BY <3>1, AtOpen
    <3>3. /\ Head(<<Plain("HS3")>>).type # "CHALLENGE" /\ \A k : Head(<<Hs2(k)>>).type # "CHALLENGE"
          /\ Head(<<Plain("EOF")>>).type # "CHALLENGE"
      BY Short, Types
    <3>4. Head(<<Plain("HS3"), Plain("EOF")>>).type # "CHALLENGE"
      BY Short, Types
    <3> QED
      BY <3>1, <3>2, <3>3, <3>4
  <2> QED
    BY <1>1, <1>4, <2>1, CalmSolve, CalmSolution, CalmAccept, CalmHs2, CalmHs3, CalmEof DEF Receive
<1>5. ASSUME NEW n \in Node, NEW c \in Conn, PowTimeout(n, c) \/ PendingTimeout(n, c) PROVE FALSE
  BY <1>5 DEF PowTimeout, PendingTimeout
<1>6. ASSUME NEW n \in Node, HandshakeTimeout(n) PROVE Calm'
  <2>1. UNCHANGED <<ends, chan>> /\ \A m \in Node : \A c : Hs(m, c)' = Hs(m, c)
    BY <1>0, <1>6, TimeoutStep
  <2> QED
    BY <1>2, <2>1 DEF Same
<1>7. ASSUME NEW n \in Node, NEW c \in Conn, KeepaliveTimeout(n, c) PROVE FALSE
  <2>1. /\ Expects(n, c, "COMPLETE") /\ ~Expects(Other(n), c, "COMPLETE")
        /\ chan[n][c] = <<>> /\ chan[Other(n)][c] = <<>>
    BY <1>7 DEF KeepaliveTimeout
  <2>2. Hs(n, c) = {"COMPLETE"} /\ "COMPLETE" \notin Hs(Other(n), c)
    BY <1>0, <2>1, Waits, Looked
  <2>3. InPhase(c)
    BY <1>1 DEF Calm
  <2> QED
    BY <2>1, <2>2, <2>3, NoneForgotten
<1>8. CASE UNCHANGED vars
  <2>1. \A d \in Conn : Same(d)
    BY <1>8 DEF vars, Same, Hs
  <2> QED
    BY <1>2, <2>1
<1> QED
  BY <1>3, <1>4, <1>5, <1>6, <1>7, <1>8 DEF Next

\* Before anything is dialled, every connection is in its first phase.
LEMMA CalmInit == Init => CalmInv
<1> SUFFICES ASSUME Init PROVE Calm
  BY DEF CalmInv
<1>1. \A n \in Node, c \in Conn : ends[n][c] = "undialled" /\ chan[n][c] = <<>> /\ Hs(n, c) = {}
  BY DEF Init, Hs, HsOf, Items
<1>2. \A c \in Conn : Undialled(c) /\ ~SetUp(c)
  BY <1>1, DialerIs, Sides DEF Undialled, Ends, Chans, HsAre, SetUp
<1> QED
  BY <1>2 DEF Calm, InPhase

\* The higher side never keeps two complete connections to a peer, whatever the timers do; and
\* once everything in flight has been handled and no timer has given up on a connection, the
\* two that have dialled keep exactly one, the same one, however many dials crossed
\* (finalize_handshake, client.c:525-527).
THEOREM OneSurvivesHolds == Spec => []OneSurvives
<1>1. Inv /\ CalmInv => OneSurvives
  <2> SUFFICES ASSUME Inv, CalmInv PROVE OneSurvives
    OBVIOUS
  <2>1. \A n \in Node : Complete(n) = {c \in Conn : "COMPLETE" \in Hs(n, c)}
    BY Looked DEF Complete
  <2>2. \A c, d \in Complete("hi") : c = d
    BY <2>1 DEF Inv, OneReal, Node
  <2>3. Cardinality(Complete("hi")) \in {0, 1} /\ (Complete("hi") # {} => Cardinality(Complete("hi")) = 1)
    BY <2>2, OneAtMost
  <2>4. OneCompleteAtHigher
    BY <2>3 DEF OneCompleteAtHigher
  <2>5. AgreeOnOne
    <3> SUFFICES ASSUME Quiet, ~expired, NEW c \in Conn, ends[Dialer[c]][c] # "undialled"
                 PROVE  Complete("hi") = Complete("lo") /\ Cardinality(Complete("hi")) = 1
      BY DEF AgreeOnOne
    <3>1. Calm /\ \A n \in Node, d \in Conn : chan[n][d] = <<>> /\ ends[n][d] # "wait_challenge"
      BY DEF CalmInv, Quiet
    <3>2. ASSUME NEW d \in Conn
          PROVE  /\ "COMPLETE" \in Hs("hi", d) <=> "COMPLETE" \in Hs("lo", d)
                 /\ Alive(d) => "COMPLETE" \in Hs("hi", d)
      <4>1. \/ Dialer[d] = "hi" /\ Other(Dialer[d]) = "lo"
            \/ Dialer[d] = "lo" /\ Other(Dialer[d]) = "hi"
        BY DialerIs DEF Node, Other
      <4>2. InPhase(d) /\ chan["hi"][d] = <<>> /\ chan["lo"][d] = <<>>
        BY <3>1 DEF Calm, Node
      <4>3. CASE Undialled(d) \/ Challenged(d) \/ Solved(d) \/ Asked(d) \/ Answered(d) \/ Gone(d)
        <5>1. "COMPLETE" \notin Hs("hi", d) /\ "COMPLETE" \notin Hs("lo", d)
          BY <4>1, <4>3 DEF Undialled, Challenged, Solved, Asked, Answered, Gone, HsAre, Waiting
        <5>2. ~Alive(d)
          BY <4>1, <4>2, <5>1, Short DEF Alive, HalfDone, Done, HsAre
        <5> QED
          BY <5>1, <5>2
      <4>4. CASE HalfDone(d)
        BY <4>1, <4>2, <4>4, Short DEF HalfDone, Chans
      <4>5. CASE Done(d)
        BY <4>1, <4>5 DEF Done, HsAre
      <4>6. CASE Dropped(d)
        BY <4>2, <4>6, Short DEF Dropped
      <4> QED
        BY <4>2, <4>3, <4>4, <4>5, <4>6 DEF InPhase
    <3>3. SetUp(c)
      BY <3>1, DialerIs DEF SetUp
    <3>4. PICK a \in Conn : Alive(a)
      BY <3>1, <3>3 DEF Calm
    <3>5. a \in Complete("hi")
      BY <2>1, <3>2, <3>4 DEF Node
    <3>6. Complete("hi") = Complete("lo")
      BY <2>1, <3>2 DEF Node
    <3> QED
      BY <2>3, <3>5, <3>6
  <2> QED
    BY <2>4, <2>5 DEF OneSurvives
<1>2. Spec => [](Inv /\ CalmInv)
  BY InvInit, InvStep, CalmInit, CalmStep, PTL DEF Spec
<1> QED
  BY <1>1, <1>2, PTL
=============================================================================
