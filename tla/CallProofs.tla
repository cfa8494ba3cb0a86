----------------------------- MODULE CallProofs ------------------------------
(***************************************************************************)
(* Proofs about the operations that one call starts: the stream transports *)
(* keep the contract of a connection (StreamLink implements Channel), and  *)
(* lookups, stores, resolver and the connection to a service answer once.  *)
(*                                                                         *)
(* A connection.  Every unit ahead of a reader, up to the first that stops *)
(* it, is the one the reader waits for at that place: first the flights of *)
(* its upgrade, then the two halves of each frame of the other side, in    *)
(* order.  While both sides live nothing stops the reader, and what it has *)
(* taken and has ahead is exactly what the other side has written.         *)
(*                                                                         *)
(* A lookup.  What a call has started is running or has ended, and is      *)
(* counted once: RPCs of its own and lookups, each of which again has one  *)
(* RPC or one result per path.  Within a handler, which starts parts one   *)
(* by one and may have them answered at once, the count is what is still   *)
(* to be started (Owing).                                                  *)
(***************************************************************************)
EXTENDS MCCalls, OrderLemmas, SequenceTheorems

Words == {"GET", "101", "hello", "flight", "finished", "CONNECT", "200", "403", "alert", "eof"}
Unit == {<<u>> : u \in Words} \cup (Nat \X {1, 2})
Refusals == {<<"alert">>, <<"403">>}
Stops == Refusals \cup {EndOfStream}

\* Unit j of the frames, and unit j of all that a side with the flights fl waits for.
Byte(j) == IF j % 2 = 1 THEN <<j \div 2 + 1, 1>> ELSE <<j \div 2, 2>>
ItemOf(fl, j) == IF j <= Len(fl) THEN <<fl[j].on>> ELSE Byte(j - Len(fl))

\* The units x ahead of a side that has taken c are those it waits for, up to the first that
\* stops it, and no more than w frames; a refusal comes only before its last flight.
OnTrack(fl, x, c, w) ==
    /\ \A i \in 1..Len(x) : (\A j \in 1..i : x[j] \notin Stops) =>
            x[i] = ItemOf(fl, c + i) /\ c + i <= Len(fl) + 2 * w
    /\ \A i \in 1..Len(x) : x[i] \in Refusals => c + i <= Len(fl)
Clear(x) == \A i \in 1..Len(x) : x[i] \notin Stops

\* What is left of a stream that is on track, once k of its units were taken, is on track.
LEMMA Shifted ==
    ASSUME NEW fl, Len(fl) \in Nat, NEW x \in Seq(Unit), NEW y \in Seq(Unit),
           NEW c \in Nat, NEW w \in Nat, NEW k \in Nat, Len(y) + k = Len(x),
           \A i \in 1..Len(y) : y[i] = x[i + k], \A i \in 1..k : x[i] \notin Stops,
           OnTrack(fl, x, c, w)
    PROVE  OnTrack(fl, y, c + k, w) /\ (Clear(x) => Clear(y))
<1>1. Len(x) \in Nat /\ Len(y) \in Nat
  OBVIOUS
<1>2. ASSUME NEW i \in 1..Len(y)
      PROVE  /\ i + k \in 1..Len(x) /\ (c + k) + i = c + (i + k) /\ y[i] = x[i + k]
  BY <1>1, <1>2
<1>3. ASSUME NEW i \in 1..Len(y), \A j \in 1..i : y[j] \notin Stops
      PROVE  \A j \in 1..(i + k) : x[j] \notin Stops
  <2>1. ASSUME NEW j \in 1..(i + k), ~(j <= k) PROVE x[j] \notin Stops
    <3>1. j - k \in 1..i /\ j - k \in 1..Len(y) /\ (j - k) + k = j
      BY <1>1, <2>1
    <3>2. y[j - k] = x[(j - k) + k]
      BY <3>1
    <3> QED
      BY <1>3, <3>1, <3>2
  <2>2. ASSUME NEW j \in 1..(i + k), j <= k PROVE x[j] \notin Stops
    BY <2>2
  <2> QED
    BY <2>1, <2>2
<1>4. ASSUME NEW i \in 1..Len(y), \A j \in 1..i : y[j] \notin Stops
      PROVE  y[i] = ItemOf(fl, (c + k) + i) /\ (c + k) + i <= Len(fl) + 2 * w
  <2>1. x[i + k] = ItemOf(fl, c + (i + k)) /\ c + (i + k) <= Len(fl) + 2 * w
    BY <1>2, <1>3, <1>4 DEF OnTrack
  <2> QED
    BY <1>2, <2>1
<1>5. ASSUME NEW i \in 1..Len(y), y[i] \in Refusals PROVE (c + k) + i <= Len(fl)
  <2>1. c + (i + k) <= Len(fl)
    BY <1>2, <1>5 DEF OnTrack
  <2> QED
    BY <1>2, <2>1
<1>6. Clear(x) => Clear(y)
  BY <1>2 DEF Clear
<1> QED
  BY <1>4, <1>5, <1>6 DEF OnTrack

\* A stream on track stays so when the units that follow are appended, or a refusal.
LEMMA Grown ==
    ASSUME NEW fl, Len(fl) \in Nat, NEW x \in Seq(Unit), NEW u \in Seq(Unit),
           NEW c \in Nat, NEW w \in Nat, NEW v \in Nat, w <= v,
           OnTrack(fl, x, c, w), 
           \A i \in 1..Len(u) :
               \/ /\ u[i] = ItemOf(fl, c + Len(x) + i) /\ u[i] \notin Refusals
                  /\ c + Len(x) + i <= Len(fl) + 2 * v
               \/ u[i] \in Refusals /\ c + Len(x) + i <= Len(fl)
    PROVE  /\ OnTrack(fl, x \o u, c, v)
           /\ Clear(x) /\ Clear(u) => Clear(x \o u)
<1> DEFINE y == x \o u
<1>1. Len(x) \in Nat /\ Len(u) \in Nat /\ Len(y) = Len(x) + Len(u)
  OBVIOUS
<1>2. \A i \in 1..Len(x) : y[i] = x[i] /\ i \in 1..Len(y)
  BY <1>1
<1>3. ASSUME NEW i \in 1..Len(y), ~(i <= Len(x))
      PROVE  i - Len(x) \in 1..Len(u) /\ y[i] = u[i - Len(x)] /\ c + Len(x) + (i - Len(x)) = c + i
  BY <1>1, <1>3
<1> HIDE DEF y
<1>4. ASSUME NEW i \in 1..Len(y), \A j \in 1..i : y[j] \notin Stops
      PROVE  y[i] = ItemOf(fl, c + i) /\ c + i <= Len(fl) + 2 * v
  <2>1. CASE i <= Len(x)
    <3>1. i \in 1..Len(x) /\ \A j \in 1..i : j \in 1..Len(x)
      BY <1>1, <2>1
    <3>2. \A j \in 1..i : x[j] \notin Stops
      BY <1>2, <1>4, <3>1
    <3>3. x[i] = ItemOf(fl, c + i) /\ c + i <= Len(fl) + 2 * w
      BY <3>1, <3>2 DEF OnTrack
    <3>4. c + i <= Len(fl) + 2 * v
      BY <3>1, <3>3, <1>1
    <3> QED
      BY <1>2, <3>1, <3>3, <3>4
  <2>2. CASE ~(i <= Len(x))
    <3>1. i \in 1..i
      BY <1>1
    <3>2. u[i - Len(x)] \notin Refusals
      BY <1>3, <1>4, <2>2, <3>1 DEF Stops
    <3> QED
      BY <1>3, <2>2, <3>2
  <2> QED
    BY <2>1, <2>2
<1>5. ASSUME NEW i \in 1..Len(y), y[i] \in Refusals PROVE c + i <= Len(fl)
  <2>1. CASE i <= Len(x)
    <3>1. i \in 1..Len(x)
      BY <1>1, <2>1
    <3> QED
      BY <1>2, <1>5, <3>1 DEF OnTrack
  <2>2. CASE ~(i <= Len(x))
    BY <1>3, <1>5, <2>2
  <2> QED
    BY <2>1, <2>2
<1>6. ASSUME Clear(x), Clear(u), NEW i \in 1..Len(y) PROVE y[i] \notin Stops
  <2>1. CASE i <= Len(x)
    <3>1. i \in 1..Len(x)
      BY <1>1, <2>1
    <3> QED
      BY <1>2, <1>6, <3>1 DEF Clear
  <2>2. CASE ~(i <= Len(x))
    BY <1>3, <1>6, <2>2 DEF Clear
  <2> QED
    BY <2>1, <2>2
<1>7. OnTrack(fl, y, c, v)
  BY <1>4, <1>5 DEF OnTrack
<1>8. Clear(x) /\ Clear(u) => Clear(y)
  BY <1>6 DEF Clear
<1> QED
  BY <1>7, <1>8 DEF y

\* A stream on track that is cut and ended stays on track.
LEMMA CutShort ==
    ASSUME NEW fl, Len(fl) \in Nat, NEW x \in Seq(Unit), NEW y \in Seq(Unit),
           NEW c \in Nat, NEW w \in Nat, OnTrack(fl, x, c, w),
           NEW n \in Nat, n <= Len(x), Len(y) = n + 1, 
           \A i \in 1..n : y[i] = x[i], y[n + 1] = EndOfStream
    PROVE  OnTrack(fl, y, c, w)
<1>1. \A i \in 1..Len(y) : i = n + 1 \/ (i \in 1..n /\ i \in 1..Len(x))
  OBVIOUS
<1>2. EndOfStream \in Stops /\ EndOfStream \notin Refusals
  BY DEF EndOfStream, Stops, Refusals
<1>3. ASSUME NEW i \in 1..Len(y), \A j \in 1..i : y[j] \notin Stops
      PROVE  y[i] = ItemOf(fl, c + i) /\ c + i <= Len(fl) + 2 * w
  <2>1. i \in 1..i
    OBVIOUS
  <2>2. i \in 1..n /\ i \in 1..Len(x) /\ y[i] = x[i]
    BY <1>1, <1>2, <1>3, <2>1
  <2>3. \A j \in 1..i : x[j] \notin Stops
    BY <1>3, <2>2
  <2> QED
    BY <2>2, <2>3 DEF OnTrack
<1>4. ASSUME NEW i \in 1..Len(y), y[i] \in Refusals PROVE c + i <= Len(fl)
  BY <1>1, <1>2, <1>4 DEF OnTrack
<1> QED
  BY <1>3, <1>4 DEF OnTrack

-----------------------------------------------------------------------------
\* What side t has written of its flights.
MadeBy(t, k) ==
    CASE kind = "tcp" -> 0
      [] kind = "websocket" -> IF t = "client" THEN 1 ELSE k
      [] kind = "tls" -> IF t = "client" THEN 1 + k ELSE IF k = 0 THEN 0 ELSE 1
      [] kind = "fronted" -> IF t = "client" THEN IF k = 0 THEN 1 ELSE 3
                             ELSE IF k = 0 THEN 0 ELSE IF k = 3 THEN 2 ELSE 1
Made(t) == IF t = "client" /\ life[t] = "idle" THEN 0 ELSE MadeBy(t, stage[t])

\* A side that has taken all its flights has written as many as the other waits for.
LEMMA FlightCounts ==
    ASSUME kind \in LinkKinds, NEW s \in Sides
    PROVE  /\ Len(Flights(s)) \in 0..3
           /\ Flights(s) = <<>> <=> Len(Flights(s)) = 0
           /\ MadeBy(s, Len(Flights(s))) = Len(Flights(Other(s)))
           /\ \A k \in 0..Len(Flights(s)) : MadeBy(s, k) \in Nat
<1>1. kind \in {"tcp", "websocket", "tls", "fronted"}
  BY StreamLinkAssumption
<1>2. CASE kind = "tcp"
  BY <1>2 DEF Sides, Flights, MadeBy
<1>3. CASE kind = "websocket"
  BY <1>3 DEF Sides, Flights, Other, MadeBy, WsFlights
<1>4. CASE kind = "tls"
  BY <1>4 DEF Sides, Flights, Other, MadeBy, TlsFlights
<1>5. CASE kind = "fronted"
  BY <1>5 DEF Sides, Flights, Other, MadeBy, FrontedFlights
<1> QED
  BY <1>1, <1>2, <1>3, <1>4, <1>5

\* The flights that follow the first m.
ItemsFrom(u, fl, m) ==
    /\ u \in Seq(Unit) /\ Clear(u)
    /\ m + Len(u) <= Len(fl)
    /\ \A i \in 1..Len(u) : u[i] = <<fl[m + i].on>>

\* What a client writes first is what the server waits for first.
LEMMA OpeningFits ==
    ASSUME kind \in LinkKinds
    PROVE  /\ ItemsFrom(Units(Opening), Flights("server"), 0)
           /\ Len(Units(Opening)) = MadeBy("client", 0)
<1>1. kind \in {"tcp", "websocket", "tls", "fronted"}
  BY StreamLinkAssumption
<1>2. CASE kind = "tcp"
  <2>1. Units(Opening) = <<>> /\ Flights("server") = <<>> /\ MadeBy("client", 0) = 0
    BY <1>2 DEF Flights, MadeBy, Opening, Units
  <2> QED
    BY <2>1 DEF ItemsFrom, Clear
<1>3. CASE kind = "websocket"
  <2>1. Units(Opening) = <<<<"GET">>>> /\ MadeBy("client", 0) = 1
    BY <1>3 DEF MadeBy, Opening, Units
  <2>2. Flights("server")[1].on = "GET" /\ Len(Flights("server")) = 1
    BY <1>3 DEF Flights, WsFlights
  <2>3. Len(<<<<"GET">>>>) = 1 /\ <<<<"GET">>>>[1] = <<"GET">> /\ <<<<"GET">>>> \in Seq(Unit)
    BY DEF Unit, Words
  <2>4. <<"GET">> \notin Stops
    BY DEF Stops, Refusals, EndOfStream
  <2> QED
    BY <2>1, <2>2, <2>3, <2>4 DEF ItemsFrom, Clear
<1>4. CASE kind \in {"tls", "fronted"}
  <2>1. Units(Opening) = <<<<"hello">>>> /\ MadeBy("client", 0) = 1
    BY <1>4 DEF MadeBy, Opening, Units
  <2>2. Flights("server")[1].on = "hello" /\ Len(Flights("server")) \in 2..3
    BY <1>4 DEF Flights, TlsFlights, FrontedFlights
  <2>3. Len(<<<<"hello">>>>) = 1 /\ <<<<"hello">>>>[1] = <<"hello">> /\ <<<<"hello">>>> \in Seq(Unit)
    BY DEF Unit, Words
  <2>4. <<"hello">> \notin Stops
    BY DEF Stops, Refusals, EndOfStream
  <2> QED
    BY <2>1, <2>2, <2>3, <2>4 DEF ItemsFrom, Clear
<1> QED
  BY <1>1, <1>2, <1>3, <1>4

\* An answer is what the other side waits for next, or a refusal, which only a server sends
\* before its last flight.
Refuses(answer) == answer \in {<<"alert">>, <<"403">>}
AnswerFits(t, k, answer) ==
    IF Refuses(answer)
    THEN /\ Units(answer) \in Seq(Unit) /\ Len(Units(answer)) = 1
         /\ Units(answer)[1] \in Refusals
         /\ MadeBy(t, k) + 1 <= Len(Flights(Other(t)))
    ELSE /\ ItemsFrom(Units(answer), Flights(Other(t)), MadeBy(t, k))
         /\ MadeBy(t, k) + Len(Units(answer)) = MadeBy(t, k + 1)

\* Every answer to a flight fits what the other side waits for next.
LEMMA AnswersFit ==
    ASSUME kind \in LinkKinds, NEW t \in Sides, NEW k \in Nat, k < Len(Flights(t)),
           NEW answer \in Flights(t)[k + 1].reply
    PROVE  AnswerFits(t, k, answer)
<1>1. kind \in {"tcp", "websocket", "tls", "fronted"}
  BY StreamLinkAssumption
<1>2. CASE kind = "tcp"
  BY <1>2 DEF Flights
<1> DEFINE No == answer = <<>>
           One(a) == answer = <<a>>
<1>a. Units(<<>>) = <<>>
  BY DEF Units
<1>b. \A a : Units(<<a>>) = <<<<a>>>>
  BY DEF Units
<1>c. Units(<<"finished", "CONNECT">>) = <<<<"finished">>, <<"CONNECT">>>>
  BY DEF Units
<1>d. \A a \in Words \ {"alert", "403", "eof"} : <<a>> \notin Stops
  BY DEF Stops, Refusals, EndOfStream, Words
<1>e. /\ ~Refuses(<<>>) /\ ~Refuses(<<"finished", "CONNECT">>)
      /\ \A a \in {"101", "flight", "finished", "200"} : ~Refuses(<<a>>)
  BY DEF Refuses
<1>f. \A a \in Words : <<<<a>>>> \in Seq(Unit) /\ Len(<<<<a>>>>) = 1 /\ <<<<a>>>>[1] = <<a>>
  BY DEF Unit
<1>g. /\ <<<<"finished">>, <<"CONNECT">>>> \in Seq(Unit) 
      /\ Len(<<<<"finished">>, <<"CONNECT">>>>) = 2
      /\ <<<<"finished">>, <<"CONNECT">>>>[1] = <<"finished">>
      /\ <<<<"finished">>, <<"CONNECT">>>>[2] = <<"CONNECT">>
  BY DEF Unit, Words
<1>h. ASSUME NEW fl, NEW m \in Nat, m + 1 <= Len(fl), Len(fl) \in Nat, NEW a \in {"101", "flight", "finished", "200"},
             fl[m + 1].on = a
      PROVE  ItemsFrom(<<<<a>>>>, fl, m)
  <2>1. a \in Words \ {"alert", "403", "eof"}
    BY DEF Words
  <2> QED
    BY <1>d, <1>f, <1>h, <2>1 DEF ItemsFrom, Clear
<1>i. ASSUME NEW fl, NEW m \in Nat, m <= Len(fl), Len(fl) \in Nat
      PROVE  ItemsFrom(<<>>, fl, m)
  BY <1>i DEF ItemsFrom, Clear
<1>j. ASSUME NEW a \in {"101", "flight", "finished", "200"}, answer = <<a>>, NEW m \in Nat,
             MadeBy(t, k) = m, MadeBy(t, k + 1) = m + 1, NEW fl, fl = Flights(Other(t)),
             Len(fl) \in Nat, m + 1 <= Len(fl), fl[m + 1].on = a
      PROVE  AnswerFits(t, k, answer)
  <2>1. ItemsFrom(<<<<a>>>>, fl, m)
    BY <1>h, <1>j
  <2>2. a \in Words /\ Units(answer) = <<<<a>>>> /\ ~Refuses(answer)
    BY <1>b, <1>e, <1>j DEF Words
  <2>3. Len(Units(answer)) = 1
    BY <1>f, <2>2
  <2> QED
    BY <1>j, <2>1, <2>2, <2>3 DEF AnswerFits
<1>r. ASSUME NEW a \in {"alert", "403"}, answer = <<a>>, MadeBy(t, k) + 1 <= Len(Flights(Other(t)))
      PROVE  AnswerFits(t, k, answer)
  <2>1. <<a>> \in Refusals /\ Refuses(<<a>>) /\ a \in Words
    BY DEF Refusals, Refuses, Words
  <2>2. Units(answer) = <<<<a>>>>
    BY <1>b, <1>r
  <2> QED
    BY <1>f, <1>r, <2>1, <2>2 DEF AnswerFits
<1>n. ASSUME answer = <<>>, NEW m \in Nat, MadeBy(t, k) = m, MadeBy(t, k + 1) = m,
             NEW fl, fl = Flights(Other(t)), Len(fl) \in Nat, m <= Len(fl)
      PROVE  AnswerFits(t, k, answer)
  <2>1. ItemsFrom(<<>>, fl, m)
    BY <1>i, <1>n
  <2>2. Units(answer) = <<>> /\ ~Refuses(answer)
    BY <1>a, <1>e, <1>n
  <2> QED
    BY <1>n, <2>1, <2>2 DEF AnswerFits
<1>3. CASE kind = "websocket"
  <2>1. CASE t = "client"
    <3>1. answer = <<>> /\ k = 0
      BY <1>3, <2>1 DEF Flights, WsFlights
    <3>2. Len(Flights("server")) = 1 /\ MadeBy(t, k) = 1 /\ MadeBy(t, k + 1) = 1 /\ Other(t) = "server"
      BY <1>3, <2>1, <3>1 DEF Flights, WsFlights, MadeBy, Other
    <3> QED
      BY <1>n, <3>1, <3>2
  <2>2. CASE t = "server"
    <3>1. answer = <<"101">> /\ k = 0
      BY <1>3, <2>2 DEF Flights, WsFlights
    <3>2. /\ Len(Flights("client")) = 1 /\ MadeBy(t, k) = 0 /\ MadeBy(t, k + 1) = 0 + 1 /\ Other(t) = "client"
          /\ Flights("client")[0 + 1].on = "101"
      BY <1>3, <2>2, <3>1 DEF Flights, WsFlights, MadeBy, Other
    <3> QED
      BY <1>j, <3>1, <3>2
  <2> QED
    BY <2>1, <2>2 DEF Sides
<1>4. CASE kind = "tls"
  <2>1. CASE t = "client"
    <3>1. answer = <<"finished">> /\ k = 0
      BY <1>4, <2>1 DEF Flights, TlsFlights
    <3>2. /\ Len(Flights("server")) = 2 /\ MadeBy(t, k) = 1 /\ MadeBy(t, k + 1) = 1 + 1 /\ Other(t) = "server"
          /\ Flights("server")[1 + 1].on = "finished"
      BY <1>4, <2>1, <3>1 DEF Flights, TlsFlights, MadeBy, Other
    <3> QED
      BY <1>j, <3>1, <3>2
  <2>2. CASE t = "server"
    <3>1. /\ Other(t) = "client" /\ Len(Flights("client")) = 1 /\ Flights("client")[0 + 1].on = "flight"
      BY <1>4, <2>2 DEF Flights, TlsFlights, Other
    <3>2. CASE k = 0
      <4>1. MadeBy(t, k) = 0 /\ MadeBy(t, k + 1) = 0 + 1
        BY <1>4, <2>2, <3>2 DEF MadeBy
      <4>2. answer \in {<<"flight">>, <<"alert">>}
        BY <1>4, <2>2, <3>2 DEF Flights, TlsFlights
      <4> QED
        BY <1>j, <1>r, <3>1, <4>1, <4>2
    <3>3. CASE k = 1
      <4>1. MadeBy(t, k) = 1 /\ MadeBy(t, k + 1) = 1
        BY <1>4, <2>2, <3>3 DEF MadeBy
      <4>2. answer = <<>>
        BY <1>4, <2>2, <3>3 DEF Flights, TlsFlights
      <4> QED
        BY <1>n, <3>1, <4>1, <4>2
    <3>4. k \in {0, 1}
      BY <1>4, <2>2 DEF Flights, TlsFlights
    <3> QED
      BY <3>2, <3>3, <3>4
  <2> QED
    BY <2>1, <2>2 DEF Sides
<1>5. CASE kind = "fronted"
  <2>1. CASE t = "client"
    <3>1. /\ Other(t) = "server" /\ Len(Flights("server")) = 3
          /\ Flights("server")[1 + 1].on = "finished" /\ Flights("server")[1 + 2].on = "CONNECT"
      BY <1>5, <2>1 DEF Flights, FrontedFlights, Other
    <3>2. CASE k = 0
      <4>1. MadeBy(t, k) = 1 /\ MadeBy(t, k + 1) = 3
        BY <1>5, <2>1, <3>2 DEF MadeBy
      <4>2. answer = <<"finished", "CONNECT">>
        BY <1>5, <2>1, <3>2 DEF Flights, FrontedFlights
      <4>3. \A i \in 1..2 : i = 1 \/ i = 2
        OBVIOUS
      <4>4. <<"finished">> \notin Stops /\ <<"CONNECT">> \notin Stops
        BY <1>d DEF Words
      <4>5. ItemsFrom(<<<<"finished">>, <<"CONNECT">>>>, Flights("server"), 1)
        BY <1>g, <3>1, <4>3, <4>4 DEF ItemsFrom, Clear
      <4>6. Units(answer) = <<<<"finished">>, <<"CONNECT">>>> /\ ~Refuses(answer) /\ Len(Units(answer)) = 2
        BY <1>c, <1>e, <1>g, <4>2
      <4> QED
        BY <3>1, <4>1, <4>5, <4>6 DEF AnswerFits
    <3>3. CASE k = 1
      <4>1. MadeBy(t, k) = 3 /\ MadeBy(t, k + 1) = 3
        BY <1>5, <2>1, <3>3 DEF MadeBy
      <4>2. answer = <<>>
        BY <1>5, <2>1, <3>3 DEF Flights, FrontedFlights
      <4> QED
        BY <1>n, <3>1, <4>1, <4>2
    <3>4. k \in {0, 1}
      BY <1>5, <2>1 DEF Flights, FrontedFlights
    <3> QED
      BY <3>2, <3>3, <3>4
  <2>2. CASE t = "server"
    <3>1. /\ Other(t) = "client" /\ Len(Flights("client")) = 2
          /\ Flights("client")[0 + 1].on = "flight" /\ Flights("client")[1 + 1].on = "200"
      BY <1>5, <2>2 DEF Flights, FrontedFlights, Other
    <3>2. CASE k = 0
      <4>1. MadeBy(t, k) = 0 /\ MadeBy(t, k + 1) = 0 + 1
        BY <1>5, <2>2, <3>2 DEF MadeBy
      <4>2. answer = <<"flight">>
        BY <1>5, <2>2, <3>2 DEF Flights, FrontedFlights
      <4> QED
        BY <1>j, <3>1, <4>1, <4>2
    <3>3. CASE k = 1
      <4>1. MadeBy(t, k) = 1 /\ MadeBy(t, k + 1) = 1
        BY <1>5, <2>2, <3>3 DEF MadeBy
      <4>2. answer = <<>>
        BY <1>5, <2>2, <3>3 DEF Flights, FrontedFlights
      <4> QED
        BY <1>n, <3>1, <4>1, <4>2
    <3>4. CASE k = 2
      <4>1. MadeBy(t, k) = 1 /\ MadeBy(t, k + 1) = 1 + 1
        BY <1>5, <2>2, <3>4 DEF MadeBy
      <4>2. answer \in {<<"200">>, <<"403">>}
        BY <1>5, <2>2, <3>4 DEF Flights, FrontedFlights
      <4> QED
        BY <1>j, <1>r, <3>1, <4>1, <4>2
    <3>5. k \in {0, 1, 2}
      BY <1>5, <2>2 DEF Flights, FrontedFlights
    <3> QED
      BY <3>2, <3>3, <3>4, <3>5
  <2> QED
    BY <2>1, <2>2 DEF Sides
<1> QED
  BY <1>1, <1>2, <1>3, <1>4, <1>5

-----------------------------------------------------------------------------
\* What a side has yet to take of the stream, and how much of it it has taken.
Ahead(s) == (part[s] \o raw[s]) \o wire[s]
Behind(s) == stage[s] + 2 * Len(delivered[s])
Live(s) == life[s] \in {"idle", "upgrading", "open"}

Lives == {"idle", "upgrading", "open", "closing", "gone", "failed", "dead"}
Numbered(q) == \A i \in 1..Len(q) : q[i] = i
NoEnd(q) == \A i \in 1..Len(q) : q[i] # EndOfStream

\* The shapes of the variables.
LinkTypes ==
    /\ kind \in LinkKinds
    /\ life \in [Sides -> Lives] /\ stage \in [Sides -> Nat]
    /\ wire \in [Sides -> Seq(Unit)] /\ raw \in [Sides -> Seq(Unit)] /\ part \in [Sides -> Seq(Unit)]
    /\ written \in [Sides -> Seq(Nat)] /\ delivered \in [Sides -> Seq(Nat)]

\* What a side has received, written and taken in each state of its life.
SideOK(s) ==
    /\ Numbered(written[s]) /\ Numbered(delivered[s]) /\ Len(delivered[s]) <= Len(written[Other(s)])
    /\ stage[s] <= Len(Flights(s))
    /\ life[s] = "idle" => stage[s] = 0 /\ raw[s] = <<>>
    /\ life[s] \in {"idle", "upgrading"} => part[s] = <<>> /\ delivered[s] = <<>> /\ written[s] = <<>>
    /\ life[s] = "upgrading" => stage[s] < Len(Flights(s))
    /\ life[s] = "open" => stage[s] = Len(Flights(s))
    /\ NoEnd(part[s] \o raw[s])

\* While both sides live, what a side has taken and has ahead is all the other side has written.
Flowing(s) ==
    /\ Clear(Ahead(s))
    /\ Behind(s) + Len(Ahead(s)) = Made(Other(s)) + 2 * Len(written[Other(s)])
DirOK(s) ==
    Live(s) => /\ OnTrack(Flights(s), Ahead(s), Behind(s), Len(written[Other(s)]))
               /\ Live(Other(s)) => Flowing(s)

\* The inductive invariant of a connection.
LinkInv ==
    /\ LinkTypes
    /\ \A s \in Sides : SideOK(s) /\ DirOK(s)
    /\ life["client"] = "idle" => life["server"] = "idle"

\* There are two sides.
LEMMA TwoSides ==
    ASSUME NEW s \in Sides
    PROVE  /\ Other(s) \in Sides /\ Other(s) # s /\ Other(Other(s)) = s
           /\ \A q \in Sides : q = s \/ q = Other(s)
BY DEF Sides, Other

\* A direction nothing of which changes stays on track.
LEMMA DirKept ==
    ASSUME NEW s \in Sides, DirOK(s), kind' = kind, Live(s)' => Live(s),
           Live(Other(s))' => Live(Other(s)) /\ Made(Other(s))' = Made(Other(s)),
           Ahead(s)' = Ahead(s), Behind(s)' = Behind(s), 
           written'[Other(s)] = written[Other(s)]
    PROVE  DirOK(s)'
<1>1. Flights(s)' = Flights(s)
  BY DEF Flights
<1>2. OnTrack(Flights(s), Ahead(s), Behind(s), Len(written[Other(s)]))' <=> 
      OnTrack(Flights(s), Ahead(s), Behind(s), Len(written[Other(s)]))
  BY <1>1 DEF OnTrack
<1>3. Live(Other(s))' => (Flowing(s)' <=> Flowing(s))
  BY DEF Flowing
<1> QED
  BY <1>2, <1>3 DEF DirOK

\* The units of two sequences in their concatenation.
AreJoined(S, a, b, y) ==
    /\ y \in Seq(S) /\ Len(y) = Len(a) + Len(b)
    /\ \A i \in 1..Len(a) : y[i] = a[i]
    /\ \A i \in 1..Len(b) : y[Len(a) + i] = b[i]
\* The concatenation of two sequences over a set.
LEMMA Joined ==
    ASSUME NEW S, NEW a, a \in Seq(S), NEW b, b \in Seq(S), NEW y, y = a \o b
    PROVE  AreJoined(S, a, b, y)
<1>1. Len(a) \in Nat /\ Len(b) \in Nat
  OBVIOUS
<1>2. a \o b \in Seq(S) /\ Len(a \o b) = Len(a) + Len(b)
  BY ConcatProperties
<1>3. \A i \in 1..(Len(a) + Len(b)) : (a \o b)[i] = IF i <= Len(a) THEN a[i] ELSE b[i - Len(a)]
  BY ConcatProperties
<1>4. /\ \A i \in 1..Len(a) : i \in 1..(Len(a) + Len(b)) /\ i <= Len(a)
      /\ \A i \in 1..Len(b) : /\ Len(a) + i \in 1..(Len(a) + Len(b)) /\ ~(Len(a) + i <= Len(a))
                             /\ (Len(a) + i) - Len(a) = i
  BY <1>1
<1> QED
  BY <1>2, <1>3, <1>4 DEF AreJoined

\* Where the units are after n of w were read behind a and the first k dropped.
Shift(z, b, k) == Len(z) + k = Len(b) /\ \A i \in 1..Len(z) : z[i] = b[i + k]
DropFacts(S, a, w, n, k, b, x, y) ==
    /\ x \in Seq(S) /\ y \in Seq(S) /\ Shift(y, x, k)
    /\ Len(b) = Len(a) + n
    /\ \A i \in 1..Len(b) : /\ b[i] = x[i] 
                            /\ \/ i \in 1..Len(a) /\ b[i] = a[i]
                               \/ i - Len(a) \in 1..n /\ b[i] = w[i - Len(a)]

\* What is left when n units of w were read behind a and the first k of them dropped.
LEMMA Dropped ==
    ASSUME NEW S, NEW a, a \in Seq(S), NEW w, w \in Seq(S), NEW n \in Nat, n <= Len(w), NEW k \in Nat,
           NEW z, z \in Seq(S), NEW b, b = a \o SubSeq(w, 1, n), Len(b) \in Nat, Shift(z, b, k),
           NEW x, x = a \o w, NEW y, y = z \o SubSeq(w, n + 1, Len(w))
    PROVE  DropFacts(S, a, w, n, k, b, x, y)
<1> DEFINE t == SubSeq(w, 1, n)
           l == SubSeq(w, n + 1, Len(w))
<1>1. Len(a) \in Nat /\ Len(w) \in Nat /\ Len(z) \in Nat /\ n \in Nat /\ n <= Len(w)
  OBVIOUS
<1>0. k \in Nat /\ Len(z) + k = Len(b) /\ Len(b) \in Nat /\ \A i \in 1..Len(z) : z[i] = b[i + k]
  BY DEF Shift
<1>2. t \in Seq(S) /\ Len(t) = n /\ \A i \in 1..n : t[i] = w[i]
  BY <1>1
<1>3. /\ l \in Seq(S) /\ Len(l) = Len(w) - n
      /\ \A i \in 1..(Len(w) - n) : l[i] = w[i + n]
  <2>1. /\ n + 1 \in Int /\ Len(w) \in Int /\ Len(w) - (n + 1) + 1 = Len(w) - n
        /\ \A i \in 1..(Len(w) - n) : n + 1 + i - 1 = i + n
        /\ n + 1 <= Len(w) \/ Len(w) - n = 0
    BY <1>1
  <2>2. \A i \in (n + 1)..Len(w) : w[i] \in S
    BY <1>1
  <2> DEFINE m == n + 1
             v == Len(w)
  <2>a. m \in Int /\ v \in Int /\ \A i \in m..v : w[i] \in S
    BY <2>1, <2>2
  <2> HIDE DEF m, v
  <2>b. /\ SubSeq(w, m, v) \in Seq(S)
        /\ Len(SubSeq(w, m, v)) = IF m <= v THEN v - m + 1 ELSE 0
        /\ \A i \in 1..(v - m + 1) : SubSeq(w, m, v)[i] = w[m + i - 1]
    BY ONLY <2>a, SubSeqProperties
  <2>3. /\ SubSeq(w, n + 1, Len(w)) \in Seq(S)
        /\ Len(SubSeq(w, n + 1, Len(w))) = IF n + 1 <= Len(w) THEN Len(w) - (n + 1) + 1 ELSE 0
        /\ \A i \in 1..(Len(w) - (n + 1) + 1) : SubSeq(w, n + 1, Len(w))[i] = w[n + 1 + i - 1]
    BY <2>b DEF m, v
  <2>4. l \in Seq(S) /\ Len(l) = Len(w) - n
    BY <1>1, <2>1, <2>3
  <2>5. \A i \in 1..(Len(w) - n) : SubSeq(w, n + 1, Len(w))[i] = w[n + 1 + i - 1]
    BY <2>1, <2>3
  <2> QED
    BY <2>1, <2>4, <2>5
<1>z. z \in Seq(S) /\ a \in Seq(S)
  OBVIOUS
<1>4. b = a \o t /\ y = z \o l
  OBVIOUS
<1> HIDE DEF t, l
<1>5. /\ x \in Seq(S) /\ Len(x) = Len(a) + Len(w)
      /\ \A i \in 1..Len(a) : x[i] = a[i]
      /\ \A i \in 1..Len(w) : x[Len(a) + i] = w[i]
  BY ONLY <1>1, a \in Seq(S), w \in Seq(S), x = a \o w
<1>6. /\ Len(b) = Len(a) + Len(t)
      /\ \A i \in 1..Len(a) : b[i] = a[i]
      /\ \A i \in 1..Len(t) : b[Len(a) + i] = t[i]
  <2>1. AreJoined(S, a, t, b)
    BY ONLY <1>2, <1>4, <1>z, Joined
  <2> QED
    BY <2>1 DEF AreJoined
<1>7. /\ y \in Seq(S) /\ Len(y) = Len(z) + Len(l)
      /\ \A i \in 1..Len(z) : y[i] = z[i]
      /\ \A i \in 1..Len(l) : y[Len(z) + i] = l[i]
  <2>1. AreJoined(S, z, l, y)
    BY ONLY <1>3, <1>4, <1>z, Joined
  <2> QED
    BY <2>1 DEF AreJoined
<1>8. Len(b) = Len(a) + n /\ Len(y) + k = Len(x)
  <2>1. /\ Len(b) = Len(a) + Len(t) /\ Len(t) = n /\ Len(y) = Len(z) + Len(l)
        /\ Len(l) = Len(w) - n /\ Len(x) = Len(a) + Len(w)
    BY <1>2, <1>3, <1>5, <1>6, <1>7
  <2> QED
    BY ONLY <1>0, <1>1, <2>1
<1>9. ASSUME NEW i \in 1..Len(b)
      PROVE  /\ b[i] = x[i] 
             /\ \/ i \in 1..Len(a) /\ b[i] = a[i]
                \/ i - Len(a) \in 1..n /\ b[i] = w[i - Len(a)]
  <2>1. CASE i <= Len(a)
    <3>1. i \in 1..Len(a)
      BY ONLY <1>0, <1>1, <1>8, <2>1
    <3> QED
      BY <1>5, <1>6, <3>1
  <2>2. CASE ~(i <= Len(a))
    <3>1. i - Len(a) \in 1..n /\ i - Len(a) \in 1..Len(w) /\ Len(a) + (i - Len(a)) = i
      BY ONLY <1>0, <1>1, <1>8, <2>2
    <3>2. b[i] = t[i - Len(a)] /\ x[i] = w[i - Len(a)] /\ t[i - Len(a)] = w[i - Len(a)]
      BY <1>2, <1>5, <1>6, <3>1
    <3> QED
      BY <3>1, <3>2
  <2> QED
    BY <2>1, <2>2
<1>10. ASSUME NEW i \in 1..Len(y) PROVE y[i] = x[i + k]
  <2>1. CASE i <= Len(z)
    <3>1. i \in 1..Len(z) /\ i + k \in 1..Len(b)
      BY ONLY <1>0, <1>1, <1>8, <2>1
    <3>2. y[i] = z[i] /\ z[i] = b[i + k] /\ b[i + k] = x[i + k]
      BY <1>0, <1>7, <1>9, <3>1
    <3> QED
      BY <3>2
  <2>2. CASE ~(i <= Len(z))
    <3>0. Len(l) = Len(w) - n /\ Len(y) = Len(z) + Len(l)
      BY <1>3, <1>7
    <3>1. /\ i - Len(z) \in 1..Len(l) /\ Len(z) + (i - Len(z)) = i
          /\ (i - Len(z)) + n \in 1..Len(w) /\ Len(a) + ((i - Len(z)) + n) = i + k
      BY ONLY <1>0, <1>1, <3>0, <1>8, <2>2
    <3>2. y[i] = l[i - Len(z)]
      BY <1>7, <3>1
    <3>3. l[i - Len(z)] = w[(i - Len(z)) + n]
      BY <1>3, <3>1
    <3>4. w[(i - Len(z)) + n] = x[i + k]
      BY <1>5, <3>1
    <3> QED
      BY <3>2, <3>3, <3>4
  <2> QED
    BY <2>1, <2>2
<1> QED
  BY <1>5, <1>7, <1>8, <1>9, <1>10 DEF DropFacts, Shift

\* A read takes n units of the wire and drops the first k of what it has then.
ReadResult(s, n, k, z) ==
    /\ OnTrack(Flights(s), z \o Leave(s, n), Behind(s) + k, Len(written[Other(s)]))
    /\ Len(z \o Leave(s, n)) + k = Len(Ahead(s))
    /\ Live(Other(s)) => Clear(z \o Leave(s, n))
    /\ NoEnd(z)
Held(s, n) == (part[s] \o raw[s]) \o Take(s, n)

\* The ranges of what the proofs compute with.
LEMMA Ranges ==
    ASSUME LinkInv, NEW s \in Sides
    PROVE  /\ Len(Flights(s)) \in Nat /\ Behind(s) \in Nat /\ Len(written[s]) \in Nat
           /\ stage[s] \in Nat /\ Len(delivered[s]) \in Nat /\ Len(written[Other(s)]) \in Nat
           /\ part[s] \o raw[s] \in Seq(Unit) /\ wire[s] \in Seq(Unit) /\ Ahead(s) \in Seq(Unit)
<1>1. Len(Flights(s)) \in Nat
  BY FlightCounts DEF LinkInv, LinkTypes
<1>2. stage[s] \in Nat /\ Len(delivered[s]) \in Nat /\ Len(written[s]) \in Nat /\ Len(written[Other(s)]) \in Nat
  BY TwoSides DEF LinkInv, LinkTypes
<1>3. part[s] \in Seq(Unit) /\ raw[s] \in Seq(Unit) /\ wire[s] \in Seq(Unit)
  BY DEF LinkInv, LinkTypes
<1>4. part[s] \o raw[s] \in Seq(Unit)
  BY <1>3
<1>5. (part[s] \o raw[s]) \o wire[s] \in Seq(Unit)
  BY <1>3, <1>4
<1> QED
  BY <1>1, <1>2, <1>3, <1>4, <1>5 DEF Behind, Ahead

\* What a side holds after a read is the beginning of what was ahead of it.
LEMMA HeldUnits ==
    ASSUME LinkInv, NEW s \in Sides, NEW n \in Readable(s), NEW b, b = Held(s, n)
    PROVE  /\ b \in Seq(Unit) /\ Len(b) \in Nat /\ Len(b) >= 1 /\ NoEnd(b)
           /\ \A i \in 1..Len(b) : b[i] = Ahead(s)[i] /\ i \in 1..Len(Ahead(s))
           /\ (part[s] \o raw[s] = <<>> => b = Take(s, n))
<1> DEFINE a == part[s] \o raw[s]
           w == wire[s]
<1>1. a \in Seq(Unit) /\ w \in Seq(Unit) /\ n \in 1..Len(w) /\ n \in Nat /\ Len(a) \in Nat /\ Len(w) \in Nat
  <2>1. a \in Seq(Unit) /\ w \in Seq(Unit)
    BY Ranges
  <2>2. n \in 1..Len(w)
    BY DEF Readable
  <2> HIDE DEF a, w
  <2> QED
    BY <2>1, <2>2
<1>2. b = a \o SubSeq(w, 1, n) /\ Ahead(s) = a \o w
  BY DEF Held, Take, Ahead
<1>3. NoEnd(a) /\ \A i \in 1..n : w[i] # EndOfStream
  BY DEF LinkInv, SideOK, Readable
<1> HIDE DEF a, w
<1>t. SubSeq(w, 1, n) \in Seq(Unit) /\ Len(SubSeq(w, 1, n)) = n
  BY <1>1
<1>4. b \in Seq(Unit)
  BY ONLY <1>1, <1>2, <1>t
<1>5. /\ \A i \in 1..Len(b) : b[i] = b[i + 0]
      /\ Len(b) + 0 = Len(b) /\ Len(b) \in Nat
  BY ONLY <1>4
<1>6. /\ Len(b) = Len(a) + n
      /\ \A i \in 1..Len(b) : /\ b[i] = (a \o w)[i] 
                              /\ \/ i \in 1..Len(a) /\ b[i] = a[i]
                                 \/ i - Len(a) \in 1..n /\ b[i] = w[i - Len(a)]
  <2>1. Shift(b, b, 0) /\ Len(b) \in Nat
    BY <1>5 DEF Shift
  <2> DEFINE x == a \o w
             y == b \o SubSeq(w, n + 1, Len(w))
  <2>2. n <= Len(w) /\ 0 \in Nat
    BY <1>1
  <2>3. DropFacts(Unit, a, w, n, 0, b, x, y)
    BY ONLY <1>1, <1>2, <1>4, <2>1, <2>2, Dropped
  <2> QED
    BY <2>3 DEF DropFacts
<1>7. NoEnd(b)
  BY <1>3, <1>6 DEF NoEnd
<1>8. Len(Ahead(s)) = Len(a) + Len(w)
  BY ONLY <1>1, <1>2
<1>9. Len(b) >= 1 /\ \A i \in 1..Len(b) : i \in 1..Len(Ahead(s))
  BY ONLY <1>1, <1>6, <1>8
<1>10. a = <<>> => b = Take(s, n)
  <2>1. \A q \in Seq(Unit) : <<>> \o q = q
    OBVIOUS
  <2> QED
    BY <1>2, <1>t, <2>1 DEF Take, w
<1> QED
  BY <1>2, <1>4, <1>5, <1>6, <1>7, <1>9, <1>10 DEF a

\* A read that drops k units, none of which stops the reader, leaves the rest on track.
LEMMA ReadLeaves ==
    ASSUME LinkInv, NEW s \in Sides, Live(s), NEW n \in Readable(s),
           NEW b, b = Held(s, n),
           NEW k \in Nat, NEW z \in Seq(Unit), Shift(z, b, k),
           \A i \in 1..k : b[i] \notin Stops
    PROVE  ReadResult(s, n, k, z)
<1> DEFINE a == part[s] \o raw[s]
           w == wire[s]
           x == Ahead(s)
           y == z \o Leave(s, n)
<1>1. a \in Seq(Unit) /\ w \in Seq(Unit) /\ n \in 1..Len(w) /\ Len(a) \in Nat /\ Len(w) \in Nat
  <2>1. a \in Seq(Unit) /\ w \in Seq(Unit)
    BY Ranges
  <2>2. n \in 1..Len(w)
    BY DEF Readable
  <2> HIDE DEF a, w
  <2> QED
    BY <2>1, <2>2
<1>2. b = a \o SubSeq(w, 1, n) /\ x = a \o w /\ y = z \o SubSeq(w, n + 1, Len(w))
  BY DEF Held, Take, Ahead, Leave
<1> HIDE DEF a, w, x, y
<1>3. /\ x \in Seq(Unit) /\ y \in Seq(Unit) /\ Len(y) + k = Len(x)
      /\ \A i \in 1..Len(y) : y[i] = x[i + k]
      /\ Len(b) = Len(a) + n
      /\ \A i \in 1..Len(b) : b[i] = x[i] 
  <2>1. b \in Seq(Unit) /\ Len(b) \in Nat
    BY HeldUnits
  <2>2. k \in Nat /\ z \in Seq(Unit) /\ Shift(z, b, k) /\ n \in Nat /\ n <= Len(w)
    BY <1>1
  <2>3. DropFacts(Unit, a, w, n, k, b, x, y)
    BY ONLY <1>1, <1>2, <2>1, <2>2, Dropped
  <2> QED
    BY <2>3 DEF DropFacts, Shift
<1>e. Len(z) + k = Len(b) /\ \A i \in 1..Len(z) : z[i] = b[i + k]
  BY DEF Shift
<1>4. \A i \in 1..k : x[i] \notin Stops
  <2>0. Len(z) \in Nat
    OBVIOUS
  <2>1. \A i \in 1..k : i \in 1..Len(b)
    BY ONLY <1>e, <2>0, k \in Nat
  <2> QED
    BY <1>3, <2>1
<1>5. OnTrack(Flights(s), x, Behind(s), Len(written[Other(s)])) /\ (Live(Other(s)) => Clear(x))
  BY DEF LinkInv, DirOK, Flowing, x
<1>6. Len(Flights(s)) \in Nat /\ Behind(s) \in Nat /\ Len(written[Other(s)]) \in Nat
  BY Ranges
<1>7. OnTrack(Flights(s), y, Behind(s) + k, Len(written[Other(s)])) /\ (Clear(x) => Clear(y))
  BY ONLY <1>3, <1>4, <1>5, <1>6, k \in Nat, Shifted
<1>8. NoEnd(z)
  <2>1. NoEnd(b)
    BY HeldUnits
  <2>2. Len(z) \in Nat
    OBVIOUS
  <2>3. \A i \in 1..Len(z) : i + k \in 1..Len(b)
    BY ONLY <1>e, <2>2, k \in Nat
  <2> QED
    BY <1>e, <2>1, <2>3 DEF NoEnd
<1> QED
  BY <1>3, <1>5, <1>7, <1>8 DEF x, y, ReadResult

-----------------------------------------------------------------------------
\* The same for a side that reads.
LEMMA DirRead ==
    ASSUME LinkInv, NEW s \in Sides, Live(s), NEW n \in Readable(s),
           NEW b, b = Held(s, n), NEW k \in Nat, NEW z \in Seq(Unit), Shift(z, b, k),
           \A i \in 1..k : b[i] \notin Stops,
           kind' = kind, part'[s] \o raw'[s] = z, wire'[s] = Leave(s, n),
           Behind(s)' = Behind(s) + k, written'[Other(s)] = written[Other(s)],
           Live(Other(s))' => Live(Other(s)) /\ Made(Other(s))' = Made(Other(s))
    PROVE  DirOK(s)' /\ NoEnd(part'[s] \o raw'[s])
<1>1. ReadResult(s, n, k, z)
  BY ReadLeaves
<1>2. Flights(s)' = Flights(s) /\ Ahead(s)' = z \o Leave(s, n)
  BY DEF Flights, Ahead
<1>3. Behind(s) \in Nat /\ Ahead(s) \in Seq(Unit) /\ Len(Ahead(s)) \in Nat
  BY Ranges
<1>4. z \o Leave(s, n) \in Seq(Unit)
  <2>1. Leave(s, n) \in Seq(Unit)
    BY Ranges DEF Leave, Readable
  <2> QED
    BY <2>1
<1>5. ASSUME Live(Other(s))' PROVE Flowing(s)'
  <2>1. Clear(Ahead(s)') 
    BY <1>1, <1>2, <1>5 DEF ReadResult
  <2>2. Behind(s) + Len(Ahead(s)) = Made(Other(s)) + 2 * Len(written[Other(s)])
    BY <1>5 DEF LinkInv, DirOK, Flowing
  <2>3. Len(Ahead(s)') + k = Len(Ahead(s))
    BY <1>1, <1>2 DEF ReadResult
  <2>4. Len(Ahead(s)') \in Nat
    BY <1>2, <1>4
  <2>5. (Behind(s) + k) + Len(Ahead(s)') = Behind(s) + Len(Ahead(s))
    BY ONLY <1>3, <2>3, <2>4, k \in Nat
  <2> QED
    BY <1>5, <2>1, <2>2, <2>5 DEF Flowing
<1>6. OnTrack(Flights(s), Ahead(s)', Behind(s) + k, Len(written[Other(s)]))
  BY <1>1, <1>2 DEF ReadResult
<1>7. OnTrack(Flights(s), Ahead(s), Behind(s), Len(written[Other(s)]))'
  BY <1>2, <1>6
<1> QED
  BY <1>1, <1>5, <1>7 DEF DirOK, ReadResult

\* Unit i behind what was sent so far is the one the receiver s waits for there, or refuses it.
Fits(s, u, g, v) ==
    \A i \in 1..Len(u) :
        \/ /\ u[i] = ItemOf(Flights(s), g + i) /\ u[i] \notin Refusals
           /\ g + i <= Len(Flights(s)) + 2 * v
        \/ u[i] \in Refusals /\ g + i <= Len(Flights(s))

\* A direction in which the other side writes units that fit stays on track.
LEMMA DirSend ==
    ASSUME LinkInv, NEW s \in Sides, kind' = kind, Live(s)' => Live(s),
           Live(Other(s)), NEW u \in Seq(Unit), Ahead(s)' = Ahead(s) \o u, Behind(s)' = Behind(s),
           Len(written'[Other(s)]) \in Nat, Len(written[Other(s)]) <= Len(written'[Other(s)]),
           Fits(s, u, Made(Other(s)) + 2 * Len(written[Other(s)]), Len(written'[Other(s)])),
           Live(Other(s))' =>
              /\ Clear(u)
              /\ Made(Other(s))' + 2 * Len(written'[Other(s)])
                     = Made(Other(s)) + 2 * Len(written[Other(s)]) + Len(u)
    PROVE  DirOK(s)'
<1> SUFFICES ASSUME Live(s) PROVE DirOK(s)'
  BY DEF DirOK
<1> DEFINE x == Ahead(s)
           w == Len(written[Other(s)])
           v == Len(written'[Other(s)])
           c == Behind(s)
           fl == Flights(s)
<1>1. /\ OnTrack(fl, x, c, w) /\ Clear(x)
      /\ c + Len(x) = Made(Other(s)) + 2 * w
  BY DEF LinkInv, DirOK, Flowing
<1>2. x \in Seq(Unit) /\ Len(x) \in Nat /\ c \in Nat /\ w \in Nat /\ v \in Nat /\ Len(fl) \in Nat /\ w <= v
  BY Ranges
<1>3. \A i \in 1..Len(u) :
         \/ /\ u[i] = ItemOf(fl, c + Len(x) + i) /\ u[i] \notin Refusals
            /\ c + Len(x) + i <= Len(fl) + 2 * v
         \/ u[i] \in Refusals /\ c + Len(x) + i <= Len(fl)
  BY <1>1 DEF Fits
<1>4. fl' = fl
  BY DEF Flights
<1> HIDE DEF x, w, v, c, fl
<1>5. OnTrack(fl, x \o u, c, v) /\ (Clear(u) => Clear(x \o u))
  BY ONLY <1>1, <1>2, <1>3, u \in Seq(Unit), Grown
<1>6. Len(x \o u) = Len(x) + Len(u) /\ Len(u) \in Nat
  BY <1>2
<1>7. ASSUME Live(Other(s))' PROVE Flowing(s)'
  <2>1. Clear(Ahead(s)')
    BY <1>5, <1>7 DEF x
  <2>2. c + Len(x \o u) = (c + Len(x)) + Len(u)
    BY ONLY <1>2, <1>6
  <2>3. c + Len(Ahead(s)') = Made(Other(s))' + 2 * Len(written'[Other(s)])
    BY <1>1, <1>7, <2>2 DEF x, w
  <2> QED
    BY <2>1, <2>3 DEF Flowing, c
<1>8. OnTrack(Flights(s), Ahead(s), Behind(s), Len(written[Other(s)]))'
  BY <1>4, <1>5 DEF fl, x, c, v
<1> QED
  BY <1>7, <1>8 DEF DirOK

\* A direction that is cut short stays on track.
LEMMA DirCut ==
    ASSUME LinkInv, NEW s \in Sides, kind' = kind, Live(s)' => Live(s), ~Live(Other(s))',
           part'[s] = part[s], raw'[s] = raw[s], Behind(s)' = Behind(s),
           written'[Other(s)] = written[Other(s)],
           NEW n \in 0..Len(wire[s]),
           wire'[s] = wire[s] \/ wire'[s] = Append(SubSeq(wire[s], 1, n), EndOfStream)
    PROVE  DirOK(s)' /\ wire'[s] \in Seq(Unit)
<1> DEFINE a == part[s] \o raw[s]
           w == wire[s]
           x == Ahead(s)
           y == a \o Append(SubSeq(w, 1, n), EndOfStream)
<1>1. /\ a \in Seq(Unit) /\ w \in Seq(Unit) /\ x \in Seq(Unit)
      /\ Len(Flights(s)) \in Nat /\ Behind(s) \in Nat /\ Len(written[Other(s)]) \in Nat
  BY Ranges
<1>2. Flights(s)' = Flights(s) /\ EndOfStream \in Unit
  BY DEF Flights, Unit, EndOfStream, Words
<1>3. x = a \o w
  BY DEF Ahead
<1> HIDE DEF a, w, x
<1>4. n \in Nat /\ n <= Len(w) /\ Len(a) \in Nat /\ Len(w) \in Nat
  BY <1>1 DEF w
<1>5. SubSeq(w, 1, n) \in Seq(Unit) /\ Len(SubSeq(w, 1, n)) = n /\ \A i \in 1..n : SubSeq(w, 1, n)[i] = w[i]
  BY <1>1, <1>4
<1> DEFINE t == SubSeq(w, 1, n)
           e == Append(t, EndOfStream)
<1> HIDE DEF t
<1>6. /\ e \in Seq(Unit) /\ Len(e) = n + 1 /\ e[n + 1] = EndOfStream
      /\ \A i \in 1..n : e[i] = t[i]
  <2>1. t \in Seq(Unit) /\ Len(t) = n
    BY <1>5 DEF t
  <2> QED
    BY ONLY <1>2, <1>4, <2>1
<1>7. \A i \in 1..n : t[i] = w[i]
  BY <1>5 DEF t
<1>8. y = a \o e
  BY DEF t
<1> HIDE DEF e, y
<1>9. /\ y \in Seq(Unit) /\ Len(y) = Len(a) + n + 1 /\ Len(x) = Len(a) + Len(w)
      /\ \A i \in 1..Len(a) : y[i] = a[i] /\ x[i] = a[i]
      /\ \A i \in 1..(n + 1) : y[Len(a) + i] = e[i]
      /\ \A i \in 1..Len(w) : x[Len(a) + i] = w[i]
  <2>1. AreJoined(Unit, a, e, y)
    BY ONLY <1>1, <1>6, <1>8, Joined
  <2>2. AreJoined(Unit, a, w, x)
    BY ONLY <1>1, <1>3, Joined
  <2>3. Len(a) + Len(e) = Len(a) + n + 1
    BY ONLY <1>4, <1>6
  <2> QED
    BY <1>6, <2>1, <2>2, <2>3 DEF AreJoined
<1>10. y[(Len(a) + n) + 1] = EndOfStream
  <2>1. n + 1 \in 1..(n + 1) /\ Len(a) + (n + 1) = (Len(a) + n) + 1
    BY ONLY <1>4
  <2> QED
    BY <1>6, <1>9, <2>1
<1>11. ASSUME NEW i \in 1..(Len(a) + n) PROVE y[i] = x[i]
  <2>1. CASE i <= Len(a)
    <3>1. i \in 1..Len(a)
      BY <1>4, <2>1
    <3> QED
      BY <1>9, <3>1
  <2>2. CASE ~(i <= Len(a))
    <3>1. /\ i - Len(a) \in 1..n /\ i - Len(a) \in 1..(n + 1) /\ i - Len(a) \in 1..Len(w)
          /\ Len(a) + (i - Len(a)) = i
      BY <1>4, <2>2
    <3>2. y[i] = e[i - Len(a)] /\ e[i - Len(a)] = t[i - Len(a)] /\ x[i] = w[i - Len(a)]
      BY <1>6, <1>9, <3>1
    <3> QED
      BY <1>7, <3>1, <3>2
  <2> QED
    BY <2>1, <2>2
<1>12. ASSUME OnTrack(Flights(s), x, Behind(s), Len(written[Other(s)]))
       PROVE  OnTrack(Flights(s), y, Behind(s), Len(written[Other(s)]))
  <2> DEFINE m == Len(a) + n
  <2>1. m \in Nat /\ m <= Len(x) /\ Len(y) = m + 1 /\ y[m + 1] = EndOfStream /\ \A i \in 1..m : y[i] = x[i]
    BY <1>4, <1>9, <1>10, <1>11
  <2> HIDE DEF m
  <2> QED
    BY ONLY <1>1, <1>9, <1>12, <2>1, CutShort
<1>13. Ahead(s)' = x \/ Ahead(s)' = y
  <2>1. wire'[s] = w \/ wire'[s] = e
    BY DEF w, e, t
  <2>2. Ahead(s)' = a \o wire'[s]
    BY DEF a, Ahead
  <2> QED
    BY <1>3, <1>8, <2>1, <2>2
<1>14. ASSUME Live(s)' PROVE OnTrack(Flights(s), Ahead(s), Behind(s), Len(written[Other(s)]))'
  <2>1. OnTrack(Flights(s), x, Behind(s), Len(written[Other(s)]))
    BY <1>14 DEF LinkInv, DirOK, x
  <2> QED
    BY <1>2, <1>12, <1>13, <2>1
<1>15. wire'[s] \in Seq(Unit)
  BY <1>1, <1>6 DEF w, e, t
<1> QED
  BY <1>14, <1>15 DEF DirOK

-----------------------------------------------------------------------------
\* A side that nothing happens to stays in order when the other side has written more.
LEMMA SideKept ==
    ASSUME NEW s \in Sides, SideOK(s), kind' = kind, life'[s] = life[s], stage'[s] = stage[s],
           raw'[s] = raw[s], part'[s] = part[s], written'[s] = written[s],
           delivered'[s] = delivered[s], Len(delivered[s]) \in Nat,
           Len(written[Other(s)]) \in Nat, Len(written'[Other(s)]) \in Nat,
           Len(written[Other(s)]) <= Len(written'[Other(s)])
    PROVE  SideOK(s)'
<1>1. Flights(s)' = Flights(s)
  BY DEF Flights
<1>2. Len(delivered'[s]) <= Len(written'[Other(s)])
  BY DEF SideOK
<1> QED
  BY <1>1, <1>2 DEF SideOK

\* Steps that change no more than where a side is.
LEMMA LifeChanges ==
    ASSUME LinkInv, NEW s \in Sides, NEW to \in Lives, life' = [life EXCEPT ![s] = to],
           UNCHANGED <<kind, stage, raw, part, written, delivered>>,
           wire' = wire,
           \/ to \in {"closing", "gone", "failed", "dead"} /\ life[s] # "idle"
           \/ s = "client" /\ to = "failed" /\ life[s] = "idle"
           \/ s = "server" /\ to = Connected("server") /\ life[s] = "idle" /\ life["client"] # "idle"
    PROVE  LinkInv'
<1>1. LinkTypes'
  BY DEF LinkInv, LinkTypes
<1> DEFINE t == Other(s)
<1>2. t \in Sides /\ t # s /\ Other(t) = s /\ \A q \in Sides : q = s \/ q = t
  BY TwoSides
<1>3. \A q \in Sides : /\ Ahead(q)' = Ahead(q) /\ Behind(q)' = Behind(q) /\ Flights(q)' = Flights(q)
                       /\ Len(delivered[q]) \in Nat /\ Len(written[q]) \in Nat
  BY Ranges DEF Ahead, Behind, Flights
<1>4. life'[t] = life[t] /\ life'[s] = to
  BY <1>2 DEF LinkInv, LinkTypes
<1>a. \A q \in Sides : MadeBy(q, stage[q])' = MadeBy(q, stage[q])
  BY DEF MadeBy
<1>5. Live(s)' => Live(s) /\ Made(s)' = Made(s)
  <2>1. CASE to \in {"closing", "gone", "failed", "dead"}
    BY <1>4, <2>1 DEF Live
  <2>2. CASE s = "server" /\ life[s] = "idle"
    BY <1>a, <2>2 DEF Live, Made
  <2> QED
    BY <2>1, <2>2
<1>6. Live(t)' => Live(t) /\ Made(t)' = Made(t)
  BY <1>2, <1>4, <1>a DEF Live, Made
<1>7. SideOK(t)'
  BY <1>2, <1>3, <1>4, SideKept DEF LinkInv
<1>8. SideOK(s)'
  <2>1. CASE to \in {"closing", "gone", "failed", "dead"}
    BY <1>3, <1>4, <2>1 DEF LinkInv, SideOK
  <2>2. CASE s = "server" /\ to = Connected("server") /\ life[s] = "idle"
    <3>1. Len(Flights(s)) \in 0..3 /\ (Flights(s) = <<>> <=> Len(Flights(s)) = 0)
      BY FlightCounts DEF LinkInv, LinkTypes
    <3>2. SideOK(s) /\ stage[s] = 0
      BY <2>2 DEF LinkInv, SideOK
    <3>3. to \in {"open", "upgrading"} /\ (to = "open" <=> Flights(s) = <<>>)
      BY <2>2 DEF Connected
    <3>4. /\ to = "upgrading" => stage[s] < Len(Flights(s))
          /\ to = "open" => stage[s] = Len(Flights(s))
      BY <3>1, <3>2, <3>3
    <3> QED
      BY <1>3, <1>4, <2>2, <3>2, <3>3, <3>4 DEF SideOK
  <2> QED
    BY <2>1, <2>2
<1>9. DirOK(s)' /\ DirOK(t)'
  BY <1>2, <1>3, <1>5, <1>6, DirKept DEF LinkInv
<1>10. life'["client"] = "idle" => life'["server"] = "idle"
  BY <1>2, <1>4 DEF LinkInv, Sides
<1> QED
  BY <1>1, <1>2, <1>7, <1>8, <1>9, <1>10 DEF LinkInv

\* A side that is no more, and what it still had to write is lost from some point on.
LEMMA CutChanges ==
    ASSUME LinkInv, NEW s \in Sides, NEW to \in {"gone", "dead"}, life' = [life EXCEPT ![s] = to],
           life[s] # "idle", Cut(s), UNCHANGED <<kind, stage, raw, part, written, delivered>>
    PROVE  LinkInv'
<1> DEFINE t == Other(s)
<1>2. t \in Sides /\ t # s /\ Other(t) = s /\ \A q \in Sides : q = s \/ q = t
  BY TwoSides
<1>3. \A q \in Sides : /\ Behind(q)' = Behind(q) /\ Flights(q)' = Flights(q)
                       /\ Len(delivered[q]) \in Nat /\ Len(written[q]) \in Nat
  BY Ranges DEF Behind, Flights
<1>4. life'[t] = life[t] /\ life'[s] = to /\ life' \in [Sides -> Lives]
  BY <1>2 DEF LinkInv, LinkTypes, Lives
<1>5. PICK n \in 0..Len(wire[t]) : wire' = [wire EXCEPT ![t] =
        IF @ # <<>> /\ Last(@) = EndOfStream THEN @ ELSE Append(SubSeq(@, 1, n), EndOfStream)]
  BY DEF Cut
<1>6. /\ wire'[s] = wire[s]
      /\ wire'[t] = wire[t] \/ wire'[t] = Append(SubSeq(wire[t], 1, n), EndOfStream)
  BY <1>2, <1>5 DEF LinkInv, LinkTypes
<1>7. ~Live(s)' /\ (Live(t)' => Live(t))
  BY <1>4 DEF Live
<1>8. DirOK(t)' /\ wire'[t] \in Seq(Unit)
  BY <1>2, <1>3, <1>6, <1>7, DirCut
<1>9. DirOK(s)'
  BY <1>7 DEF DirOK
<1>10. SideOK(t)'
  BY <1>2, <1>3, <1>4, SideKept DEF LinkInv
<1>11. SideOK(s)'
  BY <1>3, <1>4 DEF LinkInv, SideOK
<1>12. wire' \in [Sides -> Seq(Unit)]
  BY <1>2, <1>5, <1>6, <1>8 DEF LinkInv, LinkTypes
<1>13. LinkTypes'
  BY <1>4, <1>12 DEF LinkInv, LinkTypes
<1>14. life'["client"] = "idle" => life'["server"] = "idle"
  BY <1>2, <1>4 DEF LinkInv, Sides
<1> QED
  BY <1>2, <1>8, <1>9, <1>10, <1>11, <1>13, <1>14 DEF LinkInv

\* The client connects and writes its first flight.
LEMMA DialStep == ASSUME LinkInv, Dialled PROVE LinkInv'
<1> DEFINE s == "client"
           t == "server"
           u == Units(Opening)
<1>1. s \in Sides /\ t \in Sides /\ Other(s) = t /\ Other(t) = s /\ s # t /\ \A q \in Sides : q = s \/ q = t
  BY DEF Sides, Other
<1>2. \A q \in Sides : /\ Behind(q)' = Behind(q) /\ Flights(q)' = Flights(q)
                       /\ Len(delivered[q]) \in Nat /\ Len(written[q]) \in Nat
  BY Ranges DEF Dialled, Behind, Flights
<1>3. ItemsFrom(u, Flights(t), 0) /\ Len(u) = MadeBy(s, 0)
  BY OpeningFits DEF LinkInv, LinkTypes
<1>4. /\ life[s] = "idle" /\ life[t] = "idle" /\ stage[s] = 0 /\ stage[t] = 0
      /\ raw[t] = <<>> /\ part[t] = <<>> /\ delivered[t] = <<>> /\ written[s] = <<>>
  BY <1>1 DEF Dialled, LinkInv, SideOK
<1>5. /\ life'[s] = Connected(s) /\ life'[t] = life[t] /\ wire'[s] = wire[s] /\ wire'[t] = u
      /\ Connected(s) \in {"open", "upgrading"} /\ (Connected(s) = "open" <=> Flights(s) = <<>>)
      /\ life' \in [Sides -> Lives] /\ wire' \in [Sides -> Seq(Unit)]
  BY <1>1, <1>3 DEF Dialled, LinkInv, LinkTypes, Connected, Lives, ItemsFrom
<1>6. LinkTypes'
  BY <1>5 DEF Dialled, LinkInv, LinkTypes
<1>7. SideOK(t)'
  BY <1>1, <1>2, <1>5, SideKept DEF Dialled, LinkInv
<1>8. SideOK(s)'
  <2>1. Len(Flights(s)) \in 0..3 /\ (Flights(s) = <<>> <=> Len(Flights(s)) = 0)
    BY FlightCounts, <1>1 DEF LinkInv, LinkTypes
  <2>2. SideOK(s)
    BY <1>1 DEF LinkInv
  <2>3. /\ life'[s] = "upgrading" => stage[s] < Len(Flights(s))
        /\ life'[s] = "open" => stage[s] = Len(Flights(s))
    BY <1>4, <1>5, <2>1
  <2> QED
    BY <1>1, <1>2, <1>4, <1>5, <2>2, <2>3 DEF Dialled, SideOK
<1>9. DirOK(s)'
  <2>1. Ahead(s)' = Ahead(s) /\ (Live(s)' => Live(s))
    BY <1>4, <1>5 DEF Dialled, Ahead, Live
  <2>2. Live(t)' => Live(t) /\ Made(t)' = Made(t)
    BY <1>5 DEF Dialled, Live, Made, MadeBy
  <2> QED
    BY <1>1, <1>2, <2>1, <2>2, DirKept DEF Dialled, LinkInv
<1>10. DirOK(t)'
  <2>1. Ahead(t)' = u /\ Behind(t)' = 0 /\ u \in Seq(Unit) /\ Len(u) \in Nat
    <3>1. Ahead(t)' = (<<>> \o <<>>) \o u /\ Len(<<>>) = 0
      BY <1>4, <1>5 DEF Dialled, Ahead
    <3>2. u \in Seq(Unit)
      BY <1>3 DEF ItemsFrom
    <3>3. <<>> \o <<>> = <<>> /\ <<>> \o u = u
      BY <3>2
    <3>4. stage'[t] = 0 /\ delivered'[t] = <<>>
      BY <1>4 DEF Dialled
    <3> QED
      BY <3>1, <3>2, <3>3, <3>4 DEF Behind
  <2>2. Len(Flights(t)) \in 0..3
    BY FlightCounts, <1>1 DEF LinkInv, LinkTypes
  <2>3. written'[s] = <<>> /\ Len(written'[s]) = 0
    BY <1>4 DEF Dialled
  <2>4. OnTrack(Flights(t), u, 0, 0)
    <3>1. \A i \in 1..Len(u) : 0 + i = i /\ i <= Len(Flights(t)) /\ i <= Len(Flights(t)) + 2 * 0
      BY <1>3, <2>1, <2>2 DEF ItemsFrom
    <3>2. \A i \in 1..Len(u) : u[i] = <<Flights(t)[i].on>> /\ u[i] \notin Refusals
      BY <1>3, <3>1 DEF ItemsFrom, Clear, Stops
    <3> QED
      BY <3>1, <3>2 DEF OnTrack, ItemOf
  <2>5. Made(s)' = Len(u)
    <3>1. Made(s)' = MadeBy(s, 0)
      BY <1>4, <1>5 DEF Dialled, Made, MadeBy
    <3> QED
      BY <1>3, <3>1
  <2>6. Flowing(t)'
    <3>1. Clear(u)
      BY <1>3 DEF ItemsFrom
    <3>2. 0 + Len(u) = Len(u) + 2 * 0
      BY <2>1
    <3> QED
      BY <1>1, <2>1, <2>3, <2>5, <3>1, <3>2 DEF Flowing
  <2> QED
    BY <1>1, <1>2, <2>1, <2>3, <2>4, <2>6 DEF DirOK
<1>11. life'["client"] = "idle" => life'["server"] = "idle"
  BY <1>5
<1> QED
  BY <1>1, <1>6, <1>7, <1>8, <1>9, <1>10, <1>11 DEF LinkInv

-----------------------------------------------------------------------------
\* What the parser makes of the bytes that follow d frames.
ParseFacts(b, d, v, q) ==
    /\ q \o FramesIn(b) \in Seq(Nat) /\ Len(q \o FramesIn(b)) = d + Len(b) \div 2
    /\ Numbered(q \o FramesIn(b)) /\ d + Len(b) \div 2 <= v
    /\ RestOf(b) \in Seq(Unit) /\ Shift(RestOf(b), b, 2 * (Len(b) \div 2)) /\ Len(RestOf(b)) <= 1

\* Every second unit of the frames is the end of a frame.
LEMMA EvenByte == ASSUME NEW e \in Nat PROVE Byte(2 * e) = <<e, 2>>
<1>1. (2 * e) % 2 = 0 /\ (2 * e) \div 2 = e
  OBVIOUS
<1> QED
  BY <1>1 DEF Byte

\* Units that are frames in order are parsed into those frames, but for half a frame at most.
LEMMA Parsed ==
    ASSUME NEW b, b \in Seq(Unit), NEW d \in Nat, NEW v \in Nat, d <= v,
           \A i \in 1..Len(b) : b[i] = Byte(2 * d + i) /\ 2 * d + i <= 2 * v,
           NEW q, q \in Seq(Nat), Len(q) = d, Numbered(q)
    PROVE  ParseFacts(b, d, v, q)
<1> DEFINE m == Len(b) \div 2
           f == FramesIn(b)
           z == RestOf(b)
<1>1. Len(b) \in Nat /\ m \in Nat /\ 2 * m <= Len(b) /\ Len(b) <= 2 * m + 1
  OBVIOUS
<1>2. \A i \in 1..m : 2 * i \in 1..Len(b) /\ d + i \in Nat /\ 2 * d + 2 * i = 2 * (d + i)
  BY ONLY <1>1, d \in Nat
<1>3. \A i \in 1..m : b[2 * i] = <<d + i, 2>>
  BY <1>2, EvenByte
<1>4. \A i \in 1..m : b[2 * i][1] = d + i
  BY <1>3
<1>5. f = [i \in 1..m |-> d + i]
  BY <1>4 DEF FramesIn
<1>6. f \in Seq(Nat) /\ Len(f) = m /\ \A i \in 1..m : f[i] = d + i
  BY <1>1, <1>2, <1>5
<1> DEFINE y == q \o f
<1>7. AreJoined(Nat, q, f, y)
  <2>1. q \in Seq(Nat) /\ f \in Seq(Nat)
    BY <1>6
  <2> HIDE DEF f
  <2> QED
    BY ONLY <2>1, Joined
<1> HIDE DEF y, f
<1>8. y \in Seq(Nat) /\ Len(y) = d + m
  BY <1>6, <1>7 DEF AreJoined
<1>9. ASSUME NEW i \in 1..(d + m) PROVE y[i] = i
  <2>1. CASE i <= d
    <3>1. i \in 1..Len(q)
      BY <2>1
    <3> QED
      BY <1>7, <3>1 DEF AreJoined, Numbered
  <2>2. CASE ~(i <= d)
    <3>1. i - d \in 1..m /\ d + (i - d) = i
      BY <1>1, <2>2
    <3> QED
      BY <1>6, <1>7, <3>1 DEF AreJoined
  <2> QED
    BY <2>1, <2>2
<1>10. d + m <= v
  <2>1. CASE m = 0
    BY <2>1
  <2>2. CASE m # 0
    <3>1. 2 * m \in 1..Len(b)
      BY <1>1, <2>2
    <3>2. 2 * d + 2 * m <= 2 * v
      BY <3>1
    <3> QED
      BY ONLY <1>1, <3>2, d \in Nat, v \in Nat
  <2> QED
    BY <2>1, <2>2
<1>11. /\ z \in Seq(Unit) /\ Len(z) = Len(b) - 2 * m
       /\ \A i \in 1..(Len(b) - 2 * m) : z[i] = b[i + 2 * m]
  <2> DEFINE j == 2 * m + 1
             l == Len(b)
  <2>1. j \in Int /\ l \in Int /\ \A i \in j..l : b[i] \in Unit
    BY <1>1
  <2>2. /\ l - j + 1 = Len(b) - 2 * m /\ (j <= l \/ Len(b) - 2 * m = 0)
        /\ \A i \in 1..(Len(b) - 2 * m) : j + i - 1 = i + 2 * m
    BY ONLY <1>1
  <2>3. z = SubSeq(b, j, l)
    BY DEF RestOf
  <2> HIDE DEF j, l
  <2>4. /\ SubSeq(b, j, l) \in Seq(Unit)
        /\ Len(SubSeq(b, j, l)) = IF j <= l THEN l - j + 1 ELSE 0
        /\ \A i \in 1..(l - j + 1) : SubSeq(b, j, l)[i] = b[j + i - 1]
    BY ONLY <2>1, SubSeqProperties
  <2>5. Len(z) = Len(b) - 2 * m
    BY <2>2, <2>3, <2>4
  <2>6. \A i \in 1..(Len(b) - 2 * m) : z[i] = b[j + i - 1]
    BY <2>2, <2>3, <2>4
  <2> QED
    BY <2>2, <2>3, <2>4, <2>5, <2>6
<1> HIDE DEF z
<1>12. Len(z) <= 1 /\ Len(z) + 2 * m = Len(b)
  BY ONLY <1>1, <1>11
<1>13. Shift(z, b, 2 * m)
  BY <1>11, <1>12 DEF Shift
<1> QED
  BY <1>8, <1>9, <1>10, <1>11, <1>12, <1>13 DEF ParseFacts, Numbered, y, z, f

\* Once the last flight is taken, what was read is frames of the other side, in order.
FollowOn(s, b, k) ==
    /\ \A i \in 1..Len(b) : b[i] \notin Stops
    /\ \A i \in 1..Len(b) : i > k =>
            /\ b[i] = Byte(2 * Len(delivered[s]) + (i - k))
            /\ 2 * Len(delivered[s]) + (i - k) <= 2 * Len(written[Other(s)])

\* Behind the last flight a side holds the frames of the other side, from the first one that
\* it has not received.
LEMMA HeldFrames ==
    ASSUME LinkInv, NEW s \in Sides, Live(s), NEW n \in Readable(s), NEW b, b = Held(s, n),
           NEW k \in {0, 1}, stage[s] + k = Len(Flights(s)), k = 1 => b[1] \notin Stops
    PROVE  FollowOn(s, b, k)
<1> DEFINE x == Ahead(s)
           c == Behind(s)
           w == Len(written[Other(s)])
           d == Len(delivered[s])
           fl == Flights(s)
<1>1. c \in Nat /\ w \in Nat /\ d \in Nat /\ Len(fl) \in Nat /\ c + k = Len(fl) + 2 * d /\ k \in Nat
  <2>1. c \in Nat /\ w \in Nat /\ d \in Nat /\ Len(fl) \in Nat /\ k \in Nat /\ stage[s] \in Nat
    BY Ranges
  <2>2. c = stage[s] + 2 * d
    BY DEF Behind
  <2> QED
    BY <2>1, <2>2, SMTT(60)
<1>2. OnTrack(fl, x, c, w)
  BY DEF LinkInv, DirOK
<1>3. /\ Len(b) \in Nat /\ \A i \in 1..Len(b) : b[i] # EndOfStream
      /\ \A i \in 1..Len(b) : b[i] = x[i] /\ i \in 1..Len(x)
  BY HeldUnits DEF NoEnd
<1> HIDE DEF x, c, w, d, fl
<1>4. ASSUME NEW i \in 1..Len(b) PROVE b[i] \notin Stops
  <2>1. CASE i = 1 /\ k = 1
    BY <2>1
  <2>2. CASE ~(i = 1 /\ k = 1)
    <3>1. ~(c + i <= Len(fl))
      BY <1>1, <2>2
    <3>2. b[i] \notin Refusals
      BY <1>2, <1>3, <3>1 DEF OnTrack
    <3> QED
      BY <1>3, <3>2 DEF Stops
  <2> QED
    BY <2>1, <2>2
<1>5. ASSUME NEW i \in 1..Len(b), i > k
      PROVE  b[i] = Byte(2 * d + (i - k)) /\ 2 * d + (i - k) <= 2 * w
  <2>1. \A j \in 1..i : j \in 1..Len(b) /\ x[j] \notin Stops
    <3>1. \A j \in 1..i : j \in 1..Len(b)
      BY <1>3
    <3> QED
      BY <1>3, <1>4, <3>1
  <2>2. x[i] = ItemOf(fl, c + i) /\ c + i <= Len(fl) + 2 * w
    BY <1>2, <1>3, <2>1 DEF OnTrack
  <2>3. ~(c + i <= Len(fl)) /\ (c + i) - Len(fl) = 2 * d + (i - k)
    BY <1>1, <1>5
  <2>4. 2 * d + (i - k) <= 2 * w
    BY <1>1, <2>2, <2>3
  <2> QED
    BY <1>3, <2>2, <2>3, <2>4 DEF ItemOf
<1> QED
  BY <1>4, <1>5 DEF FollowOn, d, w

\* A read on an open connection.
LEMMA ReadOpenStep ==
    ASSUME LinkInv, NEW s \in Sides, ReadOpen(s)
    PROVE  LinkInv' /\ Len(delivered[s]) <= Len(delivered'[s])
<1> DEFINE t == Other(s)
           d == Len(delivered[s])
           v == Len(written[t])
<1>1. t \in Sides /\ t # s /\ Other(t) = s /\ \A q \in Sides : q = s \/ q = t
  BY TwoSides
<1>2. PICK n \in Readable(s) : /\ Parse(s, Held(s, n)) /\ wire' = [wire EXCEPT ![s] = Leave(s, n)]
  BY DEF ReadOpen, Held
<1> DEFINE b == Held(s, n)
<1>3. /\ life[s] = "open" /\ stage[s] = Len(Flights(s)) /\ Live(s)
      /\ d \in Nat /\ v \in Nat /\ d <= v /\ Numbered(delivered[s]) /\ delivered[s] \in Seq(Nat)
      /\ UNCHANGED <<kind, life, stage, written>> /\ raw' = [raw EXCEPT ![s] = <<>>]
  <2>1. SideOK(s) /\ delivered[s] \in Seq(Nat)
    BY DEF LinkInv, LinkTypes
  <2>2. d \in Nat /\ v \in Nat
    BY Ranges
  <2> QED
    BY <2>1, <2>2 DEF ReadOpen, SideOK, Live
<1>4. b \in Seq(Unit) /\ Len(b) \in Nat
  BY <1>2, HeldUnits
<1>5. FollowOn(s, b, 0)
  <2>1. stage[s] + 0 = Len(Flights(s)) /\ 0 \in {0, 1}
    BY <1>3, Ranges
  <2> QED
    BY <1>2, <1>3, <2>1, HeldFrames
<1>6. ParseFacts(b, d, v, delivered[s])
  <2>1. \A i \in 1..Len(b) : i > 0 /\ i - 0 = i
    BY <1>4
  <2>2. \A i \in 1..Len(b) : b[i] = Byte(2 * d + i) /\ 2 * d + i <= 2 * v
    BY <1>5, <2>1 DEF FollowOn
  <2> HIDE DEF b, d, v
  <2>3. Len(delivered[s]) = d
    BY DEF d
  <2> QED
    BY ONLY <1>3, <1>4, <2>2, <2>3, Parsed
<1> DEFINE z == RestOf(b)
           k == 2 * (Len(b) \div 2)
<1>7. /\ delivered' = [delivered EXCEPT ![s] = @ \o FramesIn(b)]
      /\ part' = [part EXCEPT ![s] = z]
  BY <1>2 DEF Parse
<1> HIDE DEF b
<1>8. /\ delivered'[s] = delivered[s] \o FramesIn(b) /\ part'[s] = z /\ raw'[s] = <<>>
      /\ wire'[s] = Leave(s, n)
      /\ delivered'[t] = delivered[t] /\ part'[t] = part[t] /\ raw'[t] = raw[t] /\ wire'[t] = wire[t]
  BY <1>1, <1>2, <1>3, <1>7 DEF LinkInv, LinkTypes
<1>9. /\ delivered'[s] \in Seq(Nat) /\ Len(delivered'[s]) = d + Len(b) \div 2
      /\ Numbered(delivered'[s]) /\ Len(delivered'[s]) <= v /\ z \in Seq(Unit)
      /\ Shift(z, b, k)
  BY <1>6, <1>8 DEF ParseFacts
<1>10. k \in Nat /\ k <= Len(b) /\ Len(b) \div 2 \in Nat
  BY <1>4
<1>11. \A i \in 1..k : b[i] \notin Stops
  <2>1. \A i \in 1..k : i \in 1..Len(b)
    BY <1>4, <1>10
  <2> QED
    BY <1>5, <2>1 DEF FollowOn
<1>12. part'[s] \o raw'[s] = z
  BY <1>8, <1>9
<1>13. Behind(s)' = Behind(s) + k
  <2>1. stage[s] \in Nat /\ stage' = stage
    BY <1>3, Ranges
  <2>2. stage[s] + 2 * (d + Len(b) \div 2) = (stage[s] + 2 * d) + k
    <3>1. \A i, e, h \in Nat : i + 2 * (e + h) = (i + 2 * e) + 2 * h
      OBVIOUS
    <3> HIDE DEF d
    <3> QED
      BY <1>3, <1>10, <2>1, <3>1
  <2> QED
    BY <1>9, <2>1, <2>2 DEF Behind
<1>14. \A q \in Sides : MadeBy(q, stage[q])' = MadeBy(q, stage[q])
  BY <1>3 DEF MadeBy
<1>15. \A q \in Sides : Live(q)' = Live(q) /\ Made(q)' = Made(q) /\ Flights(q)' = Flights(q)
  BY <1>3, <1>14 DEF Live, Made, Flights
<1>16. DirOK(s)' /\ NoEnd(part'[s] \o raw'[s])
  <2>1. b = Held(s, n)
    BY DEF b
  <2> HIDE DEF z, k
  <2> QED
    BY <1>1, <1>2, <1>3, <1>8, <1>9, <1>10, <1>11, <1>12, <1>13, <1>15, <2>1, DirRead
<1>17. DirOK(t)'
  <2>1. Ahead(t)' = Ahead(t) /\ Behind(t)' = Behind(t)
    BY <1>3, <1>8 DEF Ahead, Behind
  <2> QED
    BY <1>1, <1>3, <1>15, <2>1, DirKept DEF LinkInv
<1>18. SideOK(t)'
  BY <1>1, <1>3, <1>8, Ranges, SideKept DEF LinkInv
<1>19. SideOK(s)'
  <2>1. SideOK(s)
    BY DEF LinkInv
  <2> QED
    BY <1>3, <1>9, <1>15, <1>16, <2>1 DEF SideOK
<1>20. LinkTypes'
  <2>1. Leave(s, n) \in Seq(Unit)
    BY Ranges DEF Leave, Readable
  <2>2. <<>> \in Seq(Unit)
    OBVIOUS
  <2>3. /\ raw' \in [Sides -> Seq(Unit)] /\ wire' \in [Sides -> Seq(Unit)] /\ part' \in [Sides -> Seq(Unit)]
        /\ delivered' \in [Sides -> Seq(Nat)]
    BY <1>2, <1>3, <1>7, <1>8, <1>9, <2>1, <2>2 DEF LinkInv, LinkTypes
  <2> QED
    BY <1>3, <2>3 DEF LinkInv, LinkTypes
<1>21. Len(delivered[s]) <= Len(delivered'[s])
  <2>1. \A e, h \in Nat : e <= e + h
    OBVIOUS
  <2> QED
    BY <1>3, <1>9, <1>10, <2>1
<1> QED
  BY <1>1, <1>3, <1>16, <1>17, <1>18, <1>19, <1>20, <1>21 DEF LinkInv

\* The other side writes on the stream, or nothing happens to a side's stream.
LEMMA SendStep == ASSUME LinkInv, NEW s \in Sides, Send(s) PROVE LinkInv'
<1> DEFINE t == Other(s)
           n == Len(written[s])
           u == Halves(n + 1)
<1>1. t \in Sides /\ t # s /\ Other(t) = s /\ \A q \in Sides : q = s \/ q = t
  BY TwoSides
<1>2. /\ life[s] = "open" /\ stage[s] = Len(Flights(s)) /\ Live(s) /\ n \in Nat
      /\ Numbered(written[s]) /\ written[s] \in Seq(Nat)
  <2>1. SideOK(s) /\ written[s] \in Seq(Nat) /\ n \in Nat
    BY Ranges DEF LinkInv, LinkTypes
  <2> QED
    BY <2>1 DEF Send, SideOK, Live
<1>3. /\ written' = [written EXCEPT ![s] = Append(@, n + 1)]
      /\ wire' = [wire EXCEPT ![t] = 
            IF life[t] \in {"closing", "gone", "dead", "failed"} THEN @ ELSE @ \o u]
      /\ UNCHANGED <<kind, life, stage, raw, part, delivered>>
  BY DEF Send
<1>4. /\ written'[s] = Append(written[s], n + 1) /\ written'[t] = written[t] /\ wire'[s] = wire[s]
      /\ wire'[t] = IF life[t] \in {"closing", "gone", "dead", "failed"} THEN wire[t] ELSE wire[t] \o u
  BY <1>1, <1>3 DEF LinkInv, LinkTypes
<1>5. /\ written'[s] \in Seq(Nat) /\ Len(written'[s]) = n + 1 /\ Numbered(written'[s])
  <2>1. n + 1 \in Nat
    BY <1>2
  <2>2. /\ Append(written[s], n + 1) \in Seq(Nat) /\ Len(Append(written[s], n + 1)) = n + 1
        /\ \A i \in 1..n : Append(written[s], n + 1)[i] = written[s][i]
        /\ Append(written[s], n + 1)[n + 1] = n + 1
    BY <1>2, <2>1, AppendProperties
  <2>3. \A i \in 1..(n + 1) : i \in 1..n \/ i = n + 1
    BY <1>2
  <2> QED
    BY <1>2, <1>4, <2>2, <2>3 DEF Numbered
<1>6. /\ u \in Seq(Unit) /\ Len(u) = 2
      /\ u[1] = <<n + 1, 1>> /\ u[2] = <<n + 1, 2>>
  BY <1>2 DEF Halves, Unit
<1>7. u[1] = Byte(2 * n + 1) /\ u[2] = Byte(2 * n + 2)
  <2>0. /\ \A e \in Nat : 2 * (e + 1) = 2 * e + 2 /\ (2 * e + 1) % 2 = 1 /\ (2 * e + 1) \div 2 = e
        /\ n + 1 \in Nat
    BY <1>2
  <2> HIDE DEF n
  <2>1. Byte(2 * (n + 1)) = <<n + 1, 2>>
    BY <2>0, EvenByte
  <2>2. 2 * (n + 1) = 2 * n + 2 /\ (2 * n + 1) % 2 = 1 /\ (2 * n + 1) \div 2 = n
    BY <1>2, <2>0
  <2> QED
    BY <1>6, <2>1, <2>2 DEF Byte
<1>8. \A i \in 1..2 : u[i] \notin Stops
  <2>1. \A m \in Nat, h \in {1, 2} : <<m, h>> \notin Stops
    BY DEF Stops, Refusals, EndOfStream
  <2>2. \A i \in 1..2 : i = 1 \/ i = 2
    OBVIOUS
  <2> QED
    BY <1>2, <1>6, <2>1, <2>2
<1>9. /\ \A q \in Sides : MadeBy(q, stage[q])' = MadeBy(q, stage[q])
      /\ \A q \in Sides : /\ Live(q)' = Live(q) /\ Made(q)' = Made(q) /\ Flights(q)' = Flights(q)
                          /\ Behind(q)' = Behind(q)
  <2>1. \A q \in Sides : MadeBy(q, stage[q])' = MadeBy(q, stage[q])
    BY <1>3 DEF MadeBy
  <2> QED
    BY <1>3, <2>1 DEF Live, Made, Flights, Behind
<1>10. Made(s) = Len(Flights(t)) /\ Len(Flights(t)) \in Nat
  BY <1>1, <1>2, FlightCounts DEF Made, LinkInv, LinkTypes
<1>11. DirOK(s)'
  <2>1. Ahead(s)' = Ahead(s)
    BY <1>3, <1>4 DEF Ahead
  <2> QED
    BY <1>1, <1>3, <1>4, <1>9, <2>1, DirKept DEF LinkInv
<1>12. DirOK(t)'
  <2>1. CASE life[t] \in {"closing", "gone", "dead", "failed"}
    BY <1>3, <2>1 DEF DirOK, Live
  <2>2. CASE ~(life[t] \in {"closing", "gone", "dead", "failed"})
    <3>1. Ahead(t)' = Ahead(t) \o u
      <4>1. part[t] \o raw[t] \in Seq(Unit) /\ wire[t] \in Seq(Unit)
        BY <1>1, Ranges
      <4>2. Ahead(t)' = (part[t] \o raw[t]) \o (wire[t] \o u)
        BY <1>3, <1>4, <2>2 DEF Ahead
      <4>3. (part[t] \o raw[t]) \o (wire[t] \o u) = ((part[t] \o raw[t]) \o wire[t]) \o u
        <5> DEFINE a == part[t] \o raw[t]
        <5> DEFINE w == wire[t]
        <5>1. a \in Seq(Unit) /\ w \in Seq(Unit) /\ u \in Seq(Unit)
          BY <1>6, <4>1
        <5> HIDE DEF a, u, w
        <5>2. (a \o w) \o u = a \o (w \o u)
          BY ONLY <5>1, ConcatAssociative
        <5> QED
          BY <5>2 DEF a, w
      <4> QED
        BY <4>2, <4>3 DEF Ahead
    <3> DEFINE g == Made(s) + 2 * n
    <3>2. Fits(t, u, g, n + 1)
      <4>1. \A i \in 1..2 : /\ g + i <= Len(Flights(t)) + 2 * (n + 1)
                            /\ ~(g + i <= Len(Flights(t))) /\ (g + i) - Len(Flights(t)) = 2 * n + i
        <5> DEFINE l == Len(Flights(t))
        <5>1. g = l + 2 * n /\ l \in Nat /\ n \in Nat
          BY <1>2, <1>10
        <5>2. \A i \in 1..2 : i = 1 \/ i = 2
          OBVIOUS
        <5> HIDE DEF l, n, g
        <5> QED
          BY ONLY <5>1, <5>2 DEF l
      <4>2. \A i \in 1..2 : u[i] = Byte(2 * n + i)
        BY <1>7
      <4>3. \A i \in 1..2 : u[i] = ItemOf(Flights(t), g + i)
        BY <4>1, <4>2 DEF ItemOf
      <4> HIDE DEF u, g
      <4> QED
        BY <1>6, <1>8, <4>1, <4>3 DEF Fits, Stops
    <3>3. Made(s) + 2 * (n + 1) = Made(s) + 2 * n + 2 /\ n <= n + 1 /\ n + 1 \in Nat
      BY <1>2, <1>10
    <3>4. Clear(u)
      BY <1>6, <1>8 DEF Clear
    <3> HIDE DEF u
    <3> QED
      BY <1>1, <1>2, <1>3, <1>5, <1>6, <1>9, <3>1, <3>2, <3>3, <3>4, DirSend
  <2> QED
    BY <2>1, <2>2
<1>13. SideOK(t)'
  <2>1. Len(written'[Other(t)]) \in Nat /\ Len(written[Other(t)]) <= Len(written'[Other(t)])
    BY <1>1, <1>2, <1>5
  <2> QED
    BY <1>1, <1>3, <1>4, <2>1, Ranges, SideKept DEF LinkInv
<1>14. SideOK(s)'
  <2>1. SideOK(s)
    BY DEF LinkInv
  <2> QED
    BY <1>1, <1>2, <1>3, <1>4, <1>5, <1>9, <2>1 DEF SideOK
<1>15. LinkTypes'
  <2>1. wire[t] \in Seq(Unit)
    BY <1>1, Ranges
  <2>2. wire[t] \o u \in Seq(Unit)
    <3> HIDE DEF u
    <3> QED
      BY <1>6, <2>1
  <2>3. wire' \in [Sides -> Seq(Unit)]
    BY <1>3, <2>1, <2>2 DEF LinkInv, LinkTypes
  <2>4. written' \in [Sides -> Seq(Nat)]
    BY <1>3, <1>4, <1>5 DEF LinkInv, LinkTypes
  <2> QED
    BY <1>3, <2>3, <2>4 DEF LinkInv, LinkTypes
<1> QED
  BY <1>1, <1>3, <1>11, <1>12, <1>13, <1>14, <1>15 DEF LinkInv

\* The end of the stream ends the side that reads it.
LEMMA ReadEndStep == ASSUME LinkInv, NEW s \in Sides, ReadEnd(s) PROVE LinkInv'
<1> DEFINE t == Other(s)
<1>1. t \in Sides /\ t # s /\ Other(t) = s /\ \A q \in Sides : q = s \/ q = t
  BY TwoSides
<1>2. PICK to \in {"closing", "failed", "dead"} : life' = [life EXCEPT ![s] = to]
  <2>1. CASE life[s] = "open"
    BY <2>1 DEF ReadEnd
  <2>2. CASE life[s] # "open" /\ kind = "websocket" /\ s = "client"
    BY <2>2 DEF ReadEnd
  <2>3. CASE life[s] # "open" /\ ~(kind = "websocket" /\ s = "client")
    BY <2>3 DEF ReadEnd
  <2> QED
    BY <2>1, <2>2, <2>3
<1>3. /\ life[s] \in {"upgrading", "open"} /\ wire' = [wire EXCEPT ![s] = <<>>]
      /\ UNCHANGED <<kind, stage, raw, part, written, delivered>>
  BY DEF ReadEnd
<1>4. /\ life'[s] = to /\ life'[t] = life[t] /\ wire'[t] = wire[t] /\ life' \in [Sides -> Lives]
  BY <1>1, <1>2, <1>3 DEF LinkInv, LinkTypes, Lives
<1>5. LinkTypes'
  <2>1. <<>> \in Seq(Unit)
    OBVIOUS
  <2>2. wire' \in [Sides -> Seq(Unit)]
    BY <1>3, <2>1 DEF LinkInv, LinkTypes
  <2> QED
    BY <1>3, <1>4, <2>2 DEF LinkInv, LinkTypes
<1>6. ~Live(s)' /\ (Live(t)' => Live(t))
  BY <1>4 DEF Live
<1>7. DirOK(s)'
  BY <1>6 DEF DirOK
<1>8. DirOK(t)'
  <2>1. Ahead(t)' = Ahead(t) /\ Behind(t)' = Behind(t)
    BY <1>3, <1>4 DEF Ahead, Behind
  <2> QED
    BY <1>1, <1>3, <1>6, <2>1, DirKept DEF LinkInv
<1>9. SideOK(t)'
  BY <1>1, <1>3, <1>4, Ranges, SideKept DEF LinkInv
<1>10. SideOK(s)'
  <2>1. SideOK(s) /\ Flights(s)' = Flights(s)
    BY <1>3 DEF LinkInv, Flights
  <2> QED
    BY <1>3, <1>4, <2>1 DEF SideOK
<1>11. life'["client"] = "idle" => life'["server"] = "idle"
  BY <1>1, <1>3, <1>4 DEF LinkInv, Sides
<1> QED
  BY <1>1, <1>5, <1>7, <1>8, <1>9, <1>10, <1>11 DEF LinkInv

\* The flights a side waits for are not refusals.
LEMMA AwaitedIsNoStop ==
    ASSUME kind \in LinkKinds, NEW s \in Sides, NEW i \in 1..Len(Flights(s))
    PROVE  <<Flights(s)[i].on>> \notin Stops
<1>1. kind \in {"tcp", "websocket", "tls", "fronted"}
  BY StreamLinkAssumption
<1>2. Flights(s)[i].on \in {"GET", "101", "hello", "flight", "finished", "CONNECT", "200"}
  <2>1. CASE kind = "tcp"
    BY <2>1 DEF Flights
  <2>2. CASE kind = "websocket"
    BY <2>2 DEF Flights, WsFlights
  <2>3. CASE kind = "tls"
    BY <2>3 DEF Flights, TlsFlights
  <2>4. CASE kind = "fronted"
    BY <2>4 DEF Flights, FrontedFlights
  <2> QED
    BY <1>1, <2>1, <2>2, <2>3, <2>4
<1> QED
  BY <1>2 DEF Stops, Refusals, EndOfStream

\* A read during the upgrade that holds no flight the side waits for.
Waits(s, n) ==
    /\ raw' = [raw EXCEPT ![s] = Held(s, n)] /\ wire' = [wire EXCEPT ![s] = Leave(s, n)]
    /\ life' = [life EXCEPT ![s] = IF Head(Held(s, n)) = <<"alert">> THEN "failed" ELSE @]
    /\ UNCHANGED <<kind, stage, part, written, delivered>>

\* A read during the upgrade that does not get further keeps the invariant.
LEMMA WaitsStep ==
    ASSUME LinkInv, NEW s \in Sides, life[s] = "upgrading", NEW n \in Readable(s), Waits(s, n)
    PROVE  LinkInv'
<1> DEFINE t == Other(s)
           b == Held(s, n)
<1>1. t \in Sides /\ t # s /\ Other(t) = s /\ \A q \in Sides : q = s \/ q = t
  BY TwoSides
<1>2. b \in Seq(Unit) /\ Len(b) \in Nat
  BY HeldUnits
<1>3. PICK to \in {"upgrading", "failed"} : life' = [life EXCEPT ![s] = to]
  BY DEF Waits
<1>4. /\ raw' = [raw EXCEPT ![s] = b] /\ wire' = [wire EXCEPT ![s] = Leave(s, n)]
      /\ UNCHANGED <<kind, stage, part, written, delivered>>
  BY DEF Waits
<1>b. b = Held(s, n)
  OBVIOUS
<1> HIDE DEF b
<1>5. /\ life'[s] = to /\ life'[t] = life[t] /\ wire'[t] = wire[t] /\ raw'[t] = raw[t]
      /\ wire'[s] = Leave(s, n) /\ raw'[s] = b /\ life' \in [Sides -> Lives]
  BY <1>1, <1>3, <1>4 DEF LinkInv, LinkTypes, Lives
<1>6. /\ SideOK(s) /\ part[s] = <<>> /\ delivered[s] = <<>> /\ written[s] = <<>> 
      /\ stage[s] < Len(Flights(s))
  BY DEF LinkInv, SideOK
<1>7. LinkTypes'
  <2>1. Leave(s, n) \in Seq(Unit)
    BY Ranges DEF Leave, Readable
  <2>2. raw' \in [Sides -> Seq(Unit)] /\ wire' \in [Sides -> Seq(Unit)]
    BY <1>2, <1>4, <2>1 DEF LinkInv, LinkTypes
  <2> QED
    BY <1>4, <1>5, <2>2 DEF LinkInv, LinkTypes
<1>8. \A q \in Sides : MadeBy(q, stage[q])' = MadeBy(q, stage[q])
  BY <1>4 DEF MadeBy
<1>9. /\ Live(t)' => Live(t) /\ Made(t)' = Made(t)
      /\ Live(s)' => Live(s) /\ Made(s)' = Made(s)
  BY <1>1, <1>5, <1>8 DEF Live, Made
<1>10. DirOK(s)' /\ NoEnd(part'[s] \o raw'[s])
  <2>1. part'[s] \o raw'[s] = b
    <3>1. part'[s] = <<>> /\ raw'[s] = b
      BY <1>4, <1>5, <1>6
    <3> QED
      BY <1>2, <3>1
  <2>2. Shift(b, b, 0) /\ 0 \in Nat /\ \A i \in 1..0 : b[i] \notin Stops
    BY <1>2 DEF Shift
  <2>3. Behind(s)' = Behind(s) + 0 /\ Live(s)
    <3>1. Behind(s)' = Behind(s) /\ Behind(s) \in Nat
      BY <1>4, Ranges DEF Behind
    <3> QED
      BY <3>1 DEF Live
  <2> QED
    BY <1>1, <1>2, <1>4, <1>5, <1>9, <1>b, <2>1, <2>2, <2>3, DirRead
<1>11. DirOK(t)'
  <2>1. Ahead(t)' = Ahead(t) /\ Behind(t)' = Behind(t)
    BY <1>4, <1>5 DEF Ahead, Behind
  <2> QED
    BY <1>1, <1>4, <1>9, <2>1, DirKept DEF LinkInv
<1>12. SideOK(t)'
  BY <1>1, <1>4, <1>5, Ranges, SideKept DEF LinkInv
<1>13. SideOK(s)'
  <2>1. Flights(s)' = Flights(s)
    BY <1>4 DEF Flights
  <2> QED
    BY <1>4, <1>5, <1>6, <1>10, <2>1 DEF SideOK
<1>14. life'["client"] = "idle" => life'["server"] = "idle"
  BY <1>1, <1>5 DEF LinkInv, Sides
<1> QED
  BY <1>1, <1>7, <1>10, <1>11, <1>12, <1>13, <1>14 DEF LinkInv

\* A read during the upgrade that takes the flight the side waits for and answers it.
Follows(s, n, answer) ==
    /\ stage' = [stage EXCEPT ![s] = @ + 1]
    /\ wire' = [wire EXCEPT ![s] = Leave(s, n), ![Other(s)] =
                 IF life[Other(s)] = "gone" THEN @ ELSE @ \o Units(answer)]
    /\ life' = [life EXCEPT ![s] = IF Refuses(answer) THEN "dead"
                                   ELSE IF stage[s] + 1 = Len(Flights(s)) THEN "open" ELSE @]
    /\ IF stage[s] + 1 = Len(Flights(s)) /\ PassesOn(s)
       THEN Parse(s, Tail(Held(s, n))) /\ raw' = [raw EXCEPT ![s] = <<>>]
       ELSE raw' = [raw EXCEPT ![s] = Tail(Held(s, n))] /\ UNCHANGED <<part, delivered>>
    /\ UNCHANGED <<kind, written>>

\* What the reader keeps, k units further on.
KeptFrom(s, b, k, z) ==
    /\ k \in Nat /\ z \in Seq(Unit) /\ Shift(z, b, k) /\ \A i \in 1..k : b[i] \notin Stops
    /\ part'[s] \o raw'[s] = z /\ Behind(s)' = Behind(s) + k
    /\ part' \in [Sides -> Seq(Unit)] /\ raw' \in [Sides -> Seq(Unit)]
    /\ delivered' \in [Sides -> Seq(Nat)] /\ Numbered(delivered'[s])
    /\ Len(delivered'[s]) <= Len(written[Other(s)])
    /\ \A q \in Sides : q # s => part'[q] = part[q] /\ raw'[q] = raw[q] /\ delivered'[q] = delivered[q]
    /\ stage[s] + 1 # Len(Flights(s)) => part'[s] = <<>> /\ delivered'[s] = <<>>

\* The first unit read is dropped, and the frames behind it when they are passed on.
LEMMA FollowsKeeps ==
    ASSUME LinkInv, NEW s \in Sides, life[s] = "upgrading", NEW n \in Readable(s), NEW answer,
           Follows(s, n, answer), NEW b, b = Held(s, n), b[1] \notin Stops
    PROVE  \E k, z : KeptFrom(s, b, k, z)
<1> DEFINE t == Other(s)
           y == Tail(b)
           v == Len(written[t])
<1>1. t \in Sides /\ t # s /\ Other(t) = s /\ \A q \in Sides : q = s \/ q = t
  BY TwoSides
<1>2. b \in Seq(Unit) /\ Len(b) \in Nat /\ Len(b) >= 1
  BY HeldUnits
<1>3. y \in Seq(Unit) /\ Len(y) \in Nat /\ Len(y) + 1 = Len(b) /\ \A i \in 1..Len(y) : y[i] = b[i + 1]
  BY <1>2
<1>4. /\ SideOK(s) /\ part[s] = <<>> /\ delivered[s] = <<>> /\ Live(s)
      /\ stage[s] \in Nat /\ v \in Nat /\ Len(Flights(s)) \in Nat
      /\ stage' = [stage EXCEPT ![s] = @ + 1] /\ stage'[s] = stage[s] + 1
  BY Ranges DEF LinkInv, LinkTypes, SideOK, Live, Follows
<1>5. Len(delivered[s]) = 0 /\ Numbered(delivered[s]) /\ delivered[s] \in Seq(Nat)
  BY <1>4 DEF Numbered
<1>6. CASE ~(stage[s] + 1 = Len(Flights(s)) /\ PassesOn(s))
  <2>1. raw' = [raw EXCEPT ![s] = y] /\ part' = part /\ delivered' = delivered
    BY <1>6 DEF Follows
  <2>2. raw'[s] = y /\ part'[s] = <<>> /\ delivered'[s] = <<>> /\ \A q \in Sides : q # s => raw'[q] = raw[q]
    BY <1>4, <2>1 DEF LinkInv, LinkTypes
  <2> HIDE DEF y
  <2>3. /\ part' \in [Sides -> Seq(Unit)] /\ raw' \in [Sides -> Seq(Unit)]
        /\ delivered' \in [Sides -> Seq(Nat)]
    BY <1>3, <2>1 DEF LinkInv, LinkTypes
  <2>4. part'[s] \o raw'[s] = y
    <3>1. <<>> \o y = y
      BY <1>3
    <3> QED
      BY <2>2, <3>1
  <2>5. Behind(s)' = Behind(s) + 1
    BY <1>4, <1>5, <2>2 DEF Behind
  <2>6. Shift(y, b, 1) /\ 1 \in Nat /\ \A i \in 1..1 : b[i] \notin Stops
    BY <1>3 DEF Shift
  <2>7. Numbered(delivered'[s]) /\ Len(delivered'[s]) <= Len(written[Other(s)])
    BY <1>4, <1>5, <2>1
  <2>8. KeptFrom(s, b, 1, y)
    BY <1>3, <2>1, <2>2, <2>3, <2>4, <2>5, <2>6, <2>7 DEF KeptFrom
  <2> QED
    BY <2>8
<1>7. CASE stage[s] + 1 = Len(Flights(s)) /\ PassesOn(s)
  <2>1. FollowOn(s, b, 1)
    BY <1>4, <1>7, HeldFrames
  <2> DEFINE m == Len(y) \div 2
             z == RestOf(y)
             q == delivered[s]
             h == 1 + 2 * m
  <2>2. ParseFacts(y, 0, v, q)
    <3>1. \A i \in 1..Len(y) : i + 1 \in 1..Len(b) /\ i + 1 > 1 /\ (i + 1) - 1 = i /\ 2 * 0 + i = i
      BY <1>3
    <3>2. \A i \in 1..Len(y) : y[i] = Byte(2 * 0 + i) /\ 2 * 0 + i <= 2 * v
      BY <1>3, <1>5, <2>1, <3>1 DEF FollowOn
    <3>3. Len(q) = 0 /\ Numbered(q) /\ q \in Seq(Nat) /\ 0 \in Nat /\ 0 <= v
      BY <1>4, <1>5
    <3> HIDE DEF y, v, q
    <3> QED
      BY ONLY <1>3, <1>4, <3>2, <3>3, Parsed
  <2>3. /\ q \o FramesIn(y) \in Seq(Nat) /\ Len(q \o FramesIn(y)) = 0 + m
        /\ Numbered(q \o FramesIn(y)) /\ 0 + m <= v
        /\ z \in Seq(Unit) /\ Shift(z, y, 2 * m)
    BY <2>2 DEF ParseFacts
  <2>4. /\ delivered' = [delivered EXCEPT ![s] = @ \o FramesIn(y)]
        /\ part' = [part EXCEPT ![s] = z] /\ raw' = [raw EXCEPT ![s] = <<>>]
    BY <1>7 DEF Follows, Parse
  <2>5. m \in Nat /\ 0 + m = m /\ h \in Nat /\ h <= Len(b)
    BY <1>3
  <2>h. h = 1 + 2 * m
    OBVIOUS
  <2> HIDE DEF y, z, m, h
  <2>6. Shift(z, b, h)
    <3>1. /\ Len(z) + 2 * m = Len(y) /\ \A i \in 1..Len(z) : z[i] = y[i + 2 * m]
          /\ Len(z) \in Nat
      BY <2>3 DEF Shift
    <3>2. \A i \in 1..Len(z) : i + 2 * m \in 1..Len(y) /\ (i + 2 * m) + 1 = i + h
      BY ONLY <1>3, <2>5, <2>h, <3>1
    <3>3. Len(z) + h = Len(b)
      BY ONLY <1>2, <1>3, <2>5, <2>h, <3>1
    <3>4. \A i \in 1..Len(z) : z[i] = b[i + h]
      BY ONLY <1>3, <3>1, <3>2
    <3> QED
      BY <3>3, <3>4 DEF Shift
  <2>7. \A i \in 1..h : b[i] \notin Stops
    <3>1. \A i \in 1..h : i \in 1..Len(b)
      BY ONLY <1>2, <2>5
    <3> QED
      BY <2>1, <3>1 DEF FollowOn
  <2>8. /\ delivered'[s] = q \o FramesIn(y) /\ part'[s] = z /\ raw'[s] = <<>>
        /\ \A r \in Sides : r # s => /\ part'[r] = part[r] /\ raw'[r] = raw[r] 
                                     /\ delivered'[r] = delivered[r]
    BY <2>4 DEF LinkInv, LinkTypes
  <2>9. /\ part' \in [Sides -> Seq(Unit)] /\ raw' \in [Sides -> Seq(Unit)]
        /\ delivered' \in [Sides -> Seq(Nat)]
    <3>1. <<>> \in Seq(Unit)
      OBVIOUS
    <3> QED
      BY <2>3, <2>4, <3>1 DEF LinkInv, LinkTypes
  <2>10. part'[s] \o raw'[s] = z
    <3>1. z \o <<>> = z
      BY <2>3
    <3> QED
      BY <2>8, <3>1
  <2>11. Behind(s)' = Behind(s) + h
    <3>1. Behind(s)' = (stage[s] + 1) + 2 * m /\ Behind(s) = stage[s] + 2 * 0
      BY <1>4, <1>5, <2>3, <2>5, <2>8 DEF Behind
    <3>2. (stage[s] + 1) + 2 * m = (stage[s] + 2 * 0) + (1 + 2 * m)
      BY <1>4, <2>5
    <3> QED
      BY <3>1, <3>2 DEF h
  <2>12. Numbered(delivered'[s]) /\ Len(delivered'[s]) <= Len(written[Other(s)])
    BY <2>3, <2>5, <2>8
  <2>13. KeptFrom(s, b, h, z)
    BY <1>7, <2>3, <2>5, <2>6, <2>7, <2>8, <2>9, <2>10, <2>11, <2>12 DEF KeptFrom
  <2> QED
    BY <2>13
<1> QED
  BY <1>6, <1>7

\* A flight that is taken and answered keeps the invariant.
LEMMA FollowsStep ==
    ASSUME LinkInv, NEW s \in Sides, life[s] = "upgrading", NEW n \in Readable(s),
           NEW answer \in Flights(s)[stage[s] + 1].reply,
           Head(Held(s, n)) = <<Flights(s)[stage[s] + 1].on>>, Follows(s, n, answer)
    PROVE  LinkInv' /\ Len(delivered[s]) <= Len(delivered'[s])
<1> DEFINE t == Other(s)
           b == Held(s, n)
           u == Units(answer)
           j == stage[s]
           fs == Flights(s)
           ft == Flights(t)
<1>1. t \in Sides /\ t # s /\ Other(t) = s /\ \A q \in Sides : q = s \/ q = t
  BY TwoSides
<1>2. b \in Seq(Unit) /\ Len(b) \in Nat /\ Len(b) >= 1 /\ Head(b) = b[1]
  <2>1. b \in Seq(Unit) /\ Len(b) \in Nat /\ Len(b) >= 1
    BY HeldUnits
  <2> QED
    BY <2>1
<1>3. /\ SideOK(s) /\ part[s] = <<>> /\ delivered[s] = <<>> /\ written[s] = <<>> /\ Live(s)
      /\ j \in Nat /\ Len(written[t]) \in Nat /\ Len(fs) \in Nat /\ Len(ft) \in Nat /\ j < Len(fs)
      /\ kind \in LinkKinds
  BY <1>1, Ranges DEF LinkInv, LinkTypes, SideOK, Live
<1>4. b[1] \notin Stops
  <2>1. j + 1 \in 1..Len(fs)
    BY <1>3
  <2>2. <<fs[j + 1].on>> \notin Stops
    BY <1>3, <2>1, AwaitedIsNoStop
  <2> QED
    BY <1>2, <2>2
<1>5. AnswerFits(s, j, answer)
  BY <1>3, AnswersFit
<1>6. u \in Seq(Unit) /\ Len(u) \in Nat
  BY <1>5 DEF AnswerFits, ItemsFrom
<1>7. PICK k, z : KeptFrom(s, b, k, z)
  BY <1>4, FollowsKeeps
<1>8. /\ stage' = [stage EXCEPT ![s] = @ + 1]
      /\ wire' = [wire EXCEPT ![s] = Leave(s, n), ![t] = IF life[t] = "gone" THEN @ ELSE @ \o u]
      /\ UNCHANGED <<kind, written>>
  BY DEF Follows
<1>9. PICK to \in {"dead", "open", "upgrading"} :
        /\ life' = [life EXCEPT ![s] = to]
        /\ to = "dead" <=> Refuses(answer)
        /\ to = "open" => j + 1 = Len(fs)
        /\ to = "upgrading" => j + 1 # Len(fs)
  <2> DEFINE x == IF Refuses(answer) THEN "dead" ELSE IF j + 1 = Len(fs) THEN "open" ELSE life[s]
  <2>1. life' = [life EXCEPT ![s] = x]
    BY DEF Follows
  <2>2. /\ x \in {"dead", "open", "upgrading"} /\ (x = "dead" <=> Refuses(answer))
        /\ x = "open" => j + 1 = Len(fs)
        /\ x = "upgrading" => j + 1 # Len(fs)
    OBVIOUS
  <2> HIDE DEF x
  <2> QED
    BY <2>1, <2>2
<1>b. b = Held(s, n) /\ (Refuses(answer) => Len(u) = 1 /\ u[1] \in Refusals)
  BY <1>5 DEF AnswerFits
<1> HIDE DEF b, u
<1>10. /\ life'[s] = to /\ life'[t] = life[t] /\ life' \in [Sides -> Lives]
       /\ stage'[s] = j + 1 /\ stage'[t] = stage[t] /\ stage' \in [Sides -> Nat]
       /\ wire'[s] = Leave(s, n)
       /\ wire'[t] = IF life[t] = "gone" THEN wire[t] ELSE wire[t] \o u
  BY <1>1, <1>3, <1>8, <1>9 DEF LinkInv, LinkTypes, Lives
<1>11. LinkTypes'
  <2>1. Leave(s, n) \in Seq(Unit)
    BY Ranges DEF Leave, Readable
  <2>2. wire[t] \o u \in Seq(Unit) /\ wire[t] \in Seq(Unit)
    <3>1. wire[t] \in Seq(Unit)
      BY <1>1, Ranges
    <3> QED
      BY <1>6, <3>1
  <2>3. wire' \in [Sides -> Seq(Unit)]
    BY <1>8, <2>1, <2>2 DEF LinkInv, LinkTypes
  <2>4. part' \in [Sides -> Seq(Unit)] /\ raw' \in [Sides -> Seq(Unit)] /\ delivered' \in [Sides -> Seq(Nat)]
    BY <1>7 DEF KeptFrom
  <2> QED
    BY <1>8, <1>10, <2>3, <2>4 DEF LinkInv, LinkTypes
<1>12. MadeBy(t, stage[t])' = MadeBy(t, stage[t]) /\ MadeBy(s, stage[s])' = MadeBy(s, j + 1)
  BY <1>8, <1>10 DEF MadeBy
<1>13. Live(t)' = Live(t) /\ Made(t)' = Made(t)
  BY <1>10, <1>12 DEF Live, Made
<1>14. Made(s) = MadeBy(s, j) /\ Made(s)' = MadeBy(s, j + 1)
  BY <1>9, <1>10, <1>12 DEF Made
<1>15. DirOK(s)' /\ NoEnd(part'[s] \o raw'[s])
  <2>1. /\ k \in Nat /\ z \in Seq(Unit) /\ Shift(z, b, k) /\ \A i \in 1..k : b[i] \notin Stops
        /\ part'[s] \o raw'[s] = z /\ Behind(s)' = Behind(s) + k
    BY <1>7 DEF KeptFrom
  <2> QED
    BY <1>1, <1>3, <1>8, <1>10, <1>13, <1>b, <2>1, DirRead
<1>16. DirOK(t)'
  <2>1. CASE ~Live(t)
    BY <1>13, <2>1 DEF DirOK
  <2>2. CASE Live(t)
    <3>1. part'[t] = part[t] /\ raw'[t] = raw[t] /\ delivered'[t] = delivered[t]
      BY <1>1, <1>7 DEF KeptFrom
    <3>2. Ahead(t)' = Ahead(t) \o u
      <4>1. part[t] \o raw[t] \in Seq(Unit) /\ wire[t] \in Seq(Unit)
        BY <1>1, Ranges
      <4>2. Ahead(t)' = (part[t] \o raw[t]) \o (wire[t] \o u)
        BY <1>10, <2>2, <3>1 DEF Ahead, Live
      <4>3. (part[t] \o raw[t]) \o (wire[t] \o u) = ((part[t] \o raw[t]) \o wire[t]) \o u
        <5> DEFINE a == part[t] \o raw[t]
        <5> DEFINE w == wire[t]
        <5>1. a \in Seq(Unit) /\ w \in Seq(Unit) /\ u \in Seq(Unit)
          BY <1>6, <4>1
        <5> HIDE DEF a, w
        <5>2. (a \o w) \o u = a \o (w \o u)
          BY ONLY <5>1, ConcatAssociative
        <5> QED
          BY <5>2 DEF a, w
      <4> QED
        BY <4>2, <4>3 DEF Ahead
    <3>3. Behind(t)' = Behind(t)
      BY <1>10, <3>1 DEF Behind
    <3>4. written'[s] = written[s] /\ Len(written[s]) = 0 /\ Len(written'[s]) = 0
      BY <1>3, <1>8
    <3> DEFINE m == MadeBy(s, j)
    <3>5. m \in Nat /\ m + 2 * 0 = m
      <4>1. j \in 0..Len(fs)
        BY <1>3
      <4>2. m \in Nat
        BY <1>3, <4>1, FlightCounts
      <4> HIDE DEF m
      <4> QED
        BY <4>2
    <3>6. Fits(t, u, m, 0)
      <4>1. CASE Refuses(answer)
        <5>1. m + 1 <= Len(ft)
          BY <1>1, <1>5, <4>1 DEF AnswerFits
        <5>0. Len(u) = 1
          BY <1>b, <4>1
        <5>2. \A i \in 1..Len(u) : i = 1
          BY ONLY <5>0
        <5> QED
          BY <1>b, <4>1, <5>1, <5>2 DEF Fits
      <4>2. CASE ~Refuses(answer)
        <5>1. /\ m + Len(u) <= Len(ft) /\ Clear(u)
              /\ \A i \in 1..Len(u) : u[i] = <<ft[m + i].on>>
          BY <1>1, <1>5, <4>2 DEF AnswerFits, ItemsFrom, u
        <5>2. \A i \in 1..Len(u) : m + i <= Len(ft) /\ m + i <= Len(ft) + 2 * 0
          <6> HIDE DEF m, ft
          <6>1. Len(ft) \in Nat
            BY <1>3
          <6> QED
            BY ONLY <1>6, <3>5, <5>1, <6>1
        <5> HIDE DEF m
        <5> QED
          BY <5>1, <5>2 DEF Fits, ItemOf, Clear, Stops
      <4> QED
        BY <4>1, <4>2
    <3>7. Live(s)' => Clear(u) /\ Made(s)' + 2 * 0 = m + 2 * 0 + Len(u)
      <4>1. Live(s)' => ~Refuses(answer)
        BY <1>9, <1>10 DEF Live
      <4>2. ~Refuses(answer) => Clear(u) /\ m + Len(u) = MadeBy(s, j + 1)
        BY <1>5 DEF AnswerFits, ItemsFrom, u
      <4>3. Made(s)' = MadeBy(s, j + 1)
        BY <1>14
      <4> HIDE DEF m
      <4>4. m + Len(u) \in Nat /\ m + 2 * 0 + Len(u) = m + Len(u) /\ (m + Len(u)) + 2 * 0 = m + Len(u)
        BY <1>6, <3>5
      <4> QED
        BY <4>1, <4>2, <4>3, <4>4
    <3>8. Made(s) = m /\ Made(s) + 2 * 0 = m
      BY <1>14, <3>5
    <3>9. 0 \in Nat /\ 0 <= 0
      OBVIOUS
    <3> HIDE DEF m
    <3> QED
      BY <1>1, <1>3, <1>6, <1>8, <1>13, <3>2, <3>3, <3>4, <3>6, <3>7, <3>8, <3>9, DirSend
  <2> QED
    BY <2>1, <2>2
<1>17. SideOK(t)'
  <2>1. part'[t] = part[t] /\ raw'[t] = raw[t] /\ delivered'[t] = delivered[t]
    BY <1>1, <1>7 DEF KeptFrom
  <2> QED
    BY <1>1, <1>8, <1>10, <2>1, Ranges, SideKept DEF LinkInv
<1>18. SideOK(s)'
  <2>1. /\ Numbered(delivered'[s]) /\ Len(delivered'[s]) <= Len(written[t])
        /\ j + 1 # Len(fs) => part'[s] = <<>> /\ delivered'[s] = <<>>
    BY <1>7 DEF KeptFrom
  <2>2. Flights(s)' = fs
    BY <1>8 DEF Flights
  <2>3. j + 1 <= Len(fs) /\ (j + 1 # Len(fs) => j + 1 < Len(fs))
    BY <1>3
  <2>4. written'[s] = written[s] /\ written'[t] = written[t]
    BY <1>8
  <2> HIDE DEF j, fs
  <2> QED
    BY <1>3, <1>9, <1>10, <1>15, <2>1, <2>2, <2>3, <2>4 DEF SideOK
<1>19. life'["client"] = "idle" => life'["server"] = "idle"
  BY <1>1, <1>9, <1>10 DEF LinkInv, Sides
<1>20. Len(delivered[s]) <= Len(delivered'[s])
  <2>1. delivered'[s] \in Seq(Nat) /\ Len(delivered[s]) = 0
    BY <1>3, <1>7 DEF KeptFrom
  <2>2. Len(delivered'[s]) \in Nat
    BY <2>1
  <2> QED
    BY <2>1, <2>2
<1> QED
  BY <1>1, <1>11, <1>15, <1>16, <1>17, <1>18, <1>19, <1>20 DEF LinkInv

\* A read during the upgrade waits on, or follows the upgrade one flight further.
LEMMA UpgradingSplit ==
    ASSUME LinkInv, NEW s \in Sides, ReadUpgrading(s)
    PROVE  /\ life[s] = "upgrading"
           /\ \E n \in Readable(s) :
                \/ Waits(s, n)
                \/ /\ Head(Held(s, n)) = <<Flights(s)[stage[s] + 1].on>>
                   /\ \E answer \in Flights(s)[stage[s] + 1].reply : Follows(s, n, answer)
<1>1. life[s] = "upgrading" /\ part[s] = <<>> /\ raw[s] \in Seq(Unit)
  BY DEF ReadUpgrading, LinkInv, LinkTypes, SideOK
<1>2. PICK n \in Readable(s) :
        \/ Waits(s, n)
        \/ /\ Head(Held(s, n)) = <<Flights(s)[stage[s] + 1].on>>
           /\ \E answer \in Flights(s)[stage[s] + 1].reply : Follows(s, n, answer)
  <2>1. \A n \in Readable(s) : raw[s] \o Take(s, n) = Held(s, n)
    <3>1. <<>> \o raw[s] = raw[s]
      BY <1>1
    <3> QED
      BY <1>1, <3>1 DEF Held
  <2>2. PICK n \in Readable(s) : 
        IF Head(Held(s, n)) # <<Flights(s)[stage[s] + 1].on>>
        THEN /\ raw' = [raw EXCEPT ![s] = Held(s, n)]
             /\ wire' = [wire EXCEPT ![s] = Leave(s, n)]
             /\ life' = [life EXCEPT ![s] = IF Head(Held(s, n)) = <<"alert">> THEN "failed" ELSE @]
             /\ UNCHANGED <<stage, part, delivered>>
        ELSE \E answer \in Flights(s)[stage[s] + 1].reply : 
             /\ stage' = [stage EXCEPT ![s] = @ + 1]
             /\ wire' = [wire EXCEPT ![s] = Leave(s, n), ![Other(s)] =
                              IF life[Other(s)] = "gone" THEN @ ELSE @ \o Units(answer)]
             /\ life' = [life EXCEPT ![s] =
                              IF answer \in {<<"alert">>, <<"403">>} THEN "dead"
                              ELSE IF stage[s] + 1 = Len(Flights(s)) THEN "open" ELSE @]
             /\ IF stage[s] + 1 = Len(Flights(s)) /\ PassesOn(s)
                THEN Parse(s, Tail(Held(s, n))) /\ raw' = [raw EXCEPT ![s] = <<>>]
                ELSE raw' = [raw EXCEPT ![s] = Tail(Held(s, n))] /\ UNCHANGED <<part, delivered>>
    BY <2>1 DEF ReadUpgrading
  <2>3. UNCHANGED <<kind, written>>
    BY DEF ReadUpgrading
  <2>4. CASE Head(Held(s, n)) # <<Flights(s)[stage[s] + 1].on>>
    BY <2>2, <2>3, <2>4 DEF Waits
  <2>5. CASE Head(Held(s, n)) = <<Flights(s)[stage[s] + 1].on>>
    BY <2>2, <2>3, <2>5 DEF Follows, Refuses
  <2> QED
    BY <2>4, <2>5
<1> QED
  BY <1>1, <1>2

\* A read during the upgrade keeps the invariant.
LEMMA UpgradingStep ==
    ASSUME LinkInv, NEW s \in Sides, ReadUpgrading(s)
    PROVE  LinkInv' /\ Len(delivered[s]) <= Len(delivered'[s])
<1>1. life[s] = "upgrading"
  BY DEF ReadUpgrading
<1>2. PICK n \in Readable(s) :
        \/ Waits(s, n)
        \/ /\ Head(Held(s, n)) = <<Flights(s)[stage[s] + 1].on>>
           /\ \E answer \in Flights(s)[stage[s] + 1].reply : Follows(s, n, answer)
  BY UpgradingSplit
<1>3. CASE Waits(s, n)
  <2>1. delivered' = delivered /\ Len(delivered[s]) \in Nat
    BY <1>3, Ranges DEF Waits
  <2> QED
    BY <1>1, <1>3, <2>1, WaitsStep
<1>4. ASSUME NEW answer \in Flights(s)[stage[s] + 1].reply, Follows(s, n, answer),
             Head(Held(s, n)) = <<Flights(s)[stage[s] + 1].on>>
      PROVE  LinkInv' /\ Len(delivered[s]) <= Len(delivered'[s])
  BY <1>1, <1>4, FollowsStep
<1> QED
  BY <1>2, <1>3, <1>4

-----------------------------------------------------------------------------
\* Before a connection is made nothing is ahead of either side.
LEMMA LinkInvInit == LinkInit => LinkInv
<1> SUFFICES ASSUME LinkInit PROVE LinkInv
  OBVIOUS
<1>1. /\ <<>> \in Seq(Unit) /\ <<>> \in Seq(Nat) /\ <<>> \o <<>> = <<>> /\ Len(<<>>) = 0
      /\ Sides = {"client", "server"}
  BY DEF Sides
<1>2. LinkTypes
  BY <1>1 DEF LinkInit, LinkTypes, Lives
<1>3. ASSUME NEW s \in Sides
      PROVE  /\ life[s] = "idle" /\ stage[s] = 0 /\ wire[s] = <<>> /\ raw[s] = <<>> /\ part[s] = <<>>
             /\ written[s] = <<>> /\ delivered[s] = <<>> /\ Other(s) \in Sides
             /\ Len(Flights(s)) \in Nat
  BY <1>2, <1>3, TwoSides, FlightCounts DEF LinkInit, LinkTypes
<1>4. ASSUME NEW s \in Sides PROVE SideOK(s)
  <2>1. \A i \in 1..0 : FALSE
    OBVIOUS
  <2>2. Len(written[Other(s)]) = 0
    BY <1>1, <1>3, <1>4
  <2>3. Numbered(<<>>) /\ NoEnd(<<>>)
    BY <1>1, <2>1 DEF Numbered, NoEnd
  <2>4. NoEnd(part[s] \o raw[s])
    BY <1>1, <1>3, <2>3
  <2>5. Numbered(written[s]) /\ Numbered(delivered[s]) /\ Len(delivered[s]) <= Len(written[Other(s)])
    BY <1>1, <1>3, <2>2, <2>3
  <2>6. stage[s] <= Len(Flights(s))
    BY <1>3
  <2> QED
    BY <1>3, <2>4, <2>5, <2>6 DEF SideOK
<1>5. ASSUME NEW s \in Sides PROVE DirOK(s)
  <2>0. Ahead(s) = (<<>> \o <<>>) \o <<>> /\ Behind(s) = 0 + 2 * 0
    BY <1>1, <1>3 DEF Ahead, Behind
  <2>1. Ahead(s) = <<>> /\ Behind(s) = 0 /\ Len(written[Other(s)]) = 0 /\ Len(Ahead(s)) = 0
    BY <1>1, <1>3, <2>0
  <2>2. \A i \in 1..0 : FALSE
    OBVIOUS
  <2>3. OnTrack(Flights(s), Ahead(s), Behind(s), Len(written[Other(s)])) /\ Clear(Ahead(s))
    BY <2>1, <2>2 DEF OnTrack, Clear
  <2>4. Made(Other(s)) = 0
    <3>1. life[Other(s)] = "idle" /\ stage[Other(s)] = 0
      BY <1>3
    <3>2. CASE Other(s) = "client"
      BY <3>1, <3>2 DEF Made
    <3>3. CASE Other(s) = "server"
      <4>1. kind \in {"tcp", "websocket", "tls", "fronted"}
        BY <1>2, StreamLinkAssumption DEF LinkTypes
      <4> QED
        BY <3>1, <3>3, <4>1 DEF Made, MadeBy
    <3> QED
      BY <1>3, <3>2, <3>3 DEF Sides
  <2> QED
    BY <2>1, <2>3, <2>4 DEF DirOK, Flowing
<1> QED
  BY <1>2, <1>3, <1>4, <1>5, <1>1 DEF LinkInv

\* What a side received never shrinks.
LEMMA LinkInvNext ==
    ASSUME LinkInv, [LinkNext]_linkVars
    PROVE  LinkInv' /\ \A s \in Sides : Len(delivered[s]) <= Len(delivered'[s])
<1>1. CASE UNCHANGED linkVars
  <2>1. LinkInv'
    BY <1>1, SMTT(60), ZenonT(60) DEF linkVars, LinkInv, LinkTypes, SideOK, DirOK, Flowing, Ahead, Behind, Live, Made, MadeBy,
                Flights, OnTrack
  <2> QED
    BY <1>1, <2>1, Ranges DEF linkVars
<1> DEFINE Same == delivered' = delivered
<1>2. ASSUME Same PROVE \A s \in Sides : Len(delivered[s]) <= Len(delivered'[s])
  BY <1>2, Ranges
<1>3. CASE Dialled
  BY <1>2, <1>3, DialStep DEF Dialled
<1>4. CASE DialFails
  <2>1. "client" \in Sides /\ "failed" \in Lives
    BY DEF Sides, Lives
  <2> QED
    BY <1>2, <1>4, <2>1, LifeChanges DEF DialFails
<1>5. CASE Accepted
  <2>1. "server" \in Sides /\ Connected("server") \in Lives
    BY DEF Sides, Lives, Connected
  <2> QED
    BY <1>2, <1>5, <2>1, LifeChanges DEF Accepted
<1>6. CASE ServerDies
  <2>1. "server" \in Sides /\ life["server"] # "idle"
    BY <1>6 DEF Sides, ServerDies
  <2> QED
    BY <1>2, <1>6, <2>1, CutChanges DEF ServerDies
<1>7. ASSUME NEW s \in Sides, ReadOpen(s) \/ ReadUpgrading(s)
      PROVE  LinkInv' /\ \A q \in Sides : Len(delivered[q]) <= Len(delivered'[q])
  <2>1. LinkInv' /\ Len(delivered[s]) <= Len(delivered'[s])
    BY <1>7, ReadOpenStep, UpgradingStep
  <2>2. \A q \in Sides : q # s => delivered'[q] = delivered[q]
    <3>1. CASE delivered' = delivered
      BY <3>1
    <3>2. ASSUME NEW e, delivered' = [delivered EXCEPT ![s] = e]
          PROVE  \A q \in Sides : q # s => delivered'[q] = delivered[q]
      BY <3>2 DEF LinkInv, LinkTypes
    <3> QED
      BY <1>7, <3>1, <3>2 DEF ReadOpen, ReadUpgrading, Parse
  <2> QED
    BY <2>1, <2>2, Ranges
<1>8. ASSUME NEW s \in Sides, ReadEnd(s) PROVE LinkInv' /\ Same
  BY <1>8, ReadEndStep DEF ReadEnd
<1>9. ASSUME NEW s \in Sides, Send(s) PROVE LinkInv' /\ Same
  BY <1>9, SendStep DEF Send
<1>10. ASSUME NEW s \in Sides, Close(s) PROVE LinkInv' /\ Same
  <2>1. "closing" \in Lives /\ life[s] # "idle"
    BY <1>10 DEF Close, Lives
  <2> QED
    BY <1>10, <2>1, LifeChanges DEF Close
<1>11. ASSUME NEW s \in Sides, CloseEnds(s) PROVE LinkInv' /\ Same
  <2>1. life[s] # "idle"
    BY <1>11 DEF CloseEnds
  <2> QED
    BY <1>11, <2>1, CutChanges DEF CloseEnds
<1> QED
  BY <1>1, <1>2, <1>3, <1>4, <1>5, <1>6, <1>7, <1>8, <1>9, <1>10, <1>11 DEF LinkNext, Read

-----------------------------------------------------------------------------
\* The fronting host lets a client through only with the last answer of the server: until
\* then the client sends nothing that a refusal could leave behind.
Plain == Unit \ {<<"200">>}
Unanswered ==
    kind = "fronted" /\ stage["server"] < 3 =>
        /\ life["client"] # "open" /\ written["client"] = <<>>
        /\ raw["client"] \in Seq(Plain) /\ wire["client"] \in Seq(Plain)

\* Reading and cutting a stream add no permission to it.
LEMMA PlainStreams ==
    ASSUME NEW x, x \in Seq(Plain), NEW y, y \in Seq(Plain), NEW n \in Nat, n <= Len(x)
    PROVE  /\ SubSeq(x, 1, n) \in Seq(Plain) /\ SubSeq(x, n + 1, Len(x)) \in Seq(Plain)
           /\ y \o SubSeq(x, 1, n) \in Seq(Plain)
           /\ y \o SubSeq(x, 1, n) # <<>> => /\ Tail(y \o SubSeq(x, 1, n)) \in Seq(Plain)
                                             /\ Head(y \o SubSeq(x, 1, n)) \in Plain
           /\ Append(SubSeq(x, 1, n), EndOfStream) \in Seq(Plain)
<1>1. Len(x) \in Nat /\ EndOfStream \in Plain
  BY DEF Plain, Unit, EndOfStream, Words
<1>2. SubSeq(x, 1, n) \in Seq(Plain)
  BY <1>1
<1>3. SubSeq(x, n + 1, Len(x)) \in Seq(Plain)
  BY <1>1
<1> DEFINE t == SubSeq(x, 1, n)
<1>4. t \in Seq(Plain)
  BY <1>2
<1> HIDE DEF t
<1>5. Append(t, EndOfStream) \in Seq(Plain) /\ y \o t \in Seq(Plain)
  BY <1>1, <1>4
<1>6. \A z \in Seq(Plain) : z # <<>> => Tail(z) \in Seq(Plain) /\ Head(z) \in Plain
  OBVIOUS
<1>7. y \o t # <<>> => Tail(y \o t) \in Seq(Plain) /\ Head(y \o t) \in Plain
  BY <1>5, <1>6
<1> QED
  BY <1>2, <1>3, <1>5, <1>7 DEF t

\* The last answer of the fronting host comes before the client opens.
LEMMA UnansweredNext ==
    ASSUME LinkInv, Unanswered, [LinkNext]_linkVars
    PROVE  Unanswered'
<1>1. kind' = kind /\ \A s \in Sides : stage[s] \in Nat /\ Other(s) \in Sides
  BY TwoSides, Ranges DEF LinkNext, linkVars, Dialled, DialFails, Accepted, ServerDies, Read, ReadOpen,
                 ReadUpgrading, ReadEnd, Send, Close, CloseEnds
<1>2. SUFFICES ASSUME kind = "fronted", stage'["server"] < 3
               PROVE  /\ life'["client"] # "open" /\ written'["client"] = <<>>
                      /\ raw'["client"] \in Seq(Plain) /\ wire'["client"] \in Seq(Plain)
  BY <1>1 DEF Unanswered
<1>3. /\ "client" \in Sides /\ "server" \in Sides /\ Sides = {"client", "server"}
      /\ Other("client") = "server" /\ Other("server") = "client"
      /\ Len(Flights("client")) = 2 /\ Len(Flights("server")) = 3
      /\ Flights("client")[2].on = "200"
      /\ <<>> \in Seq(Plain) /\ Flights("client") # <<>>
  BY <1>2 DEF Sides, Other, Flights, FrontedFlights
<1>4. ASSUME stage["server"] < 3
      PROVE  /\ life["client"] # "open" /\ written["client"] = <<>> /\ life["server"] # "open"
             /\ raw["client"] \in Seq(Plain) /\ wire["client"] \in Seq(Plain)
  <2>1. SideOK("server") /\ stage["server"] # 3
    BY <1>1, <1>3, <1>4 DEF LinkInv
  <2>2. life["server"] # "open"
    BY <1>3, <2>1 DEF SideOK
  <2> QED
    BY <1>2, <1>4, <2>2 DEF Unanswered
<1> DEFINE Kept == /\ written' = written /\ raw' = raw /\ stage' = stage
<1>5. ASSUME Kept, wire'["client"] = wire["client"], life'["client"] # "open"
      PROVE  /\ written'["client"] = <<>>
             /\ raw'["client"] \in Seq(Plain) /\ wire'["client"] \in Seq(Plain)
  BY <1>2, <1>4, <1>5
<1>6. ASSUME Cut("server"), stage["server"] < 3 PROVE wire'["client"] \in Seq(Plain)
  <2>1. PICK n \in 0..Len(wire["client"]) :
           \/ wire'["client"] = wire["client"]
           \/ wire'["client"] = Append(SubSeq(wire["client"], 1, n), EndOfStream)
    BY <1>3, <1>6, SMTT(60), ZenonT(60) DEF Cut, LinkInv, LinkTypes
  <2>2. wire["client"] \in Seq(Plain) /\ n \in Nat /\ n <= Len(wire["client"]) 
    BY <1>4, <1>6, <2>1
  <2> QED
    BY <2>1, <2>2, PlainStreams
<1>7. CASE UNCHANGED linkVars
  BY <1>2, <1>4, <1>7 DEF linkVars
<1>8. CASE Dialled
  <2>1. life'["client"] = "upgrading" /\ wire'["client"] = wire["client"]
    BY <1>3, <1>8 DEF Dialled, Connected, LinkInv, LinkTypes
  <2> QED
    BY <1>5, <1>8, <2>1 DEF Dialled
<1>9. CASE DialFails
  BY <1>3, <1>5, <1>9 DEF DialFails, LinkInv, LinkTypes
<1>10. CASE Accepted
  <2>1. life'["client"] = life["client"]
    BY <1>3, <1>10 DEF Accepted, LinkInv, LinkTypes
  <2> QED
    BY <1>2, <1>4, <1>5, <1>10, <2>1 DEF Accepted
<1>11. CASE ServerDies
  <2>1. life'["client"] = life["client"] /\ stage["server"] < 3
    BY <1>2, <1>3, <1>11 DEF ServerDies, LinkInv, LinkTypes
  <2> QED
    BY <1>4, <1>6, <1>11, <2>1 DEF ServerDies
<1>12. ASSUME NEW s \in Sides, ReadOpen(s)
       PROVE  FALSE
  <2>1. stage["server"] < 3
    BY <1>2, <1>12 DEF ReadOpen
  <2> QED
    BY <1>3, <1>4, <1>12, <2>1 DEF ReadOpen
<1>13. ASSUME NEW s \in Sides, Send(s)
       PROVE  FALSE
  <2>1. stage["server"] < 3
    BY <1>2, <1>13 DEF Send
  <2> QED
    BY <1>3, <1>4, <1>13, <2>1 DEF Send
<1>14. ASSUME NEW s \in Sides, ReadEnd(s)
       PROVE  /\ life'["client"] # "open" /\ written'["client"] = <<>>
              /\ raw'["client"] \in Seq(Plain) /\ wire'["client"] \in Seq(Plain)
  <2>1. stage["server"] < 3
    BY <1>2, <1>14 DEF ReadEnd
  <2>2. wire'["client"] \in {wire["client"], <<>>}
    BY <1>3, <1>14 DEF ReadEnd, LinkInv, LinkTypes
  <2>3. life'["client"] # "open"
    BY <1>3, <1>4, <1>14, <2>1 DEF ReadEnd, LinkInv, LinkTypes
  <2> QED
    BY <1>3, <1>4, <1>14, <2>1, <2>2, <2>3 DEF ReadEnd
<1>15. ASSUME NEW s \in Sides, Close(s)
       PROVE  /\ life'["client"] # "open" /\ written'["client"] = <<>>
              /\ raw'["client"] \in Seq(Plain) /\ wire'["client"] \in Seq(Plain)
  <2>1. stage["server"] < 3
    BY <1>2, <1>15 DEF Close
  <2> QED
    BY <1>3, <1>4, <1>15, <2>1 DEF Close
<1>16. ASSUME NEW s \in Sides, CloseEnds(s)
       PROVE  /\ life'["client"] # "open" /\ written'["client"] = <<>>
              /\ raw'["client"] \in Seq(Plain) /\ wire'["client"] \in Seq(Plain)
  <2>1. stage["server"] < 3
    BY <1>2, <1>16 DEF CloseEnds
  <2>2. life'["client"] # "open"
    BY <1>3, <1>4, <1>16, <2>1 DEF CloseEnds, LinkInv, LinkTypes
  <2>3. wire'["client"] \in Seq(Plain)
    <3>1. CASE s = "client"
      <4>1. wire'["client"] = wire["client"]
        BY <1>3, <1>16, <3>1 DEF CloseEnds, Cut, LinkInv, LinkTypes
      <4> QED
        BY <1>4, <2>1, <4>1
    <3>2. CASE s = "server"
      BY <1>6, <1>16, <2>1, <3>2 DEF CloseEnds
    <3> QED
      BY <1>3, <3>1, <3>2
  <2> QED
    BY <1>4, <1>16, <2>1, <2>2, <2>3 DEF CloseEnds
<1>17. ASSUME ReadUpgrading("client")
       PROVE  /\ life'["client"] # "open" /\ written'["client"] = <<>>
              /\ raw'["client"] \in Seq(Plain) /\ wire'["client"] \in Seq(Plain)
  <2> DEFINE s == "client"
  <2>1. PICK n \in Readable(s) :
                \/ Waits(s, n)
                \/ /\ Head(Held(s, n)) = <<Flights(s)[stage[s] + 1].on>>
                   /\ \E answer \in Flights(s)[stage[s] + 1].reply : Follows(s, n, answer)
    BY <1>3, <1>17, UpgradingSplit
  <2>2. /\ life[s] = "upgrading" /\ part[s] = <<>> /\ stage[s] < 2 /\ stage[s] \in Nat
        /\ Held(s, n) # <<>> /\ n \in Nat /\ n <= Len(wire[s])
    <3>1. life[s] = "upgrading"
      BY <1>17 DEF ReadUpgrading
    <3>2. Held(s, n) \in Seq(Unit) /\ Len(Held(s, n)) >= 1
      BY <1>3, HeldUnits
    <3>3. Held(s, n) # <<>>
      BY <3>2
    <3>4. wire[s] \in Seq(Unit)
      BY <1>3, Ranges
    <3>5. n \in Nat /\ n <= Len(wire[s])
      BY <3>4 DEF Readable
    <3> QED
      BY <1>1, <1>3, <3>1, <3>3, <3>5 DEF LinkInv, SideOK
  <2>3. stage["server"] < 3
    BY <1>1, <1>2, <1>3, <2>1 DEF Waits, Follows, LinkInv, LinkTypes
  <2>4. written' = written
    BY <1>17 DEF ReadUpgrading
  <2> DEFINE b == Held(s, n)
  <2>5. b = raw[s] \o SubSeq(wire[s], 1, n)
    <3>1. <<>> \o raw[s] = raw[s]
      BY <1>4, <2>3
    <3> QED
      BY <2>2, <3>1 DEF Held, Take
  <2>6. /\ b \in Seq(Plain) /\ Tail(b) \in Seq(Plain) /\ Head(b) \in Plain
        /\ Leave(s, n) \in Seq(Plain)
    <3>1. b # <<>>
      BY <2>2
    <3> HIDE DEF b
    <3> QED
      BY <1>4, <2>2, <2>3, <2>5, <3>1, PlainStreams DEF Leave
  <2>7. CASE Waits(s, n)
    BY <1>3, <1>4, <2>2, <2>3, <2>4, <2>6, <2>7 DEF Waits, LinkInv, LinkTypes
  <2>8. ASSUME NEW answer \in Flights(s)[stage[s] + 1].reply, Follows(s, n, answer),
               Head(b) = <<Flights(s)[stage[s] + 1].on>>
        PROVE  /\ life'[s] # "open" /\ raw'[s] \in Seq(Plain) /\ wire'[s] \in Seq(Plain)
    <3>1. stage[s] = 0
      <4>1. ASSUME stage[s] = 1 PROVE FALSE
        <5>1. stage[s] + 1 = 2
          BY <4>1
        <5>2. Head(b) = <<"200">>
          BY <1>3, <2>8, <5>1
        <5> HIDE DEF b
        <5> QED
          BY <2>6, <5>2 DEF Plain
      <4> QED
        BY <2>2, <4>1
    <3>2. stage[s] + 1 # Len(Flights(s))
      BY <1>3, <3>1
    <3>3. /\ raw' = [raw EXCEPT ![s] = Tail(b)]
          /\ life' = [life EXCEPT ![s] = IF Refuses(answer) THEN "dead" ELSE @]
          /\ wire' = [wire EXCEPT ![s] = Leave(s, n), ![Other(s)] =
                         IF life[Other(s)] = "gone" THEN @ ELSE @ \o Units(answer)]
      BY <2>8, <3>2 DEF Follows
    <3>4. raw'[s] = Tail(b) /\ life'[s] \in {"dead", "upgrading"} /\ wire'[s] = Leave(s, n)
      <4> HIDE DEF b
      <4> QED
        BY <1>3, <2>2, <3>3 DEF LinkInv, LinkTypes
    <3> QED
      BY <2>6, <3>4
  <2> QED
    BY <1>4, <2>1, <2>3, <2>4, <2>7, <2>8
<1>18. ASSUME ReadUpgrading("server")
       PROVE  /\ life'["client"] # "open" /\ written'["client"] = <<>>
              /\ raw'["client"] \in Seq(Plain) /\ wire'["client"] \in Seq(Plain)
  <2> DEFINE s == "server"
             c == "client"
  <2>1. PICK n \in Readable(s) :
                \/ Waits(s, n)
                \/ /\ Head(Held(s, n)) = <<Flights(s)[stage[s] + 1].on>>
                   /\ \E answer \in Flights(s)[stage[s] + 1].reply : Follows(s, n, answer)
    BY <1>3, <1>18, UpgradingSplit
  <2>2. written' = written
    BY <1>18 DEF ReadUpgrading
  <2>3. CASE Waits(s, n)
    <3>1. stage["server"] < 3 /\ wire'[c] = wire[c] /\ raw'[c] = raw[c] /\ life'[c] = life[c]
      BY <1>2, <1>3, <2>3 DEF Waits, LinkInv, LinkTypes
    <3> QED
      BY <1>4, <2>2, <3>1
  <2>4. ASSUME NEW answer \in Flights(s)[stage[s] + 1].reply, Follows(s, n, answer)
        PROVE  /\ life'[c] # "open" /\ written'[c] = <<>>
               /\ raw'[c] \in Seq(Plain) /\ wire'[c] \in Seq(Plain)
    <3>1. stage'[s] = stage[s] + 1
      BY <1>3, <2>4 DEF Follows, LinkInv, LinkTypes
    <3>2. stage[s] < 3 /\ (stage[s] = 0 \/ stage[s] = 1)
      BY <1>1, <1>2, <1>3, <3>1
    <3>3. answer \in {<<>>, <<"flight">>}
      BY <1>2, <2>4, <3>2 DEF Flights, FrontedFlights
    <3>4. Units(answer) \in Seq(Plain)
      <4>1. Units(<<>>) = <<>> /\ Units(<<"flight">>) = <<<<"flight">>>> 
        BY DEF Units
      <4>2. <<"flight">> \in Plain
        BY DEF Plain, Unit, Words
      <4>3. \A p \in Plain : <<p>> \in Seq(Plain)
        OBVIOUS
      <4> QED
        BY <1>3, <3>3, <4>1, <4>2, <4>3
    <3>5. /\ life'[c] = life[c] /\ raw'[c] = raw[c]
          /\ wire'[c] = wire[c] \/ wire'[c] = wire[c] \o Units(answer)
      BY <1>3, <2>4 DEF Follows, LinkInv, LinkTypes
    <3>6. wire[c] \in Seq(Plain) /\ raw[c] \in Seq(Plain) /\ life[c] # "open" /\ written[c] = <<>>
      BY <1>4, <3>2
    <3> HIDE DEF c
    <3>7. wire[c] \o Units(answer) \in Seq(Plain)
      BY <3>4, <3>6
    <3> QED
      BY <2>2, <3>5, <3>6, <3>7
  <2> QED
    BY <2>1, <2>3, <2>4
<1> QED
  BY <1>3, <1>7, <1>8, <1>9, <1>10, <1>11, <1>12, <1>13, <1>14, <1>15, <1>16, <1>17, <1>18
     DEF LinkNext, Read

\* A side that refuses the other hands its own user nothing, whatever it has read.
LEMMA RefusedGetsNothing ==
    ASSUME LinkInv, LinkInv', Unanswered, NEW s \in Sides, life[s] = "upgrading", NEW n,
           NEW answer \in Flights(s)[stage[s] + 1].reply, Follows(s, n, answer), Refuses(answer)
    PROVE  delivered' = delivered
<1>0. stage[s] \in Nat /\ stage[s] < Len(Flights(s)) /\ delivered[s] = <<>> /\ Len(written[Other(s)]) \in Nat
  BY Ranges DEF LinkInv, LinkTypes, SideOK
<1>1. CASE ~(stage[s] + 1 = Len(Flights(s)) /\ PassesOn(s))
  BY <1>1 DEF Follows
<1>2. CASE stage[s] + 1 = Len(Flights(s)) /\ PassesOn(s)
  <2>1. kind = "fronted" /\ s = "server" /\ stage[s] = 2
    <3>1. CASE kind = "websocket"
      <4>1. stage[s] = 0 /\ Flights(s)[1].reply \in {{<<"101">>}, {<<>>}}
        BY <1>0, <1>2, <3>1 DEF Flights, WsFlights
      <4>2. stage[s] + 1 = 1
        BY <4>1
      <4>3. answer \in {<<"101">>, <<>>}
        BY <4>1, <4>2
      <4>4. ~Refuses(<<"101">>) /\ ~Refuses(<<>>)
        BY DEF Refuses
      <4> QED
        BY <4>3, <4>4
    <3>2. CASE kind = "fronted" /\ s = "client"
      <4>1. stage[s] = 1 /\ Flights(s)[2].reply = {<<>>}
        BY <1>0, <1>2, <3>2 DEF Flights, FrontedFlights
      <4>2. answer = <<>>
        BY <4>1
      <4> QED
        BY <4>2 DEF Refuses
    <3>3. CASE kind = "fronted" /\ s = "server"
      BY <1>0, <1>2, <3>3 DEF Flights, FrontedFlights
    <3> QED
      BY <1>2, <3>1, <3>2, <3>3 DEF PassesOn, Sides
  <2>2. written["client"] = <<>> /\ Other(s) = "client"
    BY <2>1 DEF Unanswered, Other
  <2>3. /\ Len(delivered'[s]) <= Len(written'[Other(s)]) /\ delivered'[s] \in Seq(Nat)
        /\ written' = written
    BY DEF LinkInv, LinkTypes, SideOK, Follows
  <2>4. delivered'[s] = <<>>
    <3>1. Len(delivered'[s]) = 0
      BY <2>2, <2>3
    <3> QED
      BY <2>3, <3>1
  <2>5. delivered' = [delivered EXCEPT ![s] = delivered'[s]]
    BY <1>2 DEF Follows, Parse, LinkInv, LinkTypes
  <2> QED
    BY <1>0, <2>4, <2>5 DEF LinkInv, LinkTypes
<1> QED
  BY <1>1, <1>2

-----------------------------------------------------------------------------
\* What the user of a side that is in state l was told.
Says(l) == CASE l \in {"idle", "upgrading", "dead"} -> "no"
             [] l = "open" -> "yes"
             [] l = "gone" -> "closed"
             [] OTHER -> l

\* A side that changes its state tells its user what that state says.
LEMMA ToldChanges ==
    ASSUME LinkTypes, NEW s \in Sides, NEW to \in Lives, life' = [life EXCEPT ![s] = to]
    PROVE  /\ Contract!Told(s, Says(life[s]), Says(to))
           /\ Says(to) = Says(life[s]) => ToldUser' = ToldUser
<1>1. ToldUser = [q \in Sides |-> Says(life[q])] /\ ToldUser' = [q \in Sides |-> Says(life'[q])]
  BY DEF ToldUser, Says
<1>2. \A q \in Sides : life'[q] = IF q = s THEN to ELSE life[q]
  BY DEF LinkTypes
<1>3. ToldUser[s] = Says(life[s])
  BY <1>1
<1>4. ToldUser' = [ToldUser EXCEPT ![s] = Says(to)]
  BY <1>1, <1>2
<1>5. Says(to) = Says(life[s]) => ToldUser' = ToldUser
  BY <1>1, <1>2
<1> QED
  BY <1>3, <1>4, <1>5 DEF Contract!Told

\* What a side has received is a prefix of what the other side sent, so more of it arrives.
LEMMA MoreArrives ==
    ASSUME LinkInv, LinkInv', NEW s \in Sides, Len(delivered[s]) <= Len(delivered'[s]),
           written' = written, \A q \in Sides : q # s => delivered'[q] = delivered[q]
    PROVE  Contract!Arrive(s)
<1> DEFINE t == Other(s)
           n == Len(delivered'[s])
           w == written[t]
           x == delivered'[s]
<1>1. t \in Sides /\ t # s /\ \A q \in Sides : q = s \/ q = t
  BY TwoSides
<1>2. Contract!Opposite(s) = t
  BY <1>1 DEF Contract!Opposite
<1>3. /\ w \in Seq(Nat) /\ Numbered(w) /\ Len(w) \in Nat
      /\ x \in Seq(Nat) /\ Numbered(x) /\ n \in Nat /\ n <= Len(w) /\ Len(delivered[s]) \in Nat
  <2>1. SideOK(s)' /\ SideOK(t) /\ w \in Seq(Nat) /\ x \in Seq(Nat)
    BY <1>1 DEF LinkInv, LinkTypes
  <2> QED
    BY <2>1, Ranges DEF SideOK
<1>4. x = SubSeq(w, 1, n)
  <2> DEFINE y == SubSeq(w, 1, n)
  <2>1. x \in Seq(Nat) /\ w \in Seq(Nat) /\ n = Len(x) /\ n \in Nat /\ n <= Len(w) /\ Len(w) \in Nat
    BY <1>3
  <2> HIDE DEF x, w, n
  <2>2. y \in Seq(Nat) /\ Len(y) = n /\ \A i \in 1..n : y[i] = w[i] /\ i \in 1..Len(w)
    BY ONLY <2>1
  <2>3. \A i \in 1..n : x[i] = i /\ w[i] = i
    BY <1>3, <2>1, <2>2 DEF Numbered
  <2> HIDE DEF y
  <2>4. x = y
    BY <2>1, <2>2, <2>3, SMTT(60)
  <2> QED
    BY <2>4 DEF y
<1>5. delivered' = [delivered EXCEPT ![s] = x]
  BY DEF LinkInv, LinkTypes
<1>6. n \in Len(delivered[s])..Len(w)
  BY <1>3
<1> HIDE DEF n, w, x
<1>7. \E m \in Len(delivered[s])..Len(written[t]) :
         delivered' = [delivered EXCEPT ![s] = SubSeq(written[t], 1, m)]
  BY <1>4, <1>5, <1>6 DEF w
<1> QED
  BY <1>2, <1>7 DEF Contract!Arrive

\* Every step of a connection is a step its contract allows, or shows its users nothing.
LEMMA StepKeepsContract ==
    ASSUME LinkInv, Unanswered, [LinkNext]_linkVars
    PROVE  [Contract!ChannelNext]_Contract!channelVars
<1>1. LinkInv' /\ \A s \in Sides : Len(delivered[s]) <= Len(delivered'[s])
  BY LinkInvNext
<1>2. LinkTypes /\ "client" \in Sides /\ "server" \in Sides
  BY DEF LinkInv, Sides
<1> DEFINE Quiet == ToldUser' = ToldUser /\ written' = written /\ delivered' = delivered
<1>3. ASSUME Quiet PROVE [Contract!ChannelNext]_Contract!channelVars
  BY <1>3 DEF Contract!channelVars
<1>4. ASSUME NEW s \in Sides, \/ Contract!Offer(s) \/ Contract!Refuse(s) \/ Contract!Hand(s)
                              \/ Contract!Put(s) \/ Contract!Shut(s) \/ Contract!Finish(s)
      PROVE [Contract!ChannelNext]_Contract!channelVars
  BY <1>4 DEF Contract!ChannelNext
<1>5. /\ \A l \in {"idle", "upgrading", "dead"} : Says(l) = "no"
      /\ Says("open") = "yes" /\ Says("gone") = "closed" /\ Says("closing") = "closing"
      /\ Says("failed") = "failed"
      /\ {"idle", "upgrading", "dead", "open", "gone", "closing", "failed"} \subseteq Lives
  BY DEF Says, Lives
<1>6. ASSUME NEW s \in Sides, life[s] = "open", UNCHANGED life
      PROVE  Contract!Told(s, "yes", "yes")
  <2>1. life' = [life EXCEPT ![s] = "open"]
    BY <1>2, <1>6 DEF LinkTypes
  <2> QED
    BY <1>2, <1>5, <1>6, <2>1, ToldChanges
<1>7. CASE UNCHANGED linkVars
  BY <1>3, <1>7 DEF linkVars, ToldUser
<1>8. CASE Dialled
  <2> DEFINE s == "client"
  <2>1. /\ life[s] = "idle" /\ life' = [life EXCEPT ![s] = Connected(s)]
        /\ written' = written /\ delivered' = delivered /\ Connected(s) \in {"open", "upgrading"}
    BY <1>8 DEF Dialled, Connected
  <2>2. CASE Connected(s) = "upgrading"
    <3>1. ToldUser' = ToldUser
      BY <1>2, <1>5, <2>1, <2>2, ToldChanges
    <3> QED
      BY <1>3, <2>1, <3>1
  <2>3. CASE Connected(s) = "open"
    <3>1. Contract!Told(s, "no", "yes")
      BY <1>2, <1>5, <2>1, <2>3, ToldChanges
    <3>2. Contract!Arrive(s)
      BY <1>1, <1>2, <2>1, MoreArrives
    <3>3. Contract!Offer(s)
      BY <2>1, <3>1, <3>2 DEF Contract!Offer
    <3> QED
      BY <1>2, <1>4, <3>3
  <2> QED
    BY <2>1, <2>2, <2>3
<1>9. CASE DialFails
  <2>1. Contract!Told("client", "no", "failed")
    BY <1>2, <1>5, <1>9, ToldChanges DEF DialFails
  <2>2. Contract!Refuse("client")
    BY <1>9, <2>1 DEF DialFails, Contract!Refuse
  <2> QED
    BY <1>2, <1>4, <2>2
<1>10. CASE Accepted
  <2> DEFINE s == "server"
  <2>1. /\ life[s] = "idle" /\ life' = [life EXCEPT ![s] = Connected(s)]
        /\ written' = written /\ delivered' = delivered /\ Connected(s) \in {"open", "upgrading"}
    BY <1>10 DEF Accepted, Connected
  <2>2. CASE Connected(s) = "upgrading"
    <3>1. ToldUser' = ToldUser
      BY <1>2, <1>5, <2>1, <2>2, ToldChanges
    <3> QED
      BY <1>3, <2>1, <3>1
  <2>3. CASE Connected(s) = "open"
    <3>1. Contract!Told(s, "no", "yes")
      BY <1>2, <1>5, <2>1, <2>3, ToldChanges
    <3>2. Contract!Arrive(s)
      BY <1>1, <1>2, <2>1, MoreArrives
    <3>3. Contract!Offer(s)
      BY <2>1, <3>1, <3>2 DEF Contract!Offer
    <3> QED
      BY <1>2, <1>4, <3>3
  <2> QED
    BY <2>1, <2>2, <2>3
<1>11. CASE ServerDies
  <2>1. /\ life["server"] = "upgrading" /\ life' = [life EXCEPT !["server"] = "dead"]
        /\ written' = written /\ delivered' = delivered
    BY <1>11 DEF ServerDies
  <2>2. ToldUser' = ToldUser
    BY <1>2, <1>5, <2>1, ToldChanges
  <2> QED
    BY <1>3, <2>1, <2>2
<1>12. ASSUME NEW s \in Sides, ReadOpen(s) PROVE Contract!Hand(s)
  <2>1. Contract!Told(s, "yes", "yes")
    BY <1>6, <1>12 DEF ReadOpen
  <2>2. written' = written /\ \A q \in Sides : q # s => delivered'[q] = delivered[q]
    BY <1>2, <1>12 DEF ReadOpen, Parse, LinkTypes
  <2>3. Contract!Arrive(s)
    BY <1>1, <2>2, MoreArrives
  <2> QED
    BY <2>1, <2>2, <2>3 DEF Contract!Hand
<1>13. ASSUME NEW s \in Sides, ReadUpgrading(s)
       PROVE  Quiet \/ Contract!Refuse(s) \/ Contract!Offer(s)
  <2>1. PICK n \in Readable(s) :
                \/ Waits(s, n)
                \/ /\ Head(Held(s, n)) = <<Flights(s)[stage[s] + 1].on>>
                   /\ \E answer \in Flights(s)[stage[s] + 1].reply : Follows(s, n, answer)
    BY <1>13, UpgradingSplit
  <2>2. life[s] = "upgrading" /\ written' = written /\ delivered[s] = <<>> /\ stage[s] < Len(Flights(s))
    BY <1>13 DEF ReadUpgrading, LinkInv, SideOK
  <2>3. CASE Waits(s, n)
    <3>1. delivered' = delivered
      BY <2>3 DEF Waits
    <3>2. CASE Head(Held(s, n)) = <<"alert">>
      <4>1. life' = [life EXCEPT ![s] = "failed"]
        BY <2>3, <3>2 DEF Waits
      <4>2. Contract!Told(s, "no", "failed")
        BY <1>2, <1>5, <2>2, <4>1, ToldChanges
      <4> QED
        BY <2>2, <3>1, <4>2 DEF Contract!Refuse
    <3>3. CASE Head(Held(s, n)) # <<"alert">>
      <4>1. life' = [life EXCEPT ![s] = "upgrading"]
        BY <2>2, <2>3, <3>3 DEF Waits
      <4>2. ToldUser' = ToldUser
        BY <1>2, <1>5, <2>2, <4>1, ToldChanges
      <4> QED
        BY <2>2, <3>1, <4>2
    <3> QED
      BY <3>2, <3>3
  <2>4. ASSUME NEW answer \in Flights(s)[stage[s] + 1].reply, Follows(s, n, answer)
        PROVE  Quiet \/ Contract!Offer(s)
    <3>0. \A q \in Sides : q # s => delivered'[q] = delivered[q]
      BY <1>2, <2>4 DEF Follows, Parse, LinkTypes
    <3>1. CASE Refuses(answer)
      <4>1. life' = [life EXCEPT ![s] = "dead"]
        BY <2>4, <3>1 DEF Follows
      <4>2. ToldUser' = ToldUser
        BY <1>2, <1>5, <2>2, <4>1, ToldChanges
      <4>3. delivered' = delivered
        BY <1>1, <2>2, <2>4, <3>1, RefusedGetsNothing
      <4> QED
        BY <2>2, <4>2, <4>3
    <3>2. CASE ~Refuses(answer) /\ stage[s] + 1 = Len(Flights(s))
      <4>1. life' = [life EXCEPT ![s] = "open"]
        BY <2>4, <3>2 DEF Follows
      <4>2. Contract!Told(s, "no", "yes")
        BY <1>2, <1>5, <2>2, <4>1, ToldChanges
      <4>3. Contract!Arrive(s)
        BY <1>1, <2>2, <3>0, MoreArrives
      <4> QED
        BY <2>2, <4>2, <4>3 DEF Contract!Offer
    <3>3. CASE ~Refuses(answer) /\ stage[s] + 1 # Len(Flights(s))
      <4>1. life' = [life EXCEPT ![s] = "upgrading"]
        BY <2>2, <2>4, <3>3 DEF Follows
      <4>2. ToldUser' = ToldUser
        BY <1>2, <1>5, <2>2, <4>1, ToldChanges
      <4>3. delivered' = delivered
        BY <2>4, <3>3 DEF Follows
      <4> QED
        BY <2>2, <4>2, <4>3
    <3> QED
      BY <3>1, <3>2, <3>3
  <2> QED
    BY <2>1, <2>3, <2>4
<1>14. ASSUME NEW s \in Sides, ReadEnd(s)
       PROVE  Quiet \/ Contract!Refuse(s) \/ Contract!Shut(s)
  <2>1. /\ written' = written /\ delivered' = delivered
        /\ \/ life[s] = "open" /\ life' = [life EXCEPT ![s] = "closing"]
           \/ life[s] = "upgrading" /\ life' = [life EXCEPT ![s] = "failed"]
           \/ life[s] = "upgrading" /\ life' = [life EXCEPT ![s] = "dead"]
    BY <1>14 DEF ReadEnd
  <2>2. CASE life[s] = "open" /\ life' = [life EXCEPT ![s] = "closing"]
    <3>1. Contract!Told(s, "yes", "closing")
      BY <1>2, <1>5, <2>2, ToldChanges
    <3> QED
      BY <2>1, <3>1 DEF Contract!Shut
  <2>3. CASE life[s] = "upgrading" /\ life' = [life EXCEPT ![s] = "failed"]
    <3>1. Contract!Told(s, "no", "failed")
      BY <1>2, <1>5, <2>3, ToldChanges
    <3> QED
      BY <2>1, <3>1 DEF Contract!Refuse
  <2>4. CASE life[s] = "upgrading" /\ life' = [life EXCEPT ![s] = "dead"]
    <3>1. ToldUser' = ToldUser
      BY <1>2, <1>5, <2>4, ToldChanges
    <3> QED
      BY <2>1, <3>1
  <2> QED
    BY <2>1, <2>2, <2>3, <2>4
<1>15. ASSUME NEW s \in Sides, Send(s) PROVE Contract!Put(s)
  <2>1. Contract!Told(s, "yes", "yes")
    BY <1>6, <1>15 DEF Send
  <2>2. Len(written[s]) + 1 \in 1..Len(written[s]) + 1
    BY Ranges
  <2>3. written' = [written EXCEPT ![s] = Append(@, Len(written[s]) + 1)] /\ delivered' = delivered
    BY <1>15 DEF Send
  <2> QED
    BY <2>1, <2>2, <2>3 DEF Contract!Put
<1>16. ASSUME NEW s \in Sides, Close(s) PROVE Contract!Shut(s)
  <2>1. Contract!Told(s, "yes", "closing")
    BY <1>2, <1>5, <1>16, ToldChanges DEF Close
  <2> QED
    BY <1>16, <2>1 DEF Close, Contract!Shut
<1>17. ASSUME NEW s \in Sides, CloseEnds(s) PROVE Contract!Finish(s)
  <2>1. Contract!Told(s, "closing", "closed")
    BY <1>2, <1>5, <1>17, ToldChanges DEF CloseEnds
  <2> QED
    BY <1>17, <2>1 DEF CloseEnds, Contract!Finish
<1>18. ASSUME NEW s \in Sides, Read(s) \/ Send(s) \/ Close(s) \/ CloseEnds(s)
       PROVE  [Contract!ChannelNext]_Contract!channelVars
  BY <1>3, <1>4, <1>12, <1>13, <1>14, <1>15, <1>16, <1>17, <1>18 DEF Read
<1> QED
  BY <1>7, <1>8, <1>9, <1>10, <1>11, <1>18 DEF LinkNext

\* The contract holds of a connection that is not made yet.
LEMMA InitKeepsContract == LinkInit => Contract!ChannelInit /\ Unanswered
<1> SUFFICES ASSUME LinkInit PROVE Contract!ChannelInit /\ Unanswered
  OBVIOUS
<1>1. ToldUser = [s \in Sides |-> "no"]
  BY DEF LinkInit, ToldUser
<1>2. Unanswered
  <2>1. "client" \in Sides /\ <<>> \in Seq(Plain)
    BY DEF Sides
  <2> QED
    BY <2>1 DEF LinkInit, Unanswered
<1> QED
  BY <1>1, <1>2 DEF LinkInit, Contract!ChannelInit

-----------------------------------------------------------------------------
LinkSafety == LinkInit /\ [][LinkNext]_linkVars

\* What is ahead of each reader is what it waits for, and a client of a fronting host is not
\* let through before the host's last answer.
THEOREM LinkInvariant == LinkSafety => [](LinkInv /\ Unanswered)
<1>1. LinkInit => LinkInv /\ Unanswered
  BY LinkInvInit, InitKeepsContract
<1>2. (LinkInv /\ Unanswered) /\ [LinkNext]_linkVars => (LinkInv /\ Unanswered)'
  BY LinkInvNext, UnansweredNext
<1> QED
  BY <1>1, <1>2, PTL DEF LinkSafety

\* A connection of any stream transport keeps the contract of a connection.
THEOREM LinkKeepsContract == LinkSafety => KeepsContract
<1>1. LinkInit => Contract!ChannelInit
  BY InitKeepsContract
<1>2. (LinkInv /\ Unanswered) /\ [LinkNext]_linkVars => [Contract!ChannelNext]_Contract!channelVars
  BY StepKeepsContract
<1> QED
  BY <1>1, <1>2, LinkInvariant, PTL DEF LinkSafety, KeepsContract, Contract!ChannelSpec

-----------------------------------------------------------------------------
(* The resolver. *)

Request == [host : Hosts \union {""}, phase : RequestPhases]
Answers == {"address", "text", "not_found"}
Called1(r) == Len(got[r]) = IF requests[r].phase = "done" THEN 1 ELSE 0

ResolverInv ==
    /\ requests \in [Requests -> Request] /\ got \in [Requests -> Seq(Answers)]
    /\ \A r \in Requests : Called1(r)

\* A step that ends request r calls its callback, another does not.
LEMMA CalledAtTheEnd ==
    ASSUME ResolverInv, NEW r \in Requests, NEW x \in Request,
           requests' = [requests EXCEPT ![r] = x], requests[r].phase # "done",
           \/ x.phase = "done" /\ \E what \in Answers : Called(r, what)
           \/ x.phase # "done" /\ got' = got
    PROVE  ResolverInv'
<1>1. requests' \in [Requests -> Request]
  BY DEF ResolverInv
<1>2. CASE x.phase # "done" /\ got' = got
  BY <1>1, <1>2 DEF ResolverInv, Called1
<1>3. ASSUME NEW what \in Answers, x.phase = "done", Called(r, what) PROVE ResolverInv'
  <2>1. got[r] \in Seq(Answers) /\ Len(got[r]) = 0
    BY DEF ResolverInv, Called1
  <2>2. Append(got[r], what) \in Seq(Answers) /\ Len(Append(got[r], what)) = 1
    BY <2>1
  <2>3. got' \in [Requests -> Seq(Answers)]
    BY <1>3, <2>2 DEF Called, ResolverInv
  <2>4. ASSUME NEW q \in Requests PROVE Called1(q)'
    <3>1. CASE q = r
      BY <1>3, <2>2, <3>1 DEF Called, Called1, ResolverInv
    <3>2. CASE q # r
      BY <1>3, <3>2 DEF Called, Called1, ResolverInv
    <3> QED
      BY <3>1, <3>2
  <2> QED
    BY <1>1, <2>3, <2>4 DEF ResolverInv
<1> QED
  BY <1>2, <1>3

\* The invariant holds at the start, and every step of the resolver keeps it.
LEMMA ResolverKeeps ==
    /\ ResolverInit => ResolverInv
    /\ ResolverInv /\ [ResolverNext]_resolverVars => ResolverInv'
    /\ ResolverInv => ResolvedOnce
<1>1. ResolverInit => ResolverInv
  <2>1. NotAsked \in Request /\ NotAsked.phase = "idle"
    BY DEF NotAsked, Request, RequestPhases
  <2> QED
    BY <2>1 DEF ResolverInit, ResolverInv, Called1
<1>2. ResolverInv /\ [ResolverNext]_resolverVars => ResolverInv'
  <2> SUFFICES ASSUME ResolverInv, [ResolverNext]_resolverVars PROVE ResolverInv'
    OBVIOUS
  <2>1. CASE UNCHANGED <<requests, got>>
    BY <2>1 DEF ResolverInv, Called1
  <2>2. ASSUME NEW r \in Requests, NEW host \in Hosts, Resolve(r, host) \/ ResolveTxt(r, host)
        PROVE  ResolverInv'
    <3>1. \A phase \in RequestPhases : [host |-> host, phase |-> phase] \in Request
      BY DEF Request
    <3>2. requests[r].phase = "idle"
      <4>1. requests[r] = NotAsked
        BY <2>2 DEF Resolve, ResolveTxt
      <4>2. NotAsked.phase = "idle"
        BY DEF NotAsked
      <4> QED
        BY <4>1, <4>2
    <3> QED
      BY <2>2, <3>1, <3>2, CalledAtTheEnd DEF Resolve, ResolveTxt, RequestPhases, Answers
  <2>3. ASSUME NEW r \in Requests, NEW phase \in RequestPhases, Moves(r, phase)
        PROVE  \E x \in Request : x.phase = phase /\ requests' = [requests EXCEPT ![r] = x]
    <3>1. [requests[r] EXCEPT !.phase = phase] \in Request
      BY DEF ResolverInv, Request
    <3>2. [requests[r] EXCEPT !.phase = phase].phase = phase
      BY DEF ResolverInv, Request
    <3> QED
      BY <2>3, <3>1, <3>2 DEF Moves
  <2>4. ASSUME NEW r \in Requests, DohPosted(r) \/ PostFailed(r) \/ SystemAnswers(r) \/ TxtPosted(r)
        PROVE  ResolverInv'
    <3>1. requests[r].phase # "done"
      BY <2>4 DEF DohPosted, PostFailed, SystemAnswers, TxtPosted
    <3>2. \/ Moves(r, "done") /\ \E what \in Answers : Called(r, what)
          \/ Moves(r, "system") /\ got' = got
      BY <2>4 DEF DohPosted, PostFailed, SystemAnswers, TxtPosted, Answers
    <3> QED
      BY <2>3, <3>1, <3>2, CalledAtTheEnd DEF RequestPhases
  <2> QED
    BY <2>1, <2>2, <2>4 DEF ResolverNext, ResolverTick, resolverVars
<1>3. ResolverInv => ResolvedOnce
  BY DEF ResolverInv, Called1, ResolvedOnce
<1> QED
  BY <1>1, <1>2, <1>3

\* Every request is answered once by whichever resolver answers it, for any number of requests
\* and any cache (doh_after_work_cb, doh_fallback_cb and doh_txt_after_work_cb).
THEOREM ResolvedOnceHolds == ResolverSpec => []ResolvedOnce
BY ResolverKeeps, PTL DEF ResolverSpec

-----------------------------------------------------------------------------
(* Connecting to a service. *)

ConnectInv ==
    /\ reaching \in [Tunnels -> {"idle", "refused", "asking", "looking", "connecting", "done"}]
    /\ answers \in [Tunnels -> [tunnel : Nat, error : Nat]]
    /\ overlay \in [Tunnels -> {"none", "heard"}]
    /\ ConnectedOnce

\* A call ends with one callback and without a circuit, or goes on without a callback.
CallGoesOn(c, to) == Moved(c, to) /\ UNCHANGED answers
CallEnds(c, what) == Moved(c, "done") /\ CallBack(c, what)

\* Every step keeps the count of callbacks.
LEMMA CallStepKeeps ==
    ASSUME ConnectInv, NEW c \in Tunnels, reaching[c] # "done",
           \/ \E to \in {"refused", "asking", "looking", "connecting"} : CallGoesOn(c, to)
           \/ \E what \in {"tunnel", "error"} : CallEnds(c, what),
           \/ overlay' = [overlay EXCEPT ![c] = "none"]
           \/ overlay[c] = "none" /\ UNCHANGED overlay
           \/ CallGoesOn(c, "asking") /\ overlay' = [overlay EXCEPT ![c] = "heard"]
    PROVE  ConnectInv'
<1>1. answers[c] \in [tunnel : Nat, error : Nat] /\ answers[c].tunnel + answers[c].error = 0
  BY DEF ConnectInv, ConnectedOnce
<1>2. /\ reaching' \in [Tunnels -> {"idle", "refused", "asking", "looking", "connecting", "done"}]
      /\ answers' \in [Tunnels -> [tunnel : Nat, error : Nat]]
      /\ overlay' \in [Tunnels -> {"none", "heard"}]
  BY <1>1 DEF ConnectInv, CallGoesOn, CallEnds, Moved, CallBack
<1>3. ASSUME NEW d \in Tunnels
      PROVE  /\ answers'[d].tunnel + answers'[d].error = IF reaching'[d] = "done" THEN 1 ELSE 0
             /\ overlay'[d] # "none" => reaching'[d] = "asking"
  <2>1. CASE d # c
    BY <2>1 DEF ConnectInv, ConnectedOnce, CallGoesOn, CallEnds, Moved, CallBack
  <2>2. CASE d = c
    BY <1>1, <2>2 DEF ConnectInv, ConnectedOnce, CallGoesOn, CallEnds, Moved, CallBack
  <2> QED
    BY <2>1, <2>2
<1> QED
  BY <1>2, <1>3 DEF ConnectInv, ConnectedOnce

\* The invariant holds at the start, and every step of a connection to a service keeps it.
LEMMA ConnectKeeps ==
    /\ ConnectInit => ConnectInv
    /\ ConnectInv /\ [ConnectNext]_connectVars => ConnectInv'
    /\ ConnectInv => ConnectedOnce
<1>1. ConnectInit => ConnectInv
  BY DEF ConnectInit, ConnectInv, ConnectedOnce
<1>2. ConnectInv /\ [ConnectNext]_connectVars => ConnectInv'
  <2> SUFFICES ASSUME ConnectInv, [ConnectNext]_connectVars PROVE ConnectInv'
    OBVIOUS
  <2>1. CASE UNCHANGED connectVars
    BY <2>1 DEF connectVars, ConnectInv, ConnectedOnce
  <2>2. ASSUME NEW c \in Tunnels, OverlayLost(c) PROVE ConnectInv'
    BY <2>2 DEF OverlayLost, ConnectInv, ConnectedOnce
  <2>3. ASSUME NEW c \in Tunnels, reaching[c] \notin {"asking", "done"} PROVE overlay[c] = "none"
    BY <2>3 DEF ConnectInv, ConnectedOnce
  <2>4. ASSUME NEW c \in Tunnels, ConnectWithRouter(c) \/ ConnectLocalGrove(c) PROVE ConnectInv'
    BY <2>3, <2>4, CallStepKeeps DEF ConnectWithRouter, ConnectLocalGrove, CallGoesOn
  <2>5. ASSUME NEW c \in Tunnels, ConnectRemoteGrove(c) PROVE ConnectInv'
    BY <2>3, <2>5, CallStepKeeps DEF ConnectRemoteGrove, CrossGroveCleanup, CallGoesOn, CallEnds
  <2>6. ASSUME NEW c \in Tunnels, BridgeAnswers(c) \/ GroveLookupEnds(c) PROVE ConnectInv'
    <3>1. reaching[c] # "done"
      BY <2>6 DEF BridgeAnswers, GroveLookupEnds, ConnectInv, ConnectedOnce
    <3> QED
      BY <2>6, <3>1, CallStepKeeps
         DEF BridgeAnswers, GroveLookupEnds, CrossGroveCleanup, HandedOn, CallGoesOn, CallEnds
  <2>7. ASSUME NEW c \in Tunnels, DescriptorFails(c) \/ DescriptorFound(c) PROVE ConnectInv'
    BY <2>3, <2>7, CallStepKeeps DEF DescriptorFails, DescriptorFound, CallEnds
  <2> QED
    BY <2>1, <2>2, <2>4, <2>5, <2>6, <2>7 DEF ConnectNext
<1>3. ConnectInv => ConnectedOnce
  BY DEF ConnectInv
<1> QED
  BY <1>1, <1>2, <1>3

\* A call is answered once and leaves no circuit that could answer it again, for any number of
\* calls and circuits (cross_grove_cleanup and on_descriptor_found).
THEOREM ConnectedOnceHolds == ConnectSpec => []ConnectedOnce
BY ConnectKeeps, PTL DEF ConnectSpec

-----------------------------------------------------------------------------
(* The lookups and stores. *)

RpcKinds == {"store", "value", "node"}
Values == {NoValue, Done} \cup {Stored[n] : n \in Nodes} \cup SUBSET Nodes
Results == [value : Values, givers : SUBSET Nodes, agreed : BOOLEAN]
RpcRecords ==
    {r \in [active : {TRUE}, kind : RpcKinds, owner : [op : Callers, group : GroupSlots \cup {0}], key : Nat,
            queried : SUBSET Nodes, asked : SUBSET Nodes, acks : Nat, needed : Nat] :
        r.asked \subseteq r.queried}
GroupRecords == [active : {TRUE}, op : Callers, results : Seq(Results), global : SUBSET Nodes]
CallRecords ==
    [kind : Kinds, started : BOOLEAN, issuing : BOOLEAN, total : Nat, done : Nat, good : Nat,
     found : SUBSET Results, answers : Seq(Results), early : Nat]
States ==
    [rpc : [Slots -> RpcRecords \cup {Idle}], group : [GroupSlots -> GroupRecords \cup {Idle}],
     call : [Callers -> CallRecords], known : SUBSET Nodes, held : SUBSET Keys]

\* What works for a call: RPCs of its own and lookups, which have RPCs for their paths.
Direct(s, p) == {i \in Slots : s.rpc[i].active /\ s.rpc[i].owner = Owner(p, 0)}
GroupsOf(s, p) == {g \in GroupSlots : s.group[g].active /\ s.group[g].op = p}
PathsOf(s, g) == {i \in Slots : s.rpc[i].active /\ s.rpc[i].owner.group = g}
Pending(s, p) == Cardinality(Direct(s, p)) + Cardinality(GroupsOf(s, p))

\* The parts of call c that have ended.
Multi == {"stores", "values", "private"}
Settled(c) == IF c.kind \in Multi THEN c.done ELSE Len(c.answers)
\* Call p has k parts that are still to be started, lookup g has m of its paths.
CallDue(s, p, k) ==
    Pending(s, p) + Settled(s.call[p]) + k = IF s.call[p].started THEN s.call[p].total ELSE 0
GroupDue(s, g, m) == Cardinality(PathsOf(s, g)) + Len(s.group[g].results) + m = Paths

\* What the caller was told follows from the tally; Twice is the private lookup all of whose
\* queries were answered at once.
TallyOK(c) ==
    CASE c.kind = "stores" ->
            IF c.done = c.total /\ ~c.issuing THEN Len(c.answers) = 1 ELSE c.answers = <<>>
      [] c.kind = "values" ->
            IF c.good > 0 \/ (c.done = c.total /\ ~c.issuing) THEN Len(c.answers) = 1 ELSE c.answers = <<>>
      [] c.kind = "private" -> IF c.done = c.total THEN Len(c.answers) = 1 ELSE c.answers = <<>>
      [] OTHER -> c.total = 1
Twice(c) ==
    /\ c.kind = "private" /\ c.done = c.total /\ Len(c.answers) = 2 /\ c.answers[2] = Nothing
    /\ c.early = 2
CallOK(c) ==
    /\ TallyOK(c) \/ Twice(c)
    /\ c.total >= 1
    /\ c.issuing => c.kind \in {"stores", "values"}
    /\ ~c.started => c = NewCall(c.kind)

\* Enough nodes gave a value that paths agreed on.
Backed(r) == r.agreed => Cardinality(r.givers) >= Agree
AllBacked(c) ==
    c.kind # "skad_node" => /\ \A r \in c.found : Backed(r)
                            /\ \A k \in 1..Len(c.answers) : Backed(c.answers[k])

\* The paths of a lookup for a value do not cross: what was found was given by one node that no
\* other path asked.
ValuePath(s, g, i) ==
    /\ s.rpc[i].kind = "value" /\ s.rpc[i].asked \subseteq s.rpc[i].queried
    /\ s.rpc[i].queried \subseteq s.group[g].global
PathsApart(s, g) ==
    LET rs == s.group[g].results
    IN /\ \A i \in PathsOf(s, g) : ValuePath(s, g, i)
       /\ \A i, j \in PathsOf(s, g) : i # j => s.rpc[i].queried \cap s.rpc[j].queried = {}
       /\ \A j \in 1..Len(rs) : Good(rs[j]) => \E n \in s.group[g].global : rs[j].givers = {n}
       /\ \A j, k \in 1..Len(rs) : Good(rs[j]) /\ Good(rs[k]) /\ j # k => rs[j].givers \cap rs[k].givers = {}
       /\ \A j \in 1..Len(rs) : \A i \in PathsOf(s, g) : Good(rs[j]) => rs[j].givers \cap s.rpc[i].queried = {}
ForValue(s, g) == s.call[s.group[g].op].kind # "skad_node"

\* An RPC for a path belongs to the call of its lookup.
OwnersOK(s) ==
    \A i \in Slots : s.rpc[i].active /\ s.rpc[i].owner.group # 0 =>
        LET g == s.rpc[i].owner.group IN s.group[g].active /\ s.group[g].op = s.rpc[i].owner.op
GroupsOK(s, g, m) ==
    \A h \in GroupSlots : s.group[h].active =>
        /\ GroupDue(s, h, IF h = g THEN m ELSE 0)
        /\ h # g => Len(s.group[h].results) < Paths
        /\ ForValue(s, h) => PathsApart(s, h)
CallsOK(s, o, k) ==
    \A p \in Callers : /\ CallDue(s, p, IF p = o THEN k ELSE 0)
                       /\ CallOK(s.call[p]) /\ AllBacked(s.call[p])
\* The invariant in the midst of a step, when k parts of call o and m paths of lookup g are to
\* be started or ended; g is 0 for none.
Owing(s, o, k, g, m) == s \in States /\ OwnersOK(s) /\ GroupsOK(s, g, m) /\ CallsOK(s, o, k)

\* Sets of slots are finite.
LEMMA SlotCounts ==
    ASSUME NEW s, NEW p, NEW g
    PROVE  /\ IsFiniteSet(Direct(s, p)) /\ Cardinality(Direct(s, p)) \in Nat
           /\ IsFiniteSet(GroupsOf(s, p)) /\ Cardinality(GroupsOf(s, p)) \in Nat
           /\ IsFiniteSet(PathsOf(s, g)) /\ Cardinality(PathsOf(s, g)) \in Nat
           /\ Pending(s, p) \in Nat
<1>1. Direct(s, p) \subseteq Slots /\ GroupsOf(s, p) \subseteq GroupSlots /\ PathsOf(s, g) \subseteq Slots
  BY DEF Direct, GroupsOf, PathsOf
<1>2. IsFiniteSet(Direct(s, p)) /\ IsFiniteSet(GroupsOf(s, p)) /\ IsFiniteSet(PathsOf(s, g))
  BY <1>1, FS_Subset, LookupAssumption
<1>3. /\ Cardinality(Direct(s, p)) \in Nat /\ Cardinality(GroupsOf(s, p)) \in Nat
      /\ Cardinality(PathsOf(s, g)) \in Nat
  BY <1>2, FS_CardinalityType
<1> QED
  BY <1>2, <1>3 DEF Pending

\* The fields of the state.
LEMMA StateFields ==
    ASSUME NEW s \in States
    PROVE  /\ \A i \in Slots : /\ s.rpc[i] \in RpcRecords \cup {Idle} /\ s.rpc[i].active \in BOOLEAN
                               /\ s.rpc[i].active => s.rpc[i] \in RpcRecords
                               /\ ~s.rpc[i].active => s.rpc[i] = Idle
           /\ \A g \in GroupSlots : /\ s.group[g] \in GroupRecords \cup {Idle} /\ s.group[g].active \in BOOLEAN
                                    /\ s.group[g].active => s.group[g] \in GroupRecords
                                    /\ ~s.group[g].active => s.group[g] = Idle
           /\ \A p \in Callers : s.call[p] \in CallRecords
           /\ DOMAIN s.rpc = Slots /\ DOMAIN s.group = GroupSlots /\ DOMAIN s.call = Callers
           /\ s.known \in SUBSET Nodes /\ s.held \in SUBSET Keys
<1>1. /\ s.rpc \in [Slots -> RpcRecords \cup {Idle}] /\ s.group \in [GroupSlots -> GroupRecords \cup {Idle}]
      /\ s.call \in [Callers -> CallRecords] /\ s.known \in SUBSET Nodes /\ s.held \in SUBSET Keys
  BY DEF States
<1>2. ASSUME NEW r, r \in RpcRecords \cup {Idle}
      PROVE  r.active \in BOOLEAN /\ (r.active => r \in RpcRecords) /\ (~r.active => r = Idle)
  <2>1. CASE r \in RpcRecords
    <3>1. r.active = TRUE
      BY <2>1 DEF RpcRecords
    <3> QED
      BY <2>1, <3>1
  <2>2. CASE r = Idle
    <3>1. r.active = FALSE
      BY <2>2 DEF Idle
    <3> QED
      BY <2>2, <3>1
  <2> QED
    BY <1>2, <2>1, <2>2
<1>3. ASSUME NEW r, r \in GroupRecords \cup {Idle}
      PROVE  r.active \in BOOLEAN /\ (r.active => r \in GroupRecords) /\ (~r.active => r = Idle)
  <2>1. CASE r \in GroupRecords
    <3>1. r.active = TRUE
      BY <2>1 DEF GroupRecords
    <3> QED
      BY <2>1, <3>1
  <2>2. CASE r = Idle
    <3>1. r.active = FALSE
      BY <2>2 DEF Idle
    <3> QED
      BY <2>2, <3>1
  <2> QED
    BY <1>3, <2>1, <2>2
<1> QED
  BY <1>1, <1>2, <1>3

\* A state with other RPCs.
LEMMA WithRpcs ==
    ASSUME NEW s \in States, NEW x \in [Slots -> RpcRecords \cup {Idle}], NEW t, t = [s EXCEPT !.rpc = x]
    PROVE  /\ t \in States /\ t.rpc = x /\ t.group = s.group /\ t.call = s.call
           /\ t.known = s.known /\ t.held = s.held
BY DEF States

\* A state with other lookups.
LEMMA WithGroups ==
    ASSUME NEW s \in States, NEW x \in [GroupSlots -> GroupRecords \cup {Idle}], NEW t, t = [s EXCEPT !.group = x]
    PROVE  /\ t \in States /\ t.group = x /\ t.rpc = s.rpc /\ t.call = s.call
           /\ t.known = s.known /\ t.held = s.held
BY DEF States

\* A state with other calls.
LEMMA WithCalls ==
    ASSUME NEW s \in States, NEW x \in [Callers -> CallRecords], NEW t, t = [s EXCEPT !.call = x]
    PROVE  /\ t \in States /\ t.call = x /\ t.rpc = s.rpc /\ t.group = s.group
           /\ t.known = s.known /\ t.held = s.held
BY DEF States

\* State t has one RPC more than s, or one lookup more.
OneMoreRpc(t, s, i) ==
    /\ \A j \in Slots : j # i => t.rpc[j] = s.rpc[j]
    /\ s.rpc[i].active = FALSE /\ t.rpc[i].active = TRUE
OneMoreGroup(t, s, g) ==
    /\ \A h \in GroupSlots : h # g => t.group[h] = s.group[h]
    /\ s.group[g].active = FALSE /\ t.group[g].active = TRUE
Plus(yes) == IF yes THEN 1 ELSE 0
CountsDiffer(t, s, R) ==
    /\ \A p : Cardinality(Direct(t, p)) = Cardinality(Direct(s, p)) + Plus(R.owner = Owner(p, 0))
    /\ \A g : Cardinality(PathsOf(t, g)) = Cardinality(PathsOf(s, g)) + Plus(R.owner.group = g)

\* One RPC more is one more of its call or of its lookup.
LEMMA RpcCounts ==
    ASSUME NEW s, NEW t, NEW i \in Slots, OneMoreRpc(t, s, i)
    PROVE  /\ CountsDiffer(t, s, t.rpc[i])
           /\ \A p : Direct(s, p) \subseteq Direct(t, p)
           /\ \A g : PathsOf(s, g) \subseteq PathsOf(t, g) /\ PathsOf(t, g) \subseteq PathsOf(s, g) \cup {i}
           /\ \A g : i \notin PathsOf(s, g)
<1> DEFINE R == t.rpc[i]
<1>1. ASSUME NEW p
      PROVE  /\ i \notin Direct(s, p)
             /\ Direct(t, p) = IF R.owner = Owner(p, 0) THEN Direct(s, p) \cup {i} ELSE Direct(s, p)
  BY DEF OneMoreRpc, Direct
<1>2. ASSUME NEW g
      PROVE  /\ i \notin PathsOf(s, g)
             /\ PathsOf(t, g) = IF R.owner.group = g THEN PathsOf(s, g) \cup {i} ELSE PathsOf(s, g)
  BY DEF OneMoreRpc, PathsOf
<1>3. ASSUME NEW p PROVE Cardinality(Direct(t, p)) = Cardinality(Direct(s, p)) + Plus(R.owner = Owner(p, 0))
  <2>1. IsFiniteSet(Direct(s, p)) /\ Cardinality(Direct(s, p)) \in Nat
    BY SlotCounts
  <2>2. Cardinality(Direct(s, p) \cup {i}) = Cardinality(Direct(s, p)) + 1
    BY <1>1, <2>1, FS_AddElement
  <2> QED
    BY <1>1, <2>1, <2>2 DEF Plus
<1>4. ASSUME NEW g PROVE Cardinality(PathsOf(t, g)) = Cardinality(PathsOf(s, g)) + Plus(R.owner.group = g)
  <2>1. IsFiniteSet(PathsOf(s, g)) /\ Cardinality(PathsOf(s, g)) \in Nat
    BY SlotCounts
  <2>2. Cardinality(PathsOf(s, g) \cup {i}) = Cardinality(PathsOf(s, g)) + 1
    BY <1>2, <2>1, FS_AddElement
  <2>3. CASE R.owner.group = g
    BY <1>2, <2>1, <2>2, <2>3 DEF Plus
  <2>4. CASE R.owner.group # g
    BY <1>2, <2>1, <2>4 DEF Plus
  <2> QED
    BY <2>3, <2>4
<1>5. CountsDiffer(t, s, t.rpc[i])
  BY <1>3, <1>4 DEF CountsDiffer
<1>6. \A p : Direct(s, p) \subseteq Direct(t, p)
  BY <1>1
<1>7. \A g : PathsOf(s, g) \subseteq PathsOf(t, g) /\ PathsOf(t, g) \subseteq PathsOf(s, g) \cup {i} /\ i \notin PathsOf(s, g)
  BY <1>2
<1> QED
  BY <1>5, <1>6, <1>7

\* One lookup more is one more of its call.
LEMMA GroupCounts ==
    ASSUME NEW s, NEW t, NEW g \in GroupSlots, OneMoreGroup(t, s, g), NEW p
    PROVE  Cardinality(GroupsOf(t, p)) = Cardinality(GroupsOf(s, p)) + Plus(t.group[g].op = p)
<1>1. /\ g \notin GroupsOf(s, p)
      /\ GroupsOf(t, p) = IF t.group[g].op = p THEN GroupsOf(s, p) \cup {g} ELSE GroupsOf(s, p)
  BY DEF OneMoreGroup, GroupsOf
<1>2. IsFiniteSet(GroupsOf(s, p)) /\ Cardinality(GroupsOf(s, p)) \in Nat
  BY SlotCounts
<1>3. Cardinality(GroupsOf(s, p) \cup {g}) = Cardinality(GroupsOf(s, p)) + 1
  BY <1>1, <1>2, FS_AddElement
<1> QED
  BY <1>1, <1>2, <1>3 DEF Plus

\* The counts look at the RPCs and the lookups only.
LEMMA CountsKept ==
    ASSUME NEW s, NEW t
    PROVE  /\ t.rpc = s.rpc => \A p : Direct(t, p) = Direct(s, p) /\ PathsOf(t, p) = PathsOf(s, p)
           /\ t.group = s.group => \A p : GroupsOf(t, p) = GroupsOf(s, p)
BY DEF Direct, PathsOf, GroupsOf

\* The first free slot is free.
LEMMA FirstFreeIs ==
    ASSUME NEW f, DOMAIN f \subseteq Nat, FreeSlots(f) # {}
    PROVE  FirstFree(f) \in DOMAIN f /\ ~f[FirstFree(f)].active
<1>1. FreeSlots(f) \subseteq Nat
  BY DEF FreeSlots
<1>2. \E i \in FreeSlots(f) : \A j \in FreeSlots(f) : i <= j
  BY <1>1, LeastNatural
<1>3. FirstFree(f) \in FreeSlots(f)
  BY <1>2 DEF FirstFree
<1> QED
  BY <1>3 DEF FreeSlots

\* Nothing and Done are results.
LEMMA SomeResults ==
    /\ Nothing \in Results /\ Backed(Nothing) /\ ~Good(Nothing)
    /\ Result(Done, {}) \in Results /\ Backed(Result(Done, {}))
<1>1. Nothing = [value |-> NoValue, givers |-> {}, agreed |-> FALSE]
  BY DEF Nothing, Result
<1>2. Result(Done, {}) = [value |-> Done, givers |-> {}, agreed |-> FALSE]
  BY DEF Result
<1>3. NoValue \in Values /\ Done \in Values
  BY DEF Values
<1>4. Nothing \in Results /\ Result(Done, {}) \in Results
  <2>1. \A v \in Values : [value |-> v, givers |-> {}, agreed |-> FALSE] \in Results
    BY DEF Results
  <2> QED
    BY <1>1, <1>2, <1>3, <2>1
<1>5. Backed(Nothing) /\ Backed(Result(Done, {}))
  BY <1>1, <1>2 DEF Backed
<1>6. ~Good(Nothing)
  BY <1>1 DEF Good
<1> QED
  BY <1>4, <1>5, <1>6

\* The record of a call after a part of it ended.
Informed(c, r) ==
    IF c.kind = "private" THEN Covered(c, r)
    ELSE IF c.kind \in {"stores", "values"} THEN Closed(Tallied(c, r, c.kind = "values"), c.kind = "values")
    ELSE Told(c, r)
SameCall(d, c) ==
    /\ d.kind = c.kind /\ d.started = c.started /\ d.issuing = c.issuing /\ d.total = c.total
    /\ d.early = c.early

\* A call is told something.
LEMMA ToldFields ==
    ASSUME NEW c \in CallRecords, NEW r \in Results, NEW d, d = Told(c, r)
    PROVE  /\ d \in CallRecords /\ SameCall(d, c) /\ d.done = c.done /\ d.good = c.good /\ d.found = c.found
           /\ Len(d.answers) = Len(c.answers) + 1 /\ d.answers[Len(c.answers) + 1] = r
           /\ \A k \in 1..Len(c.answers) : d.answers[k] = c.answers[k]
           /\ d.early = c.early
<1> DEFINE a == Append(c.answers, r)
<1>1. c.answers \in Seq(Results)
  BY DEF CallRecords
<1>2. /\ a \in Seq(Results) /\ Len(a) = Len(c.answers) + 1 /\ a[Len(c.answers) + 1] = r
      /\ \A k \in 1..Len(c.answers) : a[k] = c.answers[k]
  BY <1>1, AppendProperties
<1>3. d = [c EXCEPT !.answers = a]
  BY DEF Told
<1> HIDE DEF a
<1>4. /\ d \in CallRecords /\ d.kind = c.kind /\ d.started = c.started /\ d.issuing = c.issuing
      /\ d.total = c.total /\ d.done = c.done /\ d.good = c.good /\ d.found = c.found /\ d.answers = a
      /\ d.early = c.early
  BY <1>2, <1>3 DEF CallRecords
<1> QED
  BY <1>2, <1>4 DEF SameCall

\* What was told is backed if what is told is.
LEMMA ToldBacked ==
    ASSUME NEW c \in CallRecords, NEW r \in Results, NEW d, d = Told(c, r), AllBacked(c),
           Backed(r) \/ c.kind = "skad_node"
    PROVE  AllBacked(d)
<1>1. /\ d.kind = c.kind /\ d.found = c.found /\ Len(d.answers) = Len(c.answers) + 1
      /\ d.answers[Len(c.answers) + 1] = r
      /\ \A k \in 1..Len(c.answers) : d.answers[k] = c.answers[k]
  BY ToldFields DEF SameCall
<1>2. Len(c.answers) \in Nat
  BY DEF CallRecords
<1> SUFFICES ASSUME c.kind # "skad_node"
             PROVE  (\A q \in d.found : Backed(q)) /\ \A k \in 1..Len(d.answers) : Backed(d.answers[k])
  BY <1>1 DEF AllBacked
<1>3. ASSUME NEW k \in 1..Len(d.answers) PROVE Backed(d.answers[k])
  <2>1. CASE k \in 1..Len(c.answers)
    BY <1>1, <2>1 DEF AllBacked
  <2>2. CASE k \notin 1..Len(c.answers)
    <3>1. k = Len(c.answers) + 1
      BY <1>1, <1>2, <2>2
    <3> QED
      BY <1>1, <3>1
  <2> QED
    BY <2>1, <2>2
<1> QED
  BY <1>1, <1>3 DEF AllBacked

PartCounted(c, good, found) == [c EXCEPT !.done = c.done + 1, !.good = good, !.found = found]

\* One more part of a call is counted.
LEMMA TallyFields ==
    ASSUME NEW c \in CallRecords, NEW good \in Nat, NEW found \in SUBSET Results, NEW d,
           d = PartCounted(c, good, found)
    PROVE  /\ d \in CallRecords /\ SameCall(d, c) /\ d.done = c.done + 1 /\ d.good = good
           /\ d.found = found /\ d.answers = c.answers /\ d.early = c.early
<1>1. c.done + 1 \in Nat
  BY DEF CallRecords
<1>2. /\ d \in CallRecords /\ d.kind = c.kind /\ d.started = c.started /\ d.issuing = c.issuing
      /\ d.total = c.total /\ d.done = c.done + 1 /\ d.good = good /\ d.found = found
      /\ d.answers = c.answers /\ d.early = c.early
  BY <1>1 DEF CallRecords, PartCounted
<1> QED
  BY <1>2 DEF SameCall

\* What Informed has to give.
InformedWell(d, c) ==
    d \in CallRecords /\ SameCall(d, c) /\ Settled(d) = Settled(c) + 1 /\ CallOK(d) /\ AllBacked(d)

\* A call of one part is told.
LEMMA SingleInformed ==
    ASSUME NEW c \in CallRecords, CallOK(c), AllBacked(c), c.started, NEW r \in Results,
           Backed(r) \/ c.kind = "skad_node", Settled(c) < c.total, c.kind \notin Multi
    PROVE  InformedWell(Told(c, r), c)
<1> DEFINE d == Told(c, r)
<1>1. /\ d \in CallRecords /\ SameCall(d, c) /\ d.done = c.done /\ d.good = c.good /\ d.found = c.found
      /\ Len(d.answers) = Len(c.answers) + 1
  BY ToldFields
<1>2. AllBacked(d)
  BY ToldBacked
<1> HIDE DEF d
<1>3. Settled(d) = Settled(c) + 1
  BY <1>1 DEF Settled, SameCall
<1>4. CallOK(d)
  BY <1>1 DEF CallOK, TallyOK, Twice, SameCall, Multi
<1> QED
  BY <1>1, <1>2, <1>3, <1>4 DEF InformedWell, d

\* A replica of a store or of a find has ended.
LEMMA ReplicaInformed ==
    ASSUME NEW c \in CallRecords, CallOK(c), AllBacked(c), c.started, NEW r \in Results, Backed(r),
           Settled(c) < c.total, c.kind \in {"stores", "values"}
    PROVE  InformedWell(Closed(Tallied(c, r, c.kind = "values"), c.kind = "values"), c)
<1> DEFINE finds == c.kind = "values"
           good == IF Good(r) THEN c.good + 1 ELSE c.good
           t == [c EXCEPT !.done = @ + 1, !.good = IF Good(r) THEN @ + 1 ELSE @]
           u == Tallied(c, r, finds)
           d == Closed(u, finds)
           first == finds /\ Good(r) /\ c.good = 0
<1>1. /\ c.done \in Nat /\ c.good \in Nat /\ c.total \in Nat /\ c.found \in SUBSET Results
      /\ c.answers \in Seq(Results) /\ c.issuing \in BOOLEAN
  BY DEF CallRecords
<1>2. c.done < c.total /\ c.done # c.total
  BY <1>1 DEF Settled, Multi
<1>3. TallyOK(c)
  BY DEF CallOK, Twice
<1>4. IF finds /\ c.good > 0 THEN Len(c.answers) = 1 ELSE c.answers = <<>>
  BY <1>2, <1>3 DEF TallyOK
<1>5. good \in Nat /\ (good = 0 <=> c.good = 0 /\ ~Good(r))
  BY <1>1
<1>6. t = PartCounted(c, good, c.found)
  BY DEF CallRecords, PartCounted
<1> HIDE DEF good, t
<1>7. /\ t \in CallRecords /\ SameCall(t, c) /\ t.done = c.done + 1 /\ t.good = good
      /\ t.found = c.found /\ t.answers = c.answers
  <2>1. good \in Nat /\ c.found \in SUBSET Results
    BY <1>1, <1>5
  <2> QED
    BY <1>6, <2>1, TallyFields
<1>8. AllBacked(t)
  BY <1>7 DEF AllBacked, SameCall
<1>9. u = IF first THEN Told(t, r) ELSE t
  BY DEF Tallied, t
<1> HIDE DEF u
<1>10. /\ u \in CallRecords /\ SameCall(u, c) /\ u.done = c.done + 1 /\ u.good = good /\ AllBacked(u)
       /\ IF finds /\ good > 0 THEN Len(u.answers) = 1 ELSE u.answers = <<>>
  <2>1. CASE first
    <3>1. u = Told(t, r)
      BY <1>9, <2>1
    <3>2. /\ u \in CallRecords /\ SameCall(u, t) /\ u.done = t.done /\ u.good = t.good
          /\ Len(u.answers) = Len(t.answers) + 1
      BY <1>7, <3>1, ToldFields
    <3>3. AllBacked(u)
      BY <1>7, <1>8, <3>1, ToldBacked
    <3>4. Len(t.answers) = 0 /\ good > 0 /\ finds
      BY <1>1, <1>4, <1>5, <1>7, <2>1
    <3>5. SameCall(u, c)
      BY <1>7, <3>2 DEF SameCall
    <3> QED
      BY <1>7, <3>2, <3>3, <3>4, <3>5
  <2>2. CASE ~first
    <3>1. u = t
      BY <1>9, <2>2
    <3>2. finds => (good > 0 <=> c.good > 0)
      BY <1>1, <1>5, <2>2
    <3> QED
      BY <1>4, <1>7, <1>8, <3>1, <3>2
  <2> QED
    BY <2>1, <2>2
<1>11. u.early = c.early /\ u.total = c.total /\ u.kind = c.kind /\ u.issuing = c.issuing /\ u.started = c.started
  BY <1>10 DEF SameCall
<1>12. CASE u.issuing \/ u.done < u.total
  <2>1. d = u
    BY <1>12 DEF Closed
  <2>2. ~(u.done = u.total /\ ~u.issuing)
    BY <1>1, <1>10, <1>11, <1>12
  <2>3. TallyOK(u)
    BY <1>10, <1>11, <2>2 DEF TallyOK
  <2>4. CallOK(u)
    BY <1>11, <2>3 DEF CallOK
  <2>5. Settled(u) = Settled(c) + 1
    BY <1>10, <1>11 DEF Settled, Multi
  <2> QED
    BY <1>10, <2>1, <2>4, <2>5 DEF InformedWell, u
<1>13. CASE ~(u.issuing \/ u.done < u.total)
  <2>1. u.done = u.total /\ ~u.issuing
    BY <1>1, <1>2, <1>10, <1>11, <1>13
  <2>2. CASE finds /\ good > 0
    <3>1. d = u
      BY <1>5, <1>10, <1>13, <2>2 DEF Closed
    <3>2. TallyOK(u)
      BY <1>10, <1>11, <2>2 DEF TallyOK
    <3>3. CallOK(u)
      BY <1>11, <3>2 DEF CallOK
    <3>4. Settled(u) = Settled(c) + 1
      BY <1>10, <1>11 DEF Settled, Multi
    <3> QED
      BY <1>10, <3>1, <3>3, <3>4 DEF InformedWell, u
  <2>3. CASE ~(finds /\ good > 0)
    <3>1. PICK q \in Results : Backed(q) /\ d = Told(u, q)
      <4>1. CASE finds
        <5>1. d = Told(u, Nothing)
          <6>1. u.good = 0
            BY <1>5, <1>10, <2>3, <4>1
          <6> QED
            BY <1>13, <4>1, <6>1 DEF Closed
        <5> QED
          BY <5>1, SomeResults
      <4>2. CASE ~finds
        <5>1. d = Told(u, IF u.good > 0 THEN Result(Done, {}) ELSE Nothing)
          BY <1>13, <4>2 DEF Closed
        <5> QED
          BY <5>1, SomeResults
      <4> QED
        BY <4>1, <4>2
    <3> HIDE DEF d
    <3>2. /\ d \in CallRecords /\ SameCall(d, u) /\ d.done = u.done /\ d.good = u.good
          /\ Len(d.answers) = Len(u.answers) + 1
      BY <1>10, <3>1, ToldFields
    <3>3. AllBacked(d)
      BY <1>10, <3>1, ToldBacked
    <3>4. Len(d.answers) = 1
      BY <1>10, <2>3, <3>2
    <3>5. SameCall(d, c) /\ d.kind = c.kind /\ d.done = d.total /\ ~d.issuing /\ d.started /\ d.total = c.total
      BY <1>11, <2>1, <3>2 DEF SameCall
    <3>6. TallyOK(d)
      BY <3>4, <3>5 DEF TallyOK
    <3>7. CallOK(d)
      BY <3>5, <3>6 DEF CallOK
    <3>8. Settled(d) = Settled(c) + 1
      BY <1>10, <3>2, <3>5 DEF Settled, Multi
    <3> QED
      BY <3>2, <3>3, <3>5, <3>7, <3>8 DEF InformedWell, d, u
  <2> QED
    BY <2>2, <2>3
<1> QED
  BY <1>12, <1>13

\* A query of a private lookup, or a cover, has ended.
LEMMA PrivateInformed ==
    ASSUME NEW c \in CallRecords, CallOK(c), AllBacked(c), c.started, NEW r \in Results, Backed(r),
           Settled(c) < c.total, c.kind = "private"
    PROVE  InformedWell(Covered(c, r), c)
<1> DEFINE found == IF Good(r) THEN {r} ELSE c.found
           t == [c EXCEPT !.done = @ + 1, !.found = IF Good(r) THEN {r} ELSE @]
           d == Covered(c, r)
<1>1. /\ c.done \in Nat /\ c.good \in Nat /\ c.total \in Nat /\ c.found \in SUBSET Results
      /\ c.answers \in Seq(Results) /\ c.issuing \in BOOLEAN
  BY DEF CallRecords
<1>2. c.done < c.total /\ c.done # c.total
  BY <1>1 DEF Settled, Multi
<1>3. c.answers = <<>>
  <2>1. TallyOK(c)
    BY <1>2 DEF CallOK, Twice
  <2> QED
    BY <1>2, <2>1 DEF TallyOK
<1>4. found \in SUBSET Results /\ \A q \in found : Backed(q)
  BY <1>1 DEF AllBacked
<1>5. t = PartCounted(c, c.good, found)
  BY DEF CallRecords, PartCounted
<1> HIDE DEF found, t
<1>6. /\ t \in CallRecords /\ SameCall(t, c) /\ t.done = c.done + 1 /\ t.good = c.good
      /\ t.found = found /\ t.answers = c.answers
  BY <1>1, <1>4, <1>5, TallyFields
<1>7. /\ t.kind = c.kind /\ t.total = c.total /\ t.issuing = c.issuing /\ t.started = c.started /\ ~t.issuing
      /\ t.early = c.early
  BY <1>6 DEF SameCall, CallOK
<1>8. AllBacked(t)
  BY <1>3, <1>4, <1>6 DEF AllBacked
<1>9. CASE t.done < t.total
  <2>1. d = t
    BY <1>9 DEF Covered, t
  <2>2. t.done # t.total
    BY <1>1, <1>6, <1>9
  <2>3. TallyOK(t)
    BY <1>3, <1>6, <1>7, <2>2 DEF TallyOK
  <2>4. CallOK(t)
    BY <1>7, <2>3 DEF CallOK
  <2>5. Settled(t) = Settled(c) + 1
    BY <1>6, <1>7 DEF Settled, Multi
  <2> QED
    BY <1>6, <1>8, <2>1, <2>4, <2>5 DEF InformedWell
<1>10. CASE ~(t.done < t.total)
  <2>1. t.done = t.total
    BY <1>1, <1>2, <1>6, <1>7, <1>10
  <2>2. PICK q \in Results : Backed(q) /\ d = Told(t, q)
    <3>1. d = Told(t, IF t.found = {} THEN Nothing ELSE CHOOSE v \in t.found : TRUE)
      BY <1>10 DEF Covered, t
    <3>2. CASE t.found = {}
      BY <3>1, <3>2, SomeResults
    <3>3. CASE t.found # {}
      <4>1. (CHOOSE v \in t.found : TRUE) \in t.found
        BY <3>3
      <4> DEFINE q == CHOOSE v \in t.found : TRUE
      <4>2. d = Told(t, q)
        BY <3>1, <3>3
      <4> HIDE DEF q, d
      <4>3. q \in found
        BY <1>6, <4>1 DEF q
      <4> QED
        BY <1>4, <4>2, <4>3
    <3> QED
      BY <3>2, <3>3
  <2> HIDE DEF d
  <2>3. /\ d \in CallRecords /\ SameCall(d, t) /\ d.done = t.done /\ Len(d.answers) = Len(t.answers) + 1
    BY <1>6, <2>2, ToldFields, SMTT(30)
  <2>4. AllBacked(d)
    BY <1>6, <1>8, <2>2, ToldBacked
  <2>5. Len(d.answers) = 1
    BY <1>3, <1>6, <2>3
  <2>6. SameCall(d, c) /\ d.kind = c.kind /\ d.done = d.total /\ ~d.issuing /\ d.started /\ d.total = c.total
    BY <1>7, <2>1, <2>3 DEF SameCall
  <2>7. TallyOK(d)
    BY <2>5, <2>6 DEF TallyOK
  <2>8. CallOK(d)
    BY <2>6, <2>7 DEF CallOK
  <2>9. Settled(d) = Settled(c) + 1
    BY <1>6, <2>3, <2>6 DEF Settled, Multi
  <2> QED
    BY <2>3, <2>4, <2>6, <2>8, <2>9 DEF InformedWell, d
<1> QED
  BY <1>9, <1>10

\* A part of a call ends.
LEMMA InformedOK ==
    ASSUME NEW c \in CallRecords, CallOK(c), AllBacked(c), c.started, NEW r \in Results,
           Backed(r) \/ c.kind = "skad_node", Settled(c) < c.total
    PROVE  InformedWell(Informed(c, r), c)
<1>1. CASE c.kind = "private"
  <2>1. Informed(c, r) = Covered(c, r)
    BY <1>1 DEF Informed
  <2> QED
    BY <1>1, <2>1, PrivateInformed
<1>2. CASE c.kind \in {"stores", "values"}
  <2>1. Informed(c, r) = Closed(Tallied(c, r, c.kind = "values"), c.kind = "values")
    BY <1>2 DEF Informed
  <2> QED
    BY <1>2, <2>1, ReplicaInformed
<1>3. CASE c.kind \notin Multi
  <2>1. Informed(c, r) = Told(c, r)
    BY <1>3 DEF Informed, Multi
  <2> QED
    BY <1>3, <2>1, SingleInformed
<1> QED
  BY <1>1, <1>2, <1>3 DEF Multi

\* The callback changes the record of its call.
LEMMA AnswerIs ==
    ASSUME NEW s \in States, NEW o \in Callers, NEW r
    PROVE  Answer(s, o, r) = [s EXCEPT !.call = [s.call EXCEPT ![o] = Informed(s.call[o], r)]]
BY DEF Answer, Informed, States

\* The paths of a lookup stay apart when some of them end.
LEMMA PathsApartKept ==
    ASSUME NEW s, NEW t, NEW g, t.group[g] = s.group[g], PathsOf(t, g) \subseteq PathsOf(s, g),
           \A i \in PathsOf(t, g) : t.rpc[i] = s.rpc[i], PathsApart(s, g)
    PROVE  PathsApart(t, g)
BY DEF PathsApart, ValuePath

\* What a step inside a call leaves alone: the calls' kinds, and how many parts they have.
SameCalls(t, s) == \A p \in Callers : SameCall(t.call[p], s.call[p])
SameKinds(t, s) == \A p \in Callers : t.call[p].kind = s.call[p].kind

\* The lookups are as they were when no RPC and no lookup changed.
LEMMA GroupsKept ==
    ASSUME NEW s \in States, NEW t, t.rpc = s.rpc, t.group = s.group, SameKinds(t, s),
           NEW g, NEW m, GroupsOK(s, g, m), OwnersOK(s)
    PROVE  GroupsOK(t, g, m) /\ OwnersOK(t)
<1>1. OwnersOK(t)
  BY DEF OwnersOK
<1>2. ASSUME NEW h \in GroupSlots, t.group[h].active
      PROVE  /\ GroupDue(t, h, IF h = g THEN m ELSE 0)
             /\ h # g => Len(t.group[h].results) < Paths
             /\ ForValue(t, h) => PathsApart(t, h)
  <2>1. GroupDue(t, h, IF h = g THEN m ELSE 0)
    <3>1. PathsOf(t, h) = PathsOf(s, h)
      BY CountsKept
    <3> QED
      BY <1>2, <3>1 DEF GroupsOK, GroupDue
  <2>2. ForValue(t, h) => PathsApart(t, h)
    <3>1. s.group[h].op \in Callers
      BY <1>2, StateFields DEF GroupRecords
    <3>2. ForValue(t, h) => ForValue(s, h)
      BY <3>1 DEF ForValue, SameKinds
    <3> QED
      BY <1>2, <3>2, CountsKept, PathsApartKept DEF GroupsOK
  <2> QED
    BY <1>2, <2>1, <2>2 DEF GroupsOK
<1> QED
  BY <1>1, <1>2 DEF GroupsOK

\* The calls that a change does not concern, and one that it does.
LEMMA CallsChange ==
    ASSUME NEW s, NEW t, NEW o \in Callers, NEW k, NEW l, CallsOK(s, o, k),
           \A p \in Callers : p # o => t.call[p] = s.call[p] /\ Pending(t, p) = Pending(s, p),
           CallDue(t, o, l), CallOK(t.call[o]), AllBacked(t.call[o])
    PROVE  CallsOK(t, o, l)
<1> SUFFICES ASSUME NEW p \in Callers
             PROVE  CallDue(t, p, IF p = o THEN l ELSE 0) /\ CallOK(t.call[p]) /\ AllBacked(t.call[p])
  BY DEF CallsOK
<1>1. CASE p = o
  BY <1>1
<1>2. CASE p # o
  BY <1>2 DEF CallsOK, CallDue
<1> QED
  BY <1>1, <1>2

\* A call that has parts to come is started and has not ended.
LEMMA NotSettled ==
    ASSUME NEW s \in States, NEW o \in Callers, NEW k \in Nat, CallDue(s, o, k + 1)
    PROVE  /\ s.call[o].started /\ s.call[o] \in CallRecords /\ Settled(s.call[o]) \in Nat
           /\ Settled(s.call[o]) < s.call[o].total
<1> DEFINE c == s.call[o]
<1>1. c \in CallRecords
  BY StateFields
<1>2. Settled(c) \in Nat /\ c.total \in Nat
  BY <1>1 DEF CallRecords, Settled
<1>3. Pending(s, o) \in Nat
  BY SlotCounts
<1> HIDE DEF c
<1>4. Pending(s, o) + Settled(c) + (k + 1) = IF c.started THEN c.total ELSE 0
  BY DEF CallDue, c
<1>5. c.started
  BY <1>2, <1>3, <1>4
<1>6. Settled(c) < c.total
  BY <1>2, <1>3, <1>4, <1>5
<1> QED
  BY <1>1, <1>2, <1>5, <1>6 DEF c

\* The callback of a call to which one part more was owed.
LEMMA AnswerOK ==
    ASSUME NEW s, NEW o \in Callers, NEW k \in Nat, NEW g, NEW m, Owing(s, o, k + 1, g, m),
           NEW r \in Results, Backed(r) \/ s.call[o].kind = "skad_node", NEW t, t = Answer(s, o, r)
    PROVE  Owing(t, o, k, g, m) /\ SameCalls(t, s) /\ t.rpc = s.rpc /\ t.group = s.group
<1>1. s \in States /\ OwnersOK(s) /\ GroupsOK(s, g, m) /\ CallsOK(s, o, k + 1)
  BY DEF Owing
<1> DEFINE c == s.call[o]
           d == Informed(c, r)
           x == [s.call EXCEPT ![o] = d]
<1>2. CallDue(s, o, k + 1) /\ CallOK(c) /\ AllBacked(c)
  BY <1>1 DEF CallsOK
<1>3. c.started /\ c \in CallRecords /\ Settled(c) < c.total /\ Settled(c) \in Nat
  BY <1>1, <1>2, NotSettled
<1>4. t = [s EXCEPT !.call = x]
  BY <1>1, AnswerIs
<1> HIDE DEF c
<1>5. InformedWell(d, c)
  BY <1>2, <1>3, InformedOK DEF c
<1> HIDE DEF d
<1>6. d \in CallRecords /\ SameCall(d, c) /\ Settled(d) = Settled(c) + 1 /\ CallOK(d) /\ AllBacked(d)
  BY <1>5 DEF InformedWell
<1>7. s.call \in [Callers -> CallRecords]
  BY <1>1 DEF States
<1>8. x \in [Callers -> CallRecords] /\ x[o] = d /\ \A p \in Callers : p # o => x[p] = s.call[p]
  BY <1>6, <1>7
<1> HIDE DEF x
<1>9. t \in States /\ t.rpc = s.rpc /\ t.group = s.group /\ t.call = x
  BY <1>1, <1>4, <1>8, WithCalls
<1>10. SameCalls(t, s)
  BY <1>6, <1>8, <1>9 DEF SameCalls, SameCall, c
<1>11. \A p \in Callers : Pending(t, p) = Pending(s, p)
  BY <1>9, CountsKept DEF Pending
<1>12. CallDue(t, o, k)
  <2>1. Pending(s, o) + Settled(c) + (k + 1) = IF c.started THEN c.total ELSE 0
    BY <1>2 DEF CallDue, c
  <2>2. Pending(s, o) \in Nat /\ c.total = d.total /\ c.started = d.started
    BY <1>6, SlotCounts DEF SameCall
  <2>3. Pending(s, o) + Settled(d) + k = IF d.started THEN d.total ELSE 0
    BY <1>3, <1>6, <2>1, <2>2
  <2> QED
    BY <1>8, <1>9, <1>11, <2>3 DEF CallDue
<1>13. CallsOK(t, o, k)
  BY <1>1, <1>6, <1>8, <1>9, <1>11, <1>12, CallsChange
<1>14. GroupsOK(t, g, m) /\ OwnersOK(t)
  <2>1. SameKinds(t, s)
    BY <1>10 DEF SameCalls, SameCall, SameKinds
  <2> QED
    BY <1>1, <1>9, <2>1, GroupsKept
<1> QED
  BY <1>9, <1>10, <1>13, <1>14 DEF Owing

\* The record of a call is replaced.
Recorded(s, o, d) == [s EXCEPT !.call[o] = d]
\* What is owed then follows from the new record.
LEMMA CallReplaced ==
    ASSUME NEW s, NEW o \in Callers, NEW k, NEW g, NEW m, Owing(s, o, k, g, m), NEW l,
           NEW d \in CallRecords, d.kind = s.call[o].kind, CallOK(d), AllBacked(d),
           Pending(s, o) + Settled(d) + l = (IF d.started THEN d.total ELSE 0),
           NEW t, t = Recorded(s, o, d)
    PROVE  /\ Owing(t, o, l, g, m) /\ t.call[o] = d /\ SameKinds(t, s)
           /\ t.rpc = s.rpc /\ t.group = s.group /\ t.known = s.known /\ t.held = s.held
           /\ \A p \in Callers : p # o => t.call[p] = s.call[p]
<1> DEFINE x == [s.call EXCEPT ![o] = d]
<1>1. s \in States /\ OwnersOK(s) /\ GroupsOK(s, g, m) /\ CallsOK(s, o, k)
  BY DEF Owing
<1>2. s.call \in [Callers -> CallRecords]
  BY <1>1 DEF States
<1>3. x \in [Callers -> CallRecords] /\ x[o] = d /\ \A p \in Callers : p # o => x[p] = s.call[p]
  BY <1>2
<1>4. t = [s EXCEPT !.call = x]
  BY <1>1 DEF Recorded, States
<1> HIDE DEF x
<1>5. /\ t \in States /\ t.rpc = s.rpc /\ t.group = s.group /\ t.call = x
      /\ t.known = s.known /\ t.held = s.held
  BY <1>1, <1>3, <1>4, WithCalls
<1>6. SameKinds(t, s)
  BY <1>3, <1>5 DEF SameKinds
<1>7. \A p \in Callers : Pending(t, p) = Pending(s, p)
  BY <1>5, CountsKept DEF Pending
<1>8. CallDue(t, o, l)
  BY <1>3, <1>5, <1>7 DEF CallDue
<1>9. CallsOK(t, o, l)
  BY <1>1, <1>3, <1>5, <1>7, <1>8, CallsChange
<1>10. GroupsOK(t, g, m) /\ OwnersOK(t)
  BY <1>1, <1>5, <1>6, GroupsKept
<1> QED
  BY <1>3, <1>5, <1>6, <1>9, <1>10 DEF Owing

\* One RPC more is one part less that is owed.
LEMMA RpcMoves ==
    ASSUME NEW s \in States, NEW t \in States, NEW i \in Slots, OneMoreRpc(t, s, i),
           t.group = s.group, t.call = s.call
    PROVE  /\ \A p \in Callers, k \in Nat :
                CallDue(t, p, k) <=> CallDue(s, p, k + Plus(t.rpc[i].owner = Owner(p, 0)))
           /\ \A h \in GroupSlots, m \in Nat :
                s.group[h].active => (GroupDue(t, h, m) <=> GroupDue(s, h, m + Plus(t.rpc[i].owner.group = h)))
           /\ OwnersOK(t) => OwnersOK(s)
<1>1. CountsDiffer(t, s, t.rpc[i])
  BY RpcCounts
<1>2. ASSUME NEW p \in Callers, NEW k \in Nat
      PROVE  CallDue(t, p, k) <=> CallDue(s, p, k + Plus(t.rpc[i].owner = Owner(p, 0)))
  <2> DEFINE d == Plus(t.rpc[i].owner = Owner(p, 0))
             c == s.call[p]
  <2>1. Cardinality(Direct(t, p)) = Cardinality(Direct(s, p)) + d
    BY <1>1 DEF CountsDiffer
  <2>2. GroupsOf(t, p) = GroupsOf(s, p)
    BY CountsKept
  <2>3. d \in Nat
    BY DEF Plus
  <2>4. Cardinality(Direct(s, p)) \in Nat /\ Cardinality(GroupsOf(s, p)) \in Nat
    BY SlotCounts
  <2>5. Settled(c) \in Nat
    <3>1. c \in CallRecords
      BY StateFields
    <3> QED
      BY <3>1 DEF CallRecords, Settled
  <2> HIDE DEF d, c
  <2>6. Pending(t, p) + Settled(c) + k = Pending(s, p) + Settled(c) + (k + d)
    BY <2>1, <2>2, <2>3, <2>4, <2>5 DEF Pending
  <2>7. CallDue(t, p, k) <=> CallDue(s, p, k + d)
    BY <2>6 DEF CallDue, c
  <2> QED
    BY <2>7 DEF d
<1>3. ASSUME NEW h \in GroupSlots, NEW m \in Nat, s.group[h].active
      PROVE  GroupDue(t, h, m) <=> GroupDue(s, h, m + Plus(t.rpc[i].owner.group = h))
  <2> DEFINE d == Plus(t.rpc[i].owner.group = h)
             l == Len(s.group[h].results)
  <2>1. Cardinality(PathsOf(t, h)) = Cardinality(PathsOf(s, h)) + d
    BY <1>1 DEF CountsDiffer
  <2>2. d \in Nat
    BY DEF Plus
  <2>3. Cardinality(PathsOf(s, h)) \in Nat
    BY SlotCounts
  <2>4. l \in Nat
    BY <1>3, StateFields DEF GroupRecords
  <2> HIDE DEF d, l
  <2>5. Cardinality(PathsOf(t, h)) + l + m = Cardinality(PathsOf(s, h)) + l + (m + d)
    BY <2>1, <2>2, <2>3, <2>4
  <2>6. GroupDue(t, h, m) <=> GroupDue(s, h, m + d)
    BY <2>5 DEF GroupDue, l
  <2> QED
    BY <2>6 DEF d
<1>4. OwnersOK(t) => OwnersOK(s)
  BY DEF OwnersOK, OneMoreRpc
<1> QED
  BY <1>2, <1>3, <1>4

\* A request goes out.
LEMMA LaunchIs ==
    ASSUME NEW s \in States, FreeSlots(s.rpc) # {}, NEW R \in RpcRecords, NEW t, t = Launch(s, R)
    PROVE  /\ t \in States /\ t.group = s.group /\ t.call = s.call
           /\ \E i \in Slots : OneMoreRpc(t, s, i) /\ t.rpc[i] = R
<1> DEFINE i == FirstFree(s.rpc)
           x == [s.rpc EXCEPT ![i] = R]
<1>1. DOMAIN s.rpc = Slots /\ s.rpc \in [Slots -> RpcRecords \cup {Idle}]
  BY DEF States
<1>2. i \in Slots /\ ~s.rpc[i].active
  BY <1>1, FirstFreeIs, LookupAssumption
<1>3. t = [s EXCEPT !.rpc = x]
  BY DEF Launch, States
<1> HIDE DEF i
<1>4. x \in [Slots -> RpcRecords \cup {Idle}] /\ x[i] = R /\ \A j \in Slots : j # i => x[j] = s.rpc[j]
  BY <1>1, <1>2
<1> HIDE DEF x
<1>5. t \in States /\ t.rpc = x /\ t.group = s.group /\ t.call = s.call
  BY <1>3, <1>4, WithRpcs
<1>6. s.rpc[i].active = FALSE
  BY <1>2, StateFields
<1>7. R.active = TRUE
  BY DEF RpcRecords
<1>8. OneMoreRpc(t, s, i) /\ t.rpc[i] = R
  BY <1>4, <1>5, <1>6, <1>7 DEF OneMoreRpc
<1> QED
  BY <1>2, <1>5, <1>8

\* The paths of a lookup that an RPC does not belong to.
LEMMA OtherPaths ==
    ASSUME NEW s \in States, NEW t \in States, NEW i \in Slots, OneMoreRpc(t, s, i), t.group = s.group,
           NEW h, t.rpc[i].owner.group # h
    PROVE  /\ PathsOf(t, h) = PathsOf(s, h) /\ \A j \in PathsOf(s, h) : t.rpc[j] = s.rpc[j]
           /\ PathsApart(s, h) <=> PathsApart(t, h)
<1>1. PathsOf(t, h) = PathsOf(s, h) /\ \A j \in PathsOf(s, h) : t.rpc[j] = s.rpc[j]
  BY DEF OneMoreRpc, PathsOf
<1>2. PathsApart(s, h) => PathsApart(t, h)
  BY <1>1, PathsApartKept
<1>3. PathsApart(t, h) => PathsApart(s, h)
  BY <1>1, PathsApartKept
<1> QED
  BY <1>1, <1>2, <1>3

\* What an RPC has to be for a path of lookup g for a value.
FitsPath(s, g, R) ==
    /\ R.kind = "value" /\ R.asked \subseteq R.queried /\ R.queried \subseteq s.group[g].global
    /\ \A i \in PathsOf(s, g) : s.rpc[i].queried \cap R.queried = {}
    /\ \A j \in 1..Len(s.group[g].results) :
            Good(s.group[g].results[j]) => s.group[g].results[j].givers \cap R.queried = {}

\* The paths with one more are apart if it fits, and only then.
LEMMA PathFits ==
    ASSUME NEW s \in States, NEW t \in States, NEW i \in Slots, OneMoreRpc(t, s, i), t.group = s.group,
           NEW g, t.rpc[i].owner.group = g
    PROVE  PathsApart(t, g) <=> PathsApart(s, g) /\ FitsPath(s, g, t.rpc[i])
<1> DEFINE R == t.rpc[i]
           rs == s.group[g].results
<1>1. /\ PathsOf(t, g) = PathsOf(s, g) \cup {i} /\ i \notin PathsOf(s, g)
      /\ \A j \in PathsOf(s, g) : t.rpc[j] = s.rpc[j]
  BY DEF OneMoreRpc, PathsOf
<1>2. t.group[g] = s.group[g]
  OBVIOUS
<1>3. ASSUME PathsApart(t, g) PROVE PathsApart(s, g) /\ FitsPath(s, g, R)
  <2>1. PathsApart(s, g)
    <3>1. \A j \in PathsOf(s, g) : s.rpc[j] = t.rpc[j]
      BY <1>1
    <3> QED
      BY <1>1, <1>2, <1>3, <3>1, PathsApartKept
  <2>2. R.kind = "value" /\ R.asked \subseteq R.queried /\ R.queried \subseteq s.group[g].global
    BY <1>1, <1>2, <1>3 DEF PathsApart, ValuePath
  <2>3. \A j \in PathsOf(s, g) : s.rpc[j].queried \cap R.queried = {}
    BY <1>1, <1>3 DEF PathsApart
  <2>4. \A j \in 1..Len(rs) : Good(rs[j]) => rs[j].givers \cap R.queried = {}
    BY <1>1, <1>2, <1>3 DEF PathsApart
  <2> QED
    BY <2>1, <2>2, <2>3, <2>4 DEF FitsPath
<1>4. ASSUME PathsApart(s, g), FitsPath(s, g, R) PROVE PathsApart(t, g)
  <2> HIDE DEF R
  <2>1. \A j \in PathsOf(t, g) : ValuePath(t, g, j)
    BY <1>1, <1>2, <1>4 DEF PathsApart, ValuePath, FitsPath, R
  <2>2. \A j, k \in PathsOf(t, g) : j # k => t.rpc[j].queried \cap t.rpc[k].queried = {}
    <3>1. \A j, k \in PathsOf(s, g) : j # k => s.rpc[j].queried \cap s.rpc[k].queried = {}
      BY <1>4 DEF PathsApart
    <3>2. \A j \in PathsOf(s, g) : s.rpc[j].queried \cap R.queried = {}
      BY <1>4 DEF FitsPath
    <3> QED
      BY <1>1, <3>1, <3>2 DEF R
  <2>3. \A j \in 1..Len(rs) : \A k \in PathsOf(t, g) : Good(rs[j]) => rs[j].givers \cap t.rpc[k].queried = {}
    <3>1. \A j \in 1..Len(rs) : \A k \in PathsOf(s, g) : Good(rs[j]) => rs[j].givers \cap s.rpc[k].queried = {}
      BY <1>4 DEF PathsApart
    <3>2. \A j \in 1..Len(rs) : Good(rs[j]) => rs[j].givers \cap R.queried = {}
      BY <1>4 DEF FitsPath
    <3> QED
      BY <1>1, <3>1, <3>2 DEF R
  <2> QED
    BY <1>2, <1>4, <2>1, <2>2, <2>3 DEF PathsApart
<1> QED
  BY <1>3, <1>4

\* With one RPC more of call o, the other calls owe what they owed.
LEMMA CallsMove ==
    ASSUME NEW s \in States, NEW t \in States, NEW i \in Slots, OneMoreRpc(t, s, i), t.group = s.group,
           t.call = s.call, NEW o \in Callers, t.rpc[i].owner.op = o, NEW k \in Nat, NEW d,
           d = Plus(t.rpc[i].owner = Owner(o, 0))
    PROVE  CallsOK(t, o, k) <=> CallsOK(s, o, k + d)
<1>1. \A p \in Callers : t.rpc[i].owner = Owner(p, 0) => p = o
  BY DEF Owner
<1>2. ASSUME NEW p \in Callers
      PROVE  CallDue(t, p, IF p = o THEN k ELSE 0) <=> CallDue(s, p, IF p = o THEN k + d ELSE 0)
  <2>1. CASE p = o
    BY <2>1, RpcMoves
  <2>2. CASE p # o
    <3>1. Plus(t.rpc[i].owner = Owner(p, 0)) = 0
      BY <1>1, <2>2 DEF Plus
    <3>2. CallDue(t, p, 0) <=> CallDue(s, p, 0 + Plus(t.rpc[i].owner = Owner(p, 0)))
      BY RpcMoves
    <3> QED
      BY <2>2, <3>1, <3>2
  <2> QED
    BY <2>1, <2>2
<1> QED
  BY <1>2 DEF CallsOK

\* One RPC more of the call itself is one part less that it owes.
LEMMA DirectMoves ==
    ASSUME NEW s \in States, NEW t \in States, NEW i \in Slots, OneMoreRpc(t, s, i), t.group = s.group,
           t.call = s.call, NEW o \in Callers, t.rpc[i].owner = Owner(o, 0), NEW k \in Nat
    PROVE  Owing(t, o, k, 0, 0) <=> Owing(s, o, k + 1, 0, 0)
<1> DEFINE R == t.rpc[i]
<1>1. R.owner.group = 0 /\ R.owner.op = o
  BY DEF Owner
<1>2. OwnersOK(t) <=> OwnersOK(s)
  BY <1>1 DEF OwnersOK, OneMoreRpc
<1>3. CallsOK(t, o, k) <=> CallsOK(s, o, k + 1)
  <2>1. Plus(R.owner = Owner(o, 0)) = 1
    BY DEF Plus
  <2> HIDE DEF R
  <2> QED
    BY <1>1, <2>1, CallsMove DEF R
<1>4. ASSUME NEW h \in GroupSlots, s.group[h].active
      PROVE  /\ GroupDue(t, h, IF h = 0 THEN 0 ELSE 0) <=> GroupDue(s, h, IF h = 0 THEN 0 ELSE 0)
             /\ t.group[h] = s.group[h] /\ (ForValue(t, h) <=> ForValue(s, h))
             /\ PathsApart(s, h) <=> PathsApart(t, h)
  <2>1. h # 0
    BY LookupAssumption
  <2>2. Plus(R.owner.group = h) = 0
    BY <1>1, <2>1 DEF Plus
  <2>3. GroupDue(t, h, 0) <=> GroupDue(s, h, 0 + Plus(R.owner.group = h))
    BY <1>4, RpcMoves
  <2>4. PathsApart(s, h) <=> PathsApart(t, h)
    BY <1>1, <2>1, OtherPaths
  <2>5. t.group[h] = s.group[h] /\ (ForValue(t, h) <=> ForValue(s, h))
    BY DEF ForValue
  <2> QED
    BY <2>2, <2>3, <2>4, <2>5
<1>5. GroupsOK(t, 0, 0) <=> GroupsOK(s, 0, 0)
  BY <1>4 DEF GroupsOK
<1> QED
  BY <1>2, <1>3, <1>5 DEF Owing

\* One RPC more for a path of lookup g is one path less that it owes.
LEMMA PathMoves ==
    ASSUME NEW s \in States, NEW t \in States, NEW i \in Slots, OneMoreRpc(t, s, i), t.group = s.group,
           t.call = s.call, NEW o \in Callers, NEW g \in GroupSlots, t.rpc[i].owner = Owner(o, g),
           s.group[g].active, s.group[g].op = o, NEW k \in Nat, NEW m \in Nat
    PROVE  Owing(t, o, k, g, m) <=> Owing(s, o, k, g, m + 1) /\ (ForValue(s, g) => FitsPath(s, g, t.rpc[i]))
<1> DEFINE R == t.rpc[i]
<1>1. R.owner.group = g /\ R.owner.op = o /\ g # 0
  <2>1. R.owner.group = g /\ R.owner.op = o
    BY DEF Owner
  <2> QED
    BY <2>1, LookupAssumption
<1>2. OwnersOK(t) <=> OwnersOK(s)
  BY <1>1 DEF OwnersOK, OneMoreRpc
<1>3. CallsOK(t, o, k) <=> CallsOK(s, o, k)
  <2>1. Plus(R.owner = Owner(o, 0)) = 0
    BY <1>1 DEF Plus, Owner
  <2>2. k + 0 = k
    OBVIOUS
  <2>3. CallsOK(t, o, k) <=> CallsOK(s, o, k + 0)
    BY <1>1, <2>1, CallsMove
  <2> QED
    BY <2>2, <2>3
<1> DEFINE Apart(z, h) == ForValue(z, h) => PathsApart(z, h)
<1>4. ASSUME NEW h \in GroupSlots, s.group[h].active, h # g
      PROVE  /\ GroupDue(t, h, 0) <=> GroupDue(s, h, 0)
             /\ t.group[h] = s.group[h] /\ (Apart(t, h) <=> Apart(s, h))
  <2>1. Plus(R.owner.group = h) = 0
    BY <1>1, <1>4 DEF Plus
  <2>2. GroupDue(t, h, 0) <=> GroupDue(s, h, 0 + Plus(R.owner.group = h))
    BY <1>4, RpcMoves
  <2>3. PathsApart(s, h) <=> PathsApart(t, h)
    BY <1>1, <1>4, OtherPaths
  <2>4. t.group[h] = s.group[h] /\ (ForValue(t, h) <=> ForValue(s, h))
    BY DEF ForValue
  <2> QED
    BY <2>1, <2>2, <2>3, <2>4
<1>5. /\ GroupDue(t, g, m) <=> GroupDue(s, g, m + 1)
      /\ t.group[g] = s.group[g]
      /\ Apart(t, g) <=> Apart(s, g) /\ (ForValue(s, g) => FitsPath(s, g, R))
  <2>1. Plus(R.owner.group = g) = 1
    BY <1>1 DEF Plus
  <2>2. GroupDue(t, g, m) <=> GroupDue(s, g, m + Plus(R.owner.group = g))
    BY RpcMoves
  <2>3. PathsApart(t, g) <=> PathsApart(s, g) /\ FitsPath(s, g, R)
    BY <1>1, PathFits
  <2>4. t.group[g] = s.group[g] /\ (ForValue(t, g) <=> ForValue(s, g))
    BY DEF ForValue
  <2> HIDE DEF R
  <2> QED
    BY <2>1, <2>2, <2>3, <2>4
<1>6. GroupsOK(t, g, m) <=> GroupsOK(s, g, m + 1) /\ (ForValue(s, g) => FitsPath(s, g, R))
  <2>1. ASSUME NEW z, NEW n
        PROVE  GroupsOK(z, g, n) <=>
                  \A h \in GroupSlots : z.group[h].active =>
                     IF h = g THEN GroupDue(z, g, n) /\ Apart(z, g)
                     ELSE GroupDue(z, h, 0) /\ Len(z.group[h].results) < Paths /\ Apart(z, h)
    BY DEF GroupsOK
  <2>2. /\ GroupsOK(t, g, m) <=>
                  \A h \in GroupSlots : t.group[h].active =>
                     IF h = g THEN GroupDue(t, g, m) /\ Apart(t, g)
                     ELSE GroupDue(t, h, 0) /\ Len(t.group[h].results) < Paths /\ Apart(t, h)
        /\ GroupsOK(s, g, m + 1) <=>
                  \A h \in GroupSlots : s.group[h].active =>
                     IF h = g THEN GroupDue(s, g, m + 1) /\ Apart(s, g)
                     ELSE GroupDue(s, h, 0) /\ Len(s.group[h].results) < Paths /\ Apart(s, h)
    BY <2>1
  <2> HIDE DEF Apart, R
  <2> QED
    BY <1>4, <1>5, <2>2
<1> HIDE DEF R
<1> QED
  BY <1>2, <1>3, <1>6 DEF Owing, R

\* An RPC of the call itself goes out.
LEMMA LaunchOK ==
    ASSUME NEW s, NEW o \in Callers, NEW k \in Nat, Owing(s, o, k + 1, 0, 0), FreeSlots(s.rpc) # {},
           NEW R \in RpcRecords, R.owner = Owner(o, 0), NEW t, t = Launch(s, R)
    PROVE  Owing(t, o, k, 0, 0) /\ t.call = s.call
<1>1. s \in States
  BY DEF Owing
<1>2. /\ t \in States /\ t.group = s.group /\ t.call = s.call
      /\ \E i \in Slots : OneMoreRpc(t, s, i) /\ t.rpc[i] = R
  BY <1>1, LaunchIs
<1>3. PICK i \in Slots : OneMoreRpc(t, s, i) /\ t.rpc[i] = R
  BY <1>2
<1>4. Owing(t, o, k, 0, 0) <=> Owing(s, o, k + 1, 0, 0)
  BY <1>1, <1>2, <1>3, DirectMoves
<1> QED
  BY <1>2, <1>4

\* A path of lookup g starts.
LEMMA PathLaunched ==
    ASSUME NEW s, NEW o \in Callers, NEW k \in Nat, NEW g \in GroupSlots, NEW m \in Nat,
           Owing(s, o, k, g, m + 1), s.group[g].active, s.group[g].op = o, FreeSlots(s.rpc) # {},
           NEW R \in RpcRecords, R.owner = Owner(o, g), ForValue(s, g) => FitsPath(s, g, R),
           NEW t, t = Launch(s, R)
    PROVE  /\ Owing(t, o, k, g, m) /\ t.call = s.call /\ t.group = s.group
           /\ \A j \in PathsOf(t, g) : t.rpc[j] = R \/ (j \in PathsOf(s, g) /\ t.rpc[j] = s.rpc[j])
<1>1. s \in States
  BY DEF Owing
<1>2. /\ t \in States /\ t.group = s.group /\ t.call = s.call
      /\ \E i \in Slots : OneMoreRpc(t, s, i) /\ t.rpc[i] = R
  BY <1>1, LaunchIs
<1>3. PICK i \in Slots : OneMoreRpc(t, s, i) /\ t.rpc[i] = R
  BY <1>2
<1>4. Owing(t, o, k, g, m) <=> Owing(s, o, k, g, m + 1) /\ (ForValue(s, g) => FitsPath(s, g, t.rpc[i]))
  BY <1>1, <1>2, <1>3, PathMoves
<1>5. \A j \in PathsOf(t, g) : t.rpc[j] = R \/ (j \in PathsOf(s, g) /\ t.rpc[j] = s.rpc[j])
  BY <1>3 DEF OneMoreRpc, PathsOf
<1> QED
  BY <1>2, <1>3, <1>4, <1>5

\* While a lookup goes on it owes no path.
LEMMA GroupRuns ==
    ASSUME NEW s, NEW o, NEW k, NEW g \in GroupSlots, s.group[g].active
    PROVE  /\ Owing(s, o, k, 0, 0) => Owing(s, o, k, g, 0) /\ Len(s.group[g].results) < Paths
           /\ Owing(s, o, k, g, 0) /\ Len(s.group[g].results) # Paths => Owing(s, o, k, 0, 0)
<1>1. g # 0 /\ \A h \in GroupSlots : h # 0
  BY LookupAssumption
<1>2. ASSUME Owing(s, o, k, 0, 0) PROVE Owing(s, o, k, g, 0) /\ Len(s.group[g].results) < Paths
  BY <1>1, <1>2 DEF Owing, GroupsOK
<1>3. ASSUME Owing(s, o, k, g, 0), Len(s.group[g].results) # Paths PROVE Owing(s, o, k, 0, 0)
  <2>1. GroupDue(s, g, 0) /\ s \in States
    BY <1>3 DEF Owing, GroupsOK
  <2>2. s.group[g] \in GroupRecords
    BY <2>1, StateFields
  <2>3. Len(s.group[g].results) \in Nat
    BY <2>2 DEF GroupRecords
  <2>4. Cardinality(PathsOf(s, g)) \in Nat /\ Paths \in Nat
    BY SlotCounts, LookupAssumption
  <2>5. Len(s.group[g].results) < Paths
    BY <1>3, <2>1, <2>3, <2>4 DEF GroupDue
  <2> QED
    BY <1>1, <1>3, <2>5 DEF Owing, GroupsOK
<1> QED
  BY <1>2, <1>3

Freed(s, i) == [s EXCEPT !.rpc[i] = Idle]

\* An RPC is freed.
LEMMA FreedIs ==
    ASSUME NEW s \in States, NEW i \in Slots, s.rpc[i].active, NEW t, t = Freed(s, i)
    PROVE  t \in States /\ OneMoreRpc(s, t, i) /\ t.group = s.group /\ t.call = s.call
<1> DEFINE x == [s.rpc EXCEPT ![i] = Idle]
<1>1. s.rpc \in [Slots -> RpcRecords \cup {Idle}]
  BY DEF States
<1>2. x \in [Slots -> RpcRecords \cup {Idle}] /\ x[i] = Idle /\ \A j \in Slots : j # i => x[j] = s.rpc[j]
  BY <1>1
<1>3. t = [s EXCEPT !.rpc = x]
  BY DEF Freed, States
<1> HIDE DEF x
<1>4. t \in States /\ t.rpc = x /\ t.group = s.group /\ t.call = s.call
  BY <1>2, <1>3, WithRpcs
<1>5. Idle.active = FALSE
  BY DEF Idle
<1>6. s.rpc[i].active = TRUE
  BY StateFields
<1> QED
  BY <1>2, <1>4, <1>5, <1>6 DEF OneMoreRpc

\* One RPC less of a path of lookup g is one path more that it owes.
LEMMA PathLess ==
    ASSUME NEW s \in States, NEW t \in States, NEW i \in Slots, OneMoreRpc(s, t, i), s.group = t.group,
           s.call = t.call, NEW o \in Callers, NEW g \in GroupSlots, s.rpc[i].owner = Owner(o, g),
           t.group[g].active, t.group[g].op = o, NEW k \in Nat, NEW m \in Nat
    PROVE  Owing(s, o, k, g, m) <=> Owing(t, o, k, g, m + 1) /\ (ForValue(t, g) => FitsPath(t, g, s.rpc[i]))
BY PathMoves

\* When an RPC is freed the call, or the lookup, owes one part more.
LEMMA RpcFreed ==
    ASSUME NEW s, NEW o \in Callers, Owing(s, o, 0, 0, 0), NEW i \in Slots, s.rpc[i].active,
           NEW g \in GroupSlots \cup {0}, s.rpc[i].owner = Owner(o, g), NEW t, t = Freed(s, i)
    PROVE  /\ t.group = s.group /\ t.call = s.call
           /\ g = 0 => Owing(t, o, 1, 0, 0)
           /\ g # 0 => /\ g \in GroupSlots /\ s.group[g].active /\ s.group[g].op = o
                       /\ Owing(t, o, 0, g, 1) /\ (ForValue(t, g) => FitsPath(t, g, s.rpc[i]))
                       /\ Len(t.group[g].results) < Paths
<1>1. s \in States /\ OwnersOK(s)
  BY DEF Owing
<1>2. t \in States /\ OneMoreRpc(s, t, i) /\ t.group = s.group /\ t.call = s.call
  BY <1>1, FreedIs
<1>6. ASSUME g = 0 PROVE Owing(t, o, 1, 0, 0)
  <2>1. s.rpc[i].owner = Owner(o, 0) /\ s.group = t.group /\ s.call = t.call
    BY <1>2, <1>6
  <2>2. \A k \in Nat : Owing(s, o, k, 0, 0) <=> Owing(t, o, k + 1, 0, 0)
    BY <1>1, <1>2, <2>1, DirectMoves
  <2>3. Owing(s, o, 0, 0, 0) <=> Owing(t, o, 0 + 1, 0, 0)
    BY <2>2
  <2> QED
    BY <2>3
<1>7. ASSUME g # 0
      PROVE  /\ g \in GroupSlots /\ s.group[g].active /\ s.group[g].op = o
             /\ Owing(t, o, 0, g, 1) /\ (ForValue(t, g) => FitsPath(t, g, s.rpc[i]))
             /\ Len(t.group[g].results) < Paths
  <2>1. g \in GroupSlots /\ s.group[g].active /\ s.group[g].op = o
    <3>1. s.rpc[i].owner.group = g /\ s.rpc[i].owner.op = o
      BY DEF Owner
    <3> QED
      BY <1>1, <1>7, <3>1 DEF OwnersOK
  <2>2. Owing(s, o, 0, g, 0) /\ Len(s.group[g].results) < Paths
    BY <2>1, GroupRuns
  <2>3. t.group[g].active /\ t.group[g].op = o /\ s.group = t.group /\ s.call = t.call
    BY <1>2, <2>1
  <2>4. ASSUME NEW k \in Nat, NEW m \in Nat
        PROVE  Owing(s, o, k, g, m) <=> Owing(t, o, k, g, m + 1) /\ (ForValue(t, g) => FitsPath(t, g, s.rpc[i]))
    BY <1>1, <1>2, <2>1, <2>3, PathLess
  <2>5. Owing(s, o, 0, g, 0) <=> Owing(t, o, 0, g, 0 + 1) /\ (ForValue(t, g) => FitsPath(t, g, s.rpc[i]))
    BY <2>4
  <2> QED
    BY <1>2, <2>1, <2>2, <2>5
<1> QED
  BY <1>2, <1>6, <1>7

Looked(s, g, G) == [s EXCEPT !.group[g] = G]

\* The record of a lookup is replaced.
LEMMA LookedIs ==
    ASSUME NEW s \in States, NEW g \in GroupSlots, NEW G \in GroupRecords \cup {Idle}, NEW t, t = Looked(s, g, G)
    PROVE  /\ t \in States /\ t.rpc = s.rpc /\ t.call = s.call /\ t.group[g] = G
           /\ t.known = s.known /\ t.held = s.held
           /\ \A h \in GroupSlots : h # g => t.group[h] = s.group[h]
           /\ \A h : PathsOf(t, h) = PathsOf(s, h)
<1> DEFINE x == [s.group EXCEPT ![g] = G]
<1>1. s.group \in [GroupSlots -> GroupRecords \cup {Idle}]
  BY DEF States
<1>2. /\ x \in [GroupSlots -> GroupRecords \cup {Idle}] /\ x[g] = G
      /\ \A h \in GroupSlots : h # g => x[h] = s.group[h]
  BY <1>1
<1>3. t = [s EXCEPT !.group = x]
  BY DEF Looked, States
<1> HIDE DEF x
<1>4. /\ t \in States /\ t.group = x /\ t.rpc = s.rpc /\ t.call = s.call
      /\ t.known = s.known /\ t.held = s.held
  BY <1>2, <1>3, WithGroups
<1> QED
  BY <1>2, <1>4, CountsKept

\* A lookup goes on with another record.
LEMMA GroupReplaced ==
    ASSUME NEW s, NEW o, NEW k, NEW g \in GroupSlots, NEW m, Owing(s, o, k, g, m), s.group[g].active,
           NEW G \in GroupRecords, G.op = s.group[g].op, NEW n, NEW t, t = Looked(s, g, G),
           Cardinality(PathsOf(s, g)) + Len(G.results) + n = Paths,
           ForValue(s, g) => PathsApart(t, g)
    PROVE  Owing(t, o, k, g, n)
<1>1. s \in States /\ OwnersOK(s) /\ GroupsOK(s, g, m) /\ CallsOK(s, o, k)
  BY DEF Owing
<1>2. /\ t \in States /\ t.rpc = s.rpc /\ t.call = s.call /\ t.group[g] = G
      /\ \A h \in GroupSlots : h # g => t.group[h] = s.group[h]
      /\ \A h : PathsOf(t, h) = PathsOf(s, h)
  BY <1>1, LookedIs
<1>3. G.active
  BY DEF GroupRecords
<1>4. \A h \in GroupSlots : /\ t.group[h].active <=> s.group[h].active
                            /\ s.group[h].active => t.group[h].op = s.group[h].op
  BY <1>2, <1>3
<1>5. OwnersOK(t)
  <2> SUFFICES ASSUME NEW i \in Slots, t.rpc[i].active, t.rpc[i].owner.group # 0
               PROVE  /\ t.group[t.rpc[i].owner.group].active
                      /\ t.group[t.rpc[i].owner.group].op = t.rpc[i].owner.op
    BY DEF OwnersOK
  <2> DEFINE h == t.rpc[i].owner.group
  <2>1. s.group[h].active /\ s.group[h].op = t.rpc[i].owner.op
    BY <1>1, <1>2 DEF OwnersOK
  <2>2. s.rpc[i] \in RpcRecords
    BY <1>1, <1>2, StateFields
  <2>3. h \in GroupSlots
    BY <1>2, <2>2 DEF RpcRecords
  <2> QED
    BY <1>4, <2>1, <2>3
<1>6. \A p : GroupsOf(t, p) = GroupsOf(s, p) /\ Direct(t, p) = Direct(s, p)
  BY <1>2, <1>4 DEF GroupsOf, Direct
<1>7. CallsOK(t, o, k)
  BY <1>1, <1>2, <1>6 DEF CallsOK, CallDue, Pending
<1>8. GroupsOK(t, g, n)
  <2> SUFFICES ASSUME NEW h \in GroupSlots, t.group[h].active
               PROVE  /\ GroupDue(t, h, IF h = g THEN n ELSE 0)
                      /\ h # g => Len(t.group[h].results) < Paths
                      /\ ForValue(t, h) => PathsApart(t, h)
    BY DEF GroupsOK
  <2>1. ForValue(t, h) <=> ForValue(s, h)
    BY <1>2, <1>4 DEF ForValue
  <2>2. CASE h = g
    BY <1>2, <2>1, <2>2 DEF GroupDue
  <2>3. CASE h # g
    <3>1. /\ GroupDue(s, h, 0) /\ Len(s.group[h].results) < Paths /\ (ForValue(s, h) => PathsApart(s, h))
      BY <1>1, <1>4, <2>3 DEF GroupsOK
    <3>2. GroupDue(t, h, 0)
      BY <1>2, <2>3, <3>1 DEF GroupDue
    <3>3. PathsApart(s, h) => PathsApart(t, h)
      BY <1>2, <2>3, PathsApartKept
    <3> QED
      BY <1>2, <2>1, <2>3, <3>1, <3>2, <3>3
  <2> QED
    BY <2>2, <2>3
<1> QED
  BY <1>2, <1>5, <1>7, <1>8 DEF Owing

\* A result that no other path of lookup g may have found, nor may find.
NewResult(s, g, r) ==
    Good(r) => \E n \in s.group[g].global :
        /\ r.givers = {n}
        /\ \A i \in PathsOf(s, g) : n \notin s.rpc[i].queried
        /\ \A j \in 1..Len(s.group[g].results) :
                Good(s.group[g].results[j]) => n \notin s.group[g].results[j].givers
Added(s, g, r) == [s EXCEPT !.group[g].results = Append(@, r)]

\* A lookup with one result more.
LEMMA AddedIs ==
    ASSUME NEW s \in States, NEW g \in GroupSlots, s.group[g].active, NEW r \in Results,
           NEW t, t = Added(s, g, r)
    PROVE  /\ t.group[g] \in GroupRecords /\ t = Looked(s, g, t.group[g])
           /\ t.group[g].op = s.group[g].op /\ t.group[g].global = s.group[g].global
           /\ t.group[g].active
           /\ t.group[g].results \in Seq(Results) /\ Len(t.group[g].results) = Len(s.group[g].results) + 1
           /\ t.group[g].results[Len(s.group[g].results) + 1] = r
           /\ \A j \in 1..Len(s.group[g].results) : t.group[g].results[j] = s.group[g].results[j]
           /\ t.group[g].results = Append(s.group[g].results, r)
<1> DEFINE G == s.group[g]
           rs == Append(G.results, r)
           H == [G EXCEPT !.results = rs]
<1>1. G \in GroupRecords
  BY StateFields
<1>2. G.results \in Seq(Results)
  BY <1>1 DEF GroupRecords
<1>3. /\ rs \in Seq(Results) /\ Len(rs) = Len(G.results) + 1 /\ rs[Len(G.results) + 1] = r
      /\ \A j \in 1..Len(G.results) : rs[j] = G.results[j]
  BY <1>2, AppendProperties
<1>4. t = Looked(s, g, H)
  BY DEF Added, Looked, States
<1> HIDE DEF rs
<1>5. H \in GroupRecords /\ H.op = G.op /\ H.global = G.global /\ H.active = TRUE /\ H.results = rs
  BY <1>1, <1>3 DEF GroupRecords
<1> HIDE DEF H
<1>6. t.group[g] = H
  BY <1>4, <1>5, LookedIs
<1> QED
  BY <1>3, <1>4, <1>5, <1>6 DEF rs

\* In t lookup g has result r after its l results in s.
OneMoreResult(t, s, g, l, r) ==
    /\ PathsOf(t, g) = PathsOf(s, g) /\ t.rpc = s.rpc
    /\ l = Len(s.group[g].results) /\ Len(t.group[g].results) = l + 1 /\ t.group[g].results[l + 1] = r
    /\ \A j \in 1..l : t.group[g].results[j] = s.group[g].results[j]
    /\ t.group[g].global = s.group[g].global

\* The paths stay apart with such a result.
LEMMA StillApart ==
    ASSUME NEW s, NEW t, NEW g, NEW r, NEW l \in Nat, OneMoreResult(t, s, g, l, r),
           PathsApart(s, g), NewResult(s, g, r)
    PROVE  PathsApart(t, g)
<1> DEFINE rs == s.group[g].results
           us == t.group[g].results
<1>0. /\ PathsOf(t, g) = PathsOf(s, g) /\ t.rpc = s.rpc
      /\ l = Len(rs) /\ Len(us) = l + 1 /\ us[l + 1] = r
      /\ \A j \in 1..l : us[j] = rs[j]
      /\ t.group[g].global = s.group[g].global
  BY DEF OneMoreResult
<1>1. ASSUME NEW j \in 1..Len(us)
      PROVE  IF j = l + 1 THEN us[j] = r ELSE j \in 1..l /\ us[j] = rs[j]
  <2>1. j \in 1..(l + 1)
    BY <1>0
  <2>2. j # l + 1 => j \in 1..l
    BY <2>1
  <2> QED
    BY <1>0, <2>2
<1>2. \A i \in PathsOf(t, g) : ValuePath(t, g, i)
  BY <1>0 DEF PathsApart, ValuePath
<1>3. \A i, j \in PathsOf(t, g) : i # j => t.rpc[i].queried \cap t.rpc[j].queried = {}
  BY <1>0 DEF PathsApart
<1>4. ASSUME NEW j \in 1..Len(us), Good(us[j]) PROVE \E n \in t.group[g].global : us[j].givers = {n}
  <2>1. CASE j = l + 1
    BY <1>0, <1>1, <1>4, <2>1 DEF NewResult
  <2>2. CASE j # l + 1
    <3>1. j \in 1..l /\ us[j] = rs[j] /\ Good(rs[j])
      BY <1>1, <1>4, <2>2
    <3>2. \E n \in s.group[g].global : rs[j].givers = {n}
      BY <1>0, <3>1 DEF PathsApart
    <3> QED
      BY <1>0, <3>1, <3>2
  <2> QED
    BY <2>1, <2>2
<1>5. ASSUME Good(r), NEW j \in 1..l, Good(rs[j]) PROVE r.givers \cap rs[j].givers = {}
  BY <1>0, <1>5 DEF NewResult
<1>6. ASSUME NEW j \in 1..Len(us), NEW k \in 1..Len(us), Good(us[j]), Good(us[k]), j # k
      PROVE  us[j].givers \cap us[k].givers = {}
  <2>1. CASE j = l + 1
    BY <1>1, <1>5, <1>6, <2>1
  <2>2. CASE k = l + 1
    BY <1>1, <1>5, <1>6, <2>2
  <2>3. CASE j # l + 1 /\ k # l + 1
    BY <1>0, <1>1, <1>6, <2>3 DEF PathsApart
  <2> QED
    BY <2>1, <2>2, <2>3
<1>7. ASSUME NEW j \in 1..Len(us), NEW i \in PathsOf(t, g), Good(us[j])
      PROVE  us[j].givers \cap t.rpc[i].queried = {}
  <2>1. CASE j = l + 1
    BY <1>0, <1>1, <1>7, <2>1 DEF NewResult
  <2>2. CASE j # l + 1
    BY <1>0, <1>1, <1>7, <2>2 DEF PathsApart
  <2> QED
    BY <2>1, <2>2
<1> HIDE DEF us, rs
<1> QED
  BY <1>0, <1>2, <1>3, <1>4, <1>6, <1>7 DEF PathsApart, us

MayEnd(s, o, k, g, m, r) ==
    /\ Owing(s, o, k, g, m) /\ s.group[g].active /\ r \in Results
    /\ ForValue(s, g) => NewResult(s, g, r)

\* A path of lookup g has ended.
LEMMA ResultAdded ==
    ASSUME NEW s, NEW o, NEW k, NEW g \in GroupSlots, NEW m \in Nat, NEW r, MayEnd(s, o, k, g, m + 1, r),
           NEW t, t = Added(s, g, r)
    PROVE  /\ Owing(t, o, k, g, m) /\ t.rpc = s.rpc /\ t.call = s.call
           /\ \A h : PathsOf(t, h) = PathsOf(s, h)
<1>0. /\ Owing(s, o, k, g, m + 1) /\ s.group[g].active /\ r \in Results
      /\ ForValue(s, g) => NewResult(s, g, r)
  BY DEF MayEnd
<1> DEFINE G == t.group[g]
           l == Len(s.group[g].results)
<1>1. s \in States /\ GroupsOK(s, g, m + 1)
  BY <1>0 DEF Owing
<1>2. /\ G \in GroupRecords /\ t = Looked(s, g, G) /\ G.op = s.group[g].op
      /\ G.global = s.group[g].global /\ Len(G.results) = l + 1 /\ G.results[l + 1] = r
      /\ \A j \in 1..l : G.results[j] = s.group[g].results[j]
  BY <1>0, <1>1, AddedIs, SMTT(30)
<1>3. l \in Nat
  <2>1. s.group[g] \in GroupRecords
    BY <1>0, <1>1, StateFields
  <2> QED
    BY <2>1 DEF GroupRecords
<1>4. /\ t.rpc = s.rpc /\ t.call = s.call
      /\ \A h : PathsOf(t, h) = PathsOf(s, h)
  BY <1>1, <1>2, LookedIs
<1>5. ForValue(s, g) => PathsApart(t, g)
  <2>1. ForValue(s, g) => PathsApart(s, g)
    BY <1>0, <1>1 DEF GroupsOK
  <2> QED
    <3>1. OneMoreResult(t, s, g, l, r)
      BY <1>2, <1>4 DEF OneMoreResult
    <3> HIDE DEF l, G
    <3> QED
      BY <1>0, <1>3, <2>1, <3>1, StillApart
<1>6. Cardinality(PathsOf(s, g)) + Len(G.results) + m = Paths
  <2>1. Cardinality(PathsOf(s, g)) \in Nat
    BY SlotCounts
  <2>2. Cardinality(PathsOf(s, g)) + l + (m + 1) = Paths
    BY <1>0, <1>1 DEF GroupsOK, GroupDue
  <2> HIDE DEF G, l
  <2> QED
    BY <1>2, <1>3, <2>1, <2>2
<1> HIDE DEF G
<1>7. Owing(t, o, k, g, m)
  BY <1>0, <1>2, <1>5, <1>6, GroupReplaced
<1> QED
  BY <1>4, <1>7

NewLookup(t, s, g) == OneMoreGroup(t, s, g) /\ t.rpc = s.rpc /\ t.call = s.call

OnePartLess(t, s, g, o, k) ==
    /\ CallsOK(t, o, k) <=> CallsOK(s, o, k + 1)
    /\ OwnersOK(t) <=> OwnersOK(s)
    /\ GroupsOK(t, g, Paths - Len(t.group[g].results)) => GroupsOK(s, 0, 0)

\* A lookup without RPCs begins or ends.
LEMMA GroupMoves ==
    ASSUME NEW s \in States, NEW t \in States, NEW g \in GroupSlots, NewLookup(t, s, g),
           NEW o \in Callers, t.group[g].op = o, NEW k \in Nat, PathsOf(s, g) = {}
    PROVE  OnePartLess(t, s, g, o, k)
<1>0. OneMoreGroup(t, s, g) /\ t.rpc = s.rpc /\ t.call = s.call
  BY DEF NewLookup
<1>1. ASSUME NEW p \in Callers
      PROVE  CallDue(t, p, IF p = o THEN k ELSE 0) <=> CallDue(s, p, IF p = o THEN k + 1 ELSE 0)
  <2> DEFINE c == s.call[p]
             d == Plus(t.group[g].op = p)
  <2>1. Cardinality(GroupsOf(t, p)) = Cardinality(GroupsOf(s, p)) + d
    BY <1>0, GroupCounts
  <2>2. Direct(t, p) = Direct(s, p)
    BY <1>0, CountsKept
  <2>3. Cardinality(Direct(s, p)) \in Nat /\ Cardinality(GroupsOf(s, p)) \in Nat
    BY SlotCounts
  <2>4. Settled(c) \in Nat
    <3>1. c \in CallRecords
      BY StateFields
    <3> QED
      BY <3>1 DEF CallRecords, Settled
  <2>5. d = IF p = o THEN 1 ELSE 0
    BY DEF Plus
  <2> HIDE DEF c, d
  <2>6. CASE p = o
    <3>1. Pending(t, p) + Settled(c) + k = Pending(s, p) + Settled(c) + (k + 1)
      BY <2>1, <2>2, <2>3, <2>4, <2>5, <2>6 DEF Pending
    <3> QED
      BY <2>6, <3>1 DEF CallDue, c, NewLookup
  <2>7. CASE p # o
    <3>1. Pending(t, p) + Settled(c) + 0 = Pending(s, p) + Settled(c) + 0
      BY <2>1, <2>2, <2>3, <2>4, <2>5, <2>7 DEF Pending
    <3> QED
      BY <2>7, <3>1 DEF CallDue, c, NewLookup
  <2> QED
    BY <2>6, <2>7
<1>2. CallsOK(t, o, k) <=> CallsOK(s, o, k + 1)
  BY <1>0, <1>1 DEF CallsOK
<1>3. ASSUME NEW i \in Slots, s.rpc[i].active, s.rpc[i].owner.group # 0
      PROVE  s.rpc[i].owner.group \in GroupSlots \ {g}
  <2>1. s.rpc[i] \in RpcRecords
    BY <1>3, StateFields
  <2>2. s.rpc[i].owner.group \in GroupSlots
    BY <1>3, <2>1 DEF RpcRecords
  <2> QED
    BY <1>3, <2>2 DEF PathsOf
<1>4. OwnersOK(t) <=> OwnersOK(s)
  BY <1>0, <1>3 DEF OwnersOK, OneMoreGroup
<1>5. ASSUME GroupsOK(t, g, Paths - Len(t.group[g].results)) PROVE GroupsOK(s, 0, 0)
  <2> SUFFICES ASSUME NEW h \in GroupSlots, s.group[h].active
               PROVE  /\ GroupDue(s, h, IF h = 0 THEN 0 ELSE 0) /\ (h # 0 => Len(s.group[h].results) < Paths)
                      /\ ForValue(s, h) => PathsApart(s, h)
    BY DEF GroupsOK
  <2>1. h # g /\ t.group[h] = s.group[h]
    BY <1>0 DEF OneMoreGroup
  <2>2. /\ GroupDue(t, h, 0) /\ Len(t.group[h].results) < Paths
        /\ ForValue(t, h) => PathsApart(t, h)
    BY <1>5, <2>1 DEF GroupsOK
  <2>3. PathsOf(t, h) = PathsOf(s, h)
    BY <1>0, CountsKept
  <2>4. PathsApart(t, h) => PathsApart(s, h)
    BY <1>0, <2>1, <2>3, PathsApartKept
  <2> QED
    BY <1>0, <2>1, <2>2, <2>3, <2>4 DEF GroupDue, ForValue
<1> QED
  BY <1>2, <1>4, <1>5 DEF OnePartLess

\* A lookup whose paths have all ended is closed; its call owes one part more.
LEMMA GroupClosed ==
    ASSUME NEW s, NEW o \in Callers, NEW k \in Nat, NEW g \in GroupSlots, Owing(s, o, k, g, 0),
           s.group[g].active, s.group[g].op = o, Len(s.group[g].results) = Paths,
           NEW t, t = Looked(s, g, Idle)
    PROVE  Owing(t, o, k + 1, 0, 0) /\ t.rpc = s.rpc /\ t.call = s.call
<1>1. s \in States /\ OwnersOK(s) /\ GroupsOK(s, g, 0) /\ CallsOK(s, o, k)
  BY DEF Owing
<1>2. /\ t \in States /\ t.rpc = s.rpc /\ t.call = s.call /\ t.group[g] = Idle
      /\ \A h \in GroupSlots : h # g => t.group[h] = s.group[h]
      /\ PathsOf(t, g) = PathsOf(s, g)
  BY <1>1, LookedIs
<1>3. NewLookup(s, t, g)
  <2>1. Idle.active = FALSE
    BY DEF Idle
  <2>2. s.group[g].active = TRUE
    BY <1>1, StateFields
  <2> QED
    BY <1>2, <2>1, <2>2 DEF OneMoreGroup, NewLookup
<1>4. PathsOf(t, g) = {}
  <2>1. Cardinality(PathsOf(s, g)) + Len(s.group[g].results) + 0 = Paths
    BY <1>1 DEF GroupsOK, GroupDue
  <2>2. IsFiniteSet(PathsOf(s, g)) /\ Cardinality(PathsOf(s, g)) \in Nat /\ Paths \in Nat
    BY SlotCounts, LookupAssumption
  <2>3. Cardinality(PathsOf(s, g)) = 0
    BY <2>1, <2>2
  <2> QED
    BY <1>2, <2>2, <2>3, FS_EmptySet
<1>5. GroupsOK(s, g, Paths - Len(s.group[g].results))
  <2>1. Paths - Len(s.group[g].results) = 0
    BY LookupAssumption
  <2> QED
    BY <1>1, <2>1
<1>6. CallsOK(t, o, k + 1) /\ OwnersOK(t) /\ GroupsOK(t, 0, 0)
  <2>1. OnePartLess(s, t, g, o, k)
    BY <1>1, <1>2, <1>3, <1>4, GroupMoves
  <2> QED
    BY <1>1, <1>5, <2>1 DEF OnePartLess
<1> QED
  BY <1>2, <1>6 DEF Owing

NewGroup(o, seeds) == [active |-> TRUE, op |-> o, results |-> <<>>, global |-> seeds]

\* A lookup begins; it owes all its paths, and its call one part less.
LEMMA GroupOpened ==
    ASSUME NEW s, NEW o \in Callers, NEW k \in Nat, Owing(s, o, k + 1, 0, 0), FreeSlots(s.group) # {},
           NEW seeds \in SUBSET Nodes, NEW g, g = FirstFree(s.group), NEW G,
           G = NewGroup(o, seeds), NEW t, t = Looked(s, g, G)
    PROVE  /\ Owing(t, o, k, g, Paths) /\ PathsOf(t, g) = {} /\ g \in GroupSlots /\ t.group[g] = G
           /\ t.rpc = s.rpc /\ t.call = s.call
<1>1. s \in States /\ OwnersOK(s) /\ GroupsOK(s, 0, 0) /\ CallsOK(s, o, k + 1)
  BY DEF Owing
<1>2. g \in GroupSlots /\ ~s.group[g].active
  <2>1. DOMAIN s.group = GroupSlots
    BY <1>1 DEF States
  <2> QED
    BY <2>1, FirstFreeIs, LookupAssumption
<1>3. G \in GroupRecords /\ G.active = TRUE /\ G.op = o /\ G.results = <<>> /\ Len(G.results) = 0
  <2>1. <<>> \in Seq(Results)
    OBVIOUS
  <2> QED
    BY <2>1 DEF GroupRecords, NewGroup
<1>4. /\ t \in States /\ t.rpc = s.rpc /\ t.call = s.call /\ t.group[g] = G
      /\ \A h \in GroupSlots : h # g => t.group[h] = s.group[h]
      /\ \A h : PathsOf(t, h) = PathsOf(s, h)
  BY <1>1, <1>2, <1>3, LookedIs
<1>5. NewLookup(t, s, g)
  <2>1. s.group[g].active = FALSE
    BY <1>1, <1>2, StateFields
  <2> QED
    BY <1>3, <1>4, <2>1 DEF OneMoreGroup, NewLookup
<1>6. PathsOf(s, g) = {}
  <2>1. g # 0
    BY <1>2, LookupAssumption
  <2> QED
    BY <1>1, <1>2, <2>1 DEF PathsOf, OwnersOK
<1>7. CallsOK(t, o, k) /\ OwnersOK(t)
  <2>1. OnePartLess(t, s, g, o, k)
    BY <1>1, <1>2, <1>3, <1>4, <1>5, <1>6, GroupMoves
  <2> QED
    BY <1>1, <2>1 DEF OnePartLess
<1>8. GroupsOK(t, g, Paths)
  <2> SUFFICES ASSUME NEW h \in GroupSlots, t.group[h].active
               PROVE  /\ GroupDue(t, h, IF h = g THEN Paths ELSE 0) /\ (h # g => Len(t.group[h].results) < Paths)
                      /\ ForValue(t, h) => PathsApart(t, h)
    BY DEF GroupsOK
  <2>1. CASE h = g
    <3>1. Cardinality(PathsOf(t, g)) = 0
      BY <1>4, <1>6, FS_EmptySet
    <3>2. GroupDue(t, g, Paths)
      BY <1>3, <1>4, <3>1, LookupAssumption DEF GroupDue
    <3>3. PathsApart(t, g)
      <4>1. 1..Len(t.group[g].results) = {}
        BY <1>3, <1>4
      <4> QED
        BY <1>4, <1>6, <4>1 DEF PathsApart
    <3> QED
      BY <2>1, <3>2, <3>3
  <2>2. CASE h # g
    <3>1. h # 0 /\ t.group[h] = s.group[h]
      BY <1>4, <2>2, LookupAssumption
    <3>2. /\ GroupDue(s, h, 0) /\ Len(s.group[h].results) < Paths
          /\ ForValue(s, h) => PathsApart(s, h)
      BY <1>1, <3>1 DEF GroupsOK
    <3>3. PathsApart(s, h) => PathsApart(t, h)
      BY <1>4, <3>1, PathsApartKept
    <3> QED
      BY <1>4, <2>2, <3>1, <3>2, <3>3 DEF GroupDue, ForValue
  <2> QED
    BY <2>1, <2>2
<1> QED
  BY <1>2, <1>4, <1>6, <1>7, <1>8 DEF Owing

\* Results whose values were given by one node each, no two by the same.
GivenApart(rs) ==
    /\ \A j \in 1..Len(rs) : Good(rs[j]) => \E n \in Nodes : rs[j].givers = {n}
    /\ \A j, k \in 1..Len(rs) : Good(rs[j]) /\ Good(rs[k]) /\ j # k => rs[j].givers \cap rs[k].givers = {}
SameValue(rs, i) == {j \in 1..Len(rs) : rs[j].value = rs[i].value}
AgreedWith(rs) == {j \in DOMAIN rs : \E i \in Agreed(rs) : rs[j].value = rs[i].value}
GiversOf(rs) == UNION {rs[j].givers : j \in AgreedWith(rs)}
Verdict(rs) ==
    IF Agreed(rs) = {} THEN Nothing
    ELSE [value |-> rs[CHOOSE i \in Agreed(rs) : TRUE].value, givers |-> GiversOf(rs), agreed |-> TRUE]

\* As many nodes gave the value that paths agreed on.
LEMMA AgreedGivers ==
    ASSUME NEW rs \in Seq(Results), GivenApart(rs), NEW i \in Agreed(rs)
    PROVE  Cardinality(GiversOf(rs)) >= Agree
<1> DEFINE S == SameValue(rs, i)
           U == GiversOf(rs)
<1>0. DOMAIN rs = 1..Len(rs) /\ \A j \in 1..Len(rs) : rs[j] \in Results
  OBVIOUS
<1>1. i \in 1..Len(rs) /\ Good(rs[i]) /\ Cardinality(S) >= Agree
  BY <1>0 DEF Agreed, SameValue
<1>2. \A j \in S : j \in 1..Len(rs) /\ Good(rs[j]) /\ j \in AgreedWith(rs)
  BY <1>0, <1>1 DEF SameValue, Good, AgreedWith
<1>3. IsFiniteSet(U)
  <2>1. \A j \in 1..Len(rs) : rs[j].givers \subseteq Nodes
    BY <1>0 DEF Results
  <2>2. AgreedWith(rs) \subseteq 1..Len(rs)
    BY <1>0 DEF AgreedWith
  <2>3. U \subseteq Nodes
    BY <2>1, <2>2 DEF GiversOf
  <2> QED
    BY <2>3, FS_Subset, LookupAssumption
<1> DEFINE f == [j \in S |-> CHOOSE n \in Nodes : rs[j].givers = {n}]
<1>4. \A j \in S : rs[j].givers = {f[j]}
  BY <1>2 DEF GivenApart
<1>5. f \in [S -> U]
  <2>1. \A j \in S : f[j] \in U
    BY <1>2, <1>4 DEF GiversOf
  <2> HIDE DEF S, U
  <2> QED
    BY <2>1
<1> HIDE DEF f
<1>6. \A a, b \in S : f[a] = f[b] => a = b
  <2> SUFFICES ASSUME NEW a \in S, NEW b \in S, f[a] = f[b], a # b PROVE FALSE
    OBVIOUS
  <2>1. rs[a].givers \cap rs[b].givers = {}
    BY <1>2 DEF GivenApart
  <2> QED
    BY <1>4, <2>1
<1>7. f \in Injection(S, U)
  <2> HIDE DEF S, U
  <2> QED
    BY <1>5, <1>6 DEF Injection, IsInjective
<1>8. Cardinality(S) <= Cardinality(U)
  <2> HIDE DEF S, U
  <2> QED
    BY <1>3, <1>7, FS_Injection
<1>9. Cardinality(U) \in Nat /\ Cardinality(S) \in Nat /\ Agree \in Nat
  <2>1. IsFiniteSet(S)
    <3>1. S \subseteq 1..Len(rs) /\ Len(rs) \in Nat
      BY <1>2
    <3>2. IsFiniteSet(1..Len(rs))
      BY <3>1, FS_Interval
    <3> QED
      BY <3>1, <3>2, FS_Subset
  <2> HIDE DEF S, U
  <2> QED
    BY <1>3, <2>1, FS_CardinalityType, LookupAssumption
<1> HIDE DEF S
<1> QED
  BY <1>1, <1>8, <1>9

\* The verdict of a lookup is a result, and a backed one if its paths do not cross.
LEMMA VerdictOK ==
    ASSUME NEW rs \in Seq(Results)
    PROVE  Verdict(rs) \in Results /\ (GivenApart(rs) => Backed(Verdict(rs)))
<1>1. CASE Agreed(rs) = {}
  BY <1>1, SomeResults DEF Verdict
<1>2. CASE Agreed(rs) # {}
  <2> DEFINE i == CHOOSE i \in Agreed(rs) : TRUE
             v == rs[i].value
             U == GiversOf(rs)
  <2>1. i \in Agreed(rs)
    BY <1>2
  <2>2. Verdict(rs) = [value |-> v, givers |-> U, agreed |-> TRUE]
    BY <1>2 DEF Verdict
  <2>3. i \in DOMAIN rs /\ \A j \in DOMAIN rs : rs[j] \in Results
    BY <2>1 DEF Agreed
  <2> HIDE DEF i
  <2>4. v \in Values
    BY <2>3 DEF Results
  <2>5. U \in SUBSET Nodes
    <3>1. \A j \in DOMAIN rs : rs[j].givers \subseteq Nodes
      BY <2>3 DEF Results
    <3> QED
      BY <3>1 DEF GiversOf, AgreedWith
  <2>6. GivenApart(rs) => Cardinality(U) >= Agree
    BY <2>1, AgreedGivers
  <2> HIDE DEF v, U
  <2>7. Verdict(rs) \in Results
    BY <2>2, <2>4, <2>5 DEF Results
  <2>8. Cardinality(U) >= Agree => Backed(Verdict(rs))
    BY <2>2 DEF Backed
  <2> QED
    BY <2>6, <2>7, <2>8
<1> QED
  BY <1>1, <1>2

\* skad_path_done.
LEMMA PathDoneIs ==
    ASSUME NEW s, NEW g, NEW r, NEW rs, rs = Append(s.group[g].results, r)
    PROVE  PathDone(s, g, r) =
               IF Len(rs) < Paths THEN [s EXCEPT !.group[g].results = rs]
               ELSE Answer(Looked(s, g, Idle), s.group[g].op, Verdict(rs))
BY DEF PathDone, Verdict, GiversOf, AgreedWith, Looked

\* A path of lookup g ends: the lookup goes on, or its call is answered.
LEMMA PathDoneOK ==
    ASSUME NEW s, NEW o \in Callers, NEW k \in Nat, NEW g \in GroupSlots, Owing(s, o, k, g, 1),
           s.group[g].active, s.group[g].op = o, Len(s.group[g].results) < Paths,
           NEW r \in Results, ForValue(s, g) => NewResult(s, g, r), NEW t, t = PathDone(s, g, r)
    PROVE  Owing(t, o, k, 0, 0) /\ SameCalls(t, s) /\ t.rpc = s.rpc
<1> DEFINE u == Added(s, g, r)
           rs == Append(s.group[g].results, r)
<1>1. s \in States
  BY DEF Owing
<1>2. /\ u = Looked(s, g, u.group[g]) /\ u.group[g].op = s.group[g].op
      /\ u.group[g].active /\ u.group[g].results \in Seq(Results)
      /\ u.group[g].results = rs /\ Len(u.group[g].results) = Len(s.group[g].results) + 1
  BY <1>1, AddedIs
<1>3. Owing(u, o, k, g, 0) /\ u.rpc = s.rpc /\ u.call = s.call
  <2> HIDE DEF rs
  <2>1. ASSUME NEW m \in Nat, MayEnd(s, o, k, g, m + 1, r)
        PROVE  Owing(u, o, k, g, m) /\ u.rpc = s.rpc /\ u.call = s.call
    BY <2>1, ResultAdded
  <2>3. MayEnd(s, o, k, g, 0 + 1, r)
    BY DEF MayEnd
  <2> HIDE DEF u
  <2> QED
    BY <2>1, <2>3
<1>4. SameCalls(s, s)
  BY DEF SameCalls, SameCall
<1>5. CASE Len(rs) < Paths
  <2>1. t = u
    <3>1. t = [s EXCEPT !.group[g].results = rs]
      BY <1>5, PathDoneIs, ZenonT(60)
    <3> QED
      BY <3>1 DEF Added
  <2>2. Len(u.group[g].results) # Paths
    <3>1. Len(rs) \in Nat /\ Paths \in Nat
      BY <1>2, LookupAssumption
    <3> HIDE DEF rs, u
    <3> QED
      BY <1>2, <1>5, <3>1
  <2>3. Owing(u, o, k, 0, 0)
    <3> HIDE DEF u, rs
    <3> QED
      BY <1>2, <1>3, <2>2, GroupRuns
  <2> HIDE DEF u
  <2> QED
    BY <1>3, <1>4, <2>1, <2>3 DEF SameCalls
<1>6. CASE ~(Len(rs) < Paths)
  <2> DEFINE c == Looked(s, g, Idle)
  <2>1. t = Answer(c, o, Verdict(rs))
    BY <1>6, PathDoneIs, ZenonT(60)
  <2>2. c = Looked(u, g, Idle)
    <3>1. s.group = [h \in GroupSlots |-> s.group[h]]
      BY <1>1 DEF States
    <3> QED
      BY <1>1, <3>1 DEF Added, Looked, States
  <2>3. Len(u.group[g].results) = Paths
    <3>1. Len(s.group[g].results) \in Nat
      <4>1. s.group[g] \in GroupRecords
        BY <1>1, StateFields
      <4> QED
        BY <4>1 DEF GroupRecords
    <3>2. Paths \in Nat
      BY LookupAssumption
    <3> HIDE DEF u, rs
    <3> QED
      BY <1>2, <1>6, <3>1, <3>2
  <2>4. u.group[g].op = o
    BY <1>2
  <2> HIDE DEF u, c
  <2>5. Owing(c, o, k + 1, 0, 0) /\ c.rpc = s.rpc /\ c.call = s.call
    BY <1>2, <1>3, <2>2, <2>3, <2>4, GroupClosed
  <2>6. GivenApart(rs) \/ s.call[o].kind = "skad_node"
    <3>1. ASSUME ForValue(u, g) PROVE GivenApart(rs)
      <4>1. PathsApart(u, g) /\ u \in States
        BY <1>2, <1>3, <3>1 DEF Owing, GroupsOK
      <4>2. u.group[g] \in GroupRecords
        BY <1>2, <4>1, StateFields
      <4>3. u.group[g].global \subseteq Nodes
        BY <4>2 DEF GroupRecords
      <4> HIDE DEF rs
      <4> QED
        BY <1>2, <4>1, <4>3 DEF PathsApart, GivenApart
    <3> QED
      BY <1>3, <2>4, <3>1 DEF ForValue
  <2>7. rs \in Seq(Results)
    BY <1>2
  <2> HIDE DEF rs
  <2>8. Verdict(rs) \in Results /\ (Backed(Verdict(rs)) \/ c.call[o].kind = "skad_node")
    BY <2>5, <2>6, <2>7, VerdictOK
  <2>9. Owing(t, o, k, 0, 0) /\ SameCalls(t, c) /\ t.rpc = c.rpc
    BY <2>1, <2>5, <2>8, AnswerOK, SMTT(30)
  <2> QED
    BY <2>5, <2>9 DEF SameCalls
<1> QED
  BY <1>5, <1>6

\* The callback does not look at the RPC that ends, nor changes the RPCs.
LEMMA EndIs ==
    ASSUME NEW s \in States, OwnersOK(s), NEW i \in Slots, s.rpc[i].active, NEW r,
           NEW t, t = EndRpc(s, i, r)
    PROVE  t = Report(Freed(s, i), s.rpc[i].owner, r)
<1> DEFINE w == s.rpc[i].owner
           y == [s.rpc EXCEPT ![i] = Idle]
           f == Freed(s, i)
<1>1. s.rpc[i] \in RpcRecords
  BY StateFields
<1>2. w.op \in Callers /\ w.group \in GroupSlots \cup {0}
  BY <1>1 DEF RpcRecords
<1>3. f = [s EXCEPT !.rpc = y]
  BY DEF Freed, States
<1>4. f \in States /\ f.group = s.group /\ f.call = s.call /\ f.rpc = y
  <2>1. y \in [Slots -> RpcRecords \cup {Idle}]
    BY DEF States
  <2> HIDE DEF y, f
  <2> QED
    BY <1>3, <2>1, WithRpcs
<1>5. ASSUME NEW z \in States, NEW o \in Callers, NEW v, z.rpc = s.rpc
      PROVE  [Answer(z, o, v) EXCEPT !.rpc[i] = Idle] = Answer([z EXCEPT !.rpc = y], o, v)
  <2> DEFINE x == [z.call EXCEPT ![o] = Informed(z.call[o], v)]
             a == [z EXCEPT !.rpc = y]
  <2>1. Answer(z, o, v) = [z EXCEPT !.call = x]
    BY AnswerIs
  <2>2. a \in States /\ a.call = z.call
    <3>1. y \in [Slots -> RpcRecords \cup {Idle}]
      BY DEF States
    <3> HIDE DEF y
    <3> QED
      BY <3>1, WithRpcs
  <2>3. Answer(a, o, v) = [a EXCEPT !.call = x]
    <3> HIDE DEF a
    <3>1. Answer(a, o, v) = [a EXCEPT !.call = [a.call EXCEPT ![o] = Informed(a.call[o], v)]]
      BY <2>2, AnswerIs
    <3> QED
      BY <2>2, <3>1
  <2> HIDE DEF x
  <2>4. [[z EXCEPT !.call = x] EXCEPT !.rpc[i] = Idle] = [[z EXCEPT !.rpc = y] EXCEPT !.call = x]
    BY <1>5 DEF States
  <2> QED
    BY <2>1, <2>3, <2>4
<1>6. t = [Report(s, w, r) EXCEPT !.rpc[i] = Idle]
  BY DEF EndRpc
<1>7. CASE w.group = 0
  <2>1. Report(s, w, r) = Answer(s, w.op, r) /\ Report(f, w, r) = Answer(f, w.op, r)
    BY <1>7 DEF Report
  <2> HIDE DEF y, f, w
  <2> QED
    BY <1>2, <1>3, <1>5, <1>6, <2>1 DEF f, w
<1>8. CASE w.group # 0
  <2> DEFINE g == w.group
             rs == Append(s.group[g].results, r)
             v == Verdict(rs)
  <2>1. Report(s, w, r) = PathDone(s, g, r) /\ Report(f, w, r) = PathDone(f, g, r)
    BY <1>8 DEF Report
  <2>2. g \in GroupSlots
    BY <1>2, <1>8
  <2>3. f.group[g] = s.group[g]
    BY <1>4
  <2>4. rs = Append(f.group[g].results, r)
    BY <2>3
  <2>5. CASE Len(rs) < Paths
    <3>1. PathDone(s, g, r) = [s EXCEPT !.group[g].results = rs]
      BY <2>5, PathDoneIs
    <3>2. PathDone(f, g, r) = [f EXCEPT !.group[g].results = rs]
      <4> HIDE DEF f, rs
      <4> QED
        BY <2>4, <2>5, PathDoneIs
    <3> HIDE DEF rs
    <3>3. [[s EXCEPT !.group[g].results = rs] EXCEPT !.rpc[i] = Idle]
            = [[s EXCEPT !.rpc = y] EXCEPT !.group[g].results = rs]
      BY DEF States
    <3> HIDE DEF f
    <3> QED
      BY <1>3, <1>6, <2>1, <3>1, <3>2, <3>3 DEF f
  <2>6. CASE ~(Len(rs) < Paths)
    <3> DEFINE c == Looked(s, g, Idle)
               o == s.group[g].op
    <3>1. PathDone(s, g, r) = Answer(c, o, v)
      BY <2>6, PathDoneIs
    <3>2. PathDone(f, g, r) = Answer(Looked(f, g, Idle), o, v)
      <4> HIDE DEF f, rs
      <4>1. PathDone(f, g, r) = Answer(Looked(f, g, Idle), f.group[g].op, Verdict(rs))
        BY <2>4, <2>6, PathDoneIs
      <4> QED
        BY <2>3, <4>1
    <3>3. c \in States /\ c.rpc = s.rpc
      BY <2>2, LookedIs
    <3>4. Looked(f, g, Idle) = [c EXCEPT !.rpc = y]
      BY <1>3 DEF Looked, States
    <3>5. o \in Callers
      <4>1. s.group[g].active
        BY <1>8 DEF OwnersOK
      <4>2. s.group[g] \in GroupRecords
        BY <2>2, <4>1, StateFields
      <4> QED
        BY <4>2 DEF GroupRecords
    <3> HIDE DEF f, c, o, y, v
    <3> QED
      BY <1>5, <1>6, <2>1, <3>1, <3>2, <3>3, <3>4, <3>5 DEF f
  <2> QED
    BY <2>5, <2>6
<1> QED
  BY <1>7, <1>8

\* What a path, RPC i, found was given by one node that it asked.
FromPath(s, i, r) ==
    Good(r) /\ s.rpc[i].owner.group # 0 /\ ForValue(s, s.rpc[i].owner.group) =>
        \E n \in s.rpc[i].queried : r.givers = {n}

\* An RPC ends.
LEMMA EndOK ==
    ASSUME NEW s, NEW o \in Callers, Owing(s, o, 0, 0, 0), NEW i \in Slots, s.rpc[i].active,
           s.rpc[i].owner.op = o, NEW r \in Results, ~r.agreed, FromPath(s, i, r), NEW t, t = EndRpc(s, i, r)
    PROVE  Owing(t, o, 0, 0, 0) /\ SameCalls(t, s)
<1> DEFINE R == s.rpc[i]
           w == R.owner
           g == w.group
           f == Freed(s, i)
<1>1. s \in States /\ OwnersOK(s)
  BY DEF Owing
<1>2. R \in RpcRecords
  BY <1>1, StateFields
<1>3. g \in GroupSlots \cup {0} /\ w = Owner(o, g)
  <2>1. w \in [op : Callers, group : GroupSlots \cup {0}]
    BY <1>2 DEF RpcRecords
  <2>2. g \in GroupSlots \cup {0} /\ w = [op |-> w.op, group |-> w.group]
    BY <2>1
  <2> QED
    BY <2>2 DEF Owner
<1>4. t = Report(f, w, r)
  BY <1>1, EndIs
<1>5. Backed(r)
  BY DEF Backed
<1>6. CASE g = 0
  <2> HIDE DEF f, w
  <2>1. t = Answer(f, o, r)
    BY <1>3, <1>4, <1>6 DEF Report, Owner
  <2>2. Owing(f, o, 1, 0, 0)
    BY <1>3, <1>6, RpcFreed DEF f, w
  <2>3. ASSUME NEW k \in Nat, Owing(f, o, k + 1, 0, 0) PROVE Owing(t, o, k, 0, 0) /\ SameCalls(t, f)
    BY <1>5, <2>1, <2>3, AnswerOK
  <2>4. Owing(f, o, 0 + 1, 0, 0)
    BY <2>2
  <2>5. f.call = s.call
    BY <1>3, <1>6, RpcFreed DEF f, w
  <2> QED
    BY <2>3, <2>4, <2>5 DEF SameCalls
<1>7. CASE g # 0
  <2> HIDE DEF f
  <2>1. t = PathDone(f, g, r)
    BY <1>3, <1>4, <1>7 DEF Report, Owner
  <2>2. /\ g \in GroupSlots /\ s.group[g].active /\ s.group[g].op = o
        /\ Owing(f, o, 0, g, 1) /\ (ForValue(f, g) => FitsPath(f, g, R))
        /\ Len(f.group[g].results) < Paths /\ f.group = s.group
    <3> HIDE DEF g
    <3> QED
      BY <1>3, <1>7, RpcFreed DEF f
  <2>5. f.call = s.call
    <3> HIDE DEF g
    <3> QED
      BY <1>3, <1>7, RpcFreed DEF f
  <2>3. ForValue(f, g) => NewResult(f, g, r)
    <3>2. ForValue(f, g) /\ Good(r) => \E n \in R.queried : r.givers = {n}
      BY <1>7, <2>2, <2>5 DEF ForValue, FromPath
    <3> HIDE DEF g
    <3> QED
      BY <2>2, <3>2 DEF FitsPath, NewResult
  <2> HIDE DEF g
  <2>4. f.group[g].active /\ f.group[g].op = o
    BY <2>2
  <2>6. Owing(t, o, 0, 0, 0) /\ SameCalls(t, f)
    BY <2>1, <2>2, <2>3, <2>4, PathDoneOK
  <2> QED
    BY <2>5, <2>6 DEF SameCalls
<1> QED
  BY <1>6, <1>7

\* How the record of a lookup and of an RPC may change together.
Widened(G, H) == H \in GroupRecords /\ H.op = G.op /\ H.results = G.results /\ G.global \subseteq H.global
MayGrow(R, Q, G, H) ==
    /\ Q.kind = R.kind /\ Q.owner = R.owner
    /\ Q.kind = "value" => /\ Q.asked \subseteq Q.queried /\ Q.queried \subseteq R.queried \cup H.global
                           /\ (Q.queried \ R.queried) \cap G.global = {}

\* A lookup may ask more nodes.
LEMMA GroupWidens ==
    ASSUME NEW s, NEW o, NEW k, NEW g \in GroupSlots, NEW m, Owing(s, o, k, g, m), s.group[g].active,
           NEW H, Widened(s.group[g], H), NEW t, t = Looked(s, g, H)
    PROVE  Owing(t, o, k, g, m) /\ t.rpc = s.rpc /\ t.call = s.call
<1>1. s \in States /\ GroupsOK(s, g, m)
  BY DEF Owing
<1>2. /\ H \in GroupRecords /\ H.op = s.group[g].op /\ H.results = s.group[g].results
      /\ s.group[g].global \subseteq H.global
  BY DEF Widened
<1>3. /\ t.rpc = s.rpc /\ t.call = s.call /\ t.group[g] = H
      /\ \A h : PathsOf(t, h) = PathsOf(s, h)
  BY <1>1, <1>2, LookedIs
<1>4. ForValue(s, g) => PathsApart(t, g)
  <2> SUFFICES ASSUME PathsApart(s, g) PROVE PathsApart(t, g)
    BY <1>1 DEF GroupsOK
  <2>1. \A i \in PathsOf(t, g) : ValuePath(t, g, i)
    BY <1>2, <1>3 DEF PathsApart, ValuePath
  <2>2. ASSUME NEW j \in 1..Len(H.results), Good(H.results[j])
        PROVE  \E n \in H.global : H.results[j].givers = {n}
    <3>1. \E n \in s.group[g].global : H.results[j].givers = {n}
      BY <1>2, <2>2 DEF PathsApart
    <3> QED
      BY <1>2, <3>1
  <2> QED
    BY <1>2, <1>3, <2>1, <2>2, SMTT(30) DEF PathsApart
<1>5. Cardinality(PathsOf(s, g)) + Len(H.results) + m = Paths
  BY <1>1, <1>2 DEF GroupsOK, GroupDue
<1>6. Owing(t, o, k, g, m)
  BY <1>2, <1>4, <1>5, GroupReplaced
<1> QED
  BY <1>3, <1>6

\* RPC i goes on with another record, and its lookup, if it belongs to one, with another set of
\* nodes that were asked.
LEMMA RpcGrows ==
    ASSUME NEW s, NEW o \in Callers, Owing(s, o, 0, 0, 0), NEW i \in Slots, s.rpc[i].active,
           NEW g \in GroupSlots \cup {0}, s.rpc[i].owner = Owner(o, g), NEW Q \in RpcRecords, NEW H,
           g # 0 => /\ Widened(s.group[g], H)
                    /\ ForValue(s, g) => MayGrow(s.rpc[i], Q, s.group[g], H),
           Q.owner = s.rpc[i].owner,
           NEW t \in States, t.rpc = [s.rpc EXCEPT ![i] = Q], t.call = s.call,
           t.group = IF g = 0 THEN s.group ELSE [s.group EXCEPT ![g] = H]
    PROVE  Owing(t, o, 0, 0, 0)
<1> DEFINE R == s.rpc[i]
           f == Freed(s, i)
<1>1. s \in States /\ OwnersOK(s)
  BY DEF Owing
<1>2. f \in States /\ OneMoreRpc(s, f, i) /\ f.group = s.group /\ f.call = s.call
  BY <1>1, FreedIs
<1>3. Q.active = TRUE
  BY DEF RpcRecords
<1>4. OneMoreRpc(t, f, i) /\ t.rpc[i] = Q
  <2>1. DOMAIN s.rpc = Slots
    BY <1>1 DEF States
  <2> HIDE DEF f
  <2> QED
    BY <1>2, <1>3, <2>1 DEF OneMoreRpc
<1> HIDE DEF f
<1>5. CASE g = 0
  <2>1. Owing(f, o, 1, 0, 0)
    BY <1>5, RpcFreed DEF f
  <2>2. t.group = f.group /\ t.call = f.call /\ t.rpc[i].owner = Owner(o, 0)
    BY <1>2, <1>4, <1>5
  <2>3. ASSUME NEW k \in Nat PROVE Owing(t, o, k, 0, 0) <=> Owing(f, o, k + 1, 0, 0)
    BY <1>2, <1>4, <2>2, DirectMoves
  <2>4. Owing(t, o, 0, 0, 0) <=> Owing(f, o, 0 + 1, 0, 0)
    BY <2>3
  <2> QED
    BY <2>1, <2>4
<1>6. CASE g # 0
  <2>1. /\ g \in GroupSlots /\ s.group[g].active /\ s.group[g].op = o
        /\ Owing(f, o, 0, g, 1) /\ (ForValue(f, g) => FitsPath(f, g, R))
        /\ Len(f.group[g].results) < Paths
    BY <1>6, RpcFreed DEF f
  <2> DEFINE u == Looked(f, g, H)
  <2>2. Owing(u, o, 0, g, 1) /\ u.rpc = f.rpc /\ u.call = f.call
    <3>1. Widened(f.group[g], H) /\ f.group[g].active
      BY <1>2, <1>6, <2>1
    <3>2. u = Looked(f, g, H)
      OBVIOUS
    <3> HIDE DEF u
    <3>3. ASSUME NEW v, v = Looked(f, g, H), NEW m, Owing(f, o, 0, g, m)
          PROVE  Owing(v, o, 0, g, m) /\ v.rpc = f.rpc /\ v.call = f.call
      BY <2>1, <3>1, <3>3, GroupWidens
    <3> QED
      BY <2>1, <3>2, <3>3
  <2>3. u \in States /\ u.group[g] = H /\ \A h \in GroupSlots : h # g => u.group[h] = f.group[h]
    <3>1. H \in GroupRecords \cup {Idle}
      BY <1>6 DEF Widened
    <3> QED
      BY <1>2, <2>1, <3>1, LookedIs
  <2>4. t.group = u.group
    <3>1. u.group = [f.group EXCEPT ![g] = H]
      BY <1>2 DEF Looked, States
    <3> QED
      BY <1>2, <1>6, <3>1
  <2> HIDE DEF u
  <2>5. OneMoreRpc(t, u, i) /\ t.call = u.call
    BY <1>2, <1>4, <2>2 DEF OneMoreRpc
  <2>6. H.op = o /\ H.active = TRUE /\ H.results = f.group[g].results /\ f.group[g].global \subseteq H.global
    <3>1. Widened(f.group[g], H) /\ f.group[g].op = o
      BY <1>2, <1>6, <2>1
    <3>2. H \in GroupRecords
      BY <3>1 DEF Widened
    <3>3. H.active = TRUE
      BY <3>2 DEF GroupRecords
    <3> QED
      BY <3>1, <3>3 DEF Widened
  <2>7. ForValue(u, g) => FitsPath(u, g, Q)
    <3> SUFFICES ASSUME ForValue(u, g) PROVE FitsPath(u, g, Q)
      OBVIOUS
    <3>1. ForValue(f, g)
      BY <2>1, <2>2, <2>3, <2>6, <1>2 DEF ForValue
    <3>2. FitsPath(f, g, R) /\ PathsApart(f, g)
      BY <1>2, <2>1, <3>1 DEF Owing, GroupsOK
    <3>3. MayGrow(R, Q, f.group[g], H)
      <4>1. ForValue(s, g)
        BY <1>2, <3>1 DEF ForValue
      <4> QED
        BY <1>2, <1>6, <4>1
    <3>4. R.kind = "value" /\ R.queried \subseteq f.group[g].global
      BY <3>2 DEF FitsPath
    <3>5. /\ Q.kind = "value" /\ Q.asked \subseteq Q.queried /\ Q.queried \subseteq H.global
          /\ (Q.queried \ R.queried) \cap f.group[g].global = {}
      BY <2>6, <3>3, <3>4 DEF MayGrow
    <3>6. PathsOf(u, g) = PathsOf(f, g)
      BY <2>2, CountsKept
    <3>7. ASSUME NEW j \in PathsOf(f, g) PROVE f.rpc[j].queried \cap Q.queried = {}
      <4>1. f.rpc[j].queried \subseteq f.group[g].global
        BY <3>2 DEF PathsApart, ValuePath
      <4>2. f.rpc[j].queried \cap R.queried = {}
        BY <3>2 DEF FitsPath
      <4> QED
        BY <3>5, <4>1, <4>2
    <3>8. ASSUME NEW j \in 1..Len(H.results), Good(H.results[j])
          PROVE  H.results[j].givers \cap Q.queried = {}
      <4>1. H.results[j].givers \subseteq f.group[g].global
        BY <2>6, <3>2, <3>8 DEF PathsApart
      <4>2. H.results[j].givers \cap R.queried = {}
        BY <2>6, <3>2, <3>8 DEF FitsPath
      <4> QED
        BY <3>5, <4>1, <4>2
    <3> QED
      BY <2>2, <2>3, <3>5, <3>6, <3>7, <3>8 DEF FitsPath
  <2>8. Owing(t, o, 0, g, 0)
    <3>1. t.rpc[i].owner = Owner(o, g) /\ u.group[g].active /\ u.group[g].op = o
      BY <1>4, <2>3, <2>6
    <3>2. ASSUME NEW k \in Nat, NEW m \in Nat
          PROVE  Owing(t, o, k, g, m) <=> Owing(u, o, k, g, m + 1) /\ (ForValue(u, g) => FitsPath(u, g, t.rpc[i]))
      BY <2>1, <2>3, <2>4, <2>5, <3>1, PathMoves
    <3>3. Owing(t, o, 0, g, 0) <=> Owing(u, o, 0, g, 0 + 1) /\ (ForValue(u, g) => FitsPath(u, g, t.rpc[i]))
      BY <3>2
    <3> QED
      BY <1>4, <2>2, <2>7, <3>3
  <2>9. t.group[g].active /\ Len(t.group[g].results) # Paths
    <3>1. Len(f.group[g].results) # Paths
      <4>1. Len(f.group[g].results) \in Nat /\ Paths \in Nat
        <5>1. f.group[g] \in GroupRecords
          BY <1>2, <2>1, StateFields
        <5>2. Paths \in Nat
          BY LookupAssumption
        <5> QED
          BY <5>1, <5>2 DEF GroupRecords
      <4> QED
        BY <2>1, <4>1
    <3> QED
      BY <2>3, <2>4, <2>6, <3>1
  <2> QED
    BY <2>1, <2>8, <2>9, GroupRuns
<1> QED
  BY <1>5, <1>6

\* Of a finite set of numbers there is one with as many below it as one likes.
LEMMA RankExists ==
    ASSUME NEW ps, ps \subseteq Nat, IsFiniteSet(ps), NEW d0 \in 1..Cardinality(ps)
    PROVE  \E p \in ps : Cardinality({q \in ps : q < p}) = d0 - 1
<1> DEFINE below(p) == {q \in ps : q < p}
           Bad == {d \in 1..Cardinality(ps) : ~\E p \in ps : Cardinality(below(p)) = d - 1}
<1>1. Cardinality(ps) \in Nat
  BY FS_CardinalityType
<1>2. SUFFICES ASSUME d0 \in Bad PROVE FALSE
  OBVIOUS
<1>3. PICK d \in Bad : \A e \in Bad : d <= e
  <2>1. Bad \subseteq Nat /\ Bad # {}
    BY <1>2
  <2> HIDE DEF Bad
  <2> QED
    BY <2>1, LeastNatural
<1>4. d \in 1..Cardinality(ps) /\ d \in Nat /\ ~\E p \in ps : Cardinality(below(p)) = d - 1
  BY <1>1, <1>3
<1>5. \A p : IsFiniteSet(below(p)) /\ below(p) \subseteq ps
  BY FS_Subset
<1>6. CASE d = 1
  <2>1. ps # {}
    BY <1>1, <1>4, <1>6, FS_EmptySet
  <2>2. PICK p \in ps : \A q \in ps : p <= q
    BY <2>1, LeastNatural
  <2>3. \A q \in ps : ~(q < p)
    <3>1. \A q \in ps : q \in Nat /\ p \in Nat /\ p <= q
      BY <2>2
    <3> QED
      BY <3>1
  <2>4. below(p) = {}
    BY <2>3
  <2> QED
    BY <1>4, <1>6, <2>4, FS_EmptySet
<1>7. CASE d # 1
  <2>1. d - 1 \in 1..Cardinality(ps) /\ ~(d <= d - 1) /\ (d - 1) - 1 = d - 2
    BY <1>1, <1>4, <1>7
  <2>2. d - 1 \notin Bad
    BY <1>3, <2>1
  <2>3. PICK p \in ps : Cardinality(below(p)) = d - 2
    BY <2>1, <2>2
  <2> DEFINE upTo == below(p) \cup {p}
             rest == ps \ upTo
  <2>4. IsFiniteSet(upTo) /\ Cardinality(upTo) = d - 1
    <3>1. p \notin below(p)
      OBVIOUS
    <3> HIDE DEF below
    <3>2. IsFiniteSet(upTo) /\ Cardinality(upTo) = Cardinality(below(p)) + 1
      BY <1>5, <3>1, FS_AddElement
    <3> QED
      BY <1>4, <2>3, <3>2
  <2>5. rest # {}
    <3>1. SUFFICES ASSUME ps \subseteq upTo PROVE FALSE
      OBVIOUS
    <3>2. ps = upTo
      BY <3>1
    <3>3. Cardinality(ps) = d - 1
      BY <2>4, <3>2
    <3> QED
      BY <1>1, <1>4, <3>3
  <2>6. PICK q \in rest : \A r \in rest : q <= r
    <3>1. rest \subseteq Nat
      OBVIOUS
    <3> HIDE DEF rest
    <3> QED
      BY <2>5, <3>1, LeastNatural
  <2>7. below(q) = upTo
    <3>1. q \in Nat /\ p \in Nat /\ ~(q < p) /\ q # p
      OBVIOUS
    <3>2. ASSUME NEW r \in ps PROVE r < q <=> r \in upTo
      <4>1. r \in Nat
        OBVIOUS
      <4>2. r \notin upTo => q <= r
        BY <2>6
      <4> QED
        BY <3>1, <4>1, <4>2
    <3> QED
      BY <3>2
  <2> QED
    BY <1>4, <2>4, <2>7
<1> QED
  BY <1>6, <1>7

\* The seeds of the paths are peers, and different ones.
LEMMA SeedsDiffer ==
    ASSUME NEW ps, ps \subseteq Nat, IsFiniteSet(ps), NEW d \in 1..Cardinality(ps)
    PROVE  /\ Seed(ps, d) \in ps
           /\ \A e \in 1..Cardinality(ps) : e # d => Seed(ps, e) # Seed(ps, d)
<1>1. ASSUME NEW e \in 1..Cardinality(ps)
      PROVE  Seed(ps, e) \in ps /\ Cardinality({q \in ps : q < Seed(ps, e)}) = e - 1
  <2>1. \E p \in ps : Cardinality({q \in ps : q < p}) = e - 1
    BY <1>1, RankExists
  <2> QED
    BY <2>1 DEF Seed
<1>2. ASSUME NEW e \in 1..Cardinality(ps), Seed(ps, e) = Seed(ps, d) PROVE e = d
  <2>1. e - 1 = d - 1
    BY <1>1, <1>2
  <2>2. e \in Int /\ d \in Int
    OBVIOUS
  <2> QED
    BY <2>1, <2>2
<1> QED
  BY <1>1, <1>2

\* The step of a loop: over the paths of a lookup, the replicas of a find or of a store, the covers.
LoopStep(m, t, d) ==
    IF m.loop = "paths"
    THEN IF d > Cardinality(m.seeds) \/ Full(t) THEN Added(t, m.g, Nothing)
         ELSE Launch(t, Rpc(m.kind, Owner(m.o, m.g), m.key, {Seed(m.seeds, d)}))
    ELSE IF m.loop = "finds" THEN StartSkad(t, m.o, "value", d)
    ELSE IF m.loop = "stores" THEN StartStore(t, m.o, d)
    ELSE StartSkad(t, m.o, "value", CoverKey)
\* The states a loop goes through, from s on.
Loop(f, m, s, n) ==
    f = [d \in 0..n |-> IF d = 0 THEN s ELSE LoopStep(m, f[d - 1], d)]

\* What holds at first and goes on holding, holds up to n.
LEMMA UpTo ==
    ASSUME NEW n \in Nat, NEW S, 0 \in S, \A d \in 0..n : d + 1 \in 0..n /\ d \in S => d + 1 \in S
    PROVE  \A d \in 0..n : d \in S
<1> DEFINE Bad == (0..n) \ S
<1>1. SUFFICES ASSUME Bad # {} PROVE FALSE
  OBVIOUS
<1>2. PICK d \in Bad : \A e \in Bad : d <= e
  <2>1. Bad \subseteq Nat
    OBVIOUS
  <2> HIDE DEF Bad
  <2> QED
    BY <1>1, <2>1, LeastNatural
<1>3. d \in Nat /\ d # 0 /\ d - 1 \in 0..n /\ ~(d <= d - 1) /\ (d - 1) + 1 = d
  OBVIOUS
<1>4. d - 1 \in S
  BY <1>2, <1>3
<1> QED
  BY <1>3, <1>4

\* A loop can be run for any number of steps.
LEMMA LoopExists == ASSUME NEW m, NEW s, NEW n0 \in Nat PROVE \E f : Loop(f, m, s, n0)
<1> DEFINE Good1 == {n \in 0..n0 : \E f : Loop(f, m, s, n)}
<1>1. 0 \in Good1
  <2> DEFINE f == [d \in 0..0 |-> s]
  <2>1. f = [d \in 0..0 |-> IF d = 0 THEN s ELSE LoopStep(m, f[d - 1], d)]
    <3>1. \A d \in 0..0 : d = 0
      OBVIOUS
    <3> QED
      BY <3>1
  <2>2. Loop(f, m, s, 0)
    BY <2>1 DEF Loop
  <2> QED
    BY <2>2
<1>2. ASSUME NEW n \in 0..n0, n + 1 \in 0..n0, n \in Good1 PROVE n + 1 \in Good1
  <2>1. PICK q : Loop(q, m, s, n)
    BY <1>2
  <2> DEFINE f == [d \in 0..(n + 1) |-> IF d = n + 1 THEN LoopStep(m, q[n], n + 1) ELSE q[d]]
  <2>2. n \in Nat
    OBVIOUS
  <2>3. ASSUME NEW d \in 0..(n + 1) PROVE f[d] = IF d = 0 THEN s ELSE LoopStep(m, f[d - 1], d)
    <3>1. CASE d = n + 1
      <4>1. n \in 0..(n + 1) /\ n # n + 1 /\ d # 0 /\ d - 1 = n
        BY <2>2, <3>1
      <4>2. f[n] = q[n]
        BY <4>1
      <4> QED
        BY <3>1, <4>1, <4>2
    <3>2. CASE d # n + 1
      <4>1. d \in 0..n /\ f[d] = q[d]
        BY <2>2, <3>2
      <4>2. q[d] = IF d = 0 THEN s ELSE LoopStep(m, q[d - 1], d)
        BY <2>1, <4>1 DEF Loop
      <4>3. d # 0 => f[d - 1] = q[d - 1]
        BY <2>2, <4>1
      <4> QED
        BY <4>1, <4>2, <4>3
    <3> QED
      BY <3>1, <3>2
  <2>4. f = [d \in 0..(n + 1) |-> IF d = 0 THEN s ELSE LoopStep(m, f[d - 1], d)]
    <3> DEFINE h == [d \in 0..(n + 1) |-> IF d = 0 THEN s ELSE LoopStep(m, f[d - 1], d)]
    <3>1. f = [d \in 0..(n + 1) |-> f[d]]
      OBVIOUS
    <3> HIDE DEF f
    <3>2. \A d \in 0..(n + 1) : f[d] = h[d]
      BY <2>3
    <3>3. h = [d \in 0..(n + 1) |-> h[d]]
      OBVIOUS
    <3> QED
      BY <3>1, <3>2, <3>3
  <2> HIDE DEF f
  <2>5. Loop(f, m, s, n + 1)
    BY <2>4 DEF Loop
  <2> QED
    BY <1>2, <2>5
<1> HIDE DEF Good1
<1>3. \A n \in 0..n0 : n \in Good1
  BY <1>1, <1>2, UpTo
<1> QED
  BY <1>3 DEF Good1

\* A loop's states, one after the other.
LEMMA LoopIs ==
    ASSUME NEW m, NEW s, NEW n \in Nat, NEW f, Loop(f, m, s, n)
    PROVE  /\ f[0] = s
           /\ \A d \in 0..n : d + 1 \in 0..n => f[d + 1] = LoopStep(m, f[d], d + 1)
<1>1. \A d \in 0..n : f[d] = IF d = 0 THEN s ELSE LoopStep(m, f[d - 1], d)
  BY DEF Loop
<1>2. 0 \in 0..n
  OBVIOUS
<1>3. ASSUME NEW d \in 0..n, d + 1 \in 0..n PROVE f[d + 1] = LoopStep(m, f[d], d + 1)
  <2>1. d + 1 # 0 /\ (d + 1) - 1 = d
    OBVIOUS
  <2> QED
    BY <1>1, <1>3, <2>1
<1> QED
  BY <1>1, <1>2, <1>3

\* The record of a new RPC.
LEMMA RpcIs ==
    ASSUME NEW want \in RpcKinds, NEW o \in Callers, NEW g \in GroupSlots \cup {0}, NEW key \in Nat,
           NEW peers \in SUBSET Nodes, NEW R, R = Rpc(want, Owner(o, g), key, peers)
    PROVE  /\ R \in RpcRecords /\ R.owner = Owner(o, g) /\ R.kind = want
           /\ R.queried = peers /\ R.asked = peers
<1>1. Cardinality(peers) \in Nat
  <2>1. IsFiniteSet(Nodes)
    BY LookupAssumption
  <2> QED
    BY <2>1, FS_Subset, FS_CardinalityType
<1>2. Quorum \in Nat
  BY LookupAssumption
<1>3. Owner(o, g) \in [op : Callers, group : GroupSlots \cup {0}]
  BY DEF Owner
<1> QED
  BY <1>1, <1>2, <1>3 DEF Rpc, RpcRecords

\* The paths of lookup g after d turns of the loop: no path has found anything, and each asked a
\* seed of its own.
Seeded(t, g, d, seeds) ==
    /\ \A j \in 1..Len(t.group[g].results) : ~Good(t.group[g].results[j])
    /\ \A i \in PathsOf(t, g) :
            \E e \in 1..d : e <= Cardinality(seeds) /\ t.rpc[i].queried = {Seed(seeds, e)}
Launched(t, s, o, k, g, d, seeds) ==
    /\ Owing(t, o, k, g, Paths - d) /\ t.call = s.call
    /\ t.group[g].active /\ t.group[g].op = o /\ t.group[g].global = seeds
    /\ Seeded(t, g, d, seeds)

\* A seed that no path has asked.
LEMMA SeedFits ==
    ASSUME NEW s, NEW t, NEW o \in Callers, NEW k \in Nat, NEW g \in GroupSlots, NEW d \in Nat,
           NEW seeds \in SUBSET Nodes, Launched(t, s, o, k, g, d, seeds), d + 1 <= Cardinality(seeds),
           NEW R, R.kind = "value", R.queried = {Seed(seeds, d + 1)}, R.asked = R.queried
    PROVE  FitsPath(t, g, R)
<1>1. seeds \subseteq Nat /\ IsFiniteSet(seeds) /\ Cardinality(seeds) \in Nat
  <2>1. Nodes \subseteq Nat /\ IsFiniteSet(Nodes)
    BY LookupAssumption
  <2> QED
    BY <2>1, FS_Subset, FS_CardinalityType
<1>2. d + 1 \in 1..Cardinality(seeds)
  BY <1>1
<1>3. /\ Seed(seeds, d + 1) \in seeds
      /\ \A e \in 1..Cardinality(seeds) : e # d + 1 => Seed(seeds, e) # Seed(seeds, d + 1)
  BY <1>1, <1>2, SeedsDiffer
<1>4. ASSUME NEW i \in PathsOf(t, g) PROVE t.rpc[i].queried \cap R.queried = {}
  <2>1. PICK e \in 1..d : e <= Cardinality(seeds) /\ t.rpc[i].queried = {Seed(seeds, e)}
    BY DEF Launched, Seeded
  <2>2. e \in 1..Cardinality(seeds) /\ e # d + 1
    BY <1>1, <2>1
  <2> QED
    BY <1>3, <2>1, <2>2
<1>5. t.group[g].global = seeds /\ \A j \in 1..Len(t.group[g].results) : ~Good(t.group[g].results[j])
  BY DEF Launched, Seeded
<1> QED
  BY <1>3, <1>4, <1>5 DEF FitsPath

\* A path has no seed or no slot: it is counted as done.
LEMMA PathCounted ==
    ASSUME NEW s, NEW t, NEW o \in Callers, NEW k \in Nat, NEW g \in GroupSlots, NEW d \in Nat,
           d + 1 <= Paths, NEW seeds \in SUBSET Nodes, Launched(t, s, o, k, g, d, seeds),
           NEW u, u = Added(t, g, Nothing)
    PROVE  Launched(u, s, o, k, g, d + 1, seeds)
<1>1. Paths \in Nat
  BY LookupAssumption
<1> DEFINE m == Paths - (d + 1)
<1>2. m \in Nat /\ Paths - d = m + 1
  BY <1>1
<1> HIDE DEF m
<1>3. Owing(t, o, k, g, m + 1) /\ t.group[g].active /\ t.group[g].op = o /\ t.group[g].global = seeds
  BY <1>2 DEF Launched
<1>4. MayEnd(t, o, k, g, m + 1, Nothing)
  BY <1>3, SomeResults DEF MayEnd, NewResult
<1>5. /\ Owing(u, o, k, g, m) /\ u.rpc = t.rpc /\ u.call = t.call
      /\ \A h : PathsOf(u, h) = PathsOf(t, h)
  BY <1>2, <1>4, ResultAdded
<1>6. t \in States /\ Nothing \in Results
  BY <1>3, SomeResults DEF Owing
<1>7. /\ u.group[g].op = t.group[g].op /\ u.group[g].global = t.group[g].global /\ u.group[g].active
      /\ Len(u.group[g].results) = Len(t.group[g].results) + 1
      /\ u.group[g].results[Len(t.group[g].results) + 1] = Nothing
      /\ \A j \in 1..Len(t.group[g].results) : u.group[g].results[j] = t.group[g].results[j]
  <2>1. ASSUME NEW x \in States, x.group[g].active, NEW y, y = Added(x, g, Nothing)
        PROVE  /\ y.group[g].op = x.group[g].op /\ y.group[g].global = x.group[g].global
               /\ y.group[g].active
               /\ Len(y.group[g].results) = Len(x.group[g].results) + 1
               /\ y.group[g].results[Len(x.group[g].results) + 1] = Nothing
               /\ \A j \in 1..Len(x.group[g].results) : y.group[g].results[j] = x.group[g].results[j]
    <3>1. Nothing \in Results
      BY SomeResults
    <3> QED
      BY <2>1, <3>1, AddedIs, SMTT(30)
  <2> QED
    BY <1>3, <1>6, <2>1
<1>8. Len(t.group[g].results) \in Nat
  <2>1. t.group[g] \in GroupRecords
    BY <1>3, <1>6, StateFields
  <2> QED
    BY <2>1 DEF GroupRecords
<1>9. Seeded(u, g, d + 1, seeds)
  <2>1. ASSUME NEW j \in 1..Len(u.group[g].results) PROVE ~Good(u.group[g].results[j])
    <3>1. CASE j = Len(t.group[g].results) + 1
      BY <1>7, <3>1, SomeResults
    <3>2. CASE j # Len(t.group[g].results) + 1
      <4>1. j \in 1..Len(t.group[g].results)
        BY <1>7, <1>8, <3>2
      <4> QED
        BY <1>7, <4>1 DEF Launched, Seeded
    <3> QED
      BY <3>1, <3>2
  <2>2. ASSUME NEW i \in PathsOf(u, g)
        PROVE  \E e \in 1..(d + 1) : e <= Cardinality(seeds) /\ u.rpc[i].queried = {Seed(seeds, e)}
    <3>1. PICK e \in 1..d : e <= Cardinality(seeds) /\ t.rpc[i].queried = {Seed(seeds, e)}
      BY <1>5 DEF Launched, Seeded
    <3>2. e \in 1..(d + 1)
      OBVIOUS
    <3> QED
      BY <1>5, <3>1, <3>2
  <2> QED
    BY <2>1, <2>2 DEF Seeded
<1>10. t.call = s.call
  BY DEF Launched
<1> QED
  BY <1>3, <1>5, <1>7, <1>9, <1>10 DEF Launched, m

\* A path starts at its seed.
LEMMA PathSeeded ==
    ASSUME NEW s, NEW t, NEW o \in Callers, NEW k \in Nat, NEW g \in GroupSlots, NEW d \in Nat,
           d + 1 <= Paths, NEW seeds \in SUBSET Nodes, Launched(t, s, o, k, g, d, seeds),
           d + 1 <= Cardinality(seeds), FreeSlots(t.rpc) # {}, NEW want \in {"value", "node"},
           ForValue(t, g) => want = "value", NEW key \in Nat,
           NEW u, u = Launch(t, Rpc(want, Owner(o, g), key, {Seed(seeds, d + 1)}))
    PROVE  Launched(u, s, o, k, g, d + 1, seeds)
<1>1. Paths \in Nat
  BY LookupAssumption
<1> DEFINE m == Paths - (d + 1)
           R == Rpc(want, Owner(o, g), key, {Seed(seeds, d + 1)})
<1>2. m \in Nat /\ Paths - d = m + 1
  BY <1>1
<1> HIDE DEF m
<1>3. /\ Owing(t, o, k, g, m + 1) /\ t.group[g].active /\ t.group[g].op = o /\ t.group[g].global = seeds
      /\ t.call = s.call
  BY <1>2 DEF Launched
<1>4. Seed(seeds, d + 1) \in Nodes
  <2>1. Nodes \subseteq Nat /\ IsFiniteSet(Nodes)
    BY LookupAssumption
  <2>2. seeds \subseteq Nat /\ IsFiniteSet(seeds) /\ Cardinality(seeds) \in Nat
    BY <2>1, FS_Subset, FS_CardinalityType
  <2>3. d + 1 \in 1..Cardinality(seeds)
    BY <2>2
  <2> QED
    BY <2>2, <2>3, SeedsDiffer
<1>5. /\ R \in RpcRecords /\ R.owner = Owner(o, g) /\ R.kind = want
      /\ R.queried = {Seed(seeds, d + 1)} /\ R.asked = R.queried
  <2>1. want \in RpcKinds
    BY DEF RpcKinds
  <2>2. {Seed(seeds, d + 1)} \in SUBSET Nodes /\ g \in GroupSlots \cup {0}
    BY <1>4
  <2> QED
    BY <2>1, <2>2, RpcIs
<1> HIDE DEF R
<1>6. ForValue(t, g) => FitsPath(t, g, R)
  BY <1>5, SeedFits
<1>7. u = Launch(t, R)
  BY DEF R
<1>8. /\ Owing(u, o, k, g, m) /\ u.call = t.call /\ u.group = t.group
      /\ \A j \in PathsOf(u, g) : u.rpc[j] = R \/ (j \in PathsOf(t, g) /\ u.rpc[j] = t.rpc[j])
  <2>1. ASSUME NEW v, v = Launch(t, R), NEW n \in Nat, Owing(t, o, k, g, n + 1)
        PROVE  /\ Owing(v, o, k, g, n) /\ v.call = t.call /\ v.group = t.group
               /\ \A j \in PathsOf(v, g) : v.rpc[j] = R \/ (j \in PathsOf(t, g) /\ v.rpc[j] = t.rpc[j])
    BY <1>3, <1>5, <1>6, <2>1, PathLaunched
  <2> QED
    BY <1>2, <1>3, <1>7, <2>1
<1>9. Seeded(u, g, d + 1, seeds)
  <2>1. ASSUME NEW i \in PathsOf(u, g)
        PROVE  \E e \in 1..(d + 1) : e <= Cardinality(seeds) /\ u.rpc[i].queried = {Seed(seeds, e)}
    <3>1. CASE u.rpc[i] = R
      <4>1. d + 1 \in 1..(d + 1)
        OBVIOUS
      <4> QED
        BY <1>5, <3>1, <4>1
    <3>2. CASE i \in PathsOf(t, g) /\ u.rpc[i] = t.rpc[i]
      <4>1. PICK e \in 1..d : e <= Cardinality(seeds) /\ t.rpc[i].queried = {Seed(seeds, e)}
        BY <3>2 DEF Launched, Seeded
      <4>2. e \in 1..(d + 1)
        OBVIOUS
      <4> QED
        BY <3>2, <4>1, <4>2
    <3> QED
      BY <1>8, <3>1, <3>2
  <2>2. \A j \in 1..Len(u.group[g].results) : ~Good(u.group[g].results[j])
    BY <1>8 DEF Launched, Seeded
  <2> QED
    BY <2>1, <2>2 DEF Seeded
<1> QED
  BY <1>3, <1>8, <1>9 DEF Launched, m

\* The loop over the paths of a lookup that has just begun.
LEMMA LaunchPathsOK ==
    ASSUME NEW s, NEW o \in Callers, NEW k \in Nat, NEW g \in GroupSlots, Owing(s, o, k, g, Paths),
           PathsOf(s, g) = {}, NEW seeds \in SUBSET Nodes, s.group[g] = NewGroup(o, seeds),
           NEW want \in {"value", "node"}, ForValue(s, g) => want = "value", NEW key \in Nat,
           NEW t, t = LaunchPaths(s, o, g, want, key, seeds)
    PROVE  /\ Owing(t, o, k, g, 0) /\ t.call = s.call /\ t.group[g].active /\ t.group[g].op = o
<1>1. Paths \in Nat
  BY LookupAssumption
<1> DEFINE m == [loop |-> "paths", o |-> o, g |-> g, kind |-> want, key |-> key, seeds |-> seeds]
           Path == CHOOSE f : f = [d \in 0..Paths |->
                       IF d = 0 THEN s
                       ELSE IF d > Cardinality(seeds) \/ Full(f[d - 1])
                       THEN [f[d - 1] EXCEPT !.group[g].results = Append(@, Nothing)]
                       ELSE Launch(f[d - 1], Rpc(want, Owner(o, g), key, {Seed(seeds, d)}))]
<1>2. t = Path[Paths]
  BY DEF LaunchPaths
<1>3. \A x, d : LoopStep(m, x, d) =
          IF d > Cardinality(seeds) \/ Full(x) THEN [x EXCEPT !.group[g].results = Append(@, Nothing)]
          ELSE Launch(x, Rpc(want, Owner(o, g), key, {Seed(seeds, d)}))
  BY DEF LoopStep, Added
<1>4. Loop(Path, m, s, Paths)
  <2> HIDE DEF m
  <2>1. PICK f : Loop(f, m, s, Paths)
    BY <1>1, LoopExists
  <2>2. f = [d \in 0..Paths |->
                       IF d = 0 THEN s
                       ELSE IF d > Cardinality(seeds) \/ Full(f[d - 1])
                       THEN [f[d - 1] EXCEPT !.group[g].results = Append(@, Nothing)]
                       ELSE Launch(f[d - 1], Rpc(want, Owner(o, g), key, {Seed(seeds, d)}))]
    BY <1>3, <2>1 DEF Loop
  <2>3. Path = [d \in 0..Paths |->
                       IF d = 0 THEN s
                       ELSE IF d > Cardinality(seeds) \/ Full(Path[d - 1])
                       THEN [Path[d - 1] EXCEPT !.group[g].results = Append(@, Nothing)]
                       ELSE Launch(Path[d - 1], Rpc(want, Owner(o, g), key, {Seed(seeds, d)}))]
    BY <2>2
  <2> HIDE DEF Path
  <2> QED
    BY <1>3, <2>3 DEF Loop
<1> HIDE DEF Path
<1>5. /\ Path[0] = s
      /\ \A d \in 0..Paths : d + 1 \in 0..Paths => Path[d + 1] = LoopStep(m, Path[d], d + 1)
  <2> HIDE DEF m
  <2> QED
    BY <1>1, <1>4, LoopIs
<1> DEFINE S == {d \in 0..Paths : Launched(Path[d], s, o, k, g, d, seeds)}
<1>6. 0 \in S
  <2>1. /\ s.group[g].active = TRUE /\ s.group[g].op = o /\ s.group[g].global = seeds
        /\ s.group[g].results = <<>>
    BY DEF NewGroup
  <2>2. Seeded(s, g, 0, seeds)
    BY <2>1 DEF Seeded
  <2>3. Paths - 0 = Paths /\ 0 \in 0..Paths
    BY <1>1
  <2>4. Launched(s, s, o, k, g, 0, seeds)
    BY <2>1, <2>2, <2>3 DEF Launched
  <2> QED
    BY <1>5, <2>3, <2>4
<1>7. ASSUME NEW d \in 0..Paths, d + 1 \in 0..Paths, d \in S PROVE d + 1 \in S
  <2>1. Launched(Path[d], s, o, k, g, d, seeds) /\ d \in Nat /\ d + 1 <= Paths
    BY <1>1, <1>7
  <2>2. Path[d + 1] = LoopStep(m, Path[d], d + 1)
    BY <1>5, <1>7
  <2>3. CASE d + 1 > Cardinality(seeds) \/ Full(Path[d])
    <3>1. Path[d + 1] = Added(Path[d], g, Nothing)
      BY <2>2, <2>3 DEF LoopStep
    <3>2. Launched(Path[d + 1], s, o, k, g, d + 1, seeds)
      BY <2>1, <3>1, PathCounted
    <3> QED
      BY <1>7, <3>2
  <2>4. CASE ~(d + 1 > Cardinality(seeds) \/ Full(Path[d]))
    <3>1. Path[d + 1] = Launch(Path[d], Rpc(want, Owner(o, g), key, {Seed(seeds, d + 1)}))
      BY <2>2, <2>4 DEF LoopStep
    <3>2. Cardinality(seeds) \in Nat
      BY LookupAssumption, FS_Subset, FS_CardinalityType
    <3>3. d + 1 <= Cardinality(seeds) /\ FreeSlots(Path[d].rpc) # {}
      BY <2>1, <2>4, <3>2 DEF Full
    <3>4. ForValue(Path[d], g) => want = "value"
      <4>1. Path[d].call = s.call /\ Path[d].group[g].op = o /\ s.group[g].op = o
        BY <2>1 DEF Launched, NewGroup
      <4> QED
        BY <4>1 DEF ForValue
    <3>5. Launched(Path[d + 1], s, o, k, g, d + 1, seeds)
      <4> HIDE DEF S, m
      <4>1. ASSUME NEW x, Launched(x, s, o, k, g, d, seeds), FreeSlots(x.rpc) # {},
                   ForValue(x, g) => want = "value",
                   NEW u, u = Launch(x, Rpc(want, Owner(o, g), key, {Seed(seeds, d + 1)}))
            PROVE  Launched(u, s, o, k, g, d + 1, seeds)
        BY <2>1, <3>3, <4>1, PathSeeded
      <4> QED
        BY <2>1, <3>1, <3>3, <3>4, <4>1
    <3> QED
      BY <1>7, <3>5
  <2> QED
    BY <2>3, <2>4
<1> HIDE DEF S, m
<1>8. Paths \in S
  <2>1. \A d \in 0..Paths : d \in S
    BY <1>1, <1>6, <1>7, UpTo
  <2> QED
    BY <1>1, <2>1
<1>9. Launched(t, s, o, k, g, Paths, seeds)
  BY <1>2, <1>8 DEF S
<1>10. Paths - Paths = 0
  BY <1>1
<1> QED
  BY <1>9, <1>10 DEF Launched

\* The closest of some nodes are some of them.
LEMMA ClosestAre ==
    ASSUME NEW ps \in SUBSET Nodes, NEW n
    PROVE  Closest(ps, n) \in SUBSET Nodes
BY DEF Closest

\* The routing table and the local store do not matter.
LEMMA OwingKept ==
    ASSUME NEW s, NEW o, NEW k, NEW g, NEW m, Owing(s, o, k, g, m), NEW t \in States,
           t.rpc = s.rpc, t.group = s.group, t.call = s.call
    PROVE  Owing(t, o, k, g, m)
<1>1. s \in States /\ OwnersOK(s) /\ GroupsOK(s, g, m) /\ CallsOK(s, o, k)
  BY DEF Owing
<1>2. GroupsOK(t, g, m) /\ OwnersOK(t)
  <2>1. SameKinds(t, s)
    BY DEF SameKinds
  <2> QED
    BY <1>1, <2>1, GroupsKept
<1>3. CallsOK(t, o, k)
  <2>1. \A p : Pending(t, p) = Pending(s, p)
    BY CountsKept DEF Pending
  <2> QED
    BY <1>1, <2>1 DEF CallsOK, CallDue
<1> QED
  BY <1>2, <1>3 DEF Owing

\* A part of call o has begun, or ended at once.
Began(t, s, o, k) == Owing(t, o, k, 0, 0) /\ SameCalls(t, s)

\* It ends at once.
LEMMA BeganAnswered ==
    ASSUME NEW s, NEW o \in Callers, NEW k \in Nat, Owing(s, o, k + 1, 0, 0),
           NEW r \in Results, Backed(r) \/ s.call[o].kind = "skad_node"
    PROVE  Began(Answer(s, o, r), s, o, k)
BY AnswerOK DEF Began

\* It has an RPC of its own.
LEMMA BeganLaunched ==
    ASSUME NEW s, NEW o \in Callers, NEW k \in Nat, Owing(s, o, k + 1, 0, 0), ~Full(s),
           NEW want \in RpcKinds, NEW key \in Nat, NEW peers \in SUBSET Nodes
    PROVE  Began(Launch(s, Rpc(want, Owner(o, 0), key, peers)), s, o, k)
<1> DEFINE R == Rpc(want, Owner(o, 0), key, peers)
           t == Launch(s, R)
<1>1. R \in RpcRecords /\ R.owner = Owner(o, 0)
  BY RpcIs
<1>2. FreeSlots(s.rpc) # {}
  BY DEF Full
<1> HIDE DEF R
<1>3. Owing(t, o, k, 0, 0) /\ t.call = s.call
  BY <1>1, <1>2, LaunchOK
<1> HIDE DEF t
<1>4. Began(t, s, o, k)
  BY <1>3 DEF Began, SameCalls, SameCall
<1> QED
  BY <1>4 DEF t, R

\* trellis_dht_store.
LEMMA StoreBegins ==
    ASSUME NEW s, NEW o \in Callers, NEW k \in Nat, Owing(s, o, k + 1, 0, 0), NEW key \in Keys
    PROVE  Began(StartStore(s, o, key), s, o, k)
<1> DEFINE u == [s EXCEPT !.held = @ \cup {key}]
           near == Closest(u.known, Near)
<1>1. s \in States
  BY DEF Owing
<1>2. /\ u \in States /\ u.rpc = s.rpc /\ u.group = s.group /\ u.call = s.call
      /\ u.known \in SUBSET Nodes
  BY <1>1 DEF States
<1>3. StartStore(s, o, key) =
          IF near = {} THEN Answer(u, o, Result(Done, {}))
          ELSE IF Full(u) THEN Answer(u, o, Nothing)
          ELSE Launch(u, Rpc("store", Owner(o, 0), key, near))
  BY DEF StartStore
<1>4. near \in SUBSET Nodes
  <2> HIDE DEF u
  <2> QED
    BY <1>2, ClosestAre
<1> HIDE DEF u, near
<1>5. Owing(u, o, k + 1, 0, 0)
  BY <1>2, OwingKept
<1>6. Began(Answer(u, o, Result(Done, {})), u, o, k) /\ Began(Answer(u, o, Nothing), u, o, k)
  BY <1>5, BeganAnswered, SomeResults
<1>7. ~Full(u) => Began(Launch(u, Rpc("store", Owner(o, 0), key, near)), u, o, k)
  <2>1. "store" \in RpcKinds
    BY DEF RpcKinds
  <2>2. key \in Nat
    <3>1. Replicas \in Nat
      BY LookupAssumption
    <3> QED
      BY <3>1 DEF Keys
  <2> QED
    BY <1>4, <1>5, <2>1, <2>2, BeganLaunched
<1>8. Began(StartStore(s, o, key), u, o, k)
  BY <1>3, <1>6, <1>7
<1> QED
  BY <1>2, <1>8 DEF Began, SameCalls

\* trellis_dht_find_value.
LEMMA ValueBegins ==
    ASSUME NEW s, NEW o \in Callers, NEW k \in Nat, Owing(s, o, k + 1, 0, 0), NEW key \in Nat
    PROVE  Began(StartValue(s, o, key), s, o, k)
<1> DEFINE near == Closest(Closest(s.known, Near), Alpha)
<1>1. s \in States
  BY DEF Owing
<1>2. near \in SUBSET Nodes
  <2>1. s.known \in SUBSET Nodes
    BY <1>1, StateFields
  <2> QED
    BY <2>1, ClosestAre
<1>3. StartValue(s, o, key) =
          IF key \in s.held THEN Answer(s, o, Result(Done, {}))
          ELSE IF s.known = {} \/ Full(s) THEN Answer(s, o, Nothing)
          ELSE Launch(s, Rpc("value", Owner(o, 0), key, near))
  BY DEF StartValue
<1> HIDE DEF near
<1>4. Began(Answer(s, o, Result(Done, {})), s, o, k) /\ Began(Answer(s, o, Nothing), s, o, k)
  BY BeganAnswered, SomeResults
<1>5. ~Full(s) => Began(Launch(s, Rpc("value", Owner(o, 0), key, near)), s, o, k)
  <2>1. "value" \in RpcKinds
    BY DEF RpcKinds
  <2> QED
    BY <1>2, <2>1, BeganLaunched
<1> QED
  BY <1>3, <1>4, <1>5

\* What a lookup that finds nodes gives.
LEMMA NodesResult ==
    ASSUME NEW ns \in SUBSET Nodes, NEW from \in SUBSET Nodes, NEW r, r = Result(ns, from)
    PROVE  r \in Results /\ Backed(r) /\ ~r.agreed /\ r.givers = from
<1>1. ns \in Values
  BY DEF Values
<1> QED
  BY <1>1 DEF Result, Results, Backed

\* trellis_dht_find_node.
LEMMA NodeBegins ==
    ASSUME NEW s, NEW o \in Callers, NEW k \in Nat, Owing(s, o, k + 1, 0, 0)
    PROVE  Began(StartNode(s, o), s, o, k)
<1> DEFINE near == Closest(Closest(s.known, Near), Alpha)
           r == Result(Closest(s.known, Near), {})
<1>1. s \in States
  BY DEF Owing
<1>2. near \in SUBSET Nodes /\ Closest(s.known, Near) \in SUBSET Nodes
  <2>1. s.known \in SUBSET Nodes
    BY <1>1, StateFields
  <2> QED
    BY <2>1, ClosestAre
<1>3. StartNode(s, o) =
          IF s.known = {} THEN Answer(s, o, Nothing)
          ELSE IF Full(s) THEN Answer(s, o, r)
          ELSE Launch(s, Rpc("node", Owner(o, 0), 0, near))
  BY DEF StartNode
<1>4. r \in Results /\ Backed(r)
  BY <1>2, NodesResult
<1> HIDE DEF near, r
<1>5. Began(Answer(s, o, r), s, o, k) /\ Began(Answer(s, o, Nothing), s, o, k)
  BY <1>4, BeganAnswered, SomeResults
<1>6. ~Full(s) => Began(Launch(s, Rpc("node", Owner(o, 0), 0, near)), s, o, k)
  <2>1. "node" \in RpcKinds /\ 0 \in Nat
    BY DEF RpcKinds
  <2> QED
    BY <1>2, <2>1, BeganLaunched
<1> QED
  BY <1>3, <1>5, <1>6

\* trellis_dht_find_value_skad, trellis_dht_find_node_skad: a lookup over disjoint paths.
LEMMA SkadBegins ==
    ASSUME NEW s, NEW o \in Callers, NEW k \in Nat, Owing(s, o, k + 1, 0, 0), NEW key \in Nat,
           NEW want \in {"value", "node"}, s.call[o].kind # "skad_node" => want = "value"
    PROVE  Began(StartSkad(s, o, want, key), s, o, k)
<1> DEFINE seeds == Closest(s.known, Paths * Near)
           g == FirstFree(s.group)
           u == Looked(s, g, NewGroup(o, seeds))
           l == LaunchPaths(u, o, g, want, key, seeds)
<1>1. s \in States
  BY DEF Owing
<1>2. seeds \in SUBSET Nodes
  <2>1. s.known \in SUBSET Nodes
    BY <1>1, StateFields
  <2> QED
    BY <2>1, ClosestAre
<1>3. StartSkad(s, o, want, key) =
          IF want = "value" /\ key \in s.held THEN Answer(s, o, Result(Done, {}))
          ELSE IF s.known = {} THEN Answer(s, o, Nothing)
          ELSE IF FreeSlots(s.group) = {}
               THEN IF want = "value" THEN StartValue(s, o, key) ELSE StartNode(s, o)
          ELSE IF Len(l.group[g].results) = Paths THEN Answer(Looked(l, g, Idle), o, Nothing)
          ELSE l
  BY DEF StartSkad, Looked, NewGroup
<1>4. Began(Answer(s, o, Result(Done, {})), s, o, k) /\ Began(Answer(s, o, Nothing), s, o, k)
  BY BeganAnswered, SomeResults
<1>5. Began(StartValue(s, o, key), s, o, k) /\ Began(StartNode(s, o), s, o, k)
  BY ValueBegins, NodeBegins
<1>6. ASSUME FreeSlots(s.group) # {}
      PROVE  IF Len(l.group[g].results) = Paths THEN Began(Answer(Looked(l, g, Idle), o, Nothing), s, o, k)
             ELSE Began(l, s, o, k)
  <2>1. /\ Owing(u, o, k, g, Paths) /\ PathsOf(u, g) = {} /\ g \in GroupSlots
        /\ u.group[g] = NewGroup(o, seeds) /\ u.rpc = s.rpc /\ u.call = s.call
    <3> HIDE DEF seeds, g
    <3>1. g = FirstFree(s.group)
      BY DEF g
    <3>2. ASSUME NEW G, G = NewGroup(o, seeds), NEW v, v = Looked(s, g, G)
          PROVE  /\ Owing(v, o, k, g, Paths) /\ PathsOf(v, g) = {} /\ g \in GroupSlots
                 /\ v.group[g] = G /\ v.rpc = s.rpc /\ v.call = s.call
      BY <1>2, <1>6, <3>1, <3>2, GroupOpened
    <3> QED
      BY <3>2
  <2>2. ForValue(u, g) => want = "value"
    <3>1. u.group[g].op = o
      BY <2>1 DEF NewGroup
    <3> QED
      BY <2>1, <3>1 DEF ForValue
  <2> HIDE DEF u, g, seeds
  <2>3. Owing(l, o, k, g, 0) /\ l.call = u.call /\ l.group[g].active /\ l.group[g].op = o
    BY <1>2, <2>1, <2>2, LaunchPathsOK
  <2> HIDE DEF l
  <2>4. SameCalls(l, s)
    BY <2>1, <2>3 DEF SameCalls, SameCall
  <2>5. CASE Len(l.group[g].results) = Paths
    <3> DEFINE v == Looked(l, g, Idle)
    <3>1. Owing(v, o, k + 1, 0, 0) /\ v.rpc = l.rpc /\ v.call = l.call
      <4>1. ASSUME NEW x, Owing(x, o, k, g, 0), x.group[g].active, x.group[g].op = o,
                   Len(x.group[g].results) = Paths, NEW y, y = Looked(x, g, Idle)
            PROVE  Owing(y, o, k + 1, 0, 0) /\ y.rpc = x.rpc /\ y.call = x.call
        BY <2>1, <4>1, GroupClosed
      <4> HIDE DEF v
      <4> QED
        BY <2>3, <2>5, <4>1 DEF v
    <3> HIDE DEF v
    <3>2. Began(Answer(v, o, Nothing), v, o, k)
      BY <3>1, BeganAnswered, SomeResults
    <3>3. Began(Answer(v, o, Nothing), s, o, k)
      BY <2>4, <3>1, <3>2 DEF Began, SameCalls, SameCall
    <3> QED
      BY <2>5, <3>3 DEF v
  <2>6. CASE Len(l.group[g].results) # Paths
    <3>1. Owing(l, o, k, 0, 0)
      BY <2>1, <2>3, <2>6, GroupRuns
    <3> QED
      BY <2>4, <2>6, <3>1 DEF Began
  <2> QED
    BY <2>5, <2>6
<1> HIDE DEF l, g
<1> QED
  BY <1>3, <1>4, <1>5, <1>6

\* The loop that issues the replicas is over.
Closing(c) == Closed([c EXCEPT !.issuing = FALSE], c.kind = "values")
ClosedWell(d, c) ==
    /\ d \in CallRecords /\ d.kind = c.kind /\ d.started = c.started /\ d.total = c.total /\ d.early = c.early
    /\ ~d.issuing /\ Settled(d) = Settled(c) /\ CallOK(d) /\ AllBacked(d)
\* Its call is told the answer if all the replicas have ended, and goes on with the rest.
LEMMA LoopCloses ==
    ASSUME NEW c \in CallRecords, CallOK(c), AllBacked(c), c.started, c.issuing, c.done <= c.total
    PROVE  ClosedWell(Closing(c), c)
<1> DEFINE finds == c.kind = "values"
           u == [c EXCEPT !.issuing = FALSE]
           d == Closing(c)
<1>1. /\ c.done \in Nat /\ c.good \in Nat /\ c.total \in Nat /\ c.found \in SUBSET Results
      /\ c.answers \in Seq(Results) /\ c.issuing \in BOOLEAN
  BY DEF CallRecords
<1>2. c.kind \in {"stores", "values"} /\ TallyOK(c)
  BY DEF CallOK, Twice
<1>3. IF finds /\ c.good > 0 THEN Len(c.answers) = 1 ELSE c.answers = <<>>
  BY <1>2 DEF TallyOK
<1>4. /\ u \in CallRecords /\ u.kind = c.kind /\ u.started = c.started /\ u.total = c.total /\ u.early = c.early
      /\ u.done = c.done /\ u.good = c.good /\ u.found = c.found /\ u.answers = c.answers /\ u.issuing = FALSE
  BY DEF CallRecords
<1>5. d = Closed(u, finds)
  BY DEF Closing
<1> HIDE DEF u, d
<1>6. AllBacked(u)
  BY <1>4 DEF AllBacked
<1>7. CASE u.done < u.total
  <2>1. d = u
    BY <1>5, <1>7 DEF Closed
  <2>2. u.done # u.total
    BY <1>1, <1>4, <1>7
  <2>3. TallyOK(u)
    BY <1>2, <1>3, <1>4, <2>2 DEF TallyOK
  <2>4. CallOK(u)
    BY <1>4, <2>3 DEF CallOK
  <2>5. Settled(u) = Settled(c)
    BY <1>2, <1>4 DEF Settled, Multi
  <2> QED
    BY <1>4, <1>6, <2>1, <2>4, <2>5 DEF ClosedWell, d
<1>8. CASE ~(u.done < u.total)
  <2>1. u.done = u.total
    BY <1>1, <1>4, <1>8
  <2>2. CASE finds /\ u.good > 0
    <3>1. d = u
      <4>1. u.good # 0
        BY <1>1, <1>4, <2>2
      <4> QED
        BY <1>4, <1>5, <1>8, <2>2, <4>1 DEF Closed
    <3>2. TallyOK(u)
      BY <1>3, <1>4, <2>2 DEF TallyOK
    <3>3. CallOK(u)
      BY <1>4, <3>2 DEF CallOK
    <3>4. Settled(u) = Settled(c)
      BY <1>2, <1>4 DEF Settled, Multi
    <3> QED
      BY <1>4, <1>6, <3>1, <3>3, <3>4 DEF ClosedWell, d
  <2>3. CASE ~(finds /\ u.good > 0)
    <3>1. PICK q \in Results : Backed(q) /\ d = Told(u, q)
      <4>1. CASE finds
        <5>1. d = Told(u, Nothing)
          <6>1. u.good = 0
            BY <1>1, <1>4, <2>3, <4>1
          <6> QED
            BY <1>4, <1>5, <1>8, <4>1, <6>1 DEF Closed
        <5> QED
          BY <5>1, SomeResults
      <4>2. CASE ~finds
        <5>1. d = Told(u, IF u.good > 0 THEN Result(Done, {}) ELSE Nothing)
          BY <1>4, <1>5, <1>8, <4>2 DEF Closed
        <5> QED
          BY <5>1, SomeResults
      <4> QED
        BY <4>1, <4>2
    <3>2. /\ d \in CallRecords /\ SameCall(d, u) /\ d.done = u.done /\ d.good = u.good
          /\ Len(d.answers) = Len(u.answers) + 1
      BY <1>4, <3>1, ToldFields
    <3>3. AllBacked(d)
      BY <1>4, <1>6, <3>1, ToldBacked
    <3>4. Len(d.answers) = 1
      BY <1>3, <1>4, <2>3, <3>2
    <3>5. /\ d.kind = c.kind /\ d.done = d.total /\ ~d.issuing /\ d.started /\ d.started = c.started
          /\ d.total = c.total /\ d.early = c.early
      BY <1>4, <2>1, <3>2 DEF SameCall
    <3>6. TallyOK(d)
      BY <1>2, <3>4, <3>5 DEF TallyOK
    <3>7. CallOK(d)
      BY <1>2, <3>5, <3>6 DEF CallOK
    <3>8. Settled(d) = Settled(c)
      BY <1>2, <1>4, <3>2, <3>5 DEF Settled, Multi
    <3> QED
      BY <3>2, <3>3, <3>5, <3>7, <3>8 DEF ClosedWell, d
  <2> QED
    BY <2>2, <2>3
<1> QED
  BY <1>7, <1>8

\* A call that has just started.
Untold(c) ==
    /\ c.started /\ ~c.issuing /\ c.total = 1 /\ c.done = 0 /\ c.good = 0
    /\ c.found = {} /\ c.answers = <<>> /\ c.early = 0
\* It is to have n parts.
Parts(c, n, issuing) == [c EXCEPT !.issuing = issuing, !.total = n]
\* It owes the n parts then.
LEMMA PartsOK ==
    ASSUME NEW s, NEW o \in Callers, Owing(s, o, 1, 0, 0), Untold(s.call[o]), s.call[o].kind \in Multi,
           NEW n \in Nat \ {0}, NEW issuing \in BOOLEAN, issuing => s.call[o].kind \in {"stores", "values"},
           NEW t, t = Recorded(s, o, Parts(s.call[o], n, issuing))
    PROVE  /\ Owing(t, o, n, 0, 0) /\ t.call[o].kind = s.call[o].kind /\ t.call[o].started
           /\ t.call[o].issuing = issuing /\ t.call[o].total = n /\ t.call[o].early = 0
           /\ \A p \in Callers : p # o => t.call[p] = s.call[p]
<1> DEFINE c == s.call[o]
           d == Parts(c, n, issuing)
<1>1. s \in States /\ CallsOK(s, o, 1)
  BY DEF Owing
<1>2. c \in CallRecords
  BY <1>1, StateFields
<1> HIDE DEF c
<1>3. /\ d \in CallRecords /\ d.kind = c.kind /\ d.started = c.started /\ d.total = n /\ d.issuing = issuing
      /\ d.early = c.early /\ d.done = c.done /\ d.good = c.good /\ d.found = c.found /\ d.answers = c.answers
  BY <1>2 DEF CallRecords, Parts
<1> HIDE DEF d
<1>4. Untold(c) /\ c.kind \in Multi /\ (issuing => c.kind \in {"stores", "values"})
  BY DEF c
<1>5. CallOK(d)
  <2>1. d.done # d.total /\ d.answers = <<>> /\ ~(d.good > 0) /\ d.kind \in Multi /\ d.started
    BY <1>3, <1>4 DEF Untold
  <2>2. TallyOK(d)
    BY <2>1 DEF TallyOK, Multi
  <2>3. d.total >= 1 /\ (d.issuing => d.kind \in {"stores", "values"})
    BY <1>3, <1>4
  <2> QED
    BY <2>1, <2>2, <2>3 DEF CallOK
<1>6. AllBacked(d)
  <2>1. d.found = {} /\ d.answers = <<>>
    BY <1>3, <1>4 DEF Untold
  <2> QED
    BY <2>1 DEF AllBacked
<1>7. Pending(s, o) = 0
  <2>1. CallDue(s, o, 1)
    BY <1>1 DEF CallsOK
  <2>2. Pending(s, o) + Settled(c) + 1 = 1
    BY <1>4, <2>1 DEF CallDue, Untold, c
  <2>3. Settled(c) = 0
    BY <1>4 DEF Untold, Settled
  <2>4. Pending(s, o) \in Nat
    BY SlotCounts
  <2> QED
    BY <2>2, <2>3, <2>4
<1>8. Pending(s, o) + Settled(d) + n = IF d.started THEN d.total ELSE 0
  <2>1. Settled(d) = 0 /\ d.started /\ d.total = n
    BY <1>3, <1>4 DEF Untold, Settled
  <2> QED
    BY <1>7, <2>1
<1>9. d.kind = s.call[o].kind /\ t = Recorded(s, o, d)
  BY <1>3 DEF c, d
<1>10. Owing(t, o, n, 0, 0) /\ t.call[o] = d /\ \A p \in Callers : p # o => t.call[p] = s.call[p]
  BY <1>3, <1>5, <1>6, <1>8, <1>9, CallReplaced
<1> QED
  BY <1>3, <1>4, <1>9, <1>10 DEF Untold

\* After d turns of a loop that begins n parts of call o.
PartsBegun(t, s, o, n, d) == Owing(t, o, n - d, 0, 0) /\ SameCalls(t, s)

\* After the last turn nothing is owed, whichever part ended at once.
LEMMA PartsLoop ==
    ASSUME NEW s, NEW o \in Callers, NEW n \in Nat, Owing(s, o, n, 0, 0),
           NEW m, m.loop \in {"finds", "stores", "covers"}, m.o = o, m.loop = "stores" => n <= Replicas,
           NEW f, Loop(f, m, s, n)
    PROVE  Owing(f[n], o, 0, 0, 0) /\ SameCalls(f[n], s)
<1>1. f[0] = s /\ \A d \in 0..n : d + 1 \in 0..n => f[d + 1] = LoopStep(m, f[d], d + 1)
  BY LoopIs
<1> DEFINE S == {d \in 0..n : PartsBegun(f[d], s, o, n, d)}
<1>2. 0 \in S
  <2>1. n - 0 = n /\ 0 \in 0..n
    OBVIOUS
  <2>2. SameCalls(s, s)
    BY DEF SameCalls, SameCall
  <2> QED
    BY <1>1, <2>1, <2>2 DEF PartsBegun
<1>3. ASSUME NEW d \in 0..n, d + 1 \in 0..n, d \in S PROVE d + 1 \in S
  <2> DEFINE k == n - (d + 1)
             t == f[d]
             u == f[d + 1]
  <2>1. k \in Nat /\ n - d = k + 1 /\ d + 1 \in Nat
    BY <1>3
  <2>2. Owing(t, o, k + 1, 0, 0) /\ SameCalls(t, s)
    BY <1>3, <2>1 DEF PartsBegun
  <2>3. u = LoopStep(m, t, d + 1)
    BY <1>1, <1>3
  <2> HIDE DEF t, u, k
  <2>4. /\ \A key \in Nat : Began(StartSkad(t, o, "value", key), t, o, k)
        /\ \A key \in Keys : Began(StartStore(t, o, key), t, o, k)
    BY <2>1, <2>2, SkadBegins, StoreBegins
  <2>8. m.loop = "stores" => d + 1 \in Keys
    <3>1. Replicas \in Nat
      BY LookupAssumption
    <3> QED
      BY <1>3, <2>1, <3>1 DEF Keys
  <2>5. CoverKey \in Nat
    <3>1. Replicas \in Nat
      BY LookupAssumption
    <3> QED
      BY <3>1 DEF CoverKey
  <2>6. Began(u, t, o, k)
    BY <2>1, <2>3, <2>4, <2>5, <2>8 DEF LoopStep
  <2>7. PartsBegun(u, s, o, n, d + 1)
    BY <2>2, <2>6 DEF PartsBegun, Began, SameCalls, SameCall, k
  <2> QED
    BY <1>3, <2>7 DEF u
<1> HIDE DEF S
<1>4. n \in S
  <2>1. \A d \in 0..n : d \in S
    BY <1>2, <1>3, UpTo
  <2> QED
    BY <2>1
<1>5. PartsBegun(f[n], s, o, n, n) /\ n - n = 0
  BY <1>4 DEF S
<1> QED
  BY <1>5 DEF PartsBegun

\* No call is in the midst of issuing its replicas.
Quiet(s) == \A p \in Callers : ~s.call[p].issuing
QuietBut(s, o) == \A p \in Callers : p # o => ~s.call[p].issuing

\* When the call that issued its replicas is done with it, no call does.
LEMMA QuietRecorded ==
    ASSUME NEW s \in States, NEW o \in Callers, QuietBut(s, o), NEW d, ~d.issuing, NEW t, t = Recorded(s, o, d)
    PROVE  Quiet(t)
<1>1. t.call = [s.call EXCEPT ![o] = d] /\ DOMAIN s.call = Callers
  BY DEF States, Recorded
<1>2. ASSUME NEW p \in Callers PROVE ~t.call[p].issuing
  <2>1. CASE p = o
    BY <1>1, <2>1
  <2>2. CASE p # o
    BY <1>1, <2>2 DEF QuietBut
  <2> QED
    BY <2>1, <2>2
<1> QED
  BY <1>2 DEF Quiet

\* Ends and starts of parts do not change who is issuing.
LEMMA QuietSame ==
    ASSUME NEW s, NEW t, SameCalls(t, s)
    PROVE  (Quiet(s) => Quiet(t)) /\ \A o : QuietBut(s, o) => QuietBut(t, o)
BY DEF Quiet, QuietBut, SameCalls, SameCall

\* The state when a call returns: how many answers came before is remembered.
Returned(t, o) == [t EXCEPT !.call[o].early = Len(t.call[o].answers)]
Counts(c) == [c EXCEPT !.early = Len(c.answers)]

\* It is a change of the call's record.
LEMMA ReturnedIs ==
    ASSUME NEW t \in States, NEW o \in Callers
    PROVE  Returned(t, o) = Recorded(t, o, Counts(t.call[o]))
BY DEF States, Returned, Recorded, Counts

\* Only that number changes.
LEMMA CountsIs ==
    ASSUME NEW c \in CallRecords
    PROVE  /\ Counts(c) \in CallRecords /\ Counts(c).kind = c.kind /\ Counts(c).started = c.started
           /\ Counts(c).issuing = c.issuing /\ Counts(c).total = c.total /\ Counts(c).done = c.done
           /\ Counts(c).good = c.good /\ Counts(c).found = c.found /\ Counts(c).answers = c.answers
           /\ Counts(c).early = Len(c.answers)
<1>1. Len(c.answers) \in Nat
  BY DEF CallRecords
<1> QED
  BY <1>1 DEF CallRecords, Counts

\* What holds when call o has returned, in state t.
Back(t, o) == Owing(t, o, 0, 0, 0) /\ Quiet(t)

\* A call returns that has not been answered twice.
LEMMA ReturnedOK ==
    ASSUME NEW t, NEW o \in Callers, Owing(t, o, 0, 0, 0), t.call[o].early = 0, Quiet(t)
    PROVE  Back(Returned(t, o), o)
<1> DEFINE c == t.call[o]
           d == Counts(c)
<1>1. t \in States /\ CallsOK(t, o, 0)
  BY DEF Owing
<1>2. c \in CallRecords
  BY <1>1, StateFields
<1>3. CallOK(c) /\ AllBacked(c) /\ CallDue(t, o, 0)
  BY <1>1 DEF CallsOK
<1>4. Pending(t, o) + Settled(c) + 0 = IF c.started THEN c.total ELSE 0
  BY <1>3 DEF CallDue
<1>5. c.early = 0
  OBVIOUS
<1> HIDE DEF c
<1>6. /\ d \in CallRecords /\ d.kind = c.kind /\ d.started = c.started
      /\ d.issuing = c.issuing /\ d.total = c.total /\ d.done = c.done
      /\ d.good = c.good /\ d.found = c.found /\ d.answers = c.answers
      /\ d.early = Len(c.answers)
  BY <1>2, CountsIs
<1>10. QuietBut(t, o) /\ ~d.issuing
  BY <1>6 DEF Quiet, QuietBut, c
<1>7. c.started \/ d = c
  <2> SUFFICES ASSUME ~c.started PROVE d = c
    OBVIOUS
  <2>1. c = NewCall(c.kind)
    BY <1>3 DEF CallOK
  <2>2. c.answers = <<>>
    BY <2>1 DEF NewCall
  <2>3. Len(c.answers) = c.early
    BY <1>5, <2>2
  <2> QED
    BY <1>2, <2>3 DEF Counts, CallRecords
<1>8. CASE d = c
  <2>1. CallOK(d) /\ AllBacked(d)
    BY <1>3, <1>8
  <2>2. Pending(t, o) + Settled(d) + 0 = IF d.started THEN d.total ELSE 0
    BY <1>4, <1>8
  <2>3. Returned(t, o) = Recorded(t, o, d)
    BY <1>1, ReturnedIs DEF c
  <2> HIDE DEF d
  <2>4. Owing(Returned(t, o), o, 0, 0, 0)
    BY <1>6, <2>1, <2>2, <2>3, CallReplaced DEF c
  <2> QED
    BY <1>1, <1>10, <2>3, <2>4, QuietRecorded DEF Back
<1>9. CASE c.started
  <2> HIDE DEF d
  <2>1. TallyOK(c)
    BY <1>3, <1>5 DEF CallOK, Twice
  <2>2. TallyOK(d)
    BY <1>6, <2>1 DEF TallyOK
  <2>3. CallOK(d)
    BY <1>3, <1>6, <1>9, <2>2 DEF CallOK
  <2>4. AllBacked(d)
    BY <1>3, <1>6 DEF AllBacked
  <2>5. Settled(d) = Settled(c)
    BY <1>6 DEF Settled
  <2>6. Pending(t, o) + Settled(d) + 0 = IF d.started THEN d.total ELSE 0
    BY <1>4, <1>6, <2>5
  <2>7. Returned(t, o) = Recorded(t, o, d)
    BY <1>1, ReturnedIs DEF c, d
  <2>8. Owing(Returned(t, o), o, 0, 0, 0)
    BY <1>6, <2>3, <2>4, <2>6, <2>7, CallReplaced DEF c
  <2> QED
    BY <1>1, <1>10, <2>7, <2>8, QuietRecorded DEF Back
<1> QED
  BY <1>7, <1>8, <1>9

\* trellis_dht_store_redundant, trellis_dht_find_value_redundant.
LEMMA ReplicasBegin ==
    ASSUME NEW s, NEW o \in Callers, Owing(s, o, 1, 0, 0), Untold(s.call[o]), NEW finds \in BOOLEAN,
           s.call[o].kind = (IF finds THEN "values" ELSE "stores"), Quiet(s)
    PROVE  Back(Returned(StartReplicas(s, o, finds), o), o)
<1>1. Replicas \in Nat \ {0}
  BY LookupAssumption
<1>2. s \in States
  BY DEF Owing
<1> DEFINE m == [loop |-> IF finds THEN "finds" ELSE "stores", o |-> o]
           s1 == [s EXCEPT !.call[o].issuing = TRUE, !.call[o].total = Replicas]
           After == CHOOSE f : f = [i \in Keys |->
                       IF i = 0 THEN s1
                       ELSE IF finds THEN StartSkad(f[i - 1], o, "value", i)
                       ELSE StartStore(f[i - 1], o, i)]
           a == After[Replicas]
<1>3. StartReplicas(s, o, finds) = [a EXCEPT !.call[o] = Closed([@ EXCEPT !.issuing = FALSE], finds)]
  BY DEF StartReplicas
<1>4. \A x, i : LoopStep(m, x, i) = IF finds THEN StartSkad(x, o, "value", i) ELSE StartStore(x, o, i)
  BY DEF LoopStep
<1>5. s1 = Recorded(s, o, Parts(s.call[o], Replicas, TRUE))
  BY <1>2 DEF States, Recorded, Parts
<1>6. m.loop \in {"finds", "stores", "covers"} /\ m.o = o /\ Replicas <= Replicas
  BY <1>1
<1> HIDE DEF m, s1
<1>7. Loop(After, m, s1, Replicas)
  <2>1. PICK f : Loop(f, m, s1, Replicas)
    BY <1>1, LoopExists
  <2>2. f = [i \in Keys |->
                       IF i = 0 THEN s1
                       ELSE IF finds THEN StartSkad(f[i - 1], o, "value", i)
                       ELSE StartStore(f[i - 1], o, i)]
    BY <1>4, <2>1 DEF Loop, Keys
  <2>3. After = [i \in Keys |->
                       IF i = 0 THEN s1
                       ELSE IF finds THEN StartSkad(After[i - 1], o, "value", i)
                       ELSE StartStore(After[i - 1], o, i)]
    BY <2>2
  <2> HIDE DEF After
  <2> QED
    BY <1>4, <2>3 DEF Loop, Keys
<1> HIDE DEF After
<1>8. /\ Owing(s1, o, Replicas, 0, 0) /\ s1.call[o].kind = s.call[o].kind /\ s1.call[o].started
      /\ s1.call[o].issuing = TRUE /\ s1.call[o].total = Replicas /\ s1.call[o].early = 0
      /\ \A p \in Callers : p # o => s1.call[p] = s.call[p]
  <2>1. s.call[o].kind \in Multi /\ s.call[o].kind \in {"stores", "values"}
    BY DEF Multi
  <2>2. ASSUME NEW issuing \in BOOLEAN, NEW t, t = Recorded(s, o, Parts(s.call[o], Replicas, issuing))
        PROVE  /\ Owing(t, o, Replicas, 0, 0) /\ t.call[o].kind = s.call[o].kind /\ t.call[o].started
               /\ t.call[o].issuing = issuing /\ t.call[o].total = Replicas /\ t.call[o].early = 0
               /\ \A p \in Callers : p # o => t.call[p] = s.call[p]
    BY <1>1, <2>1, <2>2, PartsOK
  <2> QED
    BY <1>5, <2>2
<1>9. Owing(a, o, 0, 0, 0) /\ SameCalls(a, s1)
  BY <1>1, <1>6, <1>7, <1>8, PartsLoop
<1>20. QuietBut(a, o)
  <2>1. QuietBut(s1, o)
    BY <1>8 DEF Quiet, QuietBut
  <2> QED
    BY <1>9, <2>1, QuietSame
<1> DEFINE c == a.call[o]
           d == Closing(c)
<1> HIDE DEF a
<1>10. a \in States /\ CallsOK(a, o, 0)
  BY <1>9 DEF Owing
<1>11. /\ c \in CallRecords /\ CallOK(c) /\ AllBacked(c) /\ CallDue(a, o, 0)
       /\ c.kind = s.call[o].kind /\ c.started /\ c.issuing /\ c.early = 0
  BY <1>8, <1>9, <1>10, StateFields DEF CallsOK, SameCalls, SameCall
<1>12. Settled(c) = c.done /\ c.done \in Nat /\ c.total \in Nat /\ Pending(a, o) \in Nat
  <2>1. c.kind \in Multi
    BY <1>11 DEF Multi
  <2> QED
    BY <1>11, <2>1, SlotCounts DEF Settled, CallRecords
<1>13. Pending(a, o) + Settled(c) = c.total
  <2>1. Pending(a, o) + Settled(c) + 0 = c.total
    BY <1>11 DEF CallDue
  <2> QED
    BY <1>12, <2>1
<1>14. StartReplicas(s, o, finds) = Recorded(a, o, d)
  <2>1. finds = (c.kind = "values")
    BY <1>11
  <2>2. StartReplicas(s, o, finds) = [a EXCEPT !.call[o] = Closed([a.call[o] EXCEPT !.issuing = FALSE], finds)]
    BY <1>3
  <2> QED
    BY <2>1, <2>2 DEF Recorded, Closing
<1> HIDE DEF c
<1>15. ClosedWell(d, c)
  <2>1. c.done <= c.total
    BY <1>12, <1>13
  <2> QED
    BY <1>11, <2>1, LoopCloses
<1> HIDE DEF d
<1>16. /\ d \in CallRecords /\ ~d.issuing /\ d.kind = c.kind /\ CallOK(d) /\ AllBacked(d) /\ d.early = 0
       /\ Pending(a, o) + Settled(d) + 0 = IF d.started THEN d.total ELSE 0
  <2>1. Settled(d) = Settled(c) /\ d.started /\ d.total = c.total
    BY <1>11, <1>15 DEF ClosedWell
  <2>2. Pending(a, o) + Settled(d) + 0 = d.total
    BY <1>12, <1>13, <2>1
  <2> QED
    BY <1>11, <1>15, <2>1, <2>2 DEF ClosedWell
<1> DEFINE t == Recorded(a, o, d)
<1>17. Owing(t, o, 0, 0, 0) /\ t.call[o] = d /\ Quiet(t)
  <2>1. t = Recorded(a, o, d)
    OBVIOUS
  <2> HIDE DEF t
  <2>2. Owing(t, o, 0, 0, 0) /\ t.call[o] = d
    BY <1>9, <1>16, <2>1, CallReplaced DEF c
  <2>3. Quiet(t)
    BY <1>10, <1>16, <1>20, <2>1, QuietRecorded
  <2> QED
    BY <2>2, <2>3
<1>18. Back(Returned(t, o), o)
  <2> HIDE DEF t
  <2> QED
    BY <1>16, <1>17, ReturnedOK
<1> QED
  BY <1>14, <1>18

\* A call of one part returns.
LEMMA BeganReturns ==
    ASSUME NEW s, NEW o \in Callers, s.call[o].early = 0, Quiet(s), NEW t, Began(t, s, o, 0)
    PROVE  Back(Returned(t, o), o)
<1>1. Owing(t, o, 0, 0, 0) /\ t.call[o].early = 0 /\ Quiet(t)
  BY QuietSame DEF Began, SameCalls, SameCall
<1> QED
  BY <1>1, ReturnedOK

\* A private lookup all of whose queries were answered at once is told Nothing as well.
LEMMA TwiceReturns ==
    ASSUME NEW t, NEW o \in Callers, Owing(t, o, 0, 0, 0), t.call[o].early = 0,
           t.call[o].kind = "private", t.call[o].started, t.call[o].done = t.call[o].total,
           Quiet(t), NEW u, u = [t EXCEPT !.call[o] = Told(@, Nothing)]
    PROVE  Back(Returned(u, o), o)
<1> DEFINE c == t.call[o]
           e == Told(c, Nothing)
           d == Counts(e)
<1>1. t \in States /\ CallsOK(t, o, 0)
  BY DEF Owing
<1>2. c \in CallRecords
  BY <1>1, StateFields
<1>3. CallOK(c) /\ AllBacked(c) /\ CallDue(t, o, 0)
  BY <1>1 DEF CallsOK
<1>4. /\ e \in CallRecords /\ SameCall(e, c) /\ e.done = c.done /\ Len(e.answers) = Len(c.answers) + 1
      /\ e.answers[Len(c.answers) + 1] = Nothing /\ AllBacked(e)
  <2> HIDE DEF c
  <2>1. Nothing \in Results /\ Backed(Nothing)
    BY SomeResults
  <2>2. AllBacked(e)
    BY <1>2, <1>3, <2>1, ToldBacked
  <2> QED
    BY <1>2, <2>1, <2>2, ToldFields
<1>5. c.kind = "private" /\ c.started /\ c.done = c.total /\ c.early = 0
  OBVIOUS
<1>6. Returned(u, o) = Recorded(t, o, d)
  <2>1. u = Recorded(t, o, e)
    BY DEF Recorded
  <2> HIDE DEF e
  <2>2. u \in States /\ u.call[o] = e
    BY <1>1, <1>4, <2>1 DEF States, Recorded
  <2>3. Returned(u, o) = Recorded(u, o, Counts(e))
    BY <2>2, ReturnedIs
  <2>4. Recorded(u, o, Counts(e)) = Recorded(t, o, Counts(e))
    BY <1>1, <2>1 DEF States, Recorded
  <2> QED
    BY <2>3, <2>4
<1> HIDE DEF e
<1>7. /\ d \in CallRecords /\ d.kind = e.kind /\ d.started = e.started /\ d.total = e.total
      /\ d.done = e.done /\ d.found = e.found /\ d.answers = e.answers /\ d.early = Len(e.answers)
      /\ d.issuing = e.issuing
  BY <1>4, CountsIs
<1> HIDE DEF d
<1>8. Len(c.answers) = 1
  <2> HIDE DEF c
  <2>1. TallyOK(c)
    BY <1>3, <1>5 DEF CallOK, Twice
  <2> QED
    BY <1>5, <2>1 DEF TallyOK
<1>9. Twice(d)
  <2>1. d.kind = "private" /\ d.done = d.total
    BY <1>4, <1>5, <1>7 DEF SameCall
  <2>2. Len(d.answers) = 2 /\ d.answers[2] = Nothing /\ d.early = 2
    <3>1. Len(c.answers) + 1 = 2
      BY <1>8
    <3> QED
      BY <1>4, <1>7, <3>1
  <2> QED
    BY <2>1, <2>2 DEF Twice
<1>10. CallOK(d) /\ AllBacked(d)
  <2>1. /\ d.started /\ d.total >= 1 /\ (d.issuing => d.kind \in {"stores", "values"})
    <3>1. d.started = c.started /\ d.total = c.total /\ d.issuing = c.issuing /\ d.kind = c.kind
      BY <1>4, <1>7 DEF SameCall
    <3> QED
      BY <1>3, <1>5, <3>1 DEF CallOK
  <2>2. AllBacked(d)
    BY <1>4, <1>7 DEF AllBacked
  <2> QED
    BY <1>9, <2>1, <2>2 DEF CallOK
<1>11. Pending(t, o) + Settled(d) + 0 = IF d.started THEN d.total ELSE 0
  <2>1. Pending(t, o) + Settled(c) + 0 = c.total
    BY <1>3 DEF CallDue
  <2>2. Settled(d) = Settled(c) /\ d.started /\ d.total = c.total
    BY <1>4, <1>5, <1>7 DEF SameCall, Settled, Multi
  <2> QED
    BY <2>1, <2>2
<1>12. d.kind = t.call[o].kind /\ ~d.issuing /\ QuietBut(t, o)
  BY <1>4, <1>7 DEF SameCall, Quiet, QuietBut
<1> HIDE DEF c
<1>13. Owing(Returned(u, o), o, 0, 0, 0)
  BY <1>6, <1>7, <1>10, <1>11, <1>12, CallReplaced
<1> QED
  BY <1>1, <1>6, <1>12, <1>13, QuietRecorded DEF Back

\* trellis_pir_find_value_skad.
LEMMA PrivateBegins ==
    ASSUME NEW s, NEW o \in Callers, Owing(s, o, 1, 0, 0), Untold(s.call[o]), s.call[o].kind = "private",
           Quiet(s)
    PROVE  Back(Returned(StartPrivate(s, o), o), o)
<1>1. Covers \in Nat
  BY LookupAssumption
<1>2. s \in States
  BY DEF Owing
<1> DEFINE m == [loop |-> "covers", o |-> o]
           s1 == [s EXCEPT !.call[o].total = Covers + 1]
           s2 == StartSkad(s1, o, "value", 0)
           After == CHOOSE f : f = [i \in 0..Covers |->
                       IF i = 0 THEN s2 ELSE StartSkad(f[i - 1], o, "value", CoverKey)]
           t == After[Covers]
           busy == {p \in Callers \ {o} : /\ s.call[p].kind = "private" /\ s.call[p].started
                                          /\ s.call[p].done < s.call[p].total}
<1>3. StartPrivate(s, o) =
          IF Cardinality(busy) >= PrivateSlots THEN StartSkad(s, o, "value", 0)
          ELSE IF t.call[o].done = t.call[o].total
               THEN [t EXCEPT !.call[o] = Told(@, Nothing)] ELSE t
  BY DEF StartPrivate
<1>4. \A x, i : LoopStep(m, x, i) = StartSkad(x, o, "value", CoverKey)
  BY DEF LoopStep
<1>5. s1 = Recorded(s, o, Parts(s.call[o], Covers + 1, FALSE))
  <2>1. s.call[o] \in CallRecords /\ s.call[o].issuing = FALSE
    BY <1>2, StateFields DEF Untold, CallRecords
  <2>2. [s.call[o] EXCEPT !.total = Covers + 1] = Parts(s.call[o], Covers + 1, FALSE)
    BY <2>1 DEF CallRecords, Parts
  <2>3. s1 = Recorded(s, o, [s.call[o] EXCEPT !.total = Covers + 1])
    BY <1>2 DEF States, Recorded
  <2> QED
    BY <2>2, <2>3
<1>6. m.loop \in {"finds", "stores", "covers"} /\ m.o = o /\ m.loop # "stores"
  OBVIOUS
<1> HIDE DEF m, s1, busy
<1>7. /\ Owing(s1, o, Covers + 1, 0, 0) /\ s1.call[o].kind = "private" /\ s1.call[o].started
      /\ s1.call[o].early = 0 /\ s1.call[o].issuing = FALSE
      /\ \A p \in Callers : p # o => s1.call[p] = s.call[p]
  <2>1. s.call[o].kind \in Multi /\ Covers + 1 \in Nat \ {0}
    BY <1>1 DEF Multi
  <2>2. ASSUME NEW n \in Nat \ {0}, NEW issuing \in BOOLEAN, ~issuing,
               NEW x, x = Recorded(s, o, Parts(s.call[o], n, issuing))
        PROVE  /\ Owing(x, o, n, 0, 0) /\ x.call[o].kind = s.call[o].kind /\ x.call[o].started
               /\ x.call[o].early = 0 /\ x.call[o].issuing = FALSE
               /\ \A p \in Callers : p # o => x.call[p] = s.call[p]
    BY <2>1, <2>2, PartsOK
  <2> QED
    BY <1>5, <2>1, <2>2
<1>8. Began(s2, s1, o, Covers)
  BY <1>1, <1>7, SkadBegins
<1> HIDE DEF s2
<1>9. Loop(After, m, s2, Covers)
  <2>1. PICK f : Loop(f, m, s2, Covers)
    BY <1>1, LoopExists
  <2>2. f = [i \in 0..Covers |->
                       IF i = 0 THEN s2 ELSE StartSkad(f[i - 1], o, "value", CoverKey)]
    BY <1>4, <2>1 DEF Loop
  <2>3. After = [i \in 0..Covers |->
                       IF i = 0 THEN s2 ELSE StartSkad(After[i - 1], o, "value", CoverKey)]
    BY <2>2
  <2> HIDE DEF After
  <2> QED
    BY <1>4, <2>3 DEF Loop
<1> HIDE DEF After
<1>10. Owing(t, o, 0, 0, 0) /\ SameCalls(t, s2)
  <2>1. Owing(s2, o, Covers, 0, 0)
    BY <1>8 DEF Began
  <2> QED
    BY <1>1, <1>6, <1>9, <2>1, PartsLoop
<1> HIDE DEF t
<1>15. Quiet(t)
  <2>1. Quiet(s1)
    BY <1>7 DEF Quiet
  <2> QED
    BY <1>8, <1>10, <2>1, QuietSame DEF Began
<1>11. t.call[o].early = 0 /\ t.call[o].kind = "private" /\ t.call[o].started
  BY <1>7, <1>8, <1>10 DEF Began, SameCalls, SameCall
<1>12. CASE Cardinality(busy) >= PrivateSlots
  <2>1. \A k \in Nat : Owing(s, o, k + 1, 0, 0) => Began(StartSkad(s, o, "value", 0), s, o, k)
    BY SkadBegins
  <2>2. Owing(s, o, 0 + 1, 0, 0)
    OBVIOUS
  <2>3. Began(StartSkad(s, o, "value", 0), s, o, 0)
    BY <2>1, <2>2
  <2>4. s.call[o].early = 0
    BY DEF Untold
  <2> QED
    BY <1>3, <1>12, <2>3, <2>4, BeganReturns
<1>13. CASE ~(Cardinality(busy) >= PrivateSlots) /\ t.call[o].done = t.call[o].total
  BY <1>3, <1>10, <1>11, <1>13, <1>15, TwiceReturns
<1>14. CASE ~(Cardinality(busy) >= PrivateSlots) /\ t.call[o].done # t.call[o].total
  BY <1>3, <1>10, <1>11, <1>14, <1>15, ReturnedOK
<1> QED
  BY <1>12, <1>13, <1>14

Opened(c) == [c EXCEPT !.started = TRUE]

\* A call is marked as started; it owes its part.
LEMMA CallOpens ==
    ASSUME NEW s, NEW o \in Callers, Owing(s, o, 0, 0, 0), ~s.call[o].started,
           NEW t, t = Recorded(s, o, Opened(s.call[o]))
    PROVE  Owing(t, o, 1, 0, 0) /\ Untold(t.call[o]) /\ t.call[o].kind = s.call[o].kind
           /\ t.call[o].kind \in Kinds /\ (Quiet(s) => Quiet(t))
<1> DEFINE c == s.call[o]
           d == Opened(c)
<1>1. s \in States /\ CallsOK(s, o, 0)
  BY DEF Owing
<1>2. c \in CallRecords
  BY <1>1, StateFields
<1>3. CallOK(c) /\ AllBacked(c) /\ CallDue(s, o, 0) /\ ~c.started
  BY <1>1 DEF CallsOK
<1>4. Pending(s, o) = 0
  <2>1. Pending(s, o) + Settled(c) + 0 = 0
    BY <1>3 DEF CallDue
  <2>2. Pending(s, o) \in Nat /\ Settled(c) \in Nat
    BY <1>2, SlotCounts, SMTT(30) DEF CallRecords, Settled
  <2> QED
    BY <2>1, <2>2
<1> HIDE DEF c
<1>5. c = NewCall(c.kind)
  BY <1>3 DEF CallOK
<1>6. /\ ~c.issuing /\ c.total = 1 /\ c.done = 0 /\ c.good = 0 /\ c.found = {} /\ c.answers = <<>>
      /\ c.early = 0 /\ c.kind \in Kinds
  <2>1. /\ NewCall(c.kind).issuing = FALSE /\ NewCall(c.kind).total = 1 /\ NewCall(c.kind).done = 0
        /\ NewCall(c.kind).good = 0 /\ NewCall(c.kind).found = {} /\ NewCall(c.kind).answers = <<>>
        /\ NewCall(c.kind).early = 0
    BY DEF NewCall
  <2>2. c.kind \in Kinds
    BY <1>2 DEF CallRecords
  <2> QED
    BY <1>5, <2>1, <2>2
<1>7. /\ d \in CallRecords /\ d.kind = c.kind /\ d.started = TRUE /\ d.issuing = c.issuing
      /\ d.total = c.total /\ d.done = c.done /\ d.good = c.good /\ d.found = c.found
      /\ d.answers = c.answers /\ d.early = c.early
  BY <1>2 DEF CallRecords, Opened
<1> HIDE DEF d
<1>8. Untold(d)
  BY <1>6, <1>7 DEF Untold
<1>9. CallOK(d)
  <2>1. TallyOK(d)
    BY <1>6, <1>7 DEF TallyOK
  <2>2. d.total >= 1 /\ ~d.issuing /\ d.started
    BY <1>6, <1>7
  <2> QED
    BY <2>1, <2>2 DEF CallOK
<1>10. AllBacked(d)
  BY <1>6, <1>7 DEF AllBacked
<1>11. Pending(s, o) + Settled(d) + 1 = IF d.started THEN d.total ELSE 0
  <2>1. Settled(d) = 0
    BY <1>6, <1>7 DEF Settled
  <2> QED
    BY <1>4, <1>6, <1>7, <2>1
<1>12. d.kind = s.call[o].kind /\ t = Recorded(s, o, d)
  BY <1>7 DEF c, d
<1>13. Owing(t, o, 1, 0, 0) /\ t.call[o] = d
  BY <1>7, <1>9, <1>10, <1>11, <1>12, CallReplaced
<1>14. Quiet(s) => Quiet(t)
  <2>1. Quiet(s) => QuietBut(s, o)
    BY DEF Quiet, QuietBut
  <2> QED
    BY <1>1, <1>6, <1>7, <1>12, <2>1, QuietRecorded
<1> QED
  BY <1>6, <1>7, <1>8, <1>12, <1>13, <1>14

\* A call returns: some parts of it have begun, others ended.
LEMMA BeginOK ==
    ASSUME NEW s, NEW o \in Callers, Owing(s, o, 1, 0, 0), Untold(s.call[o]), s.call[o].kind \in Kinds,
           Quiet(s)
    PROVE  Back(Returned(Begin(s, o), o), o)
<1>1. s.call[o].early = 0
  BY DEF Untold
<1>2. \A t : Began(t, s, o, 0) => Back(Returned(t, o), o)
  BY <1>1, BeganReturns
<1> DEFINE Due(k) == Owing(s, o, k + 1, 0, 0)
<1>3. Due(0) /\ 0 \in Nat
  OBVIOUS
<1>4. /\ \A k \in Nat : Due(k) => Began(StartStore(s, o, 0), s, o, k)
      /\ \A k \in Nat : Due(k) => Began(StartValue(s, o, 0), s, o, k)
      /\ \A k \in Nat : Due(k) => Began(StartNode(s, o), s, o, k)
      /\ \A k \in Nat : Due(k) => Began(StartSkad(s, o, "value", 0), s, o, k)
      /\ s.call[o].kind = "skad_node" =>
            \A k \in Nat : Due(k) => Began(StartSkad(s, o, "node", 0), s, o, k)
  <2>1. 0 \in Keys
    BY LookupAssumption DEF Keys
  <2>2. \A k \in Nat : Due(k) => Began(StartStore(s, o, 0), s, o, k)
    BY <2>1, StoreBegins
  <2> QED
    BY <2>2, ValueBegins, NodeBegins, SkadBegins
<1>5. /\ Began(StartStore(s, o, 0), s, o, 0) /\ Began(StartValue(s, o, 0), s, o, 0)
      /\ Began(StartNode(s, o), s, o, 0) /\ Began(StartSkad(s, o, "value", 0), s, o, 0)
      /\ s.call[o].kind = "skad_node" => Began(StartSkad(s, o, "node", 0), s, o, 0)
  <2> HIDE DEF Due
  <2> QED
    BY <1>3, <1>4
<1>6. CASE s.call[o].kind = "store"
  BY <1>2, <1>5, <1>6 DEF Begin
<1>7. CASE s.call[o].kind = "value"
  BY <1>2, <1>5, <1>7 DEF Begin
<1>8. CASE s.call[o].kind = "node"
  BY <1>2, <1>5, <1>8 DEF Begin
<1>9. CASE s.call[o].kind = "skad_value"
  BY <1>2, <1>5, <1>9 DEF Begin
<1>10. CASE s.call[o].kind = "skad_node"
  BY <1>2, <1>5, <1>10 DEF Begin
<1>11. CASE s.call[o].kind = "stores"
  <2>1. Begin(s, o) = StartReplicas(s, o, FALSE)
    BY <1>11 DEF Begin
  <2> QED
    BY <1>11, <2>1, ReplicasBegin
<1>12. CASE s.call[o].kind = "values"
  <2>1. Begin(s, o) = StartReplicas(s, o, TRUE)
    BY <1>12 DEF Begin
  <2> QED
    BY <1>12, <2>1, ReplicasBegin
<1>13. CASE s.call[o].kind = "private"
  <2>1. Begin(s, o) = StartPrivate(s, o)
    BY <1>13 DEF Begin
  <2> QED
    BY <1>13, <2>1, PrivateBegins
<1> QED
  BY <1>6, <1>7, <1>8, <1>9, <1>10, <1>11, <1>12, <1>13 DEF Kinds

\* An RPC belongs to a call, and to a lookup of that call or to none.
Belongs(s, R, o, g) ==
    /\ R \in RpcRecords /\ o \in Callers /\ g \in GroupSlots \cup {0} /\ R.owner = Owner(o, g)
    /\ Owing(s, o, 0, 0, 0)
    /\ g # 0 => /\ g \in GroupSlots /\ s.group[g] \in GroupRecords /\ s.group[g].op = o
                /\ s.group[g].active
                /\ ForValue(s, g) => /\ R.kind = "value" /\ R.asked \subseteq R.queried
                                     /\ R.queried \subseteq s.group[g].global
\* So does every RPC that waits, when nothing is owed.
LEMMA RpcKnown ==
    ASSUME NEW s, NEW p, Owing(s, p, 0, 0, 0), NEW i \in Slots, s.rpc[i].active,
           NEW R, R = s.rpc[i], NEW o, o = R.owner.op, NEW g, g = R.owner.group
    PROVE  Belongs(s, R, o, g)
<1>1. s \in States /\ OwnersOK(s) /\ GroupsOK(s, 0, 0) /\ CallsOK(s, p, 0)
  BY DEF Owing
<1>2. R \in RpcRecords
  BY <1>1, StateFields
<1>3. o \in Callers /\ g \in GroupSlots \cup {0} /\ R.owner = Owner(o, g)
  <2>1. R.owner \in [op : Callers, group : GroupSlots \cup {0}]
    BY <1>2 DEF RpcRecords
  <2> QED
    BY <2>1 DEF Owner
<1>4. Owing(s, o, 0, 0, 0)
  <2>1. CallsOK(s, o, 0)
    BY <1>1 DEF CallsOK
  <2> QED
    BY <1>1, <2>1 DEF Owing
<1>5. ASSUME g # 0
      PROVE  /\ g \in GroupSlots /\ s.group[g] \in GroupRecords /\ s.group[g].op = o
             /\ s.group[g].active
             /\ ForValue(s, g) => /\ R.kind = "value" /\ R.asked \subseteq R.queried
                                  /\ R.queried \subseteq s.group[g].global
  <2>1. g \in GroupSlots /\ s.group[g].active /\ s.group[g].op = o
    BY <1>1, <1>3, <1>5 DEF OwnersOK
  <2>2. s.group[g] \in GroupRecords
    BY <1>1, <2>1, StateFields
  <2>3. ASSUME ForValue(s, g)
        PROVE  R.kind = "value" /\ R.asked \subseteq R.queried /\ R.queried \subseteq s.group[g].global
    <3>1. PathsApart(s, g)
      BY <1>1, <2>1, <2>3 DEF GroupsOK
    <3>2. i \in PathsOf(s, g)
      BY DEF PathsOf
    <3> QED
      BY <3>1, <3>2 DEF PathsApart, ValuePath
  <2> QED
    BY <2>1, <2>2, <2>3
<1> QED
  BY <1>2, <1>3, <1>4, <1>5 DEF Belongs

\* The steps of an RPC, as changes of its record.
Acked(R, n) == [R EXCEPT !.asked = @ \ {n}, !.acks = @ + 1]
HeardFrom(R, n) == [R EXCEPT !.asked = @ \ {n}]
Asks(R, n, more) == [R EXCEPT !.asked = (@ \ {n}) \cup more, !.queried = @ \cup more]

\* What changes in the record when a node answers.
LEMMA RecordsGrow ==
    ASSUME NEW R \in RpcRecords, NEW n
    PROVE  /\ Acked(R, n) \in RpcRecords /\ Acked(R, n).kind = R.kind /\ Acked(R, n).owner = R.owner
           /\ Acked(R, n).active = R.active /\ Acked(R, n) = [HeardFrom(R, n) EXCEPT !.acks = @ + 1]
           /\ HeardFrom(R, n) \in RpcRecords /\ HeardFrom(R, n).kind = R.kind
           /\ HeardFrom(R, n).owner = R.owner /\ HeardFrom(R, n).queried = R.queried
           /\ HeardFrom(R, n).asked = R.asked \ {n} /\ HeardFrom(R, n).active = R.active
<1>1. /\ Acked(R, n) \in RpcRecords /\ Acked(R, n).kind = R.kind /\ Acked(R, n).owner = R.owner
      /\ Acked(R, n).active = R.active
  <2>1. R.acks + 1 \in Nat /\ R.asked \ {n} \in SUBSET Nodes
    BY DEF RpcRecords
  <2> QED
    BY <2>1 DEF RpcRecords, Acked
<1>2. /\ HeardFrom(R, n) \in RpcRecords /\ HeardFrom(R, n).kind = R.kind
      /\ HeardFrom(R, n).owner = R.owner /\ HeardFrom(R, n).queried = R.queried
      /\ HeardFrom(R, n).asked = R.asked \ {n} /\ HeardFrom(R, n).active = R.active
  BY DEF RpcRecords, HeardFrom
<1>3. Acked(R, n) = [HeardFrom(R, n) EXCEPT !.acks = @ + 1]
  BY DEF RpcRecords, HeardFrom, Acked
<1> QED
  BY <1>1, <1>2, <1>3

\* What changes in the record when more nodes are asked.
LEMMA AsksGrow ==
    ASSUME NEW R \in RpcRecords, NEW n, NEW more \in SUBSET Nodes
    PROVE  /\ Asks(R, n, more) \in RpcRecords /\ Asks(R, n, more).kind = R.kind
           /\ Asks(R, n, more).owner = R.owner /\ Asks(R, n, more).queried = R.queried \cup more
           /\ Asks(R, n, more).asked = (R.asked \ {n}) \cup more /\ Asks(R, n, more).active = R.active
BY DEF RpcRecords, Asks

\* RPC i goes on with record Q, and its lookup as it was.
LEMMA RpcGoesOn ==
    ASSUME NEW s, NEW p, Owing(s, p, 0, 0, 0), NEW i \in Slots, s.rpc[i].active,
           NEW o, o = s.rpc[i].owner.op,
           NEW Q \in RpcRecords, Q.kind = s.rpc[i].kind, Q.owner = s.rpc[i].owner,
           Q.kind = "value" => Q.queried = s.rpc[i].queried /\ Q.asked \subseteq s.rpc[i].asked,
           NEW t \in States, t.rpc = [s.rpc EXCEPT ![i] = Q], t.call = s.call, t.group = s.group
    PROVE  Owing(t, o, 0, 0, 0) /\ o \in Callers
<1> DEFINE R == s.rpc[i]
           g == R.owner.group
<1>1. /\ R \in RpcRecords /\ o \in Callers /\ g \in GroupSlots \cup {0} /\ R.owner = Owner(o, g)
      /\ Owing(s, o, 0, 0, 0)
      /\ g # 0 => /\ g \in GroupSlots /\ s.group[g] \in GroupRecords /\ s.group[g].op = o
                  /\ s.group[g].active
                  /\ ForValue(s, g) => /\ R.kind = "value" /\ R.asked \subseteq R.queried
                                       /\ R.queried \subseteq s.group[g].global
  <2>1. Belongs(s, R, o, g)
    BY RpcKnown
  <2> HIDE DEF g, R
  <2> QED
    BY <2>1 DEF Belongs
<1> DEFINE H == s.group[g]
<1>2. g # 0 => Widened(s.group[g], H) /\ (ForValue(s, g) => MayGrow(R, Q, s.group[g], H))
  <2> SUFFICES ASSUME g # 0 PROVE Widened(s.group[g], H) /\ (ForValue(s, g) => MayGrow(R, Q, s.group[g], H))
    OBVIOUS
  <2>1. Widened(H, H)
    BY <1>1 DEF Widened
  <2>2. ForValue(s, g) => MayGrow(R, Q, H, H)
    BY <1>1 DEF MayGrow
  <2> QED
    BY <2>1, <2>2
<1>3. t.group = IF g = 0 THEN s.group ELSE [s.group EXCEPT ![g] = H]
  <2>1. s.group = [s.group EXCEPT ![g] = H]
    <3>1. s.group \in [GroupSlots -> GroupRecords \cup {Idle}]
      BY <1>1 DEF Owing, States
    <3> QED
      BY <3>1
  <2> QED
    BY <2>1
<1> HIDE DEF g, H
<1>4. Owing(t, o, 0, 0, 0)
  <2>1. s.rpc[i].owner = Owner(o, g)
    BY <1>1
  <2>2. g # 0 => Widened(s.group[g], H) /\ (ForValue(s, g) => MayGrow(s.rpc[i], Q, s.group[g], H))
    BY <1>2
  <2> HIDE DEF R
  <2> QED
    BY <1>1, <1>3, <2>1, <2>2, RpcGrows
<1> QED
  BY <1>1, <1>4

\* The invariant between steps: nothing is owed.
Steady == 
    /\ State \in States /\ Quiet(State)
    /\ \A o \in Callers : Owing(State, o, 0, 0, 0)

\* What was shown for one call holds for all of them.
LEMMA AllSteady ==
    ASSUME NEW t, NEW o \in Callers, Owing(t, o, 0, 0, 0)
    PROVE  \A p \in Callers : Owing(t, p, 0, 0, 0)
<1>1. t \in States /\ OwnersOK(t) /\ GroupsOK(t, 0, 0) /\ CallsOK(t, o, 0)
  BY DEF Owing
<1>2. \A p \in Callers : CallsOK(t, p, 0)
  BY <1>1 DEF CallsOK
<1> QED
  BY <1>1, <1>2 DEF Owing

\* A step that leads to such a state.
LEMMA SteadyStep ==
    ASSUME NEW t, NEW o \in Callers, Owing(t, o, 0, 0, 0), Quiet(t), Becomes(t)
    PROVE  Steady'
<1>1. t \in States
  BY DEF Owing
<1>2. rpcs' = t.rpc /\ groups' = t.group /\ calls' = t.call /\ known' = t.known /\ held' = t.held
  BY DEF Becomes
<1>3. t = [rpc |-> t.rpc, group |-> t.group, call |-> t.call, known |-> t.known, held |-> t.held]
  BY <1>1 DEF States
<1>4. State' = t
  BY <1>2, <1>3 DEF State
<1>5. \A p \in Callers : Owing(State', p, 0, 0, 0)
  BY <1>4, AllSteady
<1> QED
  BY <1>1, <1>4, <1>5 DEF Steady

\* RPC i of a state has another record.
WithRpc(s, i, Q) == [s EXCEPT !.rpc = [s.rpc EXCEPT ![i] = Q]]
\* The rest of the state stays as it is.
LEMMA WithRpcIs ==
    ASSUME NEW s \in States, NEW i \in Slots, NEW Q \in RpcRecords, NEW t, t = WithRpc(s, i, Q)
    PROVE  /\ t \in States /\ t.rpc = [s.rpc EXCEPT ![i] = Q] /\ t.rpc[i] = Q /\ t.group = s.group
           /\ t.call = s.call /\ t.known = s.known /\ t.held = s.held
<1> DEFINE x == [s.rpc EXCEPT ![i] = Q]
<1>1. x \in [Slots -> RpcRecords \cup {Idle}] /\ x[i] = Q
  BY DEF States
<1>2. t = [s EXCEPT !.rpc = x]
  BY DEF WithRpc
<1> HIDE DEF x
<1>3. /\ t \in States /\ t.rpc = x /\ t.group = s.group /\ t.call = s.call
      /\ t.known = s.known /\ t.held = s.held
  BY <1>1, <1>2, WithRpcs
<1> QED
  BY <1>1, <1>3 DEF x

\* The record of RPC i is replaced twice.
LEMMA WithRpcTwice ==
    ASSUME NEW s \in States, NEW i \in Slots, NEW P \in RpcRecords, NEW Q \in RpcRecords
    PROVE  WithRpc(WithRpc(s, i, P), i, Q) = WithRpc(s, i, Q)
BY DEF States, WithRpc

\* A response comes in.
LEMMA HeardIs ==
    ASSUME State \in States, NEW i \in Slots, NEW n, rpcs[i] \in RpcRecords
    PROVE  /\ Heard(i, n) = WithRpc(State, i, HeardFrom(rpcs[i], n))
           /\ Heard(i, n) \in States /\ Heard(i, n).rpc[i] = HeardFrom(rpcs[i], n)
           /\ Heard(i, n).rpc = [rpcs EXCEPT ![i] = HeardFrom(rpcs[i], n)]
           /\ Heard(i, n).group = groups /\ Heard(i, n).call = calls /\ Heard(i, n).known = known
           /\ Heard(i, n).held = held
<1>1. /\ State.rpc = rpcs /\ State.group = groups /\ State.call = calls /\ State.known = known
      /\ State.held = held
  BY DEF State
<1>2. Heard(i, n) = WithRpc(State, i, HeardFrom(rpcs[i], n))
  BY <1>1 DEF Heard, WithRpc, HeardFrom
<1>3. HeardFrom(rpcs[i], n) \in RpcRecords
  BY RecordsGrow
<1> QED
  BY <1>1, <1>2, <1>3, WithRpcIs

\* An RPC of a state of the system.
LEMMA SteadyRpc ==
    ASSUME Steady, NEW i \in Slots, rpcs[i].active, NEW s, s = State
    PROVE  /\ s \in States /\ s.rpc = rpcs /\ s.group = groups /\ s.known = known
           /\ s.call = calls /\ s.held = held
           /\ rpcs[i].owner.op \in Callers /\ Owing(s, rpcs[i].owner.op, 0, 0, 0)
           /\ Belongs(s, rpcs[i], rpcs[i].owner.op, rpcs[i].owner.group) /\ Quiet(s)
<1>1. s \in States /\ s.rpc = rpcs /\ s.group = groups /\ s.known = known /\ s.call = calls /\ s.held = held
  BY DEF Steady, State
<1>2. rpcs[i] \in RpcRecords
  BY <1>1, StateFields
<1>3. rpcs[i].owner.op \in Callers
  BY <1>2 DEF RpcRecords
<1>4. Owing(s, rpcs[i].owner.op, 0, 0, 0)
  BY <1>3 DEF Steady
<1>5. Belongs(s, rpcs[i], rpcs[i].owner.op, rpcs[i].owner.group)
  BY <1>1, <1>4, RpcKnown
<1>6. Quiet(s)
  BY DEF Steady
<1> QED
  BY <1>1, <1>3, <1>4, <1>5, <1>6

\* What Done, or a value, from one node is.
LEMMA FoundResult ==
    ASSUME NEW n \in Nodes, NEW v, v = Done \/ v = Stored[n], NEW r, r = Result(v, {n})
    PROVE  r \in Results /\ ~r.agreed /\ r.givers = {n}
<1>1. v \in Values
  BY DEF Values
<1> QED
  BY <1>1 DEF Result, Results

\* Nothing, and Done from no node in particular, are results that no paths agreed on.
LEMMA PlainResults ==
    /\ Nothing \in Results /\ ~Nothing.agreed /\ ~Good(Nothing)
    /\ Result(Done, {}) \in Results /\ ~Result(Done, {}).agreed
<1>1. ~Nothing.agreed /\ ~Result(Done, {}).agreed
  BY DEF Nothing, Result
<1> QED
  BY <1>1, SomeResults

\* dht_rpc_timeout.
LEMMA TimeoutSteps == ASSUME Steady, NEW i \in Slots, Timeout(i) PROVE Steady'
<1> DEFINE s == State
           o == rpcs[i].owner.op
           r == IF rpcs[i].kind = "store" /\ rpcs[i].acks > 0 THEN Result(Done, {}) ELSE Nothing
           t == EndRpc(s, i, r)
<1>1. rpcs[i].active /\ Becomes(t)
  BY DEF Timeout
<1>2. /\ s \in States /\ s.rpc = rpcs /\ o \in Callers /\ Owing(s, o, 0, 0, 0)
      /\ Belongs(s, rpcs[i], o, rpcs[i].owner.group) /\ Quiet(s)
  BY <1>1, SteadyRpc
<1>3. r \in Results /\ ~r.agreed
  BY PlainResults
<1>4. FromPath(s, i, r)
  <2> SUFFICES ASSUME Good(r), s.rpc[i].owner.group # 0, ForValue(s, s.rpc[i].owner.group)
               PROVE  FALSE
    BY DEF FromPath
  <2>1. rpcs[i].kind = "value"
    BY <1>2 DEF Belongs
  <2> QED
    BY <2>1, PlainResults
<1> HIDE DEF s, r
<1>5. Owing(t, o, 0, 0, 0) /\ Quiet(t)
  BY <1>1, <1>2, <1>3, <1>4, EndOK, QuietSame
<1> HIDE DEF t
<1> QED
  BY <1>1, <1>2, <1>5, SteadyStep

\* RPC i goes on, or ends with result r.
LEMMA GoesOnOrEnds ==
    ASSUME NEW u, NEW o \in Callers, Owing(u, o, 0, 0, 0), NEW i \in Slots, u.rpc[i].active,
           u.rpc[i].owner.op = o, NEW r \in Results, ~r.agreed, FromPath(u, i, r), Quiet(u), NEW ends \in BOOLEAN,
           Becomes(IF ends THEN EndRpc(u, i, r) ELSE u)
    PROVE  Steady'
<1>1. CASE ends
  <2>1. Owing(EndRpc(u, i, r), o, 0, 0, 0) /\ Quiet(EndRpc(u, i, r))
    BY EndOK, QuietSame
  <2>2. Becomes(EndRpc(u, i, r))
    BY <1>1
  <2> QED
    BY <2>1, <2>2, SteadyStep
<1>2. CASE ~ends
  <2>1. Becomes(u)
    BY <1>2
  <2> QED
    BY <2>1, SteadyStep
<1> QED
  BY <1>1, <1>2

\* dht_handle_store_ack.
LEMMA StoreAckSteps == ASSUME Steady, NEW i \in Slots, NEW n \in Nodes, StoreAck(i, n) PROVE Steady'
<1> DEFINE s == State
           R == rpcs[i]
           o == R.owner.op
           u == [Heard(i, n) EXCEPT !.rpc[i].acks = @ + 1]
           r == Result(Done, {n})
           Q == Acked(R, n)
<1>1. R.active /\ R.kind = "store" /\ Becomes(IF u.rpc[i].acks >= u.rpc[i].needed THEN EndRpc(u, i, r) ELSE u)
  BY DEF StoreAck, Waiting
<1>2. /\ s \in States /\ s.rpc = rpcs /\ o \in Callers /\ Owing(s, o, 0, 0, 0)
      /\ Belongs(s, R, o, R.owner.group) /\ Quiet(s)
  BY <1>1, SteadyRpc
<1>3. Q \in RpcRecords /\ Q.kind = R.kind /\ Q.owner = R.owner /\ Q.active = R.active
  BY <1>2, RecordsGrow DEF Belongs
<1>4. u = WithRpc(s, i, Q)
  <2> DEFINE h == Heard(i, n)
             P == HeardFrom(R, n)
  <2>1. R \in RpcRecords
    BY <1>2 DEF Belongs
  <2>2. h = WithRpc(s, i, P) /\ h.rpc[i] = P /\ h \in States
    BY <1>2, <2>1, HeardIs
  <2>3. P \in RpcRecords /\ Q = [P EXCEPT !.acks = @ + 1]
    BY <2>1, RecordsGrow
  <2> HIDE DEF h, P, Q
  <2>4. u = WithRpc(h, i, Q)
    BY <2>2, <2>3 DEF WithRpc, h
  <2>5. WithRpc(WithRpc(s, i, P), i, Q) = WithRpc(s, i, Q)
    BY <1>2, <1>3, <2>3, WithRpcTwice
  <2> QED
    BY <2>2, <2>4, <2>5
<1> HIDE DEF s, u, Q
<1>5. u \in States /\ u.rpc = [s.rpc EXCEPT ![i] = Q] /\ u.rpc[i] = Q /\ u.group = s.group /\ u.call = s.call
  BY <1>2, <1>3, <1>4, WithRpcIs
<1>6. Owing(u, o, 0, 0, 0)
  <2>1. Q.kind # "value"
    BY <1>1, <1>3
  <2>2. s.rpc[i] = R
    BY <1>2
  <2> QED
    BY <1>1, <1>2, <1>3, <1>5, <2>1, <2>2, RpcGoesOn
<1>7. r \in Results /\ ~r.agreed
  BY FoundResult
<1>8. FromPath(u, i, r)
  <2> SUFFICES ASSUME R.owner.group # 0, ForValue(u, R.owner.group) PROVE FALSE
    BY <1>3, <1>5 DEF FromPath
  <2>1. ForValue(s, R.owner.group)
    BY <1>5 DEF ForValue
  <2>2. R.kind = "value"
    BY <1>2, <2>1 DEF Belongs
  <2> QED
    BY <1>1, <2>2
<1> HIDE DEF r
<1>9. u.rpc[i].active /\ u.rpc[i].owner.op = o /\ Quiet(u)
  BY <1>1, <1>2, <1>3, <1>5 DEF Quiet
<1> DEFINE ends == u.rpc[i].acks >= u.rpc[i].needed
<1>10. Becomes(IF ends THEN EndRpc(u, i, r) ELSE u) /\ ends \in BOOLEAN
  BY <1>1
<1> HIDE DEF ends
<1> QED
  BY <1>2, <1>6, <1>7, <1>8, <1>9, <1>10, GoesOnOrEnds

\* dht_handle_find_value_response with a value.
LEMMA ValueFoundSteps == ASSUME Steady, NEW i \in Slots, NEW n \in Nodes, ValueFound(i, n) PROVE Steady'
<1> DEFINE s == State
           R == rpcs[i]
           o == R.owner.op
           g == R.owner.group
           u == Heard(i, n)
           r == Result(Stored[n], {n})
           Q == HeardFrom(R, n)
<1>1. R.active /\ R.kind = "value" /\ n \in R.asked /\ Becomes(EndRpc(u, i, r))
  BY DEF ValueFound, Waiting
<1>2. /\ s \in States /\ s.rpc = rpcs /\ s.group = groups /\ s.call = calls
      /\ o \in Callers /\ Owing(s, o, 0, 0, 0) /\ Belongs(s, R, o, g) /\ Quiet(s)
  BY <1>1, SteadyRpc
<1>3. R \in RpcRecords
  BY <1>2 DEF Belongs
<1>4. /\ Q \in RpcRecords /\ Q.kind = R.kind /\ Q.owner = R.owner /\ Q.active = R.active
      /\ Q.queried = R.queried /\ Q.asked \subseteq R.asked
  BY <1>3, RecordsGrow
<1>5. u \in States /\ u.rpc = [s.rpc EXCEPT ![i] = Q] /\ u.rpc[i] = Q /\ u.group = s.group /\ u.call = s.call
  BY <1>2, <1>3, HeardIs
<1> HIDE DEF s, u, Q
<1>6. Owing(u, o, 0, 0, 0)
  <2>1. s.rpc[i] = R
    BY <1>2
  <2> QED
    BY <1>1, <1>2, <1>4, <1>5, <2>1, RpcGoesOn
<1>7. r \in Results /\ ~r.agreed /\ r.givers = {n}
  BY FoundResult
<1> HIDE DEF r
<1>8. FromPath(u, i, r)
  <2> SUFFICES ASSUME g # 0, ForValue(u, g) PROVE \E q \in Q.queried : r.givers = {q}
    BY <1>4, <1>5 DEF FromPath
  <2>1. ForValue(s, g)
    BY <1>5 DEF ForValue
  <2>2. n \in R.queried
    BY <1>1, <1>2, <2>1 DEF Belongs
  <2> QED
    BY <1>4, <1>7, <2>2
<1>9. u.rpc[i].active /\ u.rpc[i].owner.op = o /\ Quiet(u)
  BY <1>1, <1>2, <1>4, <1>5 DEF Quiet
<1>10. Owing(EndRpc(u, i, r), o, 0, 0, 0) /\ Quiet(EndRpc(u, i, r))
  BY <1>2, <1>6, <1>7, <1>8, <1>9, EndOK, QuietSame
<1> QED
  BY <1>1, <1>2, <1>10, SteadyStep

\* A response names more nodes, which are asked.
AsksOn(i, n, k, more) ==
    [Heard(i, n) EXCEPT !.known = k, !.rpc[i].queried = @ \cup more, !.rpc[i].asked = @ \cup more]

\* The record of that RPC changes, and the routing table.
LEMMA AsksOnIs ==
    ASSUME State \in States, NEW i \in Slots, NEW n, rpcs[i] \in RpcRecords, NEW k \in SUBSET Nodes,
           NEW more \in SUBSET Nodes, NEW u, u = AsksOn(i, n, k, more)
    PROVE  /\ u \in States /\ u.rpc = [rpcs EXCEPT ![i] = Asks(rpcs[i], n, more)]
           /\ u.rpc[i] = Asks(rpcs[i], n, more) /\ u.group = groups /\ u.call = calls
<1> DEFINE h == Heard(i, n)
           P == HeardFrom(rpcs[i], n)
           Q == Asks(rpcs[i], n, more)
           v == WithRpc(State, i, Q)
<1>1. h = WithRpc(State, i, P) /\ h.rpc[i] = P /\ h \in States
  BY HeardIs
<1>2. P \in RpcRecords /\ Q \in RpcRecords
  BY RecordsGrow, AsksGrow
<1>3. Q = [P EXCEPT !.queried = @ \cup more, !.asked = @ \cup more]
  BY DEF RpcRecords, HeardFrom, Asks
<1> HIDE DEF P, Q
<1>4. /\ v \in States /\ v.rpc = [State.rpc EXCEPT ![i] = Q] /\ v.rpc[i] = Q /\ v.group = State.group
      /\ v.call = State.call
  BY <1>2, WithRpcIs
<1>5. v = WithRpc(h, i, Q)
  BY <1>1, <1>2, WithRpcTwice
<1> HIDE DEF h, v
<1>6. u = [v EXCEPT !.known = k]
  <2>1. u = [h EXCEPT !.known = k,
                      !.rpc = [h.rpc EXCEPT ![i] = [h.rpc[i] EXCEPT !.queried = @ \cup more, !.asked = @ \cup more]]]
    BY <1>1 DEF AsksOn, States, h
  <2>2. u = [h EXCEPT !.known = k, !.rpc = [h.rpc EXCEPT ![i] = Q]]
    BY <1>1, <1>3, <2>1
  <2> QED
    BY <1>1, <1>5, <2>2 DEF WithRpc, States
<1>7. u \in States /\ u.rpc = v.rpc /\ u.group = v.group /\ u.call = v.call
  BY <1>4, <1>6 DEF States
<1> QED
  BY <1>4, <1>7 DEF State, Q

\* dht_handle_find_node_response.
LEMMA NodesFoundSteps == ASSUME Steady, NEW i \in Slots, NEW n \in Nodes, NodesFound(i, n) PROVE Steady'
<1> DEFINE s == State
           R == rpcs[i]
           o == R.owner.op
           g == R.owner.group
           k == known \cup Closest(Links[n], Near)
           more == Closest(Closest(k, Near) \ rpcs[i].queried, Alpha)
           u == AsksOn(i, n, k, more)
           r == Result(Closest(k, Near), {n})
           Q == Asks(R, n, more)
<1>1. R.active /\ R.kind = "node" /\ Becomes(IF u.rpc[i].asked = {} THEN EndRpc(u, i, r) ELSE u)
  BY DEF NodesFound, Waiting, AsksOn
<1>2. /\ s \in States /\ s.rpc = rpcs /\ s.group = groups /\ s.call = calls /\ s.known = known
      /\ o \in Callers /\ Owing(s, o, 0, 0, 0) /\ Belongs(s, R, o, g) /\ Quiet(s)
  BY <1>1, SteadyRpc
<1>3. R \in RpcRecords
  BY <1>2 DEF Belongs
<1>4. k \in SUBSET Nodes /\ more \in SUBSET Nodes /\ Closest(k, Near) \in SUBSET Nodes
  <2>1. Links[n] \in SUBSET Nodes
    BY LookupAssumption
  <2>2. known \in SUBSET Nodes
    BY <1>2, StateFields
  <2>3. k \in SUBSET Nodes
    BY <2>1, <2>2, ClosestAre
  <2> HIDE DEF k
  <2>4. Closest(k, Near) \in SUBSET Nodes
    BY <2>3, ClosestAre
  <2>5. Closest(k, Near) \ rpcs[i].queried \in SUBSET Nodes
    BY <2>4
  <2> QED
    BY <2>3, <2>4, <2>5, ClosestAre
<1> HIDE DEF k, more
<1>5. Q \in RpcRecords /\ Q.kind = R.kind /\ Q.owner = R.owner /\ Q.active = R.active
  BY <1>3, <1>4, AsksGrow
<1>6. u \in States /\ u.rpc = [s.rpc EXCEPT ![i] = Q] /\ u.rpc[i] = Q /\ u.group = s.group /\ u.call = s.call
  BY <1>2, <1>3, <1>4, AsksOnIs
<1> HIDE DEF s, u, Q
<1>7. Owing(u, o, 0, 0, 0)
  <2>1. Q.kind # "value" /\ s.rpc[i] = R
    BY <1>1, <1>2, <1>5
  <2> QED
    BY <1>1, <1>2, <1>5, <1>6, <2>1, RpcGoesOn
<1>8. r \in Results /\ ~r.agreed
  <2>1. {n} \in SUBSET Nodes
    OBVIOUS
  <2> QED
    BY <1>4, <2>1, NodesResult
<1> HIDE DEF r
<1>9. FromPath(u, i, r)
  <2> SUFFICES ASSUME g # 0, ForValue(u, g) PROVE FALSE
    BY <1>5, <1>6 DEF FromPath
  <2>1. ForValue(s, g)
    BY <1>6 DEF ForValue
  <2>2. R.kind = "value"
    BY <1>2, <2>1 DEF Belongs
  <2> QED
    BY <1>1, <2>2
<1>10. u.rpc[i].active /\ u.rpc[i].owner.op = o /\ Quiet(u)
  BY <1>1, <1>2, <1>5, <1>6 DEF Quiet
<1> DEFINE ends == u.rpc[i].asked = {}
<1>11. Becomes(IF ends THEN EndRpc(u, i, r) ELSE u) /\ ends \in BOOLEAN
  BY <1>1
<1> HIDE DEF ends
<1> QED
  BY <1>2, <1>7, <1>8, <1>9, <1>10, <1>11, GoesOnOrEnds

\* A lookup remembers which nodes its paths asked.
Wider(G, more) == [G EXCEPT !.global = @ \cup more]

\* dht_handle_find_value_response with closer peers.
LEMMA ValueNotFoundSteps ==
    ASSUME Steady, NEW i \in Slots, NEW n \in Nodes, ValueNotFound(i, n) PROVE Steady'
<1> DEFINE s == State
           R == rpcs[i]
           o == R.owner.op
           g == R.owner.group
           more == Closest(Fresh(i, Closest(Links[n], Near)), Alpha)
           h == AsksOn(i, n, known \cup more, more)
           u == IF g = 0 THEN h ELSE [h EXCEPT !.group[g].global = @ \cup more]
           Q == Asks(R, n, more)
           H == Wider(groups[g], more)
<1>1. R.active /\ R.kind = "value"
  BY DEF ValueNotFound, Waiting
<1>2. /\ s \in States /\ s.rpc = rpcs /\ s.group = groups /\ s.call = calls /\ s.known = known
      /\ o \in Callers /\ Owing(s, o, 0, 0, 0) /\ Belongs(s, R, o, g) /\ Quiet(s)
  BY <1>1, SteadyRpc
<1>3. R \in RpcRecords
  BY <1>2 DEF Belongs
<1>4. Becomes(IF u.rpc[i].asked = {} THEN EndRpc(u, i, Nothing) ELSE u)
  <2>1. Heard(i, n).known = known
    BY <1>2, <1>3, HeardIs
  <2>2. h = [Heard(i, n) EXCEPT !.known = @ \cup more,
                    !.rpc[i].queried = @ \cup more, !.rpc[i].asked = @ \cup more]
    BY <2>1 DEF AsksOn
  <2> QED
    BY <2>2 DEF ValueNotFound
<1>5. /\ more \in SUBSET Nodes /\ known \cup more \in SUBSET Nodes
      /\ g # 0 => more \cap groups[g].global = {}
  <2>1. Links[n] \in SUBSET Nodes
    BY LookupAssumption
  <2>2. known \in SUBSET Nodes
    BY <1>2, StateFields
  <2> DEFINE ps == Fresh(i, Closest(Links[n], Near))
  <2>3. ps \in SUBSET Nodes /\ (g # 0 => ps \cap groups[g].global = {})
    BY <2>1, ClosestAre DEF Fresh
  <2> HIDE DEF ps
  <2>4. more \subseteq ps
    <3>1. more = Closest(ps, Alpha)
      BY DEF ps
    <3> HIDE DEF more
    <3> QED
      BY <3>1 DEF Closest
  <2> HIDE DEF more
  <2> QED
    BY <2>2, <2>3, <2>4
<1> HIDE DEF more
<1>6. /\ Q \in RpcRecords /\ Q.kind = R.kind /\ Q.owner = R.owner /\ Q.active = R.active
      /\ Q.queried = R.queried \cup more /\ Q.asked = (R.asked \ {n}) \cup more
  BY <1>3, <1>5, AsksGrow
<1>7. h \in States /\ h.rpc = [s.rpc EXCEPT ![i] = Q] /\ h.rpc[i] = Q /\ h.group = s.group /\ h.call = s.call
  BY <1>2, <1>3, <1>5, AsksOnIs
<1> HIDE DEF s, h, Q
<1>8. g \in GroupSlots \cup {0} /\ R.owner = Owner(o, g)
  BY <1>2 DEF Belongs
<1>9. ASSUME g # 0
      PROVE  /\ g \in GroupSlots /\ s.group[g] \in GroupRecords /\ s.group[g] = groups[g]
             /\ ForValue(s, g) => R.asked \subseteq R.queried /\ R.queried \subseteq s.group[g].global
  BY <1>2, <1>9 DEF Belongs
<1>10. ASSUME g # 0
       PROVE  /\ H \in GroupRecords /\ Widened(s.group[g], H) /\ H.global = s.group[g].global \cup more
  <2>1. groups[g] \in GroupRecords
    BY <1>9, <1>10
  <2>2. /\ H \in GroupRecords /\ H.op = groups[g].op /\ H.results = groups[g].results
        /\ H.global = groups[g].global \cup more
    BY <1>5, <2>1 DEF GroupRecords, Wider
  <2> HIDE DEF H
  <2> QED
    BY <1>9, <1>10, <2>2 DEF Widened
<1>11. g # 0 /\ ForValue(s, g) => MayGrow(s.rpc[i], Q, s.group[g], H)
  <2> SUFFICES ASSUME g # 0, ForValue(s, g) PROVE MayGrow(s.rpc[i], Q, s.group[g], H)
    OBVIOUS
  <2>1. R.asked \subseteq R.queried /\ s.group[g] = groups[g]
    BY <1>9
  <2>2. H.global = s.group[g].global \cup more
    BY <1>10
  <2>3. Q.asked \subseteq Q.queried
    BY <1>6, <2>1
  <2>4. Q.queried \subseteq R.queried \cup H.global
    BY <1>6, <2>2
  <2>5. (Q.queried \ R.queried) \cap s.group[g].global = {}
    BY <1>5, <1>6, <2>1
  <2>6. s.rpc[i] = R
    BY <1>2
  <2> QED
    BY <1>6, <2>3, <2>4, <2>5, <2>6 DEF MayGrow
<1>12. /\ u \in States /\ u.rpc = [s.rpc EXCEPT ![i] = Q] /\ u.rpc[i] = Q /\ u.call = s.call
       /\ u.group = IF g = 0 THEN s.group ELSE [s.group EXCEPT ![g] = H]
  <2>1. CASE g = 0
    BY <1>7, <2>1
  <2>2. CASE g # 0
    <3> DEFINE x == [h.group EXCEPT ![g] = H]
    <3>1. h.group[g] = groups[g]
      BY <1>2, <1>7
    <3>2. u = [h EXCEPT !.group = x]
      BY <2>2, <3>1 DEF Wider
    <3>3. x \in [GroupSlots -> GroupRecords \cup {Idle}]
      <4>1. H \in GroupRecords
        BY <1>10, <2>2
      <4>2. h.group \in [GroupSlots -> GroupRecords \cup {Idle}]
        BY <1>7 DEF States
      <4> HIDE DEF H
      <4> QED
        BY <4>1, <4>2
    <3> HIDE DEF x, u
    <3>4. u \in States /\ u.group = x /\ u.rpc = h.rpc /\ u.call = h.call
      BY <1>7, <3>2, <3>3, WithGroups
    <3> QED
      BY <1>7, <2>2, <3>4 DEF x
  <2> QED
    BY <2>1, <2>2
<1> HIDE DEF u, H
<1>13. Owing(u, o, 0, 0, 0)
  <2>1. s.rpc[i].owner = Owner(o, g) /\ s.rpc[i].active /\ Q.owner = s.rpc[i].owner
    BY <1>1, <1>2, <1>6, <1>8
  <2>2. g # 0 => /\ Widened(s.group[g], H)
                 /\ ForValue(s, g) => MayGrow(s.rpc[i], Q, s.group[g], H)
    BY <1>10, <1>11
  <2> HIDE DEF R, o, g
  <2> QED
    BY <1>2, <1>6, <1>8, <1>12, <2>1, <2>2, RpcGrows
<1>14. FromPath(u, i, Nothing)
  BY PlainResults DEF FromPath
<1>15. u.rpc[i].active /\ u.rpc[i].owner.op = o /\ Nothing \in Results /\ ~Nothing.agreed /\ Quiet(u)
  BY <1>1, <1>2, <1>6, <1>12, PlainResults DEF Quiet
<1> DEFINE ends == u.rpc[i].asked = {}
<1>16. Becomes(IF ends THEN EndRpc(u, i, Nothing) ELSE u) /\ ends \in BOOLEAN
  BY <1>4
<1> HIDE DEF ends
<1> QED
  BY <1>2, <1>13, <1>14, <1>15, <1>16, GoesOnOrEnds

\* The start of an operation.
LEMMA StartSteps == ASSUME Steady, NEW o \in Callers, Start(o) PROVE Steady'
<1> DEFINE s == State
           u == [State EXCEPT !.call[o].started = TRUE]
           t == Begin(u, o)
<1>1. ~calls[o].started /\ Becomes(Returned(t, o))
  BY DEF Start, Returned
<1>2. s \in States /\ Owing(s, o, 0, 0, 0) /\ s.call = calls /\ Quiet(s)
  BY DEF Steady, State
<1>3. u = Recorded(s, o, Opened(s.call[o]))
  BY <1>2 DEF States, Recorded, Opened
<1> HIDE DEF s, u
<1>4. Owing(u, o, 1, 0, 0) /\ Untold(u.call[o]) /\ u.call[o].kind \in Kinds /\ Quiet(u)
  <2>1. ~s.call[o].started
    BY <1>1, <1>2
  <2> QED
    BY <1>2, <1>3, <2>1, CallOpens
<1>5. Owing(Returned(t, o), o, 0, 0, 0) /\ Quiet(Returned(t, o))
  BY <1>4, BeginOK DEF Back
<1> HIDE DEF t
<1> QED
  BY <1>1, <1>5, SteadyStep

\* A step that changes nothing.
LEMMA SteadyStutters == ASSUME Steady, UNCHANGED lookupVars PROVE Steady'
<1>1. State' = State
  BY DEF State, lookupVars
<1>2. State' \in States /\ Quiet(State') /\ \A o \in Callers : Owing(State', o, 0, 0, 0)
  BY <1>1 DEF Steady
<1> QED
  BY <1>2 DEF Steady

\* Every step keeps the invariant.
LEMMA SteadyKept == ASSUME Steady, [LookupNext]_lookupVars PROVE Steady'
<1>1. CASE \E o \in Callers : Start(o)
  BY <1>1, StartSteps
<1>2. CASE \E i \in Slots, n \in Nodes :
              StoreAck(i, n) \/ ValueFound(i, n) \/ ValueNotFound(i, n) \/ NodesFound(i, n)
  BY <1>2, StoreAckSteps, ValueFoundSteps, ValueNotFoundSteps, NodesFoundSteps
<1>3. CASE \E i \in Slots : Timeout(i)
  BY <1>3, TimeoutSteps
<1>4. CASE UNCHANGED lookupVars
  BY <1>4, SteadyStutters
<1> QED
  BY <1>1, <1>2, <1>3, <1>4 DEF LookupNext

\* At the start no call has begun.
LEMMA NewCallOK ==
    ASSUME NEW want \in Kinds, NEW c, c = NewCall(want)
    PROVE  /\ c \in CallRecords /\ CallOK(c) /\ AllBacked(c) /\ ~c.started /\ Settled(c) = 0
<1>1. /\ c.kind = want /\ c.started = FALSE /\ c.issuing = FALSE /\ c.total = 1 /\ c.done = 0
      /\ c.good = 0 /\ c.found = {} /\ c.answers = <<>> /\ c.early = 0
  BY DEF NewCall
<1>2. c \in CallRecords
  <2>1. <<>> \in Seq(Results) /\ 0 \in Nat /\ 1 \in Nat /\ {} \in SUBSET Results
    OBVIOUS
  <2> QED
    BY <2>1 DEF NewCall, CallRecords
<1> HIDE DEF NewCall
<1>3. TallyOK(c)
  BY <1>1 DEF TallyOK
<1>4. CallOK(c)
  <2>1. c = NewCall(c.kind) /\ c.total >= 1
    BY <1>1
  <2> QED
    BY <1>1, <1>3, <2>1 DEF CallOK
<1>5. AllBacked(c) /\ Settled(c) = 0
  BY <1>1 DEF AllBacked, Settled
<1> QED
  BY <1>1, <1>2, <1>4, <1>5

\* The invariant holds at the start: no slot is in use and no call has started.
LEMMA SteadyStarts == LookupInit => Steady
<1> SUFFICES ASSUME LookupInit PROVE Steady
  OBVIOUS
<1> DEFINE s == State
<1>1. PICK mix \in Mixes : calls = [o \in Callers |-> NewCall(mix[o])]
  BY DEF LookupInit
<1>2. /\ s.rpc = [i \in Slots |-> Idle] /\ s.group = [i \in GroupSlots |-> Idle]
      /\ s.call = calls /\ s.known = FirstKnown /\ s.held = {}
  BY DEF LookupInit, State
<1>3. \A o \in Callers : mix[o] \in Kinds
  BY LookupAssumption
<1>4. ASSUME NEW o \in Callers
      PROVE  /\ calls[o] \in CallRecords /\ CallOK(calls[o]) /\ AllBacked(calls[o]) /\ ~calls[o].started
             /\ Settled(calls[o]) = 0
  <2>1. calls[o] = NewCall(mix[o]) /\ mix[o] \in Kinds
    BY <1>1, <1>3
  <2> QED
    BY <2>1, NewCallOK
<1>5. s \in States
  <2>1. calls \in [Callers -> CallRecords]
    BY <1>1, <1>4
  <2>2. [i \in Slots |-> Idle] \in [Slots -> RpcRecords \cup {Idle}]
    OBVIOUS
  <2>3. [i \in GroupSlots |-> Idle] \in [GroupSlots -> GroupRecords \cup {Idle}]
    OBVIOUS
  <2>4. FirstKnown \in SUBSET Nodes
    BY LookupAssumption
  <2>5. s = [rpc |-> [i \in Slots |-> Idle], group |-> [i \in GroupSlots |-> Idle], call |-> calls,
             known |-> FirstKnown, held |-> {}]
    BY DEF LookupInit, State
  <2> HIDE DEF s
  <2> QED
    BY <2>1, <2>2, <2>3, <2>4, <2>5 DEF States
<1> HIDE DEF s
<1>6. Idle.active = FALSE
  BY DEF Idle
<1>7. (\A i \in Slots : ~s.rpc[i].active) /\ (\A g \in GroupSlots : ~s.group[g].active)
  BY <1>2, <1>6
<1>8. OwnersOK(s) /\ GroupsOK(s, 0, 0)
  BY <1>7 DEF OwnersOK, GroupsOK
<1>9. ASSUME NEW o \in Callers PROVE CallDue(s, o, 0)
  <2>1. Direct(s, o) = {} /\ GroupsOf(s, o) = {}
    BY <1>7 DEF Direct, GroupsOf
  <2>2. Pending(s, o) = 0
    BY <2>1, FS_EmptySet DEF Pending
  <2>3. Settled(s.call[o]) = 0 /\ ~s.call[o].started
    BY <1>2, <1>4
  <2> QED
    BY <2>2, <2>3 DEF CallDue
<1>10. \A o \in Callers : CallsOK(s, o, 0)
  BY <1>2, <1>4, <1>9 DEF CallsOK
<1>12. Quiet(s)
  <2>1. ASSUME NEW o \in Callers PROVE ~calls[o].issuing
    <3>1. calls[o] = NewCall(mix[o])
      BY <1>1
    <3>2. NewCall(mix[o]).issuing = FALSE
      BY DEF NewCall
    <3> QED
      BY <3>1, <3>2
  <2> QED
    BY <1>2, <2>1 DEF Quiet
<1>11. \A o \in Callers : Owing(s, o, 0, 0, 0)
  BY <1>5, <1>8, <1>10 DEF Owing
<1> QED
  BY <1>5, <1>11, <1>12 DEF Steady, s

\* A call that has parts to come has an RPC that will end one.
LEMMA PendingWorks ==
    ASSUME Steady, NEW o \in Callers, Pending(State, o) # 0
    PROVE  RpcsOf(o) # {}
<1> DEFINE s == State
<1>1. s \in States /\ Owing(s, o, 0, 0, 0) /\ s.rpc = rpcs /\ s.group = groups
  BY DEF Steady, State
<1> HIDE DEF s
<1>2. OwnersOK(s) /\ GroupsOK(s, 0, 0)
  BY <1>1 DEF Owing
<1>3. CASE Direct(s, o) # {}
  <2>1. PICK i \in Slots : s.rpc[i].active /\ s.rpc[i].owner = Owner(o, 0)
    BY <1>3 DEF Direct
  <2>2. s.rpc[i].owner.op = o
    BY <2>1 DEF Owner
  <2> QED
    BY <1>1, <2>1, <2>2 DEF RpcsOf
<1>4. CASE GroupsOf(s, o) # {}
  <2>1. PICK g \in GroupSlots : s.group[g].active /\ s.group[g].op = o
    BY <1>4 DEF GroupsOf
  <2>2. g # 0 /\ s.group[g] \in GroupRecords
    BY <1>1, <2>1, StateFields, LookupAssumption
  <2>3. GroupDue(s, g, 0) /\ Len(s.group[g].results) < Paths
    <3>1. g # 0
      BY <2>2
    <3> QED
      BY <1>2, <2>1, <3>1 DEF GroupsOK
  <2>4. PathsOf(s, g) # {}
    <3> SUFFICES ASSUME PathsOf(s, g) = {} PROVE FALSE
      OBVIOUS
    <3>1. Cardinality(PathsOf(s, g)) = 0
      BY FS_EmptySet
    <3>2. Len(s.group[g].results) \in Nat
      BY <2>2 DEF GroupRecords
    <3>3. 0 + Len(s.group[g].results) + 0 = Paths
      BY <2>3, <3>1 DEF GroupDue
    <3>4. Paths \in Nat
      BY LookupAssumption
    <3> QED
      BY <2>3, <3>2, <3>3, <3>4
  <2>5. PICK i \in Slots : s.rpc[i].active /\ s.rpc[i].owner.group = g
    BY <2>4 DEF PathsOf
  <2>6. s.rpc[i].owner.op = o
    BY <1>2, <2>1, <2>2, <2>5 DEF OwnersOK
  <2> QED
    BY <1>1, <2>5, <2>6 DEF RpcsOf
<1>5. CASE Direct(s, o) = {} /\ GroupsOf(s, o) = {}
  <2>1. Pending(s, o) = 0
    BY <1>5, FS_EmptySet DEF Pending
  <2> QED
    BY <2>1 DEF s
<1> QED
  BY <1>3, <1>4, <1>5

\* What the callers see follows from it.
LEMMA SteadyAnswers == Steady => AnsweredOnce /\ NodesAgree
<1> SUFFICES ASSUME Steady, NEW o \in Callers
             PROVE  /\ \/ Len(calls[o].answers) <= 1
                       \/ /\ calls[o].kind = "private" /\ calls[o].early = 2
                          /\ Len(calls[o].answers) = 2 /\ calls[o].answers[2] = Nothing
                    /\ calls[o].started /\ ~Answered(o) => RpcsOf(o) # {}
                    /\ calls[o].kind # "skad_node" =>
                            \A k \in DOMAIN calls[o].answers :
                                calls[o].answers[k].agreed => Cardinality(calls[o].answers[k].givers) >= Agree
  BY DEF AnsweredOnce, NodesAgree
<1> DEFINE s == State
           c == calls[o]
<1>1. s \in States /\ Owing(s, o, 0, 0, 0) /\ s.call = calls
  BY DEF Steady, State
<1>2. CallsOK(s, o, 0)
  BY <1>1 DEF Owing
<1>3. c \in CallRecords /\ s.call[o] = c
  BY <1>1, StateFields
<1>4. CallDue(s, o, 0) /\ CallOK(c) /\ AllBacked(c)
  BY <1>2, <1>3 DEF CallsOK
<1>5. Pending(s, o) + Settled(c) + 0 = IF c.started THEN c.total ELSE 0
  BY <1>3, <1>4 DEF CallDue
<1>6. /\ c.answers \in Seq(Results) /\ c.done \in Nat /\ c.total \in Nat /\ c.kind \in Kinds
      /\ c.good \in Nat /\ Pending(s, o) \in Nat
  BY <1>3, SlotCounts DEF CallRecords
<1>9. ~c.issuing
  BY <1>3 DEF Steady, Quiet
<1> HIDE DEF s, c
<1>7. CASE Twice(c)
  <2>1. c.kind = "private" /\ c.early = 2 /\ Len(c.answers) = 2 /\ c.answers[2] = Nothing
    BY <1>7 DEF Twice
  <2>2. Answered(o)
    BY <2>1 DEF Answered, c
  <2>3. \A k \in DOMAIN c.answers : c.answers[k].agreed => Cardinality(c.answers[k].givers) >= Agree
    BY <1>4, <1>6, <2>1 DEF AllBacked, Backed
  <2> QED
    BY <2>1, <2>2, <2>3 DEF c
<1>8. CASE TallyOK(c)
  <2>1. Len(c.answers) <= 1
    <3>1. CASE c.kind \in Multi
      <4>1. Len(c.answers) = 1 \/ c.answers = <<>>
        BY <1>8, <3>1 DEF TallyOK, Multi
      <4>2. CASE Len(c.answers) = 1
        BY <4>2
      <4>3. CASE c.answers = <<>>
        <5>1. Len(c.answers) = 0
          BY <4>3
        <5> QED
          BY <5>1
      <4> QED
        BY <4>1, <4>2, <4>3
    <3>2. CASE c.kind \notin Multi
      <4>1. c.total = 1
        BY <1>8, <3>2 DEF TallyOK, Multi
      <4>2. Settled(c) = Len(c.answers) /\ Len(c.answers) \in Nat
        BY <1>6, <3>2 DEF Settled
      <4> QED
        BY <1>5, <1>6, <4>1, <4>2
    <3> QED
      BY <3>1, <3>2
  <2>2. ASSUME c.started, ~Answered(o) PROVE RpcsOf(o) # {}
    <3>1. c.answers = <<>> /\ Len(c.answers) = 0
      <4>1. Len(c.answers) \in Nat /\ ~(Len(c.answers) > 0)
        BY <1>6, <2>2 DEF Answered, c
      <4>2. Len(c.answers) = 0
        BY <4>1
      <4> QED
        BY <1>6, <4>2
    <3>2. Settled(c) # c.total
      <4>1. CASE c.kind \in {"stores", "values"}
        <5>1. ~(c.done = c.total /\ ~c.issuing)
          BY <1>8, <3>1, <4>1 DEF TallyOK
        <5> QED
          BY <1>9, <4>1, <5>1 DEF Settled, Multi
      <4>2. CASE c.kind = "private"
        BY <1>8, <3>1, <4>2 DEF TallyOK, Settled, Multi
      <4>3. CASE c.kind \notin Multi
        <5>1. c.total = 1
          BY <1>8, <4>3 DEF TallyOK, Multi
        <5> QED
          BY <3>1, <4>3, <5>1 DEF Settled
      <4> QED
        BY <4>1, <4>2, <4>3 DEF Multi
    <3>3. Settled(c) \in Nat
      BY <1>6, <3>1 DEF Settled
    <3>4. Pending(s, o) + Settled(c) + 0 = c.total
      BY <1>5, <2>2
    <3>5. Pending(s, o) # 0
      BY <1>6, <3>2, <3>3, <3>4
    <3> QED
      BY <3>5, PendingWorks DEF s
  <2>3. c.kind # "skad_node" =>
            \A k \in DOMAIN c.answers : c.answers[k].agreed => Cardinality(c.answers[k].givers) >= Agree
    BY <1>4, <1>6 DEF AllBacked, Backed
  <2> QED
    BY <2>1, <2>2, <2>3 DEF c
<1> QED
  BY <1>4, <1>7, <1>8 DEF CallOK

-----------------------------------------------------------------------------
(* The shapes of the states. *)

\* What a lookup asks it has been told of, its path belongs to a lookup that works, and a lookup
\* that works waits for a path.
LEMMA SteadyTypes == Steady => LookupTypeOK
<1> SUFFICES ASSUME Steady PROVE LookupTypeOK
  OBVIOUS
<1> DEFINE s == State
<1>1. /\ s \in States /\ s.rpc = rpcs /\ s.group = groups /\ s.known = known /\ s.held = held
      /\ \A o \in Callers : Owing(s, o, 0, 0, 0)
  BY DEF Steady, State
<1> HIDE DEF s
<1>2. ASSUME NEW i \in Slots, rpcs[i].active
      PROVE  /\ rpcs[i].asked \subseteq rpcs[i].queried /\ rpcs[i].queried \subseteq Nodes
             /\ rpcs[i].owner.group \in {g \in GroupSlots : groups[g].active} \cup {0}
  <2>1. rpcs[i] \in RpcRecords
    BY <1>1, <1>2, StateFields
  <2>2. rpcs[i].asked \subseteq rpcs[i].queried /\ rpcs[i].queried \subseteq Nodes
    BY <2>1 DEF RpcRecords
  <2>3. rpcs[i].owner.op \in Callers /\ rpcs[i].owner.group \in GroupSlots \cup {0}
    BY <2>1 DEF RpcRecords
  <2>4. OwnersOK(s)
    BY <1>1, <2>3 DEF Owing
  <2>5. rpcs[i].owner.group # 0 => groups[rpcs[i].owner.group].active
    BY <1>1, <1>2, <2>4 DEF OwnersOK
  <2> QED
    BY <2>2, <2>3, <2>5
<1>3. ASSUME NEW g \in GroupSlots, groups[g].active PROVE Len(groups[g].results) < Paths
  <2>1. groups[g] \in GroupRecords
    BY <1>1, <1>3, StateFields
  <2>2. groups[g].op \in Callers
    BY <2>1 DEF GroupRecords
  <2>3. GroupsOK(s, 0, 0) /\ g # 0
    BY <1>1, <2>2, LookupAssumption DEF Owing
  <2> QED
    BY <1>1, <1>3, <2>3 DEF GroupsOK
<1>4. known \subseteq Nodes /\ held \subseteq Keys
  BY <1>1, StateFields
<1> QED
  BY <1>2, <1>3, <1>4 DEF LookupTypeOK

\* Half a frame at most waits in the parser, and nobody writes more than it may.
HalvesOK == \A s \in Sides : Len(part[s]) <= 1 /\ Len(written[s]) <= MaxFrames

\* What is left of whole frames is half a frame at most.
LEMMA RestIsShort == ASSUME NEW S, NEW b \in Seq(S) PROVE Len(RestOf(b)) <= 1
<1> DEFINE m == 2 * (Len(b) \div 2) + 1
           l == Len(b)
<1>1. l \in Nat /\ m \in Nat /\ m \in Int /\ l \in Int /\ l - m + 1 <= 1
  OBVIOUS
<1>2. \A i \in m..l : b[i] \in S
  BY <1>1
<1>3. RestOf(b) = SubSeq(b, m, l)
  BY DEF RestOf
<1> HIDE DEF m, l
<1>4. Len(SubSeq(b, m, l)) = IF m <= l THEN l - m + 1 ELSE 0
  BY ONLY <1>1, <1>2, SubSeqProperties
<1> QED
  BY <1>1, <1>3, <1>4

\* The bounds hold at the start, and every step of a connection keeps them.
LEMMA PartsKept ==
    /\ LinkInit => HalvesOK
    /\ LinkInv /\ HalvesOK /\ [LinkNext]_linkVars => HalvesOK'
    /\ LinkInv /\ HalvesOK => LinkTypeOK
<1>1. LinkInit => HalvesOK
  <2>1. Len(<<>>) = 0 /\ 0 <= 1 /\ 0 <= MaxFrames
    BY StreamLinkAssumption
  <2> QED
    BY <2>1 DEF LinkInit, HalvesOK
<1>2. LinkInv /\ HalvesOK /\ [LinkNext]_linkVars => HalvesOK'
  <2> SUFFICES ASSUME LinkInv, HalvesOK, [LinkNext]_linkVars PROVE HalvesOK'
    OBVIOUS
  <2>1. /\ part \in [Sides -> Seq(Unit)] /\ raw \in [Sides -> Seq(Unit)] /\ wire \in [Sides -> Seq(Unit)]
        /\ written \in [Sides -> Seq(Nat)]
    BY DEF LinkInv, LinkTypes
  <2>2. CASE UNCHANGED <<part, written>>
    BY <2>2 DEF HalvesOK
  <2>3. ASSUME NEW s \in Sides, NEW b \in Seq(Unit), part' = [part EXCEPT ![s] = RestOf(b)], UNCHANGED written
        PROVE  HalvesOK'
    <3>1. Len(RestOf(b)) <= 1
      BY RestIsShort
    <3> QED
      BY <2>1, <2>3, <3>1 DEF HalvesOK
  <2>4. ASSUME NEW s \in Sides, NEW n \in Readable(s) PROVE Take(s, n) \in Seq(Unit)
    <3>1. wire[s] \in Seq(Unit) /\ n \in 1..Len(wire[s])
      BY <2>1 DEF Readable
    <3>2. \A q \in Seq(Unit) : \A k \in 1..Len(q) : SubSeq(q, 1, k) \in Seq(Unit)
      OBVIOUS
    <3> QED
      BY <3>1, <3>2 DEF Take
  <2>j. \A x, y \in Seq(Unit) : x \o y \in Seq(Unit)
    OBVIOUS
  <2>5. ASSUME NEW s \in Sides, ReadOpen(s) PROVE HalvesOK'
    <3>1. PICK n \in Readable(s) : Parse(s, part[s] \o raw[s] \o Take(s, n))
      BY <2>5 DEF ReadOpen
    <3>2. part[s] \o raw[s] \o Take(s, n) \in Seq(Unit)
      BY <2>1, <2>4, <2>j
    <3>3. UNCHANGED written
      BY <2>5 DEF ReadOpen
    <3> QED
      BY <2>3, <3>1, <3>2, <3>3 DEF Parse
  <2>6. ASSUME NEW s \in Sides, ReadUpgrading(s) PROVE HalvesOK'
    <3>1. UNCHANGED written
      BY <2>6 DEF ReadUpgrading
    <3>2. PICK n \in Readable(s) : UNCHANGED part \/ Parse(s, Tail(raw[s] \o Take(s, n)))
      BY <2>6 DEF ReadUpgrading
    <3> DEFINE b == raw[s] \o Take(s, n)
    <3>3. b \in Seq(Unit) /\ b # <<>>
      <4>1. Take(s, n) \in Seq(Unit) /\ raw[s] \in Seq(Unit)
        BY <2>1, <2>4
      <4>2. Len(Take(s, n)) = n /\ n >= 1
        <5>1. wire[s] \in Seq(Unit) /\ n \in 1..Len(wire[s])
          BY <2>1 DEF Readable
        <5>2. \A q \in Seq(Unit) : \A k \in 1..Len(q) : Len(SubSeq(q, 1, k)) = k
          OBVIOUS
        <5> QED
          BY <5>1, <5>2 DEF Take
      <4>3. Len(b) = Len(raw[s]) + Len(Take(s, n)) /\ Len(raw[s]) \in Nat
        BY <4>1
      <4>4. Len(b) >= 1 /\ b \in Seq(Unit)
        BY <4>1, <4>2, <4>3, <2>j
      <4> QED
        BY <4>4
    <3> HIDE DEF b
    <3>4. Tail(b) \in Seq(Unit)
      BY <3>3
    <3>5. CASE UNCHANGED part
      BY <2>2, <3>1, <3>5
    <3>6. CASE Parse(s, Tail(b))
      BY <2>3, <3>1, <3>4, <3>6 DEF Parse
    <3> QED
      BY <3>2, <3>5, <3>6 DEF b
  <2>7. ASSUME NEW s \in Sides, Send(s) PROVE HalvesOK'
    <3>1. /\ written[s] \in Seq(Nat) /\ Len(written[s]) < MaxFrames /\ part' = part
          /\ written' = [written EXCEPT ![s] = Append(written[s], Len(written[s]) + 1)]
      BY <2>1, <2>7 DEF Send
    <3>2. Len(Append(written[s], Len(written[s]) + 1)) <= MaxFrames
      BY <3>1, StreamLinkAssumption
    <3> QED
      BY <2>1, <3>1, <3>2 DEF HalvesOK
  <2>8. ASSUME NEW s \in Sides, ReadEnd(s) \/ Close(s) \/ CloseEnds(s) PROVE HalvesOK'
    BY <2>2, <2>8 DEF ReadEnd, Close, CloseEnds
  <2>9. CASE Dialled \/ DialFails \/ Accepted \/ ServerDies
    BY <2>2, <2>9 DEF Dialled, DialFails, Accepted, ServerDies
  <2>10. CASE UNCHANGED linkVars
    BY <2>2, <2>10 DEF linkVars
  <2> QED
    BY <2>5, <2>6, <2>7, <2>8, <2>9, <2>10 DEF LinkNext, Read
<1>3. LinkInv /\ HalvesOK => LinkTypeOK
  <2> SUFFICES ASSUME LinkInv, HalvesOK, NEW s \in Sides
               PROVE  /\ life[s] \in Lives /\ stage[s] \in 0..Len(Flights(s))
                      /\ Len(part[s]) <= 1 /\ Len(written[s]) <= MaxFrames /\ kind \in LinkKinds
    <3>1. "client" \in Sides
      BY DEF Sides
    <3> QED
      BY <3>1 DEF LinkTypeOK, Lives
  <2>1. stage[s] \in Nat /\ Len(Flights(s)) \in Nat /\ stage[s] <= Len(Flights(s))
    BY Ranges DEF LinkInv, SideOK
  <2> QED
    BY <2>1 DEF LinkInv, LinkTypes, HalvesOK
<1> QED
  BY <1>1, <1>2, <1>3

\* A node that has not reported has fewer peers than it needs, and has called back in phase 3 only.
Boots == [state : {"off", "on", "freed"}, phase : 0 .. 3, candidates : 0 .. MaxHeard,
          complete : BOOLEAN, dns : SUBSET {"a", "txt"}, calls : 0 .. 2]
BootOK(b) ==
    /\ b \in Boots
    /\ ~b.complete => b.candidates < PeerMin /\ b.calls = IF b.phase = 3 THEN 1 ELSE 0
LanPeers == LanNodes \cup Seeds \cup DnsSeeds
BootstrapInv ==
    /\ boot \in [LanNodes -> Boots] /\ \A n \in LanNodes : BootOK(boot[n])
    /\ knownPeers \in [LanNodes -> SUBSET LanPeers]
    /\ airborne \subseteq LanNodes \X LanNodes

\* A node on its own takes a step.
LEMMA BootStep ==
    ASSUME BootstrapInv, NEW n \in LanNodes, NEW b, BootOK(b), boot' = [boot EXCEPT ![n] = b],
           \/ UNCHANGED knownPeers
           \/ \E ps \in SUBSET LanPeers : knownPeers' = [knownPeers EXCEPT ![n] = @ \cup ps],
           airborne' \subseteq LanNodes \X LanNodes
    PROVE  BootstrapInv'
<1>1. b \in Boots
  BY DEF BootOK
<1>2. boot' \in [LanNodes -> Boots] /\ \A m \in LanNodes : boot'[m] = IF m = n THEN b ELSE boot[m]
  BY <1>1 DEF BootstrapInv
<1>3. \A m \in LanNodes : BootOK(boot[m])'
  BY <1>2 DEF BootstrapInv, BootOK
<1>4. knownPeers' \in [LanNodes -> SUBSET LanPeers]
  BY DEF BootstrapInv
<1> QED
  BY <1>2, <1>3, <1>4 DEF BootstrapInv

\* A node whose count has changed.
Recounted(b, x, y, z) == [b EXCEPT !.candidates = x, !.complete = y, !.calls = z]
\* It keeps its shape, and what else is in it.
LEMMA CountChanged ==
    ASSUME NEW b \in Boots, NEW x \in 0 .. MaxHeard, NEW z \in 0 .. 2
    PROVE  /\ Recounted(b, x, TRUE, z) \in Boots /\ Recounted(b, x, TRUE, z).complete
           /\ Recounted(b, x, FALSE, z) \in Boots /\ Recounted(b, x, FALSE, z).phase = b.phase
           /\ Recounted(b, x, FALSE, z).candidates = x /\ Recounted(b, x, FALSE, z).calls = z
BY DEF Boots, Recounted

\* A peer that is taken is counted, and the one that is enough is reported.
LEMMA TryPeerOK ==
    ASSUME BootstrapInv, NEW n \in LanNodes, NEW b, BootOK(b), NEW p \in LanPeers,
           NEW taken \in BOOLEAN, TryPeer(n, b, p, taken), airborne' \subseteq LanNodes \X LanNodes
    PROVE  BootstrapInv'
<1>1. CASE b.complete \/ ~taken \/ b.candidates >= MaxHeard
  <2>1. boot' = [boot EXCEPT ![n] = b] /\ UNCHANGED knownPeers
    BY <1>1 DEF TryPeer
  <2> QED
    BY <2>1, BootStep
<1>2. CASE ~(b.complete \/ ~taken \/ b.candidates >= MaxHeard)
  <2>1. boot' = [boot EXCEPT ![n] = Counted(b)] /\ knownPeers' = [knownPeers EXCEPT ![n] = @ \cup {p}]
    BY <1>2 DEF TryPeer
  <2>2. /\ b \in Boots /\ b.candidates \in Nat /\ b.candidates < MaxHeard /\ b.calls \in 0 .. 1
        /\ MaxHeard \in Nat /\ PeerMin \in Nat /\ b.calls = IF b.phase = 3 THEN 1 ELSE 0
    BY <1>2, BootstrapAssumption DEF BootOK, Boots
  <2> DEFINE c == Counted(b)
  <2>3. ASSUME b.candidates + 1 >= PeerMin PROVE BootOK(c)
    <3>1. c = Recounted(b, b.candidates + 1, TRUE, b.calls + 1)
      BY <2>3 DEF Counted, Recounted
    <3>2. b.candidates + 1 \in 0 .. MaxHeard /\ b.calls + 1 \in 0 .. 2
      BY <2>2
    <3> HIDE DEF c
    <3> QED
      BY <2>2, <3>1, <3>2, CountChanged DEF BootOK
  <2>4. ASSUME ~(b.candidates + 1 >= PeerMin) PROVE BootOK(c)
    <3>4. (b.candidates + 1 >= PeerMin) = FALSE
      BY <2>4
    <3>1. c = Recounted(b, b.candidates + 1, FALSE, b.calls)
      BY <2>4, <3>4 DEF Counted, Recounted
    <3>2. /\ b.candidates + 1 \in 0 .. MaxHeard /\ b.calls \in 0 .. 2
          /\ b.candidates + 1 < PeerMin
      BY <2>2, <2>4
    <3>5. b \in Boots
      BY <2>2
    <3> HIDE DEF c
    <3>3. c \in Boots /\ c.phase = b.phase /\ c.candidates = b.candidates + 1 /\ c.calls = b.calls
      BY ONLY <3>1, <3>2, <3>5, CountChanged
    <3> QED
      BY <2>2, <3>2, <3>3 DEF BootOK
  <2>7. BootOK(c)
    BY <2>3, <2>4
  <2>6. {p} \in SUBSET LanPeers
    OBVIOUS
  <2> QED
    BY <2>1, <2>6, <2>7, BootStep DEF c
<1> QED
  BY <1>1, <1>2

\* The seeds complete the count or leave it short.
LEMMA SeedsOK ==
    ASSUME NEW b, BootOK(b), ~b.complete, NEW taken \in SUBSET Seeds
    PROVE  BootOK(SeedsTried(b, taken))
<1> DEFINE more == Cardinality(taken)
           c == SeedsTried(b, taken)
<1>1. more \in Nat
  BY FS_Subset, FS_CardinalityType, BootstrapAssumption
<1>2. /\ b \in Boots /\ b.candidates \in Nat /\ b.calls \in 0 .. 1 /\ b.candidates < PeerMin
      /\ PeerMin \in Nat /\ MaxHeard \in Nat /\ PeerMin <= MaxHeard
      /\ b.calls = IF b.phase = 3 THEN 1 ELSE 0
  BY BootstrapAssumption DEF BootOK, Boots
<1> HIDE DEF more
<1>3. CASE more >= PeerMin - b.candidates
  <2>1. c = Recounted(b, PeerMin, TRUE, b.calls + 1)
    BY <1>3 DEF SeedsTried, more, Recounted
  <2>2. c \in Boots /\ c.complete
    <3>1. PeerMin \in 0 .. MaxHeard /\ b.calls + 1 \in 0 .. 2
      BY <1>2
    <3> HIDE DEF c
    <3> QED
      BY <1>2, <2>1, <3>1, CountChanged
  <2> QED
    BY <2>2 DEF BootOK
<1>4. CASE ~(more >= PeerMin - b.candidates)
  <2>1. c = [b EXCEPT !.candidates = b.candidates + more]
    BY <1>4 DEF SeedsTried, more
  <2>2. b.candidates + more < PeerMin /\ b.candidates + more \in 0 .. MaxHeard
    BY <1>1, <1>2, <1>4
  <2>3. c \in Boots /\ c.candidates < PeerMin /\ c.calls = b.calls /\ c.phase = b.phase
    BY <1>2, <2>1, <2>2 DEF Boots
  <2> QED
    BY <1>2, <2>3 DEF BootOK
<1> QED
  BY <1>3, <1>4

\* The invariant holds at the start, and every step of the bootstrap keeps it.
LEMMA BootstrapKeeps ==
    /\ BootstrapInit => BootstrapInv
    /\ BootstrapInv /\ [BootstrapNext]_bootVars => BootstrapInv'
    /\ BootstrapInv => BootstrapTypeOK
<1>1. BootstrapInit => BootstrapInv
  <2>1. BootOK(NotStarted) /\ NotStarted \in Boots
    BY BootstrapAssumption DEF BootOK, Boots, NotStarted
  <2> QED
    BY <2>1 DEF BootstrapInit, BootstrapInv
<1>2. BootstrapInv /\ [BootstrapNext]_bootVars => BootstrapInv'
  <2> SUFFICES ASSUME BootstrapInv, [BootstrapNext]_bootVars PROVE BootstrapInv'
    OBVIOUS
  <2>1. CASE UNCHANGED bootVars
    BY <2>1 DEF bootVars, BootstrapInv, BootOK
  <2>2. ASSUME NEW n \in LanNodes, NEW x \in {"on", "freed"}
        PROVE  BootOK([boot[n] EXCEPT !.state = x])
    BY DEF BootstrapInv, BootOK, Boots
  <2>3. ASSUME NEW n \in LanNodes, StartBootstrap(n) \/ StopBootstrap(n) PROVE BootstrapInv'
    <3>1. PICK x \in {"on", "freed"} : boot' = [boot EXCEPT ![n] = [boot[n] EXCEPT !.state = x]]
      BY <2>3 DEF StartBootstrap, StopBootstrap
    <3>2. airborne' \subseteq LanNodes \X LanNodes /\ UNCHANGED knownPeers
      BY <2>3 DEF StartBootstrap, StopBootstrap, BootstrapInv
    <3> QED
      BY <2>2, <3>1, <3>2, BootStep
  <2>4. ASSUME NEW n \in LanNodes, StrategyTimer(n) PROVE BootstrapInv'
    <3> DEFINE b == [boot[n] EXCEPT !.phase = boot[n].phase + 1]
    <3>1. /\ BootOK(boot[n]) /\ boot[n] \in Boots /\ ~boot[n].complete /\ boot[n].phase < 3
          /\ boot[n].phase \in Nat /\ boot[n].calls = 0 /\ boot[n].candidates < PeerMin
          /\ airborne' \subseteq LanNodes \X LanNodes
      BY <2>4 DEF StrategyTimer, BootstrapInv, BootOK, Boots
    <3>2. /\ b \in Boots /\ ~b.complete /\ b.calls = 0 /\ b.candidates < PeerMin
          /\ b.phase = boot[n].phase + 1
      BY <3>1 DEF Boots
    <3>3. \/ /\ b.phase = 1
             /\ \E taken \in SUBSET Seeds :
                  /\ boot' = [boot EXCEPT ![n] = SeedsTried(b, taken)]
                  /\ knownPeers' = [knownPeers EXCEPT ![n] = @ \cup taken]
          \/ /\ b.phase = 2
             /\ boot' = [boot EXCEPT ![n] = [b EXCEPT !.dns = {"a", "txt"}]]
             /\ UNCHANGED knownPeers
          \/ /\ b.phase = 3
             /\ boot' = [boot EXCEPT ![n] = GivenUp(b)]
             /\ UNCHANGED knownPeers
      BY <2>4 DEF StrategyTimer
    <3> HIDE DEF b
    <3>4. CASE b.phase = 1
      <4>1. BootOK(b)
        BY <3>2, <3>4 DEF BootOK
      <4>2. PICK taken \in SUBSET Seeds :
                /\ boot' = [boot EXCEPT ![n] = SeedsTried(b, taken)]
                /\ knownPeers' = [knownPeers EXCEPT ![n] = @ \cup taken]
        BY <3>3, <3>4
      <4>3. BootOK(SeedsTried(b, taken)) /\ taken \in SUBSET LanPeers
        BY <3>2, <4>1, SeedsOK DEF LanPeers
      <4> QED
        BY <3>1, <4>2, <4>3, BootStep
    <3>5. CASE b.phase = 2
      <4>1. BootOK([b EXCEPT !.dns = {"a", "txt"}])
        BY <3>2, <3>5 DEF BootOK, Boots
      <4>2. boot' = [boot EXCEPT ![n] = [b EXCEPT !.dns = {"a", "txt"}]] /\ UNCHANGED knownPeers
        BY <3>3, <3>5
      <4> QED
        BY <3>1, <4>1, <4>2, BootStep
    <3>6. CASE b.phase = 3
      <4>1. BootOK(GivenUp(b))
        BY <3>2, <3>6 DEF BootOK, Boots, GivenUp
      <4> QED
        BY <3>1, <3>3, <3>6, <4>1, BootStep
    <3> QED
      BY <3>3, <3>4, <3>5, <3>6
  <2>5. ASSUME NEW n \in LanNodes, NEW p \in DnsSeeds, NEW taken \in BOOLEAN, AddSeed(n, p, taken)
        PROVE  BootstrapInv'
    <3>1. BootOK(boot[n]) /\ p \in LanPeers /\ airborne' \subseteq LanNodes \X LanNodes
      BY <2>5 DEF AddSeed, BootstrapInv, LanPeers
    <3> QED
      BY <2>5, <3>1, TryPeerOK DEF AddSeed
  <2>6. ASSUME NEW n \in LanNodes, NEW p \in DnsSeeds, NEW taken \in BOOLEAN, NEW q \in {"a", "txt"},
               DnsAnswer(n, q, p, taken)
        PROVE  BootstrapInv'
    <3>1. /\ BootOK([boot[n] EXCEPT !.dns = @ \ {q}]) /\ p \in LanPeers
          /\ airborne' \subseteq LanNodes \X LanNodes
      BY <2>6 DEF DnsAnswer, BootstrapInv, LanPeers, BootOK, Boots
    <3> QED
      BY <2>6, <3>1, TryPeerOK DEF DnsAnswer
  <2>7. ASSUME NEW a \in airborne, MdnsLost(a) PROVE BootstrapInv'
    BY <2>7 DEF MdnsLost, BootstrapInv, BootOK
  <2>8. ASSUME NEW a \in airborne, NEW taken \in BOOLEAN, MdnsRecv(a, taken) PROVE BootstrapInv'
    <3>1. a[1] \in LanPeers /\ a[2] \in LanNodes /\ BootOK(boot[a[2]]) /\ airborne' \subseteq LanNodes \X LanNodes
      BY <2>8 DEF MdnsRecv, BootstrapInv, LanPeers
    <3>2. TryPeer(a[2], boot[a[2]], a[1], taken) \/ UNCHANGED <<boot, knownPeers>>
      BY <2>8 DEF MdnsRecv
    <3>3. CASE UNCHANGED <<boot, knownPeers>>
      BY <3>1, <3>3 DEF BootstrapInv, BootOK
    <3> QED
      BY <3>1, <3>2, <3>3, TryPeerOK
  <2> QED
    BY <2>1, <2>3, <2>4, <2>5, <2>6, <2>7, <2>8 DEF BootstrapNext
<1>3. BootstrapInv => BootstrapTypeOK
  BY DEF BootstrapInv, BootstrapTypeOK, Boots, LanPeers
<1> QED
  BY <1>1, <1>2, <1>3

\* A connection calls back when it is open or has failed, and only then.
SocksRecord(c) ==
    /\ c = [state |-> c.state, buf |-> c.buf, recv |-> c.recv, reading |-> c.reading]
    /\ c.state \in {"none", "method", "reply", "open", "closed"} /\ c.reading \in {"no", "socks", "frames"}
    /\ c.reading = "socks" <=> c.state \in {"method", "reply"}
    /\ c.reading = "frames" => c.state = "open"
PtInv ==
    /\ proc \in [state : {"waiting", "ready", "failed"}, addr : BOOLEAN, lines : 0..MaxLines]
    /\ \E S : ptWritten \in Seq(S) /\ line \in Seq(S)
    /\ Len(line) <= 1
    /\ SocksRecord(socks)
    /\ app = [calls |-> app.calls, got |-> app.got]
    /\ app.calls \in 0..1 /\ (socks.state \in {"method", "reply"} => app.calls = 0)

\* A launch that goes on or ends.
LEMMA LaunchSteps ==
    ASSUME PtInv, UNCHANGED <<socks, app>>,
           proc' \in [state : {"waiting", "ready", "failed"}, addr : BOOLEAN, lines : 0..MaxLines],
           \E S : ptWritten' \in Seq(S) /\ line' \in Seq(S), Len(line') <= 1
    PROVE  PtInv'
BY DEF PtInv, SocksRecord

\* What stays of the lines that were read is half a line at most.
LEMMA LineRest ==
    ASSUME NEW S, NEW s \in Seq(S)
    PROVE  /\ SubSeq(s, 2 * LineCount(s) + 1, Len(s)) \in Seq(S)
           /\ Len(SubSeq(s, 2 * LineCount(s) + 1, Len(s))) <= 1
<1> DEFINE m == 2 * LineCount(s) + 1
           l == Len(s)
<1>1. l \in Nat /\ m \in Int /\ l \in Int /\ m >= 1 /\ l - m + 1 <= 1
  BY DEF LineCount
<1>2. \A i \in m..l : s[i] \in S
  BY <1>1
<1> HIDE DEF m, l
<1>3. SubSeq(s, m, l) \in Seq(S) /\ Len(SubSeq(s, m, l)) = IF m <= l THEN l - m + 1 ELSE 0
  BY ONLY <1>1, <1>2, SubSeqProperties
<1> QED
  BY <1>1, <1>3 DEF m, l

\* A connection that goes on without a call of the user.
LEMMA SocksSteps ==
    ASSUME PtInv, UNCHANGED launchVars, SocksRecord(socks'), app' = [calls |-> app'.calls, got |-> app'.got],
           app'.calls \in 0..1, socks'.state \in {"method", "reply"} => app'.calls = 0
    PROVE  PtInv'
BY DEF PtInv, launchVars

\* The invariant holds at the start, and every step of a pluggable transport keeps it.
LEMMA PtKeeps ==
    /\ PtInit => PtInv
    /\ PtInv /\ [PtNext]_ptVars => PtInv'
    /\ PtInv => PtTypeOK
<1>1. PtInit => PtInv
  <2> SUFFICES ASSUME PtInit PROVE PtInv
    OBVIOUS
  <2>1. /\ <<>> \in Seq({}) /\ Len(<<>>) <= 1 /\ 0 \in 0..1 /\ 0 \in 0..MaxLines
    BY PtAssumption
  <2>2. SocksRecord(socks) /\ socks.state = "none"
    BY DEF PtInit, NoConn, SocksRecord
  <2>3. app = [calls |-> app.calls, got |-> app.got] /\ app.calls = 0
    BY DEF PtInit
  <2>4. \E S : ptWritten \in Seq(S) /\ line \in Seq(S)
    BY <2>1 DEF PtInit
  <2>5. proc \in [state : {"waiting", "ready", "failed"}, addr : BOOLEAN, lines : 0..MaxLines]
    BY <2>1 DEF PtInit
  <2>6. Len(line) <= 1
    BY <2>1 DEF PtInit
  <2> QED
    BY <2>1, <2>2, <2>3, <2>4, <2>5, <2>6 DEF PtInv
<1>2. PtInv /\ [PtNext]_ptVars => PtInv'
  <2> SUFFICES ASSUME PtInv, [PtNext]_ptVars PROVE PtInv'
    OBVIOUS
  <2> DEFINE Procs == [state : {"waiting", "ready", "failed"}, addr : BOOLEAN, lines : 0..MaxLines]
  <2>1. CASE UNCHANGED ptVars
    BY <2>1 DEF ptVars, PtInv, SocksRecord
  <2>2. /\ proc \in Procs /\ Len(line) <= 1 /\ MaxLines \in Nat
        /\ SocksRecord(socks) /\ app = [calls |-> app.calls, got |-> app.got] /\ app.calls \in 0..1
        /\ socks.state \in {"method", "reply"} => app.calls = 0
    BY PtAssumption DEF PtInv
  <2>3. PICK S : ptWritten \in Seq(S) /\ line \in Seq(S)
    BY DEF PtInv
  <2>4. ASSUME NEW k \in LaunchLines, BinaryWrites(k) PROVE PtInv'
    <3> DEFINE T == S \cup {<<k, proc.lines, 1>>, <<k, proc.lines, 2>>}
    <3>1. PtHalves(k, proc.lines) \in Seq(T)
      BY DEF PtHalves
    <3>2. ptWritten \in Seq(T) /\ line \in Seq(T)
      <4>1. S \subseteq T
        OBVIOUS
      <4> HIDE DEF T
      <4> QED
        BY <2>3, <4>1
    <3> HIDE DEF T
    <3>3. ptWritten \o PtHalves(k, proc.lines) \in Seq(T)
      BY <3>1, <3>2
    <3>4. ptWritten' \in Seq(T) /\ line' \in Seq(T) /\ Len(line') <= 1 /\ UNCHANGED <<socks, app>>
      BY <2>2, <2>4, <3>2, <3>3 DEF BinaryWrites, connVars
    <3>5. proc' \in Procs
      <4>1. proc.lines + 1 \in 0..MaxLines
        BY <2>2, <2>4 DEF BinaryWrites
      <4> QED
        BY <2>2, <2>4, <4>1 DEF BinaryWrites
    <3> QED
      BY <3>4, <3>5, LaunchSteps
  <2>5. ASSUME NEW n \in Nat, LaunchRead(n) PROVE PtInv'
    <3> DEFINE s == line \o SubSeq(ptWritten, 1, n)
    <3>1. n \in 1..Len(ptWritten) /\ UNCHANGED <<socks, app>>
      BY <2>5 DEF LaunchRead, connVars
    <3>2. SubSeq(ptWritten, 1, n) \in Seq(S) /\ SubSeq(ptWritten, n + 1, Len(ptWritten)) \in Seq(S)
      BY <2>3, <3>1
    <3>3. s \in Seq(S)
      BY <2>3, <3>2
    <3>4. line' = SubSeq(s, 2 * LineCount(s) + 1, Len(s)) /\ ptWritten' = SubSeq(ptWritten, n + 1, Len(ptWritten))
      BY <2>5 DEF LaunchRead
    <3>5. PICK a, b : proc' = [proc EXCEPT !.addr = a, !.state = b] /\ a \in BOOLEAN
                     /\ b \in {"waiting", "ready", "failed"}
      <4> DEFINE used == UsedLines(s)
                 ends == {i \in used : LineEnds(Line(s, i))}
                 a == proc.addr \/ \E i \in used : Line(s, i) = "method"
                 b == IF ends = {} THEN proc.state
                      ELSE IF \E i \in ends : Line(s, i) = "done" THEN "ready" ELSE "failed"
      <4>1. proc' = [proc EXCEPT !.addr = a, !.state = b]
        BY <2>5 DEF LaunchRead
      <4>2. b \in {"waiting", "ready", "failed"} /\ a \in BOOLEAN
        BY <2>2
      <4> HIDE DEF a, b
      <4> QED
        BY <4>1, <4>2
    <3> HIDE DEF s
    <3>6. proc' \in Procs
      BY <2>2, <3>5
    <3>7. line' \in Seq(S) /\ Len(line') <= 1
      BY <3>3, <3>4, LineRest
    <3> QED
      BY <3>1, <3>2, <3>4, <3>6, <3>7, LaunchSteps
  <2>6. CASE LaunchTimeout
    <3>1. proc' \in Procs
      BY <2>2, <2>6 DEF LaunchTimeout
    <3>2. ptWritten' \in Seq(S) /\ line' \in Seq(S) /\ Len(line') <= 1 /\ UNCHANGED <<socks, app>>
      BY <2>2, <2>3, <2>6 DEF LaunchTimeout, connVars
    <3> QED
      BY <3>1, <3>2, LaunchSteps
  <2>7. ASSUME NEW b \in BOOLEAN, PtConnect(b) PROVE PtInv'
    <3>1. UNCHANGED launchVars /\ app.calls = 0 /\ socks.state = "none"
      BY <2>7 DEF PtConnect
    <3>2. CASE socks' = [NoConn EXCEPT !.state = "method", !.reading = "socks"] /\ UNCHANGED app
      <4>1. SocksRecord(socks')
        BY <3>2 DEF NoConn, SocksRecord
      <4> QED
        BY <2>2, <3>1, <3>2, <4>1, SocksSteps
    <3>3. CASE app' = [app EXCEPT !.calls = @ + 1] /\ UNCHANGED socks
      <4>1. app' = [calls |-> app'.calls, got |-> app'.got] /\ app'.calls = 1
        BY <2>2, <3>1, <3>3
      <4> QED
        BY <2>2, <3>1, <3>3, <4>1, SocksSteps
    <3> QED
      BY <2>7, <3>2, <3>3 DEF PtConnect
  <2>8. CASE FarEndSends \/ \E b \in BOOLEAN : ProxyAnswers(b)
    <3>1. UNCHANGED <<launchVars, socks, app>>
      BY <2>8 DEF FarEndSends, ProxyAnswers
    <3> QED
      BY <2>2, <3>1, SocksSteps
  <2>9. ASSUME Failed, UNCHANGED launchVars, socks.reading = "socks" PROVE PtInv'
    <3>1. SocksRecord(socks') /\ socks'.state = "closed"
      BY <2>9 DEF Failed, NoConn, SocksRecord
    <3>2. app.calls = 0
      BY <2>2, <2>9 DEF SocksRecord
    <3>3. app' = [calls |-> app'.calls, got |-> app'.got] /\ app'.calls = 1
      BY <2>2, <2>9, <3>2 DEF Failed
    <3> QED
      BY <2>9, <3>1, <3>3, SocksSteps
  <2>10. ASSUME NEW s, Negotiated(s), UNCHANGED launchVars, socks.reading = "socks" PROVE PtInv'
    <3>1. app.calls = 0 /\ socks.state \in {"method", "reply"}
      BY <2>2, <2>10 DEF SocksRecord
    <3>2. CASE Failed
      BY <2>9, <2>10, <3>2
    <3>3. CASE socks' = [socks EXCEPT !.buf = s] /\ UNCHANGED app
      <4>1. SocksRecord(socks')
        BY <2>2, <3>3 DEF SocksRecord
      <4> QED
        BY <2>2, <2>10, <3>1, <3>3, <4>1, SocksSteps
    <3>4. CASE socks' = [socks EXCEPT !.state = "reply", !.buf = Leftover(s)] /\ UNCHANGED app
      <4>1. SocksRecord(socks')
        BY <2>2, <2>10, <3>4 DEF SocksRecord
      <4> QED
        BY <2>2, <2>10, <3>1, <3>4, <4>1, SocksSteps
    <3>5. CASE /\ socks' = [socks EXCEPT !.state = "open", !.buf = <<>>, !.recv = Leftover(s), !.reading = "no"]
               /\ app' = [app EXCEPT !.calls = @ + 1]
      <4>1. SocksRecord(socks') /\ socks'.state = "open"
        BY <2>2, <3>5 DEF SocksRecord
      <4>2. app' = [calls |-> app'.calls, got |-> app'.got] /\ app'.calls = 1
        BY <2>2, <3>1, <3>5
      <4> QED
        BY <2>10, <4>1, <4>2, SocksSteps
    <3> QED
      BY <2>10, <3>2, <3>3, <3>4, <3>5 DEF Negotiated
  <2>11. ASSUME NEW n \in Nat, SocksRead(n) PROVE PtInv'
    BY <2>10, <2>11 DEF SocksRead
  <2>12. CASE SocksLost
    BY <2>9, <2>12 DEF SocksLost
  <2>13. ASSUME NEW r, NEW g, NEW x \in {"no", "frames"}, socks.state = "open", UNCHANGED launchVars,
                socks' = [socks EXCEPT !.recv = r, !.reading = x],
                app' = app \/ app' = [app EXCEPT !.got = g]
         PROVE  PtInv'
    <3>1. SocksRecord(socks') /\ socks'.state = "open"
      BY <2>2, <2>13 DEF SocksRecord
    <3>2. app' = [calls |-> app'.calls, got |-> app'.got] /\ app'.calls = app.calls
      BY <2>2, <2>13
    <3> QED
      BY <2>2, <2>13, <3>1, <3>2, SocksSteps
  <2>14. socks.reading = "frames" => socks.state = "open"
    BY <2>2 DEF SocksRecord
  <2>15. socks = [socks EXCEPT !.recv = socks.recv]
    BY <2>2 DEF SocksRecord
  <2>16. CASE PtRecvStart
    BY <2>13, <2>16 DEF PtRecvStart
  <2>17. CASE PtRecvStop
    <3>1. socks' = [socks EXCEPT !.recv = socks.recv, !.reading = "no"]
      BY <2>15, <2>17 DEF PtRecvStop
    <3> QED
      BY <2>13, <2>14, <2>17, <3>1 DEF PtRecvStop
  <2>18. ASSUME NEW n \in Nat, PtRead(n) PROVE PtInv'
    <3>1. PICK r, g : socks' = [socks EXCEPT !.recv = r] /\ app' = [app EXCEPT !.got = g]
      BY <2>18 DEF PtRead
    <3>2. socks.reading = "frames" /\ UNCHANGED launchVars
      BY <2>18 DEF PtRead
    <3>3. socks' = [socks EXCEPT !.recv = r, !.reading = "frames"]
      BY <2>2, <3>1, <3>2 DEF SocksRecord
    <3> QED
      BY <2>13, <2>14, <3>1, <3>2, <3>3
  <2>19. \A n \in 1..(2 * MaxLines) : n \in Nat
    BY <2>2
  <2>20. \A n \in 1..(2 * PtFrames + 2) : n \in Nat
    OBVIOUS
  <2> QED
    BY <2>1, <2>4, <2>5, <2>6, <2>7, <2>8, <2>11, <2>12, <2>16, <2>17, <2>18, <2>19, <2>20 DEF PtNext
<1>3. PtInv => PtTypeOK
  BY DEF PtInv, PtTypeOK, SocksRecord
<1> QED
  BY <1>1, <1>2, <1>3

\* The entries of the resolver's cache.
CacheOK == cache \in [1..CacheSlots -> [host : Hosts \union {""}, left : 0..CacheTTL]]

\* An answer goes into a slot that exists.
LEMMA FreeSlotExists == CacheOK => FreeSlot \in 1..CacheSlots
<1> SUFFICES ASSUME CacheOK PROVE FreeSlot \in 1..CacheSlots
  OBVIOUS
<1> DEFINE free == {i \in 1..CacheSlots : cache[i].left = 0}
<1>1. free = {} => FreeSlot = 1
  BY DEF FreeSlot
<1>2. CacheSlots \in Nat \ {0} /\ free \subseteq Nat /\ free \subseteq 1..CacheSlots
  BY ResolverAssumption
<1>3. free # {} => FreeSlot = CHOOSE i \in free : \A j \in free : i <= j
  BY DEF FreeSlot
<1> HIDE DEF free
<1>4. free # {} => \E i \in free : \A j \in free : i <= j
  BY <1>2, LeastNatural
<1>5. free # {} => (CHOOSE i \in free : \A j \in free : i <= j) \in free
  BY <1>4
<1>6. 1 \in 1..CacheSlots
  BY <1>2
<1>7. CASE free = {}
  BY <1>1, <1>6, <1>7
<1>8. CASE free # {}
  BY <1>2, <1>3, <1>5, <1>8
<1> QED
  BY <1>7, <1>8

\* The cache holds at the start, and every step of the resolver keeps it.
LEMMA CacheKept ==
    /\ ResolverInit => CacheOK
    /\ ResolverInv /\ CacheOK /\ [ResolverNext]_resolverVars => CacheOK'
    /\ ResolverInv /\ CacheOK => ResolverTypeOK
<1>1. ResolverInit => CacheOK
  <2>1. NotCached \in [host : Hosts \union {""}, left : 0..CacheTTL]
    BY ResolverAssumption DEF NotCached
  <2> QED
    BY <2>1 DEF ResolverInit, CacheOK
<1>2. ResolverInv /\ CacheOK /\ [ResolverNext]_resolverVars => CacheOK'
  <2> SUFFICES ASSUME ResolverInv, CacheOK, [ResolverNext]_resolverVars PROVE CacheOK'
    OBVIOUS
  <2> DEFINE E == [host : Hosts \union {""}, left : 0..CacheTTL]
  <2>t. CacheTTL \in Nat /\ CacheTTL \in 0..CacheTTL
    <3>1. CacheTTL \in Nat
      BY ResolverAssumption
    <3> QED
      BY <3>1
  <2>1. CASE UNCHANGED cache
    BY <2>1 DEF CacheOK
  <2>2. ASSUME NEW r \in Requests, cache' = InCache(requests[r].host) PROVE CacheOK'
    <3>1. requests[r].host \in Hosts \union {""}
      BY DEF ResolverInv, Request
    <3>2. [host |-> requests[r].host, left |-> CacheTTL] \in E
      BY <2>t, <3>1
    <3>3. cache' = [cache EXCEPT ![FreeSlot] = [host |-> requests[r].host, left |-> CacheTTL]]
      BY <2>2 DEF InCache
    <3> QED
      BY <3>2, <3>3, FreeSlotExists DEF CacheOK
  <2>3. CASE ResolverTick
    <3> DEFINE new(i) == IF cache[i].left > 0 THEN [cache[i] EXCEPT !.left = @ - 1] ELSE cache[i]
    <3>1. ASSUME NEW i \in 1..CacheSlots PROVE new(i) \in E
      <4>1. cache[i] \in E
        BY DEF CacheOK
      <4>2. cache[i].left > 0 => cache[i].left - 1 \in 0..CacheTTL
        <5>1. cache[i].left \in 0..CacheTTL
          BY <4>1
        <5>2. \A x \in 0..CacheTTL : x > 0 => x - 1 \in 0..CacheTTL
          BY <2>t
        <5> QED
          BY <5>1, <5>2
      <4>3. CASE cache[i].left > 0
        BY <4>1, <4>2, <4>3
      <4> QED
        BY <4>1, <4>3
    <3>2. cache' = [i \in 1..CacheSlots |-> new(i)]
      BY <2>3 DEF ResolverTick
    <3> HIDE DEF new
    <3> QED
      BY <3>1, <3>2 DEF CacheOK
  <2>4. ASSUME NEW r \in Requests, NEW host \in Hosts, Resolve(r, host) \/ ResolveTxt(r, host) PROVE CacheOK'
    BY <2>1, <2>4 DEF Resolve, ResolveTxt
  <2>5. ASSUME NEW r \in Requests, DohPosted(r) \/ PostFailed(r) \/ SystemAnswers(r) \/ TxtPosted(r)
        PROVE  CacheOK'
    BY <2>1, <2>2, <2>5 DEF DohPosted, PostFailed, SystemAnswers, TxtPosted
  <2>6. CASE UNCHANGED resolverVars
    BY <2>1, <2>6 DEF resolverVars
  <2> QED
    BY <2>3, <2>4, <2>5, <2>6 DEF ResolverNext
<1>3. ResolverInv /\ CacheOK => ResolverTypeOK
  BY DEF ResolverInv, CacheOK, ResolverTypeOK, Request
<1> QED
  BY <1>1, <1>2, <1>3

\* A call that calls back once at most has no count above 1.
LEMMA ConnectTypes == ConnectInv => ConnectTypeOK
<1> SUFFICES ASSUME ConnectInv PROVE ConnectTypeOK
  OBVIOUS
<1>1. ASSUME NEW c \in Tunnels PROVE answers[c] \in [tunnel : 0..2, error : 0..2]
  <2>1. answers[c] \in [tunnel : Nat, error : Nat]
    BY DEF ConnectInv
  <2>2. answers[c].tunnel + answers[c].error <= 1
    BY DEF ConnectInv, ConnectedOnce
  <2> QED
    BY <2>1, <2>2
<1>2. answers \in [Tunnels -> [tunnel : 0..2, error : 0..2]]
  BY <1>1 DEF ConnectInv
<1> QED
  BY <1>2 DEF ConnectInv, ConnectTypeOK

-----------------------------------------------------------------------------
(* All of them in one behaviour. *)

\* A component that is not engaged stays as it is.
LEMMA EngagedSteps ==
    ASSUME [CallsNext]_callVars
    PROVE  /\ [LookupNext]_lookupVars /\ [LinkNext]_linkVars /\ [ResolverNext]_resolverVars
           /\ [ConnectNext]_connectVars
<1>1. CASE UNCHANGED callVars
  BY <1>1 DEF callVars
<1>2. ASSUME OthersRest, engaged # "link" PROVE UNCHANGED linkVars
  BY <1>2 DEF OthersRest, Rests
<1>3. ASSUME OthersRest, engaged # "resolver" PROVE UNCHANGED resolverVars
  BY <1>3 DEF OthersRest, Rests
<1>4. ASSUME OthersRest, engaged # "connect" PROVE UNCHANGED connectVars
  BY <1>4 DEF OthersRest, Rests
<1>6. ASSUME OthersRest, engaged # "lookup" PROVE UNCHANGED lookupVars
  BY <1>6 DEF OthersRest, Rests
<1>5. CASE CallsNext
  BY <1>2, <1>3, <1>4, <1>5, <1>6 DEF CallsNext, LookupStep, LinkStep, BootstrapStep, DeadmanStep, PtStep,
                                 ResolverStep, ConnectStep
<1> QED
  BY <1>1, <1>5

\* The stream transports keep the contract of a connection in every behaviour of the calls: a
\* user is offered a connection at most once, hears nothing before that or after it closed it,
\* and receives a prefix of what the other side sent, for every transport, any number of frames
\* and wherever reads cut them (tcp.c, websocket.c, tls.c).
THEOREM KeepsContractHolds == CallsSpec => KeepsContract
<1>1. CallsInit => LinkInit
  BY DEF CallsInit
<1>2. [CallsNext]_callVars => [LinkNext]_linkVars
  BY EngagedSteps
<1>3. CallsSpec => LinkSafety
  BY <1>1, <1>2, PTL DEF CallsSpec, LinkSafety
<1> QED
  BY <1>3, LinkKeepsContract

\* The invariants of the lookups, the resolver and the connections to services together.
AnswersInv == Steady /\ ResolverInv /\ ConnectInv

\* A caller is called back once, and not twice, whatever of its paths, replicas, covers, resolvers
\* or circuits end, in any order and as early as before the call returns, and with a value only
\* that as many nodes gave as have to agree: for any numbers of nodes, calls, RPC slots and paths
\* (dht.c, pir.c but for the double answer of its line 395, doh.c, service.c).
THEOREM AnswersHoldHolds == CallsSpec => []AnswersHold
<1>1. CallsInit => AnswersInv
  BY SteadyStarts, ResolverKeeps, ConnectKeeps DEF CallsInit, AnswersInv
<1>2. AnswersInv /\ [CallsNext]_callVars => AnswersInv'
  <2> SUFFICES ASSUME AnswersInv, [CallsNext]_callVars PROVE AnswersInv'
    OBVIOUS
  <2>1. [LookupNext]_lookupVars /\ [ResolverNext]_resolverVars /\ [ConnectNext]_connectVars
    BY EngagedSteps
  <2>2. Steady'
    BY <2>1, SteadyKept DEF AnswersInv
  <2>3. ResolverInv'
    BY <2>1, ResolverKeeps DEF AnswersInv
  <2>4. ConnectInv'
    BY <2>1, ConnectKeeps DEF AnswersInv
  <2> QED
    BY <2>2, <2>3, <2>4 DEF AnswersInv
<1>3. AnswersInv => AnswersHold
  BY SteadyAnswers, ResolverKeeps, ConnectKeeps DEF AnswersInv, AnswersHold
<1> QED
  BY <1>1, <1>2, <1>3, PTL DEF CallsSpec

\* The components that the type invariant looks at stay as they are or take a step of their own.
LEMMA EngagedOthers ==
    ASSUME [CallsNext]_callVars
    PROVE  [BootstrapNext]_bootVars /\ [PtNext]_ptVars
<1>1. CASE UNCHANGED callVars
  BY <1>1 DEF callVars
<1>2. ASSUME OthersRest, engaged # "bootstrap" PROVE UNCHANGED bootVars
  BY <1>2 DEF OthersRest, Rests
<1>3. ASSUME OthersRest, engaged # "transport" PROVE UNCHANGED ptVars
  BY <1>3 DEF OthersRest, Rests
<1>4. CASE CallsNext
  BY <1>2, <1>3, <1>4 DEF CallsNext, LookupStep, LinkStep, BootstrapStep, DeadmanStep, PtStep,
                          ResolverStep, ConnectStep
<1> QED
  BY <1>1, <1>4

\* The invariants of all of them.
ShapesInv == AnswersInv /\ LinkInv /\ HalvesOK /\ BootstrapInv /\ PtInv /\ CacheOK

\* The state of every operation keeps its shape for any size of it: no lookup asks whom it has
\* not been told of or waits for nobody, no parser keeps a whole frame or line, nobody is told
\* twice of a bootstrap or a launch, and no cache slot outlives its time (dht.c, tcp.c,
\* bootstrap.c, pt_subprocess.c, doh.c, service.c).
THEOREM CallsTypeOKHolds == CallsSpec => []CallsTypeOK
<1>1. CallsInit => ShapesInv
  <2> SUFFICES ASSUME CallsInit PROVE ShapesInv
    OBVIOUS
  <2>1. AnswersInv
    BY SteadyStarts, ResolverKeeps, ConnectKeeps DEF CallsInit, AnswersInv
  <2>2. LinkInv /\ HalvesOK
    BY LinkInvInit, PartsKept DEF CallsInit
  <2>3. BootstrapInv /\ PtInv /\ CacheOK
    BY BootstrapKeeps, PtKeeps, CacheKept DEF CallsInit
  <2> QED
    BY <2>1, <2>2, <2>3 DEF ShapesInv
<1>2. ShapesInv /\ [CallsNext]_callVars => ShapesInv'
  <2> SUFFICES ASSUME ShapesInv, [CallsNext]_callVars PROVE ShapesInv'
    OBVIOUS
  <2>1. /\ [LookupNext]_lookupVars /\ [ResolverNext]_resolverVars /\ [ConnectNext]_connectVars
        /\ [LinkNext]_linkVars /\ [BootstrapNext]_bootVars /\ [PtNext]_ptVars
    BY EngagedSteps, EngagedOthers
  <2>2. AnswersInv'
    BY <2>1, SteadyKept, ResolverKeeps, ConnectKeeps DEF ShapesInv, AnswersInv
  <2>3. LinkInv'
    BY <2>1, LinkInvNext DEF ShapesInv
  <2>4. HalvesOK'
    BY <2>1, PartsKept DEF ShapesInv
  <2>5. BootstrapInv'
    BY <2>1, BootstrapKeeps DEF ShapesInv
  <2>6. PtInv'
    BY <2>1, PtKeeps DEF ShapesInv
  <2>7. CacheOK'
    BY <2>1, CacheKept DEF ShapesInv, AnswersInv
  <2> QED
    BY <2>2, <2>3, <2>4, <2>5, <2>6, <2>7 DEF ShapesInv
<1>3. ShapesInv => CallsTypeOK
  BY SteadyTypes, PartsKept, BootstrapKeeps, PtKeeps, CacheKept, ConnectTypes
     DEF ShapesInv, AnswersInv, CallsTypeOK
<1> QED
  BY <1>1, <1>2, <1>3, PTL DEF CallsSpec
=============================================================================
