----------------------------- MODULE StreamLink -----------------------------
(***************************************************************************)
(* One connection of the stream transports: plain TCP (tcp.c), WebSocket   *)
(* (websocket.c), TLS 1.3 (tls.c) and TLS to a fronting host that forwards *)
(* after an HTTP CONNECT (tls.c).  A frame crosses the byte stream in two  *)
(* halves and a read takes any number of the bytes that have arrived, so   *)
(* reads cut frames and handshake flights anywhere.  What is inside a      *)
(* frame (tag, camouflage, morph) is the subject of FrameStream.           *)
(*                                                                         *)
(* The user of a connection starts receiving in the callback that offers   *)
(* it and closes it in the callback that reports an error, as              *)
(* src/src/sdk/client.c does.  A TLS close_notify is the end of stream.    *)
(***************************************************************************)
EXTENDS Naturals, Sequences, SequencesExt

CONSTANTS LinkKinds,        \* the transports: "tcp", "websocket", "tls", "fronted"
          MaxFrames     \* bound: frames each side sends

Sides == {"client", "server"}
Other(s) == IF s = "client" THEN "server" ELSE "client"

ASSUME StreamLinkAssumption ==
    LinkKinds \subseteq {"tcp", "websocket", "tls", "fronted"} /\ MaxFrames \in Nat

VARIABLES kind,     \* the transport of this connection
          life,     \* "idle", "upgrading", "open", "closing", "gone", "failed", "dead"
          stage,    \* flights of the upgrade each side has taken
          wire,     \* bytes on their way to each side
          raw,      \* bytes read and not yet passed on (bio_in, buf)
          part,     \* bytes in the frame parser
          written,  \* frames each side passed to send
          delivered \* frames each side's receive callback got

linkVars == <<kind, life, stage, wire, raw, part, written, delivered>>

-----------------------------------------------------------------------------
\* The flights a side waits for before the connection is offered to its user,
\* each with the flights that may answer it.
WsFlights(s) ==
    IF s = "client" THEN << [on |-> "101", reply |-> {<<>>}] >>
    ELSE << [on |-> "GET", reply |-> {<<"101">>}] >>

\* A server without a usable certificate ends the handshake with an alert.
TlsFlights(s) ==
    IF s = "client" THEN << [on |-> "flight", reply |-> {<<"finished">>}] >>
    ELSE << [on |-> "hello", reply |-> {<<"flight">>, <<"alert">>}],
            [on |-> "finished", reply |-> {<<>>}] >>

\* The fronting host answers CONNECT, or refuses it.
FrontedFlights(s) ==
    IF s = "client"
    THEN << [on |-> "flight", reply |-> {<<"finished", "CONNECT">>}],
            [on |-> "200", reply |-> {<<>>}] >>
    ELSE << [on |-> "hello", reply |-> {<<"flight">>}],
            [on |-> "finished", reply |-> {<<>>}],
            [on |-> "CONNECT", reply |-> {<<"200">>, <<"403">>}] >>

Flights(s) == CASE kind = "tcp" -> <<>>
                [] kind = "websocket" -> WsFlights(s)
                [] kind = "tls" -> TlsFlights(s)
                [] kind = "fronted" -> FrontedFlights(s)

\* A connected socket is offered to the user at once, or after the upgrade.
Connected(s) == IF Flights(s) = <<>> THEN "open" ELSE "upgrading"

\* What the client writes as soon as TCP is connected.
Opening == CASE kind = "tcp" -> <<>>
             [] kind = "websocket" -> <<"GET">>
             [] OTHER -> <<"hello">>

\* Bytes that arrive behind the last flight are parsed at once, or they wait
\* for the next read: ws_read_cb goes on to ws_deliver_frames only on the
\* accepting side, tls_continue_handshake never reads what is behind Finished,
\* tls_drain_ssl_read goes on after the answer to CONNECT.
PassesOn(s) == \/ kind = "websocket" /\ s = "server"
               \/ kind = "fronted"

\* A flight is one unit of the stream, a frame two.
Units(flights) == [i \in DOMAIN flights |-> <<flights[i]>>]
EndOfStream == <<"eof">>
Halves(f) == << <<f, 1>>, <<f, 2>> >>
FramesIn(bytes) == [i \in 1..Len(bytes) \div 2 |-> bytes[2 * i][1]]

\* Faulty variant of RestOf: a frame that is cut is not kept for the next read.
RestOfDropped(bytes) == <<>>

RestOf(bytes) == SubSeq(bytes, 2 * (Len(bytes) \div 2) + 1, Len(bytes))

LinkInit ==
    /\ kind \in LinkKinds
    /\ life = [s \in Sides |-> "idle"] /\ stage = [s \in Sides |-> 0]
    /\ wire = [s \in Sides |-> <<>>] /\ raw = [s \in Sides |-> <<>>]
    /\ part = [s \in Sides |-> <<>>]
    /\ written = [s \in Sides |-> <<>>] /\ delivered = [s \in Sides |-> <<>>]

\* *_on_connect: the client's connection is offered at once, or its first
\* flight is sent.
Dialled ==
    /\ life["client"] = "idle"
    /\ life' = [life EXCEPT !["client"] = Connected("client")]
    /\ wire' = [wire EXCEPT !["server"] = Units(Opening)]
    /\ UNCHANGED <<kind, stage, raw, part, written, delivered>>

\* *_on_connect with an error status.
DialFails ==
    /\ life["client"] = "idle" /\ life' = [life EXCEPT !["client"] = "failed"]
    /\ UNCHANGED <<kind, stage, wire, raw, part, written, delivered>>

\* *_on_connection.
Accepted ==
    /\ life["client"] \notin {"idle", "failed"} /\ life["server"] = "idle"
    /\ life' = [life EXCEPT !["server"] = Connected("server")]
    /\ UNCHANGED <<kind, stage, wire, raw, part, written, delivered>>

\* The bytes a read may take: some of those that have arrived, the end of the
\* stream apart.
Readable(s) == {n \in 1..Len(wire[s]) : \A i \in 1..n : wire[s][i] # EndOfStream}
Take(s, n) == SubSeq(wire[s], 1, n)
Leave(s, n) == SubSeq(wire[s], n + 1, Len(wire[s]))

\* trellis_frame_deliver: every complete frame goes to the receive callback.
Parse(s, bytes) ==
    /\ delivered' = [delivered EXCEPT ![s] = @ \o FramesIn(bytes)]
    /\ part' = [part EXCEPT ![s] = RestOf(bytes)]

\* Faulty variant of ReadOpen: the bytes that waited are kept after they were parsed.
ReadOpenKeepsRaw(s) ==
    /\ life[s] = "open"
    /\ \E n \in Readable(s) :
        /\ Parse(s, part[s] \o raw[s] \o Take(s, n))
        /\ wire' = [wire EXCEPT ![s] = Leave(s, n)]
    /\ UNCHANGED <<kind, life, stage, written, raw>>

\* A read on an open connection: what waited goes first.
ReadOpen(s) ==
    /\ life[s] = "open"
    /\ \E n \in Readable(s) :
        /\ Parse(s, part[s] \o raw[s] \o Take(s, n))
        /\ raw' = [raw EXCEPT ![s] = <<>>]
        /\ wire' = [wire EXCEPT ![s] = Leave(s, n)]
    /\ UNCHANGED <<kind, life, stage, written>>

\* A read during the upgrade: a flight that is expected is answered, and the
\* last one offers the connection to its user.
ReadUpgrading(s) ==
    /\ life[s] = "upgrading"
    /\ \E n \in Readable(s) : \E bytes \in {raw[s] \o Take(s, n)} :
        LET flights == Flights(s)
            expected == flights[stage[s] + 1]
            last == stage[s] + 1 = Len(flights)
        IN  IF Head(bytes) # <<expected.on>>
            THEN /\ raw' = [raw EXCEPT ![s] = bytes]
                 /\ wire' = [wire EXCEPT ![s] = Leave(s, n)]
                 /\ life' = [life EXCEPT ![s] = IF Head(bytes) = <<"alert">> THEN "failed" ELSE @]
                 /\ UNCHANGED <<stage, part, delivered>>
            ELSE /\ stage' = [stage EXCEPT ![s] = @ + 1]
                 /\ \E answer \in expected.reply :
                    /\ wire' = [wire EXCEPT ![s] = Leave(s, n), ![Other(s)] =
                                 IF life[Other(s)] = "gone" THEN @ ELSE @ \o Units(answer)]
                    /\ life' = [life EXCEPT ![s] =
                                 IF answer \in {<<"alert">>, <<"403">>} THEN "dead"
                                 ELSE IF last THEN "open" ELSE @]
                 /\ IF last /\ PassesOn(s)
                    THEN Parse(s, Tail(bytes)) /\ raw' = [raw EXCEPT ![s] = <<>>]
                    ELSE raw' = [raw EXCEPT ![s] = Tail(bytes)] /\ UNCHANGED <<part, delivered>>
    /\ UNCHANGED <<kind, written>>

\* The end of the stream.  An open connection is closed by its user; a
\* WebSocket client that is still upgrading reports that it failed; a TLS side
\* in the handshake has no receive callback and reports nothing.
ReadEnd(s) ==
    /\ life[s] \in {"upgrading", "open"} /\ wire[s] # <<>> /\ Head(wire[s]) = EndOfStream
    /\ life' = [life EXCEPT ![s] = IF @ = "open" THEN "closing"
                                   ELSE IF kind = "websocket" /\ s = "client" THEN "failed"
                                   ELSE "dead"]
    /\ wire' = [wire EXCEPT ![s] = <<>>]
    /\ UNCHANGED <<kind, stage, raw, part, written, delivered>>

\* The bytes a side still had to write are lost from any point on.
Cut(s) == \E n \in 0..Len(wire[Other(s)]) :
    wire' = [wire EXCEPT ![Other(s)] =
        IF @ # <<>> /\ Last(@) = EndOfStream THEN @ ELSE Append(SubSeq(@, 1, n), EndOfStream)]

\* conn->vtable->send on an open connection.  Nothing travels to a side that
\* is no more.
Send(s) ==
    /\ life[s] = "open" /\ Len(written[s]) < MaxFrames
    /\ LET f == Len(written[s]) + 1
       IN  /\ written' = [written EXCEPT ![s] = Append(@, f)]
           /\ wire' = [wire EXCEPT ![Other(s)] =
                IF life[Other(s)] \in {"closing", "gone", "dead", "failed"} THEN @ ELSE @ \o Halves(f)]
    /\ UNCHANGED <<kind, life, stage, raw, part, delivered>>

\* conn->vtable->close, then the close callback of the handle.
Close(s) ==
    /\ life[s] = "open" /\ life' = [life EXCEPT ![s] = "closing"]
    /\ UNCHANGED <<kind, stage, wire, raw, part, written, delivered>>

CloseEnds(s) ==
    /\ life[s] = "closing" /\ life' = [life EXCEPT ![s] = "gone"]
    /\ Cut(s)
    /\ UNCHANGED <<kind, stage, raw, part, written, delivered>>

\* The process on the other side of a connection that is being upgraded ends.
ServerDies ==
    /\ life["server"] = "upgrading" /\ life' = [life EXCEPT !["server"] = "dead"]
    /\ Cut("server")
    /\ UNCHANGED <<kind, stage, raw, part, written, delivered>>

Read(s) == ReadOpen(s) \/ ReadUpgrading(s) \/ ReadEnd(s)

LinkNext ==
    \/ Dialled \/ DialFails \/ Accepted \/ ServerDies
    \/ \E s \in Sides : Read(s) \/ Send(s) \/ Close(s) \/ CloseEnds(s)

\* The event loop accepts, reads what has arrived and runs close callbacks.
LinkFairness ==
    /\ WF_linkVars(Accepted)
    /\ \A s \in Sides : WF_linkVars(Read(s)) /\ WF_linkVars(CloseEnds(s))

LinkSpec == LinkInit /\ [][LinkNext]_linkVars /\ LinkFairness

-----------------------------------------------------------------------------
\* Each side's buffers hold parts of the stream only.
LinkTypeOK ==
    /\ kind \in LinkKinds
    /\ \A s \in Sides :
        /\ life[s] \in {"idle", "upgrading", "open", "closing", "gone", "failed", "dead"}
        /\ stage[s] \in 0..Len(Flights(s))
        /\ Len(part[s]) <= 1 /\ Len(written[s]) <= MaxFrames

\* What the users are told.
ToldUser == [s \in Sides |->
    CASE life[s] \in {"idle", "upgrading", "dead"} -> "no"
      [] life[s] = "open" -> "yes"
      [] life[s] = "gone" -> "closed"
      [] OTHER -> life[s]]

\* The transports keep the promise of a connection: offered at most once, and
\* a prefix of what was sent, in order, only while the side has it open.
Contract == INSTANCE Channel WITH
    Ends <- Sides, offered <- ToldUser, sent <- written, got <- delivered
KeepsContract == Contract!ChannelSpec

Ended == \E s \in Sides : life[s] \notin {"idle", "upgrading", "open"}

\* A frame sent on a connection that stays open arrives, over plain TCP and in
\* the direction whose last flight does not hold back what follows it.
SentArrives ==
    \A s \in Sides : \A n \in 1..MaxFrames :
        (/\ Len(written[s]) >= n
         /\ \/ kind \in {"tcp", "fronted"}
            \/ kind = "websocket" /\ s = "client"
            \/ kind = "tls" /\ s = "server")
            ~> (Len(delivered[Other(s)]) >= n \/ Ended)
=============================================================================
