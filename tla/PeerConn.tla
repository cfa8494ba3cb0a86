------------------------------ MODULE PeerConn ------------------------------
(***************************************************************************)
(* The connections between two clients (src/src/sdk/client.c): dialling,   *)
(* the proof-of-work gate, the three handshake messages, the handshake     *)
(* timers, the removal of duplicate connections and of dead ones.          *)
(*                                                                         *)
(* Both may dial, and dial again: peer exchange and reconnection dial an   *)
(* address although a dial to it is under way.  A connection is a reliable *)
(* ordered stream; closing an end delivers EOF after what was sent.        *)
(***************************************************************************)
EXTENDS Naturals, Sequences, FiniteSets

CONSTANTS
    HigherDials,  \* connections that the node with the higher fingerprint may dial
    LowerDials    \* connections that the other one may dial, each at most once

\* "hi" has the higher fingerprint.
Node == {"hi", "lo"}
Other(n) == IF n = "hi" THEN "lo" ELSE "hi"
Conn == HigherDials \union LowerDials
Dialer == [c \in Conn |-> IF c \in HigherDials THEN "hi" ELSE "lo"]

\* Before the handshake is complete an entry's fingerprint is the hash of the
\* remote address: the same for all dials to an address, and for an accepted
\* connection one of its own.
Dialled == "hash of the listen address"
Real == "fingerprint"
NoTimer == "none"

\* No connection is dialled from both sides, nor named like a fingerprint or like no timer.
ASSUME DialAssumption ==
    /\ HigherDials \intersect LowerDials = {}
    /\ {Dialled, Real, NoTimer} \intersect Conn = {}

Placeholder(n, c) == IF Dialer[c] = n THEN Dialled ELSE c

VARIABLES
    ends,    \* what each end of a connection expects, and whether it is open
    peers,   \* client->peers of each node, in order
    timers,  \* running handshake timers of each node, in the order they expire;
             \* a timer is named by the connection whose setup started it
    chan,    \* what is in flight towards each end
    expired  \* a timer has given up on a connection

vars == <<ends, peers, timers, chan, expired>>

EndState == {"undialled", "wait_challenge", "pending_solution", "pending_hs1",
             "open", "closed"}
HsState == {"INIT", "AWAITING_MSG2", "AWAITING_MSG3", "COMPLETE"}

\* HS1 and its answer are of the handshake object that made HS1, named by the
\* connection whose entry holds it.
Plain(type) == [type |-> type]
Hs1(by) == [type |-> "HS1", by |-> by]
Hs2(by) == [type |-> "HS2", by |-> by]
Msg == {Plain(t) : t \in {"CHALLENGE", "SOLUTION", "HS3", "EOF"}} \union
       [type : {"HS1", "HS2"}, by : Conn]
Entry == [conn : Conn, fp : {Dialled, Real} \union Conn, hs : HsState,
          timer : Conn \union {NoTimer}]

Init ==
    /\ ends = [n \in Node |-> [c \in Conn |-> "undialled"]]
    /\ peers = [n \in Node |-> <<>>]
    /\ timers = [n \in Node |-> <<>>]
    /\ chan = [n \in Node |-> [c \in Conn |-> <<>>]]
    /\ expired = FALSE

-----------------------------------------------------------------------------
(* Channels. *)

Arrives(n, c, type) == chan[n][c] # <<>> /\ Head(chan[n][c]).type = type
Received(n, c) == [chan EXCEPT ![n][c] = Tail(@)]
\* m is put on c towards n, unless n's end is closed.
Put(ch, n, c, m) == IF ends[n][c] = "closed" THEN ch ELSE [ch EXCEPT ![n][c] = Append(@, m)]
\* n closes its ends of the connections in S.
Shut(ch, n, S) ==
    [k \in Node |-> [c \in Conn |->
        IF c \notin S THEN ch[k][c]
        ELSE IF k = n \/ ends[k][c] = "closed" THEN <<>> ELSE Append(ch[k][c], Plain("EOF"))]]
ShutEnds(n, S) == [ends EXCEPT ![n] = [c \in Conn |-> IF c \in S THEN "closed" ELSE @[c]]]

-----------------------------------------------------------------------------
(* The peers array and the timers. *)

ByConn(ps, c) == {i \in DOMAIN ps : ps[i].conn = c}
ByFp(ps, fp) == {i \in DOMAIN ps : ps[i].fp = fp}
First(S) == CHOOSE i \in S : \A j \in S : i <= j

\* Faulty variant of SwapRemoved: the count is not lowered.
SwapRemovedMiscounts(ps, i) == [ps EXCEPT ![i] = ps[Len(ps)]]

\* peers[i] = peers[--peer_conn_count]
SwapRemoved(ps, i) ==
    [j \in 1..(Len(ps) - 1) |-> IF j = i THEN ps[Len(ps)] ELSE ps[j]]

\* The timer t, if it is running, is stopped.
Without(ts, t) ==
    LET at == {j \in DOMAIN ts : ts[j] = t}
    IN IF at = {} THEN ts
       ELSE [j \in 1..(Len(ts) - 1) |-> IF j < First(at) THEN ts[j] ELSE ts[j + 1]]

\* trellis_client_setup_peer: a new entry, a timer for the first entry with its
\* fingerprint, and from the dialling side HS1, made by the handshake of that
\* first entry.
Added(n, c) == Append(peers[n], [conn |-> c, fp |-> Placeholder(n, c),
                                 hs |-> "INIT", timer |-> NoTimer])
FirstLike(n, c) == First(ByFp(Added(n, c), Placeholder(n, c)))
Timed(n, c) == [Added(n, c) EXCEPT ![FirstLike(n, c)].timer = c]

\* Faulty variant of Started: one timer is enough for each fingerprint.
StartedOnce(n, c) ==
    IF \E j \in DOMAIN timers[n] : Placeholder(n, timers[n][j]) = Placeholder(n, c)
    THEN timers ELSE [timers EXCEPT ![n] = Append(@, c)]

Started(n, c) == [timers EXCEPT ![n] = Append(@, c)]

\* The dialling end of c is set up; ch is the network before.
SetUpAsInitiator(n, c, ch) ==
    /\ ends' = [ends EXCEPT ![n][c] = "open"]
    /\ timers' = Started(n, c)
    /\ IF Timed(n, c)[FirstLike(n, c)].hs = "INIT"
       THEN /\ peers' = [peers EXCEPT ![n] =
                   [Timed(n, c) EXCEPT ![FirstLike(n, c)].hs = "AWAITING_MSG2"]]
            /\ chan' = Put(ch, Other(n), c, Hs1(Timed(n, c)[FirstLike(n, c)].conn))
       ELSE /\ peers' = [peers EXCEPT ![n] = Timed(n, c)]
            /\ chan' = ch

-----------------------------------------------------------------------------
(* Dialling and the proof-of-work gate. *)

\* The connection is made, and the accepting side sends its challenge.
Dial(c) ==
    /\ ends[Dialer[c]][c] = "undialled"
    /\ ends' = [ends EXCEPT ![Dialer[c]][c] = "wait_challenge",
                            ![Other(Dialer[c])][c] = "pending_solution"]
    /\ chan' = [chan EXCEPT ![Dialer[c]][c] = <<Plain("CHALLENGE")>>]
    /\ UNCHANGED <<peers, timers, expired>>

Solve(n, c) ==
    /\ ends[n][c] = "wait_challenge"
    /\ Arrives(n, c, "CHALLENGE")
    /\ SetUpAsInitiator(n, c, Put(Received(n, c), Other(n), c, Plain("SOLUTION")))
    /\ UNCHANGED expired

\* No challenge came in time: the handshake starts without a solution.
PowTimeout(n, c) ==
    /\ ends[n][c] = "wait_challenge"
    /\ SetUpAsInitiator(n, c, chan)
    /\ expired' = TRUE

\* The accepting side before HS1: anything but the expected message closes.
CheckSolution(n, c) ==
    /\ ends[n][c] = "pending_solution" /\ chan[n][c] # <<>>
    /\ IF Arrives(n, c, "SOLUTION")
       THEN /\ ends' = [ends EXCEPT ![n][c] = "pending_hs1"]
            /\ chan' = Received(n, c)
       ELSE /\ ends' = ShutEnds(n, {c})
            /\ chan' = Shut(chan, n, {c})
    /\ UNCHANGED <<peers, timers, expired>>

AcceptHs1(n, c) ==
    /\ ends[n][c] = "pending_hs1" /\ chan[n][c] # <<>>
    /\ IF Arrives(n, c, "HS1")
       THEN /\ ends' = [ends EXCEPT ![n][c] = "open"]
            /\ timers' = Started(n, c)
            /\ peers' = [peers EXCEPT ![n] =
                   [Timed(n, c) EXCEPT ![Len(peers[n]) + 1].hs = "AWAITING_MSG3"]]
            /\ chan' = Put(Received(n, c), Other(n), c, Hs2(Head(chan[n][c]).by))
       ELSE /\ ends' = ShutEnds(n, {c})
            /\ chan' = Shut(chan, n, {c})
            /\ UNCHANGED <<peers, timers>>
    /\ UNCHANGED expired

PendingTimeout(n, c) ==
    /\ ends[n][c] \in {"pending_solution", "pending_hs1"}
    /\ ends' = ShutEnds(n, {c})
    /\ chan' = Shut(chan, n, {c})
    /\ expired' = TRUE
    /\ UNCHANGED <<peers, timers>>

-----------------------------------------------------------------------------
(* The handshake. *)

Expects(n, c, hs) ==
    \E i \in ByConn(peers[n], c) : peers[n][i].hs = hs

\* finalize_handshake on entry i of n: its own timer stops, it gets the real
\* fingerprint, and the higher side closes the other connection to that peer.
Finalized(n, i) == [peers[n] EXCEPT ![i].hs = "COMPLETE", ![i].fp = Real,
                                    ![i].timer = NoTimer]
\* Faulty variants of Duplicates: both sides close duplicates; neither does.
DuplicatesOfBoth(n, i) == ByFp(Finalized(n, i), Real) \ {i}
NoDuplicates(n, i) == {}

Duplicates(n, i) ==
    IF n = "hi" THEN ByFp(Finalized(n, i), Real) \ {i} ELSE {}

\* ch is the network with the handshake message received and answered.
Finalize(n, c, ch) ==
    LET i == First(ByConn(peers[n], c))
        dup == Duplicates(n, i)
        closed == {peers[n][d].conn : d \in dup}
        stopped == Without(timers[n], peers[n][i].timer)
    IN /\ peers' = [peers EXCEPT ![n] =
              IF dup = {} THEN Finalized(n, i) ELSE SwapRemoved(Finalized(n, i), First(dup))]
       /\ timers' = [timers EXCEPT ![n] = stopped]
       /\ ends' = ShutEnds(n, closed)
       /\ chan' = Shut(ch, n, closed)

\* An answer to the HS1 of another handshake does not verify.
HandleHs2(n, c) ==
    /\ ends[n][c] = "open" /\ Arrives(n, c, "HS2")
    /\ IF Expects(n, c, "AWAITING_MSG2") /\ Head(chan[n][c]).by = c
       THEN Finalize(n, c, Put(Received(n, c), Other(n), c, Plain("HS3")))
       ELSE chan' = Received(n, c) /\ UNCHANGED <<ends, peers, timers>>
    /\ UNCHANGED expired

HandleHs3(n, c) ==
    /\ ends[n][c] = "open" /\ Arrives(n, c, "HS3")
    /\ IF Expects(n, c, "AWAITING_MSG3")
       THEN Finalize(n, c, Received(n, c))
       ELSE chan' = Received(n, c) /\ UNCHANGED <<ends, peers, timers>>
    /\ UNCHANGED expired

\* A challenge that comes after the wait for it is no message of the protocol.
IgnoreChallenge(n, c) ==
    /\ ends[n][c] = "open" /\ Arrives(n, c, "CHALLENGE")
    /\ chan' = Received(n, c)
    /\ UNCHANGED <<ends, peers, timers, expired>>

\* cleanup_peer_conn_at
Removed(n, i) ==
    /\ peers' = [peers EXCEPT ![n] = SwapRemoved(@, i)]
    /\ timers' = [timers EXCEPT ![n] = Without(@, peers[n][i].timer)]

\* The other end was closed.
HandleEof(n, c) ==
    /\ ends[n][c] \in {"wait_challenge", "open"}
    /\ Arrives(n, c, "EOF")
    /\ ends' = [ends EXCEPT ![n][c] = "closed"]
    /\ chan' = Received(n, c)
    /\ IF ByConn(peers[n], c) # {}
       THEN Removed(n, First(ByConn(peers[n], c))) ELSE UNCHANGED <<peers, timers>>
    /\ UNCHANGED expired

-----------------------------------------------------------------------------
(* Timers. *)

\* on_handshake_timeout: the first entry with the fingerprint the timer was
\* started for is removed if it is still incomplete.  Its connection is not
\* closed, and another timer it points to is not stopped.
HandshakeTimeout(n) ==
    LET t == Head(timers[n])
        found == ByFp(peers[n], Placeholder(n, t))
    IN /\ timers[n] # <<>>
       /\ timers' = [timers EXCEPT ![n] = Tail(@)]
       /\ IF found # {}
          THEN /\ peers' = [peers EXCEPT ![n] = SwapRemoved(@, First(found))]
               /\ expired' = TRUE
          ELSE UNCHANGED <<peers, expired>>
       /\ UNCHANGED <<ends, chan>>

\* Faulty variant of KeepaliveTimeout: looks at entries whose handshake is not
\* complete, where no PONG can be expected.
KeepaliveTimeoutIncomplete(n, c) ==
    /\ Expects(n, c, "AWAITING_MSG3")
    /\ chan[n][c] = <<>> /\ chan[Other(n)][c] = <<>>
    /\ Removed(n, First(ByConn(peers[n], c)))
    /\ UNCHANGED <<ends, chan, expired>>

\* on_keepalive_timer: no PONG for 90 s, because the other side has no complete
\* entry for the connection and so cannot read its frames.
KeepaliveTimeout(n, c) ==
    /\ Expects(n, c, "COMPLETE")
    /\ ~Expects(Other(n), c, "COMPLETE")
    /\ chan[n][c] = <<>> /\ chan[Other(n)][c] = <<>>
    /\ Removed(n, First(ByConn(peers[n], c)))
    /\ UNCHANGED <<ends, chan, expired>>

-----------------------------------------------------------------------------
Receive(n, c) ==
    \/ Solve(n, c)
    \/ CheckSolution(n, c)
    \/ AcceptHs1(n, c)
    \/ HandleHs2(n, c)
    \/ HandleHs3(n, c)
    \/ IgnoreChallenge(n, c)
    \/ HandleEof(n, c)

Next ==
    \/ \E c \in Conn : Dial(c)
    \/ \E n \in Node, c \in Conn : Receive(n, c)
    \/ \E n \in Node, c \in Conn : PowTimeout(n, c)
    \/ \E n \in Node, c \in Conn : PendingTimeout(n, c)
    \/ \E n \in Node : HandshakeTimeout(n)
    \/ \E n \in Node, c \in Conn : KeepaliveTimeout(n, c)

Spec == Init /\ [][Next]_vars

\* What arrives is handled, and timers fire.
Fairness ==
    /\ \A n \in Node, c \in Conn : WF_vars(Receive(n, c))
    /\ \A n \in Node, c \in Conn : WF_vars(KeepaliveTimeout(n, c))
    /\ \A n \in Node, c \in Conn : WF_vars(PowTimeout(n, c))
    /\ \A n \in Node : WF_vars(HandshakeTimeout(n))

FairSpec == Spec /\ Fairness

-----------------------------------------------------------------------------
(* Properties. *)

Complete(n) == {c \in Conn : Expects(n, c, "COMPLETE")}

\* The state is one the structures can hold, each connection in at most one
\* entry.
TypeOK ==
    /\ ends \in [Node -> [Conn -> EndState]]
    /\ \A n \in Node :
           /\ \A i \in DOMAIN peers[n] : peers[n][i] \in Entry
           /\ \A c \in Conn : Cardinality(ByConn(peers[n], c)) <= 1
           /\ \A i \in DOMAIN timers[n] : timers[n][i] \in Conn
           /\ \A c \in Conn : \A i \in DOMAIN chan[n][c] : chan[n][c][i] \in Msg

\* client.c:525 "only the side with the higher fingerprint closes duplicate
\* connections": that side never keeps two complete connections to a peer.
OneCompleteAtHigher == Cardinality(Complete("hi")) <= 1

\* As many timers run for a fingerprint as it has incomplete entries, so none of
\* them stays for ever, whichever entry each timer is noted in.
IncompleteAreTimed ==
    \A n \in Node : \A fp \in Conn \union {Dialled} :
        Cardinality(ByFp(peers[n], fp)) <=
            Cardinality({j \in DOMAIN timers[n] : Placeholder(n, timers[n][j]) = fp})

\* Every entry of the peer table has its shape, and one that is not complete will be looked at
\* by a timer (start_handshake_timer and cleanup_peer_conn_at in client.c).
EntriesOK == TypeOK /\ IncompleteAreTimed

Quiet ==
    /\ \A n \in Node, c \in Conn : chan[n][c] = <<>>
    /\ \A n \in Node, c \in Conn : ends[n][c] # "wait_challenge"

\* client.c:527 "this ensures both peers agree on which connection survives":
\* once everything in flight has been handled and no timer has interfered, the
\* two that have dialled keep exactly one connection, the same one.
AgreeOnOne ==
    Quiet /\ ~expired /\ (\E c \in Conn : ends[Dialer[c]][c] # "undialled") =>
        /\ Complete("hi") = Complete("lo")
        /\ Cardinality(Complete("hi")) = 1

\* Of two connections one survives: never more at the side that closes duplicates, and in the
\* end the same at both (finalize_handshake in client.c).
OneSurvives == OneCompleteAtHigher /\ AgreeOnOne

\* Whatever the timers did, the two end up in agreement on which connections are
\* complete: a connection that only one side believes in does not last.
AgreementReturns == []<>(Complete("hi") = Complete("lo"))
=============================================================================
