----------------------------- MODULE ClientSend -----------------------------
(***************************************************************************)
(* How a message leaves the client (src/src/sdk/client.c): the application *)
(* thread signs it and puts it on the batch or on the locked send list,    *)
(* the event loop takes the list and encrypts each message for each peer,  *)
(* and a jitter timer may hold a frame back.  Peers come, fall silent, are *)
(* dropped by the keepalive timer and dialled again; trellis_client_stop   *)
(* ends everything.  The routing mode is shared by both threads, and the   *)
(* steps that borrow it are separate here.                                 *)
(*                                                                         *)
(* The batch is not locked in the code: a flush by its timer and a call of *)
(* trellis_client_send_message are taken to exclude each other.            *)
(***************************************************************************)
EXTENDS Naturals, Sequences, FiniteSets, SequencesExt

CONSTANTS
    SendPeers,      \* addresses of other nodes
    Batched,        \* msg_batch_delay_ms > 0
    BatchMax,       \* msg_batch_max (32; 0 is no limit)
    ReconnectCap,   \* reconnect_cap (32)
    RouteModes,     \* trellis_routing_mode_t; "ONION" is one of them
    MaxSent,        \* bound: messages passed to trellis_client_send_message
    MaxDials        \* bound: dials

ASSUME ClientSendAssumption ==
    /\ Batched \in BOOLEAN /\ "ONION" \in RouteModes
    /\ {BatchMax, ReconnectCap, MaxSent, MaxDials} \subseteq Nat

VARIABLES
    running,     \* client->running
    accepted,    \* messages trellis_client_send_message returned TRELLIS_OK for
    batch,       \* batch_queue
    batchTimer,  \* batch_timer_active
    sendList,    \* send_head: the newest first
    frames,      \* frames made: message, peer, and whether it is still jittered
    discarded,   \* messages that stop freed with the send list
    linked,      \* peers with a complete handshake
    silent,      \* those of them without a PONG for 90 s
    reconnect,   \* reconnect_addrs
    dials,       \* addresses passed to trellis_transport_connect, in order
    route        \* mode, the application's choice, and what the borrowers saved

sendVars == <<running, accepted, batch, batchTimer, sendList, frames, discarded,
              linked, silent, reconnect, dials, route>>
peerVars == <<linked, silent, reconnect, dials>>
queueVars == <<accepted, batch, batchTimer, sendList, frames, discarded>>

Unborrowed == "none"
Frame == [msg : 1..MaxSent, peer : SendPeers, jittered : BOOLEAN]

\* The seed is dialled by trellis_client_start and kept for one more attempt.
SendInit ==
    /\ running = TRUE /\ accepted = 0
    /\ batch = <<>> /\ batchTimer = FALSE /\ sendList = <<>>
    /\ frames = {} /\ discarded = {}
    /\ linked = {} /\ silent = {}
    /\ \E seed \in SendPeers : reconnect = <<seed>> /\ dials = <<seed>>
    /\ route \in [mode : RouteModes, choice : RouteModes,
                  decoy : {Unborrowed}, exit : {Unborrowed}]
    /\ route.choice = route.mode

-----------------------------------------------------------------------------
(* The application thread. *)

\* queue_broadcast of one message after the other: a stack.
Queued(list, msgs) == Reverse(msgs) \o list

\* Faulty variant of Flushed: the count is not reset.
FlushedAgain(msgs) ==
    /\ batch' = msgs /\ batchTimer' = FALSE
    /\ \E f \in [1..Len(msgs) -> 1..Len(msgs)] :
        /\ \A i, j \in DOMAIN f : f[i] = f[j] => i = j
        /\ sendList' = Queued(sendList, [i \in DOMAIN f |-> msgs[f[i]]])

\* trellis_client_batch_flush, of the messages the batch now holds: shuffled.
Flushed(msgs) ==
    /\ batch' = <<>> /\ batchTimer' = FALSE
    /\ \E f \in [1..Len(msgs) -> 1..Len(msgs)] :
        /\ \A i, j \in DOMAIN f : f[i] = f[j] => i = j
        /\ sendList' = Queued(sendList, [i \in DOMAIN f |-> msgs[f[i]]])

\* Messages left to the batch timer.
Held(msgs) ==
    /\ batch' = msgs /\ batchTimer' = TRUE
    /\ UNCHANGED sendList

\* trellis_client_send_message, and send_dm in direct mode when there is no batch.
SendMessage ==
    /\ running /\ accepted < MaxSent
    /\ accepted' = accepted + 1
    /\ LET msgs == Append(batch, accepted')
       IN \/ Batched /\ BatchMax > 0 /\ Len(msgs) >= BatchMax /\ Flushed(msgs)
          \/ Batched /\ (BatchMax = 0 \/ Len(msgs) < BatchMax) /\ Held(msgs)
          \/ ~Batched /\ sendList' = Queued(sendList, <<accepted'>>)
                      /\ UNCHANGED <<batch, batchTimer>>
    /\ UNCHANGED <<running, frames, discarded, route, peerVars>>

\* trellis_client_stop: the loop is joined first, the batch is flushed to the
\* list, the list is freed.
Stop ==
    /\ running
    /\ running' = FALSE
    /\ batch' = <<>> /\ batchTimer' = FALSE /\ sendList' = <<>>
    /\ discarded' = discarded \cup ToSet(batch) \cup ToSet(sendList)
    /\ frames' = {f \in frames : ~f.jittered}
    /\ linked' = {} /\ silent' = {} /\ reconnect' = <<>> /\ dials' = <<>>
    /\ UNCHANGED <<accepted, route>>

-----------------------------------------------------------------------------
(* The event loop. *)

BatchTimer ==
    /\ running /\ batchTimer
    /\ Flushed(batch)
    /\ UNCHANGED <<running, accepted, frames, discarded, route, peerVars>>

\* What on_send_async leaves of the list it takes.
Taken(list) == <<>>

\* on_send_async and broadcast_to_peers: every peer with a ratchet gets a frame,
\* at once or after a jitter delay.
OnSendAsync ==
    /\ running /\ sendList # <<>>
    /\ sendList' = Taken(sendList)
    /\ \E late \in BOOLEAN :
        frames' = frames \cup {[msg |-> m, peer |-> p, jittered |-> late] :
                                m \in ToSet(sendList), p \in linked}
    /\ discarded' = IF linked = {} THEN discarded \cup ToSet(sendList) ELSE discarded
    /\ UNCHANGED <<running, accepted, batch, batchTimer, route, peerVars>>

\* on_jitter_timer: the frame goes out, on whatever its connection is by then.
OnJitterTimer(f) ==
    /\ running /\ f.jittered
    /\ frames' = (frames \ {f}) \cup {[f EXCEPT !.jittered = FALSE]}
    /\ UNCHANGED <<running, accepted, batch, batchTimer, sendList, discarded, route, peerVars>>

\* on_seed_connected up to finalize_handshake; a failed dial is forgotten.
DialEnds ==
    /\ running /\ dials # <<>>
    /\ dials' = Tail(dials)
    /\ linked' \in {linked, linked \cup {Head(dials)}}
    /\ silent' = IF linked' = linked THEN silent ELSE silent \ {Head(dials)}
    /\ UNCHANGED <<running, reconnect, route, queueVars>>

\* A read error: the peer goes, and nothing keeps its address.
LinkLost(p) ==
    /\ running /\ p \in linked
    /\ linked' = linked \ {p} /\ silent' = silent \ {p}
    /\ UNCHANGED <<running, reconnect, dials, route, queueVars>>

FallsSilent(p) ==
    /\ running /\ p \in linked \ silent
    /\ silent' = silent \cup {p}
    /\ UNCHANGED <<running, linked, reconnect, dials, route, queueVars>>

\* handle_pong.
Pong(p) ==
    /\ running /\ p \in silent
    /\ silent' = silent \ {p}
    /\ UNCHANGED <<running, linked, reconnect, dials, route, queueVars>>

\* handle_peer_exchange: an address a peer names is dialled unless a peer with
\* its fingerprint is connected.
PeerExchange(p) ==
    /\ running /\ linked # {} /\ p \notin linked /\ Len(dials) < MaxDials
    /\ dials' = Append(dials, p)
    /\ UNCHANGED <<running, linked, silent, reconnect, route, queueVars>>

\* The addresses of a list that are not connected.
Unlinked(list, up) ==
    LET f[i \in 0..Len(list)] ==
            IF i = 0 THEN <<>>
            ELSE IF list[i] \in up THEN f[i - 1] ELSE Append(f[i - 1], list[i])
    IN f[Len(list)]

\* What on_keepalive_timer leaves in the list after it has dialled.
Redialled(list) == <<>>

\* on_keepalive_timer: silent peers go and their addresses are put on the list;
\* then each address on the list is dialled, once, unless it is connected.
KeepaliveTimer ==
    /\ running /\ Len(dials) + Len(reconnect) + Cardinality(silent) <= MaxDials
    /\ linked' = linked \ silent
    /\ silent' = {}
    /\ \E lost \in SetToSeqs(silent) :
        LET room == IF ReconnectCap > Len(reconnect) THEN ReconnectCap - Len(reconnect) ELSE 0
            kept == IF Len(lost) > room THEN SubSeq(lost, 1, room) ELSE lost
            list == reconnect \o kept
        IN /\ dials' = dials \o Unlinked(list, linked')
           /\ reconnect' = Redialled(list)
    /\ UNCHANGED <<running, route, queueVars>>

-----------------------------------------------------------------------------
(* The routing mode.  decoy_circuit_tick runs on the loop, the others on the *)
(* application's thread.                                                     *)

SetRouting(m) ==
    /\ running /\ route.exit = Unborrowed
    /\ route' = [route EXCEPT !.mode = m, !.choice = m]
    /\ UNCHANGED <<running, queueVars, peerVars>>

DecoyBorrows ==
    /\ running /\ route.decoy = Unborrowed
    /\ route' = [route EXCEPT !.decoy = route.mode, !.mode = "ONION"]
    /\ UNCHANGED <<running, queueVars, peerVars>>

DecoyReturns ==
    /\ route.decoy # Unborrowed
    /\ route' = [route EXCEPT !.decoy = Unborrowed, !.mode = route.decoy]
    /\ UNCHANGED <<running, queueVars, peerVars>>

\* trellis_client_connect_exit.
ExitBorrows ==
    /\ running /\ route.exit = Unborrowed /\ route.mode # "ONION"
    /\ route' = [route EXCEPT !.exit = route.mode, !.mode = "ONION"]
    /\ UNCHANGED <<running, queueVars, peerVars>>

ExitReturns ==
    /\ route.exit # Unborrowed
    /\ route' = [route EXCEPT !.exit = Unborrowed, !.mode = route.exit]
    /\ UNCHANGED <<running, queueVars, peerVars>>

SendingNext ==
    \/ SendMessage \/ Stop \/ BatchTimer \/ OnSendAsync
    \/ \E f \in frames : OnJitterTimer(f)
    \/ DialEnds \/ KeepaliveTimer
    \/ \E p \in SendPeers : LinkLost(p) \/ FallsSilent(p) \/ Pong(p) \/ PeerExchange(p)

ModeNext ==
    \/ \E m \in RouteModes : SetRouting(m)
    \/ DecoyBorrows \/ DecoyReturns \/ ExitBorrows \/ ExitReturns

SendNext == SendingNext \/ ModeNext
SendSpec == SendInit /\ [][SendNext]_sendVars
ModeSpec == SendInit /\ [][ModeNext]_sendVars

-----------------------------------------------------------------------------
(* Properties. *)

SendTypeOK ==
    /\ running \in BOOLEAN /\ accepted \in 0..MaxSent
    /\ {batch, sendList} \subseteq Seq(1..MaxSent)
    /\ batchTimer \in BOOLEAN
    /\ frames \subseteq Frame /\ discarded \subseteq 1..MaxSent
    /\ silent \subseteq linked /\ linked \subseteq SendPeers
    /\ {reconnect, dials} \subseteq Seq(SendPeers)
    /\ route.mode \in RouteModes

Framed == {f.msg : f \in frames}

\* A message the application was told is sent is in the batch, on the send list,
\* framed, or given up because no peer was there or the client stopped: never
\* nowhere and, however flush, timer and list interleave, never in two places.
AcceptedOnce ==
    /\ 1..accepted = ToSet(batch) \cup ToSet(sendList) \cup Framed \cup discarded
         \/ ~running
    /\ Len(batch) + Len(sendList) + Cardinality(Framed \cup discarded) <= accepted
=============================================================================
