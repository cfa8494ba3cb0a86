---------------------------- MODULE Multiplexer -----------------------------
(***************************************************************************)
(* Streams over one connection (src/src/transport/multiplexer.c), at one   *)
(* end: what the other end sends on a stream arrives in order, and the     *)
(* stream's owner may pause, resume, and close it at any time.  Memory     *)
(* does not run out; with a key the frames are sealed, which changes       *)
(* nothing here.                                                           *)
(***************************************************************************)
EXTENDS Naturals, Sequences

CONSTANTS
    StreamIds,   \* stream identifiers below MUX_MAX_STREAMS
    MaxSentOn    \* bound on the data that the other end sends

ASSUME MultiplexerAssumption == MaxSentOn \in Nat

VARIABLES
    muxed,     \* streams[]: per identifier the stream, or NoStream
    sentOn,    \* how many pieces of data the other end sent
    wired,     \* the frames on the connection: stream and piece
    due,       \* per stream, what came in since it was opened and was not discarded (history)
    handed,    \* per stream, what its callbacks got (history)
    stranded   \* streams that were resumed with data waiting and nobody to give it to (history)

muxVars == <<muxed, sentOn, wired, due, handed, stranded>>

NoStream == [open |-> FALSE, paused |-> FALSE, receiving |-> FALSE, backlog |-> <<>>]

MuxInit ==
    /\ muxed = [s \in StreamIds |-> NoStream] /\ sentOn = 0 /\ wired = <<>>
    /\ due = [s \in StreamIds |-> <<>>] /\ handed = [s \in StreamIds |-> <<>>]
    /\ stranded = {}

\* trellis_mux_open: an open stream is returned as it is.
OpenMuxStream(s) ==
    /\ ~muxed[s].open
    /\ muxed' = [muxed EXCEPT ![s] = [NoStream EXCEPT !.open = TRUE]]
    /\ due' = [due EXCEPT ![s] = <<>>] /\ handed' = [handed EXCEPT ![s] = <<>>]
    /\ stranded' = stranded \ {s}
    /\ UNCHANGED <<sentOn, wired>>

\* trellis_mux_stream_send of the other end, which may have the stream open or not here.
SendOnStream(s) ==
    /\ sentOn < MaxSentOn
    /\ sentOn' = sentOn + 1
    /\ wired' = Append(wired, [stream |-> s, piece |-> sentOn + 1])
    /\ UNCHANGED <<muxed, due, handed, stranded>>

\* mux_on_recv: a paused stream keeps the data, otherwise its receiver gets it; without a
\* receiver, or without a stream, it is discarded.
MuxRecv ==
    /\ wired # <<>>
    /\ wired' = Tail(wired)
    /\ LET s == Head(wired).stream
           piece == Head(wired).piece
           keeps == muxed[s].open /\ muxed[s].paused
           gives == muxed[s].open /\ ~muxed[s].paused /\ muxed[s].receiving
       IN /\ muxed' = IF keeps THEN [muxed EXCEPT ![s].backlog = Append(@, piece)] ELSE muxed
          /\ handed' = IF gives THEN [handed EXCEPT ![s] = Append(@, piece)] ELSE handed
          /\ due' = IF keeps \/ gives THEN [due EXCEPT ![s] = Append(@, piece)] ELSE due
    /\ UNCHANGED <<sentOn, stranded>>

\* trellis_mux_stream_recv_start and trellis_mux_stream_recv_stop.
MuxReceiver(s, on) ==
    /\ muxed[s].open
    /\ muxed' = [muxed EXCEPT ![s].receiving = on]
    /\ UNCHANGED <<sentOn, wired, due, handed, stranded>>

\* trellis_mux_stream_pause.
Pause(s) ==
    /\ muxed[s].open
    /\ muxed' = [muxed EXCEPT ![s].paused = TRUE]
    /\ UNCHANGED <<sentOn, wired, due, handed, stranded>>

\* Faulty variant of Resume: the receiver gets the data and the stream keeps it.
ResumeKeeping(s) ==
    /\ muxed[s].open
    /\ muxed' = [muxed EXCEPT ![s].paused = FALSE]
    /\ handed' = [handed EXCEPT ![s] = IF muxed[s].receiving THEN @ \o muxed[s].backlog ELSE @]
    /\ stranded' = IF ~muxed[s].receiving /\ muxed[s].backlog # <<>> THEN stranded \union {s} ELSE stranded
    /\ UNCHANGED <<sentOn, wired, due>>

\* trellis_mux_stream_resume: without a receiver the stream goes on, its data waits.
Resume(s) ==
    /\ muxed[s].open
    /\ IF muxed[s].receiving
       THEN /\ muxed' = [muxed EXCEPT ![s].paused = FALSE, ![s].backlog = <<>>]
            /\ handed' = [handed EXCEPT ![s] = @ \o muxed[s].backlog]
            /\ UNCHANGED stranded
       ELSE /\ muxed' = [muxed EXCEPT ![s].paused = FALSE]
            /\ stranded' = IF muxed[s].backlog = <<>> THEN stranded ELSE stranded \union {s}
            /\ UNCHANGED handed
    /\ UNCHANGED <<sentOn, wired, due>>

\* trellis_mux_stream_close.
CloseMuxStream(s) ==
    /\ muxed[s].open
    /\ muxed' = [muxed EXCEPT ![s] = NoStream]
    /\ UNCHANGED <<sentOn, wired, due, handed, stranded>>

\* trellis_mux_free; the owner of the connection may start another one on it.
FreeMux ==
    /\ muxed' = [s \in StreamIds |-> NoStream]
    /\ UNCHANGED <<sentOn, wired, due, handed, stranded>>

MuxNext ==
    \/ MuxRecv \/ FreeMux
    \/ \E s \in StreamIds :
         \/ OpenMuxStream(s) \/ SendOnStream(s) \/ Pause(s) \/ Resume(s) \/ CloseMuxStream(s)
         \/ \E on \in BOOLEAN : MuxReceiver(s, on)

MuxSpec == MuxInit /\ [][MuxNext]_muxVars

----------------------------------------------------------------------------

MuxTypeOK ==
    /\ sentOn \in 0..MaxSentOn /\ stranded \subseteq StreamIds
    /\ \A s \in StreamIds :
         /\ {muxed[s].open, muxed[s].paused, muxed[s].receiving} \subseteq BOOLEAN
         /\ \A i \in DOMAIN muxed[s].backlog : muxed[s].backlog[i] \in 1..sentOn

\* However often an open stream is paused, resumed and left without a receiver, what it got
\* and what it keeps is all it was due, in order; only when it was resumed without a receiver
\* may older data follow newer (mux_on_recv and trellis_mux_stream_resume).
BacklogInOrder ==
    \A s \in StreamIds \ stranded : muxed[s].open => handed[s] \o muxed[s].backlog = due[s]
=============================================================================
