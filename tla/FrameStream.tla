---------------------------- MODULE FrameStream ----------------------------
(***************************************************************************)
(* Framing on one connection (src/src/transport/internal.h, camouflage.c,  *)
(* src/src/morph/engine.c, trellis_conn_* of interface.c): the initiator   *)
(* sends its last handshake message in the clear and every later frame     *)
(* behind the frame tag, the wire morph and the camouflage that            *)
(* finalize_handshake sets; the responder sets the same when that message  *)
(* is delivered to it.  TCP keeps the bytes in order and cuts them where   *)
(* it likes: a frame is two pieces, a read is any number of pieces.        *)
(***************************************************************************)
EXTENDS Naturals, Sequences, SequencesExt

CONSTANTS
    Wrapping,   \* what finalize_handshake set: "none" (TLS transport), "units"
                \* (TLS 1.3, HTTP/2 and DNS mimicry), "obfs" (raw obfuscation),
                \* "morph" (metamorphic, without camouflage)
    Plain,      \* frames before the settings: the last one is HANDSHAKE_3
    MaxFrames,  \* bound: frames sent
    MaxTokens,  \* TRELLIS_CONN_RATE_DEFAULT_BURST (100)
    Refill      \* TRELLIS_CONN_RATE_DEFAULT_SUSTAIN (50)

ASSUME FrameAssumption ==
    /\ Wrapping \in {"none", "units", "obfs", "morph"}
    /\ {Plain, MaxFrames, MaxTokens, Refill} \subseteq Nat \ {0}
    /\ Plain <= MaxTokens

VARIABLES
    framesSent,  \* frames the initiator passed to trellis_conn_send
    stream,      \* the pieces under way
    rx           \* the responder's end of the connection

frameVars == <<framesSent, stream, rx>>

Piece(f, part, form) == [frame |-> f, part |-> part, form |-> form]
Forms == {"open", "sealed", "noise"}

FrameInit ==
    /\ framesSent = 0
    /\ stream = <<>>
    /\ rx = [buf |-> <<>>, settled |-> FALSE, validated |-> FALSE,
             tokens |-> MaxTokens, got |-> <<>>, dropped |-> {},
             broken |-> FALSE]

\* The first unit of a mimicked protocol is its hello: it carries no data.
Hello(f, form) ==
    IF f = Plain + 1 /\ Wrapping = "units" THEN <<Piece(f, 0, form)>> ELSE <<>>

\* trellis_frame_build, and what is wrapped around it.
Built(f) ==
    LET form == IF f > Plain /\ Wrapping # "none" THEN "sealed" ELSE "open"
    IN Hello(f, form) \o <<Piece(f, 1, form), Piece(f, 2, form)>>

SendFrame ==
    /\ framesSent < MaxFrames
    /\ framesSent' = framesSent + 1
    /\ stream' = stream \o Built(framesSent + 1)
    /\ UNCHANGED rx

----------------------------------------------------------------------------
(* The responder's parser: operators on its end of the connection          *)

\* What the parser makes of bytes that are no frame (an error to the callback,
\* a wait for more, a frame of garbage) is not told apart: the stream is lost.
Broken(s) == [s EXCEPT !.broken = TRUE]

\* Faulty variant of Delivered: what follows the frame in the buffer is lost.
DeliveredAlone(s, f) ==
    [s EXCEPT !.got = Append(@, f), !.tokens = @ - 1,
              !.settled = @ \/ f = Plain, !.buf = <<>>]

\* The receive callback; HANDSHAKE_3 makes it set tag, morph and camouflage.
Delivered(s, f) ==
    [s EXCEPT !.got = Append(@, f), !.tokens = @ - 1,
              !.settled = @ \/ f = Plain]

\* A frame beyond the token bucket is dropped without a word.
Limited(s, f) == [s EXCEPT !.dropped = @ \cup {f}]

Admit(s, f) == IF s.tokens = 0 THEN Limited(s, f) ELSE Delivered(s, f)

StartsFrame(s, form) ==
    s.buf[1].form = form /\ s.buf[1].part = 1
WholeFrame(s) ==
    /\ Len(s.buf) >= 2
    /\ s.buf[2] = [s.buf[1] EXCEPT !.part = 2]

TagMatches(s) == s.buf[1].frame = Plain + 1
NeedsTag(s) == s.settled /\ ~s.validated
Skip(s, n) == [s EXCEPT !.buf = SubSeq(@, n + 1, Len(@))]

\* The parser of a connection is at the "top" of trellis_frame_deliver, in its loop over
\* "frames" or at its "end".
Parser(s, at) == [conn |-> s, at |-> at]

\* One unit of its loop: the hello holds no data, a unit with data is unwrapped, its tag
\* checked and its one frame delivered.
UnitStep(s) ==
    IF s.broken \/ s.buf = <<>> THEN Parser(s, "end")
    ELSE IF s.buf[1].part = 0 THEN Parser(Skip(s, 1), "top")
    ELSE IF ~StartsFrame(s, "sealed") THEN Parser(Broken(s), "end")
    ELSE IF ~WholeFrame(s) THEN Parser(s, "end")
    ELSE IF NeedsTag(s) /\ ~TagMatches(s) THEN Parser(Broken(s), "end")
    ELSE Parser(Admit([Skip(s, 2) EXCEPT !.validated = TRUE], s.buf[1].frame), "top")

\* Raw obfuscation decrypts the whole buffer under the nonce it starts with;
\* the metamorphic decoder takes the whole buffer for one frame.
Revealed(buf) ==
    LET f == buf[1].frame
        start == buf[1].form = "sealed" /\ buf[1].part = 1
        mine(p) == start /\ p.frame = f
        open(p) == [p EXCEPT !.form = IF mine(p) THEN "open" ELSE "noise"]
    IN CASE Wrapping = "obfs" -> [i \in 1..Len(buf) |-> open(buf[i])]
         [] Wrapping = "morph" /\ start /\ Len(buf) >= 2 ->
                <<open(buf[1]), open(buf[2])>>
         [] OTHER -> buf

Unwrapped(s) ==
    IF s.settled /\ s.buf # <<>>
    THEN [s EXCEPT !.buf = Revealed(@)] ELSE s

\* Units one by one, or the tag before the first frame.
TopStep(s) ==
    IF s.settled /\ Wrapping = "units" THEN UnitStep(s)
    ELSE LET u == Unwrapped(s)
         IN IF ~NeedsTag(u) \/ u.buf = <<>> THEN Parser(u, "frames")
            ELSE IF StartsFrame(u, "open") /\ TagMatches(u)
                 THEN Parser([u EXCEPT !.validated = TRUE], "frames")
                 ELSE Parser(Broken(u), "end")

\* The next frame; after its delivery from the top again when the connection has a morph
\* or a camouflage.
FrameStep(s) ==
    IF s.broken \/ s.buf = <<>> THEN Parser(s, "end")
    ELSE IF ~StartsFrame(s, "open") THEN Parser(Broken(s), "end")
    ELSE IF Len(s.buf) < 2 THEN Parser(s, "end")
    ELSE IF ~WholeFrame(s) THEN Parser(Broken(s), "end")
    ELSE LET a == Admit(Skip(s, 2), s.buf[1].frame)
         IN Parser(a, IF a.settled /\ s.tokens > 0 THEN "top" ELSE "frames")

ParserStep(p) ==
    CASE p.at = "top" -> TopStep(p.conn)
      [] p.at = "frames" -> FrameStep(p.conn)
      [] p.at = "end" -> p

\* trellis_frame_deliver: a frame of two pieces takes two steps at most, the end two more.
Deliver(s) ==
    FoldLeft(LAMBDA p, i : ParserStep(p), Parser(s, "top"), [i \in 1..(Len(s.buf) + 2) |-> i]).conn

----------------------------------------------------------------------------
ReadPieces ==
    /\ ~rx.broken
    /\ \E n \in 1..Len(stream) :
        /\ rx' = Deliver([rx EXCEPT !.buf = @ \o SubSeq(stream, 1, n)])
        /\ stream' = SubSeq(stream, n + 1, Len(stream))
    /\ UNCHANGED framesSent

\* A whole second has passed at the next rate check.
RefillTokens ==
    /\ rx.tokens < MaxTokens
    /\ rx' = [rx EXCEPT !.tokens =
                IF @ + Refill > MaxTokens THEN MaxTokens ELSE @ + Refill]
    /\ UNCHANGED <<framesSent, stream>>

FrameNext == SendFrame \/ ReadPieces \/ RefillTokens
FrameSpec == FrameInit /\ [][FrameNext]_frameVars

----------------------------------------------------------------------------
(* Properties                                                              *)

WhollyRead ==
    {f \in 1..framesSent :
        /\ \A i \in 1..Len(stream) : stream[i].frame # f}

\* Wherever reads cut the bytes, and although the receiver learns how to read
\* the later ones from a frame in the same buffer, each frame that was read in
\* full was delivered, in order and once, or fell to the rate limit.
FramesDelivered ==
    /\ ToSet(rx.got) \cup rx.dropped = WhollyRead
    /\ \A i, j \in 1..Len(rx.got) : i < j => rx.got[i] < rx.got[j]
    /\ ToSet(rx.got) \cap rx.dropped = {}
=============================================================================
