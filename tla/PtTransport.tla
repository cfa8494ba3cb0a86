----------------------------- MODULE PtTransport -----------------------------
(***************************************************************************)
(* The pluggable transport (src/src/transport/pt_subprocess.c): a binary   *)
(* is launched and read until it says where its SOCKS5 proxy listens; a    *)
(* connection asks that proxy for its target and then carries frames.      *)
(* What the binary and the proxy write reaches a read callback in pieces   *)
(* of any size.                                                            *)
(***************************************************************************)
EXTENDS Naturals, Sequences

CONSTANTS
    LaunchLines,  \* kinds of lines the binary may write: method, done, error, other
    MaxLines,     \* bound: lines it writes
    PtFrames     \* bound: frames the far end sends

ASSUME PtAssumption == {MaxLines, PtFrames} \subseteq Nat

VARIABLES
    proc,     \* the launch: state, and the address of the CMETHOD line once it is there
    ptWritten,  \* lines on their way to stdout_pipe, half by half
    line,     \* ctx->line: halves read but not used
    socks,    \* pt_conn_data_t of one connection
    inbound,  \* bytes on their way from the proxy, unit by unit
    sentBy,   \* history: units the far end and the proxy wrote after the reply
    app       \* history: calls of connect_cb, and units handed to recv_cb

ptVars == <<proc, ptWritten, line, socks, inbound, sentBy, app>>

PtHalves(k, x) == <<<<k, x, 1>>, <<k, x, 2>>>>

NoConn == [state |-> "none", buf |-> <<>>, recv |-> <<>>, reading |-> "no"]

PtInit ==
    /\ proc = [state |-> "waiting", addr |-> FALSE, lines |-> 0]
    /\ ptWritten = <<>>
    /\ line = <<>>
    /\ socks = NoConn
    /\ inbound = <<>>
    /\ sentBy = <<>>
    /\ app = [calls |-> 0, got |-> <<>>]

connVars == <<socks, inbound, sentBy, app>>
launchVars == <<proc, ptWritten, line>>

--------------------------------------------------------------------------
(* trellis_pt_launch *)

BinaryWrites(k) ==
    /\ proc.state = "waiting" /\ proc.lines < MaxLines
    /\ proc' = [proc EXCEPT !.lines = @ + 1]
    /\ ptWritten' = ptWritten \o PtHalves(k, proc.lines)
    /\ UNCHANGED <<line, connVars>>

\* pt_process_line_token: whether the line ends the launch.
LineEnds(k) == k \in {"done", "error"}

\* The complete lines at the head of the buffer up to the one that ends the launch, and
\* what stays; a line is complete with its second half.
LineCount(s) == Len(s) \div 2
Line(s, i) == s[2 * i][1]
UsedLines(s) ==
    {i \in 1..LineCount(s) : \A j \in 1..(i - 1) : ~LineEnds(Line(s, j))}

\* pt_launch_read_cb for the next n units.
LaunchRead(n) ==
    LET s == line \o SubSeq(ptWritten, 1, n)
        used == UsedLines(s)
        ends == {i \in used : LineEnds(Line(s, i))} IN
    /\ proc.state = "waiting" /\ n \in 1..Len(ptWritten)
    /\ ptWritten' = SubSeq(ptWritten, n + 1, Len(ptWritten))
    /\ line' = SubSeq(s, 2 * LineCount(s) + 1, Len(s))
    /\ proc' = [proc EXCEPT
                  !.addr = @ \/ \E i \in used : Line(s, i) = "method",
                  !.state = IF ends = {} THEN @
                            ELSE IF \E i \in ends : Line(s, i) = "done" THEN "ready" ELSE "failed"]
    /\ UNCHANGED connVars

\* Faulty variant of LaunchTimeout: the timer only stops the reading.
LaunchTimeoutKeeps ==
    /\ proc.state = "waiting"
    /\ ptWritten' = <<>>
    /\ UNCHANGED <<proc, line, connVars>>

\* pt_launch_timeout_cb, and the end of the output, end the loop of trellis_pt_launch; a
\* binary that is not ready is terminated.
LaunchTimeout ==
    /\ proc.state = "waiting"
    /\ proc' = [proc EXCEPT !.state = "failed"]
    /\ ptWritten' = <<>>
    /\ UNCHANGED <<line, connVars>>

--------------------------------------------------------------------------
(* One connection *)

\* pt_transport_connect and pt_on_socks_tcp_connect; without a CMETHOD line there is no
\* address, and the proxy may refuse.
PtConnect(reached) ==
    /\ proc.state = "ready" /\ socks.state = "none" /\ app.calls = 0
    /\ IF proc.addr /\ reached
       THEN /\ socks' = [NoConn EXCEPT !.state = "method", !.reading = "socks"]
            /\ UNCHANGED app
       ELSE /\ app' = [app EXCEPT !.calls = @ + 1]
            /\ UNCHANGED socks
    /\ UNCHANGED <<launchVars, inbound, sentBy>>

\* The proxy answers the greeting and, when it has been asked, the request.
ProxyAnswers(ok) ==
    /\ inbound = <<>>
    /\ \/ socks.state = "method" /\ socks.buf = <<>> /\ inbound' = PtHalves(IF ok THEN "none" ELSE "refused", 0)
       \/ socks.state = "reply" /\ socks.buf = <<>> /\ sentBy = <<>>
          /\ inbound' = PtHalves(IF ok THEN "granted" ELSE "refused", 0)
    /\ UNCHANGED <<launchVars, socks, sentBy, app>>

\* Once the proxy has granted the request it passes on what the far end sends.
FarEndSends ==
    LET i == Len(sentBy) \div 2 + 1 IN
    /\ i <= PtFrames
    /\ \/ socks.state = "open"
       \/ socks.state = "reply" /\ Len(inbound \o socks.buf) >= 2 /\ (socks.buf \o inbound)[1][1] = "granted"
    /\ inbound' = inbound \o PtHalves("frame", i)
    /\ sentBy' = sentBy \o PtHalves("frame", i)
    /\ UNCHANGED <<launchVars, socks, app>>

Failed == socks' = [NoConn EXCEPT !.state = "closed"] /\ app' = [app EXCEPT !.calls = @ + 1]

\* Faulty variant of Leftover: what follows the reply in the same read is lost.
LeftoverLost(s) == <<>>

\* What follows the reply in the same read is kept for recv_start.
Leftover(s) == SubSeq(s, 3, Len(s))

\* pt_process_socks_data on the bytes collected so far.
Negotiated(s) ==
    IF Len(s) < 2 THEN socks' = [socks EXCEPT !.buf = s] /\ UNCHANGED app
    ELSE IF s[1][1] = "none" /\ socks.state = "method"
    THEN socks' = [socks EXCEPT !.state = "reply", !.buf = Leftover(s)] /\ UNCHANGED app
    ELSE IF s[1][1] = "granted" /\ socks.state = "reply"
    THEN /\ socks' = [socks EXCEPT !.state = "open", !.buf = <<>>, !.recv = Leftover(s), !.reading = "no"]
         /\ app' = [app EXCEPT !.calls = @ + 1]
    ELSE Failed

\* pt_socks_read_cb.
SocksRead(n) ==
    /\ socks.reading = "socks" /\ n \in 1..Len(inbound)
    /\ inbound' = SubSeq(inbound, n + 1, Len(inbound))
    /\ Negotiated(socks.buf \o SubSeq(inbound, 1, n))
    /\ UNCHANGED <<launchVars, sentBy>>

SocksLost ==
    /\ socks.reading = "socks"
    /\ Failed /\ inbound' = <<>>
    /\ UNCHANGED <<launchVars, sentBy>>

\* pt_conn_recv_start: the leftover goes to the callback as it is, not frame by frame.
PtRecvStart ==
    /\ socks.state = "open" /\ socks.reading = "no"
    /\ app' = [app EXCEPT !.got = @ \o socks.recv]
    /\ socks' = [socks EXCEPT !.recv = <<>>, !.reading = "frames"]
    /\ UNCHANGED <<launchVars, inbound, sentBy>>

\* pt_conn_recv_stop.
PtRecvStop ==
    /\ socks.reading = "frames"
    /\ socks' = [socks EXCEPT !.reading = "no"]
    /\ UNCHANGED <<launchVars, inbound, sentBy, app>>

\* pt_deliver_frames: the units of the whole frames at the head of s.  After half a frame
\* went to the callback raw, it takes the middle of a frame for a header and waits.
PtFramed(s) == IF Len(app.got) % 2 = 0 THEN 2 * (Len(s) \div 2) ELSE 0

\* pt_read_cb.
PtRead(n) ==
    LET s == socks.recv \o SubSeq(inbound, 1, n)
        whole == PtFramed(s) IN
    /\ socks.reading = "frames" /\ n \in 1..Len(inbound)
    /\ inbound' = SubSeq(inbound, n + 1, Len(inbound))
    /\ socks' = [socks EXCEPT !.recv = SubSeq(s, whole + 1, Len(s))]
    /\ app' = [app EXCEPT !.got = @ \o SubSeq(s, 1, whole)]
    /\ UNCHANGED <<launchVars, sentBy>>

PtNext ==
    \/ \E k \in LaunchLines : BinaryWrites(k)
    \/ \E n \in 1..(2 * MaxLines) : LaunchRead(n)
    \/ LaunchTimeout \/ SocksLost \/ FarEndSends \/ PtRecvStart \/ PtRecvStop
    \/ \E b \in BOOLEAN : PtConnect(b) \/ ProxyAnswers(b)
    \/ \E n \in 1..(2 * PtFrames + 2) : SocksRead(n) \/ PtRead(n)

\* The timer of the launch fires.
PtSpec == PtInit /\ [][PtNext]_ptVars /\ WF_ptVars(LaunchTimeout)

--------------------------------------------------------------------------
(* Properties *)

\* Every part of the state has its shape.
PtTypeOK ==
    /\ proc \in [state : {"waiting", "ready", "failed"}, addr : BOOLEAN, lines : 0..MaxLines]
    /\ Len(line) <= 1
    /\ socks.state \in {"none", "method", "reply", "open", "closed"}
    /\ socks.reading \in {"no", "socks", "frames"}
    /\ app.calls \in 0..1

FrameUnits(s) == SelectSeq(s, LAMBDA u : u[1] = "frame")

\* trellis_pt_launch returns, whatever the binary writes or does not write: it runs on the
\* thread of the client (pt_subprocess.c: pt_launch_timeout_cb).
LaunchReturns == <>(proc.state # "waiting")

\* What the far end sends reaches the application byte for byte, however the reads cut it
\* and whatever came together with the reply of the proxy (pt_process_socks_data, leftover;
\* pt_conn_recv_start; pt_deliver_frames).
BytesArrive ==
    socks.state \in {"reply", "open"} =>
        app.got \o socks.recv \o FrameUnits(socks.buf) \o FrameUnits(inbound) = sentBy
==============================================================================
