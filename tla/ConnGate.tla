----------------------------- MODULE ConnGate ------------------------------
(***************************************************************************)
(* What a node lets in: the challenge that a new connection has to answer  *)
(* (src/src/crypto/conn_pow.c), and the probe guard that every message of  *)
(* a peer passes (src/src/crypto/probe_resist.c) on its way to the         *)
(* keepalive of the client (on_keepalive_timer in src/src/sdk/client.c).   *)
(* Nonces are fresh and the clock offset of the guard is zero; one peer is *)
(* below the limit that all peers share.                                   *)
(***************************************************************************)
EXTENDS Naturals, Sequences

CONSTANTS
    GateConns,    \* connections waiting for an answer to their challenge
    SeedLife,     \* TRELLIS_CONN_POW_SEED_ROTATE_MS
    SeedsKept,    \* TRELLIS_CONN_POW_MAX_SEEDS
    AnswerTime,   \* TRELLIS_HANDSHAKE_TIMEOUT_MS
    SeedBound,    \* bound on the seeds generated
    FrameLimit,   \* per_ip_rate_limit, in the unit of time of the guard
    BloomLife,    \* PROBE_BLOOM_RESET_MS
    PingPeriod,   \* the repeat of on_keepalive_timer
    DeadAfter,    \* dead_threshold
    RekeyPeriod,  \* the repeat of on_probe_guard_epoch_timer
    HourLength,   \* for so long after an hour has turned, neither clock turns the next one
    HourBound     \* bound on the hours that pass

ASSUME GateAssumption ==
    /\ {SeedLife, SeedsKept, AnswerTime, FrameLimit, BloomLife, PingPeriod, RekeyPeriod} \subseteq Nat \ {0}
    /\ AnswerTime < SeedLife /\ SeedsKept >= 2 /\ SeedBound \in Nat \ {0}
    \* 30 s, 60 s and 90 s.
    /\ RekeyPeriod = 2 * PingPeriod /\ DeadAfter \in Nat /\ DeadAfter >= 3 * PingPeriod
    /\ HourLength \in Nat /\ RekeyPeriod < HourLength /\ HourBound \in Nat

VARIABLES
    seeds,      \* the seeds kept, the newest first: their id and age
    nextSeed,   \* next_seed_id
    waiting,    \* per connection, the seed of its challenge and the time left to answer
    guard,      \* the epoch of its key, frames counted, whether the bloom filter has the peer
    hour,       \* the epoch of this node's clock
    peerAhead,  \* whether the peer's clock has turned the hour and this node's has not
    pong,       \* a PING not answered yet ("due"), the epoch of a PONG under way, or "none"
    since,      \* time since bloom_reset_at, last_pong, the two timers and the turn of the hour
    overran,    \* time since the peer sent more than the limit, up to Forgiven (history)
    peer        \* the connection of the peer: "up" or "removed"

powVars == <<seeds, nextSeed, waiting>>
guardingVars == <<guard, hour, peerAhead, pong, since, overran, peer>>
gateVars == <<powVars, guardingVars>>

NoChallenge == [seed |-> 0, left |-> 0]
\* An excess of frames is held against the peer as long as its effects can last.
Forgiven == BloomLife + RekeyPeriod + DeadAfter + PingPeriod

GateInit ==
    /\ seeds = <<[id |-> 1, age |-> 0]>> /\ nextSeed = 2
    /\ waiting = [c \in GateConns |-> NoChallenge]
    /\ guard = [epoch |-> 0, count |-> 0, blocked |-> FALSE]
    /\ hour = 0 /\ peerAhead = FALSE /\ pong = "none"
    /\ since = [reset |-> 0, pong |-> 0, ping |-> 0, rekey |-> 0, hour |-> HourLength]
    /\ overran = Forgiven /\ peer = "up"

----------------------------------------------------------------------------
(* Challenges. *)

\* Faulty variant of SeedsRotated: the seed before is not kept.
SeedsRotatedAlone == IF seeds[1].age < SeedLife THEN seeds ELSE <<[id |-> nextSeed, age |-> 0]>>

\* maybe_rotate: an old seed becomes the one before, which still answers.
SeedsRotated ==
    IF seeds[1].age < SeedLife THEN seeds
    ELSE LET kept == <<[id |-> nextSeed, age |-> 0]>> \o seeds
         IN SubSeq(kept, 1, IF Len(kept) < SeedsKept THEN Len(kept) ELSE SeedsKept)

\* trellis_client_on_accept and trellis_conn_pow_generate.
IssueChallenge(c) ==
    /\ waiting[c] = NoChallenge
    /\ seeds[1].age < SeedLife \/ nextSeed <= SeedBound
    /\ seeds' = SeedsRotated
    /\ nextSeed' = nextSeed + (IF seeds' = seeds THEN 0 ELSE 1)
    /\ waiting' = [waiting EXCEPT ![c] = [seed |-> seeds'[1].id, left |-> AnswerTime]]
    /\ UNCHANGED guardingVars

\* find_seed.
SeedsFound == {seeds[i].id : i \in 1..Len(seeds)}

\* trellis_conn_pow_verify of an honest answer, or the connection is closed: it waits no more.
Answered(c) ==
    /\ waiting[c] # NoChallenge
    /\ waiting' = [waiting EXCEPT ![c] = NoChallenge]
    /\ UNCHANGED <<seeds, nextSeed, guardingVars>>

PowTick ==
    /\ \A c \in GateConns : waiting[c] # NoChallenge => waiting[c].left > 0
    /\ seeds' = [i \in 1..Len(seeds) |->
                    [seeds[i] EXCEPT !.age = IF @ < SeedLife THEN @ + 1 ELSE @]]
    /\ waiting' = [c \in GateConns |-> IF waiting[c] = NoChallenge THEN NoChallenge
                                       ELSE [waiting[c] EXCEPT !.left = @ - 1]]
    /\ UNCHANGED <<nextSeed, guardingVars>>

PowNext ==
    \/ PowTick
    \/ \E c \in GateConns : IssueChallenge(c) \/ Answered(c)

----------------------------------------------------------------------------
(* The probe guard and the keepalive. *)

\* bloom_maybe_reset.
BloomCleared == since.reset >= BloomLife

\* probe_check_ip_rate: the peer is in the filter, or is put there by one frame too many.
Checked ==
    LET blocked == guard.blocked /\ ~BloomCleared
        count == IF blocked \/ guard.count > FrameLimit THEN guard.count ELSE guard.count + 1
    IN [guard EXCEPT !.count = count, !.blocked = blocked \/ count > FrameLimit]

\* The frame that puts the peer into the filter.
Excess == Checked.blocked /\ (BloomCleared \/ ~guard.blocked)

\* trellis_client_on_data takes every message through the guard first, ordinary frames too.
PeerFrame ==
    /\ peer = "up"
    /\ guard' = Checked
    /\ since' = [since EXCEPT !.reset = IF BloomCleared THEN 0 ELSE @]
    /\ overran' = IF Excess THEN 0 ELSE overran
    /\ UNCHANGED <<hour, peerAhead, pong, peer, powVars>>

\* handle_ping of the peer: the PONG is wrapped with the hour of its clock.
SendPong ==
    /\ peer = "up" /\ pong = "due"
    /\ pong' = IF peerAhead THEN "next" ELSE "now"
    /\ UNCHANGED <<guard, hour, peerAhead, since, overran, peer, powVars>>

\* The hour in which a PONG was sent.
HourOf(sent) == CASE sent = "before" -> hour - 1 [] sent = "now" -> hour [] sent = "next" -> hour + 1

\* Faulty variant of Passes: the hour after this one is not tried.
PassesGuardOnly(sent) == ~guard.blocked /\ HourOf(sent) = guard.epoch

\* The guard's own key, or that of a guard made for the next hour, which has counted
\* nothing.  Below the guard a wrapped frame is neither obfuscated nor a message.
Passes(sent) == (~Checked.blocked /\ HourOf(sent) = guard.epoch) \/ HourOf(sent) = hour + 1

\* trellis_client_on_data and handle_pong.  The timers of the keepalive and of the guard
\* are started together, so those that are due fire before the answer to the PING is here.
PongArrives ==
    /\ peer = "up" /\ pong \in {"before", "now", "next"} /\ since.rekey < RekeyPeriod
    /\ guard' = Checked
    /\ overran' = IF Excess THEN 0 ELSE overran
    /\ since' = [since EXCEPT !.reset = IF BloomCleared THEN 0 ELSE @,
                              !.pong = IF Passes(pong) THEN 0 ELSE @]
    /\ pong' = "none"
    /\ UNCHANGED <<hour, peerAhead, peer, powVars>>

\* on_keepalive_timer: a peer whose last PONG is too old is removed, another gets a PING.
PongTimer ==
    /\ peer = "up" /\ since.ping = PingPeriod
    /\ since' = [since EXCEPT !.ping = 0]
    /\ IF since.pong > DeadAfter THEN peer' = "removed" /\ pong' = pong
       ELSE peer' = peer /\ pong' = "due"
    /\ UNCHANGED <<guard, hour, peerAhead, overran, powVars>>

\* on_probe_guard_epoch_timer.
RekeyTimer ==
    /\ since.rekey = RekeyPeriod
    /\ since' = [since EXCEPT !.rekey = 0]
    /\ guard' = [guard EXCEPT !.epoch = hour]
    /\ UNCHANGED <<hour, peerAhead, pong, overran, peer, powVars>>

\* The peer's clock may turn the hour first, and is never behind.
PeerTurnsHour ==
    /\ ~peerAhead /\ hour < HourBound /\ since.hour = HourLength
    /\ peerAhead' = TRUE
    /\ UNCHANGED <<guard, hour, pong, since, overran, peer, powVars>>

HourTurns ==
    /\ hour < HourBound /\ since.hour = HourLength
    /\ hour' = hour + 1 /\ peerAhead' = FALSE
    /\ pong' = CASE pong = "next" -> "now" [] pong = "now" -> "before" [] OTHER -> pong
    /\ since' = [since EXCEPT !.hour = 0]
    /\ UNCHANGED <<guard, overran, peer, powVars>>

\* Time passes, a new window of the rate begins; timers are due and PINGs are answered in time.
GateTick ==
    /\ peer = "up" /\ pong = "none"
    /\ since.ping < PingPeriod /\ since.rekey < RekeyPeriod
    /\ since' = [since EXCEPT !.reset = IF @ < BloomLife THEN @ + 1 ELSE @, !.pong = @ + 1,
                              !.ping = @ + 1, !.rekey = @ + 1,
                              !.hour = IF @ < HourLength THEN @ + 1 ELSE @]
    /\ guard' = [guard EXCEPT !.count = 0]
    /\ overran' = IF overran < Forgiven THEN overran + 1 ELSE overran
    /\ UNCHANGED <<hour, peerAhead, pong, peer, powVars>>

GuardingNext ==
    \/ PeerFrame \/ SendPong \/ PongArrives \/ PongTimer \/ RekeyTimer
    \/ PeerTurnsHour \/ HourTurns \/ GateTick

GateSpec == GateInit /\ [][PowNext \/ GuardingNext]_gateVars

----------------------------------------------------------------------------

GateTypeOK ==
    /\ nextSeed \in 2..(SeedBound + 1) /\ Len(seeds) \in 1..SeedsKept
    /\ waiting \in [GateConns -> [seed : 0..SeedBound, left : 0..AnswerTime]]
    /\ guard \in [epoch : 0..HourBound, count : 0..(FrameLimit + 1), blocked : BOOLEAN]
    /\ hour \in 0..HourBound /\ peerAhead \in BOOLEAN
    /\ pong \in {"none", "due", "before", "now", "next"}
    /\ since \in [reset : 0..BloomLife, pong : 0..(DeadAfter + PingPeriod),
                   ping : 0..PingPeriod, rekey : 0..RekeyPeriod, hour : 0..HourLength]
    /\ overran \in 0..Forgiven /\ peer \in {"up", "removed"}

\* A connection that answers its challenge in time is let in, whatever other connections do
\* to the seeds meanwhile (maybe_rotate, find_seed and pending_on_timeout).
ChallengesStandOpen == \A c \in GateConns : waiting[c] # NoChallenge => waiting[c].seed \in SeedsFound

\* The keepalive removes a peer that answers every PING only after it sent more frames than
\* the probe guard allows: the change of the hourly key alone does not cost it its connection
\* (on_keepalive_timer, on_probe_guard_epoch_timer and trellis_client_on_data).
RemovedForExcess == peer = "removed" => overran < Forgiven
=============================================================================
