---------------------------- MODULE RateScheduler ---------------------------
(***************************************************************************)
(* The constant-rate scheduler (src/src/morph/timing.c): frames wait in a  *)
(* ring, and every tick of the timer sends one frame, a waiting one, cover *)
(* or noise.  Memory may run out at every copy.                            *)
(***************************************************************************)
EXTENDS Naturals, Sequences, FiniteSets

CONSTANTS
    RingSize,    \* SCHED_QUEUE_MAX
    Batches,     \* the batches pushed: per frame, whether it has data
    NoiseCap,    \* dp_compute_cap
    NoiseWindow, \* DP_INTERVAL_MULTIPLIER, in ticks
    MaxPushed    \* bound on the frames numbered

ASSUME RateAssumption ==
    /\ {RingSize, NoiseWindow, MaxPushed} \subseteq Nat \ {0} /\ NoiseCap \in Nat
    /\ \A b \in Batches : b \in Seq(BOOLEAN) /\ b # <<>>

VARIABLES
    ring,    \* queue: per slot the frame there, 0 where there is none
    head, tail, queued,
    pushing, \* running
    noise,   \* dp_pending_dummies and the ticks since dp_interval_start
    pushed,  \* how many frames were numbered so far
    owed,    \* the frames pushed and not sent or dropped yet, in order (history)
    emitted  \* the last frame given to send_cb and what the queue owed then (history)

rateVars == <<ring, head, tail, queued, pushing, noise, pushed, owed, emitted>>

Ring == 0..(RingSize - 1)
After(i) == (i + 1) % RingSize
Cover == 0

RateInit ==
    /\ ring = [i \in Ring |-> 0] /\ head = 0 /\ tail = 0 /\ queued = 0
    /\ pushing = FALSE /\ noise = [pending |-> 0, ticks |-> 0]
    /\ pushed = 0 /\ owed = <<>> /\ emitted = [frame |-> Cover, due |-> Cover]

\* trellis_rate_scheduler_start and _stop; what waits stays in the ring.
StartStop ==
    /\ pushing' = ~pushing
    /\ UNCHANGED <<ring, head, tail, queued, noise, pushed, owed, emitted>>

\* trellis_rate_scheduler_push.
Push ==
    /\ pushed < MaxPushed /\ queued < RingSize
    /\ pushed' = pushed + 1
    /\ ring' = [ring EXCEPT ![tail] = pushed + 1]
    /\ tail' = After(tail) /\ queued' = queued + 1
    /\ owed' = Append(owed, pushed + 1)
    /\ UNCHANGED <<head, pushing, noise, emitted>>

\* How many slots i is behind the tail.
Offset(i) == (i + RingSize - tail) % RingSize

\* How many frames of a batch are pushed: those without data are skipped.
WithData(b) == Cardinality({k \in 1..Len(b) : b[k]})

\* trellis_rate_scheduler_push_batch, when memory lasts.
PushBatch(b) ==
    /\ queued + Len(b) <= RingSize
    /\ LET n == WithData(b)
       IN /\ pushed + n <= MaxPushed
          /\ pushed' = pushed + n
          /\ ring' = [i \in Ring |-> IF Offset(i) < n THEN pushed + Offset(i) + 1 ELSE ring[i]]
          /\ tail' = (tail + n) % RingSize /\ queued' = queued + n
          /\ owed' = owed \o [k \in 1..n |-> pushed + k]
    /\ UNCHANGED <<head, pushing, noise, emitted>>

\* Faulty variant of RolledBack: the tail stays after the frames that were freed.
RolledBackShort(n) ==
    /\ ring' = [i \in Ring |-> IF Offset(i) < n THEN 0 ELSE ring[i]]
    /\ tail' = (tail + n) % RingSize

\* The n frames of the batch that were copied are freed, from the last to the first.
RolledBack(n) ==
    /\ ring' = [i \in Ring |-> IF Offset(i) < n THEN 0 ELSE ring[i]]
    /\ tail' = tail

\* trellis_rate_scheduler_push_batch, when memory runs out after n frames.
PushFails(b) ==
    /\ queued + Len(b) <= RingSize
    /\ \E n \in 0..(WithData(b) - 1) : RolledBack(n)
    /\ UNCHANGED <<head, queued, pushing, noise, pushed, owed, emitted>>

\* dp_interval_check: at the end of a window, any number of dummies up to the cap may be added.
NoiseChecked ==
    IF noise.ticks < NoiseWindow THEN {[noise EXCEPT !.ticks = @ + 1]}
    ELSE {[pending |-> IF extra > 0 THEN extra ELSE noise.pending, ticks |-> 0] : extra \in 0..NoiseCap}

\* sched_tick while dummies are pending: sched_emit_cover or sched_emit_fallback.
NoiseTick ==
    /\ pushing
    /\ \E n \in NoiseChecked : n.pending > 0 /\ noise' = [n EXCEPT !.pending = @ - 1]
    /\ UNCHANGED <<ring, head, tail, queued, pushing, pushed, owed, emitted>>

\* sched_tick otherwise: the oldest frame is sent, or dropped if it cannot be padded; with none
\* waiting, cover.
FrameTick ==
    /\ pushing
    /\ \E n \in NoiseChecked : n.pending = 0 /\ noise' = n
    /\ LET due == IF owed = <<>> THEN Cover ELSE Head(owed)
           sent == IF queued = 0 THEN Cover ELSE ring[head]
       IN emitted' = [frame |-> sent, due |-> due] \/ (queued > 0 /\ emitted' = emitted)
    /\ IF queued = 0 THEN UNCHANGED <<ring, head, queued, owed>>
       ELSE /\ ring' = [ring EXCEPT ![head] = 0]
            /\ head' = After(head) /\ queued' = queued - 1
            /\ owed' = IF owed = <<>> THEN owed ELSE Tail(owed)
    /\ UNCHANGED <<tail, pushing, pushed>>

RateNext ==
    \/ StartStop \/ Push \/ NoiseTick \/ FrameTick
    \/ \E b \in Batches : PushBatch(b) \/ PushFails(b)

RateSpec == RateInit /\ [][RateNext]_rateVars

----------------------------------------------------------------------------

RateTypeOK ==
    /\ ring \in [Ring -> 0..MaxPushed] /\ head \in Ring /\ tail \in Ring /\ queued \in 0..RingSize
    /\ pushing \in BOOLEAN /\ pushed \in 0..MaxPushed
    /\ noise \in [pending : 0..NoiseCap, ticks : 0..NoiseWindow]

\* Every frame is sent once and in the order of the pushes, a batch as a whole or not at all,
\* also when a batch failed half-way (trellis_rate_scheduler_push_batch and sched_tick).
PushedInOrder ==
    /\ emitted.frame = emitted.due
    /\ owed = [k \in 1..queued |-> ring[(head + k - 1) % RingSize]]
=============================================================================
