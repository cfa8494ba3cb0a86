------------------------------ MODULE Ratchet ------------------------------
(***************************************************************************)
(* The two ends of one ratchet session (src/src/crypto/ratchet.c).         *)
(*                                                                         *)
(* Key material is symbolic.  A chain key is the history of the HKDF calls *)
(* that made it: Adv for chain_advance, a shared secret for a PQC mix.  A  *)
(* message key is determined by the chain key it is derived from, so       *)
(* AES-GCM opens a message exactly when the receiver derives it from the   *)
(* same history.  A KEM key pair is <<owner, generation>>.                 *)
(*                                                                         *)
(* The transport and the per-message jitter timers may drop, repeat and    *)
(* reorder: Receive takes any message that was ever sent, any number of    *)
(* times, and a message that is never taken is lost.                       *)
(***************************************************************************)
EXTENDS Integers, Sequences

CONSTANTS
    PqcInterval,  \* TRELLIS_RATCHET_PQC_INTERVAL (50)
    MaxSkip,      \* MAX_COUNTER_SKIP (256)
    CounterMax,   \* UINT32_MAX, the last value of a message counter
    MaxCalls,     \* bound: encrypt calls of a side
    MaxFaults     \* bound: encrypt calls of a side that fail half way

ASSUME PqcIntervalAssumption == PqcInterval \in Nat
ASSUME MaxSkipAssumption == MaxSkip \in Nat
ASSUME CounterMaxAssumption == CounterMax \in Nat
ASSUME BoundsAssumption == MaxCalls \in Nat /\ MaxFaults \in Nat

Side == {"I", "R"}                         \* TRELLIS_ROLE_INITIATOR, _RESPONDER
Peer(s) == IF s = "I" THEN "R" ELSE "I"

KemKey == Side \X Nat
\* A shared secret is fixed by the encapsulator's randomness (its side and
\* PQC step) and by the key that is used to decapsulate.
Secret == [by : Side, step : Nat, key : KemKey]
Adv == [by |-> "chain_advance", step |-> 0, key |-> <<"none", 0>>]
ChainKey == Seq({Adv} \union Secret)

Message == [counter : Nat, pqc : BOOLEAN, pk : KemKey, ct : Secret, key : ChainKey]

VARIABLES
    sendChain,  \* send_chain_key of each side
    recvChain,  \* recv_chain_key
    sendCtr,    \* send_counter
    recvCtr,    \* recv_counter
    localKem,   \* local_kem
    remotePk,   \* remote_ml_kem_pk
    sent,       \* the messages each side produced, in order
    accepted,   \* the counters each side's decrypt accepted, in order
    calls,      \* encrypt calls of each side
    spoiled     \* the counters at which an encrypt failed half way

sendVars == <<sendChain, sendCtr, sent, calls, spoiled>>
recvVars == <<recvChain, recvCtr, remotePk, accepted>>
vars == <<sendVars, recvVars, localKem>>

TypeOK ==
    /\ sendChain \in [Side -> ChainKey]
    /\ recvChain \in [Side -> ChainKey]
    /\ sendCtr \in [Side -> 0..CounterMax]
    /\ recvCtr \in [Side -> 0..CounterMax]
    /\ localKem \in [Side -> KemKey]
    /\ remotePk \in [Side -> KemKey]
    /\ sent \in [Side -> Seq(Message)]
    /\ accepted \in [Side -> Seq(Nat)]
    /\ calls \in [Side -> 0..MaxCalls]
    /\ spoiled \in [Side -> SUBSET (0..CounterMax)]

-----------------------------------------------------------------------------
(* Both ends leave the handshake with matching chains, and each holds the  *)
(* public half of the other's ephemeral KEM key.                           *)
Init ==
    /\ sendChain = [s \in Side |-> <<>>]
    /\ recvChain = [s \in Side |-> <<>>]
    /\ sendCtr = [s \in Side |-> 0]
    /\ recvCtr = [s \in Side |-> 0]
    /\ localKem = [s \in Side |-> <<s, 0>>]
    /\ remotePk = [s \in Side |-> <<Peer(s), 0>>]
    /\ sent = [s \in Side |-> <<>>]
    /\ accepted = [s \in Side |-> <<>>]
    /\ calls = [s \in Side |-> 0]
    /\ spoiled = [s \in Side |-> {}]

-----------------------------------------------------------------------------
(* Sending. *)

PqcDue(s) ==
    /\ PqcInterval > 0
    /\ sendCtr[s] > 0
    /\ sendCtr[s] % PqcInterval = 0

Encapsulated(s) ==
    [by |-> s, step |-> localKem[s][2] + 1, key |-> remotePk[s]]

\* Faulty variant of MixedSend: the secret is sent but not mixed in.
UnmixedSend(s) == sendChain[s]

\* The chain key and the KEM key pair once the PQC step, if due, is done.
MixedSend(s) ==
    IF PqcDue(s) THEN Append(sendChain[s], Encapsulated(s)) ELSE sendChain[s]

NextKem(s) == IF PqcDue(s) THEN <<s, localKem[s][2] + 1>> ELSE localKem[s]

NextMessage(s) ==
    [counter |-> sendCtr[s], pqc |-> PqcDue(s), pk |-> NextKem(s),
     ct |-> Encapsulated(s), key |-> MixedSend(s)]

\* Faulty variants of Encrypt: no check for an exhausted counter; the chain is
\* not advanced after the message key is derived.
EncryptUnguarded(s) ==
    /\ calls[s] < MaxCalls
    /\ calls' = [calls EXCEPT ![s] = @ + 1]
    /\ localKem' = [localKem EXCEPT ![s] = NextKem(s)]
    /\ sendChain' = [sendChain EXCEPT ![s] = Append(MixedSend(s), Adv)]
    /\ sent' = [sent EXCEPT ![s] = Append(@, NextMessage(s))]
    /\ sendCtr' = [sendCtr EXCEPT ![s] = @ + 1]
    /\ UNCHANGED <<recvVars, spoiled>>

EncryptKeepsChain(s) ==
    /\ calls[s] < MaxCalls
    /\ sendCtr[s] # CounterMax
    /\ calls' = [calls EXCEPT ![s] = @ + 1]
    /\ localKem' = [localKem EXCEPT ![s] = NextKem(s)]
    /\ sendChain' = [sendChain EXCEPT ![s] = MixedSend(s)]
    /\ sent' = [sent EXCEPT ![s] = Append(@, NextMessage(s))]
    /\ sendCtr' = [sendCtr EXCEPT ![s] = @ + 1]
    /\ UNCHANGED <<recvVars, spoiled>>

Encrypt(s) ==
    /\ calls[s] < MaxCalls
    /\ sendCtr[s] # CounterMax
    /\ calls' = [calls EXCEPT ![s] = @ + 1]
    /\ localKem' = [localKem EXCEPT ![s] = NextKem(s)]
    /\ sendChain' = [sendChain EXCEPT ![s] = Append(MixedSend(s), Adv)]
    /\ sent' = [sent EXCEPT ![s] = Append(@, NextMessage(s))]
    /\ sendCtr' = [sendCtr EXCEPT ![s] = @ + 1]
    /\ UNCHANGED <<recvVars, spoiled>>

\* The output buffer cannot be allocated, or AES-GCM fails: the chain and the
\* KEM key have moved on, the counter has not.
EncryptFails(s) ==
    /\ calls[s] < MaxCalls
    /\ sendCtr[s] # CounterMax
    /\ calls[s] - sendCtr[s] < MaxFaults
    /\ calls' = [calls EXCEPT ![s] = @ + 1]
    /\ localKem' = [localKem EXCEPT ![s] = NextKem(s)]
    /\ sendChain' = [sendChain EXCEPT ![s] = Append(MixedSend(s), Adv)]
    /\ spoiled' = [spoiled EXCEPT ![s] = @ \union {sendCtr[s]}]
    /\ UNCHANGED <<recvVars, sendCtr, sent>>

\* The counter is used up.  The check comes after the PQC step.
EncryptExhausted(s) ==
    /\ calls[s] < MaxCalls
    /\ sendCtr[s] = CounterMax
    /\ calls' = [calls EXCEPT ![s] = @ + 1]
    /\ localKem' = [localKem EXCEPT ![s] = NextKem(s)]
    /\ sendChain' = [sendChain EXCEPT ![s] = MixedSend(s)]
    /\ UNCHANGED <<recvVars, sendCtr, sent, spoiled>>

-----------------------------------------------------------------------------
(* Receiving. *)

\* recv_counter + MAX_COUNTER_SKIP is computed in 32 bits.
InWindow(s, c) ==
    /\ c >= recvCtr[s]
    /\ c <= (recvCtr[s] + MaxSkip) % (CounterMax + 1)

\* ML-KEM rejects implicitly: another key pair yields another secret.
Decapsulated(ct, kem) == [ct EXCEPT !.key = kem]

\* The PQC secret is mixed in first, then the skipped keys are discarded.
MixedRecv(s, m) ==
    IF m.pqc THEN Append(recvChain[s], Decapsulated(m.ct, localKem[s]))
             ELSE recvChain[s]

\* Faulty variant of Skipped: one key too many is discarded.
SkippedOneMore(s, m) == [k \in 1 .. m.counter - recvCtr[s] + 1 |-> Adv]

Skipped(s, m) == [k \in 1 .. m.counter - recvCtr[s] |-> Adv]

DerivedKey(s, m) == MixedRecv(s, m) \o Skipped(s, m)

Opens(s, m) == InWindow(s, m.counter) /\ DerivedKey(s, m) = m.key

\* Faulty variant of Accept: the snapshot is restored after a success too.
AcceptRestores(s, m) ==
    /\ Opens(s, m)
    /\ accepted' = [accepted EXCEPT ![s] = Append(@, m.counter)]
    /\ UNCHANGED <<recvChain, recvCtr, remotePk>>

Accept(s, m) ==
    /\ Opens(s, m)
    /\ recvChain' = [recvChain EXCEPT ![s] = Append(DerivedKey(s, m), Adv)]
    /\ remotePk' = [remotePk EXCEPT ![s] = IF m.pqc THEN m.pk ELSE @]
    /\ recvCtr' = [recvCtr EXCEPT ![s] = IF m.counter < CounterMax
                                         THEN m.counter + 1 ELSE CounterMax]
    /\ accepted' = [accepted EXCEPT ![s] = Append(@, m.counter)]

\* Faulty variants of Reject: a part of the snapshot is not restored.
RejectKeepsChain(s, m) ==
    /\ ~Opens(s, m)
    /\ recvChain' = [recvChain EXCEPT ![s] = IF InWindow(s, m.counter)
                                             THEN DerivedKey(s, m) ELSE @]
    /\ UNCHANGED <<recvCtr, remotePk, accepted>>

RejectKeepsKey(s, m) ==
    /\ ~Opens(s, m)
    /\ remotePk' = [remotePk EXCEPT ![s] = IF InWindow(s, m.counter) /\ m.pqc
                                           THEN m.pk ELSE @]
    /\ UNCHANGED <<recvCtr, recvChain, accepted>>

\* Outside the window, or the tag does not verify: the snapshot is restored.
Reject(s, m) ==
    /\ ~Opens(s, m)
    /\ UNCHANGED recvVars

Decrypt(s, m) ==
    /\ Accept(s, m) \/ Reject(s, m)
    /\ UNCHANGED <<sendVars, localKem>>

Receive(s) ==
    \E i \in 1..Len(sent[Peer(s)]) : Decrypt(s, sent[Peer(s)][i])

\* Frames whose header was damaged on the way: any counter, any flag, and a
\* ciphertext under no key.  Counters up to one past the last sent are enough
\* to reach every skip a genuine message can ask for.
NoKey == <<[by |-> "nobody", step |-> 0, key |-> <<"none", 0>>]>>

Damaged(s) ==
    [counter : 0..Len(sent[Peer(s)]), pqc : BOOLEAN, pk : {<<Peer(s), 0>>},
     ct : {[by |-> Peer(s), step |-> 0, key |-> <<s, 0>>]}, key : {NoKey}]

ReceiveDamaged(s) ==
    \E m \in Damaged(s) : Decrypt(s, m)

Next ==
    \E s \in Side :
        \/ Encrypt(s)
        \/ EncryptFails(s)
        \/ EncryptExhausted(s)
        \/ Receive(s)
        \/ ReceiveDamaged(s)

Spec == Init /\ [][Next]_vars

-----------------------------------------------------------------------------
(* Properties. *)

\* No message is accepted twice and none after a later one, however the
\* transport repeats and reorders (decrypt's counter check and advance).
NoReplay ==
    \A s \in Side : \A i, j \in DOMAIN accepted[s] :
        i < j => accepted[s][i] < accepted[s][j]

\* No two messages of a session direction are encrypted under one message
\* key, not even around an encrypt call that failed after moving the chain.
MessageKeysUnique ==
    \A s \in Side : \A i, j \in DOMAIN sent[s] :
        sent[s][i].key = sent[s][j].key => i = j

\* The receiving chain stands exactly where the sender's stood after the last
\* message accepted: skipping and rolling back leave no other trace.
ReceiverOnSenderChain ==
    \A s \in Side :
        IF accepted[s] = <<>>
        THEN recvChain[s] = <<>>
        ELSE LET c == accepted[s][Len(accepted[s])]
             IN  /\ c + 1 \in DOMAIN sent[Peer(s)]
                 /\ recvChain[s] = Append(sent[Peer(s)][c + 1].key, Adv)

\* Nothing after a PQC step is accepted until the step itself has been: its
\* secret is in every later key.
PqcStepNeverSkipped ==
    \A s \in Side : \A i \in DOMAIN accepted[s] :
        \A c \in 0..accepted[s][i] :
            sent[Peer(s)][c + 1].pqc => \E j \in 1..i : accepted[s][j] = c

\* Loss and reordering cost only the messages that were overtaken, and frames
\* that were refused or damaged cost nothing: a message in the window opens
\* unless an unaccepted PQC step or a failed encrypt lies before it, and one
\* that carries a PQC step opens in its turn if the receiver still holds the
\* key pair it was encapsulated to.
UndisturbedMessageOpens ==
    \A s \in Side : \A i \in DOMAIN sent[Peer(s)] :
        LET m == sent[Peer(s)][i] IN
        (/\ InWindow(s, m.counter)
         /\ \A c \in recvCtr[s]..m.counter : c \notin spoiled[Peer(s)]
         /\ \A c \in recvCtr[s]..m.counter - 1 : ~sent[Peer(s)][c + 1].pqc
         /\ m.pqc => m.counter = recvCtr[s] /\ m.ct.key = localKem[s])
        => Opens(s, m)

\* A receiver only ever encapsulates to a key its peer has published, and
\* forgets none it accepted: remote_ml_kem_pk is the key of the last PQC
\* message accepted, never that of a frame that was refused.
RemoteKeyFromLastPqcStep ==
    \A s \in Side :
        LET steps == {i \in DOMAIN accepted[s] :
                        sent[Peer(s)][accepted[s][i] + 1].pqc}
        IN  IF steps = {}
            THEN remotePk[s] = <<Peer(s), 0>>
            ELSE \E i \in steps :
                    /\ \A j \in steps : j <= i
                    /\ remotePk[s] = sent[Peer(s)][accepted[s][i] + 1].pk

\* The receiver stays ready for its peer: what was not disturbed opens, and its next PQC step is
\* sealed to the key the peer published last (trellis_ratchet_decrypt).
ReceiverReady == UndisturbedMessageOpens /\ RemoteKeyFromLastPqcStep

\* ratchet.c:387-389: the PQC step comes before chain_advance "so the receiver
\* (which also PQC-mixes before chain_advance) derives the same message key".
\* In-order delivery without a failed encrypt is all it is asked for here.
PqcStepDerivesSameKey ==
    \A s \in Side : \A i \in DOMAIN sent[Peer(s)] :
        LET m == sent[Peer(s)][i] IN
        (/\ m.pqc /\ m.counter = recvCtr[s] /\ InWindow(s, m.counter)
         /\ spoiled[Peer(s)] = {})
        => DerivedKey(s, m) = m.key
=============================================================================
