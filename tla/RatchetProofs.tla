--------------------------- MODULE RatchetProofs ---------------------------
(***************************************************************************)
(* What holds of a ratchet session for every PQC interval, skip window and *)
(* counter width: the message counters never replay, no message key is     *)
(* used twice, the receiving chain is always one the sender passed         *)
(* through, and a PQC step cannot be jumped over.                          *)
(***************************************************************************)
EXTENDS Ratchet, OrderLemmas, SequenceTheorems

-----------------------------------------------------------------------------
(* The inductive invariant. *)

\* The i-th message carries counter i-1: a failed call uses up no counter.
SentNumbered ==
    \A s \in Side :
        /\ Len(sent[s]) = sendCtr[s]
        /\ \A i \in DOMAIN sent[s] : sent[s][i].counter = i - 1

\* Chain b continues chain a.
Extends(a, b) == Len(a) <= Len(b) /\ \A k \in 1..Len(a) : b[k] = a[k]

\* Every message key lies on the one history of the sending chain.
KeysOnChain ==
    \A s \in Side :
        /\ \A i \in DOMAIN sent[s] : Extends(Append(sent[s][i].key, Adv), sendChain[s])
        /\ \A i, j \in DOMAIN sent[s] :
              i < j => Extends(Append(sent[s][i].key, Adv), sent[s][j].key)

\* The last input to the key of a PQC message is a KEM secret.
PqcKeysEndInSecret ==
    \A s \in Side : \A i \in DOMAIN sent[s] :
        sent[s][i].pqc => /\ Len(sent[s][i].key) > 0
                          /\ sent[s][i].key[Len(sent[s][i].key)] # Adv

\* recv_counter is one past the last message accepted.
CounterAfterAccepted ==
    \A s \in Side :
        /\ IF accepted[s] = <<>>
           THEN recvCtr[s] = 0
           ELSE recvCtr[s] = accepted[s][Len(accepted[s])] + 1
        /\ \A i \in DOMAIN accepted[s] :
              /\ accepted[s][i] < recvCtr[s]
              /\ accepted[s][i] < Len(sent[Peer(s)])

IInv ==
    /\ TypeOK
    /\ SentNumbered
    /\ KeysOnChain
    /\ PqcKeysEndInSecret
    /\ CounterAfterAccepted
    /\ NoReplay
    /\ ReceiverOnSenderChain
    /\ PqcStepNeverSkipped

-----------------------------------------------------------------------------
(* Operators. *)

\* The peer of a side is the other side.
LEMMA PeerSide == \A s \in Side : Peer(s) \in Side /\ Peer(Peer(s)) = s
BY DEF Peer, Side

\* A plain advance of a chain is not a secret mixed into it.
LEMMA AdvFacts == /\ Adv \in {Adv} \union Secret
                  /\ Adv \notin Secret
BY DEF Adv, Secret, Side

\* A chain that was only advanced is a sequence of advances.
LEMMA RepeatFacts ==
    ASSUME NEW S, NEW x \in S, NEW n \in Nat
    PROVE  /\ [k \in 1..n |-> x] \in Seq(S)
           /\ Len([k \in 1..n |-> x]) = n
           /\ \A k \in 1..n : [j \in 1..n |-> x][k] = x
OBVIOUS

\* What follows a chain of which only the first n elements are of interest.
LEMMA ContinuationFacts ==
    ASSUME NEW S, NEW a \in Seq(S), NEW mixed \in Seq(S), NEW rep \in Seq(S),
           NEW y, Len(a) <= Len(mixed),
           \A k \in 1..Len(a) : mixed[k] = a[k],
           \A k \in 1..Len(rep) : rep[k] = y
    PROVE  /\ mixed \o rep \in Seq(S)
           /\ Len(mixed \o rep) = Len(mixed) + Len(rep)
           /\ \A k \in Len(mixed) + 1 .. Len(mixed) + Len(rep) : (mixed \o rep)[k] = y
           /\ \A k \in 1..Len(a) : (mixed \o rep)[k] = a[k]
<1>1. Len(a) \in Nat /\ Len(mixed) \in Nat /\ Len(rep) \in Nat
  BY LenProperties
<1>2. /\ mixed \o rep \in Seq(S)
      /\ Len(mixed \o rep) = Len(mixed) + Len(rep)
      /\ \A k \in 1 .. Len(mixed) + Len(rep) :
            (mixed \o rep)[k] = IF k <= Len(mixed) THEN mixed[k] ELSE rep[k - Len(mixed)]
  BY ConcatProperties
<1> QED BY <1>1, <1>2

\* What decrypt derives for m: a chain that continues recv_chain_key with the
\* decapsulated secret, if m carries a PQC step, and otherwise only advances.
LEMMA DerivedFacts ==
    ASSUME TypeOK, NEW s \in Side, NEW m,
           m.counter \in Nat, m.pqc \in BOOLEAN, m.ct \in Secret,
           m.counter >= recvCtr[s]
    PROVE  LET base == Len(recvChain[s]) + (IF m.pqc THEN 1 ELSE 0)
               skip == m.counter - recvCtr[s]
           IN  /\ DerivedKey(s, m) \in ChainKey
               /\ Len(DerivedKey(s, m)) = base + skip
               /\ \A k \in base + 1 .. base + skip : DerivedKey(s, m)[k] = Adv
               /\ \A k \in 1 .. Len(recvChain[s]) :
                     DerivedKey(s, m)[k] = recvChain[s][k]
<1> DEFINE S == {Adv} \union Secret
           skip == m.counter - recvCtr[s]
           ss == Decapsulated(m.ct, localKem[s])
           base == Len(recvChain[s]) + (IF m.pqc THEN 1 ELSE 0)
<1>1. recvChain[s] \in Seq(S) /\ recvCtr[s] \in Nat /\ localKem[s] \in KemKey
  BY DEF TypeOK, ChainKey
<1>2. skip \in Nat
  BY <1>1
<1>3. ss \in S /\ Adv \in S
  BY <1>1 DEF Decapsulated, Secret
<1>4. MixedRecv(s, m) = IF m.pqc THEN Append(recvChain[s], ss) ELSE recvChain[s]
  BY DEF MixedRecv
<1>5. Skipped(s, m) = [k \in 1..skip |-> Adv]
  BY DEF Skipped
<1> HIDE DEF S, skip, ss
<1>6. /\ MixedRecv(s, m) \in Seq(S)
      /\ Len(MixedRecv(s, m)) = base
      /\ Len(recvChain[s]) <= base
      /\ \A k \in 1 .. Len(recvChain[s]) : MixedRecv(s, m)[k] = recvChain[s][k]
  <2>1. CASE m.pqc
    BY <1>1, <1>3, <1>4, <2>1, AppendProperties, LenProperties
  <2>2. CASE ~m.pqc
    BY <1>1, <1>4, <2>2, LenProperties
  <2> QED BY <2>1, <2>2
<1>7. /\ Skipped(s, m) \in Seq(S)
      /\ Len(Skipped(s, m)) = skip
      /\ \A k \in 1..Len(Skipped(s, m)) : Skipped(s, m)[k] = Adv
  BY <1>2, <1>3, <1>5, RepeatFacts
<1> DEFINE a == recvChain[s]
           mixed == MixedRecv(s, m)
           rep == Skipped(s, m)
<1>8. /\ mixed \o rep \in Seq(S)
      /\ Len(mixed \o rep) = Len(mixed) + Len(rep)
      /\ \A k \in Len(mixed) + 1 .. Len(mixed) + Len(rep) : (mixed \o rep)[k] = Adv
      /\ \A k \in 1..Len(a) : (mixed \o rep)[k] = a[k]
  <2>1. /\ a \in Seq(S) /\ mixed \in Seq(S) /\ rep \in Seq(S)
        /\ Len(a) <= Len(mixed)
        /\ \A k \in 1..Len(a) : mixed[k] = a[k]
        /\ \A k \in 1..Len(rep) : rep[k] = Adv
    BY <1>1, <1>6, <1>7
  <2> HIDE DEF a, mixed, rep
  <2> QED BY <2>1, ContinuationFacts
<1> QED BY <1>6, <1>7, <1>8 DEF ChainKey, S, skip, DerivedKey

\* What encrypt produces.
LEMMA SendFacts ==
    ASSUME TypeOK, NEW s \in Side
    PROVE  /\ Encapsulated(s) \in Secret
           /\ NextKem(s) \in KemKey
           /\ MixedSend(s) \in ChainKey
           /\ Append(MixedSend(s), Adv) \in ChainKey
           /\ NextMessage(s) \in Message
           /\ Extends(sendChain[s], MixedSend(s))
           /\ Extends(sendChain[s], Append(MixedSend(s), Adv))
           /\ PqcDue(s) => /\ Len(MixedSend(s)) > 0
                           /\ MixedSend(s)[Len(MixedSend(s))] # Adv
<1> DEFINE S == {Adv} \union Secret
<1>1. /\ sendChain[s] \in Seq(S) /\ sendCtr[s] \in Nat
      /\ localKem[s] \in KemKey /\ remotePk[s] \in KemKey
  BY CounterMaxAssumption DEF TypeOK, ChainKey
<1>2. localKem[s][2] + 1 \in Nat
  BY <1>1 DEF KemKey
<1>3. Encapsulated(s) \in Secret
  BY <1>1, <1>2 DEF Encapsulated, Secret
<1>4. NextKem(s) \in KemKey
  BY <1>1, <1>2 DEF NextKem, KemKey
<1>5. Encapsulated(s) \in S /\ Adv \in S /\ Encapsulated(s) # Adv
  BY <1>3, AdvFacts
<1> HIDE DEF S
<1>6. /\ MixedSend(s) \in Seq(S)
      /\ Extends(sendChain[s], MixedSend(s))
      /\ PqcDue(s) => /\ Len(MixedSend(s)) > 0
                      /\ MixedSend(s)[Len(MixedSend(s))] # Adv
  <2>1. CASE PqcDue(s)
    <3>1. MixedSend(s) = Append(sendChain[s], Encapsulated(s))
      BY <2>1 DEF MixedSend
    <3> QED BY <1>1, <1>5, <3>1, AppendProperties, LenProperties DEF Extends
  <2>2. CASE ~PqcDue(s)
    BY <1>1, <2>2, LenProperties DEF MixedSend, Extends
  <2> QED BY <2>1, <2>2
<1>7. /\ Append(MixedSend(s), Adv) \in Seq(S)
      /\ Extends(sendChain[s], Append(MixedSend(s), Adv))
  <2>1. Adv \in S
    BY <1>5
  <2> QED BY <1>1, <1>6, <2>1, AppendProperties, LenProperties DEF Extends
<1>8. PqcDue(s) \in BOOLEAN
  BY DEF PqcDue
<1>9. MixedSend(s) \in ChainKey
  BY <1>6 DEF ChainKey, S
<1>10. NextMessage(s) \in Message
  BY <1>1, <1>3, <1>4, <1>8, <1>9 DEF NextMessage, Message
<1> QED BY <1>3, <1>4, <1>6, <1>7, <1>9, <1>10 DEF ChainKey, S

\* A received message, genuine or damaged, has a header of the right shape.
LEMMA FrameFacts ==
    ASSUME TypeOK, NEW s \in Side
    PROVE  /\ \A i \in 1..Len(sent[Peer(s)]) : sent[Peer(s)][i] \in Message
           /\ \A m \in Damaged(s) : /\ m.counter \in Nat /\ m.pqc \in BOOLEAN
                                    /\ m.ct \in Secret /\ m.pk \in KemKey
                                    /\ m.key = NoKey
<1>1. Peer(s) \in Side
  BY PeerSide
<1>2. sent[Peer(s)] \in Seq(Message)
  BY <1>1 DEF TypeOK
<1>3. \A i \in 1..Len(sent[Peer(s)]) : sent[Peer(s)][i] \in Message
  BY <1>2, ElementOfSeq
<1>4. Len(sent[Peer(s)]) \in Nat
  BY <1>2, LenProperties
<1>5. \A m \in Damaged(s) : /\ m.counter \in Nat /\ m.pqc \in BOOLEAN
                            /\ m.ct \in Secret /\ m.pk \in KemKey
                            /\ m.key = NoKey
  BY <1>1, <1>4 DEF Damaged, Secret, KemKey
<1> QED BY <1>3, <1>5

\* A damaged frame never opens: what decrypt derives is a chain key.
LEMMA DamagedNeverOpens ==
    ASSUME TypeOK, NEW s \in Side, NEW m \in Damaged(s)
    PROVE  ~Opens(s, m)
<1> SUFFICES ASSUME Opens(s, m) PROVE FALSE
  OBVIOUS
<1>1. m.counter >= recvCtr[s] /\ DerivedKey(s, m) = NoKey
  BY FrameFacts DEF Opens, InWindow
<1>2. DerivedKey(s, m) \in Seq({Adv} \union Secret)
  BY <1>1, DerivedFacts, FrameFacts DEF ChainKey
<1>3. NoKey[1] \in {Adv} \union Secret
  <2>1. Len(NoKey) = 1
    BY DEF NoKey
  <2> QED BY <1>1, <1>2, <2>1, ElementOfSeq
<1>4. NoKey[1].by = "nobody"
  BY DEF NoKey
<1>5. \A x \in Secret : x.by \in {"I", "R"}
  BY DEF Secret, Side
<1> QED BY <1>3, <1>4, <1>5 DEF Adv

-----------------------------------------------------------------------------
(* Type correctness. *)

\* A fresh session has its type.
LEMMA InitType == Init => TypeOK
<1> SUFFICES ASSUME Init PROVE TypeOK
  OBVIOUS
<1>1. \A s \in Side : Peer(s) \in Side
  BY PeerSide
<1>2. <<>> \in ChainKey /\ <<>> \in Seq(Message) /\ <<>> \in Seq(Nat)
  BY EmptySeq DEF ChainKey
<1>3. \A s \in Side : <<s, 0>> \in KemKey /\ <<Peer(s), 0>> \in KemKey
  BY <1>1 DEF KemKey
<1> QED BY <1>2, <1>3, CounterMaxAssumption, BoundsAssumption DEF Init, TypeOK

\* Encrypting keeps the types, failing or not.
LEMMA EncryptType ==
    ASSUME TypeOK, NEW s \in Side,
           Encrypt(s) \/ EncryptFails(s) \/ EncryptExhausted(s)
    PROVE  TypeOK'
<1>1. /\ NextKem(s) \in KemKey
      /\ MixedSend(s) \in ChainKey
      /\ Append(MixedSend(s), Adv) \in ChainKey
      /\ Append(sent[s], NextMessage(s)) \in Seq(Message)
  <2>1. sent[s] \in Seq(Message)
    BY DEF TypeOK
  <2> QED BY <2>1, SendFacts, AppendProperties
<1>2. /\ calls' \in [Side -> 0..MaxCalls]
      /\ localKem' \in [Side -> KemKey]
  <2>1. calls[s] < MaxCalls /\ calls' = [calls EXCEPT ![s] = @ + 1]
    BY DEF Encrypt, EncryptFails, EncryptExhausted
  <2>2. localKem' = [localKem EXCEPT ![s] = NextKem(s)]
    BY DEF Encrypt, EncryptFails, EncryptExhausted
  <2>3. calls[s] + 1 \in 0..MaxCalls
    BY <2>1, BoundsAssumption DEF TypeOK
  <2> QED BY <1>1, <2>1, <2>2, <2>3 DEF TypeOK
<1>3. sendChain' \in [Side -> ChainKey]
  BY <1>1 DEF TypeOK, Encrypt, EncryptFails, EncryptExhausted
<1>4. sent' \in [Side -> Seq(Message)]
  BY <1>1 DEF TypeOK, Encrypt, EncryptFails, EncryptExhausted
<1>5. sendCtr' \in [Side -> 0..CounterMax]
  <2>1. CASE Encrypt(s)
    <3>1. sendCtr[s] + 1 \in 0..CounterMax
      BY <2>1, CounterMaxAssumption DEF Encrypt, TypeOK
    <3> QED BY <2>1, <3>1 DEF Encrypt, TypeOK
  <2>2. CASE EncryptFails(s) \/ EncryptExhausted(s)
    BY <2>2 DEF TypeOK, EncryptFails, EncryptExhausted
  <2> QED BY <2>1, <2>2
<1>6. spoiled' \in [Side -> SUBSET (0..CounterMax)]
  <2>1. spoiled[s] \union {sendCtr[s]} \in SUBSET (0..CounterMax)
    BY DEF TypeOK
  <2> QED BY <2>1 DEF TypeOK, Encrypt, EncryptFails, EncryptExhausted
<1>7. UNCHANGED recvVars
  BY DEF Encrypt, EncryptFails, EncryptExhausted
<1> QED BY <1>2, <1>3, <1>4, <1>5, <1>6, <1>7 DEF TypeOK, recvVars

\* Accepting and rejecting keep the types.
LEMMA DecryptType ==
    ASSUME TypeOK, NEW s \in Side, NEW m,
           m.counter \in Nat, m.pqc \in BOOLEAN, m.ct \in Secret, m.pk \in KemKey,
           Decrypt(s, m)
    PROVE  TypeOK'
<1>1. CASE Reject(s, m)
  BY <1>1 DEF TypeOK, Decrypt, Reject, recvVars, sendVars
<1>2. CASE Accept(s, m)
  <2>1. m.counter >= recvCtr[s]
    BY <1>2 DEF Accept, Opens, InWindow
  <2>2. DerivedKey(s, m) \in Seq({Adv} \union Secret)
    BY <2>1, DerivedFacts DEF ChainKey
  <2>3. Append(DerivedKey(s, m), Adv) \in ChainKey
    <3>1. Adv \in {Adv} \union Secret
      OBVIOUS
    <3> QED BY <2>2, <3>1, AppendProperties DEF ChainKey
  <2>4. Append(accepted[s], m.counter) \in Seq(Nat)
    BY AppendProperties DEF TypeOK
  <2>5. (IF m.counter < CounterMax THEN m.counter + 1 ELSE CounterMax) \in 0..CounterMax
    BY CounterMaxAssumption
  <2> QED BY <1>2, <2>3, <2>4, <2>5 DEF TypeOK, Decrypt, Accept, sendVars
<1> QED BY <1>1, <1>2 DEF Decrypt

\* Every step keeps the types.
LEMMA NextType == TypeOK /\ [Next]_vars => TypeOK'
<1> SUFFICES ASSUME TypeOK, [Next]_vars PROVE TypeOK'
  OBVIOUS
<1>1. CASE UNCHANGED vars
  BY <1>1 DEF TypeOK, vars, sendVars, recvVars
<1>2. ASSUME NEW s \in Side, Encrypt(s) \/ EncryptFails(s) \/ EncryptExhausted(s)
      PROVE  TypeOK'
  BY <1>2, EncryptType
<1>3. ASSUME NEW s \in Side, Receive(s)
      PROVE  TypeOK'
  <2>1. PICK i \in 1..Len(sent[Peer(s)]) : Decrypt(s, sent[Peer(s)][i])
    BY <1>3 DEF Receive
  <2>2. sent[Peer(s)][i] \in Message
    BY FrameFacts
  <2> QED BY <2>1, <2>2, DecryptType DEF Message
<1>4. ASSUME NEW s \in Side, ReceiveDamaged(s)
      PROVE  TypeOK'
  <2>1. PICK m \in Damaged(s) : Decrypt(s, m)
    BY <1>4 DEF ReceiveDamaged
  <2> QED BY <2>1, DecryptType, FrameFacts
<1> QED BY <1>1, <1>2, <1>3, <1>4 DEF Next

\* Every variable keeps its type for every interval, window and counter width.
THEOREM TypeCorrect == Spec => []TypeOK
<1>1. Init => TypeOK
  BY InitType
<1>2. TypeOK /\ [Next]_vars => TypeOK'
  BY NextType
<1> QED BY <1>1, <1>2, PTL DEF Spec

-----------------------------------------------------------------------------
(* The sending half of the invariant. *)

\* A prefix of a prefix is a prefix.
LEMMA ExtendsTransitive ==
    ASSUME NEW S, NEW a \in Seq(S), NEW b \in Seq(S), NEW c \in Seq(S),
           Extends(a, b), Extends(b, c)
    PROVE  Extends(a, c)
<1>1. Len(a) \in Nat /\ Len(b) \in Nat /\ Len(c) \in Nat
  BY LenProperties
<1> QED BY <1>1 DEF Extends

\* A history is a strict prefix of itself with one more call.
LEMMA ExtendsAppendFacts ==
    ASSUME NEW S, NEW a \in Seq(S), NEW x \in S, NEW b \in Seq(S),
           Extends(Append(a, x), b)
    PROVE  /\ Len(a) + 1 <= Len(b)
           /\ b[Len(a) + 1] = x
           /\ \A k \in 1..Len(a) : b[k] = a[k]
<1> DEFINE ax == Append(a, x)
<1>1. /\ Len(ax) = Len(a) + 1
      /\ ax[Len(a) + 1] = x
      /\ \A k \in 1..Len(a) : ax[k] = a[k]
      /\ Len(a) \in Nat /\ Len(b) \in Nat
  BY AppendProperties, LenProperties
<1>2. Len(ax) <= Len(b) /\ \A k \in 1..Len(ax) : b[k] = ax[k]
  BY DEF Extends
<1> HIDE DEF ax
<1> QED BY <1>1, <1>2

SendInv == SentNumbered /\ KeysOnChain /\ PqcKeysEndInSecret

\* The messages already sent stay what they were.
LEMMA SentGrows ==
    ASSUME TypeOK, NEW s \in Side,
           Encrypt(s) \/ EncryptFails(s) \/ EncryptExhausted(s)
    PROVE  \A t \in Side :
              /\ Len(sent[t]) \in Nat
              /\ Len(sent'[t]) \in Nat
              /\ Len(sent[t]) <= Len(sent'[t])
              /\ \A i \in 1..Len(sent[t]) : sent'[t][i] = sent[t][i]
<1> SUFFICES ASSUME NEW t \in Side
             PROVE  /\ Len(sent[t]) \in Nat
                    /\ Len(sent'[t]) \in Nat
                    /\ Len(sent[t]) <= Len(sent'[t])
                    /\ \A i \in 1..Len(sent[t]) : sent'[t][i] = sent[t][i]
  OBVIOUS
<1>1. sent[t] \in Seq(Message) /\ Len(sent[t]) \in Nat
  BY LenProperties DEF TypeOK
<1>2. CASE Encrypt(s) /\ t = s
  <2>1. sent'[t] = Append(sent[t], NextMessage(t)) /\ NextMessage(t) \in Message
    BY <1>2, SendFacts DEF Encrypt, TypeOK
  <2> QED BY <1>1, <2>1, AppendProperties
<1>3. CASE ~(Encrypt(s) /\ t = s)
  <2>1. sent'[t] = sent[t]
    BY <1>3 DEF Encrypt, EncryptFails, EncryptExhausted, TypeOK
  <2> QED BY <1>1, <2>1
<1> QED BY <1>2, <1>3

\* Encrypting keeps what is known of the messages sent.
LEMMA EncryptKeepsSendInv ==
    ASSUME TypeOK, SendInv, NEW s \in Side,
           Encrypt(s) \/ EncryptFails(s) \/ EncryptExhausted(s)
    PROVE  SendInv'
<1> DEFINE S == {Adv} \union Secret
<1>1. \A t \in Side \ {s} : /\ sent'[t] = sent[t] /\ sendCtr'[t] = sendCtr[t]
                            /\ sendChain'[t] = sendChain[t]
  BY DEF Encrypt, EncryptFails, EncryptExhausted, TypeOK
<1>2. /\ sendChain'[s] \in ChainKey
      /\ Extends(sendChain[s], sendChain'[s])
  <2>1. sendChain'[s] \in {MixedSend(s), Append(MixedSend(s), Adv)}
    BY DEF Encrypt, EncryptFails, EncryptExhausted, TypeOK
  <2> QED BY <2>1, SendFacts
<1>3. /\ sent[s] \in Seq(Message) /\ Len(sent[s]) \in Nat
      /\ DOMAIN sent[s] = 1..Len(sent[s])
      /\ sendChain[s] \in Seq(S)
  BY LenProperties DEF TypeOK, ChainKey
<1>4. \A i \in DOMAIN sent[s] : Append(sent[s][i].key, Adv) \in Seq(S)
  <2> TAKE i \in DOMAIN sent[s]
  <2>1. sent[s][i] \in Message
    BY <1>3, ElementOfSeq
  <2>2. sent[s][i].key \in Seq(S) /\ Adv \in S
    BY <2>1 DEF Message, ChainKey
  <2> HIDE DEF S
  <2> QED BY <2>2, AppendProperties
<1>5. \A i \in DOMAIN sent[s] : Extends(Append(sent[s][i].key, Adv), sendChain'[s])
  <2> TAKE i \in DOMAIN sent[s]
  <2>1. Extends(Append(sent[s][i].key, Adv), sendChain[s])
    BY DEF SendInv, KeysOnChain
  <2>2. sendChain'[s] \in Seq(S)
    BY <1>2 DEF ChainKey
  <2>3. Append(sent[s][i].key, Adv) \in Seq(S)
    BY <1>4
  <2> HIDE DEF S
  <2> QED BY <1>2, <1>3, <2>1, <2>2, <2>3, ExtendsTransitive
<1>6. CASE EncryptFails(s) \/ EncryptExhausted(s)
  <2>1. sent' = sent /\ sendCtr' = sendCtr
    BY <1>6 DEF EncryptFails, EncryptExhausted
  <2> QED BY <1>1, <1>5, <2>1 DEF SendInv, SentNumbered, KeysOnChain, PqcKeysEndInSecret
<1>7. CASE Encrypt(s)
  <2> DEFINE n == Len(sent[s])
             new == NextMessage(s)
  <2>1. /\ sent'[s] = Append(sent[s], new) /\ new \in Message
        /\ sendChain'[s] = Append(new.key, Adv)
        /\ sendCtr'[s] = sendCtr[s] + 1
    BY <1>7, SendFacts DEF Encrypt, TypeOK, NextMessage
  <2>2. /\ Len(sent'[s]) = n + 1
        /\ DOMAIN sent'[s] = 1 .. n + 1
        /\ \A i \in 1..n : sent'[s][i] = sent[s][i]
        /\ sent'[s][n + 1] = new
        /\ DOMAIN sent[s] = 1..n
        /\ n \in Nat
    BY <1>3, <2>1, AppendProperties, LenProperties
  <2>3. sendCtr[s] = n /\ new.counter = n
    BY DEF SendInv, SentNumbered, NextMessage
  <2>4. \A i \in 1..n : Extends(Append(sent[s][i].key, Adv), new.key)
    <3> TAKE i \in 1..n
    <3>1. Extends(Append(sent[s][i].key, Adv), sendChain[s])
      BY <2>2 DEF SendInv, KeysOnChain
    <3>2. Extends(sendChain[s], new.key) /\ new.key \in Seq(S)
      BY SendFacts DEF NextMessage, ChainKey
    <3>3. Append(sent[s][i].key, Adv) \in Seq(S)
      BY <1>4, <2>2
    <3> HIDE DEF S, new, n
    <3> QED BY <1>3, <3>1, <3>2, <3>3, ExtendsTransitive
  <2>5. Extends(Append(new.key, Adv), sendChain'[s])
    <3>1. Len(sendChain'[s]) \in Nat
      BY <1>2, LenProperties DEF ChainKey
    <3> QED BY <2>1, <3>1 DEF Extends
  <2>6. new.pqc => Len(new.key) > 0 /\ new.key[Len(new.key)] # Adv
    BY SendFacts DEF NextMessage
  <2> HIDE DEF new, n
  <2>7. SentNumbered'
    <3>1. Len(sent'[s]) = sendCtr'[s]
      BY <2>1, <2>2, <2>3
    <3>2. \A i \in DOMAIN sent'[s] : sent'[s][i].counter = i - 1
      <4>1. \A i \in 1..n : sent[s][i].counter = i - 1
        BY <2>2 DEF SendInv, SentNumbered
      <4> QED BY <2>2, <2>3, <4>1
    <3> QED BY <1>1, <3>1, <3>2 DEF SendInv, SentNumbered
  <2>8. KeysOnChain'
    <3>1. \A i \in 1 .. n + 1 : Extends(Append(sent'[s][i].key, Adv), sendChain'[s])
      BY <1>5, <2>2, <2>5
    <3>2. \A i, j \in 1 .. n + 1 : i < j =>
             Extends(Append(sent'[s][i].key, Adv), sent'[s][j].key)
      <4> SUFFICES ASSUME NEW i \in 1 .. n + 1, NEW j \in 1 .. n + 1, i < j
                   PROVE  Extends(Append(sent'[s][i].key, Adv), sent'[s][j].key)
        OBVIOUS
      <4>1. CASE j = n + 1
        <5>1. i \in 1..n
          BY <2>2, <4>1
        <5> QED BY <2>2, <2>4, <4>1, <5>1
      <4>2. CASE j # n + 1
        <5>1. i \in 1..n /\ j \in 1..n
          BY <2>2, <4>2
        <5> QED BY <2>2, <5>1 DEF SendInv, KeysOnChain
      <4> QED BY <4>1, <4>2
    <3> QED BY <1>1, <2>2, <3>1, <3>2 DEF SendInv, KeysOnChain
  <2>9. PqcKeysEndInSecret'
    <3>1. \A i \in 1 .. n + 1 : sent'[s][i].pqc =>
             /\ Len(sent'[s][i].key) > 0
             /\ sent'[s][i].key[Len(sent'[s][i].key)] # Adv
      BY <2>2, <2>6 DEF SendInv, PqcKeysEndInSecret
    <3> QED BY <1>1, <2>2, <3>1 DEF SendInv, PqcKeysEndInSecret
  <2> QED BY <2>7, <2>8, <2>9 DEF SendInv
<1> QED BY <1>6, <1>7

-----------------------------------------------------------------------------
(* The receiving half of the invariant. *)

RecvInv ==
    /\ CounterAfterAccepted
    /\ NoReplay
    /\ ReceiverOnSenderChain
    /\ PqcStepNeverSkipped

\* Nothing the sender does disturbs it: what was accepted is still there.
LEMMA EncryptKeepsRecvInv ==
    ASSUME TypeOK, RecvInv, NEW s \in Side,
           Encrypt(s) \/ EncryptFails(s) \/ EncryptExhausted(s)
    PROVE  RecvInv'
<1>1. UNCHANGED recvVars
  BY DEF Encrypt, EncryptFails, EncryptExhausted
<1>2. \A t \in Side : /\ accepted[t] \in Seq(Nat)
                      /\ DOMAIN accepted[t] = 1..Len(accepted[t])
                      /\ Len(accepted[t]) \in Nat
                      /\ \A i \in DOMAIN accepted[t] : accepted[t][i] \in Nat
  BY LenProperties, ElementOfSeq DEF TypeOK
<1>3. \A t \in Side : \A c \in Nat :
         c < Len(sent[Peer(t)]) => /\ sent'[Peer(t)][c + 1] = sent[Peer(t)][c + 1]
                                   /\ c < Len(sent'[Peer(t)])
                                   /\ c + 1 \in DOMAIN sent'[Peer(t)]
  <2> SUFFICES ASSUME NEW t \in Side, NEW c \in Nat, c < Len(sent[Peer(t)])
               PROVE  /\ sent'[Peer(t)][c + 1] = sent[Peer(t)][c + 1]
                      /\ c < Len(sent'[Peer(t)])
                      /\ c + 1 \in DOMAIN sent'[Peer(t)]
    OBVIOUS
  <2>1. Peer(t) \in Side
    BY PeerSide
  <2>2. /\ Len(sent[Peer(t)]) \in Nat
        /\ Len(sent'[Peer(t)]) \in Nat
        /\ Len(sent[Peer(t)]) <= Len(sent'[Peer(t)])
        /\ \A i \in 1..Len(sent[Peer(t)]) : sent'[Peer(t)][i] = sent[Peer(t)][i]
    BY <2>1, SentGrows
  <2>3. DOMAIN sent'[Peer(t)] = 1..Len(sent'[Peer(t)])
    <3>1. sent'[Peer(t)] \in Seq(Message)
      BY <2>1, EncryptType DEF TypeOK
    <3> QED BY <3>1, LenProperties
  <2> QED BY <2>2, <2>3
<1>4. CounterAfterAccepted'
  BY <1>1, <1>2, <1>3 DEF RecvInv, CounterAfterAccepted, recvVars
<1>5. NoReplay'
  BY <1>1 DEF RecvInv, NoReplay, recvVars
<1>6. ReceiverOnSenderChain'
  <2> SUFFICES ASSUME NEW t \in Side, accepted[t] # <<>>
               PROVE  LET c == accepted[t][Len(accepted[t])]
                      IN  /\ c + 1 \in DOMAIN sent'[Peer(t)]
                          /\ recvChain[t] = Append(sent'[Peer(t)][c + 1].key, Adv)
    BY <1>1 DEF RecvInv, ReceiverOnSenderChain, recvVars
  <2> DEFINE c == accepted[t][Len(accepted[t])]
  <2>1. Len(accepted[t]) \in DOMAIN accepted[t]
    BY <1>2, EmptySeq
  <2>2. c \in Nat /\ c < Len(sent[Peer(t)])
    BY <1>2, <2>1 DEF RecvInv, CounterAfterAccepted
  <2>3. recvChain[t] = Append(sent[Peer(t)][c + 1].key, Adv)
    BY DEF RecvInv, ReceiverOnSenderChain
  <2> HIDE DEF c
  <2>4. /\ c + 1 \in DOMAIN sent'[Peer(t)]
        /\ recvChain[t] = Append(sent'[Peer(t)][c + 1].key, Adv)
    BY <1>3, <2>2, <2>3
  <2> QED BY <2>4 DEF c
<1>7. PqcStepNeverSkipped'
  <2> SUFFICES ASSUME NEW t \in Side, NEW i \in DOMAIN accepted[t],
                      NEW c \in 0..accepted[t][i], sent'[Peer(t)][c + 1].pqc
               PROVE  \E j \in 1..i : accepted[t][j] = c
    BY <1>1 DEF PqcStepNeverSkipped, recvVars
  <2>1. accepted[t][i] \in Nat /\ accepted[t][i] < Len(sent[Peer(t)])
    BY <1>2 DEF RecvInv, CounterAfterAccepted
  <2>2. c \in Nat /\ c < Len(sent[Peer(t)])
    <3>1. Len(sent[Peer(t)]) \in Nat
      BY PeerSide, LenProperties DEF TypeOK
    <3> QED BY <2>1, <3>1
  <2>3. sent[Peer(t)][c + 1].pqc
    BY <1>3, <2>2
  <2> QED BY <2>3 DEF RecvInv, PqcStepNeverSkipped
<1> QED BY <1>4, <1>5, <1>6, <1>7 DEF RecvInv

\* A message that opens does not lie beyond a PQC step not yet taken: the
\* step's secret is inside its key, where decrypt only derives advances.
LEMMA NoPqcStepBetween ==
    ASSUME TypeOK, SendInv, RecvInv, NEW s \in Side,
           NEW i \in 1..Len(sent[Peer(s)]), Opens(s, sent[Peer(s)][i]),
           NEW c \in Nat, recvCtr[s] <= c, c < i - 1
    PROVE  ~sent[Peer(s)][c + 1].pqc
<1> SUFFICES ASSUME sent[Peer(s)][c + 1].pqc PROVE FALSE
  OBVIOUS
<1> DEFINE p == Peer(s)
           m == sent[p][i]
           q == sent[p][c + 1]
           L == Len(q.key)
           S == {Adv} \union Secret
           base == Len(recvChain[s]) + (IF m.pqc THEN 1 ELSE 0)
           skip == m.counter - recvCtr[s]
<1>1. /\ p \in Side /\ sent[p] \in Seq(Message) /\ Len(sent[p]) \in Nat
      /\ DOMAIN sent[p] = 1..Len(sent[p])
      /\ recvChain[s] \in Seq(S) /\ Len(recvChain[s]) \in Nat /\ recvCtr[s] \in Nat
  BY PeerSide, LenProperties, SMTT(60) DEF TypeOK, ChainKey
<1>2. /\ i \in DOMAIN sent[p] /\ c + 1 \in DOMAIN sent[p] /\ c + 1 < i
      /\ i \in Int
  BY <1>1
<1>3. m \in Message /\ q \in Message
  BY <1>1, <1>2, ElementOfSeq
<1>4. /\ m.key \in Seq(S) /\ q.key \in Seq(S)
      /\ Len(m.key) \in Nat /\ L \in Nat
  BY <1>3, LenProperties DEF Message, ChainKey
<1>5. m.counter = i - 1
  BY <1>1, <1>2 DEF SendInv, SentNumbered
<1>6. L > 0 /\ q.key[L] # Adv
  BY <1>1, <1>2 DEF SendInv, PqcKeysEndInSecret
<1>7. L + 1 <= Len(m.key) /\ m.key[L] = q.key[L]
  <2>1. Extends(Append(q.key, Adv), m.key)
    BY <1>1, <1>2 DEF SendInv, KeysOnChain
  <2>2. Adv \in S
    OBVIOUS
  <2>3. Len(q.key) + 1 <= Len(m.key) /\ \A k \in 1..Len(q.key) : m.key[k] = q.key[k]
    <3> HIDE DEF S, q, m
    <3> QED BY <1>4, <2>1, <2>2, ExtendsAppendFacts
  <2>4. L \in 1..Len(q.key)
    <3> HIDE DEF q
    <3> QED BY <1>4, <1>6
  <2> HIDE DEF q, m
  <2> QED BY <1>4, <2>3, <2>4
<1>8. L > Len(recvChain[s])
  <2>1. CASE accepted[s] = <<>>
    <3>1. recvChain[s] = <<>>
      BY <2>1 DEF RecvInv, ReceiverOnSenderChain
    <3> QED BY <1>6, <3>1
  <2>2. CASE accepted[s] # <<>>
    <3> DEFINE c0 == accepted[s][Len(accepted[s])]
               k0 == sent[p][c0 + 1].key
    <3>1. /\ c0 + 1 \in DOMAIN sent[p]
          /\ recvChain[s] = Append(k0, Adv)
          /\ recvCtr[s] = c0 + 1
      BY <2>2 DEF RecvInv, ReceiverOnSenderChain, CounterAfterAccepted
    <3>2. c0 + 1 < c + 1
      <4>1. c0 + 1 <= c
        BY <3>1
      <4> QED BY <1>1, <3>1, <4>1
    <3>3. Extends(Append(k0, Adv), q.key)
      BY <1>1, <1>2, <3>1, <3>2 DEF SendInv, KeysOnChain
    <3>4. k0 \in Seq(S) /\ Len(k0) \in Nat
      <4>1. sent[p][c0 + 1] \in Message
        BY <1>1, <3>1, ElementOfSeq
      <4> QED BY <4>1, LenProperties DEF Message, ChainKey
    <3>5. Len(recvChain[s]) = Len(k0) + 1 /\ recvChain[s][Len(k0) + 1] = Adv
      <4>1. Adv \in S
        OBVIOUS
      <4> HIDE DEF S, k0
      <4> QED BY <3>1, <3>4, <4>1, AppendProperties
    <3>6. Len(recvChain[s]) <= L /\ q.key[Len(recvChain[s])] = Adv
      <4>1. Adv \in S
        OBVIOUS
      <4>2. Len(k0) + 1 <= Len(q.key) /\ q.key[Len(k0) + 1] = Adv
        <5> HIDE DEF S, q, k0
        <5> QED BY <1>4, <3>3, <3>4, <4>1, ExtendsAppendFacts
      <4> QED BY <3>5, <4>2
    <3> QED BY <1>1, <1>4, <1>6, <3>6
  <2> QED BY <2>1, <2>2
<1>9. /\ m.counter \in Nat /\ m.pqc \in BOOLEAN /\ m.ct \in Secret
      /\ m.counter >= recvCtr[s] /\ DerivedKey(s, m) = m.key
  BY <1>3 DEF Message, Opens, InWindow
<1>10. /\ Len(m.key) = base + skip
       /\ \A k \in base + 1 .. base + skip : m.key[k] = Adv
  <2>1. /\ Len(DerivedKey(s, m)) = base + skip
        /\ \A k \in base + 1 .. base + skip : DerivedKey(s, m)[k] = Adv
    <3> HIDE DEF m
    <3> QED BY <1>9, DerivedFacts
  <2> QED BY <1>9, <2>1
<1>11. skip \in Nat /\ skip >= 1
  BY <1>1, <1>2, <1>5
<1>12. m.pqc => m.key[Len(m.key)] # Adv
  BY <1>1, <1>2 DEF SendInv, PqcKeysEndInSecret
<1> HIDE DEF m, q, L, skip
<1>13. CASE m.pqc
  BY <1>1, <1>10, <1>11, <1>12, <1>13, SMTT(60)
<1>14. CASE ~m.pqc
  <2>1. L \in base + 1 .. base + skip
    BY <1>1, <1>4, <1>7, <1>8, <1>10, <1>11, <1>14
  <2> QED BY <1>6, <1>7, <1>10, <2>1
<1> QED BY <1>13, <1>14

\* Accepting a message keeps what is known of the receiver.
LEMMA AcceptKeepsRecvInv ==
    ASSUME TypeOK, SendInv, RecvInv, NEW s \in Side,
           NEW i \in 1..Len(sent[Peer(s)]),
           Accept(s, sent[Peer(s)][i]), UNCHANGED sendVars
    PROVE  RecvInv'
<1> DEFINE p == Peer(s)
           m == sent[p][i]
           c == i - 1
           n == Len(accepted[s])
<1>1. /\ p \in Side /\ Len(sent[p]) \in Nat /\ DOMAIN sent[p] = 1..Len(sent[p])
      /\ accepted[s] \in Seq(Nat) /\ n \in Nat /\ DOMAIN accepted[s] = 1..n
      /\ \A k \in 1..n : accepted[s][k] \in Nat
      /\ recvCtr[s] \in Nat
  BY PeerSide, LenProperties, ElementOfSeq, SMTT(60) DEF TypeOK
<1>2. i \in DOMAIN sent[p] /\ i \in Int /\ c \in Nat /\ c < Len(sent[p])
  BY <1>1
<1>3. m.counter = c /\ c < CounterMax
  <2>1. m.counter = c /\ Len(sent[p]) = sendCtr[p]
    BY <1>1, <1>2 DEF SendInv, SentNumbered
  <2>2. sendCtr[p] \in 0..CounterMax
    BY <1>1 DEF TypeOK
  <2> QED BY <1>2, <2>1, <2>2, CounterMaxAssumption
<1>4. recvCtr[s] <= c
  BY <1>1, <1>2, <1>3 DEF Accept, Opens, InWindow
<1>5. /\ recvCtr'[s] = c + 1
      /\ accepted'[s] = Append(accepted[s], c)
      /\ recvChain'[s] = Append(m.key, Adv)
  BY <1>3 DEF Accept, Opens, TypeOK
<1>6. \A t \in Side \ {s} : /\ recvCtr'[t] = recvCtr[t]
                            /\ accepted'[t] = accepted[t]
                            /\ recvChain'[t] = recvChain[t]
  BY DEF Accept, TypeOK
<1>7. /\ Len(accepted'[s]) = n + 1
      /\ DOMAIN accepted'[s] = 1 .. n + 1
      /\ \A k \in 1..n : accepted'[s][k] = accepted[s][k]
      /\ accepted'[s][n + 1] = c
      /\ accepted'[s] # <<>>
  <2> DEFINE a == accepted[s]
  <2>1. a \in Seq(Nat) /\ c \in Nat
    BY <1>1, <1>2
  <2> HIDE DEF c, a
  <2>2. /\ Append(a, c) \in Seq(Nat) /\ Append(a, c) # <<>>
        /\ Len(Append(a, c)) = Len(a) + 1
        /\ \A k \in 1..Len(a) : Append(a, c)[k] = a[k]
        /\ Append(a, c)[Len(a) + 1] = c
    BY <2>1, AppendProperties, ZenonT(60), SMTT(60)
  <2>3. DOMAIN Append(a, c) = 1 .. Len(a) + 1
    BY <2>2, LenProperties
  <2> QED BY <1>5, <2>2, <2>3 DEF a
<1>8. sent' = sent
  BY DEF sendVars
<1>9. \A k \in 1..n : accepted[s][k] < recvCtr[s] /\ accepted[s][k] < Len(sent[p])
  BY <1>1 DEF RecvInv, CounterAfterAccepted
<1> HIDE DEF m, c, n
<1>10. CounterAfterAccepted'
  <2>1. recvCtr'[s] = accepted'[s][Len(accepted'[s])] + 1
    BY <1>5, <1>7
  <2>2. \A k \in 1 .. n + 1 : accepted'[s][k] < recvCtr'[s] /\ accepted'[s][k] < Len(sent[p])
    <3> SUFFICES ASSUME NEW k \in 1 .. n + 1
                 PROVE  accepted'[s][k] < recvCtr'[s] /\ accepted'[s][k] < Len(sent[p])
      OBVIOUS
    <3>1. CASE k = n + 1
      BY <1>2, <1>5, <1>7, <3>1
    <3>2. CASE k \in 1..n
      <4>1. accepted'[s][k] = accepted[s][k] /\ accepted[s][k] \in Nat
        BY <1>1, <1>7, <3>2
      <4>2. accepted[s][k] < recvCtr[s] /\ accepted[s][k] < Len(sent[p])
        BY <1>9, <3>2
      <4> QED BY <1>1, <1>2, <1>4, <1>5, <4>1, <4>2
    <3> QED
      <4>1. n \in Nat
        BY <1>1
      <4> QED BY <3>1, <3>2, <4>1
  <2> QED BY <1>6, <1>7, <1>8, <2>1, <2>2 DEF RecvInv, CounterAfterAccepted
<1>11. NoReplay'
  <2>1. \A k, l \in 1 .. n + 1 : k < l => accepted'[s][k] < accepted'[s][l]
    <3> SUFFICES ASSUME NEW k \in 1 .. n + 1, NEW l \in 1 .. n + 1, k < l
                 PROVE  accepted'[s][k] < accepted'[s][l]
      OBVIOUS
    <3>1. CASE l = n + 1
      <4>1. k \in 1..n
        BY <1>1, <3>1
      <4>2. accepted'[s][k] = accepted[s][k] /\ accepted'[s][l] = c
        BY <1>7, <3>1, <4>1
      <4>3. accepted[s][k] \in Nat /\ accepted[s][k] < recvCtr[s]
        BY <1>1, <1>9, <4>1
      <4> QED BY <1>1, <1>2, <1>4, <4>2, <4>3
    <3>2. CASE l # n + 1
      <4>1. k \in 1..n /\ l \in 1..n
        <5>1. n \in Nat
          BY <1>1
        <5>2. l \in 1..n
          BY <3>2, <5>1
        <5> QED BY <5>1, <5>2
      <4>2. accepted'[s][k] = accepted[s][k] /\ accepted'[s][l] = accepted[s][l]
        BY <1>7, <4>1
      <4>3. accepted[s][k] < accepted[s][l]
        <5>1. k \in DOMAIN accepted[s] /\ l \in DOMAIN accepted[s]
          BY <1>1, <4>1
        <5> QED BY <5>1 DEF RecvInv, NoReplay
      <4> QED BY <4>2, <4>3
    <3> QED BY <3>1, <3>2
  <2> QED BY <1>6, <1>7, <2>1 DEF RecvInv, NoReplay
<1>12. ReceiverOnSenderChain'
  <2>1. /\ c + 1 = i
        /\ accepted'[s][Len(accepted'[s])] = c
    BY <1>2, <1>7 DEF c
  <2>2. /\ c + 1 \in DOMAIN sent[p]
        /\ recvChain'[s] = Append(sent[p][c + 1].key, Adv)
    BY <1>2, <1>5, <2>1 DEF m
  <2> QED BY <1>6, <1>7, <1>8, <2>1, <2>2 DEF RecvInv, ReceiverOnSenderChain
<1>13. PqcStepNeverSkipped'
  <2>1. \A k \in 1 .. n + 1 : \A d \in 0 .. accepted'[s][k] :
           sent[p][d + 1].pqc => \E j \in 1..k : accepted'[s][j] = d
    <3> SUFFICES ASSUME NEW k \in 1 .. n + 1, NEW d \in 0 .. accepted'[s][k],
                        sent[p][d + 1].pqc
                 PROVE  \E j \in 1..k : accepted'[s][j] = d
      OBVIOUS
    <3>1. CASE k \in 1..n
      <4>1. d \in 0 .. accepted[s][k] /\ k \in DOMAIN accepted[s]
        BY <1>1, <1>7, <3>1
      <4>2. PICK j \in 1..k : accepted[s][j] = d
        BY <4>1 DEF RecvInv, PqcStepNeverSkipped
      <4>3. j \in 1..n
        BY <1>1, <3>1
      <4> QED BY <1>7, <4>2, <4>3
    <3>2. CASE k = n + 1 /\ d = c
      BY <1>1, <1>7, <3>2
    <3>3. CASE k = n + 1 /\ d < recvCtr[s]
      <4>1. n \in 1..n /\ recvCtr[s] = accepted[s][n] + 1
        BY <1>1, <3>3 DEF RecvInv, CounterAfterAccepted, n
      <4>2. d \in 0 .. accepted[s][n]
        BY <1>1, <3>3, <4>1
      <4>3. PICK j \in 1..n : accepted[s][j] = d
        BY <1>1, <4>1, <4>2 DEF RecvInv, PqcStepNeverSkipped
      <4>4. accepted'[s][j] = d /\ j \in 1..k
        BY <1>1, <1>7, <3>3, <4>3
      <4> QED BY <4>4
    <3>4. CASE k = n + 1 /\ recvCtr[s] <= d /\ d < c
      <4>1. d \in Nat /\ d < i - 1
        BY <1>2, <3>4 DEF c
      <4> QED BY <3>4, <4>1, NoPqcStepBetween DEF Accept
    <3> QED BY <1>1, <1>2, <1>7, <3>1, <3>2, <3>3, <3>4
  <2>2. \A k \in DOMAIN accepted'[s] : \A d \in 0 .. accepted'[s][k] :
           sent'[Peer(s)][d + 1].pqc => \E j \in 1..k : accepted'[s][j] = d
    BY <1>7, <1>8, <2>1
  <2>3. \A t \in Side \ {s} :
           \A k \in DOMAIN accepted'[t] : \A d \in 0 .. accepted'[t][k] :
              sent'[Peer(t)][d + 1].pqc => \E j \in 1..k : accepted'[t][j] = d
    BY <1>6, <1>8 DEF RecvInv, PqcStepNeverSkipped
  <2> QED BY <2>2, <2>3 DEF PqcStepNeverSkipped
<1> QED BY <1>10, <1>11, <1>12, <1>13 DEF RecvInv

-----------------------------------------------------------------------------
(* The invariant and what follows from it. *)

\* The invariant holds of a fresh session.
LEMMA InitInvariant == Init => IInv
<1> SUFFICES ASSUME Init PROVE IInv
  OBVIOUS
<1>1. TypeOK
  BY InitType
<1>2. \A s \in Side : /\ sent[s] = <<>> /\ accepted[s] = <<>> /\ recvChain[s] = <<>>
                      /\ sendCtr[s] = 0 /\ recvCtr[s] = 0
  BY DEF Init
<1>3. Len(<<>>) = 0 /\ DOMAIN <<>> = {}
  OBVIOUS
<1>4. SentNumbered /\ KeysOnChain /\ PqcKeysEndInSecret
  BY <1>2, <1>3 DEF SentNumbered, KeysOnChain, PqcKeysEndInSecret
<1>5. CounterAfterAccepted /\ NoReplay /\ ReceiverOnSenderChain /\ PqcStepNeverSkipped
  BY <1>2, <1>3 DEF CounterAfterAccepted, NoReplay, ReceiverOnSenderChain,
                    PqcStepNeverSkipped
<1> QED BY <1>1, <1>4, <1>5 DEF IInv

\* Every step keeps the invariant.
LEMMA NextInvariant == IInv /\ [Next]_vars => IInv'
<1> SUFFICES ASSUME IInv, [Next]_vars PROVE IInv'
  OBVIOUS
<1>1. TypeOK /\ SendInv /\ RecvInv
  BY DEF IInv, SendInv, RecvInv
<1>2. TypeOK'
  BY <1>1, NextType
<1>3. ASSUME NEW s \in Side, Encrypt(s) \/ EncryptFails(s) \/ EncryptExhausted(s)
      PROVE  SendInv' /\ RecvInv'
  BY <1>1, <1>3, EncryptKeepsSendInv, EncryptKeepsRecvInv
<1>4. ASSUME UNCHANGED <<sendVars, recvVars>>
      PROVE  SendInv' /\ RecvInv'
  BY <1>1, <1>4, SMTT(60) DEF SendInv, SentNumbered, KeysOnChain, PqcKeysEndInSecret,
                    RecvInv, CounterAfterAccepted, NoReplay, ReceiverOnSenderChain,
                    PqcStepNeverSkipped, sendVars, recvVars
<1>5. ASSUME UNCHANGED sendVars
      PROVE  SendInv'
  BY <1>1, <1>5 DEF SendInv, SentNumbered, KeysOnChain, PqcKeysEndInSecret, sendVars
<1>6. ASSUME NEW s \in Side, Receive(s)
      PROVE  SendInv' /\ RecvInv'
  <2>1. PICK i \in 1..Len(sent[Peer(s)]) : Decrypt(s, sent[Peer(s)][i])
    BY <1>6 DEF Receive
  <2>2. CASE Accept(s, sent[Peer(s)][i])
    BY <1>1, <1>5, <2>1, <2>2, AcceptKeepsRecvInv DEF Decrypt
  <2>3. CASE Reject(s, sent[Peer(s)][i])
    BY <1>4, <2>1, <2>3 DEF Decrypt, Reject
  <2> QED BY <2>1, <2>2, <2>3 DEF Decrypt
<1>7. ASSUME NEW s \in Side, ReceiveDamaged(s)
      PROVE  SendInv' /\ RecvInv'
  <2>1. PICK m \in Damaged(s) : Decrypt(s, m)
    BY <1>7 DEF ReceiveDamaged
  <2>2. Reject(s, m)
    BY <1>1, <2>1, DamagedNeverOpens DEF Decrypt, Accept
  <2> QED BY <1>4, <2>1, <2>2 DEF Decrypt, Reject
<1>8. SendInv' /\ RecvInv'
  BY <1>3, <1>4, <1>6, <1>7 DEF Next, vars
<1> QED BY <1>2, <1>8 DEF IInv, SendInv, RecvInv

\* Every state the two ends can reach satisfies the inductive invariant: each
\* sent key extends the ones before, and the receiver stands on one of them.
THEOREM Invariant == Spec => []IInv
<1>1. Init => IInv
  BY InitInvariant
<1>2. IInv /\ [Next]_vars => IInv'
  BY NextInvariant
<1> QED BY <1>1, <1>2, PTL DEF Spec

\* decrypt never accepts a message counter twice or after a later one.
THEOREM NoReplayHolds == Spec => []NoReplay
<1>1. IInv => NoReplay
  BY DEF IInv
<1> QED BY <1>1, Invariant, PTL

\* recv_chain_key is always the sender's chain right after a message it sent.
THEOREM ReceiverOnSenderChainHolds == Spec => []ReceiverOnSenderChain
<1>1. IInv => ReceiverOnSenderChain
  BY DEF IInv
<1> QED BY <1>1, Invariant, PTL

\* A PQC step that the receiver has not taken bars everything sent after it.
THEOREM PqcStepNeverSkippedHolds == Spec => []PqcStepNeverSkipped
<1>1. IInv => PqcStepNeverSkipped
  BY DEF IInv
<1> QED BY <1>1, Invariant, PTL

\* No two messages of a direction are encrypted under one message key.
THEOREM MessageKeysUniqueHolds == Spec => []MessageKeysUnique
<1>1. IInv => MessageKeysUnique
  <2> SUFFICES ASSUME IInv, NEW s \in Side,
                      NEW i \in DOMAIN sent[s], NEW j \in DOMAIN sent[s], i < j
               PROVE  sent[s][i].key # sent[s][j].key
    <3>1. ASSUME IInv, NEW s \in Side PROVE DOMAIN sent[s] = 1..Len(sent[s])
                                            /\ Len(sent[s]) \in Nat
      BY <3>1, LenProperties DEF IInv, TypeOK
    <3>2. ASSUME NEW s \in Side, IInv, NEW i \in DOMAIN sent[s], NEW j \in DOMAIN sent[s], i # j
          PROVE  i < j \/ j < i
      BY <3>1, <3>2
    <3> QED BY <3>2 DEF MessageKeysUnique
  <2> DEFINE S == {Adv} \union Secret
             a == sent[s][i].key
             b == sent[s][j].key
  <2>1. Extends(Append(a, Adv), b)
    BY DEF IInv, KeysOnChain
  <2>2. a \in Seq(S) /\ b \in Seq(S) /\ Adv \in S
    <3>1. sent[s] \in Seq(Message) /\ DOMAIN sent[s] = 1..Len(sent[s])
      BY LenProperties DEF IInv, TypeOK
    <3>2. sent[s][i] \in Message /\ sent[s][j] \in Message
      BY <3>1, ElementOfSeq
    <3> QED BY <3>2 DEF Message, ChainKey
  <2> HIDE DEF S, a, b
  <2>3. Len(a) + 1 <= Len(b) /\ Len(a) \in Nat /\ Len(b) \in Nat
    BY <2>1, <2>2, ExtendsAppendFacts, LenProperties
  <2>4. a # b
    BY <2>3
  <2> QED BY <2>4 DEF a, b
<1> QED BY <1>1, Invariant, PTL
-----------------------------------------------------------------------------
(* What opens: the links of the sending chain. *)

\* The chain before the i-th message of those in q, if no call failed since the one before.
Before(q, i) == IF i = 1 THEN <<>> ELSE Append(q[i - 1].key, Adv)

\* The key that goes with the i-th message then.
Keyed(q, i) == IF q[i].pqc THEN Append(Before(q, i), q[i].ct) ELSE Before(q, i)

\* Each key is one link from the key before it, unless a call failed in between; so is
\* the chain itself, as long as a call may still use it.
ChainLinks ==
    \A s \in Side :
        /\ spoiled[s] \subseteq 0..sendCtr[s]
        /\ \A i \in DOMAIN sent[s] : i - 1 \notin spoiled[s] => sent[s][i].key = Keyed(sent[s], i)
        /\ sendCtr[s] \notin spoiled[s] /\ sendCtr[s] # CounterMax
           => sendChain[s] = Before(sent[s], sendCtr[s] + 1)

\* A fresh session has no message and no failed call.
LEMMA InitLinks == Init => ChainLinks
<1> SUFFICES ASSUME Init PROVE ChainLinks
  OBVIOUS
<1>1. \A s \in Side : /\ sent[s] = <<>> /\ spoiled[s] = {} /\ sendChain[s] = <<>>
                      /\ sendCtr[s] = 0
  BY DEF Init
<1>2. DOMAIN <<>> = {}
  OBVIOUS
<1> QED BY <1>1, <1>2 DEF ChainLinks, Before

\* Encrypting adds a link, and a call that fails marks the place where one is missing.
LEMMA EncryptKeepsLinks ==
    ASSUME TypeOK, SendInv, ChainLinks, NEW s \in Side,
           Encrypt(s) \/ EncryptFails(s) \/ EncryptExhausted(s)
    PROVE  ChainLinks'
<1> DEFINE n == sendCtr[s]
           new == NextMessage(s)
<1>1. \A t \in Side \ {s} : /\ sent'[t] = sent[t] /\ sendCtr'[t] = sendCtr[t]
                            /\ sendChain'[t] = sendChain[t] /\ spoiled'[t] = spoiled[t]
  BY DEF Encrypt, EncryptFails, EncryptExhausted, TypeOK
<1>2. /\ sent[s] \in Seq(Message) /\ Len(sent[s]) = n /\ n \in Nat
      /\ DOMAIN sent[s] = 1..n /\ n <= CounterMax
  BY LenProperties, CounterMaxAssumption DEF TypeOK, SendInv, SentNumbered
<1> DEFINE Links(t) ==
             /\ spoiled[t] \subseteq 0..sendCtr[t]
             /\ \A i \in DOMAIN sent[t] : i - 1 \notin spoiled[t] => sent[t][i].key = Keyed(sent[t], i)
             /\ sendCtr[t] \notin spoiled[t] /\ sendCtr[t] # CounterMax
                => sendChain[t] = Before(sent[t], sendCtr[t] + 1)
<1>5. ASSUME NEW t \in Side \ {s} PROVE Links(t)'
  <2>1. Links(t)
    BY DEF ChainLinks
  <2>2. /\ sent'[t] = sent[t] /\ sendCtr'[t] = sendCtr[t]
        /\ sendChain'[t] = sendChain[t] /\ spoiled'[t] = spoiled[t]
    BY <1>1
  <2> QED BY <2>1, <2>2
<1>6. CASE EncryptFails(s) \/ EncryptExhausted(s)
  <2>1. /\ sent'[s] = sent[s] /\ sendCtr'[s] = sendCtr[s]
        /\ \/ spoiled'[s] = spoiled[s] \union {n}
           \/ spoiled'[s] = spoiled[s] /\ sendCtr[s] = CounterMax
    BY <1>6 DEF EncryptFails, EncryptExhausted, TypeOK
  <2>2. Links(s)
    BY DEF ChainLinks
  <2>3. n \in 0..n
    BY <1>2
  <2>4. Links(s)'
    BY <2>1, <2>2, <2>3
  <2> QED BY <1>5, <2>4 DEF ChainLinks
<1>7. CASE Encrypt(s)
  <2>1. /\ sent'[s] = Append(sent[s], new) /\ new \in Message
        /\ sendChain'[s] = Append(new.key, Adv)
        /\ sendCtr'[s] = n + 1 /\ spoiled'[s] = spoiled[s]
        /\ sendCtr[s] # CounterMax
    BY <1>7, SendFacts DEF Encrypt, TypeOK, NextMessage
  <2>2. /\ Len(sent'[s]) = n + 1 /\ DOMAIN sent'[s] = 1 .. n + 1
        /\ \A i \in 1..n : sent'[s][i] = sent[s][i]
        /\ sent'[s][n + 1] = new
    BY <1>2, <2>1, AppendProperties, LenProperties
  <2>3. spoiled'[s] \subseteq 0..sendCtr'[s] /\ sendCtr'[s] \notin spoiled'[s]
    <3>1. spoiled[s] \subseteq 0..n
      BY DEF ChainLinks
    <3>2. 0..n \subseteq 0..(n + 1) /\ n + 1 \notin 0..n
      BY <1>2
    <3> QED BY <2>1, <3>1, <3>2
  <2>4. \A i \in 1 .. n + 1 : Before(sent'[s], i) = Before(sent[s], i)
    <3>1. \A i \in 1 .. n + 1 : i # 1 => i - 1 \in 1..n
      BY <1>2
    <3> QED BY <2>2, <3>1 DEF Before
  <2>5. \A i \in 1..n : Keyed(sent'[s], i) = Keyed(sent[s], i)
    <3>1. \A i \in 1..n : i \in 1 .. n + 1
      BY <1>2
    <3> QED BY <2>2, <2>4, <3>1 DEF Keyed
  <2>6. n \notin spoiled[s] => new.key = Keyed(sent'[s], n + 1)
    <3>1. n \notin spoiled[s] => sendChain[s] = Before(sent[s], n + 1)
      BY <2>1 DEF ChainLinks
    <3>2. Before(sent'[s], n + 1) = Before(sent[s], n + 1)
      <4>1. n + 1 \in 1 .. n + 1
        BY <1>2
      <4> QED BY <2>4, <4>1
    <3>3. new.key = IF new.pqc THEN Append(sendChain[s], new.ct) ELSE sendChain[s]
      BY DEF NextMessage, MixedSend
    <3>4. Keyed(sent'[s], n + 1) = IF new.pqc THEN Append(Before(sent'[s], n + 1), new.ct) ELSE Before(sent'[s], n + 1)
      <4>1. sent'[s][n + 1] = new
        BY <2>2
      <4> HIDE DEF new
      <4> QED BY <4>1 DEF Keyed
    <3> QED BY <3>1, <3>2, <3>3, <3>4
  <2>7. \A i \in 1 .. n + 1 : i - 1 \notin spoiled[s] => sent'[s][i].key = Keyed(sent'[s], i)
    <3> SUFFICES ASSUME NEW i \in 1 .. n + 1, i - 1 \notin spoiled[s]
                 PROVE  sent'[s][i].key = Keyed(sent'[s], i)
      OBVIOUS
    <3>1. CASE i \in 1..n
      BY <1>2, <2>2, <2>5, <3>1 DEF ChainLinks
    <3>2. CASE i = n + 1
      <4>1. n \notin spoiled[s]
        BY <1>2, <3>2
      <4> QED BY <2>2, <2>6, <3>2, <4>1
    <3> QED BY <1>2, <3>1, <3>2
  <2>8. sendChain'[s] = Before(sent'[s], n + 2)
    <3>1. \A q, k : k \in Nat => Before(q, k + 2) = Append(q[k + 1].key, Adv)
      <4> SUFFICES ASSUME NEW q, NEW k \in Nat PROVE Before(q, k + 2) = Append(q[k + 1].key, Adv)
        OBVIOUS
      <4>1. k + 2 # 1 /\ (k + 2) - 1 = k + 1
        OBVIOUS
      <4> QED BY <4>1, Zenon DEF Before
    <3>2. Before(sent'[s], n + 2) = Append(sent'[s][n + 1].key, Adv)
      BY <1>2, <3>1
    <3> QED BY <2>1, <2>2, <3>2
  <2>9. sendCtr'[s] + 1 = n + 2
    BY <1>2, <2>1
  <2>10. Links(s)'
    <3> HIDE DEF new, n
    <3> QED BY <2>1, <2>2, <2>3, <2>7, <2>8, <2>9
  <2> QED BY <1>5, <2>10 DEF ChainLinks
<1> QED BY <1>6, <1>7

\* One more discarded key is one more advance.
LEMMA OneMoreAdvance ==
    ASSUME NEW S, Adv \in S, NEW a \in Seq(S), NEW n \in Nat
    PROVE  Append(a \o [k \in 1..n |-> Adv], Adv) = a \o [k \in 1..(n + 1) |-> Adv]
<1> DEFINE r == [k \in 1..n |-> Adv]
           t == [k \in 1..(n + 1) |-> Adv]
           b == a \o r
           c == a \o t
<1>1. n + 1 \in Nat /\ Len(a) \in Nat
  BY LenProperties
<1>2. /\ r \in Seq(S) /\ Len(r) = n /\ \A k \in 1..n : r[k] = Adv
      /\ t \in Seq(S) /\ Len(t) = n + 1 /\ \A k \in 1..(n + 1) : t[k] = Adv
  BY <1>1, RepeatFacts
<1> HIDE DEF r, t
<1>3. /\ b \in Seq(S) /\ Len(b) = Len(a) + n
      /\ \A i \in 1..(Len(a) + n) : b[i] = IF i <= Len(a) THEN a[i] ELSE r[i - Len(a)]
  BY <1>1, <1>2, ConcatProperties
<1>4. /\ c \in Seq(S) /\ Len(c) = Len(a) + (n + 1)
      /\ \A i \in 1..(Len(a) + (n + 1)) : c[i] = IF i <= Len(a) THEN a[i] ELSE t[i - Len(a)]
  <2>1. /\ c \in Seq(S) /\ Len(c) = Len(a) + Len(t)
        /\ \A i \in 1..(Len(a) + Len(t)) : c[i] = IF i <= Len(a) THEN a[i] ELSE t[i - Len(a)]
    BY <1>2, ConcatProperties
  <2> HIDE DEF c
  <2> QED BY <1>2, <2>1
<1> HIDE DEF b, c
<1>5. /\ Append(b, Adv) \in Seq(S) /\ Len(Append(b, Adv)) = Len(b) + 1
      /\ \A i \in 1..Len(b) : Append(b, Adv)[i] = b[i]
      /\ Append(b, Adv)[Len(b) + 1] = Adv
  BY <1>3, AppendProperties
<1>6. ASSUME NEW i \in 1..(Len(b) + 1) PROVE Append(b, Adv)[i] = c[i]
  <2>1. CASE i <= Len(a)
    BY <1>1, <1>3, <1>4, <1>5, <2>1
  <2>2. CASE i > Len(a) /\ i <= Len(b)
    <3>1. i - Len(a) \in 1..n /\ i - Len(a) \in 1..(n + 1) /\ i \in 1..Len(b)
          /\ i \in 1..(Len(a) + (n + 1))
      BY <1>1, <1>3, <2>2
    <3> QED BY <1>1, <1>2, <1>3, <1>4, <1>5, <2>2, <3>1
  <2>3. CASE i = Len(b) + 1
    <3>1. i - Len(a) \in 1..(n + 1) /\ i \in 1..(Len(a) + (n + 1)) /\ ~(i <= Len(a))
      BY <1>1, <1>3, <2>3
    <3> QED BY <1>2, <1>4, <1>5, <2>3, <3>1
  <2> QED BY <1>1, <1>3, <2>1, <2>2, <2>3
<1>7. Len(Append(b, Adv)) = Len(c)
  BY <1>1, <1>3, <1>4, <1>5
<1>8. Append(b, Adv) = c
  BY <1>4, <1>5, <1>6, <1>7, SeqEqual
<1> QED BY <1>8 DEF b, c, r, t

\* No discarded key is no advance.
LEMMA NoAdvance ==
    ASSUME NEW S, Adv \in S, NEW a \in Seq(S), NEW n \in Nat, n = 0
    PROVE  a \o [k \in 1..n |-> Adv] = a
<1> DEFINE r == [k \in 1..n |-> Adv]
<1>1. r \in Seq(S) /\ Len(r) = 0
  BY RepeatFacts
<1> HIDE DEF r
<1>2. r = <<>>
  BY <1>1, EmptySeq
<1>3. a \o <<>> = a
  BY ConcatEmptySeq
<1> QED BY <1>2, <1>3 DEF r

\* As far as no call failed and no PQC step was sent, the sender's chain is what the
\* receiver gets by discarding keys.
LEMMA SkippingFollows ==
    ASSUME TypeOK, SendInv, RecvInv, ChainLinks, NEW s \in Side,
           NEW i \in 1..Len(sent[Peer(s)]), recvCtr[s] <= i - 1,
           \A c \in recvCtr[s]..(i - 1) : c \notin spoiled[Peer(s)],
           \A c \in recvCtr[s]..(i - 2) : ~sent[Peer(s)][c + 1].pqc
    PROVE  Before(sent[Peer(s)], i)
             = recvChain[s] \o [k \in 1..(i - 1 - recvCtr[s]) |-> Adv]
<1> DEFINE S == {Adv} \union Secret
           p == Peer(s)
           q == sent[p]
           r == recvCtr[s]
           a == recvChain[s]
           advances(n) == [k \in 1..n |-> Adv]
           bad == {c \in r..(i - 1) : Before(q, c + 1) # a \o advances(c - r)}
<1>1. /\ p \in Side /\ q \in Seq(Message) /\ Len(q) \in Nat /\ DOMAIN q = 1..Len(q)
      /\ a \in Seq(S) /\ Adv \in S /\ r \in Nat /\ i \in Nat /\ i \in 1..Len(q)
  BY PeerSide, LenProperties DEF TypeOK, ChainKey
<1>2. Before(q, r + 1) = a
  <2>1. CASE accepted[s] = <<>>
    BY <2>1 DEF RecvInv, ReceiverOnSenderChain, CounterAfterAccepted, Before
  <2>2. CASE accepted[s] # <<>>
    <3> DEFINE c0 == accepted[s][Len(accepted[s])]
    <3>1. c0 + 1 \in DOMAIN q /\ a = Append(q[c0 + 1].key, Adv) /\ r = c0 + 1
      BY <2>2 DEF RecvInv, ReceiverOnSenderChain, CounterAfterAccepted
    <3>2. r >= 1 /\ (r + 1) - 1 = r /\ r + 1 # 1
      BY <1>1, <3>1
    <3> HIDE DEF c0, q, a, r
    <3> QED BY <3>1, <3>2, Zenon DEF Before
  <2> QED BY <2>1, <2>2
<1>3. SUFFICES bad = {}
  <2>1. i - 1 \in r..(i - 1) /\ (i - 1) + 1 = i
    BY <1>1
  <2> QED BY <2>1
<1> HIDE DEF S, q, a, r, advances
<1>4. SUFFICES ASSUME bad # {} PROVE FALSE
  OBVIOUS
<1>5. bad \subseteq Nat
  BY <1>1
<1>6. PICK c \in bad : \A d \in bad : c <= d
  <2> HIDE DEF bad
  <2> QED BY <1>4, <1>5, LeastNatural
<1>7. c \in Nat /\ r <= c /\ c <= i - 1 /\ Before(q, c + 1) # a \o advances(c - r)
  BY <1>1
<1>8. c # r
  <2>1. r - r = 0
    BY <1>1
  <2>2. a \o advances(0) = a
    BY <1>1, NoAdvance DEF advances
  <2> QED BY <1>2, <1>7, <2>1, <2>2
<1> DEFINE d == c - 1
<1>9. d \in Nat /\ d \in r..(i - 2) /\ d \in r..(i - 1) /\ d < c /\ d + 1 = c
      /\ d - r \in Nat /\ (d - r) + 1 = c - r /\ c \in 1..Len(q)
  BY <1>1, <1>7, <1>8
<1>10. Before(q, d + 1) = a \o advances(d - r)
  <2>1. d \notin bad
    <3>1. ~(c <= d)
      BY <1>7, <1>9
    <3> HIDE DEF bad, d
    <3> QED BY <1>6, <3>1
  <2> QED BY <1>9, <2>1
<1>11. q[c].key = Before(q, c)
  <2>1. c - 1 \notin spoiled[p] /\ ~q[c].pqc
    BY <1>9 DEF r, q
  <2>2. q[c].key = Keyed(q, c)
    BY <1>1, <1>9, <2>1 DEF ChainLinks, q
  <2> QED BY <2>1, <2>2 DEF Keyed
<1>12. Before(q, c + 1) = Append(Before(q, c), Adv)
  <2>1. c + 1 # 1 /\ (c + 1) - 1 = c
    BY <1>9
  <2> QED BY <1>11, <2>1, Zenon DEF Before
<1>13. Append(a \o advances(d - r), Adv) = a \o advances((d - r) + 1)
  BY <1>1, <1>9, OneMoreAdvance DEF advances
<1> QED BY <1>7, <1>9, <1>10, <1>12, <1>13

\* So a message that nothing came in between opens.
LEMMA Opening ==
    ASSUME TypeOK, SendInv, RecvInv, ChainLinks PROVE UndisturbedMessageOpens
<1> SUFFICES ASSUME NEW s \in Side, NEW i \in DOMAIN sent[Peer(s)],
                    InWindow(s, sent[Peer(s)][i].counter),
                    \A c \in recvCtr[s]..sent[Peer(s)][i].counter : c \notin spoiled[Peer(s)],
                    \A c \in recvCtr[s]..sent[Peer(s)][i].counter - 1 : ~sent[Peer(s)][c + 1].pqc,
                    sent[Peer(s)][i].pqc => /\ sent[Peer(s)][i].counter = recvCtr[s]
                                            /\ sent[Peer(s)][i].ct.key = localKem[s]
             PROVE  DerivedKey(s, sent[Peer(s)][i]) = sent[Peer(s)][i].key
  BY DEF UndisturbedMessageOpens, Opens
<1> DEFINE p == Peer(s)
           m == sent[p][i]
           S == {Adv} \union Secret
<1>1. /\ p \in Side /\ sent[p] \in Seq(Message) /\ Len(sent[p]) \in Nat
      /\ DOMAIN sent[p] = 1..Len(sent[p]) /\ i \in 1..Len(sent[p])
      /\ recvChain[s] \in Seq(S) /\ Adv \in S /\ recvCtr[s] \in Nat /\ i \in Nat
  BY PeerSide, LenProperties, SMTT(60) DEF TypeOK, ChainKey
<1>2. m \in Message
  BY <1>1, ElementOfSeq
<1>3. m.counter = i - 1 /\ recvCtr[s] <= i - 1 /\ (i - 1) - 1 = i - 2
  BY <1>1 DEF SendInv, SentNumbered, InWindow
<1>4. /\ \A c \in recvCtr[s]..(i - 1) : c \notin spoiled[p]
      /\ \A c \in recvCtr[s]..(i - 2) : ~sent[p][c + 1].pqc
  BY <1>3
<1>5. Before(sent[p], i) = recvChain[s] \o [k \in 1..(i - 1 - recvCtr[s]) |-> Adv]
  BY <1>1, <1>3, <1>4, SkippingFollows
<1>6. m.key = Keyed(sent[p], i)
  <2>1. i - 1 \in recvCtr[s]..(i - 1)
    BY <1>1, <1>3
  <2> QED BY <1>1, <1>4, <2>1 DEF ChainLinks
<1>7. Skipped(s, m) = [k \in 1..(i - 1 - recvCtr[s]) |-> Adv]
  BY <1>3 DEF Skipped
<1>8. CASE ~m.pqc
  BY <1>5, <1>6, <1>7, <1>8 DEF Keyed, DerivedKey, MixedRecv
<1>9. CASE m.pqc
  <2>1. i - 1 - recvCtr[s] = 0
    BY <1>1, <1>3, <1>9
  <2>2. Before(sent[p], i) = recvChain[s]
    <3> HIDE DEF S
    <3> QED BY <1>1, <1>5, <2>1, NoAdvance
  <2>3. Decapsulated(m.ct, localKem[s]) = m.ct /\ m.ct \in S
    BY <1>2, <1>9 DEF Decapsulated, Message, Secret
  <2>4. m.key = Append(recvChain[s], m.ct)
    BY <1>6, <1>9, <2>2 DEF Keyed
  <2>5. MixedRecv(s, m) = m.key
    BY <1>9, <2>3, <2>4 DEF MixedRecv
  <2>6. m.key \in Seq(S)
    BY <1>2 DEF Message, ChainKey
  <2> HIDE DEF S, m
  <2>7. m.key \o [k \in 1..(i - 1 - recvCtr[s]) |-> Adv] = m.key
    BY <1>1, <2>1, <2>6, NoAdvance
  <2> QED BY <1>7, <2>5, <2>7 DEF DerivedKey, m
<1> QED BY <1>8, <1>9
-----------------------------------------------------------------------------
(* The key the receiver answers to. *)

\* A call of either side leaves the receivers' keys, and the PQC steps they rest on, alone.
LEMMA EncryptKeepsRemote ==
    ASSUME TypeOK, RecvInv, RemoteKeyFromLastPqcStep, NEW s \in Side,
           Encrypt(s) \/ EncryptFails(s) \/ EncryptExhausted(s)
    PROVE  RemoteKeyFromLastPqcStep'
<1>1. UNCHANGED recvVars
  BY DEF Encrypt, EncryptFails, EncryptExhausted
<1>2. ASSUME NEW t \in Side, NEW i \in DOMAIN accepted[t]
      PROVE  sent'[Peer(t)][accepted[t][i] + 1] = sent[Peer(t)][accepted[t][i] + 1]
  <2>1. accepted[t] \in Seq(Nat) /\ DOMAIN accepted[t] = 1..Len(accepted[t])
    BY LenProperties DEF TypeOK
  <2>2. accepted[t][i] \in Nat
    BY <2>1, <1>2, ElementOfSeq
  <2>3. accepted[t][i] < Len(sent[Peer(t)])
    BY <1>2 DEF RecvInv, CounterAfterAccepted
  <2>4. /\ Len(sent[Peer(t)]) \in Nat
        /\ \A k \in 1..Len(sent[Peer(t)]) : sent'[Peer(t)][k] = sent[Peer(t)][k]
    BY PeerSide, SentGrows
  <2>5. accepted[t][i] + 1 \in 1..Len(sent[Peer(t)])
    BY <2>2, <2>3, <2>4
  <2> QED BY <2>4, <2>5
<1>3. accepted' = accepted /\ remotePk' = remotePk
  BY <1>1 DEF recvVars
<1> SUFFICES ASSUME NEW t \in Side
             PROVE  LET steps == {i \in DOMAIN accepted[t] : sent'[Peer(t)][accepted[t][i] + 1].pqc}
                    IN  IF steps = {} THEN remotePk[t] = <<Peer(t), 0>>
                        ELSE \E i \in steps :
                                /\ \A j \in steps : j <= i
                                /\ remotePk[t] = sent'[Peer(t)][accepted[t][i] + 1].pk
  BY <1>3 DEF RemoteKeyFromLastPqcStep
<1> DEFINE steps == {i \in DOMAIN accepted[t] : sent[Peer(t)][accepted[t][i] + 1].pqc}
           later == {i \in DOMAIN accepted[t] : sent'[Peer(t)][accepted[t][i] + 1].pqc}
<1>4. later = steps
  BY <1>2
<1>5. IF steps = {} THEN remotePk[t] = <<Peer(t), 0>>
      ELSE \E i \in steps : /\ \A j \in steps : j <= i
                            /\ remotePk[t] = sent[Peer(t)][accepted[t][i] + 1].pk
  BY DEF RemoteKeyFromLastPqcStep
<1>6. IF later = {} THEN remotePk[t] = <<Peer(t), 0>>
      ELSE \E i \in later : /\ \A j \in later : j <= i
                            /\ remotePk[t] = sent'[Peer(t)][accepted[t][i] + 1].pk
  BY <1>2, <1>4, <1>5
<1> QED BY <1>6

\* Accepting a PQC message takes its key over; accepting another one keeps the key.
LEMMA AcceptKeepsRemote ==
    ASSUME TypeOK, SendInv, RecvInv, RemoteKeyFromLastPqcStep, NEW s \in Side,
           NEW m \in Message, NEW k \in 1..Len(sent[Peer(s)]), m = sent[Peer(s)][k],
           Accept(s, m), UNCHANGED sendVars
    PROVE  RemoteKeyFromLastPqcStep'
<1> DEFINE p == Peer(s)
           n == Len(accepted[s])
           Steps(a) == {i \in DOMAIN a : sent[p][a[i] + 1].pqc}
           old == Steps(accepted[s])
           new == Steps(accepted'[s])
<1>1. /\ accepted[s] \in Seq(Nat) /\ n \in Nat /\ DOMAIN accepted[s] = 1..n
      /\ Len(sent[p]) \in Nat /\ DOMAIN sent[p] = 1..Len(sent[p])
  BY PeerSide, LenProperties DEF TypeOK
<1>2. m.counter = k - 1 /\ m.counter \in Nat /\ m.counter + 1 = k
  BY <1>1, PeerSide DEF SendInv, SentNumbered
<1>3. /\ accepted'[s] = Append(accepted[s], m.counter)
      /\ remotePk'[s] = IF m.pqc THEN m.pk ELSE remotePk[s]
      /\ \A t \in Side \ {s} : accepted'[t] = accepted[t] /\ remotePk'[t] = remotePk[t]
      /\ sent' = sent
  BY DEF Accept, TypeOK, sendVars
<1>4. /\ DOMAIN accepted'[s] = 1..(n + 1) /\ \A i \in 1..n : accepted'[s][i] = accepted[s][i]
      /\ accepted'[s][n + 1] = m.counter
  <2> DEFINE a == accepted[s]
             b == accepted'[s]
  <2>1. a \in Seq(Nat) /\ m.counter \in Nat /\ b = Append(a, m.counter)
    BY <1>1, <1>2, <1>3
  <2> HIDE DEF a, b
  <2>2. /\ b \in Seq(Nat) /\ Len(b) = Len(a) + 1 /\ \A i \in 1..Len(a) : b[i] = a[i]
        /\ b[Len(a) + 1] = m.counter
    BY <2>1, AppendProperties
  <2>3. DOMAIN b = 1..(Len(a) + 1)
    BY <2>2, LenProperties
  <2> QED BY <2>2, <2>3 DEF a, b
<1>5. sent[p][accepted'[s][n + 1] + 1] = m /\ n + 1 \in DOMAIN accepted'[s]
  BY <1>1, <1>2, <1>4
<1>6. new = IF m.pqc THEN old \union {n + 1} ELSE old
  <2>1. \A i \in 1..(n + 1) : i \in 1..n \/ i = n + 1
    BY <1>1
  <2>2. \A i \in 1..n : i \in 1..(n + 1)
    BY <1>1
  <2>3. \A i \in DOMAIN accepted'[s] : i \in new <=> i \in old \/ (i = n + 1 /\ m.pqc)
    <3>1. n + 1 \notin 1..n
      BY <1>1
    <3> QED BY <1>1, <1>4, <1>5, <2>1, <2>2, <3>1
  <2>4. old \subseteq DOMAIN accepted'[s] /\ new \subseteq DOMAIN accepted'[s]
    BY <1>1, <1>4, <2>2
  <2> HIDE DEF old, new
  <2>5. CASE m.pqc
    BY <1>5, <2>3, <2>4, <2>5
  <2>6. CASE ~m.pqc
    BY <2>3, <2>4, <2>6
  <2> QED BY <2>5, <2>6
<1>7. IF old = {} THEN remotePk[s] = <<p, 0>>
      ELSE \E i \in old : /\ \A j \in old : j <= i
                          /\ remotePk[s] = sent[p][accepted[s][i] + 1].pk
  BY DEF RemoteKeyFromLastPqcStep
<1>8. old \subseteq 1..n
  BY <1>1
<1> HIDE DEF old, new, n
<1>9. IF new = {} THEN remotePk'[s] = <<p, 0>>
      ELSE \E i \in new : /\ \A j \in new : j <= i
                          /\ remotePk'[s] = sent[p][accepted'[s][i] + 1].pk
  <2>1. CASE m.pqc
    <3>1. n + 1 \in new /\ \A j \in new : j <= n + 1
      BY <1>1, <1>6, <1>8, <2>1
    <3>2. remotePk'[s] = sent[p][accepted'[s][n + 1] + 1].pk
      BY <1>3, <1>5, <2>1
    <3> QED BY <3>1, <3>2
  <2>2. CASE ~m.pqc
    <3>1. new = old /\ remotePk'[s] = remotePk[s]
      BY <1>3, <1>6, <2>2
    <3>2. \A i \in old : accepted'[s][i] = accepted[s][i]
      BY <1>4, <1>8
    <3> QED BY <1>7, <3>1, <3>2
  <2> QED BY <2>1, <2>2
<1>10. ASSUME NEW t \in Side \ {s}
       PROVE  LET steps == {i \in DOMAIN accepted'[t] : sent'[Peer(t)][accepted'[t][i] + 1].pqc}
              IN  IF steps = {} THEN remotePk'[t] = <<Peer(t), 0>>
                  ELSE \E i \in steps :
                          /\ \A j \in steps : j <= i
                          /\ remotePk'[t] = sent'[Peer(t)][accepted'[t][i] + 1].pk
  <2>1. accepted'[t] = accepted[t] /\ remotePk'[t] = remotePk[t] /\ sent' = sent /\ t \in Side
    BY <1>3
  <2> QED BY <2>1 DEF RemoteKeyFromLastPqcStep
<1>11. LET steps == {i \in DOMAIN accepted'[s] : sent'[p][accepted'[s][i] + 1].pqc}
       IN  IF steps = {} THEN remotePk'[s] = <<p, 0>>
           ELSE \E i \in steps : /\ \A j \in steps : j <= i
                                 /\ remotePk'[s] = sent'[p][accepted'[s][i] + 1].pk
  BY <1>3, <1>9 DEF new
<1>12. \A t \in Side : t = s \/ t \in Side \ {s}
  OBVIOUS
<1> QED BY ONLY <1>10, <1>11, <1>12 DEF RemoteKeyFromLastPqcStep

\* What the receiver's readiness rests on.
ReadyInv == IInv /\ ChainLinks /\ RemoteKeyFromLastPqcStep

\* It holds of a fresh session, and every step keeps it.
LEMMA ReadyInvariant == Spec => []ReadyInv
<1>1. Init => ReadyInv
  <2>1. Init => RemoteKeyFromLastPqcStep
    BY DEF Init, RemoteKeyFromLastPqcStep
  <2> QED BY <2>1, InitInvariant, InitLinks DEF ReadyInv
<1>2. ReadyInv /\ [Next]_vars => ReadyInv'
  <2> SUFFICES ASSUME ReadyInv, [Next]_vars PROVE ReadyInv'
    OBVIOUS
  <2>1. TypeOK /\ SendInv /\ RecvInv /\ ChainLinks /\ RemoteKeyFromLastPqcStep /\ IInv
    BY DEF ReadyInv, IInv, SendInv, RecvInv
  <2>2. IInv'
    BY <2>1, NextInvariant
  <2>3. ASSUME NEW s \in Side, Encrypt(s) \/ EncryptFails(s) \/ EncryptExhausted(s)
        PROVE  ChainLinks' /\ RemoteKeyFromLastPqcStep'
    BY <2>1, <2>3, EncryptKeepsLinks, EncryptKeepsRemote
  <2>4. ASSUME UNCHANGED sendVars PROVE ChainLinks'
    BY <2>1, <2>4 DEF sendVars, ChainLinks
  <2>5. ASSUME UNCHANGED <<sendVars, recvVars>> PROVE ChainLinks' /\ RemoteKeyFromLastPqcStep'
    BY <2>1, <2>4, <2>5 DEF sendVars, recvVars, RemoteKeyFromLastPqcStep
  <2>6. ASSUME NEW s \in Side, Receive(s) PROVE ChainLinks' /\ RemoteKeyFromLastPqcStep'
    <3>1. PICK i \in 1..Len(sent[Peer(s)]) : Decrypt(s, sent[Peer(s)][i])
      BY <2>6 DEF Receive
    <3>2. sent[Peer(s)][i] \in Message
      BY <2>1, FrameFacts
    <3>3. CASE Accept(s, sent[Peer(s)][i])
      <4>1. UNCHANGED sendVars
        BY <3>1 DEF Decrypt
      <4> DEFINE m == sent[Peer(s)][i]
      <4>2. m \in Message /\ m = sent[Peer(s)][i] /\ Accept(s, m)
        BY <3>2, <3>3
      <4> HIDE DEF m
      <4> QED BY <2>1, <2>4, <4>1, <4>2, AcceptKeepsRemote
    <3>4. CASE Reject(s, sent[Peer(s)][i])
      BY <2>5, <3>1, <3>4 DEF Decrypt, Reject
    <3> QED BY <3>1, <3>3, <3>4 DEF Decrypt
  <2>7. ASSUME NEW s \in Side, ReceiveDamaged(s) PROVE ChainLinks' /\ RemoteKeyFromLastPqcStep'
    <3>1. PICK m \in Damaged(s) : Decrypt(s, m)
      BY <2>7 DEF ReceiveDamaged
    <3>2. Reject(s, m)
      BY <2>1, <3>1, DamagedNeverOpens DEF Decrypt, Accept
    <3> QED BY <2>5, <3>1, <3>2 DEF Decrypt, Reject
  <2>8. ChainLinks' /\ RemoteKeyFromLastPqcStep'
    BY <2>3, <2>5, <2>6, <2>7 DEF Next, vars
  <2> QED BY <2>2, <2>8 DEF ReadyInv
<1> QED BY <1>1, <1>2, PTL DEF Spec

\* The receiver stays ready for its peer: a message that nothing came in between opens, and
\* what it sends next is sealed to the key its peer published last (trellis_ratchet_decrypt).
THEOREM ReceiverReadyHolds == Spec => []ReceiverReady
<1>1. ReadyInv => ReceiverReady
  BY Opening DEF ReadyInv, IInv, SendInv, RecvInv, ReceiverReady
<1> QED BY <1>1, ReadyInvariant, PTL
=============================================================================
