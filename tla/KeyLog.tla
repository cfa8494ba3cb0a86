------------------------------- MODULE KeyLog -------------------------------
(***************************************************************************)
(* The key transparency log (src/src/crypto/key_transparency.c): an owner  *)
(* publishes a chain of signed entries with its keys to the DHT, and a     *)
(* peer that remembers a key of first contact walks the chain from there.  *)
(* The chain head is kept in memory only: a restart begins a new chain.    *)
(***************************************************************************)
EXTENDS Naturals, FiniteSets, Sequences

CONSTANTS
    KeyVersions, \* bound: 1..KeyVersions are the Ed25519 keys the owner has in turn
    MaxSeq,      \* bound: sequence number of an entry
    MaxLives,    \* bound: lives of the owner's process
    MaxChain     \* KT_MAX_CHAIN_LEN

ASSUME KeyLogAssumption ==
    {KeyVersions, MaxLives} \subseteq Nat \ {0} /\ {MaxSeq, MaxChain} \subseteq Nat

\* A hash of an entry names the entry: its number in `log`; 0 is the zero hash.
VARIABLES
    log,      \* every entry published, in order: [seq, prev, pk, life]
    current,  \* the owner's key
    life,     \* lives so far
    chain,    \* g_own_chain: the number of the head entry in log, 0 before the first one
    tofu,     \* the peer's kt_tofu_entry_t: [seen, seq, pk]
    walk,     \* kt_verify_ctx_t, and the entries it took
    verdict   \* history: what the last verification said, the entries it took, and whether a
              \* peer that had seen the owner got all it asked for

keyLogVars == <<log, current, life, chain, tofu, walk, verdict>>

NoWalk == [active |-> FALSE, from |-> 0, to |-> 0, at |-> 0, prev |-> 0, pk |-> 0, taken |-> <<>>]

KeyLogInit ==
    /\ log = <<>>
    /\ current = 1
    /\ life = 1
    /\ chain = 0
    /\ tofu = [seen |-> FALSE, seq |-> 0, pk |-> 0]
    /\ walk = NoWalk
    /\ verdict = [valid |-> TRUE, taken |-> <<>>]

NextSeq == IF chain = 0 THEN 0 ELSE log[chain].seq + 1

\* trellis_kt_serialize_entry.
Entry(seq, prev, pk) == [seq |-> seq, prev |-> prev, pk |-> pk, life |-> life]

\* trellis_kt_publish: signed with the key that the entry announces.
PublishKey ==
    /\ NextSeq <= MaxSeq
    /\ log' = Append(log, Entry(NextSeq, chain, current))
    /\ chain' = Len(log')
    /\ UNCHANGED <<current, life, tofu, walk, verdict>>

RotateKey ==
    /\ current < KeyVersions
    /\ current' = current + 1
    /\ UNCHANGED <<log, life, chain, tofu, walk, verdict>>

\* g_own_chain does not outlive the process.
RestartOwner ==
    /\ life < MaxLives
    /\ life' = life + 1
    /\ chain' = 0
    /\ UNCHANGED <<log, current, tofu, walk, verdict>>

\* trellis_kt_record_first_contact; the handshake gives the key, the log its sequence.
FirstContact ==
    /\ ~tofu.seen /\ chain # 0 /\ log[chain].pk = current
    /\ tofu' = [seen |-> TRUE, seq |-> log[chain].seq, pk |-> current]
    /\ UNCHANGED <<log, current, life, chain, walk, verdict>>

\* trellis_kt_verify_chain: a peer never seen walks from 0 under the zero key; a target
\* before the start, or far behind it, is answered at once.
StartWalk(to) ==
    /\ ~walk.active
    /\ IF to < tofu.seq \/ to - tofu.seq > MaxChain
       THEN verdict' = [valid |-> FALSE, taken |-> <<>>] /\ UNCHANGED walk
       ELSE /\ walk' = [NoWalk EXCEPT !.active = TRUE, !.from = tofu.seq, !.to = to, !.at = tofu.seq, !.pk = tofu.pk]
            /\ UNCHANGED verdict
    /\ UNCHANGED <<log, current, life, chain, tofu>>

\* Faulty variant of EntryVerifies: the link to the entry before is not compared.
EntryVerifiesUnlinked(e) == log[e].pk = walk.pk

\* trellis_kt_verify_entry as on_kt_entry_fetched calls it: the signature under the key of
\* the entry before, and the link to it but for the first entry fetched.
EntryVerifies(e) ==
    /\ walk.at > walk.from => log[e].prev = walk.prev
    /\ log[e].pk = walk.pk

Ended(valid, taken) ==
    /\ walk' = NoWalk
    /\ verdict' = [valid |-> valid, taken |-> taken]

\* on_kt_entry_fetched for an entry e that some storer holds under this sequence number.
EntryFetched(e) ==
    LET taken == Append(walk.taken, e) IN
    /\ walk.active /\ log[e].seq = walk.at
    /\ IF ~EntryVerifies(e) THEN Ended(FALSE, taken) /\ UNCHANGED tofu
       ELSE IF walk.at = walk.to
       THEN /\ Ended(TRUE, taken)
            /\ tofu' = IF tofu.seen THEN [tofu EXCEPT !.seq = walk.to, !.pk = log[e].pk] ELSE tofu
       ELSE /\ walk' = [walk EXCEPT !.at = @ + 1, !.prev = e, !.pk = log[e].pk, !.taken = taken]
            /\ UNCHANGED <<tofu, verdict>>
    /\ UNCHANGED <<log, current, life, chain>>

EntryMissing ==
    /\ walk.active
    /\ Ended(FALSE, walk.taken)
    /\ UNCHANGED <<log, current, life, chain, tofu>>

KeyLogNext ==
    \/ PublishKey \/ RotateKey \/ RestartOwner \/ FirstContact \/ EntryMissing
    \/ \E to \in 0..MaxSeq : StartWalk(to)
    \/ \E e \in DOMAIN log : EntryFetched(e)

KeyLogSpec == KeyLogInit /\ [][KeyLogNext]_keyLogVars

--------------------------------------------------------------------------
(* Properties *)

\* Every part of the state has its shape; the entries of the log precede what links to them.
KeyLogTypeOK ==
    /\ \A e \in DOMAIN log : log[e].seq \in 0..MaxSeq /\ log[e].prev \in 0..(e - 1) /\ log[e].pk \in 1..KeyVersions
    /\ current \in 1..KeyVersions
    /\ life \in 1..MaxLives
    /\ chain \in 0..Len(log)
    /\ tofu \in [seen : BOOLEAN, seq : 0..MaxSeq, pk : 0..KeyVersions]
    /\ walk.active => walk.at \in walk.from..walk.to

\* A chain that a peer accepts is one chain: entries that the owner published in one life,
\* one after another, although it may have restarted between them and the storers hold
\* entries of both lives (key_transparency.c: expected_prev in on_kt_entry_fetched).
AcceptedChainIsOne ==
    verdict.valid =>
        \A i \in DOMAIN verdict.taken : i > 1 =>
            /\ log[verdict.taken[i]].prev = verdict.taken[i - 1]
            /\ log[verdict.taken[i]].life = log[verdict.taken[i - 1]].life
==============================================================================
