----------------------------- MODULE Handshake ------------------------------
(***************************************************************************)
(* The three messages by which two nodes authenticate each other and agree *)
(* on a session key (src/src/crypto/handshake.c).  Keys and signatures are *)
(* terms.  A message may be lost, repeated, late, or reach the handshake   *)
(* of another connection; nobody makes up a message.                       *)
(***************************************************************************)
EXTENDS Naturals, Sequences

CONSTANTS
    Handshakes,  \* connections; each has a handshake object at both ends
    OpenerOf,    \* the node that opens each connection, TRELLIS_ROLE_INITIATOR
    AnswererOf,  \* the node it is opened to
    Room         \* messages and signatures that HS_TRANSCRIPT_CAP has room for

ASSUME HandshakeAssumption == Room \in Nat /\ Room >= 5

Roles == {"initiator", "responder"}

VARIABLES
    hs,       \* per connection and role, the handshake object
    flights   \* the messages sent so far

handshakeVars == <<hs, flights>>

NoRemote == "nobody"
NoKey == <<>>
\* The ephemeral key pair that an object generates.
Eph(role, c) == <<role, c>>

\* trellis_handshake_new.
HandshakeInit ==
    /\ hs = [c \in Handshakes |-> [role \in Roles |->
                [state |-> "INIT", transcript |-> <<>>, remote |-> NoRemote, key |-> NoKey]]]
    /\ flights = {}

PartyOf(role, c) == IF role = "initiator" THEN OpenerOf[c] ELSE AnswererOf[c]

\* hs_absorb: nothing is added when there is no room.
Fits(t) == Len(t) < Room
Absorbed(t, part) == IF Fits(t) THEN Append(t, part) ELSE t

\* hs_sign_transcript: who signs, over what.
Signature(n, t) == [by |-> n, over |-> t]

\* Faulty variant of Verifies: only the message itself is signed, not what went before.
VerifiesMessage(sig, n, t) == sig.by = n /\ sig.over[Len(sig.over)] = t[Len(t)]

\* hs_verify_transcript_sig: the signature is n's, over the transcript t.
Verifies(sig, n, t) == sig = Signature(n, t)

\* OQS_KEM_encaps and OQS_KEM_decaps; another key than that encapsulated to gives another secret.
Encapsulated(eph, c) == [to |-> eph, secret |-> c]
Decapsulated(ct, eph) == IF ct.to = eph THEN <<ct.secret, "shared">> ELSE <<ct.secret, "rejected">>

\* The key of both Diffie-Hellman and encapsulated secret, bound to the transcript.
SessionKey(ephs, secret, t) == <<ephs, secret, t>>

\* trellis_handshake_create_msg1.
CreateMsg1(c) ==
    LET msg1 == [type |-> 1, eph |-> Eph("initiator", c), id |-> OpenerOf[c]]
    IN /\ hs[c]["initiator"].state = "INIT"
       /\ hs' = [hs EXCEPT ![c]["initiator"].state = "AWAITING_MSG2",
                           ![c]["initiator"].transcript = Absorbed(@, msg1)]
       /\ flights' = flights \union {msg1}

\* trellis_handshake_process_msg1.
ProcessMsg1(c, msg1) ==
    LET me == hs[c]["responder"]
        eph == Eph("responder", c)
        body == [type |-> 2, eph |-> eph, ct |-> Encapsulated(msg1.eph, c), id |-> AnswererOf[c]]
        heard == Append(Append(me.transcript, msg1), body)
        sig == Signature(AnswererOf[c], heard)
        signed == Append(heard, sig)
    IN /\ me.state = "INIT" /\ msg1.type = 1
       /\ hs' = [hs EXCEPT ![c]["responder"] =
              [state |-> "AWAITING_MSG3", transcript |-> signed, remote |-> msg1.id,
               key |-> SessionKey({msg1.eph, eph}, Decapsulated(body.ct, msg1.eph), signed)]]
       /\ flights' = flights \union {[type |-> 2, body |-> body, sig |-> sig]}

\* trellis_handshake_process_msg2: the sender is noted and the body absorbed before the
\* signature is checked; a refused message leaves both.
ProcessMsg2(c, msg2) ==
    LET me == hs[c]["initiator"]
        heard == Absorbed(me.transcript, msg2.body)
        signed == Append(heard, msg2.sig)
        body == [type |-> 3, id |-> OpenerOf[c]]
        closing == Append(signed, body)
        sig == Signature(OpenerOf[c], closing)
        eph == Eph("initiator", c)
    IN /\ me.state = "AWAITING_MSG2" /\ msg2.type = 2
       /\ IF Fits(me.transcript) /\ Verifies(msg2.sig, msg2.body.id, heard) /\ Len(closing) < Room
          THEN /\ hs' = [hs EXCEPT ![c]["initiator"] =
                      [state |-> "COMPLETE", transcript |-> Append(closing, sig),
                       remote |-> msg2.body.id,
                       key |-> SessionKey({eph, msg2.body.eph},
                                          Decapsulated(msg2.body.ct, eph), signed)]]
               /\ flights' = flights \union {[type |-> 3, body |-> body, sig |-> sig]}
          ELSE /\ hs' = [hs EXCEPT ![c]["initiator"].transcript = heard,
                                   ![c]["initiator"].remote = msg2.body.id]
               /\ UNCHANGED flights

\* trellis_handshake_process_msg3: only a message of the sender of the first one is absorbed.
ProcessMsg3(c, msg3) ==
    LET me == hs[c]["responder"]
        heard == Absorbed(me.transcript, msg3.body)
    IN /\ me.state = "AWAITING_MSG3" /\ msg3.type = 3 /\ msg3.body.id = me.remote
       /\ hs' = IF Fits(me.transcript) /\ Fits(heard) /\ Verifies(msg3.sig, me.remote, heard)
                THEN [hs EXCEPT ![c]["responder"].state = "COMPLETE",
                                ![c]["responder"].transcript = Append(heard, msg3.sig)]
                ELSE [hs EXCEPT ![c]["responder"].transcript = heard]
       /\ UNCHANGED flights

\* handle_handshake gives the message to the object of the connection.
GiveMessage(c, m) == ProcessMsg1(c, m) \/ ProcessMsg2(c, m) \/ ProcessMsg3(c, m)

HandshakeNext ==
    \/ \E c \in Handshakes : CreateMsg1(c)
    \/ \E c \in Handshakes, m \in flights : GiveMessage(c, m)

HandshakeSpec == HandshakeInit /\ [][HandshakeNext]_handshakeVars

----------------------------------------------------------------------------

HandshakeTypeOK ==
    \A c \in Handshakes, role \in Roles :
        /\ hs[c][role].state \in {"INIT", "AWAITING_MSG2", "AWAITING_MSG3", "COMPLETE"}
        /\ Len(hs[c][role].transcript) <= Room
        /\ hs[c][role].state = "COMPLETE" => hs[c][role].key # NoKey

\* The two objects hold the same key and each holds the other's node as its peer.
Agree(c, role, d, other) ==
    /\ hs[c][role].key = hs[d][other].key
    /\ hs[c][role].remote = PartyOf(other, d) /\ hs[d][other].remote = PartyOf(role, c)

Completed(c, role) == hs[c][role].state = "COMPLETE"

\* Whatever messages of other connections reach it, a handshake that is complete agrees with
\* an object of its peer, one that is complete too if this end answered, and with no two
\* (trellis_handshake_process_msg2 and trellis_handshake_process_msg3).
KeysAgree ==
    \A c \in Handshakes :
        /\ Completed(c, "initiator") => \E d \in Handshakes : Agree(c, "initiator", d, "responder")
        /\ Completed(c, "responder") =>
              \E d \in Handshakes : Completed(d, "initiator") /\ Agree(c, "responder", d, "initiator")
        /\ \A d \in Handshakes \ {c} : \A role \in Roles :
              Completed(c, role) /\ Completed(d, role) => hs[c][role].key # hs[d][role].key
=============================================================================
