------------------------------ MODULE Channel -------------------------------
(***************************************************************************)
(* What a connection promises its two users, whatever carries it           *)
(* (trellis_conn_t and the callbacks of src/src/transport/internal.h): a    *)
(* side is offered the connection at most once, receives a prefix of what  *)
(* the other side sent, in order and without repetition, and nothing before *)
(* it was offered the connection nor after it closed it.                   *)
(***************************************************************************)
EXTENDS Naturals, Sequences, SequencesExt

CONSTANTS Ends      \* the two sides

VARIABLES offered,  \* what each side was told: "no", "yes", "failed", "closing", "closed"
          sent,     \* what each side sent
          got       \* what each side received

channelVars == <<offered, sent, got>>

Opposite(e) == CHOOSE f \in Ends : f # e

ChannelInit ==
    /\ offered = [e \in Ends |-> "no"]
    /\ sent = [e \in Ends |-> <<>>] /\ got = [e \in Ends |-> <<>>]

Told(e, before, after) == offered[e] = before /\ offered' = [offered EXCEPT ![e] = after]

\* More of what the other side sent arrives.
Arrive(e) ==
    \E n \in Len(got[e])..Len(sent[Opposite(e)]) :
        got' = [got EXCEPT ![e] = SubSeq(sent[Opposite(e)], 1, n)]

Offer(e) == Told(e, "no", "yes") /\ Arrive(e) /\ UNCHANGED sent
Refuse(e) == Told(e, "no", "failed") /\ UNCHANGED <<sent, got>>
Hand(e) == Told(e, "yes", "yes") /\ Arrive(e) /\ UNCHANGED sent
Put(e) ==
    /\ Told(e, "yes", "yes")
    /\ \E m \in 1..Len(sent[e])+1 : sent' = [sent EXCEPT ![e] = Append(@, m)]
    /\ UNCHANGED got
Shut(e) == Told(e, "yes", "closing") /\ UNCHANGED <<sent, got>>
Finish(e) == Told(e, "closing", "closed") /\ UNCHANGED <<sent, got>>

ChannelNext == \E e \in Ends :
    Offer(e) \/ Refuse(e) \/ Hand(e) \/ Put(e) \/ Shut(e) \/ Finish(e)

ChannelSpec == ChannelInit /\ [][ChannelNext]_channelVars
=============================================================================
