--------------------------- MODULE ServiceConnect ---------------------------
(***************************************************************************)
(* How a client reaches a service (src/src/greenhouse/service.c): the      *)
(* descriptor is looked up, in the own grove or over a Canopy circuit in   *)
(* another, and the tunnel is given to the caller.  A lookup answers once; *)
(* what it finds, and what the far bridge answers, is any outcome.         *)
(***************************************************************************)
EXTENDS Naturals, FiniteSets

CONSTANTS
    Tunnels,  \* calls of trellis_greenhouse_connect_with_router and _cross_grove
    Circuits  \* CANOPY_MAX_CIRCUITS

ASSUME ServiceConnectAssumption == Circuits \in Nat

VARIABLES
    reaching,  \* per call, where it is: "done" has freed its context, "refused" returned an error
    answers,   \* per call, the callbacks made: "tunnel" and "error"
    overlay    \* per call its Canopy circuit: "none", or "heard": up with app_recv set

connectVars == <<reaching, answers, overlay>>

ConnectInit ==
    /\ reaching = [c \in Tunnels |-> "idle"]
    /\ answers = [c \in Tunnels |-> [tunnel |-> 0, error |-> 0]]
    /\ overlay = [c \in Tunnels |-> "none"]

Moved(c, to) == reaching' = [reaching EXCEPT ![c] = to]
CallBack(c, what) == answers' = [answers EXCEPT ![c][what] = @ + 1]

\* trellis_greenhouse_connect_with_router: the lookup begins, or an error is returned.
ConnectWithRouter(c) ==
    /\ reaching[c] = "idle"
    /\ \E to \in {"connecting", "refused"} : Moved(c, to)
    /\ UNCHANGED <<answers, overlay>>

\* trellis_greenhouse_connect_cross_grove to a grove of this bridge: its own DHT is asked.
ConnectLocalGrove(c) ==
    /\ reaching[c] = "idle"
    /\ \E to \in {"looking", "refused"} : Moved(c, to)
    /\ UNCHANGED <<answers, overlay>>

\* Faulty variant of CrossGroveCleanup: the circuit stays.
CrossGroveCleanupKeeps(c) == Moved(c, "done") /\ CallBack(c, "error") /\ UNCHANGED overlay

\* cross_grove_cleanup.
CrossGroveCleanup(c) ==
    /\ Moved(c, "done") /\ CallBack(c, "error")
    /\ overlay' = [overlay EXCEPT ![c] = "none"]

\* trellis_greenhouse_connect_cross_grove to another grove: without a free circuit, or a way to
\* send the first message, it is refused; otherwise on_cross_grove_circuit is called at once and
\* asks for the descriptor, or cannot.
ConnectRemoteGrove(c) ==
    /\ reaching[c] = "idle"
    /\ \/ Moved(c, "refused") /\ UNCHANGED <<answers, overlay>>
       \/ /\ Cardinality({d \in Tunnels : overlay[d] # "none"}) < Circuits
          /\ \/ /\ Moved(c, "asking") /\ overlay' = [overlay EXCEPT ![c] = "heard"]
                /\ UNCHANGED answers
             \/ CrossGroveCleanup(c)

\* trellis_canopy_on_circuit_destroy and a withdrawn route free the circuit; the call is not told.
OverlayLost(c) ==
    /\ overlay[c] # "none"
    /\ overlay' = [overlay EXCEPT ![c] = "none"]
    /\ UNCHANGED <<reaching, answers>>

\* on_cross_grove_descriptor_found with a descriptor that is good: the circuit is destroyed
\* and the search begins again in the own grove, which may be refused.
HandedOn(c) ==
    /\ overlay' = [overlay EXCEPT ![c] = "none"]
    /\ \/ Moved(c, "connecting") /\ UNCHANGED answers
       \/ Moved(c, "done") /\ CallBack(c, "error")

\* on_cross_grove_cdht_recv, as often as a bridge answers: only while app_recv is set.  An
\* answer that is cut short, or says that there is nothing, ends the call.
BridgeAnswers(c) ==
    /\ overlay[c] = "heard"
    /\ CrossGroveCleanup(c) \/ HandedOn(c)

\* on_cross_grove_descriptor_found after the lookup in a grove of this bridge.
GroveLookupEnds(c) ==
    /\ reaching[c] = "looking"
    /\ CrossGroveCleanup(c) \/ HandedOn(c)

\* on_descriptor_found without a good descriptor, an introduction point, or memory.
DescriptorFails(c) ==
    /\ reaching[c] = "connecting"
    /\ Moved(c, "done") /\ CallBack(c, "error")
    /\ UNCHANGED overlay

\* on_descriptor_found: INTRODUCE1 is sent if there is a router; without one both ends are
\* bridged at once.  Either way the caller gets its end of the pipe now.
DescriptorFound(c) ==
    /\ reaching[c] = "connecting"
    /\ Moved(c, "done") /\ CallBack(c, "tunnel")
    /\ UNCHANGED overlay

ConnectNext == \E c \in Tunnels :
    \/ ConnectWithRouter(c) \/ ConnectLocalGrove(c) \/ ConnectRemoteGrove(c) \/ OverlayLost(c)
    \/ BridgeAnswers(c) \/ GroveLookupEnds(c) \/ DescriptorFails(c) \/ DescriptorFound(c)

ConnectSpec == ConnectInit /\ [][ConnectNext]_connectVars

----------------------------------------------------------------------------

ConnectTypeOK ==
    /\ reaching \in [Tunnels -> {"idle", "refused", "asking", "looking", "connecting", "done"}]
    /\ answers \in [Tunnels -> [tunnel : 0..2, error : 0..2]]
    /\ overlay \in [Tunnels -> {"none", "heard"}]

\* A call whose context is freed has called its caller back once and leaves no circuit that
\* could deliver to it; before, or when it returned an error, it has not (cross_grove_cleanup,
\* on_cross_grove_cdht_recv and on_descriptor_found).
ConnectedOnce ==
    \A c \in Tunnels :
        /\ answers[c].tunnel + answers[c].error = IF reaching[c] = "done" THEN 1 ELSE 0
        /\ overlay[c] # "none" => reaching[c] = "asking"
=============================================================================
