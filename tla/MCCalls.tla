------------------------------ MODULE MCCalls -------------------------------
(***************************************************************************)
(* The operations that one call starts and that a timer or another node's  *)
(* answer ends, checked in one run.  `engaged` names the component that    *)
(* takes the steps of a behaviour; the others stay as they started, and of *)
(* the fairness that each component states only that of the one engaged is *)
(* required.                                                               *)
(***************************************************************************)
EXTENDS Lookup, StreamLink, Bootstrap, Deadman, PtTransport, Resolver, ServiceConnect

VARIABLE engaged

callVars == <<engaged, lookupVars, linkVars, bootVars, deadmanVars, ptVars, resolverVars, connectVars>>

CallsInit ==
    /\ engaged \in {"lookup", "link", "bootstrap", "deadman", "transport", "resolver", "connect"}
    /\ LookupInit /\ LinkInit /\ BootstrapInit /\ DeadmanInit /\ PtInit /\ ResolverInit /\ ConnectInit
    \* The choices of a component that stays as it is are made once.
    /\ engaged = "link" \/ kind = "tcp"
    /\ engaged = "lookup" \/ calls = [o \in Callers |-> NewCall((CHOOSE mix \in Mixes : TRUE)[o])]

Rests(name, vars) == IF engaged = name THEN TRUE ELSE UNCHANGED vars
OthersRest ==
    /\ UNCHANGED engaged
    /\ Rests("lookup", lookupVars) /\ Rests("link", linkVars) /\ Rests("bootstrap", bootVars)
    /\ Rests("deadman", deadmanVars) /\ Rests("transport", ptVars) /\ Rests("resolver", resolverVars)
    /\ Rests("connect", connectVars)

LookupStep == engaged = "lookup" /\ LookupNext /\ OthersRest
LinkStep == engaged = "link" /\ LinkNext /\ OthersRest
BootstrapStep == engaged = "bootstrap" /\ BootstrapNext /\ OthersRest
DeadmanStep == engaged = "deadman" /\ DeadmanNext /\ OthersRest
PtStep == engaged = "transport" /\ PtNext /\ OthersRest
ResolverStep == engaged = "resolver" /\ ResolverNext /\ OthersRest
ConnectStep == engaged = "connect" /\ ConnectNext /\ OthersRest

CallsNext == LookupStep \/ LinkStep \/ BootstrapStep \/ DeadmanStep \/ PtStep \/ ResolverStep
             \/ ConnectStep

\* LookupFairness, LinkFairness, BootstrapFairness, DeadmanFairness and the timer of
\* PtSpec, each where its component is engaged.
CallsFairness ==
    /\ \A i \in Slots : WF_lookupVars(engaged = "lookup" /\ Timeout(i))
    /\ WF_linkVars(engaged = "link" /\ Accepted)
    /\ \A s \in Sides : /\ WF_linkVars(engaged = "link" /\ Read(s))
                        /\ WF_linkVars(engaged = "link" /\ CloseEnds(s))
    /\ \A n \in LanNodes : WF_bootVars(engaged = "bootstrap" /\ StrategyTimer(n))
    /\ WF_deadmanVars(engaged = "deadman" /\ DeadmanTick)
    /\ WF_deadmanVars(engaged = "deadman" /\ PollTimer)
    /\ WF_deadmanVars(engaged = "deadman" /\ \E found \in BOOLEAN : HeartbeatFetched(found))
    /\ WF_deadmanVars(engaged = "deadman" /\ \E found \in BOOLEAN : AlarmFetched(found))
    /\ SF_deadmanVars(engaged = "deadman" /\ AlarmFetched(TRUE))
    /\ WF_ptVars(engaged = "transport" /\ LaunchTimeout)

CallsSpec == CallsInit /\ [][CallsNext]_callVars /\ CallsFairness

\* Every part of the state has its shape.
CallsTypeOK == LookupTypeOK /\ LinkTypeOK /\ BootstrapTypeOK /\ PtTypeOK /\ ResolverTypeOK /\ ConnectTypeOK

\* A call is answered once and not twice, over all its paths, RPCs, resolvers and circuits, and
\* with a value only that as many nodes gave as have to agree (dht.c, doh.c, service.c).
AnswersHold == AnsweredOnce /\ ResolvedOnce /\ ConnectedOnce /\ NodesAgree

\* What was sent gets through: frames on a connection that stays open (tcp.c, websocket.c,
\* tls.c), and the bytes of a pluggable transport, however reads cut them (pt_subprocess.c).
SentGetsThrough == SentArrives /\ []BytesArrive

\* What was started ends, whoever stays silent: lookups (dht.c), the bootstrap
\* (bootstrap.c) and the launch of a pluggable transport (pt_subprocess.c).
WhatStartsEnds ==
    EveryCallEnds /\ BootstrapReports /\ (engaged = "transport" => LaunchReturns)

\* Nodes 3 and 4 hold the value; 1 and 2 know of them.
MCStored == [n \in Nodes |-> IF n \in {3, 4} THEN {9} ELSE NoValue]
MCLinks == [n \in Nodes |-> IF n \in {1, 2} THEN {3, 4} ELSE {1}]
\* The calls that two callers make at a time.
MCMixes == {[a |-> "skad_value", b |-> "values"], [a |-> "stores", b |-> "value"],
            [a |-> "skad_node", b |-> "node"], [a |-> "store", b |-> "values"],
            [a |-> "private", b |-> "value"], [a |-> "private", b |-> "private"]}
MCGroveOf == [n \in {"m1", "m2"} |-> IF n = "m1" THEN "none" ELSE "g"]
=============================================================================
