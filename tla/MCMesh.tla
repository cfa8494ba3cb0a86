------------------------------- MODULE MCMesh -------------------------------
(***************************************************************************)
(* The components of a node that share neither state nor messages here are  *)
(* checked in one run: `part` names the one that takes the steps of a       *)
(* behaviour, and the others stay as they started.                          *)
(***************************************************************************)
EXTENDS RoutingTable, Gossip, CircuitPool, Guard, HopChecks, ClientSend,
        ExitRelay, Turn, FrameStream, ConnGate, Handshake, RateScheduler, Multiplexer

VARIABLE part

meshVars == <<part, tableVars, gossipVars, poolVars, guardVars, hopVars, sendVars,
              exitVars, turnVars, frameVars, gateVars, handshakeVars, rateVars, muxVars>>

MeshParts == {"table", "gossip", "pool", "guard", "canaries", "descriptors", "sending",
              "modes", "exit", "turn", "frames", "challenges", "guarding", "handshake", "rate", "streams"}

MeshInit ==
    /\ part \in MeshParts
    /\ TableInit /\ GossipInit /\ PoolInit /\ GuardInit /\ HopInit /\ SendInit
    /\ ExitInit /\ TurnInit /\ FrameInit /\ GateInit /\ HandshakeInit /\ RateInit
    /\ MuxInit
    \* The choices of SendInit that a part does not depend on are made once.
    /\ part = "modes" \/ route.mode = CHOOSE m \in RouteModes : TRUE
    /\ part = "sending" \/ dials = <<CHOOSE p \in SendPeers : TRUE>>

\* The variables of a part that does not take the step.
Rests(names, vars) == IF part \in names THEN TRUE ELSE UNCHANGED vars
OthersRest ==
    /\ UNCHANGED part
    /\ Rests({"table"}, tableVars) /\ Rests({"gossip"}, gossipVars) /\ Rests({"pool"}, poolVars)
    /\ Rests({"guard"}, guardVars) /\ Rests({"canaries", "descriptors"}, hopVars)
    /\ Rests({"sending", "modes"}, sendVars) /\ Rests({"exit"}, exitVars)
    /\ Rests({"turn"}, turnVars) /\ Rests({"frames"}, frameVars)
    /\ Rests({"challenges", "guarding"}, gateVars) /\ Rests({"handshake"}, handshakeVars)
    /\ Rests({"rate"}, rateVars) /\ Rests({"streams"}, muxVars)

MeshNext ==
    \/ part = "table" /\ TableNext /\ OthersRest
    \/ part = "gossip" /\ GossipNext /\ OthersRest
    \/ part = "pool" /\ PoolNext /\ OthersRest
    \/ part = "guard" /\ GuardNext /\ OthersRest
    \/ part = "canaries" /\ CanaryNext /\ OthersRest
    \/ part = "descriptors" /\ DescNext /\ OthersRest
    \/ part = "sending" /\ SendingNext /\ OthersRest
    \/ part = "modes" /\ ModeNext /\ OthersRest
    \/ part = "exit" /\ ExitNext /\ OthersRest
    \/ part = "turn" /\ TurnNext /\ OthersRest
    \/ part = "frames" /\ FrameNext /\ OthersRest
    \/ part = "challenges" /\ PowNext /\ OthersRest
    \/ part = "guarding" /\ GuardingNext /\ OthersRest
    \/ part = "handshake" /\ HandshakeNext /\ OthersRest
    \/ part = "rate" /\ RateNext /\ OthersRest
    \/ part = "streams" /\ MuxNext /\ OthersRest

MeshSpec == MeshInit /\ [][MeshNext]_meshVars

\* Every part of the state has its shape.
MeshTypeOK ==
    /\ part \in MeshParts
    /\ TableTypeOK /\ PoolTypeOK /\ GuardTypeOK /\ HopTypeOK /\ SendTypeOK
    /\ ExitTypeOK /\ TurnTypeOK /\ GateTypeOK /\ HandshakeTypeOK /\ RateTypeOK
    /\ MuxTypeOK

\* Nothing is taken twice: an announcement that came over several paths is shown once
\* (gossip.c), and a message that the application was told is sent is in one place until it
\* is framed or given up (the batch and the send list of src/src/sdk/client.c).
DeliveredOnce == ShownOnce /\ AcceptedOnce

\* The route of a message is the one that was decided on: guards of different subnets, which
\* a restart keeps (guard.c), descriptors not older than their lifetime
\* (relay_descriptor.c), hops without an expired canary (canary.c), and onions sealed for the keys
\* that the relays have now (circuit_pool.c).
RoutesHold ==
    /\ [](GuardsKept /\ GuardsDiverse /\ DescriptorsAreRecent /\ SealedForCurrentKeys)
    /\ ExpiredIsSkipped

\* What a client asked to be relayed leads to the target it named, although slots, sockets
\* and channel numbers are used again: streams of an exit (exit_relay.c), channels of a TURN
\* allocation (turn.c).
RelayedToTarget == SocketsLeadToTarget /\ ChannelsAgree

\* What is written comes out whole and in order: frames cut and padded to units (engine.c),
\* frames that wait for a tick of the scheduler (timing.c), data that waits for a paused stream
\* (multiplexer.c).
StreamsInOrder == FramesDelivered /\ PushedInOrder /\ BacklogInOrder

\* A line of three nodes.
MCLine == [n \in {"a", "b", "c"} |-> CASE n = "a" -> {"b"} [] n = "b" -> {"a", "c"} [] n = "c" -> {"b"}]
\* The first circuit starts at the guard r1, the third at r2.
MCPinned == [k \in 1..3 |-> CASE k = 1 -> {"r1"} [] k = 2 -> {} [] k = 3 -> {"r2"}]
\* Two guards share a subnet.
MCSubnetOf == [p \in {"g1", "g2", "g3"} |-> IF p = "g3" THEN "s2" ELSE "s1"]
\* Two connections of one pair of nodes.
MCOpenerOf == [c \in Handshakes |-> "a"]
MCAnswererOf == [c \in Handshakes |-> "b"]
\* One frame of the second batch has no data.
MCBatches == {<<TRUE, TRUE>>, <<TRUE, FALSE, TRUE>>}
MCVanguardLife == [k \in 2..3 |-> {1}]
=============================================================================
