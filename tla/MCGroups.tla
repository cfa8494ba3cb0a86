------------------------------ MODULE MCGroups ------------------------------
(***************************************************************************)
(* The services of groups and identities, which share neither state nor    *)
(* messages here, are checked in one run: `section` names the component    *)
(* that takes the steps of a behaviour; the others stay as they started.   *)
(***************************************************************************)
EXTENDS Greenhouse, GardenTree, GroveJoin, Canopy, Incentive, Sybil, Naming, KeyLog, Recovery

VARIABLE section

groupVars == <<section, greenhouseVars, gardenVars, groveVars, canopyVars, incentiveVars,
               sybilVars, namingVars, keyLogVars, recoveryVars>>

Sections == {"greenhouse", "garden", "history", "grove", "canopy", "incentive", "trust",
             "personhood", "naming", "keylog", "recovery"}

GroupsInit ==
    /\ section \in Sections
    /\ GreenhouseInit /\ GardenInit /\ GroveInit /\ CanopyInit /\ IncentiveInit
    /\ SybilInit /\ NamingInit /\ KeyLogInit /\ RecoveryInit
    \* The choices of a component that stays as it is are made once.
    /\ section = "recovery" \/ secret = {}

\* The variables of a component that does not take the step.
Rests(names, vars) == IF section \in names THEN TRUE ELSE UNCHANGED vars
OthersRest ==
    /\ UNCHANGED section
    /\ Rests({"greenhouse"}, greenhouseVars) /\ Rests({"garden", "history"}, gardenVars)
    /\ Rests({"grove"}, groveVars) /\ Rests({"canopy"}, canopyVars)
    /\ Rests({"incentive"}, incentiveVars) /\ Rests({"trust", "personhood"}, sybilVars)
    /\ Rests({"naming"}, namingVars) /\ Rests({"keylog"}, keyLogVars)
    /\ Rests({"recovery"}, recoveryVars)

GroupsNext ==
    \/ section = "greenhouse" /\ GreenhouseNext /\ OthersRest
    \/ section = "garden" /\ GardenNext /\ OthersRest
    \/ section = "history" /\ Post /\ OthersRest
    \/ section = "grove" /\ GroveNext /\ OthersRest
    \/ section = "canopy" /\ CanopyNext /\ OthersRest
    \/ section = "incentive" /\ IncentiveNext /\ OthersRest
    \/ section = "trust" /\ TrustNext /\ OthersRest
    \/ section = "personhood" /\ PopNext /\ OthersRest
    \/ section = "naming" /\ NamingNext /\ OthersRest
    \/ section = "keylog" /\ KeyLogNext /\ OthersRest
    \/ section = "recovery" /\ RecoveryNext /\ OthersRest

GroupsSpec == GroupsInit /\ [][GroupsNext]_groupVars

\* Every part of the state has its shape.
GroupsTypeOK ==
    /\ section \in Sections
    /\ GreenhouseTypeOK /\ GardenTypeOK /\ GroveTypeOK /\ CanopyTypeOK /\ IncentiveTypeOK
    /\ SybilTypeOK /\ NamingTypeOK /\ KeyLogTypeOK

\* Nobody is let in but by those who may: members of a grove by its admins' approval
\* (grove.c), a peer that was refused only by something new about it (composite.c).
OnlyTheAdmitted == []MembersAreApproved /\ RefusedStaysOut

\* Who reads published records sees one history: the owner of a name (naming.c), the chain
\* of an identity's keys (key_transparency.c), the last messages of a garden (garden.c).
RecordsAgree == VerifiersAgree /\ AcceptedChainIsOne /\ HistoryIsLast

\* Nothing is counted twice: work is signed for in one receipt and credited once
\* (incentive.c), an introduction leads to one bridged rendezvous (rendezvous.c).
UsedOnce == CreditedOnce /\ SignedAsRelayed /\ BridgedOnce

\* Routes between groves are ways through their bridges that pass no grove twice, and a circuit
\* that its origin tore down is gone from every bridge, although the next bridges of several
\* tables may lead it in a circle (canopy.c).
RoutesEnd == RoutesAreWays /\ TornDown

\* Bridges A and B share a grove, and D joins one of each to another one, so that A and B
\* can lose their routes to it and learn them from one another.
MCGrovesOf == [b \in Bridges |-> CASE b = "A" -> {1, 3} [] b = "B" -> {2, 3} [] OTHER -> {0, 1, 2}]
MCSecrets == {{}, {0, 3}}
MCRandoms == {{0}, {1, 7}}
=============================================================================
