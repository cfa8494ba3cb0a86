----------------------------- MODULE Greenhouse -----------------------------
(***************************************************************************)
(* Hidden services (src/src/greenhouse): a service keeps introduction      *)
(* points and a descriptor in the DHT (service.c, introduction.c), and a   *)
(* node keeps a table of rendezvous that wait for their other half         *)
(* (service.c, rendezvous.c).  Introductions, joins and confirmations come *)
(* from peers in any order and any number of times.                        *)
(***************************************************************************)
EXTENDS Naturals, Sequences, FiniteSets

CONSTANTS
    Ephemeral,        \* whether the service is of type TRELLIS_GH_EPHEMERAL
    MaxIntroPoints,   \* TRELLIS_MAX_INTRO_POINTS
    KeepAlivePeriod,  \* TRELLIS_GH_INTRO_KEEPALIVE_MS (5 min)
    DescriptorTTL,    \* TRELLIS_GH_DESCRIPTOR_TTL_MS (60 min)
    RefreshWithin,    \* a descriptor is renewed when less than this is left (30 min)
    Cookies,          \* the rendezvous cookies
    PendingSlots,     \* RV_PENDING_MAX (64)
    MaxIntroductions, \* bound: introductions of one cookie
    GhMaxTime         \* bound: the clock

NoCookie == "free"

\* The keepalive timer comes round before the time in which a descriptor is renewed is over.
ASSUME GreenhouseAssumption ==
    /\ Ephemeral \in BOOLEAN
    /\ {MaxIntroPoints, KeepAlivePeriod, DescriptorTTL, PendingSlots} \subseteq Nat \ {0}
    /\ {RefreshWithin, MaxIntroductions, GhMaxTime} \subseteq Nat
    /\ KeepAlivePeriod < RefreshWithin /\ KeepAlivePeriod < DescriptorTTL
    /\ NoCookie \notin Cookies

VARIABLES
    online,     \* gh->running
    points,     \* gh->intro_points: what each one is
    expires,    \* gh->descriptor.expires_at
    published,  \* when the descriptor in the DHT expires; 0 without one
    refused,    \* whether the DHT refused the last descriptor
    spent,      \* gh->ephemeral_used
    pending,    \* g_rv_pending: slot -> cookie, or NoCookie
    introduced, \* cookie -> the introductions accepted
    bridged,    \* cookie -> the rendezvous bridged
    ghNow,      \* trellis_now_ms()
    keepAt      \* when intro_keepalive fires

serviceVars == <<online, points, expires, published, refused, spent>>
rendezvousVars == <<pending, introduced, bridged>>
clockVars == <<ghNow, keepAt>>
greenhouseVars == <<serviceVars, rendezvousVars, clockVars>>

\* An introduction point is asked (ESTABLISH_INTRO sent), attached to a connection,
\* or lost.
PointStates == {"asked", "attached", "lost"}

GreenhouseInit ==
    /\ online = FALSE /\ points = <<>> /\ expires = 0 /\ published = 0
    /\ refused = FALSE /\ spent = FALSE
    /\ pending = [i \in 1..PendingSlots |-> NoCookie]
    /\ introduced = [c \in Cookies |-> 0]
    /\ bridged = [c \in Cookies |-> 0]
    /\ ghNow = 0 /\ keepAt = 0

-----------------------------------------------------------------------------
(* The service. *)

\* establish_intro_points: the relays that could be asked, or the service itself.
Asked(n) == [i \in 1..n |-> "asked"]

\* The descriptor is signed and given to the DHT, which may refuse it.
PublishDescriptor(ok) ==
    /\ expires' = ghNow + DescriptorTTL
    /\ published' = IF ok THEN ghNow + DescriptorTTL ELSE published
    /\ refused' = ~ok

\* do_greenhouse_start: a service whose descriptor was refused for its rate runs too.
StartService ==
    /\ ~online
    /\ \E n \in 1..MaxIntroPoints, ok \in BOOLEAN :
            points' = Asked(n) /\ PublishDescriptor(ok)
    /\ online' = TRUE
    /\ keepAt' = ghNow + KeepAlivePeriod
    /\ UNCHANGED <<spent, rendezvousVars, ghNow>>

\* trellis_greenhouse_stop: an empty descriptor replaces the last one.
StopService ==
    /\ online
    /\ online' = FALSE /\ points' = <<>> /\ published' = 0
    /\ UNCHANGED <<expires, refused, spent, rendezvousVars, clockVars>>

\* trellis_intro_establish.
AttachPoint(i) ==
    /\ online /\ i \in DOMAIN points
    /\ points' = [points EXCEPT ![i] = "attached"]
    /\ UNCHANGED <<online, expires, published, refused, spent, rendezvousVars, clockVars>>

\* on_intro_message: an ephemeral service deletes its descriptor after its first use.
\* A caller the access list refuses changes nothing.
IntroMessage(i) ==
    /\ online /\ i \in DOMAIN points /\ points[i] = "attached"
    /\ spent' = (spent \/ Ephemeral)
    /\ published' = IF Ephemeral /\ ~spent THEN 0 ELSE published
    /\ UNCHANGED <<online, points, expires, refused, rendezvousVars, clockVars>>

\* Faulty variant of KeepAliveTimer: the descriptor is renewed with its points only.
KeepAliveWithoutRefresh ==
    /\ online /\ ghNow >= keepAt
    /\ keepAt' = keepAt + KeepAlivePeriod
    /\ LET alive == {i \in DOMAIN points : points[i] = "attached"}
       IN IF Cardinality(alive) < (Len(points) + 1) \div 2
          THEN \E m \in 1..MaxIntroPoints, ok \in BOOLEAN :
                    points' = Asked(m) /\ PublishDescriptor(ok)
          ELSE /\ points' = [i \in DOMAIN points |-> IF i \in alive THEN "attached" ELSE "lost"]
               /\ UNCHANGED <<expires, published, refused>>
    /\ UNCHANGED <<online, spent, rendezvousVars, ghNow>>

\* intro_keepalive_cb: points without a connection are lost; when fewer than half are
\* left all are replaced and a new descriptor is published; otherwise the descriptor
\* is renewed before it expires.
KeepAliveTimer ==
    /\ online /\ ghNow >= keepAt
    /\ keepAt' = keepAt + KeepAlivePeriod
    /\ LET n == Len(points)
           alive == {i \in 1..n : points[i] = "attached"}
           left == expires - ghNow
       IN \/ /\ Cardinality(alive) < (n + 1) \div 2
             /\ \E m \in 1..MaxIntroPoints, ok \in BOOLEAN :
                    points' = Asked(m) /\ PublishDescriptor(ok)
          \/ /\ Cardinality(alive) >= (n + 1) \div 2
             /\ points' = [i \in 1..n |-> IF i \in alive THEN "attached" ELSE "lost"]
             /\ IF expires > ghNow /\ left < RefreshWithin
                THEN \E ok \in BOOLEAN : PublishDescriptor(ok)
                ELSE UNCHANGED <<expires, published, refused>>
    /\ UNCHANGED <<online, spent, rendezvousVars, ghNow>>

-----------------------------------------------------------------------------
(* Rendezvous. *)

SlotsOf(c) == {i \in 1..PendingSlots : pending[i] = c}
LeastOf(is) == CHOOSE i \in is : \A j \in is : i <= j

\* dispatch_gh_introduce: rv_pending_insert takes the first free slot; without one the
\* rendezvous is dropped.
Introduce(c) ==
    /\ online /\ introduced[c] < MaxIntroductions
    /\ introduced' = [introduced EXCEPT ![c] = @ + 1]
    /\ pending' = IF SlotsOf(NoCookie) = {} THEN pending
                  ELSE [pending EXCEPT ![LeastOf(SlotsOf(NoCookie))] = c]
    /\ UNCHANGED <<bridged, serviceVars, clockVars>>

\* Faulty variant of TakePending: the slot stays taken.
TakePendingKept(c) == UNCHANGED pending

\* rv_pending_lookup takes the rendezvous out of the table.
TakePending(c) == pending' = [pending EXCEPT ![LeastOf(SlotsOf(c))] = NoCookie]

\* dispatch_gh_rendezvous_join and dispatch_gh_rendezvous_conn: whichever comes first
\* bridges; without a session the answer is TRELLIS_GH_ERR_NO_SESSION.
JoinOrConfirm(c) ==
    /\ SlotsOf(c) # {} /\ bridged[c] <= MaxIntroductions
    /\ TakePending(c)
    /\ bridged' = [bridged EXCEPT ![c] = @ + 1]
    /\ UNCHANGED <<introduced, serviceVars, clockVars>>

GhTick ==
    /\ ghNow < GhMaxTime
    /\ online => ghNow < keepAt
    /\ ghNow' = ghNow + 1
    /\ UNCHANGED <<serviceVars, rendezvousVars, keepAt>>

GreenhouseNext ==
    \/ StartService \/ StopService \/ KeepAliveTimer \/ GhTick
    \/ \E i \in 1..MaxIntroPoints : AttachPoint(i) \/ IntroMessage(i)
    \/ \E c \in Cookies : Introduce(c) \/ JoinOrConfirm(c)

GreenhouseSpec == GreenhouseInit /\ [][GreenhouseNext]_greenhouseVars

-----------------------------------------------------------------------------
(* Properties. *)

GreenhouseTypeOK ==
    /\ points \in UNION {[1..n -> PointStates] : n \in 0..MaxIntroPoints}
    /\ {expires, published} \subseteq 0..(GhMaxTime + DescriptorTTL)
    /\ pending \in [1..PendingSlots -> Cookies \cup {NoCookie}]

\* As long as the DHT takes its descriptors, a service that is not a spent ephemeral
\* one can be found: its descriptor is renewed before it expires, whatever mix of
\* introduction points is left (intro_keepalive_cb).
ServiceCanBeFound == online /\ ~refused /\ ~spent => published > ghNow

\* A rendezvous is bridged once: not by the join and again by the confirmation, nor
\* more often than its cookie was introduced (rv_pending_lookup).
BridgedOnce == \A c \in Cookies : bridged[c] + Cardinality(SlotsOf(c)) <= introduced[c]
=============================================================================
