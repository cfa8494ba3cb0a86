------------------------------ MODULE GroveJoin ------------------------------
(***************************************************************************)
(* Groves (src/src/mesh/grove.c): a node publishes a request to join in    *)
(* the DHT, an admin that watches the grove answers with a signed          *)
(* membership, the node polls for the answer and presents the membership,  *)
(* which the roster of the grove takes.  The DHT is scoped by the grove of *)
(* the node that uses it, and may return an answer that was replaced.      *)
(***************************************************************************)
EXTENDS Naturals, FiniteSets

CONSTANTS
    Joiners,          \* nodes that want to join
    GroveAdmins,      \* identities that are or may become admins
    Founder,          \* the creator
    MaxMembers,       \* GROVE_MAX_MEMBERS, without the creator
    RequestWindow,    \* how long a request is taken, 300 s
    MembershipTTLs,   \* lifetimes that admins give
    MaxGroveTime      \* bound: the clock

ASSUME GroveAssumption ==
    /\ Founder \in GroveAdmins
    /\ {MaxMembers, RequestWindow} \subseteq Nat /\ MaxGroveTime \in Nat \ {0}
    /\ MembershipTTLs \subseteq Nat \ {0}

VARIABLES
    admins,      \* grove->admins
    groveRoster,      \* grove->members without the creator
    scope,       \* joiner -> the grove its DHT is bound to
    records,     \* DHT: scoped key -> the values stored under it
    membership,  \* joiner -> the membership its last poll returned
    signed,      \* memberships the admins issued
    now          \* the clock

groveVars == <<admins, groveRoster, scope, records, membership, signed, now>>

ThisGrove == "grove"
UnboundKey == "global"
NoMembership == [member |-> "nobody", admin |-> Founder, expires |-> 0]

\* trellis_grove_scope_key over the HKDF of a purpose and a fingerprint: injective.
ScopedKey(s, purpose, n) == <<s, purpose, n>>
Keys == {ScopedKey(s, p, n) : s \in {ThisGrove, UnboundKey}, p \in {"join", "resp"}, n \in Joiners}

GroveInit ==
    /\ admins = {Founder}
    /\ groveRoster = {}
    /\ scope = [n \in Joiners |-> UnboundKey]
    /\ records = [k \in Keys |-> {}]
    /\ membership = [n \in Joiners |-> NoMembership]
    /\ signed = {}
    /\ now = 1

\* trellis_dht_set_grove.
SetGrove(n, s) ==
    /\ scope[n] # s
    /\ scope' = [scope EXCEPT ![n] = s]
    /\ UNCHANGED <<admins, groveRoster, records, membership, signed, now>>

Stored(k, v) == records' = [records EXCEPT ![k] = @ \cup {v}]

\* trellis_grove_join_request, stored under the key of the node's own scope.
JoinRequest(n) ==
    /\ Stored(ScopedKey(scope[n], "join", n), [at |-> now])
    /\ UNCHANGED <<admins, groveRoster, scope, membership, signed, now>>

\* trellis_grove_on_join_request: the signature is the node's and the time is near.
Timely(request) == now - request.at <= RequestWindow

\* trellis_grove_issue_membership.
Issued(a, n, ttl) == [member |-> n, admin |-> a, expires |-> now + ttl]

\* trellis_grove_join_respond, for a request that on_join_request passed.
JoinRespond(a, n, approve, ttl) ==
    /\ a \in admins
    /\ \E r \in records[ScopedKey(ThisGrove, "join", n)] : Timely(r)
    /\ LET m == Issued(a, n, ttl) IN
        /\ Stored(ScopedKey(ThisGrove, "resp", n),
                  [approved |-> approve, membership |-> IF approve THEN m ELSE NoMembership])
        /\ signed' = IF approve THEN signed \cup {m} ELSE signed
    /\ UNCHANGED <<admins, groveRoster, scope, membership, now>>

\* trellis_grove_poll_join_response and grove_poll_find_cb: some answer, old or new.
PollJoinResponse(n) ==
    /\ \E r \in records[ScopedKey(scope[n], "resp", n)] :
        /\ r.approved
        /\ r.membership.member = n
        /\ membership' = [membership EXCEPT ![n] = r.membership]
    /\ UNCHANGED <<admins, groveRoster, scope, records, signed, now>>

\* Faulty variant of Unexpired: the expiry is not looked at.
UnexpiredAlways(m) == TRUE

\* The expiry test of trellis_grove_add_member and trellis_grove_is_member.
Unexpired(m) == m.expires >= now

\* trellis_grove_add_member with the public key of the signer: a fingerprint that is on
\* the roster is refused, also when its entry has expired.
AddMember(n) ==
    LET m == membership[n] IN
    /\ m # NoMembership
    /\ Unexpired(m)
    /\ groveRoster' = IF (\E e \in groveRoster : e.member = n) \/ Cardinality(groveRoster) >= MaxMembers
                 THEN groveRoster ELSE groveRoster \cup {[member |-> n, expires |-> m.expires]}
    /\ UNCHANGED <<admins, scope, records, membership, signed, now>>

\* trellis_grove_add_admin.
AddAdmin(a) ==
    /\ a \notin admins
    /\ admins' = admins \cup {a}
    /\ UNCHANGED <<groveRoster, scope, records, membership, signed, now>>

GroveTick ==
    /\ now < MaxGroveTime
    /\ now' = now + 1
    /\ UNCHANGED <<admins, groveRoster, scope, records, membership, signed>>

GroveNext ==
    \/ \E n \in Joiners :
        \/ \E s \in {ThisGrove, UnboundKey} : SetGrove(n, s)
        \/ JoinRequest(n) \/ PollJoinResponse(n) \/ AddMember(n)
        \/ \E a \in GroveAdmins, ok \in BOOLEAN, ttl \in MembershipTTLs : JoinRespond(a, n, ok, ttl)
    \/ \E a \in GroveAdmins : AddAdmin(a)
    \/ GroveTick

GroveSpec == GroveInit /\ [][GroveNext]_groveVars

-----------------------------------------------------------------------------

\* trellis_grove_is_member.
IsMember(n) == \E e \in groveRoster : e.member = n /\ Unexpired(e)

GroveTypeOK ==
    /\ admins \subseteq GroveAdmins
    /\ groveRoster \subseteq [member : Joiners, expires : Nat]
    /\ Cardinality(groveRoster) <= MaxMembers
    /\ now \in 1 .. MaxGroveTime

\* Whoever counts as a member was approved for a time that is not over, by an identity
\* that is an admin, whatever old answers the DHT still returned.
MembersAreApproved ==
    \A n \in Joiners : IsMember(n) =>
        \E m \in signed : m.member = n /\ m.expires >= now /\ m.admin \in admins
=============================================================================
