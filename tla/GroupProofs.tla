---------------------------- MODULE GroupProofs ----------------------------
(***************************************************************************)
(* Theorems about the services of groups and identities, for every value   *)
(* of their constants.  A component's invariant is shown to be kept by the *)
(* steps of the component; `section` chooses which component takes the     *)
(* steps of MCGroups, and the others rest, so that what holds of each part *)
(* holds of the whole.                                                     *)
(***************************************************************************)
EXTENDS MCGroups, OrderLemmas, SequenceTheorems

\* Whatever step the whole takes is a step of each part or leaves it alone.
LEMMA PartsStep ==
    ASSUME GroupsNext \/ UNCHANGED groupVars
    PROVE  /\ [GreenhouseNext]_greenhouseVars
           /\ [GardenNext \/ Post]_gardenVars
           /\ [GroveNext]_groveVars
           /\ [CanopyNext]_canopyVars
           /\ [IncentiveNext]_incentiveVars
           /\ [TrustNext \/ PopNext]_sybilVars
           /\ [NamingNext]_namingVars
           /\ [KeyLogNext]_keyLogVars
BY DEF GroupsNext, OthersRest, Rests, groupVars

-----------------------------------------------------------------------------
(* Naming: the entry of a node that only verified is the earliest record   *)
(* it was given.                                                           *)

DatedRecord(r) == r \in Nat \X Nat

\* What the cache entry of a node must be, from what it was given.
EntryIsFirst(b, given) ==
    IF given = {} THEN ~b.cached
    ELSE \E r \in given : /\ b = Binding(r[1], r[2])
                          /\ \A s \in given : Earlier(r, s)

NamingInv ==
    /\ stamp \in Nat
    /\ \A r \in nameStore : DatedRecord(r)
    /\ DOMAIN binding = Resolvers /\ DOMAIN offered = Resolvers /\ DOMAIN writers = Resolvers
    /\ \A n \in Resolvers :
        /\ \A r \in offered[n] : DatedRecord(r)
        /\ writers[n] = {} => EntryIsFirst(binding[n], offered[n])

\* A record that loses the comparison of trellis_naming_verify_record is not earlier than
\* the entry, and one that wins is earlier than all that were given before.
LEMMA VerifiedIsFirst ==
    ASSUME NEW b, NEW given, NEW r,
           DatedRecord(r), \A s \in given : DatedRecord(s),
           EntryIsFirst(b, given)
    PROVE  EntryIsFirst(IF Conflict(b, r) THEN b ELSE Binding(r[1], r[2]), given \cup {r})
<1>1. /\ r[1] \in Nat /\ r[2] \in Nat
      /\ \A s \in given : s[1] \in Nat /\ s[2] \in Nat
  BY DEF DatedRecord
<1>2. Earlier(r, r)
  BY <1>1 DEF Earlier
<1>3. CASE given = {}
  BY <1>2, <1>3 DEF EntryIsFirst, Conflict
<1>4. CASE given # {}
  <2>1. PICK f \in given : b = Binding(f[1], f[2]) /\ \A s \in given : Earlier(f, s)
    BY <1>4 DEF EntryIsFirst
  <2>2. b.cached = TRUE /\ b.ts = f[2] /\ b.fp = f[1]
    BY <2>1 DEF Binding
  <2>3. CASE Conflict(b, r)
    <3>1. Earlier(f, r)
      BY <1>1, <2>2, <2>3 DEF Conflict, Earlier
    <3> QED
      BY <2>1, <2>3, <3>1 DEF EntryIsFirst
  <2>4. CASE ~Conflict(b, r)
    <3>1. Earlier(r, f)
      BY <1>1, <2>2, <2>4 DEF Conflict, Earlier
    <3>2. ASSUME NEW s \in given PROVE Earlier(r, s)
      <4>1. Earlier(f, s)
        BY <2>1
      <4> QED
        BY <1>1, <3>1, <4>1 DEF Earlier
    <3>3. \A s \in given \cup {r} : Earlier(r, s)
      BY <1>2, <3>2
    <3> QED
      BY <2>4, <3>3 DEF EntryIsFirst
  <2> QED
    BY <2>3, <2>4
<1> QED
  BY <1>3, <1>4

\* Nobody was given a record yet, and nothing is cached.
LEMMA NamingInvInit == NamingInit => NamingInv
BY DEF NamingInit, NamingInv, EntryIsFirst, NoBinding

\* Only a verified record (trellis_naming_verify_record) touches the entry of a node that only
\* verified; the writers of naming.c that do not compare dates are in `writers`.
LEMMA NamingInvNext == NamingInv /\ [NamingNext]_namingVars => NamingInv'
<1> SUFFICES ASSUME NamingInv, [NamingNext]_namingVars PROVE NamingInv'
  OBVIOUS
<1> USE NamingAssumption DEF NamingInv
<1>1. CASE Clock
  BY <1>1 DEF Clock
<1>2. ASSUME NEW o \in Owners, RegisterName(o) \/ RepublishName(o) PROVE NamingInv'
  <2>1. nameStore' = nameStore \cup {<<o, stamp>>}
    BY <1>2 DEF RegisterName, RepublishName, PublishName
  <2>2. UNCHANGED <<stamp, binding, offered, writers>>
    BY <1>2 DEF RegisterName, RepublishName
  <2>3. DatedRecord(<<o, stamp>>)
    BY DEF DatedRecord
  <2> QED
    BY <2>1, <2>2, <2>3
<1>3. ASSUME NEW n \in Resolvers, ResolveName(n) PROVE NamingInv'
  BY <1>3 DEF ResolveName
<1>4. ASSUME NEW n \in Resolvers, OnNameResult(n) PROVE NamingInv'
  <2>1. CASE UNCHANGED <<binding, offered, writers>>
    BY <1>4, <2>1 DEF OnNameResult
  <2>2. CASE \E r \in nameStore :
            /\ binding' = [binding EXCEPT ![n] = Binding(r[1], r[2])]
            /\ offered' = [offered EXCEPT ![n] = @ \cup {r}]
            /\ writers' = [writers EXCEPT ![n] = @ \cup {"lookup"}]
    <3>1. UNCHANGED <<stamp, nameStore>>
      BY <1>4 DEF OnNameResult
    <3>2. writers'[n] # {}
      BY <2>2
    <3> QED
      BY <2>2, <3>1, <3>2
  <2> QED
    BY <1>4, <2>1, <2>2 DEF OnNameResult
<1>5. ASSUME NEW n \in Resolvers, NEW r \in nameStore, VerifyRecord(n, r) PROVE NamingInv'
  <2>1. /\ offered' = [offered EXCEPT ![n] = @ \cup {r}]
        /\ UNCHANGED <<stamp, nameStore, writers>>
    BY <1>5 DEF VerifyRecord
  <2>2. DOMAIN binding' = Resolvers /\ \A m \in Resolvers \ {n} : binding'[m] = binding[m]
    BY <1>5 DEF VerifyRecord
  <2>3. binding'[n] = IF Conflict(binding[n], r) THEN binding[n] ELSE Binding(r[1], r[2])
    BY <1>5 DEF VerifyRecord
  <2>4. ASSUME writers[n] = {} PROVE EntryIsFirst(binding'[n], offered[n] \cup {r})
    <3>1. /\ DatedRecord(r) /\ \A s \in offered[n] : DatedRecord(s)
          /\ EntryIsFirst(binding[n], offered[n])
      BY <2>4
    <3>2. EntryIsFirst(IF Conflict(binding[n], r) THEN binding[n] ELSE Binding(r[1], r[2]), offered[n] \cup {r})
      BY ONLY <3>1, VerifiedIsFirst
    <3> QED
      BY ONLY <2>3, <3>2
  <2> QED
    BY <2>1, <2>2, <2>4
<1>6. ASSUME NEW n \in Resolvers, NEW fp \in Owners, ImportDnsTxt(n, fp) PROVE NamingInv'
  <2>1. writers'[n] # {}
    BY <1>6 DEF ImportDnsTxt
  <2> QED
    BY <1>6, <2>1 DEF ImportDnsTxt
<1>7. ASSUME NEW n \in Resolvers, NEW fp \in Owners, SetPetname(n, fp) \/ RemovePetname(n, fp)
      PROVE  NamingInv'
  BY <1>7 DEF SetPetname, RemovePetname
<1>8. CASE UNCHANGED namingVars
  BY <1>8 DEF namingVars
<1> QED
  BY <1>1, <1>2, <1>3, <1>4, <1>5, <1>6, <1>7, <1>8 DEF NamingNext

\* The earliest record is one: no two records have the same date and fingerprint.
LEMMA FirstIsOffered == NamingInv => VerifiersAgree
<1> SUFFICES ASSUME NamingInv, NEW n \in Resolvers, offered[n] # {}, writers[n] = {}
             PROVE  binding[n] = Binding(FirstOffered(n)[1], FirstOffered(n)[2])
  BY DEF VerifiersAgree
<1>1. PICK r \in offered[n] : binding[n] = Binding(r[1], r[2]) /\ \A s \in offered[n] : Earlier(r, s)
  BY DEF NamingInv, EntryIsFirst
<1>2. FirstOffered(n) \in offered[n] /\ \A s \in offered[n] : Earlier(FirstOffered(n), s)
  BY <1>1 DEF FirstOffered
<1>3. \A s \in offered[n] : s \in Nat \X Nat
  BY DEF NamingInv, DatedRecord
<1>4. Earlier(r, FirstOffered(n)) /\ Earlier(FirstOffered(n), r)
  BY <1>1, <1>2
<1>5. r[1] = FirstOffered(n)[1] /\ r[2] = FirstOffered(n)[2]
  <2> DEFINE f == FirstOffered(n)
  <2>1. r[1] \in Nat /\ r[2] \in Nat /\ f[1] \in Nat /\ f[2] \in Nat
    BY <1>2, <1>3
  <2> HIDE DEF f
  <2>2. r[1] = f[1] /\ r[2] = f[2]
    BY <1>4, <2>1 DEF Earlier, f
  <2> QED
    BY <2>2 DEF f
<1> QED
  BY <1>1, <1>5

-----------------------------------------------------------------------------
(* Groves: what is answered, polled and taken on a roster was signed.      *)

AnswersSigned ==
    \A s \in {ThisGrove, UnboundKey}, n \in Joiners :
        \A r \in records[ScopedKey(s, "resp", n)] : r.approved => r.membership \in signed

GroveInv ==
    /\ now \in Nat
    /\ DOMAIN records = Keys /\ DOMAIN membership = Joiners
    /\ scope \in [Joiners -> {ThisGrove, UnboundKey}]
    /\ \A m \in signed : m.admin \in admins /\ m.expires \in Nat
    /\ AnswersSigned
    /\ \A n \in Joiners : membership[n] # NoMembership => membership[n] \in signed /\ membership[n].member = n
    /\ \A e \in groveRoster : \E m \in signed : m.member = e.member /\ m.expires = e.expires

\* Nothing was stored, signed or polled.
LEMMA GroveInvInit == GroveInit => GroveInv
BY DEF GroveInit, GroveInv, AnswersSigned, Keys, ScopedKey

\* A value that is stored under another key than a joiner's answers disturbs none of them;
\* one stored there must be signed if it approves.
LEMMA StoredSigned ==
    ASSUME GroveInv, NEW k, NEW v, Stored(k, v), signed \subseteq signed',
           \A n \in Joiners, s \in {ThisGrove, UnboundKey} :
               k = ScopedKey(s, "resp", n) /\ v.approved => v.membership \in signed'
    PROVE  AnswersSigned' /\ DOMAIN records' = Keys
<1>1. DOMAIN records' = Keys
  BY DEF Stored, GroveInv
<1>2. ASSUME NEW s \in {ThisGrove, UnboundKey}, NEW n \in Joiners,
             NEW r \in records'[ScopedKey(s, "resp", n)], r.approved
      PROVE  r.membership \in signed'
  <2>1. r \in records[ScopedKey(s, "resp", n)] \/ (k = ScopedKey(s, "resp", n) /\ r = v)
    BY DEF Stored, GroveInv, Keys
  <2> QED
    BY <1>2, <2>1 DEF GroveInv, AnswersSigned
<1> QED
  BY <1>1, <1>2 DEF AnswersSigned

\* An approval is stored and signed in one step (trellis_grove_join_respond), and polls and
\* rosters copy what was stored.
LEMMA GroveInvNext == GroveInv /\ [GroveNext]_groveVars => GroveInv'
<1> SUFFICES ASSUME GroveInv, [GroveNext]_groveVars PROVE GroveInv'
  OBVIOUS
<1> USE GroveAssumption
<1>1. ASSUME NEW n \in Joiners, NEW s \in {ThisGrove, UnboundKey}, SetGrove(n, s) PROVE GroveInv'
  BY <1>1 DEF SetGrove, GroveInv, AnswersSigned
<1>2. ASSUME NEW n \in Joiners, JoinRequest(n) PROVE GroveInv'
  <2>1. AnswersSigned' /\ DOMAIN records' = Keys
    <3>1. Stored(ScopedKey(scope[n], "join", n), [at |-> now]) /\ signed \subseteq signed'
      BY <1>2 DEF JoinRequest
    <3>2. \A m \in Joiners, s \in {ThisGrove, UnboundKey} :
              ScopedKey(scope[n], "join", n) # ScopedKey(s, "resp", m)
      BY DEF ScopedKey
    <3> QED
      BY <3>1, <3>2, StoredSigned
  <2> QED
    BY <1>2, <2>1 DEF JoinRequest, GroveInv
<1>3. ASSUME NEW n \in Joiners, PollJoinResponse(n) PROVE GroveInv'
  <2>1. PICK r \in records[ScopedKey(scope[n], "resp", n)] :
            /\ r.approved /\ r.membership.member = n
            /\ membership' = [membership EXCEPT ![n] = r.membership]
    BY <1>3 DEF PollJoinResponse
  <2>2. r.membership \in signed
    <3>1. scope[n] \in {ThisGrove, UnboundKey}
      BY DEF GroveInv
    <3> QED
      BY <2>1, <3>1 DEF GroveInv, AnswersSigned
  <2> QED
    BY <1>3, <2>1, <2>2 DEF PollJoinResponse, GroveInv, AnswersSigned
<1>4. ASSUME NEW n \in Joiners, AddMember(n) PROVE GroveInv'
  <2>1. membership[n] # NoMembership
    BY <1>4 DEF AddMember
  <2>2. membership[n] \in signed /\ membership[n].member = n
    BY <2>1 DEF GroveInv
  <2>3. groveRoster' \subseteq groveRoster \cup {[member |-> n, expires |-> membership[n].expires]}
    BY <1>4 DEF AddMember
  <2> QED
    BY <1>4, <2>2, <2>3 DEF AddMember, GroveInv, AnswersSigned
<1>5. ASSUME NEW n \in Joiners, NEW a \in GroveAdmins, NEW ok \in BOOLEAN, NEW ttl \in MembershipTTLs,
             JoinRespond(a, n, ok, ttl)
      PROVE  GroveInv'
  <2> DEFINE m == Issued(a, n, ttl)
             v == [approved |-> ok, membership |-> IF ok THEN m ELSE NoMembership]
  <2>1. /\ Stored(ScopedKey(ThisGrove, "resp", n), v)
        /\ signed' = IF ok THEN signed \cup {m} ELSE signed
        /\ a \in admins
        /\ UNCHANGED <<admins, groveRoster, scope, membership, now>>
    BY <1>5 DEF JoinRespond
  <2>2. m.admin = a /\ m.expires \in Nat
    BY DEF Issued, GroveInv
  <2> HIDE DEF m
  <2>3. v.approved => v.membership \in signed'
    BY <2>1
  <2>4. AnswersSigned' /\ DOMAIN records' = Keys
    BY <2>1, <2>3, StoredSigned
  <2> QED
    BY <2>1, <2>2, <2>4 DEF GroveInv
<1>6. ASSUME NEW a \in GroveAdmins, AddAdmin(a) PROVE GroveInv'
  BY <1>6 DEF AddAdmin, GroveInv, AnswersSigned
<1>7. CASE GroveTick
  BY <1>7 DEF GroveTick, GroveInv, AnswersSigned
<1>8. CASE UNCHANGED groveVars
  BY <1>8 DEF groveVars, GroveInv, AnswersSigned
<1> QED
  BY <1>1, <1>2, <1>3, <1>4, <1>5, <1>6, <1>7, <1>8 DEF GroveNext

\* The entry of a member copies a membership that was signed, with its expiry.
LEMMA SignedAreApproved == GroveInv => MembersAreApproved
BY DEF GroveInv, MembersAreApproved, IsMember, Unexpired

-----------------------------------------------------------------------------
(* Admission: nothing but a credential or an issuer lets in again whom the *)
(* end of the grace period shut out.                                       *)

ClocksInv == sybilNow \in Nat /\ graceFrom \in Nat

\* The clock and the start of the grace period are times.
LEMMA ClocksInvHolds ==
    /\ SybilInit => ClocksInv
    /\ ClocksInv /\ [TrustNext \/ PopNext]_sybilVars => ClocksInv'
<1>1. SybilInit => ClocksInv
  BY DEF SybilInit, ClocksInv
<1> SUFFICES ASSUME ClocksInv, [TrustNext \/ PopNext]_sybilVars PROVE ClocksInv'
  BY <1>1
<1> USE DEF ClocksInv
<1>2. CASE TrustNext
  BY <1>2 DEF TrustNext, RecomputeTrust, Observe, AddVouch, popVars
<1>3. CASE SybilTick
  BY <1>3 DEF SybilTick, popVars
<1>4. ASSUME NEW p \in Persons, RegisterKey(p) \/ RegisterIssuer(p) \/ CheckAdmission(p) PROVE ClocksInv'
  BY <1>4 DEF RegisterKey, RegisterIssuer, CheckAdmission, GraceFrom
<1>5. ASSUME NEW p \in Persons, NEW k \in {Threshold - 1, Threshold}, VerifyPop(p, k) PROVE ClocksInv'
  BY <1>5 DEF VerifyPop
<1>6. CASE UNCHANGED sybilVars
  BY <1>6 DEF sybilVars, popVars
<1> QED
  BY <1>2, <1>3, <1>4, <1>5, <1>6 DEF PopNext

\* A grace period that ended does not last again.
LEMMA GraceStaysOver ==
    ASSUME ClocksInv, [TrustNext \/ PopNext]_sybilVars
    PROVE  /\ ~GraceLasts => ~GraceLasts'
           /\ issuers \subseteq issuers'
<1> USE SybilAssumption DEF ClocksInv, GraceLasts
<1>1. CASE TrustNext
  <2>1. UNCHANGED <<graceFrom, graceOver, issuers, sybilNow>>
    BY <1>1 DEF TrustNext, RecomputeTrust, Observe, AddVouch, popVars
  <2> QED
    BY <2>1
<1>2. CASE SybilTick
  BY <1>2 DEF SybilTick, popVars
<1>3. ASSUME NEW p \in Persons, RegisterKey(p) \/ RegisterIssuer(p)
      PROVE  (~GraceLasts => ~GraceLasts') /\ issuers \subseteq issuers'
  <2>1. UNCHANGED <<graceFrom, sybilNow>> /\ (graceOver => graceOver') /\ issuers \subseteq issuers'
    <3>1. CASE RegisterKey(p)
      BY <3>1, Zenon DEF RegisterKey
    <3>2. CASE RegisterIssuer(p)
      BY <3>2, Zenon DEF RegisterIssuer
    <3> QED
      BY <1>3, <3>1, <3>2
  <2> QED
    BY <2>1
<1>4. ASSUME NEW p \in Persons, CheckAdmission(p)
      PROVE  (~GraceLasts => ~GraceLasts') /\ issuers \subseteq issuers'
  BY <1>4 DEF CheckAdmission, GraceFrom
<1>5. ASSUME NEW p \in Persons, NEW k \in {Threshold - 1, Threshold}, VerifyPop(p, k)
      PROVE  (~GraceLasts => ~GraceLasts') /\ issuers \subseteq issuers'
  BY <1>5 DEF VerifyPop
<1>6. CASE UNCHANGED sybilVars
  BY <1>6 DEF sybilVars, popVars
<1> QED
  BY <1>1, <1>2, <1>3, <1>4, <1>5, <1>6 DEF PopNext

\* Who is admitted after a refusal without a credential and without being an issuer would need
\* a grace period that came back (trellis_pop_has_credential).
LEMMA RefusedStep ==
    ASSUME ClocksInv, [TrustNext \/ PopNext]_sybilVars
    PROVE  [\A p \in Persons : ~Admitted(p) /\ Admitted(p)' => p \in DOMAIN cached' \cup issuers']_sybilVars
<1>1. ASSUME NEW p \in Persons, ~Admitted(p), Admitted(p)' PROVE p \in DOMAIN cached' \cup issuers'
  BY <1>1, GraceStaysOver DEF Admitted
<1> QED
  BY <1>1

\* Nobody is let in but by those who may, whichever component takes the steps: members of a
\* grove by an approval that is not over (grove.c), a peer that was refused by a credential
\* or an issuer and not by a grace period that comes back (personhood.c).
THEOREM OnlyTheAdmittedHolds == GroupsSpec => OnlyTheAdmitted
<1>1. GroupsInit => GroveInv /\ ClocksInv
  BY GroveInvInit, ClocksInvHolds DEF GroupsInit
<1>2. GroveInv /\ ClocksInv /\ [GroupsNext]_groupVars => GroveInv' /\ ClocksInv'
  BY GroveInvNext, ClocksInvHolds, PartsStep
<1>3. GroveInv => MembersAreApproved
  BY SignedAreApproved
<1>4. ClocksInv /\ [GroupsNext]_groupVars
      => [\A p \in Persons : ~Admitted(p) /\ Admitted(p)' => p \in DOMAIN cached' \cup issuers']_sybilVars
  BY RefusedStep, PartsStep
<1>5. GroupsSpec => []MembersAreApproved
  BY <1>1, <1>2, <1>3, PTL DEF GroupsSpec
<1>6. GroupsSpec => RefusedStaysOut
  BY <1>1, <1>2, <1>4, PTL DEF GroupsSpec, RefusedStaysOut
<1> QED
  BY <1>5, <1>6, PTL DEF OnlyTheAdmitted

-----------------------------------------------------------------------------
(* Hidden services: a running service's descriptor outlives the next round *)
(* of its keepalive timer.                                                 *)

ServiceInv ==
    /\ {ghNow, keepAt, expires} \subseteq Nat
    /\ online => /\ ghNow <= keepAt /\ keepAt <= ghNow + KeepAlivePeriod
                 /\ keepAt < expires
                 /\ ~refused /\ ~spent => published = expires

\* A service that does not run promises nothing.
LEMMA ServiceInvInit == GreenhouseInit => ServiceInv
BY DEF GreenhouseInit, ServiceInv

\* A descriptor that was just signed outlives a round of the timer that starts now.
LEMMA PublishedFits ==
    ASSUME ServiceInv, NEW ok \in BOOLEAN, PublishDescriptor(ok),
           ghNow' = ghNow, keepAt' = ghNow + KeepAlivePeriod, UNCHANGED spent
    PROVE  ServiceInv'
<1>1. /\ expires' = ghNow + DescriptorTTL
      /\ ok => published' = expires'
      /\ refused' = ~ok
  BY DEF PublishDescriptor
<1>2. ~refused' => published' = expires'
  BY <1>1
<1>3. /\ ghNow \in Nat /\ KeepAlivePeriod \in Nat /\ DescriptorTTL \in Nat
      /\ KeepAlivePeriod < DescriptorTTL
  BY GreenhouseAssumption DEF ServiceInv
<1>4. /\ ghNow' <= keepAt' /\ keepAt' <= ghNow' + KeepAlivePeriod /\ keepAt' < expires'
      /\ ghNow' \in Nat /\ keepAt' \in Nat /\ expires' \in Nat
  BY <1>1, <1>3
<1> QED
  BY <1>2, <1>4 DEF ServiceInv

\* A descriptor that a round of the timer does not renew has more than RefreshWithin left,
\* which is more than the timer needs to come round (intro_keepalive_cb).
LEMMA ServiceInvNext == ServiceInv /\ [GreenhouseNext]_greenhouseVars => ServiceInv'
<1> SUFFICES ASSUME ServiceInv, [GreenhouseNext]_greenhouseVars PROVE ServiceInv'
  OBVIOUS
<1>1. CASE StartService
  <2>1. PICK ok \in BOOLEAN : PublishDescriptor(ok)
    BY <1>1 DEF StartService
  <2>2. ghNow' = ghNow /\ keepAt' = ghNow + KeepAlivePeriod /\ UNCHANGED spent
    BY <1>1 DEF StartService
  <2> QED
    BY <2>1, <2>2, PublishedFits
<1>2. CASE StopService
  BY <1>2 DEF StopService, ServiceInv, clockVars
<1>3. CASE KeepAliveTimer
  <2>1. /\ online /\ ghNow >= keepAt /\ keepAt' = keepAt + KeepAlivePeriod
        /\ UNCHANGED <<online, spent, ghNow>>
    BY <1>3 DEF KeepAliveTimer
  <2>2. keepAt = ghNow
    BY <2>1 DEF ServiceInv
  <2>3. ASSUME NEW ok \in BOOLEAN, PublishDescriptor(ok) PROVE ServiceInv'
    BY <2>1, <2>2, <2>3, PublishedFits
  <2>4. ASSUME ~(expires > ghNow /\ expires - ghNow < RefreshWithin),
               UNCHANGED <<expires, published, refused>>
        PROVE  ServiceInv'
    <3>1. /\ {ghNow, expires, KeepAlivePeriod, RefreshWithin} \subseteq Nat
          /\ KeepAlivePeriod < RefreshWithin /\ ghNow < expires
      BY <2>1, <2>2, GreenhouseAssumption DEF ServiceInv
    <3>2. ghNow + KeepAlivePeriod < expires
      BY <2>4, <3>1
    <3> QED
      BY <2>1, <2>2, <2>4, <3>1, <3>2 DEF ServiceInv
  <2>5. \/ \E ok \in BOOLEAN : PublishDescriptor(ok)
        \/ /\ ~(expires > ghNow /\ expires - ghNow < RefreshWithin)
           /\ UNCHANGED <<expires, published, refused>>
    BY <1>3 DEF KeepAliveTimer
  <2> QED
    BY <2>3, <2>4, <2>5
<1>4. CASE GhTick
  BY <1>4, GreenhouseAssumption DEF GhTick, ServiceInv, serviceVars
<1>5. ASSUME NEW i \in 1..MaxIntroPoints, AttachPoint(i) PROVE ServiceInv'
  BY <1>5 DEF AttachPoint, ServiceInv, clockVars
<1>6. ASSUME NEW i \in 1..MaxIntroPoints, IntroMessage(i) PROVE ServiceInv'
  <2>1. /\ ~spent' => ~spent /\ ~Ephemeral
        /\ ~Ephemeral => published' = published
        /\ UNCHANGED <<online, expires, refused, clockVars>>
    BY <1>6 DEF IntroMessage
  <2> QED
    BY <2>1 DEF ServiceInv, clockVars
<1>7. ASSUME NEW c \in Cookies, Introduce(c) \/ JoinOrConfirm(c) PROVE ServiceInv'
  BY <1>7 DEF Introduce, JoinOrConfirm, ServiceInv, serviceVars, clockVars
<1>8. CASE UNCHANGED greenhouseVars
  BY <1>8 DEF greenhouseVars, serviceVars, clockVars, ServiceInv
<1> QED
  BY <1>1, <1>2, <1>3, <1>4, <1>5, <1>6, <1>7, <1>8 DEF GreenhouseNext

\* As long as the DHT takes its descriptors, a service that is not a spent ephemeral one
\* can be found, whatever mix of introduction points is left (service.c:
\* intro_keepalive_cb).
THEOREM ServiceCanBeFoundHolds == GroupsSpec => []ServiceCanBeFound
<1>1. GroupsInit => ServiceInv
  BY ServiceInvInit DEF GroupsInit
<1>2. ServiceInv /\ [GroupsNext]_groupVars => ServiceInv'
  BY ServiceInvNext, PartsStep
<1>3. ServiceInv => ServiceCanBeFound
  BY GreenhouseAssumption DEF ServiceInv, ServiceCanBeFound
<1> QED
  BY <1>1, <1>2, <1>3, PTL DEF GroupsSpec

-----------------------------------------------------------------------------
(* Rendezvous: a slot is filled by one introduction and emptied by the     *)
(* join or the confirmation, whichever comes first.                        *)

RendezvousInv ==
    /\ pending \in [1..PendingSlots -> Cookies \cup {NoCookie}]
    /\ introduced \in [Cookies -> Nat] /\ bridged \in [Cookies -> Nat]
    /\ BridgedOnce

\* The slots of a cookie are finitely many, and the first of them is one of them.
LEMMA SlotsFinite ==
    ASSUME NEW c
    PROVE  /\ IsFiniteSet(SlotsOf(c)) /\ Cardinality(SlotsOf(c)) \in Nat
           /\ SlotsOf(c) # {} => LeastOf(SlotsOf(c)) \in SlotsOf(c)
<1>1. SlotsOf(c) \subseteq 1..PendingSlots /\ PendingSlots \in Nat
  BY GreenhouseAssumption DEF SlotsOf
<1>2. IsFiniteSet(1..PendingSlots)
  BY <1>1, FS_Interval
<1>3. IsFiniteSet(SlotsOf(c))
  BY <1>1, <1>2, FS_Subset
<1>4. Cardinality(SlotsOf(c)) \in Nat
  BY <1>3, FS_CardinalityType
<1>5. SlotsOf(c) \subseteq Nat
  BY <1>1
<1>6. SlotsOf(c) # {} => \E i \in SlotsOf(c) : \A j \in SlotsOf(c) : i <= j
  BY <1>5, LeastNatural
<1> QED
  BY <1>3, <1>4, <1>6 DEF LeastOf

\* All slots are free.
LEMMA RendezvousInvInit == GreenhouseInit => RendezvousInv
<1> SUFFICES ASSUME GreenhouseInit PROVE RendezvousInv
  OBVIOUS
<1>1. \A c \in Cookies : SlotsOf(c) = {}
  BY GreenhouseAssumption DEF GreenhouseInit, SlotsOf
<1>2. \A c \in Cookies : Cardinality(SlotsOf(c)) = 0
  BY <1>1, FS_EmptySet
<1> QED
  BY <1>2 DEF GreenhouseInit, RendezvousInv, BridgedOnce

\* An introduction fills at most one slot, and a bridged rendezvous empties one
\* (rv_pending_insert, rv_pending_lookup).
LEMMA RendezvousInvNext == RendezvousInv /\ [GreenhouseNext]_greenhouseVars => RendezvousInv'
<1> SUFFICES ASSUME RendezvousInv, [GreenhouseNext]_greenhouseVars PROVE RendezvousInv'
  OBVIOUS
<1>1. ASSUME UNCHANGED rendezvousVars PROVE RendezvousInv'
  BY <1>1 DEF rendezvousVars, RendezvousInv, BridgedOnce, SlotsOf
<1>2. ASSUME NEW c \in Cookies, Introduce(c) PROVE RendezvousInv'
  <2>1. /\ introduced' = [introduced EXCEPT ![c] = @ + 1]
        /\ bridged' = bridged
    BY <1>2 DEF Introduce
  <2>2. CASE pending' = pending
    <3>1. \A d \in Cookies : SlotsOf(d)' = SlotsOf(d)
      BY <2>2 DEF SlotsOf
    <3>2. ASSUME NEW d \in Cookies PROVE bridged'[d] + Cardinality(SlotsOf(d)') <= introduced'[d]
      BY <2>1, <3>1, SlotsFinite DEF RendezvousInv, BridgedOnce
    <3> QED
      BY <2>1, <2>2, <3>2 DEF RendezvousInv, BridgedOnce
  <2>3. CASE SlotsOf(NoCookie) # {}
    <3> DEFINE i == LeastOf(SlotsOf(NoCookie))
    <3>1. i \in SlotsOf(NoCookie)
      BY <2>3, SlotsFinite
    <3>2. pending' = [pending EXCEPT ![i] = c] /\ i \in 1..PendingSlots /\ pending[i] = NoCookie
      BY <1>2, <2>3, <3>1 DEF Introduce, SlotsOf
    <3> HIDE DEF i
    <3>3. SlotsOf(c)' = SlotsOf(c) \cup {i} /\ i \notin SlotsOf(c)
      BY <3>2, GreenhouseAssumption DEF SlotsOf, RendezvousInv
    <3>4. \A d \in Cookies \ {c} : SlotsOf(d)' = SlotsOf(d)
      BY <3>2, GreenhouseAssumption DEF SlotsOf, RendezvousInv
    <3>5. Cardinality(SlotsOf(c)') = Cardinality(SlotsOf(c)) + 1
      BY <3>3, SlotsFinite, FS_AddElement
    <3>6. bridged[c] + Cardinality(SlotsOf(c)') <= introduced[c] + 1
      BY <3>5, SlotsFinite DEF RendezvousInv, BridgedOnce
    <3>7. pending' \in [1..PendingSlots -> Cookies \cup {NoCookie}]
      BY <3>2 DEF RendezvousInv
    <3>8. ASSUME NEW d \in Cookies PROVE bridged'[d] + Cardinality(SlotsOf(d)') <= introduced'[d]
      BY <2>1, <3>4, <3>6 DEF RendezvousInv, BridgedOnce
    <3> QED
      BY <2>1, <3>7, <3>8 DEF RendezvousInv, BridgedOnce
  <2> QED
    BY <1>2, <2>2, <2>3 DEF Introduce
<1>3. ASSUME NEW c \in Cookies, JoinOrConfirm(c) PROVE RendezvousInv'
  <2> DEFINE i == LeastOf(SlotsOf(c))
  <2>1. i \in SlotsOf(c)
    BY <1>3, SlotsFinite DEF JoinOrConfirm
  <2>2. /\ pending' = [pending EXCEPT ![i] = NoCookie] /\ i \in 1..PendingSlots /\ pending[i] = c
        /\ bridged' = [bridged EXCEPT ![c] = @ + 1] /\ introduced' = introduced
    BY <1>3, <2>1 DEF JoinOrConfirm, TakePending, SlotsOf
  <2> HIDE DEF i
  <2>3. SlotsOf(c)' = SlotsOf(c) \ {i}
    BY <2>2, GreenhouseAssumption DEF SlotsOf, RendezvousInv
  <2>4. \A d \in Cookies \ {c} : SlotsOf(d)' = SlotsOf(d)
    BY <2>2, GreenhouseAssumption DEF SlotsOf, RendezvousInv
  <2>5. Cardinality(SlotsOf(c)') = Cardinality(SlotsOf(c)) - 1
    BY <2>1, <2>3, SlotsFinite, FS_RemoveElement
  <2>6. bridged[c] + 1 + Cardinality(SlotsOf(c)') <= introduced[c]
    BY <2>5, SlotsFinite DEF RendezvousInv, BridgedOnce
  <2>7. pending' \in [1..PendingSlots -> Cookies \cup {NoCookie}]
    BY <2>2 DEF RendezvousInv
  <2>8. ASSUME NEW d \in Cookies PROVE bridged'[d] + Cardinality(SlotsOf(d)') <= introduced'[d]
    BY <2>2, <2>4, <2>6 DEF RendezvousInv, BridgedOnce
  <2> QED
    BY <2>2, <2>7, <2>8 DEF RendezvousInv, BridgedOnce
<1>4. ASSUME NEW i \in 1..MaxIntroPoints, AttachPoint(i) \/ IntroMessage(i) PROVE UNCHANGED rendezvousVars
  BY <1>4 DEF AttachPoint, IntroMessage
<1>5. ASSUME StartService \/ StopService \/ KeepAliveTimer \/ GhTick PROVE UNCHANGED rendezvousVars
  BY <1>5 DEF StartService, StopService, KeepAliveTimer, GhTick
<1>6. CASE UNCHANGED greenhouseVars
  BY <1>1, <1>6 DEF greenhouseVars
<1> QED
  BY <1>1, <1>2, <1>3, <1>4, <1>5, <1>6 DEF GreenhouseNext

\* A rendezvous is bridged once: not by the join and again by the confirmation, nor more
\* often than its cookie was introduced (service.c: rv_pending_lookup).
THEOREM BridgedOnceHolds == GroupsSpec => []BridgedOnce
<1>1. GroupsInit => RendezvousInv
  BY RendezvousInvInit DEF GroupsInit
<1>2. RendezvousInv /\ [GroupsNext]_groupVars => RendezvousInv'
  BY RendezvousInvNext, PartsStep
<1>3. RendezvousInv => BridgedOnce
  BY DEF RendezvousInv
<1> QED
  BY <1>1, <1>2, <1>3, PTL DEF GroupsSpec

-----------------------------------------------------------------------------
(* Key transparency: a walk links every entry it takes to the one before,  *)
(* and a link never leads into another life of the owner.                  *)

\* Entries taken one after another, each linked to the one before.
LinkedIn(entries, taken) ==
    \A i \in DOMAIN taken :
        /\ taken[i] \in DOMAIN entries
        /\ i > 1 => entries[taken[i]].prev = taken[i - 1]

LogEntry == [seq : Nat, prev : Nat, pk : Nat, life : Nat]

LogInv ==
    /\ log \in Seq(LogEntry)
    /\ life \in Nat /\ current \in Nat
    /\ chain \in 0..Len(log)
    /\ chain # 0 => log[chain].life = life
    /\ \A e \in DOMAIN log : log[e].prev # 0 =>
            log[e].prev \in DOMAIN log /\ log[log[e].prev].life = log[e].life

WalkInv ==
    /\ walk \in [active : BOOLEAN, from : Nat, to : Nat, at : Nat, prev : Nat, pk : Nat, taken : Seq(Nat)]
    /\ tofu \in [seen : BOOLEAN, seq : Nat, pk : Nat]
    /\ walk.active => /\ LinkedIn(log, walk.taken)
                      /\ walk.at = walk.from + Len(walk.taken)
                      /\ Len(walk.taken) > 0 => walk.prev = walk.taken[Len(walk.taken)]
    /\ verdict.valid => verdict.taken \in Seq(Nat) /\ LinkedIn(log, verdict.taken)

\* The log is empty, and no walk was started.
LEMMA KeyLogInvInit == KeyLogInit => LogInv /\ WalkInv
BY KeyLogAssumption DEF KeyLogInit, LogInv, WalkInv, LinkedIn, NoWalk

\* What is linked in the log stays linked when an entry is published.
LEMMA LinkedStays ==
    ASSUME NEW S, NEW s \in Seq(S), NEW e \in S, NEW taken, LinkedIn(s, taken)
    PROVE  LinkedIn(Append(s, e), taken)
<1>1. \A i \in DOMAIN s : i \in DOMAIN Append(s, e) /\ Append(s, e)[i] = s[i]
  OBVIOUS
<1> QED
  BY <1>1 DEF LinkedIn

\* An entry linked to the last one taken prolongs the chain.
LEMMA LinkedLonger ==
    ASSUME NEW entries, NEW taken \in Seq(Nat), LinkedIn(entries, taken),
           NEW e \in Nat, e \in DOMAIN entries,
           Len(taken) > 0 => entries[e].prev = taken[Len(taken)]
    PROVE  Append(taken, e) \in Seq(Nat) /\ LinkedIn(entries, Append(taken, e))
<1> DEFINE longer == Append(taken, e)
           n == Len(taken)
<1>1. /\ longer \in Seq(Nat) /\ n \in Nat /\ Len(longer) = n + 1
      /\ longer[n + 1] = e /\ \A i \in 1..n : longer[i] = taken[i]
  OBVIOUS
<1>2. DOMAIN longer = 1..(n + 1) /\ DOMAIN taken = 1..n
  OBVIOUS
<1> HIDE DEF longer, n
<1>3. ASSUME NEW i \in 1..(n + 1)
      PROVE  longer[i] \in DOMAIN entries /\ (i > 1 => entries[longer[i]].prev = longer[i - 1])
  <2>1. CASE i = n + 1
    <3>1. i > 1 => n > 0 /\ i - 1 = n /\ n \in 1..n
      BY <1>1, <2>1
    <3> QED
      BY <1>1, <2>1, <3>1 DEF n
  <2>2. CASE i # n + 1
    <3>1. i \in 1..n /\ (i > 1 => i - 1 \in 1..n)
      BY <1>1, <2>2
    <3> QED
      BY <1>1, <1>2, <3>1 DEF LinkedIn
  <2> QED
    BY <2>1, <2>2
<1>4. LinkedIn(entries, longer)
  BY <1>2, <1>3 DEF LinkedIn
<1> QED
  BY <1>1, <1>4 DEF longer

\* The entries of the log, by their numbers.
LEMMA LogEntries ==
    ASSUME LogInv
    PROVE  /\ Len(log) \in Nat /\ DOMAIN log = 1..Len(log)
           /\ \A e \in 1..Len(log) :
                /\ log[e] \in LogEntry
                /\ log[e].seq \in Nat /\ log[e].prev \in Nat /\ log[e].pk \in Nat /\ log[e].life \in Nat
<1>1. Len(log) \in Nat /\ DOMAIN log = 1..Len(log) /\ \A e \in 1..Len(log) : log[e] \in LogEntry
  BY DEF LogInv
<1>2. \A x \in LogEntry : x.seq \in Nat /\ x.prev \in Nat /\ x.pk \in Nat /\ x.life \in Nat
  BY DEF LogEntry
<1> QED
  BY <1>1, <1>2

\* A new entry links to the head of the owner's present life (trellis_kt_publish), and a walk
\* takes only entries that link to the last one it took (on_kt_entry_fetched).
LEMMA KeyLogInvNext == LogInv /\ WalkInv /\ [KeyLogNext]_keyLogVars => LogInv' /\ WalkInv'
<1> SUFFICES ASSUME LogInv, WalkInv, [KeyLogNext]_keyLogVars PROVE LogInv' /\ WalkInv'
  OBVIOUS
<1>1. CASE PublishKey
  <2> DEFINE e == Entry(NextSeq, chain, current)
  <2>1. /\ log' = Append(log, e) /\ chain' = Len(log')
        /\ UNCHANGED <<current, life, tofu, walk, verdict>>
    BY <1>1 DEF PublishKey
  <2>2. NextSeq \in Nat
    <3>1. chain \in 0..Len(log)
      BY DEF LogInv
    <3> QED
      BY <3>1, LogEntries DEF NextSeq
  <2>3. e \in LogEntry /\ e.prev = chain /\ e.life = life
    BY <2>2 DEF Entry, LogInv, LogEntry
  <2> HIDE DEF e
  <2>4. /\ log' \in Seq(LogEntry)
        /\ Len(log') = Len(log) + 1 /\ DOMAIN log = 1..Len(log) /\ DOMAIN log' = 1..(Len(log) + 1)
        /\ log'[Len(log) + 1] = e /\ \A i \in 1..Len(log) : log'[i] = log[i]
        /\ Len(log) \in Nat
    BY <2>1, <2>3 DEF LogInv
  <2>5. ASSUME NEW i \in DOMAIN log', log'[i].prev # 0
        PROVE  log'[i].prev \in DOMAIN log' /\ log'[log'[i].prev].life = log'[i].life
    <3>1. CASE i = Len(log) + 1
      <4>1. log'[i].prev = chain /\ log'[i].life = life /\ chain # 0
        BY <2>3, <2>4, <2>5, <3>1
      <4>2. chain \in 1..Len(log) /\ log[chain].life = life
        BY <2>4, <4>1 DEF LogInv
      <4>3. log'[chain] = log[chain] /\ chain \in 1..(Len(log) + 1)
        BY <2>4, <4>2
      <4> QED
        BY <2>4, <4>1, <4>2, <4>3
    <3>2. CASE i # Len(log) + 1
      <4>1. i \in 1..Len(log) /\ log'[i] = log[i]
        BY <2>4, <3>2
      <4>2. log[i].prev \in 1..Len(log) /\ log[log[i].prev].life = log[i].life
        BY <2>4, <2>5, <4>1 DEF LogInv
      <4> DEFINE p == log[i].prev
      <4>3. p \in 1..(Len(log) + 1) /\ log'[p] = log[p]
        BY <2>4, <4>2
      <4> QED
        BY <2>4, <4>1, <4>2, <4>3
    <3> QED
      BY <3>1, <3>2
  <2>6. LogInv'
    <3>1. chain' = Len(log) + 1 /\ log'[chain'].life = life
      BY <2>1, <2>3, <2>4
    <3> QED
      BY <2>1, <2>4, <2>5, <3>1 DEF LogInv
  <2>7. log \in Seq(LogEntry)
    BY DEF LogInv
  <2>8. \A taken : LinkedIn(log, taken) => LinkedIn(log', taken)
    BY <2>1, <2>3, <2>7, LinkedStays
  <2>9. WalkInv'
    BY <2>1, <2>8 DEF WalkInv
  <2> QED
    BY <2>6, <2>9
<1>2. CASE RotateKey
  BY <1>2 DEF RotateKey, LogInv, WalkInv
<1>3. CASE RestartOwner
  BY <1>3 DEF RestartOwner, LogInv, WalkInv
<1>4. CASE FirstContact
  <2>1. log[chain].seq \in Nat
    <3>1. chain # 0 /\ chain \in 0..Len(log)
      BY <1>4 DEF FirstContact, LogInv
    <3> QED
      BY <3>1, LogEntries
  <2> QED
    BY <1>4, <2>1 DEF FirstContact, LogInv, WalkInv
<1>5. ASSUME NEW to \in 0..MaxSeq, StartWalk(to) PROVE LogInv' /\ WalkInv'
  <2>1. UNCHANGED <<log, current, life, chain, tofu>>
    BY <1>5 DEF StartWalk
  <2>2. CASE to < tofu.seq \/ to - tofu.seq > MaxChain
    <3>1. verdict' = [valid |-> FALSE, taken |-> <<>>] /\ UNCHANGED walk
      BY <1>5, <2>2 DEF StartWalk
    <3> QED
      BY <2>1, <3>1 DEF LogInv, WalkInv
  <2>3. CASE ~(to < tofu.seq \/ to - tofu.seq > MaxChain)
    <3>1. /\ walk' = [active |-> TRUE, from |-> tofu.seq, to |-> to, at |-> tofu.seq, prev |-> 0,
                      pk |-> tofu.pk, taken |-> <<>>]
          /\ UNCHANGED verdict
      BY <1>5, <2>3 DEF StartWalk, NoWalk
    <3>2. tofu.seq \in Nat /\ tofu.pk \in Nat /\ to \in Nat
      BY KeyLogAssumption DEF WalkInv
    <3>3. walk' \in [active : BOOLEAN, from : Nat, to : Nat, at : Nat, prev : Nat, pk : Nat, taken : Seq(Nat)]
      BY <3>1, <3>2
    <3>4. LinkedIn(log, walk'.taken) /\ Len(walk'.taken) = 0 /\ walk'.at = walk'.from + 0
      BY <3>1, <3>2 DEF LinkedIn
    <3> QED
      BY <2>1, <3>1, <3>3, <3>4 DEF LogInv, WalkInv
  <2> QED
    BY <2>2, <2>3
<1>6. ASSUME NEW e \in DOMAIN log, EntryFetched(e) PROVE LogInv' /\ WalkInv'
  <2> DEFINE taken == Append(walk.taken, e)
  <2>1. /\ walk.active /\ UNCHANGED <<log, current, life, chain>>
    BY <1>6 DEF EntryFetched
  <2>2. LogInv'
    BY <2>1 DEF LogInv
  <2>3. CASE ~EntryVerifies(e)
    <3>1. Ended(FALSE, taken) /\ UNCHANGED tofu
      BY <1>6, <2>3 DEF EntryFetched
    <3> QED
      BY <2>1, <2>2, <3>1 DEF Ended, NoWalk, WalkInv
  <2>4. CASE EntryVerifies(e)
    <3>1. e \in Nat /\ walk.taken \in Seq(Nat) /\ LinkedIn(log, walk.taken)
      BY <2>1 DEF LogInv, WalkInv
    <3>2. Len(walk.taken) > 0 => log[e].prev = walk.taken[Len(walk.taken)]
      <4>1. Len(walk.taken) > 0 => walk.at > walk.from
        BY <2>1, <3>1 DEF WalkInv
      <4> QED
        BY <2>1, <2>4, <4>1 DEF WalkInv, EntryVerifies
    <3>3. taken \in Seq(Nat) /\ LinkedIn(log, taken)
      BY <3>1, <3>2, LinkedLonger
    <3>4. Len(taken) = Len(walk.taken) + 1 /\ taken[Len(taken)] = e /\ Len(walk.taken) \in Nat
      BY <3>1
    <3> HIDE DEF taken
    <3>5. CASE walk.at = walk.to
      <4>1. Ended(TRUE, taken) /\ tofu' = IF tofu.seen THEN [tofu EXCEPT !.seq = walk.to, !.pk = log[e].pk] ELSE tofu
        BY <1>6, <2>4, <3>5 DEF EntryFetched, taken
      <4>2. walk.to \in Nat
        BY <2>1, <3>1, <3>5 DEF WalkInv
      <4>3. tofu' \in [seen : BOOLEAN, seq : Nat, pk : Nat]
        BY <4>1, <4>2, LogEntries DEF WalkInv
      <4> QED
        BY <2>1, <2>2, <3>3, <4>1, <4>3 DEF Ended, NoWalk, WalkInv
    <3>6. CASE walk.at # walk.to
      <4>1. /\ walk' = [walk EXCEPT !.at = @ + 1, !.prev = e, !.pk = log[e].pk, !.taken = taken]
            /\ UNCHANGED <<tofu, verdict>>
        BY <1>6, <2>4, <3>6 DEF EntryFetched, taken
      <4>2. walk.at = walk.from + Len(walk.taken) /\ walk.from \in Nat
        BY <2>1 DEF WalkInv
      <4>3. /\ walk' \in [active : BOOLEAN, from : Nat, to : Nat, at : Nat, prev : Nat, pk : Nat, taken : Seq(Nat)]
            /\ walk'.taken = taken /\ walk'.prev = e /\ walk'.from = walk.from /\ walk'.at = walk.at + 1
        <5>1. log[e].pk \in Nat
          BY LogEntries
        <5>2. walk \in [active : BOOLEAN, from : Nat, to : Nat, at : Nat, prev : Nat, pk : Nat, taken : Seq(Nat)]
          BY DEF WalkInv
        <5>3. walk.at + 1 \in Nat
          BY <5>2
        <5> QED
          BY ONLY <3>1, <3>3, <4>1, <5>1, <5>2, <5>3
      <4>4. walk'.at = walk'.from + Len(walk'.taken)
        BY <3>4, <4>2, <4>3, SMTT(60)
      <4> QED
        BY <2>1, <2>2, <3>3, <3>4, <4>1, <4>3, <4>4 DEF WalkInv
    <3> QED
      BY <3>5, <3>6
  <2> QED
    BY <2>3, <2>4
<1>7. CASE EntryMissing
  BY <1>7 DEF EntryMissing, Ended, NoWalk, LogInv, WalkInv
<1>8. CASE UNCHANGED keyLogVars
  BY <1>8 DEF keyLogVars, LogInv, WalkInv
<1> QED
  BY <1>1, <1>2, <1>3, <1>4, <1>5, <1>6, <1>7, <1>8 DEF KeyLogNext

\* A link that is not the zero hash does not leave the life of its entry.
LEMMA LinkedIsOneLife == LogInv /\ WalkInv => AcceptedChainIsOne
<1> SUFFICES ASSUME LogInv, WalkInv, verdict.valid, NEW i \in DOMAIN verdict.taken, i > 1
             PROVE  /\ log[verdict.taken[i]].prev = verdict.taken[i - 1]
                    /\ log[verdict.taken[i]].life = log[verdict.taken[i - 1]].life
  BY DEF AcceptedChainIsOne
<1>1. verdict.taken[i] \in DOMAIN log /\ log[verdict.taken[i]].prev = verdict.taken[i - 1]
  BY DEF WalkInv, LinkedIn
<1>2. i - 1 \in DOMAIN verdict.taken /\ verdict.taken \in Seq(Nat)
  BY DEF WalkInv
<1>3. verdict.taken[i - 1] \in DOMAIN log
  BY <1>2 DEF WalkInv, LinkedIn
<1>4. verdict.taken[i - 1] # 0
  BY <1>3 DEF LogInv
<1> QED
  BY <1>1, <1>4 DEF LogInv

-----------------------------------------------------------------------------
(* History: the ring, read from head - count, ends with the last message.  *)

\* Less than two turns of a ring wrap once.
LEMMA Wrapped ==
    ASSUME NEW n \in Nat \ {0}, NEW x \in Nat, x < 2 * n
    PROVE  x % n = IF x < n THEN x ELSE x - n
OBVIOUS

\* Where the k-th of the stored messages lies.
At(k, hd, count) == (hd + HistoryCap - count + k - 1) % HistoryCap

HistoryInv ==
    /\ ring \in [0..HistoryCap-1 -> Nat]
    /\ head \in 0..HistoryCap-1 /\ stored \in 0..HistoryCap
    /\ posted \in Seq(Nat) /\ stored <= Len(posted)
    /\ \A i \in 1..Len(posted) : posted[i] = i
    /\ \A k \in 1..stored : ring[At(k, head, stored)] = Len(posted) - stored + k

\* A place is in the ring, and short of it or past its end by less than a turn.
LEMMA AtWrapped ==
    ASSUME NEW hd \in 0..HistoryCap-1, NEW count \in 0..HistoryCap, NEW k \in 1..count
    PROVE  /\ At(k, hd, count) \in 0..HistoryCap-1
           /\ hd < count - k + 1 => At(k, hd, count) = hd + HistoryCap - count + k - 1
           /\ hd >= count - k + 1 => At(k, hd, count) = hd - count + k - 1
<1> DEFINE x == hd + HistoryCap - count + k - 1
<1>1. HistoryCap \in Nat \ {0}
  BY GardenAssumption
<1>2. x \in Nat /\ x < 2 * HistoryCap
  BY <1>1
<1>3. x % HistoryCap = IF x < HistoryCap THEN x ELSE x - HistoryCap
  BY <1>1, <1>2, Wrapped
<1>4. At(k, hd, count) = IF x < HistoryCap THEN x ELSE x - HistoryCap
  BY <1>3 DEF At
<1> QED
  BY <1>1, <1>4

\* The ring is empty.
LEMMA HistoryInvInit == GardenInit => HistoryInv
BY GardenAssumption DEF GardenInit, HistoryInv

\* A message is written at the head; when the ring is full, that is where the oldest one lay
\* (trellis_garden_post_message).
LEMMA HistoryInvNext == HistoryInv /\ [GardenNext \/ Post]_gardenVars => HistoryInv'
<1> SUFFICES ASSUME HistoryInv, [GardenNext \/ Post]_gardenVars PROVE HistoryInv'
  OBVIOUS
<1>1. CASE UNCHANGED historyVars
  BY <1>1 DEF historyVars, HistoryInv, At
<1>2. CASE Post
  <2> DEFINE count == IF stored < HistoryCap THEN stored + 1 ELSE stored
             hd == (head + 1) % HistoryCap
             len == Len(posted)
  <2>1. /\ posted' = Append(posted, len + 1)
        /\ ring' = [ring EXCEPT ![head] = len + 1]
        /\ head' = hd /\ stored' = count
    BY <1>2 DEF Post
  <2>2. /\ HistoryCap \in Nat \ {0} /\ len \in Nat /\ stored <= len
        /\ head \in 0..HistoryCap-1 /\ stored \in 0..HistoryCap
    BY GardenAssumption DEF HistoryInv
  <2>3. /\ count \in 1..HistoryCap /\ count <= len + 1
        /\ count = stored + 1 \/ (count = stored /\ stored = HistoryCap)
    BY <2>2
  <2>4. /\ hd \in 0..HistoryCap-1
        /\ head + 1 < HistoryCap => hd = head + 1
        /\ head + 1 = HistoryCap => hd = 0
    <3>1. head + 1 \in Nat /\ head + 1 < 2 * HistoryCap
      BY <2>2
    <3> DEFINE x == head + 1
    <3>2. x % HistoryCap = IF x < HistoryCap THEN x ELSE x - HistoryCap
      <4> HIDE DEF x
      <4>1. x \in Nat /\ x < 2 * HistoryCap
        BY <3>1 DEF x
      <4> QED
        BY <2>2, <4>1, Wrapped
    <3> QED
      BY <2>2, <3>2
  <2>5. /\ posted' \in Seq(Nat) /\ Len(posted') = len + 1
        /\ \A i \in 1..(len + 1) : posted'[i] = i
    <3>1. posted \in Seq(Nat) /\ len \in Nat /\ \A i \in 1..len : posted[i] = i
      BY DEF HistoryInv
    <3> QED
      BY <2>1, <3>1
  <2> HIDE DEF count, hd, len
  <2>6. /\ ring' \in [0..HistoryCap-1 -> Nat]
        /\ ring'[head] = len + 1
        /\ \A x \in 0..HistoryCap-1 : x # head => ring'[x] = ring[x]
    BY <2>1, <2>2 DEF HistoryInv
  <2>7. ASSUME NEW k \in 1..count PROVE ring'[At(k, hd, count)] = len + 1 - count + k
    <3>1. CASE k = count
      <4>1. At(k, hd, count) = head
        <5>1. /\ At(k, hd, count) \in 0..HistoryCap-1
              /\ hd < count - k + 1 => At(k, hd, count) = hd + HistoryCap - count + k - 1
              /\ hd >= count - k + 1 => At(k, hd, count) = hd - count + k - 1
          BY <2>3, <2>4, AtWrapped
        <5> HIDE DEF At
        <5> QED
          BY <2>2, <2>3, <2>4, <3>1, <5>1
      <4> QED
        BY <2>2, <2>3, <2>6, <3>1, <4>1
    <3>2. CASE k < count
      <4> DEFINE j == k + stored + 1 - count
      <4>1. j \in 1..stored
        BY <2>2, <2>3, <3>2
      <4>2. /\ At(k, hd, count) \in 0..HistoryCap-1
            /\ hd < count - k + 1 => At(k, hd, count) = hd + HistoryCap - count + k - 1
            /\ hd >= count - k + 1 => At(k, hd, count) = hd - count + k - 1
        BY <2>3, <2>4, AtWrapped
      <4>3. /\ At(j, head, stored) \in 0..HistoryCap-1
            /\ head < stored - j + 1 => At(j, head, stored) = head + HistoryCap - stored + j - 1
            /\ head >= stored - j + 1 => At(j, head, stored) = head - stored + j - 1
        BY <2>2, <4>1, AtWrapped
      <4>4. stored - j + 1 = count - k /\ stored - j = count - k - 1
        BY <2>2, <2>3
      <4>5. At(k, hd, count) = At(j, head, stored) /\ At(k, hd, count) # head
        <5> HIDE DEF At, j
        <5>1. CASE head + 1 < HistoryCap
          BY <2>2, <2>3, <2>4, <3>2, <4>1, <4>2, <4>3, <4>4, <5>1
        <5>2. CASE head + 1 = HistoryCap
          BY <2>2, <2>3, <2>4, <3>2, <4>1, <4>2, <4>3, <4>4, <5>2
        <5> QED
          BY <2>2, <5>1, <5>2
      <4>6. ring[At(j, head, stored)] = len - stored + j
        BY <4>1 DEF HistoryInv, len
      <4>7. ring'[At(k, hd, count)] = len - stored + j
        BY <2>6, <4>2, <4>5, <4>6
      <4> QED
        BY <2>2, <2>3, <4>7
    <3> QED
      BY <2>3, <3>1, <3>2
  <2>8. \A k \in 1..count : ring'[At(k, hd, count)] = (len + 1) - count + k
    BY <2>2, <2>3, <2>7
  <2>9. count \in 0..HistoryCap
    BY <2>3
  <2> HIDE DEF At
  <2> QED
    BY <2>1, <2>3, <2>4, <2>5, <2>6, <2>8, <2>9 DEF HistoryInv
<1>3. ASSUME GardenNext PROVE UNCHANGED historyVars
  BY <1>3 DEF GardenNext, OnSubscribe, OnUnsubscribe, Join, SetPermission, Revoke, ProcessCommit, Subscribe
<1>4. CASE UNCHANGED gardenVars
  BY <1>1, <1>4 DEF gardenVars
<1> QED
  BY <1>1, <1>2, <1>3, <1>4

\* Read from head - count, the ring gives the last messages.
LEMMA RingIsLast == HistoryInv => HistoryIsLast
<1> SUFFICES ASSUME HistoryInv PROVE HistoryIsLast
  OBVIOUS
<1> DEFINE len == Len(posted)
           last == SubSeq(posted, len - stored + 1, len)
           read == [i \in 1..stored |-> ring[(head + HistoryCap - stored + i - 1) % HistoryCap]]
<1>1. len \in Nat /\ stored \in Nat /\ stored <= len /\ posted \in Seq(Nat)
  BY GardenAssumption DEF HistoryInv
<1>2. last = [i \in 1..stored |-> posted[i + (len - stored + 1) - 1]]
  BY <1>1
<1>3. ASSUME NEW i \in 1..stored PROVE read[i] = posted[i + (len - stored + 1) - 1]
  <2>1. read[i] = len - stored + i
    BY DEF HistoryInv, At
  <2>2. i + (len - stored + 1) - 1 \in 1..len /\ i + (len - stored + 1) - 1 = len - stored + i
    BY <1>1
  <2>3. posted[i + (len - stored + 1) - 1] = len - stored + i
    BY <2>2 DEF HistoryInv
  <2> QED
    BY <2>1, <2>3
<1>4. read = [i \in 1..stored |-> posted[i + (len - stored + 1) - 1]]
  BY <1>3
<1> QED
  BY <1>2, <1>4 DEF HistoryIsLast

\* Who reads published records sees one history: the owner of a name (naming.c), the chain
\* of an identity's keys (key_transparency.c), the last messages of a garden (garden.c).
THEOREM RecordsAgreeHolds == GroupsSpec => []RecordsAgree
<1>1. GroupsInit => NamingInv /\ (LogInv /\ WalkInv) /\ HistoryInv
  BY NamingInvInit, KeyLogInvInit, HistoryInvInit DEF GroupsInit
<1>2. NamingInv /\ (LogInv /\ WalkInv) /\ HistoryInv /\ [GroupsNext]_groupVars
      => NamingInv' /\ (LogInv' /\ WalkInv') /\ HistoryInv'
  BY NamingInvNext, KeyLogInvNext, HistoryInvNext, PartsStep
<1>3. NamingInv /\ (LogInv /\ WalkInv) /\ HistoryInv => RecordsAgree
  BY FirstIsOffered, LinkedIsOneLife, RingIsLast DEF RecordsAgree
<1> QED
  BY <1>1, <1>2, <1>3, PTL DEF GroupsSpec

-----------------------------------------------------------------------------
(* The key tree: a path ends at the root of the tree as it is when the     *)
(* path's secrets are drawn.                                               *)

\* The powers of two.
LEMMA TwoToIs ==
    /\ TwoTo[0] = 1
    /\ \A k \in Nat : TwoTo[k] \in Nat \ {0} /\ TwoTo[k + 1] = 2 * TwoTo[k]
<1> DEFINE before == [k \in Nat |-> k - 1]
           next == [k \in Nat |-> [v \in Nat \ {0} |-> 2 * v]]
<1>0. PICK f : Recurses(f, before, 1, next, Nat \ {0})
  <2>1. GoesDown(before)
    BY DEF GoesDown
  <2>2. StepsWithin(next, Nat \ {0})
    BY DEF StepsWithin
  <2>3. 1 \in Nat \ {0}
    OBVIOUS
  <2> HIDE DEF before, next
  <2> QED
    BY <2>1, <2>2, <2>3, RecursionExists
<1>1. f \in [Nat -> Nat \ {0}] /\ \A k \in Nat : f[k] = IF k = 0 THEN 1 ELSE next[k][f[before[k]]]
  BY <1>0 DEF Recurses
<1>2. f = [k \in Nat |-> IF k = 0 THEN 1 ELSE 2 * f[k - 1]]
  <2>1. ASSUME NEW k \in Nat PROVE f[k] = IF k = 0 THEN 1 ELSE 2 * f[k - 1]
    <3>1. CASE k = 0
      BY <1>1, <3>1
    <3>2. CASE k # 0
      <4>1. k - 1 \in Nat /\ f[k - 1] \in Nat \ {0} /\ before[k] = k - 1
        BY <1>1, <3>2
      <4>2. next[k][f[k - 1]] = 2 * f[k - 1]
        BY <4>1
      <4> QED
        BY <1>1, <3>2, <4>1, <4>2
    <3> QED
      BY <3>1, <3>2
  <2> QED
    BY <1>1, <2>1
<1>3. TwoTo = [k \in Nat |-> IF k = 0 THEN 1 ELSE 2 * TwoTo[k - 1]]
  BY <1>2 DEF TwoTo
<1>4. ASSUME NEW k \in Nat PROVE TwoTo[k + 1] = 2 * TwoTo[k]
  <2>1. k + 1 \in Nat /\ k + 1 # 0 /\ (k + 1) - 1 = k
    OBVIOUS
  <2> QED
    BY <1>3, <2>1
<1>5. TwoTo[0] = 1
  BY <1>3
<1>6. ASSUME NEW k \in Nat PROVE TwoTo[k] \in Nat \ {0}
  <2> DEFINE Bad == {n \in Nat : TwoTo[n] \notin Nat \ {0}}
  <2> SUFFICES ASSUME Bad # {} PROVE FALSE
    OBVIOUS
  <2>1. PICK n \in Bad : \A m \in Bad : n <= m
    <3>1. Bad \subseteq Nat
      OBVIOUS
    <3> HIDE DEF Bad
    <3> QED
      BY <3>1, LeastNatural
  <2>2. n # 0
    BY <1>5
  <2>3. n - 1 \in Nat /\ n - 1 \notin Bad /\ (n - 1) + 1 = n
    BY <2>1, <2>2
  <2>4. TwoTo[n - 1] \in Nat \ {0} /\ TwoTo[(n - 1) + 1] = 2 * TwoTo[n - 1]
    BY <1>4, <2>3
  <2> QED
    BY <2>3, <2>4
<1> QED
  BY <1>4, <1>5, <1>6

\* The number of ones at the end of a number.
LEMMA LevelIs ==
    \A x \in Nat : /\ Level[x] \in Nat
                   /\ Level[x] = IF x % 2 = 0 THEN 0 ELSE 1 + Level[x \div 2]
<1> DEFINE before == [x \in Nat |-> x \div 2]
           next == [x \in Nat |-> [v \in Nat |-> IF x % 2 = 0 THEN 0 ELSE 1 + v]]
<1>0. PICK f : Recurses(f, before, 0, next, Nat)
  <2>1. GoesDown(before)
    BY DEF GoesDown
  <2>2. StepsWithin(next, Nat)
    BY DEF StepsWithin
  <2>3. 0 \in Nat
    OBVIOUS
  <2> HIDE DEF before, next
  <2> QED
    BY <2>1, <2>2, <2>3, RecursionExists
<1>1. f \in [Nat -> Nat] /\ \A x \in Nat : f[x] = IF x = 0 THEN 0 ELSE next[x][f[before[x]]]
  BY <1>0 DEF Recurses
<1>2. f = [x \in Nat |-> IF x % 2 = 0 THEN 0 ELSE 1 + f[x \div 2]]
  <2>1. ASSUME NEW x \in Nat PROVE f[x] = IF x % 2 = 0 THEN 0 ELSE 1 + f[x \div 2]
    <3>1. CASE x = 0
      <4>1. 0 % 2 = 0
        OBVIOUS
      <4> QED
        BY <1>1, <3>1, <4>1
    <3>2. CASE x # 0
      <4>1. x \div 2 \in Nat /\ f[x \div 2] \in Nat /\ before[x] = x \div 2
        BY <1>1, <3>2
      <4>2. next[x][f[x \div 2]] = IF x % 2 = 0 THEN 0 ELSE 1 + f[x \div 2]
        BY <4>1
      <4> QED
        BY <1>1, <3>2, <4>1, <4>2
    <3> QED
      BY <3>1, <3>2
  <2> QED
    BY <1>1, <2>1
<1>3. \A x \in Nat : Level[x] = IF x % 2 = 0 THEN 0 ELSE 1 + Level[x \div 2]
  <2>1. Level = [x \in Nat |-> IF x % 2 = 0 THEN 0 ELSE 1 + Level[x \div 2]]
    BY <1>2 DEF Level
  <2> QED
    BY <2>1
<1>4. ASSUME NEW y \in Nat PROVE Level[y] \in Nat
  <2> DEFINE Bad == {n \in Nat : Level[n] \notin Nat}
  <2> SUFFICES ASSUME Bad # {} PROVE FALSE
    OBVIOUS
  <2>1. PICK n \in Bad : \A m \in Bad : n <= m
    <3>1. Bad \subseteq Nat
      OBVIOUS
    <3> HIDE DEF Bad
    <3> QED
      BY <3>1, LeastNatural
  <2>2. n % 2 # 0
    BY <1>3
  <2>3. n \div 2 \in Nat /\ n \div 2 < n
    BY <2>2
  <2>4. n \div 2 \notin Bad
    BY <2>1, <2>3
  <2>5. Level[n \div 2] \in Nat
    BY <2>3, <2>4
  <2>6. n \in Nat /\ Level[n] = 1 + Level[n \div 2]
    BY <1>3, <2>2
  <2> HIDE DEF Bad
  <2>7. n \notin Bad
    BY <2>5, <2>6 DEF Bad
  <2> QED
    BY <2>7
<1> QED
  BY <1>3, <1>4

\* The node above leaves number q * 2^k and following, at level k.
Node(q, k) == q * TwoTo[k + 1] + TwoTo[k] - 1

\* A node is a number, and its level is its level.
LEMMA NodeLevel == \A k \in Nat : \A q \in Nat : Node(q, k) \in Nat /\ Level[Node(q, k)] = k
<1>1. ASSUME NEW q \in Nat, NEW k \in Nat PROVE Node(q, k) \in Nat
  <2>1. TwoTo[k] \in Nat \ {0} /\ TwoTo[k + 1] \in Nat
    BY TwoToIs
  <2>2. q * TwoTo[k + 1] \in Nat
    BY <2>1
  <2> QED
    BY <2>1, <2>2 DEF Node
<1>2. ASSUME NEW q \in Nat PROVE Level[Node(q, 0)] = 0
  <2>1. TwoTo[0 + 1] = 2
    BY TwoToIs
  <2>2. Node(q, 0) = 2 * q
    BY <2>1, TwoToIs DEF Node
  <2>3. (2 * q) % 2 = 0
    OBVIOUS
  <2> QED
    BY <1>1, <2>2, <2>3, LevelIs
<1>3. ASSUME NEW k \in Nat, NEW q \in Nat, Level[Node(q, k)] = k PROVE Level[Node(q, k + 1)] = k + 1
  <2>1. TwoTo[k] \in Nat /\ TwoTo[k + 1] = 2 * TwoTo[k] /\ TwoTo[(k + 1) + 1] = 2 * TwoTo[k + 1]
    BY TwoToIs
  <2> DEFINE t == TwoTo[k]
  <2>2. Node(q, k + 1) = 2 * Node(q, k) + 1
    <3>1. Node(q, k) = q * (2 * t) + t - 1 /\ Node(q, k + 1) = q * (2 * (2 * t)) + 2 * t - 1 /\ t \in Nat
      BY <2>1 DEF Node
    <3> HIDE DEF t
    <3>2. q * (2 * t) = 2 * (q * t) /\ q * (2 * (2 * t)) = 4 * (q * t) /\ q * t \in Nat
      BY <3>1
    <3> QED
      BY <3>1, <3>2
  <2>3. ASSUME NEW x \in Nat PROVE (2 * x + 1) % 2 = 1 /\ (2 * x + 1) \div 2 = x /\ 2 * x + 1 \in Nat
    OBVIOUS
  <2>4. Node(q, k) \in Nat
    BY <1>1
  <2>5. ASSUME NEW x \in Nat, Level[x] = k PROVE Level[2 * x + 1] = k + 1
    <3>1. Level[2 * x + 1] = IF (2 * x + 1) % 2 = 0 THEN 0 ELSE 1 + Level[(2 * x + 1) \div 2]
      BY <2>3, LevelIs
    <3> QED
      BY <2>3, <2>5, <3>1
  <2> QED
    BY <1>3, <2>2, <2>4, <2>5
<1>4. ASSUME NEW q \in Nat, NEW k \in Nat PROVE Level[Node(q, k)] = k
  <2> DEFINE Bad == {n \in Nat : Level[Node(q, n)] # n}
  <2> SUFFICES ASSUME Bad # {} PROVE FALSE
    OBVIOUS
  <2>1. PICK n \in Bad : \A m \in Bad : n <= m
    <3>1. Bad \subseteq Nat
      OBVIOUS
    <3> HIDE DEF Bad
    <3> QED
      BY <3>1, LeastNatural
  <2>2. n # 0
    BY <1>2
  <2>3. n - 1 \in Nat /\ n - 1 \notin Bad /\ (n - 1) + 1 = n
    BY <2>1, <2>2
  <2>4. Level[Node(q, (n - 1) + 1)] = (n - 1) + 1
    BY <1>3, <2>3
  <2> QED
    BY <2>3, <2>4
<1> QED
  BY <1>1, <1>4

\* Each node's parent is the one above it and its neighbour.
LEMMA NodeParent ==
    ASSUME NEW q \in Nat, NEW k \in Nat
    PROVE  Parent(Node(q, k)) = Node(q \div 2, k + 1)
<1> DEFINE x == Node(q, k)
           t == TwoTo[k]
           u == TwoTo[k + 1]
           b == (x \div u) % 2
<1>1. t \in Nat \ {0} /\ u \in Nat \ {0} /\ u = 2 * t /\ TwoTo[(k + 1) + 1] = 2 * u
  BY TwoToIs
<1>2. Level[x] = k /\ x = q * u + (t - 1)
  <2>1. q * u \in Nat
    BY <1>1
  <2> QED
    BY <1>1, <2>1, NodeLevel DEF Node
<1>3. Parent(x) = x + t - b * u
  BY <1>2 DEF Parent
<1>4. Node(q \div 2, k + 1) = (q \div 2) * (2 * u) + u - 1
  BY <1>1 DEF Node
<1> HIDE DEF x, t, u
<1>5. x \div u = q
  <2>1. t - 1 \in Nat /\ t - 1 < u
    BY <1>1
  <2>2. ASSUME NEW a \in Nat, NEW c \in Nat \ {0}, a < c PROVE (q * c + a) \div c = q
    BY <2>2
  <2> QED
    BY <1>1, <1>2, <2>1, <2>2
<1>6. q = 2 * (q \div 2) + (q % 2) /\ q \div 2 \in Nat /\ q % 2 \in Nat
  BY SMT
<1>7. q * u + (t - 1) + t - (q % 2) * u = (q \div 2) * (2 * u) + u - 1
  <2>1. ASSUME NEW h \in Nat, NEW r \in Nat, NEW p, p = 2 * h + r PROVE p * u - r * u = h * (2 * u)
    BY <1>1, <2>1
  <2>2. q * u - (q % 2) * u = (q \div 2) * (2 * u)
    BY <1>6, <2>1
  <2>3. q * u \in Int /\ (q % 2) * u \in Int /\ (q \div 2) * (2 * u) \in Int
    BY <1>1, <1>6
  <2> QED
    BY <1>1, <2>2, <2>3
<1> QED
  BY <1>2, <1>3, <1>4, <1>5, <1>7 DEF x

\* A node's parent is a number.
LEMMA ParentIs == ASSUME NEW x \in Nat PROVE Parent(x) \in Nat
<1> DEFINE t == TwoTo[Level[x]]
           u == TwoTo[Level[x] + 1]
           b == (x \div u) % 2
<1>1. t \in Nat \ {0} /\ u \in Nat \ {0}
  BY LevelIs, TwoToIs
<1>2. Parent(x) = x + t - b * u
  BY DEF Parent
<1> HIDE DEF t, u
<1>3. x \div u \in Nat
  BY <1>1
<1> DEFINE d == x \div u
<1>4. b \in {0, 1} /\ (d = 0 => b = 0)
  <2>1. ASSUME NEW c \in Nat PROVE c % 2 \in {0, 1} /\ (c = 0 => c % 2 = 0)
    OBVIOUS
  <2> QED
    BY <1>3, <2>1
<1>5. d # 0 => x >= u
  <2>1. ASSUME x < u PROVE d = 0
    BY <1>1, <2>1
  <2> QED
    BY <1>1, <2>1
<1> HIDE DEF b, d
<1> QED
  BY <1>1, <1>2, <1>4, <1>5

\* The way up from a node, one parent after the other.
LEMMA AscentIs ==
    ASSUME NEW x \in Nat
    PROVE  /\ Ascent(x)[0] = x
           /\ \A k \in Nat : Ascent(x)[k] \in Nat /\ Ascent(x)[k + 1] = Parent(Ascent(x)[k])
<1> DEFINE before == [k \in Nat |-> k - 1]
           next == [k \in Nat |-> [v \in Nat |-> Parent(v)]]
<1>0. PICK f : Recurses(f, before, x, next, Nat)
  <2>1. GoesDown(before)
    BY DEF GoesDown
  <2>2. StepsWithin(next, Nat)
    BY ParentIs DEF StepsWithin
  <2> HIDE DEF before, next
  <2> QED
    BY <2>1, <2>2, RecursionExists
<1>1. f \in [Nat -> Nat] /\ \A k \in Nat : f[k] = IF k = 0 THEN x ELSE next[k][f[before[k]]]
  BY <1>0 DEF Recurses
<1>2. f = [k \in Nat |-> IF k = 0 THEN x ELSE Parent(f[k - 1])]
  <2>1. ASSUME NEW k \in Nat PROVE f[k] = IF k = 0 THEN x ELSE Parent(f[k - 1])
    <3>1. CASE k = 0
      BY <1>1, <3>1
    <3>2. CASE k # 0
      <4>1. k - 1 \in Nat /\ f[k - 1] \in Nat /\ before[k] = k - 1
        BY <1>1, <3>2
      <4>2. next[k][f[k - 1]] = Parent(f[k - 1])
        BY <4>1
      <4> QED
        BY <1>1, <3>2, <4>1, <4>2
    <3> QED
      BY <3>1, <3>2
  <2> QED
    BY <1>1, <2>1
<1> DEFINE g == Ascent(x)
<1>3. g = [k \in Nat |-> IF k = 0 THEN x ELSE Parent(g[k - 1])]
  BY <1>2 DEF Ascent
<1> HIDE DEF g
<1>4. ASSUME NEW k \in Nat PROVE g[k + 1] = Parent(g[k])
  <2>1. k + 1 \in Nat /\ k + 1 # 0 /\ (k + 1) - 1 = k
    OBVIOUS
  <2> QED
    BY <1>3, <2>1
<1>5. g[0] = x
  BY <1>3
<1>6. ASSUME NEW k \in Nat PROVE g[k] \in Nat
  <2> DEFINE Bad == {n \in Nat : g[n] \notin Nat}
  <2> SUFFICES ASSUME Bad # {} PROVE FALSE
    OBVIOUS
  <2>1. PICK n \in Bad : \A m \in Bad : n <= m
    <3>1. Bad \subseteq Nat
      OBVIOUS
    <3> HIDE DEF Bad
    <3> QED
      BY <3>1, LeastNatural
  <2>2. n # 0
    BY <1>5
  <2>3. n - 1 \in Nat /\ n - 1 \notin Bad /\ (n - 1) + 1 = n
    BY <2>1, <2>2
  <2>4. g[n - 1] \in Nat /\ g[(n - 1) + 1] = Parent(g[n - 1])
    BY <1>4, <2>3
  <2> QED
    BY <2>3, <2>4, ParentIs
<1> QED
  BY <1>4, <1>5, <1>6 DEF g

\* k levels up the nodes are 2^k times as few.
LEMMA AscentNode ==
    ASSUME NEW q \in Nat, NEW j \in Nat, NEW k \in Nat
    PROVE  \E p \in Nat : Ascent(Node(q, j))[k] = Node(p, j + k) /\ p * TwoTo[k] <= q
<1> DEFINE A == Ascent(Node(q, j))
           Fits(n, p) == A[n] = Node(p, j + n) /\ p * TwoTo[n] <= q
           Bad == {n \in Nat : ~ \E p \in Nat : Fits(n, p)}
<1> SUFFICES ASSUME Bad # {} PROVE FALSE
  OBVIOUS
<1>1. PICK n \in Bad : \A m \in Bad : n <= m
  <2>1. Bad \subseteq Nat
    OBVIOUS
  <2> HIDE DEF Bad
  <2> QED
    BY <2>1, LeastNatural
<1>2. A[0] = Node(q, j) /\ \A m \in Nat : A[m + 1] = Parent(A[m])
  BY NodeLevel, AscentIs
<1>3. n # 0
  <2>1. Fits(0, q)
    BY <1>2, TwoToIs
  <2> HIDE DEF Fits
  <2> QED
    BY <2>1
<1>4. n - 1 \in Nat /\ n - 1 \notin Bad /\ (n - 1) + 1 = n
  BY <1>1, <1>3
<1>5. PICK p \in Nat : Fits(n - 1, p)
  <2> HIDE DEF Fits
  <2> QED
    BY <1>4
<1>6. A[n] = Node(p \div 2, n + j)
  <2>1. A[(n - 1) + 1] = Parent(A[n - 1]) /\ A[n - 1] = Node(p, j + (n - 1))
    BY <1>2, <1>4, <1>5
  <2>2. Parent(Node(p, j + (n - 1))) = Node(p \div 2, (j + (n - 1)) + 1)
    <3>1. ASSUME NEW m \in Nat PROVE Parent(Node(p, m)) = Node(p \div 2, m + 1)
      BY NodeParent
    <3> QED
      BY <1>4, <3>1
  <2>3. (j + (n - 1)) + 1 = n + j
    BY <1>4
  <2> QED
    BY <1>4, <2>1, <2>2, <2>3
<1>7. (p \div 2) * TwoTo[n] <= q /\ p \div 2 \in Nat
  <2>1. TwoTo[n - 1] \in Nat /\ TwoTo[n] = 2 * TwoTo[n - 1]
    <3>1. TwoTo[n - 1] \in Nat /\ TwoTo[(n - 1) + 1] = 2 * TwoTo[n - 1]
      BY <1>4, TwoToIs
    <3> QED
      BY <1>4, <3>1
  <2>2. ASSUME NEW h \in Nat, NEW t \in Nat, 2 * h <= p PROVE h * (2 * t) <= p * t
    <3>1. (2 * h) * t <= p * t
      BY <2>2
    <3> QED
      BY <3>1
  <2>3. 2 * (p \div 2) <= p /\ p \div 2 \in Nat
    OBVIOUS
  <2>4. p * TwoTo[n - 1] <= q
    BY <1>5
  <2>5. (p \div 2) * (2 * TwoTo[n - 1]) <= p * TwoTo[n - 1]
    BY <2>1, <2>2, <2>3
  <2>6. (p \div 2) * TwoTo[n] \in Int /\ p * TwoTo[n - 1] \in Int
    BY <2>1, <2>3
  <2> QED
    BY <2>1, <2>3, <2>4, <2>5, <2>6
<1>8. Fits(n, p \div 2)
  <2>1. n + j = j + n
    BY <1>4
  <2> QED
    BY <1>6, <1>7, <2>1
<1> HIDE DEF Fits
<1> QED
  BY <1>7, <1>8

\* Twice a number is at most its power of two.
LEMMA TwiceFits == ASSUME NEW n \in Nat \ {0} PROVE 2 * n <= TwoTo[n]
<1> DEFINE Bad == {m \in Nat \ {0} : ~(2 * m <= TwoTo[m])}
<1> SUFFICES ASSUME Bad # {} PROVE FALSE
  OBVIOUS
<1>1. PICK m \in Bad : \A i \in Bad : m <= i
  <2>1. Bad \subseteq Nat
    OBVIOUS
  <2> HIDE DEF Bad
  <2> QED
    BY <2>1, LeastNatural
<1>2. m # 1
  <2>1. TwoTo[0 + 1] = 2
    BY TwoToIs
  <2> QED
    BY <2>1
<1>3. m - 1 \in Nat \ {0} /\ m - 1 \notin Bad /\ (m - 1) + 1 = m
  BY <1>1, <1>2
<1>4. 2 * (m - 1) <= TwoTo[m - 1]
  BY <1>3
<1>5. TwoTo[m - 1] \in Nat /\ TwoTo[(m - 1) + 1] = 2 * TwoTo[m - 1]
  BY <1>3, TwoToIs
<1> QED
  BY <1>3, <1>4, <1>5

\* The root of a tree of n leaves: the first node of the lowest level that is wide enough.
LEMMA RootIs ==
    ASSUME NEW n \in Nat \ {0}
    PROVE  \E r \in Nat : r < n /\ n <= TwoTo[r] /\ Root(n) = Node(0, r)
<1>0. ASSUME NEW r \in Nat PROVE Node(0, r) = TwoTo[r] - 1
  BY TwoToIs DEF Node
<1>1. CASE n = 1
  <2>1. Root(n) = 0 /\ TwoTo[0] = 1 /\ Node(0, 0) = TwoTo[0] - 1
    BY <1>0, <1>1, TwoToIs DEF Root
  <2> QED
    BY <1>1, <2>1
<1>2. CASE n # 1
  <2> DEFINE Wide == {l \in Nat : TwoTo[l] >= 2 * n - 1}
  <2>1. n \in Wide
    <3>1. 2 * n <= TwoTo[n] /\ TwoTo[n] \in Nat
      BY TwiceFits, TwoToIs
    <3> QED
      BY <3>1
  <2>2. PICK l \in Wide : \A i \in Wide : l <= i
    <3>1. Wide \subseteq Nat /\ Wide # {}
      BY <2>1
    <3> HIDE DEF Wide
    <3> QED
      BY <3>1, LeastNatural
  <2>3. l # 0 /\ l \in 1..n
    <3>1. TwoTo[0] = 1
      BY TwoToIs
    <3>2. l # 0
      BY <1>2, <3>1
    <3> QED
      BY <2>1, <2>2, <3>2
  <2>4. TwoTo[l - 1] < 2 * n - 1
    <3>1. l - 1 \in Nat /\ l - 1 \notin Wide
      BY <2>2, <2>3
    <3>2. TwoTo[l - 1] \in Nat
      BY <3>1, TwoToIs
    <3> QED
      BY <3>1, <3>2
  <2> DEFINE P(i) == TwoTo[i] >= 2 * n - 1 /\ TwoTo[i - 1] < 2 * n - 1
             lvl == CHOOSE i \in 1..n : P(i)
  <2>5. lvl \in 1..n /\ P(lvl)
    <3>1. P(l)
      BY <2>2, <2>4
    <3> HIDE DEF P
    <3> QED
      BY <2>3, <3>1
  <2>6. Root(n) = TwoTo[lvl - 1] - 1
    BY <1>2 DEF Root
  <2> HIDE DEF lvl
  <2>7. lvl - 1 \in Nat /\ lvl - 1 < n
    BY <2>5
  <2>8. n <= TwoTo[lvl - 1]
    <3>1. TwoTo[lvl - 1] \in Nat /\ TwoTo[(lvl - 1) + 1] = 2 * TwoTo[lvl - 1] /\ (lvl - 1) + 1 = lvl
      <4>1. ASSUME NEW k \in Nat PROVE TwoTo[k] \in Nat /\ TwoTo[k + 1] = 2 * TwoTo[k]
        BY TwoToIs
      <4>2. (lvl - 1) + 1 = lvl
        BY <2>5
      <4>3. TwoTo[lvl - 1] \in Nat /\ TwoTo[(lvl - 1) + 1] = 2 * TwoTo[lvl - 1]
        BY <2>7, <4>1
      <4> QED
        BY <4>2, <4>3
    <3> QED
      BY <2>5, <3>1
  <2> QED
    BY <1>0, <2>6, <2>7, <2>8
<1> QED
  BY <1>1, <1>2

\* Every loop that climbs from a leaf of the tree meets its root (recompute_path,
\* trellis_treekem_remove_member, trellis_treekem_process_commit).
THEOREM ClimbsEnd ==
    ASSUME NEW n \in Nat \ {0}, n <= MaxLeaves, MaxLeaves \in Nat, NEW i \in 0..n-1
    PROVE  \E k \in 0..MaxLeaves : Ascent(2 * i)[k] = Root(n)
<1>1. PICK r \in Nat : r < n /\ n <= TwoTo[r] /\ Root(n) = Node(0, r)
  BY RootIs
<1>2. Node(i, 0) = 2 * i
  <2>1. TwoTo[0 + 1] = 2 /\ TwoTo[0] = 1
    BY TwoToIs
  <2> QED
    BY <2>1 DEF Node
<1>3. PICK p \in Nat : Ascent(Node(i, 0))[r] = Node(p, 0 + r) /\ p * TwoTo[r] <= i
  <2>1. ASSUME NEW q \in Nat, NEW k \in Nat, NEW j \in Nat
        PROVE  \E p \in Nat : Ascent(Node(q, j))[k] = Node(p, j + k) /\ p * TwoTo[k] <= q
    BY AscentNode
  <2>2. i \in Nat /\ 0 \in Nat
    OBVIOUS
  <2> QED
    BY <2>1, <2>2
<1>4. p = 0
  <2>1. ASSUME NEW t \in Nat, n <= t, p * t <= i, p # 0 PROVE FALSE
    <3>1. p * t >= t
      BY <2>1
    <3>2. p * t \in Nat
      BY <2>1
    <3> QED
      BY <2>1, <3>1, <3>2
  <2>2. TwoTo[r] \in Nat
    BY TwoToIs
  <2> QED
    BY <1>1, <1>3, <2>1, <2>2
<1>5. Ascent(2 * i)[r] = Root(n) /\ r \in 0..MaxLeaves
  BY <1>1, <1>2, <1>3, <1>4
<1> QED
  BY <1>5

\* Such a loop ends at the root.
LEMMA PathEnds ==
    ASSUME MaxLeaves \in Nat, NEW x \in Nat, NEW root, NEW m \in 0..MaxLeaves, Ascent(x)[m] = root
    PROVE  \E h \in 0..MaxLeaves : /\ Ascent(x)[h] = root
                                   /\ PathTo(x, root) = [k \in 1..h+1 |-> Ascent(x)[k - 1]]
<1> DEFINE First(k) == Ascent(x)[k] = root /\ \A j \in 0..k-1 : Ascent(x)[j] # root
           h == CHOOSE k \in 0..MaxLeaves : First(k)
           Meets == {k \in 0..MaxLeaves : Ascent(x)[k] = root}
<1>1. PICK k \in Meets : \A j \in Meets : k <= j
  <2>1. Meets \subseteq Nat /\ Meets # {}
    OBVIOUS
  <2> HIDE DEF Meets
  <2> QED
    BY <2>1, LeastNatural
<1>2. First(k) /\ k \in 0..MaxLeaves
  <2>1. ASSUME NEW j \in 0..k-1 PROVE Ascent(x)[j] # root
    <3>1. j \in 0..MaxLeaves /\ ~(k <= j)
      OBVIOUS
    <3> QED
      BY <1>1, <3>1
  <2> QED
    BY <1>1, <2>1
<1>3. h \in 0..MaxLeaves /\ First(h)
  <2> HIDE DEF First
  <2> QED
    BY <1>2
<1>4. PathTo(x, root) = [i \in 1..h+1 |-> Ascent(x)[i - 1]]
  BY DEF PathTo
<1> HIDE DEF h
<1> QED
  BY <1>3, <1>4

\* The last node of such a path is the root, and what comes before are nodes on the way.
LEMMA PathNodes ==
    ASSUME MaxLeaves \in Nat, NEW x \in Nat, NEW root, NEW m \in 0..MaxLeaves, Ascent(x)[m] = root
    PROVE  /\ Last(PathTo(x, root)) = root /\ root \in Range(PathTo(x, root))
           /\ \A w \in Range(Front(PathTo(x, root))) :
                \E k, h \in Nat : k < h /\ h <= MaxLeaves /\ w = Ascent(x)[k] /\ Ascent(x)[h] = root
<1>1. PICK h \in 0..MaxLeaves : /\ Ascent(x)[h] = root
                                /\ PathTo(x, root) = [k \in 1..h+1 |-> Ascent(x)[k - 1]]
  BY PathEnds
<1> DEFINE s == PathTo(x, root)
<1>2. s \in Seq(Nat) /\ Len(s) = h + 1 /\ DOMAIN s = 1..h+1
  <2>1. h + 1 \in Nat
    OBVIOUS
  <2>2. ASSUME NEW k \in 1..h+1 PROVE Ascent(x)[k - 1] \in Nat
    <3>1. k - 1 \in Nat
      OBVIOUS
    <3> QED
      BY <3>1, AscentIs
  <2> QED
    BY <1>1, <2>1, <2>2
<1>3. \A k \in 1..h+1 : s[k] = Ascent(x)[k - 1]
  BY <1>1
<1> HIDE DEF s
<1>4. h + 1 \in 1..h+1 /\ (h + 1) - 1 = h
  OBVIOUS
<1>5. s[h + 1] = root
  BY <1>1, <1>3, <1>4
<1>6. Last(s) = root /\ root \in Range(s)
  BY <1>2, <1>4, <1>5 DEF Last, Range
<1>7. ASSUME NEW w \in Range(Front(s)) PROVE \E k \in Nat : k < h /\ w = Ascent(x)[k]
  <2>1. Front(s) = SubSeq(s, 1, h) /\ h <= Len(s)
    BY <1>2 DEF Front
  <2>2. Len(SubSeq(s, 1, h)) = h /\ DOMAIN SubSeq(s, 1, h) = 1..h /\ \A i \in 1..h : SubSeq(s, 1, h)[i] = s[i]
    <3>1. h \in Nat /\ h <= Len(s)
      BY <2>1
    <3> QED
      BY <1>2, <3>1
  <2>3. PICK i \in 1..h : w = s[i]
    BY <2>1, <2>2 DEF Range
  <2>4. i \in 1..h+1 /\ i - 1 \in Nat /\ i - 1 < h
    OBVIOUS
  <2> QED
    BY <1>3, <2>3, <2>4
<1>8. h \in Nat /\ h <= MaxLeaves
  OBVIOUS
<1> QED
  BY <1>1, <1>6, <1>7, <1>8 DEF s

\* A commit is for us when its node or that node's sibling is on our way; the node above is too.
LEMMA AboveEntry ==
    ASSUME MaxLeaves \in Nat, NEW n \in Nat \ {0}, n <= MaxLeaves,
           NEW w \in Range(Front(PathTo(0, Root(n)))), NEW t \in {w, Sibling(w)}
    PROVE  /\ Parent(t) \in Nat
           /\ \E k \in 0..MaxLeaves : Ascent(Parent(t))[k] = Root(n)
<1>1. PICK m \in 0..MaxLeaves : Ascent(0)[m] = Root(n)
  <2>1. 0 \in 0..n-1 /\ 2 * 0 = 0
    OBVIOUS
  <2>2. ASSUME NEW i \in 0..n-1 PROVE \E k \in 0..MaxLeaves : Ascent(2 * i)[k] = Root(n)
    BY ClimbsEnd
  <2>3. \E k \in 0..MaxLeaves : Ascent(2 * 0)[k] = Root(n)
    BY <2>1, <2>2
  <2> QED
    BY <2>1, <2>3
<1>2. PICK k, h \in Nat : k < h /\ h <= MaxLeaves /\ w = Ascent(0)[k] /\ Ascent(0)[h] = Root(n)
  <2>1. 0 \in Nat
    OBVIOUS
  <2> QED
    BY <1>1, <2>1, PathNodes
<1>3. ASSUME NEW j \in Nat PROVE TwoTo[j] \in Nat \ {0} /\ TwoTo[j + 1] = 2 * TwoTo[j] /\ Node(0, j) = TwoTo[j] - 1
  BY TwoToIs DEF Node
<1>4. ASSUME NEW j \in Nat, NEW i \in Nat PROVE Ascent(Node(0, j))[i] = Node(0, j + i)
  <2>1. PICK p \in Nat : Ascent(Node(0, j))[i] = Node(p, j + i) /\ p * TwoTo[i] <= 0
    BY AscentNode
  <2>2. ASSUME NEW u \in Nat \ {0}, p * u <= 0 PROVE p = 0
    BY <2>2
  <2> QED
    BY <1>3, <2>1, <2>2
<1>5. Node(0, 0) = 0
  BY <1>3, TwoToIs
<1>6. ASSUME NEW i \in Nat PROVE Ascent(0)[i] = Node(0, i)
  <2>1. Ascent(Node(0, 0))[i] = Node(0, 0 + i)
    BY <1>4
  <2> QED
    BY <1>5, <2>1
<1>7. w = Node(0, k) /\ Root(n) = Node(0, h)
  BY <1>2, <1>6
<1>8. ASSUME NEW q \in Nat, q = 0 \/ q = 1 PROVE Parent(Node(q, k)) = Node(0, k + 1)
  <2>1. q \div 2 = 0
    BY <1>8
  <2> QED
    BY <2>1, NodeParent
<1>9. Node(0, k + 1) \in Nat /\ Level[Node(0, k + 1)] = k + 1
  <2>1. ASSUME NEW j \in Nat PROVE Node(0, j) \in Nat /\ Level[Node(0, j)] = j
    BY NodeLevel
  <2>2. k + 1 \in Nat
    OBVIOUS
  <2> QED
    BY <2>1, <2>2
<1>10. Sibling(w) = Node(1, k)
  <2>1. Parent(w) = Node(0, k + 1)
    BY <1>7, <1>8
  <2>2. Level[Node(0, k + 1)] = k + 1 /\ k + 1 # 0 /\ (k + 1) - 1 = k
    BY <1>9
  <2>3. LeftChild(Node(0, k + 1)) = Node(0, k + 1) - TwoTo[k]
    BY <2>2 DEF LeftChild
  <2>4. RightChild(Node(0, k + 1)) = Node(0, k + 1) + TwoTo[k]
    BY <2>2 DEF RightChild
  <2>5. Node(0, k + 1) = 2 * TwoTo[k] - 1 /\ Node(0, k) = TwoTo[k] - 1 /\ TwoTo[k] \in Nat
    <3>1. k + 1 \in Nat
      OBVIOUS
    <3> QED
      BY <1>3, <3>1
  <2>6. Node(1, k) = 2 * TwoTo[k] + TwoTo[k] - 1
    BY <1>3 DEF Node
  <2>7. LeftChild(Node(0, k + 1)) = Node(0, k) /\ RightChild(Node(0, k + 1)) = Node(1, k)
    BY <2>3, <2>4, <2>5, <2>6
  <2> QED
    BY <1>7, <2>1, <2>7 DEF Sibling
<1>11. Parent(t) = Node(0, k + 1)
  BY <1>7, <1>8, <1>10
<1>12. Ascent(Node(0, k + 1))[h - (k + 1)] = Node(0, h) /\ h - (k + 1) \in 0..MaxLeaves
  <2>1. k + 1 \in Nat /\ h - (k + 1) \in Nat /\ (k + 1) + (h - (k + 1)) = h
    BY <1>2
  <2>2. h - (k + 1) \in 0..MaxLeaves
    BY <1>2, <2>1
  <2> QED
    BY <1>4, <2>1, <2>2
<1> QED
  BY <1>7, <1>11, <1>12, <1>9

\* The secrets of a path, up to the root of the tree as it is then.
LEMMA RecomputeIs ==
    ASSUME MaxLeaves \in Nat, NEW x \in Nat, NEW d, NEW kept, NEW m \in 0..MaxLeaves,
           Ascent(x)[m] = Root(leafCount'), Recompute(x, d, kept)
    PROVE  EpochSecretAtRoot'
<1> DEFINE root == Root(leafCount')
           on == Range(PathTo(x, root))
<1>1. Last(PathTo(x, root)) = root /\ root \in on
  BY PathNodes
<1>2. secretAt' = [n \in on \cup DOMAIN kept |-> IF n \in on THEN <<d, Level[n]>> ELSE kept[n]]
  BY DEF Recompute
<1>3. epochSecret' = secretAt'[root]
  BY <1>1 DEF Recompute
<1> HIDE DEF on
<1>4. root \in DOMAIN secretAt'
  BY <1>1, <1>2
<1> QED
  BY <1>3, <1>4 DEF EpochSecretAtRoot

\* The tree has the owner's leaf at least, and the root's secret is the epoch's.
TreeInv == leafCount \in 1..MaxLeaves /\ EpochSecretAtRoot

\* A commit of our own recomputes the way up from leaf 0.
LEMMA OwnCommit ==
    ASSUME MaxLeaves \in Nat, leafCount' \in 1..MaxLeaves, NEW d, NEW kept, Recompute(0, d, kept)
    PROVE  TreeInv'
<1>1. PICK m \in 0..MaxLeaves : Ascent(0)[m] = Root(leafCount')
  <2>1. ASSUME NEW n \in 1..MaxLeaves PROVE \E k \in 0..MaxLeaves : Ascent(0)[k] = Root(n)
    <3>1. 0 \in 0..n-1 /\ 2 * 0 = 0 /\ n \in Nat \ {0} /\ n <= MaxLeaves
      OBVIOUS
    <3>2. ASSUME NEW i \in 0..n-1 PROVE \E k \in 0..MaxLeaves : Ascent(2 * i)[k] = Root(n)
      BY <3>1, ClimbsEnd
    <3>3. \E k \in 0..MaxLeaves : Ascent(2 * 0)[k] = Root(n)
      BY <3>1, <3>2
    <3> QED
      BY <3>1, <3>3
  <2> QED
    BY <2>1
<1>2. EpochSecretAtRoot'
  <2>1. 0 \in Nat
    OBVIOUS
  <2> QED
    BY <1>1, <2>1, RecomputeIs
<1> QED
  BY <1>2 DEF TreeInv

\* Every step of a garden leaves the tree so.
LEMMA TreeSteps == ASSUME TreeInv, [GardenNext \/ Post]_gardenVars PROVE TreeInv'
<1>1. MaxLeaves \in Nat /\ leafCount \in 1..MaxLeaves
  BY GardenAssumption DEF TreeInv
<1>2. ASSUME UNCHANGED treeVars PROVE TreeInv'
  BY <1>2 DEF treeVars, TreeInv, EpochSecretAtRoot
<1>3. ASSUME NEW m, Subscribe(m) PROVE TreeInv'
  <2>1. CASE leafCount < MaxLeaves
    <3>1. AddLeaf(m)
      BY <1>3, <2>1 DEF Subscribe
    <3>2. leafCount' = leafCount + 1 /\ Recompute(0, treeEpoch', secretAt)
      BY <3>1 DEF AddLeaf
    <3>3. leafCount' \in 1..MaxLeaves
      BY <1>1, <2>1, <3>2
    <3> QED
      BY <1>1, <3>2, <3>3, OwnCommit
  <2>2. CASE ~(leafCount < MaxLeaves)
    BY <1>2, <1>3, <2>2 DEF Subscribe
  <2> QED
    BY <2>1, <2>2
<1>4. ASSUME NEW m, Leave(m) PROVE TreeInv'
  <2>1. CASE UNCHANGED treeVars
    BY <1>2, <2>1
  <2>2. ASSUME NEW i, RemoveLeaf(i), leafCount > 1 PROVE TreeInv'
    <3>1. PICK kept : leafCount' = leafCount - 1 /\ Recompute(0, treeEpoch', kept)
      BY <2>2 DEF RemoveLeaf
    <3>2. leafCount' \in 1..MaxLeaves
      BY <1>1, <2>2, <3>1
    <3> QED
      BY <1>1, <3>1, <3>2, OwnCommit
  <2> QED
    BY <1>4, <2>1, <2>2 DEF Leave
<1>5. ASSUME ProcessCommit PROVE TreeInv'
  <2> DEFINE way == Range(Front(PathTo(0, Root(leafCount))))
  <2>1. PICK t \in 0..2 * MaxLeaves - 2, opens \in BOOLEAN :
           LET ours == \E w \in way : t \in {w, Sibling(w)}
           IN  IF ours /\ opens
               THEN UNCHANGED leafCount /\ Recompute(Parent(t), treeEpoch', secretAt)
               ELSE UNCHANGED <<leafCount, secretAt, epochSecret>>
    BY <1>5 DEF ProcessCommit
  <2> HIDE DEF way
  <2>2. CASE UNCHANGED <<leafCount, secretAt, epochSecret>>
    BY <2>2 DEF TreeInv, EpochSecretAtRoot
  <2>3. ASSUME NEW w \in way, t \in {w, Sibling(w)}, UNCHANGED leafCount,
               Recompute(Parent(t), treeEpoch', secretAt)
        PROVE  TreeInv'
    <3>1. Parent(t) \in Nat /\ \E k \in 0..MaxLeaves : Ascent(Parent(t))[k] = Root(leafCount)
      <4>1. leafCount \in Nat \ {0} /\ leafCount <= MaxLeaves
        BY <1>1
      <4> QED
        BY <1>1, <2>3, <4>1, AboveEntry DEF way
    <3>2. leafCount' = leafCount
      BY <2>3
    <3>3. PICK k \in 0..MaxLeaves : Ascent(Parent(t))[k] = Root(leafCount')
      BY <3>1, <3>2
    <3>4. EpochSecretAtRoot'
      BY <1>1, <2>3, <3>1, <3>3, RecomputeIs
    <3> QED
      BY <1>1, <3>2, <3>4 DEF TreeInv
  <2> QED
    BY <2>1, <2>2, <2>3
<1>6. ASSUME Revoke PROVE TreeInv'
  <2>1. (\E m : Leave(m)) \/ UNCHANGED treeVars
    BY <1>6 DEF Revoke
  <2> QED
    BY <1>2, <1>4, <2>1
<1>7. ASSUME SetPermission \/ Post PROVE TreeInv'
  BY <1>2, <1>7 DEF SetPermission, Post
<1>8. CASE UNCHANGED gardenVars
  BY <1>2, <1>8 DEF gardenVars
<1> QED
  BY <1>3, <1>4, <1>5, <1>6, <1>7, <1>8 DEF GardenNext, OnSubscribe, OnUnsubscribe, Join

\* A new garden's tree is one leaf, its root.
LEMMA TreeStarts == GardenInit => TreeInv
<1> SUFFICES ASSUME GardenInit PROVE TreeInv
  OBVIOUS
<1>1. leafCount = 1 /\ secretAt = [n \in {0} |-> <<0, 0>>] /\ epochSecret = <<0, 0>>
  BY DEF GardenInit
<1>2. Root(leafCount) = 0
  BY <1>1 DEF Root
<1>3. MaxLeaves \in Nat \ {0}
  BY GardenAssumption
<1> QED
  BY <1>1, <1>2, <1>3 DEF TreeInv, EpochSecretAtRoot

\* Whoever joins, leaves or commits, the epoch secret of a garden is the secret at the root of
\* the tree it has then, for any number of leaves (recompute_path and
\* trellis_treekem_process_commit).
THEOREM EpochSecretAtRootHolds == GroupsSpec => []EpochSecretAtRoot
<1>1. GroupsInit => TreeInv
  BY TreeStarts DEF GroupsInit
<1>2. TreeInv /\ [GroupsNext]_groupVars => TreeInv'
  BY PartsStep, TreeSteps
<1>3. TreeInv => EpochSecretAtRoot
  BY DEF TreeInv
<1> QED
  BY <1>1, <1>2, <1>3, PTL DEF GroupsSpec

-----------------------------------------------------------------------------
(* Canopy: an announcement carries the way it went, and a route is an      *)
(* announcement that was heard.                                            *)

Announcement == [origin : Groves, path : Seq(Groves), bridge : Bridges, ttl : Int, stamp : Int]

\* A way to its origin that a bridge made known in the last grove of it.
GoodAnnouncement(a) ==
    /\ a \in Announcement
    /\ a.path \in Seq(Groves) /\ a.path # <<>>
    /\ IsWay(a.path, a.origin)
    /\ a.bridge \in Bridges /\ LastGrove(a.path) \in GrovesOf[a.bridge]

GoodRoute(b, r) ==
    /\ IsWay(r.path, r.target)
    /\ r.next \in Bridges \ {b} /\ LastGrove(r.path) \in GrovesOf[b] \cap GrovesOf[r.next]

RouteInv ==
    /\ DOMAIN routes = Bridges /\ rounds \in [Bridges -> Nat]
    /\ \A a \in announced : GoodAnnouncement(a)
    /\ \A b \in Bridges : \A r \in routes[b] : GoodRoute(b, r)

\* Nothing was announced.
LEMMA RouteInvInit == CanopyInit => RouteInv
BY DEF CanopyInit, RouteInv

\* An announcement of a bridge for one of its groves in another one.
LEMMA OwnAnnouncementIsGood ==
    ASSUME NEW b \in Bridges, NEW i \in GrovesOf[b], NEW j \in GrovesOf[b], i # j,
           NEW n \in Nat, NEW a,
           a = [origin |-> j, path |-> <<i>>, bridge |-> b, ttl |-> DefaultTTL, stamp |-> n + 1]
    PROVE  GoodAnnouncement(a)
<1>1. i \in Groves /\ j \in Groves
  BY DEF Groves
<1>2. a.path \in Seq(Groves) /\ a.path # <<>> /\ Len(a.path) = 1 /\ a.path[1] = i /\ DOMAIN a.path = {1}
  BY <1>1
<1>3. OnPath(a.path) = {i}
  BY <1>2 DEF OnPath
<1>4. Joined(j, i)
  BY DEF Joined
<1>5. IsWay(a.path, a.origin)
  BY <1>2, <1>3, <1>4 DEF IsWay
<1>6. a \in Announcement
  BY <1>1, <1>2, CanopyAssumption DEF Announcement
<1> QED
  BY <1>2, <1>5, <1>6 DEF GoodAnnouncement, LastGrove

\* A way is prolonged by a grove of a bridge whose groves it did not pass before its last
\* one.
LEMMA PassedOnIsWay ==
    ASSUME NEW b \in Bridges, NEW path \in Seq(Groves), path # <<>>, NEW t, NEW g \in GrovesOf[b],
           IsWay(path, t), LastGrove(path) \in GrovesOf[b], ~Looped(b, path),
           g # LastGrove(path), g # t
    PROVE  IsWay(Append(path, g), t)
<1> DEFINE n == Len(path)
           longer == Append(path, g)
<1>1. n \in Nat \ {0} /\ DOMAIN path = 1..n
  BY EmptySeq
<1>2. DOMAIN longer = 1..(n + 1) /\ longer[n + 1] = g /\ \A i \in 1..n : longer[i] = path[i]
  BY <1>1
<1>3. ASSUME NEW i \in 1..n PROVE path[i] # g
  <2>1. CASE i = n
    BY <2>1 DEF LastGrove
  <2>2. CASE i # n
    <3> DEFINE front == SubSeq(path, 1, n - 1)
    <3>1. i \in 1..(n - 1) /\ n > 1
      BY <1>1, <2>2
    <3>2. Len(front) = n - 1 /\ front[i] = path[i]
      BY <1>1, <3>1
    <3>3. path[i] \in OnPath(front)
      BY <3>1, <3>2 DEF OnPath
    <3>4. GrovesOf[b] \cap OnPath(front) = {}
      BY <3>1 DEF Looped
    <3> QED
      BY <3>3, <3>4
  <2> QED
    BY <2>1, <2>2
<1> HIDE DEF longer
<1>4. \A i, j \in DOMAIN longer : i # j => longer[i] # longer[j]
  <2>1. \A i, j \in 1..n : i # j => path[i] # path[j]
    BY <1>1 DEF IsWay
  <2> QED
    BY <1>1, <1>2, <1>3, <2>1
<1>5. Len(longer) = n + 1
  BY <1>1 DEF longer
<1>6. t \notin OnPath(longer)
  <2>1. \A i \in 1..n : path[i] # t
    BY DEF IsWay, OnPath
  <2>2. \A i \in 1..(n + 1) : longer[i] # t
    BY <1>1, <1>2, <2>1
  <2> QED
    BY <1>5, <2>2 DEF OnPath
<1>7. Joined(t, longer[1])
  BY <1>1, <1>2 DEF IsWay
<1>8. ASSUME NEW i \in DOMAIN longer \ {1} PROVE Joined(longer[i - 1], longer[i])
  <2>1. CASE i = n + 1
    <3>1. longer[i - 1] = LastGrove(path) /\ longer[i] = g
      BY <1>1, <1>2, <2>1 DEF LastGrove
    <3> QED
      BY <3>1 DEF Joined
  <2>2. CASE i # n + 1
    <3>1. i \in 1..n \ {1} /\ i - 1 \in 1..n
      BY <1>1, <1>2, <2>2
    <3>2. Joined(path[i - 1], path[i])
      BY <1>1, <3>1 DEF IsWay
    <3> QED
      BY <1>2, <3>1, <3>2
  <2> QED
    BY <2>1, <2>2
<1> QED
  BY <1>4, <1>6, <1>7, <1>8 DEF IsWay, longer

\* The tables after a route hold it and what they held, and nothing else.
LEMMA TablesHoldNoMore ==
    ASSUME NEW rs, NEW r, NEW t \in Tables(rs, r)
    PROVE  \A x \in t : x \in rs \/ x = r
BY DEF Tables

\* What a bridge passes on (trellis_canopy_on_announce) prolongs a way by a grove of its own,
\* and what it keeps in its table is what it heard.
LEMMA RouteInvNext == RouteInv /\ [CanopyNext]_canopyVars => RouteInv'
<1> SUFFICES ASSUME RouteInv, [CanopyNext]_canopyVars PROVE RouteInv'
  OBVIOUS
<1>1. ASSUME UNCHANGED canopyRoutes PROVE RouteInv'
  BY <1>1 DEF canopyRoutes, RouteInv
<1>2. ASSUME NEW b \in Announcers, Announce(b) PROVE RouteInv'
  <2>1. b \in Bridges
    BY CanopyAssumption
  <2>2. \A a \in announced' : a \in announced \/ \E i, j \in GrovesOf[b] :
            i # j /\ a = [origin |-> j, path |-> <<i>>, bridge |-> b, ttl |-> DefaultTTL,
                          stamp |-> rounds[b] + 1]
    BY <1>2 DEF Announce
  <2>3. rounds[b] \in Nat
    BY <2>1 DEF RouteInv
  <2>4. \A a \in announced' : GoodAnnouncement(a)
    BY <2>1, <2>2, <2>3, OwnAnnouncementIsGood DEF RouteInv
  <2> QED
    BY <1>2, <2>1, <2>4 DEF Announce, RouteInv
<1>3. ASSUME NEW b \in Bridges, OnAnnounce(b) PROVE RouteInv'
  <2>1. PICK a \in announced :
            /\ a.bridge # b /\ LastGrove(a.path) \in GrovesOf[b]
            /\ ~Looped(b, a.path)
            /\ \E t \in Tables(routes[b], RouteOf(a)) : routes' = [routes EXCEPT ![b] = t]
            /\ announced' = announced \cup PassedOn(b, a)
    BY <1>3 DEF OnAnnounce
  <2>2. GoodAnnouncement(a)
    BY DEF RouteInv
  <2>3. GoodRoute(b, RouteOf(a))
    BY <2>1, <2>2 DEF GoodAnnouncement, GoodRoute, RouteOf
  <2>4. ASSUME NEW x \in PassedOn(b, a) PROVE GoodAnnouncement(x)
    <3>1. PICK g \in GrovesOf[b] :
              /\ g # LastGrove(a.path) /\ g # a.origin
              /\ x = [a EXCEPT !.path = Append(a.path, g), !.bridge = b, !.ttl = a.ttl - 1]
      BY DEF PassedOn
    <3>2. IsWay(Append(a.path, g), a.origin)
      BY <2>1, <2>2, <3>1, PassedOnIsWay DEF GoodAnnouncement
    <3>3. g \in Groves /\ a.path \in Seq(Groves)
      BY <2>2 DEF Groves, GoodAnnouncement
    <3>4. /\ Append(a.path, g) \in Seq(Groves) /\ Append(a.path, g) # <<>>
          /\ LastGrove(Append(a.path, g)) = g
      BY <3>3 DEF LastGrove
    <3>5. /\ x.path = Append(a.path, g) /\ x.origin = a.origin /\ x.bridge = b
          /\ x \in Announcement
      <4>1. a \in Announcement
        BY <2>2 DEF GoodAnnouncement
      <4>2. a.ttl - 1 \in Int
        BY <4>1 DEF Announcement
      <4> DEFINE p == Append(a.path, g)
                 ttl == a.ttl - 1
      <4>3. p \in Seq(Groves) /\ ttl \in Int /\ x = [a EXCEPT !.path = p, !.bridge = b, !.ttl = ttl]
        BY <3>1, <3>4, <4>2
      <4> HIDE DEF p, ttl
      <4>4. x.path = p /\ x.origin = a.origin /\ x.bridge = b /\ x \in Announcement
        BY <4>1, <4>3 DEF Announcement
      <4> QED
        BY <4>4 DEF p
    <3> QED
      BY <3>2, <3>4, <3>5 DEF GoodAnnouncement
  <2>5. PICK t \in Tables(routes[b], RouteOf(a)) : routes' = [routes EXCEPT ![b] = t]
    BY <2>1
  <2>6. \A r \in t : GoodRoute(b, r)
    <3>1. \A r \in t : r \in routes[b] \/ r = RouteOf(a)
      BY <2>5, TablesHoldNoMore
    <3> QED
      BY <2>3, <3>1 DEF RouteInv
  <2>7. rounds' = rounds
    BY <1>3 DEF OnAnnounce
  <2> QED
    BY <2>1, <2>4, <2>5, <2>6, <2>7 DEF RouteInv
<1>4. ASSUME NEW b \in Bridges, DropRoute(b) PROVE RouteInv'
  <2>1. PICK r \in routes[b] : routes' = [routes EXCEPT ![b] = @ \ {r}]
    BY <1>4 DEF DropRoute
  <2>2. announced' = announced /\ rounds' = rounds
    BY <1>4 DEF DropRoute
  <2> QED
    BY <2>1, <2>2 DEF RouteInv
<1>5. ASSUME NEW b \in Bridges, DestroyCircuit(b) \/ \E t \in Groves : CreateCanopyCircuit(b, t)
      PROVE  UNCHANGED canopyRoutes
  BY <1>5 DEF DestroyCircuit, CreateCanopyCircuit
<1>6. ASSUME NEW b \in Bridges, NEW from \in Bridges \ {b}, OnCircuitCreate(from, b) \/ OnCircuitDestroy(from, b)
      PROVE  UNCHANGED canopyRoutes
  BY <1>6 DEF OnCircuitCreate, OnCircuitDestroy
<1>7. CASE UNCHANGED canopyVars
  BY <1>1, <1>7 DEF canopyVars
<1> QED
  BY <1>1, <1>2, <1>3, <1>4, <1>5, <1>6, <1>7 DEF CanopyNext

-----------------------------------------------------------------------------
(* Circuits: the bridges that hold an entry for a circuit lie one behind   *)
(* the other on the way its creation took.  The creation travels ahead of  *)
(* them and, once the origin gave the circuit up, its destruction follows  *)
(* behind.                                                                 *)

CircuitMessage ==
    [kind : {"create"}, id : Nat, target : Groves, dest : Bridges] \cup [kind : {"destroy"}, id : Nat]
WireState == [Bridges \X Bridges -> Seq(CircuitMessage)]

\* The k-th message on the way from x to y is of this kind, about circuit id.
Carries(ws, x, y, k, id, what) ==
    /\ k \in 1..Len(ws[<<x, y>>])
    /\ ws[<<x, y>>][k].id = id /\ ws[<<x, y>>][k].kind = what

NoneOf(ws, id, what) == \A x, y \in Bridges, k \in Nat : ~Carries(ws, x, y, k, id, what)
SomeOf(ws, id, what, u, v) == \E k \in Nat : Carries(ws, u, v, k, id, what)
\* No more than one, and if so between u and v.
OneBetween(ws, id, what, u, v) ==
    /\ \A x, y \in Bridges, k \in Nat : Carries(ws, x, y, k, id, what) => x = u /\ y = v
    /\ \A k, l \in Nat : Carries(ws, u, v, k, id, what) /\ Carries(ws, u, v, l, id, what) => k = l
CreateAhead(ws, id, u, v) ==
    \A k, l \in Nat : Carries(ws, u, v, k, id, "create") /\ Carries(ws, u, v, l, id, "destroy") => k < l

\* The first message from f to t is taken; a message is added there.
Takes(ws, vs, f, t) ==
    \A x, y \in Bridges, k \in Nat, id \in Nat, what \in {"create", "destroy"} :
        Carries(vs, x, y, k, id, what) <=>
            IF x = f /\ y = t THEN k > 0 /\ Carries(ws, x, y, k + 1, id, what)
            ELSE Carries(ws, x, y, k, id, what)
Adds(ws, vs, f, t, m) ==
    \A x, y \in Bridges, k \in Nat, id \in Nat, what \in {"create", "destroy"} :
        Carries(vs, x, y, k, id, what) <=>
            \/ Carries(ws, x, y, k, id, what)
            \/ x = f /\ y = t /\ k = Len(ws[<<f, t>>]) + 1 /\ m.id = id /\ m.kind = what

\* What taking the first message does to the others.
LEMMA ReceivedTakes ==
    ASSUME NEW ws \in WireState, NEW f \in Bridges, NEW t \in Bridges, ws[<<f, t>>] # <<>>, NEW vs,
           vs = [ws EXCEPT ![<<f, t>>] = Tail(@)]
    PROVE  vs \in WireState /\ Takes(ws, vs, f, t)
<1>1. /\ ws[<<f, t>>] \in Seq(CircuitMessage) /\ <<f, t>> \in Bridges \X Bridges
      /\ Len(ws[<<f, t>>]) \in Nat \ {0}
  BY DEF WireState
<1>2. /\ Tail(ws[<<f, t>>]) \in Seq(CircuitMessage)
      /\ Len(Tail(ws[<<f, t>>])) = Len(ws[<<f, t>>]) - 1
      /\ \A i \in 1..(Len(ws[<<f, t>>]) - 1) : Tail(ws[<<f, t>>])[i] = ws[<<f, t>>][i + 1]
  BY <1>1, HeadTailProperties
<1>3. vs \in WireState /\ vs[<<f, t>>] = Tail(ws[<<f, t>>])
  BY <1>1, <1>2 DEF WireState
<1>4. ASSUME NEW x \in Bridges, NEW y \in Bridges, ~(x = f /\ y = t) PROVE vs[<<x, y>>] = ws[<<x, y>>]
  <2>1. <<x, y>> # <<f, t>> /\ <<x, y>> \in Bridges \X Bridges
    BY <1>4
  <2> QED
    BY <2>1 DEF WireState
<1>5. ASSUME NEW k \in Nat, NEW id \in Nat, NEW what \in {"create", "destroy"}
      PROVE  Carries(vs, f, t, k, id, what) <=> k > 0 /\ Carries(ws, f, t, k + 1, id, what)
  <2>1. k \in 1..(Len(ws[<<f, t>>]) - 1) <=> (k > 0 /\ k + 1 \in 1..Len(ws[<<f, t>>]))
    BY <1>1
  <2>2. k \in 1..(Len(ws[<<f, t>>]) - 1) => vs[<<f, t>>][k] = ws[<<f, t>>][k + 1]
    BY <1>2, <1>3
  <2>3. Len(vs[<<f, t>>]) = Len(ws[<<f, t>>]) - 1
    BY <1>2, <1>3
  <2> QED
    BY <2>1, <2>2, <2>3 DEF Carries
<1>6. ASSUME NEW x \in Bridges, NEW y \in Bridges, NEW k \in Nat, NEW id \in Nat,
             NEW what \in {"create", "destroy"}, ~(x = f /\ y = t)
      PROVE  Carries(vs, x, y, k, id, what) <=> Carries(ws, x, y, k, id, what)
  BY <1>4, <1>6 DEF Carries
<1>7. ASSUME NEW x \in Bridges, NEW y \in Bridges, NEW k \in Nat, NEW id \in Nat,
             NEW what \in {"create", "destroy"}
      PROVE  Carries(vs, x, y, k, id, what) <=>
                IF x = f /\ y = t THEN k > 0 /\ Carries(ws, x, y, k + 1, id, what)
                ELSE Carries(ws, x, y, k, id, what)
  <2>1. CASE x = f /\ y = t
    BY <1>5, <2>1
  <2>2. CASE ~(x = f /\ y = t)
    BY <1>6, <2>2
  <2> QED
    BY <2>1, <2>2
<1>8. Takes(ws, vs, f, t)
  BY <1>7, Zenon DEF Takes
<1> QED
  BY <1>3, <1>8

\* What adding a message does.
LEMMA SentAdds ==
    ASSUME NEW ws \in WireState, NEW f \in Bridges, NEW t \in Bridges, NEW m \in CircuitMessage, NEW vs,
           vs = [ws EXCEPT ![<<f, t>>] = Append(@, m)]
    PROVE  vs \in WireState /\ Adds(ws, vs, f, t, m)
<1>1. ws[<<f, t>>] \in Seq(CircuitMessage) /\ <<f, t>> \in Bridges \X Bridges
  BY DEF WireState
<1> DEFINE n == Len(ws[<<f, t>>])
<1>2. /\ n \in Nat /\ Append(ws[<<f, t>>], m) \in Seq(CircuitMessage)
      /\ Len(Append(ws[<<f, t>>], m)) = n + 1
      /\ \A i \in 1..n : Append(ws[<<f, t>>], m)[i] = ws[<<f, t>>][i]
      /\ Append(ws[<<f, t>>], m)[n + 1] = m
  BY <1>1, AppendProperties
<1>3. vs \in WireState /\ vs[<<f, t>>] = Append(ws[<<f, t>>], m)
  BY <1>1, <1>2 DEF WireState
<1>4. ASSUME NEW x \in Bridges, NEW y \in Bridges, ~(x = f /\ y = t) PROVE vs[<<x, y>>] = ws[<<x, y>>]
  <2>1. <<x, y>> # <<f, t>> /\ <<x, y>> \in Bridges \X Bridges
    BY <1>4
  <2> QED
    BY <2>1 DEF WireState
<1>5. ASSUME NEW k \in Nat, NEW id \in Nat, NEW what \in {"create", "destroy"}
      PROVE  Carries(vs, f, t, k, id, what) <=>
                \/ Carries(ws, f, t, k, id, what)
                \/ k = n + 1 /\ m.id = id /\ m.kind = what
  <2>1. k \in 1..(n + 1) <=> (k \in 1..n \/ k = n + 1)
    BY <1>2
  <2>2. n + 1 \notin 1..n
    BY <1>2
  <2> HIDE DEF n
  <2> QED
    BY <1>2, <1>3, <2>1, <2>2 DEF Carries, n
<1>6. ASSUME NEW x \in Bridges, NEW y \in Bridges, NEW k \in Nat, NEW id \in Nat,
             NEW what \in {"create", "destroy"}, ~(x = f /\ y = t)
      PROVE  Carries(vs, x, y, k, id, what) <=> Carries(ws, x, y, k, id, what)
  BY <1>4, <1>6 DEF Carries
<1>7. ASSUME NEW x \in Bridges, NEW y \in Bridges, NEW k \in Nat, NEW id \in Nat,
             NEW what \in {"create", "destroy"}
      PROVE  Carries(vs, x, y, k, id, what) <=>
                \/ Carries(ws, x, y, k, id, what)
                \/ x = f /\ y = t /\ k = n + 1 /\ m.id = id /\ m.kind = what
  <2>1. CASE x = f /\ y = t
    BY <1>5, <2>1
  <2>2. CASE ~(x = f /\ y = t)
    BY <1>6, <2>2
  <2> QED
    BY <2>1, <2>2
<1>8. Adds(ws, vs, f, t, m)
  BY <1>7, Zenon DEF Adds
<1> QED
  BY <1>3, <1>8

\* There is at most one of a kind after another one was taken or added.
LEMMA OneStays ==
    ASSUME NEW ws, NEW vs, NEW f \in Bridges, NEW t \in Bridges, NEW id \in Nat,
           NEW what \in {"create", "destroy"}, NEW u \in Bridges, NEW v \in Bridges,
           OneBetween(ws, id, what, u, v),
           \/ Takes(ws, vs, f, t)
           \/ \E m : Adds(ws, vs, f, t, m) /\ ~(m.id = id /\ m.kind = what)
    PROVE  OneBetween(vs, id, what, u, v)
<1>1. CASE Takes(ws, vs, f, t)
  <2>1. ASSUME NEW x \in Bridges, NEW y \in Bridges, NEW k \in Nat, Carries(vs, x, y, k, id, what)
        PROVE  x = u /\ y = v
    BY <1>1, <2>1 DEF Takes, OneBetween
  <2>2. ASSUME NEW k \in Nat, NEW l \in Nat, Carries(vs, u, v, k, id, what), Carries(vs, u, v, l, id, what)
        PROVE  k = l
    <3>1. CASE u = f /\ v = t
      <4>1. Carries(ws, u, v, k + 1, id, what) /\ Carries(ws, u, v, l + 1, id, what)
        BY <1>1, <2>2, <3>1 DEF Takes
      <4>2. k + 1 \in Nat /\ l + 1 \in Nat
        OBVIOUS
      <4>3. k + 1 = l + 1
        BY <4>1, <4>2 DEF OneBetween
      <4> QED
        BY <4>3
    <3>2. CASE ~(u = f /\ v = t)
      BY <1>1, <2>2, <3>2 DEF Takes, OneBetween
    <3> QED
      BY <3>1, <3>2
  <2> QED
    BY <2>1, <2>2 DEF OneBetween
<1>2. CASE \E m : Adds(ws, vs, f, t, m) /\ ~(m.id = id /\ m.kind = what)
  <2>1. \A x, y \in Bridges, k \in Nat : Carries(vs, x, y, k, id, what) <=> Carries(ws, x, y, k, id, what)
    BY <1>2 DEF Adds
  <2> QED
    BY <2>1 DEF OneBetween
<1> QED
  BY <1>1, <1>2

\* There is none of a kind after another one was added or any was taken.
LEMMA NoneStays ==
    ASSUME NEW ws, NEW vs, NEW f \in Bridges, NEW t \in Bridges, NEW id \in Nat,
           NEW what \in {"create", "destroy"}, NoneOf(ws, id, what),
           \/ Takes(ws, vs, f, t)
           \/ \E m : Adds(ws, vs, f, t, m) /\ ~(m.id = id /\ m.kind = what)
    PROVE  NoneOf(vs, id, what)
<1>1. CASE Takes(ws, vs, f, t)
  <2> SUFFICES ASSUME NEW x \in Bridges, NEW y \in Bridges, NEW k \in Nat PROVE ~Carries(vs, x, y, k, id, what)
    BY DEF NoneOf
  <2>1. k + 1 \in Nat
    OBVIOUS
  <2> QED
    BY <1>1, <2>1 DEF Takes, NoneOf
<1>2. CASE \E m : Adds(ws, vs, f, t, m) /\ ~(m.id = id /\ m.kind = what)
  BY <1>2 DEF Adds, NoneOf
<1> QED
  BY <1>1, <1>2

\* The only one of a kind is taken.
LEMMA LastIsTaken ==
    ASSUME NEW ws, NEW vs, NEW f \in Bridges, NEW t \in Bridges, NEW id \in Nat,
           NEW what \in {"create", "destroy"},
           OneBetween(ws, id, what, f, t), Takes(ws, vs, f, t), Carries(ws, f, t, 1, id, what)
    PROVE  NoneOf(vs, id, what)
<1>1. ASSUME NEW x \in Bridges, NEW y \in Bridges, NEW k \in Nat, Carries(vs, x, y, k, id, what) PROVE FALSE
  <2>1. CASE x = f /\ y = t
    <3>1. k > 0 /\ Carries(ws, f, t, k + 1, id, what) /\ k + 1 \in Nat
      BY <1>1, <2>1 DEF Takes
    <3>2. k + 1 = 1
      BY <3>1 DEF OneBetween
    <3> QED
      BY <3>1, <3>2
  <2>2. CASE ~(x = f /\ y = t)
    BY <1>1, <2>2 DEF Takes, OneBetween
  <2> QED
    BY <2>1, <2>2
<1> QED
  BY <1>1 DEF NoneOf

\* The first of a kind is added.
LEMMA FirstIsAdded ==
    ASSUME NEW ws \in WireState, NEW vs, NEW f \in Bridges, NEW t \in Bridges, NEW id \in Nat,
           NEW what \in {"create", "destroy"}, NoneOf(ws, id, what),
           NEW m, Adds(ws, vs, f, t, m), m.id = id, m.kind = what
    PROVE  OneBetween(vs, id, what, f, t) /\ SomeOf(vs, id, what, f, t)
<1>1. Len(ws[<<f, t>>]) + 1 \in Nat
  BY DEF WireState
<1>2. \A x, y \in Bridges, k \in Nat :
        Carries(vs, x, y, k, id, what) <=> x = f /\ y = t /\ k = Len(ws[<<f, t>>]) + 1
  BY DEF Adds, NoneOf
<1> QED
  BY <1>1, <1>2 DEF OneBetween, SomeOf

\* One stays where it is unless it is taken.
LEMMA SomeStays ==
    ASSUME NEW ws, NEW vs, NEW f \in Bridges, NEW t \in Bridges, NEW id \in Nat,
           NEW what \in {"create", "destroy"}, NEW u \in Bridges, NEW v \in Bridges,
           SomeOf(ws, id, what, u, v),
           \/ Takes(ws, vs, f, t) /\ ~Carries(ws, f, t, 1, id, what)
           \/ \E m : Adds(ws, vs, f, t, m)
    PROVE  SomeOf(vs, id, what, u, v)
<1>1. PICK k \in Nat : Carries(ws, u, v, k, id, what)
  BY DEF SomeOf
<1>2. CASE Takes(ws, vs, f, t) /\ ~Carries(ws, f, t, 1, id, what)
  <2>1. CASE u = f /\ v = t
    <3>1. k - 1 \in Nat /\ k - 1 > 0 /\ (k - 1) + 1 = k
      <4>1. k # 1 /\ k > 0
        BY <1>1, <1>2, <2>1 DEF Carries
      <4> QED
        BY <4>1
    <3>2. Carries(vs, u, v, k - 1, id, what)
      BY <1>1, <1>2, <2>1, <3>1 DEF Takes
    <3> QED
      BY <3>1, <3>2 DEF SomeOf
  <2>2. CASE ~(u = f /\ v = t)
    BY <1>1, <1>2, <2>2 DEF Takes, SomeOf
  <2> QED
    BY <2>1, <2>2
<1>3. CASE \E m : Adds(ws, vs, f, t, m)
  BY <1>1, <1>3 DEF Adds, SomeOf
<1> QED
  BY <1>2, <1>3

\* The creation stays ahead, whatever is taken, or added about other circuits, and so it is
\* of a destruction that is added.
LEMMA AheadStays ==
    ASSUME NEW ws \in WireState, NEW vs, NEW f \in Bridges, NEW t \in Bridges, NEW id \in Nat,
           NEW u \in Bridges, NEW v \in Bridges,
           \/ CreateAhead(ws, id, u, v) /\ Takes(ws, vs, f, t)
           \/ CreateAhead(ws, id, u, v) /\ \E m : Adds(ws, vs, f, t, m) /\ m.id # id
           \/ NoneOf(ws, id, "destroy") /\ \E m : Adds(ws, vs, f, t, m) /\ m.kind = "destroy"
    PROVE  CreateAhead(vs, id, u, v)
<1> SUFFICES ASSUME NEW k \in Nat, NEW l \in Nat, Carries(vs, u, v, k, id, "create"),
                    Carries(vs, u, v, l, id, "destroy")
             PROVE  k < l
  BY DEF CreateAhead
<1>1. CASE CreateAhead(ws, id, u, v) /\ Takes(ws, vs, f, t)
  <2>1. CASE u = f /\ v = t
    <3>1. Carries(ws, u, v, k + 1, id, "create") /\ Carries(ws, u, v, l + 1, id, "destroy")
      BY <1>1, <2>1 DEF Takes
    <3>2. k + 1 \in Nat /\ l + 1 \in Nat
      OBVIOUS
    <3>3. k + 1 < l + 1
      BY <1>1, <3>1, <3>2 DEF CreateAhead
    <3> QED
      BY <3>3
  <2>2. CASE ~(u = f /\ v = t)
    BY <1>1, <2>2 DEF Takes, CreateAhead
  <2> QED
    BY <2>1, <2>2
<1>2. CASE CreateAhead(ws, id, u, v) /\ \E m : Adds(ws, vs, f, t, m) /\ m.id # id
  BY <1>2 DEF Adds, CreateAhead
<1>3. CASE NoneOf(ws, id, "destroy") /\ \E m : Adds(ws, vs, f, t, m) /\ m.kind = "destroy"
  <2>1. PICK m : Adds(ws, vs, f, t, m) /\ m.kind = "destroy"
    BY <1>3
  <2>2. u = f /\ v = t /\ l = Len(ws[<<u, v>>]) + 1
    BY <1>3, <2>1 DEF Adds, NoneOf
  <2>3. Carries(ws, u, v, k, id, "create")
    BY <2>1 DEF Adds
  <2>4. k <= Len(ws[<<u, v>>]) /\ Len(ws[<<u, v>>]) \in Nat
    BY <2>3 DEF Carries, WireState
  <2> QED
    BY <2>2, <2>4
<1> QED
  BY <1>1, <1>2, <1>3

CircuitEntry == [id : Nat, source : Bridges, next : Bridges, terminal : BOOLEAN]
EntriesState == [Bridges -> SUBSET CircuitEntry]

NoEntry(cs, id) == \A b \in Bridges : \A c \in cs[b] : c.id # id
OneEach(cs) == \A b \in Bridges : \A c, d \in cs[b] : c.id = d.id => c = d
SameEntries(cs, ds, id) == \A b \in Bridges : \A c \in CircuitEntry : c.id = id => (c \in cs[b] <=> c \in ds[b])
OthersSame(cs, ds, id0) == \A id \in Nat : id # id0 => SameEntries(cs, ds, id)
\* A step of the wires that is not about circuit id.
LeavesAlone(ws, vs, id) ==
    \E f, t \in Bridges :
        \/ Takes(ws, vs, f, t) /\ \A what \in {"create", "destroy"} : ~Carries(ws, f, t, 1, id, what)
        \/ \E m : Adds(ws, vs, f, t, m) /\ m.id # id
EntryAdded(cs, ds, b, c) == ds = [cs EXCEPT ![b] = @ \cup {c}] /\ \A d \in cs[b] : d.id # c.id
EntryGone(cs, ds, b, c) == ds = [cs EXCEPT ![b] = @ \ {c}]

\* The entries of a circuit are those of the bridges p[2], p[3], ... but for the last bridge
\* of p, to which the creation is on its way, and the one before them.
EntriesLie(cs, id, p) ==
    /\ \A i \in 2..(Len(p) - 1) : \E c \in cs[p[i]] : c.id = id /\ c.source = p[i - 1] /\ c.next = p[i + 1]
    /\ \A b \in Bridges : \A c \in cs[b] : c.id = id => \E i \in 2..(Len(p) - 1) : b = p[i]
    /\ \A i, j \in 2..(Len(p) - 1) : p[i] = p[j] => i = j
CreateLeads(ws, id, u, v) == OneBetween(ws, id, "create", u, v) /\ (NoneOf(ws, id, "create") \/ u # v)
DestroyFollows(ws, ts, id, p) ==
    \/ /\ id \in ts /\ p[1] # p[2]
       /\ OneBetween(ws, id, "destroy", p[1], p[2]) /\ SomeOf(ws, id, "destroy", p[1], p[2])
       /\ Len(p) = 2 => CreateAhead(ws, id, p[1], p[2])
    \/ /\ id \notin ts /\ NoneOf(ws, id, "destroy")
       /\ Len(p) >= 3 /\ p[1] = p[2] /\ p[2] # p[3]
Under(cs, ws, ts, id, p) ==
    /\ p \in Seq(Bridges) /\ Len(p) >= 2
    /\ EntriesLie(cs, id, p)
    /\ CreateLeads(ws, id, p[Len(p) - 1], p[Len(p)])
    /\ DestroyFollows(ws, ts, id, p)
Over(cs, ws, ts, id) == id \in ts /\ NoEntry(cs, id) /\ NoneOf(ws, id, "create")
Known(cs, ws, ts, id) == Over(cs, ws, ts, id) \/ \E p \in Seq(Bridges) : Under(cs, ws, ts, id, p)
Unused(cs, ws, id) == NoEntry(cs, id) /\ NoneOf(ws, id, "create") /\ NoneOf(ws, id, "destroy")

\* The ends of a way are bridges.
LEMMA WayEnds ==
    ASSUME NEW p \in Seq(Bridges), Len(p) >= 2
    PROVE  /\ Len(p) \in Nat /\ p[1] \in Bridges /\ p[2] \in Bridges
           /\ p[Len(p) - 1] \in Bridges /\ p[Len(p)] \in Bridges
<1>1. Len(p) \in Nat /\ \A i \in 1..Len(p) : p[i] \in Bridges
  OBVIOUS
<1>2. {1, 2, Len(p) - 1, Len(p)} \subseteq 1..Len(p)
  BY <1>1
<1> QED
  BY <1>1, <1>2

\* A step about other circuits leaves a circuit under way, over or unused.
LEMMA OthersStay ==
    ASSUME NEW cs \in EntriesState, NEW ds \in EntriesState, NEW ws \in WireState, NEW vs,
           NEW id \in Nat, NEW ts, NEW us,
           SameEntries(cs, ds, id), id \in ts <=> id \in us, LeavesAlone(ws, vs, id)
    PROVE  /\ Known(cs, ws, ts, id) => Known(ds, vs, us, id)
           /\ Unused(cs, ws, id) => Unused(ds, vs, id)
<1>0. PICK f \in Bridges, t \in Bridges :
        \/ Takes(ws, vs, f, t) /\ \A what \in {"create", "destroy"} : ~Carries(ws, f, t, 1, id, what)
        \/ \E m : Adds(ws, vs, f, t, m) /\ m.id # id
  BY DEF LeavesAlone
<1>1. /\ f \in Bridges /\ t \in Bridges
      /\ \/ Takes(ws, vs, f, t)
         \/ \E m : Adds(ws, vs, f, t, m) /\ m.id # id
  BY <1>0
<1>2. ASSUME NEW what \in {"create", "destroy"}, NoneOf(ws, id, what) PROVE NoneOf(vs, id, what)
  BY <1>1, <1>2, NoneStays
<1>3. ASSUME NEW what \in {"create", "destroy"}, NEW u \in Bridges, NEW v \in Bridges,
             OneBetween(ws, id, what, u, v)
      PROVE  OneBetween(vs, id, what, u, v)
  <2>1. CASE Takes(ws, vs, f, t)
    BY <1>1, <1>3, <2>1, OneStays
  <2>2. CASE \E m : Adds(ws, vs, f, t, m) /\ m.id # id
    <3>1. \A x, y \in Bridges, k \in Nat : Carries(vs, x, y, k, id, what) <=> Carries(ws, x, y, k, id, what)
      BY <2>2 DEF Adds
    <3> QED
      BY <1>3, <3>1 DEF OneBetween
  <2> QED
    BY <1>1, <2>1, <2>2
<1>4. NoEntry(cs, id) => NoEntry(ds, id)
  BY DEF NoEntry, SameEntries, EntriesState
<1>5. Unused(cs, ws, id) => Unused(ds, vs, id)
  BY <1>2, <1>4 DEF Unused
<1>6. Over(cs, ws, ts, id) => Over(ds, vs, us, id)
  BY <1>2, <1>4 DEF Over
<1>7. ASSUME NEW p \in Seq(Bridges), Under(cs, ws, ts, id, p) PROVE Under(ds, vs, us, id, p)
  <2>1. /\ Len(p) >= 2 /\ EntriesLie(cs, id, p)
        /\ CreateLeads(ws, id, p[Len(p) - 1], p[Len(p)]) /\ DestroyFollows(ws, ts, id, p)
    BY <1>7 DEF Under
  <2>2. /\ p[1] \in Bridges /\ p[2] \in Bridges /\ p[Len(p) - 1] \in Bridges /\ p[Len(p)] \in Bridges
        /\ Len(p) \in Nat
    BY <2>1, WayEnds
  <2>3. EntriesLie(ds, id, p)
    <3>1. ASSUME NEW i \in 2..(Len(p) - 1)
          PROVE  \E c \in ds[p[i]] : c.id = id /\ c.source = p[i - 1] /\ c.next = p[i + 1]
      <4>1. p[i] \in Bridges
        BY <2>2
      <4>2. PICK c \in cs[p[i]] : c.id = id /\ c.source = p[i - 1] /\ c.next = p[i + 1]
        BY <2>1 DEF EntriesLie
      <4>3. c \in ds[p[i]]
        BY <4>1, <4>2 DEF SameEntries, EntriesState
      <4> QED
        BY <4>2, <4>3
    <3>2. ASSUME NEW b \in Bridges, NEW c \in ds[b], c.id = id PROVE \E i \in 2..(Len(p) - 1) : b = p[i]
      <4>1. c \in cs[b]
        BY <3>2 DEF SameEntries, EntriesState
      <4> QED
        BY <2>1, <3>2, <4>1 DEF EntriesLie
    <3> QED
      BY <2>1, <3>1, <3>2 DEF EntriesLie
  <2>4. CreateLeads(vs, id, p[Len(p) - 1], p[Len(p)])
    <3>1. /\ OneBetween(ws, id, "create", p[Len(p) - 1], p[Len(p)])
          /\ NoneOf(ws, id, "create") \/ p[Len(p) - 1] # p[Len(p)]
      BY <2>1 DEF CreateLeads
    <3>2. OneBetween(vs, id, "create", p[Len(p) - 1], p[Len(p)])
      BY <2>2, <3>1, <1>3
    <3> QED
      BY <1>2, <3>1, <3>2 DEF CreateLeads
  <2>5. CASE id \notin ts
    BY <1>2, <2>1, <2>3, <2>4, <2>5 DEF Under, DestroyFollows
  <2>6. CASE id \in ts
    <3>1. /\ p[1] # p[2] /\ OneBetween(ws, id, "destroy", p[1], p[2])
          /\ SomeOf(ws, id, "destroy", p[1], p[2]) /\ (Len(p) = 2 => CreateAhead(ws, id, p[1], p[2]))
      BY <2>1, <2>6 DEF DestroyFollows
    <3>2. OneBetween(vs, id, "destroy", p[1], p[2])
      BY <2>2, <3>1, <1>3
    <3>3. SomeOf(vs, id, "destroy", p[1], p[2])
      BY <1>0, <2>2, <3>1, SomeStays
    <3>4. Len(p) = 2 => CreateAhead(vs, id, p[1], p[2])
      BY <1>1, <2>2, <3>1, AheadStays
    <3> QED
      BY <2>1, <2>3, <2>4, <2>6, <3>1, <3>2, <3>3, <3>4 DEF Under, DestroyFollows
  <2> QED
    BY <2>5, <2>6
<1> QED
  BY <1>5, <1>6, <1>7 DEF Known

\* A circuit that is created has the entry of its origin and its creation ahead.
LEMMA WayBegins ==
    ASSUME NEW cs \in EntriesState, NEW ws \in WireState, NEW vs, NEW b \in Bridges, NEW n \in Bridges,
           b # n, NEW id \in Nat, NEW ts, id \notin ts, Unused(cs, ws, id),
           NEW c \in CircuitEntry, c.id = id, c.source = b, c.next = n,
           NEW ds, ds = [cs EXCEPT ![b] = @ \cup {c}],
           NEW m, Adds(ws, vs, b, n, m), m.id = id, m.kind = "create"
    PROVE  Under(ds, vs, ts, id, <<b, b, n>>)
<1> DEFINE p == <<b, b, n>>
<1>1. p \in Seq(Bridges) /\ Len(p) = 3 /\ p[1] = b /\ p[2] = b /\ p[3] = n
  OBVIOUS
<1> HIDE DEF p
<1>2. 2..(Len(p) - 1) = {2} /\ p[Len(p) - 1] = b /\ p[Len(p)] = n
  BY <1>1
<1>3. EntriesLie(ds, id, p)
  <2>1. c \in ds[b] /\ p[2 - 1] = b /\ p[2 + 1] = n
    BY <1>1 DEF EntriesState
  <2>2. ASSUME NEW x \in Bridges, NEW d \in ds[x], d.id = id PROVE x = p[2]
    BY <1>1, <2>2 DEF Unused, NoEntry, EntriesState
  <2> QED
    BY <1>1, <1>2, <2>1, <2>2 DEF EntriesLie
<1>4. NoneOf(ws, id, "create") /\ NoneOf(ws, id, "destroy")
  BY DEF Unused
<1>5. OneBetween(vs, id, "create", b, n)
  BY <1>4, FirstIsAdded
<1>6. NoneOf(vs, id, "destroy")
  <2>1. ~(m.id = id /\ m.kind = "destroy")
    OBVIOUS
  <2> QED
    BY <1>4, <2>1, NoneStays
<1>7. CreateLeads(vs, id, p[Len(p) - 1], p[Len(p)]) /\ DestroyFollows(vs, ts, id, p)
  BY <1>1, <1>2, <1>5, <1>6 DEF CreateLeads, DestroyFollows
<1>8. Under(ds, vs, ts, id, p)
  BY <1>1, <1>3, <1>7 DEF Under
<1> QED
  BY <1>8 DEF p

\* A creation that is taken was ahead of the entries, and nothing else changes.
LEMMA CreateTaken ==
    ASSUME NEW cs, NEW ws \in WireState, NEW vs, NEW f \in Bridges, NEW t \in Bridges, NEW id \in Nat, NEW ts,
           NEW p \in Seq(Bridges), Under(cs, ws, ts, id, p),
           Carries(ws, f, t, 1, id, "create"), Takes(ws, vs, f, t)
    PROVE  Under(cs, vs, ts, id, p) /\ NoneOf(vs, id, "create")
<1>1. /\ Len(p) >= 2 /\ EntriesLie(cs, id, p)
      /\ CreateLeads(ws, id, p[Len(p) - 1], p[Len(p)]) /\ DestroyFollows(ws, ts, id, p)
  BY DEF Under
<1>2. /\ p[1] \in Bridges /\ p[2] \in Bridges /\ p[Len(p) - 1] \in Bridges /\ p[Len(p)] \in Bridges
      /\ Len(p) \in Nat
  BY <1>1, WayEnds
<1>3. NoneOf(vs, id, "create") /\ f = p[Len(p) - 1] /\ t = p[Len(p)]
  <2>1. OneBetween(ws, id, "create", p[Len(p) - 1], p[Len(p)])
    BY <1>1 DEF CreateLeads
  <2>2. ASSUME NEW u \in Bridges, NEW v \in Bridges, OneBetween(ws, id, "create", u, v)
        PROVE  NoneOf(vs, id, "create") /\ f = u /\ t = v
    <3>1. f = u /\ t = v
      BY <2>2 DEF OneBetween
    <3>2. OneBetween(ws, id, "create", f, t)
      BY <2>2, <3>1
    <3>3. NoneOf(vs, id, "create")
      BY <3>2, LastIsTaken
    <3> QED
      BY <3>1, <3>3
  <2> QED
    BY <1>2, <2>1, <2>2
<1>4. OneBetween(vs, id, "create", p[Len(p) - 1], p[Len(p)])
  BY <1>3 DEF NoneOf, OneBetween
<1>5. ~Carries(ws, f, t, 1, id, "destroy")
  BY DEF Carries
<1>6. DestroyFollows(vs, ts, id, p)
  <2>1. CASE id \notin ts
    <3>1. NoneOf(vs, id, "destroy")
      BY <1>1, <2>1, NoneStays DEF DestroyFollows
    <3> QED
      BY <1>1, <2>1, <3>1 DEF DestroyFollows
  <2>2. CASE id \in ts
    <3>1. /\ p[1] # p[2] /\ OneBetween(ws, id, "destroy", p[1], p[2])
          /\ SomeOf(ws, id, "destroy", p[1], p[2]) /\ (Len(p) = 2 => CreateAhead(ws, id, p[1], p[2]))
      BY <1>1, <2>2 DEF DestroyFollows
    <3>2. OneBetween(vs, id, "destroy", p[1], p[2])
      BY <1>2, <3>1, OneStays
    <3>3. SomeOf(vs, id, "destroy", p[1], p[2])
      BY <1>2, <1>5, <3>1, SomeStays
    <3>4. Len(p) = 2 => CreateAhead(vs, id, p[1], p[2])
      BY <1>2, <3>1, AheadStays
    <3> QED
      BY <2>2, <3>1, <3>2, <3>3, <3>4 DEF DestroyFollows
  <2> QED
    BY <2>1, <2>2
<1> QED
  BY <1>1, <1>3, <1>4, <1>6 DEF Under, CreateLeads

\* An accepted creation makes the way longer: by the bridge it is sent to, or at the end of
\* the way by the destination.
LEMMA WayGoesOn ==
    ASSUME NEW cs \in EntriesState, NEW vs \in WireState, NEW ts, NEW id \in Nat,
           NEW p \in Seq(Bridges), Under(cs, vs, ts, id, p), NoneOf(vs, id, "create"),
           NEW t \in Bridges, t = p[Len(p)], \A d \in cs[t] : d.id # id,
           NEW n \in Bridges, NEW c \in CircuitEntry, c.id = id, c.source = p[Len(p) - 1], c.next = n,
           NEW ds, ds = [cs EXCEPT ![t] = @ \cup {c}], NEW xs,
           \/ xs = vs
           \/ n # t /\ \E m : Adds(vs, xs, t, n, m) /\ m.id = id /\ m.kind = "create"
    PROVE  Under(ds, xs, ts, id, Append(p, n))
<1> DEFINE q == Append(p, n)
           l == Len(p)
<1>1. /\ l \in Nat /\ l >= 2 /\ q \in Seq(Bridges) /\ Len(q) = l + 1 /\ q[l + 1] = n
      /\ \A i \in 1..l : q[i] = p[i] /\ p[i] \in Bridges
  BY DEF Under
<1> HIDE DEF q
<1>2. EntriesLie(cs, id, p) /\ DestroyFollows(vs, ts, id, p)
  BY DEF Under
<1>3. ds[t] = cs[t] \cup {c} /\ \A b \in Bridges : b # t => ds[b] = cs[b]
  BY DEF EntriesState
<1>4. ASSUME NEW i \in 2..(l - 1) PROVE p[i] # t
  BY <1>2 DEF EntriesLie
<1>5. EntriesLie(ds, id, q)
  <2>1. ASSUME NEW i \in 2..l
        PROVE  \E d \in ds[q[i]] : d.id = id /\ d.source = q[i - 1] /\ d.next = q[i + 1]
    <3>1. CASE i = l
      <4>1. q[i] = t /\ q[i - 1] = p[l - 1] /\ q[i + 1] = n
        BY <1>1, <3>1
      <4> QED
        BY <1>3, <4>1
    <3>2. CASE i # l
      <4>1. i \in 2..(l - 1) /\ {i - 1, i, i + 1} \subseteq 1..l
        BY <1>1, <3>2
      <4>2. q[i] = p[i] /\ q[i - 1] = p[i - 1] /\ q[i + 1] = p[i + 1] /\ p[i] \in Bridges
        BY <1>1, <4>1
      <4>3. ds[p[i]] = cs[p[i]]
        BY <1>3, <1>4, <4>1, <4>2
      <4> QED
        BY <1>2, <4>1, <4>2, <4>3 DEF EntriesLie
    <3> QED
      BY <3>1, <3>2
  <2>2. ASSUME NEW b \in Bridges, NEW d \in ds[b], d.id = id PROVE \E i \in 2..l : b = q[i]
    <3>1. CASE b = t
      BY <1>1, <3>1
    <3>2. CASE b # t
      <4>1. PICK i \in 2..(l - 1) : b = p[i]
        BY <1>2, <1>3, <2>2, <3>2 DEF EntriesLie
      <4>2. i \in 2..l /\ i \in 1..l
        BY <1>1
      <4> QED
        BY <1>1, <4>1, <4>2
    <3> QED
      BY <3>1, <3>2
  <2>3. ASSUME NEW i \in 2..l, NEW j \in 2..l, q[i] = q[j] PROVE i = j
    <3>1. q[i] = p[i] /\ q[j] = p[j]
      BY <1>1
    <3>2. (i # l => i \in 2..(l - 1)) /\ (j # l => j \in 2..(l - 1))
      BY <1>1
    <3>3. CASE i # l /\ j # l
      <4>1. i \in 2..(l - 1) /\ j \in 2..(l - 1) /\ p[i] = p[j]
        BY <2>3, <3>1, <3>2, <3>3
      <4>2. \A x, y \in 2..(l - 1) : p[x] = p[y] => x = y
        BY <1>2 DEF EntriesLie
      <4> QED
        BY <4>1, <4>2
    <3>4. CASE i # l /\ j = l
      BY <1>4, <2>3, <3>1, <3>2, <3>4
    <3>5. CASE i = l /\ j # l
      BY <1>4, <2>3, <3>1, <3>2, <3>5
    <3> QED
      BY <3>3, <3>4, <3>5
  <2>4. 2..(Len(q) - 1) = 2..l
    BY <1>1
  <2> QED
    BY <2>1, <2>2, <2>3, <2>4 DEF EntriesLie
<1>6. q \in Seq(Bridges) /\ Len(q) >= 2
  BY <1>1
<1>7. ASSUME xs = vs PROVE Under(ds, xs, ts, id, q)
  <2>1. CreateLeads(xs, id, q[Len(q) - 1], q[Len(q)])
    <3>1. q[Len(q) - 1] = t /\ q[Len(q)] = n
      BY <1>1
    <3>2. OneBetween(xs, id, "create", t, n)
      BY <1>7 DEF OneBetween, NoneOf
    <3> QED
      BY <1>7, <3>1, <3>2 DEF CreateLeads
  <2>2. DestroyFollows(xs, ts, id, q)
    <3>1. q[1] = p[1] /\ q[2] = p[2] /\ Len(q) >= 3 /\ Len(q) # 2
      <4>1. 1 \in 1..l /\ 2 \in 1..l
        BY <1>1
      <4> QED
        BY <1>1, <4>1
    <3>2. id \notin ts => q[3] = p[3]
      BY <1>1, <1>2 DEF DestroyFollows
    <3> QED
      BY <1>2, <1>7, <3>1, <3>2 DEF DestroyFollows
  <2> QED
    BY <1>5, <1>6, <2>1, <2>2 DEF Under
<1>8. ASSUME n # t, \E m : Adds(vs, xs, t, n, m) /\ m.id = id /\ m.kind = "create"
      PROVE  Under(ds, xs, ts, id, q)
  <2>1. PICK m : Adds(vs, xs, t, n, m) /\ m.id = id /\ m.kind = "create"
    BY <1>8
  <2>2. OneBetween(xs, id, "create", t, n)
    BY <2>1, FirstIsAdded
  <2>3. q[Len(q) - 1] = t /\ q[Len(q)] = n
    BY <1>1
  <2>4. CreateLeads(xs, id, q[Len(q) - 1], q[Len(q)])
    BY <1>8, <2>2, <2>3 DEF CreateLeads
  <2>5. DestroyFollows(xs, ts, id, q)
    <3>1. q[1] = p[1] /\ q[2] = p[2] /\ Len(q) >= 3 /\ Len(q) # 2 /\ p[1] \in Bridges /\ p[2] \in Bridges
      BY <1>1
    <3>2. ~(m.id = id /\ m.kind = "destroy")
      BY <2>1
    <3>3. CASE id \notin ts
      <4>1. NoneOf(vs, id, "destroy") /\ l >= 3 /\ p[1] = p[2] /\ p[2] # p[3]
        BY <1>2, <3>3 DEF DestroyFollows
      <4>2. NoneOf(xs, id, "destroy")
        BY <2>1, <3>2, <4>1, NoneStays
      <4> QED
        BY <1>1, <3>1, <3>3, <4>1, <4>2 DEF DestroyFollows
    <3>4. CASE id \in ts
      <4>1. /\ p[1] # p[2] /\ OneBetween(vs, id, "destroy", p[1], p[2])
            /\ SomeOf(vs, id, "destroy", p[1], p[2])
        BY <1>2, <3>4 DEF DestroyFollows
      <4>2. OneBetween(xs, id, "destroy", p[1], p[2])
        BY <2>1, <3>1, <3>2, <4>1, OneStays
      <4>3. SomeOf(xs, id, "destroy", p[1], p[2])
        BY <2>1, <3>1, <4>1, SomeStays
      <4> QED
        BY <3>1, <3>4, <4>1, <4>2, <4>3 DEF DestroyFollows
    <3> QED
      BY <3>3, <3>4
  <2> QED
    BY <1>5, <1>6, <2>4, <2>5 DEF Under
<1> QED
  BY <1>7, <1>8 DEF q

\* A destruction that is taken followed behind the entries; when it reaches the end of the
\* way, the creation went no further.
LEMMA DestroyTaken ==
    ASSUME NEW cs, NEW ws \in WireState, NEW vs, NEW f \in Bridges, NEW t \in Bridges, NEW id \in Nat, NEW ts,
           NEW p \in Seq(Bridges), Under(cs, ws, ts, id, p),
           Carries(ws, f, t, 1, id, "destroy"), Takes(ws, vs, f, t)
    PROVE  /\ id \in ts /\ NoneOf(vs, id, "destroy")
           /\ f = p[1] /\ t = p[2]
           /\ CreateLeads(vs, id, p[Len(p) - 1], p[Len(p)])
           /\ Len(p) = 2 => NoneOf(vs, id, "create")
<1>1. /\ Len(p) >= 2 /\ CreateLeads(ws, id, p[Len(p) - 1], p[Len(p)]) /\ DestroyFollows(ws, ts, id, p)
  BY DEF Under
<1>2. /\ p[1] \in Bridges /\ p[2] \in Bridges /\ p[Len(p) - 1] \in Bridges /\ p[Len(p)] \in Bridges
      /\ Len(p) \in Nat
  BY <1>1, WayEnds
<1>3. id \in ts
  BY <1>1 DEF DestroyFollows, NoneOf
<1>4. OneBetween(ws, id, "destroy", p[1], p[2]) /\ (Len(p) = 2 => CreateAhead(ws, id, p[1], p[2]))
  BY <1>1, <1>3 DEF DestroyFollows
<1>5. f = p[1] /\ t = p[2]
  BY <1>4 DEF OneBetween
<1>6. OneBetween(ws, id, "destroy", f, t)
  BY <1>4, <1>5
<1>7. NoneOf(vs, id, "destroy")
  BY <1>6, LastIsTaken
<1>8. CreateLeads(vs, id, p[Len(p) - 1], p[Len(p)])
  <2>1. /\ OneBetween(ws, id, "create", p[Len(p) - 1], p[Len(p)])
        /\ NoneOf(ws, id, "create") \/ p[Len(p) - 1] # p[Len(p)]
    BY <1>1 DEF CreateLeads
  <2>2. ASSUME NEW u \in Bridges, NEW v \in Bridges, OneBetween(ws, id, "create", u, v)
        PROVE  OneBetween(vs, id, "create", u, v)
    BY <2>2, OneStays
  <2>3. NoneOf(ws, id, "create") => NoneOf(vs, id, "create")
    BY NoneStays
  <2> QED
    BY <1>2, <2>1, <2>2, <2>3 DEF CreateLeads
<1>9. Len(p) = 2 => NoneOf(vs, id, "create")
  <2> SUFFICES ASSUME Len(p) = 2 PROVE NoneOf(vs, id, "create")
    OBVIOUS
  <2>1. OneBetween(ws, id, "create", f, t)
    BY <1>1, <1>5 DEF CreateLeads
  <2>2. \A k \in Nat : ~Carries(ws, f, t, k, id, "create")
    <3> SUFFICES ASSUME NEW k \in Nat, Carries(ws, f, t, k, id, "create") PROVE FALSE
      OBVIOUS
    <3>1. k < 1
      BY <1>4, <1>5 DEF CreateAhead
    <3>2. k >= 1
      BY DEF Carries
    <3> QED
      BY <3>1, <3>2
  <2>3. NoneOf(ws, id, "create")
    BY <2>1, <2>2 DEF OneBetween, NoneOf
  <2> QED
    BY <2>3, NoneStays
<1> QED
  BY <1>3, <1>5, <1>7, <1>8, <1>9

\* The first entry goes and the destruction is passed on behind the rest.
LEMMA WayShortens ==
    ASSUME NEW cs \in EntriesState, OneEach(cs), NEW vs \in WireState, NEW xs, NEW us, NEW id \in Nat,
           id \in us, NEW p \in Seq(Bridges), Len(p) >= 3, EntriesLie(cs, id, p),
           CreateLeads(vs, id, p[Len(p) - 1], p[Len(p)]), NoneOf(vs, id, "destroy"),
           NEW t \in Bridges, t = p[2], NEW n \in Bridges, n = p[3], t # n,
           NEW c \in cs[t], c.id = id, NEW ds, ds = [cs EXCEPT ![t] = @ \ {c}],
           NEW m, Adds(vs, xs, t, n, m), m.id = id, m.kind = "destroy"
    PROVE  Under(ds, xs, us, id, Tail(p))
<1> DEFINE q == Tail(p)
           l == Len(p)
<1>1. /\ l \in Nat /\ l >= 3 /\ q \in Seq(Bridges) /\ Len(q) = l - 1
      /\ \A i \in 1..(l - 1) : q[i] = p[i + 1]
      /\ \A i \in 1..l : p[i] \in Bridges
  <2>1. p # <<>>
    OBVIOUS
  <2> QED
    BY <2>1, HeadTailProperties
<1> HIDE DEF q
<1>2. p[2] \in Bridges /\ p[3] \in Bridges /\ p[l - 1] \in Bridges /\ p[l] \in Bridges
  BY <1>1
<1>3. /\ q[1] = p[2] /\ q[2] = p[3] /\ q[Len(q) - 1] = p[l - 1] /\ q[Len(q)] = p[l]
  <2>1. q[1] = p[1 + 1] /\ q[2] = p[2 + 1]
    BY <1>1
  <2>2. q[l - 2] = p[l - 2 + 1] /\ q[l - 1] = p[l - 1 + 1] /\ Len(q) - 1 = l - 2
    BY <1>1
  <2>3. l - 2 + 1 = l - 1 /\ l - 1 + 1 = l
    BY <1>1
  <2> QED
    BY <1>1, <2>1, <2>2, <2>3
<1>4. ds[t] = cs[t] \ {c} /\ \A b \in Bridges : b # t => ds[b] = cs[b]
  BY <1>2 DEF EntriesState
<1>5. EntriesLie(ds, id, q)
  <2>1. ASSUME NEW i \in 2..(l - 2)
        PROVE  \E d \in ds[q[i]] : d.id = id /\ d.source = q[i - 1] /\ d.next = q[i + 1]
    <3>1. i + 1 \in 2..(l - 1) /\ 2 \in 2..(l - 1) /\ {i - 1, i, i + 1} \subseteq 1..(l - 1) /\ i + 1 # 2
      BY <1>1
    <3>2. q[i] = p[i + 1] /\ q[i - 1] = p[i - 1 + 1] /\ q[i + 1] = p[i + 1 + 1] /\ p[i + 1] \in Bridges
      BY <1>1, <3>1
    <3>3. p[i + 1] # p[2]
      BY <3>1 DEF EntriesLie
    <3>4. ds[p[i + 1]] = cs[p[i + 1]]
      BY <1>4, <3>2, <3>3
    <3>5. i - 1 + 1 = i + 1 - 1
      BY <3>1
    <3>6. \E d \in cs[p[i + 1]] : d.id = id /\ d.source = p[i + 1 - 1] /\ d.next = p[i + 1 + 1]
      BY <3>1 DEF EntriesLie
    <3> QED
      BY <3>2, <3>4, <3>5, <3>6
  <2>2. ASSUME NEW b \in Bridges, NEW d \in ds[b], d.id = id PROVE \E i \in 2..(l - 2) : b = q[i]
    <3>1. d \in cs[b]
      BY <1>4
    <3>2. PICK i \in 2..(l - 1) : b = p[i]
      BY <2>2, <3>1 DEF EntriesLie
    <3>3. i # 2
      BY <1>2, <1>4, <2>2, <3>1, <3>2 DEF OneEach
    <3>4. i - 1 \in 2..(l - 2) /\ q[i - 1] = p[i - 1 + 1] /\ i - 1 + 1 = i
      BY <1>1, <3>3
    <3> QED
      BY <3>2, <3>4
  <2>3. ASSUME NEW i \in 2..(l - 2), NEW j \in 2..(l - 2), q[i] = q[j] PROVE i = j
    <3>1. i + 1 \in 2..(l - 1) /\ j + 1 \in 2..(l - 1) /\ q[i] = p[i + 1] /\ q[j] = p[j + 1]
      BY <1>1
    <3>2. \A x, y \in 2..(l - 1) : p[x] = p[y] => x = y
      BY DEF EntriesLie
    <3>3. i + 1 = j + 1
      BY <2>3, <3>1, <3>2
    <3> QED
      BY <3>3
  <2>4. 2..(Len(q) - 1) = 2..(l - 2)
    <3>1. Len(q) - 1 = l - 2
      BY <1>1
    <3> QED
      BY <3>1
  <2>5. \A i \in 2..(Len(q) - 1) : \E d \in ds[q[i]] : d.id = id /\ d.source = q[i - 1] /\ d.next = q[i + 1]
    BY <2>1, <2>4
  <2>6. \A b \in Bridges : \A d \in ds[b] : d.id = id => \E i \in 2..(Len(q) - 1) : b = q[i]
    BY <2>2, <2>4
  <2>7. \A i, j \in 2..(Len(q) - 1) : q[i] = q[j] => i = j
    BY <2>3, <2>4
  <2> QED
    BY <2>5, <2>6, <2>7 DEF EntriesLie
<1>6. /\ OneBetween(vs, id, "create", p[l - 1], p[l])
      /\ NoneOf(vs, id, "create") \/ p[l - 1] # p[l]
  BY DEF CreateLeads
<1>7. ~(m.id = id /\ m.kind = "create")
  OBVIOUS
<1>8. CreateLeads(xs, id, q[Len(q) - 1], q[Len(q)])
  <2>1. ASSUME NEW u \in Bridges, NEW v \in Bridges, OneBetween(vs, id, "create", u, v)
        PROVE  OneBetween(xs, id, "create", u, v)
    <3>1. \A x, y \in Bridges, k \in Nat :
            Carries(xs, x, y, k, id, "create") <=> Carries(vs, x, y, k, id, "create")
      BY <1>7 DEF Adds
    <3> QED
      BY <2>1, <3>1 DEF OneBetween
  <2>2. NoneOf(vs, id, "create") => NoneOf(xs, id, "create")
    BY <1>2, <1>7, NoneStays
  <2> QED
    BY <1>2, <1>3, <1>6, <2>1, <2>2 DEF CreateLeads
<1>9. DestroyFollows(xs, us, id, q)
  <2>1. OneBetween(xs, id, "destroy", t, n) /\ SomeOf(xs, id, "destroy", t, n)
    BY <1>2, FirstIsAdded
  <2>2. CreateAhead(xs, id, t, n)
    BY <1>2, AheadStays
  <2> QED
    BY <1>3, <2>1, <2>2 DEF DestroyFollows
<1> QED
  BY <1>1, <1>5, <1>8, <1>9 DEF Under, q

\* The destruction of a circuit whose destination is the bridge it ends at goes no further.
LEMMA WayIsOver ==
    ASSUME NEW cs \in EntriesState, OneEach(cs), NEW vs, NEW us, NEW id \in Nat,
           id \in us, NEW p \in Seq(Bridges), Len(p) >= 3, EntriesLie(cs, id, p),
           CreateLeads(vs, id, p[Len(p) - 1], p[Len(p)]), NEW t \in Bridges, p[2] = t, p[3] = t,
           NEW c \in cs[t], c.id = id, NEW ds, ds = [cs EXCEPT ![t] = @ \ {c}]
    PROVE  Over(ds, vs, us, id)
<1>1. Len(p) \in Nat
  OBVIOUS
<1>2. Len(p) = 3
  <2>1. ~(Len(p) > 3)
    <3> SUFFICES ASSUME Len(p) > 3 PROVE FALSE
      OBVIOUS
    <3>1. 2 \in 2..(Len(p) - 1) /\ 3 \in 2..(Len(p) - 1)
      BY <1>1
    <3>2. \A i, j \in 2..(Len(p) - 1) : p[i] = p[j] => i = j
      BY DEF EntriesLie
    <3>3. 2 = 3
      BY <3>1, <3>2
    <3> QED
      BY <3>3
  <2>2. \A n \in Nat : n >= 3 /\ ~(n > 3) => n = 3
    OBVIOUS
  <2> QED
    BY <1>1, <2>1, <2>2
<1>3. NoneOf(vs, id, "create")
  <2>1. CreateLeads(vs, id, t, t)
    BY <1>2
  <2> QED
    BY <2>1 DEF CreateLeads
<1>4. ASSUME NEW b \in Bridges, NEW d \in ds[b] PROVE d.id # id
  <2>1. d \in cs[b] /\ (b = t => d # c)
    BY <1>1 DEF EntriesState
  <2>2. d.id = id => b = t
    <3>1. 2..(Len(p) - 1) = {2}
      BY <1>2
    <3> QED
      BY <2>1, <3>1 DEF EntriesLie
  <2> QED
    BY <1>1, <2>1, <2>2 DEF OneEach
<1> QED
  BY <1>3, <1>4 DEF Over, NoEntry

RoutesLead == \A b \in Bridges : \A r \in routes[b] : r.next \in Bridges \ {b}

CreatedKnown == \A id \in 1..created : Known(circuits, wires, torn, id)
RestUnused == \A id \in Nat \ (1..created) : Unused(circuits, wires, id)
CircuitInv ==
    /\ created \in Nat /\ torn \subseteq 1..created
    /\ wires \in WireState /\ circuits \in EntriesState /\ OneEach(circuits)
    /\ CreatedKnown /\ RestUnused

\* What a step about one circuit, a new one or one that is known, must show.
LEMMA InvByCircuit ==
    ASSUME CircuitInv, NEW id0 \in Nat, id0 \in 1..created',
           created' = created \/ (created' = created + 1 /\ id0 = created + 1),
           torn' = torn \/ torn' = torn \cup {id0},
           wires' \in WireState, circuits' \in EntriesState, OneEach(circuits'),
           Known(circuits', wires', torn', id0),
           \A id \in Nat \ {id0} :
                /\ Known(circuits, wires, torn, id) => Known(circuits', wires', torn', id)
                /\ Unused(circuits, wires, id) => Unused(circuits', wires', id)
    PROVE  CircuitInv'
<1>1. created' \in Nat /\ torn' \subseteq 1..created'
  <2>1. created \in Nat /\ torn \subseteq 1..created
    BY DEF CircuitInv
  <2>2. created' \in Nat /\ 1..created \subseteq 1..created'
    <3>1. created' = created \/ created' = created + 1
      OBVIOUS
    <3> QED
      BY <2>1, <3>1
  <2>3. torn' \subseteq torn \cup {id0}
    OBVIOUS
  <2> QED
    BY <2>1, <2>2, <2>3
<1>2. ASSUME NEW id \in 1..created' PROVE Known(circuits', wires', torn', id)
  <2>1. CASE id = id0
    BY <2>1
  <2>2. CASE id # id0
    <3>1. id \in 1..created /\ id \in Nat
      BY <2>2 DEF CircuitInv
    <3>2. Known(circuits, wires, torn, id)
      BY <3>1 DEF CircuitInv, CreatedKnown
    <3> QED
      BY <2>2, <3>1, <3>2
  <2> QED
    BY <2>1, <2>2
<1>3. ASSUME NEW id \in Nat \ (1..created') PROVE Unused(circuits', wires', id)
  <2>1. id \in Nat \ (1..created) /\ id # id0
    BY DEF CircuitInv
  <2>2. Unused(circuits, wires, id)
    BY <2>1 DEF CircuitInv, RestUnused
  <2> QED
    BY <2>1, <2>2
<1>4. CreatedKnown' /\ RestUnused'
  BY <1>2, <1>3 DEF CreatedKnown, RestUnused
<1> QED
  BY <1>1, <1>4 DEF CircuitInv

\* Whom a message or an entry is about is known.
LEMMA AboutKnown ==
    ASSUME CircuitInv, NEW id \in Nat, ~Unused(circuits, wires, id)
    PROVE  id \in 1..created /\ Known(circuits, wires, torn, id)
<1>1. CreatedKnown /\ RestUnused
  BY DEF CircuitInv
<1>2. id \in 1..created
  BY <1>1, Zenon DEF RestUnused
<1> QED
  BY <1>1, <1>2 DEF CreatedKnown

\* The first message on a way, as an action sees it.
LEMMA FirstMessage ==
    ASSUME CircuitInv, NEW f \in Bridges, NEW t \in Bridges, wires[<<f, t>>] # <<>>
    PROVE  /\ Head(wires[<<f, t>>]) \in CircuitMessage
           /\ Carries(wires, f, t, 1, Head(wires[<<f, t>>]).id, Head(wires[<<f, t>>]).kind)
           /\ \A id \in Nat, what \in {"create", "destroy"} :
                Carries(wires, f, t, 1, id, what) => id = Head(wires[<<f, t>>]).id
<1>1. wires[<<f, t>>] \in Seq(CircuitMessage)
  BY DEF CircuitInv, WireState
<1>2. /\ Head(wires[<<f, t>>]) = wires[<<f, t>>][1] /\ 1 \in 1..Len(wires[<<f, t>>])
      /\ Head(wires[<<f, t>>]) \in CircuitMessage
  BY <1>1
<1> QED
  BY <1>2 DEF Carries

\* A destroyed entry, an added entry and the entries of other circuits.
LEMMA EntriesChange ==
    ASSUME NEW cs \in EntriesState, OneEach(cs), NEW b \in Bridges, NEW c \in CircuitEntry, NEW ds,
           EntryAdded(cs, ds, b, c) \/ EntryGone(cs, ds, b, c)
    PROVE  ds \in EntriesState /\ OneEach(ds) /\ OthersSame(cs, ds, c.id)
<1>1. ds \in EntriesState
  BY DEF EntriesState, EntryAdded, EntryGone
<1>2. ASSUME NEW x \in Bridges, x # b PROVE ds[x] = cs[x]
  BY <1>2 DEF EntriesState, EntryAdded, EntryGone
<1>3. \/ ds[b] = cs[b] \ {c}
      \/ ds[b] = cs[b] \cup {c} /\ \A d \in cs[b] : d.id # c.id
  BY DEF EntriesState, EntryAdded, EntryGone
<1>4. OneEach(ds)
  <2> SUFFICES ASSUME NEW x \in Bridges, NEW d \in ds[x], NEW e \in ds[x], d.id = e.id PROVE d = e
    BY DEF OneEach
  <2>1. CASE x = b
    BY <1>3, <2>1 DEF OneEach
  <2>2. CASE x # b
    BY <1>2, <2>2 DEF OneEach
  <2> QED
    BY <2>1, <2>2
<1>5. ASSUME NEW id \in Nat, id # c.id PROVE SameEntries(cs, ds, id)
  <2> SUFFICES ASSUME NEW x \in Bridges, NEW d \in CircuitEntry, d.id = id PROVE d \in cs[x] <=> d \in ds[x]
    BY DEF SameEntries
  <2>1. CASE x = b
    BY <1>3, <1>5, <2>1
  <2>2. CASE x # b
    BY <1>2, <2>2
  <2> QED
    BY <2>1, <2>2
<1>6. OthersSame(cs, ds, c.id)
  BY <1>5 DEF OthersSame
<1> QED
  BY <1>1, <1>4, <1>6

\* Two steps about one circuit leave the others as they are.
LEMMA OthersStayTwice ==
    ASSUME NEW cs \in EntriesState, NEW ds \in EntriesState, NEW ws \in WireState, NEW vs \in WireState, NEW xs,
           NEW id \in Nat, NEW ts, SameEntries(cs, ds, id),
           LeavesAlone(ws, vs, id), xs = vs \/ LeavesAlone(vs, xs, id)
    PROVE  /\ Known(cs, ws, ts, id) => Known(ds, xs, ts, id)
           /\ Unused(cs, ws, id) => Unused(ds, xs, id)
<1>1. /\ Known(cs, ws, ts, id) => Known(ds, vs, ts, id)
      /\ Unused(cs, ws, id) => Unused(ds, vs, id)
  BY OthersStay
<1>2. CASE xs = vs
  BY <1>1, <1>2
<1>3. CASE LeavesAlone(vs, xs, id)
  <2>1. SameEntries(ds, ds, id)
    BY DEF SameEntries
  <2>2. /\ Known(ds, vs, ts, id) => Known(ds, xs, ts, id)
        /\ Unused(ds, vs, id) => Unused(ds, xs, id)
    BY <1>3, <2>1, OthersStay
  <2> QED
    BY <1>1, <2>2
<1> QED
  BY <1>2, <1>3

\* trellis_canopy_circuit_create.
LEMMA CreateKeepsCircuits ==
    ASSUME CircuitInv, RoutesLead, NEW b \in Bridges, NEW t \in Groves, CreateCanopyCircuit(b, t)
    PROVE  CircuitInv'
<1>1. PICK r \in routes[b] :
        /\ circuits' = [circuits EXCEPT ![b] = @ \cup
                {[id |-> created + 1, source |-> b, next |-> r.next, terminal |-> FALSE]}]
        /\ wires' = Sent(wires, b, r.next,
                [kind |-> "create", id |-> created + 1, target |-> t, dest |-> r.next])
  BY DEF CreateCanopyCircuit
<1>2. created' = created + 1 /\ torn' = torn /\ created \in Nat
  BY DEF CreateCanopyCircuit, CircuitInv
<1> DEFINE n == r.next
           c == [id |-> created + 1, source |-> b, next |-> n, terminal |-> FALSE]
           m == [kind |-> "create", id |-> created + 1, target |-> t, dest |-> n]
           id0 == created + 1
<1>3. n \in Bridges /\ n # b
  BY DEF RoutesLead
<1>4. /\ c \in CircuitEntry /\ c.id = id0 /\ c.source = b /\ c.next = n
      /\ m \in CircuitMessage /\ m.id = id0 /\ m.kind = "create" /\ id0 \in Nat /\ id0 \in 1..created'
  BY <1>2, <1>3 DEF CircuitEntry, CircuitMessage
<1>5. circuits' = [circuits EXCEPT ![b] = @ \cup {c}] /\ wires' = [wires EXCEPT ![<<b, n>>] = Append(@, m)]
  BY <1>1 DEF Sent
<1> HIDE DEF c, m, n
<1>6. wires \in WireState /\ circuits \in EntriesState /\ OneEach(circuits) /\ torn \subseteq 1..created
  BY DEF CircuitInv
<1>7. id0 \in Nat \ (1..created) /\ id0 \notin torn
  BY <1>2, <1>6
<1>8. Unused(circuits, wires, id0)
  BY <1>7 DEF CircuitInv, RestUnused
<1>9. \A d \in circuits[b] : d.id # c.id
  BY <1>4, <1>8 DEF Unused, NoEntry
<1>10. wires' \in WireState /\ Adds(wires, wires', b, n, m)
  BY <1>3, <1>4, <1>5, <1>6, SentAdds
<1>11. circuits' \in EntriesState /\ OneEach(circuits') /\ OthersSame(circuits, circuits', c.id)
  <2>1. EntryAdded(circuits, circuits', b, c)
    BY <1>5, <1>9 DEF EntryAdded
  <2> QED
    BY <1>4, <1>6, <2>1, EntriesChange
<1> HIDE DEF id0
<1>12. Under(circuits', wires', torn, id0, <<b, b, n>>)
  BY <1>3, <1>4, <1>5, <1>6, <1>7, <1>8, <1>10, WayBegins
<1>13. Known(circuits', wires', torn', id0)
  <2>1. <<b, b, n>> \in Seq(Bridges)
    BY <1>3
  <2> QED
    BY <1>2, <1>12, <2>1 DEF Known
<1>14. ASSUME NEW id \in Nat \ {id0}
       PROVE  /\ Known(circuits, wires, torn, id) => Known(circuits', wires', torn', id)
              /\ Unused(circuits, wires, id) => Unused(circuits', wires', id)
  <2>1. SameEntries(circuits, circuits', id) /\ m.id # id
    BY <1>4, <1>11 DEF OthersSame
  <2>2. LeavesAlone(wires, wires', id)
    BY <1>3, <1>10, <2>1 DEF LeavesAlone
  <2> QED
    BY <1>2, <1>6, <1>11, <2>1, <2>2, OthersStay
<1> QED
  BY <1>2, <1>4, <1>10, <1>11, <1>13, <1>14, InvByCircuit DEF id0

\* trellis_canopy_on_circuit_create.
LEMMA OnCreateKeepsCircuits ==
    ASSUME CircuitInv, RoutesLead, NEW b \in Bridges, NEW from \in Bridges \ {b}, OnCircuitCreate(from, b)
    PROVE  CircuitInv'
<1> DEFINE m == Head(wires[<<from, b>>])
           vs == Received(from, b)
           terminal == m.target \in GrovesOf[b]
           hops == IF terminal THEN {m.dest} ELSE {r.next : r \in {x \in routes[b] : x.target = m.target}}
<1>1. wires[<<from, b>>] # <<>> /\ m.kind = "create"
  BY DEF OnCircuitCreate, Arrival
<1>2. m \in CircuitMessage /\ Carries(wires, from, b, 1, m.id, "create")
  BY <1>1, FirstMessage
<1>3. m.id \in Nat /\ m.dest \in Bridges /\ m.target \in Groves
  BY <1>1, <1>2 DEF CircuitMessage
<1>4. wires \in WireState /\ circuits \in EntriesState /\ OneEach(circuits)
  BY DEF CircuitInv
<1>5. vs \in WireState /\ Takes(wires, vs, from, b)
  BY <1>1, <1>4, ReceivedTakes DEF Received
<1>6. created' = created /\ torn' = torn
  BY DEF OnCircuitCreate, m, vs
<1>7. m.id \in 1..created /\ Known(circuits, wires, torn, m.id)
  <2>1. ~Unused(circuits, wires, m.id)
    BY <1>2 DEF Unused, NoneOf
  <2> QED
    BY <1>3, <2>1, AboutKnown
<1>8. PICK p \in Seq(Bridges) : Under(circuits, wires, torn, m.id, p)
  <2>1. ~Over(circuits, wires, torn, m.id)
    BY <1>2 DEF Over, NoneOf
  <2> QED
    BY <1>7, <2>1 DEF Known
<1>9. /\ Under(circuits, vs, torn, m.id, p) /\ NoneOf(vs, m.id, "create")
      /\ from = p[Len(p) - 1] /\ b = p[Len(p)]
  <2>1. ASSUME NEW id \in Nat, Under(circuits, wires, torn, id, p), Carries(wires, from, b, 1, id, "create")
        PROVE  Under(circuits, vs, torn, id, p) /\ NoneOf(vs, id, "create")
    BY <1>4, <1>5, <2>1, CreateTaken
  <2>2. from = p[Len(p) - 1] /\ b = p[Len(p)]
    BY <1>2, <1>8 DEF Under, CreateLeads, OneBetween
  <2> QED
    BY <1>2, <1>3, <1>8, <2>1, <2>2
<1>10. ASSUME NEW id \in Nat \ {m.id}, NEW what \in {"create", "destroy"}
       PROVE  ~Carries(wires, from, b, 1, id, what)
  BY <1>1, FirstMessage DEF m
<1>11. \/ wires' = vs /\ UNCHANGED circuits
       \/ /\ m.id \notin IdsAt(b)
          /\ \E next \in hops :
                /\ circuits' = [circuits EXCEPT ![b] = @ \cup
                        {[id |-> m.id, source |-> from, next |-> next, terminal |-> terminal]}]
                /\ wires' = IF terminal THEN vs ELSE Sent(vs, b, next, m)
  BY DEF OnCircuitCreate, m, vs
<1>12. CASE wires' = vs /\ UNCHANGED circuits
  <2>1. Known(circuits', wires', torn', m.id)
    BY <1>6, <1>9, <1>12 DEF Known
  <2>2. ASSUME NEW id \in Nat \ {m.id}
        PROVE  /\ Known(circuits, wires, torn, id) => Known(circuits', wires', torn', id)
               /\ Unused(circuits, wires, id) => Unused(circuits', wires', id)
    <3>1. SameEntries(circuits, circuits, id)
      BY DEF SameEntries
    <3>2. LeavesAlone(wires, vs, id)
      BY <1>5, <1>10 DEF LeavesAlone
    <3>3. /\ Known(circuits, wires, torn, id) => Known(circuits, vs, torn, id)
          /\ Unused(circuits, wires, id) => Unused(circuits, vs, id)
      BY <1>4, <3>1, <3>2, OthersStay
    <3> QED
      BY <1>6, <1>12, <3>3
  <2> QED
    BY <1>3, <1>4, <1>5, <1>6, <1>7, <1>12, <2>1, <2>2, InvByCircuit
<1>13. ASSUME m.id \notin IdsAt(b), NEW next \in hops,
              circuits' = [circuits EXCEPT ![b] = @ \cup
                        {[id |-> m.id, source |-> from, next |-> next, terminal |-> terminal]}],
              wires' = IF terminal THEN vs ELSE Sent(vs, b, next, m)
       PROVE  CircuitInv'
  <2> DEFINE c == [id |-> m.id, source |-> from, next |-> next, terminal |-> terminal]
  <2>1. next \in Bridges /\ (~terminal => next # b)
    BY <1>3 DEF RoutesLead
  <2>2. terminal \in BOOLEAN
    OBVIOUS
  <2> HIDE DEF terminal, hops
  <2>3. c \in CircuitEntry /\ c.id = m.id /\ c.source = from /\ c.next = next
    BY <1>3, <2>1, <2>2 DEF CircuitEntry
  <2>4. circuits' = [circuits EXCEPT ![b] = @ \cup {c}]
    BY <1>13
  <2> HIDE DEF c
  <2>5. \A d \in circuits[b] : d.id # m.id
    BY <1>13 DEF IdsAt
  <2>6. circuits' \in EntriesState /\ OneEach(circuits') /\ OthersSame(circuits, circuits', c.id)
    <3>1. EntryAdded(circuits, circuits', b, c)
      BY <2>3, <2>4, <2>5 DEF EntryAdded
    <3> QED
      BY <1>4, <2>3, <3>1, EntriesChange
  <2>7. /\ wires' \in WireState
        /\ wires' = vs \/ (next # b /\ Adds(vs, wires', b, next, m))
    <3>1. CASE terminal
      BY <1>5, <1>13, <3>1
    <3>2. CASE ~terminal
      <4>1. wires' = [vs EXCEPT ![<<b, next>>] = Append(@, m)]
        BY <1>13, <3>2 DEF Sent
      <4> QED
        BY <1>2, <1>5, <2>1, <3>2, <4>1, SentAdds
    <3> QED
      BY <3>1, <3>2
  <2>8. \/ wires' = vs
        \/ next # b /\ \E x : Adds(vs, wires', b, next, x) /\ x.id = m.id /\ x.kind = "create"
    BY <1>1, <2>7
  <2>9. Under(circuits', wires', torn, m.id, Append(p, next))
    BY <1>3, <1>4, <1>5, <1>9, <2>1, <2>3, <2>4, <2>5, <2>8, WayGoesOn
  <2>10. Known(circuits', wires', torn', m.id)
    <3>1. Append(p, next) \in Seq(Bridges)
      BY <2>1
    <3> QED
      BY <1>6, <2>9, <3>1 DEF Known
  <2>11. ASSUME NEW id \in Nat \ {m.id}
         PROVE  /\ Known(circuits, wires, torn, id) => Known(circuits', wires', torn', id)
                /\ Unused(circuits, wires, id) => Unused(circuits', wires', id)
    <3>1. SameEntries(circuits, circuits', id)
      BY <2>3, <2>6 DEF OthersSame
    <3>2. LeavesAlone(wires, vs, id)
      BY <1>5, <1>10 DEF LeavesAlone
    <3>3. wires' = vs \/ LeavesAlone(vs, wires', id)
      <4>1. \A x : x.id = m.id => x.id # id
        OBVIOUS
      <4> QED
        BY <2>1, <2>8, <4>1 DEF LeavesAlone
    <3>4. /\ Known(circuits, wires, torn, id) => Known(circuits', wires', torn, id)
          /\ Unused(circuits, wires, id) => Unused(circuits', wires', id)
      BY <1>4, <1>5, <2>6, <3>1, <3>2, <3>3, OthersStayTwice
    <3> QED
      BY <1>6, <3>4
  <2> QED
    BY <1>3, <1>6, <1>7, <2>6, <2>7, <2>10, <2>11, InvByCircuit
<1> QED
  BY <1>11, <1>12, <1>13

\* The entry a circuit has at a bridge is the one its way says.
LEMMA EntryOnWay ==
    ASSUME CircuitInv, NEW id \in Nat, NEW p \in Seq(Bridges), EntriesLie(circuits, id, p),
           NEW i \in 2..(Len(p) - 1), NEW c \in circuits[p[i]], c.id = id
    PROVE  c.source = p[i - 1] /\ c.next = p[i + 1]
<1>1. \E d \in circuits[p[i]] : d.id = id /\ d.source = p[i - 1] /\ d.next = p[i + 1]
  BY DEF EntriesLie
<1>2. p[i] \in Bridges
  OBVIOUS
<1> QED
  BY <1>1, <1>2 DEF CircuitInv, OneEach

\* A destruction that arrives finds nothing to destroy, or the first entry behind its sender.
LEMMA DestroyArrives ==
    ASSUME CircuitInv, NEW b \in Bridges, NEW from \in Bridges, NEW id \in Nat,
           Carries(wires, from, b, 1, id, "destroy"), NEW vs \in WireState, Takes(wires, vs, from, b)
    PROVE  \/ Over(circuits, vs, torn, id)
           \/ \E p \in Seq(Bridges) :
                /\ Len(p) >= 3 /\ p[1] = from /\ p[2] = b /\ id \in torn
                /\ EntriesLie(circuits, id, p)
                /\ CreateLeads(vs, id, p[Len(p) - 1], p[Len(p)]) /\ NoneOf(vs, id, "destroy")
<1>1. wires \in WireState /\ Known(circuits, wires, torn, id)
  <2>1. ~Unused(circuits, wires, id)
    BY DEF Unused, NoneOf
  <2> QED
    BY <2>1, AboutKnown DEF CircuitInv
<1>2. CASE Over(circuits, wires, torn, id)
  <2>1. NoneOf(vs, id, "create")
    BY <1>2, NoneStays DEF Over
  <2> QED
    BY <1>2, <2>1 DEF Over
<1>3. ASSUME NEW p \in Seq(Bridges), Under(circuits, wires, torn, id, p)
      PROVE  \/ Over(circuits, vs, torn, id)
             \/ /\ Len(p) >= 3 /\ p[1] = from /\ p[2] = b /\ id \in torn
                /\ EntriesLie(circuits, id, p)
                /\ CreateLeads(vs, id, p[Len(p) - 1], p[Len(p)]) /\ NoneOf(vs, id, "destroy")
  <2>1. /\ id \in torn /\ NoneOf(vs, id, "destroy")
        /\ from = p[1] /\ b = p[2]
        /\ CreateLeads(vs, id, p[Len(p) - 1], p[Len(p)])
        /\ Len(p) = 2 => NoneOf(vs, id, "create")
    BY <1>1, <1>3, DestroyTaken
  <2>2. EntriesLie(circuits, id, p) /\ Len(p) \in Nat /\ Len(p) >= 2
    BY <1>3 DEF Under
  <2>3. CASE Len(p) = 2
    <3>1. NoEntry(circuits, id)
      BY <2>2, <2>3 DEF EntriesLie, NoEntry
    <3> QED
      BY <2>1, <2>3, <3>1 DEF Over
  <2>4. CASE Len(p) # 2
    <3>1. Len(p) >= 3
      <4>1. \A n \in Nat : n >= 2 /\ n # 2 => n >= 3
        OBVIOUS
      <4> QED
        BY <2>2, <2>4, <4>1
    <3> QED
      BY <2>1, <2>2, <3>1
  <2> QED
    BY <2>3, <2>4
<1> QED
  BY <1>1, <1>2, <1>3 DEF Known

\* trellis_canopy_on_circuit_destroy.
LEMMA OnDestroyKeepsCircuits ==
    ASSUME CircuitInv, NEW b \in Bridges, NEW from \in Bridges \ {b}, OnCircuitDestroy(from, b)
    PROVE  CircuitInv'
<1> DEFINE m == Head(wires[<<from, b>>])
           vs == Received(from, b)
           ends == {e \in CircuitOf(b, m.id) \X Bridges : e[2] \in OtherEnd(e[1], from)}
<1>1. wires[<<from, b>>] # <<>> /\ m.kind = "destroy"
  BY DEF OnCircuitDestroy, Arrival
<1>2. m \in CircuitMessage /\ Carries(wires, from, b, 1, m.id, "destroy")
  BY <1>1, FirstMessage
<1>3. m.id \in Nat
  BY <1>1, <1>2 DEF CircuitMessage
<1>4. wires \in WireState /\ circuits \in EntriesState /\ OneEach(circuits)
  BY DEF CircuitInv
<1>5. vs \in WireState /\ Takes(wires, vs, from, b)
  BY <1>1, <1>4, ReceivedTakes DEF Received
<1>6. created' = created /\ torn' = torn
  BY DEF OnCircuitDestroy, m, vs, ends
<1>7. m.id \in 1..created
  <2>1. ~Unused(circuits, wires, m.id)
    BY <1>2 DEF Unused, NoneOf
  <2> QED
    BY <1>3, <2>1, AboutKnown
<1>8. \/ Over(circuits, vs, torn, m.id)
      \/ \E p \in Seq(Bridges) :
            /\ Len(p) >= 3 /\ p[1] = from /\ p[2] = b /\ m.id \in torn
            /\ EntriesLie(circuits, m.id, p)
            /\ CreateLeads(vs, m.id, p[Len(p) - 1], p[Len(p)]) /\ NoneOf(vs, m.id, "destroy")
  BY <1>2, <1>3, <1>5, DestroyArrives
<1>9. ASSUME NEW id \in Nat \ {m.id}, NEW what \in {"create", "destroy"}
      PROVE  ~Carries(wires, from, b, 1, id, what)
  BY <1>1, FirstMessage DEF m
<1>10. ASSUME NEW id \in Nat \ {m.id} PROVE LeavesAlone(wires, vs, id)
  BY <1>5, <1>9, <1>10 DEF LeavesAlone
<1>11. IF ends = {} THEN wires' = vs /\ UNCHANGED circuits
       ELSE \E e \in ends : /\ circuits' = [circuits EXCEPT ![b] = @ \ {e[1]}]
                            /\ wires' = IF e[2] = b THEN vs ELSE Sent(vs, b, e[2], m)
  BY DEF OnCircuitDestroy, m, vs, ends
<1> HIDE DEF vs
<1>12. CASE Over(circuits, vs, torn, m.id)
  <2>1. ends = {}
    BY <1>12 DEF Over, NoEntry, CircuitOf
  <2>2. wires' = vs /\ circuits' = circuits
    BY <1>11, <2>1
  <2>3. Known(circuits', wires', torn', m.id)
    BY <1>6, <1>12, <2>2 DEF Known
  <2>4. ASSUME NEW id \in Nat \ {m.id}
        PROVE  /\ Known(circuits, wires, torn, id) => Known(circuits', wires', torn', id)
               /\ Unused(circuits, wires, id) => Unused(circuits', wires', id)
    <3>1. SameEntries(circuits, circuits', id)
      BY <2>2 DEF SameEntries
    <3>2. LeavesAlone(wires, wires', id)
      BY <1>10, <2>2
    <3> QED
      BY <1>4, <1>6, <2>2, <3>1, <3>2, OthersStay
  <2> QED
    BY <1>3, <1>4, <1>5, <1>6, <1>7, <2>2, <2>3, <2>4, InvByCircuit
<1>13. ASSUME NEW p \in Seq(Bridges), Len(p) >= 3, p[1] = from, p[2] = b, m.id \in torn,
              EntriesLie(circuits, m.id, p),
              CreateLeads(vs, m.id, p[Len(p) - 1], p[Len(p)]), NoneOf(vs, m.id, "destroy")
       PROVE  CircuitInv'
  <2> DEFINE n == p[3]
  <2>1. n \in Bridges /\ 2 \in 2..(Len(p) - 1) /\ 2 - 1 = 1 /\ 2 + 1 = 3
    BY <1>13
  <2>2. PICK c \in circuits[b] : c.id = m.id
    BY <1>13, <2>1 DEF EntriesLie
  <2>3. c.source = from /\ c.next = n /\ c \in CircuitEntry
    <3>1. c.source = p[2 - 1] /\ c.next = p[2 + 1]
      BY <1>3, <1>13, <2>1, <2>2, EntryOnWay
    <3> QED
      BY <1>4, <1>13, <2>1, <2>2, <3>1 DEF EntriesState
  <2> HIDE DEF n
  <2>4. ends = {<<c, n>>}
    <3>1. CircuitOf(b, m.id) = {c}
      BY <1>4, <2>2 DEF CircuitOf, OneEach
    <3>2. OtherEnd(c, from) = {n}
      BY <2>3 DEF OtherEnd
    <3>3. \A e : e \in ends <=> e \in {c} \X Bridges /\ e[2] = n
      BY <3>1, <3>2
    <3> HIDE DEF ends
    <3>4. \A e : e \in {c} \X Bridges /\ e[2] = n <=> e = <<c, n>>
      BY <2>1
    <3> QED
      BY <3>3, <3>4
  <2>5. /\ circuits' = [circuits EXCEPT ![b] = @ \ {c}]
        /\ wires' = IF n = b THEN vs ELSE Sent(vs, b, n, m)
    <3> HIDE DEF ends
    <3>1. ends # {} /\ \A e \in ends : e[1] = c /\ e[2] = n
      BY <2>4
    <3>2. PICK e \in ends : /\ circuits' = [circuits EXCEPT ![b] = @ \ {e[1]}]
                            /\ wires' = IF e[2] = b THEN vs ELSE Sent(vs, b, e[2], m)
      BY <1>11, <3>1
    <3>3. e[1] = c /\ e[2] = n
      BY <3>1
    <3> QED
      BY <3>2, <3>3
  <2>6. circuits' \in EntriesState /\ OneEach(circuits') /\ OthersSame(circuits, circuits', c.id)
    <3>1. EntryGone(circuits, circuits', b, c)
      BY <2>5 DEF EntryGone
    <3> QED
      BY <1>4, <2>3, <3>1, EntriesChange
  <2>7. /\ wires' \in WireState
        /\ wires' = vs \/ Adds(vs, wires', b, n, m)
        /\ Known(circuits', wires', torn', m.id)
    <3>1. CASE n = b
      <4>1. Over(circuits', vs, torn, m.id)
        BY <1>3, <1>4, <1>13, <2>2, <2>5, <3>1, WayIsOver DEF n
      <4> QED
        BY <1>5, <1>6, <2>5, <3>1, <4>1 DEF Known
    <3>2. CASE n # b
      <4>1. wires' = [vs EXCEPT ![<<b, n>>] = Append(@, m)]
        BY <2>5, <3>2 DEF Sent
      <4>2. wires' \in WireState /\ Adds(vs, wires', b, n, m)
        BY <1>2, <1>5, <2>1, <4>1, SentAdds
      <4>3. Under(circuits', wires', torn, m.id, Tail(p))
        BY <1>1, <1>3, <1>4, <1>5, <1>13, <2>1, <2>2, <2>5, <3>2, <4>2, WayShortens DEF n
      <4>4. Tail(p) \in Seq(Bridges)
        BY <1>13
      <4> QED
        BY <1>6, <4>2, <4>3, <4>4 DEF Known
    <3> QED
      BY <3>1, <3>2
  <2>8. ASSUME NEW id \in Nat \ {m.id}
        PROVE  /\ Known(circuits, wires, torn, id) => Known(circuits', wires', torn', id)
               /\ Unused(circuits, wires, id) => Unused(circuits', wires', id)
    <3>1. SameEntries(circuits, circuits', id)
      BY <2>2, <2>6 DEF OthersSame
    <3>2. wires' = vs \/ LeavesAlone(vs, wires', id)
      BY <2>1, <2>7 DEF LeavesAlone
    <3>3. /\ Known(circuits, wires, torn, id) => Known(circuits', wires', torn, id)
          /\ Unused(circuits, wires, id) => Unused(circuits', wires', id)
      BY <1>4, <1>5, <1>10, <2>6, <3>1, <3>2, OthersStayTwice
    <3> QED
      BY <1>6, <3>3
  <2> QED
    BY <1>3, <1>6, <1>7, <2>6, <2>7, <2>8, InvByCircuit
<1> QED
  BY <1>8, <1>12, <1>13

\* trellis_canopy_circuit_destroy, by the origin.
LEMMA DestroyKeepsCircuits ==
    ASSUME CircuitInv, NEW b \in Bridges, DestroyCircuit(b)
    PROVE  CircuitInv'
<1>1. PICK c \in circuits[b] :
        /\ c.source = b
        /\ circuits' = [circuits EXCEPT ![b] = @ \ {c}]
        /\ wires' = Sent(wires, b, FarEnd(b, c), [kind |-> "destroy", id |-> c.id])
        /\ torn' = torn \cup {c.id}
  BY DEF DestroyCircuit
<1> DEFINE id0 == c.id
           m == [kind |-> "destroy", id |-> id0]
<1>2. created' = created
  BY DEF DestroyCircuit
<1>3. wires \in WireState /\ circuits \in EntriesState /\ OneEach(circuits)
  BY DEF CircuitInv
<1>4. c \in CircuitEntry /\ id0 \in Nat
  BY <1>3 DEF EntriesState, CircuitEntry
<1>5. m \in CircuitMessage /\ m.id = id0 /\ m.kind = "destroy"
  BY <1>4 DEF CircuitMessage
<1>6. id0 \in 1..created /\ Known(circuits, wires, torn, id0)
  <2>1. ~Unused(circuits, wires, id0)
    BY DEF Unused, NoEntry
  <2> QED
    BY <1>4, <2>1, AboutKnown
<1>7. PICK p \in Seq(Bridges) : Under(circuits, wires, torn, id0, p)
  <2>1. ~Over(circuits, wires, torn, id0)
    BY DEF Over, NoEntry
  <2> QED
    BY <1>6, <2>1 DEF Known
<1> HIDE DEF id0, m
<1>8. /\ EntriesLie(circuits, id0, p) /\ CreateLeads(wires, id0, p[Len(p) - 1], p[Len(p)])
      /\ DestroyFollows(wires, torn, id0, p) /\ Len(p) \in Nat /\ Len(p) >= 2
  BY <1>7 DEF Under
<1>9. PICK i \in 2..(Len(p) - 1) : b = p[i]
  BY <1>8 DEF EntriesLie, id0
<1>10. c.source = p[i - 1] /\ c.next = p[i + 1]
  BY <1>4, <1>8, <1>9, EntryOnWay DEF id0
<1>11. i = 2
  <2>1. p[i - 1] = p[i]
    BY <1>1, <1>9, <1>10
  <2>2. \A x, y \in 2..(Len(p) - 1) : p[x] = p[y] => x = y
    BY <1>8 DEF EntriesLie
  <2>3. i - 1 \notin 2..(Len(p) - 1)
    BY <2>1, <2>2
  <2> QED
    BY <1>8, <2>3
<1>12. /\ p[1] = b /\ p[2] = b /\ c.next = p[3] /\ Len(p) >= 3 /\ p[3] \in Bridges
  BY <1>1, <1>8, <1>9, <1>10, <1>11
<1>13. id0 \notin torn /\ NoneOf(wires, id0, "destroy") /\ p[2] # p[3]
  BY <1>8, <1>12 DEF DestroyFollows
<1> DEFINE n == p[3]
<1>14. n \in Bridges /\ n # b /\ wires' = [wires EXCEPT ![<<b, n>>] = Append(@, m)]
  BY <1>1, <1>12, <1>13 DEF FarEnd, Sent, m, id0
<1> HIDE DEF n
<1>15. wires' \in WireState /\ Adds(wires, wires', b, n, m)
  BY <1>3, <1>5, <1>14, SentAdds
<1>16. circuits' \in EntriesState /\ OneEach(circuits') /\ OthersSame(circuits, circuits', c.id)
  <2>1. EntryGone(circuits, circuits', b, c)
    BY <1>1 DEF EntryGone
  <2> QED
    BY <1>3, <1>4, <2>1, EntriesChange
<1>17. Known(circuits', wires', torn', id0)
  <2>1. id0 \in torn'
    BY <1>1 DEF id0
  <2>2. c \in circuits[b] /\ c.id = id0
    BY DEF id0
  <2>3. Under(circuits', wires', torn', id0, Tail(p))
    BY <1>1, <1>3, <1>4, <1>5, <1>8, <1>12, <1>13, <1>14, <1>15, <2>1, <2>2, WayShortens DEF n
  <2>4. Tail(p) \in Seq(Bridges)
    BY <1>12
  <2> QED
    BY <2>3, <2>4 DEF Known
<1>18. ASSUME NEW id \in Nat \ {id0}
       PROVE  /\ Known(circuits, wires, torn, id) => Known(circuits', wires', torn', id)
              /\ Unused(circuits, wires, id) => Unused(circuits', wires', id)
  <2>1. SameEntries(circuits, circuits', id) /\ m.id # id /\ (id \in torn <=> id \in torn')
    BY <1>1, <1>5, <1>16 DEF OthersSame, id0
  <2>2. LeavesAlone(wires, wires', id)
    BY <1>14, <1>15, <2>1 DEF LeavesAlone
  <2> QED
    BY <1>3, <1>16, <2>1, <2>2, OthersStay
<1> QED
  <2>1. torn' = torn \cup {id0}
    BY <1>1 DEF id0
  <2> QED
    BY <1>2, <1>4, <1>6, <1>15, <1>16, <1>17, <1>18, <2>1, InvByCircuit

\* No circuit was created.
LEMMA CircuitInvInit == CanopyInit => CircuitInv
<1> SUFFICES ASSUME CanopyInit PROVE CircuitInv
  OBVIOUS
<1>1. created = 0 /\ torn = {} /\ 1..created = {}
  BY DEF CanopyInit
<1>2. wires \in WireState /\ circuits \in EntriesState /\ OneEach(circuits)
  <2>1. <<>> \in Seq(CircuitMessage)
    OBVIOUS
  <2> QED
    BY <2>1 DEF CanopyInit, WireState, EntriesState, OneEach
<1>3. ASSUME NEW id \in Nat PROVE Unused(circuits, wires, id)
  <2>1. NoEntry(circuits, id)
    BY DEF CanopyInit, NoEntry
  <2>2. ASSUME NEW what PROVE NoneOf(wires, id, what)
    BY DEF CanopyInit, NoneOf, Carries
  <2> QED
    BY <2>1, <2>2 DEF Unused
<1>4. CreatedKnown /\ RestUnused
  BY <1>1, <1>3 DEF CreatedKnown, RestUnused
<1> QED
  BY <1>1, <1>2, <1>4 DEF CircuitInv

\* Routes lead to other bridges, so circuits stay as the invariant says.
LEMMA CircuitInvNext == RouteInv /\ CircuitInv /\ [CanopyNext]_canopyVars => CircuitInv'
<1> SUFFICES ASSUME RouteInv, CircuitInv, [CanopyNext]_canopyVars PROVE CircuitInv'
  OBVIOUS
<1>1. RoutesLead
  BY DEF RouteInv, GoodRoute, RoutesLead
<1>2. ASSUME UNCHANGED canopyCircuits PROVE CircuitInv'
  BY <1>2 DEF canopyCircuits, CircuitInv, CreatedKnown, RestUnused
<1>3. ASSUME NEW b, Announce(b) \/ OnAnnounce(b) \/ DropRoute(b) PROVE UNCHANGED canopyCircuits
  BY <1>3 DEF Announce, OnAnnounce, DropRoute
<1>4. CASE UNCHANGED canopyVars
  BY <1>2, <1>4 DEF canopyVars
<1> QED
  BY <1>1, <1>2, <1>3, <1>4, CreateKeepsCircuits, OnCreateKeepsCircuits, OnDestroyKeepsCircuits,
     DestroyKeepsCircuits DEF CanopyNext

\* A circuit that was given up and about which nothing is on its way is over.
LEMMA CircuitInvSuffices == CircuitInv => TornDown
<1> SUFFICES ASSUME CircuitInv, NEW id \in torn, Quiet(id) PROVE \A b \in Bridges : id \notin IdsAt(b)
  BY DEF TornDown
<1>1. id \in Nat /\ id \in 1..created
  BY DEF CircuitInv
<1>2. Known(circuits, wires, torn, id)
  BY <1>1 DEF CircuitInv, CreatedKnown
<1>3. NoneOf(wires, id, "destroy")
  <2>1. \A x, y \in Bridges : <<x, y>> \in DOMAIN wires
    BY DEF CircuitInv, WireState
  <2> QED
    BY <2>1 DEF NoneOf, Carries, Quiet
<1>4. ASSUME NEW p \in Seq(Bridges), Under(circuits, wires, torn, id, p) PROVE FALSE
  <2>1. SomeOf(wires, id, "destroy", p[1], p[2]) /\ Len(p) >= 2
    BY <1>4 DEF Under, DestroyFollows
  <2>2. p[1] \in Bridges /\ p[2] \in Bridges
    BY <2>1, WayEnds
  <2> QED
    BY <1>3, <2>1, <2>2 DEF SomeOf, NoneOf
<1>5. NoEntry(circuits, id)
  BY <1>2, <1>4 DEF Known, Over
<1> QED
  BY <1>5 DEF NoEntry, IdsAt

\* However announcements were delayed, repeated and replaced, and routes dropped and learnt
\* again, a route's path is a way through the bridges to its target; when the origin tore a
\* circuit down and the messages about it have arrived, no bridge holds an entry for it.
\* For any bridges, groves, limits and any number of circuits (canopy.c).
THEOREM RoutesEndHolds == GroupsSpec => []RoutesEnd
<1>1. GroupsInit => RouteInv /\ CircuitInv
  BY RouteInvInit, CircuitInvInit DEF GroupsInit
<1>2. RouteInv /\ CircuitInv /\ [GroupsNext]_groupVars => RouteInv' /\ CircuitInv'
  BY RouteInvNext, CircuitInvNext, PartsStep
<1>3. RouteInv => RoutesAreWays
  BY DEF RouteInv, GoodRoute, RoutesAreWays
<1>4. RouteInv /\ CircuitInv => RoutesEnd
  BY <1>3, CircuitInvSuffices DEF RoutesEnd
<1> QED
  BY <1>1, <1>2, <1>4, PTL DEF GroupsSpec

-----------------------------------------------------------------------------
(* Receipts: the entry of a payer remembers the highest serial credited.   *)

Names == {ByFingerprint(p) : p \in Traders} \cup {ByKey(p) : p \in Traders}
Book == [name : Names, bytes : Nat, since : Nat, serial : Nat, last : Nat]
SignedReceipt == [payer : Traders, relay : Traders, units : Nat, serial : Nat, window : Nat]

OneEntryPerName(t) == \A e, f \in t : e.name = f.name => e = f
BookTable(t) == t \subseteq Book /\ OneEntryPerName(t)

\* Every entry of t is still there in u, and its last serial did not fall.
Kept(t, u) == \A e \in t : \E f \in u : f.name = e.name /\ e.last <= f.last

Credited(n, t, cr) ==
    \A r \in DOMAIN cr : cr[r] <= 1 /\ \E e \in t : e.name = ByKey(r.payer) /\ r.serial <= e.last

IncentiveInv ==
    /\ tracked \in [Traders -> SUBSET Book] /\ windows \in [Traders -> Nat]
    /\ issued \subseteq SignedReceipt /\ DOMAIN credits = Traders
    /\ \A n \in Traders :
        /\ OneEntryPerName(tracked[n])
        /\ \A r \in DOMAIN credits[n] : r \in issued /\ credits[n][r] \in Nat
        /\ n \notin evicted => Credited(n, tracked[n], credits[n])

\* What incentive_get_or_create_peer gives for a name.
Opened(n, name, f) ==
    /\ f.entry \in f.table /\ f.entry.name = name /\ f.entry \in Book
    /\ BookTable(f.table)
    /\ tracked[n] \subseteq f.table \/ n \in Evictions(n, f)
    /\ \A e \in tracked[n] : e.name = name => e = f.entry

\* The entry that is found or made for a name is the only one with that name; the others are
\* kept but for the one a full table gives up.
LEMMA FoundIsOpened ==
    ASSUME IncentiveInv, NEW n \in Traders, NEW name \in Names, NEW f \in Found(n, name)
    PROVE  Opened(n, name, f)
<1> DEFINE t == tracked[n]
           fresh == FreshBook(n, name)
<1>1. t \subseteq Book /\ OneEntryPerName(t)
  BY DEF IncentiveInv
<1>2. fresh \in Book /\ fresh.name = name
  BY DEF FreshBook, Book, IncentiveInv
<1>3. n \in Evictions(n, f) \/ t \subseteq f.table
  BY DEF Evictions
<1> HIDE DEF fresh, t
<1>4. CASE \E e \in t : e.name = name
  <2>1. PICK x \in t : x.name = name /\ f = [table |-> t, entry |-> x]
    BY <1>4 DEF Found, t
  <2>2. f.table = t /\ f.entry = x
    BY <2>1
  <2>3. \A e \in t : e.name = name => e = x
    BY <1>1, <2>1 DEF OneEntryPerName
  <2> QED
    BY <1>1, <1>3, <2>1, <2>2, <2>3 DEF Opened, BookTable, t
<1>5. CASE ~\E e \in t : e.name = name
  <2>1. PICK rest \in SUBSET t : f = [table |-> rest \cup {fresh}, entry |-> fresh]
    <3>1. CASE Cardinality(t) < MaxTracked
      BY <1>5, <3>1 DEF Found, t, fresh
    <3>2. CASE ~(Cardinality(t) < MaxTracked)
      <4>1. PICK e \in t : f = [table |-> (t \ {e}) \cup {fresh}, entry |-> fresh]
        BY <1>5, <3>2 DEF Found, t, fresh
      <4>2. t \ {e} \in SUBSET t
        OBVIOUS
      <4> QED
        BY <4>1, <4>2
    <3> QED
      BY <3>1, <3>2
  <2>2. f.table = rest \cup {fresh} /\ f.entry = fresh
    BY <2>1
  <2>3. \A e \in rest : e \in t /\ e.name # name
    BY <1>5
  <2>4. BookTable(f.table)
    BY <1>1, <1>2, <2>2, <2>3 DEF BookTable, OneEntryPerName
  <2> QED
    BY <1>2, <1>3, <1>5, <2>2, <2>4 DEF Opened, t
<1> QED
  BY <1>4, <1>5

\* An entry is put back under its name with a last serial that did not fall.
LEMMA PutKeeps ==
    ASSUME NEW n, NEW name, NEW f, Opened(n, name, f),
           NEW e \in Book, e.name = name, f.entry.last <= e.last
    PROVE  /\ BookTable(Put(f, e)) /\ e \in Put(f, e)
           /\ n \notin Evictions(n, f) => Kept(tracked[n], Put(f, e))
<1>1. BookTable(Put(f, e)) /\ e \in Put(f, e)
  BY DEF Opened, Put, BookTable, OneEntryPerName
<1>2. ASSUME n \notin Evictions(n, f), NEW x \in tracked[n]
      PROVE  \E y \in Put(f, e) : y.name = x.name /\ x.last <= y.last
  <2>1. x \in f.table /\ x \in Book
    BY <1>2 DEF Opened, BookTable
  <2>2. x.last \in Nat
    BY <2>1 DEF Book
  <2>3. CASE x = f.entry
    BY <1>1, <2>3 DEF Opened
  <2>4. CASE x # f.entry
    BY <2>1, <2>2, <2>4 DEF Put
  <2> QED
    BY <2>3, <2>4
<1> QED
  BY <1>1, <1>2 DEF Kept

\* What was credited stays covered by the entries when no entry is lost.
LEMMA CreditedStays ==
    ASSUME NEW n, NEW t \in SUBSET Book, NEW u \in SUBSET Book, Kept(t, u), NEW cr, Credited(n, t, cr),
           \A r \in DOMAIN cr : r.serial \in Nat
    PROVE  Credited(n, u, cr)
<1> SUFFICES ASSUME NEW r \in DOMAIN cr
             PROVE  cr[r] <= 1 /\ \E e \in u : e.name = ByKey(r.payer) /\ r.serial <= e.last
  BY DEF Credited
<1>1. PICK e \in t : cr[r] <= 1 /\ e.name = ByKey(r.payer) /\ r.serial <= e.last
  BY DEF Credited
<1>2. PICK f \in u : f.name = e.name /\ e.last <= f.last
  BY DEF Kept
<1>3. e.last \in Nat /\ f.last \in Nat /\ r.serial \in Nat
  BY DEF Book
<1>4. r.serial <= f.last
  BY <1>1, <1>2, <1>3
<1> QED
  BY <1>1, <1>2, <1>4

\* Nothing was credited.
LEMMA IncentiveInvInit == IncentiveInit => IncentiveInv
BY DEF IncentiveInit, IncentiveInv, OneEntryPerName, Credited

\* A step that credits nothing: one node's table changes and keeps its entries unless the
\* node gives one up.
LEMMA TableStep ==
    ASSUME IncentiveInv, NEW n \in Traders, NEW t, BookTable(t),
           tracked' = [tracked EXCEPT ![n] = t],
           n \notin evicted' => Kept(tracked[n], t),
           evicted \subseteq evicted', evicted' \subseteq evicted \cup {n},
           windows' \in [Traders -> Nat], issued \subseteq issued', issued' \subseteq SignedReceipt,
           credits' = credits
    PROVE  IncentiveInv'
<1>1. tracked' \in [Traders -> SUBSET Book] /\ \A m \in Traders : OneEntryPerName(tracked'[m])
  BY DEF IncentiveInv, BookTable
<1>2. ASSUME NEW m \in Traders, m \notin evicted' PROVE Credited(m, tracked'[m], credits[m])
  <2>1. Credited(m, tracked[m], credits[m])
    BY <1>2 DEF IncentiveInv
  <2>2. CASE m # n
    <3>1. tracked'[m] = tracked[m]
      BY <2>2 DEF IncentiveInv
    <3> QED
      BY <2>1, <3>1
  <2>3. CASE m = n
    <3>1. tracked'[n] = t /\ t \in SUBSET Book /\ tracked[n] \in SUBSET Book
      BY DEF IncentiveInv, BookTable
    <3>2. Kept(tracked[n], t)
      BY <1>2, <2>3
    <3>3. \A r \in DOMAIN credits[n] : r.serial \in Nat
      BY DEF IncentiveInv, SignedReceipt
    <3>4. Credited(n, t, credits[n])
      BY <2>1, <2>3, <3>1, <3>2, <3>3, CreditedStays
    <3> QED
      BY <2>3, <3>1, <3>4
  <2> QED
    BY <2>2, <2>3
<1>3. ASSUME NEW m \in Traders
      PROVE  \A r \in DOMAIN credits[m] : r \in issued' /\ credits[m][r] \in Nat
  BY DEF IncentiveInv
<1> QED
  BY <1>1, <1>2, <1>3 DEF IncentiveInv

\* Counting relayed bytes leaves the last serials alone.
LEMMA RecordRelayKeeps ==
    ASSUME IncentiveInv, NEW n \in Traders, NEW p \in Traders, RecordRelay(n, p)
    PROVE  IncentiveInv'
<1>1. PICK f \in Found(n, ByFingerprint(p)) :
        /\ tracked' = [tracked EXCEPT ![n] = Put(f, [f.entry EXCEPT !.bytes = @ + 1])]
        /\ evicted' = Evictions(n, f)
  BY DEF RecordRelay
<1>2. ByFingerprint(p) \in Names
  BY DEF Names
<1>3. Opened(n, ByFingerprint(p), f)
  BY <1>2, FoundIsOpened
<1> DEFINE e == [f.entry EXCEPT !.bytes = @ + 1]
           t == Put(f, e)
<1>4. e \in Book /\ e.name = ByFingerprint(p) /\ f.entry.last <= e.last
  <2>1. f.entry \in Book /\ f.entry.name = ByFingerprint(p)
    BY <1>3 DEF Opened
  <2>2. f.entry.last \in Nat /\ f.entry.bytes + 1 \in Nat
    BY <2>1 DEF Book
  <2>3. e \in Book /\ e.name = f.entry.name /\ e.last = f.entry.last
    BY <2>1, <2>2 DEF Book
  <2> QED
    BY <2>1, <2>2, <2>3
<1> HIDE DEF e
<1>5. BookTable(t) /\ (n \notin Evictions(n, f) => Kept(tracked[n], t))
  BY <1>3, <1>4, PutKeeps
<1>6. tracked' = [tracked EXCEPT ![n] = t]
  BY <1>1 DEF e
<1> HIDE DEF t
<1>7. evicted \subseteq evicted' /\ evicted' \subseteq evicted \cup {n}
  BY <1>1 DEF Evictions
<1>8. windows' \in [Traders -> Nat] /\ issued' = issued /\ credits' = credits /\ issued \subseteq SignedReceipt
  BY DEF RecordRelay, IncentiveInv
<1> QED
  BY <1>1, <1>5, <1>6, <1>7, <1>8, TableStep

\* Settling an entry leaves its name and its last serial alone.
LEMMA SettleKeeps ==
    ASSUME IncentiveInv, NEW n \in Traders, Settle(n)
    PROVE  IncentiveInv'
<1>1. PICK due \in SUBSET {e \in tracked[n] : e.bytes >= MinUnits} :
        /\ issued' = issued \cup {Receipt(n, e) : e \in due}
        /\ tracked' = [tracked EXCEPT ![n] = (@ \ due) \cup {Settled(n, e) : e \in due}]
  BY DEF Settle
<1> DEFINE t == (tracked[n] \ due) \cup {Settled(n, e) : e \in due}
<1>2. tracked[n] \subseteq Book /\ OneEntryPerName(tracked[n]) /\ due \subseteq tracked[n] /\ windows[n] \in Nat
  BY DEF IncentiveInv
<1>3. ASSUME NEW e \in due
      PROVE  /\ Settled(n, e) \in Book /\ Settled(n, e).name = e.name /\ Settled(n, e).last = e.last
             /\ e.last \in Nat /\ Receipt(n, e) \in SignedReceipt
  <2>1. /\ e \in Book /\ e.name \in Names /\ {e.bytes, e.serial, e.last, e.since} \subseteq Nat
        /\ windows[n] + 1 \in Nat
    BY <1>2 DEF Book
  <2>2. e.name[2] \in Traders
    BY <2>1 DEF Names, ByFingerprint, ByKey
  <2>3. Receipt(n, e) \in SignedReceipt
    BY <1>2, <2>1, <2>2 DEF Receipt, SignedReceipt
  <2>4. e.serial + 1 \in Nat
    BY <2>1
  <2> DEFINE s == e.serial + 1
             w == windows[n] + 1
  <2>5. s \in Nat /\ w \in Nat /\ Settled(n, e) = [e EXCEPT !.bytes = 0, !.since = w, !.serial = s]
    BY <2>1, <2>4 DEF Settled, Book
  <2> HIDE DEF s, w
  <2>6. Settled(n, e) \in Book /\ Settled(n, e).name = e.name /\ Settled(n, e).last = e.last
    <3>1. Settled(n, e) = [e EXCEPT !.bytes = 0, !.since = w, !.serial = s]
      BY <2>5
    <3>2. e \in Book /\ s \in Nat /\ w \in Nat /\ 0 \in Nat
      BY <2>1, <2>5
    <3> DEFINE z == 0
    <3>3. z \in Nat /\ Settled(n, e) = [e EXCEPT !.bytes = z, !.since = w, !.serial = s]
      BY <3>1
    <3> HIDE DEF z
    <3> QED
      BY ONLY <3>2, <3>3 DEF Book
  <2> QED
    BY <2>1, <2>3, <2>6
<1>4. BookTable(t)
  <2>1. t \subseteq Book
    BY <1>2, <1>3
  <2>2. \A x \in t : \E e \in tracked[n] : e.name = x.name /\ ((x = e /\ e \notin due) \/ (x = Settled(n, e) /\ e \in due))
    <3>1. ASSUME NEW x \in tracked[n] \ due
          PROVE  \E e \in tracked[n] : e.name = x.name /\ ((x = e /\ e \notin due) \/ (x = Settled(n, e) /\ e \in due))
      <4>1. x \in tracked[n] /\ x.name = x.name /\ x = x /\ x \notin due
        OBVIOUS
      <4> QED
        BY <4>1, Zenon
    <3>2. ASSUME NEW y \in due
          PROVE  \E e \in tracked[n] : /\ e.name = Settled(n, y).name
                                      /\ ((Settled(n, y) = e /\ e \notin due) \/ (Settled(n, y) = Settled(n, e) /\ e \in due))
      BY <1>2, <1>3
    <3> QED
      BY <3>1, <3>2
  <2>3. OneEntryPerName(t)
    <3> SUFFICES ASSUME NEW x \in t, NEW y \in t, x.name = y.name PROVE x = y
      BY DEF OneEntryPerName
    <3>1. PICK e \in tracked[n] : e.name = x.name /\ ((x = e /\ e \notin due) \/ (x = Settled(n, e) /\ e \in due))
      BY <2>2
    <3>2. PICK f \in tracked[n] : f.name = y.name /\ ((y = f /\ f \notin due) \/ (y = Settled(n, f) /\ f \in due))
      BY <2>2
    <3>3. e = f
      BY <1>2, <3>1, <3>2 DEF OneEntryPerName
    <3> QED
      BY <3>1, <3>2, <3>3
  <2> QED
    BY <2>1, <2>3 DEF BookTable
<1>5. Kept(tracked[n], t)
  <2> SUFFICES ASSUME NEW e \in tracked[n] PROVE \E f \in t : f.name = e.name /\ e.last <= f.last
    BY DEF Kept
  <2>1. CASE e \in due
    <3>1. Settled(n, e) \in t
      BY <2>1
    <3>2. e.last <= e.last
      BY <1>3, <2>1
    <3> QED
      BY <1>3, <2>1, <3>1, <3>2
  <2>2. CASE e \notin due
    <3>1. e \in t /\ e.last \in Nat
      BY <1>2, <2>2 DEF Book
    <3> QED
      BY <3>1
  <2> QED
    BY <2>1, <2>2
<1>6. tracked' = [tracked EXCEPT ![n] = t]
  BY <1>1
<1>7. issued \subseteq issued' /\ issued' \subseteq SignedReceipt
  <2>1. issued \subseteq SignedReceipt
    BY DEF IncentiveInv
  <2>2. {Receipt(n, e) : e \in due} \subseteq SignedReceipt
    BY <1>3
  <2> QED
    BY <1>1, <2>1, <2>2
<1>8. windows' \in [Traders -> Nat] /\ credits' = credits /\ evicted' = evicted
  <2>1. windows' = [windows EXCEPT ![n] = @ + 1] /\ credits' = credits /\ evicted' = evicted
    BY DEF Settle
  <2> QED
    BY <2>1 DEF IncentiveInv
<1> HIDE DEF t
<1> QED
  BY <1>4, <1>5, <1>6, <1>7, <1>8, TableStep

\* A receipt that is credited has a serial above the last one of its payer, so that it was not
\* credited before.
LEMMA AcceptReceiptKeeps ==
    ASSUME IncentiveInv, NEW n \in Traders, AcceptReceipt(n)
    PROVE  IncentiveInv'
<1>1. PICK r \in {x \in issued : x.relay = n} : \E f \in Found(n, ByKey(r.payer)) :
        /\ evicted' = Evictions(n, f)
        /\ IF Newer(r, f.entry)
           THEN /\ tracked' = [tracked EXCEPT ![n] = Put(f, [f.entry EXCEPT !.last = r.serial])]
                /\ IF Cardinality(held[n]) < MaxBuffered
                   THEN credits' = [credits EXCEPT ![n] = [x \in DOMAIN @ \cup {r} |->
                                (IF x \in DOMAIN @ THEN @[x] ELSE 0) + (IF x = r THEN 1 ELSE 0)]]
                   ELSE UNCHANGED credits
           ELSE tracked' = [tracked EXCEPT ![n] = f.table] /\ UNCHANGED credits
  BY DEF AcceptReceipt
<1>2. PICK f \in Found(n, ByKey(r.payer)) :
        /\ evicted' = Evictions(n, f)
        /\ IF Newer(r, f.entry)
           THEN /\ tracked' = [tracked EXCEPT ![n] = Put(f, [f.entry EXCEPT !.last = r.serial])]
                /\ IF Cardinality(held[n]) < MaxBuffered
                   THEN credits' = [credits EXCEPT ![n] = [x \in DOMAIN @ \cup {r} |->
                                (IF x \in DOMAIN @ THEN @[x] ELSE 0) + (IF x = r THEN 1 ELSE 0)]]
                   ELSE UNCHANGED credits
           ELSE tracked' = [tracked EXCEPT ![n] = f.table] /\ UNCHANGED credits
  BY <1>1
<1>3. /\ r \in issued /\ r \in SignedReceipt /\ r.payer \in Traders /\ r.serial \in Nat
      /\ ByKey(r.payer) \in Names
  BY DEF IncentiveInv, SignedReceipt, Names
<1>4. Opened(n, ByKey(r.payer), f)
  BY <1>3, FoundIsOpened
<1>5. evicted \subseteq evicted' /\ evicted' \subseteq evicted \cup {n}
  BY <1>2 DEF Evictions
<1>6. windows' \in [Traders -> Nat] /\ issued' = issued /\ issued \subseteq SignedReceipt
  BY DEF AcceptReceipt, IncentiveInv
<1>7. CASE ~Newer(r, f.entry)
  <2>1. BookTable(f.table) /\ (n \notin evicted' => Kept(tracked[n], f.table))
    <3>1. \A e \in Book : e.last <= e.last
      BY DEF Book
    <3> QED
      BY <1>2, <1>4, <3>1 DEF Opened, Kept, BookTable
  <2>2. tracked' = [tracked EXCEPT ![n] = f.table] /\ credits' = credits
    BY <1>2, <1>7
  <2> QED
    BY <1>5, <1>6, <2>1, <2>2, TableStep
<1>8. CASE Newer(r, f.entry)
  <2> DEFINE e == [f.entry EXCEPT !.last = r.serial]
             t == Put(f, e)
  <2>1. /\ e \in Book /\ e.name = ByKey(r.payer) /\ f.entry.last <= e.last /\ e.last = r.serial
        /\ f.entry.last \in Nat /\ f.entry.last < r.serial
    <3>1. f.entry \in Book /\ f.entry.name = ByKey(r.payer) /\ f.entry.last \in Nat
      BY <1>4 DEF Opened, Book
    <3>2. e \in Book /\ e.name = f.entry.name /\ e.last = r.serial
      BY <1>3, <3>1 DEF Book
    <3> QED
      BY <1>3, <1>8, <3>1, <3>2 DEF Newer
  <2>2. tracked' = [tracked EXCEPT ![n] = t]
    BY <1>2, <1>8
  <2> HIDE DEF e
  <2>3. BookTable(t) /\ e \in t /\ (n \notin evicted' => Kept(tracked[n], t))
    BY <1>2, <1>4, <2>1, PutKeeps
  <2> HIDE DEF t
  <2>4. CASE credits' = credits
    BY <1>5, <1>6, <2>2, <2>3, <2>4, TableStep
  <2>5. CASE credits' = [credits EXCEPT ![n] = [x \in DOMAIN @ \cup {r} |->
                  (IF x \in DOMAIN @ THEN @[x] ELSE 0) + (IF x = r THEN 1 ELSE 0)]]
    <3> DEFINE old == credits[n]
               cr == [x \in DOMAIN old \cup {r} |->
                        (IF x \in DOMAIN old THEN old[x] ELSE 0) + (IF x = r THEN 1 ELSE 0)]
    <3>1. DOMAIN credits' = Traders /\ credits'[n] = cr /\ \A m \in Traders \ {n} : credits'[m] = credits[m]
      BY <2>5 DEF IncentiveInv
    <3>2. \A x \in DOMAIN old : x \in issued /\ old[x] \in Nat
      BY DEF IncentiveInv
    <3> HIDE DEF old
    <3>3. \A x \in DOMAIN cr : x \in issued /\ cr[x] \in Nat
      BY <1>3, <3>2
    <3>4. ASSUME n \notin evicted' PROVE Credited(n, t, cr)
      <4>1. Credited(n, tracked[n], old)
        BY <1>5, <3>4 DEF IncentiveInv, old
      <4>2. r \notin DOMAIN old
        <5>1. SUFFICES ASSUME r \in DOMAIN old PROVE FALSE
          OBVIOUS
        <5>2. PICK x \in tracked[n] : x.name = ByKey(r.payer) /\ r.serial <= x.last
          BY <4>1, <5>1 DEF Credited
        <5>3. x = f.entry
          BY <1>4, <5>2 DEF Opened
        <5> QED
          BY <1>3, <2>1, <5>2, <5>3
      <4>3. Credited(n, t, old)
        <5>1. t \in SUBSET Book /\ tracked[n] \in SUBSET Book
          BY <2>3 DEF BookTable, IncentiveInv
        <5>2. \A x \in DOMAIN old : x.serial \in Nat
          BY <3>2 DEF IncentiveInv, SignedReceipt
        <5> QED
          BY <2>3, <3>4, <4>1, <5>1, <5>2, CreditedStays
      <4>4. ASSUME NEW x \in DOMAIN cr
            PROVE  cr[x] <= 1 /\ \E y \in t : y.name = ByKey(x.payer) /\ x.serial <= y.last
        <5>1. CASE x = r
          <6>1. cr[r] = 1
            BY <4>2
          <6>2. r.serial <= e.last
            BY <1>3, <2>1
          <6> QED
            BY <2>1, <2>3, <5>1, <6>1, <6>2
        <5>2. CASE x # r
          <6>1. x \in DOMAIN old /\ cr[x] = old[x]
            BY <3>2, <5>2
          <6> QED
            BY <4>3, <6>1 DEF Credited
        <5> QED
          BY <5>1, <5>2
      <4> QED
        BY <4>4 DEF Credited
    <3> HIDE DEF cr
    <3>5. ASSUME NEW m \in Traders
          PROVE  /\ OneEntryPerName(tracked'[m])
                 /\ \A x \in DOMAIN credits'[m] : x \in issued' /\ credits'[m][x] \in Nat
                 /\ m \notin evicted' => Credited(m, tracked'[m], credits'[m])
      <4>1. CASE m = n
        <5>1. tracked'[n] = t
          BY <2>2 DEF IncentiveInv
        <5> QED
          BY <1>6, <2>3, <3>1, <3>3, <3>4, <4>1, <5>1 DEF BookTable
      <4>2. CASE m # n
        <5>1. tracked'[m] = tracked[m] /\ credits'[m] = credits[m]
          BY <2>2, <3>1, <4>2 DEF IncentiveInv
        <5> QED
          BY <1>5, <1>6, <5>1 DEF IncentiveInv
      <4> QED
        BY <4>1, <4>2
    <3>6. tracked' \in [Traders -> SUBSET Book]
      BY <2>2, <2>3 DEF IncentiveInv, BookTable
    <3> QED
      BY <1>6, <3>1, <3>5, <3>6 DEF IncentiveInv
  <2> QED
    BY <1>2, <1>8, <2>4, <2>5
<1> QED
  BY <1>7, <1>8

-----------------------------------------------------------------------------
(* Sums of units.                                                          *)

\* g gives the units of every set of receipts among S.
IsSum(g, S) ==
    /\ g \in [SUBSET S -> Nat] /\ g[{}] = 0
    /\ \A T \in SUBSET S : \A x \in T : g[T] = x.units + g[T \ {x}]

\* There is such a sum: the least set without one would be one receipt more than a set with one.
LEMMA SumExists ==
    ASSUME NEW S, IsFiniteSet(S), \A x \in S : x.units \in Nat
    PROVE  \E g : IsSum(g, S)
<1> DEFINE Bad == {n \in Nat : \E T \in SUBSET S : Cardinality(T) = n /\ ~\E g : IsSum(g, T)}
<1>1. SUFFICES ASSUME ~\E g : IsSum(g, S) PROVE FALSE
  OBVIOUS
<1>2. Cardinality(S) \in Bad
  <2>1. Cardinality(S) \in Nat /\ S \in SUBSET S
    BY FS_CardinalityType
  <2> QED
    BY <1>1, <2>1
<1>3. PICK n \in Bad : \A m \in Bad : n <= m
  <2>1. Bad \subseteq Nat /\ Bad # {}
    BY <1>2
  <2> HIDE DEF Bad
  <2> QED
    BY <2>1, LeastNatural
<1>4. PICK T \in SUBSET S : Cardinality(T) = n /\ ~\E g : IsSum(g, T)
  BY <1>3
<1>5. T # {}
  <2> SUFFICES ASSUME T = {} PROVE FALSE
    OBVIOUS
  <2> DEFINE g == [s \in SUBSET {} |-> 0]
  <2>1. SUBSET {} = {{}} 
    OBVIOUS
  <2>2. IsSum(g, {})
    BY <2>1 DEF IsSum
  <2> QED
    BY <1>4, <2>2
<1>6. PICK a \in T : TRUE
  BY <1>5
<1>7. IsFiniteSet(T) /\ IsFiniteSet(T \ {a}) /\ Cardinality(T \ {a}) = n - 1
  BY <1>4, FS_Subset, FS_RemoveElement
<1>8. n \in Nat /\ Cardinality(T \ {a}) \in Nat
  BY <1>3, <1>7, FS_CardinalityType
<1>9. PICK h : IsSum(h, T \ {a})
  <2>1. T \ {a} \in SUBSET S /\ ~(n <= n - 1)
    BY <1>8
  <2> QED
    BY <1>3, <1>7, <1>8, <2>1
<1> DEFINE g == [s \in SUBSET T |-> IF a \in s THEN a.units + h[s \ {a}] ELSE h[s]]
<1>10. IsSum(g, T)
  <2>1. a \in S /\ a.units \in Nat
    OBVIOUS
  <2>2. \A s \in SUBSET T : s \ {a} \in SUBSET (T \ {a}) /\ (a \notin s => s \in SUBSET (T \ {a}))
    OBVIOUS
  <2>3. g \in [SUBSET T -> Nat]
    BY <1>9, <2>1, <2>2 DEF IsSum
  <2>4. g[{}] = 0
    BY <1>9 DEF IsSum
  <2>5. ASSUME NEW s \in SUBSET T, NEW x \in s PROVE g[s] = x.units + g[s \ {x}]
    <3>1. x \in S /\ x.units \in Nat /\ s \ {x} \in SUBSET T
      OBVIOUS
    <3>2. CASE x = a
      <4>1. g[s] = a.units + h[s \ {a}] /\ g[s \ {a}] = h[s \ {a}]
        BY <3>1, <3>2
      <4> QED
        BY <3>2, <4>1
    <3>3. CASE x # a /\ a \in s
      <4>1. /\ s \ {a} \in SUBSET (T \ {a}) /\ x \in s \ {a}
            /\ (s \ {a}) \ {x} = (s \ {x}) \ {a} /\ (s \ {a}) \ {x} \in SUBSET (T \ {a})
        BY <3>3
      <4>2. h[s \ {a}] = x.units + h[(s \ {a}) \ {x}] /\ h[(s \ {a}) \ {x}] \in Nat
        BY <1>9, <4>1 DEF IsSum
      <4>3. g[s] = a.units + h[s \ {a}] /\ g[s \ {x}] = a.units + h[(s \ {x}) \ {a}]
        BY <3>1, <3>3
      <4> HIDE DEF g
      <4> QED
        BY <2>1, <3>1, <4>1, <4>2, <4>3
    <3>4. CASE x # a /\ a \notin s
      <4>1. s \in SUBSET (T \ {a})
        BY <3>4
      <4>2. h[s] = x.units + h[s \ {x}]
        BY <1>9, <4>1 DEF IsSum
      <4>3. g[s] = h[s] /\ g[s \ {x}] = h[s \ {x}]
        BY <3>1, <3>4
      <4> QED
        BY <4>2, <4>3
    <3> QED
      BY <3>2, <3>3, <3>4
  <2> HIDE DEF g
  <2> QED
    BY <2>3, <2>4, <2>5 DEF IsSum
<1> QED
  BY <1>4, <1>10

\* It is what the fold computes, whichever order it takes the receipts in.
LEMMA UnitsAreSum ==
    ASSUME NEW S, IsFiniteSet(S), \A x \in S : x.units \in Nat, NEW g, IsSum(g, S)
    PROVE  UnitsOf(S) = g[S]
<1> DEFINE one(s) == CHOOSE x \in s : TRUE
           Next1(f) == [s \in SUBSET S |-> IF s = {} THEN 0 ELSE one(s).units + f[s \ {one(s)}]]
           iter == CHOOSE f : f = Next1(f)
<1>1. UnitsOf(S) = iter[S]
  BY DEF UnitsOf, MapThenSumSet, MapThenFoldSet
<1>2. g = Next1(g)
  <2>1. \A s \in SUBSET S : s # {} => one(s) \in s
    OBVIOUS
  <2>2. g \in [SUBSET S -> Nat] /\ g[{}] = 0 /\ \A T \in SUBSET S : \A x \in T : g[T] = x.units + g[T \ {x}]
    BY DEF IsSum
  <2>3. \A s \in SUBSET S : g[s] = IF s = {} THEN 0 ELSE one(s).units + g[s \ {one(s)}]
    BY <2>1, <2>2
  <2> QED
    BY <2>2, <2>3
<1>3. iter = Next1(iter)
  BY <1>2
<1> HIDE DEF iter
<1> DEFINE Bad == {n \in Nat : \E T \in SUBSET S : Cardinality(T) = n /\ iter[T] # g[T]}
<1>4. SUFFICES ASSUME iter[S] # g[S] PROVE FALSE
  BY <1>1
<1>5. Cardinality(S) \in Bad
  <2>1. Cardinality(S) \in Nat /\ S \in SUBSET S
    BY FS_CardinalityType
  <2> QED
    BY <1>4, <2>1
<1>6. PICK n \in Bad : \A m \in Bad : n <= m
  <2>1. Bad \subseteq Nat /\ Bad # {}
    BY <1>5
  <2> HIDE DEF Bad
  <2> QED
    BY <2>1, LeastNatural
<1>7. PICK T \in SUBSET S : Cardinality(T) = n /\ iter[T] # g[T]
  BY <1>6
<1>8. iter[T] = IF T = {} THEN 0 ELSE one(T).units + iter[T \ {one(T)}]
  BY <1>3
<1>9. g[T] = IF T = {} THEN 0 ELSE one(T).units + g[T \ {one(T)}]
  BY <1>2
<1>10. T # {}
  BY <1>7, <1>8, <1>9
<1>11. one(T) \in T
  BY <1>10
<1> DEFINE a == one(T)
<1>12. a \in T
  BY <1>11
<1>13. iter[T \ {a}] # g[T \ {a}]
  BY <1>7, <1>8, <1>9, <1>10
<1> HIDE DEF a
<1>14. IsFiniteSet(T) /\ IsFiniteSet(T \ {a}) /\ Cardinality(T \ {a}) = n - 1
  BY <1>7, <1>12, FS_Subset, FS_RemoveElement
<1>15. n \in Nat /\ Cardinality(T \ {a}) \in Nat /\ T \ {a} \in SUBSET S /\ ~(n <= n - 1)
  BY <1>6, <1>14, FS_CardinalityType
<1>16. Cardinality(T \ {a}) \in Bad
  BY <1>13, <1>15
<1> HIDE DEF Bad
<1> QED
  BY <1>6, <1>14, <1>15, <1>16

\* A receipt more adds its units.
LEMMA UnitsAdd ==
    ASSUME NEW S, IsFiniteSet(S), \A x \in S : x.units \in Nat, NEW r, r.units \in Nat, r \notin S
    PROVE  UnitsOf(S) \in Nat /\ UnitsOf(S \cup {r}) = UnitsOf(S) + r.units
<1> DEFINE U == S \cup {r}
<1>1. IsFiniteSet(U) /\ \A x \in U : x.units \in Nat
  BY FS_AddElement
<1>2. PICK g : IsSum(g, U)
  BY <1>1, SumExists
<1> DEFINE h == [s \in SUBSET S |-> g[s]]
<1>3. IsSum(h, S)
  BY <1>2 DEF IsSum
<1>4. UnitsOf(S) = g[S] /\ g[S] \in Nat
  <2>1. UnitsOf(S) = h[S]
    BY <1>3, UnitsAreSum
  <2> QED
    BY <1>2, <2>1 DEF IsSum
<1>5. UnitsOf(U) = g[U]
  BY <1>1, <1>2, UnitsAreSum
<1>6. g[U] = r.units + g[U \ {r}] /\ U \ {r} = S
  BY <1>2 DEF IsSum
<1>7. UnitsOf(S \cup {r}) = g[S \cup {r}]
  BY <1>5
<1>8. g[S \cup {r}] = r.units + g[S]
  BY <1>6
<1> HIDE DEF U, h
<1> QED
  BY <1>4, <1>7, <1>8

\* No receipt, no units.
LEMMA UnitsOfNone == UnitsOf({}) = 0
<1>1. PICK g : IsSum(g, {})
  BY FS_EmptySet, SumExists
<1>2. UnitsOf({}) = g[{}]
  BY <1>1, FS_EmptySet, UnitsAreSum
<1> QED
  BY <1>1, <1>2 DEF IsSum

-----------------------------------------------------------------------------
(* Receipts: what was signed for and what is counted is what was relayed.  *)

SignedBy(I, n, p) == {r \in I : r.payer = n /\ r.relay = p}

\* What n counts for p is the units of p's entry.
Covered(n, p, t, I, w) ==
    /\ UnitsOf(SignedBy(I, n, p)) <= w
    /\ \A e \in t : e.name = ByFingerprint(p) => UnitsOf(SignedBy(I, n, p)) + e.bytes <= w

\* Bytes are counted in the entries of fingerprints only.
KeysCountNothing(t) == \A e \in t : \A p \in Traders : e.name = ByKey(p) => e.bytes = 0

WorkInv ==
    /\ IsFiniteSet(issued) /\ worked \in [Traders \X Traders -> Nat]
    /\ \A n \in Traders : IsFiniteSet(tracked[n]) /\ KeysCountNothing(tracked[n])
    /\ \A n \in Traders, p \in Traders :
           n \notin evicted => Covered(n, p, tracked[n], issued, worked[<<n, p>>])

\* Nothing was relayed or signed for.
LEMMA WorkInvInit == IncentiveInit => WorkInv
<1> SUFFICES ASSUME IncentiveInit PROVE WorkInv
  OBVIOUS
<1>1. issued = {} /\ IsFiniteSet({}) /\ worked \in [Traders \X Traders -> Nat]
  BY FS_EmptySet DEF IncentiveInit
<1>2. \A n \in Traders : tracked[n] = {}
  BY DEF IncentiveInit
<1>3. \A n \in Traders, p \in Traders : Covered(n, p, {}, {}, worked[<<n, p>>])
  <2> SUFFICES ASSUME NEW n \in Traders, NEW p \in Traders PROVE Covered(n, p, {}, {}, worked[<<n, p>>])
    OBVIOUS
  <2>1. SignedBy({}, n, p) = {} /\ worked[<<n, p>>] = 0
    BY DEF SignedBy, IncentiveInit
  <2> QED
    BY <2>1, UnitsOfNone DEF Covered
<1> QED
  BY <1>1, <1>2, <1>3 DEF WorkInv, KeysCountNothing

\* The receipts of n for p are finitely many, and their units a number.
LEMMA SignedFinite ==
    ASSUME IncentiveInv, WorkInv, NEW n, NEW p
    PROVE  /\ IsFiniteSet(SignedBy(issued, n, p)) /\ UnitsOf(SignedBy(issued, n, p)) \in Nat
           /\ \A r \in SignedBy(issued, n, p) : r.units \in Nat
<1> DEFINE S == SignedBy(issued, n, p)
<1>1. IsFiniteSet(S)
  BY FS_Subset DEF SignedBy, WorkInv
<1>2. \A r \in S : r.units \in Nat
  BY DEF SignedBy, IncentiveInv, SignedReceipt
<1> HIDE DEF S
<1>3. PICK g : IsSum(g, S)
  BY <1>1, <1>2, SumExists
<1>4. UnitsOf(S) = g[S] /\ g[S] \in Nat
  <2>1. UnitsOf(S) = g[S]
    BY <1>1, <1>2, <1>3, UnitsAreSum
  <2> QED
    BY <1>3, <2>1 DEF IsSum
<1> QED
  BY <1>1, <1>2, <1>4 DEF S

\* A step of one node: the others' tables and receipts stay, and nobody's work is taken back.
LEMMA WorkStep ==
    ASSUME IncentiveInv, WorkInv, NEW n \in Traders, NEW t, IsFiniteSet(t), KeysCountNothing(t),
           tracked' = [tracked EXCEPT ![n] = t], evicted \subseteq evicted',
           IsFiniteSet(issued'), worked' \in [Traders \X Traders -> Nat],
           \A m \in Traders \ {n}, p \in Traders :
               SignedBy(issued', m, p) = SignedBy(issued, m, p) /\ worked'[<<m, p>>] = worked[<<m, p>>],
           \A p \in Traders : n \notin evicted' => Covered(n, p, t, issued', worked'[<<n, p>>])
    PROVE  WorkInv'
<1>1. \A m \in Traders : tracked'[m] = IF m = n THEN t ELSE tracked[m]
  BY DEF IncentiveInv
<1>2. \A m \in Traders : IsFiniteSet(tracked'[m]) /\ KeysCountNothing(tracked'[m])
  BY <1>1 DEF WorkInv
<1>3. ASSUME NEW m \in Traders, NEW p \in Traders, m \notin evicted'
      PROVE  Covered(m, p, tracked'[m], issued', worked'[<<m, p>>])
  <2>1. CASE m = n
    BY <1>1, <1>3, <2>1
  <2>2. CASE m # n
    <3>1. Covered(m, p, tracked[m], issued, worked[<<m, p>>])
      BY <1>3 DEF WorkInv
    <3>2. tracked'[m] = tracked[m]
      BY <1>1, <2>2
    <3>3. SignedBy(issued', m, p) = SignedBy(issued, m, p) /\ worked'[<<m, p>>] = worked[<<m, p>>]
      BY <2>2
    <3> QED
      BY <3>1, <3>2, <3>3 DEF Covered
  <2> QED
    BY <2>1, <2>2
<1> QED
  BY <1>2, <1>3 DEF WorkInv, KeysCountNothing

\* The entry that is found is one of the table's or counts nothing, and the others were there.
LEMMA FoundWas ==
    ASSUME NEW n \in Traders, NEW name, NEW f \in Found(n, name)
    PROVE  /\ f.entry \in tracked[n] \/ f.entry.bytes = 0
           /\ f.table \subseteq tracked[n] \cup {f.entry}
<1> DEFINE t == tracked[n]
           fresh == FreshBook(n, name)
<1>1. fresh.bytes = 0
  BY DEF FreshBook
<1> HIDE DEF fresh, t
<1>2. CASE \E e \in t : e.name = name
  <2>1. PICK x \in t : f = [table |-> t, entry |-> x]
    BY <1>2 DEF Found, t
  <2> QED
    BY <2>1 DEF t
<1>3. CASE ~\E e \in t : e.name = name
  <2>1. PICK rest \in SUBSET t : f = [table |-> rest \cup {fresh}, entry |-> fresh]
    <3>1. CASE Cardinality(t) < MaxTracked
      BY <1>3, <3>1 DEF Found, t, fresh
    <3>2. CASE ~(Cardinality(t) < MaxTracked)
      <4>1. PICK e \in t : f = [table |-> (t \ {e}) \cup {fresh}, entry |-> fresh]
        BY <1>3, <3>2 DEF Found, t, fresh
      <4>2. t \ {e} \in SUBSET t
        OBVIOUS
      <4> QED
        BY <4>1, <4>2
    <3> QED
      BY <3>1, <3>2
  <2> QED
    BY <1>1, <2>1 DEF t
<1> QED
  BY <1>2, <1>3

\* Names of the two kinds differ, and so do those of different peers.
LEMMA NamesDiffer ==
    /\ \A p, q : ByFingerprint(p) # ByKey(q)
    /\ \A p, q : ByFingerprint(p) = ByFingerprint(q) => p = q
    /\ \A p : ByFingerprint(p)[2] = p
<1>1. "fingerprint" # "key"
  OBVIOUS
<1> QED
  BY <1>1 DEF ByFingerprint, ByKey

\* A unit relayed is counted once.
LEMMA RecordRelayCovered ==
    ASSUME IncentiveInv, WorkInv, NEW n \in Traders, NEW p \in Traders, RecordRelay(n, p)
    PROVE  WorkInv'
<1>1. PICK f \in Found(n, ByFingerprint(p)) :
        /\ tracked' = [tracked EXCEPT ![n] = Put(f, [f.entry EXCEPT !.bytes = @ + 1])]
        /\ evicted' = Evictions(n, f)
  BY DEF RecordRelay
<1>2. ByFingerprint(p) \in Names
  BY DEF Names
<1>3. Opened(n, ByFingerprint(p), f)
  BY <1>2, FoundIsOpened
<1> DEFINE e == [f.entry EXCEPT !.bytes = @ + 1]
           t == Put(f, e)
<1>4. /\ e.name = ByFingerprint(p) /\ e.bytes = f.entry.bytes + 1 /\ f.entry.bytes \in Nat
      /\ f.entry.name = ByFingerprint(p)
  BY <1>3 DEF Opened, Book
<1>5. \A x \in t : x = e \/ x \in tracked[n]
  BY <1>1, FoundWas DEF Put
<1>6. f.entry \in tracked[n] \/ f.entry.bytes = 0
  BY <1>1, FoundWas
<1> HIDE DEF e
<1>7. IsFiniteSet(t)
  <2>1. t \subseteq tracked[n] \cup {e}
    BY <1>5
  <2>2. IsFiniteSet(tracked[n] \cup {e})
    BY FS_AddElement DEF WorkInv
  <2> HIDE DEF t
  <2> QED
    BY <2>1, <2>2, FS_Subset
<1>8. tracked' = [tracked EXCEPT ![n] = t]
  BY <1>1 DEF e
<1> HIDE DEF t
<1>9. KeysCountNothing(t)
  <2>1. ASSUME NEW x \in t, NEW q \in Traders, x.name = ByKey(q) PROVE x.bytes = 0
    BY <1>4, <1>5, <2>1, NamesDiffer DEF WorkInv, KeysCountNothing
  <2> QED
    BY <2>1 DEF KeysCountNothing
<1>10. evicted \subseteq evicted' /\ issued' = issued /\ worked' = [worked EXCEPT ![<<n, p>>] = @ + 1]
  BY <1>1 DEF Evictions, RecordRelay
<1>11. /\ worked' \in [Traders \X Traders -> Nat]
       /\ \A m \in Traders \ {n}, q \in Traders : worked'[<<m, q>>] = worked[<<m, q>>]
       /\ worked'[<<n, p>>] = worked[<<n, p>>] + 1
       /\ \A q \in Traders \ {p} : worked'[<<n, q>>] = worked[<<n, q>>]
  <2>1. worked \in [Traders \X Traders -> Nat] /\ <<n, p>> \in Traders \X Traders
    BY DEF WorkInv
  <2>2. worked[<<n, p>>] \in Nat
    BY <2>1
  <2>3. \A m \in Traders, q \in Traders : <<m, q>> \in Traders \X Traders /\ (<<m, q>> = <<n, p>> => m = n /\ q = p)
    OBVIOUS
  <2> QED
    BY <1>10, <2>1, <2>2, <2>3
<1>12. ASSUME NEW q \in Traders, n \notin evicted' PROVE Covered(n, q, t, issued', worked'[<<n, q>>])
  <2> DEFINE u == UnitsOf(SignedBy(issued, n, q))
             w == worked[<<n, q>>]
             v == worked'[<<n, q>>]
  <2>1. Covered(n, q, tracked[n], issued, w)
    BY <1>10, <1>12 DEF WorkInv
  <2>2. u \in Nat /\ w \in Nat
    BY SignedFinite DEF WorkInv
  <2>3. u <= w /\ \A x \in tracked[n] : x.name = ByFingerprint(q) => u + x.bytes <= w
    BY <2>1 DEF Covered
  <2>4. \A x \in tracked[n] : x.bytes \in Nat
    BY DEF IncentiveInv, Book
  <2>5. (q = p /\ v = w + 1) \/ (q # p /\ v = w)
    BY <1>11
  <2> HIDE DEF u, w, v
  <2>6. u <= v
    BY <2>2, <2>3, <2>5
  <2>7. ASSUME NEW x \in t, x.name = ByFingerprint(q) PROVE u + x.bytes <= v
    <3>1. CASE x = e
      <4>1. q = p
        BY <1>4, <2>7, <3>1, NamesDiffer
      <4>2. u + f.entry.bytes <= w
        BY <1>4, <1>6, <2>2, <2>3, <4>1
      <4> QED
        BY <1>4, <2>2, <2>5, <3>1, <4>1, <4>2
    <3>2. CASE x \in tracked[n]
      <4>1. u + x.bytes <= w /\ x.bytes \in Nat
        BY <2>3, <2>4, <2>7, <3>2
      <4> QED
        BY <2>2, <2>5, <4>1
    <3> QED
      BY <1>5, <3>1, <3>2
  <2>8. UnitsOf(SignedBy(issued', n, q)) = u
    BY <1>10 DEF u
  <2>9. u <= worked'[<<n, q>>] /\ \A x \in t : x.name = ByFingerprint(q) => u + x.bytes <= worked'[<<n, q>>]
    BY <2>6, <2>7 DEF v
  <2> QED
    BY <2>8, <2>9 DEF Covered
<1>13. IsFiniteSet(issued') /\ \A m \in Traders \ {n}, q \in Traders : SignedBy(issued', m, q) = SignedBy(issued, m, q)
  BY <1>10 DEF WorkInv
<1> QED
  BY <1>7, <1>8, <1>9, <1>10, <1>11, <1>12, <1>13, WorkStep

\* An accepted receipt changes the entry of a key only.
LEMMA AcceptReceiptCovered ==
    ASSUME IncentiveInv, WorkInv, NEW n \in Traders, AcceptReceipt(n)
    PROVE  WorkInv'
<1>1. PICK r \in {x \in issued : x.relay = n} : \E f \in Found(n, ByKey(r.payer)) :
        /\ evicted' = Evictions(n, f)
        /\ \/ tracked' = [tracked EXCEPT ![n] = Put(f, [f.entry EXCEPT !.last = r.serial])]
           \/ tracked' = [tracked EXCEPT ![n] = f.table]
  BY DEF AcceptReceipt
<1>2. PICK f \in Found(n, ByKey(r.payer)) :
        /\ evicted' = Evictions(n, f)
        /\ \/ tracked' = [tracked EXCEPT ![n] = Put(f, [f.entry EXCEPT !.last = r.serial])]
           \/ tracked' = [tracked EXCEPT ![n] = f.table]
  BY <1>1
<1>3. r.payer \in Traders /\ ByKey(r.payer) \in Names
  BY DEF IncentiveInv, SignedReceipt, Names
<1>4. Opened(n, ByKey(r.payer), f)
  BY <1>3, FoundIsOpened
<1> DEFINE e == [f.entry EXCEPT !.last = r.serial]
<1>5. /\ f.entry.name = ByKey(r.payer) /\ e.name = f.entry.name /\ e.bytes = f.entry.bytes
      /\ f.entry.bytes = 0
  <2>1. f.entry \in Book /\ f.entry.name = ByKey(r.payer)
    BY <1>4 DEF Opened
  <2>2. e.name = f.entry.name /\ e.bytes = f.entry.bytes
    BY <2>1 DEF Book
  <2>3. f.entry.bytes = 0
    BY <1>2, <1>3, <2>1, FoundWas DEF WorkInv, KeysCountNothing
  <2> QED
    BY <2>1, <2>2, <2>3
<1>6. PICK t : /\ tracked' = [tracked EXCEPT ![n] = t]
               /\ \A x \in t : x = e \/ x = f.entry \/ x \in tracked[n]
  <2>1. f.table \subseteq tracked[n] \cup {f.entry}
    BY <1>2, FoundWas
  <2>2. CASE tracked' = [tracked EXCEPT ![n] = Put(f, e)]
    BY <2>1, <2>2 DEF Put
  <2>3. CASE tracked' = [tracked EXCEPT ![n] = f.table]
    BY <2>1, <2>3
  <2> QED
    BY <1>2, <2>2, <2>3
<1> HIDE DEF e
<1>7. IsFiniteSet(t)
  <2>1. IsFiniteSet(tracked[n] \cup {e}) /\ IsFiniteSet((tracked[n] \cup {e}) \cup {f.entry})
    BY FS_AddElement DEF WorkInv
  <2>2. t \subseteq (tracked[n] \cup {e}) \cup {f.entry}
    BY <1>6
  <2> QED
    BY <2>1, <2>2, FS_Subset
<1>8. KeysCountNothing(t)
  BY <1>5, <1>6 DEF WorkInv, KeysCountNothing
<1>9. evicted \subseteq evicted' /\ issued' = issued /\ worked' = worked
  BY <1>2 DEF Evictions, AcceptReceipt
<1>10. ASSUME NEW q \in Traders, n \notin evicted' PROVE Covered(n, q, t, issued', worked'[<<n, q>>])
  <2>1. Covered(n, q, tracked[n], issued, worked[<<n, q>>])
    BY <1>9, <1>10 DEF WorkInv
  <2>2. \A x \in t : x.name = ByFingerprint(q) => x \in tracked[n]
    BY <1>5, <1>6, NamesDiffer
  <2> QED
    BY <1>9, <2>1, <2>2 DEF Covered
<1>11. IsFiniteSet(issued') /\ worked' \in [Traders \X Traders -> Nat]
  BY <1>9 DEF WorkInv
<1>12. \A m \in Traders \ {n}, q \in Traders :
          SignedBy(issued', m, q) = SignedBy(issued, m, q) /\ worked'[<<m, q>>] = worked[<<m, q>>]
  BY <1>9
<1> QED
  BY <1>6, <1>7, <1>8, <1>9, <1>10, <1>11, <1>12, WorkStep

\* A receipt signs for the units counted, which are counted from nothing again.
LEMMA SettleCovered ==
    ASSUME IncentiveInv, WorkInv, NEW n \in Traders, Settle(n)
    PROVE  WorkInv'
<1>1. PICK due \in SUBSET {e \in tracked[n] : e.bytes >= MinUnits} :
        /\ issued' = issued \cup {Receipt(n, e) : e \in due}
        /\ tracked' = [tracked EXCEPT ![n] = (@ \ due) \cup {Settled(n, e) : e \in due}]
  BY DEF Settle
<1> DEFINE t == (tracked[n] \ due) \cup {Settled(n, e) : e \in due}
           new == {Receipt(n, e) : e \in due}
<1>2. /\ tracked[n] \subseteq Book /\ OneEntryPerName(tracked[n]) /\ due \subseteq tracked[n]
      /\ IsFiniteSet(tracked[n]) /\ IsFiniteSet(issued)
  BY DEF IncentiveInv, WorkInv
<1>3. ASSUME NEW e \in due
      PROVE  /\ Settled(n, e).name = e.name /\ Settled(n, e).bytes = 0 /\ e.bytes \in Nat
             /\ Receipt(n, e).payer = n /\ Receipt(n, e).relay = e.name[2] /\ Receipt(n, e).units = e.bytes
             /\ \E p \in Traders : e.name = ByFingerprint(p)
  <2>1. e \in Book /\ e.name \in Names /\ e.bytes \in Nat /\ e.bytes >= MinUnits /\ MinUnits \in Nat \ {0}
    BY <1>2, IncentiveAssumption DEF Book, IncentiveAssumption
  <2>2. \A p \in Traders : e.name # ByKey(p)
    <3>1. ~(e.bytes = 0)
      BY <2>1
    <3> QED
      BY <1>2, <3>1 DEF WorkInv, KeysCountNothing
  <2>3. \E p \in Traders : e.name = ByFingerprint(p)
    BY <2>1, <2>2 DEF Names
  <2>4. Settled(n, e).name = e.name /\ Settled(n, e).bytes = 0
    BY <2>1 DEF Settled, Book
  <2> QED
    BY <2>1, <2>3, <2>4 DEF Receipt
<1>4. IsFiniteSet(due) /\ IsFiniteSet(new) /\ IsFiniteSet({Settled(n, e) : e \in due})
  <2>1. IsFiniteSet(due)
    BY <1>2, FS_Subset
  <2>2. ASSUME NEW F, NEW f \in [due -> F], F = {f[e] : e \in due} PROVE IsFiniteSet(F)
    <3>1. f \in Surjection(due, F)
      BY <2>2 DEF Surjection
    <3> QED
      BY <2>1, <3>1, FS_Surjection
  <2>3. IsFiniteSet(new)
    <3> DEFINE f == [e \in due |-> Receipt(n, e)]
    <3>1. f \in [due -> new] /\ new = {f[e] : e \in due}
      OBVIOUS
    <3> QED
      BY <2>2, <3>1
  <2>4. IsFiniteSet({Settled(n, e) : e \in due})
    <3> DEFINE f == [e \in due |-> Settled(n, e)]
               F == {Settled(n, e) : e \in due}
    <3>1. f \in [due -> F] /\ F = {f[e] : e \in due}
      OBVIOUS
    <3> QED
      BY <2>2, <3>1
  <2> QED
    BY <2>1, <2>3, <2>4
<1>5. IsFiniteSet(t) /\ IsFiniteSet(issued')
  <2>1. IsFiniteSet(tracked[n] \ due)
    BY <1>2, FS_Subset
  <2> QED
    BY <1>1, <1>2, <1>4, <2>1, FS_Union
<1>6. tracked' = [tracked EXCEPT ![n] = t]
  BY <1>1
<1>7. KeysCountNothing(t)
  <2>1. ASSUME NEW x \in t, NEW q \in Traders, x.name = ByKey(q) PROVE x.bytes = 0
    <3>1. CASE x \in tracked[n]
      BY <2>1, <3>1 DEF WorkInv, KeysCountNothing
    <3>2. CASE x \in {Settled(n, e) : e \in due}
      BY <1>3, <3>2
    <3> QED
      BY <3>1, <3>2
  <2> QED
    BY <2>1 DEF KeysCountNothing
<1>8. evicted' = evicted /\ worked' = worked
  BY DEF Settle
<1>9. \A m \in Traders \ {n}, q \in Traders : SignedBy(issued', m, q) = SignedBy(issued, m, q)
  <2>1. \A r \in new : r.payer = n
    BY <1>3
  <2> HIDE DEF new
  <2>2. issued' = issued \cup new
    BY <1>1 DEF new
  <2> QED
    BY <2>1, <2>2 DEF SignedBy
<1>10. ASSUME NEW q \in Traders, n \notin evicted' PROVE Covered(n, q, t, issued', worked'[<<n, q>>])
  <2> DEFINE S == SignedBy(issued, n, q)
             u == UnitsOf(S)
             w == worked[<<n, q>>]
  <2>1. Covered(n, q, tracked[n], issued, w) /\ worked'[<<n, q>>] = w
    BY <1>8, <1>10 DEF WorkInv
  <2>2. u \in Nat /\ w \in Nat /\ IsFiniteSet(S) /\ \A r \in S : r.units \in Nat
    BY SignedFinite DEF WorkInv
  <2>3. u <= w /\ \A x \in tracked[n] : x.name = ByFingerprint(q) => u + x.bytes <= w
    BY <2>1 DEF Covered
  <2>4. SignedBy(issued', n, q) = S \cup {r \in new : r.relay = q}
    <3>1. \A r \in new : r.payer = n
      BY <1>3
    <3> HIDE DEF new
    <3>2. issued' = issued \cup new
      BY <1>1 DEF new
    <3> QED
      BY <3>1, <3>2 DEF SignedBy
  <2>5. \A r \in new : r.relay = q => \E e \in due : r = Receipt(n, e) /\ e.name = ByFingerprint(q)
    <3> SUFFICES ASSUME NEW e \in due, Receipt(n, e).relay = q
                 PROVE  e.name = ByFingerprint(q)
      OBVIOUS
    <3>1. PICK p \in Traders : e.name = ByFingerprint(p)
      BY <1>3
    <3> QED
      BY <1>3, <3>1, NamesDiffer
  <2>6. CASE ~\E e \in due : e.name = ByFingerprint(q)
    <3>1. SignedBy(issued', n, q) = S
      BY <2>4, <2>5, <2>6
    <3>2. \A x \in t : x.name = ByFingerprint(q) => x \in tracked[n]
      BY <1>3, <2>6
    <3> QED
      BY <2>1, <3>1, <3>2 DEF Covered
  <2>7. CASE \E e \in due : e.name = ByFingerprint(q)
    <3>1. PICK e \in due : e.name = ByFingerprint(q)
      BY <2>7
    <3> DEFINE r == Receipt(n, e)
    <3>2. {x \in new : x.relay = q} = {r}
      <4>1. r \in new /\ r.relay = q
        BY <1>3, <3>1, NamesDiffer
      <4>2. \A f \in due : f.name = ByFingerprint(q) => f = e
        BY <1>2, <3>1 DEF OneEntryPerName
      <4> HIDE DEF r, new
      <4> QED
        BY <2>5, <4>1, <4>2 DEF r
    <3>3. \A x \in t : x.name = ByFingerprint(q) => x.bytes = 0
      <4> SUFFICES ASSUME NEW x \in t, x.name = ByFingerprint(q) PROVE x.bytes = 0
        OBVIOUS
      <4>1. CASE x \in tracked[n] \ due
        BY <1>2, <3>1, <4>1 DEF OneEntryPerName
      <4>2. CASE x \in {Settled(n, f) : f \in due}
        BY <1>3, <4>2
      <4> QED
        BY <4>1, <4>2
    <3>4. r.units = e.bytes /\ e.bytes \in Nat /\ u + e.bytes <= w
      BY <1>2, <1>3, <2>3, <3>1
    <3> HIDE DEF r, S, t, new
    <3>5. UnitsOf(S \cup {r}) <= w
      <4>1. CASE r \in S
        <5>1. S \cup {r} = S
          BY <4>1
        <5> QED
          BY <2>3, <5>1
      <4>2. CASE r \notin S
        <5>1. UnitsOf(S \cup {r}) = u + r.units
          BY <2>2, <3>4, <4>2, UnitsAdd
        <5> QED
          BY <3>4, <5>1
      <4> QED
        BY <4>1, <4>2
    <3>6. SignedBy(issued', n, q) = S \cup {r}
      BY <2>4, <3>2
    <3>7. UnitsOf(S \cup {r}) \in Nat
      <4>1. CASE r \in S
        <5>1. S \cup {r} = S
          BY <4>1
        <5> QED
          BY <2>2, <5>1
      <4>2. CASE r \notin S
        BY <2>2, <3>4, <4>2, UnitsAdd
      <4> QED
        BY <4>1, <4>2
    <3> DEFINE v == UnitsOf(S \cup {r})
    <3>8. v \in Nat /\ v <= w /\ \A x \in t : x.name = ByFingerprint(q) => v + x.bytes <= w
      <4>1. \A k : v \in Nat /\ w \in Nat /\ v <= w /\ k = 0 => v + k <= w
        OBVIOUS
      <4>2. v \in Nat /\ w \in Nat /\ v <= w
        BY <2>2, <3>5, <3>7
      <4> HIDE DEF v, w
      <4> QED
        BY <3>3, <4>1, <4>2, Zenon
    <3>9. UnitsOf(SignedBy(issued', n, q)) = v
      BY <3>6
    <3> HIDE DEF v, u, w
    <3> QED
      BY <2>1, <3>8, <3>9 DEF Covered
  <2> QED
    BY <2>6, <2>7
<1>11. worked' \in [Traders \X Traders -> Nat] /\ \A m \in Traders \ {n}, q \in Traders : worked'[<<m, q>>] = worked[<<m, q>>]
  BY <1>8 DEF WorkInv
<1> HIDE DEF t, new
<1> QED
  BY <1>5, <1>6, <1>7, <1>8, <1>9, <1>10, <1>11, WorkStep

\* The invariant of the receipts holds of the whole.
LEMMA IncentiveHolds == GroupsSpec => [](IncentiveInv /\ WorkInv)
<1>1. GroupsInit => IncentiveInv /\ WorkInv
  BY IncentiveInvInit, WorkInvInit DEF GroupsInit
<1>2. IncentiveInv /\ WorkInv /\ [GroupsNext]_groupVars => (IncentiveInv /\ WorkInv)'
  <2> SUFFICES ASSUME IncentiveInv, WorkInv, [IncentiveNext]_incentiveVars PROVE IncentiveInv' /\ WorkInv'
    BY PartsStep
  <2>1. CASE UNCHANGED <<tracked, windows, issued, credits, worked, evicted>>
    BY <2>1 DEF IncentiveInv, WorkInv
  <2>2. ASSUME NEW n \in Traders, Redeem(n) PROVE UNCHANGED <<tracked, windows, issued, credits, worked, evicted>>
    BY <2>2 DEF Redeem
  <2>3. CASE UNCHANGED incentiveVars
    BY <2>1, <2>3 DEF incentiveVars
  <2> QED
    BY <2>1, <2>2, <2>3, RecordRelayKeeps, SettleKeeps, AcceptReceiptKeeps,
       RecordRelayCovered, SettleCovered, AcceptReceiptCovered DEF IncentiveNext
<1> QED
  BY <1>1, <1>2, PTL DEF GroupsSpec

\* Nothing is counted twice: a receipt is credited once, however often it arrives and in which
\* order receipts arrive (trellis_incentive_accept_receipt), and what was signed for is no more
\* than what was relayed (incentive_settle_peer), both as long as the table of peers had room;
\* and a rendezvous is bridged once (service.c: rv_pending_lookup).
THEOREM UsedOnceHolds == GroupsSpec => []UsedOnce
<1>1. IncentiveInv => CreditedOnce
  BY DEF IncentiveInv, Credited, CreditedOnce
<1>2. WorkInv => SignedAsRelayed
  <2> SUFFICES ASSUME WorkInv, NEW n \in Traders, NEW p \in Traders, n \notin evicted
               PROVE  UnitsOf({r \in Own(n) : r.relay = p}) <= worked[<<n, p>>]
    BY DEF SignedAsRelayed
  <2>1. UnitsOf(SignedBy(issued, n, p)) <= worked[<<n, p>>]
    BY DEF WorkInv, Covered
  <2>2. SignedBy(issued, n, p) = {r \in Own(n) : r.relay = p}
    BY DEF SignedBy, Own
  <2> QED
    BY <2>1, <2>2
<1>3. IncentiveInv /\ WorkInv /\ BridgedOnce => UsedOnce
  BY <1>1, <1>2 DEF UsedOnce
<1> QED
  BY <1>3, IncentiveHolds, BridgedOnceHolds, PTL

-----------------------------------------------------------------------------
(* The shapes of the states: the lists, tables and counters of each part   *)
(* keep within their sizes and speak of what there is.                     *)

\* The image of a finite set has no more elements than the set.
LEMMA ImageNoLarger ==
    ASSUME NEW S, IsFiniteSet(S), NEW F, NEW f \in [S -> F], F = {f[x] : x \in S}
    PROVE  /\ IsFiniteSet(F) /\ Cardinality(F) \in Nat /\ Cardinality(S) \in Nat
           /\ Cardinality(F) <= Cardinality(S)
<1>1. f \in Surjection(S, F)
  BY DEF Surjection
<1> QED
  BY <1>1, FS_Surjection, FS_CardinalityType

-----------------------------------------------------------------------------
(* Greenhouse: the points and the clocks of a service.                     *)

\* The points of a service are at most as many as it may have, and its times are times of its
\* clock or a lifetime later.
PointsInv ==
    /\ points \in UNION {[1..n -> PointStates] : n \in 0..MaxIntroPoints}
    /\ ghNow \in 0..GhMaxTime
    /\ {expires, published} \subseteq 0..(GhMaxTime + DescriptorTTL)

\* Points that are asked anew are a row of points.
LEMMA AskedPoints ==
    ASSUME NEW n \in 0..MaxIntroPoints
    PROVE  Asked(n) \in UNION {[1..k -> PointStates] : k \in 0..MaxIntroPoints}
<1>1. Asked(n) \in [1..n -> PointStates]
  BY DEF Asked, PointStates
<1> QED
  BY <1>1

\* A descriptor that is signed now expires a lifetime after the clock.
LEMMA SignedInTime ==
    ASSUME PointsInv, NEW ok \in BOOLEAN, PublishDescriptor(ok)
    PROVE  {expires', published'} \subseteq 0..(GhMaxTime + DescriptorTTL)
<1>1. /\ expires' = ghNow + DescriptorTTL
      /\ published' = ghNow + DescriptorTTL \/ published' = published
  BY DEF PublishDescriptor
<1>2. /\ ghNow \in 0..GhMaxTime /\ GhMaxTime \in Nat /\ DescriptorTTL \in Nat
      /\ published \in 0..(GhMaxTime + DescriptorTTL)
  BY GreenhouseAssumption DEF PointsInv
<1> QED
  BY <1>1, <1>2

\* The invariant holds at the start, and every step of a service keeps it.
LEMMA PointsKept ==
    /\ GreenhouseInit => PointsInv
    /\ PointsInv /\ [GreenhouseNext]_greenhouseVars => PointsInv'
<1> DEFINE Rows == UNION {[1..n -> PointStates] : n \in 0..MaxIntroPoints}
<1>0. <<>> \in Rows /\ GhMaxTime \in Nat /\ DescriptorTTL \in Nat /\ MaxIntroPoints \in Nat
  <2>1. MaxIntroPoints \in Nat /\ 0 \in 0..MaxIntroPoints /\ <<>> \in [1..0 -> PointStates]
    BY GreenhouseAssumption
  <2> QED
    BY <2>1, GreenhouseAssumption
<1>1. GreenhouseInit => PointsInv
  BY <1>0 DEF GreenhouseInit, PointsInv
<1> SUFFICES ASSUME PointsInv, [GreenhouseNext]_greenhouseVars PROVE PointsInv'
  BY <1>1
<1>a. PICK n \in 0..MaxIntroPoints : points \in [1..n -> PointStates]
  BY DEF PointsInv
<1>b. ASSUME NEW m \in 1..MaxIntroPoints, NEW ok \in BOOLEAN, points' = Asked(m),
             PublishDescriptor(ok), ghNow' = ghNow
      PROVE  PointsInv'
  <2>1. points' \in Rows
    BY <1>0, <1>b, AskedPoints
  <2> QED
    BY <1>b, <2>1, SignedInTime DEF PointsInv
<1>c. ASSUME points' \in [1..n -> PointStates] PROVE points' \in Rows
  BY <1>a, <1>c
<1>2. CASE StartService
  BY <1>2, <1>b DEF StartService
<1>3. CASE StopService
  <2>1. points' = <<>> /\ published' = 0 /\ ghNow' = ghNow /\ expires' = expires
    BY <1>3 DEF StopService, clockVars
  <2>2. 0 \in 0..(GhMaxTime + DescriptorTTL)
    BY <1>0
  <2>3. points' \in Rows
    <3> HIDE DEF Rows
    <3> QED
      BY <1>0, <2>1
  <2> QED
    BY <2>1, <2>2, <2>3 DEF PointsInv
<1>4. CASE KeepAliveTimer
  <2>1. ghNow' = ghNow
    BY <1>4 DEF KeepAliveTimer
  <2>2. n \in Nat /\ Len(points) = n
    BY <1>0, <1>a
  <2>3. ASSUME NEW alive, points' = [i \in 1..n |-> IF i \in alive THEN "attached" ELSE "lost"],
               (\E ok \in BOOLEAN : PublishDescriptor(ok)) \/ UNCHANGED <<expires, published, refused>>
        PROVE  PointsInv'
    <3>1. points' \in Rows
      BY <1>a, <2>3 DEF PointStates
    <3>2. {expires', published'} \subseteq 0..(GhMaxTime + DescriptorTTL)
      BY <2>3, SignedInTime DEF PointsInv
    <3> QED
      BY <2>1, <3>1, <3>2 DEF PointsInv
  <2>4. \/ \E m \in 1..MaxIntroPoints, ok \in BOOLEAN : points' = Asked(m) /\ PublishDescriptor(ok)
        \/ \E alive : /\ points' = [i \in 1..n |-> IF i \in alive THEN "attached" ELSE "lost"]
                      /\ (\E ok \in BOOLEAN : PublishDescriptor(ok)) \/ UNCHANGED <<expires, published, refused>>
    BY <1>4, <2>2 DEF KeepAliveTimer
  <2> QED
    BY <1>b, <2>1, <2>3, <2>4
<1>5. CASE GhTick
  BY <1>0, <1>5 DEF GhTick, PointsInv, serviceVars
<1>6. ASSUME NEW i \in 1..MaxIntroPoints, AttachPoint(i) PROVE PointsInv'
  <2>1. points' \in [1..n -> PointStates]
    BY <1>6, <1>a DEF AttachPoint, PointStates
  <2> QED
    BY <1>6, <1>c, <2>1 DEF AttachPoint, PointsInv, clockVars
<1>7. ASSUME NEW i \in 1..MaxIntroPoints, IntroMessage(i) PROVE PointsInv'
  <2>1. published' \in 0..(GhMaxTime + DescriptorTTL)
    <3>1. published' = published \/ published' = 0
      BY <1>7 DEF IntroMessage
    <3>2. published \in 0..(GhMaxTime + DescriptorTTL) /\ 0 \in 0..(GhMaxTime + DescriptorTTL)
      BY <1>0 DEF PointsInv
    <3> QED
      BY <3>1, <3>2
  <2> QED
    BY <1>7, <2>1 DEF IntroMessage, PointsInv, clockVars
<1>8. ASSUME NEW c \in Cookies, Introduce(c) \/ JoinOrConfirm(c) PROVE PointsInv'
  BY <1>8 DEF Introduce, JoinOrConfirm, PointsInv, serviceVars, clockVars
<1>9. CASE UNCHANGED greenhouseVars
  BY <1>9 DEF greenhouseVars, serviceVars, clockVars, PointsInv
<1> QED
  BY <1>2, <1>3, <1>4, <1>5, <1>6, <1>7, <1>8, <1>9 DEF GreenhouseNext

-----------------------------------------------------------------------------
(* Gardens: the list of members through joins and swap-removes.            *)

\* The list of members names nobody twice, and the garden's epoch is not ahead of its tree's.
RosterInv ==
    /\ roster \in Seq(Guests \cup {Owner}) /\ IsInjective(roster)
    /\ rights \subseteq Guests \X ValidRights
    /\ gardenEpoch \in Nat /\ treeEpoch \in Nat /\ gardenEpoch <= treeEpoch

\* A member that is not on the list is added to it.
LEMMA NewMember ==
    ASSUME NEW S, NEW s \in Seq(S), IsInjective(s), NEW m \in S, m \notin Range(s)
    PROVE  Append(s, m) \in Seq(S) /\ IsInjective(Append(s, m))
<1> DEFINE t == Append(s, m)
           n == Len(s)
<1>1. /\ n \in Nat /\ t \in Seq(S) /\ DOMAIN s = 1..n /\ DOMAIN t = 1..(n + 1)
      /\ t[n + 1] = m /\ \A i \in 1..n : t[i] = s[i]
  OBVIOUS
<1>2. \A i \in 1..n : s[i] # m
  BY <1>1 DEF Range
<1>3. \A i \in 1..(n + 1) : i = n + 1 \/ i \in 1..n
  BY <1>1
<1> HIDE DEF t, n
<1>4. IsInjective(t)
  <2> SUFFICES ASSUME NEW i \in 1..(n + 1), NEW j \in 1..(n + 1), t[i] = t[j] PROVE i = j
    BY <1>1 DEF IsInjective
  <2>1. CASE i = n + 1 \/ j = n + 1
    BY <1>1, <1>2, <1>3, <2>1
  <2>2. CASE i \in 1..n /\ j \in 1..n
    BY <1>1, <2>2 DEF IsInjective
  <2> QED
    BY <1>3, <2>1, <2>2
<1> QED
  BY <1>1, <1>4 DEF t

\* The last member takes the place of the one that leaves (members[idx] =
\* members[--member_count]).
LEMMA SwapKeeps ==
    ASSUME NEW S, NEW s \in Seq(S), IsInjective(s), NEW m \in Range(s)
    PROVE  SwapRemove(s, m) \in Seq(S) /\ IsInjective(SwapRemove(s, m))
<1> DEFINE k == CHOOSE j \in DOMAIN s : s[j] = m
           n == Len(s)
           t == SwapRemove(s, m)
<1>1. k \in DOMAIN s /\ s[k] = m
  BY DEF Range
<1>2. n \in Nat /\ DOMAIN s = 1..n /\ n \in 1..n /\ n - 1 \in Nat /\ k \in 1..n
  BY <1>1
<1>3. t = Front([s EXCEPT ![k] = Last(s)]) /\ Last(s) = s[n] /\ s[n] \in S
  BY <1>2 DEF SwapRemove, Last
<1> DEFINE e == [s EXCEPT ![k] = Last(s)]
<1> HIDE DEF k, n, t
<1>4. e \in Seq(S) /\ Len(e) = n /\ \A i \in 1..n : e[i] = IF i = k THEN s[n] ELSE s[i]
  BY <1>2, <1>3 DEF n
<1>5. t = SubSeq(e, 1, n - 1)
  BY <1>3, <1>4 DEF Front
<1> HIDE DEF e
<1>6. t \in Seq(S) /\ DOMAIN t = 1..(n - 1) /\ \A i \in 1..(n - 1) : t[i] = e[i]
  BY <1>2, <1>4, <1>5
<1>7. IsInjective(t)
  <2> SUFFICES ASSUME NEW i \in 1..(n - 1), NEW j \in 1..(n - 1), t[i] = t[j] PROVE i = j
    BY <1>6 DEF IsInjective
  <2>1. i \in 1..n /\ j \in 1..n /\ i # n /\ j # n /\ n \in 1..n
    BY <1>2
  <2>2. \A a, b \in 1..n : s[a] = s[b] => a = b
    BY <1>2 DEF IsInjective
  <2>3. e[i] = e[j]
    BY <1>6
  <2> QED
    BY <1>4, <2>1, <2>2, <2>3
<1> QED
  BY <1>6, <1>7 DEF t

\* The invariant holds at the start, and every step of a garden keeps it.
LEMMA RosterKept ==
    /\ GardenInit => RosterInv
    /\ RosterInv /\ [GardenNext \/ Post]_gardenVars => RosterInv'
<1> DEFINE People == Guests \cup {Owner}
<1>1. GardenInit => RosterInv
  BY DEF GardenInit, RosterInv, IsInjective
<1> SUFFICES ASSUME RosterInv, [GardenNext \/ Post]_gardenVars PROVE RosterInv'
  BY <1>1
<1>2. ASSUME NEW m \in People, Subscribe(m) PROVE RosterInv'
  <2>1. roster' = Append(roster, m) /\ m \notin Range(roster) /\ rights' = rights
    BY <1>2 DEF Subscribe
  <2>2. roster' \in Seq(People) /\ IsInjective(roster')
    BY <2>1, NewMember DEF RosterInv
  <2>3. \/ treeEpoch' = treeEpoch + 1 /\ gardenEpoch' = treeEpoch'
        \/ UNCHANGED <<treeEpoch, gardenEpoch>>
    BY <1>2 DEF Subscribe, AddLeaf, treeVars
  <2> QED
    BY <2>1, <2>2, <2>3 DEF RosterInv
<1>3. ASSUME NEW m \in People, Leave(m), rights' \subseteq rights PROVE RosterInv'
  <2>1. roster' = SwapRemove(roster, m) /\ m \in Range(roster)
    BY <1>3 DEF Leave
  <2>2. roster' \in Seq(People) /\ IsInjective(roster')
    BY <2>1, SwapKeeps DEF RosterInv
  <2>3. \/ treeEpoch' = treeEpoch + 1 /\ gardenEpoch' = treeEpoch'
        \/ UNCHANGED <<treeEpoch, gardenEpoch>>
    BY <1>3 DEF Leave, RemoveLeaf, treeVars
  <2> QED
    BY <1>3, <2>2, <2>3 DEF RosterInv
<1>4. CASE OnSubscribe \/ Join
  BY <1>2, <1>4 DEF OnSubscribe, Join
<1>5. CASE OnUnsubscribe
  BY <1>3, <1>5 DEF OnUnsubscribe
<1>6. CASE SetPermission
  BY <1>6 DEF SetPermission, RosterInv, treeVars
<1>7. CASE Revoke
  <2>1. PICK m \in People :
            /\ rights' = {p \in rights : p[1] # m}
            /\ Leave(m) \/ UNCHANGED <<roster, gardenEpoch, treeVars>>
    BY <1>7 DEF Revoke
  <2>2. rights' \subseteq rights
    BY <2>1
  <2>3. CASE Leave(m)
    BY <1>3, <2>2, <2>3
  <2>4. CASE UNCHANGED <<roster, gardenEpoch, treeVars>>
    BY <2>2, <2>4 DEF RosterInv, treeVars
  <2> QED
    BY <2>1, <2>3, <2>4
<1>8. CASE ProcessCommit
  <2>1. treeEpoch' = treeEpoch + 1 /\ UNCHANGED rosterVars
    BY <1>8 DEF ProcessCommit
  <2> QED
    BY <2>1 DEF RosterInv, rosterVars
<1>9. CASE Post
  BY <1>9 DEF Post, RosterInv, rosterVars, treeVars
<1>10. CASE UNCHANGED gardenVars
  BY <1>10 DEF gardenVars, rosterVars, treeVars, RosterInv
<1> QED
  BY <1>4, <1>5, <1>6, <1>7, <1>8, <1>9, <1>10 DEF GardenNext

\* What is known of a garden gives it its shape.
LEMMA GardenShape == RosterInv /\ TreeInv /\ HistoryInv => GardenTypeOK
BY DEF RosterInv, TreeInv, HistoryInv, GardenTypeOK

-----------------------------------------------------------------------------
(* Groves: the roster and the clock of admission.                          *)

\* A roster holds joiners, as many as it may, and the clock runs within its bound.
GroveRosterInv ==
    /\ admins \subseteq GroveAdmins /\ now \in 1..MaxGroveTime
    /\ groveRoster \subseteq [member : Joiners, expires : Nat]
    /\ IsFiniteSet(groveRoster) /\ Cardinality(groveRoster) <= MaxMembers

\* The invariant holds at the start, and every step of a grove keeps it.
LEMMA GroveRosterKept ==
    /\ GroveInit => GroveRosterInv
    /\ GroveInv /\ GroveRosterInv /\ [GroveNext]_groveVars => GroveRosterInv'
<1>1. GroveInit => GroveRosterInv
  BY GroveAssumption, FS_EmptySet DEF GroveInit, GroveRosterInv
<1> SUFFICES ASSUME GroveInv, GroveRosterInv, [GroveNext]_groveVars PROVE GroveRosterInv'
  BY <1>1
<1>2. ASSUME UNCHANGED <<admins, groveRoster, now>> PROVE GroveRosterInv'
  BY <1>2 DEF GroveRosterInv
<1>3. ASSUME NEW n \in Joiners, AddMember(n) PROVE GroveRosterInv'
  <2> DEFINE e == [member |-> n, expires |-> membership[n].expires]
  <2>1. /\ membership[n] # NoMembership /\ UNCHANGED <<admins, now>>
        /\ \/ groveRoster' = groveRoster
           \/ groveRoster' = groveRoster \cup {e} /\ ~(Cardinality(groveRoster) >= MaxMembers)
    BY <1>3 DEF AddMember
  <2>2. e \in [member : Joiners, expires : Nat]
    BY <2>1 DEF GroveInv
  <2> HIDE DEF e
  <2>3. CASE groveRoster' = groveRoster
    BY <1>2, <2>1, <2>3
  <2>4. CASE groveRoster' = groveRoster \cup {e} /\ ~(Cardinality(groveRoster) >= MaxMembers)
    <3>1. /\ IsFiniteSet(groveRoster) /\ Cardinality(groveRoster) \in Nat /\ MaxMembers \in Nat
          /\ Cardinality(groveRoster) <= MaxMembers
      BY GroveAssumption, FS_CardinalityType DEF GroveRosterInv
    <3>2. /\ IsFiniteSet(groveRoster')
          /\ Cardinality(groveRoster') = Cardinality(groveRoster) \/ Cardinality(groveRoster') = Cardinality(groveRoster) + 1
      BY <2>4, <3>1, FS_AddElement
    <3>3. Cardinality(groveRoster') <= MaxMembers
      BY <2>4, <3>1, <3>2
    <3> QED
      BY <2>1, <2>2, <2>4, <3>2, <3>3 DEF GroveRosterInv
  <2> QED
    BY <2>1, <2>3, <2>4
<1>4. ASSUME NEW a \in GroveAdmins, AddAdmin(a) PROVE GroveRosterInv'
  BY <1>4 DEF AddAdmin, GroveRosterInv
<1>5. CASE GroveTick
  BY <1>5, GroveAssumption DEF GroveTick, GroveRosterInv
<1>6. ASSUME NEW n \in Joiners,
             \/ \E s \in {ThisGrove, UnboundKey} : SetGrove(n, s)
             \/ JoinRequest(n) \/ PollJoinResponse(n)
             \/ \E a \in GroveAdmins, ok \in BOOLEAN, ttl \in MembershipTTLs : JoinRespond(a, n, ok, ttl)
      PROVE  UNCHANGED <<admins, groveRoster, now>>
  BY <1>6 DEF SetGrove, JoinRequest, PollJoinResponse, JoinRespond
<1>7. CASE UNCHANGED groveVars
  BY <1>2, <1>7 DEF groveVars
<1> QED
  BY <1>2, <1>3, <1>4, <1>5, <1>6, <1>7 DEF GroveNext

-----------------------------------------------------------------------------
(* Canopy: a table of routes has its size and names a target once.         *)

\* A table of routes: one for a target, and not more than it may hold.
RouteTable(rs) ==
    /\ IsFiniteSet(rs) /\ Cardinality(rs) <= MaxRoutes
    /\ \A r, s \in rs : r.target = s.target => r = s

\* The tables after an announcement are tables (trellis_canopy_on_announce).
LEMMA TablesStayTables ==
    ASSUME NEW rs, RouteTable(rs), NEW r, NEW t \in Tables(rs, r)
    PROVE  RouteTable(t)
<1> DEFINE known == {s \in rs : s.target = r.target}
<1>0. MaxRoutes \in Nat /\ IsFiniteSet(rs) /\ Cardinality(rs) \in Nat
  BY CanopyAssumption, FS_CardinalityType DEF RouteTable
<1>1. CASE t = rs
  BY <1>1
<1>2. ASSUME NEW k \in known, t = (rs \ known) \cup {r} PROVE RouteTable(t)
  <2>1. known = {k} /\ k \in rs
    BY <1>2 DEF RouteTable
  <2>2. t = (rs \ {k}) \cup {r} /\ \A s \in rs \ {k} : s.target # r.target
    BY <1>2, <2>1
  <2>3. IsFiniteSet(t) /\ Cardinality(t) \in Nat /\ Cardinality(t) <= Cardinality(rs)
    BY <1>0, <2>1, <2>2, OneForAnother
  <2>4. \A x, s \in t : x.target = s.target => x = s
    BY <2>2 DEF RouteTable
  <2> QED
    BY <1>0, <2>3, <2>4 DEF RouteTable
<1>3. ASSUME known = {}, Cardinality(rs) < MaxRoutes, t = rs \cup {r} PROVE RouteTable(t)
  <2>1. IsFiniteSet(t) /\ Cardinality(t) \in Nat /\ Cardinality(t) <= Cardinality(rs) + 1
    BY <1>0, <1>3, OneMore
  <2>2. Cardinality(t) <= MaxRoutes
    BY <1>0, <1>3, <2>1
  <2>3. \A x, s \in t : x.target = s.target => x = s
    BY <1>3 DEF RouteTable
  <2> QED
    BY <2>1, <2>2, <2>3 DEF RouteTable
<1>4. ASSUME known = {}, NEW w \in rs, t = (rs \ {w}) \cup {r} PROVE RouteTable(t)
  <2>1. IsFiniteSet(t) /\ Cardinality(t) \in Nat /\ Cardinality(t) <= Cardinality(rs)
    BY <1>0, <1>4, OneForAnother
  <2>2. \A x, s \in t : x.target = s.target => x = s
    BY <1>4 DEF RouteTable
  <2> QED
    BY <1>0, <2>1, <2>2 DEF RouteTable
<1>5. \/ t = rs
      \/ known # {} /\ t = (rs \ known) \cup {r}
      \/ known = {} /\ Cardinality(rs) < MaxRoutes /\ t = rs \cup {r}
      \/ known = {} /\ \E w \in rs : t = (rs \ {w}) \cup {r}
  <2>1. CASE known # {}
    BY <2>1 DEF Tables
  <2>2. CASE known = {} /\ Cardinality(rs) < MaxRoutes
    BY <2>2 DEF Tables
  <2>3. CASE known = {} /\ ~(Cardinality(rs) < MaxRoutes)
    <3>1. t \in {IF Better(r, w) THEN (rs \ {w}) \cup {r} ELSE rs : w \in Worst(rs)}
      BY <2>3 DEF Tables
    <3>2. \A w \in Worst(rs) : w \in rs
      BY DEF Worst
    <3> QED
      BY <2>3, <3>1, <3>2
  <2> QED
    BY <2>1, <2>2, <2>3
<1> QED
  BY <1>1, <1>2, <1>3, <1>4, <1>5

\* The entries of a bridge are not more than it may hold.
EntryTable(cs) == IsFiniteSet(cs) /\ Cardinality(cs) <= MaxCircuits

\* An entry is added where there is room for it, and taken away.
LEMMA EntriesStayFew ==
    ASSUME NEW cs, EntryTable(cs), NEW e
    PROVE  /\ ~(Cardinality(cs) >= MaxCircuits) => EntryTable(cs \cup {e})
           /\ EntryTable(cs \ {e})
<1>1. MaxCircuits \in Nat /\ IsFiniteSet(cs) /\ Cardinality(cs) \in Nat /\ Cardinality(cs) <= MaxCircuits
  BY CanopyAssumption, FS_CardinalityType DEF EntryTable
<1>2. IsFiniteSet(cs \cup {e}) /\ Cardinality(cs \cup {e}) \in Nat /\ Cardinality(cs \cup {e}) <= Cardinality(cs) + 1
  BY <1>1, OneMore
<1>3. IsFiniteSet(cs \ {e}) /\ Cardinality(cs \ {e}) <= Cardinality(cs) /\ Cardinality(cs \ {e}) \in Nat
  <2>1. cs \ {e} \subseteq cs
    OBVIOUS
  <2> QED
    BY <1>1, <2>1, FS_Subset, FS_CardinalityType
<1> QED
  BY <1>1, <1>2, <1>3 DEF EntryTable

CanopyBounds ==
    /\ rounds \in [Bridges -> 0..MaxRounds] /\ created \in 0..MaxCreated
    /\ \A b \in Bridges : RouteTable(routes[b]) /\ EntryTable(circuits[b])

\* The table of one bridge changes.
LEMMA OneTableChanges ==
    ASSUME CanopyBounds, RouteInv, CircuitInv, NEW b \in Bridges, UNCHANGED rounds, created' \in 0..MaxCreated,
           routes' = routes \/ \E t : RouteTable(t) /\ routes' = [routes EXCEPT ![b] = t],
           circuits' = circuits \/ \E cs : EntryTable(cs) /\ circuits' = [circuits EXCEPT ![b] = cs]
    PROVE  CanopyBounds'
<1>1. DOMAIN routes = Bridges /\ DOMAIN circuits = Bridges
  BY DEF RouteInv, CircuitInv, EntriesState
<1>2. ASSUME NEW c \in Bridges PROVE RouteTable(routes'[c])
  BY <1>1 DEF CanopyBounds
<1>3. ASSUME NEW c \in Bridges PROVE EntryTable(circuits'[c])
  BY <1>1 DEF CanopyBounds
<1> QED
  BY <1>2, <1>3 DEF CanopyBounds

\* The bounds hold at the start, and every step of the bridges keeps them.
LEMMA CanopyBoundsKept ==
    /\ CanopyInit => CanopyBounds
    /\ CanopyBounds /\ RouteInv /\ CircuitInv /\ [CanopyNext]_canopyVars => CanopyBounds'
<1>1. CanopyInit => CanopyBounds
  <2>1. {MaxRoutes, MaxCircuits, MaxRounds, MaxCreated} \subseteq Nat
    BY CanopyAssumption
  <2>2. RouteTable({}) /\ EntryTable({})
    BY <2>1, FS_EmptySet DEF RouteTable, EntryTable
  <2> QED
    BY <2>1, <2>2 DEF CanopyInit, CanopyBounds
<1> SUFFICES ASSUME CanopyBounds, RouteInv, CircuitInv, [CanopyNext]_canopyVars PROVE CanopyBounds'
  BY <1>1
<1>a. created \in 0..MaxCreated /\ MaxCreated \in Nat /\ MaxRounds \in Nat
  BY CanopyAssumption DEF CanopyBounds
<1>2. ASSUME NEW b \in Announcers, Announce(b) PROVE CanopyBounds'
  <2>1. /\ rounds[b] < MaxRounds /\ rounds' = [rounds EXCEPT ![b] = @ + 1]
        /\ UNCHANGED <<routes, circuits, created>>
    BY <1>2 DEF Announce, canopyCircuits
  <2>2. rounds' \in [Bridges -> 0..MaxRounds]
    BY <1>a, <2>1, CanopyAssumption DEF CanopyBounds
  <2> QED
    BY <2>1, <2>2 DEF CanopyBounds
<1>3. ASSUME NEW b \in Bridges, OnAnnounce(b) PROVE CanopyBounds'
  <2>1. PICK a \in announced : \E t \in Tables(routes[b], RouteOf(a)) : routes' = [routes EXCEPT ![b] = t]
    BY <1>3 DEF OnAnnounce
  <2>2. PICK t \in Tables(routes[b], RouteOf(a)) : routes' = [routes EXCEPT ![b] = t]
    BY <2>1
  <2>3. RouteTable(t)
    BY TablesStayTables DEF CanopyBounds
  <2>4. UNCHANGED <<rounds, circuits, created>>
    BY <1>3 DEF OnAnnounce, canopyCircuits
  <2> QED
    BY <1>a, <2>2, <2>3, <2>4, OneTableChanges
<1>4. ASSUME NEW b \in Bridges, DropRoute(b) PROVE CanopyBounds'
  <2>1. PICK r \in routes[b] : routes' = [routes EXCEPT ![b] = @ \ {r}]
    BY <1>4 DEF DropRoute
  <2> DEFINE t == routes[b] \ {r}
  <2>2. routes' = [routes EXCEPT ![b] = t]
    BY <2>1
  <2>3. RouteTable(t)
    <3>1. /\ RouteTable(routes[b]) /\ IsFiniteSet(routes[b]) /\ t \subseteq routes[b]
          /\ MaxRoutes \in Nat
      BY CanopyAssumption DEF CanopyBounds, RouteTable
    <3>2. IsFiniteSet(t) /\ Cardinality(t) <= Cardinality(routes[b])
      BY <3>1, FS_Subset
    <3>3. Cardinality(t) \in Nat /\ Cardinality(routes[b]) \in Nat
      BY <3>1, <3>2, FS_CardinalityType
    <3> QED
      BY <3>1, <3>2, <3>3 DEF RouteTable
  <2>4. UNCHANGED <<rounds, circuits, created>>
    BY <1>4 DEF DropRoute, canopyCircuits
  <2> HIDE DEF t
  <2> QED
    BY <1>a, <2>2, <2>3, <2>4, OneTableChanges
<1>5. ASSUME NEW b \in Bridges, NEW t \in Groves, CreateCanopyCircuit(b, t) PROVE CanopyBounds'
  <2>1. PICK e : circuits' = [circuits EXCEPT ![b] = @ \cup {e}]
    BY <1>5 DEF CreateCanopyCircuit
  <2>2. /\ UNCHANGED <<routes, rounds>> /\ created < MaxCreated /\ created' = created + 1
        /\ Cardinality(circuits[b]) < MaxCircuits
    BY <1>5 DEF CreateCanopyCircuit, canopyRoutes
  <2>3. EntryTable(circuits[b]) /\ ~(Cardinality(circuits[b]) >= MaxCircuits)
    <3>1. EntryTable(circuits[b]) /\ MaxCircuits \in Nat /\ Cardinality(circuits[b]) \in Nat
      BY CanopyAssumption, FS_CardinalityType DEF CanopyBounds, EntryTable
    <3> QED
      BY <2>2, <3>1
  <2>4. EntryTable(circuits[b] \cup {e})
    BY <2>3, EntriesStayFew
  <2>5. circuits' = [circuits EXCEPT ![b] = circuits[b] \cup {e}] /\ created' \in 0..MaxCreated
    BY <1>a, <2>1, <2>2
  <2> QED
    BY <2>2, <2>4, <2>5, OneTableChanges
<1>6. ASSUME NEW b \in Bridges, DestroyCircuit(b) PROVE CanopyBounds'
  <2>1. PICK c : circuits' = [circuits EXCEPT ![b] = circuits[b] \ {c}]
    BY <1>6 DEF DestroyCircuit
  <2>2. EntryTable(circuits[b] \ {c})
    BY EntriesStayFew DEF CanopyBounds
  <2>3. UNCHANGED <<routes, rounds, created>>
    BY <1>6 DEF DestroyCircuit, canopyRoutes
  <2> QED
    BY <1>a, <2>1, <2>2, <2>3, OneTableChanges
<1>7. ASSUME NEW b \in Bridges, NEW from \in Bridges \ {b}, OnCircuitCreate(from, b) PROVE CanopyBounds'
  <2>1. \/ UNCHANGED circuits
        \/ /\ ~(Cardinality(circuits[b]) >= MaxCircuits)
           /\ \E e : circuits' = [circuits EXCEPT ![b] = circuits[b] \cup {e}]
    BY <1>7 DEF OnCircuitCreate
  <2>2. UNCHANGED <<routes, rounds, created>>
    BY <1>7 DEF OnCircuitCreate, canopyRoutes
  <2>3. EntryTable(circuits[b])
    BY DEF CanopyBounds
  <2>4. circuits' = circuits \/ \E cs : EntryTable(cs) /\ circuits' = [circuits EXCEPT ![b] = cs]
    BY <2>1, <2>3, EntriesStayFew
  <2> QED
    BY <1>a, <2>2, <2>4, OneTableChanges
<1>8. ASSUME NEW b \in Bridges, NEW from \in Bridges \ {b}, OnCircuitDestroy(from, b) PROVE CanopyBounds'
  <2>1. \/ UNCHANGED circuits
        \/ \E e : circuits' = [circuits EXCEPT ![b] = circuits[b] \ {e}]
    BY <1>8 DEF OnCircuitDestroy
  <2>2. UNCHANGED <<routes, rounds, created>>
    BY <1>8 DEF OnCircuitDestroy, canopyRoutes
  <2>3. circuits' = circuits \/ \E cs : EntryTable(cs) /\ circuits' = [circuits EXCEPT ![b] = cs]
    BY <2>1, EntriesStayFew DEF CanopyBounds
  <2> QED
    BY <1>a, <2>2, <2>3, OneTableChanges
<1>9. CASE UNCHANGED canopyVars
  BY <1>9 DEF canopyVars, canopyRoutes, canopyCircuits, CanopyBounds
<1> QED
  BY <1>2, <1>3, <1>4, <1>5, <1>6, <1>7, <1>8, <1>9 DEF CanopyNext

\* What is known of the bridges gives them their shape.
LEMMA CanopyShape == CanopyBounds /\ CircuitInv => CanopyTypeOK
<1> SUFFICES ASSUME CanopyBounds, CircuitInv PROVE CanopyTypeOK
  OBVIOUS
<1>1. ASSUME NEW b \in Bridges, NEW c \in circuits[b]
      PROVE  c.id \in 1..created /\ {c.source, c.next} \subseteq Bridges
  <2>1. c \in CircuitEntry
    BY DEF CircuitInv, EntriesState
  <2>2. c.id \in Nat /\ {c.source, c.next} \subseteq Bridges
    BY <2>1 DEF CircuitEntry
  <2>3. c.id \in 1..created
    <3>1. ~Unused(circuits, wires, c.id)
      BY DEF Unused, NoEntry
    <3> QED
      BY <2>2, <3>1, AboutKnown
  <2> QED
    BY <2>2, <2>3
<1> QED
  BY <1>1 DEF CanopyBounds, RouteTable, EntryTable, CanopyTypeOK

-----------------------------------------------------------------------------
(* Incentive: the ledger, the receipts and what is owed.                   *)

\* A joined set is no larger than its parts together.
LEMMA JoinedNoLarger ==
    ASSUME NEW S, IsFiniteSet(S), NEW T, IsFiniteSet(T)
    PROVE  /\ IsFiniteSet(S \cup T) /\ Cardinality(S \cup T) \in Nat
           /\ Cardinality(S \cup T) <= Cardinality(S) + Cardinality(T)
<1>1. /\ IsFiniteSet(S \cup T)
      /\ Cardinality(S \cup T) = Cardinality(S) + Cardinality(T) - Cardinality(S \cap T)
  BY FS_Union
<1>2. S \cap T \subseteq S
  OBVIOUS
<1>3. IsFiniteSet(S \cap T)
  BY <1>2, FS_Subset
<1>4. Cardinality(S) \in Nat /\ Cardinality(T) \in Nat /\ Cardinality(S \cap T) \in Nat
  BY <1>3, FS_CardinalityType
<1> QED
  BY <1>1, <1>4, FS_CardinalityType

\* A table of peers and a buffer of receipts hold as many as they may.
PeerTable(t) == IsFiniteSet(t) /\ Cardinality(t) <= MaxTracked
Buffer(rs) == IsFiniteSet(rs) /\ Cardinality(rs) <= MaxBuffered

LedgerInv ==
    /\ DOMAIN tracked = Traders /\ DOMAIN held = Traders /\ windows \in [Traders -> 0..MaxWindows]
    /\ \A n \in Traders : PeerTable(tracked[n]) /\ Buffer(held[n]) /\ Buffer(Own(n))

\* A peer is found or gets an entry without a table growing past its size
\* (incentive_get_or_create_peer).
LEMMA FoundFits ==
    ASSUME NEW n, PeerTable(tracked[n]), NEW name, NEW f \in Found(n, name)
    PROVE  PeerTable(f.table) /\ f.entry \in f.table
<1> DEFINE t == tracked[n]
           fresh == FreshBook(n, name)
<1>1. IsFiniteSet(t) /\ Cardinality(t) \in Nat /\ MaxTracked \in Nat /\ Cardinality(t) <= MaxTracked
  BY IncentiveAssumption, FS_CardinalityType DEF PeerTable
<1>2. \/ \E e \in t : f = [table |-> t, entry |-> e]
      \/ Cardinality(t) < MaxTracked /\ f = [table |-> t \cup {fresh}, entry |-> fresh]
      \/ \E e \in t : f = [table |-> (t \ {e}) \cup {fresh}, entry |-> fresh]
  BY DEF Found
<1> HIDE DEF t, fresh
<1>3. ASSUME NEW e \in t, f = [table |-> t, entry |-> e] PROVE PeerTable(f.table) /\ f.entry \in f.table
  BY <1>1, <1>3 DEF PeerTable
<1>4. ASSUME Cardinality(t) < MaxTracked, f = [table |-> t \cup {fresh}, entry |-> fresh]
      PROVE  PeerTable(f.table) /\ f.entry \in f.table
  <2>1. /\ IsFiniteSet(t \cup {fresh}) /\ Cardinality(t \cup {fresh}) \in Nat
        /\ Cardinality(t \cup {fresh}) <= Cardinality(t) + 1
    BY <1>1, OneMore
  <2> QED
    BY <1>1, <1>4, <2>1 DEF PeerTable
<1>5. ASSUME NEW e \in t, f = [table |-> (t \ {e}) \cup {fresh}, entry |-> fresh]
      PROVE  PeerTable(f.table) /\ f.entry \in f.table
  <2> DEFINE u == (t \ {e}) \cup {fresh}
  <2>1. IsFiniteSet(u) /\ Cardinality(u) \in Nat /\ Cardinality(u) <= Cardinality(t)
    BY <1>1, OneForAnother
  <2> QED
    BY <1>1, <1>5, <2>1 DEF PeerTable
<1> QED
  BY <1>2, <1>3, <1>4, <1>5

\* An entry is put back in its place.
LEMMA PutFits ==
    ASSUME NEW f, PeerTable(f.table), f.entry \in f.table, NEW e
    PROVE  PeerTable(Put(f, e))
<1>1. /\ IsFiniteSet(f.table) /\ Cardinality(f.table) \in Nat /\ MaxTracked \in Nat
      /\ Cardinality(f.table) <= MaxTracked
  BY IncentiveAssumption, FS_CardinalityType DEF PeerTable
<1> DEFINE u == (f.table \ {f.entry}) \cup {e}
<1>2. IsFiniteSet(u) /\ Cardinality(u) \in Nat /\ Cardinality(u) <= Cardinality(f.table)
  BY <1>1, OneForAnother
<1> QED
  BY <1>1, <1>2 DEF Put, PeerTable

\* Settling entries leaves their table no larger.
LEMMA SettledFits ==
    ASSUME NEW n, PeerTable(tracked[n]), NEW due, due \subseteq tracked[n]
    PROVE  PeerTable((tracked[n] \ due) \cup {Settled(n, e) : e \in due})
<1> DEFINE t == tracked[n]
           rest == t \ due
           new == {Settled(n, e) : e \in due}
<1>1. IsFiniteSet(t) /\ Cardinality(t) \in Nat /\ MaxTracked \in Nat /\ Cardinality(t) <= MaxTracked
  BY IncentiveAssumption, FS_CardinalityType DEF PeerTable
<1>2. IsFiniteSet(due) /\ t \cap due = due
  BY <1>1, FS_Subset
<1>3. IsFiniteSet(rest) /\ Cardinality(rest) = Cardinality(t) - Cardinality(due)
  BY <1>1, <1>2, FS_Difference
<1>4. /\ IsFiniteSet(new) /\ Cardinality(new) \in Nat /\ Cardinality(due) \in Nat
      /\ Cardinality(new) <= Cardinality(due)
  <2> DEFINE g == [e \in due |-> Settled(n, e)]
  <2>1. g \in [due -> new] /\ new = {g[e] : e \in due}
    OBVIOUS
  <2> HIDE DEF g, new
  <2> QED
    BY <1>2, <2>1, ImageNoLarger
<1> HIDE DEF new, rest
<1>5. /\ IsFiniteSet(rest \cup new) /\ Cardinality(rest \cup new) \in Nat
      /\ Cardinality(rest \cup new) <= Cardinality(rest) + Cardinality(new)
  BY <1>3, <1>4, JoinedNoLarger
<1>6. Cardinality(rest \cup new) <= MaxTracked
  BY <1>1, <1>3, <1>4, <1>5
<1> QED
  BY <1>5, <1>6 DEF PeerTable, rest, new

\* Receipts are signed as far as the buffer has room for them (incentive_settle_peer).
LEMMA SignedFits ==
    ASSUME NEW n, Buffer(Own(n)), NEW due, IsFiniteSet(due),
           Cardinality(Own(n)) + Cardinality(due) <= MaxBuffered,
           issued' = issued \cup {Receipt(n, e) : e \in due}
    PROVE  Buffer(Own(n)') /\ \A m : m # n => Own(m)' = Own(m)
<1> DEFINE new == {Receipt(n, e) : e \in due}
<1>1. \A r \in new : r.payer = n
  BY DEF Receipt
<1>2. Own(n)' = Own(n) \cup new
  BY <1>1 DEF Own
<1>3. \A m : m # n => Own(m)' = Own(m)
  BY <1>1 DEF Own
<1>4. /\ IsFiniteSet(new) /\ Cardinality(new) \in Nat /\ Cardinality(due) \in Nat
      /\ Cardinality(new) <= Cardinality(due)
  <2> DEFINE g == [e \in due |-> Receipt(n, e)]
  <2>1. g \in [due -> new] /\ new = {g[e] : e \in due}
    OBVIOUS
  <2> HIDE DEF g, new
  <2> QED
    BY <2>1, ImageNoLarger
<1> HIDE DEF new
<1>5. IsFiniteSet(Own(n)) /\ Cardinality(Own(n)) \in Nat /\ MaxBuffered \in Nat
  BY IncentiveAssumption, FS_CardinalityType DEF Buffer
<1> DEFINE own == Own(n)
<1>6. /\ IsFiniteSet(own \cup new) /\ Cardinality(own \cup new) \in Nat
      /\ Cardinality(own \cup new) <= Cardinality(own) + Cardinality(new)
  BY <1>4, <1>5, JoinedNoLarger
<1>7. Cardinality(own \cup new) <= MaxBuffered
  BY <1>4, <1>5, <1>6
<1> QED
  BY <1>2, <1>3, <1>6, <1>7 DEF Buffer

\* A table or a buffer of one trader changes.
LEMMA OneLedgerChanges ==
    ASSUME LedgerInv, NEW n \in Traders, windows' \in [Traders -> 0..MaxWindows],
           tracked' = tracked \/ \E t : PeerTable(t) /\ tracked' = [tracked EXCEPT ![n] = t],
           held' = held \/ \E rs : Buffer(rs) /\ held' = [held EXCEPT ![n] = rs],
           \A m \in Traders : Buffer(Own(m)')
    PROVE  LedgerInv'
<1>1. ASSUME NEW m \in Traders PROVE PeerTable(tracked'[m])
  BY DEF LedgerInv
<1>2. ASSUME NEW m \in Traders PROVE Buffer(held'[m])
  BY DEF LedgerInv
<1> QED
  BY <1>1, <1>2 DEF LedgerInv

\* The invariant holds at the start, and every step of a trader keeps it.
LEMMA LedgerKept ==
    /\ IncentiveInit => LedgerInv
    /\ LedgerInv /\ [IncentiveNext]_incentiveVars => LedgerInv'
<1>1. IncentiveInit => LedgerInv
  <2>1. {MaxTracked, MaxBuffered, MaxWindows} \subseteq Nat
    BY IncentiveAssumption
  <2>2. PeerTable({}) /\ Buffer({})
    BY <2>1, FS_EmptySet DEF PeerTable, Buffer
  <2> SUFFICES ASSUME IncentiveInit PROVE LedgerInv
    OBVIOUS
  <2>3. \A n \in Traders : Own(n) = {}
    BY DEF IncentiveInit, Own
  <2>4. windows \in [Traders -> 0..MaxWindows]
    BY <2>1 DEF IncentiveInit
  <2>5. DOMAIN tracked = Traders /\ DOMAIN held = Traders /\ \A n \in Traders : tracked[n] = {} /\ held[n] = {}
    BY DEF IncentiveInit
  <2> QED
    BY <2>2, <2>3, <2>4, <2>5 DEF LedgerInv
<1> SUFFICES ASSUME LedgerInv, [IncentiveNext]_incentiveVars PROVE LedgerInv'
  BY <1>1
<1>2. ASSUME UNCHANGED issued PROVE \A m \in Traders : Buffer(Own(m)')
  BY <1>2 DEF LedgerInv, Own
<1>3. windows \in [Traders -> 0..MaxWindows]
  BY DEF LedgerInv
<1>4. ASSUME NEW n \in Traders, NEW p \in Traders \ {n}, RecordRelay(n, p) PROVE LedgerInv'
  <2>1. PICK f \in Found(n, ByFingerprint(p)) :
            tracked' = [tracked EXCEPT ![n] = Put(f, [f.entry EXCEPT !.bytes = @ + 1])]
    BY <1>4 DEF RecordRelay
  <2>2. PeerTable(f.table) /\ f.entry \in f.table
    BY FoundFits DEF LedgerInv
  <2> DEFINE e == [f.entry EXCEPT !.bytes = @ + 1]
  <2>3. PeerTable(Put(f, e)) /\ tracked' = [tracked EXCEPT ![n] = Put(f, e)]
    BY <2>1, <2>2, PutFits
  <2> HIDE DEF e
  <2>4. UNCHANGED <<windows, issued, held>>
    BY <1>4 DEF RecordRelay
  <2> QED
    BY <1>2, <1>3, <2>3, <2>4, OneLedgerChanges
<1>5. ASSUME NEW n \in Traders, Settle(n) PROVE LedgerInv'
  <2>1. PICK due \in SUBSET {e \in tracked[n] : e.bytes >= MinUnits} :
            /\ Cardinality(Own(n)) + Cardinality(due) <= MaxBuffered
            /\ issued' = issued \cup {Receipt(n, e) : e \in due}
            /\ tracked' = [tracked EXCEPT ![n] = (@ \ due) \cup {Settled(n, e) : e \in due}]
    BY <1>5 DEF Settle
  <2> DEFINE t == (tracked[n] \ due) \cup {Settled(n, e) : e \in due}
  <2>2. due \subseteq tracked[n] /\ PeerTable(tracked[n]) /\ Buffer(Own(n))
    BY DEF LedgerInv
  <2>3. IsFiniteSet(due)
    BY <2>2, FS_Subset DEF PeerTable
  <2>4. PeerTable(t) /\ tracked' = [tracked EXCEPT ![n] = t]
    BY <2>1, <2>2, SettledFits
  <2> HIDE DEF t
  <2>5. Buffer(Own(n)') /\ \A m : m # n => Own(m)' = Own(m)
    BY <2>1, <2>2, <2>3, SignedFits
  <2>6. \A m \in Traders : Buffer(Own(m)')
    BY <2>5 DEF LedgerInv
  <2>7. held' = held /\ windows' \in [Traders -> 0..MaxWindows]
    <3>1. held' = held /\ windows[n] < MaxWindows /\ windows' = [windows EXCEPT ![n] = @ + 1]
      BY <1>5 DEF Settle
    <3>2. MaxWindows \in Nat /\ windows[n] \in 0..MaxWindows
      BY <1>3, IncentiveAssumption
    <3>3. windows[n] + 1 \in 0..MaxWindows
      BY <3>1, <3>2
    <3> QED
      BY <1>3, <3>1, <3>3
  <2> QED
    BY <2>4, <2>6, <2>7, OneLedgerChanges
<1>6. ASSUME NEW n \in Traders, AcceptReceipt(n) PROVE LedgerInv'
  <2>1. PICK r \in issued : \E f \in Found(n, ByKey(r.payer)) :
            \/ /\ tracked' = [tracked EXCEPT ![n] = Put(f, [f.entry EXCEPT !.last = r.serial])]
               /\ \/ Cardinality(held[n]) < MaxBuffered /\ held' = [held EXCEPT ![n] = @ \cup {r}]
                  \/ UNCHANGED held
            \/ tracked' = [tracked EXCEPT ![n] = f.table] /\ UNCHANGED held
    BY <1>6 DEF AcceptReceipt
  <2>2. PICK f \in Found(n, ByKey(r.payer)) :
            \/ /\ tracked' = [tracked EXCEPT ![n] = Put(f, [f.entry EXCEPT !.last = r.serial])]
               /\ \/ Cardinality(held[n]) < MaxBuffered /\ held' = [held EXCEPT ![n] = @ \cup {r}]
                  \/ UNCHANGED held
            \/ tracked' = [tracked EXCEPT ![n] = f.table] /\ UNCHANGED held
    BY <2>1
  <2> DEFINE e == [f.entry EXCEPT !.last = r.serial]
  <2>3. PeerTable(f.table) /\ f.entry \in f.table
    BY FoundFits DEF LedgerInv
  <2>4. PeerTable(Put(f, e))
    BY <2>3, PutFits
  <2> HIDE DEF e
  <2>5. \E t : PeerTable(t) /\ tracked' = [tracked EXCEPT ![n] = t]
    BY <2>2, <2>3, <2>4 DEF e
  <2>6. held' = held \/ \E rs : Buffer(rs) /\ held' = [held EXCEPT ![n] = rs]
    <3>1. CASE Cardinality(held[n]) < MaxBuffered /\ held' = [held EXCEPT ![n] = held[n] \cup {r}]
      <4> DEFINE h == held[n]
      <4>1. IsFiniteSet(h) /\ MaxBuffered \in Nat
        BY IncentiveAssumption DEF LedgerInv, Buffer
      <4>2. /\ IsFiniteSet(h \cup {r}) /\ Cardinality(h) \in Nat /\ Cardinality(h \cup {r}) \in Nat
            /\ Cardinality(h \cup {r}) <= Cardinality(h) + 1
        BY <4>1, OneMore
      <4>3. Buffer(h \cup {r})
        BY <3>1, <4>1, <4>2 DEF Buffer
      <4> QED
        BY <3>1, <4>3
    <3>2. held' = held \/ (Cardinality(held[n]) < MaxBuffered /\ held' = [held EXCEPT ![n] = held[n] \cup {r}])
      BY <2>2
    <3> QED
      BY <3>1, <3>2
  <2>7. UNCHANGED <<windows, issued>>
    BY <1>6 DEF AcceptReceipt
  <2> QED
    BY <1>2, <1>3, <2>5, <2>6, <2>7, OneLedgerChanges
<1>7. ASSUME NEW n \in Traders, Redeem(n) PROVE LedgerInv'
  <2>1. held' = [held EXCEPT ![n] = {}] /\ UNCHANGED <<tracked, windows, issued>>
    BY <1>7 DEF Redeem
  <2>2. Buffer({})
    <3>1. MaxBuffered \in Nat
      BY IncentiveAssumption
    <3> QED
      BY <3>1, FS_EmptySet DEF Buffer
  <2> QED
    BY <1>2, <1>3, <2>1, <2>2, OneLedgerChanges
<1>8. CASE UNCHANGED incentiveVars
  BY <1>8 DEF incentiveVars, LedgerInv, Own
<1> QED
  BY <1>4, <1>5, <1>6, <1>7, <1>8 DEF IncentiveNext

\* What is known of the traders gives them their shape.
LEMMA IncentiveShape == IncentiveInv /\ LedgerInv => IncentiveTypeOK
BY DEF IncentiveInv, OneEntryPerName, LedgerInv, PeerTable, Buffer, IncentiveTypeOK

-----------------------------------------------------------------------------
(* Sybil resistance: the tables of trust and of persons, and the score.    *)

\* Trust entries are percentages, as many as there are slots.
TrustTable(d) ==
    /\ IsFiniteSet(DOMAIN d) /\ Cardinality(DOMAIN d) <= TrustSlots
    /\ \A p \in DOMAIN d : d[p] \in 0..100

\* Vouchers have trust entries, as has whoever they vouched for.
VoucherTable(v, d) ==
    /\ DOMAIN v \subseteq DOMAIN d
    /\ \A p \in DOMAIN v : v[p] \subseteq DOMAIN d /\ IsFiniteSet(v[p]) /\ Cardinality(v[p]) <= VoucherSlots

TrustInv ==
    /\ TrustTable(direct) /\ VoucherTable(vouchers, direct)
    /\ \A p \in DOMAIN transitive : transitive[p] \in 0..100

PersonsInv ==
    /\ IsFiniteSet(DOMAIN cached) /\ Cardinality(DOMAIN cached) <= CacheSlots
    /\ sybilNow \in 1..SybilMaxTime /\ graceFrom \in 0..SybilMaxTime
    /\ graceOver \in BOOLEAN /\ issuers \subseteq Persons

\* An entry in a table that has room for it leaves the table within its slots.
LEMMA RoomForEntry ==
    ASSUME NEW f, IsFiniteSet(DOMAIN f), NEW slots \in Nat, Cardinality(DOMAIN f) <= slots,
           NEW p, HasRoom(f, p, slots), NEW v
    PROVE  /\ IsFiniteSet(DOMAIN WithEntry(f, p, v)) /\ Cardinality(DOMAIN WithEntry(f, p, v)) <= slots
<1> DEFINE D == DOMAIN f
<1>1. DOMAIN WithEntry(f, p, v) = D \cup {p}
  BY DEF WithEntry
<1>3. p \in D \/ Cardinality(D) < slots
  BY DEF HasRoom
<1>4. p \in D => D \cup {p} = D
  OBVIOUS
<1>5. /\ IsFiniteSet(D \cup {p}) /\ Cardinality(D) \in Nat /\ Cardinality(D \cup {p}) \in Nat
      /\ Cardinality(D \cup {p}) <= Cardinality(D) + 1
  BY OneMore
<1>6. Cardinality(D \cup {p}) <= slots
  BY <1>3, <1>4, <1>5
<1> QED
  BY <1>1, <1>5, <1>6

\* Whether or not there is room, a peer that is to get an entry leaves a table of trust.
TrustedWith(d, p, v) == IF HasRoom(d, p, TrustSlots) THEN WithEntry(d, p, v) ELSE d

\* A table with such an entry is a table of trust, and names no fewer peers.
LEMMA TrustTables ==
    ASSUME NEW d, TrustTable(d), NEW p, NEW v \in 0..100
    PROVE  /\ TrustTable(TrustedWith(d, p, v)) /\ DOMAIN d \subseteq DOMAIN TrustedWith(d, p, v)
<1>1. TrustSlots \in Nat
  BY SybilAssumption
<1>2. CASE HasRoom(d, p, TrustSlots)
  <2> DEFINE e == WithEntry(d, p, v)
  <2>1. /\ IsFiniteSet(DOMAIN e) /\ Cardinality(DOMAIN e) <= TrustSlots /\ DOMAIN e = DOMAIN d \cup {p}
        /\ \A x \in DOMAIN d \cup {p} : e[x] = IF x = p THEN v ELSE d[x]
    <3>1. IsFiniteSet(DOMAIN d) /\ Cardinality(DOMAIN d) <= TrustSlots
      BY DEF TrustTable
    <3> QED
      <4>1. IsFiniteSet(DOMAIN e) /\ Cardinality(DOMAIN e) <= TrustSlots
        BY <1>1, <1>2, <3>1, RoomForEntry
      <4> QED
        BY <4>1 DEF WithEntry
  <2>2. TrustedWith(d, p, v) = e
    BY <1>2 DEF TrustedWith
  <2> HIDE DEF e
  <2> QED
    BY <2>1, <2>2 DEF TrustTable
<1>3. CASE ~HasRoom(d, p, TrustSlots)
  BY <1>3 DEF TrustedWith
<1> QED
  BY <1>2, <1>3

\* A voucher is remembered while there is a slot for it.
LEMMA VouchersFit ==
    ASSUME NEW v, NEW d, VoucherTable(v, d), NEW q \in DOMAIN d, NEW vs, vs \subseteq DOMAIN d,
           IsFiniteSet(vs), Cardinality(vs) <= VoucherSlots
    PROVE  VoucherTable(WithEntry(v, q, vs), d)
BY DEF VoucherTable, WithEntry

\* Everybody who had a trust entry before has one later.
LEMMA VouchersStay ==
    ASSUME NEW v, NEW d, VoucherTable(v, d), NEW e, DOMAIN d \subseteq DOMAIN e
    PROVE  VoucherTable(v, e)
BY DEF VoucherTable

\* The vouchers that are remembered for a peer.
LEMMA KnownVouchers ==
    ASSUME NEW v, NEW d, VoucherTable(v, d), NEW q
    PROVE  /\ EntryOr(v, q, {}) \subseteq DOMAIN d /\ IsFiniteSet(EntryOr(v, q, {}))
           /\ Cardinality(EntryOr(v, q, {})) \in Nat /\ Cardinality(EntryOr(v, q, {})) <= VoucherSlots
<1>1. VoucherSlots \in Nat
  BY SybilAssumption
<1>2. IsFiniteSet({}) /\ Cardinality({}) = 0
  BY FS_EmptySet
<1>3. CASE q \in DOMAIN v
  BY <1>3, FS_CardinalityType DEF EntryOr, VoucherTable
<1>4. CASE q \notin DOMAIN v
  BY <1>1, <1>2, <1>4 DEF EntryOr
<1> QED
  BY <1>3, <1>4

\* A vouch gives both their entries (trellis_trust_add_vouch).
LEMMA VouchKeeps ==
    ASSUME TrustInv, NEW p, NEW q, AddVouch(p, q)
    PROVE  TrustInv'
<1> DEFINE d1 == TrustedWith(direct, p, EntryOr(direct, p, 0))
           d2 == TrustedWith(d1, q, EntryOr(d1, q, 0))
           known == EntryOr(vouchers, q, {})
<1>1. direct' = d2 /\ transitive' = transitive
  BY DEF AddVouch, TrustedWith
<1>2. \/ vouchers' = vouchers
      \/ q \in DOMAIN d2 /\ p \in DOMAIN d2 /\ Cardinality(known) < VoucherSlots /\ vouchers' = WithEntry(vouchers, q, known \cup {p})
      \/ q \in DOMAIN d2 /\ vouchers' = WithEntry(vouchers, q, known)
  BY DEF AddVouch, TrustedWith
<1>3. TrustTable(d1) /\ DOMAIN direct \subseteq DOMAIN d1
  <2>1. TrustTable(direct) /\ EntryOr(direct, p, 0) \in 0..100
    BY DEF TrustInv, TrustTable, EntryOr
  <2> QED
    BY <2>1, TrustTables
<1> HIDE DEF d1
<1>4. TrustTable(d2) /\ DOMAIN d1 \subseteq DOMAIN d2
  <2>1. EntryOr(d1, q, 0) \in 0..100
    BY <1>3 DEF TrustTable, EntryOr
  <2> QED
    BY <1>3, <2>1, TrustTables
<1> HIDE DEF d2
<1>5. VoucherTable(vouchers, d2)
  BY <1>3, <1>4, VouchersStay DEF TrustInv
<1>6. /\ known \subseteq DOMAIN d2 /\ IsFiniteSet(known)
      /\ Cardinality(known) \in Nat /\ Cardinality(known) <= VoucherSlots
  BY <1>5, KnownVouchers
<1> HIDE DEF known
<1>7. VoucherTable(vouchers', d2)
  <2>1. CASE q \in DOMAIN d2 /\ vouchers' = WithEntry(vouchers, q, known)
    BY <1>5, <1>6, <2>1, VouchersFit
  <2>2. CASE q \in DOMAIN d2 /\ p \in DOMAIN d2 /\ Cardinality(known) < VoucherSlots
             /\ vouchers' = WithEntry(vouchers, q, known \cup {p})
    <3>1. /\ IsFiniteSet(known \cup {p}) /\ Cardinality(known \cup {p}) \in Nat
          /\ Cardinality(known \cup {p}) <= Cardinality(known) + 1
      BY <1>6, OneMore
    <3>2. VoucherSlots \in Nat
      BY SybilAssumption
    <3>3. Cardinality(known \cup {p}) <= VoucherSlots
      BY <1>6, <2>2, <3>1, <3>2
    <3> DEFINE more == known \cup {p}
    <3>4. /\ more \subseteq DOMAIN d2 /\ IsFiniteSet(more) /\ Cardinality(more) <= VoucherSlots
          /\ vouchers' = WithEntry(vouchers, q, more) /\ q \in DOMAIN d2
      BY <1>6, <2>2, <3>1, <3>3
    <3> HIDE DEF more
    <3> QED
      BY <1>5, <3>4, VouchersFit
  <2> QED
    BY <1>2, <1>5, <2>1, <2>2
<1> QED
  BY <1>1, <1>4, <1>7 DEF TrustInv

\* The greatest of some percentages is a percentage.
LEMMA GreatestIsOne ==
    ASSUME NEW S, S \subseteq 0..100, S # {}
    PROVE  MaxOf(S) \in 0..100
<1> DEFINE T == {100 - x : x \in S}
<1>1. T \subseteq Nat /\ T # {}
  <2>1. \A x \in S : 100 - x \in Nat
    OBVIOUS
  <2>2. PICK x : x \in S
    OBVIOUS
  <2> QED
    BY <2>1, <2>2
<1>2. PICK t \in T : \A u \in T : t <= u
  BY <1>1, LeastNatural
<1>3. PICK x \in S : t = 100 - x
  OBVIOUS
<1>4. ASSUME NEW y \in S PROVE y <= x
  <2>1. 100 - y \in T
    OBVIOUS
  <2>2. 100 - x <= 100 - y /\ x \in 0..100 /\ y \in 0..100
    BY <1>2, <1>3, <2>1
  <2> QED
    BY <2>2
<1>5. MaxOf(S) \in S
  BY <1>4 DEF MaxOf
<1> QED
  BY <1>5

\* What is recomputed from percentages is a percentage.
LEMMA RecomputedInRange ==
    ASSUME TrustInv, NEW p \in DOMAIN direct
    PROVE  Recomputed(p) \in 0..100
<1> DEFINE vs == EntryOr(vouchers, p, {})
           S == {direct[p]} \cup {Decayed(direct[v]) : v \in vs}
<1>1. vs \subseteq DOMAIN direct
  BY KnownVouchers DEF TrustInv
<1>2. \A v \in DOMAIN direct : direct[v] \in 0..100
  BY DEF TrustInv, TrustTable
<1>3. \A x \in 0..100 : Decayed(x) \in 0..100
  BY DEF Decayed
<1> HIDE DEF vs
<1>4. S \subseteq 0..100 /\ S # {}
  BY <1>1, <1>2, <1>3
<1> QED
  BY <1>4, GreatestIsOne DEF Recomputed, vs

\* The steps that change trust keep it in its range, and the tables within their sizes.
LEMMA TrustKept ==
    /\ SybilInit => TrustInv
    /\ TrustInv /\ [TrustNext \/ PopNext]_sybilVars => TrustInv'
<1>1. SybilInit => TrustInv
  <2> SUFFICES ASSUME SybilInit PROVE TrustInv
    OBVIOUS
  <2>1. DOMAIN direct = {} /\ DOMAIN vouchers = {} /\ DOMAIN transitive = {}
    BY DEF SybilInit
  <2>2. TrustSlots \in Nat
    BY SybilAssumption
  <2> QED
    BY <2>1, <2>2, FS_EmptySet DEF TrustInv, TrustTable, VoucherTable
<1> SUFFICES ASSUME TrustInv, [TrustNext \/ PopNext]_sybilVars PROVE TrustInv'
  BY <1>1
<1>2. ASSUME UNCHANGED trustVars PROVE TrustInv'
  BY <1>2 DEF trustVars, TrustInv
<1>3. CASE RecomputeTrust
  <2>1. /\ transitive' = [p \in DOMAIN direct |-> Recomputed(p)]
        /\ UNCHANGED <<direct, vouchers>>
    BY <1>3 DEF RecomputeTrust
  <2> QED
    BY <2>1, RecomputedInRange DEF TrustInv
<1>4. ASSUME NEW p \in Persons, Observe(p) PROVE TrustInv'
  <2>1. PICK v \in {0, 100} : direct' = WithEntry(direct, p, v)
    BY <1>4 DEF Observe
  <2>2. direct' = TrustedWith(direct, p, v) /\ UNCHANGED <<vouchers, transitive>>
    BY <1>4, <2>1 DEF Observe, TrustedWith
  <2>3. v \in 0..100
    OBVIOUS
  <2>4. TrustTable(direct') /\ DOMAIN direct \subseteq DOMAIN direct'
    BY <2>2, <2>3, TrustTables DEF TrustInv
  <2>5. VoucherTable(vouchers, direct')
    BY <2>4, VouchersStay DEF TrustInv
  <2> QED
    BY <2>2, <2>4, <2>5 DEF TrustInv
<1>5. ASSUME NEW p \in Persons, NEW q \in Persons \ {p}, AddVouch(p, q) PROVE TrustInv'
  BY <1>5, VouchKeeps
<1>6. CASE PopNext
  BY <1>2, <1>6 DEF PopNext, SybilTick, RegisterKey, RegisterIssuer, CheckAdmission, VerifyPop
<1>7. CASE UNCHANGED sybilVars
  BY <1>2, <1>7 DEF sybilVars
<1> QED
  BY <1>3, <1>4, <1>5, <1>6, <1>7 DEF TrustNext

\* A full cache gives up an entry for a new one (pop_cache_insert).
LEMMA CacheFits ==
    ASSUME PersonsInv, NEW p, NEW c \in CacheInsert(p)
    PROVE  IsFiniteSet(DOMAIN c) /\ Cardinality(DOMAIN c) <= CacheSlots
<1> DEFINE D == DOMAIN cached
<1>1. IsFiniteSet(D) /\ Cardinality(D) \in Nat /\ Cardinality(D) <= CacheSlots /\ CacheSlots \in Nat
  BY SybilAssumption, FS_CardinalityType DEF PersonsInv
<1>2. CASE HasRoom(cached, p, CacheSlots)
  <2>1. c = WithEntry(cached, p, sybilNow)
    BY <1>2 DEF CacheInsert
  <2> QED
    BY <1>1, <1>2, <2>1, RoomForEntry
<1>3. CASE ~HasRoom(cached, p, CacheSlots)
  <2>1. PICK old \in D : c = WithEntry([x \in D \ {old} |-> cached[x]], p, sybilNow)
    BY <1>3 DEF CacheInsert
  <2>2. DOMAIN c = (D \ {old}) \cup {p}
    BY <2>1 DEF WithEntry
  <2> HIDE DEF D
  <2>3. IsFiniteSet((D \ {old}) \cup {p}) /\ Cardinality((D \ {old}) \cup {p}) \in Nat
        /\ Cardinality((D \ {old}) \cup {p}) <= Cardinality(D)
    BY <1>1, OneForAnother
  <2> QED
    BY <1>1, <2>2, <2>3
<1> QED
  BY <1>2, <1>3

\* The cache keeps its size, and the grace period starts at a time of the clock.
LEMMA PersonsKept ==
    /\ SybilInit => PersonsInv
    /\ PersonsInv /\ [TrustNext \/ PopNext]_sybilVars => PersonsInv'
<1>1. SybilInit => PersonsInv
  <2> SUFFICES ASSUME SybilInit PROVE PersonsInv
    OBVIOUS
  <2>1. DOMAIN cached = {} /\ CacheSlots \in Nat /\ SybilMaxTime \in Nat \ {0}
    BY SybilAssumption DEF SybilInit
  <2> QED
    <3>1. IsFiniteSet(DOMAIN cached) /\ Cardinality(DOMAIN cached) <= CacheSlots
      BY <2>1, FS_EmptySet
    <3> QED
      <4>1. sybilNow \in 1..SybilMaxTime /\ graceFrom \in 0..SybilMaxTime
        BY <2>1 DEF SybilInit
      <4> QED
        BY <3>1, <4>1 DEF SybilInit, PersonsInv
<1> SUFFICES ASSUME PersonsInv, [TrustNext \/ PopNext]_sybilVars PROVE PersonsInv'
  BY <1>1
<1>2. CASE TrustNext
  BY <1>2 DEF TrustNext, RecomputeTrust, Observe, AddVouch, popVars, PersonsInv
<1>3. CASE SybilTick
  BY <1>3, SybilAssumption DEF SybilTick, popVars, PersonsInv
<1>4. ASSUME NEW p \in Persons, RegisterKey(p) \/ RegisterIssuer(p) PROVE PersonsInv'
  BY <1>4 DEF RegisterKey, RegisterIssuer, PersonsInv
<1>5. ASSUME NEW p \in Persons, CheckAdmission(p) PROVE PersonsInv'
  <2>1. /\ UNCHANGED <<cached, issuers, sybilNow>>
        /\ graceFrom' = graceFrom \/ graceFrom' = GraceFrom
        /\ graceOver' = graceOver \/ graceOver' = (sybilNow - GraceFrom >= GracePeriod)
    BY <1>5 DEF CheckAdmission
  <2>2. GraceFrom \in 0..SybilMaxTime /\ graceOver' \in BOOLEAN
    <3>1. sybilNow \in 1..SybilMaxTime /\ graceFrom \in 0..SybilMaxTime /\ GracePeriod \in Nat /\ SybilMaxTime \in Nat
      BY SybilAssumption DEF PersonsInv
    <3>2. GraceFrom \in 0..SybilMaxTime
      BY <3>1 DEF GraceFrom
    <3>3. (sybilNow - GraceFrom >= GracePeriod) \in BOOLEAN
      OBVIOUS
    <3> QED
      BY <2>1, <3>2, <3>3 DEF PersonsInv
  <2> QED
    BY <2>1, <2>2 DEF PersonsInv
<1>6. ASSUME NEW p \in Persons, NEW k \in {Threshold - 1, Threshold}, VerifyPop(p, k) PROVE PersonsInv'
  <2>1. /\ cached' = cached \/ cached' \in CacheInsert(p)
        /\ UNCHANGED <<issuers, graceFrom, graceOver, sybilNow>>
    BY <1>6 DEF VerifyPop
  <2>2. IsFiniteSet(DOMAIN cached') /\ Cardinality(DOMAIN cached') <= CacheSlots
    BY <2>1, CacheFits DEF PersonsInv
  <2> QED
    BY <2>1, <2>2 DEF PersonsInv
<1>7. CASE UNCHANGED sybilVars
  BY <1>7 DEF sybilVars, popVars, PersonsInv
<1> QED
  BY <1>2, <1>3, <1>4, <1>5, <1>6, <1>7 DEF PopNext

\* The penalty for vouchers that vouch for each other only lowers a score.
LEMMA ScoreInRange ==
    ASSUME TrustInv, NEW p
    PROVE  TrustScore(p) \in 0..100
<1> DEFINE n == Cardinality(EntryOr(vouchers, p, {}))
           clustering == IF n < 2 THEN 0 ELSE (100 * Cardinality(MutualPairs(p))) \div (n * (n - 1))
           trust == EntryOr(transitive, p, 0)
<1>1. n \in Nat
  BY KnownVouchers DEF TrustInv
<1>2. ASSUME n >= 2 PROVE Cardinality(MutualPairs(p)) \in Nat
  <2>1. p \in DOMAIN vouchers
    <3>1. CASE p \notin DOMAIN vouchers
      <4>1. EntryOr(vouchers, p, {}) = {}
        BY <3>1 DEF EntryOr
      <4>2. n = 0
        BY <4>1, FS_EmptySet
      <4> QED
        BY <1>2, <4>2
    <3> QED
      BY <3>1
  <2>2. IsFiniteSet(vouchers[p])
    BY <2>1 DEF TrustInv, VoucherTable
  <2>3. IsFiniteSet(vouchers[p] \X vouchers[p])
    BY <2>2, FS_Product
  <2>4. IsFiniteSet(MutualPairs(p))
    BY <2>3, FS_Subset DEF MutualPairs
  <2> QED
    BY <2>4, FS_CardinalityType
<1>3. trust \in 0..100
  BY DEF TrustInv, EntryOr
<1>4. clustering \in Nat
  <2>1. CASE n < 2
    BY <2>1
  <2>2. CASE n >= 2
    <3> DEFINE pairs == 100 * Cardinality(MutualPairs(p))
               all == n * (n - 1)
    <3>1. pairs \in Nat
      BY <1>2, <2>2
    <3>2. all \in Nat \ {0}
      <4>1. n - 1 \in Nat \ {0} /\ n \in Nat \ {0}
        BY <1>1, <2>2
      <4>2. \A a, b \in Nat \ {0} : a * b \in Nat \ {0}
        OBVIOUS
      <4> QED
        BY <4>1, <4>2
    <3>3. clustering = pairs \div all
      BY <1>1, <2>2
    <3> HIDE DEF pairs, all, clustering
    <3> QED
      BY <3>1, <3>2, <3>3
  <2> QED
    BY <1>1, <2>1, <2>2
<1>5. TrustScore(p) = LET score == trust - (IF clustering > 50 THEN clustering - 50 ELSE 0)
                     IN  IF score < 0 THEN 0 ELSE score
  BY DEF TrustScore
<1> HIDE DEF clustering, trust
<1> QED
  BY <1>3, <1>4, <1>5

\* What is known of trust and persons gives them their shape.
LEMMA SybilShape == TrustInv /\ PersonsInv => SybilTypeOK
<1> SUFFICES ASSUME TrustInv, PersonsInv PROVE SybilTypeOK
  OBVIOUS
<1> QED
  BY ScoreInRange DEF TrustInv, TrustTable, VoucherTable, PersonsInv, SybilTypeOK

-----------------------------------------------------------------------------
(* Naming and the key log.                                                 *)

\* A record of the alias binds one of its owners, from a time of the clock.
Bindings == [fp : Owners \cup {0}, ts : 0..MaxStamp, cached : BOOLEAN]

\* A binding that an owner makes is a record of the alias.
LEMMA BindingOf ==
    ASSUME NEW fp \in Owners, NEW ts \in 0..MaxStamp
    PROVE  Binding(fp, ts) \in Bindings
BY DEF Binding, Bindings

\* What a node was given or wrote changes for one node.
LEMMA OneResolver ==
    ASSUME NamingTypeOK, NEW n \in Resolvers, UNCHANGED <<stamp, registered, nameStore, petnames>>,
           binding' = binding \/ \E b \in Bindings : binding' = [binding EXCEPT ![n] = b],
           lookingUp' \in [Resolvers -> 0..MaxLookups],
           offered' = offered \/ \E r \in nameStore : offered' = [offered EXCEPT ![n] = @ \cup {r}],
           writers' = writers \/ \E w \in {"lookup", "dns"} : writers' = [writers EXCEPT ![n] = @ \cup {w}]
    PROVE  NamingTypeOK'
<1>1. binding \in [Resolvers -> Bindings]
  BY DEF NamingTypeOK, Bindings
<1>2. binding' \in [Resolvers -> Bindings]
  BY <1>1
<1>3. offered' \in [Resolvers -> SUBSET Records] /\ writers' \in [Resolvers -> SUBSET {"lookup", "dns"}]
  BY DEF NamingTypeOK
<1> QED
  BY <1>2, <1>3 DEF NamingTypeOK, Bindings

\* The shape of the names holds at the start, and every step keeps it.
LEMMA NamingShape ==
    /\ NamingInit => NamingTypeOK
    /\ NamingTypeOK /\ [NamingNext]_namingVars => NamingTypeOK'
<1>a. Owners \subseteq Nat /\ PetnameMax \in Nat /\ MaxLookups \in Nat /\ MaxStamp \in Nat \ {0}
  BY NamingAssumption
<1>1. NamingInit => NamingTypeOK
  BY <1>a DEF NamingInit, NamingTypeOK, NoBinding
<1> SUFFICES ASSUME NamingTypeOK, [NamingNext]_namingVars PROVE NamingTypeOK'
  BY <1>1
<1>b. stamp \in 1..MaxStamp /\ lookingUp \in [Resolvers -> 0..MaxLookups] /\ nameStore \subseteq Records
  BY DEF NamingTypeOK
<1>c. ASSUME NEW r \in nameStore PROVE Binding(r[1], r[2]) \in Bindings
  <2>1. r[1] \in Owners /\ r[2] \in 0..MaxStamp
    BY <1>a, <1>b DEF Records
  <2> QED
    BY <2>1, BindingOf
<1>2. CASE Clock
  BY <1>2, <1>a, <1>b DEF Clock, NamingTypeOK
<1>3. ASSUME NEW o \in Owners, RegisterName(o) \/ RepublishName(o) PROVE NamingTypeOK'
  <2>1. /\ registered' \subseteq registered \cup {o} /\ nameStore' = nameStore \cup {<<o, stamp>>}
        /\ UNCHANGED <<stamp, binding, lookingUp, offered, writers, petnames>>
    BY <1>3 DEF RegisterName, RepublishName, PublishName
  <2>2. <<o, stamp>> \in Records
    BY <1>b DEF Records
  <2> QED
    BY <2>1, <2>2 DEF NamingTypeOK
<1>4. ASSUME NEW n \in Resolvers, ResolveName(n) PROVE NamingTypeOK'
  <2>1. lookingUp[n] < MaxLookups /\ lookingUp' = [lookingUp EXCEPT ![n] = @ + 1]
    BY <1>4 DEF ResolveName
  <2>2. lookingUp' \in [Resolvers -> 0..MaxLookups]
    BY <1>a, <1>b, <2>1
  <2> QED
    BY <1>4, <2>2, OneResolver DEF ResolveName
<1>5. ASSUME NEW n \in Resolvers, OnNameResult(n) PROVE NamingTypeOK'
  <2>1. lookingUp[n] > 0 /\ lookingUp' = [lookingUp EXCEPT ![n] = @ - 1]
    BY <1>5 DEF OnNameResult
  <2>2. lookingUp' \in [Resolvers -> 0..MaxLookups]
    BY <1>a, <1>b, <2>1
  <2>3. UNCHANGED <<stamp, registered, nameStore, petnames>>
    BY <1>5 DEF OnNameResult
  <2>4. CASE UNCHANGED <<binding, offered, writers>>
    BY <2>2, <2>3, <2>4, OneResolver
  <2>5. ASSUME NEW r \in nameStore,
               /\ binding' = [binding EXCEPT ![n] = Binding(r[1], r[2])]
               /\ offered' = [offered EXCEPT ![n] = @ \cup {r}]
               /\ writers' = [writers EXCEPT ![n] = @ \cup {"lookup"}]
        PROVE  NamingTypeOK'
    <3>1. /\ \E b \in Bindings : binding' = [binding EXCEPT ![n] = b]
          /\ \E w \in {"lookup", "dns"} : writers' = [writers EXCEPT ![n] = @ \cup {w}]
      BY <1>c, <2>5
    <3> QED
      BY <2>2, <2>3, <2>5, <3>1, OneResolver
  <2> QED
    BY <1>5, <2>4, <2>5 DEF OnNameResult
<1>6. ASSUME NEW n \in Resolvers, NEW r \in nameStore, VerifyRecord(n, r) PROVE NamingTypeOK'
  <2>1. binding' = binding \/ \E b \in Bindings : binding' = [binding EXCEPT ![n] = b]
    BY <1>6, <1>c DEF VerifyRecord
  <2> QED
    BY <1>6, <1>b, <2>1, OneResolver DEF VerifyRecord
<1>7. ASSUME NEW n \in Resolvers, NEW fp \in Owners, ImportDnsTxt(n, fp) PROVE NamingTypeOK'
  <2>1. binding \in [Resolvers -> Bindings] /\ binding[n].ts \in 0..MaxStamp
    BY DEF NamingTypeOK, Bindings
  <2>2. binding' = [binding EXCEPT ![n] = Binding(fp, binding[n].ts)]
    BY <1>7 DEF ImportDnsTxt
  <2>3. \E b \in Bindings : binding' = [binding EXCEPT ![n] = b]
    BY <2>1, <2>2, BindingOf
  <2> QED
    BY <1>7, <1>b, <2>3, OneResolver DEF ImportDnsTxt
<1>8. ASSUME NEW n \in Resolvers, NEW fp \in Owners, SetPetname(n, fp) \/ RemovePetname(n, fp)
      PROVE  NamingTypeOK'
  BY <1>8 DEF SetPetname, RemovePetname, NamingTypeOK
<1>9. CASE UNCHANGED namingVars
  BY <1>9 DEF namingVars, NamingTypeOK, Records
<1> QED
  BY <1>2, <1>3, <1>4, <1>5, <1>6, <1>7, <1>8, <1>9 DEF NamingNext

-----------------------------------------------------------------------------
\* The entries of the log are within their bounds, and a walk is between where it started and
\* where it is to end.
WalkBounds(w) == w.active => w.at \in w.from..w.to /\ w.to \in 0..MaxSeq
Contacts == [seen : BOOLEAN, seq : 0..MaxSeq, pk : 0..KeyVersions]
Published(l) ==
    \A e \in DOMAIN l : l[e].seq \in 0..MaxSeq /\ l[e].prev \in 0..(e - 1) /\ l[e].pk \in 1..KeyVersions

KeyLogBounds ==
    /\ Published(log) /\ current \in 1..KeyVersions /\ life \in 1..MaxLives
    /\ tofu \in Contacts /\ WalkBounds(walk)

\* The bounds hold at the start, and every step of the owner and of the peer keeps them.
LEMMA KeyLogBoundsKept ==
    /\ KeyLogInit => KeyLogBounds
    /\ KeyLogBounds /\ LogInv /\ WalkInv /\ [KeyLogNext]_keyLogVars => KeyLogBounds'
<1>a. KeyVersions \in Nat \ {0} /\ MaxLives \in Nat \ {0} /\ MaxSeq \in Nat /\ MaxChain \in Nat
  BY KeyLogAssumption
<1>1. KeyLogInit => KeyLogBounds
  BY <1>a DEF KeyLogInit, KeyLogBounds, Published, Contacts, WalkBounds, NoWalk
<1> SUFFICES ASSUME KeyLogBounds, LogInv, WalkInv, [KeyLogNext]_keyLogVars PROVE KeyLogBounds'
  BY <1>1
<1>b. /\ Published(log) /\ current \in 1..KeyVersions /\ life \in 1..MaxLives
      /\ tofu \in Contacts /\ WalkBounds(walk)
  BY DEF KeyLogBounds
<1>c. /\ walk.from \in Nat /\ walk.to \in Nat /\ walk.at \in Nat /\ tofu.seq \in 0..MaxSeq
      /\ walk = [active |-> walk.active, from |-> walk.from, to |-> walk.to, at |-> walk.at,
                 prev |-> walk.prev, pk |-> walk.pk, taken |-> walk.taken]
      /\ tofu = [seen |-> tofu.seen, seq |-> tofu.seq, pk |-> tofu.pk]
      /\ tofu.seen \in BOOLEAN /\ tofu.pk \in 0..KeyVersions
  BY <1>b DEF WalkInv, Contacts
<1>2. CASE PublishKey
  <2> DEFINE e == Entry(NextSeq, chain, current)
  <2>1. log' = Append(log, e) /\ NextSeq <= MaxSeq /\ UNCHANGED <<current, life, tofu, walk>>
    BY <1>2 DEF PublishKey
  <2>2. chain \in 0..Len(log) /\ Len(log) \in Nat
    BY LogEntries DEF LogInv
  <2>3. NextSeq \in 0..MaxSeq
    <3>1. NextSeq \in Nat
      BY <2>2, LogEntries DEF NextSeq
    <3> QED
      BY <1>a, <2>1, <3>1
  <2>4. e.seq \in 0..MaxSeq /\ e.prev \in 0..Len(log) /\ e.pk \in 1..KeyVersions
    BY <1>b, <2>2, <2>3 DEF Entry
  <2> HIDE DEF e
  <2>5. /\ DOMAIN log' = 1..(Len(log) + 1) /\ log'[Len(log) + 1] = e
        /\ DOMAIN log = 1..Len(log) /\ \A i \in 1..Len(log) : log'[i] = log[i]
    BY <2>1 DEF LogInv
  <2>6. ASSUME NEW i \in 1..(Len(log) + 1)
        PROVE  log'[i].seq \in 0..MaxSeq /\ log'[i].prev \in 0..(i - 1) /\ log'[i].pk \in 1..KeyVersions
    <3>1. CASE i = Len(log) + 1
      BY <2>2, <2>4, <2>5, <3>1
    <3>2. CASE i \in 1..Len(log)
      BY <1>b, <2>5, <3>2 DEF Published
    <3> QED
      BY <2>2, <3>1, <3>2
  <2> QED
    BY <1>b, <2>1, <2>5, <2>6 DEF KeyLogBounds, Published
<1>3. CASE RotateKey
  BY <1>3, <1>a, <1>b DEF RotateKey, KeyLogBounds
<1>4. CASE RestartOwner
  BY <1>4, <1>a, <1>b DEF RestartOwner, KeyLogBounds
<1>5. CASE FirstContact
  <2>1. /\ chain # 0 /\ tofu' = [seen |-> TRUE, seq |-> log[chain].seq, pk |-> current]
        /\ UNCHANGED <<log, current, life, walk>>
    BY <1>5 DEF FirstContact
  <2>2. chain \in DOMAIN log
    BY <2>1, LogEntries DEF LogInv
  <2>3. log[chain].seq \in 0..MaxSeq /\ current \in 0..KeyVersions
    BY <1>a, <1>b, <2>2 DEF Published
  <2>4. tofu' \in Contacts
    BY <2>1, <2>3 DEF Contacts
  <2> QED
    BY <1>b, <2>1, <2>4 DEF KeyLogBounds
<1>6. CASE EntryMissing
  BY <1>6, <1>b DEF EntryMissing, Ended, NoWalk, WalkBounds, KeyLogBounds
<1>7. ASSUME NEW to \in 0..MaxSeq, StartWalk(to) PROVE KeyLogBounds'
  <2>1. \/ UNCHANGED walk
        \/ ~(to < tofu.seq) /\ walk' = [NoWalk EXCEPT !.active = TRUE, !.from = tofu.seq, !.to = to, !.at = tofu.seq, !.pk = tofu.pk]
    BY <1>7 DEF StartWalk
  <2>2. CASE ~(to < tofu.seq) /\ walk' = [NoWalk EXCEPT !.active = TRUE, !.from = tofu.seq, !.to = to, !.at = tofu.seq, !.pk = tofu.pk]
    <3>1. walk'.at = tofu.seq /\ walk'.from = tofu.seq /\ walk'.to = to
      BY <2>2 DEF NoWalk
    <3>2. WalkBounds(walk')
      BY <1>c, <2>2, <3>1, <1>a DEF WalkBounds
    <3> QED
      BY <1>7, <1>b, <3>2 DEF StartWalk, KeyLogBounds
  <2>3. CASE UNCHANGED walk
    BY <1>7, <1>b, <2>3 DEF StartWalk, KeyLogBounds
  <2> QED
    BY <2>1, <2>2, <2>3
<1>8. ASSUME NEW e \in DOMAIN log, EntryFetched(e) PROVE KeyLogBounds'
  <2>1. walk.active /\ UNCHANGED <<log, current, life>>
    BY <1>8 DEF EntryFetched
  <2>2. walk.at \in walk.from..walk.to /\ walk.to \in 0..MaxSeq /\ log[e].pk \in 1..KeyVersions
    BY <1>b, <2>1 DEF WalkBounds, Published
  <2>3. CASE walk' = NoWalk /\ (tofu' = tofu \/ tofu' = [tofu EXCEPT !.seq = walk.to, !.pk = log[e].pk])
    <3>1. tofu' = tofu \/ tofu' = [seen |-> tofu.seen, seq |-> walk.to, pk |-> log[e].pk]
      BY <1>c, <2>3
    <3>2. log[e].pk \in 0..KeyVersions
      BY <1>a, <2>2
    <3>3. tofu' \in Contacts
      BY <1>b, <1>c, <2>2, <3>1, <3>2 DEF Contacts
    <3>4. WalkBounds(walk')
      BY <2>3 DEF WalkBounds, NoWalk
    <3> QED
      BY <1>b, <2>1, <3>3, <3>4 DEF KeyLogBounds
  <2>4. ASSUME NEW t, walk.at # walk.to, tofu' = tofu,
               walk' = [walk EXCEPT !.at = @ + 1, !.prev = e, !.pk = log[e].pk, !.taken = t]
        PROVE  KeyLogBounds'
    <3>1. walk'.at = walk.at + 1 /\ walk'.from = walk.from /\ walk'.to = walk.to
      BY <1>c, <2>4
    <3>2. WalkBounds(walk')
      BY <1>c, <2>2, <2>4, <3>1 DEF WalkBounds
    <3> QED
      BY <1>b, <2>1, <2>4, <3>2 DEF KeyLogBounds
  <2> QED
    BY <1>8, <2>3, <2>4 DEF EntryFetched, Ended
<1>9. CASE UNCHANGED keyLogVars
  BY <1>9, <1>b DEF keyLogVars, KeyLogBounds
<1> QED
  BY <1>2, <1>3, <1>4, <1>5, <1>6, <1>7, <1>8, <1>9 DEF KeyLogNext

\* What is known of the log gives it its shape.
LEMMA KeyLogShape == KeyLogBounds /\ LogInv => KeyLogTypeOK
BY DEF KeyLogBounds, LogInv, Published, Contacts, WalkBounds, KeyLogTypeOK

-----------------------------------------------------------------------------
(* The shape of the state of all parts together.                           *)

\* What is known of each part.
GroupShapes ==
    /\ section \in Sections
    /\ PointsInv /\ RendezvousInv
    /\ RosterInv /\ TreeInv /\ HistoryInv
    /\ GroveInv /\ GroveRosterInv
    /\ RouteInv /\ CircuitInv /\ CanopyBounds
    /\ LedgerInv
    /\ TrustInv /\ PersonsInv
    /\ NamingTypeOK
    /\ LogInv /\ WalkInv /\ KeyLogBounds

\* Every part starts so and stays so, whichever part takes a step.
LEMMA GroupShapesKept ==
    /\ GroupsInit => GroupShapes
    /\ GroupShapes /\ [GroupsNext]_groupVars => GroupShapes'
<1>1. ASSUME GroupsInit PROVE GroupShapes
  <2>1. section \in Sections /\ PointsInv /\ RendezvousInv /\ RosterInv /\ TreeInv /\ HistoryInv
    BY <1>1, PointsKept, RendezvousInvInit, RosterKept, TreeStarts, HistoryInvInit DEF GroupsInit
  <2>2. GroveInv /\ GroveRosterInv /\ RouteInv /\ CircuitInv /\ CanopyBounds
    BY <1>1, GroveInvInit, GroveRosterKept, RouteInvInit, CircuitInvInit, CanopyBoundsKept DEF GroupsInit
  <2>3. LedgerInv /\ TrustInv /\ PersonsInv
    BY <1>1, LedgerKept, TrustKept, PersonsKept DEF GroupsInit
  <2>4. NamingTypeOK /\ LogInv /\ WalkInv /\ KeyLogBounds
    BY <1>1, NamingShape, KeyLogInvInit, KeyLogBoundsKept DEF GroupsInit
  <2> QED
    BY <2>1, <2>2, <2>3, <2>4 DEF GroupShapes
<1>2. ASSUME GroupShapes, [GroupsNext]_groupVars PROVE GroupShapes'
  <2>1. /\ [GreenhouseNext]_greenhouseVars /\ [GardenNext \/ Post]_gardenVars
        /\ [GroveNext]_groveVars /\ [CanopyNext]_canopyVars /\ [IncentiveNext]_incentiveVars
        /\ [TrustNext \/ PopNext]_sybilVars /\ [NamingNext]_namingVars /\ [KeyLogNext]_keyLogVars
    BY <1>2, PartsStep
  <2>2. section' \in Sections
    BY <1>2 DEF GroupShapes, GroupsNext, OthersRest, groupVars
  <2>3. PointsInv' /\ RendezvousInv' /\ RosterInv' /\ TreeInv' /\ HistoryInv'
    BY <1>2, <2>1, PointsKept, RendezvousInvNext, RosterKept, TreeSteps, HistoryInvNext DEF GroupShapes
  <2>4. GroveInv' /\ GroveRosterInv' /\ RouteInv' /\ CircuitInv' /\ CanopyBounds'
    BY <1>2, <2>1, GroveInvNext, GroveRosterKept, RouteInvNext, CircuitInvNext, CanopyBoundsKept DEF GroupShapes
  <2>5. LedgerInv'
    BY <1>2, <2>1, LedgerKept DEF GroupShapes
  <2>6. TrustInv' /\ PersonsInv' /\ NamingTypeOK'
    BY <1>2, <2>1, TrustKept, PersonsKept, NamingShape DEF GroupShapes
  <2>7. LogInv' /\ WalkInv' /\ KeyLogBounds'
    BY <1>2, <2>1, KeyLogInvNext, KeyLogBoundsKept DEF GroupShapes
  <2> QED
    BY <2>2, <2>3, <2>4, <2>5, <2>6, <2>7 DEF GroupShapes
<1> QED
  BY <1>1, <1>2

\* Every part of the groups and identities has its shape and keeps its bounds: a service has no
\* more points than it may have, a garden no member twice and an epoch not ahead of its tree,
\* a grove no more members, a bridge one route per target and no more circuits, a trader one
\* entry per name and no more receipts than fit (incentive.c), a peer of trust a score between 0
\* and 100 and only vouchers with entries of their own (trust.c), for any numbers of them.
THEOREM GroupsTypeOKHolds == GroupsSpec => []GroupsTypeOK
<1>1. GroupShapes /\ IncentiveInv => GroupsTypeOK
  <2> SUFFICES ASSUME GroupShapes, IncentiveInv PROVE GroupsTypeOK
    OBVIOUS
  <2>1. GreenhouseTypeOK
    BY DEF GroupShapes, PointsInv, RendezvousInv, GreenhouseTypeOK
  <2>2. GroveTypeOK
    BY DEF GroupShapes, GroveRosterInv, GroveTypeOK
  <2>3. GardenTypeOK /\ CanopyTypeOK /\ IncentiveTypeOK
    BY GardenShape, CanopyShape, IncentiveShape DEF GroupShapes
  <2>4. SybilTypeOK /\ NamingTypeOK /\ KeyLogTypeOK
    BY SybilShape, KeyLogShape DEF GroupShapes
  <2> QED
    BY <2>1, <2>2, <2>3, <2>4 DEF GroupsTypeOK, GroupShapes
<1> QED
  BY <1>1, GroupShapesKept, IncentiveHolds, PTL DEF GroupsSpec

=============================================================================
