-------------------------------- MODULE Sybil --------------------------------
(***************************************************************************)
(* What a node believes of its peers (src/src/sybil): the vouches it heard *)
(* of and the trust computed from them (trust.c), the personhood           *)
(* credentials it verified (personhood.c), and whom it admits for them     *)
(* (composite.c).  Trust is counted in hundredths.                         *)
(***************************************************************************)
EXTENDS Integers, SequencesExt

-----------------------------------------------------------------------------
(* VDF.  A value of the chain is the number of hashes that lead to it from *)
(* the fingerprint; Blank is a checkpoint that was never written.          *)

Blank == -1
VdfInterval(n, k) == IF n \div k = 0 THEN 1 ELSE n \div k

\* trellis_vdf_compute: every interval a checkpoint, k of them at most.
VdfCompute(n, k) ==
    LET step == VdfInterval(n, k) IN
    [iterations |-> n, final |-> n,
     checkpoints |-> [i \in 1..k |-> IF step * i <= n THEN step * i ELSE Blank]]

\* verify_segment: count hashes lead from start to the expected value.
VdfSegment(start, count, expected) == start # Blank /\ start + count = expected

\* trellis_vdf_verify: the segments between checkpoints, then the tail.  What remains is
\* a difference of unsigned numbers.
VdfVerify(p, k) ==
    LET step == VdfInterval(p.iterations, k)
        remaining == p.iterations - k * step
    IN /\ p.iterations # 0
       /\ \A i \in 1..k : VdfSegment(IF i = 1 THEN 0 ELSE p.checkpoints[i - 1], step, p.checkpoints[i])
       /\ IF remaining # 0 THEN VdfSegment(p.checkpoints[k], remaining, p.final)
                           ELSE p.checkpoints[k] = p.final

\* A proof that was computed verifies exactly when it has an iteration per checkpoint.
ASSUME VdfProofsVerify ==
    \A k \in 1..4, n \in 1..30 : VdfVerify(VdfCompute(n, k), k) <=> n >= k

-----------------------------------------------------------------------------
(* Presentations.  A group element a*G + b*H is <<a, b>> over the scalars  *)
(* modulo q.                                                               *)

Commitment(r, sk) == <<r, sk>>
PointSum(x, y, q) == <<(x[1] + y[1]) % q, (x[2] + y[2]) % q>>
ScalarTimes(c, x, q) == <<(c * x[1]) % q, (c * x[2]) % q>>

\* The hash of a proof's transcript: any function of the commitment, R and the nonce.
PopChallenge(C, R, nonce, q) == (C[1] + 2 * C[2] + 3 * R[1] + R[2] + nonce) % q

\* pop_schnorr_prove: (c, z_r, z_sk) for the random scalars k_r and k_sk.
SchnorrProve(C, r, sk, kr, ks, nonce, q) ==
    LET c == PopChallenge(C, <<kr, ks>>, nonce, q)
    IN [c |-> c, zr |-> (kr - c * r) % q, zsk |-> (ks - c * sk) % q]

\* pop_schnorr_verify: R is recomputed from the responses and the commitment.
SchnorrVerify(C, p, nonce, q) ==
    LET R == PointSum(<<p.zr, p.zsk>>, ScalarTimes(p.c, C, q), q)
    IN PopChallenge(C, R, nonce, q) = p.c

\* trellis_pop_create_presentation: the commitment is made anew with r2, and the proof is
\* for the sum of the blinding scalars.
Presentation(r, sk, r2, kr, ks, nonce, q) ==
    LET C2 == PointSum(Commitment(r, sk), Commitment(r2, 0), q)
    IN [commitment |-> C2, proof |-> SchnorrProve(C2, (r + r2) % q, sk, kr, ks, nonce, q)]

\* A presentation verifies under the nonce it was made for, whatever was drawn for it.
ASSUME PresentationsVerify ==
    LET q == 3
        S == 0..(q - 1)
    IN \A r, sk, r2, kr, ks, nonce \in S :
            LET p == Presentation(r, sk, r2, kr, ks, nonce, q)
            IN SchnorrVerify(p.commitment, p.proof, nonce, q)

-----------------------------------------------------------------------------
(* Behaviour, in hundredths. *)

\* trellis_behavior_score of a peer with a record.
BehaviorScore(attempted, completed, claimed, measured) ==
    LET fidelity == IF attempted > 0 THEN (100 * completed) \div attempted ELSE 50
        honesty == IF claimed > 0
                   THEN IF measured > claimed THEN 100 ELSE (100 * measured) \div claimed
                   ELSE 100
    IN (fidelity + honesty) \div 2

\* trellis_behavior_uptime_correlation, without its square root: covariance and variances
\* of two rings, each times the square of the size.
SumOver(f, D) == MapThenSumSet(LAMBDA i : f[i], D)
Covariance(a, b) ==
    LET D == DOMAIN a
        n == Cardinality(D)
    IN n * SumOver([i \in D |-> a[i] * b[i]], D) - SumOver(a, D) * SumOver(b, D)

\* Rings that are equal and not constant correlate fully, and no pair does by more.
ASSUME CorrelationBounded ==
    LET Rings == [0..3 -> {0, 1}] IN
    \A a, b \in Rings : /\ Covariance(a, b) * Covariance(a, b) <= Covariance(a, a) * Covariance(b, b)
                        /\ a = b => Covariance(a, b) = Covariance(a, a)

\* A score never falls when a circuit is completed and never rises when one fails.
ASSUME ScoresFollowCircuits ==
    \A n \in 0..6, c \in 0..6, m \in 0..3 : c <= n =>
        /\ n > 0 => BehaviorScore(n + 1, c + 1, 2, m) >= BehaviorScore(n, c, 2, m)
        /\ n > 0 => BehaviorScore(n + 1, c, 2, m) <= BehaviorScore(n, c, 2, m)

-----------------------------------------------------------------------------
(* Hops.  trellis_sybil_select_hops draws by score, skips a draw that      *)
(* shares the subnet of, or correlates with, a hop that was chosen, and    *)
(* fills up without that condition when the draws run out.                 *)

Hops(s) == {s[i] : i \in 1..Len(s)}

\* The choices of up to n diverse hops; the draws may end at any of them.
DiverseChoices(eligible, n, alike) ==
    {s \in UNION {[1..m -> eligible] : m \in 0..n} :
        \A i, j \in 1..Len(s) : i # j => s[i] # s[j] /\ <<s[i], s[j]>> \notin alike}

\* The relaxed pass takes the candidates in their order.
Filled(s, rest, n) ==
    LET take(hops, next) == IF Len(hops) >= n \/ next \in Hops(hops) THEN hops ELSE Append(hops, next)
    IN FoldLeft(take, s, rest)

SelectHops(candidates, n, alike) ==
    {Filled(s, candidates, n) : s \in DiverseChoices(Hops(candidates), n, alike)}

\* As many hops as there are candidates, up to the number asked for, and none twice.
ASSUME HopsAreEnough ==
    LET alike == {<<1, 2>>, <<2, 1>>} IN
    \A n \in 1..3 : \A s \in SelectHops(<<1, 2, 3>>, n, alike) :
        Len(s) = n /\ Cardinality(Hops(s)) = n

-----------------------------------------------------------------------------
CONSTANTS
    Persons,         \* the peers
    TrustSlots,      \* TRELLIS_TRUST_MAX_ENTRIES
    VoucherSlots,    \* TRUST_ADJ_MAX
    CacheSlots,      \* the size of g_pop_cache
    IssuerSlots,     \* POP_MAX_ISSUERS
    Threshold,       \* POP_THRESHOLD
    GracePeriod,     \* POP_BOOTSTRAP_GRACE_MS
    SybilMaxTime     \* bound: the clock

ASSUME SybilAssumption ==
    {TrustSlots, VoucherSlots, CacheSlots, IssuerSlots, Threshold, GracePeriod, SybilMaxTime} \subseteq Nat \ {0}

VARIABLES
    direct,      \* the trust entries: peer -> its direct trust
    vouchers,    \* the adjacency entries: peer -> who vouched for it
    transitive,  \* peer -> transitive_trust
    cached,      \* g_pop_cache: peer -> when its entry expires
    peerKeys,    \* g_peer_keys
    issuers,     \* g_issuers
    graceFrom,   \* g_pop_grace_start_ms; 0 before it is set
    graceOver,   \* g_pop_grace_expired
    sybilNow     \* the clock

trustVars == <<direct, vouchers, transitive>>
popVars == <<cached, peerKeys, issuers, graceFrom, graceOver>>
sybilVars == <<trustVars, popVars, sybilNow>>

SybilInit ==
    /\ direct = <<>> /\ vouchers = <<>> /\ transitive = <<>>
    /\ cached = <<>> /\ peerKeys = {} /\ issuers = {}
    /\ graceFrom = 0 /\ graceOver = FALSE
    /\ sybilNow = 1

MaxOf(S) == CHOOSE x \in S : \A y \in S : y <= x
WithEntry(f, p, v) == [x \in DOMAIN f \cup {p} |-> IF x = p THEN v ELSE f[x]]
HasRoom(f, p, slots) == p \in DOMAIN f \/ Cardinality(DOMAIN f) < slots
EntryOr(f, p, v) == IF p \in DOMAIN f THEN f[p] ELSE v

-----------------------------------------------------------------------------
(* Trust. *)

\* trellis_trust_observe: the trust of an entry stays within 0 and 1.
Observe(p) ==
    /\ HasRoom(direct, p, TrustSlots)
    /\ \E v \in {0, 100} : direct' = WithEntry(direct, p, v)
    /\ UNCHANGED <<vouchers, transitive, popVars, sybilNow>>

\* trellis_trust_add_vouch, of a signed vouch: voucher and vouchee get entries while
\* there is room, and the voucher is remembered once.
AddVouch(p, q) ==
    LET d1 == IF HasRoom(direct, p, TrustSlots) THEN WithEntry(direct, p, EntryOr(direct, p, 0)) ELSE direct
        d2 == IF HasRoom(d1, q, TrustSlots) THEN WithEntry(d1, q, EntryOr(d1, q, 0)) ELSE d1
        known == EntryOr(vouchers, q, {})
    IN /\ direct' = d2
       /\ vouchers' = IF q \notin DOMAIN d2 THEN vouchers
                      ELSE IF p \in DOMAIN d2 /\ Cardinality(known) < VoucherSlots
                      THEN WithEntry(vouchers, q, known \cup {p})
                      ELSE WithEntry(vouchers, q, known)
       /\ UNCHANGED <<transitive, popVars, sybilNow>>

\* TRELLIS_TRUST_DECAY, for a path of one hop.
Decayed(t) == (60 * t) \div 100

\* trellis_trust_recompute: at every depth the direct trust of the vouchers is taken, so
\* the first depth decides.
Recomputed(p) == MaxOf({direct[p]} \cup {Decayed(direct[v]) : v \in EntryOr(vouchers, p, {})})
RecomputeTrust ==
    /\ transitive' = [p \in DOMAIN direct |-> Recomputed(p)]
    /\ UNCHANGED <<direct, vouchers, popVars, sybilNow>>

\* The curvature penalty: the share of the pairs of vouchers where the one that was
\* remembered first vouched for the other, as far as it is more than half.
MutualPairs(p) == {w \in vouchers[p] \X vouchers[p] : w[1] # w[2] /\ w[1] \in EntryOr(vouchers, w[2], {})}
TrustScore(p) ==
    LET n == Cardinality(EntryOr(vouchers, p, {}))
        clustering == IF n < 2 THEN 0 ELSE (100 * Cardinality(MutualPairs(p))) \div (n * (n - 1))
        score == EntryOr(transitive, p, 0) - (IF clustering > 50 THEN clustering - 50 ELSE 0)
    IN IF score < 0 THEN 0 ELSE score

-----------------------------------------------------------------------------
(* Personhood. *)

\* trellis_pop_register_peer_pubkey.
RegisterKey(p) ==
    /\ peerKeys' = peerKeys \cup {p}
    /\ UNCHANGED <<trustVars, cached, issuers, graceFrom, graceOver, sybilNow>>

\* trellis_pop_register_issuer: the first issuer ends the grace period.
RegisterIssuer(p) ==
    /\ p \notin issuers /\ Cardinality(issuers) < IssuerSlots
    /\ issuers' = issuers \cup {p}
    /\ graceOver' = (graceOver \/ issuers = {})
    /\ UNCHANGED <<trustVars, cached, peerKeys, graceFrom, sybilNow>>

\* Faulty variant of CacheInsert: nothing makes room in a full cache.
CacheGrows(p) == {WithEntry(cached, p, sybilNow)}

\* pop_cache_insert: a full cache gives up the entry that expires first.
CacheInsert(p) ==
    IF HasRoom(cached, p, CacheSlots) THEN {WithEntry(cached, p, sybilNow)}
    ELSE {WithEntry([x \in DOMAIN cached \ {old} |-> cached[x]], p, sybilNow) :
             old \in {x \in DOMAIN cached : \A y \in DOMAIN cached : cached[x] <= cached[y]}}

\* trellis_pop_verify: a credential of enough issuers, or a presentation, signed by a
\* peer whose key is known.  A cached peer is believed whatever it shows.
VerifyPop(p, count) ==
    /\ IF p \in DOMAIN cached \/ p \notin peerKeys \/ count < Threshold
       THEN UNCHANGED cached
       ELSE cached' \in CacheInsert(p)
    /\ UNCHANGED <<trustVars, peerKeys, issuers, graceFrom, graceOver, sybilNow>>

\* pop_in_grace_period, after the clock started: whether it still lasts.
GraceLasts == ~graceOver /\ (graceFrom = 0 \/ sybilNow - graceFrom < GracePeriod)

\* Faulty variant of GraceFrom: a grace period that ended is started again.
GraceFromAgain == IF GraceLasts /\ graceFrom # 0 THEN graceFrom ELSE sybilNow

\* When the grace period started, for an admission that asks for it.
GraceFrom == IF graceFrom = 0 THEN sybilNow ELSE graceFrom

\* trellis_pop_has_credential, and with it trellis_sybil_check_admission.
Admitted(p) == p \in DOMAIN cached \/ p \in issuers \/ (issuers = {} /\ GraceLasts)
CheckAdmission(p) ==
    /\ IF p \in DOMAIN cached \/ issuers # {} \/ graceOver
       THEN UNCHANGED <<graceFrom, graceOver>>
       ELSE /\ graceFrom' = GraceFrom
            /\ graceOver' = (sybilNow - GraceFrom >= GracePeriod)
    /\ UNCHANGED <<trustVars, cached, peerKeys, issuers, sybilNow>>

SybilTick ==
    /\ sybilNow < SybilMaxTime /\ sybilNow' = sybilNow + 1
    /\ UNCHANGED <<trustVars, popVars>>

TrustNext == RecomputeTrust \/ \E p \in Persons : Observe(p) \/ \E q \in Persons \ {p} : AddVouch(p, q)
PopNext ==
    \/ SybilTick
    \/ \E p \in Persons : \/ RegisterKey(p) \/ RegisterIssuer(p) \/ CheckAdmission(p)
                          \/ \E n \in {Threshold - 1, Threshold} : VerifyPop(p, n)

TrustSpec == SybilInit /\ [][TrustNext]_sybilVars
PopSpec == SybilInit /\ [][PopNext]_sybilVars

-----------------------------------------------------------------------------
\* Tables keep their sizes, and every voucher has an entry.
SybilTypeOK ==
    /\ Cardinality(DOMAIN direct) <= TrustSlots /\ Cardinality(DOMAIN cached) <= CacheSlots
    /\ DOMAIN vouchers \subseteq DOMAIN direct
    /\ \A p \in DOMAIN vouchers : Cardinality(vouchers[p]) <= VoucherSlots /\ vouchers[p] \subseteq DOMAIN direct
    /\ \A p \in DOMAIN transitive : TrustScore(p) \in 0..100
    /\ graceFrom \in 0..SybilMaxTime /\ graceOver \in BOOLEAN /\ issuers \subseteq Persons

\* A peer that was refused is let in later only by what itself or an issuer did since:
\* the grace period never comes back.
RefusedStaysOut ==
    [][\A p \in Persons : ~Admitted(p) /\ Admitted(p)' => p \in DOMAIN cached' \cup issuers']_sybilVars
=============================================================================
