------------------------------ MODULE Recovery ------------------------------
(***************************************************************************)
(* The secret sharing of an identity's keys                                *)
(* (src/src/sdk/identity_recovery.c), for one byte of the secret.  A byte  *)
(* is the set of its bits, read as a polynomial over GF(2).                *)
(***************************************************************************)
EXTENDS Naturals, FiniteSets, Sequences, Folds

CONSTANTS
    Secrets,      \* bytes that are split
    Randoms,      \* what randombytes_buf may return for a coefficient
    ShareCount,   \* n
    SharesNeeded  \* k

Byte == SUBSET (0..7)

Xor(a, b) == (a \ b) \union (b \ a)

\* One round of gf_mul on a: shifted by one bit, and 0x1b is taken off after a carry.
Doubled(a) ==
    LET shifted == {i + 1 : i \in a \ {7}}
    IN IF 7 \in a THEN Xor(shifted, {0, 1, 3, 4}) ELSE shifted

GfMul(a, b) ==
    LET power[i \in 0..7] == IF i = 0 THEN a ELSE Doubled(power[i - 1])
    IN MapThenFoldSet(Xor, {}, LAMBDA i : power[i], LAMBDA s : CHOOSE i \in s : TRUE, b)

One == {0}

GfPow(a, n) ==
    LET power[i \in 0..n] == IF i = 0 THEN One
                             ELSE LET half == power[i \div 2]
                                  IN GfMul(GfMul(half, half), IF i % 2 = 0 THEN One ELSE a)
    IN power[n]

GfInv(a) == GfPow(a, 254)

\* The byte with the value n.
ByteOf(n) == {i \in 0..7 : (n \div 2^i) % 2 = 1}

\* trellis_identity_split_secret: the polynomial with these coefficients at x.
EvaluatedAt(x, coeffs) ==
    MapThenFoldSet(Xor, {}, LAMBDA c : GfMul(coeffs[c], GfPow(x, c - 1)),
                   LAMBDA s : CHOOSE c \in s : TRUE, DOMAIN coeffs)

\* trellis_identity_reconstruct_secret: the value at 0 of the polynomial through the points.
Interpolated(points) ==
    LET Lagrange(p) ==
            LET others == points \ {p}
                Product(f(_)) == MapThenFoldSet(GfMul, One, f, LAMBDA s : CHOOSE q \in s : TRUE, others)
            IN GfMul(Product(LAMBDA q : q.x), GfInv(Product(LAMBDA q : Xor(p.x, q.x))))
    IN MapThenFoldSet(Xor, {}, LAMBDA p : GfMul(p.y, Lagrange(p)),
                      LAMBDA s : CHOOSE p \in s : TRUE, points)

PointsOf(coeffs, indices) == {[x |-> ByteOf(i), y |-> EvaluatedAt(ByteOf(i), coeffs)] : i \in indices}

\* The bounds of the code; gf_inv inverts, and any k points of one polynomial give its value at 0.
ASSUME RecoveryAssumption ==
    /\ SharesNeeded \in 2..ShareCount /\ ShareCount <= 255
    /\ Secrets \subseteq Byte /\ Randoms \subseteq Byte
    /\ \A a \in Randoms \ {{}} : GfMul(a, GfInv(a)) = One
    /\ \A s \in Secrets, r \in Randoms : \A indices \in SUBSET (1..ShareCount) :
           Cardinality(indices) = 2 => Interpolated(PointsOf(<<s, r>>, indices)) = s

VARIABLES
    secret,   \* the byte that was split
    shares,   \* per share its y; <<>> before the split
    restored  \* the results of reconstructions

recoveryVars == <<secret, shares, restored>>

RecoveryInit == secret \in Secrets /\ shares = <<>> /\ restored = {}

\* trellis_identity_split_secret draws the coefficients in the loop over the shares.
SplitSecret ==
    /\ shares = <<>>
    /\ \E random \in [1..ShareCount -> [1..(SharesNeeded - 1) -> Randoms]] :
         shares' = [i \in 1..ShareCount |-> EvaluatedAt(ByteOf(i), <<secret>> \o random[i])]
    /\ UNCHANGED <<secret, restored>>

\* trellis_identity_reconstruct_secret with k of the shares.
Reconstruct ==
    /\ shares # <<>> /\ restored = {}
    /\ \E indices \in SUBSET (1..ShareCount) :
         /\ Cardinality(indices) = SharesNeeded
         /\ restored' = {Interpolated({[x |-> ByteOf(i), y |-> shares[i]] : i \in indices})}
    /\ UNCHANGED <<secret, shares>>

RecoveryNext == SplitSecret \/ Reconstruct

RecoverySpec == RecoveryInit /\ [][RecoveryNext]_recoveryVars

\* "Any k shares can reconstruct the secret" (src/src/sdk/identity_recovery.c:138).
AnyKReconstruct == restored \subseteq {secret}
=============================================================================
