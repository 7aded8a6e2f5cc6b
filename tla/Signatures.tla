----------------------------- MODULE Signatures -----------------------------
(***************************************************************************)
(* What the precompiles do with the curves: public key recovery of         *)
(* secp256k1.cpp, verification of secp256r1.cpp, and the points of         *)
(* bn254.cpp.  A std::optional is a set of at most one element.            *)
(***************************************************************************)
EXTENDS Curve

(* FieldElement::from_bytes(): not reduced but refused.                    *)
FieldFromBytes(x, limit) == IF x >= limit THEN {} ELSE {x}

-----------------------------------------------------------------------------
(* The addition chain of field_sqrt(), as the exponent of x that it        *)
(* computes, modulo m: squaring doubles the exponent, multiplying adds.    *)
SqrtChain(m) ==
    LET doubled(x, times) ==
            LET t[i \in 0..times] == IF i <= 16 THEN (2 ^ i * x) % m ELSE (2 ^ 16 * t[i - 16]) % m
            IN  t[times]
        squares(e, times) == Only({doubled(x, times) : x \in {e}})
        times(e, f) == (e + f) % m
        z    == times(1, squares(1, 1))
        x4   == times(z, squares(z, 2))
        x5   == times(1, squares(x4, 1))
        x7   == times(z, squares(x5, 2))
        x11  == times(x4, squares(x7, 4))
        x22  == times(x11, squares(x11, 11))
        x27  == times(x5, squares(x22, 5))
        x54  == times(x27, squares(x27, 27))
        x108 == times(x54, squares(x54, 54))
        x216 == times(x108, squares(x108, 108))
        x223 == times(x7, squares(x216, 7))
    IN  squares(times(z, squares(times(x22, squares(x223, 23)), 6)), 2)

(* The power that it stands for is that of (P + 1) / 4; a value that has   *)
(* no root is found out by squaring the result.                            *)
BugFieldSqrt(x) ==
    LET power[n \in 0..((P + 1) \div 4)] == IF n = 0 THEN Fe(1) ELSE power[n - 1] \otimes x
    IN  {power[(P + 1) \div 4]}
FieldSqrt(x) ==
    LET power[n \in 0..((P + 1) \div 4)] == IF n = 0 THEN Fe(1) ELSE power[n - 1] \otimes x
        z == power[(P + 1) \div 4]
    IN  IF Square(z) # x THEN {} ELSE {z}

CalculateY(x, y_parity) ==
    {IF (Value(y) % 2 = 1) = y_parity THEN y ELSE Neg(y) :
        y \in FieldSqrt((x \otimes x \otimes x) \oplus Fe(B))}

(* secp256k1_ecdsa_recover(). In strict mode s is in the lower half.       *)
Recover(hash, r_bytes, s_bytes, parity, strict) ==
    LET z == Fr.fe[hash]
        key(r, s, y) ==
            LET r_inv == Fr.inv[r]
                u1 == Fr.value[Fr.mul[Fr.sub[0, z], r_inv]]
                u2 == Fr.value[Fr.mul[s, r_inv]]
            IN  Msm(u1, Generator, u2, AffinePoint(Fe(Fr.value[r]), y))
        keys == {key(Fr.fe[r], Fr.fe[s], y) :
                    r \in FieldFromBytes(r_bytes, ORDER) \ {0},
                    s \in FieldFromBytes(s_bytes, IF strict THEN ORDER \div 2 + 1 ELSE ORDER) \ {0},
                    y \in CalculateY(Fe(r_bytes), parity)}
    IN  {ToAffine(q) : q \in {k \in keys : k.z # 0}}

-----------------------------------------------------------------------------
IsOnCurve(p) == Square(p.y) = (p.x \otimes p.x \otimes p.x) \oplus (Fe(A) \otimes p.x) \oplus Fe(B)

(* verify() of secp256r1.                                                  *)
Verify(hash, r, s, qx, qy) ==
    LET q == AffinePoint(Fe(qx), Fe(qy))
        s_inv == Fr.inv[Fr.fe[s]]
        u1 == Fr.value[Fr.mul[Fr.fe[hash], s_inv]]
        u2 == Fr.value[Fr.mul[Fr.fe[r], s_inv]]
        x1 == Value(ToAffine(Msm(u1, Generator, u2, q)).x)
    IN  /\ r # 0 /\ r < ORDER /\ s # 0 /\ s < ORDER
        /\ qx < P /\ qy < P
        /\ q # AffineInfinity /\ IsOnCurve(q)
        /\ (IF x1 >= ORDER THEN x1 - ORDER ELSE x1) = r

-----------------------------------------------------------------------------
(* bn254: validate() and mul() by the endomorphism.                        *)
Validate(p) == Square(p.y) = (p.x \otimes p.x \otimes p.x) \oplus Fe(B) \/ p = AffineInfinity

EndoMul(pt, c) ==
    LET k == Decompose(c)
        q == AffinePoint(Fe(ENDO.BETA) \otimes pt.x, IF k[2].sign THEN Neg(pt.y) ELSE pt.y)
        p == AffinePoint(pt.x, IF k[1].sign THEN Neg(pt.y) ELSE pt.y)
    IN  IF pt = AffineInfinity THEN pt
        ELSE IF c = 0 THEN AffineInfinity
        ELSE ToAffine(Msm(k[1].value, p, k[2].value, q))
=============================================================================
