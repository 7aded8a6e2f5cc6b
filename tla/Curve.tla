------------------------------- MODULE Curve --------------------------------
(***************************************************************************)
(* Elliptic curves of lib/evmone_precompiles/ecc.hpp: field elements in    *)
(* Montgomery form, points in affine and Jacobian coordinates, scalar      *)
(* multiplication and the decomposition of scalars for the endomorphism.   *)
(***************************************************************************)
EXTENDS ModArith, FiniteSetsExt

CONSTANTS
    P, ORDER,       \* FIELD_PRIME, and the order of the group
    Fp, Fr,         \* the FieldElement of either
    A, B, G,        \* y^2 = x^3 + Ax + B, and a generator as <<x, y>>
    ENDO            \* lambda (LAMBDA), BETA, X1, MINUS_Y1, X2, Y2

a \otimes b == Fp.mul[a, b]
a \oplus b == Fp.add[a, b]
a \ominus b == Fp.sub[a, b]
Neg(a) == Fp.sub[0, a]
Reciprocal(a) == Fp.inv[a]
Fe(v) == Fp.fe[v]
Value(a) == Fp.value[a]
Twice(a) == a \oplus a
Thrice(a) == a \oplus a \oplus a
Square(a) == a \otimes a

(* Points.  The affine point at infinity is (0, 0), the default one; the   *)
(* Jacobian ones have z = 0.                                               *)
AffinePoint(x, y) == [x |-> x, y |-> y]
ProjPoint(x, y, z) == [x |-> x, y |-> y, z |-> z]
AffineInfinity == AffinePoint(0, 0)
ProjInfinity == ProjPoint(0, Fe(1), 0)
Generator == AffinePoint(Fe(G[1]), Fe(G[2]))

SamePoint(p, q) ==
    /\ p.x \otimes Square(q.z) = q.x \otimes Square(p.z)
    /\ p.y \otimes (Square(q.z) \otimes q.z) = q.y \otimes (Square(p.z) \otimes p.z)

(* The inverse of 0 is 0, so that infinity needs no case of its own.       *)
ToAffine(p) ==
    LET z_inv == Reciprocal(p.z)
        zz_inv == Square(z_inv)
    IN  AffinePoint(p.x \otimes zz_inv, p.y \otimes (zz_inv \otimes z_inv))

(* dx is no zero divisor: a point that is its own opposite would have the  *)
(* order 2.                                                                *)
AddAffineAsserts(p, q) ==
    AffineInfinity \notin {p, q} /\ p = q => Twice(p.y) # 0

AddAffine(p, q) ==
    LET opposite == p.x = q.x /\ p.y # q.y
        dx == IF p.x = q.x THEN Twice(p.y) ELSE q.x \ominus p.x
        dy == IF p.x = q.x THEN Thrice(Square(p.x)) \oplus Fe(A) ELSE q.y \ominus p.y
        slope == dy \otimes Reciprocal(dx)
        xr == Square(slope) \ominus p.x \ominus q.x
    IN  IF p = AffineInfinity THEN q
        ELSE IF q = AffineInfinity THEN p
        ELSE IF opposite THEN AffineInfinity
        ELSE AffinePoint(xr, (slope \otimes (p.x \ominus xr)) \ominus p.y)

(* dbl() of a curve with A = 0 and of one with A = -3.                     *)
Dbl0(p) ==
    LET xx == Square(p.x)
        yy == Square(p.y)
        yyyy == Square(yy)
        d == Twice(Square(p.x \oplus yy) \ominus xx \ominus yyyy)
        e == Thrice(xx)
        x3 == Square(e) \ominus Twice(d)
    IN  ProjPoint(x3, (e \otimes (d \ominus x3)) \ominus Twice(Twice(Twice(yyyy))),
                  Twice(p.y \otimes p.z))

DblMinus3(p) ==
    LET zz == Square(p.z)
        yy == Square(p.y)
        xyy4 == Twice(Twice(p.x \otimes yy))
        alpha == Thrice((p.x \ominus zz) \otimes (p.x \oplus zz))
        x3 == Square(alpha) \ominus Twice(xyy4)
    IN  ProjPoint(x3, (alpha \otimes (xyy4 \ominus x3)) \ominus Twice(Twice(Twice(Square(yy)))),
                  Square(p.y \oplus p.z) \ominus yy \ominus zz)

Dbl(p) == IF A = 0 THEN Dbl0(p) ELSE DblMinus3(p)

\* Wrong variant: equal points are added as different ones.
BugAddProj(p, q) ==
    LET z1z1 == Square(p.z)
        z2z2 == Square(q.z)
        u1 == p.x \otimes z2z2
        s1 == p.y \otimes (q.z \otimes z2z2)
        h == (q.x \otimes z1z1) \ominus u1
        r == (q.y \otimes (p.z \otimes z1z1)) \ominus s1
        hhh == h \otimes Square(h)
        v == u1 \otimes Square(h)
        x3 == (Square(r) \ominus hhh) \ominus Twice(v)
    IN  IF p.z = 0 THEN q
        ELSE IF q.z = 0 THEN p
        ELSE ProjPoint(x3, (r \otimes (v \ominus x3)) \ominus (s1 \otimes hhh),
                       p.z \otimes (q.z \otimes h))

(* (r == 0) => (h == 0): the same y is taken for the same point.           *)
AddProjAsserts(p, q) ==
    LET z1z1 == Square(p.z)
        z2z2 == Square(q.z)
        h == (q.x \otimes z1z1) \ominus (p.x \otimes z2z2)
        r == (q.y \otimes (p.z \otimes z1z1)) \ominus (p.y \otimes (q.z \otimes z2z2))
    IN  p.z # 0 /\ q.z # 0 => r # 0 \/ h = 0

(* add() of two Jacobian points, where its assertion holds or is compiled  *)
(* out.                                                                    *)
AddProj(p, q) ==
    LET z1z1 == Square(p.z)
        z2z2 == Square(q.z)
        u1 == p.x \otimes z2z2
        s1 == p.y \otimes (q.z \otimes z2z2)
        h == (q.x \otimes z1z1) \ominus u1
        r == (q.y \otimes (p.z \otimes z1z1)) \ominus s1
        hh == Square(h)
        hhh == h \otimes hh
        v == u1 \otimes hh
        x3 == (Square(r) \ominus hhh) \ominus Twice(v)
    IN  IF p.z = 0 THEN q
        ELSE IF q.z = 0 THEN p
        ELSE IF h = 0 /\ r = 0 THEN Dbl(p)
        ELSE ProjPoint(x3, (r \otimes (v \ominus x3)) \ominus (s1 \otimes hhh),
                       p.z \otimes (q.z \otimes h))

(* add() of a Jacobian and an affine point.                                *)
AddMixed(p, q) ==
    LET z1z1 == Square(p.z)
        h == (q.x \otimes z1z1) \ominus p.x
        i == Square(Twice(h))
        j == h \otimes i
        t2 == (q.y \otimes (p.z \otimes z1z1)) \ominus p.y
        r == Twice(t2)
        v == p.x \otimes i
        x3 == (Square(r) \ominus j) \ominus Twice(v)
    IN  IF q = AffineInfinity THEN p
        ELSE IF p.z = 0 THEN ProjPoint(q.x, q.y, Fe(1))
        ELSE IF h = 0 /\ t2 = 0 THEN Dbl(p)
        ELSE ProjPoint(x3, (r \otimes (v \ominus x3)) \ominus Twice(p.y \otimes j),
                       Twice(p.z \otimes h))

-----------------------------------------------------------------------------
Width(x) == CHOOSE k \in 0..31 : x < 2 ^ k /\ (k = 0 \/ x >= 2 ^ (k - 1))
BitTest(x, i) == (x \div 2 ^ i) % 2 = 1

(* The loop of mul() and msm(): from the top bit down, a doubling and the  *)
(* addition of the point for the bits, if there is one.                    *)
DoubleAndAdd(width, points) ==
    LET r[i \in 0..width] ==       \* after the bits from i up
            IF i = width THEN ProjInfinity
            ELSE LET added(d) == IF points[i] = {} THEN d ELSE AddMixed(d, Only(points[i]))
                 IN  Only({added(Dbl(p)) : p \in {r[i + 1]}})
    IN  r[0]

(* mul(): the scalar is reduced by subtractions of the order.              *)
ScalarMul(p, scalar) ==
    LET c == scalar % ORDER
    IN  DoubleAndAdd(Width(c), [i \in 0..Width(c) |-> {q \in {p} : BitTest(c, i)}])

(* msm(): u x P + v x Q.                                                   *)
Msm(u, p, v, q) ==
    LET h == AddAffine(p, q)
        width == Max({Width(u), Width(v)})
        points(i) ==
            IF BitTest(u, i) /\ BitTest(v, i) THEN {h}
            ELSE IF BitTest(u, i) THEN {p} ELSE IF BitTest(v, i) THEN {q} ELSE {}
    IN  DoubleAndAdd(width, [i \in 0..width |-> points(i)])

-----------------------------------------------------------------------------
(* decompose(): k = k1 + k2 lambda, both short and with a sign.            *)
Signed(negative, wide) == [sign |-> negative, value |-> (IF negative THEN -wide ELSE wide) % R]

RoundDiv(x) ==
    LET det == ENDO.X1 * ENDO.Y2 + ENDO.X2 * ENDO.MINUS_Y1
    IN  (x \div det + (IF x % det > det \div 2 THEN 1 ELSE 0)) % R

Decompose(k) ==
    LET b1 == RoundDiv(k * ENDO.Y2)
        b2 == RoundDiv(k * ENDO.MINUS_Y1)
        k1 == k - (b1 * ENDO.X1 + b2 * ENDO.X2)
        k2 == b1 * ENDO.MINUS_Y1 - b2 * ENDO.Y2
    IN  <<Signed(k1 < 0, k1), Signed(k2 < 0, k2)>>

(* verify_scalar_decomposition(), which decompose() asserts.               *)
VerifyScalarDecomposition(k, k1, k2) ==
    LET Residue(s) == IF s.sign THEN Fr.sub[0, Fr.fe[s.value]] ELSE Fr.fe[s.value]
        norm(x, y) == x * x + y * y
    IN  /\ Fr.fe[k] = Fr.add[Residue(k1), Fr.mul[Residue(k2), Fr.fe[ENDO.lambda]]]
        /\ norm(k1.value, k2.value)
             <= Max({norm(ENDO.X1, ENDO.MINUS_Y1), norm(ENDO.X2, ENDO.Y2)})
=============================================================================
