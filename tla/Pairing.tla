------------------------------ MODULE Pairing -------------------------------
(***************************************************************************)
(* The pairing check of lib/evmone_precompiles/pairing: the tower of       *)
(* fields (field_template.hpp, bn254/fields.hpp), the line functions and   *)
(* powers (bn254/utils.hpp), the Miller loop and the final exponentiation  *)
(* (bn254/pairing.cpp).  An ExtFieldElem is the tuple of its coefficients. *)
(***************************************************************************)
EXTENDS Signatures, Sequences

CONSTANTS
    NINE,                   \* ksi = NINE + u
    FROBENIUS_COEFFS,       \* of ksi, for the powers P, P^2 and P^3
    SEED,                   \* the parameter of the curve
    AteDigits,              \* the digits of 6 SEED + 2
    TwistMultiples          \* the points of G2 but infinity: <<x0, x1, y0, y1>>

-----------------------------------------------------------------------------
(* Fq2 = Fq[u] / (u^2 + 1).  A product of an element with itself is a sqr. *)
Plus2(a, b) == <<a[1] \oplus b[1], a[2] \oplus b[2]>>
Minus2(a, b) == <<a[1] \ominus b[1], a[2] \ominus b[2]>>
Neg2(a) == <<Neg(a[1]), Neg(a[2])>>
Conjugate2(a) == <<a[1], Neg(a[2])>>
Scale2(a, s) == <<a[1] \otimes s, a[2] \otimes s>>
Double2(a) == Plus2(a, a)
Triple2(a) == Plus2(Plus2(a, a), a)

Times2(a, b) ==
    <<(a[1] \otimes b[1]) \ominus (a[2] \otimes b[2]), (a[2] \otimes b[1]) \oplus (a[1] \otimes b[2])>>

TimesKsi(a) == <<(a[1] \otimes Fe(NINE)) \ominus a[2], (a[2] \otimes Fe(NINE)) \oplus a[1]>>

Sqr2(a) ==
    LET a0a1 == a[1] \otimes a[2]
    IN  <<(a[1] \oplus a[2]) \otimes (a[1] \ominus a[2]), a0a1 \oplus a0a1>>

Inverse2(a) ==
    LET t1 == Reciprocal((a[1] \otimes a[1]) \oplus (a[2] \otimes a[2]))
    IN  <<a[1] \otimes t1, Neg(a[2] \otimes t1)>>

(* Fq6 = Fq2[v] / (v^3 - ksi).                                             *)
Plus6(a, b) == <<Plus2(a[1], b[1]), Plus2(a[2], b[2]), Plus2(a[3], b[3])>>
Minus6(a, b) == <<Minus2(a[1], b[1]), Minus2(a[2], b[2]), Minus2(a[3], b[3])>>
Neg6(a) == <<Neg2(a[1]), Neg2(a[2]), Neg2(a[3])>>

Times6(a, b) ==
    LET cross(i, j) == Times2(Plus2(a[i], a[j]), Plus2(b[i], b[j]))
        sum(t) == <<Plus2(TimesKsi(Minus2(Minus2(cross(2, 3), t[2]), t[3])), t[1]),
                    Plus2(Minus2(Minus2(cross(1, 2), t[1]), t[2]), TimesKsi(t[3])),
                    Plus2(Minus2(Minus2(cross(1, 3), t[1]), t[3]), t[2])>>
    IN  Only({sum(t) : t \in {<<Times2(a[1], b[1]), Times2(a[2], b[2]), Times2(a[3], b[3])>>}})

Inverse6(a) ==
    LET c0 == Minus2(Sqr2(a[1]), TimesKsi(Times2(a[3], a[2])))
        c1 == Minus2(TimesKsi(Sqr2(a[3])), Times2(a[1], a[2]))
        c2 == Minus2(Sqr2(a[2]), Times2(a[1], a[3]))
        scaled(t6) == <<Times2(c0, t6), Times2(c1, t6), Times2(c2, t6)>>
    IN  scaled(Inverse2(Plus2(Times2(a[1], c0), TimesKsi(Plus2(Times2(a[3], c1), Times2(a[2], c2))))))

(* Fq12 = Fq6[w] / (w^2 - v).                                              *)
TimesV(a) == <<TimesKsi(a[3]), a[1], a[2]>>
One12 == <<<<<<Fe(1), 0>>, <<0, 0>>, <<0, 0>>>>, <<<<0, 0>>, <<0, 0>>, <<0, 0>>>>>>
Conjugate12(a) == <<a[1], Neg6(a[2])>>

Karatsuba12(a, b) ==
    LET sum(t) == <<Plus6(t[1], TimesV(t[2])),
                    Minus6(Minus6(Times6(Plus6(a[1], a[2]), Plus6(b[1], b[2])), t[1]), t[2])>>
    IN  Only({sum(t) : t \in {<<Times6(a[1], b[1]), Times6(a[2], b[2])>>}})

Times12(a, b) == Only({Karatsuba12(x, y) : x \in {a}, y \in {b}})

Inverse12(a) ==
    LET scaled(t1) == <<Times6(a[1], t1), Neg6(Times6(a[2], t1))>>
    IN  scaled(Inverse6(Minus6(Times6(a[1], a[1]), TimesV(Times6(a[2], a[2])))))

Square12(a) ==
    LET c0 == Times6(Minus6(a[1], a[2]), Minus6(a[1], TimesV(a[2])))
        sum(c2) == <<Plus6(Plus6(c0, c2), TimesV(c2)), Plus6(c2, c2)>>
    IN  sum(Times6(a[1], a[2]))

-----------------------------------------------------------------------------
(* endomorphism<n>(), the power P^n: of points and of Fq12.                *)
Frobenius(n, a) == IF n = 2 THEN a ELSE Conjugate2(a)
FrobeniusCoeff(n, k) == <<Fe(FROBENIUS_COEFFS[n][k][1]), Fe(FROBENIUS_COEFFS[n][k][2])>>

EndomorphismPoint(n, q) ==
    AffinePoint(Times2(Frobenius(n, q.x), FrobeniusCoeff(n, 2)),
                Times2(Frobenius(n, q.y), FrobeniusCoeff(n, 3)))

Endomorphism12(n, f) ==
    LET term(i, j, k) == Times2(Frobenius(n, f[i][j]), FrobeniusCoeff(n, k))
    IN  <<<<Frobenius(n, f[1][1]), term(1, 2, 2), term(1, 3, 4)>>,
          <<term(2, 1, 1), term(2, 2, 3), term(2, 3, 5)>>>>

(* cyclotomic_square(), with the squares in Fq4 of fq4_square().           *)
Fq4Square(a0, a1) ==
    LET t0 == Sqr2(a0)
        t1 == Sqr2(a1)
    IN  <<Plus2(TimesKsi(t1), t0), Minus2(Minus2(Sqr2(Plus2(a0, a1)), t0), t1)>>

GrangerScott(c) ==
    LET g == c[1]
        h == c[2]
        s1 == Fq4Square(g[1], h[2])
        s2 == Fq4Square(h[1], g[3])
        s3 == Fq4Square(g[2], h[3])
    IN  <<<<Minus2(Triple2(s1[1]), Double2(g[1])), Minus2(Triple2(s2[1]), Double2(g[2])),
            Minus2(Triple2(s3[1]), Double2(g[3]))>>,
          <<Plus2(Double2(h[1]), Triple2(TimesKsi(s3[2]))), Plus2(Double2(h[2]), Triple2(s1[2])),
            Plus2(Double2(h[3]), Triple2(s2[2]))>>>>

CyclotomicSquare(c) == Only({GrangerScott(x) : x \in {c}})

(* pow_by_X(): the addition chain of the code's seed.  A step sets t to    *)
(* the product of x and y, or to x squared n times.                        *)
PowByX ==
    LET mul(t, x, y) == [t |-> t, x |-> x, y |-> y, n |-> 0]
        n_sqr(t, x, n) == [t |-> t, x |-> x, n |-> n]
    IN  <<n_sqr("t0", "a", 1), n_sqr("t2", "t0", 1), n_sqr("c", "t2", 1), n_sqr("t4", "c", 1),
          mul("t6", "a", "t4"), mul("t4", "t6", "t0"), mul("t8", "a", "t4"), mul("t10", "c", "t6"),
          n_sqr("t12", "t6", 1), mul("t8", "t8", "t4"), mul("t4", "t8", "t0"), n_sqr("t12", "t12", 6),
          mul("t2", "t12", "t2"), mul("t2", "t2", "t10"), n_sqr("t2", "t2", 7), mul("t10", "t2", "t10"),
          n_sqr("t10", "t10", 8), mul("t10", "t10", "t4"), mul("t0", "t10", "t0"), n_sqr("t0", "t0", 6),
          mul("t6", "t0", "t6"), n_sqr("t6", "t6", 8), mul("t6", "t6", "t4"), n_sqr("t6", "t6", 6),
          mul("t6", "t6", "t4"), n_sqr("t6", "t6", 10), mul("t8", "t6", "t8"), n_sqr("t8", "t8", 6),
          mul("t4", "t4", "t8"), mul("c", "t4", "c")>>

Temporaries == {"a", "c", "t0", "t2", "t4", "t6", "t8", "t10", "t12"}

CyclotomicPowToX(a) ==
    LET squares(x, n) == LET s[i \in 0..n] == IF i = 0 THEN x ELSE CyclotomicSquare(s[i - 1]) IN s[n]
        value(s, step) == IF step.n = 0 THEN Times12(s[step.x], s[step.y]) ELSE squares(s[step.x], step.n)
        run[i \in 0..Len(PowByX)] ==
            IF i = 0 THEN [t \in Temporaries |-> a]
            ELSE Only({[s EXCEPT ![PowByX[i].t] = value(s, PowByX[i])] : s \in {run[i - 1]}})
    IN  run[Len(PowByX)].c

-----------------------------------------------------------------------------
(* The running point in Jacobian coordinates, and the coefficients of the  *)
(* line through it: the tangent, and the one through another point.        *)
LinFuncAndDbl(q) ==
    LET yy == Sqr2(q.y)
        xx == Sqr2(q.x)
        zz == Sqr2(q.z)
        y4 == Double2(Double2(Sqr2(yy)))
        r == Double2(yy)
        s == Minus2(Minus2(Sqr2(Plus2(q.x, r)), xx), y4)
        m == Triple2(xx)
        tangent(x3, z3) ==
            [point |-> ProjPoint(x3, Minus2(Times2(m, Minus2(s, x3)), Double2(y4)), z3),
             t |-> <<Times2(z3, zz), Times2(m, zz), Minus2(r, Times2(m, q.x))>>]
    IN  tangent(Minus2(Sqr2(m), Double2(s)), Minus2(Minus2(Sqr2(Plus2(q.y, q.z)), yy), zz))

LinFuncAndAdd(p, q) ==
    LET zz == Sqr2(p.z)
        zzz == Times2(p.z, zz)
        u2 == Times2(q.x, zz)
        s2 == Times2(q.y, zzz)
        h == Minus2(u2, p.x)
        r == Minus2(s2, p.y)
        hh == Sqr2(h)
        hhh == Times2(h, hh)
        v == Times2(p.x, hh)
        chord(x3) ==
            [point |-> ProjPoint(x3, Minus2(Times2(r, Minus2(v, x3)), Times2(p.y, hhh)), Times2(h, p.z)),
             t |-> <<Times2(Neg2(h), zzz), Times2(r, zz), Minus2(Times2(p.y, u2), Times2(p.x, s2))>>]
    IN  chord(Minus2(Minus2(Sqr2(r), hhh), Double2(v)))

LinFunc(p, q) ==
    LET zz == Sqr2(p.z)
        zzz == Times2(p.z, zz)
        u2 == Times2(q.x, zz)
        s2 == Times2(q.y, zzz)
    IN  <<Times2(Minus2(p.x, u2), zzz), Times2(Minus2(s2, p.y), zz),
          Minus2(Times2(p.y, u2), Times2(p.x, s2))>>

(* multiply_by_lin_func_value(): the factor has three coefficients only.   *)
TimesLine(f, t, x, y) ==
    LET t0y == Scale2(t[1], y)
        t1x == Scale2(t[2], x)
        t2 == t[3]
        t2ksi == TimesKsi(t[3])
        g == f[1]
        h == f[2]
        sum(a, b, c) == Plus2(Plus2(Times2(a, t0y), b), c)
    IN  <<<<sum(g[1], TimesKsi(Times2(h[3], t1x)), Times2(h[2], t2ksi)),
            sum(g[2], Times2(h[1], t1x), Times2(h[3], t2ksi)),
            sum(g[3], Times2(h[2], t1x), Times2(h[1], t2))>>,
          <<sum(h[1], Times2(g[1], t1x), Times2(g[3], t2ksi)),
            sum(h[2], Times2(g[2], t1x), Times2(g[1], t2)),
            sum(h[3], Times2(g[3], t1x), Times2(g[2], t2))>>>>

-----------------------------------------------------------------------------
(* The digits of the code's curve; those of 6 SEED + 2 are AteDigits.      *)
ATE_LOOP_COUNT_DIGITS == <<
     1,  0,  1,  0,  0,  0, -1,  0, -1,  0,  0,  0, -1,  0,  1,  0,
    -1,  0,  0, -1,  0,  0,  0,  0,  0,  1,  0,  0, -1,  0,  1,  0,
     0, -1,  0,  0,  0,  0, -1,  0,  1,  0,  0,  0, -1,  0, -1,  0,
     0,  1,  0,  0,  0, -1,  0,  0, -1,  0,  1,  0,  1,  0,  0,  0>>

TwistInfinity == AffinePoint(<<0, 0>>, <<0, 0>>)
TwistPoint(c) == AffinePoint(<<Fe(c[1]), Fe(c[2])>>, <<Fe(c[3]), Fe(c[4])>>)
TwistPoints == {TwistPoint(TwistMultiples[k]) : k \in DOMAIN TwistMultiples}
NegTwist(q) == AffinePoint(q.x, Neg2(q.y))

(* multi_miller_loop(): one accumulator for all pairs, one squaring per    *)
(* digit; pairs with a point at infinity are skipped.  A state of the loop *)
(* is f and the running points.                                            *)
MillerStep(s, j, pair, digit) ==
    LET next(f, a, y) == [f |-> TimesLine(f, a.t, pair.p.x, y), ts |-> [s.ts EXCEPT ![j] = a.point]]
        doubled == next(s.f, LinFuncAndDbl(s.ts[j]), Neg(pair.p.y))
        added(d) == next(d.f, LinFuncAndAdd(d.ts[j], IF digit > 0 THEN pair.q ELSE NegTwist(pair.q)), pair.p.y)
    IN  IF pair.p = AffineInfinity \/ pair.q = TwistInfinity THEN s
        ELSE IF digit = 0 THEN doubled ELSE added(doubled)

MillerEnd(f, point, pair) ==
    LET line(g, t) == TimesLine(g, t, pair.p.x, pair.p.y)
        last(a) == line(line(f, a.t), LinFunc(a.point, NegTwist(EndomorphismPoint(2, pair.q))))
    IN  IF pair.p = AffineInfinity \/ pair.q = TwistInfinity THEN f
        ELSE last(LinFuncAndAdd(point, EndomorphismPoint(1, pair.q)))

MultiMillerLoop(pairs) ==
    LET ts == [j \in DOMAIN pairs |-> ProjPoint(pairs[j].q.x, pairs[j].q.y, <<Fe(1), 0>>)]
        loop[i \in 0..Len(AteDigits)] ==
            IF i = 0 THEN [f |-> One12, ts |-> ts]
            ELSE LET s == loop[i - 1]
                     each[j \in 0..Len(pairs)] ==
                        IF j = 0 THEN [s EXCEPT !.f = Square12(@)]
                        ELSE Only({MillerStep(t, j, pairs[j], AteDigits[i]) : t \in {each[j - 1]}})
                 IN  each[Len(pairs)]
        end(s) ==
            LET f[j \in 0..Len(pairs)] ==
                    IF j = 0 THEN s.f ELSE Only({MillerEnd(g, s.ts[j], pairs[j]) : g \in {f[j - 1]}})
            IN  f[Len(pairs)]
    IN  Only({end(s) : s \in {loop[Len(AteDigits)]}})

(* final_exp(): the easy part, into the cyclotomic subgroup, and the hard  *)
(* one.  The chain of powers is that of the code's seed.                   *)
EasyPart(v) ==
    LET easy2(f) == Times12(Endomorphism12(2, f), f)
    IN  easy2(Times12(Conjugate12(v), Inverse12(v)))

PowToSeed(a) == IF SEED = 1 THEN a ELSE CyclotomicPowToX(a)

(* y0 ... y6, of f and its powers ft[n] of the seed^n.                     *)
HardPowers(f, ft) ==
    LET fp(n) == Endomorphism12(n, f)
        ftp(n) == Endomorphism12(1, ft[n])
    IN  <<Times12(Times12(fp(1), fp(2)), fp(3)),
          Conjugate12(f),
          Endomorphism12(2, ft[2]),
          Conjugate12(ftp(1)),
          Conjugate12(Times12(ftp(2), ft[1])),
          Conjugate12(ft[2]),
          Conjugate12(Times12(ftp(3), ft[3]))>>

HardProduct(y) ==
    LET a0 == Times12(Times12(CyclotomicSquare(y[7]), y[5]), y[6])
        b1(a) == CyclotomicSquare(Times12(CyclotomicSquare(Times12(Times12(y[4], y[6]), a)), Times12(a, y[3])))
        product(b) == Times12(Times12(b, y[1]), CyclotomicSquare(Times12(b, y[2])))
    IN  Only({product(b) : b \in {b1(a) : a \in {a0}}})

HardPart(f) ==
    LET ft[n \in 0..3] == IF n = 0 THEN f ELSE PowToSeed(ft[n - 1])
    IN  Only({HardProduct(y) : y \in {HardPowers(f, ft)}})

FinalExp(v) == Only({HardPart(f) : f \in {EasyPart(v)}})

-----------------------------------------------------------------------------
TwistB == Times2(<<Fe(B), 0>>, Inverse2(<<Fe(NINE), Fe(1)>>))
IsOnTwistedCurve(q) == Sqr2(q.y) = Plus2(Times2(Sqr2(q.x), q.x), TwistB)

(* pairing_check(): none for a point that is not of its group.  For        *)
(* g2_subgroup_check() stands what it decides: its incomplete additions    *)
(* need a seed that is larger than that of a small curve.                  *)
PairingCheck(pairs) ==
    LET invalid == \E j \in DOMAIN pairs :
            \/ ~Validate(pairs[j].p)
            \/ /\ pairs[j].q # TwistInfinity
               /\ ~IsOnTwistedCurve(pairs[j].q) \/ pairs[j].q \notin TwistPoints
    IN  IF pairs = <<>> THEN {TRUE}
        ELSE IF invalid THEN {}
        ELSE {FinalExp(f) = One12 : f \in {MultiMillerLoop(pairs)}}
=============================================================================
