---------------------------- MODULE PairingCalls ----------------------------
(***************************************************************************)
(* Calls of the pairing's functions on a Barreto-Naehrig curve, and what   *)
(* they must give.  Fq12 is known as the polynomials in w over the Gaussian*)
(* integers modulo P, with w^6 = NINE + u; the groups by the discrete      *)
(* logarithms of their points.                                             *)
(***************************************************************************)
EXTENDS CurveCalls, Pairing

GaussTimes(a, b) == <<(a[1] * b[1] - a[2] * b[2]) % P, (a[1] * b[2] + a[2] * b[1]) % P>>

PolyTimes(a, b) ==
    LET term(i, k) ==
            LET c == GaussTimes(a[i], b[((k - i) % 6) + 1])
            IN  IF i <= k THEN c ELSE GaussTimes(c, <<NINE, 1>>)
        coeff(k) ==
            LET sum[i \in 0..6] ==
                    IF i = 0 THEN <<0, 0>>
                    ELSE LET s == sum[i - 1]
                             t == term(i, k)
                         IN  <<(s[1] + t[1]) % P, (s[2] + t[2]) % P>>
            IN  sum[6]
    IN  <<coeff(1), coeff(2), coeff(3), coeff(4), coeff(5), coeff(6)>>

PolyOne == <<<<1, 0>>, <<0, 0>>, <<0, 0>>, <<0, 0>>, <<0, 0>>, <<0, 0>>>>

PolyPower(a, e) ==
    LET r[i \in 0..Width(e)] ==     \* with the bits from i up
            IF i = Width(e) THEN PolyOne
            ELSE LET square == Only({PolyTimes(q, q) : q \in {r[i + 1]}})
                 IN  IF BitTest(e, i) THEN Only({PolyTimes(s, a) : s \in {square}}) ELSE square
    IN  r[0]

(* The polynomial of an element of the tower, and the element.             *)
Poly(f) ==
    LET c(a) == <<Value(a[1]), Value(a[2])>>
    IN  <<c(f[1][1]), c(f[2][1]), c(f[1][2]), c(f[2][2]), c(f[1][3]), c(f[2][3])>>

Tower(a) ==
    LET e(i) == <<Fe(a[i][1]), Fe(a[i][2])>>
    IN  <<<<e(1), e(3), e(5)>>, <<e(2), e(4), e(6)>>>>

-----------------------------------------------------------------------------
(* The exponent that the chain of pow_by_X() computes, modulo m.           *)
ExponentOfX(m) ==
    LET value(s, step) == (IF step.n = 0 THEN s[step.x] + s[step.y] ELSE 2 ^ step.n * s[step.x]) % m
        run[i \in 0..Len(PowByX)] ==
            IF i = 0 THEN [t \in Temporaries |-> 1]
            ELSE Only({[s EXCEPT ![PowByX[i].t] = value(s, PowByX[i])] : s \in {run[i - 1]}})
    IN  run[Len(PowByX)].c

TowerCall(c) ==
    CASE c.op = "mul"        -> Poly(Times12(Tower(c.x), Tower(c.y)))
      [] c.op = "square"     -> Poly(Square12(Tower(c.x)))
      [] c.op = "inv"        -> Poly(Inverse12(Tower(c.x)))
      [] c.op = "frobenius"  -> Poly(Endomorphism12(c.n, Tower(c.x)))
      [] c.op = "line"       ->
            LET t == Tower(c.y)[1] IN Poly(TimesLine(Tower(c.x), t, Fe(c.px), Fe(c.py)))
      [] c.op = "cyclotomic" ->
            LET f == EasyPart(Tower(c.x)) IN <<Poly(f), Poly(CyclotomicSquare(f))>>
      [] c.op = "pow_to_X"   ->
            Only({<<Poly(f), Poly(CyclotomicPowToX(f))>> : f \in {EasyPart(Tower(c.x))}})
      [] c.op = "X"          -> ExponentOfX(c.mod)
      [] c.op = "ate_digits" ->
            LET value[i \in 0..Len(ATE_LOOP_COUNT_DIGITS)] ==
                    IF i = 0 THEN 1 ELSE (2 * value[i - 1] + ATE_LOOP_COUNT_DIGITS[i]) % c.mod
            IN  value[Len(ATE_LOOP_COUNT_DIGITS)]

(* The seed of the code's curve, 4965661367192848881, modulo m.            *)
SeedModulo(m) ==
    LET shifted(x, digits) == (x * 1000000 + digits) % m
    IN  shifted(shifted(shifted(4, 965661), 367192), 848881)

TowerCorrect(c, result) ==
    CASE c.op = "mul"        -> result = PolyTimes(c.x, c.y)
      [] c.op = "square"     -> result = PolyTimes(c.x, c.x)
      [] c.op = "inv"        -> PolyTimes(result, c.x) = PolyOne
      [] c.op = "frobenius"  ->
            LET power[n \in 0..c.n] == IF n = 0 THEN c.x ELSE Only({PolyPower(a, P) : a \in {power[n - 1]}})
            IN  result = power[c.n]
      [] c.op = "line"       ->
            LET scaled(a, s) == GaussTimes(a, <<s, 0>>)
            IN  result = PolyTimes(c.x, <<scaled(c.y[1], c.py), scaled(c.y[3], c.px), <<0, 0>>, c.y[5],
                                          <<0, 0>>, <<0, 0>>>>)
      [] c.op = "cyclotomic" -> result[2] = PolyTimes(result[1], result[1])
      [] c.op = "pow_to_X"   -> result[2] = PolyPower(result[1], c.X)
      [] c.op = "X"          -> result = SeedModulo(c.mod)
      [] c.op = "ate_digits" -> result = (6 * SeedModulo(c.mod) + 2) % c.mod

-----------------------------------------------------------------------------
(* A pair is given by the logarithms of its points, or by points.          *)
PairOf(c) ==
    [p |-> IF "k" \in DOMAIN c THEN Affine(c.k) ELSE AffinePoint(Fe(c.px), Fe(c.py)),
     q |-> IF "q" \in DOMAIN c THEN TwistPoint(c.q)
           ELSE IF c.l = 0 THEN TwistInfinity ELSE TwistPoint(TwistMultiples[c.l])]

PairingCall(c) == PairingCheck([j \in DOMAIN c.pairs |-> PairOf(c.pairs[j])])

(* The product of the pairings is 1 exactly if the products of the         *)
(* logarithms add up to 0.                                                 *)
PairingCorrect(c, result) ==
    LET sum[j \in 0..Len(c.pairs)] ==
            IF j = 0 THEN 0 ELSE sum[j - 1] + c.pairs[j].k * c.pairs[j].l
        known == \A j \in DOMAIN c.pairs : {"k", "l"} \subseteq DOMAIN c.pairs[j]
    IN  result = IF known THEN {sum[Len(c.pairs)] % ORDER = 0} ELSE {}
=============================================================================
