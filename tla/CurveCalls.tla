----------------------------- MODULE CurveCalls -----------------------------
(***************************************************************************)
(* Calls of the functions of one curve, and what they must give.  The      *)
(* group is known by its discrete logarithms: the point k is k times the   *)
(* generator, added up with the textbook's formulas.                       *)
(***************************************************************************)
EXTENDS Signatures, Functions

CONSTANT Multiples      \* Multiples[k] is k times G, as <<x, y>>

InverseOf(x, m) == CHOOSE y \in 0..(m - 1) : (x * y) % m = 1

(* P + G by chord and tangent, of plain numbers modulo P.                  *)
PlusG(p) ==
    LET slope == IF p = G THEN ((3 * p[1] * p[1] + A) * InverseOf((2 * p[2]) % P, P)) % P
                 ELSE ((p[2] - G[2]) * InverseOf((p[1] - G[1]) % P, P)) % P
        x == (slope * slope - p[1] - G[1]) % P
    IN  <<x, (slope * (p[1] - x) - p[2]) % P>>

(* The table has all the points of the curve but infinity.                *)
TableComplete ==
    /\ DOMAIN Multiples = 1..(ORDER - 1) /\ Multiples[1] = G
    /\ \A k \in 2..(ORDER - 1) : Multiples[k] = PlusG(Multiples[k - 1])
    /\ Range(Multiples)
         = {q \in (0..(P - 1)) \X (0..(P - 1)) : (q[2] * q[2] - (q[1] * q[1] * q[1] + A * q[1] + B)) % P = 0}

Affine(k) ==
    IF k = 0 THEN AffineInfinity ELSE AffinePoint(Fe(Multiples[k][1]), Fe(Multiples[k][2]))

(* The point k with a coordinate z; infinity as additions leave it.        *)
Jacobian(k, z) ==
    LET zz == Square(Fe(z))
        zzz == zz \otimes Fe(z)
    IN  IF k = 0 THEN ProjPoint(zz, Neg(zzz), 0)
        ELSE ProjPoint(Affine(k).x \otimes zz, Affine(k).y \otimes zzz, Fe(z))

-----------------------------------------------------------------------------
GroupCall(c) ==
    CASE c.op = "add_affine"  -> AddAffine(Affine(c.k), Affine(c.l))
      [] c.op = "add"         -> AddProj(Jacobian(c.k, c.z), Jacobian(c.l, c.y))
      [] c.op = "add_mixed"   -> AddMixed(Jacobian(c.k, c.z), Affine(c.l))
      [] c.op = "dbl"         -> Dbl(Jacobian(c.k, c.z))
      [] c.op = "equal"       -> SamePoint(Jacobian(c.k, c.z), Jacobian(c.l, c.y))
      [] c.op = "mul"         -> ScalarMul(Affine(c.k), c.u)
      [] c.op = "msm"         -> Msm(c.u, Affine(c.k), c.v, Affine(c.l))
      [] c.op = "decompose"   -> Decompose(c.u)
      [] c.op = "endo_mul"    -> EndoMul(Affine(c.k), c.u)
      [] c.op = "validate"    -> Validate(AffinePoint(Fe(c.qx), Fe(c.qy)))

(* The assertions of the additions of a call.                              *)
AdditionsAssert(c) ==
    /\ c.op \in {"add_affine", "msm"} => AddAffineAsserts(Affine(c.k), Affine(c.l))
    /\ c.op = "add" => AddProjAsserts(Jacobian(c.k, c.z), Jacobian(c.l, c.y))

IsAffine(p, k) == p = Affine(k % ORDER)
IsProj(p, k) == IsAffine(ToAffine(p), k) /\ (p.z = 0 <=> k % ORDER = 0)

GroupCorrect(c, result) ==
    CASE c.op = "add_affine"  -> IsAffine(result, c.k + c.l)
      [] c.op \in {"add", "add_mixed"} -> IsProj(result, c.k + c.l)
      [] c.op = "dbl"         -> IsProj(result, 2 * c.k)
      [] c.op = "equal"       -> result <=> c.k = c.l
      [] c.op = "mul"         -> IsProj(result, c.u * c.k)
      [] c.op = "msm"         -> IsProj(result, c.u * c.k + c.v * c.l)
      [] c.op = "decompose"   -> VerifyScalarDecomposition(c.u, result[1], result[2])
      [] c.op = "endo_mul"    -> IsAffine(result, c.u * c.k)
      [] c.op = "validate"    -> result <=> <<c.qx, c.qy>> \in {<<0, 0>>} \union Range(Multiples)

(* The keys d whose signature of hash with the nonce k is r and s, for the *)
(* nonce with the abscissa r (not reduced) and an ordinate of that parity. *)
RecoveredKeys(c) ==
    {d \in 1..(ORDER - 1) :
        /\ c.r \in 1..(ORDER - 1)
        /\ c.s \in 1..(IF c.strict THEN ORDER \div 2 ELSE ORDER - 1)
        /\ \E k \in 1..(ORDER - 1) :
             /\ Multiples[k][1] = c.r /\ (Multiples[k][2] % 2 = 1) = c.parity
             /\ (c.s * k) % ORDER = (c.hash + c.r * d) % ORDER}

(* The equation of ECDSA for the owner d of the public key.                *)
ValidSignature(c) ==
    /\ c.r \in 1..(ORDER - 1) /\ c.s \in 1..(ORDER - 1)
    /\ \E d, k \in 1..(ORDER - 1) :
         /\ Multiples[d] = <<c.qx, c.qy>>
         /\ (c.s * k) % ORDER = (c.hash + c.r * d) % ORDER
         /\ Multiples[k][1] % ORDER = c.r

SignatureCorrect(c, result) ==
    CASE c.op = "recover" -> result = {Affine(d) : d \in RecoveredKeys(c)}
      [] c.op = "verify"  -> result <=> ValidSignature(c)
=============================================================================
