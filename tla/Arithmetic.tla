----------------------------- MODULE Arithmetic -----------------------------
(***************************************************************************)
(* Calls of the instructions that compute with words and of the algorithms *)
(* of lib/evmone_precompiles: a call is given, its result computed, and    *)
(* compared with what the result must be.                                  *)
(***************************************************************************)
EXTENDS Modexp, WordInstructions

CONSTANTS
    Secp256k1, Secp256r1, Bn254,    \* the parameters of the curves
    Calls                           \* the calls that are made

VARIABLES call, result      \* result: none yet, or one

vars == <<call, result>>

K1Fields == [p |-> FieldElement(Secp256k1.P), n |-> FieldElement(Secp256k1.ORDER)]
R1Fields == [p |-> FieldElement(Secp256r1.P), n |-> FieldElement(Secp256r1.ORDER)]
BNFields == [p |-> FieldElement(Bn254.P), n |-> FieldElement(Bn254.ORDER)]

K1 == INSTANCE CurveCalls WITH
        P <- Secp256k1.P, ORDER <- Secp256k1.ORDER, Fp <- K1Fields.p, Fr <- K1Fields.n,
        A <- 0, B <- Secp256k1.B,
        G <- Secp256k1.Multiples[1], ENDO <- Secp256k1.ENDO, Multiples <- Secp256k1.Multiples

R1 == INSTANCE CurveCalls WITH
        P <- Secp256r1.P, ORDER <- Secp256r1.ORDER, Fp <- R1Fields.p, Fr <- R1Fields.n,
        A <- Secp256r1.P - 3, B <- Secp256r1.B,
        G <- Secp256r1.Multiples[1], ENDO <- {}, Multiples <- Secp256r1.Multiples

BN == INSTANCE PairingCalls WITH
        P <- Bn254.P, ORDER <- Bn254.ORDER, Fp <- BNFields.p, Fr <- BNFields.n,
        A <- 0, B <- Bn254.B,
        G <- Bn254.Multiples[1], ENDO <- {}, Multiples <- Bn254.Multiples,
        NINE <- Bn254.NINE, FROBENIUS_COEFFS <- Bn254.FROBENIUS_COEFFS, SEED <- Bn254.SEED,
        AteDigits <- Bn254.AteDigits, TwistMultiples <- Bn254.TwistMultiples

ASSUME CurvesAssumption == K1!TableComplete /\ R1!TableComplete /\ BN!TableComplete

FieldCall ==
    CASE call.op = "modadd"   -> Modadd(call.x, call.y, call.mod)
      [] call.op = "modsub"   -> Modsub(call.x, call.y, call.mod)
      [] call.op = "mont_mul" -> Mul(NewModArith(call.mod), call.x, call.y)
      [] call.op = "mont"     -> FromMont(NewModArith(call.mod), ToMont(NewModArith(call.mod), call.x))
      [] call.op = "mont_inv" -> Inv(NewModArith(call.mod), call.x)
      [] call.op = "mul_amm"  -> MulAMM256(call.x, call.y, call.mod, ComputeMontModInv(call.mod))
      [] call.op = "modinv_pow2" -> ModinvHalf(call.x, call.bits)
      [] call.op = "sqrt_chain"  -> K1!SqrtChain(call.mod)

GroupCall == IF call.curve = "k1" THEN K1!GroupCall(call) ELSE R1!GroupCall(call)
SignatureCall ==
    IF call.op = "recover" THEN K1!Recover(call.hash, call.r, call.s, call.parity, call.strict)
    ELSE R1!Verify(call.hash, call.r, call.s, call.qx, call.qy)

WordCall ==
    CASE call.op \in {"ISZERO", "NOT", "CLZ"} -> Unary(call.op, call.x)
      [] call.op = "ADDMOD" -> AddMod(call.x, call.y, call.mod)
      [] call.op = "MULMOD" -> MulMod(call.x, call.y, call.mod)
      [] call.op = "EXP" -> ExpInstr(call.x, call.y, call.gas, call.cost)
      [] call.op = "BLOCKHASH" -> Blockhash(call.x, call.block_number, call.window)
      [] OTHER -> Binary(call.op, call.x, call.y)

(* The items of the stack are told apart by their depths.                  *)
StackOf(height) == [depth \in 1..height |-> depth]
StackCall ==
    LET stack == StackOf(call.height)
    IN  CASE call.op = "DUP"      -> Dup(stack, call.imm)
          [] call.op = "SWAP"     -> Swap(stack, 0, call.imm)
          [] call.op = "DUPN"     -> Dupn(stack, call.imm)
          [] call.op = "SWAPN"    -> Swapn(stack, call.imm)
          [] call.op = "EXCHANGE" -> Exchange(stack, call.imm)

-----------------------------------------------------------------------------
Init == call \in Calls /\ result = <<>>

Compute(kind, value) ==
    /\ call.kind = kind /\ result = <<>>
    /\ result' = <<value>>
    /\ UNCHANGED call

Next ==
    \/ Compute("field", FieldCall)
    \/ Compute("group", GroupCall)
    \/ Compute("signature", SignatureCall)
    \/ Compute("tower", BN!TowerCall(call))
    \/ Compute("pairing", BN!PairingCall(call))
    \/ Compute("word", WordCall)
    \/ Compute("stack", StackCall)
    \/ Compute("modexp", DoModexp(call.base, call.exp, call.modulus))

Spec == Init /\ [][Next]_vars

-----------------------------------------------------------------------------
Done(kind) == call.kind = kind /\ result # <<>>

(* The power, by multiplications.                                          *)
Power(x, e, m) ==
    LET p[i \in 0..e] == IF i = 0 THEN 1 % m ELSE (p[i - 1] * x) % m IN p[e]

(* The integer that a word stands for when it is taken as signed, and the  *)
(* quotient rounded towards zero.                                          *)
SignedInt(x) == IF x < R \div 2 THEN x ELSE x - R
Quotient(x, y) ==
    LET Magnitude(z) == IF z < 0 THEN -z ELSE z
        q == Magnitude(x) \div Magnitude(y)
    IN  IF (x < 0) # (y < 0) THEN -q ELSE q

(* The instructions compute what they stand for with unbounded integers:   *)
(* signed ones for the least integer, byte and shift ones for operands     *)
(* beyond the width, BLOCKHASH for numbers whose low word looks recent.    *)
WordsExact ==
    Done("word") =>
        LET r == result[1]
            x == call.x
            y == call.y
            sx == SignedInt(x)
            sy == SignedInt(y)
            truth(b) == r = (IF b THEN 1 ELSE 0)
            low(bits) == y % 2 ^ bits
            bit(z, i) == (z \div 2 ^ i) % 2
        IN  CASE call.op = "ADD" -> r = (x + y) % R
              [] call.op = "SUB" -> (r + y) % R = x
              [] call.op = "MUL" -> r = (sx * sy) % R
              [] call.op = "DIV" -> IF y = 0 THEN r = 0 ELSE r * y <= x /\ x < (r + 1) * y
              [] call.op = "MOD" -> IF y = 0 THEN r = 0 ELSE r < y /\ (x - r) % y = 0
              [] call.op = "SDIV" -> r = IF y = 0 THEN 0 ELSE Quotient(sx, sy) % R
              [] call.op = "SMOD" -> r = IF y = 0 THEN 0 ELSE (sx - sy * Quotient(sx, sy)) % R
              [] call.op = "ADDMOD" -> r = IF call.mod = 0 THEN 0 ELSE (x + y) % call.mod
              [] call.op = "MULMOD" -> r = IF call.mod = 0 THEN 0 ELSE (x * y) % call.mod
              [] call.op = "EXP" ->
                    LET bytes == {i \in 0..(NumBytes - 1) : y >= 2 ^ (ByteBits * i)} \ {i \in {0} : y = 0}
                        gas == call.gas - call.cost * Cardinality(bytes)
                    IN  r = IF gas < 0 THEN <<>> ELSE <<gas, (Power(Power(x, 16, R), y \div 16, R) * Power(x, y % 16, R)) % R>>
              [] call.op = "SIGNEXTEND" ->
                    LET bits == ByteBits * (x + 1)
                    IN  r = IF x >= NumBytes THEN y
                            ELSE IF low(bits) < 2 ^ (bits - 1) THEN low(bits)
                            ELSE (low(bits) - 2 ^ bits) % R
              [] call.op = "LT"  -> truth(x < y)
              [] call.op = "GT"  -> truth(x > y)
              [] call.op = "SLT" -> truth(sx < sy)
              [] call.op = "SGT" -> truth(sx > sy)
              [] call.op = "EQ"  -> truth(x = y)
              [] call.op = "ISZERO" -> truth(x = 0)
              [] call.op = "NOT" -> \A i \in 0..(Bits - 1) : bit(r, i) # bit(x, i)
              [] call.op = "AND" -> \A i \in 0..(Bits - 1) : bit(r, i) = bit(x, i) * bit(y, i)
              [] call.op = "OR"  -> \A i \in 0..(Bits - 1) : bit(r, i) = Max({bit(x, i), bit(y, i)})
              [] call.op = "XOR" -> \A i \in 0..(Bits - 1) : bit(r, i) = (bit(x, i) + bit(y, i)) % 2
              [] call.op = "CLZ" ->
                    r = Cardinality({n \in 1..Bits : \A i \in (Bits - n)..(Bits - 1) : bit(x, i) = 0})
              [] call.op = "BYTE" ->
                    r = IF x >= NumBytes THEN 0 ELSE Store(NumBytes, y)[x + 1]
              [] call.op = "SHL" -> r = IF x >= Bits THEN 0 ELSE (y * 2 ^ x) % R
              [] call.op = "SHR" -> r = IF x >= Bits THEN 0 ELSE y \div 2 ^ x
              [] call.op = "SAR" -> r = (IF x >= Bits THEN sy \div R ELSE sy \div 2 ^ x) % R
              [] call.op = "BLOCKHASH" ->
                    r = {n \in {x} : n < call.block_number /\ call.block_number <= n + call.window}

(* The stack's items are only copied and exchanged: at the depth that the  *)
(* opcode names, and for EIP-8024 at the depth, or the pair of them, that  *)
(* the immediate encodes, within the ranges that the comments give; never  *)
(* below the bottom of the stack.                                          *)
StackExact ==
    Done("stack") =>
        LET r == result[1]
            stack == StackOf(call.height)
            exchanged(n, m) ==
                r = [d \in 1..call.height |-> IF d = n + 1 THEN m + 1 ELSE IF d = m + 1 THEN n + 1 ELSE d]
            depth == CHOOSE n \in 17..235 : (n - 145) % 256 = call.imm
            code == call.imm ^^ 143
            encoded(n, m) == IF m <= 16 THEN 16 * (n - 1) + m - 1 ELSE 16 * (29 - m) + n - 1
        IN  CASE call.op = "DUP"  -> r = <<call.imm>> \o stack
              [] call.op = "SWAP" -> exchanged(0, call.imm)
              [] call.op \in {"DUPN", "SWAPN"} ->
                    IF call.imm \in 91..127 THEN r = Undefined
                    ELSE IF call.op = "DUPN"
                    THEN r = IF depth > call.height THEN Underflow ELSE <<depth>> \o stack
                    ELSE IF depth >= call.height THEN r = Underflow ELSE exchanged(0, depth)
              [] call.op = "EXCHANGE" ->
                    IF call.imm \in 82..127 THEN r = Undefined
                    ELSE \E n \in 1..14, m \in 2..29 :
                            /\ n < m /\ n + m <= 30 /\ code = encoded(n, m)
                            /\ IF m >= call.height THEN r = Underflow ELSE exchanged(n, m)

(* Each instruction computes exactly what it stands for.                   *)
InstructionsExact == WordsExact /\ StackExact

(* 2 to the power 16n, modulo m.                                           *)
PowerOf2To16(n, m) ==
    LET p[i \in 0..n] == IF i = 0 THEN 1 ELSE (2 ^ 16 * p[i - 1]) % m IN p[n]

Coprime(x, y) == \A d \in 2..y : ~(x % d = 0 /\ y % d = 0)

(* The arithmetic modulo any odd number is exact.  Sums and differences    *)
(* are reduced although they carry out of the integer; Montgomery products *)
(* are right and reduced also when one factor is not, almost Montgomery    *)
(* ones fit in their words for all factors; inverses are inverses where    *)
(* there is one, and 0 else.  The chain of field_sqrt() computes exactly   *)
(* the power (p + 1) / 4 of its 256-bit prime (by its residues).           *)
FieldExact ==
    Done("field") =>
        LET r == result[1]
            m == call.mod
        IN  CASE call.op = "modadd"   -> r = (call.x + call.y) % m
              [] call.op = "modsub"   -> r = (call.x - call.y) % m
              [] call.op = "mont_mul" -> r < m /\ (r * R) % m = (call.x * call.y) % m
              [] call.op = "mont"     -> r = call.x % m
              [] call.op = "mont_inv" ->
                    IF Coprime(call.x, m) THEN r < m /\ (r * call.x) % m = ((R % m) * (R % m)) % m
                    ELSE r = 0
              [] call.op = "mul_amm"  -> r < R /\ (r * R) % m = (call.x * call.y) % m
              [] call.op = "modinv_pow2" -> (r * call.x) % 2 ^ call.bits = 1
              [] call.op = "sqrt_chain"  ->
                    (4 * r) % m = (PowerOf2To16(16, m) - PowerOf2To16(2, m) - 977 + 1) % m

(* In the tower of fields under the pairing, products (also the sparse     *)
(* ones with a line), squares (also the ones for the cyclotomic subgroup), *)
(* inverses and powers of the characteristic are those of polynomials      *)
(* modulo w^12 - 2 NINE w^6 + NINE^2 + 1; the chain of pow_by_X() computes *)
(* the power of the seed X and the digits of the Miller loop are 6 X + 2.  *)
TowerExact == Done("tower") => BN!TowerCorrect(call, result[1])

(* The arithmetic of all the fields is exact.                              *)
FieldsExact == FieldExact /\ TowerExact

(* The assertions in the additions hold: dx # 0 in add_affine(), and in    *)
(* add() of two Jacobian points, which "handles all inputs", two points    *)
(* with the same y have the same x.                                        *)
AdditionsAsserted ==
    Done("group") =>
        IF call.curve = "k1" THEN K1!AdditionsAssert(call) ELSE R1!AdditionsAssert(call)

(* The formulas are the group law for all points: infinity, equal and      *)
(* opposite points, in any coordinates, and for all scalars, reduced or    *)
(* not; scalars decompose as decompose() asserts.  The calls on which an   *)
(* assertion fails have no result in a checked build and are left out: no  *)
(* others than of add() of two Jacobian points.                            *)
GroupLaw ==
    Done("group") =>
        IF ~AdditionsAsserted THEN call.op = "add"
        ELSE IF call.curve = "k1" THEN K1!GroupCorrect(call, result[1])
        ELSE R1!GroupCorrect(call, result[1])

(* ecrecover returns exactly the key that made the signature, and P256     *)
(* verification accepts exactly the signatures of the key's owner, for all *)
(* numbers in and out of their ranges.                                     *)
SignaturesExact ==
    Done("signature") =>
        IF call.curve = "k1" THEN K1!SignatureCorrect(call, result[1])
        ELSE R1!SignatureCorrect(call, result[1])

(* The pairing check accepts exactly the pairs whose logarithms' products  *)
(* add up to 0, infinity included, and gives no answer for a point outside *)
(* of its group.                                                           *)
PairingsExact == Done("pairing") => BN!PairingCorrect(call, result[1])

(* A verification by a curve decides exactly what it stands for.           *)
VerificationsExact == SignaturesExact /\ PairingsExact

(* The power, by the bytes of the exponent: x^(256e + b) = (x^e)^256 x^b.  *)
PowerBytes(x, exp, m) ==
    LET p[i \in 0..Len(exp)] ==
            IF i = 0 THEN 1 % m
            ELSE LET q == p[i - 1]
                     high == Power(Power(x, exp[i] \div 16, m), 16, m)
                 IN  IF q = 0 THEN 0
                     ELSE (Power(Power(q, 16, m), 16, m) * ((high * Power(x, exp[i] % 16, m)) % m)) % m
    IN  p[Len(exp)]

(* Modular exponentiation is exact for every modulus, odd, even or a power *)
(* of two, and every width of windows, and written with leading zeros.     *)
ModexpExact ==
    Done("modexp") =>
        result[1] = Store(Len(call.modulus), PowerBytes(Load(call.base) % Load(call.modulus), call.exp, Load(call.modulus)))
=============================================================================
