------------------------------ MODULE ModArith ------------------------------
(***************************************************************************)
(* Modular arithmetic of lib/evmone_precompiles, modarith.hpp and          *)
(* mulmod.cpp: integers of NumWords words of WordBits bits each, so that   *)
(* carries, borrows and truncations are where the code has them.  Loops    *)
(* over words are modelled by the value that they compute; loops that      *)
(* decide something are recursive functions.                               *)
(***************************************************************************)
EXTENDS Integers

CONSTANTS
    WordBits, NumWords,     \* 64, and UintT::num_words
    ByteBits                \* 8

ASSUME ModArithAssumption ==
    /\ WordBits \in Nat \ {0} /\ WordBits % 2 = 0 /\ NumWords \in Nat \ {0}
    /\ ByteBits \in Nat \ {0} /\ WordBits % ByteBits = 0

Base == 2 ^ WordBits                \* the values of a word
R == 2 ^ (WordBits * NumWords)      \* the Montgomery radix, the values of UintT
Word(x, i) == (x \div 2 ^ (WordBits * i)) % Base

(* The element of a set of one: Only({Op(v) : v \in {value}}) is Op of a   *)
(* value that is computed once.                                            *)
Only(S) == CHOOSE r \in S : TRUE

(* intx: additions and subtractions with a carry flag.                     *)
Addc(x, y) == [value |-> (x + y) % R, carry |-> x + y >= R]
Subc(x, y) == [value |-> (x - y) % R, carry |-> x < y]

-----------------------------------------------------------------------------
(* Inverses modulo powers of two.                                          *)

NewtonStep(a, inv, bits) == (inv * ((2 - a * inv) % 2 ^ bits)) % 2 ^ bits

(* modinv_pow2(uint32_t), for the given width: the cube is right in four   *)
(* bits, and each of the iterations doubles them.                          *)
ModinvHalf(a, bits) ==
    LET ITERATIONS == CHOOSE k \in 0..bits : 4 * 2 ^ k >= bits
        inv[i \in 0..ITERATIONS] ==
            IF i = 0 THEN (a * a * a) % 2 ^ bits ELSE NewtonStep(a, inv[i - 1], bits)
    IN  inv[ITERATIONS]

(* modinv_pow2(uint64_t): half of the word, and one step more.             *)
ModinvPow2(a) ==
    LET half == WordBits \div 2
    IN  NewtonStep(a, ModinvHalf(a % 2 ^ half, half), WordBits)

(* compute_mont_mod_inv().                                                 *)
ComputeMontModInv(mod) == (-ModinvPow2(Word(mod, 0))) % Base

-----------------------------------------------------------------------------
(* Both flags decide: the sum may have left the integer's range.           *)
BugModadd(x, y, mod) ==
    LET s == Addc(x, y)
        d == Subc(s.value, mod)
    IN  IF d.carry THEN s.value ELSE d.value
Modadd(x, y, mod) ==
    LET s == Addc(x, y)
        d == Subc(s.value, mod)
    IN  IF ~s.carry /\ d.carry THEN s.value ELSE d.value

Modsub(x, y, mod) ==
    LET d == Subc(x, y)
    IN  IF d.carry THEN (d.value + mod) % R ELSE d.value

(* One iteration of the extended binary Euclidean algorithm: after an odd  *)
(* a is reduced by b (the two swapped if it is the smaller one), a and the *)
(* coefficient u are halved, an odd u by adding the inverse of 2.          *)
EuclidStep(s, mod) ==
    LET d == Subc(s.a, s.b)
        odd == s.a % 2 = 1
        swap == odd /\ d.carry
        a == IF swap THEN (-d.value) % R ELSE IF odd THEN d.value ELSE s.a
        v == IF swap THEN s.u ELSE s.v
        u == IF odd THEN Modsub(IF swap THEN s.v ELSE s.u, v, mod) ELSE s.u
        inv2 == (mod \div 2) + 1
    IN  [a |-> a \div 2, b |-> IF swap THEN s.a ELSE s.b, v |-> v,
         u |-> (u \div 2 + (IF u % 2 = 1 THEN inv2 ELSE 0)) % R]

(* modinv_scaled(): scale / x.  The loop halves a or a and b each time, so *)
(* it has at most twice the iterations of the integer's bits.              *)
ModinvScaled(x, scale, mod) ==
    LET bound == 2 * WordBits * NumWords
        state[i \in 0..bound] ==
            IF i = 0 THEN [a |-> x, b |-> mod, u |-> scale, v |-> 0]
            ELSE LET s == state[i - 1] IN IF s.a = 0 THEN s ELSE EuclidStep(s, mod)
        last == state[bound]
    IN  IF last.b = 1 THEN last.v ELSE 0

-----------------------------------------------------------------------------
(* class ModArith: Montgomery multiplication.                              *)

NewModArith(mod) ==
    [mod |-> mod, r_squared |-> ((R % mod) * (R % mod)) % mod,
     mod_inv |-> ComputeMontModInv(mod)]

(* One iteration of the CIOS method: t gets another word of y, and the     *)
(* multiple of mod that clears its lowest word, which is then dropped.     *)
(* The word t[S] takes all carries, so that nothing is truncated.          *)
CIOSStep(t, x, yi, mod, mod_inv) ==
    LET s == t + x * yi
        m == (s % Base) * mod_inv % Base
    IN  (s + m * mod) \div Base

Mul(f, x, y) ==
    LET t[i \in 0..NumWords] ==
            IF i = 0 THEN 0 ELSE CIOSStep(t[i - 1], x, Word(y, i - 1), f.mod, f.mod_inv)
        last == t[NumWords]
    IN  (IF last >= f.mod THEN last - f.mod ELSE last) % R

ToMont(f, x) == Mul(f, x, f.r_squared)
FromMont(f, x) == Mul(f, x, 1)
Add(f, x, y) == Modadd(x, y, f.mod)
Sub(f, x, y) == Modsub(x, y, f.mod)

Inv(f, x) == ModinvScaled(x, f.r_squared, f.mod)

(* class FieldElement of ecc.hpp: the operations of one field as tables.   *)
FieldElement(mod) ==
    LET f == NewModArith(mod)
        Elements == 0..(mod - 1)
    IN  [mul |-> [a, b \in Elements |-> Mul(f, a, b)],
         add |-> [a, b \in Elements |-> Add(f, a, b)],
         sub |-> [a, b \in Elements |-> Sub(f, a, b)],
         inv |-> [a \in Elements |-> Inv(f, a)],
         fe |-> [v \in 0..(R - 1) |-> ToMont(f, v)],
         value |-> [a \in Elements |-> FromMont(f, a)]]

-----------------------------------------------------------------------------
(* mul_amm() of modexp.cpp, Almost Montgomery Multiplication of n          *)
(* words: t keeps n words and a carry, and mod is subtracted only if there *)
(* is one.  The result may be mod or more, but never more than n words.    *)
MulAMM(x, y, mod, mod_inv, n) ==
    LET top == Base ^ n
        t[i \in 0..n] ==
            IF i = 0 THEN [value |-> 0, carry |-> 0]
            ELSE LET s == t[i - 1]
                     sum == CIOSStep(s.value, x, Word(y, i - 1), mod, mod_inv)
                              + s.carry * Base ^ (n - 1)
                 IN  [value |-> sum % top, carry |-> sum \div top]
        last == t[n]
    IN  IF last.carry = 0 THEN last.value ELSE (last.value - mod) % top

(* mul_amm_256(), of four words.                                           *)
MulAMM256(x, y, mod, mod_inv) == MulAMM(x, y, mod, mod_inv, NumWords)
=============================================================================
