------------------------------- MODULE Modexp -------------------------------
(***************************************************************************)
(* Modular exponentiation of lib/evmone_precompiles/modexp.cpp.  A number  *)
(* is its value, and where the code has arrays of a certain number of      *)
(* words, the results are truncated to that many words.                    *)
(***************************************************************************)
EXTENDS ModArith, Sequences, FiniteSetsExt

(* add(), sub() and mul() of arrays: truncated to n words.                 *)
Truncate(x, n) == x % Base ^ n

BitWidth(x) == CHOOSE k \in 0..31 : x < 2 ^ k /\ (k = 0 \/ x >= 2 ^ (k - 1))
TrailingZeros(x) == CHOOSE k \in 0..31 : x % 2 ^ k = 0 /\ x % 2 ^ (k + 1) # 0

(* trim(): the significant words.                                          *)
WordsFor(bits) == (bits + WordBits - 1) \div WordBits
Size(x) == WordsFor(BitWidth(x))

(* load() and store(): big-endian bytes, zeros in front.                   *)
Load(bytes) ==
    LET value[i \in 0..Len(bytes)] ==
            IF i = 0 THEN 0 ELSE value[i - 1] * 2 ^ ByteBits + bytes[i]
    IN  value[Len(bytes)]
Store(length, x) == [i \in 1..length |-> (x \div 2 ^ (ByteBits * (length - i))) % 2 ^ ByteBits]

(* load_mod().                                                             *)
LoadMod(bytes) ==
    LET mod == Load(bytes)
        tz == TrailingZeros(mod)
    IN  [mod_odd |-> mod \div 2 ^ tz, mod_tz |-> tz, mod_size |-> Size(mod)]

(* rem(): both shifted until the top bit of d's top word is set.           *)
Rem(u, d) ==
    LET shift == Size(d) * WordBits - BitWidth(d)
    IN  ((u * 2 ^ shift) % (d * 2 ^ shift)) \div 2 ^ shift

-----------------------------------------------------------------------------
(* Exponent: bytes of 8 bits, no leading zeros.                            *)

Exponent(bytes) ==
    LET significant == {i \in DOMAIN bytes : bytes[i] # 0}
    IN  IF significant = {} THEN <<>> ELSE SubSeq(bytes, Min(significant), Len(bytes))

ExpWidth(exp) == BitWidth(exp[1]) + (Len(exp) - 1) * 8

ExpBit(exp, index) == (exp[Len(exp) - index \div 8] \div 2 ^ (index % 8)) % 2 = 1

(* Bits lo to hi, from the byte of lo and the one before it.               *)
ExpWindow(exp, lo, hi) ==
    LET index == Len(exp) - lo \div 8
        bytes == exp[index] + (IF index # 1 THEN exp[index - 1] * 2 ^ 8 ELSE 0)
    IN  (bytes \div 2 ^ (lo % 8)) % 2 ^ (hi + 1 - lo)

MAX_WINDOW_WIDTH == 5

WindowWidth(exp_bits) ==
    CASE exp_bits <= 7   -> 1
      [] exp_bits \in 8..25   -> 2
      [] exp_bits \in 26..81  -> 3
      [] exp_bits \in 82..241 -> 4
      [] OTHER -> MAX_WINDOW_WIDTH

(* The widest window that ends at bit hi, without its trailing zeros.      *)
Window(exp, w, hi) ==
    LET lo == Max({hi + 1 - w, 0})
        v == ExpWindow(exp, lo, hi)
        tz == TrailingZeros(v)
    IN  [v |-> v \div 2 ^ tz, lo |-> lo + tz]

-----------------------------------------------------------------------------
(* modexp_odd(): sliding windows over a table of odd powers.               *)
ModexpOdd(base, exp, mod) ==
    LET n == Size(mod)
        mod_inv == ComputeMontModInv(mod)
        exp_bits == ExpWidth(exp)
        w == WindowWidth(exp_bits)
        Amm(x, y) == Only({MulAMM(a, b, mod, mod_inv, n) : a \in {x}, b \in {y}})
        base_mont == Rem(base * Base ^ n, mod)
        square == Amm(base_mont, base_mont)
        table[i \in 0..(2 ^ (w - 1) - 1)] ==
            IF i = 0 THEN base_mont ELSE Amm(table[i - 1], square)
        precomputed(v) == table[v \div 2]
        squared(r, times) ==
            LET s[i \in 0..w] == IF i = 0 THEN r ELSE Only({Amm(q, q) : q \in {s[i - 1]}})
            IN  s[times]
        top == Window(exp, w, exp_bits - 1)
        step(s) ==
            LET pos == s.pos - 1
                win == Window(exp, w, pos)
            IN  IF s.pos = 0 THEN s
                ELSE IF ~ExpBit(exp, pos) THEN [r |-> squared(s.r, 1), pos |-> pos]
                ELSE [r |-> Amm(squared(s.r, 1 + pos - win.lo), precomputed(win.v)),
                      pos |-> win.lo]
        steps8(s) == LET t[i \in 0..8] == IF i = 0 THEN s ELSE step(t[i - 1]) IN t[8]
        steps64(s) == LET t[i \in 0..8] == IF i = 0 THEN s ELSE Only({steps8(q) : q \in {t[i - 1]}}) IN t[8]
        loop[i \in 0..(Len(exp) \div 8 + 1)] ==
            IF i = 0 THEN [r |-> precomputed(top.v), pos |-> top.lo]
            ELSE Only({steps64(q) : q \in {loop[i - 1]}})
        result == Amm(loop[Len(exp) \div 8 + 1].r, 1)
    IN  IF result >= mod THEN result - mod ELSE result

(* modexp_pow2(), modulo 2^k: an even base to an exponent longer than k's  *)
(* width gives 0, of an odd one the exponent counts only modulo the period *)
(* of the powers.                                                          *)
BugPeriodBits(k) == IF k > 1 THEN k - 2 ELSE k - 1
PeriodBits(k) == IF k > 2 THEN k - 2 ELSE k - 1

ModexpPow2(base, exp, k) ==
    LET n == WordsFor(k)
        base_k == Truncate(base, n)
        exp_bits == ExpWidth(exp)
        reduced == exp_bits > PeriodBits(k)
        set_bits == {i \in 1..PeriodBits(k) : ExpBit(exp, i - 1)}
        num_bits == IF base % 2 = 1 /\ reduced
                    THEN IF set_bits = {} THEN 0 ELSE Max(set_bits)
                    ELSE exp_bits
        r[i \in 0..exp_bits] ==
            IF i = 0 THEN base_k
            ELSE LET s == r[i - 1]
                     square == Truncate(s * s, n)
                 IN  IF ExpBit(exp, num_bits - 1 - i) THEN Truncate(square * base_k, n) ELSE square
    IN  IF base % 2 = 0 /\ exp_bits > BitWidth(k) THEN 0
        ELSE IF num_bits = 0 THEN 1
        ELSE r[num_bits - 1] % 2 ^ k

(* modinv_pow2() of n words: the correct words double up to n.             *)
ModinvWords(x, n) ==
    LET inv[i \in 1..n] ==
            IF i = 1 THEN ModinvPow2(Word(x, 0))
            ELSE LET half == 2 ^ (BitWidth(i - 1) - 1)
                     s == inv[half]
                 IN  Truncate(2 * s - Truncate(s * s, i) * Truncate(x, i), i)
    IN  inv[n]

(* modexp(): both parts of the modulus, combined by the Chinese remainder  *)
(* theorem if neither is trivial.                                          *)
Combine(r_odd, r_pow2, m) ==
    LET pow2_size == WordsFor(m.mod_tz)
        difference == Truncate(r_pow2 - r_odd, pow2_size)
        y == (difference * ModinvWords(m.mod_odd, pow2_size)) % 2 ^ m.mod_tz
    IN  Truncate(m.mod_odd * y + r_odd, m.mod_size)

ModexpResult(base, exp, m) ==
    LET odd_is_trivial == m.mod_odd = 1
        pow2_is_trivial == m.mod_tz = 0
    IN  IF exp = <<>> THEN IF odd_is_trivial /\ pow2_is_trivial THEN 0 ELSE 1
        ELSE IF base = 0 \/ (odd_is_trivial /\ pow2_is_trivial) THEN 0
        ELSE IF odd_is_trivial THEN ModexpPow2(base, exp, m.mod_tz)
        ELSE IF pow2_is_trivial THEN ModexpOdd(base, exp, m.mod_odd)
        ELSE Combine(ModexpOdd(base, exp, m.mod_odd), ModexpPow2(base, exp, m.mod_tz), m)

DoModexp(base_bytes, exp_bytes, mod_bytes) ==
    Store(Len(mod_bytes),
          ModexpResult(Load(base_bytes), Exponent(exp_bytes), LoadMod(mod_bytes)))
=============================================================================
