---------------------------- MODULE MCArithmetic ----------------------------
(* Curves of prime order in small fields, with the forms of the real ones:    *)
(* orders below the field's prime, one with the endomorphism.                 *)
EXTENDS Arithmetic

MCSecp256k1 ==
    [P |-> 43, ORDER |-> 31, B |-> 7,
     ENDO |-> [lambda |-> 5, BETA |-> 6, X1 |-> 5, MINUS_Y1 |-> 1, X2 |-> 1, Y2 |-> 6],
     Multiples |-> <<
        <<2, 12>>, <<7, 7>>, <<35, 21>>, <<21, 18>>, <<12, 12>>, <<29, 31>>,
        <<25, 18>>, <<32, 40>>, <<20, 40>>, <<42, 7>>, <<40, 25>>, <<37, 36>>,
        <<13, 21>>, <<34, 40>>, <<38, 21>>, <<38, 22>>, <<34, 3>>, <<13, 22>>,
        <<37, 7>>, <<40, 18>>, <<42, 36>>, <<20, 3>>, <<32, 3>>, <<25, 25>>,
        <<29, 12>>, <<12, 31>>, <<21, 25>>, <<35, 22>>, <<7, 36>>, <<2, 31>>>>]

MCSecp256r1 ==
    [P |-> 23, ORDER |-> 17, B |-> 15,
     Multiples |-> <<
        <<1, 6>>, <<21, 17>>, <<17, 22>>, <<6, 12>>, <<11, 5>>, <<14, 16>>, <<9, 2>>,
        <<19, 3>>, <<19, 20>>, <<9, 21>>, <<14, 7>>, <<11, 18>>, <<6, 11>>, <<17, 1>>,
        <<21, 6>>, <<1, 17>>>>]

(* A Barreto-Naehrig curve with the seed 1, and the points of its twist.      *)
MCBn254 ==
    [P |-> 103, ORDER |-> 97, B |-> 5, NINE |-> 2, SEED |-> 1, AteDigits |-> <<-1, 0, 0, 0>>,
     FROBENIUS_COEFFS |-> <<
        <<<<36, 93>>, <<63, 1>>, <<12, 24>>, <<54, 23>>, <<11, 82>>>>,
        <<<<57, 0>>, <<56, 0>>, <<102, 0>>, <<46, 0>>, <<47, 0>>>>,
        <<<<95, 48>>, <<26, 56>>, <<91, 79>>, <<12, 28>>, <<2, 43>>>>>>,
     Multiples |-> <<
          <<2, 42>>, <<78, 6>>, <<82, 23>>, <<8, 65>>, <<19, 13>>, <<76, 60>>, <<38, 94>>,
          <<60, 23>>, <<66, 50>>, <<101, 10>>, <<64, 80>>, <<87, 82>>, <<52, 92>>, <<50, 13>>,
          <<65, 54>>, <<33, 60>>, <<23, 92>>, <<47, 101>>, <<34, 90>>, <<95, 76>>, <<67, 76>>,
          <<97, 43>>, <<70, 18>>, <<91, 50>>, <<86, 6>>, <<32, 15>>, <<42, 97>>, <<11, 10>>,
          <<6, 18>>, <<28, 11>>, <<102, 101>>, <<31, 82>>, <<49, 53>>, <<30, 15>>, <<9, 42>>,
          <<92, 61>>, <<41, 15>>, <<94, 93>>, <<100, 94>>, <<35, 54>>, <<44, 27>>, <<3, 54>>,
          <<36, 65>>, <<88, 21>>, <<27, 18>>, <<68, 9>>, <<59, 38>>, <<57, 101>>, <<57, 2>>,
          <<59, 65>>, <<68, 94>>, <<27, 85>>, <<88, 82>>, <<36, 38>>, <<3, 49>>, <<44, 76>>,
          <<35, 49>>, <<100, 9>>, <<94, 10>>, <<41, 88>>, <<92, 42>>, <<9, 61>>, <<30, 88>>,
          <<49, 50>>, <<31, 21>>, <<102, 2>>, <<28, 92>>, <<6, 85>>, <<11, 93>>, <<42, 6>>,
          <<32, 88>>, <<86, 97>>, <<91, 53>>, <<70, 85>>, <<97, 60>>, <<67, 27>>, <<95, 27>>,
          <<34, 13>>, <<47, 2>>, <<23, 11>>, <<33, 43>>, <<65, 49>>, <<50, 90>>, <<52, 11>>,
          <<87, 21>>, <<64, 23>>, <<101, 93>>, <<66, 53>>, <<60, 80>>, <<38, 9>>, <<76, 43>>,
          <<19, 90>>, <<8, 38>>, <<82, 80>>, <<78, 97>>, <<2, 61>>>>,
     TwistMultiples |-> <<
          <<85, 44, 15, 59>>, <<86, 29, 15, 56>>, <<73, 1, 3, 72>>, <<15, 84, 5, 11>>,
          <<73, 56, 3, 102>>, <<43, 94, 51, 64>>, <<4, 61, 85, 38>>, <<62, 46, 3, 72>>,
          <<47, 98, 15, 91>>, <<102, 24, 12, 75>>, <<71, 56, 100, 31>>, <<91, 10, 82, 100>>,
          <<90, 57, 91, 19>>, <<71, 46, 3, 102>>, <<81, 51, 78, 39>>, <<21, 101, 51, 64>>,
          <<96, 102, 91, 19>>, <<68, 10, 13, 32>>, <<62, 1, 100, 1>>, <<64, 16, 4, 52>>,
          <<60, 15, 4, 52>>, <<39, 11, 52, 39>>, <<31, 86, 60, 90>>, <<102, 79, 15, 91>>,
          <<78, 79, 15, 56>>, <<82, 41, 13, 97>>, <<42, 98, 88, 47>>, <<47, 5, 12, 75>>,
          <<87, 42, 60, 90>>, <<20, 47, 12, 84>>, <<100, 45, 13, 32>>, <<66, 48, 82, 100>>,
          <<57, 29, 88, 12>>, <<60, 30, 13, 97>>, <<99, 67, 15, 59>>, <<22, 95, 88, 44>>,
          <<64, 32, 13, 97>>, <<57, 74, 91, 28>>, <<18, 17, 85, 38>>, <<18, 80, 78, 39>>,
          <<82, 72, 99, 51>>, <<4, 75, 78, 39>>, <<72, 53, 5, 11>>, <<49, 45, 21, 3>>,
          <<88, 78, 60, 90>>, <<81, 25, 18, 65>>, <<16, 69, 98, 92>>, <<38, 48, 13, 32>>,
          <<38, 48, 90, 71>>, <<16, 69, 5, 11>>, <<81, 25, 85, 38>>, <<88, 78, 43, 13>>,
          <<49, 45, 82, 100>>, <<72, 53, 98, 92>>, <<4, 75, 25, 64>>, <<82, 72, 4, 52>>,
          <<18, 80, 25, 64>>, <<18, 17, 18, 65>>, <<57, 74, 12, 75>>, <<64, 32, 90, 6>>,
          <<22, 95, 15, 59>>, <<99, 67, 88, 44>>, <<60, 30, 90, 6>>, <<57, 29, 15, 91>>,
          <<66, 48, 21, 3>>, <<100, 45, 90, 71>>, <<20, 47, 91, 19>>, <<87, 42, 43, 13>>,
          <<47, 5, 91, 28>>, <<42, 98, 15, 56>>, <<82, 41, 90, 6>>, <<78, 79, 88, 47>>,
          <<102, 79, 88, 12>>, <<31, 86, 43, 13>>, <<39, 11, 51, 64>>, <<60, 15, 99, 51>>,
          <<64, 16, 99, 51>>, <<62, 1, 3, 102>>, <<68, 10, 90, 71>>, <<96, 102, 12, 84>>,
          <<21, 101, 52, 39>>, <<81, 51, 25, 64>>, <<71, 46, 100, 1>>, <<90, 57, 12, 84>>,
          <<91, 10, 21, 3>>, <<71, 56, 3, 72>>, <<102, 24, 91, 28>>, <<47, 98, 88, 12>>,
          <<62, 46, 100, 31>>, <<4, 61, 18, 65>>, <<43, 94, 52, 39>>, <<73, 56, 100, 1>>,
          <<15, 84, 98, 92>>, <<73, 1, 100, 31>>, <<86, 29, 88, 47>>, <<85, 44, 88, 44>>>>]

-----------------------------------------------------------------------------
(* All residues of moduli around the words' boundaries, also ones that fill   *)
(* the integer and composite ones, against the residues at the edges.         *)
Moduli == {3, 15, 17, 43, 127, 129, 239, 251, 253, 255}
Edges(m) == {0, 1, 2, 15, 16, m \div 2, m - 2, m - 1} \intersect 0..(m - 1)

FieldCalls ==
    UNION {
        UNION {[kind : {"field"}, op : {"modadd", "modsub"}, x : 0..(m - 1), y : Edges(m), mod : {m}],
               [kind : {"field"}, op : {"mont_mul"}, x : 0..255, y : Edges(m), mod : {m}],
               [kind : {"field"}, op : {"mont"}, x : 0..255, mod : {m}],
               [kind : {"field"}, op : {"mont_inv"}, x : 0..(m - 1), mod : {m}]} : m \in Moduli}
      \union [kind : {"field"}, op : {"mul_amm"}, x : 0..255, y : {0, 1, 15, 16, 240, 254, 255},
              mod : Moduli \ {3, 15}]
      \union [kind : {"field"}, op : {"modinv_pow2"}, x : {2 * i + 1 : i \in 0..127}, bits : {4, 8}]

(* Primes with a product of 269 bits.                                         *)
ChainCalls ==
    [kind : {"field"}, op : {"sqrt_chain"},
     mod : {32749, 32719, 32717, 32713, 32707, 32693, 32687, 32653, 32647,
            32633, 32621, 32611, 32609, 32603, 32587, 32579, 32573, 32569}]

-----------------------------------------------------------------------------
(* All pairs of points; multiples of points that are equal, opposite and      *)
(* images of each other, by all scalars.                                      *)
PointCalls(curve, n) ==
    UNION {[kind : {"group"}, curve : {curve}, op : {"add_affine"}, k : 0..(n - 1), l : 0..(n - 1)],
           [kind : {"group"}, curve : {curve}, op : {"add", "equal"}, k : 0..(n - 1), l : 0..(n - 1),
            z : {1, 5}, y : {1, 3}],
           [kind : {"group"}, curve : {curve}, op : {"add_mixed"}, k : 0..(n - 1), l : 0..(n - 1), z : {1, 5}],
           [kind : {"group"}, curve : {curve}, op : {"dbl"}, k : 0..(n - 1), z : {1, 2, 5}],
           [kind : {"group"}, curve : {curve}, op : {"mul"}, k : {0, 1, 7}, u : 0..255],
           [kind : {"group"}, curve : {curve}, op : {"msm"}, k : {0, 1}, l : {0, 1, 5, n - 1},
            u : 0..(n - 1), v : {0, 1, 2, 5, n - 2, n - 1}]}

(* The additions of two Jacobian points.                                      *)
MCAdditions == {c \in PointCalls("k1", 31) : c.op = "add"}

GroupCalls ==
    PointCalls("k1", 31) \union PointCalls("r1", 17)
      \union [kind : {"group"}, curve : {"k1"}, op : {"decompose"}, u : 0..255]
      \union [kind : {"group"}, curve : {"k1"}, op : {"endo_mul"}, k : {0, 1, 7}, u : 0..255]
      \union [kind : {"group"}, curve : {"k1"}, op : {"validate"}, qx : 0..42, qy : 0..42]

-----------------------------------------------------------------------------
(* Hashes above the orders; all values of r, and of s at its limits; keys on  *)
(* and off the curve, at infinity, and with coordinates out of the field.     *)
SignatureCalls ==
    [kind : {"signature"}, curve : {"k1"}, op : {"recover"}, hash : {0, 5, 31, 255}, r : 0..44,
     s : {0, 1, 15, 16, 30, 31}, parity : BOOLEAN, strict : BOOLEAN]
      \union
    UNION {[kind : {"signature"}, curve : {"r1"}, op : {"verify"}, hash : {0, 3, 17, 255}, r : 0..18,
            s : 0..18, qx : {q[1]}, qy : {q[2]}] :
              q \in {<<1, 6>>, <<1, 17>>, <<24, 6>>, <<1, 29>>, <<0, 0>>, <<1, 7>>, MCSecp256r1.Multiples[7]}}

-----------------------------------------------------------------------------
(* Elements of Fq12 with zero and non-zero coefficients everywhere, with the  *)
(* ones of the subfields; the seed and the digits by their residues.          *)
Elements ==
    {[i \in 1..6 |-> <<(7 * i * n + 3) % 103, (31 * i * i + n) % 103>>] : n \in 1..4}
      \union {[i \in 1..6 |-> IF i = n THEN <<1, 102>> ELSE <<0, 0>>] : n \in 1..6}
      \union {[i \in 1..6 |-> IF i % 2 = n THEN <<i, 99 - i>> ELSE <<0, 0>>] : n \in 0..1}

TowerCalls ==
    UNION {[kind : {"tower"}, op : {"mul"}, x : Elements, y : Elements],
           [kind : {"tower"}, op : {"square", "inv", "cyclotomic"}, x : Elements],
           [kind : {"tower"}, op : {"frobenius"}, x : Elements, n : 1..3],
           [kind : {"tower"}, op : {"line"}, x : Elements, y : Elements, px : {0, 5, 102}, py : {1, 77}],
           \* X modulo P^4 - P^2 + 1, the order of the cyclotomic subgroup
           [kind : {"tower"}, op : {"pow_to_X"}, x : Elements, X : {4915039}],
           [kind : {"tower"}, op : {"X", "ate_digits"},
            mod : {1999, 1997, 1993, 1987, 1979, 1973, 1951}]}

(* No pair; pairs, and pairs of pairs, that cancel and that do not, with      *)
(* infinity; points off the curve, off the twist and outside of its subgroup. *)
Logs == {0, 1, 2, 48, 49, 96}
Pairs1 == [k : Logs, l : Logs]
InvalidPairs ==
    {[px |-> 2, py |-> 41, l |-> 1], [px |-> 0, py |-> 1, l |-> 0],
     [k |-> 1, q |-> <<85, 44, 15, 60>>], [k |-> 0, q |-> <<1, 1, 19, 19>>], [k |-> 1, q |-> <<1, 1, 19, 19>>]}

PairingChecks ==
    [kind : {"pairing"},
     pairs : {<<>>} \union {<<p>> : p \in Pairs1 \union InvalidPairs}
               \union {<<q, p>> : q \in {[k |-> 0, l |-> 1], [k |-> 2, l |-> 1], [k |-> 2, l |-> 49]},
                                  p \in Pairs1 \union InvalidPairs}
               \union {<<p, [k |-> 3, l |-> 5], [k |-> 96, l |-> 13]>> : p \in [k : Logs, l : {1, 96}]}]

-----------------------------------------------------------------------------
(* Moduli of one to three words: all small ones, and odd multiples of powers  *)
(* of two; exponents with windows of every width, across bytes, with zeros.   *)
Digits(x, length) == [i \in 1..length |-> (x \div 4 ^ (length - i)) % 4]

LargeModuli ==
    {2 ^ k : k \in 8..12} \union {2 ^ k * 3 : k \in 6..10}
      \union {241, 255, 251, 4095, 4093, 2049, 4081, 16 * 255, 256 * 15, 512 * 7, 2 * 2047}

SmallExponents ==
    {<<>>, <<0>>, <<1>>, <<0, 2>>, <<11>>, <<127>>, <<0, 1, 0>>, <<3, 255>>, <<1, 171, 205>>}

LongExponents ==
    {[i \in 1..4 |-> 85 + 86 * (i % 2)], [i \in 1..11 |-> (37 * i) % 256],
     [i \in 1..31 |-> (101 * i) % 256], [i \in 1..31 |-> IF i = 1 THEN 3 ELSE 0]}

ModexpCalls ==
    [kind : {"modexp"}, base : {<<>>, <<0, 1>>, <<2>>, <<1, 1>>, <<3, 0, 2, 3>>},
     exp : SmallExponents, modulus : {Digits(m, 3) : m \in 1..63} \union {Digits(m, 7) : m \in LargeModuli}]
      \union
    [kind : {"modexp"}, base : {<<0, 1, 2>>, <<3, 3, 3>>, <<2, 1, 0, 3>>},
     exp : LongExponents, modulus : {Digits(m, 6) : m \in (LargeModuli \ {4096}) \union {15, 36}}]

-----------------------------------------------------------------------------
(* All words against those at the edges of bytes, words and signs.            *)
WordEdges == {0, 1, 2, 3, 4, 8, 9, 15, 16, 63, 127, 128, 129, 254, 255}
BinaryOps ==
    {"ADD", "MUL", "SUB", "DIV", "SDIV", "MOD", "SMOD", "SIGNEXTEND", "LT", "GT", "SLT", "SGT", "EQ",
     "AND", "OR", "XOR", "BYTE", "SHL", "SHR", "SAR"}

WordCalls ==
    UNION {[kind : {"word"}, op : BinaryOps, x : 0..255, y : WordEdges],
           [kind : {"word"}, op : BinaryOps, x : WordEdges, y : 0..255],
           [kind : {"word"}, op : {"ISZERO", "NOT", "CLZ"}, x : 0..255],
           [kind : {"word"}, op : {"ADDMOD", "MULMOD"}, x : WordEdges, y : WordEdges, mod : WordEdges],
           [kind : {"word"}, op : {"EXP"}, x : {0, 1, 2, 3, 255}, y : 0..255, gas : {0, 30, 200},
            cost : {10, 50}],
           [kind : {"word"}, op : {"BLOCKHASH"}, x : 0..255, block_number : 0..7, window : {4}]}

StackCalls ==
    UNION {[kind : {"stack"}, op : {"DUP"}, imm : 1..16, height : {16, 17}],
           [kind : {"stack"}, op : {"SWAP"}, imm : 1..16, height : {17, 18}],
           [kind : {"stack"}, op : {"DUPN", "SWAPN"}, imm : 0..255, height : {16, 17, 18, 144, 145, 236}],
           [kind : {"stack"}, op : {"EXCHANGE"}, imm : 0..255, height : {1, 2, 15, 29, 30}]}

MCCalls ==
    UNION {FieldCalls, ChainCalls, GroupCalls, SignatureCalls, TowerCalls, PairingChecks, ModexpCalls, WordCalls, StackCalls}
=============================================================================
