-------------------------- MODULE WordInstructions --------------------------
(***************************************************************************)
(* The instructions of lib/evmone/instructions.hpp that compute with words *)
(* and move them on the stack.  A uint256 is an integer of NumWords words, *)
(* as those of ModArith; 32, 31, 256, 8 and 3 in the code are NumBytes,    *)
(* NumBytes - 1, Bits, BytesPerWord and NumWords - 1 here.  What intx does *)
(* is external.                                                            *)
(***************************************************************************)
EXTENDS ModArith, Sequences, Bitwise

BytesPerWord == WordBits \div ByteBits
NumBytes == BytesPerWord * NumWords
Bits == WordBits * NumWords

Bool(b) == IF b THEN 1 ELSE 0
IsNegative(x) == x >= R \div 2

-----------------------------------------------------------------------------
(* intx.                                                                   *)
SDivRem(x, y) ==
    LET Abs(z) == IF IsNegative(z) THEN (-z) % R ELSE z
        quot == Abs(x) \div Abs(y)
        rem == Abs(x) % Abs(y)
    IN  [quot |-> IF IsNegative(x) # IsNegative(y) THEN (-quot) % R ELSE quot,
         rem |-> IF IsNegative(x) THEN (-rem) % R ELSE rem]

IntxExp(base, exponent) ==
    LET result[i \in 0..Bits] ==        \* with the bits from i up
            IF i = Bits THEN 1
            ELSE LET square(r) == (r * r) % R
                 IN  (square(result[i + 1]) * (IF (exponent \div 2 ^ i) % 2 = 1 THEN base ELSE 1)) % R
    IN  result[0]

ShiftLeft(x, y) == IF y < Bits THEN (x * 2 ^ y) % R ELSE 0
ShiftRight(x, y) == IF y < Bits THEN x \div 2 ^ y ELSE 0

Slt(x, y) == IF IsNegative(x) # IsNegative(y) THEN IsNegative(x) ELSE x < y

CountSignificantBytes(x) == CHOOSE n \in 0..NumBytes :
    x < 2 ^ (ByteBits * n) /\ (n = 0 \/ x >= 2 ^ (ByteBits * (n - 1)))

-----------------------------------------------------------------------------
(* Division by 0 is 0.                                                     *)
SDiv(x, y) == IF y # 0 THEN SDivRem(x, y).quot ELSE 0
SMod(x, y) == IF y # 0 THEN SDivRem(x, y).rem ELSE 0
AddMod(x, y, m) == IF m # 0 THEN (x + y) % m ELSE 0
MulMod(x, y, m) == IF m # 0 THEN (x * y) % m ELSE 0

(* EXP pays for the bytes of its exponent: gas and value, or out of gas.   *)
ExpInstr(base, exponent, gas_left, exponent_cost) ==
    LET gas == gas_left - CountSignificantBytes(exponent) * exponent_cost
    IN  IF gas < 0 THEN <<>> ELSE <<gas, IntxExp(base, exponent)>>

(* The byte ext of x is sign-extended in its word, and to the words above. *)
SignExtend(ext, x) ==
    LET e == Word(ext, 0)
        sign_word_index == e \div BytesPerWord
        sign_byte_offset == (e % BytesPerWord) * ByteBits
        sign_word == Word(x, sign_word_index)
        sign_byte == (sign_word \div 2 ^ sign_byte_offset) % 2 ^ ByteBits
        negative == sign_byte >= 2 ^ (ByteBits - 1)
        sext_byte == IF negative THEN Base - 2 ^ ByteBits + sign_byte ELSE sign_byte
        sext == (sext_byte * 2 ^ sign_byte_offset) % Base
        value == sign_word % 2 ^ sign_byte_offset
        words == [i \in 0..(NumWords - 1) |->
                    CASE i < sign_word_index -> Word(x, i)
                      [] i = sign_word_index -> sext | value
                      [] OTHER -> IF negative THEN Base - 1 ELSE 0]
        sum[i \in 0..NumWords] ==
            IF i = 0 THEN 0 ELSE sum[i - 1] + words[i - 1] * Base ^ (i - 1)
    IN  IF ext < NumBytes - 1 THEN sum[NumWords] ELSE x

ByteInstr(n, x) ==
    LET byte_mask == IF n < NumBytes THEN 2 ^ ByteBits - 1 ELSE 0
        index == NumBytes - 1 - (Word(n, 0) % NumBytes)
        word == Word(x, index \div BytesPerWord)
        byte_index == index % BytesPerWord
    IN  (word \div 2 ^ (byte_index * ByteBits)) & byte_mask

\* Wrong variant: the shift of the mask is not clamped for large operands.
BugSar(y, x) ==
    LET sign_mask == IF Word(x, NumWords - 1) >= Base \div 2 THEN R - 1 ELSE 0
    IN  ShiftRight(x, y) | ShiftLeft(sign_mask, (Bits - y) % R)

Sar(y, x) ==
    LET sign_mask == IF Word(x, NumWords - 1) >= Base \div 2 THEN R - 1 ELSE 0
        mask_shift == IF y < Bits THEN Bits - Word(y, 0) ELSE 0
    IN  ShiftRight(x, y) | ShiftLeft(sign_mask, mask_shift)

Clz(x) == CHOOSE n \in 0..Bits : x < 2 ^ (Bits - n) /\ (n = Bits \/ x >= 2 ^ (Bits - n - 1))

Unary(op, x) ==
    CASE op = "ISZERO" -> Bool(x = 0)
      [] op = "NOT" -> R - 1 - x
      [] op = "CLZ" -> Clz(x)

(* The binary instructions: x is the top of the stack, y the next item.    *)
Binary(op, x, y) ==
    CASE op = "ADD" -> (x + y) % R
      [] op = "MUL" -> (x * y) % R
      [] op = "SUB" -> (x - y) % R
      [] op = "DIV" -> IF y # 0 THEN x \div y ELSE 0
      [] op = "SDIV" -> SDiv(x, y)
      [] op = "MOD" -> IF y # 0 THEN x % y ELSE 0
      [] op = "SMOD" -> SMod(x, y)
      [] op = "SIGNEXTEND" -> SignExtend(x, y)
      [] op = "LT"  -> Bool(x < y)
      [] op = "GT"  -> Bool(y < x)
      [] op = "SLT" -> Bool(Slt(x, y))
      [] op = "SGT" -> Bool(Slt(y, x))
      [] op = "EQ"  -> Bool(x = y)
      [] op = "AND" -> x & y
      [] op = "OR"  -> x | y
      [] op = "XOR" -> x ^^ y
      [] op = "BYTE" -> ByteInstr(x, y)
      [] op = "SHL" -> ShiftLeft(y, x)
      [] op = "SHR" -> ShiftRight(y, x)
      [] op = "SAR" -> Sar(x, y)

(* BLOCKHASH: the block asked for, or none; int64_t is a word here.        *)
Blockhash(number, block_number, window) ==
    LET lower_bound == IF block_number - window < 0 THEN 0 ELSE block_number - window
        low == Word(number, 0)
        n == IF low >= Base \div 2 THEN low - Base ELSE low
    IN  IF number < block_number /\ n >= lower_bound THEN {n} ELSE {}

-----------------------------------------------------------------------------
(* EIP-8024: immediates of 8 bits; an optional is a set.                   *)
DecodeDupnSwapnImm(imm) == IF imm \in 91..127 THEN {} ELSE {(imm + 145) % 256}

DecodeExchangeImm(imm) ==
    LET k == imm ^^ 143
        q == k \div 16
        r == k % 16
    IN  IF imm \in 82..127 THEN {}
        ELSE {IF q < r THEN <<q + 1, r + 1>> ELSE <<r + 1, 29 - q>>}

(* fast_swap() of the items at two depths; the top is the first item.      *)
Swap(stack, n, m) == [stack EXCEPT ![n + 1] = stack[m + 1], ![m + 1] = stack[n + 1]]

Undefined == <<"UNDEFINED_INSTRUCTION">>
Underflow == <<"STACK_UNDERFLOW">>

Dup(stack, n) == <<stack[n]>> \o stack

Dupn(stack, imm) ==
    IF DecodeDupnSwapnImm(imm) = {} THEN Undefined
    ELSE LET n == CHOOSE n \in DecodeDupnSwapnImm(imm) : TRUE
         IN  IF n > Len(stack) THEN Underflow ELSE Dup(stack, n)

Swapn(stack, imm) ==
    IF DecodeDupnSwapnImm(imm) = {} THEN Undefined
    ELSE LET n == CHOOSE n \in DecodeDupnSwapnImm(imm) : TRUE
         IN  IF n >= Len(stack) THEN Underflow ELSE Swap(stack, 0, n)

Exchange(stack, imm) ==
    IF DecodeExchangeImm(imm) = {} THEN Undefined
    ELSE LET p == CHOOSE p \in DecodeExchangeImm(imm) : TRUE
         IN  IF p[2] >= Len(stack) THEN Underflow ELSE Swap(stack, p[1], p[2])
=============================================================================
