--------------------------- MODULE MCInterpreters ---------------------------
(* All codes up to a length over three alphabets: jumps and push data, the     *)
(* instructions that are sensitive to gas and to the stack, and DUPN.          *)
EXTENDS Interpreters, TLC

(* One unit of gas for nearly everything, so that every single one counts.     *)
MCGasCosts == [op \in Opcodes |->
    CASE op = OP_STOP -> 0 [] op = OP_INVALID -> Undefined [] op = OP_JUMP -> 2 [] OTHER -> 1]

Codes(alphabet, size) == UNION {[1..n -> alphabet] : n \in 0..size}

JumpCodes == Codes({OP_STOP, OP_JUMP, OP_JUMPI, OP_PC, OP_JUMPDEST, OP_PUSH1}, 6)

GasCodes == Codes({OP_POP, OP_MSTORE, OP_GAS, OP_JUMPDEST, OP_PUSH0, OP_PUSH2, OP_DUP1,
                   OP_CALL, OP_INVALID}, 4)

\* OP_DUP1 and OP_CALL are immediates for the second and the third item.
DupnCodes == Codes({OP_STOP, OP_JUMPI, OP_JUMPDEST, OP_PUSH0, OP_PUSH1, OP_DUP1, OP_CALL, OP_DUPN}, 5)

MCInputs == [code : JumpCodes, gas : {9}] \union [code : GasCodes, gas : {4, 9}]
            \union [code : DupnCodes, gas : {9}]
=============================================================================
