---------------------------- MODULE Instructions ----------------------------
(* The EVM instructions as both interpreters of lib/evmone share them: traits, *)
(* base gas costs and the core implementations. One opcode of each kind that   *)
(* an interpreter treats apart stands for the others of that kind, OP_DUPN for *)
(* the three of EIP-8024 (DUPN, SWAPN and EXCHANGE), which only Baseline has;  *)
(* operands that no interpreter looks at are left out.                         *)
EXTENDS Integers, Sequences

CONSTANTS
    StackLimit,    \* StackSpace::limit
    GasCosts,      \* the base cost of every opcode, Undefined where there is none
    CallCost       \* what the code run by a CALL needs to succeed

VARIABLE code      \* the code being executed

Undefined == -1

(* The order of the opcodes is that of the EVM: the PUSHes with data are the   *)
(* last ones that are not negative when taken as signed bytes.                 *)
OP_STOP == 0
OP_POP == 1
OP_MSTORE == 2
OP_JUMP == 3
OP_JUMPI == 4
OP_PC == 5
OP_GAS == 6
OP_JUMPDEST == 7
OP_PUSH0 == 8
OP_PUSH1 == 9
OP_PUSH2 == 10
OP_DUP1 == 11
OP_CALL == 12
OP_DUPN == 13
OP_INVALID == 14

Opcodes == OP_STOP..OP_INVALID

ByteValues == 2 * (OP_PUSH2 + 1)
SignedByte(b) == IF b < ByteValues \div 2 THEN b ELSE b - ByteValues

Traits ==
    [op \in Opcodes |->
        CASE op = OP_POP               -> [required |-> 1, change |-> -1]
          [] op = OP_MSTORE            -> [required |-> 2, change |-> -2]
          [] op = OP_JUMP              -> [required |-> 1, change |-> -1]
          [] op = OP_JUMPI             -> [required |-> 2, change |-> -2]
          [] op = OP_CALL              -> [required |-> 1, change |-> 0]
          [] op = OP_DUP1              -> [required |-> 1, change |-> 1]
          [] op \in {OP_PC, OP_GAS, OP_PUSH0, OP_PUSH1, OP_PUSH2, OP_DUPN}
                                       -> [required |-> 0, change |-> 1]
          [] OTHER                     -> [required |-> 0, change |-> 0]]

ASSUME InstructionsAssumption ==
    /\ StackLimit \in Nat \ {0}
    /\ CallCost \in Nat
    /\ GasCosts \in [Opcodes -> Nat \union {Undefined}]
    /\ GasCosts[OP_JUMPDEST] > 0 /\ GasCosts[OP_STOP] = 0 /\ GasCosts[OP_INVALID] = Undefined

(* The state of an execution; the first item of the stack is its top. *)
(* Only the Advanced interpreter uses block_cost.                              *)
NewFrame(gas) ==
    [pc |-> 0, stack |-> <<>>, memory |-> 0, gas |-> gas, block_cost |-> 0, status |-> "RUNNING"]

Push(f, x) == [f EXCEPT !.stack = <<x>> \o @]
Pop(f, n) == [f EXCEPT !.stack = SubSeq(@, n + 1, Len(@))]
Exit(f, status) == [f EXCEPT !.status = status]

(* MSTORE charges for the memory it grows to, one unit per word.               *)
MStore(f) ==
    LET offset == f.stack[1]
        growth == IF offset + 1 > f.memory THEN offset + 1 - f.memory ELSE 0
        charged == [Pop(f, 2) EXCEPT !.gas = @ - growth, !.memory = @ + growth]
    IN  IF growth > f.gas THEN Exit(f, "OUT_OF_GAS") ELSE charged

(* CALL gives the callee the gas asked for, or all but a 64th of what is left, *)
(* and gets back what the callee does not use: nothing when it fails.          *)
Call(f) ==
    LET all_but_64th == f.gas - f.gas \div 64
        gas == IF f.stack[1] < all_but_64th THEN f.stack[1] ELSE all_but_64th
        success == gas >= CallCost
        used == IF success THEN CallCost ELSE gas
    IN  Push([Pop(f, 1) EXCEPT !.gas = @ - used], IF success THEN 1 ELSE 0)

(* The core implementations that do not look at the code.                      *)
Core(op, f) ==
    CASE op = OP_STOP   -> Exit(f, "SUCCESS")
      [] op = OP_POP    -> Pop(f, 1)
      [] op = OP_MSTORE -> MStore(f)
      [] op = OP_GAS    -> Push(f, f.gas)
      [] op = OP_PUSH0  -> Push(f, 0)
      [] op = OP_DUP1   -> Push(f, f.stack[1])
      [] op = OP_CALL   -> Call(f)
      [] OTHER          -> f

(* The number of data bytes after the opcode.                                  *)
PushSize(op) == IF op \in OP_PUSH1..OP_PUSH2 THEN op - OP_PUSH1 + 1 ELSE 0

MaxPushSize == PushSize(OP_PUSH2)

(* The instructions of EIP-8024 have a byte after the opcode, which neither    *)
(* analysis of the code skips.                                                 *)
Eip8024 == {OP_DUPN}

ImmediateSize(op) == IF op \in Eip8024 THEN 1 ELSE 0

(* The item that DUPN copies: the first one that no DUP1..DUP16 reaches when   *)
(* the immediate is OP_DUP1; Undefined for JUMPDEST and the PUSHes.            *)
DecodeDupn(immediate) ==
    IF immediate \in OP_JUMPDEST..OP_PUSH2 THEN Undefined
    ELSE 2 + ((immediate - OP_DUP1) % ByteValues)

(* What the caller sees of a finished execution (make_execution_result): a     *)
(* failure takes all the gas, and the caller undoes what it has changed. (What *)
(* it has read stays known to the block access list; no property speaks of the *)
(* reads of an execution that fails.)                                          *)
Outcome(f) ==
    IF f.status = "SUCCESS" THEN [gas |-> f.gas, stack |-> f.stack, memory |-> f.memory]
    ELSE [gas |-> 0, stack |-> <<>>, memory |-> 0]

Failed(f) == f.status \notin {"RUNNING", "SUCCESS"}
=============================================================================
