------------------------------ MODULE Advanced ------------------------------
(* The Advanced interpreter: the analysis that translates the code into        *)
(* instructions grouped in basic blocks, and the execution that checks the     *)
(* requirements of a whole block when it begins (lib/evmone/advanced_*.cpp).   *)
EXTENDS Instructions, SequencesExt

CONSTANTS
    BlockGasMax,   \* the largest value of BlockInfo::gas_cost
    BlockStackMax  \* the largest value of BlockInfo::stack_req and stack_max_growth

VARIABLES
    analysis,  \* what analyze() has found so far: the position it goes to next,
               \* whether that is in dead code, the open block and its results
    advanced   \* the execution state: pc is the index of an instruction

(* The implementation of an opcode: op_undefined for those of EIP-8024, which  *)
(* take part in the requirements of their block like any other.                *)
Implementation(op) == IF op \in Eip8024 THEN Undefined ELSE op

(* The entry of the revision's table for an opcode.                            *)
OpTable(op) ==
    IF GasCosts[op] = Undefined
    THEN [fn |-> Undefined, gas |-> 0, required |-> 0, change |-> 0]
    ELSE [fn |-> Implementation(op), gas |-> GasCosts[op],
          required |-> Traits[op].required, change |-> Traits[op].change]

Larger(a, b) == IF a > b THEN a ELSE b
Clamp(x, max) == IF x <= max THEN x ELSE max

(* A block whose information goes to the instruction with index begin.         *)
BlockAnalysis(begin) == [gas |-> 0, required |-> 0, growth |-> 0, change |-> 0, begin |-> begin]

Close(block) ==
    [gas |-> Clamp(block.gas, BlockGasMax),
     required |-> Clamp(block.required, BlockStackMax),
     growth |-> Clamp(block.growth, BlockStackMax)]

SaveBlock(a) == [a EXCEPT !.instrs[a.block.begin].arg = Close(a.block)]

(* A JUMPDEST closes the block before it and is the first of a new one.        *)
OpenJumpdest(a, i) ==
    LET next == Len(a.instrs) + 1
    IN  [SaveBlock(a) EXCEPT !.block = BlockAnalysis(next),
                             !.jumpdest_offsets = Append(@, i),
                             !.jumpdest_targets = Append(@, next)]

(* The growth not counting the last instruction.                               *)
BugExtendBlock(block, info) ==
    LET change == block.change + info.change
    IN  [block EXCEPT !.required = Larger(@, info.required - block.change),
                      !.change = change,
                      !.growth = Larger(@, block.change),
                      !.gas = @ + info.gas]

(* The block with the instruction added to it.                                 *)
ExtendBlock(block, info) ==
    LET change == block.change + info.change
    IN  [block EXCEPT !.required = Larger(@, info.required - block.change),
                      !.change = change,
                      !.growth = Larger(@, change),
                      !.gas = @ + info.gas]

(* The data of a PUSH at position i, missing bytes at the code end being 0.    *)
PushArgument(i, size) ==
    FoldLeft(LAMBDA value, j : value * ByteValues + (IF j <= Len(code) THEN code[j] ELSE 0), 0,
             [k \in 1..size |-> i + 1 + k])

(* What the instruction needs to know at execution.                            *)
Argument(op, i, block) ==
    CASE PushSize(op) > 0           -> PushArgument(i, PushSize(op))
      [] op \in {OP_GAS, OP_CALL}   -> block.gas
      [] op = OP_PC                 -> i
      [] OTHER                      -> Close(BlockAnalysis(1))

(* Instructions after which the code is dead up to the next JUMPDEST.          *)
EndsLiveCode(op) == op \in {OP_JUMP, OP_STOP}

Analyzed == analysis.next >= Len(code) /\ analysis.complete

(* One iteration of the loop of analyze().                                     *)
TranslateInstruction ==
    LET i == analysis.next
        op == code[i + 1]
        a == IF op = OP_JUMPDEST THEN OpenJumpdest(analysis, i) ELSE analysis
        block == ExtendBlock(a.block, OpTable(op))
        instr == [fn |-> OpTable(op).fn, arg |-> Argument(op, i, block)]
        b == [a EXCEPT !.instrs = Append(@, instr), !.block = block,
                       !.next = i + 1 + PushSize(op), !.dead = EndsLiveCode(op)]
    IN  /\ i < Len(code)
        /\ ~analysis.dead \/ op = OP_JUMPDEST
        /\ analysis' = IF op = OP_JUMPI
                       THEN [SaveBlock(b) EXCEPT !.block = BlockAnalysis(Len(b.instrs))]
                       ELSE b
        /\ UNCHANGED advanced

(* One iteration of the loop that skips dead code.                             *)
SkipDeadCode ==
    LET op == code[analysis.next + 1]
    IN  /\ analysis.next < Len(code)
        /\ analysis.dead /\ op # OP_JUMPDEST
        /\ analysis' = [analysis EXCEPT !.next = @ + 1 + PushSize(op)]
        /\ UNCHANGED advanced

(* The end of analyze(): the last block is saved and terminated by a STOP.     *)
CompleteAnalysis ==
    /\ analysis.next >= Len(code) /\ ~analysis.complete
    /\ analysis' = [SaveBlock(analysis) EXCEPT
                      !.instrs = Append(@, [fn |-> OP_STOP, arg |-> Close(BlockAnalysis(1))]),
                      !.complete = TRUE]
    /\ UNCHANGED advanced

AdvancedInit(gas) ==
    /\ analysis = [next |-> 0, dead |-> FALSE, complete |-> FALSE, block |-> BlockAnalysis(1),
                   instrs |-> <<[fn |-> OP_JUMPDEST, arg |-> Close(BlockAnalysis(1))]>>,
                   jumpdest_offsets |-> <<>>, jumpdest_targets |-> <<>>]
    /\ advanced = [NewFrame(gas) EXCEPT !.pc = 1]

(* std::lower_bound over the sorted offsets; 0 when there is no such jumpdest. *)
FindJumpdest(offset) ==
    LET offsets == analysis.jumpdest_offsets
        notLess == {n \in DOMAIN offsets : offsets[n] >= offset}
        first == CHOOSE n \in notLess : \A k \in notLess : n <= k
    IN  IF notLess # {} /\ offsets[first] = offset THEN analysis.jumpdest_targets[first] ELSE 0

(* opx_beginblock(): the cost and the stack requirements of the block.         *)
BeginBlock(f, block) ==
    LET height == Len(f.stack)
        paid == [f EXCEPT !.gas = @ - block.gas, !.block_cost = block.gas, !.pc = @ + 1]
        affordable == f.gas >= block.gas
        fed == height >= block.required
        roomy == height + block.growth <= StackLimit
    IN  CASE ~affordable -> Exit(f, "OUT_OF_GAS")
          [] affordable /\ ~fed -> Exit(f, "STACK_UNDERFLOW")
          [] affordable /\ fed /\ ~roomy -> Exit(f, "STACK_OVERFLOW")
          [] OTHER -> paid

OpJump(f, dst) ==
    IF FindJumpdest(dst) = 0
    THEN Exit(f, "BAD_JUMP_DESTINATION")
    ELSE [f EXCEPT !.pc = FindJumpdest(dst)]

(* The part of the block's cost that is for the instructions still to come.    *)
GasLeftCorrection(f, instr) == f.block_cost - instr.arg

OpGas(f, instr) == Push(f, f.gas + GasLeftCorrection(f, instr))

(* The rest of the block run without the gas for it.                           *)
BugOpCall(f, instr) ==
    LET called == Call([f EXCEPT !.gas = @ + GasLeftCorrection(f, instr)])
        after == called.gas - GasLeftCorrection(f, instr)
    IN  [called EXCEPT !.gas = after]

(* op_call(): the callee must be given the gas that is really left.            *)
OpCall(f, instr) ==
    LET called == Call([f EXCEPT !.gas = @ + GasLeftCorrection(f, instr)])
        after == called.gas - GasLeftCorrection(f, instr)
    IN  IF after < 0 THEN Exit(called, "OUT_OF_GAS") ELSE [called EXCEPT !.gas = after]

(* The instruction that instr->fn points to.                                   *)
Execute(f, instr) ==
    LET next(g) == [g EXCEPT !.pc = @ + 1]
    IN  CASE instr.fn = Undefined -> Exit(f, "UNDEFINED_INSTRUCTION")
          [] instr.fn = OP_JUMPDEST -> BeginBlock(f, instr.arg)
          [] instr.fn = OP_JUMP -> OpJump(Pop(f, 1), f.stack[1])
          [] instr.fn = OP_JUMPI ->
                IF f.stack[2] # 0 THEN OpJump(Pop(f, 2), f.stack[1])
                ELSE BeginBlock(Pop(f, 2), instr.arg)
          [] instr.fn = OP_GAS -> next(OpGas(f, instr))
          [] instr.fn = OP_CALL -> next(OpCall(f, instr))
          [] instr.fn = OP_PC \/ instr.fn \in OP_PUSH1..OP_PUSH2 -> next(Push(f, instr.arg))
          [] OTHER -> next(Core(instr.fn, f))

(* One turn of the loop of execute().                                          *)
AdvancedStep ==
    /\ Analyzed /\ advanced.status = "RUNNING"
    /\ advanced' = Execute(advanced, analysis.instrs[advanced.pc])
    /\ UNCHANGED analysis
=============================================================================
