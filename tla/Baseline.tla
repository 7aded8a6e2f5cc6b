------------------------------ MODULE Baseline ------------------------------
(* The Baseline interpreter: the analysis that finds the jump destinations,    *)
(* and the dispatch loop over the padded code that checks the requirements of  *)
(* every instruction before it is executed (lib/evmone/baseline_*.cpp).        *)
EXTENDS Instructions, SequencesExt

VARIABLES
    scan,            \* the position of the analysis
    jumpdest_bitset, \* the positions of valid jump destinations
    baseline         \* the execution state

(* 32 bytes for the missing data of a last PUSH32, and a STOP.                 *)
Padding == MaxPushSize + 1

PaddedCode == code \o [i \in 1..Padding |-> OP_STOP]

AnalysisDone == scan >= Len(code)

(* How far the loop of analyze_jumpdests() goes beyond a PUSH opcode.          *)
AfterPush(op) == op - (OP_PUSH1 - 1)

(* One iteration of the loop of analyze_jumpdests().                           *)
ScanByte ==
    LET op == code[scan + 1]
        isPush == SignedByte(op) >= OP_PUSH1
    IN  /\ ~AnalysisDone
        /\ scan' = scan + 1 + (IF isPush THEN AfterPush(op) ELSE 0)
        /\ jumpdest_bitset' =
              IF ~isPush /\ op = OP_JUMPDEST THEN jumpdest_bitset \union {scan} ELSE jumpdest_bitset
        /\ UNCHANGED baseline

CheckRequirements(op, f) ==
    CASE GasCosts[op] = Undefined                                     -> "UNDEFINED_INSTRUCTION"
      [] /\ GasCosts[op] # Undefined
         /\ Traits[op].change > 0 /\ Len(f.stack) = StackLimit        -> "STACK_OVERFLOW"
      [] /\ GasCosts[op] # Undefined
         /\ Len(f.stack) < Traits[op].required                        -> "STACK_UNDERFLOW"
      [] OTHER -> IF f.gas < GasCosts[op] THEN "OUT_OF_GAS" ELSE "SUCCESS"

(* A jump into push data that looks like a JUMPDEST.                           *)
JumpImpl(f, dst) ==
    IF dst < Len(code) /\ dst \in jumpdest_bitset
    THEN [f EXCEPT !.pc = dst]
    ELSE Exit(f, "BAD_JUMP_DESTINATION")

(* The big-endian value of the n bytes of the padded code after position pc.   *)
PushValue(pc, n) ==
    FoldLeft(LAMBDA value, byte : value * ByteValues + byte, 0, SubSeq(PaddedCode, pc + 2, pc + 1 + n))

(* DUPN looks for its immediate and for its operand itself.                    *)
Dupn(f) ==
    LET n == DecodeDupn(PaddedCode[f.pc + 2])
    IN  IF n = Undefined THEN Exit(f, "UNDEFINED_INSTRUCTION")
        ELSE IF n > Len(f.stack) THEN Exit(f, "STACK_UNDERFLOW")
        ELSE [Push(f, f.stack[n]) EXCEPT !.pc = @ + 2]

(* The instruction at f.pc, its requirements checked and its base cost paid.   *)
Invoke(op, f) ==
    CASE op = OP_JUMP -> JumpImpl(Pop(f, 1), f.stack[1])
      [] op = OP_JUMPI /\ f.stack[2] # 0 -> JumpImpl(Pop(f, 2), f.stack[1])
      [] op = OP_JUMPI /\ f.stack[2] = 0 -> [Pop(f, 2) EXCEPT !.pc = @ + 1]
      [] op = OP_DUPN -> Dupn(f)
      [] op = OP_PC -> [Push(f, f.pc) EXCEPT !.pc = @ + 1]
      [] PushSize(op) > 0 -> [Push(f, PushValue(f.pc, PushSize(op))) EXCEPT !.pc = @ + 1 + PushSize(op)]
      [] OTHER -> [Core(op, f) EXCEPT !.pc = @ + 1]

BaselineInit(gas) ==
    /\ scan = 0
    /\ jumpdest_bitset = {}
    /\ baseline = NewFrame(gas)

(* The loop not left when the gas runs out.                                    *)
BugBaselineStep ==
    /\ AnalysisDone /\ baseline.status = "RUNNING"
    /\ LET op == PaddedCode[baseline.pc + 1]
           check == CheckRequirements(op, baseline)
       IN  baseline' = CASE check = "SUCCESS" -> Invoke(op, [baseline EXCEPT !.gas = @ - GasCosts[op]])
                         [] check = "OUT_OF_GAS" -> baseline
                         [] OTHER -> Exit(baseline, check)
    /\ UNCHANGED <<scan, jumpdest_bitset>>

(* One turn of dispatch().                                                     *)
BaselineStep ==
    /\ AnalysisDone /\ baseline.status = "RUNNING"
    /\ LET op == PaddedCode[baseline.pc + 1]
           check == CheckRequirements(op, baseline)
       IN  baseline' = IF check = "SUCCESS"
                       THEN Invoke(op, [baseline EXCEPT !.gas = @ - GasCosts[op]])
                       ELSE Exit(baseline, check)
    /\ UNCHANGED <<scan, jumpdest_bitset>>
=============================================================================
