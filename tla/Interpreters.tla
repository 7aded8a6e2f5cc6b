---------------------------- MODULE Interpreters ----------------------------
(* The two interpreters given the same code and the same gas. evmone runs the  *)
(* one or the other (the VM option "advanced"); what the caller sees must not  *)
(* depend on which, but for the instructions of EIP-8024: the table of the     *)
(* Advanced interpreter has op_undefined for them in every revision.           *)
EXTENDS Baseline, Advanced

CONSTANTS
    Inputs,       \* the codes to execute, each with the gas it is given
    MaxCodeSize   \* the bound on the length of a code

(* BlockInfo has room for the gas of every block a code of this size can have, *)
(* and for a stack that is too high.                                           *)
ASSUME InterpretersAssumption ==
    /\ MaxCodeSize \in Nat /\ BlockGasMax \in Nat /\ BlockStackMax \in Nat
    /\ \A input \in Inputs :
          /\ input.code \in Seq(Opcodes) /\ Len(input.code) <= MaxCodeSize
          /\ input.gas \in Nat
    /\ \A op \in Opcodes : GasCosts[op] * MaxCodeSize <= BlockGasMax
    /\ StackLimit < BlockStackMax

vars == <<code, scan, jumpdest_bitset, baseline, analysis, advanced>>

Init ==
    \E input \in Inputs :
        code = input.code /\ BaselineInit(input.gas) /\ AdvancedInit(input.gas)

BaselineDone == AnalysisDone /\ baseline.status # "RUNNING"

Finished == BaselineDone /\ Analyzed /\ advanced.status # "RUNNING"

(* First the one, then the other: they share nothing but their input.          *)
Next ==
    \/ /\ ScanByte \/ BaselineStep
       /\ UNCHANGED <<code, analysis, advanced>>
    \/ /\ BaselineDone
       /\ TranslateInstruction \/ SkipDeadCode \/ CompleteAnalysis \/ AdvancedStep
       /\ UNCHANGED <<code, scan, jumpdest_bitset, baseline>>

(* A loop that is entered goes on until it is left.                            *)
Spec == Init /\ [][Next]_vars /\ WF_vars(Next)

-----------------------------------------------------------------------------
(* The outcome does not depend on the interpreter: both fail, or both succeed  *)
(* with the same gas left, stack and memory - what GAS and CALL saw included.  *)
(* The exception is explicit: from Amsterdam Baseline executes DUPN, SWAPN and *)
(* EXCHANGE and the Advanced interpreter does not (advanced_instructions.cpp,  *)
(* "table[OP_DUPN] = op_undefined"), so a code that holds one of them may fail *)
(* in it alone. Even such a code has the same outcome when it does not fail.   *)
SameOutcome ==
    Finished =>
        /\ ~Failed(advanced) => Outcome(advanced) = Outcome(baseline) /\ ~Failed(baseline)
        /\ Failed(advanced) => Failed(baseline) \/ \E i \in DOMAIN code : code[i] \in Eip8024

(* What the interpreters do not check is safe.  Checking the stack once per    *)
(* block is enough: opx_beginblock() leaves no instruction of the block        *)
(* without its operands or without room for its result.  dispatch() and PUSH   *)
(* never read beyond the padding that analyze_legacy() adds, also when the     *)
(* code ends in the middle of push data or before the immediate of a DUPN.     *)
UncheckedAccessesSafe ==
    /\ Analyzed /\ advanced.status = "RUNNING" =>
         LET fn == analysis.instrs[advanced.pc].fn
         IN  fn # Undefined =>
                /\ Len(advanced.stack) >= Traits[fn].required
                /\ Len(advanced.stack) + Traits[fn].change <= StackLimit
    /\ AnalysisDone /\ baseline.status = "RUNNING" =>
         /\ baseline.pc < Len(PaddedCode)
         /\ LET op == PaddedCode[baseline.pc + 1]
            IN  baseline.pc + PushSize(op) + ImmediateSize(op) < Len(PaddedCode)

(* "Guaranteed to terminate because padded code ends with STOP": and because   *)
(* every loop passes a JUMPDEST, which costs gas.                              *)
Terminates == <>Finished
=============================================================================
