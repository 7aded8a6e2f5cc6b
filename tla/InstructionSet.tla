--------------------------- MODULE InstructionSet ---------------------------
(***************************************************************************)
(* Executions of instructions that move data, of those that access         *)
(* storage, and of accesses that grow the memory; the three share no state.*)
(***************************************************************************)
EXTENDS DataInstructions, StorageInstructions, Memory

VARIABLE program    \* what the execution is made of

vars == <<program, dataVars, storageVars, memoryVars>>

(* One initial state will do for what a program does not use.              *)
DataIdle == ~exec.static
StorageIdle == rev = LONDON /\ slot.original = 0
MemoryIdle == gas_limit = CHOOSE gas \in GasLimits : TRUE

Init ==
    /\ DataInit /\ StorageInit /\ MemoryInit
    /\ \/ program = "data" /\ StorageIdle /\ MemoryIdle
       \/ program = "storage" /\ DataIdle /\ MemoryIdle
       \/ program = "memory" /\ DataIdle /\ StorageIdle

Next ==
    \/ program = "data" /\ DataNext /\ UNCHANGED <<program, storageVars, memoryVars>>
    \/ program = "storage" /\ StorageNext /\ UNCHANGED <<program, dataVars, memoryVars>>
    \/ program = "memory" /\ MemoryNext /\ UNCHANGED <<program, dataVars, storageVars>>

Spec == Init /\ [][Next]_vars
=============================================================================
