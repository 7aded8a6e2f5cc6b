------------------------ MODULE StorageInstructions -------------------------
(***************************************************************************)
(* SLOAD and SSTORE of lib/evmone/instructions_storage.cpp with the costs  *)
(* of all revisions, on one slot and in nested calls of one transaction.   *)
(* The calls carry what the instructions see of a host: a failed call      *)
(* restores the slot, and its refund is gone.                              *)
(***************************************************************************)
EXTENDS Revision, Integers, Sequences, FiniteSetsExt

CONSTANTS
    CostRevisions,      \* the revisions of the transactions
    Words,              \* the values of the slot, with 0
    TxGas, CallGas,     \* the gas of the transaction, and what calls may be given
    StateGasUnits,      \* the slots whose state gas the transaction has paid for
    MaxStores, MaxCalls \* the instructions of a transaction

WARM_ACCESS == 100
COLD_STORAGE_ACCESS == 2100
ADDITIONAL_COLD_STORAGE_ACCESS == COLD_STORAGE_ACCESS - WARM_ACCESS
STORAGE_WRITE == 10000
CALL_STIPEND == 2300
STORAGE_SET_STATE_GAS == 64 * 1530

(* The transactions are too small to pay state gas with their own gas.     *)
ASSUME StorageAssumption ==
    /\ CostRevisions \subseteq Revisions /\ 0 \in Words
    /\ TxGas \in Nat /\ TxGas < STORAGE_SET_STATE_GAS /\ CallGas \subseteq Nat
    /\ StateGasUnits \in Nat /\ MaxStores \in Nat /\ MaxCalls \in Nat

VARIABLES
    rev,
    slot,       \* original, current, and access: cold or the instruction that warmed it
    frames,     \* the calls, the running one last
    calls       \* the calls made

storageVars == <<rev, slot, frames, calls>>

-----------------------------------------------------------------------------
(* STORAGE_COST_SPEC.                                                      *)
CostSpec(net_cost, warm_access, set, reset, clear, cold) ==
    [net_cost |-> net_cost, warm_access |-> warm_access, set |-> set, reset |-> reset,
     clear |-> clear, cold |-> cold]

StorageCostSpec(r) ==
    CASE r < ISTANBUL -> CostSpec(FALSE, 200, 20000, 5000, 15000, 0)
      [] r = ISTANBUL -> CostSpec(TRUE, 800, 20000, 5000, 15000, 0)
      [] r = BERLIN -> CostSpec(TRUE, WARM_ACCESS, 20000, 5000 - COLD_STORAGE_ACCESS, 15000,
                                COLD_STORAGE_ACCESS)
      [] r \in LONDON..OSAKA -> CostSpec(TRUE, WARM_ACCESS, 20000, 5000 - COLD_STORAGE_ACCESS, 4800,
                                         COLD_STORAGE_ACCESS)
      [] r >= AMSTERDAM -> CostSpec(TRUE, WARM_ACCESS, WARM_ACCESS + STORAGE_WRITE,
                                    WARM_ACCESS + STORAGE_WRITE,
                                    ((STORAGE_WRITE + COLD_STORAGE_ACCESS) * 4800) \div 5000,
                                    ADDITIONAL_COLD_STORAGE_ACCESS)

Int16(x) == ((x + 2 ^ 15) % 2 ^ 16) - 2 ^ 15

(* SSTORE_COSTS.                                                           *)
StoreCost(gas_cost, gas_refund) == [gas_cost |-> Int16(gas_cost), gas_refund |-> Int16(gas_refund)]

LegacyCosts(c, status) ==
    CASE status \in {"ADDED", "DELETED_ADDED", "DELETED_RESTORED"} -> StoreCost(c.set, 0)
      [] status \in {"DELETED", "MODIFIED_DELETED", "ADDED_DELETED"} -> StoreCost(c.reset, c.clear)
      [] status \in {"MODIFIED", "ASSIGNED", "MODIFIED_RESTORED"} -> StoreCost(c.reset, 0)

\* Wrong variant: the refund of a deletion is not taken back.
BugNetCosts(c, status) ==
    CASE status = "ADDED"    -> StoreCost(c.set, 0)
      [] status = "DELETED"  -> StoreCost(c.reset, c.clear)
      [] status = "MODIFIED" -> StoreCost(c.reset, 0)
      [] status = "MODIFIED_DELETED"  -> StoreCost(c.warm_access, c.clear)
      [] status = "ADDED_DELETED"     -> StoreCost(c.warm_access, c.set - c.warm_access)
      [] status \in {"DELETED_RESTORED", "MODIFIED_RESTORED"} ->
            StoreCost(c.warm_access, c.reset - c.warm_access)
      [] status \in {"ASSIGNED", "DELETED_ADDED"} -> StoreCost(c.warm_access, 0)

NetCosts(c, status) ==
    CASE status = "ASSIGNED" -> StoreCost(c.warm_access, 0)
      [] status = "ADDED"    -> StoreCost(c.set, 0)
      [] status = "DELETED"  -> StoreCost(c.reset, c.clear)
      [] status = "MODIFIED" -> StoreCost(c.reset, 0)
      [] status = "DELETED_ADDED"     -> StoreCost(c.warm_access, -c.clear)
      [] status = "MODIFIED_DELETED"  -> StoreCost(c.warm_access, c.clear)
      [] status = "DELETED_RESTORED"  -> StoreCost(c.warm_access, c.reset - c.warm_access - c.clear)
      [] status = "ADDED_DELETED"     -> StoreCost(c.warm_access, c.set - c.warm_access)
      [] status = "MODIFIED_RESTORED" -> StoreCost(c.warm_access, c.reset - c.warm_access)

SstoreCosts(r, status) ==
    LET c == StorageCostSpec(r) IN IF c.net_cost THEN NetCosts(c, status) ELSE LegacyCosts(c, status)

-----------------------------------------------------------------------------
(* The status of Host::set_storage() (host.cpp).                           *)
SetStorageStatus(original, current, value) ==
    LET dirty == original # current
        restored == original = value
    IN  CASE ~dirty /\ ~restored /\ current = 0 -> "ADDED"
          [] ~dirty /\ ~restored /\ current # 0 /\ value = 0 -> "DELETED"
          [] ~dirty /\ ~restored /\ current # 0 /\ value # 0 -> "MODIFIED"
          [] dirty /\ ~restored /\ current = 0 /\ value # 0 -> "DELETED_ADDED"
          [] dirty /\ ~restored /\ current # 0 /\ value = 0 -> "MODIFIED_DELETED"
          [] dirty /\ restored /\ current = 0 -> "DELETED_RESTORED"
          [] dirty /\ restored /\ current # 0 /\ value = 0 -> "ADDED_DELETED"
          [] dirty /\ restored /\ current # 0 /\ value # 0 -> "MODIFIED_RESTORED"
          [] OTHER -> "ASSIGNED"

(* The status of MockedHost::set_storage() (mocked_host.hpp), by the       *)
(* clauses of EIP-2200 that are triggered.                                 *)
MockedStatus(original, current, value) ==
    LET clauses ==
            {c \in {"RemoveClearsSchedule"} : original # 0 /\ current = 0}
              \union {c \in {"AddClearsSchedule"} : original # 0 /\ value = 0}
              \union {c \in {"RestoredBySet"} : original = value /\ original = 0}
              \union {c \in {"RestoredByReset"} : original = value /\ original # 0}
    IN  IF current = value THEN "ASSIGNED"
        ELSE IF original = current
        THEN IF original = 0 THEN "ADDED" ELSE IF value = 0 THEN "DELETED" ELSE "MODIFIED"
        ELSE CASE clauses = {"RemoveClearsSchedule"} -> "DELETED_ADDED"
               [] clauses = {"AddClearsSchedule"} -> "MODIFIED_DELETED"
               [] clauses = {"RemoveClearsSchedule", "RestoredByReset"} -> "DELETED_RESTORED"
               [] clauses = {"RestoredBySet"} -> "ADDED_DELETED"
               [] clauses = {"RestoredByReset"} -> "MODIFIED_RESTORED"
               [] clauses = {} -> "ASSIGNED"

-----------------------------------------------------------------------------
Top == frames[Len(frames)]
Rest == SubSeq(frames, 1, Len(frames) - 1)
Total(field) == FoldFunction(LAMBDA f, n : f[field] + n, 0, frames)

(* stores and spent: history, the SSTOREs done and what they have cost.    *)
NewFrame(gas, state_gas, static) ==
    [gas_left |-> gas, gas_refund |-> 0, state_gas |-> state_gas, static |-> static,
     snapshot |-> slot, stores |-> 0, spent |-> 0]

(* A transaction starts with the slot as it is in the state.               *)
StorageInit ==
    /\ rev \in CostRevisions
    /\ slot \in {[original |-> w, current |-> w, access |-> "cold"] : w \in Words}
    /\ frames = <<NewFrame(TxGas, StateGasUnits * STORAGE_SET_STATE_GAS, FALSE)>>
    /\ calls = 0

(* The running call fails; a revert gives back what is left of its gas.    *)
FailFrame(gas) ==
    /\ slot' = Top.snapshot
    /\ frames' = IF Rest = <<>> THEN <<>> ELSE [Rest EXCEPT ![Len(Rest)].gas_left = @ + gas]

IsCold == rev >= BERLIN /\ slot.access = "cold"

Sload ==
    /\ frames # <<>> /\ IsCold
    /\ LET gas == Top.gas_left - ADDITIONAL_COLD_STORAGE_ACCESS
       IN  IF gas < 0 THEN FailFrame(0)
           ELSE /\ slot' = [slot EXCEPT !.access = "sload"]
                /\ frames' = [frames EXCEPT ![Len(frames)].gas_left = gas]
    /\ UNCHANGED <<rev, calls>>

(* set_storage() comes before the gas is checked: the failing call undoes  *)
(* it.  The state gas is charged or refilled only after that check.        *)
Sstore(value) ==
    /\ frames # <<>>
    /\ Total("stores") < MaxStores
    /\ LET status == SetStorageStatus(slot.original, slot.current, value)
           costs == SstoreCosts(rev, status)
           gas_cost == costs.gas_cost + (IF IsCold THEN StorageCostSpec(rev).cold ELSE 0)
           state_gas == Top.state_gas +
               (IF rev < AMSTERDAM THEN 0
                ELSE IF status = "ADDED_DELETED" THEN STORAGE_SET_STATE_GAS
                ELSE IF status = "ADDED" THEN -STORAGE_SET_STATE_GAS ELSE 0)
       IN  IF \/ Top.static
              \/ rev >= ISTANBUL /\ Top.gas_left <= CALL_STIPEND
              \/ Top.gas_left < gas_cost
              \/ state_gas < 0
           THEN FailFrame(0)
           ELSE /\ slot' = [slot EXCEPT !.current = value, !.access = IF IsCold THEN "sstore" ELSE @]
                /\ frames' = [frames EXCEPT ![Len(frames)].gas_left = @ - gas_cost,
                                            ![Len(frames)].state_gas = state_gas,
                                            ![Len(frames)].gas_refund = @ + costs.gas_refund,
                                            ![Len(frames)].stores = @ + 1,
                                            ![Len(frames)].spent = @ + gas_cost]
    /\ UNCHANGED <<rev, calls>>

(* A call gets its gas and the state gas of its caller.                    *)
StorageCall(gas, static) ==
    /\ frames # <<>> /\ calls < MaxCalls /\ gas <= Top.gas_left
    /\ frames' = Append([frames EXCEPT ![Len(frames)].gas_left = @ - gas],
                        NewFrame(gas, Top.state_gas, static \/ Top.static))
    /\ calls' = calls + 1
    /\ UNCHANGED <<rev, slot>>

StorageReturn ==
    /\ Len(frames) > 1
    /\ frames' = [Rest EXCEPT ![Len(Rest)].gas_left = @ + Top.gas_left,
                              ![Len(Rest)].gas_refund = @ + Top.gas_refund,
                              ![Len(Rest)].state_gas = Top.state_gas,
                              ![Len(Rest)].stores = @ + Top.stores,
                              ![Len(Rest)].spent = @ + Top.spent]
    /\ UNCHANGED <<rev, slot, calls>>

StorageRevert ==
    /\ Len(frames) > 1
    /\ FailFrame(Top.gas_left)
    /\ UNCHANGED <<rev, calls>>

StorageNext ==
    \/ Sload
    \/ \E value \in Words : Sstore(value)
    \/ \E gas \in CallGas, static \in BOOLEAN : StorageCall(gas, static)
    \/ StorageReturn
    \/ StorageRevert

StorageSpec == StorageInit /\ [][StorageNext]_storageVars

-----------------------------------------------------------------------------
(* Net metering (EIP-2200, EIP-2929, EIP-3529, EIP-8037): whatever the     *)
(* sequence of stores, in whatever calls of which some were undone, and    *)
(* whoever warmed the slot, the stores that stay have cost, less their     *)
(* refunds, a warm access each and once what the change of the slot over   *)
(* the transaction costs.  The counter of refunds never gets below zero,   *)
(* and state gas is taken exactly for a slot that is new.  Both hosts      *)
(* agree on the status of every store, and before Istanbul each store has  *)
(* the price of its own change.                                            *)
SstoreNetCost ==
    LET c == StorageCostSpec(rev)
        o == slot.original
        n == slot.current
        change == IF o = n THEN 0 ELSE (IF o = 0 THEN c.set ELSE c.reset) - c.warm_access
        cleared == IF o # 0 /\ n = 0 THEN c.clear ELSE 0
        cold == IF slot.access = "sstore" THEN c.cold ELSE 0
        state_gas == IF rev >= AMSTERDAM /\ o = 0 /\ n # 0 THEN STORAGE_SET_STATE_GAS ELSE 0
    IN  /\ frames # <<>> =>
             /\ Total("gas_refund") >= 0
             /\ c.net_cost => Total("spent") - Total("gas_refund")
                                = Total("stores") * c.warm_access + cold + change - cleared
             /\ Top.state_gas + state_gas = StateGasUnits * STORAGE_SET_STATE_GAS
        /\ \A v \in Words :
             LET status == SetStorageStatus(o, n, v)
             IN  /\ status = MockedStatus(o, n, v)
                 /\ ~c.net_cost => SstoreCosts(rev, status)
                                     = [gas_cost |-> IF n = 0 /\ v # 0 THEN 20000 ELSE 5000,
                                        gas_refund |-> IF n # 0 /\ v = 0 THEN 15000 ELSE 0]
=============================================================================
