------------------------------- MODULE Block -------------------------------
(***************************************************************************)
(* The transition of a block: apply_block() of                             *)
(* test/utils/block_transition.cpp, with the system calls of               *)
(* system_contracts.cpp and finalize() of state.cpp.                       *)
(*                                                                         *)
(* Every step of the block is a diff of the state it starts from, which is *)
(* recorded in the access list at the step's index and applied: index 0    *)
(* for the system calls at the block start, i for transaction i whether it *)
(* is rejected or not, and one more for the withdrawals and the system     *)
(* calls at the block end together.                                        *)
(***************************************************************************)
EXTENDS Transaction, AccessList

CONSTANTS
    BlockGasLimit,              \* block.gas_limit
    BlobGasLimit,               \* blob_gas_limit
    STORAGE_SYSTEM_CONTRACTS,   \* sequences of [since, addr], by revision
    REQUESTS_SYSTEM_CONTRACTS,
    SystemOutcomes,             \* the outcomes of system calls to choose from
    Transactions,               \* the transactions to choose from
    Finalizations,              \* the rewards and withdrawals to choose from
    InitialViews,               \* the states before the block to choose from
    NoReward,                   \* block_reward without a value
    MaxTxs                      \* bound: transactions in the block

ASSUME LimitAssumption == BlockGasLimit \in Nat /\ BlobGasLimit \in Nat

\* The types of Transaction and TransactionReceipt, the base cost of 21000
\* in compute_tx_intrinsic_cost(), and blobs only in blob transactions.
ASSUME TransactionAssumption ==
    /\ GAS_PER_BLOB \in Nat
    /\ \A t \in Transactions :
          /\ t.gas_limit \in Nat /\ t.min \in Nat
          /\ t.intrinsic \in Nat /\ t.intrinsic > 0
          /\ t.blobs \in Nat /\ (t.type # "blob" => t.blobs = 0)
    /\ \A r \in GasResults :
          /\ r.gas_left \in Nat /\ r.left \in Nat
          /\ r.spilled \in Nat /\ r.refund \in Nat

\* The rest of the types of Transaction; an address to create.
ASSUME MessageAssumption ==
    \A t \in Transactions :
        /\ t.sender \in Addr /\ t.to \in Addr \cup {NoAddr}
        /\ t.to = NoAddr => CreateAddress[<<t.sender, t.nonce>>] \in Addr
        /\ t.value \in Nat /\ t.max_gas_price \in Nat
        /\ t.max_priority_gas_price \in Nat /\ t.max_blob_gas_price \in Nat
        /\ t.auths \in Seq([authority : Addr \cup {NoAddr}, nonce : Nat, code : Codes])

\* A missing account holds nothing, and an empty one has no storage: bal.cpp
\* asserts that "only a created or an empty account is deleted".
ASSUME ViewAssumption ==
    \A view \in InitialViews :
        /\ view \in [Addr -> ViewAccount]
        /\ \A a \in Addr :
              /\ ~view[a].exists => view[a] = NoAccount
              /\ view[a].nonce = 0 /\ view[a].code = NoCode /\ view[a].balance = 0 =>
                    \A k \in Key : view[a].storage[k] = 0

\* Withdrawals, rewards and ommers, with the assertion of finalize().
ASSUME FinalizationAssumption ==
    \A f \in Finalizations :
        /\ f.reward \in Nat \cup {NoReward}
        /\ f.ommers \in Seq([beneficiary : Addr, delta : 1..7])
        /\ f.withdrawals \in Seq([recipient : Addr, amount : Nat])

\* System calls carry no authorizations.
ASSUME SystemAssumption ==
    /\ \A o \in SystemOutcomes : OutcomeType(o) /\ o.op # "auth"
    /\ \A contracts \in {STORAGE_SYSTEM_CONTRACTS, REQUESTS_SYSTEM_CONTRACTS} :
          contracts \in Seq([since : Nat, addr : Addr])

ASSUME OrderAssumption ==
    \A contracts \in {STORAGE_SYSTEM_CONTRACTS, REQUESTS_SYSTEM_CONTRACTS} :
        \A i, j \in DOMAIN contracts : i < j => contracts[i].since <= contracts[j].since

VARIABLES
    state,                  \* the state before the block
    block_state,            \* the state so far
    bal_builder,
    block_gas_left, block_state_gas_left, blob_gas_left,
    receipts,               \* of the accepted transactions
    count,                  \* transactions so far, rejected ones included
    requests,               \* the requests collected, by their contracts
    requests_error,
    phase,                  \* "start" | "txs" | "end" | "done"
    skip_system_calls,      \* opts.skip_system_calls
    history,                \* history: the states after the indices so far
    issued                  \* history: ether issued less ether burnt

vars == <<state, block_state, bal_builder, block_gas_left, block_state_gas_left,
          blob_gas_left, receipts, count, requests, requests_error, phase,
          skip_system_calls, history, issued>>

\* The lambda of apply_block(): a diff is recorded and applied.
Apply(index, diff) ==
    /\ bal_builder' = IF Rev >= AMSTERDAM
                      THEN RecordDiff(bal_builder, index, diff, state) ELSE bal_builder
    /\ block_state' = ApplyDiff(block_state, diff)

-----------------------------------------------------------------------------
(* System calls: the code of the contract is run without a call message,   *)
(* so its account is not touched.                                          *)

\* The contracts of the revision: the first one of a later revision ends the
\* loop, as they are ordered.
Active(contracts) ==
    LET later == {i \in DOMAIN contracts : Rev < contracts[i].since}
    IN  IF later = {} THEN contracts ELSE SubSeq(contracts, 1, Min(later) - 1)

\* execute_system_call() and the rollback after a failure.
ExecuteSystemCall(s, addr, o) ==
    IF o.op = "fail" THEN GetStorage(s, addr, o.key) ELSE RunCode(s, addr, o)

\* A contract without code is skipped.
CallAtStart(s, x) ==
    LET s1 == GetCode(s, x.addr)
    IN  IF s1.modified[x.addr].code = NoCode THEN s1
        ELSE ExecuteSystemCall(s1, x.addr, x.outcome)

\* A contract without code, or a failed call, makes the block invalid.
CallAtEnd(p, x) ==
    LET s == GetCode(p.state, x.addr)
    IN  IF ~p.ok \/ s.modified[x.addr].code = NoCode \/ x.outcome.op = "fail"
        THEN [p EXCEPT !.ok = FALSE]
        ELSE [p EXCEPT !.state = ExecuteSystemCall(s, x.addr, x.outcome)]

\* The calls to the active contracts with an outcome each.
Calls(contracts, outcomes) ==
    [i \in DOMAIN Active(contracts) |->
        [addr |-> Active(contracts)[i].addr, outcome |-> outcomes[i]]]

\* system_call_block_start(), as the first step of the block.
SystemCallBlockStart(outcomes) ==
    LET s == FoldLeft(CallAtStart, NewState(block_state),
                      Calls(STORAGE_SYSTEM_CONTRACTS, outcomes))
    IN  /\ phase = "start"
        /\ IF skip_system_calls THEN UNCHANGED <<bal_builder, block_state>>
           ELSE Apply(0, BuildDiff(s, Rev))
        /\ phase' = "txs"
        /\ history' = <<block_state'>>
        /\ UNCHANGED <<state, block_gas_left, block_state_gas_left, blob_gas_left,
                       receipts, count, requests, requests_error,
                       skip_system_calls, issued>>

-----------------------------------------------------------------------------
(* The transactions. *)

Accepted(t) ==
    ValidateTransaction(block_state, t, block_gas_left, block_state_gas_left,
                        blob_gas_left)

\* A rejected transaction uses up an index.
RejectTransaction(t) ==
    /\ phase = "txs"
    /\ count < MaxTxs
    /\ ~Accepted(t)
    /\ count' = count + 1
    /\ history' = Append(history, block_state)
    /\ UNCHANGED <<state, block_state, bal_builder, block_gas_left,
                   block_state_gas_left, blob_gas_left, receipts, requests,
                   requests_error, phase, skip_system_calls, issued>>

\* Transaction t is executed with outcome o and gas result r.
ExecuteTransaction(t, o, r) ==
    LET receipt == Receipt(t, r)
    IN  /\ phase = "txs"
        /\ count < MaxTxs
        /\ Accepted(t)
        /\ CanReturn(t, o, r)
        /\ CanEnd(BuyGas(NewState(block_state), t), t, o)
        /\ Apply(count + 1, Transition(block_state, t, o, r))
        /\ receipts' = Append(receipts,
              [sender |-> t.sender, status |-> o.op, gas_used |-> receipt.gas_used,
               cumulative_gas_used |-> receipt.gas_used +
                  (IF receipts = << >> THEN 0 ELSE Last(receipts).cumulative_gas_used)])
        /\ block_gas_left' =
              block_gas_left - (receipt.block_gas_used - receipt.state_gas_used)
        /\ block_state_gas_left' = block_state_gas_left - receipt.state_gas_used
        /\ blob_gas_left' = blob_gas_left - BlobGasUsed(t)
        /\ count' = count + 1
        /\ history' = Append(history, block_state')
        /\ issued' = issued - receipt.gas_used * BaseFee - BlobGasUsed(t) * BlobBaseFee
        /\ UNCHANGED <<state, requests, requests_error, phase, skip_system_calls>>

-----------------------------------------------------------------------------
(* The end of the block. *)

Credit(s, a, amount) ==
    [Touch(s, a) EXCEPT !.modified[a].balance = @ + amount]

Rewards(f) ==
    IF f.reward = NoReward THEN << >>
    ELSE <<[recipient |-> Coinbase,
            amount |-> f.reward + (f.reward \div 32) * Len(f.ommers)]>>
         \o [i \in DOMAIN f.ommers |->
               [recipient |-> f.ommers[i].beneficiary,
                amount |-> (f.reward \div 8) * (8 - f.ommers[i].delta)]]

\* finalize(): the rewards, then the withdrawals.
FinalizeDiff(credits) ==
    BuildDiff(FoldLeft(LAMBDA s, w : Credit(s, w.recipient, w.amount),
                       NewState(block_state), credits), Rev)

Finalize(f) ==
    LET credits == Rewards(f) \o f.withdrawals
    IN  /\ phase = "txs"
        /\ Apply(count + 1, FinalizeDiff(credits))
        /\ phase' = IF skip_system_calls THEN "done" ELSE "end"
        /\ history' = Append(history, block_state')
        /\ issued' = issued + FoldLeft(LAMBDA n, w : n + w.amount, 0, credits)
        /\ UNCHANGED <<state, block_gas_left, block_state_gas_left, blob_gas_left,
                       receipts, count, requests, requests_error, skip_system_calls>>

\* The requests: the deposits, whose logs may be malformed, then the calls
\* of system_call_block_end(), applied only if all of them succeed.
SystemCallBlockEnd(deposits, outcomes) ==
    LET calls == Calls(REQUESTS_SYSTEM_CONTRACTS, outcomes)
        p     == FoldLeft(CallAtEnd, [state |-> NewState(block_state), ok |-> deposits],
                          calls)
    IN  /\ phase = "end"
        /\ ~deposits => Rev >= PRAGUE /\ receipts # << >>
        /\ IF p.ok THEN Apply(count + 1, BuildDiff(p.state, Rev))
           ELSE UNCHANGED <<bal_builder, block_state>>
        /\ requests_error' = ~p.ok
        /\ requests' = (IF Rev >= PRAGUE /\ deposits THEN <<"deposit">> ELSE << >>)
                         \o (IF p.ok THEN [i \in DOMAIN calls |-> calls[i].addr] ELSE << >>)
        /\ phase' = "done"
        /\ history' = [history EXCEPT ![Len(history)] = block_state']
        /\ UNCHANGED <<state, block_gas_left, block_state_gas_left, blob_gas_left,
                       receipts, count, skip_system_calls, issued>>

\* The result is returned.
Done == phase = "done" /\ UNCHANGED vars

-----------------------------------------------------------------------------
Init ==
    /\ state \in InitialViews
    /\ block_state = state
    /\ bal_builder = NewBuilder
    /\ block_gas_left = BlockGasLimit
    /\ block_state_gas_left = BlockGasLimit
    /\ blob_gas_left = BlobGasLimit
    /\ receipts = << >> /\ count = 0
    /\ requests = << >> /\ requests_error = FALSE
    /\ phase = "start"
    /\ skip_system_calls \in BOOLEAN
    /\ history = << >> /\ issued = 0

SystemOutcomeLists(contracts) == [DOMAIN Active(contracts) -> SystemOutcomes]

Next ==
    \/ \E outcomes \in SystemOutcomeLists(STORAGE_SYSTEM_CONTRACTS) :
          SystemCallBlockStart(outcomes)
    \/ \E t \in Transactions : RejectTransaction(t)
    \/ \E t \in Transactions, o \in Outcomes, r \in GasResults : ExecuteTransaction(t, o, r)
    \/ \E f \in Finalizations : Finalize(f)
    \/ \E deposits \in BOOLEAN,
          outcomes \in SystemOutcomeLists(REQUESTS_SYSTEM_CONTRACTS) :
          SystemCallBlockEnd(deposits, outcomes)
    \/ Done

Spec == Init /\ [][Next]_vars
=============================================================================
