-------------------------- MODULE BlockProperties --------------------------
(***************************************************************************)
(* What makes the transition of a block and its access list correct.       *)
(***************************************************************************)
EXTENDS Block

Content(acc) ==
    [nonce |-> acc.nonce, balance |-> acc.balance, code |-> acc.code,
     storage |-> acc.storage]

(* The access list is complete: the changes it lists up to an index,       *)
(* replayed on the state before the block, give the state after that       *)
(* index, for all accounts and all indices so far.  bal.cpp compares every *)
(* change with the one recorded last, gets two diffs at the last index,    *)
(* and records nothing but the balance of a deleted account: right only if *)
(* "only a created or an empty account is deleted", as it asserts.         *)
BalReplays ==
    Rev >= AMSTERDAM =>
        LET bal == Build(bal_builder)
        IN  \A j \in DOMAIN history, a \in Addr :
                Content(history[j][a])
                  = IF a \in DOMAIN bal THEN ReplayAccount(bal[a], j - 1, state[a])
                    ELSE Content(state[a])

(* The access list is minimal: no change that is none is listed, not even  *)
(* when the withdrawals and the block-end system calls, which share an     *)
(* index, undo each other; and the indices of a field increase, as         *)
(* record() and record_diff() assert.                                      *)
BalMinimal ==
    \A a \in Addr :
        LET data == bal_builder[a]
        IN  /\ Minimal(data.nonce_changes, state[a].nonce)
            /\ Minimal(data.balance_changes, state[a].balance)
            /\ Minimal(data.code_changes, state[a].code)
            /\ \A k \in Key : Minimal(data.storage_writes[k], state[a].storage[k])

(* No dimension of the block's gas is ever used beyond its limit, although *)
(* validate_transaction() checks a transaction against both before it is   *)
(* known how its gas will be split; and every transaction uses some gas,   *)
(* as transition() asserts.                                                *)
BlockGasWithinLimits ==
    /\ block_gas_left \in 0..BlockGasLimit
    /\ block_state_gas_left \in 0..BlockGasLimit
    /\ blob_gas_left \in 0..BlobGasLimit
    /\ \A n \in DOMAIN receipts : receipts[n].gas_used > 0

TotalBalance(view) == MapThenSumSet(LAMBDA a : view[a].balance, Addr)

(* Ether is conserved over the block: the balances change in total by the  *)
(* rewards and withdrawals, less the base fees and blob fees of the        *)
(* accepted transactions; neither refunds nor minimal costs, which differ  *)
(* between sender and block, nor deleted accounts lose or make any.  No    *)
(* balance is overdrawn: the validation of transactions covers all that    *)
(* transition() takes from a sender, gas, blobs and value.                 *)
SupplyAccounted ==
    /\ block_state \in [Addr -> ViewAccount]
    /\ Rev >= AMSTERDAM => TotalBalance(block_state) = TotalBalance(state) + issued

(* A transaction that runs out of gas before its call takes all its        *)
(* authorizations back, several of one authority and created authorities   *)
(* included: it leaves nothing but a nonce and payments.                   *)
AuthorizationsReverted ==
    [][Len(receipts') > Len(receipts) /\ Last(receipts').status = "auth" =>
          \A a \in Addr :
             LET new == block_state'[a]
                 old == block_state[a]
                 n   == IF a = Last(receipts').sender THEN 1 ELSE 0
             IN  /\ new.code = old.code /\ new.storage = old.storage
                 /\ new.nonce = old.nonce + n
                 /\ a \notin {Last(receipts').sender, Coinbase} => new = old]_vars
=============================================================================
