------------------------------ MODULE MCBlock ------------------------------
(***************************************************************************)
(* A small block of Amsterdam: a sender, a system contract that is called  *)
(* at the block start and end and by transactions, an address that may be  *)
(* missing or empty before it is created, delegated or paid, and           *)
(* the coinbase.                                                           *)
(***************************************************************************)
EXTENDS BlockProperties

CONSTANTS eoa, contract, fresh, coinbase, code1, designation, key1

MCAddr == {eoa, contract, fresh, coinbase}

View(exists) ==
    [a \in MCAddr |->
        CASE a = eoa      -> [NoAccount EXCEPT !.exists = TRUE, !.balance = 13]
          [] a = contract -> [NoAccount EXCEPT !.exists = TRUE, !.nonce = 1,
                                !.balance = 1, !.code = code1,
                                !.storage = [k \in Key |-> 1]]
          [] a = fresh    -> [NoAccount EXCEPT !.exists = exists]
          [] OTHER        -> NoAccount]

\* Without nonce and code, but neither empty nor without storage (EIP-7610).
Stored == [View(TRUE) EXCEPT ![fresh].balance = 1, ![fresh].storage = [k \in Key |-> 1]]

MCInitialViews == {View(FALSE), View(TRUE), Stored}

MCDelegate == [c \in {designation} |-> contract]
MCCreateAddress == [p \in {eoa} \X (0..MAX_NONCE) |-> fresh]

Outcome(op) ==
    [op |-> op, key |-> key1, value |-> 0, to |-> fresh, code |-> NoCode, count |-> 0]

MCSystemOutcomes ==
    {Outcome("fail"), [Outcome("sstore") EXCEPT !.value = 0],
     [Outcome("call") EXCEPT !.value = 1]}

MCOutcomes ==
    {Outcome("fail"), [Outcome("auth") EXCEPT !.count = 0],
     [Outcome("auth") EXCEPT !.count = 1], [Outcome("auth") EXCEPT !.count = 2],
     [Outcome("sstore") EXCEPT !.value = 1, !.code = code1],
     [Outcome("call") EXCEPT !.value = 1],
     Outcome("selfdestruct"), [Outcome("selfdestruct") EXCEPT !.to = coinbase]}

Gas(gas_left, left, spilled, refund) ==
    [gas_left |-> gas_left, left |-> left, spilled |-> spilled, refund |-> refund]

MCGasResults ==
    {Gas(0, 0, 0, 0), Gas(1, 0, 1, 1), Gas(0, 3, 0, 0)}

Auth(nonce, code) == [authority |-> fresh, nonce |-> nonce, code |-> code]

Legacy(nonce) ==
    [type |-> "legacy", sender |-> eoa, to |-> contract, nonce |-> nonce,
     gas_limit |-> 3, value |-> 0, max_gas_price |-> 2,
     max_priority_gas_price |-> 2, blobs |-> 0, max_blob_gas_price |-> 0,
     intrinsic |-> 1, min |-> 2, auths |-> << >>]

TransactionsAt(n) ==
    LET tx == Legacy(n)
        set_code == [tx EXCEPT !.type = "set_code", !.max_priority_gas_price = 0]
    IN  {tx,
         [tx EXCEPT !.to = NoAddr, !.value = 1],
         [tx EXCEPT !.to = fresh],
         [tx EXCEPT !.type = "eip1559", !.gas_limit = 6, !.max_priority_gas_price = 0,
                    !.max_gas_price = 1],
         [tx EXCEPT !.type = "blob", !.blobs = 1, !.max_blob_gas_price = 2, !.to = fresh,
                    !.value = 1],
         [set_code EXCEPT !.auths = <<Auth(0, designation), Auth(1, NoCode)>>],
         [set_code EXCEPT !.auths = <<Auth(0, designation)>>, !.to = fresh],
         [set_code EXCEPT !.auths = <<Auth(1, NoCode), Auth(2, designation)>>]}

MCTransactions == UNION {TransactionsAt(n) : n \in 0..2}

MCStorageContracts == <<[since |-> CANCUN, addr |-> contract]>>
MCRequestsContracts == <<[since |-> PRAGUE, addr |-> contract]>>

Finalization(withdrawals) ==
    [reward |-> NoReward, ommers |-> << >>, withdrawals |-> withdrawals]

MCFinalizations ==
    {Finalization(<< >>), Finalization(<<[recipient |-> fresh, amount |-> 1]>>)}
=============================================================================
