------------------------------- MODULE MCHost -------------------------------
(***************************************************************************)
(* Small instances of Host: an account that sends transactions, a contract *)
(* with code and storage, an address that does not exist yet and the       *)
(* RIPEMD-160 precompile.                                                  *)
(***************************************************************************)
EXTENDS HostProperties, TLC

CONSTANTS eoa, contract, fresh, ripemd, code1, key1

MCAddr == {eoa, contract, fresh, ripemd}

Missing == [exists |-> FALSE, nonce |-> 0, balance |-> 0, code |-> NoCode,
            storage |-> [k \in Key |-> 0]]

\* The contract has code and a used slot; the fresh address may be prefunded.
View(prefund) ==
    [a \in MCAddr |->
        CASE a = eoa      -> [Missing EXCEPT !.exists = TRUE, !.balance = 4]
          [] a = contract -> [Missing EXCEPT !.exists = TRUE, !.nonce = 1,
                                             !.balance = 1, !.code = code1,
                                             !.storage = [k \in Key |-> 1]]
          [] a = fresh    -> IF prefund THEN [Missing EXCEPT !.exists = TRUE, !.balance = 1]
                             ELSE Missing
          [] OTHER        -> Missing]

\* ... and 0x03 may exist though it is empty.
Empty03 == [View(FALSE) EXCEPT ![ripemd].exists = TRUE]

MCViews == {View(FALSE), View(TRUE), Empty03}
MCViewsPlain == {View(FALSE)}

\* The contract's CREATEs: nonce 1 gives the fresh address.
MCCreateAddress == (<<contract, 1>> :> fresh) @@ (<<eoa, 0>> :> fresh)
MCCreate2Address == contract :> {fresh}

Tx(to, value, list) ==
    [sender |-> eoa, to |-> to, value |-> value, access_list |-> list]

MCTransactions == {Tx(contract, 0, {}), Tx("create", 1, {}), Tx(contract, 1, {fresh}), Tx(ripemd, 0, {})}
MCTransactionsPlain == {Tx(contract, 0, {})}
=============================================================================
