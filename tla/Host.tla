-------------------------------- MODULE Host --------------------------------
(***************************************************************************)
(* The class Host (test/state/host.cpp) executing transactions on a State: *)
(* the callbacks the EVM invokes from a running frame, the call and create *)
(* messages that open and close frames, and the transition() that wraps    *)
(* the top-level message (state.cpp).                                      *)
(*                                                                         *)
(* The interpreter is the environment: in a running frame it may invoke    *)
(* any callback with any argument that the instructions of                 *)
(* instructions*.hpp/cpp let through (static mode, balance and nonce       *)
(* checks), and may stop with any outcome after any of them, because it    *)
(* may run out of gas there.  rollback() is taken one journal entry at a   *)
(* time: nothing else is enabled until it is over.                         *)
(*                                                                         *)
(* Not here: EIP-7702 delegations and authorizations, gas.                 *)
(***************************************************************************)
EXTENDS HostMethods

CONSTANTS
    RIPEMD,           \* address 0x03
    Coinbase,         \* m_block.coinbase
    CreateAddress,    \* [<<sender, nonce>> |-> address of the new contract]
    Create2Address,   \* [sender |-> addresses its CREATE2s can compute]
    Transactions,     \* the transactions to choose from
    GasLimit, BaseFee, PriorityFee, \* tx.gas_limit and the gas prices
    MaxNonce,         \* MAX_NONCE
    MaxDepth,         \* the call depth limit
    MaxJournal,       \* bound: journal entries written in one transaction
    MaxLogs,          \* bound: logs of one transaction
    MaxTxs            \* bound: number of transactions

ASSUME RoleAssumption == RIPEMD \in Addr /\ Coinbase \in Addr
ASSUME FeeAssumption  ==
    /\ GasLimit \in Nat \ {0} /\ BaseFee \in Nat /\ PriorityFee \in Nat
    /\ Rev < LONDON => BaseFee = 0

VARIABLES
    state,    \* the State of the transaction in progress
    logs,     \* m_logs: the emitter of each log
    frames,   \* the stack of open Host::call invocations
    tx,       \* the transaction in progress
    phase,    \* "idle" | "call" (in the top-level call) | "returned"
    status,   \* status_code of the last call that returned
    txs       \* number of finished transactions

vars == <<state, logs, frames, tx, phase, status, txs>>

NoTx == [none |-> TRUE]

-----------------------------------------------------------------------------
(* The observable state: what the getters of Host would return for each    *)
(* account, and what build_diff() will look at.                            *)

\* What is observed of an account acc of m_modified, loaded on demand.
Observed(acc, view) ==
    LET seen == IF acc.loaded THEN acc ELSE LoadAccount(acc, view)
    IN  [exists |-> ~seen.nonexistent, nonce |-> seen.nonce,
         balance |-> seen.balance, code |-> seen.code_hash,
         has_code |-> seen.code_hash # NoCode,
         storage |-> [k \in Key |-> IF seen.storage[k].loaded
                                    THEN seen.storage[k].current
                                    ELSE view.storage[k]],
         warm_storage |-> [k \in Key |-> seen.storage[k].warm],
         transient_storage |-> seen.transient_storage,
         warm |-> seen.warm, destructed |-> seen.destructed,
         erase_if_empty |-> seen.erase_if_empty,
         just_created |-> seen.just_created,
         code_changed |-> seen.code_changed]

World(s) == [a \in Addr |-> Observed(s.modified[a], s.initial[a])]

-----------------------------------------------------------------------------
(* Frames: one per open Host::call. *)

Top == frames[Len(frames)]

\* The frame of a call whose checkpoint is taken in state s with logs l.
\* "checkpoint" is a history field: what a failure must restore.
Frame(kind, sender, recipient, exec, static, s, l) ==
    [kind |-> kind, sender |-> sender, recipient |-> recipient, exec |-> exec,
     static |-> static, step |-> "run", ripemd_touched |-> FALSE,
     state_checkpoint |-> Len(s.journal), logs_checkpoint |-> Len(l),
     checkpoint |-> [world |-> World(s), log |-> l]]

\* The interpreter is running the code of the innermost frame.
Running ==
    /\ frames # << >>
    /\ Top.step = "run"
    /\ Top.exec = "code"

Bounded == Len(state.journal) < MaxJournal

\* Host::call of a call message: checkpoint, execute_message() up to the
\* execution of the code found at code_address.
OpenCall(s, kind, sender, recipient, code_address, value, static) ==
    LET s1   == CallEffects(s, kind, sender, recipient, value)
        s2   == IF code_address \in Precompiles THEN s1
                ELSE GetCode(s1, code_address)
        exec == IF code_address \in Precompiles THEN "precompile"
                ELSE IF s2.modified[code_address].code_hash = NoCode THEN "empty"
                ELSE "code"
    IN  /\ state' = s2
        /\ logs' = IF kind = "CALL" THEN EmitTransferLog(logs, sender, recipient, value)
                   ELSE logs
        /\ frames' = Append(frames, Frame(kind, sender, recipient, exec, static, s, logs))

\* Host::call of a create message, the creator's nonce already bumped.
OpenCreate(s, sender, a, value) ==
    LET f == Frame("CREATE", sender, a, "code", FALSE, s, logs)
    IN  IF Collides(s, a)
        THEN /\ state' = Get(s, a)
             /\ frames' = Append(frames, [f EXCEPT !.step = "collision"])
             /\ UNCHANGED logs
        ELSE /\ state' = NewContract(s, sender, a, value)
             /\ frames' = Append(frames, f)
             /\ logs' = EmitTransferLog(logs, sender, a, value)

-----------------------------------------------------------------------------
(* The callbacks of a running frame. *)

\* BALANCE, EXTCODE*, CALL*, SELFDESTRUCT start with access_account().
DoAccessAccount(a) ==
    /\ Running /\ Bounded
    /\ Rev >= BERLIN
    /\ state' = AccessAccount(state, a)
    /\ UNCHANGED <<logs, frames, tx, phase, status, txs>>

\* account_exists(), get_balance(), get_nonce(), get_code_hash(),
\* get_code_size(), copy_code() of any account.
DoReadAccount(a) ==
    /\ Running
    /\ \/ state' = Get(state, a)
       \/ state' = GetCode(state, a)
    /\ UNCHANGED <<logs, frames, tx, phase, status, txs>>

DoAccessStorage(k) ==
    /\ Running /\ Bounded
    /\ Rev >= BERLIN
    /\ state' = AccessStorage(state, Top.recipient, k)
    /\ UNCHANGED <<logs, frames, tx, phase, status, txs>>

DoGetStorage(k) ==
    /\ Running
    /\ Rev >= BERLIN => state.modified[Top.recipient].storage[k].warm
    /\ state' = GetStorage(state, Top.recipient, k)
    /\ UNCHANGED <<logs, frames, tx, phase, status, txs>>

DoSetStorage(k, v) ==
    /\ Running /\ Bounded
    /\ ~Top.static
    /\ LET s == IF Rev >= BERLIN THEN AccessStorage(state, Top.recipient, k)
                ELSE state
       IN  state' = SetStorage(s, Top.recipient, k, v)
    /\ UNCHANGED <<logs, frames, tx, phase, status, txs>>

DoSetTransientStorage(k, v) ==
    /\ Running /\ Bounded
    /\ Rev >= CANCUN /\ ~Top.static
    /\ state' = SetTransientStorage(state, Top.recipient, k, v)
    /\ UNCHANGED <<logs, frames, tx, phase, status, txs>>

DoEmitLog ==
    /\ Running
    /\ ~Top.static
    /\ Len(logs) < MaxLogs
    /\ logs' = Append(logs, Top.recipient)
    /\ UNCHANGED <<state, frames, tx, phase, status, txs>>

\* The "light" failure of a call or create: the balance does not cover value.
CanTransfer(acc, value) == acc.balance >= value

\* call_impl(): CALL, STATICCALL, DELEGATECALL and CALLCODE.
CallKind(op) == IF op = "STATICCALL" THEN "CALL" ELSE op

CallPrologue(s, op, dst, value) ==
    LET s1 == AccessAccount(s, dst)
        s2 == IF Rev >= PRAGUE THEN GetCode(s1, dst) ELSE s1
    IN  IF op = "CALL" /\ (value # 0 \/ Rev < SPURIOUS_DRAGON) THEN Get(s2, dst)
        ELSE s2

DoCall(op, dst, value) ==
    /\ Running /\ Bounded
    /\ Len(frames) <= MaxDepth
    /\ value # 0 => op \in {"CALL", "CALLCODE"}
    /\ op = "CALL" /\ value # 0 => ~Top.static
    /\ op = "DELEGATECALL" => Rev >= HOMESTEAD
    /\ op = "STATICCALL" => Rev >= BYZANTIUM
    /\ CanTransfer(state.modified[Top.recipient], value)
    /\ LET self == Top.recipient
       IN  OpenCall(CallPrologue(state, op, dst, value), CallKind(op),
                    IF op = "DELEGATECALL" THEN Top.sender ELSE self,
                    IF op \in {"CALL", "STATICCALL"} THEN dst ELSE self,
                    dst, value, Top.static \/ op = "STATICCALL")
    /\ UNCHANGED <<tx, phase, status, txs>>

\* create_impl(): CREATE and CREATE2.
CreateTargets(sender, nonce) ==
    (IF <<sender, nonce>> \in DOMAIN CreateAddress
     THEN {CreateAddress[<<sender, nonce>>]} ELSE {})
      \cup
    (IF Rev >= PETERSBURG /\ sender \in DOMAIN Create2Address
     THEN Create2Address[sender] ELSE {})

BumpNonce(s, a) == [JournalBumpNonce(s, a) EXCEPT !.modified[a].nonce = @ + 1]

CreatePrologue(s, sender, a) ==
    LET s1 == AccessAccount(s, a)
        s2 == IF Rev >= AMSTERDAM THEN Get(s1, a) ELSE s1
    IN  BumpNonce(s2, sender)

DoCreate(a, value) ==
    /\ Running /\ Bounded
    /\ Len(frames) <= MaxDepth
    /\ ~Top.static
    /\ LET self == Top.recipient
       IN  /\ CanTransfer(state.modified[self], value)
           /\ state.modified[self].nonce # MaxNonce
           /\ a \in CreateTargets(self, state.modified[self].nonce)
           /\ OpenCreate(CreatePrologue(state, self, a), self, a, value)
    /\ UNCHANGED <<tx, phase, status, txs>>

-----------------------------------------------------------------------------
(* The end of a frame. *)

Pop == frames' = SubSeq(frames, 1, Len(frames) - 1)

PhaseAfterReturn == phase' = IF Len(frames) = 1 THEN "returned" ELSE phase

\* A successful end; create() also stores the deployed code.
Return(code) ==
    /\ frames # << >>
    /\ Top.step = "run"
    /\ code # NoCode => Top.kind = "CREATE"
    /\ state' = IF Top.kind = "CREATE"
                THEN DeployCode(state, Top.recipient, code) ELSE state
    /\ Pop /\ PhaseAfterReturn
    /\ status' = "success"
    /\ UNCHANGED <<logs, tx, txs>>

\* SELFDESTRUCT: the callback, then the frame ends successfully.
DoSelfdestruct(b) ==
    /\ Running /\ Bounded
    /\ ~Top.static
    /\ LET self == Top.recipient
           s1   == AccessAccount(state, b)
           s2   == IF Rev = TANGERINE_WHISTLE
                      \/ (Rev > TANGERINE_WHISTLE
                            /\ state.modified[self].balance # 0)
                   THEN Get(s1, b) ELSE s1
       IN  /\ state' = Selfdestruct(s2, self, b)
           /\ logs' = EmitTransferLog(logs, self, b, state.modified[self].balance)
    /\ Pop /\ PhaseAfterReturn
    /\ status' = "success"
    /\ UNCHANGED <<tx, txs>>

\* Any other status code: Host::call looks at 0x03 and starts rollback().
TouchSurvives == Rev < PARIS /\ Rev >= SPURIOUS_DRAGON

Fail ==
    /\ frames # << >>
    /\ Top.step = "collision" \/ (Top.step = "run" /\ Top.exec # "empty")
    /\ LET s == IF TouchSurvives THEN Get(state, RIPEMD) ELSE state
       IN  /\ state' = s
           /\ frames' = [frames EXCEPT ![Len(frames)] =
                 [@ EXCEPT !.step = "rollback",
                           !.ripemd_touched =
                               TouchSurvives /\ s.modified[RIPEMD].erase_if_empty]]
    /\ UNCHANGED <<logs, tx, phase, status, txs>>

RollingBack == frames # << >> /\ Top.step = "rollback"

Rollback ==
    /\ RollingBack
    /\ Len(state.journal) > Top.state_checkpoint
    /\ state' = UndoLast(state)
    /\ UNCHANGED <<logs, frames, tx, phase, status, txs>>

\* Wrong variant: 0x03 is looked at after the rollback.
BugFailReturn ==
    /\ RollingBack
    /\ Len(state.journal) = Top.state_checkpoint
    /\ state' = IF TouchSurvives /\ state.modified[RIPEMD].erase_if_empty
                THEN Touch(state, RIPEMD) ELSE state
    /\ logs' = SubSeq(logs, 1, Top.logs_checkpoint)
    /\ Pop /\ PhaseAfterReturn
    /\ status' = "failure"
    /\ UNCHANGED <<tx, txs>>

FailReturn ==
    /\ RollingBack
    /\ Len(state.journal) = Top.state_checkpoint
    /\ state' = IF Top.ripemd_touched THEN Touch(state, RIPEMD) ELSE state
    /\ logs' = SubSeq(logs, 1, Top.logs_checkpoint)
    /\ Pop /\ PhaseAfterReturn
    /\ status' = "failure"
    /\ UNCHANGED <<tx, txs>>

-----------------------------------------------------------------------------
(* transition(): buys the gas, warms the accounts known in advance, runs   *)
(* the top-level message, settles the gas and emits the state diff.        *)

GasPrice == BaseFee + PriorityFee

TxRecipient(t) ==
    IF t.to \in Addr THEN t.to
    ELSE CreateAddress[<<t.sender, state.initial[t.sender].nonce>>]

\* validate_transaction(), as far as this model is concerned.
TxValid(t) ==
    LET sender == state.initial[t.sender]
    IN  /\ sender.nonce < MaxNonce
        /\ sender.code = NoCode
        /\ sender.balance >= GasLimit * GasPrice + t.value
        /\ t.to \in Addr \/ <<t.sender, sender.nonce>> \in DOMAIN CreateAddress
        /\ t.access_list # {} => Rev >= BERLIN

WarmStorage(s, keys) ==
    LET Warmed(a, k) == LET slot == s.modified[a].storage[k]
                        IN  IF <<a, k>> \in keys THEN [slot EXCEPT !.warm = TRUE]
                            ELSE slot
        accounts == [a \in Addr |-> [s.modified[a] EXCEPT
                                       !.storage = [k \in Key |-> Warmed(a, k)]]]
    IN  [s EXCEPT !.modified = accounts]

BuyGas(s, sender) ==
    LET s1  == GetOrInsert(s, sender)
        acc == s1.modified[sender]
    IN  [s1 EXCEPT !.modified[sender] =
            [acc EXCEPT !.nonce = acc.nonce + 1,
                        !.balance = acc.balance - GasLimit * GasPrice,
                        !.warm = TRUE]]

\* The access list of a transaction has at most one address here.
WarmAccessList(s, t) ==
    LET s1 == IF \E a \in Addr : t.access_list = {a}
              THEN AccessAccount(s, CHOOSE a \in Addr : t.access_list = {a})
              ELSE s
    IN  WarmStorage(s1, (t.access_list \ Precompiles) \X Key)

TxPrologue(t) ==
    LET s1 == AccessAccount(BuyGas(state, t.sender), TxRecipient(t))
        s2 == WarmAccessList(s1, t)
        s3 == IF Rev >= SHANGHAI THEN AccessAccount(s2, Coinbase) ELSE s2
    IN  \* prepare_call of process_top_level() looks the recipient up
        IF t.to \in Addr THEN GetCode(s3, t.to)
        ELSE IF Rev >= AMSTERDAM THEN Get(s3, TxRecipient(t)) ELSE s3

Begin(t) ==
    /\ phase = "idle"
    /\ txs < MaxTxs
    /\ TxValid(t)
    /\ IF t.to \in Addr
       THEN OpenCall(TxPrologue(t), "CALL", t.sender, t.to, t.to, t.value, FALSE)
       ELSE OpenCreate(TxPrologue(t), t.sender, TxRecipient(t), t.value)
    /\ tx' = t /\ phase' = "call" /\ status' = "none"
    /\ UNCHANGED txs

\* From Amsterdam a transaction may run out of gas before the call.
BeginOutOfGas(t) ==
    /\ phase = "idle"
    /\ txs < MaxTxs
    /\ TxValid(t)
    /\ Rev >= AMSTERDAM
    /\ state' = TxPrologue(t)
    /\ tx' = t /\ phase' = "returned" /\ status' = "none"
    /\ UNCHANGED <<logs, frames, txs>>

\* Wrong variant: the coinbase gets the base fee too.
BugSettle(s, sender, gas_used) ==
    LET s1 == [s EXCEPT !.modified[sender].balance =
                           @ + (GasLimit - gas_used) * GasPrice]
    IN  [Touch(s1, Coinbase) EXCEPT !.modified[Coinbase].balance =
                                       @ + gas_used * GasPrice]

Settle(s, sender, gas_used) ==
    LET s1 == [s EXCEPT !.modified[sender].balance =
                           @ + (GasLimit - gas_used) * GasPrice]
    IN  [Touch(s1, Coinbase) EXCEPT !.modified[Coinbase].balance =
                                       @ + gas_used * PriorityFee]

Finish(gas_used) ==
    /\ phase = "returned"
    /\ LET s == Settle(state, tx.sender, gas_used)
       IN  state' = NewState(ApplyDiff(s.initial, BuildDiff(s, Rev)))
    /\ logs' = << >> /\ frames' = << >>
    /\ tx' = NoTx /\ phase' = "idle" /\ status' = "none" /\ txs' = txs + 1

\* Between transactions the host may stay idle for ever.
Idle == phase = "idle" /\ UNCHANGED vars

-----------------------------------------------------------------------------
CallOps == {"CALL", "STATICCALL", "DELEGATECALL", "CALLCODE"}

CONSTANTS
    Values,    \* the call and endowment values to choose from
    Ops        \* the instructions the programs of this instance use

Callback ==
    \/ /\ "BALANCE" \in Ops
       /\ \E a \in Addr : DoAccessAccount(a) \/ DoReadAccount(a)
    \/ /\ "SLOAD" \in Ops
       /\ \E k \in Key : DoAccessStorage(k) \/ DoGetStorage(k)
    \/ "SSTORE" \in Ops /\ \E k \in Key, v \in Val : DoSetStorage(k, v)
    \/ "TSTORE" \in Ops /\ \E k \in Key, v \in Val : DoSetTransientStorage(k, v)
    \/ "LOG" \in Ops /\ DoEmitLog
    \/ \E op \in CallOps \cap Ops, dst \in Addr, value \in Values : DoCall(op, dst, value)
    \/ "CREATE" \in Ops /\ \E a \in Addr, value \in Values : DoCreate(a, value)
    \/ "SELFDESTRUCT" \in Ops /\ \E b \in Addr : DoSelfdestruct(b)

Next ==
    \/ \E t \in Transactions : Begin(t) \/ BeginOutOfGas(t)
    \/ Callback
    \/ \E code \in Codes : Return(code)
    \/ Fail \/ Rollback \/ FailReturn
    \/ \E gas_used \in 1..GasLimit : Finish(gas_used)
    \/ Idle

\* The initial state views the program may start from are given by the model.
CONSTANT InitialViews

\* Values and balances are unsigned; a missing account of a view is empty.
ASSUME InputAssumption ==
    /\ Values \subseteq Nat
    /\ \A t \in Transactions : t.sender \in Addr /\ t.value \in Nat
    /\ InitialViews \subseteq [Addr -> ViewAccount]
    /\ \A view \in InitialViews, a \in Addr : ~view[a].exists => view[a] = NoAccount

\* The address of a CREATE is a hash of sender and nonce.  Before Spurious
\* Dragon, which gave new contracts a nonce, nothing but its being free of
\* collisions keeps a contract without code from being created twice.
ASSUME AddressAssumption ==
    /\ DOMAIN CreateAddress \subseteq Addr \X Nat
    /\ \A p \in DOMAIN CreateAddress : CreateAddress[p] \in Addr
    /\ \A a \in DOMAIN Create2Address : Create2Address[a] \subseteq Addr
    /\ Rev < SPURIOUS_DRAGON =>
         \A p, q \in DOMAIN CreateAddress : CreateAddress[p] = CreateAddress[q] => p = q

Init ==
    /\ \E view \in InitialViews : state = NewState(view)
    /\ logs = << >> /\ frames = << >>
    /\ tx = NoTx /\ phase = "idle" /\ status = "none" /\ txs = 0

Spec == Init /\ [][Next]_vars
=============================================================================
