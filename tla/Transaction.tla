---------------------------- MODULE Transaction ----------------------------
(***************************************************************************)
(* A transaction from its validation to its state diff, in one step        *)
(* (test/state/state.cpp): validate_transaction(),                         *)
(* process_authorization_list(), process_top_level() and transition().     *)
(*                                                                         *)
(* What the EVM does in between is the environment: the top-level call     *)
(* ends with one of the outcomes below, each a composition of the methods  *)
(* of Host (any nesting of calls and rollbacks is in Host.tla), and with   *)
(* any gas that StateGas.tla shows possible.  Access statuses leave no     *)
(* trace in a diff and are not set here.                                   *)
(*                                                                         *)
(* A transaction's intrinsic and minimal cost (compute_tx_intrinsic_cost)  *)
(* are fields of it.  Its chain id, blob hash versions and initcode size,  *)
(* which are validated without any state, are taken to be valid.           *)
(***************************************************************************)
EXTENDS HostMethods, SequencesExt

CONSTANTS
    NoAddr,            \* tx.to of a create, authority that is not recovered
    Coinbase,          \* block.coinbase
    BaseFee,           \* block.base_fee
    BlobBaseFee,       \* block.blob_base_fee
    GAS_PER_BLOB,
    MAX_TX_BLOB_COUNT,
    MAX_TX_GAS_LIMIT,
    MAX_TX_TOTAL_GAS_LIMIT,
    MAX_NONCE,
    Delegate,          \* [code |-> address] of the delegation designations
    CreateAddress,     \* [<<sender, nonce>> |-> address of the new contract]
    Outcomes,          \* the outcomes of top-level calls to choose from
    GasResults         \* the gas results to choose from

ASSUME BlockInfoAssumption ==
    /\ Coinbase \in Addr /\ NoAddr \notin Addr
    /\ BaseFee \in Nat /\ BlobBaseFee \in Nat
    /\ Rev < LONDON => BaseFee = 0
    /\ MAX_TX_GAS_LIMIT \in Nat /\ MAX_NONCE \in Nat
ASSUME DelegateAssumption ==
    DOMAIN Delegate \subseteq Code /\ \A c \in DOMAIN Delegate : Delegate[c] \in Addr

\* The types of what a call has done, and of what it ends with.
OutcomeType(o) ==
    /\ o.op \in {"stop", "sload", "sstore", "call", "selfdestruct", "fail", "auth"}
    /\ o.key \in Key /\ o.value \in Nat /\ o.to \in Addr
    /\ o.code \in Codes /\ o.count \in Nat
    /\ o.op = "sstore" => o.value \in Val

ASSUME OutcomeAssumption == \A o \in Outcomes : OutcomeType(o)

Least(a, b) == IF a <= b THEN a ELSE b
Greatest(a, b) == IF a >= b THEN a ELSE b

IsCodeDelegated(code) == code \in DOMAIN Delegate

BlobGasUsed(t) == t.blobs * GAS_PER_BLOB

-----------------------------------------------------------------------------
(* validate_transaction(). *)

ValidBlobs(t, blob_gas_left) ==
    /\ Rev >= CANCUN
    /\ t.to # NoAddr
    /\ t.blobs > 0
    /\ Rev >= OSAKA => t.blobs <= MAX_TX_BLOB_COUNT
    /\ t.max_blob_gas_price >= BlobBaseFee
    /\ BlobGasUsed(t) <= blob_gas_left

ValidType(t, blob_gas_left) ==
    /\ t.type = "blob" => ValidBlobs(t, blob_gas_left)
    /\ t.type = "set_code" => Rev >= PRAGUE /\ t.to # NoAddr /\ t.auths # << >>
    /\ t.type \in {"set_code", "blob", "eip1559"} =>
           Rev >= LONDON /\ t.max_priority_gas_price <= t.max_gas_price
    /\ t.type # "legacy" => Rev >= BERLIN

\* Wrong variant: only the execution dimension is checked.
BugFitsBlock(t, block_gas_left, block_state_gas_left) ==
    Least(t.gas_limit, MAX_TX_GAS_LIMIT) <= block_gas_left

\* The gas limit against what is left of the block.
FitsBlock(t, block_gas_left, block_state_gas_left) ==
    IF Rev < AMSTERDAM THEN t.gas_limit <= block_gas_left
    ELSE /\ Least(t.gas_limit, MAX_TX_GAS_LIMIT) <= block_gas_left
         /\ t.gas_limit <= block_state_gas_left

MaxTotalFee(t) ==
    t.gas_limit * t.max_gas_price + t.value
      + (IF t.type = "blob" THEN BlobGasUsed(t) * t.max_blob_gas_price ELSE 0)

ValidSender(sender, t) ==
    /\ sender.code = NoCode \/ IsCodeDelegated(sender.code)
    /\ sender.nonce # MAX_NONCE
    /\ sender.nonce = t.nonce
    /\ sender.balance >= MaxTotalFee(t)

StateGasLimit(t) ==
    IF Rev >= AMSTERDAM THEN Greatest(t.gas_limit - MAX_TX_GAS_LIMIT, 0) ELSE 0

TransactionProperties(t) ==
    [execution_gas_limit |-> t.gas_limit - t.intrinsic - StateGasLimit(t),
     state_gas_limit |-> StateGasLimit(t), min_gas_cost |-> t.min]

ValidateTransaction(view, t, block_gas_left, block_state_gas_left, blob_gas_left) ==
    /\ ValidType(t, blob_gas_left)
    /\ Rev = OSAKA => t.gas_limit <= MAX_TX_GAS_LIMIT
    /\ Rev >= AMSTERDAM => t.gas_limit <= MAX_TX_TOTAL_GAS_LIMIT
    /\ FitsBlock(t, block_gas_left, block_state_gas_left)
    /\ t.max_gas_price >= BaseFee
    /\ ValidSender(view[t.sender], t)
    /\ t.gas_limit - StateGasLimit(t) >= Greatest(t.intrinsic, t.min)

-----------------------------------------------------------------------------
(* process_authorization_list() (EIP-7702), without its costs. *)

\* The authority with its nonce bumped, and its code set or cleared: marked
\* as changed only if it is another one.
SetDelegation(acc, code) ==
    LET bumped == [acc EXCEPT !.nonce = @ + 1]
        old    == IF code = NoCode THEN acc.code_hash ELSE acc.code
    IN  IF old = code THEN bumped
        ELSE [bumped EXCEPT !.code_changed = TRUE, !.code = code, !.code_hash = code]

\* The authority is recovered from the signature and looked up.
LookUpAuthority(s, auth) ==
    IF auth.nonce = MAX_NONCE \/ auth.authority = NoAddr THEN s
    ELSE GetCode(GetOrInsert(s, auth.authority), auth.authority)

\* The authorization is valid for the authority's code and nonce.
Authorized(s, auth) ==
    /\ auth.nonce # MAX_NONCE
    /\ auth.authority # NoAddr
    /\ LET acc == s.modified[auth.authority]
       IN  /\ acc.code_hash = NoCode \/ IsCodeDelegated(acc.code)
           /\ acc.nonce = auth.nonce

\* What initial_code_hash of an applied authorization is when it has none.
NoHash == "none"

ASSUME HashAssumption == NoHash \notin Codes

\* One iteration; p is the state and the list of applied authorizations.
Authorize(p, auth) ==
    LET s   == LookUpAuthority(p.state, auth)
        a   == auth.authority
        acc == s.modified[a]
    IN  IF ~Authorized(s, auth) THEN [p EXCEPT !.state = s]
        ELSE [state   |-> [s EXCEPT !.modified[a] = SetDelegation(acc, auth.code)],
              applied |-> Append(p.applied,
                            [authority |-> a,
                             initial_code_hash |-> IF acc.code_changed THEN NoHash
                                                   ELSE acc.code_hash])]

ProcessAuthorizationList(s, auths) ==
    FoldLeft(Authorize, [state |-> s, applied |-> << >>], auths)

\* Wrong variant: the code hash is left as the authorization has set it.
BugRevertAuthorization(s, x) ==
    [s EXCEPT !.modified[x.authority].nonce = @ - 1,
              !.modified[x.authority].code_changed = FALSE]

\* Out of gas before the call: an applied authorization is taken back.
RevertAuthorization(s, x) ==
    LET s1 == [s EXCEPT !.modified[x.authority].nonce = @ - 1]
    IN  IF x.initial_code_hash = NoHash THEN s1
        ELSE [s1 EXCEPT !.modified[x.authority].code_changed = FALSE,
                        !.modified[x.authority].code_hash = x.initial_code_hash]

-----------------------------------------------------------------------------
(* process_top_level(). *)

Recipient(t) == IF t.to # NoAddr THEN t.to ELSE CreateAddress[<<t.sender, t.nonce>>]

\* The account whose code runs when t calls an account.
CodeAddress(s, t) ==
    LET code == GetCode(s, t.to).modified[t.to].code
    IN  IF IsCodeDelegated(code) THEN Delegate[code] ELSE t.to

\* prepare_call looks the recipient up.
PrepareCall(s, t) ==
    IF t.to # NoAddr THEN GetCode(s, t.to)
    ELSE IF Rev >= AMSTERDAM THEN Get(s, Recipient(t)) ELSE s

\* The code of account a has run: o.op says what it has done before it
\* ended.  The balance of a call's value is checked by the instruction.
RunCode(s, a, o) ==
    CASE o.op = "stop"         -> s
      [] o.op = "sload"        -> GetStorage(s, a, o.key)
      [] o.op = "sstore"       -> SetStorage(s, a, o.key, o.value)
      [] o.op = "call"         ->
            IF s.modified[a].balance >= o.value
            THEN CallEffects(s, "CALL", a, o.to, o.value) ELSE Get(s, o.to)
      [] o.op = "selfdestruct" -> Selfdestruct(s, a, o.to)

\* A message call.  A failure leaves what was loaded; a designation run as
\* code starts with an undefined instruction.
TopLevelCall(s, t, o) ==
    LET code_address == CodeAddress(s, t)
        s1   == GetCode(CallEffects(s, "CALL", t.sender, t.to, t.value), code_address)
        code == s1.modified[code_address].code
    IN  IF code = NoCode THEN s1
        ELSE IF IsCodeDelegated(code) THEN GetCode(s, code_address)
        ELSE IF o.op = "fail" THEN GetStorage(GetCode(s, code_address), t.to, o.key)
        ELSE RunCode(s1, t.to, o)

\* A create: what the initcode does, then the deployment of the code.
TopLevelCreate(s, t, o) ==
    LET a  == Recipient(t)
        s1 == NewContract(s, t.sender, a, t.value)
    IN  IF Collides(s, a) THEN Get(s, a)
        ELSE IF o.op = "fail" THEN GetStorage(Get(s, a), a, o.key)
        ELSE IF o.op = "selfdestruct" THEN RunCode(s1, a, o)
        ELSE DeployCode(RunCode(s1, a, o), a, o.code)

\* The state after process_top_level(): "auth" means out of gas after the
\* given number of authorizations, or before the call if that is all.
ProcessTopLevel(s, t, o) ==
    IF o.op = "auth"
    THEN LET done == ProcessAuthorizationList(s, SubSeq(t.auths, 1, o.count))
             s1   == IF o.count < Len(t.auths)
                     THEN LookUpAuthority(done.state, t.auths[o.count + 1])
                     ELSE PrepareCall(done.state, t)
         IN  FoldLeft(RevertAuthorization, s1, done.applied)
    ELSE LET s1 == PrepareCall(ProcessAuthorizationList(s, t.auths).state, t)
         IN  IF t.to # NoAddr THEN TopLevelCall(s1, t, o) ELSE TopLevelCreate(s1, t, o)

\* The outcomes possible for t: gas runs out before the call only from
\* Amsterdam, and at an authorization only if it is valid; no code that
\* looks like a designation is deployed.
CanEnd(s, t, o) ==
    /\ o.op = "auth" =>
         /\ Rev >= AMSTERDAM
         /\ o.count <= Len(t.auths)
         /\ o.count < Len(t.auths) =>
              LET done == ProcessAuthorizationList(s, SubSeq(t.auths, 1, o.count))
                  auth == t.auths[o.count + 1]
              IN  Authorized(LookUpAuthority(done.state, auth), auth)
    /\ ~IsCodeDelegated(o.code)

-----------------------------------------------------------------------------
(* transition(). *)

\* The gas that process_top_level() may return: StateGas.tla.
CanReturn(t, o, r) ==
    LET props == TransactionProperties(t)
    IN  /\ r.gas_left + r.spilled <= props.execution_gas_limit
        /\ r.left <= props.state_gas_limit
        /\ r.left = 0 \/ r.spilled = 0
        /\ Rev < AMSTERDAM => r.spilled = 0
        /\ o.op = "auth" => r.gas_left = 0 /\ r.spilled = 0 /\ r.refund = 0
                              /\ r.left = props.state_gas_limit

PriorityGasPrice(t) == Least(t.max_priority_gas_price, t.max_gas_price - BaseFee)
EffectiveGasPrice(t) == BaseFee + PriorityGasPrice(t)

BuyGas(s, t) ==
    [GetOrInsert(s, t.sender)
       EXCEPT !.modified[t.sender].nonce = @ + 1,
              !.modified[t.sender].balance =
                  @ - t.gas_limit * EffectiveGasPrice(t)
                    - (IF t.type = "blob" THEN BlobGasUsed(t) * BlobBaseFee ELSE 0)]

\* The gas part of the receipt of t, with the gas result r.
Receipt(t, r) ==
    LET props     == TransactionProperties(t)
        b4_refund == t.gas_limit - r.gas_left - r.left
        refund    == Least(r.refund, b4_refund \div (IF Rev >= LONDON THEN 5 ELSE 2))
        gas_used  == Greatest(b4_refund - refund, props.min_gas_cost)
        state_gas_used == props.state_gas_limit - r.left + r.spilled
    IN  [gas_used |-> gas_used,
         state_gas_used |-> state_gas_used,
         block_gas_used |-> IF Rev >= AMSTERDAM
                            THEN Greatest(b4_refund, props.min_gas_cost + state_gas_used)
                            ELSE gas_used]

\* Wrong variant: the sender is refunded what the block is not charged for.
BugSettleGas(s, t, receipt) ==
    LET s1 == [s EXCEPT !.modified[t.sender].balance =
                  @ + (t.gas_limit - receipt.gas_used) * EffectiveGasPrice(t)]
    IN  [Touch(s1, Coinbase) EXCEPT !.modified[Coinbase].balance =
                  @ + receipt.block_gas_used * PriorityGasPrice(t)]

SettleGas(s, t, receipt) ==
    LET s1 == [s EXCEPT !.modified[t.sender].balance =
                  @ + (t.gas_limit - receipt.gas_used) * EffectiveGasPrice(t)]
    IN  [Touch(s1, Coinbase) EXCEPT !.modified[Coinbase].balance =
                  @ + receipt.gas_used * PriorityGasPrice(t)]

\* The state diff of t executed on the view.
Transition(view, t, o, r) ==
    LET s == ProcessTopLevel(BuyGas(NewState(view), t), t, o)
    IN  BuildDiff(SettleGas(s, t, Receipt(t, r)), Rev)
=============================================================================
