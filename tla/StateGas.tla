------------------------------ MODULE StateGas ------------------------------
(***************************************************************************)
(* The two-dimensional gas of Amsterdam (EIP-8037): execution gas and      *)
(* state gas, across nested frames.                                        *)
(*                                                                         *)
(* A frame holds gas_left and the counters of StateGas (state_gas.hpp):    *)
(* "left" is prepaid state gas, "spilled" is what state growth has taken   *)
(* from gas_left.  Charges and refills are made by SSTORE, the creation of *)
(* accounts and the deployment of code; a child frame gets a copy of its   *)
(* caller's "left" and the caller absorbs what comes back                  *)
(* (instructions_calls.cpp, execution_state.hpp, host.cpp).  The bottom    *)
(* frame is process_top_level() of state.cpp: authorizations, the          *)
(* recipient's creation and the top-level call.                            *)
(*                                                                         *)
(* The state itself is reduced to what state gas is paid for: the storage  *)
(* values, the accounts created and the bytes of code deposited.           *)
(***************************************************************************)
EXTENDS Integers, Sequences, FiniteSets

CONSTANTS
    Slot,                     \* storage slots, all of one account
    Original,                 \* [Slot -> 0..1]: the value is zero or not
    Target,                   \* addresses that may get created
    Existing,                 \* those of them that exist from the start
    STORAGE_SET_STATE_GAS, NEW_ACCOUNT_STATE_GAS, AUTHORIZATION_STATE_GAS,
    ACCOUNT_WRITE, CALL_VALUE_COST, CALL_STIPEND,
    GasFraction,              \* 64: the part of gas_left a call cannot pass on
    GasLimits,                \* (execution_gas_limit, state_gas_limit) choices
    Costs,                    \* execution costs of other instructions
    CallGas,                  \* gas arguments of calls
    CodeSizes,                \* state-gas costs of code deposits
    MaxFrames,                \* bound on the depth
    MaxDeposit                \* bound on the authorizations' state gas

ASSUME CostAssumption ==
    /\ STORAGE_SET_STATE_GAS \in Nat /\ NEW_ACCOUNT_STATE_GAS \in Nat
    /\ AUTHORIZATION_STATE_GAS \in Nat
    /\ ACCOUNT_WRITE \in Nat
    /\ CALL_STIPEND \in Nat /\ CALL_VALUE_COST \in Nat
    /\ CALL_STIPEND <= CALL_VALUE_COST
    /\ GasFraction \in Nat \ {0}
    /\ Costs \subseteq Nat /\ CallGas \subseteq Nat /\ CodeSizes \subseteq Nat
    /\ GasLimits \subseteq Nat \X Nat

ASSUME SetAssumption ==
    /\ IsFiniteSet(Slot) /\ IsFiniteSet(Target)
    /\ Existing \subseteq Target
    /\ Original \in [Slot -> 0..1]

VARIABLES
    frames,     \* the open frames, process_top_level() at the bottom
    storage,    \* [Slot -> 0..1]
    created,    \* accounts created so far
    deposit,    \* state gas worth of code deposits and authorizations
    phase,      \* "start" | "auth" | "run" | "done"
    result,     \* the result of process_top_level()
    auth_state_gas  \* the state gas after the authorizations

vars == <<frames, storage, created, deposit, phase, result, auth_state_gas>>

NoResult == [gas |-> 0, left |-> 0, spilled |-> 0]

-----------------------------------------------------------------------------
(* StateGas::charge and refill, on a frame.                                *)

\* Frame f with the given gas_left and state-gas counters.
WithGas(f, gas, left, spilled) ==
    [f EXCEPT !.gas = gas, !.left = left, !.spilled = spilled]

Pay(f, cost) == WithGas(f, f.gas - cost, f.left, f.spilled)

\* Wrong variant: off by one at the limit.
BugCanCharge(f, cost) == cost - f.left <= f.gas + 1

CanCharge(f, cost) == cost - f.left <= f.gas

Charge(f, cost) ==
    LET spill == cost - f.left
    IN  IF f.left >= cost THEN WithGas(f, f.gas, f.left - cost, f.spilled)
        ELSE WithGas(f, f.gas - spill, 0, f.spilled + spill)

\* Wrong variant: everything goes to the prepaid pool.
BugRefill(f, cost) == WithGas(f, f.gas, f.left + cost, f.spilled)

Refill(f, cost) ==
    LET to_gas_left == IF cost <= f.spilled THEN cost ELSE f.spilled
    IN  WithGas(f, f.gas + to_gas_left, f.left + (cost - to_gas_left),
                f.spilled - to_gas_left)

-----------------------------------------------------------------------------
Top == frames[Len(frames)]
SetTop(f) == frames' = [frames EXCEPT ![Len(frames)] = f]

\* The interpreter is running a frame (the bottom frame runs no code).
Running == phase = "run" /\ Len(frames) > 1

AccountExists(a) == a \in Existing \cup created

\* A new frame: gas and "left" from the message, the state at the checkpoint,
\* and whether the caller was charged for creating the recipient.
NewFrame(kind, gas, left, new_account) ==
    [kind |-> kind, gas |-> gas, left |-> left, spilled |-> 0,
     msg_gas |-> gas, msg_state_gas |-> left, new_account |-> new_account,
     saved |-> [storage |-> storage, created |-> created, deposit |-> deposit]]

\* Any instruction without state-gas cost.
Spend(cost) ==
    /\ Running
    /\ cost <= Top.gas
    /\ SetTop(Pay(Top, cost))
    /\ UNCHANGED <<storage, created, deposit, phase, result, auth_state_gas>>

\* sstore() from Amsterdam: 0 -> 0 -> Z is charged, 0 -> Y -> 0 refilled.
SStore(s, v) ==
    LET added   == Original[s] = 0 /\ storage[s] = 0 /\ v # 0
        deleted == Original[s] = 0 /\ storage[s] # 0 /\ v = 0
    IN  /\ Running
        /\ added => CanCharge(Top, STORAGE_SET_STATE_GAS)
        /\ SetTop(IF added THEN Charge(Top, STORAGE_SET_STATE_GAS)
                  ELSE IF deleted THEN Refill(Top, STORAGE_SET_STATE_GAS)
                  ELSE Top)
        /\ storage' = [storage EXCEPT ![s] = v]
        /\ UNCHANGED <<created, deposit, phase, result, auth_state_gas>>

\* The caller's side of call_impl() up to the message: the value cost and
\* the charge for a recipient that does not exist.
AfterValueCost(f, value) ==
    IF value THEN Pay(f, CALL_VALUE_COST) ELSE f

MinGas(a, b) == IF a <= b THEN a ELSE b

\* CALL (value TRUE: with value) of address a with the gas argument g.
Call(g, value, a) ==
    LET new == value /\ ~AccountExists(a)
        f1  == AfterValueCost(Top, value)
        f2  == IF new THEN Charge(f1, NEW_ACCOUNT_STATE_GAS) ELSE f1
        gas == MinGas(g, f2.gas - f2.gas \div GasFraction)
        stipend == IF value THEN CALL_STIPEND ELSE 0
    IN  /\ Running
        /\ Len(frames) < MaxFrames
        /\ f1.gas >= 0
        /\ new => CanCharge(f1, NEW_ACCOUNT_STATE_GAS)
        /\ frames' = Append([frames EXCEPT ![Len(frames)] = Pay(f2, -stipend)],
                            NewFrame("CALL", gas + stipend, f2.left, new))
        /\ created' = IF new THEN created \cup {a} ELSE created
        /\ UNCHANGED <<storage, deposit, phase, result, auth_state_gas>>

\* The balance is too low: the charge is refilled and execution goes on.
CallLightFailure(a) ==
    LET new == ~AccountExists(a)
        f1  == AfterValueCost(Top, TRUE)
        f2  == IF new THEN Charge(f1, NEW_ACCOUNT_STATE_GAS) ELSE f1
        f3  == Pay(f2, -CALL_STIPEND)
    IN  /\ Running
        /\ f1.gas >= 0
        /\ new => CanCharge(f1, NEW_ACCOUNT_STATE_GAS)
        /\ SetTop(IF new THEN Refill(f3, NEW_ACCOUNT_STATE_GAS) ELSE f3)
        /\ UNCHANGED <<storage, created, deposit, phase, result, auth_state_gas>>

\* create_impl(): all the gas that may be passed on is passed on.
Create(a) ==
    LET new == ~AccountExists(a)
        f   == IF new THEN Charge(Top, NEW_ACCOUNT_STATE_GAS) ELSE Top
    IN  /\ Running
        /\ Len(frames) < MaxFrames
        /\ new => CanCharge(Top, NEW_ACCOUNT_STATE_GAS)
        /\ frames' = Append([frames EXCEPT ![Len(frames)] = f],
                            NewFrame("CREATE", f.gas - f.gas \div GasFraction,
                                     f.left, new))
        /\ created' = IF new THEN created \cup {a} ELSE created
        /\ UNCHANGED <<storage, deposit, phase, result, auth_state_gas>>

-----------------------------------------------------------------------------
(* The end of a frame and what the caller makes of it. *)

\* absorb_child_state_gas(), after the gas used by the child is deducted.
Absorb(f, msg_gas, r) ==
    Refill(WithGas(f, f.gas - (msg_gas - r.gas), 0, f.spilled + r.spilled), r.left)

\* Wrong variant: the charge for the new account is kept after a failure.
BugCallerAfter(f, c, r, success) == Absorb(f, c.msg_gas, r)

\* The caller of the frame c continues with its result r.
CallerAfter(f, c, r, success) ==
    LET f1 == Absorb(f, c.msg_gas, r)
    IN  IF c.new_account /\ ~success THEN Refill(f1, NEW_ACCOUNT_STATE_GAS)
        ELSE f1

\* Wrong variant: a failed call is billed as if it had succeeded.
BugTopLevelAfter(f, r, outcome) ==
    [gas |-> r.gas, left |-> r.left, spilled |-> r.spilled + f.spilled]

\* process_top_level() after the call: no rebalancing on success; after a
\* failure the recipient's state gas is taken back, the authorizations' not.
TopLevelAfter(f, r, outcome) ==
    IF outcome = "success"
    THEN [gas |-> r.gas, left |-> r.left, spilled |-> r.spilled + f.spilled]
    ELSE [gas |-> IF outcome = "revert"
                  THEN r.gas + (f.spilled - auth_state_gas.spilled) ELSE r.gas,
          left |-> auth_state_gas.left, spilled |-> auth_state_gas.spilled]

\* Wrong variant: a revert returns the spilled gas and still reports it.
BugFrameResult(c, outcome) ==
    [gas |-> IF outcome = "halt" THEN 0
             ELSE c.gas + (IF outcome = "revert" THEN c.spilled ELSE 0),
     left |-> IF outcome = "success" THEN c.left ELSE c.msg_state_gas,
     spilled |-> c.spilled]

\* make_execution_result(): what a frame hands back.
FrameResult(c, outcome) ==
    CASE outcome = "success" -> [gas |-> c.gas, left |-> c.left, spilled |-> c.spilled]
      [] outcome = "revert"  -> [gas |-> c.gas + c.spilled,
                                 left |-> c.msg_state_gas, spilled |-> 0]
      [] outcome = "halt"    -> [gas |-> 0, left |-> c.msg_state_gas, spilled |-> 0]

\* The innermost frame, grown to c by its last charge, ends with an outcome.
CloseFrame(c, outcome) ==
    LET n == Len(frames) - 1
        r == FrameResult(c, outcome)
    IN  IF n = 1
        THEN /\ result' = TopLevelAfter(frames[1], r, outcome)
             /\ phase' = "done"
             /\ frames' = SubSeq(frames, 1, 1)
             /\ UNCHANGED auth_state_gas
        ELSE /\ frames' = [SubSeq(frames, 1, n) EXCEPT ![n] =
                             CallerAfter(@, c, r, outcome = "success")]
             /\ UNCHANGED <<phase, result, auth_state_gas>>

\* A call, or a create deploying no code, ends successfully.
Return ==
    /\ Running
    /\ CloseFrame(Top, "success")
    /\ UNCHANGED <<storage, created, deposit>>

\* create() deploys code: the state gas of the deposit, then success.
Deploy(cost, size) ==
    LET c == Pay(Top, cost)
    IN  /\ Running
        /\ Top.kind = "CREATE"
        /\ c.gas >= 0
        /\ CanCharge(c, size)
        /\ CloseFrame(Charge(c, size), "success")
        /\ deposit' = deposit + size
        /\ UNCHANGED <<storage, created>>

\* selfdestruct() of an account with a balance to a new beneficiary.
SelfdestructToNew(a) ==
    LET c == Pay(Top, ACCOUNT_WRITE)
    IN  /\ Running
        /\ ~AccountExists(a)
        /\ c.gas >= 0
        /\ CanCharge(c, NEW_ACCOUNT_STATE_GAS)
        /\ CloseFrame(Charge(c, NEW_ACCOUNT_STATE_GAS), "success")
        /\ created' = created \cup {a}
        /\ UNCHANGED <<storage, deposit>>

\* REVERT, or any exceptional halt: the state goes back to the checkpoint.
Stop(outcome) ==
    /\ Running
    /\ CloseFrame(Top, outcome)
    /\ storage' = Top.saved.storage
    /\ created' = Top.saved.created
    /\ deposit' = Top.saved.deposit

-----------------------------------------------------------------------------
(* process_top_level(). *)

\* The transaction starts with the limits computed by validate_transaction().
Begin(limits) ==
    /\ phase = "start"
    /\ frames' = <<NewFrame("TX", limits[1], limits[2], FALSE)>>
    /\ auth_state_gas' = [left |-> limits[2], spilled |-> 0]
    /\ phase' = "auth"
    /\ UNCHANGED <<storage, created, deposit, result>>

\* One applied authorization of authority a.  "writes": the first write to
\* it is charged; "delegates": a net-new delegation indicator is set.
Authorize(a, writes, delegates) ==
    LET f    == Pay(Top, IF writes THEN ACCOUNT_WRITE ELSE 0)
        size == IF delegates THEN AUTHORIZATION_STATE_GAS ELSE 0
        cost == size + (IF AccountExists(a) THEN 0 ELSE NEW_ACCOUNT_STATE_GAS)
    IN  /\ phase = "auth"
        /\ f.gas >= 0
        /\ CanCharge(f, cost)
        /\ deposit + size <= MaxDeposit
        /\ SetTop(Charge(f, cost))
        /\ created' = IF AccountExists(a) THEN created ELSE created \cup {a}
        /\ deposit' = deposit + size
        /\ UNCHANGED <<storage, phase, result, auth_state_gas>>

\* prepare_call succeeds and the message is called: the recipient a may be
\* new ("creates": a create, or a call with value), or its delegate may have
\* to be accessed at a cost.
TopCall(kind, a, creates, access) ==
    LET new == creates /\ ~AccountExists(a)
        f1  == Pay(Top, access)
        f2  == IF new THEN Charge(f1, NEW_ACCOUNT_STATE_GAS) ELSE f1
    IN  /\ phase = "auth"
        /\ kind = "CREATE" => creates
        /\ access # 0 => kind = "CALL" /\ AccountExists(a)
        /\ f1.gas >= 0
        /\ new => CanCharge(f1, NEW_ACCOUNT_STATE_GAS)
        /\ auth_state_gas' = [left |-> Top.left, spilled |-> Top.spilled]
        /\ frames' = <<f2, NewFrame(kind, f2.gas, f2.left, new)>>
        /\ created' = IF new THEN created \cup {a} ELSE created
        /\ phase' = "run"
        /\ UNCHANGED <<storage, deposit, result>>

\* Out of gas before the call: the authorizations are reverted and only the
\* state gas is returned.
TopLevelOutOfGas ==
    /\ phase = "auth"
    /\ \/ Top.gas < ACCOUNT_WRITE
       \/ \E access \in Costs : Top.gas < access
       \/ ~CanCharge(Top, NEW_ACCOUNT_STATE_GAS + AUTHORIZATION_STATE_GAS)
    /\ result' = [gas |-> 0, left |-> Top.msg_state_gas, spilled |-> 0]
    /\ created' = Top.saved.created
    /\ deposit' = Top.saved.deposit
    /\ phase' = "done"
    /\ UNCHANGED <<frames, storage, auth_state_gas>>

Done == phase = "done" /\ UNCHANGED vars

-----------------------------------------------------------------------------
Init ==
    /\ frames = << >>
    /\ storage = Original
    /\ created = {} /\ deposit = 0
    /\ phase = "start" /\ result = NoResult
    /\ auth_state_gas = [left |-> 0, spilled |-> 0]

Next ==
    \/ \E limits \in GasLimits : Begin(limits)
    \/ \E a \in Target, writes, delegates \in BOOLEAN : Authorize(a, writes, delegates)
    \/ \E kind \in {"CALL", "CREATE"}, a \in Target, creates \in BOOLEAN,
          access \in Costs \cup {0} : TopCall(kind, a, creates, access)
    \/ TopLevelOutOfGas
    \/ \E cost \in Costs : Spend(cost)
    \/ \E s \in Slot, v \in 0..1 : SStore(s, v)
    \/ \E g \in CallGas, value \in BOOLEAN, a \in Target : Call(g, value, a)
    \/ \E a \in Target : CallLightFailure(a) \/ Create(a) \/ SelfdestructToNew(a)
    \/ \E cost \in Costs, size \in CodeSizes : Deploy(cost, size)
    \/ Return
    \/ \E outcome \in {"revert", "halt"} : Stop(outcome)
    \/ Done

Spec == Init /\ [][Next]_vars

-----------------------------------------------------------------------------
(* Properties. *)

Ledger == [gas : Nat, left : Nat, spilled : Nat]

Saved == [storage : [Slot -> 0..1], created : SUBSET Target, deposit : Nat]

Frame ==
    [kind : {"TX", "CALL", "CREATE"}, gas : Nat, left : Nat, spilled : Nat,
     msg_gas : Nat, msg_state_gas : Nat, new_account : BOOLEAN, saved : Saved]

(* Type invariant; no gas counter of any frame, nor of the result, is ever *)
(* negative (the int64_t counters of the code are signed).                 *)
TypeOK ==
    /\ frames \in Seq(Frame)
    /\ storage \in [Slot -> 0..1]
    /\ created \in SUBSET Target
    /\ deposit \in Nat
    /\ phase \in {"start", "auth", "run", "done"}
    /\ result \in Ledger
    /\ auth_state_gas \in [left : Nat, spilled : Nat]

(* "At most one of the two pools is ever non-empty", as asserted by        *)
(* absorb_child_state_gas(): a frame with prepaid state gas left has taken *)
(* nothing from its execution gas.                                         *)
PoolsExclusive ==
    \A i \in 1..Len(frames) : frames[i].left = 0 \/ frames[i].spilled = 0

(* Refills never mint execution gas: what a frame has, together with what  *)
(* state growth took from it, is at most what its caller gave it, through  *)
(* calls, stipends, failures and refills of a caller's earlier charges.    *)
GasNeverMinted ==
    /\ \A i \in 1..Len(frames) :
          frames[i].gas + frames[i].spilled <= frames[i].msg_gas
    /\ phase = "done" => result.gas + result.spilled <= frames[1].msg_gas

\* The price of the state that exists now and did not before the transaction.
Growth(st, cr, dep) ==
    STORAGE_SET_STATE_GAS * Cardinality({s \in Slot : Original[s] = 0 /\ st[s] # 0})
      + NEW_ACCOUNT_STATE_GAS * Cardinality(cr) + dep

\* The growth already paid for when frame f starts running.
Base(f) ==
    Growth(f.saved.storage, f.saved.created, f.saved.deposit)
      + (IF f.new_account THEN NEW_ACCOUNT_STATE_GAS ELSE 0)

\* The state gas frame f has used so far.
Used(f) == f.msg_state_gas - f.left + f.spilled

(* State gas pays for exactly the state growth, frame by frame: a waiting  *)
(* frame has used what had grown since its start when it made its call,    *)
(* the running frame what has grown until now.                             *)
FramesPayGrowth ==
    \A i \in 1..Len(frames) :
        IF i < Len(frames)
        THEN /\ Used(frames[i]) = Base(frames[i + 1]) - Base(frames[i])
             /\ frames[i + 1].msg_state_gas = frames[i].left
        ELSE phase \in {"auth", "run"} =>
                Used(frames[i]) = Growth(storage, created, deposit) - Base(frames[i])

(* The state gas the transaction is billed for (transition() asserts it is *)
(* not negative) is exactly the price of the state it leaves behind,       *)
(* whatever was charged, reverted, spilled and refilled on the way.        *)
StateGasPaysGrowth ==
    phase = "done" =>
        frames[1].msg_state_gas - result.left + result.spilled
          = Growth(storage, created, deposit)
=============================================================================
