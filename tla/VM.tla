--------------------------------- MODULE VM ---------------------------------
(* The VM object of lib/evmone: its options, its chain of tracers and the      *)
(* execution states that it keeps and uses again, one per call depth, while    *)
(* calls nest through the host. An execution reads its own ExecutionState      *)
(* again after every call it makes.                                            *)
EXTENDS Integers, Sequences, SequencesExt, FiniteSetsExt

CONSTANTS
    Setups,         \* the revisions and hosts to execute for
    MaxTracers      \* bound on the tracers in the chain

VARIABLES
    setup,          \* the one of Setups that this VM executes for
    engine, cgoto,  \* evmc_vm::execute, VM::cgoto
    tracers,        \* the chain from m_first_tracer, each with its contexts
    states,         \* m_execution_states
    executions,     \* the executions that are active, the outermost first
    tx,             \* the host's transaction context
    outcome         \* the result of the last set_option()

vars == <<setup, engine, cgoto, tracers, states, executions, tx, outcome>>

(* A setup: the execution states reserved (1025) and the call depth limit      *)
(* (1024), whether the revision is Osaka or later and has none, the least gas  *)
(* it takes to make a call, the gas that transactions have, that system calls  *)
(* have and that calls ask for, the fields of ExecutionState that instructions *)
(* change, the transaction contexts of the host, the options that are set and  *)
(* the statuses that executions may end with.                                  *)
Setup ==
    [capacity : Nat, depth_limit : Nat, osaka : BOOLEAN, call_overhead : Nat \ {0},
     gas_limits : SUBSET Nat, system_gas : SUBSET Nat, call_gas : SUBSET Nat,
     fields : SUBSET {"gas_refund"},
     contexts : SUBSET [of : STRING, timestamp : Nat], options : SUBSET STRING,
     returns : SUBSET {"SUCCESS", "REVERT", "FAILURE"}]

ASSUME VMAssumption ==
    /\ \A s \in Setups : s \in Setup /\ s.depth_limit < s.capacity
    /\ MaxTracers \in Nat

(* From Osaka on: a gas limit, a warm account and six operands for a call, and *)
(* room for the calls that these allow. A system call, of which there is no    *)
(* limit but what execute_system_call() gives it, has more gas than any        *)
(* transaction.                                                                *)
MAX_TX_GAS_LIMIT == 16777216
SYSTEM_CALL_GAS == 30000000

ASSUME OsakaAssumption ==
    \A s \in Setups : s.osaka =>
        /\ s.call_overhead >= 112 /\ s.capacity >= 540
        /\ \A gas \in s.gas_limits : gas <= MAX_TX_GAS_LIMIT
        /\ \A gas \in s.system_gas : gas <= SYSTEM_CALL_GAS

(* A context is the transaction it is of and the timestamp of its block.       *)
NoContext == [of |-> "none", timestamp |-> 0]

(* An ExecutionState: its message's depth, the fields that are not as          *)
(* reset() leaves them, and the cached transaction context m_tx.               *)
NewState(depth) == [depth |-> depth, changed |-> {}, m_tx |-> NoContext]

Active == Len(executions)
Top == executions[Active]
Idle == executions = <<>>

(* Advanced executions allocate a state of their own, Baseline ones use the    *)
(* state kept for their depth.                                                 *)
StateOf(e) == IF e.engine = "baseline" THEN states[e.depth + 1] ELSE e.own

-----------------------------------------------------------------------------
Init ==
    /\ setup \in Setups
    /\ engine = "baseline" /\ cgoto = TRUE
    /\ tracers = <<>> /\ states = <<>> /\ executions = <<>>
    /\ tx = NoContext /\ outcome = "none"

AddTracer(kind) ==
    /\ Len(tracers) < MaxTracers
    /\ tracers' = Append(tracers, [kind |-> kind, contexts |-> <<>>])

(* set_option(). All its users configure the VM between executions.            *)
SetOption(name, value) ==
    /\ Idle
    /\ \/ /\ name = "advanced"
          /\ engine' = "advanced" /\ outcome' = "SUCCESS" /\ UNCHANGED <<cgoto, tracers>>
       \/ /\ name = "cgoto" /\ value = "no"
          /\ cgoto' = FALSE /\ outcome' = "SUCCESS" /\ UNCHANGED <<engine, tracers>>
       \/ /\ name = "cgoto" /\ value # "no"
          /\ outcome' = "INVALID_VALUE" /\ UNCHANGED <<engine, cgoto, tracers>>
       \/ /\ name \in {"trace", "histogram"}
          /\ AddTracer(name) /\ outcome' = "SUCCESS" /\ UNCHANGED <<engine, cgoto>>
       \/ /\ name = "opcode.count"
          /\ AddTracer(name) /\ outcome' = "INVALID_NAME" /\ UNCHANGED <<engine, cgoto>>
       \/ /\ name \notin {"advanced", "cgoto", "trace", "histogram", "opcode.count"}
          /\ outcome' = "INVALID_NAME" /\ UNCHANGED <<engine, cgoto, tracers>>
    /\ UNCHANGED <<setup, states, executions, tx>>

RemoveTracers ==
    /\ Idle /\ tracers # <<>>
    /\ tracers' = <<>>
    /\ UNCHANGED <<setup, engine, cgoto, states, executions, tx, outcome>>

(* get_execution_state(): the states up to this depth are created on demand.   *)
GetExecutionState(pool, depth) ==
    pool \o [i \in 1..Max({depth + 1 - Len(pool), 0}) |-> NewState(0)]

(* ExecutionState::reset(): every field, for the new message.                  *)
BugResetTx(state, depth) == [NewState(depth) EXCEPT !.m_tx = state.m_tx]
BugResetFields(state, depth) == [state EXCEPT !.depth = depth, !.m_tx = NoContext]
Reset(state, depth) == NewState(depth)

(* Each tracer in the chain pushes a context, and pops it when told of the end. *)
NotifyStart(depth) ==
    tracers' = [i \in DOMAIN tracers |-> [tracers[i] EXCEPT !.contexts = Append(@, depth)]]
BugNotifyEnd(status) ==
    tracers' = IF status = "SUCCESS" THEN [i \in DOMAIN tracers |-> [tracers[i] EXCEPT !.contexts = Front(@)]]
               ELSE tracers
NotifyEnd(status) ==
    tracers' = [i \in DOMAIN tracers |-> [tracers[i] EXCEPT !.contexts = Front(@)]]

(* execute() of either interpreter, up to the dispatch loop. Its history: the  *)
(* fields that this very execution has changed.                                *)
Execute(depth, gas, callers, pool) ==
    LET new == [engine |-> engine, depth |-> depth, gas |-> gas, given |-> gas,
                changed |-> {}, own |-> NewState(depth)]
        ready == GetExecutionState(pool, depth)
    IN  /\ executions' = Append(callers, new)
        /\ \/ /\ engine = "baseline"
              /\ states' = [ready EXCEPT ![depth + 1] = Reset(@, depth)]
              /\ NotifyStart(depth)
           \/ /\ engine = "advanced"
              /\ states' = pool
              /\ UNCHANGED tracers
        /\ outcome' = "none"
        /\ UNCHANGED <<setup, engine, cgoto>>

(* The host executes a message that no execution sent.                         *)
Begin(context, gas) ==
    /\ Idle
    /\ tx' = context
    /\ Execute(0, gas, <<>>, states)

(* The message of a transaction, with what is left of its gas limit, and that  *)
(* of a system call at the start or the end of a block.                        *)
BeginTransaction(context, gas) == gas \in setup.gas_limits /\ Begin(context, gas)
BeginSystemCall(context, gas) == gas \in setup.system_gas /\ Begin(context, gas)

(* An execution changes its state: the execution with its history, and the     *)
(* pool if its state is there.                                                 *)
Change(e, add, drop) ==
    LET after(changed) == (changed \ drop) \union add
    IN  [e EXCEPT !.changed = after(@),
                  !.own.changed = IF e.engine = "advanced" THEN after(@) ELSE @]
ChangePool(e, add, drop) ==
    IF e.engine = "baseline"
    THEN [states EXCEPT ![e.depth + 1].changed = (@ \ drop) \union add]
    ELSE states

(* An instruction changes a field, as SSTORE does the refund and MSTORE the    *)
(* memory.                                                                     *)
Work(field) ==
    /\ ~Idle
    /\ executions' = [executions EXCEPT ![Active] = Change(@, {field}, {})]
    /\ states' = ChangePool(Top, {field}, {})
    /\ UNCHANGED <<setup, engine, cgoto, tracers, tx, outcome>>

(* get_tx_context(): asks the host unless a context is cached; a timestamp of  *)
(* zero means none is.                                                         *)
GetTxContext ==
    /\ ~Idle
    /\ StateOf(Top).m_tx.timestamp = 0
    /\ \/ /\ Top.engine = "baseline"
          /\ states' = [states EXCEPT ![Top.depth + 1].m_tx = tx]
          /\ UNCHANGED executions
       \/ /\ Top.engine = "advanced"
          /\ executions' = [executions EXCEPT ![Active].own.m_tx = tx]
          /\ UNCHANGED states
    /\ UNCHANGED <<setup, engine, cgoto, tracers, tx, outcome>>

(* The callee's gas: what is asked for, but all but a 64th at most.            *)
BugAllBut64th(gas) == gas
AllBut64th(gas) == gas - gas \div 64

AtDepthLimit(depth) == ~setup.osaka /\ depth >= setup.depth_limit

(* call_impl() forgets the return data of the last call, whatever comes.       *)
Caller == Change([Top EXCEPT !.gas = @ - setup.call_overhead], {}, {"return_data"})
CallerPool == ChangePool(Top, {}, {"return_data"})

(* The callee runs one deeper than the message of the caller's state says, and *)
(* while it runs the caller has paid only for the call itself.                 *)
Call(asked) ==
    /\ ~Idle /\ Top.gas >= setup.call_overhead
    /\ ~AtDepthLimit(StateOf(Top).depth)
    /\ Execute(StateOf(Top).depth + 1, Min({asked, AllBut64th(Caller.gas)}),
               [executions EXCEPT ![Active] = Caller], CallerPool)
    /\ UNCHANGED tx

(* At the depth limit the call fails and only its cost is gone.                *)
CallTooDeep ==
    /\ ~Idle /\ Top.gas >= setup.call_overhead
    /\ AtDepthLimit(StateOf(Top).depth)
    /\ executions' = [executions EXCEPT ![Active] = Caller]
    /\ states' = CallerPool
    /\ UNCHANGED <<setup, engine, cgoto, tracers, tx, outcome>>

(* What the caller pays for the callee: a failure takes all of its gas.        *)
GasUsed(e, status) == e.given - (IF status = "FAILURE" THEN 0 ELSE e.gas)

(* make_execution_result(), notify_execution_end(), and what call_impl() does  *)
(* with the result: the caller's refund counter and return data change.        *)
Return(status, has_output) ==
    /\ ~Idle
    /\ status = "FAILURE" => ~has_output
    /\ IF Top.engine = "baseline" THEN NotifyEnd(status) ELSE UNCHANGED tracers
    /\ LET callers == Front(executions)
           refund == IF status = "SUCCESS" THEN {"gas_refund"} \intersect StateOf(Top).changed ELSE {}
           fields == refund \union (IF has_output THEN {"return_data"} ELSE {})
           returned(caller) == Change([caller EXCEPT !.gas = @ - GasUsed(Top, status)], fields, {})
       IN  IF callers = <<>> THEN executions' = <<>> /\ UNCHANGED states
           ELSE /\ executions' = [callers EXCEPT ![Active - 1] = returned(@)]
                /\ states' = ChangePool(Last(callers), fields, {})
    /\ UNCHANGED <<setup, engine, cgoto, tx, outcome>>

Next ==
    \/ \E name \in setup.options, value \in {"", "no"} : SetOption(name, value)
    \/ RemoveTracers
    \/ \E context \in setup.contexts, gas \in setup.gas_limits : BeginTransaction(context, gas)
    \/ \E context \in setup.contexts, gas \in setup.system_gas : BeginSystemCall(context, gas)
    \/ \E field \in setup.fields : Work(field)
    \/ GetTxContext
    \/ \E asked \in setup.call_gas : Call(asked)
    \/ CallTooDeep
    \/ \E status \in setup.returns, has_output \in BOOLEAN : Return(status, has_output)

Spec == Init /\ [][Next]_vars

-----------------------------------------------------------------------------
(* Executions do not share a state: each finds in its own, after any calls,    *)
(* its message's depth and the changes it made itself, and nothing that an     *)
(* earlier execution at that depth or a deeper one left there.  The vector of  *)
(* states stays within its reserved capacity, so that get_execution_state()    *)
(* never moves the elements that callers hold references to.                   *)
StatesIsolated ==
    /\ Len(states) <= setup.capacity /\ Active <= setup.capacity
    /\ \A i \in DOMAIN executions :
         /\ StateOf(executions[i]).depth = i - 1
         /\ StateOf(executions[i]).changed = executions[i].changed

(* The context that get_tx_context() has cached is that of the transaction     *)
(* being executed, though the state last served another one.                   *)
TxContextCurrent ==
    \A i \in DOMAIN executions :
        LET cached == StateOf(executions[i]).m_tx
        IN  cached.timestamp # 0 => cached = tx

(* Every tracer has a context for every active execution, in the order of the  *)
(* calls, so that m_contexts.top() is there and is the one that is running.    *)
TracersFollow ==
    \A i \in DOMAIN tracers :
        tracers[i].contexts =
            IF engine = "baseline" THEN [d \in 1..Active |-> d - 1] ELSE <<>>

(* The changelog on dropping the depth limit: the gas limit of transactions    *)
(* and the 63/64 rule keep the depth below 500.  It does not speak of system   *)
(* calls, whose gas is not limited by that: they may go deeper, up to 540,     *)
(* which still leaves almost half of the 1025 states reserved.  The gas of     *)
(* every execution stays between nothing and what it was given, though a       *)
(* caller is charged for a callee only when it returns.                        *)
DepthBoundedByGas ==
    /\ setup.osaka /\ ~Idle => Active <= IF executions[1].given \in setup.gas_limits THEN 500 ELSE 540
    /\ \A i \in DOMAIN executions : executions[i].gas \in 0..executions[i].given

(* An option that is refused is not applied.                                   *)
RefusedOptionsNotApplied ==
    [][outcome' = "INVALID_NAME" => UNCHANGED <<engine, cgoto, tracers>>]_vars
=============================================================================
