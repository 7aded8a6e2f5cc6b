# A TLA+ verification of evmone

evmone is an Ethereum Virtual Machine in C++: two interpreters in `lib/evmone`, the
precompiles in `lib/evmone_precompiles`, the EVMC interface between a VM and its host in
`evmc`, and in `test/state` and `test/utils` the host itself: the world state, transactions
and blocks, with which the Ethereum tests are run.

The project models the parts of evmone in which a wrong order of steps, a stale field or an
unnoticed path through nested calls would change a result silently. `PROJECT.json` maps every
definition to the lines it models and lists the runs, the mutants, the hazards and the
theorems.

## The system

| Part | State it keeps | Operations | Hard because |
|---|---|---|---|
| `State` (`test/state/state.*`, `account.hpp`) | accounts loaded from the view, with flags and caches; a journal | getters that load, setters that journal, `rollback()`, `build_diff()` | undoing is done entry by entry on accounts whose flags say different things at different times |
| `Host` (`test/state/host.*`) | the `State`, logs | the EVMC callbacks, `call()` with its checkpoint, `create()` | calls nest and fail at any point; rules differ per revision |
| Transaction (`state.cpp`: `transition`, `process_top_level`) | gas bought, refund, receipts | buys gas, executes, settles, builds the diff | one exit path forgotten and ether is minted or burnt |
| State gas (`state_gas.hpp`, EIP-8037) | two pools of gas per frame | charge, refill, absorb, roll back | charges and refills happen in different frames |
| Baseline (`baseline_*.cpp`) | the padded code and a bit per jump destination | analysis, dispatch loop | reads without bounds checks |
| Advanced (`advanced_*.cpp`) | a translated program of blocks | analysis, block-wise checks | costs known ahead have to be corrected in the middle of blocks |
| Memory (`execution_state.hpp`, `instructions.hpp`) | size, capacity, bytes | checks, growth, clearing | buffers are reused, costs computed in 32 bits |
| VM (`vm.*`, `tracing.*`) | execution states by depth, tracers, options | execute, set_option | everything is reused and referenced by callers further up |
| LRU cache (`lru_cache.hpp`) | a map and a list that point into each other | get, put, clear | eviction swaps keys inside a map node |
| Instructions (`instructions*.hpp/.cpp`) | none of their own | one function per opcode | costs and checks in the order of the rules |
| Precompiles (`lib/evmone_precompiles`, `precompiles.cpp`) | none | hash and curve functions | wide arithmetic without branches |
| Block transition (`block_transition.cpp`, `system_contracts.cpp`, `requests.cpp`, `bal.cpp`) | the block's gas, receipts, access list | system calls, transactions, withdrawals, requests | indices of changes and two dimensions of gas |
| MPT, RLP, difficulty, fees | none | pure functions | boundaries |
| Runners and tools | files | JSON in and out | not their logic |

The parts meet in three places. The interpreter calls the host through EVMC for everything
that is not its own (storage, balances, calls), and the host calls the VM for every message:
the recursion between the two is what the modules Host, StateGas and VM look at from three
sides. The host changes accounts only through the `State` and its journal, so that a failed
call is a rollback to a checkpoint. And the result of a transaction is a diff of the `State`,
which the block transition applies to the world.

evmone is sequential: there are no threads and no messages, and nothing is persisted. Its
hard behaviours are nesting (a callee runs between two steps of its caller, and changes what
the caller sees next), failure half-way, objects used again after they were left in any
state, and boundaries of fixed-width numbers and fixed sizes.

## Modules

| Module | Models | Composition |
|---|---|---|
| `Revision` | the EVM revisions (`evmc.h`) | extended by State, NestedCalls |
| `State`, `StateProofs` | class `State`, accounts, journal, diff | operators on a state record |
| `HostMethods` | the methods of class `Host` on accounts | operators on top of State |
| `Host`, `HostProofs` | nested calls and creations, step by step | extends HostMethods; HostProofs extends HostProperties and StateProofs |
| `NestedCalls` | abstract: a failed call leaves no trace | refined by Host |
| `HostProperties` | properties of State and Host; the refinement mapping; a history variable for the touch of 0x03 | extends Host |
| `Transaction` | validation, authorizations and `transition()` as one step | operators on top of HostMethods |
| `AccessList` | the block access list and its builder | operators on top of State |
| `Block`, `BlockProperties`, `BlockProofs` | `apply_block()` | extends Transaction and AccessList |
| `StateGas`, `StateGasProofs` | EIP-8037 across frames | on its own |
| `LRUCache`, `LRUCacheProofs` | the cache; `LRUMap` is the abstract one | refines LRUMap |
| `Instructions` | opcodes, traits, stack, gas, one instruction of each kind | used by the two interpreters |
| `Baseline`, `Advanced` | the two interpreters | extend Instructions |
| `Interpreters`, `InterpretersProofs` | both on the same code | extends Baseline and Advanced |
| `Memory` | growth, cost and reuse of memory | on its own |
| `VM`, `VMProofs` | VM object, execution states, tracers, options | on its own |
| `ModArith` | `modarith.hpp`, `mulmod.cpp`: modular and Montgomery arithmetic | extended by the next ones |
| `Modexp` | `modexp.cpp` | extends ModArith |
| `Curve` | `ecc.hpp` and the curves' parameters | extends ModArith |
| `Signatures` | `secp256k1.cpp`, `secp256r1.cpp`, the points of `bn254.cpp` | extends Curve |
| `Pairing` | `pairing/`: the tower of fields, Miller loop, final exponentiation | extends Signatures |
| `CurveCalls`, `PairingCalls` | calls of a curve's functions, and what they must give | extend Signatures and Pairing |
| `WordInstructions` | instructions that compute with words or move them on the stack | extends ModArith |
| `Arithmetic` | one call after another, with its result | extends Modexp and WordInstructions; three instances of the calls, one for each curve |
| `DataInstructions` | instructions that move data between memory, code, input and return data | on its own; extended by InstructionSet |
| `StorageInstructions` | SLOAD and SSTORE with the costs of all revisions | extends Revision |
| `InstructionProofs` | proofs about memory and storage of instructions | extends Memory and StorageInstructions |
| `InstructionSet` | executions of one kind or another | extends DataInstructions, StorageInstructions and Memory |
| `MC*` | small instances; LRUCache needs only a configuration | |

### State and Host

`State.tla` has one operator for each method of class `State`. They take and return a record
of the initial state (the view), the modified accounts and the journal. A reference to an
account or to a slot in the C++ is an address, or an address and a key: nothing is ever erased
from the map while a reference is held, which is what the code relies on as well. Account
fields keep their names: `loaded`, `nonexistent`, `just_created`, `code_changed`,
`destructed`, `erase_if_empty`, `access_status`; code and hashes are model values, with the
code cache and the code hash kept apart. `UndoLast` undoes one journal entry; `Rollback` of
`Host.tla` is one step per entry, so that the assertions in the middle of `rollback()` can be
checked.

`Host.tla` has the frames of the calls in progress as a sequence. An action is an EVM
instruction together with the callback it makes (`DoSetStorage` is SSTORE as it accesses,
loads and sets the slot), a call or creation up to the point where the callee starts
(`DoCall`, `DoCreate`), or the end of a frame: `Return`, or `Fail`, the steps of `Rollback`
and `FailReturn`, which applies the touch of 0x03 again. A transaction is `Begin` (the
prologue of `transition()` and `process_top_level()`), its frames, and `Finish` (payments,
diff, and the diff applied to the view as `TestState::apply()` does). Gas is not counted
here: any instruction may run out of it, which is why `Fail` is always enabled. `World` is
what the getters would return of every account (`Observed`: an account that is not loaded is
seen as its view), together with the flags that the end of the transaction looks at. Every
frame also carries its checkpoint of the world, as history for the refinement.

`TouchSpec` of `HostProperties.tla` adds a variable to `Host`, `was_touched`: whether 0x03 was
touched in this transaction, by a call or by a self-destruct, even if every call that did it
was reverted since. What `Host::call()` samples and when is not in it, so `RipemdTouchIsKept`
can say that no touch is lost: whenever an instruction, a caller or `build_diff()` looks, in
the revisions with this exception, the flag of 0x03 is set if it ever was. A `Host::call()` that
looks at 0x03 only after the rollback violates it (the mutant of this property).

### Transactions and blocks

`Block.tla` is `apply_block()`: an action for the system calls at the start, one for a
transaction that is rejected and one for a transaction that is executed, `Finalize`, and the
system calls at the end, which may make the block invalid. Each takes a diff of the current
state (`BuildDiff` of the same `State` as in Host), records it in the access list at its index
and applies it. `Transaction.tla` computes the diff of a whole transaction: the gas is bought,
the authorizations are processed one by one and taken back if the gas runs out before the
call, the call or creation ends with one of a few outcomes (a store, a payment, a
self-destruct, a failure that only leaves reads), and the gas is settled. Nested calls are
not repeated here. The gas result is any that `StateGas` allows: what is left and what was
spilled together are no more than the execution gas, and one of the two pools is empty.
`history` keeps the state after each index and `issued` the ether that came and went, for the
properties. `AccessList.tla` has `record()`, `record_diff()` and `build()`, and what a reader
does with the list: `ReplayAccount`.

### State gas

The frames hold `gas`, `left` and `spilled`, what they were given, and what their caller paid
ahead for a new account. The bottom frame is `process_top_level()`. Storage, the accounts
created and the bytes deposited are kept only as what state gas is paid for. All costs are
constants; SSTORE's charges and refills follow `sstore()`, calls and creations follow
`call_impl()` and `create_impl()` including the stipend, the 63/64 rule and the failures
that return at once, deployment follows `Host::create()`.

### Interpreters

Codes are all sequences over an alphabet of opcodes, up to a length. Opcodes are numbers in
the order of the real ones; their signed bytes are too, as `analyze_jumpdests()` depends on
that. Instructions are one of each kind that the interpreters treat differently: JUMP,
JUMPI, JUMPDEST, PC, GAS, PUSHes with one and two bytes of data, POP, DUP, MSTORE, a call, STOP,
an undefined one, and DUPN for the three of EIP-8024, whose byte of data neither analysis
skips. `Advanced` has the analysis with its blocks, its arguments and its dead
code, then runs the translated program; `Baseline` scans for jump destinations, then runs
the padded code. An interpreter that fails gives a failure without gas (`Outcome`), so
Advanced may fail a whole block early without a difference. It is the outcome of this
execution only: what the host keeps of a failed one, the reads, belongs to Host.

There is one difference, and `SameOutcome` names it. From Amsterdam on Baseline executes DUPN,
SWAPN and EXCHANGE; `advanced_instructions.cpp:248-250` leaves them undefined in every
revision, with the gas and the stack requirements of the instruction
(`Implementation` of `Advanced`), and `evm_eip8024_swapn_dupn_exchange_test.cpp` skips that
interpreter. So a code that holds one of them may fail in Advanced alone; what succeeds in
Advanced is the same in both. No document of the repository promises more, hence no finding.

### Memory, VM, LRU cache

`Memory` keeps the size, the capacity and which words may hold something other than zero. A
load or store is the whole instruction: the checks, the growth, its cost and the bytes
written. A fresh allocation may hold anything. `Clear` is the next execution in the same
object.
`VM` has the pool of execution states by depth as a sequence, the chain of tracers with
their stacks of contexts, and the active executions; an execution has a history of the fields
it has changed itself, which its state is compared with. `LRUCache` gives map nodes and list
entries identities, so that a dangling or swapped reference is visible.

### Arithmetic and precompiles

The functions here have no state. What can go wrong is a carry, a borrow, a truncation, a
special case of a formula, or a wrong constant, so a state of `Arithmetic` is one call with
its operands, then its result, and each property compares the result with a definition that
has nothing in common with the code: integers and remainders for words and residues, the
discrete logarithms of points for the groups (a table of all multiples of the generator, which
`TableComplete` compares with the equation of the curve and the textbook's chord and tangent),
the equations of ECDSA for signatures, polynomials for the tower of fields, and for the pairing
check the sum of the products of the discrete logarithms.

Words have 4 bits instead of 64, integers two words instead of four or six, a byte has 2 bits:
every algorithm is the one of the code in these sizes. `Fp` and `Fr`, the field elements of a
curve, are tables made by `FieldElement(mod)` from the Montgomery operations, which are checked
by themselves (`FieldsExact`), so that a point operation looks its products up. `Only` and local
operators whose argument is a value used many times have it computed once, as a variable of
the code is. The curves are small ones of the same form:

- for secp256k1, y^2 = x^3 + 7 over 43, of order 31: with the endomorphism, and an
  order below the prime, so that r of a signature is not always the x of its point;
- for secp256r1, a curve with A = -3 over 23, of order 17;
- for bn254, the Barreto-Naehrig curve of seed 1: over 103, of order 97, with the twist, the
  Frobenius coefficients and the digits of 6 * 1 + 2 that belong to it.

Constants of the code that a small curve cannot use are checked by what they are: the addition
chain of `field_sqrt()`, the steps of `pow_by_X()` and `ATE_LOOP_COUNT_DIGITS` are compared with
the exponents they stand for modulo primes whose product is larger than either. Of
`g2_subgroup_check()` the model has what it decides, not how: its formula adds points with
incomplete additions, and on the twist of a seed as small as 1 these meet equal points, which
they do not with the real seed. Comments in `ecc.hpp` call several
branches of the additions untested and out of reach of the precompiles: `GroupLaw` takes all
pairs of points, equal and opposite ones and infinity. The assertions in the additions are
operators of their own (`AddAffineAsserts`, `AddProjAsserts`). `AdditionsAsserted` says that they
hold, and it is violated: the one at `ecc.hpp:300` fails for points with the same y and different
x (see the findings). `GroupLaw` says nothing of the sum of such points by that function, as a
build with assertions has none, and says that no other call fails an assertion.

### Data and storage instructions

`DataInstructions` is the family of CALLDATALOAD, CALLDATACOPY, CODECOPY, EXTCODECOPY,
EXTCODESIZE, RETURNDATACOPY, MCOPY, MLOAD, MSTORE, MSTORE8, KECCAK256, LOG and RETURN. Operands are words of the
stack and may be larger than `size_t`, which may be larger than any buffer: each comparison,
minimum and cast is where the code has it. `DataMovesExact` says what a step may have done to
the memory, the stack and the gas, byte by byte.

`InstructionSet` also runs `Memory` (above), so that one configuration covers what instructions
do to an execution; the three kinds of executions share no state. The names of `DataInstructions`
that `Memory` has too are spelled differently there: `BufferLimit` is `max_buffer_size`, `WordBytes`
`word_size`, `CheckAccess` `check_memory()`.

`StorageInstructions` has one slot in nested calls that may fail. The base cost of SLOAD is
charged by the dispatch loop before the instruction is entered, and so it is here. The
host's part is `get_storage_status` as in `Host` and in the `MockedHost`. `SstoreNetCost`
compares what the transaction has paid and been refunded over all its stores with what the
change of the slot is worth.

## Runs

All runs use two workers and end in about three minutes or less.

| Run | States | Shows |
|---|---|---|
| `state_gas` | 1,094,195 | no negative counter, one pool at a time, no gas minted, the bill of every frame and of the transaction is the growth of the state |
| `host_create` | 755,850 | London: creations, failed, repeated and over prefunded accounts, and calls of 0x03: failed calls leave no trace but that touch (`ImplementsNestedCalls`), and the touch is never lost (`RipemdTouchIsKept`); the assertions of `rollback()` and `create()`, the code cache, the diff |
| `host_storage` | 100,039 | Prague: storage, transient storage and logs in all kinds of calls; failed calls leave no trace, loaded slots stay loaded |
| `host_amsterdam` | 225,180 | Amsterdam: no ether appears or is lost but the base fee, in the middle of calls and at the end |
| `block` | 438,707 | Amsterdam: the access list replays to every intermediate state and lists nothing needless; both dimensions of gas hold; ether is accounted for; reverted authorizations leave no trace |
| `lru_cache` | 2,513 | map and list stay linked; an LRU map is implemented |
| `interpreters` | 1,643,391 | all short codes: same outcome but for EIP-8024, the stack and the reads of code in bounds without checks, termination |
| `arithmetic` | 537,912 | instructions, fields, groups, signatures, the pairing check and powers give what their definitions give |
| `additions` | violation | an assertion of the addition of points that fails |
| `instructions` | 489,104 | data moves are exact at every limit; SLOAD and SSTORE cost net what they change, in every revision; memory's cost, bounds and zeros, around every boundary |
| `vm_executions` | 1,744,500 | execution states are isolated over transactions and depths; tracers follow the calls; the deepest calls of transactions and system calls from Osaka on, with the real constants |
| `vm_options` | violation | an option that is applied and reported as unknown |

**Bounds of the host.** Four addresses are enough for the roles that the code tells apart: a
sender, a contract with code and storage, an address that may be missing, prefunded, created
or the coinbase, and 0x03. One storage key and one code: slots and codes do not interact. The
depth is two calls below the top (one in the runs with many kinds of calls), so that a
failing call may contain one that succeeded and one that failed; the journal is bounded to 5
to 8 entries, enough for a creation with value inside a call with value; each run has one
transaction (the touch of 0x03 is of one transaction as well), which starts from all initial states given. Values of 0 and 1 and a few units
of balance make transfers possible and impossible. Each run sets the revision whose rules it
is about.

**Bounds of blocks.** Two transactions, since what one leaves behind is what the next one
meets: a funded address becomes a contract, a delegation is cleared, a value returns to where
it was, the funds or the gas of the block run out. Together with the system calls and the
withdrawals that is four indices. One address is missing, empty or without nonce and code but
with a balance and storage (EIP-7610) before the block, and is then paid, created, destructed
or delegated. Gas limits of three and six around a cap of
three, and seven for the block, let either dimension be the one that is exhausted; blob gas
is one. Eight transactions per nonce, of all the types.

**Bounds of the interpreters.** All codes of up to six bytes of jumps and pushes, with gas 9:
they hold a jump over dead code with push data to a destination behind it, and a loop. All
codes of up to four bytes of instructions that look at gas and stack, with gas 4 and 9 and a
stack of 3, which are reached in all directions. All codes of up to five bytes of DUPN, pushes and
a conditional jump, in which the byte after DUPN is an immediate for an item that is there or is
not, one that is forbidden, or missing at the end of the code. A block's gas is assumed to fit
in its 32 bits, as that of the largest code does (`InterpretersAssumption`); the 16 bits for
the stack are one more than the stack limit here, and the codes reach them.

**Bounds of state gas.** Costs of one to three units and limits of five and six are small
enough for every charge to be paid from either pool, from both and not at all; three nested
frames above the top level let a refill cross two frames.

**Bounds of memory** (in `instructions`). A 4096-wide integer and a buffer of two pages in place of 32 bits:
the square of the words wraps around from 64 words on, doubling is not enough for the larger
accesses. The word and the page keep their sizes.

**Bounds of the VM.** A depth limit of two, with the reserved capacity one above, as
1024 and 1025 are. From Osaka on (`DeepSetup`) it has the real limits instead: a gas limit of 2^24
(`MAX_TX_GAS_LIMIT`) for a transaction, the 30'000'000 gas that `execute_system_call()` gives a
system call, which starts at depth 0 as well, and 112 gas for a call (a warm account access and six operands of two gas each, less than any call really
costs). There are no returns, as a call that returned has only left its caller less gas for a
deeper one. The deepest chains have 494 executions in a transaction, below the 500 that the
changelog says of transactions (`CHANGELOG.md:95-96`), and 531 in a system call, of which it says
nothing; both are far below the 1025 execution states reserved.

**Bounds of arithmetic.** All words of 8 bits against those at the edges of bytes, words and
signs; all immediates of the stack instructions; all residues of ten moduli, among them ones
that fill the integer and composite ones; all pairs of points, in several coordinates; all
scalars; all r and, at their limits, s; moduli of up to three words for powers, exponents of
up to 31 bytes with windows of every width that the code chooses. Pairing checks have none to three
pairs, with infinity, points off the curve and off the subgroup.

**Bounds of instructions.** Two data instructions in a row, so that one sees the memory the
other has grown; offsets and sizes at the limits of a buffer of 15 and a `size_t` of 32
values. Four stores in two calls, values of zero and two others: every transition of original,
current and new value, in one revision for each schedule of costs. The state gas of one slot
is enough for a store to be paid for, refilled and paid for again.

**Deadlock** is checked everywhere except where the system may stop: `interpreters` ends when
both executions have ended, `arithmetic`, `additions` and `instructions` with the calls and executions
given, and the deep calls of `vm_executions` with the gas.

**Fairness** is assumed only in `Interpreters`: `WF_vars(Next)`, for `Terminates`. It says
that a loop that is entered keeps going, which sequential code does. Nothing about which step
comes next is assumed.

### Findings

`vm_options`: `set_option("opcode.count", file)` adds the instruction counter and then falls
through to `return EVMC_SET_OPTION_INVALID_NAME` (`vm.cpp:61`); all other options that are
recognized return `EVMC_SET_OPTION_SUCCESS`. `t8n.cpp`, the only user in the repository,
ignores the result.

`additions`: `add()` of two points in Jacobian coordinates "handles all inputs (e.g. doubling or
points at infinity)" (`ecc.hpp:266`), but its `assert(r != 0 || h == 0)` fails for two points with
the same y and different x, so a build with assertions aborts. The comment at `ecc.hpp:298` expects
that. Such points exist on secp256k1, where the endomorphism multiplies x by a cube root of one
and keeps y; the run shows a pair on the curve of its form. Without the assertion the formula gives
the right sum. In `lib/evmone_precompiles` only the addition of a Jacobian and an affine point is
called (`ecc.hpp:464`, `ecc.hpp:499`), so no precompile gets there.

## Proofs

TLAPS proves the following for all values of the constants that satisfy the named
assumptions; the bounds of the runs are not among them.

### Host and State

`StateProofs` (4326 obligations) and `HostProofs` (5905) are about all sets of accounts, keys,
codes, initial states and transactions, every revision, depth and length of the journal. They
assume the types of these (`InputAssumption`, `FeeAssumption`, `RoleAssumption` and those of
State), and of the addresses that CREATE computes only that they are addresses and, before
Spurious Dragon, that different creators or nonces give different ones (`AddressAssumption`). Addresses have 20
bytes, so there are finitely many (`AddrAssumption`); the sums of balances need that.
The theorems are `HostInvariance` and, from it, `FailureRestores` (the refinement of
NestedCalls), `StateAsserts`, `HostAsserts`, `CacheCoherent`, `ReadsKept`, `DiffExactness`,
`RipemdTouch`, `SupplyIsConserved` and `SupplyIsSettled`, each of which states one property of
the runs.

That a failed call restores its checkpoint says something about many entries at once, and it
has to be known before the call fails. The invariant therefore labels the journal with worlds:
`Labels(s, base, w)` says that `w[i]` is well-formed and that undoing entry i leads from
`w[i + 1]` to `w[i]`, the last label being the present world. `Undoes` includes what
`rollback()` asserts of the entry. `Layout` adds the open calls: the checkpoint of each is the
label at its `state_checkpoint`, and from a position `fl[j]` on, which is below the checkpoints
of all inner calls, its account exists, has code or was just created, and is loaded. So a
label is a world that the transaction may come back to, and what is said of labels holds
during every rollback.

- `StateProofs` shows for every method of `State` and `HostMethods` what it does to the
  accounts and to the world. Most of them `Extend` the state: new entries, whose labels lead
  from the old world to the new one and take nothing away that an open call relies on.
  `UndoStep` shows that an undone entry leads to the label before it.
- `DeployCode` is the exception: it changes the code of an account without an entry.
  `LayoutDeploy` writes the code into all labels from the creation of the account on. They
  stay linked, as the entry of the creation, which takes the code away, is between them and the
  checkpoint of the creating call. That entry is there because a create that passes the
  collision check finds a blank account (`CreatableBlank`), and hence none that was created
  before in the transaction (`NotCreatedTwice`): from Spurious Dragon on by its nonce, before by
  the nonce of its creator.
- `HostProofs` shows for every action that `HostInv` is kept, that what was loaded stays
  loaded, and that it is a step of NestedCalls (`StepOK`). `DiffExact` compares the entries
  of the diff with the observed accounts. It needs that an account which does not exist holds
  nothing (`AbsentOK`), and that code changes only with a creation (`CodeOK`), which are parts
  of `WorldOK`.
- Ether is conserved (`SupplyIsConserved`, `SupplyIsSettled`) because every step between the
  prologue and the epilogue moves balance from one account to another or takes it away. A
  failed call gives back what its callee moved and burnt, so the invariant has to say it of the
  checkpoints as well: `SupplyOK` bounds the sum of the checkpoint of every open call, and that
  of the present world while nothing is rolled back. In the middle of a rollback it may be
  exceeded: a transfer is undone one account at a time. The sum is defined by a fold;
  `TotalIsFold` gives it as a function on sets of accounts, and what one account contributes
  (`SumsSplit`), that less in every account is less in total (`TotalLess`) and the like follow
  from the smallest set of accounts for which they would fail.

- `RipemdTouch` is about `TouchSpec` and all sequences of calls in the revisions with the exception.
  It assumes that nobody sends from 0x03, that no creation has its address and that it is a precompile
  (`RipemdAssumption`). Its invariant (`TouchInv`) does not follow the flag but what may come of
  it: within a call 0x03 is not un-touched, never becomes empty, and is touched only
  while it is empty (`Lasts`). So at the checkpoint of every open call 0x03 was either touched or
  empty if it is touched now, and once a rollback has led back to that checkpoint, touching it
  again takes effect; what `Fail` sampled says that it has to be.

The proof found two places where the model was right only for the constants of the runs: the
initial views had to be well-formed, and before Spurious Dragon contracts without code could be
created twice if addresses collided. Both are assumptions now and are evaluated in the runs.

### Transactions and blocks

`BlockProofs` (6925 obligations) is about all accounts, views, transactions, system contracts,
outcomes, gas results and numbers of transactions. `GasWithinLimits` holds for every revision:
what validation reserves in either dimension covers what a receipt charges there, for every
gas result (`ValidatedIsAfforded`). `BalIsComplete`, `BalIsMinimal`, `SupplyIsAccounted` and
`AuthorizationsAreReverted` are about Amsterdam, the revision that has an access list, state gas
and accounts that are deleted with their balances kept; for earlier ones the list is empty, and
`SupplyAccounted`, of which only its first part speaks about them, is not proved.

A step of Block is a whole transaction, so the invariant of the block (`BlockInv`) says little and
the lemmas about one transaction say most. All of them are about a state that is `Exact` for the
view: every account `Follows` what the view has of it. It is not yet loaded and untouched, or
its nonce is at least that of the view, its original slots are those of the view, it is
destructed only if created in this transaction, and created only where there was neither nonce
nor code nor storage. A `Blank` account, one without nonce and code, has had no storage written
and has lost no balance. That is what makes deleting it harmless, as the diff and the list say
nothing of the storage of an account that is deleted because it is empty.

- Every operation of `State` and `HostMethods` keeps this. Those that only look something up are
  `Quiet`; the others are `Moves`, which keep the sum of all balances. The payer of a transfer
  is never blank, as it is the sender, whose nonce is bumped first, or has code.
- A transaction folds over its authorizations, a system call over its contracts, the end of the
  block over its withdrawals, `record_diff()` over the accounts. Each fold goes through
  `FoldLabels`, the results after each of its elements, which exist by a smallest set of indices
  for which they would not (`FoldExists`).
- `Waits` says of an account how many authorizations are applied to it and not yet
  reverted, and whether one of these remembers its code. Reverting goes through the list in its
  order and subtracts from the nonce, so that one nonce may in between be lower than that of the
  view: `LooseAccount` lets it be any integer until the last entry is reverted.
- `DiffApplies`: the diff of an exact state, applied to the view, is the next view, well-formed
  again, with the balances that the state holds.
- `BalOK` says of the builder, after each index, that every list of changes is increasing and has
  no change that is none (`ListOK`), that it gives the value of the field at each earlier index
  (`HistoryOK`), and what it gives now is the current view (`ListsAt`). `record()` compares a
  new value with the last one in the list and takes the entry of the same index away first; the last
  two diffs of a block share an index, and a value may return to what it was before it
  (`FrontList`, `AppendedList`).

TLC finds `BlockInv` to hold in all states of the run `block`, too. The proofs assume the types of
the inputs (`MessageAssumption`, `TransactionAssumption`, `OutcomeAssumption`,
`FinalizationAssumption`, `SystemAssumption` and others), that addresses are finitely many and
that the marker of an authorization without a code hash is no code (`HashAssumption`). The one
that says something about the chain is `ViewAssumption`: before the block, an account that does
not exist has nothing, and an empty one has no storage. `bal.cpp` asserts as much: only an
account that was created or is empty is deleted. Accounts with a balance and storage but without
nonce and code are allowed.

### The other components

- `StateGasProofs` (2781 obligations, from `CostAssumption` and `SetAssumption`): `Invariance`,
  then `TypeCorrect`, `PoolsAreExclusive` and `NoGasIsMinted`. None of the three properties is
  inductive alone. A refill moves gas from `spilled` back to `gas`, and a frame may refill
  what a caller has charged; that no counter becomes negative follows only if a callee's
  `msg_state_gas` is what its caller has `left`, and if what a callee was given is
  covered by what its caller still holds. `IndInv` is `TypeOK`, `GoodStack` (each frame
  well-formed, and covered by the one below) and `PhaseOK` (what the phase says of the number
  of frames). One lemma per action shows it kept, over lemmas on `Charge`, `Refill`, `Absorb`
  and `FrameResult` as functions of a frame. `CostAssumption` asks of the costs only that the
  stipend is no more than the price of a call with value.
  `FramesPay` and `BillPaysGrowth` need `PayInv`: what every waiting frame has used is the
  growth of the state between its own start and its call, and what the running one has used
  is the growth since its start. The growth is counted by the cardinalities of the sets of
  new slots and accounts, which the library's theorems on finite sets give.
- `VMProofs` (1559 obligations, from `VMAssumption` and `OsakaAssumption`): `Isolation`,
  `ContextIsCurrent`, `TracersAgree` and `DepthBounded`. `Framed` says that the state at each
  depth belongs to the execution at that depth and is as it left it, `Room` that the vector
  of states is never reallocated. From Osaka on nothing but gas bounds the depth: with 63 * 111
  added to the gas an execution is given, a call leaves its callee at most 63/64 of that sum,
  and 496 calls later (`FadesOut`, by 16 and then 64 calls at a time) less is left than a
  call needs; of the gas of a system call, which is more, that is so after 532 (`FadesOutLater`). The
  theorem is that no more than 500 executions are active under a transaction, and no more than 540
  under a system call. `OsakaAssumption` says that a call costs at least 112, that a
  transaction has at most `MAX_TX_GAS_LIMIT`, and that a system call has at most
  `SYSTEM_CALL_GAS`.
- `InterpretersProofs` (2229 obligations, from `InstructionsAssumption` and
  `InterpretersAssumption`): `UncheckedAccesses`. The analysis is given labels: for every
  instruction the height of the stack above that at the beginning of its block, and what the
  block requires and how far it grows (`Analysis`). While the code is scanned, the labels of
  the blocks that are closed do not change; while it is executed, the stack is as high as the
  label says (`Fits`). BlockInfo may hold less than a block requires, as it has 16 bits, but then
  it holds more than the stack limit (`ClampedRequirements`). For Baseline the position stays
  within the padding after the code.
- `LRUCacheProofs` (966 obligations, from the capacity being positive): `LinkedAlways` and
  `Refinement`. `Linked` with the types is inductive. The refinement shows that the order of
  the list is the recency of the keys, also when `put()` swaps the key inside the node that it
  evicts; `MoveFacts` is what `splice()` does to a sequence.
- `InstructionProofs` (1747 obligations) on Memory, from `MemoryAssumption`: `MemoryInvariance`, then
  `MemoryTypeCorrect`, `CostExact`, `AccessesInBounds` and `FreshMemoryIsZero`. The heart is
  `OneWordIsExact`: the 32-bit shortcut for one more word equals the difference of the
  quadratic costs although the square has wrapped around, as 512 divides 2^32 and the rest
  of the sum does not wrap. That needs the memory to have few words, hence `SizeBound` in the
  invariant. `MemoryAssumption` holds for 2^32 and 2^32 - 1: twice the words of two buffers
  and 2048 are fewer than 2^32. `CheckKeeps` shows that a check which passes leaves the range
  inside the memory, `FillKeeps` that bytes not written are zero.
  On StorageInstructions, from `StorageAssumption`: `NetCosting`, that `SstoreNetCost` holds in
  all executions of `StorageSpec`, and so of InstructionSet, where the same actions work on the
  same variables. The property speaks of totals over all running calls, and a failing call takes
  its part out of all of them and puts the slot back; `StorageInv` therefore keeps a ledger of
  what the first calls have spent together, and says that each of its entries is settled for the
  slot as it was when the next call began (`Accounted`). A net store moves both sides of
  `Settled` by the same amount, whichever of the nine statuses it has (`NetStore`), and no price
  is cut off by `int16_t` (`NetPrices`). The refund counter is not negative because
  it is at least the refund for the slot being cleared. `Reserved` says the same of the state gas. The
  totals are a fold in no given order, which `SumIsLast` shows to be the last entry of the ledger.

### Only model-checked

- The revisions before Amsterdam of `SupplyAccounted` (no balance is overdrawn): an account that
  destructs itself burns its balance there, which `Moves` excludes.
- `SameOutcome` of Interpreters: it relates two executions through the sums over a block that
  one of them makes in advance.
- All of Arithmetic, whose functions are recursive and use bit operations, and
  `DataMovesExact`, which compares memories byte by byte.
- `Terminates`: the prover has no liveness under fairness.
- The violations of `vm_options` and `additions`.

## Not modelled

- Hash functions (Keccak, SHA-256, RIPEMD-160, BLAKE2b): rounds of bit operations without a
  smaller instance that would say something about them, and without a definition to compare
  them with other than the same rounds. BLS12-381 and KZG call blst, which is not part of
  the repository.
- `g2_subgroup_check()` of bn254, as said above.
- Environment instructions other than BLOCKHASH: they push a field of the transaction's
  context, whose freshness is `TxContextCurrent` of VM.
- Precompile dispatch: the costs per revision and the table of calls.
- In Host: EIP-7702 delegated code (Transaction has it at the top level), block hashes and the
  transaction context. In Transaction: the intrinsic costs, which are inputs, calls of
  precompiles, and the checks of a transaction's own fields. In Block: the contents of
  requests, the bloom filter, the hash and the item limit of the access list.
- The computed-goto variant of the dispatch loop: the same loop, unrolled by the compiler's
  labels.
- Most of `evmc.h` and `evmc.hpp`: types, value classes and forwarding functions.
- Loaders, runners, command line, JSON: input and output.

## Plan

1. Intrinsic costs and the costs of precompiles as pure functions; EIP-7702 delegation in
   nested calls of Host.
2. Base fee, blob fee and difficulty as pure functions.
3. MPT insertion against a map; RLP decoding against encoding; the chain handling of the
   blockchain test runner.
4. Proofs: that Montgomery reduction is exact for every odd modulus (`FieldsExact`), in a
   module without bit operations; `SupplyAccounted` before Amsterdam,
   with `Moves` weakened to what may be burnt.
