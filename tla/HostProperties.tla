--------------------------- MODULE HostProperties ---------------------------
(***************************************************************************)
(* What makes the State and its Host correct.                              *)
(***************************************************************************)
EXTENDS Host, FiniteSetsExt

(* The assertions of State hold.  Those of get() and build_diff(): an      *)
(* account that is not loaded, or does not exist, holds no change that     *)
(* could be lost.  Those of rollback(), for every entry it undoes: an      *)
(* entry is never replayed on an account whose creation is already undone, *)
(* a nonce is never decremented below zero, and an account being           *)
(* un-created has had its balance taken away already.  Unsigned nonces and *)
(* balances never wrap around, rollback included.                          *)
StateAssertions ==
    /\ state.modified \in [Addr -> Account]
    /\ \A a \in Addr :
         LET acc == state.modified[a]
         IN  ~acc.loaded \/ acc.nonexistent => HoldsNoChange(acc)
    /\ RollingBack /\ Len(state.journal) > Top.state_checkpoint =>
         LET e == state.journal[Len(state.journal)]
         IN  UndoAsserts(state.modified[e.acc], e)

(* The assertions of Host hold.  create(), is_create_collision(): a create *)
(* that the collision check lets through finds a clean account.            *)
(* get_storage(), set_storage(), selfdestruct(), create(): the account a   *)
(* frame executes for exists and is loaded.                                *)
HostAssertions ==
    /\ Running =>
         LET self == Top.recipient
         IN  \A a \in CreateTargets(self, state.modified[self].nonce) :
                LET acc == Get(state, a).modified[a]
                IN  ~Collides(state, a) =>
                      acc.nonce = 0 /\ ~acc.just_created /\ ~acc.code_changed
                        /\ ~acc.destructed
    /\ ~RollingBack =>
         \A i \in DOMAIN frames :
            frames[i].exec = "code" /\ frames[i].step = "run" =>
                LET acc == state.modified[frames[i].recipient]
                IN  acc.loaded /\ ~acc.nonexistent

(* The code cache never holds anything but the code of the current code    *)
(* hash: no frame executes, and no diff reports, the code of a reverted    *)
(* creation.                                                               *)
CodeCacheCoherent ==
    \A a \in Addr :
        LET acc == state.modified[a]
        IN  /\ acc.code # NoCode => acc.code = acc.code_hash
            /\ acc.code_changed => acc.code = acc.code_hash

(* A read stays a read: neither rollback nor anything else before the end  *)
(* of the transaction makes an account or a slot not loaded (EIP-7928).    *)
ReadsAreKept ==
    [][phase # "returned" =>
         \A a \in Addr :
            /\ state.modified[a].loaded => state'.modified[a].loaded
            /\ \A k \in Key : state.modified[a].storage[k].loaded
                                => state'.modified[a].storage[k].loaded]_vars

-----------------------------------------------------------------------------
(* Conservation of the ether supply. *)

Supply(view) == MapThenSumSet(LAMBDA a : view[a].balance, Addr)

(* No ether is ever created by executing calls, failing calls, creating    *)
(* and destructing accounts; from Amsterdam none is destroyed either       *)
(* (EIP-8246).  The gas bought by the sender is in escrow meanwhile.       *)
SupplyConserved ==
    phase # "idle" /\ ~RollingBack =>
        LET total == Supply(World(state)) + GasLimit * GasPrice
        IN  /\ total <= Supply(state.initial)
            /\ Rev >= AMSTERDAM => total = Supply(state.initial)

(* Settling the transaction burns the base fee of the gas used, and from   *)
(* Amsterdam nothing else: a self-destructed account keeps its balance.    *)
SupplySettled ==
    [][phase = "returned" /\ phase' = "idle" =>
         \E gas_used \in 1..GasLimit :
            LET left == Supply(state.initial) - gas_used * BaseFee
            IN  /\ Supply(state'.initial) <= left
                /\ Rev >= AMSTERDAM => Supply(state'.initial) = left]_vars

-----------------------------------------------------------------------------
WorldAccountEmpty(w) == w.nonce = 0 /\ w.balance = 0 /\ w.code = NoCode

\* What the state must be after the transaction, by the observable world:
\* destructed and touched empty accounts are gone, all others as observed.
FinalAccount(w) ==
    LET gone == NoAccount
    IN  IF ~w.exists THEN gone
        ELSE IF w.destructed
        THEN IF Rev >= AMSTERDAM /\ w.balance # 0
             THEN [gone EXCEPT !.exists = TRUE, !.balance = w.balance]
             ELSE gone
        ELSE IF w.erase_if_empty /\ WorldAccountEmpty(w) /\ Rev >= SPURIOUS_DRAGON
        THEN gone
        ELSE [exists |-> TRUE, nonce |-> w.nonce, balance |-> w.balance,
              code |-> w.code, storage |-> w.storage]

(* The state diff says exactly what the transaction did: applied to the    *)
(* initial state it gives the world observed at the end of the             *)
(* transaction, whatever was loaded, reverted or recreated on the way.     *)
DiffIsExact ==
    [][phase = "returned" /\ phase' = "idle" =>
         \E gas_used \in 1..GasLimit :
            LET w == World(Settle(state, tx.sender, gas_used))
            IN  state'.initial = [a \in Addr |-> FinalAccount(w[a])]]_vars

-----------------------------------------------------------------------------
(* Refinement: the journal implements nested calls with checkpoints.  The  *)
(* steps of rollback() are work inside the call; the abstract failure is   *)
(* the step that closes the frame, when the world must be restored.        *)

Abstract ==
    INSTANCE NestedCalls WITH
        world <- World(state), log <- logs, status <- status,
        saved <- [i \in DOMAIN frames |-> frames[i].checkpoint]

(* A failed call restores the world and the logs of its checkpoint.        *)
ImplementsNestedCalls == Abstract!ASpec

-----------------------------------------------------------------------------
(* The touch of 0x03.  A history variable remembers whether the RIPEMD-160 *)
(* precompile was touched in the transaction in progress, be the call that *)
(* did it reverted by now or not.                                          *)

VARIABLE was_touched

(* Nobody has a key of 0x03 or a creation with this address, and no code   *)
(* is executed for it: it is a precompile.                                 *)
ASSUME RipemdAssumption ==
    /\ RIPEMD \in Precompiles
    /\ \A t \in Transactions : t.sender # RIPEMD
    /\ \A p \in DOMAIN CreateAddress : CreateAddress[p] # RIPEMD
    /\ \A a \in DOMAIN Create2Address : RIPEMD \notin Create2Address[a]

RipemdFlag == state.modified[RIPEMD].erase_if_empty

(* What is seen half-way through rollback() is nobody's touch.             *)
History ==
    was_touched' = (phase' # "idle" /\ (was_touched \/ (~RollingBack' /\ RipemdFlag')))

TouchInit == Init /\ was_touched = FALSE
TouchNext == Next /\ History
TouchSpec == TouchInit /\ [][TouchNext]_<<vars, was_touched>>

(* The touch of 0x03 is never reverted: once made, by a call or as the     *)
(* beneficiary of a self-destruct, at any depth, it is there whenever an   *)
(* instruction, a caller or build_diff() looks, however many of the calls  *)
(* around it have failed since.                                            *)
RipemdTouchIsKept ==
    TouchSurvives /\ was_touched /\ ~RollingBack => RipemdFlag
=============================================================================
