------------------------------- MODULE State -------------------------------
(***************************************************************************)
(* The class State (test/state/state.hpp, state.cpp) and the accounts it   *)
(* keeps (account.hpp): the accounts read or modified by a transaction on  *)
(* top of the read-only initial state, and the journal that lets a failed  *)
(* call be undone.                                                         *)
(*                                                                         *)
(* A State is the record [initial, modified, journal] of the class's three *)
(* members; its methods are operators from a State to a State.  The maps   *)
(* m_modified, Account::storage and Account::transient_storage are total   *)
(* functions: the code reads them with operator[], so an absent entry and  *)
(* a default-constructed one are the same.  A code and its hash are the    *)
(* same model value, NoCode standing for the empty code in both roles.     *)
(***************************************************************************)
EXTENDS Integers, Sequences, FiniteSets, Revision

CONSTANTS
    Addr,     \* addresses
    Key,      \* storage keys
    Val,      \* storage values, 0 included
    Code,     \* non-empty contract codes
    NoCode    \* the empty code, and the not-loaded code cache

\* Addresses are 20 bytes.
ASSUME AddrAssumption == IsFiniteSet(Addr)
ASSUME ValAssumption  == Val \subseteq Nat /\ 0 \in Val
ASSUME CodeAssumption == NoCode \notin Code

Codes == Code \cup {NoCode}

-----------------------------------------------------------------------------
(* Data types. *)

\* A StateView account; [exists |-> FALSE] is the missing account.
ViewAccount ==
    [exists : BOOLEAN, nonce : Nat, balance : Nat, code : Codes,
     storage : [Key -> Val]]

NoAccount ==
    [exists |-> FALSE, nonce |-> 0, balance |-> 0, code |-> NoCode,
     storage |-> [k \in Key |-> 0]]

StorageValue ==
    [current : Val, original : Val, warm : BOOLEAN, loaded : BOOLEAN]

NewSlot ==
    [current |-> 0, original |-> 0, warm |-> FALSE, loaded |-> FALSE]

Account ==
    [nonce : Nat, balance : Nat, code_hash : Codes, code : Codes,
     storage : [Key -> StorageValue], transient_storage : [Key -> Val],
     warm : BOOLEAN, loaded : BOOLEAN, nonexistent : BOOLEAN,
     destructed : BOOLEAN, erase_if_empty : BOOLEAN, just_created : BOOLEAN,
     code_changed : BOOLEAN, has_initial_storage : BOOLEAN]

NewAccount ==
    [nonce |-> 0, balance |-> 0, code_hash |-> NoCode, code |-> NoCode,
     storage |-> [k \in Key |-> NewSlot],
     transient_storage |-> [k \in Key |-> 0],
     warm |-> FALSE, loaded |-> FALSE, nonexistent |-> FALSE,
     destructed |-> FALSE, erase_if_empty |-> FALSE, just_created |-> FALSE,
     code_changed |-> FALSE, has_initial_storage |-> FALSE]

JournalEntry ==
    [t : {"balance"}, acc : Addr, prev_balance : Nat]
      \cup
    [t : {"flags"}, acc : Addr, warm : BOOLEAN, nonexistent : BOOLEAN,
     destructed : BOOLEAN, erase_if_empty : BOOLEAN]
      \cup
    [t : {"storage"}, acc : Addr, key : Key, prev_value : Val,
     prev_warm : BOOLEAN, prev_loaded : BOOLEAN]
      \cup
    [t : {"transient"}, acc : Addr, key : Key, prev_value : Val]
      \cup
    [t : {"nonce", "create"}, acc : Addr]

StateType ==
    [initial : [Addr -> ViewAccount], modified : [Addr -> Account],
     journal : Seq(JournalEntry)]

NewState(view) ==
    [initial |-> view, modified |-> [a \in Addr |-> NewAccount],
     journal |-> << >>]

IsEmpty(acc) == acc.nonce = 0 /\ acc.balance = 0 /\ acc.code_hash = NoCode

-----------------------------------------------------------------------------
(* Lookups.  They may load from the initial state; a load is not journaled. *)

LoadAccount(acc, view) ==
    IF view.exists
    THEN [acc EXCEPT !.loaded = TRUE, !.nonce = view.nonce,
                     !.balance = view.balance, !.code_hash = view.code,
                     !.has_initial_storage = \E k \in Key : view.storage[k] # 0]
    ELSE [acc EXCEPT !.loaded = TRUE, !.nonexistent = TRUE]

Get(s, a) ==
    IF s.modified[a].loaded THEN s
    ELSE [s EXCEPT !.modified[a] = LoadAccount(@, s.initial[a])]

GetCode(s, a) ==
    LET s1  == Get(s, a)
        acc == s1.modified[a]
    IN  IF acc.code_hash # NoCode /\ acc.code = NoCode
        THEN [s1 EXCEPT !.modified[a].code = s.initial[a].code]
        ELSE s1

\* Creates a missing account without journaling: only before execution.
GetOrInsert(s, a) ==
    LET s1 == Get(s, a)
    IN  IF s1.modified[a].nonexistent
        THEN [s1 EXCEPT !.modified[a] = [@ EXCEPT !.nonexistent = FALSE,
                                                  !.erase_if_empty = TRUE]]
        ELSE s1

GetStorage(s, a, k) ==
    IF s.modified[a].storage[k].loaded THEN s
    ELSE [s EXCEPT !.modified[a].storage[k] =
              [@ EXCEPT !.loaded   = TRUE,
                        !.original = s.initial[a].storage[k],
                        !.current  = s.initial[a].storage[k]]]

-----------------------------------------------------------------------------
(* Journaling: each operator records what the following change overwrites.  *)

Journal(s, e) == [s EXCEPT !.journal = Append(@, e)]

JournalBalanceChange(s, a) ==
    Journal(s, [t |-> "balance", acc |-> a,
                prev_balance |-> s.modified[a].balance])

JournalStorageChange(s, a, k) ==
    LET slot == s.modified[a].storage[k]
    IN  Journal(s, [t |-> "storage", acc |-> a, key |-> k,
                    prev_value |-> slot.current, prev_warm |-> slot.warm,
                    prev_loaded |-> slot.loaded])

JournalTransientStorageChange(s, a, k) ==
    Journal(s, [t |-> "transient", acc |-> a, key |-> k,
                prev_value |-> s.modified[a].transient_storage[k]])

JournalBumpNonce(s, a) == Journal(s, [t |-> "nonce", acc |-> a])

JournalCreate(s, a) == Journal(s, [t |-> "create", acc |-> a])

JournalAccountFlags(s, a) ==
    LET acc == s.modified[a]
    IN  Journal(s, [t |-> "flags", acc |-> a, warm |-> acc.warm,
                    nonexistent |-> acc.nonexistent,
                    destructed |-> acc.destructed,
                    erase_if_empty |-> acc.erase_if_empty])

-----------------------------------------------------------------------------
(* Revertible changes. *)

GetOrCreate(s, a) ==
    LET s1 == Get(s, a)
    IN  IF s1.modified[a].nonexistent
        THEN [JournalAccountFlags(s1, a)
                EXCEPT !.modified[a].nonexistent = FALSE]
        ELSE s1

Touch(s, a) ==
    LET s1  == Get(s, a)
        acc == s1.modified[a]
    IN  IF ~acc.erase_if_empty /\ IsEmpty(acc)
        THEN [JournalAccountFlags(s1, a)
                EXCEPT !.modified[a].nonexistent = FALSE,
                       !.modified[a].erase_if_empty = TRUE]
        ELSE s1

-----------------------------------------------------------------------------
(* Rollback.  Undo is the loop body: what one journal entry restores. *)

\* Wrong variant: the cached code is forgotten.
BugClearValueCode(acc) ==
    [acc EXCEPT !.nonce = 0, !.code_hash = NoCode,
                !.just_created = FALSE, !.code_changed = FALSE]

ClearValue(acc) ==
    [acc EXCEPT !.nonce = 0, !.code_hash = NoCode, !.code = NoCode,
                !.just_created = FALSE, !.code_changed = FALSE]

\* Wrong variants: the value of an un-created account, or the access status,
\* is left behind.
BugUndoFlagsValue(acc, e) ==
    [acc EXCEPT !.warm = e.warm, !.destructed = e.destructed,
                !.erase_if_empty = e.erase_if_empty, !.nonexistent = e.nonexistent]

BugUndoFlagsWarm(acc, e) ==
    LET restored == [acc EXCEPT !.destructed = e.destructed,
                                !.erase_if_empty = e.erase_if_empty]
    IN  IF e.nonexistent
        THEN ClearValue([restored EXCEPT !.nonexistent = TRUE])
        ELSE restored

UndoFlags(acc, e) ==
    LET restored == [acc EXCEPT !.warm = e.warm, !.destructed = e.destructed,
                                !.erase_if_empty = e.erase_if_empty]
    IN  IF e.nonexistent
        THEN ClearValue([restored EXCEPT !.nonexistent = TRUE])
        ELSE restored

\* Wrong variants: the slot is un-loaded; the value of a slot that was warmed
\* before it was loaded is overwritten.
BugUndoStorageLoaded(slot, e) ==
    [slot EXCEPT !.current = IF e.prev_loaded THEN e.prev_value ELSE @,
                 !.warm = e.prev_warm, !.loaded = e.prev_loaded]

BugUndoStorageValue(slot, e) ==
    [slot EXCEPT !.current = e.prev_value, !.warm = e.prev_warm]

UndoStorage(slot, e) ==
    [slot EXCEPT !.current = IF e.prev_loaded THEN e.prev_value ELSE @,
                 !.warm = e.prev_warm]

UndoAccount(acc, e) ==
    CASE e.t = "nonce"     -> [acc EXCEPT !.nonce = @ - 1]
      [] e.t = "flags"     -> UndoFlags(acc, e)
      [] e.t = "create"    -> ClearValue(acc)
      [] e.t = "storage"   -> [acc EXCEPT !.storage[e.key] = UndoStorage(@, e)]
      [] e.t = "transient" ->
             [acc EXCEPT !.transient_storage[e.key] = e.prev_value]
      [] e.t = "balance"   -> [acc EXCEPT !.balance = e.prev_balance]

\* The assertions rollback() makes before it applies entry e to account acc.
UndoAsserts(acc, e) ==
    /\ e.t \in {"nonce", "create", "balance"} => ~acc.nonexistent
    /\ e.t = "nonce" => acc.nonce > 0
    /\ e.t = "flags" /\ e.nonexistent => acc.balance = 0
    /\ e.t = "storage" /\ ~e.prev_loaded =>
           acc.storage[e.key].current = acc.storage[e.key].original

\* One iteration of the loop of rollback(): the newest entry.
UndoLast(s) ==
    LET n == Len(s.journal)
        e == s.journal[n]
    IN  [s EXCEPT !.modified[e.acc] = UndoAccount(@, e),
                  !.journal = SubSeq(@, 1, n - 1)]

-----------------------------------------------------------------------------
(* The diff of the transaction and its application to the initial state.   *)

HoldsNoChange(acc) ==
    /\ IsEmpty(acc)
    /\ ~acc.destructed /\ ~acc.erase_if_empty
    /\ ~acc.just_created /\ ~acc.code_changed
    /\ \A k \in Key : acc.storage[k].current = acc.storage[k].original

Unchanged == [op |-> "unchanged"]
Deleted   == [op |-> "deleted"]

ModifiedAccount(acc) ==
    LET changed == {k \in Key : acc.storage[k].current # acc.storage[k].original}
    IN  [op |-> "modified", nonce |-> acc.nonce, balance |-> acc.balance,
         has_code |-> acc.code_changed, code |-> acc.code,
         storage |-> [k \in changed |-> acc.storage[k].current]]

\* A wrong variant: an account created and destructed is still reported.
BugDiffEntryKeep(acc, rev) ==
    IF ~acc.loaded \/ acc.nonexistent THEN Unchanged
    ELSE IF acc.destructed /\ ~acc.just_created THEN Deleted
    ELSE IF acc.erase_if_empty /\ rev >= SPURIOUS_DRAGON /\ IsEmpty(acc)
    THEN IF acc.just_created THEN Unchanged ELSE Deleted
    ELSE ModifiedAccount(acc)

\* What build_diff() reports of one account of m_modified.
DiffEntry(acc, rev) ==
    IF ~acc.loaded \/ acc.nonexistent THEN Unchanged
    ELSE IF acc.destructed
    THEN IF rev >= AMSTERDAM /\ acc.balance # 0
         THEN [op |-> "modified", nonce |-> 0, balance |-> acc.balance,
               has_code |-> FALSE, code |-> NoCode, storage |-> << >>]
         ELSE Deleted
    ELSE IF acc.erase_if_empty /\ rev >= SPURIOUS_DRAGON /\ IsEmpty(acc)
    THEN IF acc.just_created THEN Unchanged ELSE Deleted
    ELSE ModifiedAccount(acc)

BuildDiff(s, rev) ==
    [accounts |-> [a \in Addr |-> DiffEntry(s.modified[a], rev)],
     reads |-> [a \in {b \in Addr : rev >= AMSTERDAM /\ s.modified[b].loaded} |->
                   {k \in Key : s.modified[a].storage[k].loaded}]]

\* TestState::apply() on one account of the view.
ApplyEntry(view, d) ==
    CASE d.op = "unchanged" -> view
      [] d.op = "deleted"   -> NoAccount
      [] d.op = "modified"  ->
           [exists |-> TRUE, nonce |-> d.nonce, balance |-> d.balance,
            code |-> IF d.has_code THEN d.code ELSE view.code,
            storage |-> [k \in Key |-> IF k \in DOMAIN d.storage
                                       THEN d.storage[k] ELSE view.storage[k]]]

ApplyDiff(view, diff) ==
    [a \in Addr |-> ApplyEntry(view[a], diff.accounts[a])]
=============================================================================
