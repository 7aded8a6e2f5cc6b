----------------------------- MODULE HostMethods -----------------------------
(***************************************************************************)
(* The methods of the class Host (test/state/host.cpp) that read and       *)
(* change accounts, as operators on State: what they load, what they       *)
(* journal and what they change.  Host.tla makes them the steps of nested  *)
(* calls; Block.tla composes them into whole transactions.                 *)
(***************************************************************************)
EXTENDS State

CONSTANTS
    Rev,              \* m_rev
    Precompiles       \* addresses of the active precompiles

ASSUME RevAssumption == Rev \in Revisions

SYSTEM_ADDRESS == "system"

AccessAccount(s, a) ==
    IF Rev < BERLIN \/ a \in Precompiles \/ s.modified[a].warm THEN s
    ELSE [JournalAccountFlags(s, a) EXCEPT !.modified[a].warm = TRUE]

AccessStorage(s, a, k) ==
    IF s.modified[a].storage[k].warm THEN s
    ELSE [JournalStorageChange(s, a, k)
            EXCEPT !.modified[a].storage[k].warm = TRUE]

SetStorage(s, a, k, v) ==
    [JournalStorageChange(GetStorage(s, a, k), a, k)
       EXCEPT !.modified[a].storage[k].current = v]

SetTransientStorage(s, a, k, v) ==
    [JournalTransientStorageChange(Get(s, a), a, k)
       EXCEPT !.modified[a].transient_storage[k] = v]

\* Journals both balances, then moves the value from one to the other.
Transfer(s, from, to, value) ==
    LET s1 == JournalBalanceChange(JournalBalanceChange(s, from), to)
        s2 == [s1 EXCEPT !.modified[from].balance = @ - value]
    IN  [s2 EXCEPT !.modified[to].balance = @ + value]

EmitTransferLog(l, from, to, value) ==
    IF Rev < AMSTERDAM \/ value = 0 \/ from = to THEN l
    ELSE Append(l, SYSTEM_ADDRESS)

\* Wrong variant: the balance is zeroed last, whoever the beneficiary is.
BugSelfdestructBalances(s, a, b) ==
    [[s EXCEPT !.modified[b].balance = @ + s.modified[a].balance]
       EXCEPT !.modified[a].balance = 0]

\* The balance moved by selfdestruct(); the account itself as beneficiary
\* keeps it from Cancun unless just created, and always from Amsterdam.
SelfdestructBalances(s, a, b) ==
    LET balance == s.modified[a].balance
        keeps   == Rev >= CANCUN /\ ~s.modified[a].just_created
    IN  IF keeps
        THEN [[s EXCEPT !.modified[a].balance = 0]
                EXCEPT !.modified[b].balance = @ + balance]
        ELSE IF Rev < AMSTERDAM \/ a # b
        THEN [[s EXCEPT !.modified[b].balance = @ + balance]
                EXCEPT !.modified[a].balance = 0]
        ELSE s

\* Wrong variant: the rule of before Cancun.
BugSelfdestruct(s, a, b) ==
    LET s1 == Touch(Get(s, a), b)
        s2 == JournalBalanceChange(JournalBalanceChange(s1, b), a)
        s3 == SelfdestructBalances(s2, a, b)
    IN  IF s3.modified[a].destructed THEN s3
        ELSE [JournalAccountFlags(s3, a) EXCEPT !.modified[a].destructed = TRUE]

Selfdestruct(s, a, b) ==
    LET s1 == Touch(Get(s, a), b)
        s2 == JournalBalanceChange(JournalBalanceChange(s1, b), a)
        s3 == SelfdestructBalances(s2, a, b)
        acc == s3.modified[a]
    IN  IF (Rev >= CANCUN /\ ~acc.just_created) \/ acc.destructed THEN s3
        ELSE [JournalAccountFlags(s3, a) EXCEPT !.modified[a].destructed = TRUE]

\* Wrong variant: a nonce is no collision.
BugIsCreateCollision(acc) == acc.code_hash # NoCode \/ acc.has_initial_storage

IsCreateCollision(acc) ==
    acc.nonce # 0 \/ acc.code_hash # NoCode \/ acc.has_initial_storage

\* create() fails on a collision with an existing account ...
Collides(s, a) ==
    LET acc == Get(s, a).modified[a]
    IN  ~acc.nonexistent /\ IsCreateCollision(acc)

\* ... and otherwise sets up the new account before running the initcode.
NewContract(s, sender, a, value) ==
    LET s1 == GetOrCreate(s, a)
        s2 == IF Get(s, a).modified[a].nonexistent THEN s1
              ELSE JournalCreate(s1, a)
        s3 == [s2 EXCEPT !.modified[a].nonce =
                            IF Rev >= SPURIOUS_DRAGON THEN 1 ELSE @,
                         !.modified[a].just_created = TRUE]
    IN  Transfer(Get(s3, sender), sender, a, value)

DeployCode(s, a, code) ==
    IF code = NoCode THEN s
    ELSE [s EXCEPT !.modified[a] = [@ EXCEPT !.code_hash = code, !.code = code,
                                             !.code_changed = TRUE]]

\* The touch or value transfer execute_message() does for a call message.
CallEffects(s, kind, sender, recipient, value) ==
    IF kind # "CALL" THEN s
    ELSE IF value = 0 THEN Touch(s, recipient)
    ELSE Transfer(Get(GetOrCreate(s, recipient), sender), sender, recipient, value)
=============================================================================
