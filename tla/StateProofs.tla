----------------------------- MODULE StateProofs -----------------------------
(***************************************************************************)
(* The State and its journal, for all accounts, keys, values and codes:    *)
(* every operation of the host extends the journal by entries that, undone *)
(* one by one from the newest, lead back through the worlds in between to  *)
(* the world before the operation.                                         *)
(***************************************************************************)
EXTENDS Host, SequenceTheorems, TLAPS

-----------------------------------------------------------------------------
(* Worlds. *)

Observation ==
    [exists : BOOLEAN, nonce : Nat, balance : Nat, code : Codes,
     has_code : BOOLEAN, storage : [Key -> Val], warm_storage : [Key -> BOOLEAN],
     transient_storage : [Key -> Val], warm : BOOLEAN, destructed : BOOLEAN,
     erase_if_empty : BOOLEAN, just_created : BOOLEAN, code_changed : BOOLEAN]

Worlds == [Addr -> Observation]

\* An account that does not exist, or no longer, holds nothing.
AbsentOK(o, view) ==
    ~o.exists =>
        /\ ~view.exists
        /\ o.nonce = 0 /\ o.balance = 0 /\ o.code = NoCode
        /\ ~o.destructed /\ ~o.erase_if_empty
        /\ \A k \in Key : o.storage[k] = view.storage[k]

\* What has become of the code since the initial state.
CodeOK(o, view) ==
    /\ o.has_code <=> o.code # NoCode
    /\ o.code_changed => o.code # NoCode /\ o.just_created
    /\ ~o.code_changed => o.code = view.code

\* Only an account without code and storage is created, and only a contract
\* is destructed.
LifeOK(o, view) ==
    /\ o.just_created => /\ o.exists
                         /\ view.code = NoCode
                         /\ \A k \in Key : view.storage[k] = 0
    /\ o.destructed => /\ o.just_created \/ o.code # NoCode
                       /\ Rev >= CANCUN => o.just_created

ObservationOK(o, view) ==
    o \in Observation /\ AbsentOK(o, view) /\ CodeOK(o, view) /\ LifeOK(o, view)

\* A created account cannot be created once more: it has a nonce, or before
\* Spurious Dragon its creator has gone past the nonce that gives its address.
CreatedBy(w, a) ==
    \E p \in DOMAIN CreateAddress : CreateAddress[p] = a /\ w[p[1]].nonce > p[2]

CreatedOK(w, a) ==
    w[a].just_created =>
        IF Rev >= SPURIOUS_DRAGON THEN w[a].nonce > 0 ELSE CreatedBy(w, a)

WorldOK(w, views) ==
    /\ w \in Worlds
    /\ \A a \in Addr : ObservationOK(w[a], views[a]) /\ CreatedOK(w, a)

\* What only a failure takes back.
Growth(o, o2) ==
    /\ o.exists => o2.exists
    /\ o.just_created => o2.just_created
    /\ o.code # NoCode => o2.code # NoCode
    /\ o.nonce <= o2.nonce

Grows(w, w2) == \A a \in Addr : Growth(w[a], w2[a])

-----------------------------------------------------------------------------
(* What undoing a journal entry does to the world. *)

Clears(e) == e.t = "create" \/ (e.t = "flags" /\ e.nonexistent)

UndoObservation(o, e) ==
    [exists |-> o.exists /\ ~(e.t = "flags" /\ e.nonexistent),
     nonce |-> IF Clears(e) THEN 0 ELSE IF e.t = "nonce" THEN o.nonce - 1 ELSE o.nonce,
     balance |-> IF e.t = "balance" THEN e.prev_balance ELSE o.balance,
     code |-> IF Clears(e) THEN NoCode ELSE o.code,
     has_code |-> ~Clears(e) /\ o.has_code,
     storage |-> [k \in Key |-> IF e.t = "storage" /\ e.key = k /\ e.prev_loaded
                                THEN e.prev_value ELSE o.storage[k]],
     warm_storage |-> [k \in Key |-> IF e.t = "storage" /\ e.key = k
                                     THEN e.prev_warm ELSE o.warm_storage[k]],
     transient_storage |-> [k \in Key |-> IF e.t = "transient" /\ e.key = k
                                          THEN e.prev_value
                                          ELSE o.transient_storage[k]],
     warm |-> IF e.t = "flags" THEN e.warm ELSE o.warm,
     destructed |-> IF e.t = "flags" THEN e.destructed ELSE o.destructed,
     erase_if_empty |-> IF e.t = "flags" THEN e.erase_if_empty ELSE o.erase_if_empty,
     just_created |-> ~Clears(e) /\ o.just_created,
     code_changed |-> ~Clears(e) /\ o.code_changed]

\* The assertions of rollback(), of the world instead of the accounts.
UndoExpects(o, e, view) ==
    /\ e.t \in {"nonce", "create", "balance"} => o.exists
    /\ e.t = "nonce" => o.nonce > 0
    /\ e.t = "flags" /\ e.nonexistent => o.balance = 0
    /\ e.t = "storage" /\ ~e.prev_loaded => o.storage[e.key] = view.storage[e.key]

\* Undoing entry e leads from world w2 back to world w.
Undoes(w, e, w2, views) ==
    /\ w = [w2 EXCEPT ![e.acc] = UndoObservation(@, e)]
    /\ UndoExpects(w2[e.acc], e, views[e.acc])

-----------------------------------------------------------------------------
(* States. *)

\* What the cached code and the loaded slots of an account are.
CacheOK(acc, view) ==
    /\ acc.code # NoCode => acc.code = acc.code_hash
    /\ acc.code = NoCode => acc.code_hash \in {NoCode, view.code}
    /\ acc.code_changed => acc.code = acc.code_hash

SlotsOK(acc, view) ==
    \A k \in Key : IF acc.storage[k].loaded
                   THEN acc.storage[k].original = view.storage[k]
                   ELSE acc.storage[k].current = 0 /\ acc.storage[k].original = 0

LoadedOK(acc, view) ==
    IF acc.loaded
    THEN acc.has_initial_storage <=> \E k \in Key : view.storage[k] # 0
    ELSE /\ acc.nonce = 0 /\ acc.balance = 0
         /\ acc.code_hash = NoCode /\ acc.code = NoCode
         /\ ~acc.nonexistent /\ ~acc.destructed /\ ~acc.erase_if_empty
         /\ ~acc.just_created /\ ~acc.code_changed
         /\ ~acc.has_initial_storage
         /\ \A k \in Key : acc.storage[k].current = acc.storage[k].original

AccountOK(acc, view) ==
    acc \in Account /\ CacheOK(acc, view) /\ SlotsOK(acc, view) /\ LoadedOK(acc, view)

\* An account that is not loaded was warmed at most, a slot that has been
\* loaded stays so.
EntryOK(e, acc) ==
    /\ ~acc.loaded => /\ e.t = "flags" /\ ~e.nonexistent
                      /\ ~e.destructed /\ ~e.erase_if_empty
    /\ e.t = "storage" /\ e.prev_loaded => acc.storage[e.key].loaded

ViewsOK(views) ==
    /\ views \in [Addr -> ViewAccount]
    /\ \A a \in Addr : ~views[a].exists => views[a] = NoAccount

StateOK(s) ==
    /\ s \in StateType /\ ViewsOK(s.initial)
    /\ \A a \in Addr : AccountOK(s.modified[a], s.initial[a])
    /\ \A i \in 1..Len(s.journal) : EntryOK(s.journal[i], s.modified[s.journal[i].acc])

Good(s) == StateOK(s) /\ WorldOK(World(s), s.initial)

\* w[i] is the world to which undoing entry i and all after it leads; the
\* entries up to base are never undone.
Labels(s, base, w) ==
    /\ w \in [Nat -> Worlds]
    /\ base \in Nat /\ base <= Len(s.journal)
    /\ w[Len(s.journal) + 1] = World(s)
    /\ \A i \in (base + 1)..(Len(s.journal) + 1) : WorldOK(w[i], s.initial)
    /\ \A i \in (base + 1)..Len(s.journal) :
          Undoes(w[i], s.journal[i], w[i + 1], s.initial)

\* What is loaded stays loaded.
KeepsLoaded(acc, acc2) ==
    /\ acc.loaded => acc2.loaded
    /\ \A k \in Key : acc.storage[k].loaded => acc2.storage[k].loaded

\* The journal of t is that of s and entries that lead back to the world of s.
Extends(s, t) ==
    /\ Good(t)
    /\ t.initial = s.initial
    /\ Len(s.journal) <= Len(t.journal)
    /\ \A i \in 1..Len(s.journal) : t.journal[i] = s.journal[i]
    /\ \A a \in Addr : KeepsLoaded(s.modified[a], t.modified[a])
    /\ \E w : /\ Labels(t, Len(s.journal), w)
              /\ w[Len(s.journal) + 1] = World(s)
              /\ \A i \in (Len(s.journal) + 1)..(Len(t.journal) + 1) :
                    Grows(World(s), w[i])

-----------------------------------------------------------------------------
(* Accounts and what is observed of them. *)

LEMMA NewAccountOK ==
    ASSUME NEW view \in ViewAccount
    PROVE  AccountOK(NewAccount, view)
<1>1. NewSlot \in StorageValue
  BY ValAssumption DEF NewSlot, StorageValue
<1>2. NewAccount \in Account
  BY <1>1, ValAssumption DEF NewAccount, Account, Codes
<1> QED
  BY <1>2 DEF AccountOK, NewAccount, NewSlot, CacheOK, SlotsOK, LoadedOK

(* Loading an account from the view. *)
LEMMA LoadOK ==
    ASSUME NEW view \in ViewAccount, ~view.exists => view = NoAccount,
           NEW acc, AccountOK(acc, view), ~acc.loaded
    PROVE  /\ AccountOK(LoadAccount(acc, view), view)
           /\ LoadAccount(acc, view).loaded
           /\ LoadAccount(acc, view).storage = acc.storage
           /\ LoadAccount(acc, view).warm = acc.warm
<1>1. acc \in Account /\ CacheOK(acc, view) /\ SlotsOK(acc, view) /\ LoadedOK(acc, view)
  BY DEF AccountOK
<1>2. CASE view.exists
  <2> DEFINE has == \E k \in Key : view.storage[k] # 0
             lo == [acc EXCEPT !.loaded = TRUE, !.nonce = view.nonce,
                     !.balance = view.balance, !.code_hash = view.code,
                     !.has_initial_storage = has]
  <2>1. LoadAccount(acc, view) = lo
    BY <1>2 DEF LoadAccount
  <2>2. has \in BOOLEAN
    OBVIOUS
  <2> HIDE DEF has
  <2>3. lo \in Account
    BY <1>1, <2>2 DEF Account, ViewAccount
  <2>4. /\ lo.loaded /\ lo.storage = acc.storage /\ lo.warm = acc.warm
        /\ lo.has_initial_storage = has
        /\ lo.code = acc.code /\ lo.code_hash = view.code /\ lo.code_changed = acc.code_changed
    BY <1>1 DEF Account
  <2> HIDE DEF lo
  <2>5. CacheOK(lo, view) /\ SlotsOK(lo, view)
    BY <1>1, <2>4 DEF CacheOK, SlotsOK, LoadedOK
  <2>6. LoadedOK(lo, view)
    BY <2>4 DEF LoadedOK, has
  <2> QED
    BY <2>1, <2>3, <2>4, <2>5, <2>6 DEF AccountOK
<1>3. CASE ~view.exists
  <2> DEFINE lo == [acc EXCEPT !.loaded = TRUE, !.nonexistent = TRUE]
  <2>1. LoadAccount(acc, view) = lo
    BY <1>3 DEF LoadAccount
  <2>3. lo \in Account
    BY <1>1 DEF Account
  <2>4. /\ lo.loaded /\ lo.storage = acc.storage /\ lo.warm = acc.warm
        /\ lo.has_initial_storage = acc.has_initial_storage
        /\ lo.code = acc.code /\ lo.code_hash = acc.code_hash
        /\ lo.code_changed = acc.code_changed
    BY <1>1 DEF Account
  <2> HIDE DEF lo
  <2>5. CacheOK(lo, view) /\ SlotsOK(lo, view)
    BY <1>1, <2>4 DEF CacheOK, SlotsOK
  <2>6. LoadedOK(lo, view)
    BY <1>1, <1>3, <2>4 DEF LoadedOK, NoAccount
  <2> QED
    BY <2>1, <2>3, <2>4, <2>5, <2>6 DEF AccountOK
<1> QED
  BY <1>2, <1>3

(* Loading is not observable. *)
LEMMA LoadObserved ==
    ASSUME NEW view \in ViewAccount, ~view.exists => view = NoAccount,
           NEW acc, AccountOK(acc, view), ~acc.loaded
    PROVE  Observed(LoadAccount(acc, view), view) = Observed(acc, view)
  BY LoadOK DEF Observed

LEMMA ObservedType ==
    ASSUME NEW view \in ViewAccount, ~view.exists => view = NoAccount,
           NEW acc, AccountOK(acc, view)
    PROVE  Observed(acc, view) \in Observation
<1> DEFINE seen == IF acc.loaded THEN acc ELSE LoadAccount(acc, view)
<1>1. seen \in Account
  BY LoadOK DEF AccountOK
<1>2. Observed(acc, view) =
        [exists |-> ~seen.nonexistent, nonce |-> seen.nonce,
         balance |-> seen.balance, code |-> seen.code_hash,
         has_code |-> seen.code_hash # NoCode,
         storage |-> [k \in Key |-> IF seen.storage[k].loaded
                                    THEN seen.storage[k].current
                                    ELSE view.storage[k]],
         warm_storage |-> [k \in Key |-> seen.storage[k].warm],
         transient_storage |-> seen.transient_storage,
         warm |-> seen.warm, destructed |-> seen.destructed,
         erase_if_empty |-> seen.erase_if_empty,
         just_created |-> seen.just_created,
         code_changed |-> seen.code_changed]
  BY DEF Observed
<1> HIDE DEF seen
<1> QED
  BY <1>1, <1>2 DEF Account, Observation, ViewAccount, StorageValue

-----------------------------------------------------------------------------
(* Undoing one entry. *)

LEMMA EntryFields ==
    ASSUME NEW e \in JournalEntry
    PROVE  /\ e.acc \in Addr
           /\ e.t \in {"balance", "flags", "storage", "transient", "nonce", "create"}
           /\ e.t = "balance" => e.prev_balance \in Nat
           /\ e.t = "flags" => /\ e.warm \in BOOLEAN /\ e.nonexistent \in BOOLEAN
                               /\ e.destructed \in BOOLEAN
                               /\ e.erase_if_empty \in BOOLEAN
           /\ e.t = "storage" => /\ e.key \in Key /\ e.prev_value \in Val
                                 /\ e.prev_warm \in BOOLEAN /\ e.prev_loaded \in BOOLEAN
           /\ e.t = "transient" => e.key \in Key /\ e.prev_value \in Val
  BY DEF JournalEntry

\* The account after undoing e, field by field.
Undone(acc, e, acc2) ==
    /\ acc2.nonce = IF Clears(e) THEN 0 ELSE IF e.t = "nonce" THEN acc.nonce - 1 ELSE acc.nonce
    /\ acc2.balance = IF e.t = "balance" THEN e.prev_balance ELSE acc.balance
    /\ acc2.code_hash = IF Clears(e) THEN NoCode ELSE acc.code_hash
    /\ acc2.code = IF Clears(e) THEN NoCode ELSE acc.code
    /\ acc2.storage = IF e.t = "storage"
                      THEN [acc.storage EXCEPT ![e.key] = UndoStorage(@, e)]
                      ELSE acc.storage
    /\ acc2.transient_storage = IF e.t = "transient"
                                THEN [acc.transient_storage EXCEPT ![e.key] = e.prev_value]
                                ELSE acc.transient_storage
    /\ acc2.warm = IF e.t = "flags" THEN e.warm ELSE acc.warm
    /\ acc2.loaded = acc.loaded
    /\ acc2.nonexistent = IF e.t = "flags" /\ e.nonexistent THEN TRUE ELSE acc.nonexistent
    /\ acc2.destructed = IF e.t = "flags" THEN e.destructed ELSE acc.destructed
    /\ acc2.erase_if_empty = IF e.t = "flags" THEN e.erase_if_empty ELSE acc.erase_if_empty
    /\ acc2.just_created = IF Clears(e) THEN FALSE ELSE acc.just_created
    /\ acc2.code_changed = IF Clears(e) THEN FALSE ELSE acc.code_changed
    /\ acc2.has_initial_storage = acc.has_initial_storage

RawAccount ==
    [nonce : Int, balance : Nat, code_hash : Codes, code : Codes,
     storage : [Key -> StorageValue], transient_storage : [Key -> Val],
     warm : BOOLEAN, loaded : BOOLEAN, nonexistent : BOOLEAN,
     destructed : BOOLEAN, erase_if_empty : BOOLEAN, just_created : BOOLEAN,
     code_changed : BOOLEAN, has_initial_storage : BOOLEAN]

LEMMA AccountRaw ==
    ASSUME NEW acc \in Account PROVE acc \in RawAccount
  BY DEF Account, RawAccount

LEMMA ClearType ==
    ASSUME NEW acc \in RawAccount
    PROVE  ClearValue(acc) \in RawAccount
<1> DEFINE part == [acc EXCEPT !.nonce = 0, !.code_hash = NoCode, !.code = NoCode]
<1>1. NoCode \in Codes
  BY DEF Codes
<1>z. [acc EXCEPT !.nonce = 0] \in RawAccount
  BY DEF RawAccount
<1>y. part = [[acc EXCEPT !.nonce = 0] EXCEPT !.code_hash = NoCode, !.code = NoCode]
  BY DEF RawAccount
<1>2. part \in RawAccount
  BY <1>1, <1>y, <1>z DEF RawAccount
<1>3. ClearValue(acc) = [part EXCEPT !.just_created = FALSE, !.code_changed = FALSE]
  BY DEF ClearValue, RawAccount
<1> HIDE DEF part
<1> QED
  BY <1>2, <1>3 DEF RawAccount

LEMMA UndoFields ==
    ASSUME NEW acc \in Account, NEW e \in JournalEntry
    PROVE  /\ UndoAccount(acc, e) \in RawAccount
           /\ Undone(acc, e, UndoAccount(acc, e))
<1>c. NoCode \in Codes
  BY DEF Codes
<1>r. acc \in RawAccount
  BY DEF Account, RawAccount
<1>1. CASE e.t = "nonce"
  <2>1. UndoAccount(acc, e) = [acc EXCEPT !.nonce = @ - 1]
    BY <1>1 DEF UndoAccount
  <2>2. ~Clears(e)
    BY <1>1 DEF Clears
  <2> QED
    BY <1>1, <2>1, <2>2 DEF Account, RawAccount, Undone
<1>2. CASE e.t = "flags"
  <2> DEFINE restored == [acc EXCEPT !.warm = e.warm, !.destructed = e.destructed,
                                     !.erase_if_empty = e.erase_if_empty]
  <2>1. UndoAccount(acc, e) = UndoFlags(acc, e)
    BY <1>2 DEF UndoAccount
  <2>f. /\ e.warm \in BOOLEAN /\ e.destructed \in BOOLEAN /\ e.erase_if_empty \in BOOLEAN
        /\ e.t # "storage" /\ e.t # "transient" /\ e.t # "nonce" /\ e.t # "balance"
    BY <1>2, EntryFields
  <2>2. CASE e.nonexistent
    <3>1. UndoAccount(acc, e) =
            [[restored EXCEPT !.nonexistent = TRUE]
               EXCEPT !.nonce = 0, !.code_hash = NoCode, !.code = NoCode,
                      !.just_created = FALSE, !.code_changed = FALSE]
      BY <2>1, <2>2 DEF UndoFlags, ClearValue
    <3>2. Clears(e)
      BY <1>2, <2>2 DEF Clears
    <3> DEFINE gone == [restored EXCEPT !.nonexistent = TRUE]
    <3>r. gone \in RawAccount
      BY ONLY <1>r, <2>f DEF RawAccount
    <3>s. UndoAccount(acc, e) = ClearValue(gone)
      BY <2>1, <2>2 DEF UndoFlags
    <3>3. UndoAccount(acc, e) \in RawAccount
      BY ONLY <3>r, <3>s, ClearType
    <3> QED
      BY <1>2, <1>c, <2>2, <2>f, <3>1, <3>2, <3>3 DEF Account, Undone
  <2>3. CASE ~e.nonexistent
    <3>1. UndoAccount(acc, e) = restored
      BY <2>1, <2>3 DEF UndoFlags
    <3>2. ~Clears(e)
      BY <1>2, <2>3 DEF Clears
    <3>3. UndoAccount(acc, e) \in RawAccount
      BY ONLY <1>r, <2>f, <3>1 DEF RawAccount
    <3> QED
      BY <1>2, <2>3, <2>f, <3>1, <3>2, <3>3 DEF Account, Undone
  <2> QED
    BY <2>2, <2>3
<1>3. CASE e.t = "create"
  <2>1. UndoAccount(acc, e) =
            [acc EXCEPT !.nonce = 0, !.code_hash = NoCode, !.code = NoCode,
                      !.just_created = FALSE, !.code_changed = FALSE]
    BY <1>3 DEF UndoAccount, ClearValue
  <2>2. Clears(e)
    BY <1>3 DEF Clears
  <2>3. UndoAccount(acc, e) \in RawAccount
    BY <1>r, <1>3, ClearType DEF UndoAccount
  <2> QED
    BY <1>3, <2>1, <2>2, <2>3 DEF Account, Undone
<1>4. CASE e.t = "storage"
  <2> DEFINE st == [acc.storage EXCEPT ![e.key] = UndoStorage(@, e)]
  <2>1. UndoAccount(acc, e) = [acc EXCEPT !.storage = st]
    BY <1>4 DEF UndoAccount, Account
  <2>2. ~Clears(e)
    BY <1>4 DEF Clears
  <2>3. \A slot \in StorageValue : UndoStorage(slot, e) \in StorageValue
    BY <1>4, EntryFields DEF UndoStorage, StorageValue
  <2>4. st \in [Key -> StorageValue]
    BY <2>3 DEF Account
  <2> HIDE DEF st
  <2>5. /\ UndoAccount(acc, e) \in RawAccount
        /\ UndoAccount(acc, e).storage = st
    BY <2>1, <2>4 DEF Account, RawAccount
  <2> QED
    BY <1>4, <2>1, <2>2, <2>5 DEF Account, Undone, st
<1>5. CASE e.t = "transient"
  <2> DEFINE ts == [acc.transient_storage EXCEPT ![e.key] = e.prev_value]
  <2>1. UndoAccount(acc, e) = [acc EXCEPT !.transient_storage = ts]
    BY <1>5 DEF UndoAccount, Account
  <2>2. ~Clears(e)
    BY <1>5 DEF Clears
  <2>4. ts \in [Key -> Val]
    BY <1>5, EntryFields DEF Account
  <2> HIDE DEF ts
  <2>5. /\ UndoAccount(acc, e) \in RawAccount
        /\ UndoAccount(acc, e).transient_storage = ts
    BY <2>1, <2>4 DEF Account, RawAccount
  <2> QED
    BY <1>5, <2>1, <2>2, <2>5 DEF Account, Undone, ts
<1>6. CASE e.t = "balance"
  <2>1. UndoAccount(acc, e) = [acc EXCEPT !.balance = e.prev_balance]
    BY <1>6 DEF UndoAccount
  <2>2. ~Clears(e)
    BY <1>6 DEF Clears
  <2> QED
    BY <1>6, <2>1, <2>2, EntryFields DEF Account, RawAccount, Undone
<1> QED
  BY <1>1, <1>2, <1>3, <1>4, <1>5, <1>6, EntryFields

\* What is observed of a loaded account, field by field.
Shows(o, acc, view) ==
    /\ o.exists = ~acc.nonexistent
    /\ o.nonce = acc.nonce /\ o.balance = acc.balance
    /\ o.code = acc.code_hash
    /\ o.has_code = (acc.code_hash # NoCode)
    /\ o.storage = [k \in Key |-> IF acc.storage[k].loaded
                                  THEN acc.storage[k].current ELSE view.storage[k]]
    /\ o.warm_storage = [k \in Key |-> acc.storage[k].warm]
    /\ o.transient_storage = acc.transient_storage
    /\ o.warm = acc.warm /\ o.destructed = acc.destructed
    /\ o.erase_if_empty = acc.erase_if_empty
    /\ o.just_created = acc.just_created
    /\ o.code_changed = acc.code_changed

RawObservation ==
    [exists : BOOLEAN, nonce : Int, balance : Nat, code : Codes,
     has_code : BOOLEAN, storage : [Key -> Val], warm_storage : [Key -> BOOLEAN],
     transient_storage : [Key -> Val], warm : BOOLEAN, destructed : BOOLEAN,
     erase_if_empty : BOOLEAN, just_created : BOOLEAN, code_changed : BOOLEAN]

LEMMA ObservedShows ==
    ASSUME NEW view \in ViewAccount, NEW acc \in RawAccount, acc.loaded
    PROVE  /\ Observed(acc, view) \in RawObservation
           /\ Shows(Observed(acc, view), acc, view)
<1>1. Observed(acc, view) =
        [exists |-> ~acc.nonexistent, nonce |-> acc.nonce,
         balance |-> acc.balance, code |-> acc.code_hash,
         has_code |-> acc.code_hash # NoCode,
         storage |-> [k \in Key |-> IF acc.storage[k].loaded
                                    THEN acc.storage[k].current
                                    ELSE view.storage[k]],
         warm_storage |-> [k \in Key |-> acc.storage[k].warm],
         transient_storage |-> acc.transient_storage,
         warm |-> acc.warm, destructed |-> acc.destructed,
         erase_if_empty |-> acc.erase_if_empty,
         just_created |-> acc.just_created,
         code_changed |-> acc.code_changed]
  BY DEF Observed
<1>2. Observed(acc, view) \in RawObservation
  BY <1>1 DEF RawAccount, RawObservation, ViewAccount, StorageValue
<1> QED
  BY <1>1, <1>2 DEF Shows

\* What is observed of an account that is not loaded.
LEMMA ObservedUnloaded ==
    ASSUME NEW view \in ViewAccount, ~view.exists => view = NoAccount,
           NEW acc, AccountOK(acc, view), ~acc.loaded
    PROVE  LET o == Observed(acc, view)
           IN  /\ o.exists = view.exists
               /\ o.nonce = view.nonce /\ o.balance = view.balance
               /\ o.code = view.code
               /\ o.has_code = (view.code # NoCode)
               /\ o.storage = [k \in Key |-> IF acc.storage[k].loaded
                                  THEN acc.storage[k].current ELSE view.storage[k]]
               /\ o.warm_storage = [k \in Key |-> acc.storage[k].warm]
               /\ o.transient_storage = acc.transient_storage
               /\ o.warm = acc.warm
               /\ ~o.destructed /\ ~o.erase_if_empty
               /\ ~o.just_created /\ ~o.code_changed
<1>1. acc \in Account /\ LoadedOK(acc, view)
  BY DEF AccountOK
<1> DEFINE lo == LoadAccount(acc, view)
<1>2. lo \in Account /\ lo.loaded
  BY LoadOK DEF AccountOK
<1>3. lo \in RawAccount
  BY <1>2 DEF Account, RawAccount
<1>4. Observed(acc, view) = Observed(lo, view)
  BY LoadObserved
<1>5. Shows(Observed(lo, view), lo, view)
  BY <1>2, <1>3, ObservedShows
<1>6. CASE view.exists
  <2>1. /\ lo.nonexistent = FALSE /\ lo.nonce = view.nonce /\ lo.balance = view.balance
        /\ lo.code_hash = view.code /\ lo.storage = acc.storage
        /\ lo.transient_storage = acc.transient_storage /\ lo.warm = acc.warm
        /\ lo.destructed = FALSE /\ lo.erase_if_empty = FALSE
        /\ lo.just_created = FALSE /\ lo.code_changed = FALSE
    BY <1>1, <1>6 DEF LoadAccount, Account, LoadedOK
  <2>2. view.exists = TRUE
    BY <1>6 DEF ViewAccount
  <2> HIDE DEF lo
  <2> QED
    BY <1>4, <1>5, <2>1, <2>2 DEF Shows
<1>7. CASE ~view.exists
  <2>1. /\ lo.nonexistent = TRUE /\ lo.nonce = 0 /\ lo.balance = 0
        /\ lo.code_hash = NoCode /\ lo.storage = acc.storage
        /\ lo.transient_storage = acc.transient_storage /\ lo.warm = acc.warm
        /\ lo.destructed = FALSE /\ lo.erase_if_empty = FALSE
        /\ lo.just_created = FALSE /\ lo.code_changed = FALSE
    BY <1>1, <1>7 DEF LoadAccount, Account, LoadedOK
  <2>2. view.exists = FALSE /\ view.nonce = 0 /\ view.balance = 0 /\ view.code = NoCode
    BY <1>7 DEF ViewAccount, NoAccount
  <2> HIDE DEF lo
  <2> QED
    BY <1>4, <1>5, <2>1, <2>2 DEF Shows
<1> QED
  BY <1>6, <1>7

(* Rollback leaves an account well-formed. *)
LEMMA UndoAccountOK ==
    ASSUME NEW view \in ViewAccount, NEW acc, AccountOK(acc, view),
           NEW e \in JournalEntry, EntryOK(e, acc),
           UndoAccount(acc, e).nonce \in Nat
    PROVE  /\ AccountOK(UndoAccount(acc, e), view)
           /\ KeepsLoaded(acc, UndoAccount(acc, e))
<1> DEFINE acc2 == UndoAccount(acc, e)
<1>1. /\ acc \in Account /\ CacheOK(acc, view) /\ SlotsOK(acc, view) /\ LoadedOK(acc, view)
  BY DEF AccountOK
<1>2. acc2 \in RawAccount /\ Undone(acc, e, acc2)
  BY <1>1, UndoFields
<1>3. acc2 \in Account
  BY <1>2 DEF RawAccount, Account
<1> HIDE DEF acc2
<1>4. CacheOK(acc2, view)
  BY <1>1, <1>2 DEF CacheOK, Undone
<1>5. \A k \in Key : acc2.storage[k] =
        IF e.t = "storage" /\ k = e.key THEN UndoStorage(acc.storage[k], e) ELSE acc.storage[k]
  BY <1>1, <1>2 DEF Undone, Account
<1>6. ASSUME NEW k \in Key
      PROVE  /\ acc2.storage[k].loaded = acc.storage[k].loaded
             /\ acc2.storage[k].original = acc.storage[k].original
             /\ ~acc.storage[k].loaded => acc2.storage[k].current = acc.storage[k].current
  <2>1. acc.storage[k] \in StorageValue
    BY <1>1 DEF Account
  <2>2. CASE e.t = "storage" /\ k = e.key
    <3>1. acc2.storage[k] =
            [acc.storage[k] EXCEPT !.current = IF e.prev_loaded THEN e.prev_value ELSE @,
                                   !.warm = e.prev_warm]
      BY <1>5, <2>2 DEF UndoStorage
    <3>2. e.prev_loaded => acc.storage[k].loaded
      BY <2>2 DEF EntryOK
    <3> QED
      BY <2>1, <3>1, <3>2 DEF StorageValue
  <2> QED
    BY <1>5, <2>2
<1>7. SlotsOK(acc2, view)
  BY <1>1, <1>6 DEF SlotsOK
<1>8. LoadedOK(acc2, view)
  <2>1. CASE acc.loaded
    BY <1>1, <1>2, <2>1 DEF LoadedOK, Undone
  <2>2. CASE ~acc.loaded
    <3>1. e.t = "flags" /\ ~e.nonexistent /\ ~e.destructed /\ ~e.erase_if_empty
      BY <2>2 DEF EntryOK
    <3>2. ~Clears(e)
      BY <3>1 DEF Clears
    <3> QED
      BY <1>1, <1>2, <2>2, <3>1, <3>2 DEF LoadedOK, Undone
  <2> QED
    BY <2>1, <2>2
<1>9. KeepsLoaded(acc, acc2)
  BY <1>2, <1>6 DEF KeepsLoaded, Undone
<1> QED
  BY <1>3, <1>4, <1>7, <1>8, <1>9 DEF AccountOK, acc2

LEMMA ObservationEqual ==
    ASSUME NEW o \in RawObservation, NEW p \in RawObservation,
           o.exists = p.exists, o.nonce = p.nonce, o.balance = p.balance,
           o.code = p.code, o.has_code = p.has_code, o.storage = p.storage,
           o.warm_storage = p.warm_storage,
           o.transient_storage = p.transient_storage, o.warm = p.warm,
           o.destructed = p.destructed, o.erase_if_empty = p.erase_if_empty,
           o.just_created = p.just_created, o.code_changed = p.code_changed
    PROVE  o = p
  BY DEF RawObservation

LEMMA UndoObservationType ==
    ASSUME NEW o \in RawObservation, NEW e \in JournalEntry
    PROVE  UndoObservation(o, e) \in RawObservation
<1>1. NoCode \in Codes
  BY DEF Codes
<1>2. Clears(e) \in BOOLEAN
  BY DEF Clears
<1> QED
  BY <1>1, <1>2, EntryFields DEF UndoObservation, RawObservation

(* Undoing an entry of an account undoes it in the world. *)
LEMMA UndoObserved ==
    ASSUME NEW view \in ViewAccount, ~view.exists => view = NoAccount,
           NEW acc, AccountOK(acc, view),
           NEW e \in JournalEntry, EntryOK(e, acc)
    PROVE  Observed(UndoAccount(acc, e), view) = UndoObservation(Observed(acc, view), e)
<1> DEFINE acc2 == UndoAccount(acc, e)
           o == Observed(acc, view)
           o2 == Observed(acc2, view)
           u == UndoObservation(o, e)
<1>1. /\ acc \in Account /\ CacheOK(acc, view) /\ SlotsOK(acc, view) /\ LoadedOK(acc, view)
  BY DEF AccountOK
<1>2. acc2 \in RawAccount /\ Undone(acc, e, acc2)
  BY <1>1, UndoFields
<1>r. acc \in RawAccount
  BY <1>1 DEF Account, RawAccount
<1>3. o \in RawObservation
  BY ObservedType DEF Observation, RawObservation
<1>4. u \in RawObservation
  BY <1>3, UndoObservationType
<1>5. /\ u.exists = (o.exists /\ ~(e.t = "flags" /\ e.nonexistent))
      /\ u.nonce = IF Clears(e) THEN 0 ELSE IF e.t = "nonce" THEN o.nonce - 1 ELSE o.nonce
      /\ u.balance = IF e.t = "balance" THEN e.prev_balance ELSE o.balance
      /\ u.code = IF Clears(e) THEN NoCode ELSE o.code
      /\ u.has_code = (~Clears(e) /\ o.has_code)
      /\ u.warm = IF e.t = "flags" THEN e.warm ELSE o.warm
      /\ u.destructed = IF e.t = "flags" THEN e.destructed ELSE o.destructed
      /\ u.erase_if_empty = IF e.t = "flags" THEN e.erase_if_empty ELSE o.erase_if_empty
      /\ u.just_created = (~Clears(e) /\ o.just_created)
      /\ u.code_changed = (~Clears(e) /\ o.code_changed)
  BY DEF UndoObservation
<1>6. /\ u.storage = [k \in Key |-> IF e.t = "storage" /\ e.key = k /\ e.prev_loaded
                                THEN e.prev_value ELSE o.storage[k]]
      /\ u.warm_storage = [k \in Key |-> IF e.t = "storage" /\ e.key = k
                                     THEN e.prev_warm ELSE o.warm_storage[k]]
      /\ u.transient_storage = [k \in Key |-> IF e.t = "transient" /\ e.key = k
                                          THEN e.prev_value
                                          ELSE o.transient_storage[k]]
  BY DEF UndoObservation
<1>7. \A k \in Key :
        /\ acc.storage[k] \in StorageValue
        /\ acc2.storage[k] = IF e.t = "storage" /\ k = e.key
                             THEN UndoStorage(acc.storage[k], e) ELSE acc.storage[k]
  BY <1>1, <1>2 DEF Undone, Account
<1>8. \A k \in Key :
        /\ acc2.storage[k].loaded = acc.storage[k].loaded
        /\ acc2.storage[k].current = IF e.t = "storage" /\ e.key = k /\ e.prev_loaded
                                     THEN e.prev_value ELSE acc.storage[k].current
        /\ acc2.storage[k].warm = IF e.t = "storage" /\ e.key = k
                                     THEN e.prev_warm ELSE acc.storage[k].warm
  <2>1. ASSUME NEW slot \in StorageValue
        PROVE  /\ UndoStorage(slot, e).loaded = slot.loaded
               /\ UndoStorage(slot, e).current = IF e.prev_loaded THEN e.prev_value
                                                 ELSE slot.current
               /\ UndoStorage(slot, e).warm = e.prev_warm
    BY DEF UndoStorage, StorageValue
  <2> SUFFICES ASSUME NEW k \in Key
               PROVE
        /\ acc2.storage[k].loaded = acc.storage[k].loaded
        /\ acc2.storage[k].current = IF e.t = "storage" /\ e.key = k /\ e.prev_loaded
                                     THEN e.prev_value ELSE acc.storage[k].current
        /\ acc2.storage[k].warm = IF e.t = "storage" /\ e.key = k
                                     THEN e.prev_warm ELSE acc.storage[k].warm
    OBVIOUS
  <2> HIDE DEF acc2
  <2>2. CASE e.t = "storage" /\ e.key = k
    BY <1>7, <2>1, <2>2
  <2>3. CASE ~(e.t = "storage" /\ e.key = k)
    BY <1>7, <2>3
  <2> QED
    BY <2>2, <2>3
<1>9. \A k \in Key : e.t = "storage" /\ e.key = k /\ e.prev_loaded => acc.storage[k].loaded
  BY DEF EntryOK
<1> HIDE DEF acc2, o, o2, u
<1>10. acc2.transient_storage = [k \in Key |-> IF e.t = "transient" /\ e.key = k
                                          THEN e.prev_value
                                          ELSE acc.transient_storage[k]]
  BY <1>1, <1>2 DEF Undone, Account
<1>11. CASE acc.loaded
  <2>1. acc2.loaded
    BY <1>2, <1>11 DEF Undone
  <2>2. Shows(o, acc, view)
    BY <1>r, <1>11, ObservedShows DEF o
  <2>3. o2 \in RawObservation /\ Shows(o2, acc2, view)
    BY <1>2, <2>1, ObservedShows DEF o2
  <2>4. o2.storage = u.storage
    BY <1>6, <1>8, <1>9, <2>2, <2>3 DEF Shows
  <2>5. o2.warm_storage = u.warm_storage
    BY <1>6, <1>8, <2>2, <2>3 DEF Shows
  <2>6. o2.transient_storage = u.transient_storage
    BY <1>6, <1>10, <2>2, <2>3 DEF Shows
  <2>7. /\ o2.nonce = u.nonce /\ o2.balance = u.balance /\ o2.code = u.code
        /\ o2.warm = u.warm /\ o2.destructed = u.destructed
        /\ o2.erase_if_empty = u.erase_if_empty
    BY <1>2, <1>5, <2>2, <2>3 DEF Shows, Undone
  <2>8. o2.exists = u.exists
    BY <1>2, <1>5, <2>2, <2>3, <1>r DEF Shows, Undone, RawAccount
  <2>9. o2.has_code = u.has_code
    BY <1>2, <1>5, <2>2, <2>3 DEF Shows, Undone
  <2>10. o2.just_created = u.just_created /\ o2.code_changed = u.code_changed
    BY <1>2, <1>5, <2>2, <2>3, <1>r DEF Shows, Undone, RawAccount
  <2>11. o2 = u
    BY <1>4, <2>3, <2>4, <2>5, <2>6, <2>7, <2>8, <2>9, <2>10, ObservationEqual
  <2> QED
    BY <2>11 DEF acc2, o, o2, u
<1>12. CASE ~acc.loaded
  <2>1. e.t = "flags" /\ ~e.nonexistent /\ ~e.destructed /\ ~e.erase_if_empty
    BY <1>12 DEF EntryOK
  <2>2. ~Clears(e)
    BY <2>1 DEF Clears
  <2>3. acc2.nonce \in Nat /\ ~acc2.loaded
    BY <1>1, <1>2, <1>12, <2>1, <2>2 DEF Undone, Account
  <2>4. AccountOK(acc2, view)
    BY <2>3, UndoAccountOK DEF acc2
  <2>5. o2 \in RawObservation
    BY <2>4, ObservedType DEF Observation, RawObservation, o2
  <2>6. /\ o.exists = view.exists
        /\ o.nonce = view.nonce /\ o.balance = view.balance
        /\ o.code = view.code
        /\ o.has_code = (view.code # NoCode)
        /\ o.storage = [k \in Key |-> IF acc.storage[k].loaded
                                  THEN acc.storage[k].current ELSE view.storage[k]]
        /\ o.warm_storage = [k \in Key |-> acc.storage[k].warm]
        /\ o.transient_storage = acc.transient_storage
        /\ o.warm = acc.warm
        /\ ~o.destructed /\ ~o.erase_if_empty
        /\ ~o.just_created /\ ~o.code_changed
    BY <1>12, ObservedUnloaded DEF o
  <2>7. /\ o2.exists = view.exists
        /\ o2.nonce = view.nonce /\ o2.balance = view.balance
        /\ o2.code = view.code
        /\ o2.has_code = (view.code # NoCode)
        /\ o2.storage = [k \in Key |-> IF acc2.storage[k].loaded
                                  THEN acc2.storage[k].current ELSE view.storage[k]]
        /\ o2.warm_storage = [k \in Key |-> acc2.storage[k].warm]
        /\ o2.transient_storage = acc2.transient_storage
        /\ o2.warm = acc2.warm
        /\ ~o2.destructed /\ ~o2.erase_if_empty
        /\ ~o2.just_created /\ ~o2.code_changed
    BY <2>3, <2>4, ObservedUnloaded DEF o2
  <2>8. o2.storage = u.storage
    BY <1>6, <1>8, <1>9, <2>6, <2>7
  <2>9. o2.warm_storage = u.warm_storage
    BY <1>6, <1>8, <2>6, <2>7
  <2>10. o2.transient_storage = u.transient_storage
    BY <1>6, <1>10, <2>6, <2>7
  <2>11. /\ o2.nonce = u.nonce /\ o2.balance = u.balance /\ o2.code = u.code
         /\ o2.warm = u.warm
    BY <1>2, <1>5, <2>1, <2>2, <2>6, <2>7 DEF Undone
  <2>12. /\ o2.exists = u.exists /\ o2.has_code = u.has_code
         /\ o2.destructed = u.destructed /\ o2.erase_if_empty = u.erase_if_empty
         /\ o2.just_created = u.just_created /\ o2.code_changed = u.code_changed
    BY <1>3, <1>4, <2>5, <1>5, <2>1, <2>2, <2>6, <2>7, EntryFields DEF RawObservation
  <2>13. o2 = u
    BY <1>4, <2>5, <2>8, <2>9, <2>10, <2>11, <2>12, ObservationEqual
  <2> QED
    BY <2>13 DEF acc2, o, o2, u
<1> QED
  BY <1>11, <1>12

-----------------------------------------------------------------------------
(* Steps of a state. *)

\* The state s with one account and the journal replaced.
After(s, a, acc, journal) ==
    [initial |-> s.initial, modified |-> [s.modified EXCEPT ![a] = acc],
     journal |-> journal]

LEMMA WorldAt ==
    ASSUME NEW s, NEW a \in Addr
    PROVE  World(s)[a] = Observed(s.modified[a], s.initial[a])
  BY DEF World

LEMMA StateFields ==
    ASSUME NEW s, StateOK(s)
    PROVE  /\ s.initial \in [Addr -> ViewAccount]
           /\ s.modified \in [Addr -> Account]
           /\ s.journal \in Seq(JournalEntry)
           /\ Len(s.journal) \in Nat
           /\ s = [initial |-> s.initial, modified |-> s.modified, journal |-> s.journal]
           /\ \A a \in Addr : /\ s.initial[a] \in ViewAccount
                              /\ ~s.initial[a].exists => s.initial[a] = NoAccount
                              /\ s.modified[a] \in Account
                              /\ AccountOK(s.modified[a], s.initial[a])
<1>1. s \in StateType /\ ViewsOK(s.initial)
  BY DEF StateOK
<1>2. s.journal \in Seq(JournalEntry)
  BY <1>1 DEF StateType
<1>3. Len(s.journal) \in Nat
  BY <1>2, LenProperties
<1> QED
  BY <1>1, <1>2, <1>3 DEF StateType, ViewsOK, StateOK

LEMMA WorldType ==
    ASSUME NEW s, StateOK(s)
    PROVE  World(s) \in Worlds
<1>1. \A a \in Addr : Observed(s.modified[a], s.initial[a]) \in Observation
  BY StateFields, ObservedType
<1> QED
  BY <1>1 DEF World, Worlds

LEMMA EntryKept ==
    ASSUME NEW e \in JournalEntry, NEW acc, NEW acc2, EntryOK(e, acc), KeepsLoaded(acc, acc2)
    PROVE  EntryOK(e, acc2)
  BY EntryFields DEF EntryOK, KeepsLoaded

LEMMA KeepsSame ==
    ASSUME NEW acc PROVE KeepsLoaded(acc, acc)
  BY DEF KeepsLoaded

LEMMA GrowthSame ==
    ASSUME NEW o \in Observation PROVE Growth(o, o)
  BY DEF Growth, Observation

LEMMA GrowsTransitive ==
    ASSUME NEW u \in Worlds, NEW v \in Worlds, NEW w \in Worlds, Grows(u, v), Grows(v, w)
    PROVE  Grows(u, w)
<1> SUFFICES ASSUME NEW a \in Addr PROVE Growth(u[a], w[a])
  BY DEF Grows
<1>1. Growth(u[a], v[a]) /\ Growth(v[a], w[a])
  BY DEF Grows
<1>2. u[a].nonce \in Nat /\ v[a].nonce \in Nat /\ w[a].nonce \in Nat
  BY DEF Worlds, Observation
<1> QED
  BY <1>1, <1>2 DEF Growth

\* What a state t that is s with one account and the journal replaced looks like.
IsAfter(t, s, a, acc2, j) ==
    /\ t.initial = s.initial /\ t.journal = j
    /\ t.modified[a] = acc2
    /\ \A b \in Addr : b # a => t.modified[b] = s.modified[b]
    /\ j \in Seq(JournalEntry) => t \in StateType

LEMMA AfterFields ==
    ASSUME NEW s, StateOK(s), NEW a \in Addr, NEW acc2, AccountOK(acc2, s.initial[a]),
           NEW j
    PROVE  IsAfter(After(s, a, acc2, j), s, a, acc2, j)
<1> DEFINE t == After(s, a, acc2, j)
<1>1. /\ t.initial = s.initial /\ t.journal = j
      /\ t.modified = [s.modified EXCEPT ![a] = acc2]
  BY DEF After
<1>2. s.modified \in [Addr -> Account] /\ s.initial \in [Addr -> ViewAccount]
  BY StateFields
<1>3. /\ t.modified[a] = acc2
      /\ \A b \in Addr : b # a => t.modified[b] = s.modified[b]
  BY <1>1, <1>2
<1>5. acc2 \in Account
  BY DEF AccountOK
<1>6. ASSUME j \in Seq(JournalEntry) PROVE t \in StateType
  BY <1>2, <1>5, <1>6 DEF After, StateType
<1> QED
  BY <1>1, <1>3, <1>6 DEF IsAfter

LEMMA AfterWorld ==
    ASSUME NEW s, NEW t, NEW a \in Addr, NEW acc2, NEW j, IsAfter(t, s, a, acc2, j)
    PROVE  World(t) = [World(s) EXCEPT ![a] = Observed(acc2, s.initial[a])]
  BY DEF World, IsAfter

LEMMA AfterOK ==
    ASSUME NEW s, StateOK(s), NEW a \in Addr, NEW acc2, AccountOK(acc2, s.initial[a]),
           KeepsLoaded(s.modified[a], acc2),
           NEW j \in Seq(JournalEntry),
           \A i \in 1..Len(j) : \/ i \in 1..Len(s.journal) /\ j[i] = s.journal[i]
                                \/ j[i].acc = a /\ EntryOK(j[i], acc2)
    PROVE  /\ StateOK(After(s, a, acc2, j))
           /\ \A b \in Addr : KeepsLoaded(s.modified[b], After(s, a, acc2, j).modified[b])
<1> DEFINE t == After(s, a, acc2, j)
<1>a. /\ StateOK(s) /\ a \in Addr /\ AccountOK(acc2, s.initial[a])
      /\ j \in Seq(JournalEntry)
  OBVIOUS
<1>1. /\ t.initial = s.initial /\ t.journal = j
      /\ t.modified[a] = acc2
      /\ \A b \in Addr : b # a => t.modified[b] = s.modified[b]
      /\ t \in StateType
  <2>1. IsAfter(t, s, a, acc2, j)
    BY ONLY <1>a, AfterFields DEF t
  <2> QED
    BY <1>a, <2>1 DEF IsAfter
<1> HIDE DEF t
<1>2. ViewsOK(t.initial) /\ \A b \in Addr : AccountOK(t.modified[b], t.initial[b])
  BY <1>1, StateFields DEF StateOK
<1>3. \A b \in Addr : KeepsLoaded(s.modified[b], t.modified[b])
  BY <1>1, KeepsSame
<1>4. ASSUME NEW i \in 1..Len(t.journal)
      PROVE  EntryOK(t.journal[i], t.modified[t.journal[i].acc])
  <2>1. CASE i \in 1..Len(s.journal) /\ j[i] = s.journal[i]
    <3>1. EntryOK(j[i], s.modified[j[i].acc])
      BY <2>1 DEF StateOK
    <3>2. j[i] \in JournalEntry /\ j[i].acc \in Addr
      BY <1>1, <1>4, ElementOfSeq, EntryFields
    <3> QED
      BY <1>1, <1>3, <3>1, <3>2, EntryKept
  <2>2. CASE j[i].acc = a /\ EntryOK(j[i], acc2)
    BY <1>1, <2>2
  <2> QED
    BY <1>1, <1>4, <2>1, <2>2
<1> QED
  BY <1>1, <1>2, <1>3, <1>4 DEF StateOK, t

(* A step that is not observable and writes no entry. *)
LEMMA QuietStep ==
    ASSUME NEW s, Good(s), NEW t, StateOK(t), t.initial = s.initial,
           t.journal = s.journal,
           \A a \in Addr : KeepsLoaded(s.modified[a], t.modified[a]),
           World(t) = World(s)
    PROVE  Extends(s, t)
<1> DEFINE n == Len(s.journal)
           w == [i \in Nat |-> World(s)]
<1>1. n \in Nat
  BY StateFields DEF Good
<1>2. WorldOK(World(s), s.initial) /\ World(s) \in Worlds
  BY DEF Good, WorldOK
<1>3. Good(t)
  BY <1>2 DEF Good
<1>4. Grows(World(s), World(s))
  BY <1>2, GrowthSame DEF Grows, Worlds
<1>5. w \in [Nat -> Worlds] /\ \A i \in Nat : w[i] = World(s)
  BY <1>2
<1> HIDE DEF w
<1>6. Labels(t, n, w)
  <2>1. (n + 1)..n = {} /\ (n + 1)..(n + 1) = {n + 1} /\ n + 1 \in Nat /\ n <= n
    BY <1>1
  <2> QED
    BY <1>1, <1>2, <1>5, <2>1 DEF Labels
<1>7. w[n + 1] = World(s) /\ \A i \in (n + 1)..(n + 1) : Grows(World(s), w[i])
  BY <1>1, <1>4, <1>5
<1> QED
  BY <1>1, <1>3, <1>6, <1>7 DEF Extends

LEMMA CreatedKept ==
    ASSUME NEW w \in Worlds, NEW w2 \in Worlds, NEW a, Grows(w, w2), CreatedBy(w, a)
    PROVE  CreatedBy(w2, a)
<1>1. PICK p \in DOMAIN CreateAddress : CreateAddress[p] = a /\ w[p[1]].nonce > p[2]
  BY DEF CreatedBy
<1>2. p[1] \in Addr /\ p[2] \in Nat
  BY AddressAssumption
<1>3. w[p[1]].nonce <= w2[p[1]].nonce /\ w[p[1]].nonce \in Nat /\ w2[p[1]].nonce \in Nat
  BY <1>2 DEF Grows, Growth, Worlds, Observation
<1>4. w2[p[1]].nonce > p[2]
  BY <1>1, <1>2, <1>3
<1> QED
  BY <1>1, <1>4 DEF CreatedBy

\* An account may only now have been created if it cannot be created again.
CreatesOK(w, o, o2, a) ==
    o2.just_created /\ ~o.just_created =>
        IF Rev >= SPURIOUS_DRAGON THEN o2.nonce > 0 ELSE CreatedBy(w, a)

(* The world with one account changed for the better is a good one. *)
LEMMA GrownWorld ==
    ASSUME NEW views, NEW w, WorldOK(w, views), NEW a \in Addr, NEW o2,
           ObservationOK(o2, views[a]), Growth(w[a], o2), CreatesOK(w, w[a], o2, a)
    PROVE  /\ WorldOK([w EXCEPT ![a] = o2], views)
           /\ Grows(w, [w EXCEPT ![a] = o2])
<1> DEFINE w2 == [w EXCEPT ![a] = o2]
<1>1. w \in Worlds /\ o2 \in Observation
  BY DEF WorldOK, ObservationOK
<1>2. w2 \in Worlds /\ w2[a] = o2 /\ \A b \in Addr : b # a => w2[b] = w[b]
  BY <1>1 DEF Worlds
<1> HIDE DEF w2
<1>3. Grows(w, w2)
  <2> SUFFICES ASSUME NEW b \in Addr PROVE Growth(w[b], w2[b])
    BY DEF Grows
  <2>1. w[b] \in Observation
    BY <1>1 DEF Worlds
  <2> QED
    BY <1>2, <2>1, GrowthSame
<1>4. ASSUME NEW b \in Addr PROVE ObservationOK(w2[b], views[b])
  BY <1>2 DEF WorldOK
<1>5. ASSUME NEW b \in Addr PROVE CreatedOK(w2, b)
  <2> SUFFICES ASSUME w2[b].just_created
               PROVE  IF Rev >= SPURIOUS_DRAGON THEN w2[b].nonce > 0 ELSE CreatedBy(w2, b)
    BY DEF CreatedOK
  <2>1. CreatedBy(w, b) => CreatedBy(w2, b)
    BY <1>1, <1>2, <1>3, CreatedKept
  <2>2. CASE w[b].just_created
    <3>1. IF Rev >= SPURIOUS_DRAGON THEN w[b].nonce > 0 ELSE CreatedBy(w, b)
      BY <2>2 DEF WorldOK, CreatedOK
    <3>2. w[b].nonce \in Nat /\ w2[b].nonce \in Nat /\ w[b].nonce <= w2[b].nonce
      BY <1>1, <1>2, <1>3 DEF Grows, Growth, Worlds, Observation
    <3>3. w[b].nonce > 0 => w2[b].nonce > 0
      BY <3>2
    <3> QED
      BY <2>1, <3>1, <3>3
  <2>3. CASE ~w[b].just_created
    <3>1. b = a
      BY <1>2, <2>3
    <3> QED
      BY <1>2, <2>1, <2>3, <3>1 DEF CreatesOK
  <2> QED
    BY <2>2, <2>3
<1> QED
  BY <1>2, <1>3, <1>4, <1>5 DEF WorldOK, w2

\* What a change of account e.acc of s to acc2 has to satisfy for entry e to
\* undo it.
Revertible(s, e, acc2) ==
    LET view == s.initial[e.acc]
        acc  == s.modified[e.acc]
        o    == Observed(acc, view)
        o2   == Observed(acc2, view)
    IN  /\ AccountOK(acc2, view) /\ KeepsLoaded(acc, acc2) /\ EntryOK(e, acc2)
        /\ o = UndoObservation(o2, e)
        /\ UndoExpects(o2, e, view)
        /\ ObservationOK(o2, view)
        /\ Growth(o, o2)
        /\ CreatesOK(World(s), o, o2, e.acc)

(* A change that is undone by the entry written for it extends the journal. *)
LEMMA JournaledStep ==
    ASSUME NEW s, Good(s), NEW e \in JournalEntry, NEW acc2, Revertible(s, e, acc2)
    PROVE  Extends(s, After(s, e.acc, acc2, Append(s.journal, e)))
<1> DEFINE a == e.acc
           n == Len(s.journal)
           j == Append(s.journal, e)
           t == After(s, a, acc2, j)
           w == [i \in Nat |-> IF i <= n + 1 THEN World(s) ELSE World(t)]
           view == s.initial[a]
           o2 == Observed(acc2, view)
<1>1. a \in Addr /\ n \in Nat /\ s.journal \in Seq(JournalEntry)
  BY EntryFields, StateFields DEF Good
<1>2. StateOK(s) /\ WorldOK(World(s), s.initial) /\ World(s) \in Worlds
  BY DEF Good, WorldOK
<1>3. World(s)[a] = Observed(s.modified[a], view)
  BY <1>1, WorldAt
<1>4. /\ AccountOK(acc2, view) /\ KeepsLoaded(s.modified[a], acc2) /\ EntryOK(e, acc2)
      /\ World(s)[a] = UndoObservation(o2, e)
      /\ UndoExpects(o2, e, view)
      /\ ObservationOK(o2, view)
      /\ Growth(World(s)[a], o2)
      /\ CreatesOK(World(s), World(s)[a], o2, a)
  BY <1>3 DEF Revertible
<1>5. /\ j \in Seq(JournalEntry) /\ Len(j) = n + 1 /\ j[n + 1] = e
      /\ \A i \in 1..n : j[i] = s.journal[i]
  BY <1>1, AppendProperties
<1>6. IsAfter(t, s, a, acc2, j)
  BY <1>1, <1>2, <1>4, AfterFields
<1>7. World(t) = [World(s) EXCEPT ![a] = o2]
  <2> HIDE DEF t, j, w, n
  <2> QED
    BY <1>1, <1>6, AfterWorld
<1>8. t.initial = s.initial /\ t.journal = j
  BY <1>6 DEF IsAfter
<1>9. \A i \in 1..Len(j) : \/ i \in 1..Len(s.journal) /\ j[i] = s.journal[i]
                           \/ j[i].acc = a /\ EntryOK(j[i], acc2)
  <2>1. \A i \in 1..Len(j) : i \in 1..n \/ i = n + 1
    BY <1>1, <1>5
  <2> QED
    BY <1>4, <1>5, <2>1
<1> HIDE DEF j, o2, view
<1>10. StateOK(t) /\ \A b \in Addr : KeepsLoaded(s.modified[b], t.modified[b])
  BY <1>1, <1>2, <1>4, <1>5, <1>9, AfterOK DEF view
<1> HIDE DEF t, a
<1>11. WorldOK(World(t), s.initial) /\ Grows(World(s), World(t))
  <2>1. ObservationOK(o2, s.initial[a])
    BY <1>4 DEF view
  <2>2. /\ WorldOK([World(s) EXCEPT ![a] = o2], s.initial)
        /\ Grows(World(s), [World(s) EXCEPT ![a] = o2])
    BY ONLY <1>1, <1>2, <1>4, <2>1, GrownWorld
  <2> QED
    BY <1>7, <2>2
<1>12. Good(t)
  BY <1>8, <1>10, <1>11 DEF Good
<1>13. World(t) \in Worlds
  BY <1>11 DEF WorldOK
<1>14. Grows(World(s), World(s))
  BY <1>2, GrowthSame DEF Grows, Worlds
<1>15. Undoes(World(s), e, World(t), s.initial)
  <2>1. World(t)[a] = o2
    BY <1>1, <1>2, <1>7 DEF Worlds
  <2>2. [World(t) EXCEPT ![a] = UndoObservation(@, e)] = World(s)
    BY <1>1, <1>2, <1>4, <1>7, <2>1 DEF Worlds
  <2> QED
    BY <1>4, <2>1, <2>2 DEF Undoes, a, view
<1>16. /\ w \in [Nat -> Worlds] /\ w[n + 1] = World(s) /\ w[n + 2] = World(t)
  BY <1>1, <1>2, <1>13
<1> HIDE DEF w
<1>17. Labels(t, n, w)
  <2>1. (n + 1)..(n + 1) = {n + 1} /\ (n + 1)..(n + 2) = {n + 1, n + 2} /\ n + 1 + 1 = n + 2
        /\ n <= n + 1
    BY <1>1
  <2>2. Len(t.journal) = n + 1 /\ t.journal[n + 1] = e /\ Len(t.journal) + 1 = n + 2
    BY <1>1, <1>5, <1>8
  <2> HIDE DEF n
  <2> QED
    BY <1>1, <1>2, <1>8, <1>11, <1>15, <1>16, <2>1, <2>2 DEF Labels
<1>18. \A i \in (n + 1)..(Len(t.journal) + 1) : Grows(World(s), w[i])
  <2>1. \A i \in (n + 1)..(Len(t.journal) + 1) : i = n + 1 \/ i = n + 2
    BY <1>1, <1>5, <1>8
  <2> QED
    BY <1>11, <1>14, <1>16, <2>1
<1>19. Extends(s, t)
  <2>1. n <= Len(t.journal) /\ \A i \in 1..n : t.journal[i] = s.journal[i]
    BY <1>1, <1>5, <1>8
  <2> QED
    BY <1>8, <1>10, <1>12, <1>16, <1>17, <1>18, <2>1 DEF Extends
<1> QED
  BY <1>19 DEF t, a, j

(* Undoing the newest entry leads to the world labelled so. *)
LEMMA UndoStep ==
    ASSUME NEW s, StateOK(s), Len(s.journal) > 0, NEW w,
           WorldOK(w, s.initial),
           Undoes(w, s.journal[Len(s.journal)], World(s), s.initial)
    PROVE  /\ StateOK(UndoLast(s)) /\ World(UndoLast(s)) = w
           /\ UndoLast(s).initial = s.initial
           /\ UndoLast(s).journal = SubSeq(s.journal, 1, Len(s.journal) - 1)
           /\ \A a \in Addr : KeepsLoaded(s.modified[a], UndoLast(s).modified[a])
           /\ UndoAsserts(s.modified[s.journal[Len(s.journal)].acc], s.journal[Len(s.journal)])
<1> DEFINE n == Len(s.journal)
           e == s.journal[n]
           a == e.acc
           acc == s.modified[a]
           acc2 == UndoAccount(acc, e)
           view == s.initial[a]
           j == SubSeq(s.journal, 1, n - 1)
           t == After(s, a, acc2, j)
           o == Observed(acc, view)
<1>1. n \in Nat /\ s.journal \in Seq(JournalEntry) /\ n >= 1
  BY StateFields
<1>2. e \in JournalEntry /\ a \in Addr
  BY <1>1, ElementOfSeq, EntryFields
<1>3. EntryOK(e, acc)
  BY <1>1 DEF StateOK
<1>4. /\ view \in ViewAccount /\ (~view.exists => view = NoAccount)
      /\ AccountOK(acc, view) /\ acc \in Account
  BY <1>2, StateFields
<1>5. UndoLast(s) = t
  <2>1. s = [initial |-> s.initial, modified |-> s.modified, journal |-> s.journal]
    BY StateFields
  <2>2. t = [initial |-> s.initial, modified |-> [s.modified EXCEPT ![a] = acc2],
             journal |-> j]
    BY DEF After
  <2>3. UndoLast(s) = [s EXCEPT !.modified[a] = UndoAccount(@, e), !.journal = j]
    BY DEF UndoLast
  <2>4. s.modified \in [Addr -> Account]
    BY StateFields
  <2> HIDE DEF j, e, t
  <2> QED
    BY <2>1, <2>2, <2>3, <2>4
<1>6. /\ j \in Seq(JournalEntry) /\ Len(j) = n - 1
      /\ \A i \in 1..(n - 1) : j[i] = s.journal[i]
  <2>1. \A i \in 1..(n - 1) : s.journal[i] \in JournalEntry
    BY <1>1, ElementOfSeq
  <2>2. 1 \in Int /\ n - 1 \in Int
    BY <1>1
  <2>3. /\ j \in Seq(JournalEntry)
        /\ Len(j) = IF 1 <= n - 1 THEN (n - 1) - 1 + 1 ELSE 0
        /\ \A i \in 1..((n - 1) - 1 + 1) : j[i] = s.journal[1 + i - 1]
    BY <1>1, <2>1, <2>2, SubSeqProperties
  <2>4. Len(j) = n - 1
    <3>1. Len(j) = IF 1 <= n - 1 THEN (n - 1) - 1 + 1 ELSE 0
      BY <2>3
    <3> HIDE DEF j, n
    <3> QED
      BY <1>1, <3>1
  <2>5. ASSUME NEW i \in 1..(n - 1) PROVE j[i] = s.journal[i]
    <3>1. i \in 1..((n - 1) - 1 + 1) /\ 1 + i - 1 = i
      BY <1>1
    <3> QED
      BY <2>3, <3>1
  <2> QED
    BY <2>3, <2>4, <2>5
<1>7. World(s)[a] = o /\ World(s) \in Worlds
  BY <1>2, WorldAt, WorldType
<1>8. /\ w = [World(s) EXCEPT ![a] = UndoObservation(o, e)]
      /\ UndoExpects(o, e, view)
  BY <1>7 DEF Undoes
<1>9. Observed(acc2, view) = UndoObservation(o, e)
  BY <1>2, <1>3, <1>4, UndoObserved
<1> HIDE DEF j, o, acc2, view
<1>10. w \in Worlds
  BY DEF WorldOK
<1>11. w[a] = Observed(acc2, view) /\ w[a] \in Observation
  BY <1>2, <1>7, <1>8, <1>9, <1>10 DEF Worlds
<1>12. acc2 \in RawAccount /\ acc2.loaded = acc.loaded
  BY <1>2, <1>4, UndoFields DEF acc2, Undone
<1>13. acc2.nonce \in Nat
  <2>1. CASE acc.loaded
    <3>1. Observed(acc2, view).nonce = acc2.nonce
      BY <1>4, <1>12, <2>1, ObservedShows DEF Shows
    <3> QED
      BY <1>11, <3>1 DEF Observation
  <2>2. CASE ~acc.loaded
    <3>1. e.t = "flags" /\ ~e.nonexistent
      BY <1>3, <2>2 DEF EntryOK
    <3>2. ~Clears(e)
      BY <3>1 DEF Clears
    <3>3. acc2.nonce = acc.nonce
      BY <1>2, <1>4, <3>1, <3>2, UndoFields DEF Undone, acc2
    <3> QED
      BY <1>4, <3>3 DEF Account
  <2> QED
    BY <2>1, <2>2
<1>14. AccountOK(acc2, view) /\ KeepsLoaded(acc, acc2)
  BY <1>2, <1>3, <1>4, <1>13, UndoAccountOK DEF acc2
<1>15. IsAfter(t, s, a, acc2, j)
  BY <1>2, <1>14, AfterFields DEF view
<1>16. StateOK(t) /\ \A b \in Addr : KeepsLoaded(s.modified[b], t.modified[b])
  <2>1. \A i \in 1..Len(j) : i \in 1..Len(s.journal) /\ j[i] = s.journal[i]
    BY <1>1, <1>6
  <2> QED
    BY <1>2, <1>6, <1>14, <2>1, AfterOK DEF view
<1>17. World(t) = [World(s) EXCEPT ![a] = Observed(acc2, view)]
  <2> HIDE DEF t, a, acc, e
  <2>1. World(t) = [World(s) EXCEPT ![a] = Observed(acc2, s.initial[a])]
    BY <1>2, <1>15, AfterWorld
  <2> QED
    BY <2>1 DEF view
<1>18. World(t) = w
  BY <1>8, <1>9, <1>17
<1>19. UndoAsserts(acc, e)
  <2>1. CASE acc.loaded
    <3>1. acc \in RawAccount
      BY <1>4, AccountRaw
    <3>2. Shows(o, acc, view)
      BY <1>4, <2>1, <3>1, ObservedShows DEF o
    <3>3. e.t \in {"nonce", "create", "balance"} => ~acc.nonexistent
      BY <1>4, <1>8, <3>2 DEF UndoExpects, Shows, Account
    <3>4. /\ e.t = "nonce" => acc.nonce > 0
          /\ e.t = "flags" /\ e.nonexistent => acc.balance = 0
      BY <1>8, <3>2 DEF UndoExpects, Shows
    <3>5. e.t = "storage" /\ ~e.prev_loaded =>
             acc.storage[e.key].current = acc.storage[e.key].original
      <4> SUFFICES ASSUME e.t = "storage", ~e.prev_loaded
                   PROVE  acc.storage[e.key].current = acc.storage[e.key].original
        OBVIOUS
      <4>1. e.key \in Key
        BY <1>2, EntryFields
      <4>2. o.storage[e.key] = view.storage[e.key]
        BY <1>8 DEF UndoExpects
      <4>3. SlotsOK(acc, view)
        BY <1>4 DEF AccountOK
      <4> QED
        BY <3>2, <4>1, <4>2, <4>3 DEF Shows, SlotsOK
    <3> QED
      BY <3>3, <3>4, <3>5 DEF UndoAsserts
  <2>2. CASE ~acc.loaded
    BY <1>3, <2>2 DEF EntryOK, UndoAsserts
  <2> QED
    BY <2>1, <2>2
<1> QED
  BY <1>5, <1>15, <1>16, <1>18, <1>19 DEF IsAfter, j

-----------------------------------------------------------------------------
(* Steps one after the other. *)

LEMMA ExtendsFacts ==
    ASSUME NEW s, StateOK(s), NEW t, Extends(s, t)
    PROVE  /\ Good(t) /\ StateOK(t) /\ WorldOK(World(t), t.initial)
           /\ t.initial = s.initial
           /\ \A a \in Addr : KeepsLoaded(s.modified[a], t.modified[a])
           /\ Grows(World(s), World(t))
<1>1. PICK w : /\ Labels(t, Len(s.journal), w)
               /\ w[Len(s.journal) + 1] = World(s)
               /\ \A i \in (Len(s.journal) + 1)..(Len(t.journal) + 1) :
                     Grows(World(s), w[i])
  BY DEF Extends
<1>2. Good(t) /\ Len(s.journal) <= Len(t.journal)
  BY DEF Extends
<1>3. Len(s.journal) \in Nat /\ Len(t.journal) \in Nat
  BY <1>2, StateFields DEF Good
<1>4. Len(t.journal) + 1 \in (Len(s.journal) + 1)..(Len(t.journal) + 1)
  BY <1>2, <1>3
<1>5. Grows(World(s), World(t))
  BY <1>1, <1>4 DEF Labels
<1> QED
  BY <1>2, <1>5 DEF Extends, Good

LEMMA ExtendsSelf ==
    ASSUME NEW s, Good(s) PROVE Extends(s, s)
  BY QuietStep, KeepsSame DEF Good

\* The labels of s, continued by those of the entries written since.
Continued(w, w2, s, t) ==
    /\ \A i \in 1..(Len(s.journal) + 1) : w2[i] = w[i]
    /\ \A i \in (Len(s.journal) + 1)..(Len(t.journal) + 1) : Grows(World(s), w2[i])

LEMMA LabelsExtend ==
    ASSUME NEW s, Good(s), NEW t, Extends(s, t), NEW base, NEW w, Labels(s, base, w)
    PROVE  \E w2 : Labels(t, base, w2) /\ Continued(w, w2, s, t)
<1> DEFINE n == Len(s.journal)
           m == Len(t.journal)
<1>1. PICK v : /\ Labels(t, n, v) /\ v[n + 1] = World(s)
               /\ \A i \in (n + 1)..(m + 1) : Grows(World(s), v[i])
  BY DEF Extends
<1> DEFINE w2 == [i \in Nat |-> IF i <= n THEN w[i] ELSE v[i]]
<1>2. /\ n \in Nat /\ m \in Nat /\ n <= m /\ t.initial = s.initial
      /\ \A i \in 1..n : t.journal[i] = s.journal[i]
  BY StateFields, ExtendsFacts DEF Good, Extends
<1>3. /\ w \in [Nat -> Worlds] /\ base \in Nat /\ base <= n
      /\ w[n + 1] = World(s)
      /\ \A i \in (base + 1)..(n + 1) : WorldOK(w[i], s.initial)
      /\ \A i \in (base + 1)..n : Undoes(w[i], s.journal[i], w[i + 1], s.initial)
  BY DEF Labels
<1>4. /\ v \in [Nat -> Worlds] /\ v[m + 1] = World(t)
      /\ \A i \in (n + 1)..(m + 1) : WorldOK(v[i], s.initial)
      /\ \A i \in (n + 1)..m : Undoes(v[i], t.journal[i], v[i + 1], s.initial)
  BY <1>1, <1>2 DEF Labels
<1> HIDE DEF n, m
<1>5. w2 \in [Nat -> Worlds]
  BY <1>3, <1>4
<1>6. \A i \in Nat : (i <= n + 1 => w2[i] = w[i]) /\ (i >= n + 1 => w2[i] = v[i])
  BY <1>1, <1>2, <1>3, <1>4
<1> HIDE DEF w2
<1>7. \A i \in (base + 1)..(m + 1) : WorldOK(w2[i], s.initial)
  <2> SUFFICES ASSUME NEW i \in (base + 1)..(m + 1) PROVE WorldOK(w2[i], s.initial)
    OBVIOUS
  <2>1. CASE i <= n + 1
    <3>1. i \in Nat /\ i \in (base + 1)..(n + 1)
      BY <1>2, <1>3, <2>1
    <3> QED
      BY <1>3, <1>6, <2>1, <3>1
  <2>2. CASE ~(i <= n + 1)
    <3>1. i \in Nat /\ i \in (n + 1)..(m + 1) /\ i >= n + 1
      BY <1>2, <1>3, <2>2
    <3> QED
      BY <1>4, <1>6, <3>1
  <2> QED
    BY <2>1, <2>2
<1>8. \A i \in (base + 1)..m : Undoes(w2[i], t.journal[i], w2[i + 1], s.initial)
  <2> SUFFICES ASSUME NEW i \in (base + 1)..m
               PROVE  Undoes(w2[i], t.journal[i], w2[i + 1], s.initial)
    OBVIOUS
  <2>1. CASE i <= n
    <3>1. i \in Nat /\ i \in (base + 1)..n /\ i \in 1..n /\ i <= n + 1 /\ i + 1 <= n + 1
          /\ i + 1 \in Nat
      BY <1>2, <1>3, <2>1
    <3> QED
      BY <1>2, <1>3, <1>6, <3>1
  <2>2. CASE ~(i <= n)
    <3>1. i \in Nat /\ i \in (n + 1)..m /\ i >= n + 1 /\ i + 1 >= n + 1 /\ i + 1 \in Nat
      BY <1>2, <1>3, <2>2
    <3> QED
      BY <1>4, <1>6, <3>1
  <2> QED
    BY <2>1, <2>2
<1>9. w2[m + 1] = World(t)
  BY <1>2, <1>4, <1>6
<1>10. base <= m
  BY <1>2, <1>3
<1>11. Labels(t, base, w2)
  BY <1>2, <1>3, <1>5, <1>7, <1>8, <1>9, <1>10 DEF Labels, m
<1>12. \A i \in 1..(n + 1) : w2[i] = w[i]
  BY <1>2, <1>6
<1>13. \A i \in (n + 1)..(m + 1) : Grows(World(s), w2[i])
  BY <1>1, <1>2, <1>6
<1>14. Continued(w, w2, s, t)
  BY <1>12, <1>13 DEF Continued, n, m
<1> QED
  BY <1>11, <1>14

LEMMA ExtendsTransitive ==
    ASSUME NEW s, Good(s), NEW t, Extends(s, t), NEW u, Extends(t, u)
    PROVE  Extends(s, u)
<1> DEFINE n == Len(s.journal)
           m == Len(t.journal)
           l == Len(u.journal)
<1>1. PICK w : /\ Labels(t, n, w) /\ w[n + 1] = World(s)
               /\ \A i \in (n + 1)..(m + 1) : Grows(World(s), w[i])
  BY DEF Extends
<1>2. /\ StateOK(s) /\ Good(t) /\ StateOK(t) /\ Good(u) /\ StateOK(u)
      /\ u.initial = t.initial /\ t.initial = s.initial
  BY ExtendsFacts DEF Good
<1>3. /\ n \in Nat /\ m \in Nat /\ l \in Nat /\ n <= m /\ m <= l
      /\ \A i \in 1..n : t.journal[i] = s.journal[i]
      /\ \A i \in 1..m : u.journal[i] = t.journal[i]
  BY <1>2, StateFields DEF Extends
<1>4. PICK w2 : Labels(u, n, w2) /\ Continued(w, w2, t, u)
  BY <1>1, <1>2, LabelsExtend
<1>5. \A a \in Addr : KeepsLoaded(s.modified[a], u.modified[a])
  <2>1. \A a \in Addr : KeepsLoaded(s.modified[a], t.modified[a])
                        /\ KeepsLoaded(t.modified[a], u.modified[a])
    BY DEF Extends
  <2> QED
    BY <2>1 DEF KeepsLoaded
<1>6. World(s) \in Worlds /\ World(t) \in Worlds
  BY <1>2, WorldType
<1>7. Grows(World(s), World(t))
  BY <1>2, ExtendsFacts
<1>8. /\ \A i \in 1..(m + 1) : w2[i] = w[i]
      /\ \A i \in (m + 1)..(l + 1) : Grows(World(t), w2[i])
      /\ w2 \in [Nat -> Worlds]
  BY <1>4 DEF Continued, Labels
<1> HIDE DEF n, m, l
<1>9. \A i \in (n + 1)..(l + 1) : Grows(World(s), w2[i])
  <2> SUFFICES ASSUME NEW i \in (n + 1)..(l + 1) PROVE Grows(World(s), w2[i])
    OBVIOUS
  <2>1. CASE i <= m + 1
    <3>1. i \in 1..(m + 1) /\ i \in (n + 1)..(m + 1)
      BY <1>3, <2>1
    <3> QED
      BY <1>1, <1>8, <3>1
  <2>2. CASE ~(i <= m + 1)
    <3>1. i \in Nat /\ i \in (m + 1)..(l + 1)
      BY <1>3, <2>2
    <3>2. w2[i] \in Worlds /\ Grows(World(t), w2[i])
      BY <1>8, <3>1
    <3> QED
      BY <1>6, <1>7, <3>2, GrowsTransitive
  <2> QED
    BY <2>1, <2>2
<1>10. w2[n + 1] = World(s)
  BY <1>1, <1>3, <1>8
<1>11. n <= l /\ \A i \in 1..n : u.journal[i] = s.journal[i]
  BY <1>3
<1> QED
  BY <1>2, <1>4, <1>5, <1>9, <1>10, <1>11 DEF Extends, n, l

-----------------------------------------------------------------------------
(* Lookups. *)

\* t is s after a step that is not observable.
Quiet(s, t) ==
    /\ Extends(s, t) /\ World(t) = World(s)
    /\ t.journal = s.journal /\ t.initial = s.initial

LEMMA QuietAfter ==
    ASSUME NEW s, Good(s), NEW a \in Addr, NEW acc2, AccountOK(acc2, s.initial[a]),
           KeepsLoaded(s.modified[a], acc2),
           Observed(acc2, s.initial[a]) = Observed(s.modified[a], s.initial[a])
    PROVE  Quiet(s, After(s, a, acc2, s.journal))
<1> DEFINE t == After(s, a, acc2, s.journal)
<1>1. StateOK(s) /\ s.journal \in Seq(JournalEntry)
  BY StateFields DEF Good
<1>2. IsAfter(t, s, a, acc2, s.journal)
  BY <1>1, AfterFields
<1>3. World(t) = [World(s) EXCEPT ![a] = Observed(acc2, s.initial[a])]
  BY <1>2, AfterWorld
<1>4. World(s)[a] = Observed(s.modified[a], s.initial[a]) /\ World(s) \in Worlds
  BY <1>1, WorldAt, WorldType
<1>5. World(t) = World(s)
  BY <1>3, <1>4 DEF Worlds
<1>6. StateOK(t) /\ \A b \in Addr : KeepsLoaded(s.modified[b], t.modified[b])
  BY <1>1, AfterOK
<1>7. t.initial = s.initial /\ t.journal = s.journal
  BY <1>2 DEF IsAfter
<1> HIDE DEF t
<1>8. Extends(s, t)
  BY <1>5, <1>6, <1>7, QuietStep
<1> QED
  BY <1>5, <1>7, <1>8 DEF Quiet, t

LEMMA QuietSelf ==
    ASSUME NEW s, Good(s) PROVE Quiet(s, s)
  BY ExtendsSelf DEF Quiet

LEMMA QuietTransitive ==
    ASSUME NEW s, Good(s), NEW t, Quiet(s, t), NEW u, Quiet(t, u)
    PROVE  Quiet(s, u)
  BY ExtendsTransitive DEF Quiet

LEMMA GetStep ==
    ASSUME NEW s, Good(s), NEW a \in Addr
    PROVE  /\ Quiet(s, Get(s, a)) /\ Good(Get(s, a))
           /\ Get(s, a).modified[a].loaded
<1>s. StateOK(s)
  BY DEF Good
<1>1. CASE s.modified[a].loaded
  BY <1>1, QuietSelf DEF Get
<1>2. CASE ~s.modified[a].loaded
  <2> DEFINE view == s.initial[a]
             acc == s.modified[a]
             lo == LoadAccount(acc, view)
             t == After(s, a, lo, s.journal)
  <2>1. /\ view \in ViewAccount /\ (~view.exists => view = NoAccount)
        /\ AccountOK(acc, view)
        /\ s.modified \in [Addr -> Account]
        /\ s = [initial |-> s.initial, modified |-> s.modified, journal |-> s.journal]
    BY <1>s, StateFields
  <2>2. Get(s, a) = t
    <3>1. Get(s, a) = [s EXCEPT !.modified[a] = LoadAccount(@, view)]
      BY <1>2 DEF Get
    <3>2. t = [initial |-> s.initial, modified |-> [s.modified EXCEPT ![a] = lo],
               journal |-> s.journal]
      BY DEF After
    <3> HIDE DEF view, t
    <3> QED
      BY <2>1, <3>1, <3>2
  <2>3. AccountOK(lo, view) /\ lo.loaded /\ lo.storage = acc.storage
    BY <1>2, <2>1, LoadOK
  <2>4. Observed(lo, view) = Observed(acc, view)
    BY <1>2, <2>1, LoadObserved
  <2> HIDE DEF lo
  <2>5. KeepsLoaded(acc, lo)
    BY <2>3 DEF KeepsLoaded
  <2>6. Quiet(s, t)
    BY <2>3, <2>4, <2>5, QuietAfter
  <2>7. t.modified[a] = lo
    BY <2>1 DEF After
  <2> QED
    BY <2>2, <2>3, <2>6, <2>7 DEF Quiet, Extends
<1> QED
  BY <1>1, <1>2

(* Caching the code is right as long as the hash is that of the view's code. *)
LEMMA GetCodeStep ==
    ASSUME NEW s, Good(s), NEW a \in Addr
    PROVE  /\ Quiet(s, GetCode(s, a)) /\ Good(GetCode(s, a))
           /\ GetCode(s, a).modified[a].loaded
           /\ GetCode(s, a).modified[a].code_hash = World(s)[a].code
<1> DEFINE s1 == Get(s, a)
           acc == s1.modified[a]
           view == s1.initial[a]
<1>1. Quiet(s, s1) /\ Good(s1) /\ acc.loaded
  BY GetStep
<1>2. World(s1) = World(s) /\ s1.initial = s.initial
  BY <1>1 DEF Quiet
<1>s. StateOK(s1)
  BY <1>1 DEF Good
<1> HIDE DEF s1
<1>3. /\ view \in ViewAccount /\ AccountOK(acc, view) /\ acc \in Account
      /\ s1.modified \in [Addr -> Account]
      /\ s1 = [initial |-> s1.initial, modified |-> s1.modified, journal |-> s1.journal]
  BY <1>s, StateFields
<1>r. acc \in RawAccount
  BY <1>3, AccountRaw
<1>4. acc.code_hash = World(s)[a].code
  <2>1. World(s1)[a] = Observed(acc, view)
    BY WorldAt
  <2>2. Shows(Observed(acc, view), acc, view)
    BY <1>1, <1>3, <1>r, ObservedShows
  <2> QED
    BY <1>2, <2>1, <2>2 DEF Shows
<1>5. CASE acc.code_hash # NoCode /\ acc.code = NoCode
  <2> DEFINE acc2 == [acc EXCEPT !.code = view.code]
             t == After(s1, a, acc2, s1.journal)
  <2>1. GetCode(s, a) = t
    <3>1. GetCode(s, a) = [s1 EXCEPT !.modified[a].code = s.initial[a].code]
      BY <1>5 DEF GetCode, s1
    <3>2. t = [initial |-> s1.initial, modified |-> [s1.modified EXCEPT ![a] = acc2],
               journal |-> s1.journal]
      BY DEF After
    <3> HIDE DEF t
    <3> QED
      BY <1>2, <1>3, <3>1, <3>2
  <2>2. acc.code_hash = view.code
    BY <1>3, <1>5 DEF AccountOK, CacheOK
  <2>3. acc2 \in Account
    BY <1>3 DEF Account, ViewAccount
  <2>4. /\ acc2.code = view.code /\ acc2.code_hash = acc.code_hash
        /\ acc2.code_changed = acc.code_changed /\ acc2.loaded = acc.loaded
        /\ acc2.storage = acc.storage /\ acc2.has_initial_storage = acc.has_initial_storage
        /\ acc2.nonexistent = acc.nonexistent /\ acc2.nonce = acc.nonce
        /\ acc2.balance = acc.balance /\ acc2.transient_storage = acc.transient_storage
        /\ acc2.warm = acc.warm /\ acc2.destructed = acc.destructed
        /\ acc2.erase_if_empty = acc.erase_if_empty
        /\ acc2.just_created = acc.just_created
    BY <1>3 DEF Account
  <2> HIDE DEF acc2
  <2>5. AccountOK(acc2, view)
    BY <1>1, <1>3, <2>2, <2>3, <2>4 DEF AccountOK, CacheOK, SlotsOK, LoadedOK
  <2>6. KeepsLoaded(acc, acc2)
    BY <2>4 DEF KeepsLoaded
  <2>7. Observed(acc2, view) = Observed(acc, view)
    BY <1>1, <2>4 DEF Observed
  <2>8. Quiet(s1, t)
    BY <1>1, <2>5, <2>6, <2>7, QuietAfter
  <2>9. t.modified[a] = acc2
    BY <1>3 DEF After
  <2> HIDE DEF t
  <2>10. Quiet(s, t)
    BY <1>1, <2>8, QuietTransitive
  <2> QED
    BY <1>1, <1>4, <2>1, <2>4, <2>9, <2>10 DEF Quiet, Extends
<1>6. CASE ~(acc.code_hash # NoCode /\ acc.code = NoCode)
  <2>1. GetCode(s, a) = s1
    BY <1>6 DEF GetCode, s1
  <2> QED
    BY <1>1, <1>4, <2>1
<1> QED
  BY <1>5, <1>6

LEMMA GetStorageStep ==
    ASSUME NEW s, Good(s), NEW a \in Addr, NEW k \in Key
    PROVE  /\ Quiet(s, GetStorage(s, a, k)) /\ Good(GetStorage(s, a, k))
           /\ GetStorage(s, a, k).modified[a].storage[k].loaded
           /\ s.modified[a].loaded => GetStorage(s, a, k).modified[a].loaded
<1>s. StateOK(s)
  BY DEF Good
<1>1. CASE s.modified[a].storage[k].loaded
  BY <1>1, QuietSelf DEF GetStorage
<1>2. CASE ~s.modified[a].storage[k].loaded
  <2> DEFINE view == s.initial[a]
             acc == s.modified[a]
             slot == [acc.storage[k] EXCEPT !.loaded = TRUE, !.original = view.storage[k],
                                            !.current = view.storage[k]]
             st == [acc.storage EXCEPT ![k] = slot]
             acc2 == [acc EXCEPT !.storage = st]
             t == After(s, a, acc2, s.journal)
  <2>1. /\ view \in ViewAccount /\ (~view.exists => view = NoAccount)
        /\ AccountOK(acc, view) /\ acc \in Account
        /\ s.modified \in [Addr -> Account]
        /\ s = [initial |-> s.initial, modified |-> s.modified, journal |-> s.journal]
    BY <1>s, StateFields
  <2>2. GetStorage(s, a, k) = t
    <3>1. GetStorage(s, a, k) =
            [s EXCEPT !.modified[a].storage[k] =
              [@ EXCEPT !.loaded   = TRUE,
                        !.original = view.storage[k],
                        !.current  = view.storage[k]]]
      BY <1>2 DEF GetStorage
    <3>2. t = [initial |-> s.initial, modified |-> [s.modified EXCEPT ![a] = acc2],
               journal |-> s.journal]
      BY DEF After
    <3>3. acc.storage \in [Key -> StorageValue]
      BY <2>1 DEF Account
    <3>4. [s EXCEPT !.modified[a].storage[k] =
              [@ EXCEPT !.loaded   = TRUE,
                        !.original = view.storage[k],
                        !.current  = view.storage[k]]]
          = [s EXCEPT !.modified = [s.modified EXCEPT ![a] = acc2]]
      BY <2>1, <3>3
    <3> HIDE DEF view, t, acc2
    <3> QED
      BY <2>1, <3>1, <3>2, <3>4
  <2>3. slot \in StorageValue /\ slot.warm = acc.storage[k].warm /\ slot.loaded
        /\ slot.original = view.storage[k] /\ slot.current = view.storage[k]
    <3>1. acc.storage[k] \in StorageValue
      BY <2>1 DEF Account
    <3>2. view.storage[k] \in Val
      BY <2>1 DEF ViewAccount
    <3> HIDE DEF acc, view
    <3> QED
      BY <3>1, <3>2 DEF StorageValue
  <2> HIDE DEF slot
  <2>4. /\ st \in [Key -> StorageValue] /\ st[k] = slot
        /\ \A l \in Key : l # k => st[l] = acc.storage[l]
    BY <2>1, <2>3 DEF Account
  <2> HIDE DEF st
  <2>5. acc2 \in Account /\ acc2.storage = st
    BY <2>1, <2>4 DEF Account
  <2>6. /\ acc2.code = acc.code /\ acc2.code_hash = acc.code_hash
        /\ acc2.code_changed = acc.code_changed /\ acc2.loaded = acc.loaded
        /\ acc2.has_initial_storage = acc.has_initial_storage
        /\ acc2.nonexistent = acc.nonexistent /\ acc2.nonce = acc.nonce
        /\ acc2.balance = acc.balance /\ acc2.transient_storage = acc.transient_storage
        /\ acc2.warm = acc.warm /\ acc2.destructed = acc.destructed
        /\ acc2.erase_if_empty = acc.erase_if_empty
        /\ acc2.just_created = acc.just_created
    BY <2>1 DEF Account
  <2> HIDE DEF acc2
  <2>o. ~acc.loaded => \A l \in Key : acc2.storage[l].current = acc2.storage[l].original
    <3>1. ~acc.loaded => \A l \in Key : acc.storage[l].current = acc.storage[l].original
      BY <2>1 DEF AccountOK, LoadedOK
    <3> QED
      BY <2>3, <2>4, <2>5, <3>1
  <2>7. CacheOK(acc2, view) /\ LoadedOK(acc2, view)
    BY <2>1, <2>6, <2>o DEF AccountOK, CacheOK, LoadedOK
  <2>8. SlotsOK(acc2, view)
    BY <2>1, <2>3, <2>4, <2>5 DEF AccountOK, SlotsOK
  <2>9. AccountOK(acc2, view)
    BY <2>5, <2>7, <2>8 DEF AccountOK
  <2>10. KeepsLoaded(acc, acc2)
    BY <2>3, <2>4, <2>5, <2>6 DEF KeepsLoaded
  <2>11. \A l \in Key : /\ (IF st[l].loaded THEN st[l].current ELSE view.storage[l])
                           = (IF acc.storage[l].loaded THEN acc.storage[l].current
                              ELSE view.storage[l])
                        /\ st[l].warm = acc.storage[l].warm
    BY <1>2, <2>3, <2>4
  <2>12. Observed(acc2, view) = Observed(acc, view)
    <3> DEFINE o == Observed(acc, view)
               o2 == Observed(acc2, view)
    <3>1. o \in RawObservation /\ o2 \in RawObservation
      BY <2>1, <2>9, ObservedType DEF Observation, RawObservation
    <3>2. CASE acc.loaded
      <4>1. Shows(o, acc, view) /\ Shows(o2, acc2, view)
        BY <2>1, <2>5, <2>6, <3>2, AccountRaw, ObservedShows
      <4> HIDE DEF o, o2
      <4>2. o.storage = o2.storage /\ o.warm_storage = o2.warm_storage
        BY <2>5, <2>11, <4>1 DEF Shows
      <4>4. /\ o.exists = o2.exists /\ o.nonce = o2.nonce /\ o.balance = o2.balance
            /\ o.code = o2.code /\ o.has_code = o2.has_code
            /\ o.transient_storage = o2.transient_storage /\ o.warm = o2.warm
            /\ o.destructed = o2.destructed /\ o.erase_if_empty = o2.erase_if_empty
            /\ o.just_created = o2.just_created /\ o.code_changed = o2.code_changed
        BY <2>6, <4>1 DEF Shows
      <4>3. o = o2
        BY <3>1, <4>2, <4>4, ObservationEqual
      <4> QED
        BY <4>3 DEF o, o2
    <3>3. CASE ~acc.loaded
      <4>1. /\ o.exists = view.exists
            /\ o.nonce = view.nonce /\ o.balance = view.balance
            /\ o.code = view.code
            /\ o.has_code = (view.code # NoCode)
            /\ o.storage = [l \in Key |-> IF acc.storage[l].loaded
                                  THEN acc.storage[l].current ELSE view.storage[l]]
            /\ o.warm_storage = [l \in Key |-> acc.storage[l].warm]
            /\ o.transient_storage = acc.transient_storage
            /\ o.warm = acc.warm
            /\ ~o.destructed /\ ~o.erase_if_empty
            /\ ~o.just_created /\ ~o.code_changed
        BY <2>1, <3>3, ObservedUnloaded
      <4>2. /\ o2.exists = view.exists
            /\ o2.nonce = view.nonce /\ o2.balance = view.balance
            /\ o2.code = view.code
            /\ o2.has_code = (view.code # NoCode)
            /\ o2.storage = [l \in Key |-> IF acc2.storage[l].loaded
                                  THEN acc2.storage[l].current ELSE view.storage[l]]
            /\ o2.warm_storage = [l \in Key |-> acc2.storage[l].warm]
            /\ o2.transient_storage = acc2.transient_storage
            /\ o2.warm = acc2.warm
            /\ ~o2.destructed /\ ~o2.erase_if_empty
            /\ ~o2.just_created /\ ~o2.code_changed
        BY <2>1, <2>6, <2>9, <3>3, ObservedUnloaded
      <4> HIDE DEF o, o2
      <4>3. o.storage = o2.storage /\ o.warm_storage = o2.warm_storage
        BY <2>5, <2>11, <4>1, <4>2
      <4>4. /\ o.destructed = o2.destructed /\ o.erase_if_empty = o2.erase_if_empty
            /\ o.just_created = o2.just_created /\ o.code_changed = o2.code_changed
        BY <3>1, <4>1, <4>2 DEF RawObservation
      <4>5. o = o2
        BY <2>6, <3>1, <4>1, <4>2, <4>3, <4>4, ObservationEqual
      <4> QED
        BY <4>5 DEF o, o2
    <3> QED
      BY <3>2, <3>3
  <2>13. Quiet(s, t)
    BY <2>9, <2>10, <2>12, QuietAfter
  <2>14. t.modified[a] = acc2
    BY <2>1 DEF After
  <2> QED
    BY <2>2, <2>3, <2>4, <2>5, <2>6, <2>13, <2>14 DEF Quiet, Extends
<1> QED
  BY <1>1, <1>2

-----------------------------------------------------------------------------
(* Journaled changes. *)

\* The fields of o are those of o2 after undoing e.
Reverts(o, o2, e) ==
    /\ o.exists = (o2.exists /\ ~(e.t = "flags" /\ e.nonexistent))
    /\ o.nonce = IF Clears(e) THEN 0 ELSE IF e.t = "nonce" THEN o2.nonce - 1 ELSE o2.nonce
    /\ o.balance = IF e.t = "balance" THEN e.prev_balance ELSE o2.balance
    /\ o.code = IF Clears(e) THEN NoCode ELSE o2.code
    /\ o.has_code = (~Clears(e) /\ o2.has_code)
    /\ \A k \in Key : o.storage[k] = IF e.t = "storage" /\ e.key = k /\ e.prev_loaded
                                     THEN e.prev_value ELSE o2.storage[k]
    /\ \A k \in Key : o.warm_storage[k] = IF e.t = "storage" /\ e.key = k
                                          THEN e.prev_warm ELSE o2.warm_storage[k]
    /\ \A k \in Key : o.transient_storage[k] = IF e.t = "transient" /\ e.key = k
                                          THEN e.prev_value
                                          ELSE o2.transient_storage[k]
    /\ o.warm = IF e.t = "flags" THEN e.warm ELSE o2.warm
    /\ o.destructed = IF e.t = "flags" THEN e.destructed ELSE o2.destructed
    /\ o.erase_if_empty = IF e.t = "flags" THEN e.erase_if_empty ELSE o2.erase_if_empty
    /\ o.just_created = (~Clears(e) /\ o2.just_created)
    /\ o.code_changed = (~Clears(e) /\ o2.code_changed)

LEMMA RevertsUndo ==
    ASSUME NEW o \in Observation, NEW o2 \in Observation, NEW e \in JournalEntry,
           Reverts(o, o2, e)
    PROVE  o = UndoObservation(o2, e)
<1> DEFINE u == UndoObservation(o2, e)
<1>1. o \in RawObservation /\ o2 \in RawObservation
  BY DEF Observation, RawObservation
<1>2. u \in RawObservation
  BY <1>1, UndoObservationType
<1>3. /\ u.exists = (o2.exists /\ ~(e.t = "flags" /\ e.nonexistent))
      /\ u.nonce = IF Clears(e) THEN 0 ELSE IF e.t = "nonce" THEN o2.nonce - 1 ELSE o2.nonce
      /\ u.balance = IF e.t = "balance" THEN e.prev_balance ELSE o2.balance
      /\ u.code = IF Clears(e) THEN NoCode ELSE o2.code
      /\ u.has_code = (~Clears(e) /\ o2.has_code)
      /\ u.warm = IF e.t = "flags" THEN e.warm ELSE o2.warm
      /\ u.destructed = IF e.t = "flags" THEN e.destructed ELSE o2.destructed
      /\ u.erase_if_empty = IF e.t = "flags" THEN e.erase_if_empty ELSE o2.erase_if_empty
      /\ u.just_created = (~Clears(e) /\ o2.just_created)
      /\ u.code_changed = (~Clears(e) /\ o2.code_changed)
  BY DEF UndoObservation
<1>4. /\ u.storage = [k \in Key |-> IF e.t = "storage" /\ e.key = k /\ e.prev_loaded
                                THEN e.prev_value ELSE o2.storage[k]]
      /\ u.warm_storage = [k \in Key |-> IF e.t = "storage" /\ e.key = k
                                     THEN e.prev_warm ELSE o2.warm_storage[k]]
      /\ u.transient_storage = [k \in Key |-> IF e.t = "transient" /\ e.key = k
                                          THEN e.prev_value
                                          ELSE o2.transient_storage[k]]
  BY DEF UndoObservation
<1> HIDE DEF u
<1>5. /\ o.storage \in [Key -> Val] /\ o.warm_storage \in [Key -> BOOLEAN]
      /\ o.transient_storage \in [Key -> Val]
  BY DEF Observation
<1>6. o.storage = u.storage
  BY <1>4, <1>5 DEF Reverts
<1>7. o.warm_storage = u.warm_storage
  BY <1>4, <1>5 DEF Reverts
<1>8. o.transient_storage = u.transient_storage
  BY <1>4, <1>5 DEF Reverts
<1>9. /\ o.exists = u.exists /\ o.nonce = u.nonce /\ o.balance = u.balance
      /\ o.code = u.code /\ o.has_code = u.has_code /\ o.warm = u.warm
      /\ o.destructed = u.destructed /\ o.erase_if_empty = u.erase_if_empty
      /\ o.just_created = u.just_created /\ o.code_changed = u.code_changed
  BY <1>3 DEF Reverts
<1>10. o = u
  BY <1>1, <1>2, <1>6, <1>7, <1>8, <1>9, ObservationEqual
<1> QED
  BY <1>10 DEF u

\* The entry that JournalAccountFlags() writes for account a.
FlagsEntry(acc, a) ==
    [t |-> "flags", acc |-> a, warm |-> acc.warm, nonexistent |-> acc.nonexistent,
     destructed |-> acc.destructed, erase_if_empty |-> acc.erase_if_empty]

LEMMA FlagsEntryFacts ==
    ASSUME NEW acc \in Account, NEW a \in Addr
    PROVE  /\ FlagsEntry(acc, a) \in JournalEntry
           /\ FlagsEntry(acc, a).t = "flags" /\ FlagsEntry(acc, a).acc = a
           /\ FlagsEntry(acc, a).warm = acc.warm
           /\ FlagsEntry(acc, a).nonexistent = acc.nonexistent
           /\ FlagsEntry(acc, a).destructed = acc.destructed
           /\ FlagsEntry(acc, a).erase_if_empty = acc.erase_if_empty
           /\ Clears(FlagsEntry(acc, a)) = acc.nonexistent
<1>1. FlagsEntry(acc, a) \in [t : {"flags"}, acc : Addr, warm : BOOLEAN, nonexistent : BOOLEAN,
     destructed : BOOLEAN, erase_if_empty : BOOLEAN]
  BY DEF FlagsEntry, Account
<1>2. FlagsEntry(acc, a) \in JournalEntry
  BY <1>1 DEF JournalEntry
<1>3. acc.nonexistent \in BOOLEAN
  BY DEF Account
<1>4. Clears(FlagsEntry(acc, a)) = acc.nonexistent
  BY <1>3 DEF Clears, FlagsEntry
<1> QED
  BY <1>2, <1>4 DEF FlagsEntry

\* What a change of flags, or the creation of an account, leaves as it was.
FlagsChange(acc, acc2) ==
    /\ acc2.balance = acc.balance /\ acc2.storage = acc.storage
    /\ acc2.transient_storage = acc.transient_storage
    /\ ~acc.nonexistent =>
         /\ ~acc2.nonexistent
         /\ acc2.nonce = acc.nonce /\ acc2.code_hash = acc.code_hash
         /\ acc2.just_created = acc.just_created /\ acc2.code_changed = acc.code_changed

LEMMA FlagsRevert ==
    ASSUME NEW view \in ViewAccount, ~view.exists => view = NoAccount,
           NEW acc, AccountOK(acc, view), acc.loaded,
           NEW acc2, AccountOK(acc2, view), acc2.loaded,
           ObservationOK(Observed(acc, view), view),
           FlagsChange(acc, acc2), NEW a \in Addr
    PROVE  /\ EntryOK(FlagsEntry(acc, a), acc2)
           /\ Observed(acc, view) = UndoObservation(Observed(acc2, view), FlagsEntry(acc, a))
           /\ UndoExpects(Observed(acc2, view), FlagsEntry(acc, a), view)
<1> DEFINE o == Observed(acc, view)
           o2 == Observed(acc2, view)
           e == FlagsEntry(acc, a)
<1>1. /\ acc \in Account /\ acc2 \in Account
  BY DEF AccountOK
<1>2. /\ e \in JournalEntry /\ e.t = "flags"
      /\ e.warm = acc.warm /\ e.nonexistent = acc.nonexistent
      /\ e.destructed = acc.destructed /\ e.erase_if_empty = acc.erase_if_empty
      /\ Clears(e) = acc.nonexistent
  BY <1>1, FlagsEntryFacts
<1>3. Shows(o, acc, view) /\ Shows(o2, acc2, view)
  BY <1>1, AccountRaw, ObservedShows
<1>4. o \in Observation /\ o2 \in Observation
  BY ObservedType
<1>5. AbsentOK(o, view) /\ CodeOK(o, view) /\ LifeOK(o, view)
  BY DEF ObservationOK
<1>6. acc.nonexistent \in BOOLEAN /\ acc2.nonexistent \in BOOLEAN
  BY <1>1 DEF Account
<1> HIDE DEF o, o2, e
<1>7. CASE acc.nonexistent
  <2>1. /\ o.exists = FALSE /\ o.nonce = 0 /\ o.balance = 0 /\ o.code = NoCode
        /\ o.has_code = FALSE /\ o.just_created = FALSE /\ o.code_changed = FALSE
    BY <1>3, <1>4, <1>5, <1>7 DEF AbsentOK, CodeOK, LifeOK, Shows, Observation
  <2>2. /\ o.storage = o2.storage /\ o.warm_storage = o2.warm_storage
        /\ o.transient_storage = o2.transient_storage /\ o2.balance = o.balance
    BY <1>3 DEF Shows, FlagsChange
  <2>3. o.warm = e.warm /\ o.destructed = e.destructed /\ o.erase_if_empty = e.erase_if_empty
    BY <1>2, <1>3 DEF Shows
  <2>4. Clears(e) /\ e.nonexistent
    BY <1>2, <1>7
  <2>5. Reverts(o, o2, e)
    BY <1>2, <2>1, <2>2, <2>3, <2>4 DEF Reverts
  <2>6. UndoExpects(o2, e, view)
    BY <1>2, <2>1, <2>2 DEF UndoExpects
  <2> QED
    BY <1>2, <1>4, <2>5, <2>6, RevertsUndo DEF EntryOK, o, o2, e
<1>8. CASE ~acc.nonexistent
  <2>1. /\ o.exists = TRUE /\ o2.exists = TRUE /\ o.nonce = o2.nonce /\ o.balance = o2.balance
        /\ o.code = o2.code
        /\ o.has_code = o2.has_code /\ o.just_created = o2.just_created
        /\ o.code_changed = o2.code_changed
    BY <1>3, <1>6, <1>8 DEF Shows, FlagsChange
  <2>2. /\ o.storage = o2.storage /\ o.warm_storage = o2.warm_storage
        /\ o.transient_storage = o2.transient_storage
    BY <1>3 DEF Shows, FlagsChange
  <2>3. o.warm = e.warm /\ o.destructed = e.destructed /\ o.erase_if_empty = e.erase_if_empty
    BY <1>2, <1>3 DEF Shows
  <2>4. ~Clears(e) /\ ~e.nonexistent
    BY <1>2, <1>8
  <2>t. /\ o2.has_code \in BOOLEAN /\ o2.just_created \in BOOLEAN
        /\ o2.code_changed \in BOOLEAN
    BY <1>4 DEF Observation
  <2>5. Reverts(o, o2, e)
    BY <1>2, <2>1, <2>2, <2>3, <2>4, <2>t DEF Reverts
  <2>6. UndoExpects(o2, e, view)
    BY <1>2, <2>4 DEF UndoExpects
  <2> QED
    BY <1>2, <1>4, <2>5, <2>6, RevertsUndo DEF EntryOK, o, o2, e
<1> QED
  BY <1>7, <1>8

LEMMA WarmObserved ==
    ASSUME NEW view \in ViewAccount, ~view.exists => view = NoAccount,
           NEW acc, AccountOK(acc, view)
    PROVE  /\ AccountOK([acc EXCEPT !.warm = TRUE], view)
           /\ KeepsLoaded(acc, [acc EXCEPT !.warm = TRUE])
           /\ Observed([acc EXCEPT !.warm = TRUE], view)
                = [Observed(acc, view) EXCEPT !.warm = TRUE]
<1> DEFINE acc2 == [acc EXCEPT !.warm = TRUE]
           o == Observed(acc, view)
           o2 == Observed(acc2, view)
           p == [o EXCEPT !.warm = TRUE]
<1>1. acc \in Account /\ CacheOK(acc, view) /\ SlotsOK(acc, view) /\ LoadedOK(acc, view)
  BY DEF AccountOK
<1>2. acc2 \in Account
  BY <1>1 DEF Account
<1>3. /\ acc2.code = acc.code /\ acc2.code_hash = acc.code_hash
      /\ acc2.code_changed = acc.code_changed /\ acc2.loaded = acc.loaded
      /\ acc2.has_initial_storage = acc.has_initial_storage
      /\ acc2.nonexistent = acc.nonexistent /\ acc2.nonce = acc.nonce
      /\ acc2.balance = acc.balance /\ acc2.transient_storage = acc.transient_storage
      /\ acc2.destructed = acc.destructed /\ acc2.storage = acc.storage
      /\ acc2.erase_if_empty = acc.erase_if_empty
      /\ acc2.just_created = acc.just_created /\ acc2.warm = TRUE
  BY <1>1 DEF Account
<1> HIDE DEF acc2
<1>4. AccountOK(acc2, view)
  BY <1>1, <1>2, <1>3 DEF AccountOK, CacheOK, SlotsOK, LoadedOK
<1>5. KeepsLoaded(acc, acc2)
  BY <1>3 DEF KeepsLoaded
<1>6. o \in RawObservation /\ o2 \in RawObservation
  BY <1>4, ObservedType DEF Observation, RawObservation
<1> HIDE DEF o, o2
<1>7. /\ p \in RawObservation
      /\ p.exists = o.exists /\ p.nonce = o.nonce /\ p.balance = o.balance
      /\ p.code = o.code /\ p.has_code = o.has_code /\ p.storage = o.storage
      /\ p.warm_storage = o.warm_storage
      /\ p.transient_storage = o.transient_storage /\ p.warm = TRUE
      /\ p.destructed = o.destructed /\ p.erase_if_empty = o.erase_if_empty
      /\ p.just_created = o.just_created /\ p.code_changed = o.code_changed
  BY <1>6 DEF RawObservation
<1> HIDE DEF p
<1>8. CASE acc.loaded
  <2>1. Shows(o, acc, view) /\ Shows(o2, acc2, view)
    BY <1>1, <1>2, <1>3, <1>8, AccountRaw, ObservedShows DEF o, o2
  <2>a. /\ o2.exists = p.exists /\ o2.nonce = p.nonce /\ o2.balance = p.balance
        /\ o2.code = p.code /\ o2.has_code = p.has_code
    BY <1>3, <1>7, <2>1 DEF Shows
  <2>b. o2.storage = p.storage /\ o2.warm_storage = p.warm_storage
    BY <1>3, <1>7, <2>1 DEF Shows
  <2>e. o2.transient_storage = p.transient_storage /\ o2.warm
    BY <1>3, <1>7, <2>1 DEF Shows
  <2>c. o2.transient_storage = p.transient_storage /\ o2.warm = p.warm
    BY <1>6, <1>7, <2>e DEF RawObservation
  <2>d. /\ o2.destructed = p.destructed /\ o2.erase_if_empty = p.erase_if_empty
        /\ o2.just_created = p.just_created /\ o2.code_changed = p.code_changed
    BY <1>3, <1>7, <2>1 DEF Shows
  <2>3. o2 = p
    BY <1>6, <1>7, <2>a, <2>b, <2>c, <2>d, ObservationEqual
  <2> QED
    BY <1>4, <1>5, <2>3 DEF acc2, o, o2, p
<1>9. CASE ~acc.loaded
  <2>1. /\ o.exists = view.exists
        /\ o.nonce = view.nonce /\ o.balance = view.balance
        /\ o.code = view.code
        /\ o.has_code = (view.code # NoCode)
        /\ o.storage = [l \in Key |-> IF acc.storage[l].loaded
                                  THEN acc.storage[l].current ELSE view.storage[l]]
        /\ o.warm_storage = [l \in Key |-> acc.storage[l].warm]
        /\ o.transient_storage = acc.transient_storage
        /\ ~o.destructed /\ ~o.erase_if_empty
        /\ ~o.just_created /\ ~o.code_changed
    BY <1>9, ObservedUnloaded DEF o
  <2>2. /\ o2.exists = view.exists
        /\ o2.nonce = view.nonce /\ o2.balance = view.balance
        /\ o2.code = view.code
        /\ o2.has_code = (view.code # NoCode)
        /\ o2.storage = [l \in Key |-> IF acc2.storage[l].loaded
                                  THEN acc2.storage[l].current ELSE view.storage[l]]
        /\ o2.warm_storage = [l \in Key |-> acc2.storage[l].warm]
        /\ o2.transient_storage = acc2.transient_storage /\ o2.warm = acc2.warm
        /\ ~o2.destructed /\ ~o2.erase_if_empty
        /\ ~o2.just_created /\ ~o2.code_changed
    BY <1>3, <1>4, <1>9, ObservedUnloaded DEF o2
  <2>3. /\ o2.destructed = o.destructed /\ o2.erase_if_empty = o.erase_if_empty
        /\ o2.just_created = o.just_created /\ o2.code_changed = o.code_changed
    BY <1>6, <2>1, <2>2 DEF RawObservation
  <2>a. /\ o2.exists = p.exists /\ o2.nonce = p.nonce /\ o2.balance = p.balance
        /\ o2.code = p.code /\ o2.has_code = p.has_code
    BY <1>3, <1>7, <2>1, <2>2, <2>3
  <2>b. o2.storage = p.storage /\ o2.warm_storage = p.warm_storage
    BY <1>3, <1>7, <2>1, <2>2, <2>3
  <2>e. o2.transient_storage = p.transient_storage /\ o2.warm
    BY <1>3, <1>7, <2>1, <2>2, <2>3
  <2>c. o2.transient_storage = p.transient_storage /\ o2.warm = p.warm
    BY <1>6, <1>7, <2>e DEF RawObservation
  <2>d. /\ o2.destructed = p.destructed /\ o2.erase_if_empty = p.erase_if_empty
        /\ o2.just_created = p.just_created /\ o2.code_changed = p.code_changed
    BY <1>3, <1>7, <2>1, <2>2, <2>3
  <2>5. o2 = p
    BY <1>6, <1>7, <2>a, <2>b, <2>c, <2>d, ObservationEqual
  <2> QED
    BY <1>4, <1>5, <2>5 DEF acc2, o, o2, p
<1> QED
  BY <1>8, <1>9

(* A write of one entry, as Journal and a change of the account. *)
LEMMA WriteForm ==
    ASSUME NEW s, StateOK(s), NEW a \in Addr, NEW acc2, NEW e
    PROVE  [Journal(s, e) EXCEPT !.modified[a] = acc2] = After(s, a, acc2, Append(s.journal, e))
<1>1. /\ s.modified \in [Addr -> Account]
      /\ s = [initial |-> s.initial, modified |-> s.modified, journal |-> s.journal]
  BY StateFields
<1> DEFINE j == Append(s.journal, e)
<1>2. Journal(s, e) = [initial |-> s.initial, modified |-> s.modified, journal |-> j]
  BY <1>1 DEF Journal
<1>3. After(s, a, acc2, j)
        = [initial |-> s.initial, modified |-> [s.modified EXCEPT ![a] = acc2], journal |-> j]
  BY DEF After
<1> HIDE DEF j
<1>4. [Journal(s, e) EXCEPT !.modified[a] = acc2] = After(s, a, acc2, j)
  BY <1>1, <1>2, <1>3
<1> QED
  BY <1>4 DEF j

LEMMA JournalFields ==
    ASSUME NEW s, StateOK(s), NEW e
    PROVE  /\ Journal(s, e).modified = s.modified
           /\ Journal(s, e).initial = s.initial
           /\ Journal(s, e).journal = Append(s.journal, e)
<1>1. s = [initial |-> s.initial, modified |-> s.modified, journal |-> s.journal]
  BY StateFields
<1> QED
  BY <1>1 DEF Journal

LEMMA FlagsForm ==
    ASSUME NEW s, StateOK(s), NEW a \in Addr
    PROVE  JournalAccountFlags(s, a) = Journal(s, FlagsEntry(s.modified[a], a))
  BY DEF JournalAccountFlags, FlagsEntry

\* Account a may have become warm, and nothing else has changed.
Warms(w, w2, a) ==
    w2 = w \/ w2 = [w EXCEPT ![a] = [w[a] EXCEPT !.warm = TRUE]]

LEMMA WarmOK ==
    ASSUME NEW view, NEW o, ObservationOK(o, view)
    PROVE  /\ ObservationOK([o EXCEPT !.warm = TRUE], view)
           /\ Growth(o, [o EXCEPT !.warm = TRUE])
           /\ [o EXCEPT !.warm = TRUE].just_created = o.just_created
<1> DEFINE p == [o EXCEPT !.warm = TRUE]
<1>1. o \in Observation
  BY DEF ObservationOK
<1>2. p \in Observation
  BY <1>1 DEF Observation
<1>3. /\ p.exists = o.exists /\ p.nonce = o.nonce /\ p.balance = o.balance
      /\ p.code = o.code /\ p.has_code = o.has_code /\ p.storage = o.storage
      /\ p.destructed = o.destructed /\ p.erase_if_empty = o.erase_if_empty
      /\ p.just_created = o.just_created /\ p.code_changed = o.code_changed
      /\ o.nonce \in Nat
  BY <1>1 DEF Observation
<1> HIDE DEF p
<1>4. ObservationOK(p, view)
  BY <1>2, <1>3 DEF ObservationOK, AbsentOK, CodeOK, LifeOK
<1>5. Growth(o, p)
  BY <1>3 DEF Growth
<1> QED
  BY <1>3, <1>4, <1>5 DEF p

LEMMA AccessAccountStep ==
    ASSUME NEW s, Good(s), NEW a \in Addr
    PROVE  /\ Extends(s, AccessAccount(s, a)) /\ Good(AccessAccount(s, a))
           /\ Warms(World(s), World(AccessAccount(s, a)), a)
<1>s. StateOK(s)
  BY DEF Good
<1>1. CASE Rev < BERLIN \/ a \in Precompiles \/ s.modified[a].warm
  BY <1>1, ExtendsSelf DEF AccessAccount, Warms
<1>2. CASE ~(Rev < BERLIN \/ a \in Precompiles \/ s.modified[a].warm)
  <2> DEFINE view == s.initial[a]
             acc == s.modified[a]
             acc2 == [acc EXCEPT !.warm = TRUE]
             e == FlagsEntry(acc, a)
             o == Observed(acc, view)
             o2 == Observed(acc2, view)
             t == After(s, a, acc2, Append(s.journal, e))
  <2>1. /\ view \in ViewAccount /\ (~view.exists => view = NoAccount)
        /\ AccountOK(acc, view) /\ acc \in Account
        /\ s.modified \in [Addr -> Account]
    BY <1>s, StateFields
  <2>2. AccessAccount(s, a) = t
    <3>1. AccessAccount(s, a) = [Journal(s, e) EXCEPT !.modified[a].warm = TRUE]
      BY <1>2, <1>s, FlagsForm DEF AccessAccount
    <3>2. Journal(s, e).modified = s.modified
      BY <1>s, JournalFields
    <3>3. [Journal(s, e) EXCEPT !.modified[a].warm = TRUE]
            = [Journal(s, e) EXCEPT !.modified[a] = acc2]
      BY <2>1, <3>2
    <3> HIDE DEF e, acc2
    <3>4. [Journal(s, e) EXCEPT !.modified[a] = acc2] = t
      BY <1>s, WriteForm
    <3> QED
      BY <3>1, <3>3, <3>4
  <2>3. /\ AccountOK(acc2, view) /\ KeepsLoaded(acc, acc2)
        /\ o2 = [o EXCEPT !.warm = TRUE]
    BY <2>1, WarmObserved
  <2>4. World(s)[a] = o /\ World(s) \in Worlds /\ ObservationOK(o, view)
    BY WorldAt DEF Good, WorldOK
  <2>5. /\ ObservationOK(o2, view) /\ Growth(o, o2)
        /\ o2.just_created = o.just_created
    <3> HIDE DEF o, o2, view
    <3> QED
      BY <2>3, <2>4, WarmOK
  <2>6. CreatesOK(World(s), o, o2, a)
    BY <2>5 DEF CreatesOK
  <2>7. /\ e \in JournalEntry /\ e.t = "flags" /\ e.acc = a
        /\ e.warm = acc.warm /\ e.nonexistent = acc.nonexistent
        /\ e.destructed = acc.destructed /\ e.erase_if_empty = acc.erase_if_empty
        /\ Clears(e) = acc.nonexistent
    BY <2>1, FlagsEntryFacts
  <2>8. acc2.loaded = acc.loaded
    BY <2>1 DEF Account
  <2>9. /\ EntryOK(e, acc2) /\ o = UndoObservation(o2, e) /\ UndoExpects(o2, e, view)
    <3>1. CASE acc.loaded
      <4>1. FlagsChange(acc, acc2)
        BY <2>1 DEF FlagsChange, Account
      <4> HIDE DEF acc2
      <4> QED
        BY <2>1, <2>3, <2>4, <2>8, <3>1, <4>1, FlagsRevert
    <3>2. CASE ~acc.loaded
      <4>1. /\ ~acc.nonexistent /\ ~acc.destructed /\ ~acc.erase_if_empty
        BY <2>1, <3>2 DEF AccountOK, LoadedOK
      <4>2. ~Clears(e) /\ ~e.nonexistent /\ ~e.destructed /\ ~e.erase_if_empty
        BY <2>7, <4>1
      <4>3. EntryOK(e, acc2)
        BY <2>7, <2>8, <3>2, <4>2 DEF EntryOK
      <4>4. UndoExpects(o2, e, view)
        BY <2>7, <4>2 DEF UndoExpects
      <4>5. o \in Observation /\ o2 \in Observation
        BY <2>4, <2>5 DEF ObservationOK
      <4>6. ~o.destructed /\ ~o.erase_if_empty /\ o.warm = acc.warm
        BY <2>1, <3>2, ObservedUnloaded
      <4>6d. /\ e.destructed \in BOOLEAN /\ e.erase_if_empty \in BOOLEAN
        BY <2>7, EntryFields
      <4> HIDE DEF o, o2, e, acc2
      <4>6a. /\ o.exists \in BOOLEAN /\ o.has_code \in BOOLEAN /\ o.destructed \in BOOLEAN
             /\ o.erase_if_empty \in BOOLEAN /\ o.just_created \in BOOLEAN
             /\ o.code_changed \in BOOLEAN
        BY <4>5 DEF Observation
      <4>6c. o.destructed = e.destructed /\ o.erase_if_empty = e.erase_if_empty
        BY <4>2, <4>6, <4>6a, <4>6d
      <4>6b. /\ o2.exists = o.exists /\ o2.nonce = o.nonce /\ o2.balance = o.balance
             /\ o2.code = o.code /\ o2.has_code = o.has_code /\ o2.storage = o.storage
             /\ o2.warm_storage = o.warm_storage
             /\ o2.transient_storage = o.transient_storage
             /\ o2.just_created = o.just_created /\ o2.code_changed = o.code_changed
        BY <2>3, <4>5 DEF Observation
      <4>7. Reverts(o, o2, e)
        BY <2>7, <4>2, <4>6, <4>6a, <4>6b, <4>6c DEF Reverts
      <4> QED
        BY <2>7, <4>3, <4>4, <4>5, <4>7, RevertsUndo
    <3> QED
      BY <3>1, <3>2
  <2>10. Revertible(s, e, acc2)
    BY <2>3, <2>5, <2>6, <2>7, <2>9 DEF Revertible
  <2>11. Extends(s, t)
    <3> HIDE DEF e, acc2
    <3> QED
      BY <2>7, <2>10, JournaledStep
  <2>12. World(t) = [World(s) EXCEPT ![a] = o2]
    <3> HIDE DEF e, acc2
    <3>1. IsAfter(t, s, a, acc2, Append(s.journal, e))
      BY <1>s, <2>3, AfterFields
    <3> QED
      BY <3>1, AfterWorld
  <2>13. Warms(World(s), World(t), a)
    BY <2>3, <2>4, <2>12 DEF Warms
  <2> QED
    BY <2>2, <2>11, <2>13 DEF Extends
<1> QED
  BY <1>1, <1>2

(* A journaled write of one account: what it is and what is observed of it. *)
LEMMA WriteStep ==
    ASSUME NEW s, Good(s), NEW e \in JournalEntry, NEW acc2, Revertible(s, e, acc2),
           NEW t, t = After(s, e.acc, acc2, Append(s.journal, e))
    PROVE  /\ Extends(s, t) /\ Good(t)
           /\ World(t) = [World(s) EXCEPT ![e.acc] = Observed(acc2, s.initial[e.acc])]
           /\ t.modified[e.acc] = acc2
           /\ \A b \in Addr : b # e.acc => t.modified[b] = s.modified[b]
<1>1. Extends(s, t)
  BY JournaledStep
<1>2. e.acc \in Addr /\ StateOK(s) /\ AccountOK(acc2, s.initial[e.acc])
  BY EntryFields DEF Good, Revertible
<1>3. IsAfter(t, s, e.acc, acc2, Append(s.journal, e))
  BY <1>2, AfterFields
<1>4. World(t) = [World(s) EXCEPT ![e.acc] = Observed(acc2, s.initial[e.acc])]
  BY <1>2, <1>3, AfterWorld
<1> QED
  BY <1>1, <1>3, <1>4 DEF Extends, IsAfter

\* Account acc2 is acc but for flags, and exists.
FlagsOnly(acc, acc2) ==
    /\ acc2 \in Account /\ ~acc2.nonexistent
    /\ acc2.nonce = acc.nonce /\ acc2.balance = acc.balance
    /\ acc2.code_hash = acc.code_hash /\ acc2.code = acc.code
    /\ acc2.storage = acc.storage /\ acc2.transient_storage = acc.transient_storage
    /\ acc2.warm = acc.warm /\ acc2.loaded = acc.loaded
    /\ acc2.just_created = acc.just_created /\ acc2.code_changed = acc.code_changed
    /\ acc2.has_initial_storage = acc.has_initial_storage

\* What is observed of it.
FlagsObserved(o, o2, acc2) ==
    /\ o2.exists /\ o2.nonce = o.nonce /\ o2.balance = o.balance
    /\ o2.code = o.code /\ o2.has_code = o.has_code
    /\ o2.storage = o.storage /\ o2.warm_storage = o.warm_storage
    /\ o2.transient_storage = o.transient_storage /\ o2.warm = o.warm
    /\ o2.just_created = o.just_created /\ o2.code_changed = o.code_changed
    /\ o2.destructed = acc2.destructed /\ o2.erase_if_empty = acc2.erase_if_empty

LEMMA FlagsStep ==
    ASSUME NEW s, Good(s), NEW a \in Addr, NEW acc, acc = s.modified[a], acc.loaded,
           NEW acc2, FlagsOnly(acc, acc2),
           NEW o, o = World(s)[a],
           acc2.destructed => /\ o.just_created \/ o.code # NoCode
                              /\ Rev >= CANCUN => o.just_created
    PROVE  /\ Revertible(s, FlagsEntry(acc, a), acc2)
           /\ FlagsObserved(o, Observed(acc2, s.initial[a]), acc2)
<1> DEFINE view == s.initial[a]
           o2 == Observed(acc2, view)
           e == FlagsEntry(acc, a)
<1>1. StateOK(s) /\ ObservationOK(o, view)
  BY DEF Good, WorldOK
<1>2. /\ view \in ViewAccount /\ (~view.exists => view = NoAccount)
      /\ AccountOK(acc, view) /\ acc \in Account
  BY <1>1, StateFields
<1>3. o = Observed(acc, view)
  BY WorldAt
<1>4. /\ e \in JournalEntry /\ e.acc = a
  BY <1>2, FlagsEntryFacts
<1>5. acc2 \in Account /\ acc2.loaded
  BY DEF FlagsOnly
<1>6. AccountOK(acc2, view)
  BY <1>2, <1>5 DEF AccountOK, CacheOK, SlotsOK, LoadedOK, FlagsOnly
<1>7. KeepsLoaded(acc, acc2)
  BY DEF KeepsLoaded, FlagsOnly
<1>8. FlagsChange(acc, acc2)
  BY DEF FlagsChange, FlagsOnly
<1>9. /\ EntryOK(e, acc2) /\ o = UndoObservation(o2, e) /\ UndoExpects(o2, e, view)
  BY <1>1, <1>2, <1>3, <1>5, <1>6, <1>8, FlagsRevert
<1>10. Shows(o, acc, view) /\ Shows(o2, acc2, view)
  BY <1>2, <1>3, <1>5, AccountRaw, ObservedShows
<1>11. o2 \in Observation /\ o \in Observation
  BY <1>1, <1>2, <1>6, ObservedType DEF ObservationOK
<1> HIDE DEF o2, view, e
<1>12. FlagsObserved(o, o2, acc2)
  <2>1. o2.exists
    BY <1>10 DEF Shows, FlagsOnly
  <2> QED
    BY <1>10, <2>1 DEF Shows, FlagsOnly, FlagsObserved
<1>13. ObservationOK(o2, view)
  <2>1. CodeOK(o2, view)
    BY <1>1, <1>12 DEF ObservationOK, CodeOK, FlagsObserved
  <2>2. AbsentOK(o2, view)
    BY <1>12 DEF AbsentOK, FlagsObserved
  <2>3. LifeOK(o2, view)
    BY <1>1, <1>12 DEF ObservationOK, LifeOK, FlagsObserved
  <2> QED
    BY <1>11, <2>1, <2>2, <2>3 DEF ObservationOK
<1>14. Growth(o, o2)
  <2>1. o.nonce \in Nat
    BY <1>11 DEF Observation
  <2> QED
    BY <1>12, <2>1 DEF Growth, FlagsObserved
<1>15. CreatesOK(World(s), o, o2, a)
  BY <1>12 DEF CreatesOK, FlagsObserved
<1>16. Revertible(s, e, acc2)
  BY <1>3, <1>4, <1>6, <1>7, <1>9, <1>13, <1>14, <1>15 DEF Revertible, o2, view
<1> QED
  BY <1>12, <1>16 DEF o2, e, view

\* No balance has changed.
SameBalances(w, w2) == \A b \in Addr : w2[b].balance = w[b].balance

LEMMA GetOrCreateStep ==
    ASSUME NEW s, Good(s), NEW a \in Addr
    PROVE  /\ Extends(s, GetOrCreate(s, a)) /\ Good(GetOrCreate(s, a))
           /\ GetOrCreate(s, a).modified[a].loaded
           /\ World(GetOrCreate(s, a))[a].exists
           /\ SameBalances(World(s), World(GetOrCreate(s, a)))
<1> DEFINE s1 == Get(s, a)
           acc == s1.modified[a]
           view == s1.initial[a]
           o == World(s1)[a]
<1>1. Quiet(s, s1) /\ Good(s1) /\ acc.loaded
  BY GetStep
<1>2. World(s1) = World(s) /\ s1.initial = s.initial /\ Extends(s, s1)
  BY <1>1 DEF Quiet
<1>s. StateOK(s1) /\ World(s1) \in Worlds
  BY <1>1 DEF Good, WorldOK
<1> HIDE DEF s1
<1>3. /\ view \in ViewAccount /\ AccountOK(acc, view) /\ acc \in Account
      /\ s1.modified \in [Addr -> Account]
  BY <1>s, StateFields
<1>r. acc \in RawAccount
  BY <1>3, AccountRaw
<1>4. o = Observed(acc, view) /\ Shows(o, acc, view)
  BY <1>1, <1>3, <1>r, WorldAt, ObservedShows
<1>5. CASE acc.nonexistent
  <2> DEFINE acc2 == [acc EXCEPT !.nonexistent = FALSE]
             e == FlagsEntry(acc, a)
             t == After(s1, a, acc2, Append(s1.journal, e))
             o2 == Observed(acc2, s1.initial[a])
  <2>1. GetOrCreate(s, a) = t
    <3>1. GetOrCreate(s, a) = [Journal(s1, e) EXCEPT !.modified[a].nonexistent = FALSE]
      BY <1>5, <1>s, FlagsForm DEF GetOrCreate, s1
    <3>2. Journal(s1, e).modified = s1.modified
      BY <1>s, JournalFields
    <3>3. [Journal(s1, e) EXCEPT !.modified[a].nonexistent = FALSE]
            = [Journal(s1, e) EXCEPT !.modified[a] = acc2]
      BY <1>3, <3>2
    <3> HIDE DEF e, acc2
    <3>4. [Journal(s1, e) EXCEPT !.modified[a] = acc2] = t
      BY <1>s, WriteForm
    <3> QED
      BY <3>1, <3>3, <3>4
  <2>2. FlagsOnly(acc, acc2) /\ acc2.destructed = acc.destructed
    BY <1>3 DEF FlagsOnly, Account
  <2> HIDE DEF acc2
  <2>3. acc2.destructed => /\ o.just_created \/ o.code # NoCode
                           /\ Rev >= CANCUN => o.just_created
    <3>1. o.destructed = acc.destructed
      BY <1>4 DEF Shows
    <3>2. ObservationOK(o, view)
      BY <1>1 DEF Good, WorldOK
    <3> QED
      BY <2>2, <3>1, <3>2 DEF ObservationOK, LifeOK
  <2>4. Revertible(s1, e, acc2) /\ FlagsObserved(o, o2, acc2)
    BY <1>1, <2>2, <2>3, FlagsStep
  <2>5. e \in JournalEntry /\ e.acc = a
    BY <1>3, FlagsEntryFacts
  <2> HIDE DEF e, t, o2
  <2>6. /\ Extends(s1, t) /\ Good(t) /\ t.modified[a] = acc2
        /\ World(t) = [World(s1) EXCEPT ![a] = o2]
    BY <1>1, <2>4, <2>5, WriteStep DEF t, o2
  <2>7. Extends(s, t)
    BY <1>2, <2>6, ExtendsTransitive
  <2>8. World(t)[a].exists
    BY <1>s, <2>4, <2>6 DEF Worlds, FlagsObserved
  <2>9. SameBalances(World(s), World(t))
    BY <1>2, <1>s, <2>4, <2>6 DEF Worlds, FlagsObserved, SameBalances
  <2>10. acc2.loaded
    BY <1>1, <2>2 DEF FlagsOnly
  <2> QED
    BY <2>1, <2>6, <2>7, <2>8, <2>9, <2>10
<1>6. CASE ~acc.nonexistent
  <2>1. GetOrCreate(s, a) = s1
    BY <1>6 DEF GetOrCreate, s1
  <2>2. o.exists
    BY <1>4, <1>6 DEF Shows
  <2> QED
    BY <1>1, <1>2, <2>1, <2>2 DEF SameBalances
<1> QED
  BY <1>5, <1>6

\* The world w with account a touched.
TouchedWorld(w, a) ==
    IF w[a].nonce = 0 /\ w[a].balance = 0 /\ w[a].code = NoCode
    THEN [w EXCEPT ![a] = [w[a] EXCEPT !.exists = TRUE, !.erase_if_empty = TRUE]]
    ELSE w

LEMMA TouchStep ==
    ASSUME NEW s, Good(s), NEW a \in Addr
    PROVE  /\ Extends(s, Touch(s, a)) /\ Good(Touch(s, a))
           /\ Touch(s, a).modified[a].loaded
           /\ World(Touch(s, a))[a].exists
           /\ World(Touch(s, a)) = TouchedWorld(World(s), a)
<1> DEFINE s1 == Get(s, a)
           acc == s1.modified[a]
           view == s1.initial[a]
           o == World(s1)[a]
           p == [o EXCEPT !.exists = TRUE, !.erase_if_empty = TRUE]
<1>1. Quiet(s, s1) /\ Good(s1) /\ acc.loaded
  BY GetStep
<1>2. World(s1) = World(s) /\ s1.initial = s.initial /\ Extends(s, s1)
  BY <1>1 DEF Quiet
<1>s. StateOK(s1) /\ World(s1) \in Worlds /\ o \in Observation
  BY <1>1 DEF Good, WorldOK, Worlds
<1> HIDE DEF s1
<1>3. /\ view \in ViewAccount /\ AccountOK(acc, view) /\ acc \in Account
      /\ s1.modified \in [Addr -> Account]
  BY <1>s, StateFields
<1>r. acc \in RawAccount
  BY <1>3, AccountRaw
<1>4. o = Observed(acc, view) /\ Shows(o, acc, view)
  BY <1>1, <1>3, <1>r, WorldAt, ObservedShows
<1>o. ObservationOK(o, view)
  BY <1>1 DEF Good, WorldOK
<1>e. IsEmpty(acc) <=> o.nonce = 0 /\ o.balance = 0 /\ o.code = NoCode
  BY <1>4 DEF Shows, IsEmpty
<1>p. /\ p \in Observation
      /\ p.exists = TRUE /\ p.nonce = o.nonce /\ p.balance = o.balance
      /\ p.code = o.code /\ p.has_code = o.has_code /\ p.storage = o.storage
      /\ p.warm_storage = o.warm_storage
      /\ p.transient_storage = o.transient_storage /\ p.warm = o.warm
      /\ p.destructed = o.destructed /\ p.erase_if_empty = TRUE
      /\ p.just_created = o.just_created /\ p.code_changed = o.code_changed
  BY <1>s DEF Observation
<1>5. CASE ~acc.erase_if_empty /\ IsEmpty(acc)
  <2> DEFINE acc2 == [acc EXCEPT !.nonexistent = FALSE, !.erase_if_empty = TRUE]
             e == FlagsEntry(acc, a)
             t == After(s1, a, acc2, Append(s1.journal, e))
             o2 == Observed(acc2, s1.initial[a])
  <2>1. Touch(s, a) = t
    <3>1. Touch(s, a) = [Journal(s1, e) EXCEPT !.modified[a].nonexistent = FALSE,
                                               !.modified[a].erase_if_empty = TRUE]
      BY <1>5, <1>s, FlagsForm DEF Touch, s1
    <3>2. Journal(s1, e).modified = s1.modified
      BY <1>s, JournalFields
    <3>3. [Journal(s1, e) EXCEPT !.modified[a].nonexistent = FALSE,
                                 !.modified[a].erase_if_empty = TRUE]
            = [Journal(s1, e) EXCEPT !.modified[a] = acc2]
      BY <1>3, <3>2
    <3> HIDE DEF e, acc2
    <3>4. [Journal(s1, e) EXCEPT !.modified[a] = acc2] = t
      BY <1>s, WriteForm
    <3> QED
      BY <3>1, <3>3, <3>4
  <2>2. FlagsOnly(acc, acc2) /\ acc2.destructed = acc.destructed /\ acc2.erase_if_empty = TRUE
    BY <1>3 DEF FlagsOnly, Account
  <2> HIDE DEF acc2
  <2>3. acc2.destructed => /\ o.just_created \/ o.code # NoCode
                           /\ Rev >= CANCUN => o.just_created
    <3>1. o.destructed = acc.destructed
      BY <1>4 DEF Shows
    <3> QED
      BY <1>o, <2>2, <3>1 DEF ObservationOK, LifeOK
  <2>4. Revertible(s1, e, acc2) /\ FlagsObserved(o, o2, acc2)
    BY <1>1, <2>2, <2>3, FlagsStep
  <2>5. e \in JournalEntry /\ e.acc = a
    BY <1>3, FlagsEntryFacts
  <2> HIDE DEF e, t, o2
  <2>6. /\ Extends(s1, t) /\ Good(t) /\ t.modified[a] = acc2
        /\ World(t) = [World(s1) EXCEPT ![a] = o2]
    BY <1>1, <2>4, <2>5, WriteStep DEF t, o2
  <2>7. Extends(s, t)
    BY <1>2, <2>6, ExtendsTransitive
  <2>8. World(t)[a].exists
    BY <1>s, <2>4, <2>6 DEF Worlds, FlagsObserved
  <2>9. o2 = p
    <3> HIDE DEF p, o
    <3>1. o2 \in Observation
      <4>1. World(t) \in Worlds /\ World(t)[a] = o2
        BY <1>s, <2>6 DEF Good, WorldOK, Worlds
      <4> QED
        BY <4>1 DEF Worlds
    <3>2. o2 \in RawObservation /\ p \in RawObservation
      BY <1>p, <3>1 DEF Observation, RawObservation
    <3>3. o2.exists /\ o2.erase_if_empty
      BY <2>2, <2>4 DEF FlagsObserved
    <3>4. o2.exists = p.exists /\ o2.erase_if_empty = p.erase_if_empty
      BY <1>p, <3>2, <3>3 DEF RawObservation
    <3>5. o2.destructed = p.destructed
      BY <1>4, <1>p, <2>2, <2>4 DEF FlagsObserved, Shows
    <3> QED
      BY <1>p, <2>4, <3>2, <3>4, <3>5, ObservationEqual DEF FlagsObserved
  <2>10. World(t) = TouchedWorld(World(s), a)
    <3> HIDE DEF p
    <3>1. TouchedWorld(World(s), a) = [World(s1) EXCEPT ![a] = p]
      BY <1>2, <1>5, <1>e DEF TouchedWorld, p
    <3> QED
      BY <2>6, <2>9, <3>1
  <2>11. acc2.loaded
    BY <1>1, <2>2 DEF FlagsOnly
  <2> QED
    BY <2>1, <2>6, <2>7, <2>8, <2>10, <2>11
<1>6. CASE ~(~acc.erase_if_empty /\ IsEmpty(acc))
  <2>1. Touch(s, a) = s1
    BY <1>6 DEF Touch, s1
  <2>2. o.exists
    BY <1>4, <1>6, <1>e, <1>o DEF Shows, ObservationOK, AbsentOK
  <2>3. World(s1) = TouchedWorld(World(s), a)
    <3>1. CASE IsEmpty(acc)
      <4>1. o.erase_if_empty /\ o.exists
        BY <1>4, <1>6, <2>2, <3>1 DEF Shows
      <4> HIDE DEF p, o
      <4>2. o \in RawObservation /\ p \in RawObservation
        BY <1>p, <1>s DEF Observation, RawObservation
      <4>3. o.exists = p.exists /\ o.erase_if_empty = p.erase_if_empty
        BY <1>p, <4>1, <4>2 DEF RawObservation
      <4>4. o = p
        BY <1>p, <4>2, <4>3, ObservationEqual
      <4>5. TouchedWorld(World(s), a) = [World(s1) EXCEPT ![a] = p]
        BY <1>2, <1>e, <3>1 DEF TouchedWorld, p, o
      <4>6. [World(s1) EXCEPT ![a] = p] = World(s1)
        BY <1>s, <4>4 DEF o, Worlds
      <4> QED
        BY <4>5, <4>6
    <3>2. CASE ~IsEmpty(acc)
      BY <1>2, <1>e, <3>2 DEF TouchedWorld
    <3> QED
      BY <3>1, <3>2
  <2> QED
    BY <1>1, <1>2, <2>1, <2>2, <2>3
<1> QED
  BY <1>5, <1>6

-----------------------------------------------------------------------------
(* Nonces, storage and balances of an account that exists. *)

\* Account acc2 is acc with the field that entry e is about overwritten.
Overwrites(acc, acc2, e) ==
    /\ acc2.nonce = IF e.t = "nonce" THEN acc.nonce + 1 ELSE acc.nonce
    /\ IF e.t = "balance" THEN e.prev_balance = acc.balance
       ELSE acc2.balance = acc.balance
    /\ \A k \in Key : IF e.t = "storage" /\ e.key = k
          THEN /\ e.prev_value = acc.storage[k].current
               /\ e.prev_warm = acc.storage[k].warm
               /\ e.prev_loaded = acc.storage[k].loaded
               /\ acc2.storage[k].loaded = acc.storage[k].loaded
               /\ acc2.storage[k].original = acc.storage[k].original
               /\ ~acc.storage[k].loaded => acc2.storage[k].current = acc.storage[k].current
          ELSE acc2.storage[k] = acc.storage[k]
    /\ \A k \in Key : IF e.t = "transient" /\ e.key = k
          THEN e.prev_value = acc.transient_storage[k]
          ELSE acc2.transient_storage[k] = acc.transient_storage[k]
    /\ acc2.code_hash = acc.code_hash /\ acc2.code = acc.code
    /\ acc2.warm = acc.warm /\ acc2.loaded = acc.loaded
    /\ acc2.nonexistent = acc.nonexistent
    /\ acc2.destructed = acc.destructed /\ acc2.erase_if_empty = acc.erase_if_empty
    /\ acc2.just_created = acc.just_created /\ acc2.code_changed = acc.code_changed
    /\ acc2.has_initial_storage = acc.has_initial_storage

FieldEntry(e) ==
    e \in JournalEntry /\ e.t \in {"nonce", "balance", "storage", "transient"}

(* An overwritten field is what its entry restores. *)
LEMMA FieldStep ==
    ASSUME NEW s, Good(s), NEW e, FieldEntry(e),
           s.modified[e.acc].loaded, World(s)[e.acc].exists,
           NEW acc2 \in Account, Overwrites(s.modified[e.acc], acc2, e)
    PROVE  Revertible(s, e, acc2)
<1> DEFINE a == e.acc
           acc == s.modified[a]
           view == s.initial[a]
           o == Observed(acc, view)
           o2 == Observed(acc2, view)
<1>0. /\ e \in JournalEntry /\ e.t \in {"nonce", "balance", "storage", "transient"}
      /\ a \in Addr /\ ~Clears(e) /\ e.t # "flags"
  BY EntryFields DEF FieldEntry, Clears
<1>1. StateOK(s) /\ ObservationOK(World(s)[a], view)
  BY <1>0 DEF Good, WorldOK
<1>2. /\ view \in ViewAccount /\ (~view.exists => view = NoAccount)
      /\ AccountOK(acc, view) /\ acc \in Account
  BY <1>0, <1>1, StateFields
<1>3. o = World(s)[a] /\ o.exists
  BY <1>0, WorldAt
<1>v. Overwrites(acc, acc2, e) /\ acc.loaded
  OBVIOUS
<1> HIDE DEF acc
<1>4. acc2.loaded
  BY <1>v DEF Overwrites
<1>5. AccountOK(acc2, view)
  <2>1. CacheOK(acc2, view)
    BY <1>2, <1>v DEF AccountOK, CacheOK, Overwrites
  <2>2. LoadedOK(acc2, view)
    BY <1>2, <1>4, <1>v DEF AccountOK, LoadedOK, Overwrites
  <2>3. SlotsOK(acc2, view)
    <3> SUFFICES ASSUME NEW k \in Key
                 PROVE  IF acc2.storage[k].loaded
                        THEN acc2.storage[k].original = view.storage[k]
                        ELSE acc2.storage[k].current = 0 /\ acc2.storage[k].original = 0
      BY DEF SlotsOK
    <3>1. IF acc.storage[k].loaded THEN acc.storage[k].original = view.storage[k]
          ELSE acc.storage[k].current = 0 /\ acc.storage[k].original = 0
      BY <1>2 DEF AccountOK, SlotsOK
    <3>2. \/ acc2.storage[k] = acc.storage[k]
          \/ /\ acc2.storage[k].loaded = acc.storage[k].loaded
             /\ acc2.storage[k].original = acc.storage[k].original
             /\ ~acc.storage[k].loaded => acc2.storage[k].current = acc.storage[k].current
      BY <1>v DEF Overwrites
    <3> QED
      BY <3>1, <3>2
  <2> QED
    BY <2>1, <2>2, <2>3 DEF AccountOK
<1>6. \A k \in Key : acc2.storage[k].loaded = acc.storage[k].loaded
  BY <1>v DEF Overwrites
<1>7. KeepsLoaded(acc, acc2)
  BY <1>4, <1>6 DEF KeepsLoaded
<1>8. EntryOK(e, acc2)
  BY <1>0, <1>4, <1>6, EntryFields, <1>v DEF EntryOK, Overwrites
<1>9. Shows(o, acc, view) /\ Shows(o2, acc2, view)
  BY <1>2, <1>4, <1>v, AccountRaw, ObservedShows
<1>10. o \in Observation /\ o2 \in Observation
  BY <1>2, <1>5, ObservedType
<1>n. /\ acc.nonce \in Nat /\ acc2.nonce \in Nat
      /\ \A k \in Key : acc.storage[k] \in StorageValue /\ acc2.storage[k] \in StorageValue
  BY <1>2 DEF Account
<1> HIDE DEF o, o2, view, a
<1>11. Reverts(o, o2, e)
  <2>1. /\ o.exists = o2.exists /\ o.code = o2.code /\ o.has_code = o2.has_code
        /\ o.warm = o2.warm /\ o.destructed = o2.destructed
        /\ o.erase_if_empty = o2.erase_if_empty /\ o.just_created = o2.just_created
        /\ o.code_changed = o2.code_changed
    <3>1. /\ acc2.nonexistent = acc.nonexistent /\ acc2.code_hash = acc.code_hash
          /\ acc2.warm = acc.warm /\ acc2.destructed = acc.destructed
          /\ acc2.erase_if_empty = acc.erase_if_empty
          /\ acc2.just_created = acc.just_created /\ acc2.code_changed = acc.code_changed
      BY <1>v DEF Overwrites
    <3>2. /\ o.exists = ~acc.nonexistent /\ o.code = acc.code_hash
          /\ o.has_code = (acc.code_hash # NoCode)
          /\ o.warm = acc.warm /\ o.destructed = acc.destructed
          /\ o.erase_if_empty = acc.erase_if_empty
          /\ o.just_created = acc.just_created /\ o.code_changed = acc.code_changed
      BY <1>9 DEF Shows
    <3>3. /\ o2.exists = ~acc2.nonexistent /\ o2.code = acc2.code_hash
          /\ o2.has_code = (acc2.code_hash # NoCode)
          /\ o2.warm = acc2.warm /\ o2.destructed = acc2.destructed
          /\ o2.erase_if_empty = acc2.erase_if_empty
          /\ o2.just_created = acc2.just_created /\ o2.code_changed = acc2.code_changed
      BY <1>9 DEF Shows
    <3> QED
      BY <3>1, <3>2, <3>3
  <2>2. /\ o.exists \in BOOLEAN /\ o.has_code \in BOOLEAN /\ o.just_created \in BOOLEAN
        /\ o.code_changed \in BOOLEAN
    BY <1>10 DEF Observation
  <2>3. o.nonce = IF e.t = "nonce" THEN o2.nonce - 1 ELSE o2.nonce
    BY <1>9, <1>n, <1>v DEF Shows, Overwrites
  <2>4. o.balance = IF e.t = "balance" THEN e.prev_balance ELSE o2.balance
    BY <1>9, <1>v DEF Shows, Overwrites
  <2>5. ASSUME NEW k \in Key
        PROVE  o.storage[k] = IF e.t = "storage" /\ e.key = k /\ e.prev_loaded
                              THEN e.prev_value ELSE o2.storage[k]
    <3>1. /\ o.storage[k] = IF acc.storage[k].loaded THEN acc.storage[k].current
                            ELSE view.storage[k]
          /\ o2.storage[k] = IF acc2.storage[k].loaded THEN acc2.storage[k].current
                             ELSE view.storage[k]
      BY <1>9 DEF Shows
    <3> QED
      BY <1>6, <3>1, <1>v DEF Overwrites
  <2>6. ASSUME NEW k \in Key
        PROVE  o.warm_storage[k] = IF e.t = "storage" /\ e.key = k
                                   THEN e.prev_warm ELSE o2.warm_storage[k]
    <3>1. o.warm_storage[k] = acc.storage[k].warm /\ o2.warm_storage[k] = acc2.storage[k].warm
      BY <1>9 DEF Shows
    <3> QED
      BY <3>1, <1>v DEF Overwrites
  <2>7. ASSUME NEW k \in Key
        PROVE  o.transient_storage[k] = IF e.t = "transient" /\ e.key = k
                                        THEN e.prev_value ELSE o2.transient_storage[k]
    BY <1>9, <1>v DEF Shows, Overwrites
  <2> QED
    BY <1>0, <2>1, <2>2, <2>3, <2>4, <2>5, <2>6, <2>7 DEF Reverts
<1>12. o = UndoObservation(o2, e)
  BY <1>0, <1>10, <1>11, RevertsUndo
<1>13. o2.exists
  BY <1>3, <1>9, <1>v DEF Shows, Overwrites
<1>14. UndoExpects(o2, e, view)
  <2>1. e.t = "nonce" => o2.nonce > 0
    BY <1>9, <1>n, <1>v DEF Shows, Overwrites
  <2>2. e.t = "storage" /\ ~e.prev_loaded => o2.storage[e.key] = view.storage[e.key]
    <3> SUFFICES ASSUME e.t = "storage", ~e.prev_loaded PROVE o2.storage[e.key] = view.storage[e.key]
      OBVIOUS
    <3>1. e.key \in Key
      BY <1>0, EntryFields
    <3>2. ~acc2.storage[e.key].loaded
      BY <1>6, <3>1, <1>v DEF Overwrites
    <3> QED
      BY <1>9, <3>1, <3>2 DEF Shows
  <2> QED
    BY <1>0, <1>13, <2>1, <2>2 DEF UndoExpects
<1>15. ObservationOK(o2, view)
  <2>1. ObservationOK(o, view)
    BY <1>1, <1>3
  <2>2. /\ o2.exists = o.exists /\ o2.code = o.code /\ o2.has_code = o.has_code
        /\ o2.destructed = o.destructed /\ o2.just_created = o.just_created
        /\ o2.code_changed = o.code_changed
    BY <1>9, <1>v DEF Shows, Overwrites
  <2>3. AbsentOK(o2, view)
    BY <1>13 DEF AbsentOK
  <2>4. CodeOK(o2, view) /\ LifeOK(o2, view)
    BY <2>1, <2>2 DEF ObservationOK, CodeOK, LifeOK
  <2> QED
    BY <1>10, <2>3, <2>4 DEF ObservationOK
<1>16. /\ Growth(o, o2) /\ o2.just_created = o.just_created
  <2>1. /\ o2.exists = o.exists /\ o2.code = o.code
        /\ o2.just_created = o.just_created /\ o.nonce = acc.nonce /\ o2.nonce = acc2.nonce
    BY <1>9, <1>v DEF Shows, Overwrites
  <2>2. acc.nonce <= acc2.nonce
    BY <1>n, <1>v DEF Overwrites
  <2> QED
    BY <2>1, <2>2 DEF Growth
<1>17. CreatesOK(World(s), o, o2, a)
  BY <1>16 DEF CreatesOK
<1> QED
  BY <1>5, <1>7, <1>8, <1>12, <1>14, <1>15, <1>16, <1>17 DEF Revertible, acc, o, o2, view, a

\* t is s with account a, loaded and existing, changed to acc2 and journaled.
Wrote(s, t, a, acc2) ==
    /\ Extends(s, t) /\ Good(t)
    /\ t.modified[a] = acc2
    /\ \A b \in Addr : b # a => t.modified[b] = s.modified[b]
    /\ World(t) = [World(s) EXCEPT ![a] = Observed(acc2, s.initial[a])]

LEMMA FieldWrite ==
    ASSUME NEW s, Good(s), NEW e, FieldEntry(e),
           s.modified[e.acc].loaded, World(s)[e.acc].exists,
           NEW acc2 \in Account, Overwrites(s.modified[e.acc], acc2, e)
    PROVE  Wrote(s, [Journal(s, e) EXCEPT !.modified[e.acc] = acc2], e.acc, acc2)
<1> DEFINE t == [Journal(s, e) EXCEPT !.modified[e.acc] = acc2]
<1>1. Revertible(s, e, acc2)
  BY FieldStep
<1>2. e \in JournalEntry /\ e.acc \in Addr
  BY EntryFields DEF FieldEntry
<1>3. t = After(s, e.acc, acc2, Append(s.journal, e))
  BY <1>2, WriteForm DEF Good
<1> HIDE DEF t
<1>4. /\ Extends(s, t) /\ Good(t)
      /\ World(t) = [World(s) EXCEPT ![e.acc] = Observed(acc2, s.initial[e.acc])]
      /\ t.modified[e.acc] = acc2
      /\ \A b \in Addr : b # e.acc => t.modified[b] = s.modified[b]
  BY <1>1, <1>2, <1>3, WriteStep
<1> QED
  BY <1>4 DEF Wrote, t

\* The precondition of writing an account.
Writable(s, a) == a \in Addr /\ s.modified[a].loaded /\ World(s)[a].exists

(* What is observed of a loaded account is what is stored. *)
LEMMA WorldShows ==
    ASSUME NEW s, StateOK(s), NEW a \in Addr, s.modified[a].loaded
    PROVE  Shows(World(s)[a], s.modified[a], s.initial[a])
<1>1. s.initial[a] \in ViewAccount /\ s.modified[a] \in Account
  BY StateFields
<1>2. World(s)[a] = Observed(s.modified[a], s.initial[a])
  BY WorldAt
<1> QED
  BY <1>1, <1>2, AccountRaw, ObservedShows

(* Writing anything but a balance changes no balance. *)
LEMMA WroteBalance ==
    ASSUME NEW s, Good(s), NEW a, Writable(s, a), NEW acc2, acc2.loaded,
           acc2.balance = s.modified[a].balance, NEW t, Wrote(s, t, a, acc2)
    PROVE  SameBalances(World(s), World(t))
<1>1. StateOK(s) /\ StateOK(t) /\ a \in Addr /\ s.modified[a].loaded
  BY DEF Writable, Wrote, Good
<1>2. t.modified[a] = acc2 /\ World(s) \in Worlds
  BY DEF Wrote, Good, WorldOK
<1>3. World(s)[a].balance = s.modified[a].balance
  BY <1>1, WorldShows DEF Shows
<1>4. World(t)[a].balance = t.modified[a].balance
  BY <1>1, <1>2, WorldShows DEF Shows
<1>5. \A b \in Addr : b # a => World(t)[b] = World(s)[b]
  BY <1>1, <1>2 DEF Wrote, Worlds
<1> QED
  BY <1>2, <1>3, <1>4, <1>5 DEF SameBalances

(* Bumping a nonce. *)
LEMMA BumpNonceStep ==
    ASSUME NEW s, Good(s), NEW a, Writable(s, a)
    PROVE  Wrote(s, BumpNonce(s, a), a,
                 [s.modified[a] EXCEPT !.nonce = s.modified[a].nonce + 1])
<1> DEFINE acc == s.modified[a]
           acc2 == [acc EXCEPT !.nonce = acc.nonce + 1]
           e == [t |-> "nonce", acc |-> a]
<1>1. StateOK(s) /\ a \in Addr /\ acc.loaded /\ World(s)[a].exists
  BY DEF Good, Writable
<1>2. acc \in Account /\ s.modified \in [Addr -> Account]
  BY <1>1, StateFields
<1>3. e.acc = a /\ e.t = "nonce"
  OBVIOUS
<1>4. FieldEntry(e)
  BY <1>1 DEF FieldEntry, JournalEntry
<1>5. BumpNonce(s, a) = [Journal(s, e) EXCEPT !.modified[a] = acc2]
  <2>1. Journal(s, e).modified = s.modified
    BY <1>1, JournalFields
  <2>2. BumpNonce(s, a) = [Journal(s, e) EXCEPT !.modified[a].nonce = @ + 1]
    BY DEF BumpNonce, JournalBumpNonce
  <2> HIDE DEF e
  <2> QED
    BY <1>2, <2>1, <2>2
<1>6. acc2 \in Account /\ Overwrites(acc, acc2, e)
  <2>1. acc.nonce + 1 \in Nat
    BY <1>2 DEF Account
  <2> QED
    BY <1>2, <2>1 DEF Account, Overwrites
<1> HIDE DEF e, acc2
<1>7. Wrote(s, [Journal(s, e) EXCEPT !.modified[a] = acc2], a, acc2)
  BY <1>1, <1>3, <1>4, <1>6, FieldWrite
<1> QED
  BY <1>5, <1>7 DEF acc2

(* A new balance. *)
LEMMA BalanceStep ==
    ASSUME NEW s, Good(s), NEW a, Writable(s, a), NEW b \in Nat
    PROVE  Wrote(s, [JournalBalanceChange(s, a) EXCEPT !.modified[a].balance = b], a,
                 [s.modified[a] EXCEPT !.balance = b])
<1> DEFINE acc == s.modified[a]
           acc2 == [acc EXCEPT !.balance = b]
           e == [t |-> "balance", acc |-> a, prev_balance |-> acc.balance]
<1>1. StateOK(s) /\ a \in Addr /\ acc.loaded /\ World(s)[a].exists
  BY DEF Good, Writable
<1>2. acc \in Account /\ s.modified \in [Addr -> Account]
  BY <1>1, StateFields
<1>3. e.acc = a /\ e.t = "balance" /\ e.prev_balance = acc.balance
  OBVIOUS
<1>4. FieldEntry(e)
  BY <1>1, <1>2 DEF FieldEntry, JournalEntry, Account
<1>5. [JournalBalanceChange(s, a) EXCEPT !.modified[a].balance = b]
        = [Journal(s, e) EXCEPT !.modified[a] = acc2]
  <2>1. Journal(s, e).modified = s.modified
    BY <1>1, JournalFields
  <2>2. JournalBalanceChange(s, a) = Journal(s, e)
    BY DEF JournalBalanceChange
  <2> HIDE DEF e
  <2> QED
    BY <1>2, <2>1, <2>2
<1>6. acc2 \in Account /\ Overwrites(acc, acc2, e)
  <2> HIDE DEF e
  <2> QED
    BY <1>2, <1>3 DEF Account, Overwrites
<1> HIDE DEF e, acc2
<1>7. Wrote(s, [Journal(s, e) EXCEPT !.modified[a] = acc2], a, acc2)
  BY <1>1, <1>3, <1>4, <1>6, FieldWrite
<1> QED
  BY <1>5, <1>7 DEF acc2

\* The entry that JournalStorageChange() writes.
StorageEntry(slot, a, k) ==
    [t |-> "storage", acc |-> a, key |-> k, prev_value |-> slot.current,
     prev_warm |-> slot.warm, prev_loaded |-> slot.loaded]

(* A slot of a loaded account overwritten: its value only once it is loaded. *)
LEMMA SlotStep ==
    ASSUME NEW s, Good(s), NEW a, Writable(s, a), NEW k \in Key,
           NEW slot \in StorageValue,
           slot.loaded = s.modified[a].storage[k].loaded,
           slot.original = s.modified[a].storage[k].original,
           ~slot.loaded => slot.current = s.modified[a].storage[k].current
    PROVE  LET t == [JournalStorageChange(s, a, k) EXCEPT !.modified[a].storage[k] = slot]
           IN  Extends(s, t) /\ Good(t) /\ SameBalances(World(s), World(t))
<1> DEFINE acc == s.modified[a]
           old == acc.storage[k]
           st == [acc.storage EXCEPT ![k] = slot]
           acc2 == [acc EXCEPT !.storage = st]
           e == StorageEntry(old, a, k)
<1>1. StateOK(s) /\ a \in Addr /\ acc.loaded /\ World(s)[a].exists
  BY DEF Good, Writable
<1>2. acc \in Account /\ s.modified \in [Addr -> Account]
  BY <1>1, StateFields
<1>3. old \in StorageValue /\ acc.storage \in [Key -> StorageValue]
  BY <1>2 DEF Account
<1>4. /\ e.acc = a /\ e.t = "storage" /\ e.key = k /\ e.prev_value = old.current
      /\ e.prev_warm = old.warm /\ e.prev_loaded = old.loaded
  BY DEF StorageEntry
<1>5. FieldEntry(e)
  <2>1. e \in [t : {"storage"}, acc : Addr, key : Key, prev_value : Val,
               prev_warm : BOOLEAN, prev_loaded : BOOLEAN]
    <3> HIDE DEF old
    <3> QED
      BY <1>1, <1>3 DEF StorageEntry, StorageValue
  <2> QED
    BY <1>4, <2>1 DEF FieldEntry, JournalEntry
<1>6. [JournalStorageChange(s, a, k) EXCEPT !.modified[a].storage[k] = slot]
        = [Journal(s, e) EXCEPT !.modified[a] = acc2]
  <2>1. Journal(s, e).modified = s.modified
    BY <1>1, JournalFields
  <2>2. JournalStorageChange(s, a, k) = Journal(s, e)
    BY DEF JournalStorageChange, StorageEntry
  <2> HIDE DEF e
  <2> QED
    BY <1>2, <1>3, <2>1, <2>2
<1>7. /\ st \in [Key -> StorageValue] /\ st[k] = slot
      /\ \A l \in Key : l # k => st[l] = acc.storage[l]
  BY <1>3
<1> HIDE DEF st, e
<1>8. acc2 \in Account /\ acc2.storage = st
  BY <1>2, <1>7 DEF Account
<1>9. /\ acc2.code = acc.code /\ acc2.code_hash = acc.code_hash
      /\ acc2.code_changed = acc.code_changed /\ acc2.loaded = acc.loaded
      /\ acc2.has_initial_storage = acc.has_initial_storage
      /\ acc2.nonexistent = acc.nonexistent /\ acc2.nonce = acc.nonce
      /\ acc2.balance = acc.balance /\ acc2.transient_storage = acc.transient_storage
      /\ acc2.warm = acc.warm /\ acc2.destructed = acc.destructed
      /\ acc2.erase_if_empty = acc.erase_if_empty
      /\ acc2.just_created = acc.just_created
  BY <1>2 DEF Account
<1> HIDE DEF acc2
<1>10. Overwrites(acc, acc2, e)
  BY <1>4, <1>7, <1>8, <1>9 DEF Overwrites
<1>11. Wrote(s, [Journal(s, e) EXCEPT !.modified[a] = acc2], a, acc2)
  BY <1>1, <1>4, <1>5, <1>8, <1>10, FieldWrite
<1> HIDE DEF acc
<1>12. SameBalances(World(s), World([Journal(s, e) EXCEPT !.modified[a] = acc2]))
  BY <1>1, <1>8, <1>9, <1>11, WroteBalance DEF acc
<1> QED
  BY <1>6, <1>11, <1>12 DEF Wrote

LEMMA AccessStorageStep ==
    ASSUME NEW s, Good(s), NEW a, Writable(s, a), NEW k \in Key
    PROVE  /\ Extends(s, AccessStorage(s, a, k)) /\ Good(AccessStorage(s, a, k))
           /\ SameBalances(World(s), World(AccessStorage(s, a, k)))
<1> DEFINE acc == s.modified[a]
           old == acc.storage[k]
           slot == [old EXCEPT !.warm = TRUE]
<1>1. StateOK(s) /\ a \in Addr
  BY DEF Good, Writable
<1>2. acc \in Account /\ s.modified \in [Addr -> Account]
  BY <1>1, StateFields
<1>3. old \in StorageValue /\ acc.storage \in [Key -> StorageValue]
  BY <1>2 DEF Account
<1>4. CASE old.warm
  BY <1>4, ExtendsSelf DEF AccessStorage, SameBalances
<1>5. CASE ~old.warm
  <2>1. AccessStorage(s, a, k)
          = [JournalStorageChange(s, a, k) EXCEPT !.modified[a].storage[k].warm = TRUE]
    BY <1>5 DEF AccessStorage
  <2>2. JournalStorageChange(s, a, k).modified = s.modified
    BY <1>1, JournalFields DEF JournalStorageChange
  <2>3. [JournalStorageChange(s, a, k) EXCEPT !.modified[a].storage[k].warm = TRUE]
          = [JournalStorageChange(s, a, k) EXCEPT !.modified[a].storage[k] = slot]
    BY <1>2, <1>3, <2>2
  <2>4. /\ slot \in StorageValue /\ slot.loaded = old.loaded
        /\ slot.original = old.original /\ slot.current = old.current
    <3> HIDE DEF old
    <3> QED
      BY <1>3 DEF StorageValue
  <2> HIDE DEF slot
  <2> QED
    BY <2>1, <2>3, <2>4, SlotStep
<1> QED
  BY <1>4, <1>5

LEMMA SetStorageStep ==
    ASSUME NEW s, Good(s), NEW a, Writable(s, a), NEW k \in Key, NEW v \in Val
    PROVE  /\ Extends(s, SetStorage(s, a, k, v)) /\ Good(SetStorage(s, a, k, v))
           /\ SameBalances(World(s), World(SetStorage(s, a, k, v)))
<1> DEFINE s1 == GetStorage(s, a, k)
           acc == s1.modified[a]
           old == acc.storage[k]
           slot == [old EXCEPT !.current = v]
           t == [JournalStorageChange(s1, a, k) EXCEPT !.modified[a].storage[k] = slot]
<1>0. a \in Addr /\ s.modified[a].loaded /\ World(s)[a].exists
  BY DEF Writable
<1>1. Quiet(s, s1) /\ Good(s1) /\ old.loaded /\ acc.loaded
  BY <1>0, GetStorageStep
<1>2. StateOK(s1) /\ Extends(s, s1) /\ World(s1) = World(s)
  BY <1>1 DEF Good, Quiet
<1>3. acc \in Account /\ s1.modified \in [Addr -> Account]
  BY <1>0, <1>2, StateFields
<1>4. old \in StorageValue /\ acc.storage \in [Key -> StorageValue]
  BY <1>3 DEF Account
<1>5. Writable(s1, a)
  BY <1>0, <1>1, <1>2 DEF Writable
<1>6. SetStorage(s, a, k, v) = t
  <2>1. SetStorage(s, a, k, v)
          = [JournalStorageChange(s1, a, k) EXCEPT !.modified[a].storage[k].current = v]
    BY DEF SetStorage
  <2> HIDE DEF s1
  <2>2. JournalStorageChange(s1, a, k).modified = s1.modified
    BY <1>2, JournalFields DEF JournalStorageChange
  <2> QED
    BY <1>0, <1>3, <1>4, <2>1, <2>2
<1> HIDE DEF s1
<1>7. /\ slot \in StorageValue /\ slot.loaded = old.loaded
      /\ slot.original = old.original
  <2> HIDE DEF old
  <2> QED
    BY <1>4 DEF StorageValue
<1> HIDE DEF slot
<1>8. Extends(s1, t) /\ Good(t) /\ SameBalances(World(s1), World(t))
  BY <1>1, <1>5, <1>7, SlotStep
<1> HIDE DEF t
<1>9. Extends(s, t)
  BY <1>2, <1>8, ExtendsTransitive
<1> QED
  BY <1>2, <1>6, <1>8, <1>9

LEMMA SetTransientStorageStep ==
    ASSUME NEW s, Good(s), NEW a, Writable(s, a), NEW k \in Key, NEW v \in Val
    PROVE  /\ Extends(s, SetTransientStorage(s, a, k, v))
           /\ Good(SetTransientStorage(s, a, k, v))
           /\ SameBalances(World(s), World(SetTransientStorage(s, a, k, v)))
<1> DEFINE acc == s.modified[a]
           ts == [acc.transient_storage EXCEPT ![k] = v]
           acc2 == [acc EXCEPT !.transient_storage = ts]
           e == [t |-> "transient", acc |-> a, key |-> k,
                 prev_value |-> acc.transient_storage[k]]
<1>1. StateOK(s) /\ a \in Addr /\ acc.loaded /\ World(s)[a].exists
  BY DEF Good, Writable
<1>2. acc \in Account /\ s.modified \in [Addr -> Account]
  BY <1>1, StateFields
<1>3. acc.transient_storage \in [Key -> Val]
  BY <1>2 DEF Account
<1>4. e.acc = a /\ e.t = "transient" /\ e.key = k /\ e.prev_value = acc.transient_storage[k]
  OBVIOUS
<1>5. FieldEntry(e)
  BY <1>1, <1>3 DEF FieldEntry, JournalEntry
<1>6. SetTransientStorage(s, a, k, v) = [Journal(s, e) EXCEPT !.modified[a] = acc2]
  <2>1. Journal(s, e).modified = s.modified
    BY <1>1, JournalFields
  <2>2. SetTransientStorage(s, a, k, v)
          = [Journal(s, e) EXCEPT !.modified[a].transient_storage[k] = v]
    BY <1>1 DEF SetTransientStorage, JournalTransientStorageChange, Get
  <2> HIDE DEF e
  <2> QED
    BY <1>1, <1>2, <1>3, <2>1, <2>2
<1>7. /\ ts \in [Key -> Val] /\ \A l \in Key : l # k => ts[l] = acc.transient_storage[l]
  BY <1>3
<1> HIDE DEF ts, e
<1>8. acc2 \in Account /\ acc2.transient_storage = ts
  BY <1>2, <1>7 DEF Account
<1>9. /\ acc2.code = acc.code /\ acc2.code_hash = acc.code_hash
      /\ acc2.code_changed = acc.code_changed /\ acc2.loaded = acc.loaded
      /\ acc2.has_initial_storage = acc.has_initial_storage
      /\ acc2.nonexistent = acc.nonexistent /\ acc2.nonce = acc.nonce
      /\ acc2.balance = acc.balance /\ acc2.storage = acc.storage
      /\ acc2.warm = acc.warm /\ acc2.destructed = acc.destructed
      /\ acc2.erase_if_empty = acc.erase_if_empty
      /\ acc2.just_created = acc.just_created
  BY <1>2 DEF Account
<1> HIDE DEF acc2
<1>10. Overwrites(acc, acc2, e)
  BY <1>4, <1>7, <1>8, <1>9 DEF Overwrites
<1>11. Wrote(s, [Journal(s, e) EXCEPT !.modified[a] = acc2], a, acc2)
  BY <1>1, <1>4, <1>5, <1>8, <1>10, FieldWrite
<1> HIDE DEF acc
<1>12. SameBalances(World(s), World([Journal(s, e) EXCEPT !.modified[a] = acc2]))
  BY <1>1, <1>8, <1>9, <1>11, WroteBalance DEF acc
<1> QED
  BY <1>6, <1>11, <1>12 DEF Wrote

\* t is s with the balances of x and y journaled and then changed.
Rebalanced(s, t, x, y, bx, by) ==
    /\ t.initial = s.initial
    /\ t.journal = JournalBalanceChange(JournalBalanceChange(s, x), y).journal
    /\ t.modified = [s.modified EXCEPT ![x] = [@ EXCEPT !.balance = bx],
                                       ![y] = [@ EXCEPT !.balance = by]]
    /\ t = [initial |-> t.initial, modified |-> t.modified, journal |-> t.journal]

(* Two balances journaled together are as good as journaled one by one. *)
LEMMA RebalancedStep ==
    ASSUME NEW s, Good(s), NEW x, Writable(s, x), NEW y, Writable(s, y),
           NEW bx \in Nat, NEW by \in Nat, NEW t, Rebalanced(s, t, x, y, bx, by)
    PROVE  Extends(s, t) /\ Good(t)
<1> DEFINE b1 == IF x = y THEN s.modified[x].balance ELSE bx
           acc == s.modified[x]
           acc1 == [acc EXCEPT !.balance = b1]
           s1 == [JournalBalanceChange(s, x) EXCEPT !.modified[x].balance = b1]
           s2 == [JournalBalanceChange(s1, y) EXCEPT !.modified[y].balance = by]
<1>1. x \in Addr /\ y \in Addr /\ StateOK(s)
  BY DEF Writable, Good
<1>2. /\ acc \in Account /\ s.modified[y] \in Account /\ s.modified \in [Addr -> Account]
      /\ s = [initial |-> s.initial, modified |-> s.modified, journal |-> s.journal]
  BY <1>1, StateFields
<1>3. b1 \in Nat
  BY <1>2 DEF Account
<1>4. Wrote(s, s1, x, acc1)
  BY <1>3, BalanceStep
<1>5. /\ Extends(s, s1) /\ Good(s1) /\ s1.modified[x] = acc1
      /\ \A b \in Addr : b # x => s1.modified[b] = s.modified[b]
  BY <1>4 DEF Wrote
<1>j. /\ JournalBalanceChange(s, x).modified = s.modified
      /\ JournalBalanceChange(s, x).initial = s.initial
  BY <1>1, JournalFields DEF JournalBalanceChange
<1>6. /\ s1.initial = s.initial
      /\ s1.modified = [s.modified EXCEPT ![x] = acc1]
      /\ s1.journal = JournalBalanceChange(s, x).journal
  <2>1. JournalBalanceChange(s, x)
         = [initial |-> s.initial, modified |-> s.modified,
            journal |-> JournalBalanceChange(s, x).journal]
    BY <1>2 DEF JournalBalanceChange, Journal
  <2> QED
    BY <1>2, <2>1
<1>7. Writable(s1, y)
  <2>1. Grows(World(s), World(s1)) /\ KeepsLoaded(s.modified[y], s1.modified[y])
    BY <1>1, <1>5, ExtendsFacts
  <2> QED
    BY <1>1, <2>1 DEF Writable, Grows, Growth, KeepsLoaded
<1>8. Wrote(s1, s2, y, [s1.modified[y] EXCEPT !.balance = by])
  <2> HIDE DEF s1
  <2> QED
    BY <1>5, <1>7, BalanceStep
<1>9. Extends(s1, s2) /\ Good(s2)
  BY <1>8 DEF Wrote
<1>10. s1.modified[y].balance = s.modified[y].balance
  <2>1. CASE x = y
    BY <1>2, <1>5, <2>1 DEF Account
  <2>2. CASE x # y
    BY <1>1, <1>5, <2>2
  <2> QED
    BY <2>1, <2>2
<1>11. StateOK(s1)
  BY <1>5 DEF Good
<1> HIDE DEF s1
<1>12. /\ s1.modified \in [Addr -> Account]
       /\ s1 = [initial |-> s1.initial, modified |-> s1.modified, journal |-> s1.journal]
  BY <1>11, StateFields
<1>13. /\ s2.initial = s1.initial
       /\ s2.modified = [s1.modified EXCEPT ![y] = [@ EXCEPT !.balance = by]]
       /\ s2.journal = JournalBalanceChange(s1, y).journal
       /\ s2 = [initial |-> s2.initial, modified |-> s2.modified, journal |-> s2.journal]
  <2>1. JournalBalanceChange(s1, y)
         = [initial |-> s1.initial, modified |-> s1.modified,
            journal |-> JournalBalanceChange(s1, y).journal]
    BY <1>12 DEF JournalBalanceChange, Journal
  <2> QED
    BY <1>12, <2>1
<1>14. s2.journal = t.journal
  <2> DEFINE u == JournalBalanceChange(s, x)
  <2>1. JournalBalanceChange(s1, y).journal
          = Append(s1.journal, [t |-> "balance", acc |-> y,
                                prev_balance |-> s1.modified[y].balance])
    BY <1>11, JournalFields DEF JournalBalanceChange
  <2>2. u = [initial |-> u.initial, modified |-> u.modified, journal |-> u.journal]
    BY <1>2 DEF JournalBalanceChange, Journal
  <2>3. u.modified = s.modified
    BY <1>j
  <2> HIDE DEF u
  <2>4. JournalBalanceChange(u, y).journal
          = Append(u.journal, [t |-> "balance", acc |-> y,
                               prev_balance |-> u.modified[y].balance])
    BY <2>2 DEF JournalBalanceChange, Journal
  <2> QED
    BY <1>6, <1>10, <1>13, <2>1, <2>3, <2>4 DEF Rebalanced, u
<1>15. s2.modified = t.modified
  <2>1. t.modified = [s.modified EXCEPT ![x] = [@ EXCEPT !.balance = bx],
                                        ![y] = [@ EXCEPT !.balance = by]]
    BY DEF Rebalanced
  <2>2. s2.modified = [[s.modified EXCEPT ![x] = acc1]
                          EXCEPT ![y] = [@ EXCEPT !.balance = by]]
    BY <1>6, <1>13
  <2>3. CASE x = y
    BY <1>1, <1>2, <2>1, <2>2, <2>3 DEF Account
  <2>4. CASE x # y
    BY <1>1, <1>2, <2>1, <2>2, <2>4
  <2> QED
    BY <2>3, <2>4
<1>16. s2 = t
  BY <1>6, <1>13, <1>14, <1>15 DEF Rebalanced
<1> HIDE DEF s2
<1>17. Extends(s, s2)
  BY <1>5, <1>9, ExtendsTransitive
<1> QED
  BY <1>9, <1>16, <1>17

\* s is a record of the three members of a State.
IsRecord(s) ==
    s = [initial |-> s.initial, modified |-> s.modified, journal |-> s.journal]

LEMMA JournalRecord ==
    ASSUME NEW s, IsRecord(s), NEW e
    PROVE  /\ IsRecord(Journal(s, e))
           /\ Journal(s, e).modified = s.modified
           /\ Journal(s, e).initial = s.initial
<1>1. PICK i, m, j : s = [initial |-> i, modified |-> m, journal |-> j]
  BY DEF IsRecord
<1>2. Journal(s, e) = [initial |-> i, modified |-> m, journal |-> Append(j, e)]
  BY <1>1 DEF Journal
<1> QED
  BY <1>1, <1>2 DEF IsRecord

LEMMA JournaledBalances ==
    ASSUME NEW s, StateOK(s), NEW x \in Addr, NEW y \in Addr,
           NEW u, u = JournalBalanceChange(JournalBalanceChange(s, x), y)
    PROVE  u.modified = s.modified /\ u.initial = s.initial /\ IsRecord(u)
<1> DEFINE v == JournalBalanceChange(s, x)
<1>1. IsRecord(s)
  BY StateFields DEF IsRecord
<1>2. IsRecord(v) /\ v.modified = s.modified /\ v.initial = s.initial
  BY <1>1, JournalRecord DEF JournalBalanceChange
<1>3. u = JournalBalanceChange(v, y)
  OBVIOUS
<1> HIDE DEF v
<1>4. IsRecord(u) /\ u.modified = v.modified /\ u.initial = v.initial
  BY <1>2, <1>3, JournalRecord DEF JournalBalanceChange
<1> QED
  BY <1>2, <1>4

\* The accounts m with the balances of x and y replaced.
TwoBalances(m, x, y, bx, by) ==
    [m EXCEPT ![x] = [@ EXCEPT !.balance = bx], ![y] = [@ EXCEPT !.balance = by]]

LEMMA RebalancedForm ==
    ASSUME NEW s, StateOK(s), NEW x \in Addr, NEW y \in Addr, NEW bx, NEW by,
           NEW u, u = JournalBalanceChange(JournalBalanceChange(s, x), y)
    PROVE  Rebalanced(s, [u EXCEPT !.modified = TwoBalances(s.modified, x, y, bx, by)],
                      x, y, bx, by)
<1> DEFINE m == TwoBalances(s.modified, x, y, bx, by)
           t == [u EXCEPT !.modified = m]
<1>1. u.modified = s.modified /\ u.initial = s.initial /\ IsRecord(u)
  BY JournaledBalances
<1> HIDE DEF m
<1>2. /\ t.initial = u.initial /\ t.modified = m /\ t.journal = u.journal
      /\ IsRecord(t)
  <2>1. PICK i, n, j : u = [initial |-> i, modified |-> n, journal |-> j]
    BY <1>1 DEF IsRecord
  <2>2. t = [initial |-> i, modified |-> m, journal |-> j]
    BY ONLY <2>1 DEF t
  <2> QED
    BY ONLY <2>1, <2>2 DEF IsRecord
<1> HIDE DEF t
<1>3. Rebalanced(s, t, x, y, bx, by)
  BY <1>1, <1>2 DEF Rebalanced, TwoBalances, m, IsRecord
<1> QED
  BY <1>3 DEF t, m

\* The accounts m with the balance of x set to c and then d added to that of y.
Moved(m, x, y, c, d) ==
    TwoBalances(m, x, y, IF x = y THEN c + d ELSE c,
                         IF x = y THEN c + d ELSE m[y].balance + d)

MoveBalances(u, x, y, c, d) ==
    [[u EXCEPT !.modified[x].balance = c] EXCEPT !.modified[y].balance = @ + d]

LEMMA BalancesMoved ==
    ASSUME NEW s, StateOK(s), NEW x \in Addr, NEW y \in Addr, NEW u,
           u.modified = s.modified, IsRecord(u), NEW c, NEW d
    PROVE  MoveBalances(u, x, y, c, d) = [u EXCEPT !.modified = Moved(s.modified, x, y, c, d)]
<1>1. s.modified \in [Addr -> Account] /\ s.modified[x] \in Account /\ s.modified[y] \in Account
  BY StateFields
<1>2. PICK i, n, j : u = [initial |-> i, modified |-> n, journal |-> j]
  BY DEF IsRecord
<1> DEFINE m == Moved(s.modified, x, y, c, d)
           m1 == [n EXCEPT ![x].balance = c]
           m2 == [m1 EXCEPT ![y].balance = @ + d]
<1>3. n = s.modified
  BY <1>2
<1>4. [[u EXCEPT !.modified[x].balance = c] EXCEPT !.modified[y].balance = @ + d]
        = [initial |-> i, modified |-> m2, journal |-> j]
  <2>1. [u EXCEPT !.modified[x].balance = c] = [initial |-> i, modified |-> m1, journal |-> j]
    BY ONLY <1>2
  <2> DEFINE v == [u EXCEPT !.modified[x].balance = c]
  <2> HIDE DEF m1, v
  <2>2. v.modified = m1 /\ v = [initial |-> i, modified |-> m1, journal |-> j]
    BY <2>1 DEF v
  <2>3. [v EXCEPT !.modified[y].balance = @ + d] = [v EXCEPT !.modified = m2]
    BY ONLY <2>2
  <2> HIDE DEF m2
  <2>4. [v EXCEPT !.modified[y].balance = @ + d]
          = [initial |-> i, modified |-> m2, journal |-> j]
    BY ONLY <2>2, <2>3
  <2> QED
    BY ONLY <2>4 DEF v
<1>5. [u EXCEPT !.modified = m] = [initial |-> i, modified |-> m, journal |-> j]
  <2> HIDE DEF m
  <2> QED
    BY ONLY <1>2
<1>6. m2 = m
  <2>1. CASE x = y
    BY <1>1, <1>3, <2>1 DEF Moved, TwoBalances, Account
  <2>2. CASE x # y
    BY <1>1, <1>3, <2>2 DEF Moved, TwoBalances
  <2> QED
    BY <2>1, <2>2
<1> QED
  BY <1>4, <1>5, <1>6 DEF MoveBalances

(* The balances are what is observed of a state rebalanced. *)
LEMMA RebalancedBalances ==
    ASSUME NEW s, Good(s), NEW x, Writable(s, x), NEW y, Writable(s, y),
           NEW bx \in Nat, NEW by \in Nat, NEW t, Rebalanced(s, t, x, y, bx, by), Good(t)
    PROVE  \A b \in Addr : World(t)[b].balance = IF b = y THEN by ELSE IF b = x THEN bx
                                                ELSE World(s)[b].balance
<1> SUFFICES ASSUME NEW b \in Addr
             PROVE  World(t)[b].balance = IF b = y THEN by ELSE IF b = x THEN bx
                                          ELSE World(s)[b].balance
  OBVIOUS
<1>1. /\ StateOK(s) /\ StateOK(t) /\ x \in Addr /\ y \in Addr
      /\ s.modified[x].loaded /\ s.modified[y].loaded
  BY DEF Good, Writable
<1>2. s.modified \in [Addr -> Account] /\ s.modified[x] \in Account /\ s.modified[y] \in Account
  BY <1>1, StateFields
<1>3. t.modified = TwoBalances(s.modified, x, y, bx, by) /\ t.initial = s.initial
  BY DEF Rebalanced, TwoBalances
<1>4. CASE b = y
  <2>1. t.modified[y].balance = by /\ t.modified[y].loaded
    <3>1. CASE x = y
      BY <1>1, <1>2, <1>3, <3>1 DEF TwoBalances, Account
    <3>2. CASE x # y
      BY <1>1, <1>2, <1>3, <3>2 DEF TwoBalances, Account
    <3> QED
      BY <3>1, <3>2
  <2> QED
    BY <1>1, <1>4, <2>1, WorldShows DEF Shows
<1>5. CASE b # y /\ b = x
  <2>1. x # y
    BY <1>5
  <2>2. t.modified[x].balance = bx
    BY <1>1, <1>2, <1>3, <2>1 DEF TwoBalances, Account
  <2>3. t.modified[x].loaded = s.modified[x].loaded
    BY <1>1, <1>2, <1>3, <2>1 DEF TwoBalances, Account
  <2> QED
    BY <1>1, <1>5, <2>2, <2>3, WorldShows DEF Shows
<1>6. CASE b # y /\ b # x
  <2>1. t.modified[b] = s.modified[b]
    BY <1>1, <1>2, <1>3, <1>6 DEF TwoBalances
  <2>2. World(t)[b] = World(s)[b]
    BY <1>1, <1>3, <2>1, WorldAt
  <2> QED
    BY <1>6, <2>2
<1> QED
  BY <1>4, <1>5, <1>6

\* v has moved from account x to account y.
MovesBalance(w, w2, x, y, v) ==
    /\ v <= w[x].balance
    /\ \A b \in Addr : w2[b].balance = IF x = y THEN w[b].balance
                                       ELSE IF b = x THEN w[b].balance - v
                                       ELSE IF b = y THEN w[b].balance + v
                                       ELSE w[b].balance

Redistributes(w, w2) ==
    SameBalances(w, w2) \/ \E x, y \in Addr, v \in Nat : MovesBalance(w, w2, x, y, v)

\* Before Amsterdam a contract that destructs in favour of itself loses its balance.
BurnsBalance(w, w2, a) ==
    /\ Rev < AMSTERDAM
    /\ \A b \in Addr : w2[b].balance = IF b = a THEN 0 ELSE w[b].balance

RedistributesOrBurns(w, w2, a) == Redistributes(w, w2) \/ BurnsBalance(w, w2, a)

LEMMA RedistributesAfter ==
    ASSUME NEW w, NEW w1, SameBalances(w, w1), NEW w2, Redistributes(w1, w2)
    PROVE  Redistributes(w, w2)
<1>1. \A b \in Addr : w1[b].balance = w[b].balance
  BY DEF SameBalances
<1>2. CASE SameBalances(w1, w2)
  BY <1>1, <1>2 DEF SameBalances, Redistributes
<1>3. ASSUME NEW x \in Addr, NEW y \in Addr, NEW v \in Nat, MovesBalance(w1, w2, x, y, v)
      PROVE  MovesBalance(w, w2, x, y, v)
  BY <1>1, <1>3 DEF MovesBalance
<1> QED
  BY <1>2, <1>3 DEF Redistributes

LEMMA RedistributesThen ==
    ASSUME NEW w, NEW w1, NEW a, RedistributesOrBurns(w, w1, a),
           NEW w2, SameBalances(w1, w2)
    PROVE  RedistributesOrBurns(w, w2, a)
<1>1. \A b \in Addr : w2[b].balance = w1[b].balance
  BY DEF SameBalances
<1>2. CASE SameBalances(w, w1)
  <2>1. SameBalances(w, w2)
    BY <1>1, <1>2 DEF SameBalances
  <2> QED
    BY <2>1 DEF Redistributes, RedistributesOrBurns
<1>3. ASSUME NEW x \in Addr, NEW y \in Addr, NEW v \in Nat, MovesBalance(w, w1, x, y, v)
      PROVE  RedistributesOrBurns(w, w2, a)
  <2>1. MovesBalance(w, w2, x, y, v)
    BY <1>1, <1>3 DEF MovesBalance
  <2> QED
    BY <2>1 DEF Redistributes, RedistributesOrBurns
<1>4. CASE BurnsBalance(w, w1, a)
  <2>1. BurnsBalance(w, w2, a)
    BY <1>1, <1>4 DEF BurnsBalance
  <2> QED
    BY <2>1 DEF RedistributesOrBurns
<1> QED
  BY <1>2, <1>3, <1>4 DEF Redistributes, RedistributesOrBurns

LEMMA RedistributesBefore ==
    ASSUME NEW w, NEW w1, SameBalances(w, w1), NEW a, NEW w2, RedistributesOrBurns(w1, w2, a)
    PROVE  RedistributesOrBurns(w, w2, a)
<1>1. CASE Redistributes(w1, w2)
  BY <1>1, RedistributesAfter DEF RedistributesOrBurns
<1>2. CASE BurnsBalance(w1, w2, a)
  BY <1>2 DEF RedistributesOrBurns, BurnsBalance, SameBalances
<1> QED
  BY <1>1, <1>2 DEF RedistributesOrBurns

LEMMA TouchedBalances ==
    ASSUME NEW w \in Worlds, NEW a \in Addr
    PROVE  SameBalances(w, TouchedWorld(w, a))
<1> DEFINE p == [w[a] EXCEPT !.exists = TRUE, !.erase_if_empty = TRUE]
<1>1. p.balance = w[a].balance
  BY DEF Worlds, Observation
<1> HIDE DEF p
<1>2. TouchedWorld(w, a) = [w EXCEPT ![a] = p] \/ TouchedWorld(w, a) = w
  BY DEF TouchedWorld, p
<1> QED
  BY <1>1, <1>2 DEF Worlds, SameBalances

(* A transfer the sender can pay for. *)
LEMMA TransferStep ==
    ASSUME NEW s, Good(s), NEW x, Writable(s, x), NEW y, Writable(s, y),
           NEW value \in Nat, World(s)[x].balance >= value
    PROVE  /\ Extends(s, Transfer(s, x, y, value)) /\ Good(Transfer(s, x, y, value))
           /\ Redistributes(World(s), World(Transfer(s, x, y, value)))
<1> DEFINE u == JournalBalanceChange(JournalBalanceChange(s, x), y)
           c == s.modified[x].balance - value
           bx == IF x = y THEN c + value ELSE c
           by == IF x = y THEN c + value ELSE s.modified[y].balance + value
           m == TwoBalances(s.modified, x, y, bx, by)
           t == Transfer(s, x, y, value)
<1>1. StateOK(s) /\ x \in Addr /\ y \in Addr /\ s.modified[x].loaded
  BY DEF Good, Writable
<1>2. /\ s.modified[x] \in Account /\ s.modified[y] \in Account
      /\ s.initial[x] \in ViewAccount
  BY <1>1, StateFields
<1>3. World(s)[x].balance = s.modified[x].balance
  <2>1. World(s)[x] = Observed(s.modified[x], s.initial[x])
    BY <1>1, WorldAt
  <2>2. Shows(Observed(s.modified[x], s.initial[x]), s.modified[x], s.initial[x])
    BY <1>1, <1>2, AccountRaw, ObservedShows
  <2> QED
    BY <2>1, <2>2 DEF Shows
<1>4. s.modified[x].balance \in Nat /\ s.modified[y].balance \in Nat
  BY <1>2 DEF Account
<1>5. bx \in Nat /\ by \in Nat
  BY <1>3, <1>4
<1>6. u.modified = s.modified /\ IsRecord(u)
  BY <1>1, JournaledBalances
<1>7. t = MoveBalances(u, x, y, c, value)
  BY <1>6 DEF Transfer, MoveBalances
<1>8. t = [u EXCEPT !.modified = m]
  <2>1. m = Moved(s.modified, x, y, c, value)
    BY DEF Moved
  <2> HIDE DEF u, t, c, m
  <2>2. MoveBalances(u, x, y, c, value)
          = [u EXCEPT !.modified = Moved(s.modified, x, y, c, value)]
    BY <1>1, <1>6, BalancesMoved
  <2> QED
    BY ONLY <1>7, <2>1, <2>2
<1> HIDE DEF t
<1>m. /\ bx = IF x = y THEN c + value ELSE c
      /\ by = IF x = y THEN c + value ELSE s.modified[y].balance + value
      /\ c = s.modified[x].balance - value
  OBVIOUS
<1> HIDE DEF bx, by, c
<1>9. Rebalanced(s, t, x, y, bx, by)
  BY <1>1, <1>8, RebalancedForm
<1>10. Extends(s, t) /\ Good(t)
  BY <1>5, <1>9, RebalancedStep
<1>11. \A b \in Addr : World(t)[b].balance = IF b = y THEN by ELSE IF b = x THEN bx
                                             ELSE World(s)[b].balance
  BY <1>5, <1>9, <1>10, RebalancedBalances
<1>12. World(s)[y].balance = s.modified[y].balance
  BY <1>1, WorldShows DEF Writable, Shows
<1>13. MovesBalance(World(s), World(t), x, y, value)
  <2>1. value <= World(s)[x].balance
    BY <1>3, <1>4
  <2>2. ASSUME NEW b \in Addr
        PROVE  World(t)[b].balance = IF x = y THEN World(s)[b].balance
                                     ELSE IF b = x THEN World(s)[b].balance - value
                                     ELSE IF b = y THEN World(s)[b].balance + value
                                     ELSE World(s)[b].balance
    <3>1. World(t)[b].balance = IF b = y THEN by ELSE IF b = x THEN bx
                                ELSE World(s)[b].balance
      BY <1>11
    <3> QED
      BY <1>3, <1>4, <1>m, <1>12, <3>1
  <2> QED
    BY <2>1, <2>2 DEF MovesBalance
<1>14. Redistributes(World(s), World(t))
  BY <1>1, <1>13 DEF Redistributes
<1> QED
  BY <1>10, <1>14 DEF t

LEMMA StaysWritable ==
    ASSUME NEW s, Good(s), NEW t, Extends(s, t), NEW a, Writable(s, a)
    PROVE  Writable(t, a)
<1>1. StateOK(s) /\ a \in Addr
  BY DEF Good, Writable
<1>2. Grows(World(s), World(t)) /\ KeepsLoaded(s.modified[a], t.modified[a])
  BY <1>1, ExtendsFacts
<1> QED
  BY <1>1, <1>2 DEF Writable, Grows, Growth, KeepsLoaded

(* The balances that selfdestruct() leaves, whoever the beneficiary is. *)
LEMMA SelfdestructBalancesStep ==
    ASSUME NEW s, Good(s), NEW a, Writable(s, a), NEW b, Writable(s, b),
           NEW u, u = JournalBalanceChange(JournalBalanceChange(s, b), a)
    PROVE  /\ Extends(s, SelfdestructBalances(u, a, b)) /\ Good(SelfdestructBalances(u, a, b))
           /\ RedistributesOrBurns(World(s), World(SelfdestructBalances(u, a, b)), a)
<1> DEFINE m == s.modified
           balance == m[a].balance
           t == SelfdestructBalances(u, a, b)
<1>1. StateOK(s) /\ a \in Addr /\ b \in Addr
  BY DEF Good, Writable
<1>2. m \in [Addr -> Account] /\ m[a] \in Account /\ m[b] \in Account
  BY <1>1, StateFields
<1>3. m[a].balance \in Nat /\ m[b].balance \in Nat /\ 0 \in Nat
  BY <1>2 DEF Account
<1>4. u.modified = m /\ IsRecord(u)
  BY <1>1, JournaledBalances
<1>5. ASSUME NEW bb \in Nat, NEW ba \in Nat,
             t = [u EXCEPT !.modified = TwoBalances(m, b, a, bb, ba)]
      PROVE  /\ Extends(s, t) /\ Good(t)
             /\ \A d \in Addr : World(t)[d].balance = IF d = a THEN ba ELSE IF d = b THEN bb
                                                     ELSE World(s)[d].balance
  <2>1. Rebalanced(s, [u EXCEPT !.modified = TwoBalances(m, b, a, bb, ba)], b, a, bb, ba)
    BY <1>1, RebalancedForm
  <2> HIDE DEF t
  <2>2. Rebalanced(s, t, b, a, bb, ba)
    BY <1>5, <2>1
  <2>3. Extends(s, t) /\ Good(t)
    BY <2>2, RebalancedStep
  <2> QED
    BY <2>2, <2>3, RebalancedBalances
<1>w. World(s)[a].balance = balance /\ World(s)[b].balance = m[b].balance
  BY <1>1, WorldShows DEF Writable, Shows
<1>6. CASE Rev >= CANCUN /\ ~m[a].just_created
  <2> DEFINE ba == IF a = b THEN 0 + balance ELSE 0
             bb == IF a = b THEN 0 + balance ELSE m[b].balance + balance
  <2>1. t = MoveBalances(u, a, b, 0, balance)
    BY <1>4, <1>6 DEF SelfdestructBalances, MoveBalances
  <2>2. t = [u EXCEPT !.modified = Moved(m, a, b, 0, balance)]
    <3> HIDE DEF t, balance
    <3> QED
      BY <1>1, <1>4, <2>1, BalancesMoved
  <2>3. Moved(m, a, b, 0, balance) = TwoBalances(m, b, a, bb, ba)
    <3>1. CASE a = b
      BY <1>1, <1>2, <3>1 DEF Moved, TwoBalances
    <3>2. CASE a # b
      BY <1>1, <1>2, <3>2 DEF Moved, TwoBalances
    <3> QED
      BY <3>1, <3>2
  <2>4. ba \in Nat /\ bb \in Nat
    BY <1>3
  <2>m. /\ ba = IF a = b THEN 0 + balance ELSE 0
        /\ bb = IF a = b THEN 0 + balance ELSE m[b].balance + balance
    OBVIOUS
  <2> HIDE DEF ba, bb, t
  <2>5. t = [u EXCEPT !.modified = TwoBalances(m, b, a, bb, ba)]
    BY <2>2, <2>3
  <2>6. /\ Extends(s, t) /\ Good(t)
        /\ \A d \in Addr : World(t)[d].balance = IF d = a THEN ba ELSE IF d = b THEN bb
                                                ELSE World(s)[d].balance
    BY <1>5, <2>4, <2>5
  <2>7. MovesBalance(World(s), World(t), a, b, balance)
    <3> HIDE DEF balance
    <3>1. balance \in Nat
      BY <1>3 DEF balance
    <3>2. ASSUME NEW d \in Addr
          PROVE  World(t)[d].balance = IF a = b THEN World(s)[d].balance
                                       ELSE IF d = a THEN World(s)[d].balance - balance
                                       ELSE IF d = b THEN World(s)[d].balance + balance
                                       ELSE World(s)[d].balance
      <4>1. World(t)[d].balance = IF d = a THEN ba ELSE IF d = b THEN bb
                                  ELSE World(s)[d].balance
        BY <2>6
      <4> QED
        BY <1>3, <1>w, <2>m, <3>1, <4>1
    <3>3. balance <= World(s)[a].balance
      BY <1>w, <3>1
    <3> QED
      BY <3>2, <3>3 DEF MovesBalance
  <2>8. Redistributes(World(s), World(t))
    BY <1>1, <1>3, <2>7 DEF Redistributes
  <2> QED
    BY <2>6, <2>8 DEF t, RedistributesOrBurns
<1>7. CASE ~(Rev >= CANCUN /\ ~m[a].just_created) /\ (Rev < AMSTERDAM \/ a # b)
  <2> DEFINE bb == IF a = b THEN 0 ELSE m[b].balance + balance
  <2>1. t = [[u EXCEPT !.modified[b].balance = @ + balance] EXCEPT !.modified[a].balance = 0]
    BY <1>4, <1>7 DEF SelfdestructBalances
  <2>2. t = [u EXCEPT !.modified = TwoBalances(m, b, a, bb, 0)]
    <3>1. PICK i, n, j : u = [initial |-> i, modified |-> n, journal |-> j]
      BY <1>4 DEF IsRecord
    <3>2. n = m
      BY <1>4, <3>1
    <3> DEFINE m1 == [n EXCEPT ![b].balance = @ + balance]
               m2 == [m1 EXCEPT ![a].balance = 0]
               v == [u EXCEPT !.modified[b].balance = @ + balance]
    <3>3. v = [initial |-> i, modified |-> m1, journal |-> j]
      <4> HIDE DEF balance
      <4> QED
        BY ONLY <3>1 DEF v, m1
    <3>4. [v EXCEPT !.modified[a].balance = 0] = [initial |-> i, modified |-> m2, journal |-> j]
      <4> HIDE DEF v, m1
      <4>1. v.modified = m1
        BY <3>3
      <4>2. [v EXCEPT !.modified[a].balance = 0] = [v EXCEPT !.modified = m2]
        BY ONLY <4>1
      <4> HIDE DEF m2
      <4> QED
        BY ONLY <3>3, <4>2
    <3>5. m2 = TwoBalances(m, b, a, bb, 0)
      <4>1. CASE a = b
        BY <1>1, <1>2, <3>2, <4>1 DEF TwoBalances
      <4>2. CASE a # b
        BY <1>1, <1>2, <3>2, <4>2 DEF TwoBalances
      <4> QED
        BY <4>1, <4>2
    <3>6. t = [initial |-> i, modified |-> m2, journal |-> j]
      <4> HIDE DEF t, m2
      <4> QED
        BY ONLY <2>1, <3>4 DEF v
    <3> HIDE DEF m2, t, bb
    <3> QED
      BY ONLY <3>1, <3>5, <3>6
  <2>3. bb \in Nat
    BY <1>3
  <2>m. bb = IF a = b THEN 0 ELSE m[b].balance + balance
    OBVIOUS
  <2> HIDE DEF bb, t
  <2>4. /\ Extends(s, t) /\ Good(t)
        /\ \A d \in Addr : World(t)[d].balance = IF d = a THEN 0 ELSE IF d = b THEN bb
                                                ELSE World(s)[d].balance
    BY <1>3, <1>5, <2>2, <2>3
  <2>5. CASE a = b
    <3>1. Rev < AMSTERDAM
      BY <1>7, <2>5
    <3>2. BurnsBalance(World(s), World(t), a)
      BY <2>4, <2>5, <3>1 DEF BurnsBalance
    <3> QED
      BY <2>4, <3>2 DEF t, RedistributesOrBurns
  <2>6. CASE a # b
    <3> HIDE DEF balance
    <3>1. balance \in Nat
      BY <1>3 DEF balance
    <3>2. ASSUME NEW d \in Addr
          PROVE  World(t)[d].balance = IF a = b THEN World(s)[d].balance
                                       ELSE IF d = a THEN World(s)[d].balance - balance
                                       ELSE IF d = b THEN World(s)[d].balance + balance
                                       ELSE World(s)[d].balance
      <4>1. World(t)[d].balance = IF d = a THEN 0 ELSE IF d = b THEN bb
                                  ELSE World(s)[d].balance
        BY <2>4
      <4> QED
        BY <1>3, <1>w, <2>m, <2>6, <3>1, <4>1
    <3>3. balance <= World(s)[a].balance
      BY <1>w, <3>1
    <3>4. MovesBalance(World(s), World(t), a, b, balance)
      BY <3>2, <3>3 DEF MovesBalance
    <3>5. Redistributes(World(s), World(t))
      BY <1>1, <3>1, <3>4 DEF Redistributes
    <3> QED
      BY <2>4, <3>5 DEF t, RedistributesOrBurns
  <2> QED
    BY <2>5, <2>6
<1>8. CASE ~(Rev >= CANCUN /\ ~m[a].just_created) /\ ~(Rev < AMSTERDAM \/ a # b)
  <2>1. t = u
    BY <1>4, <1>8 DEF SelfdestructBalances
  <2>2. TwoBalances(m, b, a, m[b].balance, m[a].balance) = m
    BY <1>1, <1>2 DEF TwoBalances, Account
  <2>3. [u EXCEPT !.modified = m] = u
    BY <1>4 DEF IsRecord
  <2> HIDE DEF t
  <2>4. /\ Extends(s, t) /\ Good(t)
        /\ \A d \in Addr : World(t)[d].balance = IF d = a THEN m[a].balance
                                                ELSE IF d = b THEN m[b].balance
                                                ELSE World(s)[d].balance
    BY <1>3, <1>5, <2>1, <2>2, <2>3
  <2>5. SameBalances(World(s), World(t))
    BY <1>w, <2>4 DEF SameBalances
  <2> QED
    BY <2>4, <2>5 DEF t, RedistributesOrBurns, Redistributes
<1> QED
  BY <1>6, <1>7, <1>8

\* Account a has been created in this transaction or has code.
Contract(w, a) == w[a].just_created \/ w[a].code # NoCode

LEMMA StaysContract ==
    ASSUME NEW s, Good(s), NEW t, Extends(s, t), NEW a \in Addr, Contract(World(s), a)
    PROVE  Contract(World(t), a)
<1>1. Grows(World(s), World(t))
  BY ExtendsFacts DEF Good
<1> QED
  BY <1>1 DEF Contract, Grows, Growth

(* SELFDESTRUCT of the contract that executes. *)
LEMMA SelfdestructStep ==
    ASSUME NEW s, Good(s), NEW a, Writable(s, a), Contract(World(s), a), NEW b \in Addr
    PROVE  /\ Extends(s, Selfdestruct(s, a, b)) /\ Good(Selfdestruct(s, a, b))
           /\ RedistributesOrBurns(World(s), World(Selfdestruct(s, a, b)), a)
<1> DEFINE s1 == Touch(Get(s, a), b)
           s2 == JournalBalanceChange(JournalBalanceChange(s1, b), a)
           s3 == SelfdestructBalances(s2, a, b)
           acc == s3.modified[a]
           o == World(s3)[a]
<1>1. a \in Addr /\ s.modified[a].loaded
  BY DEF Writable
<1>2. Get(s, a) = s
  BY <1>1 DEF Get
<1>3. /\ Extends(s, s1) /\ Good(s1) /\ s1.modified[b].loaded /\ World(s1)[b].exists
  BY <1>2, TouchStep
<1>b. SameBalances(World(s), World(s1))
  BY <1>2, TouchStep, TouchedBalances DEF Good, WorldOK
<1>4. Writable(s1, a) /\ Writable(s1, b)
  BY <1>3, StaysWritable DEF Writable
<1>5. /\ Extends(s1, s3) /\ Good(s3)
      /\ RedistributesOrBurns(World(s1), World(s3), a)
  <2> HIDE DEF s1
  <2> QED
    BY <1>3, <1>4, SelfdestructBalancesStep
<1>d. Selfdestruct(s, a, b) =
        IF (Rev >= CANCUN /\ ~acc.just_created) \/ acc.destructed THEN s3
        ELSE [JournalAccountFlags(s3, a) EXCEPT !.modified[a].destructed = TRUE]
  BY DEF Selfdestruct
<1> HIDE DEF s1, s2, s3
<1>6. Extends(s, s3)
  BY <1>3, <1>5, ExtendsTransitive
<1>r. RedistributesOrBurns(World(s), World(s3), a)
  BY <1>b, <1>5, RedistributesBefore
<1>7. CASE (Rev >= CANCUN /\ ~acc.just_created) \/ acc.destructed
  BY <1>5, <1>6, <1>7, <1>d, <1>r
<1>8. CASE ~((Rev >= CANCUN /\ ~acc.just_created) \/ acc.destructed)
  <2> DEFINE acc2 == [acc EXCEPT !.destructed = TRUE]
             e == FlagsEntry(acc, a)
             t == After(s3, a, acc2, Append(s3.journal, e))
  <2>1. StateOK(s3) /\ Writable(s3, a) /\ acc.loaded /\ o.exists
    BY <1>1, <1>6, StaysWritable, <1>5 DEF Good, Writable
  <2>2. acc \in Account /\ s3.modified \in [Addr -> Account]
    BY <1>1, <2>1, StateFields
  <2>3. Shows(o, acc, s3.initial[a])
    BY <1>1, <2>1, WorldShows
  <2>4. Selfdestruct(s, a, b) = t
    <3>1. Selfdestruct(s, a, b) = [Journal(s3, e) EXCEPT !.modified[a].destructed = TRUE]
      BY <1>1, <1>8, <1>d, <2>1, FlagsForm
    <3>2. Journal(s3, e).modified = s3.modified
      BY <2>1, JournalFields
    <3>3. [Journal(s3, e) EXCEPT !.modified[a].destructed = TRUE]
            = [Journal(s3, e) EXCEPT !.modified[a] = acc2]
      BY <1>1, <2>2, <3>2
    <3> HIDE DEF e, acc2
    <3>4. [Journal(s3, e) EXCEPT !.modified[a] = acc2] = t
      BY <1>1, <2>1, WriteForm
    <3> QED
      BY <3>1, <3>3, <3>4
  <2>5. FlagsOnly(acc, acc2)
    <3>1. ~acc.nonexistent
      BY <2>1, <2>3 DEF Shows
    <3> QED
      BY <2>2, <3>1 DEF FlagsOnly, Account
  <2>6. /\ o.just_created \/ o.code # NoCode
        /\ Rev >= CANCUN => o.just_created
    <3>1. Contract(World(s3), a)
      BY <1>1, <1>6, StaysContract
    <3>2. o.just_created = acc.just_created
      BY <2>3 DEF Shows
    <3> QED
      BY <1>8, <3>1, <3>2 DEF Contract
  <2> HIDE DEF acc2
  <2>7. Revertible(s3, e, acc2)
    BY <1>1, <1>5, <2>1, <2>5, <2>6, FlagsStep
  <2>8. e \in JournalEntry /\ e.acc = a
    BY <1>1, <2>2, FlagsEntryFacts
  <2> HIDE DEF e, t
  <2>9. Extends(s3, t) /\ Good(t) /\ t.modified[a] = acc2
        /\ World(t) = [World(s3) EXCEPT ![a] = Observed(acc2, s3.initial[a])]
    BY <1>5, <2>7, <2>8, WriteStep DEF t
  <2>10. Extends(s, t)
    BY <1>6, <2>9, ExtendsTransitive
  <2>11. SameBalances(World(s3), World(t))
    <3>1. acc2.loaded /\ acc2.balance = acc.balance
      BY <2>1, <2>5 DEF FlagsOnly
    <3>2. Shows(World(t)[a], acc2, t.initial[a])
      BY <1>1, <2>9, <3>1, WorldShows DEF Good
    <3>3. World(t)[a].balance = o.balance
      BY <2>3, <3>1, <3>2 DEF Shows
    <3>4. \A d \in Addr : d # a => World(t)[d] = World(s3)[d]
      BY <1>5, <2>9 DEF Good, WorldOK, Worlds
    <3> QED
      BY <3>3, <3>4 DEF SameBalances
  <2>12. RedistributesOrBurns(World(s), World(t), a)
    BY <1>r, <2>11, RedistributesThen
  <2> QED
    BY <2>4, <2>9, <2>10, <2>12
<1> QED
  BY <1>7, <1>8

-----------------------------------------------------------------------------
(* Creating a contract. *)

\* What create() may find at the address of the new contract: nothing that a
\* rollback could not restore.
Creatable(s, a) ==
    /\ ~Collides(s, a)
    /\ ~World(s)[a].just_created
    /\ Rev < SPURIOUS_DRAGON => CreatedBy(World(s), a)

CreatedAccount(acc) ==
    [acc EXCEPT !.nonexistent = FALSE,
                !.nonce = IF Rev >= SPURIOUS_DRAGON THEN 1 ELSE @,
                !.just_created = TRUE]

CreateEntry(acc, a) ==
    IF acc.nonexistent THEN FlagsEntry(acc, a) ELSE [t |-> "create", acc |-> a]

\* A blank account, as the collision check lets through.
Blank(o, view) ==
    /\ o.nonce = 0 /\ o.code = NoCode
    /\ ~o.just_created /\ ~o.code_changed /\ ~o.destructed
    /\ view.code = NoCode /\ \A k \in Key : view.storage[k] = 0

LEMMA CreatableBlank ==
    ASSUME NEW s, Good(s), NEW a \in Addr, ~Collides(s, a), ~World(s)[a].just_created
    PROVE  Blank(World(s)[a], s.initial[a])
<1> DEFINE s1 == Get(s, a)
           acc == s1.modified[a]
           view == s1.initial[a]
           o == World(s1)[a]
<1>1. Quiet(s, s1) /\ Good(s1) /\ acc.loaded
  BY GetStep
<1>2. World(s1) = World(s) /\ s1.initial = s.initial
  BY <1>1 DEF Quiet
<1>c. acc.nonexistent \/ ~IsCreateCollision(acc)
  BY DEF Collides
<1>s. StateOK(s1)
  BY <1>1 DEF Good
<1>o. ObservationOK(o, view)
  BY <1>1 DEF Good, WorldOK
<1> HIDE DEF s1
<1>3. Shows(o, acc, view)
  BY <1>1, <1>s, WorldShows
<1>4. /\ view \in ViewAccount /\ (~view.exists => view = NoAccount)
      /\ AccountOK(acc, view)
  BY <1>s, StateFields
<1>5. ~o.just_created /\ ~o.code_changed
  BY <1>2, <1>o DEF ObservationOK, CodeOK
<1>6. o.code = NoCode /\ o.nonce = 0
  <2>1. CASE acc.nonexistent
    BY <1>3, <1>o, <2>1 DEF Shows, ObservationOK, AbsentOK
  <2>2. CASE ~IsCreateCollision(acc)
    BY <1>3, <2>2 DEF Shows, IsCreateCollision
  <2> QED
    BY <1>c, <2>1, <2>2
<1>7. view.code = NoCode
  BY <1>5, <1>6, <1>o DEF ObservationOK, CodeOK
<1>8. ~o.destructed
  BY <1>5, <1>6, <1>o DEF ObservationOK, LifeOK
<1>9. \A k \in Key : view.storage[k] = 0
  <2>1. CASE acc.nonexistent
    <3>1. ~o.exists
      BY <1>3, <2>1 DEF Shows
    <3>2. view = NoAccount
      BY <1>4, <1>o, <3>1 DEF ObservationOK, AbsentOK
    <3> QED
      BY <3>2 DEF NoAccount
  <2>2. CASE ~IsCreateCollision(acc)
    BY <1>1, <1>4, <2>2 DEF IsCreateCollision, AccountOK, LoadedOK
  <2> QED
    BY <1>c, <2>1, <2>2
<1>10. Blank(o, view)
  BY <1>5, <1>6, <1>7, <1>8, <1>9 DEF Blank
<1> QED
  BY <1>2, <1>10

LEMMA CreatedAccountFields ==
    ASSUME NEW acc \in Account, NEW acc2, acc2 = CreatedAccount(acc)
    PROVE  /\ acc2 \in Account
           /\ acc2.nonexistent = FALSE /\ acc2.just_created = TRUE
           /\ acc2.nonce = IF Rev >= SPURIOUS_DRAGON THEN 1 ELSE acc.nonce
           /\ acc2.balance = acc.balance /\ acc2.code_hash = acc.code_hash
           /\ acc2.code = acc.code /\ acc2.storage = acc.storage
           /\ acc2.transient_storage = acc.transient_storage /\ acc2.warm = acc.warm
           /\ acc2.loaded = acc.loaded /\ acc2.destructed = acc.destructed
           /\ acc2.erase_if_empty = acc.erase_if_empty
           /\ acc2.code_changed = acc.code_changed
           /\ acc2.has_initial_storage = acc.has_initial_storage
<1> DEFINE n == IF Rev >= SPURIOUS_DRAGON THEN 1 ELSE acc.nonce
<1>1. n \in Nat
  BY DEF Account
<1>2. acc2 = [acc EXCEPT !.nonexistent = FALSE, !.nonce = n, !.just_created = TRUE]
  BY DEF CreatedAccount
<1> HIDE DEF n
<1>3. /\ acc2.nonexistent = FALSE /\ acc2.just_created = TRUE /\ acc2.nonce = n
      /\ acc2.balance = acc.balance /\ acc2.code_hash = acc.code_hash
      /\ acc2.code = acc.code /\ acc2.storage = acc.storage
      /\ acc2.transient_storage = acc.transient_storage /\ acc2.warm = acc.warm
      /\ acc2.loaded = acc.loaded /\ acc2.destructed = acc.destructed
      /\ acc2.erase_if_empty = acc.erase_if_empty
      /\ acc2.code_changed = acc.code_changed
      /\ acc2.has_initial_storage = acc.has_initial_storage
  BY <1>2 DEF Account
<1>4. [acc EXCEPT !.nonce = n] \in Account
  BY <1>1 DEF Account
<1>5. acc2 = [[acc EXCEPT !.nonce = n] EXCEPT !.nonexistent = FALSE, !.just_created = TRUE]
  BY <1>2 DEF Account
<1> DEFINE m == [acc EXCEPT !.nonce = n]
<1> HIDE DEF m
<1>6. acc2 \in Account
  <2>1. m \in Account /\ acc2 = [m EXCEPT !.nonexistent = FALSE, !.just_created = TRUE]
    BY <1>4, <1>5 DEF m
  <2> QED
    BY ONLY <2>1 DEF Account
<1> QED
  BY <1>3, <1>6 DEF n

(* The account set up for the initcode is undone by its one entry. *)
LEMMA CreatedStep ==
    ASSUME NEW s, Good(s), NEW a \in Addr, s.modified[a].loaded, Creatable(s, a)
    PROVE  LET acc == s.modified[a]
           IN  /\ Revertible(s, CreateEntry(acc, a), CreatedAccount(acc))
               /\ CreateEntry(acc, a) \in JournalEntry /\ CreateEntry(acc, a).acc = a
<1> DEFINE acc == s.modified[a]
           acc2 == CreatedAccount(acc)
           e == CreateEntry(acc, a)
           view == s.initial[a]
           o == Observed(acc, view)
           o2 == Observed(acc2, view)
<1>1. StateOK(s) /\ ObservationOK(World(s)[a], view)
  BY DEF Good, WorldOK
<1>2. /\ view \in ViewAccount /\ (~view.exists => view = NoAccount)
      /\ AccountOK(acc, view) /\ acc \in Account
  BY <1>1, StateFields
<1>3. o = World(s)[a]
  BY WorldAt
<1>4. Blank(o, view)
  BY <1>3, CreatableBlank DEF Creatable
<1>c. Rev < SPURIOUS_DRAGON => CreatedBy(World(s), a)
  BY DEF Creatable
<1>l. acc.loaded
  OBVIOUS
<1> HIDE DEF acc
<1>5. /\ acc2 \in Account
      /\ acc2.nonexistent = FALSE /\ acc2.just_created = TRUE
      /\ acc2.nonce = IF Rev >= SPURIOUS_DRAGON THEN 1 ELSE acc.nonce
      /\ acc2.balance = acc.balance /\ acc2.code_hash = acc.code_hash
      /\ acc2.code = acc.code /\ acc2.storage = acc.storage
      /\ acc2.transient_storage = acc.transient_storage /\ acc2.warm = acc.warm
      /\ acc2.loaded = acc.loaded /\ acc2.destructed = acc.destructed
      /\ acc2.erase_if_empty = acc.erase_if_empty
      /\ acc2.code_changed = acc.code_changed
      /\ acc2.has_initial_storage = acc.has_initial_storage
  BY <1>2, CreatedAccountFields
<1> HIDE DEF acc2
<1>6. AccountOK(acc2, view)
  <2>1. CacheOK(acc2, view) /\ SlotsOK(acc2, view)
    BY <1>2, <1>5 DEF AccountOK, CacheOK, SlotsOK
  <2>2. LoadedOK(acc2, view)
    BY <1>2, <1>5, <1>l DEF AccountOK, LoadedOK
  <2> QED
    BY <1>5, <2>1, <2>2 DEF AccountOK
<1>7. KeepsLoaded(acc, acc2)
  BY <1>5 DEF KeepsLoaded
<1>8. Shows(o, acc, view) /\ Shows(o2, acc2, view)
  BY <1>2, <1>5, <1>l, AccountRaw, ObservedShows
<1>9. o \in Observation /\ o2 \in Observation
  BY <1>2, <1>6, ObservedType
<1>e. e \in JournalEntry /\ e.acc = a
  <2>1. CASE acc.nonexistent
    BY <1>2, <2>1, FlagsEntryFacts DEF CreateEntry
  <2>2. CASE ~acc.nonexistent
    BY <2>2 DEF CreateEntry, JournalEntry
  <2> QED
    BY <2>1, <2>2
<1>10. EntryOK(e, acc2) /\ o = UndoObservation(o2, e) /\ UndoExpects(o2, e, view)
  <2>1. CASE acc.nonexistent
    <3>1. e = FlagsEntry(acc, a)
      BY <2>1 DEF CreateEntry
    <3>2. FlagsChange(acc, acc2)
      BY <1>5, <2>1 DEF FlagsChange
    <3>3. ObservationOK(o, view)
      BY <1>1, <1>3
    <3> QED
      BY <1>2, <1>5, <1>6, <1>l, <3>1, <3>2, <3>3, FlagsRevert
  <2>2. CASE ~acc.nonexistent
    <3>1. e = [t |-> "create", acc |-> a]
      BY <2>2 DEF CreateEntry
    <3>2. e.t = "create" /\ Clears(e)
      BY <3>1 DEF Clears
    <3> HIDE DEF o, o2, e, view
    <3>3. o2.exists
      BY <1>5, <1>8 DEF Shows
    <3>4. EntryOK(e, acc2) /\ UndoExpects(o2, e, view)
      BY <1>5, <1>l, <3>2, <3>3 DEF EntryOK, UndoExpects
    <3>5. /\ o.exists \in BOOLEAN /\ o2.exists \in BOOLEAN /\ o.has_code \in BOOLEAN
          /\ o.just_created \in BOOLEAN /\ o.code_changed \in BOOLEAN
      BY <1>9 DEF Observation
    <3>6. o.exists /\ ~o.has_code /\ ~o.just_created /\ ~o.code_changed
      BY <1>4, <1>8, <2>2 DEF Shows, Blank
    <3>7. /\ o.exists = TRUE /\ o2.exists = TRUE /\ o.has_code = FALSE
          /\ o.just_created = FALSE /\ o.code_changed = FALSE
      BY <3>3, <3>5, <3>6
    <3>8. /\ o.balance = o2.balance /\ o.storage = o2.storage
          /\ o.warm_storage = o2.warm_storage
          /\ o.transient_storage = o2.transient_storage /\ o.warm = o2.warm
          /\ o.destructed = o2.destructed /\ o.erase_if_empty = o2.erase_if_empty
      BY <1>5, <1>8 DEF Shows
    <3>9. Reverts(o, o2, e)
      BY <1>4, <3>2, <3>7, <3>8 DEF Reverts, Blank
    <3> QED
      BY <1>9, <1>e, <3>4, <3>9, RevertsUndo
  <2> QED
    BY <2>1, <2>2
<1> HIDE DEF o, o2, e, view
<1>11. /\ o2.exists /\ o2.code = NoCode /\ ~o2.code_changed /\ ~o2.destructed
       /\ o2.just_created /\ o2.nonce = IF Rev >= SPURIOUS_DRAGON THEN 1 ELSE 0
       /\ o2.has_code <=> o2.code # NoCode
  BY <1>4, <1>5, <1>8 DEF Shows, Blank
<1>12. ObservationOK(o2, view)
  BY <1>4, <1>9, <1>11 DEF ObservationOK, AbsentOK, CodeOK, LifeOK, Blank
<1>13. Growth(o, o2)
  BY <1>4, <1>11 DEF Growth, Blank
<1>14. CreatesOK(World(s), o, o2, a)
  <2>1. Rev \in Int /\ SPURIOUS_DRAGON \in Int
    BY RevAssumption DEF Revisions, SPURIOUS_DRAGON
  <2> QED
    BY <1>11, <1>c, <2>1 DEF CreatesOK
<1>15. Revertible(s, e, acc2)
  BY <1>6, <1>7, <1>10, <1>12, <1>13, <1>14, <1>e DEF Revertible, o, o2, view, acc
<1> QED
  BY <1>15, <1>e DEF e, acc2, acc

\* s3 is s with the new contract at a set up, by one entry, for its initcode.
SetUp(s, s3, a) ==
    /\ Extends(s, s3) /\ Good(s3)
    /\ Len(s3.journal) = Len(s.journal) + 1
    /\ Clears(s3.journal[Len(s3.journal)]) /\ s3.journal[Len(s3.journal)].acc = a
    /\ Writable(s3, a) /\ World(s3)[a].just_created
    /\ SameBalances(World(s), World(s3))

\* The first part of NewContract().
SetUpContract(s, a) ==
    LET s1 == GetOrCreate(s, a)
        s2 == IF Get(s, a).modified[a].nonexistent THEN s1
              ELSE JournalCreate(s1, a)
    IN  [s2 EXCEPT !.modified[a].nonce = IF Rev >= SPURIOUS_DRAGON THEN 1 ELSE @,
                   !.modified[a].just_created = TRUE]

LEMMA SetUpForm ==
    ASSUME NEW g, StateOK(g), NEW a \in Addr, g.modified[a].loaded,
           NEW acc, acc = g.modified[a]
    PROVE  SetUpContract(g, a)
             = After(g, a, CreatedAccount(acc), Append(g.journal, CreateEntry(acc, a)))
<1> DEFINE e == CreateEntry(acc, a)
           acc2 == CreatedAccount(acc)
           t == SetUpContract(g, a)
<1>1. /\ acc \in Account /\ g.modified \in [Addr -> Account]
  BY StateFields
<1>2. Get(g, a) = g
  BY DEF Get
<1>3. IsRecord(g)
  BY StateFields DEF IsRecord
<1>4. IsRecord(Journal(g, e)) /\ Journal(g, e).modified = g.modified
  BY <1>3, JournalRecord
<1>5. [Journal(g, e) EXCEPT !.modified[a] = acc2] = After(g, a, acc2, Append(g.journal, e))
  <2> HIDE DEF e, acc2
  <2> QED
    BY WriteForm
<1>6. CASE acc.nonexistent
  <2>1. e = FlagsEntry(acc, a)
    BY <1>6 DEF CreateEntry
  <2>2. GetOrCreate(g, a) = [Journal(g, e) EXCEPT !.modified[a].nonexistent = FALSE]
    BY <1>2, <1>6, <2>1, FlagsForm DEF GetOrCreate
  <2>3. t = [[Journal(g, e) EXCEPT !.modified[a].nonexistent = FALSE]
                EXCEPT !.modified[a].nonce = IF Rev >= SPURIOUS_DRAGON THEN 1 ELSE @,
                       !.modified[a].just_created = TRUE]
    BY <1>2, <1>6, <2>2 DEF SetUpContract
  <2> DEFINE v == Journal(g, e)
             old == [acc EXCEPT !.nonexistent = FALSE]
             v1 == [v EXCEPT !.modified[a].nonexistent = FALSE]
  <2>4. v.modified = g.modified /\ v1 = [v EXCEPT !.modified = [g.modified EXCEPT ![a] = old]]
    <3>1. v.modified = g.modified
      BY <1>4
    <3> HIDE DEF v
    <3> QED
      BY <1>1, <3>1
  <2>5. IsRecord(v)
    BY <1>4
  <2>6. t = [v1 EXCEPT !.modified[a].nonce = IF Rev >= SPURIOUS_DRAGON THEN 1 ELSE @,
                       !.modified[a].just_created = TRUE]
    BY <2>3
  <2>7. acc2 = [old EXCEPT !.nonce = IF Rev >= SPURIOUS_DRAGON THEN 1 ELSE @,
                           !.just_created = TRUE]
    BY <1>1 DEF CreatedAccount, Account
  <2> HIDE DEF v, v1, old, acc2, t
  <2>8. PICK i, n, j : v = [initial |-> i, modified |-> n, journal |-> j]
    BY <2>5 DEF IsRecord
  <2>9. v1 = [initial |-> i, modified |-> [g.modified EXCEPT ![a] = old], journal |-> j]
    BY ONLY <2>4, <2>8
  <2>10. t = [initial |-> i, modified |-> [g.modified EXCEPT ![a] = acc2], journal |-> j]
    BY <1>1, <2>6, <2>7, <2>9
  <2>11. [v EXCEPT !.modified[a] = acc2]
           = [initial |-> i, modified |-> [g.modified EXCEPT ![a] = acc2], journal |-> j]
    BY ONLY <2>4, <2>8
  <2> QED
    BY <1>5, <2>10, <2>11 DEF v, t, acc2
<1>7. CASE ~acc.nonexistent
  <2>1. e = [t |-> "create", acc |-> a]
    BY <1>7 DEF CreateEntry
  <2>2. GetOrCreate(g, a) = g
    BY <1>2, <1>7 DEF GetOrCreate
  <2>3. JournalCreate(g, a) = Journal(g, e)
    BY <2>1 DEF JournalCreate
  <2>4. t = [Journal(g, e)
                EXCEPT !.modified[a].nonce = IF Rev >= SPURIOUS_DRAGON THEN 1 ELSE @,
                       !.modified[a].just_created = TRUE]
    BY <1>2, <1>7, <2>2, <2>3 DEF SetUpContract
  <2> DEFINE v == Journal(g, e)
  <2>5. v.modified = g.modified /\ t = [v EXCEPT !.modified[a].nonce =
                                            IF Rev >= SPURIOUS_DRAGON THEN 1 ELSE @,
                                          !.modified[a].just_created = TRUE]
    BY <1>4, <2>4
  <2>6. acc2 = [acc EXCEPT !.nonce = IF Rev >= SPURIOUS_DRAGON THEN 1 ELSE @,
                           !.just_created = TRUE]
    <3>1. acc.nonexistent = FALSE
      BY <1>1, <1>7 DEF Account
    <3> QED
      BY <1>1, <3>1 DEF CreatedAccount, Account
  <2>7. IsRecord(v)
    BY <1>4
  <2> HIDE DEF v, acc2, t
  <2>8. PICK i, n, j : v = [initial |-> i, modified |-> n, journal |-> j]
    BY <2>7 DEF IsRecord
  <2>9. n = g.modified
    BY <2>5, <2>8
  <2>10. t = [initial |-> i, modified |-> [g.modified EXCEPT ![a] = acc2], journal |-> j]
    BY <1>1, <2>5, <2>6, <2>8, <2>9
  <2>11. [v EXCEPT !.modified[a] = acc2]
           = [initial |-> i, modified |-> [g.modified EXCEPT ![a] = acc2], journal |-> j]
    BY ONLY <2>8, <2>9
  <2> QED
    BY <1>5, <2>10, <2>11 DEF v, t, acc2
<1> QED
  BY <1>6, <1>7

LEMMA SetUpStep ==
    ASSUME NEW s, Good(s), NEW a \in Addr, Creatable(s, a)
    PROVE  SetUp(s, SetUpContract(s, a), a)
<1> DEFINE g == Get(s, a)
           acc == g.modified[a]
           acc2 == CreatedAccount(acc)
           e == CreateEntry(acc, a)
           t == After(g, a, acc2, Append(g.journal, e))
           o2 == Observed(acc2, g.initial[a])
<1>1. Quiet(s, g) /\ Good(g) /\ acc.loaded
  BY GetStep
<1>2. World(g) = World(s) /\ g.journal = s.journal /\ Extends(s, g) /\ StateOK(g)
  BY <1>1 DEF Quiet, Good
<1>3. Get(g, a) = g
  BY <1>1 DEF Get
<1>4. SetUpContract(s, a) = SetUpContract(g, a)
  <2>1. GetOrCreate(s, a) = GetOrCreate(g, a)
    BY <1>3 DEF GetOrCreate
  <2> QED
    BY <1>3, <2>1 DEF SetUpContract
<1>5. Creatable(g, a)
  <2>1. Collides(g, a) = Collides(s, a)
    BY <1>3 DEF Collides
  <2> QED
    BY <1>2, <2>1 DEF Creatable
<1> HIDE DEF g
<1>6. SetUpContract(g, a) = t
  BY <1>1, <1>2, SetUpForm
<1>7. Revertible(g, e, acc2) /\ e \in JournalEntry /\ e.acc = a
  BY <1>1, <1>5, CreatedStep
<1>8. acc \in Account /\ g.journal \in Seq(JournalEntry)
  BY <1>2, StateFields
<1>9. /\ acc2 \in Account /\ acc2.nonexistent = FALSE /\ acc2.just_created = TRUE
      /\ acc2.balance = acc.balance /\ acc2.loaded = acc.loaded
  BY <1>8, CreatedAccountFields
<1> HIDE DEF e, acc2, t
<1>10. /\ Extends(g, t) /\ Good(t) /\ t.modified[a] = acc2
       /\ World(t) = [World(g) EXCEPT ![a] = o2]
  BY <1>1, <1>7, WriteStep DEF t, o2
<1>11. t.journal = Append(g.journal, e)
  BY DEF t, After
<1>12. Len(t.journal) = Len(s.journal) + 1 /\ t.journal[Len(t.journal)] = e
  BY <1>2, <1>7, <1>8, <1>11, AppendProperties
<1>12a. Clears(e)
  BY <1>8, FlagsEntryFacts DEF e, CreateEntry, Clears
<1>13. Extends(s, t)
  BY <1>2, <1>10, ExtendsTransitive
<1>14. StateOK(t) /\ World(g) \in Worlds
  BY <1>1, <1>10 DEF Good, WorldOK
<1>15. Shows(World(t)[a], acc2, t.initial[a])
  BY <1>1, <1>9, <1>10, <1>14, WorldShows
<1>16. World(t)[a].exists /\ World(t)[a].just_created /\ World(t)[a].balance = acc2.balance
  BY <1>9, <1>15 DEF Shows
<1>17. World(g)[a].balance = acc.balance
  BY <1>1, <1>2, WorldShows DEF Shows
<1>18. SameBalances(World(s), World(t))
  <2> SUFFICES ASSUME NEW b \in Addr PROVE World(t)[b].balance = World(s)[b].balance
    BY DEF SameBalances
  <2>1. CASE b = a
    BY <1>2, <1>9, <1>16, <1>17, <2>1
  <2>2. CASE b # a
    BY <1>2, <1>10, <1>14, <2>2 DEF Worlds
  <2> QED
    BY <2>1, <2>2
<1>19. Writable(t, a)
  BY <1>1, <1>9, <1>10, <1>16 DEF Writable
<1> QED
  BY <1>4, <1>6, <1>7, <1>10, <1>12, <1>12a, <1>13, <1>16, <1>18, <1>19 DEF SetUp

(* NewContract() sets the contract up and then pays its endowment. *)
LEMMA NewContractStep ==
    ASSUME NEW s, Good(s), NEW a \in Addr, Creatable(s, a), NEW sender \in Addr,
           World(s)[sender].exists, NEW value \in Nat, World(s)[sender].balance >= value
    PROVE  LET s3 == SetUpContract(s, a)
               t == NewContract(s, sender, a, value)
           IN  /\ SetUp(s, s3, a) /\ Extends(s3, t) /\ Good(t)
               /\ Redistributes(World(s), World(t))
<1> DEFINE s3 == SetUpContract(s, a)
           s4 == Get(s3, sender)
           t == Transfer(s4, sender, a, value)
<1>1. SetUp(s, s3, a)
  BY SetUpStep
<1>2. NewContract(s, sender, a, value) = t
  BY DEF NewContract, SetUpContract
<1> HIDE DEF s3
<1>3. Extends(s, s3) /\ Good(s3) /\ Writable(s3, a) /\ SameBalances(World(s), World(s3))
  BY <1>1 DEF SetUp
<1>4. Quiet(s3, s4) /\ Good(s4) /\ s4.modified[sender].loaded
  BY <1>3, GetStep
<1>5. World(s4) = World(s3) /\ Extends(s3, s4)
  BY <1>4 DEF Quiet
<1>6. World(s4)[sender].exists
  <2>1. Grows(World(s), World(s3))
    BY <1>3, ExtendsFacts DEF Good
  <2> QED
    BY <1>5, <2>1 DEF Grows, Growth
<1> HIDE DEF s4
<1>7. Writable(s4, sender) /\ Writable(s4, a)
  BY <1>3, <1>4, <1>5, <1>6, StaysWritable DEF Writable
<1>8. World(s4)[sender].balance >= value
  BY <1>3, <1>5 DEF SameBalances
<1>9. Extends(s4, t) /\ Good(t) /\ Redistributes(World(s4), World(t))
  BY <1>4, <1>7, <1>8, TransferStep
<1> HIDE DEF t
<1>10. Extends(s3, t)
  BY <1>3, <1>5, <1>9, ExtendsTransitive
<1>11. Redistributes(World(s), World(t))
  <2>1. SameBalances(World(s), World(s4))
    BY <1>3, <1>5
  <2> QED
    BY <1>9, <2>1, RedistributesAfter
<1> QED
  BY <1>1, <1>2, <1>9, <1>10, <1>11 DEF s3

-----------------------------------------------------------------------------
(* The parts of calls. *)

(* The touch or transfer of a call message. *)
LEMMA CallEffectsStep ==
    ASSUME NEW s, Good(s), NEW kind, NEW sender \in Addr, NEW recipient \in Addr,
           NEW value \in Nat,
           kind = "CALL" /\ value # 0 =>
               World(s)[sender].exists /\ World(s)[sender].balance >= value
    PROVE  LET t == CallEffects(s, kind, sender, recipient, value)
           IN  Extends(s, t) /\ Good(t) /\ Redistributes(World(s), World(t))
<1>1. CASE kind # "CALL"
  <2>1. CallEffects(s, kind, sender, recipient, value) = s
    BY <1>1 DEF CallEffects
  <2>2. Redistributes(World(s), World(s))
    BY DEF Redistributes, SameBalances
  <2> QED
    BY <2>1, <2>2, ExtendsSelf
<1>2. CASE kind = "CALL" /\ value = 0
  <2>1. CallEffects(s, kind, sender, recipient, value) = Touch(s, recipient)
    BY <1>2 DEF CallEffects
  <2>2. SameBalances(World(s), World(Touch(s, recipient)))
    BY TouchStep, TouchedBalances DEF Good, WorldOK
  <2> QED
    BY <2>1, <2>2, TouchStep DEF Redistributes
<1>3. CASE kind = "CALL" /\ value # 0
  <2> DEFINE s1 == GetOrCreate(s, recipient)
             s2 == Get(s1, sender)
             t == Transfer(s2, sender, recipient, value)
  <2>1. CallEffects(s, kind, sender, recipient, value) = t
    BY <1>3 DEF CallEffects
  <2>2. /\ Extends(s, s1) /\ Good(s1) /\ s1.modified[recipient].loaded
        /\ World(s1)[recipient].exists /\ SameBalances(World(s), World(s1))
    BY GetOrCreateStep
  <2>3. World(s1)[sender].exists
    <3>1. Grows(World(s), World(s1))
      BY <2>2, ExtendsFacts DEF Good
    <3> QED
      BY <1>3, <3>1 DEF Grows, Growth
  <2> HIDE DEF s1
  <2>4. Quiet(s1, s2) /\ Good(s2) /\ s2.modified[sender].loaded
    BY <2>2, GetStep
  <2>5. World(s2) = World(s1) /\ Extends(s1, s2)
    BY <2>4 DEF Quiet
  <2>6. Writable(s1, recipient)
    BY <2>2 DEF Writable
  <2> HIDE DEF s2
  <2>7. Writable(s2, recipient) /\ Writable(s2, sender)
    BY <2>2, <2>3, <2>4, <2>5, <2>6, StaysWritable DEF Writable
  <2>8. World(s2)[sender].balance >= value
    BY <1>3, <2>2, <2>5 DEF SameBalances
  <2>9. Extends(s2, t) /\ Good(t) /\ Redistributes(World(s2), World(t))
    BY <2>4, <2>7, <2>8, TransferStep
  <2> HIDE DEF t
  <2>10. Extends(s, s2)
    BY <2>2, <2>5, ExtendsTransitive
  <2>11. Extends(s, t)
    BY <2>9, <2>10, ExtendsTransitive
  <2>12. Redistributes(World(s), World(t))
    <3>1. SameBalances(World(s), World(s2))
      BY <2>2, <2>5
    <3> QED
      BY <2>9, <3>1, RedistributesAfter
  <2> QED
    BY <2>1, <2>9, <2>11, <2>12
<1> QED
  BY <1>1, <1>2, <1>3

(* Before a call the callee is warmed and looked up. *)
LEMMA CallPrologueStep ==
    ASSUME NEW s, Good(s), NEW op, NEW dst \in Addr, NEW value
    PROVE  LET t == CallPrologue(s, op, dst, value)
           IN  /\ Extends(s, t) /\ Good(t)
               /\ Warms(World(s), World(t), dst)
<1> DEFINE s1 == AccessAccount(s, dst)
           s2 == IF Rev >= PRAGUE THEN GetCode(s1, dst) ELSE s1
           t == CallPrologue(s, op, dst, value)
<1>1. Extends(s, s1) /\ Good(s1) /\ Warms(World(s), World(s1), dst)
  BY AccessAccountStep
<1>d. t = IF op = "CALL" /\ (value # 0 \/ Rev < SPURIOUS_DRAGON) THEN Get(s2, dst) ELSE s2
  BY DEF CallPrologue
<1> HIDE DEF s1, t
<1>2. Quiet(s1, s2) /\ Good(s2)
  BY <1>1, QuietSelf, GetCodeStep
<1> HIDE DEF s2
<1>3. Quiet(s2, t) /\ Good(t)
  BY <1>2, <1>d, QuietSelf, GetStep
<1>4. Quiet(s1, t)
  BY <1>1, <1>2, <1>3, QuietTransitive
<1>5. Extends(s, t) /\ World(t) = World(s1)
  BY <1>1, <1>4, ExtendsTransitive DEF Quiet
<1> QED
  BY <1>1, <1>3, <1>5 DEF t

\* The nonce of account a has been bumped, and nothing else has changed.
Bumped(w, a) == [w EXCEPT ![a] = [w[a] EXCEPT !.nonce = w[a].nonce + 1]]

LEMMA BumpWorld ==
    ASSUME NEW s, Good(s), NEW a, Writable(s, a)
    PROVE  World(BumpNonce(s, a)) = Bumped(World(s), a)
<1> DEFINE acc == s.modified[a]
           acc2 == [acc EXCEPT !.nonce = acc.nonce + 1]
           view == s.initial[a]
           o == World(s)[a]
           o2 == Observed(acc2, view)
           p == [o EXCEPT !.nonce = o.nonce + 1]
<1>1. a \in Addr /\ acc.loaded /\ StateOK(s) /\ World(s) \in Worlds
  BY DEF Writable, Good, WorldOK
<1>2. acc \in Account /\ view \in ViewAccount
  BY <1>1, StateFields
<1>3. World(BumpNonce(s, a)) = [World(s) EXCEPT ![a] = o2]
  BY BumpNonceStep DEF Wrote
<1>4. acc.nonce + 1 \in Nat
  BY <1>2 DEF Account
<1>5. /\ acc2 \in Account /\ acc2.nonexistent = acc.nonexistent
      /\ acc2.nonce = acc.nonce + 1 /\ acc2.balance = acc.balance
      /\ acc2.code_hash = acc.code_hash /\ acc2.storage = acc.storage
      /\ acc2.transient_storage = acc.transient_storage /\ acc2.warm = acc.warm
      /\ acc2.destructed = acc.destructed /\ acc2.erase_if_empty = acc.erase_if_empty
      /\ acc2.just_created = acc.just_created /\ acc2.code_changed = acc.code_changed
      /\ acc2.loaded = acc.loaded
  BY <1>2, <1>4 DEF Account
<1>6. Shows(o, acc, view)
  BY <1>1, WorldShows
<1> HIDE DEF acc2
<1>7. Shows(o2, acc2, view) /\ o2 \in RawObservation
  BY <1>1, <1>2, <1>5, AccountRaw, ObservedShows
<1>8. o \in Observation
  BY <1>1 DEF Worlds
<1> HIDE DEF o, o2, acc
<1>9. /\ p \in RawObservation
      /\ p.exists = o.exists /\ p.nonce = o.nonce + 1 /\ p.balance = o.balance
      /\ p.code = o.code /\ p.has_code = o.has_code /\ p.storage = o.storage
      /\ p.warm_storage = o.warm_storage
      /\ p.transient_storage = o.transient_storage /\ p.warm = o.warm
      /\ p.destructed = o.destructed /\ p.erase_if_empty = o.erase_if_empty
      /\ p.just_created = o.just_created /\ p.code_changed = o.code_changed
  BY <1>8 DEF Observation, RawObservation
<1> HIDE DEF p
<1>10. /\ o2.exists = p.exists /\ o2.nonce = p.nonce /\ o2.balance = p.balance
       /\ o2.code = p.code /\ o2.has_code = p.has_code /\ o2.storage = p.storage
       /\ o2.warm_storage = p.warm_storage
       /\ o2.transient_storage = p.transient_storage /\ o2.warm = p.warm
       /\ o2.destructed = p.destructed /\ o2.erase_if_empty = p.erase_if_empty
       /\ o2.just_created = p.just_created /\ o2.code_changed = p.code_changed
  BY <1>5, <1>6, <1>7, <1>9 DEF Shows
<1>11. o2 = p
  BY <1>7, <1>9, <1>10, ObservationEqual
<1> QED
  BY <1>3, <1>11 DEF Bumped, p, o

\* What the prologue of a creation does to the world.
Prepares(w, w2, a, sender) == \E w1 : Warms(w, w1, a) /\ w2 = Bumped(w1, sender)

LEMMA CreatePrologueStep ==
    ASSUME NEW s, Good(s), NEW sender, Writable(s, sender), NEW a \in Addr
    PROVE  LET t == CreatePrologue(s, sender, a)
           IN  /\ Extends(s, t) /\ Good(t)
               /\ Prepares(World(s), World(t), a, sender)
<1> DEFINE s1 == AccessAccount(s, a)
           s2 == IF Rev >= AMSTERDAM THEN Get(s1, a) ELSE s1
           t == BumpNonce(s2, sender)
<1>1. Extends(s, s1) /\ Good(s1) /\ Warms(World(s), World(s1), a)
  BY AccessAccountStep
<1>d. CreatePrologue(s, sender, a) = t
  BY DEF CreatePrologue
<1> HIDE DEF s1
<1>2. Quiet(s1, s2) /\ Good(s2)
  BY <1>1, QuietSelf, GetStep
<1> HIDE DEF s2
<1>3. Extends(s, s2) /\ World(s2) = World(s1)
  BY <1>1, <1>2, ExtendsTransitive DEF Quiet
<1>4. Writable(s2, sender)
  BY <1>3, StaysWritable
<1>5. Extends(s2, t) /\ Good(t)
  BY <1>2, <1>4, BumpNonceStep DEF Wrote
<1>6. World(t) = Bumped(World(s1), sender)
  BY <1>2, <1>3, <1>4, BumpWorld
<1> HIDE DEF t
<1>7. Extends(s, t)
  BY <1>3, <1>5, ExtendsTransitive
<1>8. Prepares(World(s), World(t), a, sender)
  BY <1>1, <1>6 DEF Prepares
<1> QED
  BY <1>5, <1>7, <1>8, <1>d

\* What the prologue of a creation leaves as it was.
LEMMA PreparedWorld ==
    ASSUME NEW w \in Worlds, NEW w2, NEW a \in Addr, NEW sender \in Addr,
           Prepares(w, w2, a, sender)
    PROVE  /\ \A b \in Addr : /\ w2[b].just_created = w[b].just_created
                              /\ w2[b].balance = w[b].balance
           /\ w2[sender].nonce = w[sender].nonce + 1
<1>1. PICK w1 : Warms(w, w1, a) /\ w2 = Bumped(w1, sender)
  BY DEF Prepares
<1>2. /\ w1 \in Worlds
      /\ \A b \in Addr : /\ w1[b].just_created = w[b].just_created
                         /\ w1[b].balance = w[b].balance /\ w1[b].nonce = w[b].nonce
  <2>1. CASE w1 = w
    BY <2>1
  <2>2. CASE w1 = [w EXCEPT ![a] = [w[a] EXCEPT !.warm = TRUE]]
    <3>1. [w[a] EXCEPT !.warm = TRUE] \in Observation
      BY DEF Worlds, Observation
    <3>2. /\ [w[a] EXCEPT !.warm = TRUE].just_created = w[a].just_created
          /\ [w[a] EXCEPT !.warm = TRUE].balance = w[a].balance
          /\ [w[a] EXCEPT !.warm = TRUE].nonce = w[a].nonce
      BY DEF Worlds, Observation
    <3> DEFINE q == [w[a] EXCEPT !.warm = TRUE]
    <3> HIDE DEF q
    <3>3. w1 = [w EXCEPT ![a] = q]
      BY <2>2 DEF q
    <3>4. w1 \in Worlds
      BY <3>1, <3>3 DEF Worlds, q
    <3> QED
      BY <3>2, <3>3, <3>4 DEF Worlds, q
  <2> QED
    BY <1>1, <2>1, <2>2 DEF Warms
<1> DEFINE q == [w1[sender] EXCEPT !.nonce = w1[sender].nonce + 1]
<1>3. /\ q.just_created = w1[sender].just_created /\ q.balance = w1[sender].balance
      /\ q.nonce = w1[sender].nonce + 1
  BY <1>2 DEF Worlds, Observation
<1> HIDE DEF q
<1>4. w2 = [w1 EXCEPT ![sender] = q]
  BY <1>1 DEF Bumped, q
<1>5. w2[sender] = q /\ \A b \in Addr : b # sender => w2[b] = w1[b]
  BY <1>2, <1>4 DEF Worlds
<1> QED
  BY <1>2, <1>3, <1>5

-----------------------------------------------------------------------------
(* The start and the end of a transaction: changes that are not journaled. *)

\* Account a of s changed to acc2 for good.
Amends(s, t, a, acc2) ==
    /\ Good(t)
    /\ t.initial = s.initial
    /\ t.modified[a] = acc2
    /\ \A b \in Addr : KeepsLoaded(s.modified[b], t.modified[b])
    /\ World(t) = [World(s) EXCEPT ![a] = Observed(acc2, s.initial[a])]

\* What is observed of acc2 may take the place of what is observed of a.
Amendable(s, a, acc2) ==
    LET view == s.initial[a]
        o2   == Observed(acc2, view)
    IN  /\ AccountOK(acc2, view) /\ KeepsLoaded(s.modified[a], acc2)
        /\ ObservationOK(o2, view)
        /\ Growth(World(s)[a], o2)
        /\ o2.just_created => World(s)[a].just_created

LEMMA AmendStep ==
    ASSUME NEW s, Good(s), NEW a \in Addr, NEW acc2, Amendable(s, a, acc2)
    PROVE  Amends(s, After(s, a, acc2, s.journal), a, acc2)
<1> DEFINE t == After(s, a, acc2, s.journal)
           o2 == Observed(acc2, s.initial[a])
<1>1. StateOK(s) /\ s.journal \in Seq(JournalEntry) /\ WorldOK(World(s), s.initial)
  BY StateFields DEF Good
<1>2. AccountOK(acc2, s.initial[a]) /\ KeepsLoaded(s.modified[a], acc2)
  BY DEF Amendable
<1>3. IsAfter(t, s, a, acc2, s.journal)
  BY <1>1, <1>2, AfterFields
<1>4. World(t) = [World(s) EXCEPT ![a] = o2]
  BY <1>3, AfterWorld
<1>5. StateOK(t) /\ \A b \in Addr : KeepsLoaded(s.modified[b], t.modified[b])
  BY <1>1, <1>2, AfterOK
<1>6. CreatesOK(World(s), World(s)[a], o2, a)
  BY DEF CreatesOK, Amendable
<1>7. WorldOK(World(t), s.initial)
  BY <1>1, <1>4, <1>6, GrownWorld DEF Amendable
<1> QED
  BY <1>3, <1>4, <1>5, <1>7 DEF Amends, IsAfter, Good

\* The values of the accounts are the same, though more may be warm.
SameValues(w, w2) ==
    \A b \in Addr : /\ w2[b].exists = w[b].exists /\ w2[b].nonce = w[b].nonce
                    /\ w2[b].balance = w[b].balance
                    /\ w2[b].just_created = w[b].just_created

\* What the prologue of a transaction keeps.
Prologues(s, t) ==
    /\ Good(t) /\ t.initial = s.initial
    /\ \A b \in Addr : KeepsLoaded(s.modified[b], t.modified[b])
    /\ SameValues(World(s), World(t))

LEMMA ProloguesTransitive ==
    ASSUME NEW s, NEW t, Prologues(s, t), NEW u, Prologues(t, u)
    PROVE  Prologues(s, u)
<1>1. \A b \in Addr : KeepsLoaded(s.modified[b], u.modified[b])
  BY DEF Prologues, KeepsLoaded
<1>2. SameValues(World(s), World(u))
  BY DEF Prologues, SameValues
<1> QED
  BY <1>1, <1>2 DEF Prologues

LEMMA QuietPrologues ==
    ASSUME NEW s, Good(s), NEW t, Quiet(s, t), Good(t)
    PROVE  Prologues(s, t)
  BY DEF Quiet, Extends, Prologues, SameValues

LEMMA AccessAccountPrologues ==
    ASSUME NEW s, Good(s), NEW a \in Addr
    PROVE  Prologues(s, AccessAccount(s, a))
<1> DEFINE t == AccessAccount(s, a)
           w == World(s)
           q == [w[a] EXCEPT !.warm = TRUE]
<1>1. Extends(s, t) /\ Good(t) /\ Warms(w, World(t), a)
  BY AccessAccountStep
<1>2. w \in Worlds
  BY DEF Good, WorldOK
<1>3. /\ q.exists = w[a].exists /\ q.nonce = w[a].nonce /\ q.balance = w[a].balance
      /\ q.just_created = w[a].just_created
  BY <1>2 DEF Worlds, Observation
<1> HIDE DEF t, q, w
<1>4. SameValues(w, World(t))
  <2>1. CASE World(t) = w
    BY <2>1 DEF SameValues
  <2>2. CASE World(t) = [w EXCEPT ![a] = q]
    BY <1>2, <1>3, <2>2 DEF SameValues, Worlds
  <2> QED
    BY <1>1, <2>1, <2>2 DEF Warms, q
<1> QED
  BY <1>1, <1>4 DEF Prologues, Extends, t, w

\* The account acc with the slots in keys warm.
WarmSlots(acc, keys) ==
    [acc EXCEPT !.storage = [k \in Key |-> IF k \in keys
                                           THEN [acc.storage[k] EXCEPT !.warm = TRUE]
                                           ELSE acc.storage[k]]]

LEMMA WarmSlotsStep ==
    ASSUME NEW view \in ViewAccount, ~view.exists => view = NoAccount,
           NEW acc, AccountOK(acc, view), ObservationOK(Observed(acc, view), view), NEW keys
    PROVE  LET acc2 == WarmSlots(acc, keys)
               o == Observed(acc, view)
               o2 == Observed(acc2, view)
           IN  /\ AccountOK(acc2, view) /\ KeepsLoaded(acc, acc2)
               /\ ObservationOK(o2, view)
               /\ o2.exists = o.exists /\ o2.nonce = o.nonce /\ o2.balance = o.balance
               /\ o2.just_created = o.just_created
<1> DEFINE st == [k \in Key |-> IF k \in keys THEN [acc.storage[k] EXCEPT !.warm = TRUE]
                                ELSE acc.storage[k]]
           acc2 == [acc EXCEPT !.storage = st]
           o == Observed(acc, view)
           o2 == Observed(acc2, view)
<1>1. acc \in Account
  BY DEF AccountOK
<1>2. WarmSlots(acc, keys) = acc2
  BY <1>1 DEF WarmSlots, Account
<1>3. ASSUME NEW k \in Key
      PROVE  /\ st[k] \in StorageValue
             /\ st[k].loaded = acc.storage[k].loaded
             /\ st[k].current = acc.storage[k].current
             /\ st[k].original = acc.storage[k].original
  <2>1. acc.storage[k] \in StorageValue
    BY <1>1 DEF Account
  <2> QED
    BY <2>1 DEF StorageValue
<1>4. st \in [Key -> StorageValue]
  BY <1>3
<1> HIDE DEF st
<1>5. /\ acc2 \in Account /\ acc2.storage = st
      /\ acc2.code = acc.code /\ acc2.code_hash = acc.code_hash
      /\ acc2.code_changed = acc.code_changed /\ acc2.loaded = acc.loaded
      /\ acc2.has_initial_storage = acc.has_initial_storage
      /\ acc2.nonexistent = acc.nonexistent /\ acc2.nonce = acc.nonce
      /\ acc2.balance = acc.balance /\ acc2.transient_storage = acc.transient_storage
      /\ acc2.warm = acc.warm /\ acc2.destructed = acc.destructed
      /\ acc2.erase_if_empty = acc.erase_if_empty
      /\ acc2.just_created = acc.just_created
  BY <1>1, <1>4 DEF Account
<1> HIDE DEF acc2
<1>6. AccountOK(acc2, view)
  <2>1. CacheOK(acc2, view) /\ LoadedOK(acc2, view)
    <3>1. ~acc.loaded => \A k \in Key : acc2.storage[k].current = acc2.storage[k].original
      BY <1>3, <1>5 DEF AccountOK, LoadedOK
    <3> QED
      BY <1>5, <3>1 DEF AccountOK, CacheOK, LoadedOK
  <2>2. SlotsOK(acc2, view)
    BY <1>3, <1>5 DEF AccountOK, SlotsOK
  <2> QED
    BY <1>5, <2>1, <2>2 DEF AccountOK
<1>7. KeepsLoaded(acc, acc2)
  BY <1>3, <1>5 DEF KeepsLoaded
<1>8. o \in Observation /\ o2 \in Observation
  BY <1>6, ObservedType
<1>s. [k \in Key |-> IF acc2.storage[k].loaded THEN acc2.storage[k].current ELSE view.storage[k]]
        = [k \in Key |-> IF acc.storage[k].loaded THEN acc.storage[k].current ELSE view.storage[k]]
  BY <1>3, <1>5
<1>9. /\ o2.exists = o.exists /\ o2.nonce = o.nonce /\ o2.balance = o.balance
      /\ o2.code = o.code /\ o2.has_code = o.has_code /\ o2.storage = o.storage
      /\ o2.destructed = o.destructed /\ o2.erase_if_empty = o.erase_if_empty
      /\ o2.just_created = o.just_created /\ o2.code_changed = o.code_changed
  <2>1. CASE acc.loaded
    <3>1. Shows(o, acc, view) /\ Shows(o2, acc2, view)
      BY <1>1, <1>5, <2>1, AccountRaw, ObservedShows
    <3> HIDE DEF o, o2
    <3>2. o2.storage = o.storage
      BY <1>s, <3>1 DEF Shows
    <3> QED
      BY <1>5, <3>1, <3>2 DEF Shows
  <2>2. CASE ~acc.loaded
    <3>1. /\ o.exists = view.exists
          /\ o.nonce = view.nonce /\ o.balance = view.balance
          /\ o.code = view.code
          /\ o.has_code = (view.code # NoCode)
          /\ o.storage = [k \in Key |-> IF acc.storage[k].loaded
                                THEN acc.storage[k].current ELSE view.storage[k]]
          /\ ~o.destructed /\ ~o.erase_if_empty
          /\ ~o.just_created /\ ~o.code_changed
      BY <2>2, ObservedUnloaded
    <3>2. /\ o2.exists = view.exists
          /\ o2.nonce = view.nonce /\ o2.balance = view.balance
          /\ o2.code = view.code
          /\ o2.has_code = (view.code # NoCode)
          /\ o2.storage = [k \in Key |-> IF acc2.storage[k].loaded
                                THEN acc2.storage[k].current ELSE view.storage[k]]
          /\ ~o2.destructed /\ ~o2.erase_if_empty
          /\ ~o2.just_created /\ ~o2.code_changed
      BY <1>5, <1>6, <2>2, ObservedUnloaded
    <3> HIDE DEF o, o2
    <3>3. o2.storage = o.storage
      BY <1>s, <3>1, <3>2
    <3>4. /\ o.destructed \in BOOLEAN /\ o.erase_if_empty \in BOOLEAN
          /\ o.just_created \in BOOLEAN /\ o.code_changed \in BOOLEAN
          /\ o2.destructed \in BOOLEAN /\ o2.erase_if_empty \in BOOLEAN
          /\ o2.just_created \in BOOLEAN /\ o2.code_changed \in BOOLEAN
      BY <1>8 DEF Observation
    <3>5. /\ o2.destructed = o.destructed /\ o2.erase_if_empty = o.erase_if_empty
          /\ o2.just_created = o.just_created /\ o2.code_changed = o.code_changed
      BY <3>1, <3>2, <3>4
    <3> QED
      BY <3>1, <3>2, <3>3, <3>5
  <2> QED
    BY <2>1, <2>2
<1>o. ObservationOK(o, view)
  OBVIOUS
<1> HIDE DEF o, o2
<1>10. ObservationOK(o2, view)
  BY <1>8, <1>9, <1>o DEF ObservationOK, AbsentOK, CodeOK, LifeOK
<1> QED
  BY <1>2, <1>6, <1>7, <1>9, <1>10 DEF o, o2

LEMMA WarmStoragePrologues ==
    ASSUME NEW s, Good(s), NEW keys
    PROVE  Prologues(s, WarmStorage(s, keys))
<1> DEFINE t == WarmStorage(s, keys)
           of(a) == {k \in Key : <<a, k>> \in keys}
<1>1. StateOK(s) /\ WorldOK(World(s), s.initial) /\ s \in StateType
  BY DEF Good, StateOK
<1>2. s.modified \in [Addr -> Account] /\ IsRecord(s) /\ s.journal \in Seq(JournalEntry)
  BY <1>1, StateFields DEF IsRecord
<1> DEFINE m == [a \in Addr |->
           [s.modified[a] EXCEPT !.storage = [k \in Key |->
            IF <<a, k>> \in keys THEN [s.modified[a].storage[k] EXCEPT !.warm = TRUE]
            ELSE s.modified[a].storage[k]]]]
<1>m. t = [s EXCEPT !.modified = m]
  BY DEF WarmStorage
<1>t. /\ t.initial = s.initial /\ t.journal = s.journal /\ t.modified = m
      /\ IsRecord(t)
  <2> HIDE DEF m
  <2>1. PICK i, n, j : s = [initial |-> i, modified |-> n, journal |-> j]
    BY <1>2 DEF IsRecord
  <2>2. t = [initial |-> i, modified |-> m, journal |-> j]
    BY ONLY <1>m, <2>1
  <2> HIDE DEF t
  <2> QED
    BY ONLY <2>1, <2>2 DEF IsRecord
<1>3. t.initial = s.initial /\ t.journal = s.journal
  BY <1>t
<1>4. ASSUME NEW a \in Addr PROVE t.modified[a] = WarmSlots(s.modified[a], of(a))
  <2>1. m[a] = WarmSlots(s.modified[a], of(a))
    BY DEF WarmSlots
  <2> HIDE DEF t
  <2> QED
    BY <1>t, <2>1
<1> HIDE DEF t, of, m
<1>5. ASSUME NEW a \in Addr
      PROVE  LET view == s.initial[a]
                 acc == s.modified[a]
                 acc2 == t.modified[a]
                 o == World(s)[a]
                 o2 == World(t)[a]
             IN  /\ AccountOK(acc2, view) /\ KeepsLoaded(acc, acc2)
                 /\ ObservationOK(o2, view)
                 /\ o2.exists = o.exists /\ o2.nonce = o.nonce /\ o2.balance = o.balance
                 /\ o2.just_created = o.just_created
  <2>1. /\ s.initial[a] \in ViewAccount /\ AccountOK(s.modified[a], s.initial[a])
        /\ ~s.initial[a].exists => s.initial[a] = NoAccount
    BY <1>1, StateFields
  <2>2. /\ World(s)[a] = Observed(s.modified[a], s.initial[a])
        /\ World(t)[a] = Observed(t.modified[a], s.initial[a])
    BY <1>3, WorldAt
  <2>3. ObservationOK(Observed(s.modified[a], s.initial[a]), s.initial[a])
    BY <1>1, <2>2 DEF WorldOK
  <2> QED
    BY <1>4, <2>1, <2>2, <2>3, WarmSlotsStep
<1>6. t.modified \in [Addr -> Account]
  <2>1. \A a \in Addr : t.modified[a] \in Account
    BY <1>5 DEF AccountOK
  <2> QED
    BY <1>t, <2>1 DEF m
<1>7. \A a \in Addr : KeepsLoaded(s.modified[a], t.modified[a])
  BY <1>5
<1>8. StateOK(t)
  <2>1. t \in StateType
    <3>1. s.initial \in [Addr -> ViewAccount]
      BY <1>1, StateFields
    <3> QED
      BY <1>2, <1>3, <1>6, <1>t, <3>1 DEF StateType, IsRecord
  <2>2. ASSUME NEW i \in 1..Len(t.journal)
        PROVE  EntryOK(t.journal[i], t.modified[t.journal[i].acc])
    <3>1. EntryOK(s.journal[i], s.modified[s.journal[i].acc])
      BY <1>1, <1>3 DEF StateOK
    <3>2. s.journal[i] \in JournalEntry /\ s.journal[i].acc \in Addr
      BY <1>2, <1>3, ElementOfSeq, EntryFields
    <3> QED
      BY <1>3, <1>7, <3>1, <3>2, EntryKept
  <2> QED
    BY <1>1, <1>3, <1>5, <2>1, <2>2 DEF StateOK
<1>9. SameValues(World(s), World(t))
  BY <1>5 DEF SameValues
<1>10. WorldOK(World(t), t.initial)
  <2>1. World(t) \in Worlds /\ World(s) \in Worlds
    BY <1>1, <1>8, WorldType
  <2>2. ASSUME NEW a \in Addr PROVE CreatedOK(World(t), a)
    <3>1. CreatedOK(World(s), a)
      BY <1>1 DEF WorldOK
    <3>2. CreatedBy(World(s), a) => CreatedBy(World(t), a)
      <4>1. Grows(World(s), World(t)) \/ \A p \in DOMAIN CreateAddress :
                World(t)[p[1]].nonce = World(s)[p[1]].nonce
        BY <1>9, AddressAssumption DEF SameValues
      <4> QED
        BY <2>1, <4>1, CreatedKept DEF CreatedBy
    <3> QED
      BY <1>9, <3>1, <3>2 DEF CreatedOK, SameValues
  <2> QED
    BY <1>3, <1>5, <2>1, <2>2 DEF WorldOK
<1> QED
  BY <1>3, <1>7, <1>8, <1>9, <1>10 DEF Prologues, Good, t

\* The account of the sender once it has paid for the gas.
Buyer(acc) ==
    [acc EXCEPT !.nonexistent = FALSE,
                !.erase_if_empty = acc.erase_if_empty \/ acc.nonexistent,
                !.nonce = acc.nonce + 1,
                !.balance = acc.balance - GasLimit * GasPrice,
                !.warm = TRUE]

LEMMA CostType ==
    GasLimit * GasPrice \in Nat /\ GasPrice \in Nat
  BY FeeAssumption DEF GasPrice

\* A change of one account of a record of the three members.
LEMMA AmendForm ==
    ASSUME NEW s, StateOK(s), NEW a \in Addr, NEW acc2
    PROVE  [s EXCEPT !.modified[a] = acc2] = After(s, a, acc2, s.journal)
<1>1. IsRecord(s) /\ s.modified \in [Addr -> Account]
  BY StateFields DEF IsRecord
<1>2. PICK i, m, j : s = [initial |-> i, modified |-> m, journal |-> j]
  BY <1>1 DEF IsRecord
<1>3. [s EXCEPT !.modified[a] = acc2]
        = [initial |-> i, modified |-> [m EXCEPT ![a] = acc2], journal |-> j]
  BY ONLY <1>2
<1>4. s.initial = i /\ s.modified = m /\ s.journal = j
  BY <1>2
<1> QED
  BY <1>3, <1>4 DEF After

LEMMA BuyGasForm ==
    ASSUME NEW s, StateOK(s), NEW a \in Addr, s.modified[a].loaded
    PROVE  BuyGas(s, a) = [s EXCEPT !.modified[a] = Buyer(s.modified[a])]
<1> DEFINE acc == s.modified[a]
           cost == GasLimit * GasPrice
           old == [acc EXCEPT !.nonexistent = FALSE,
                              !.erase_if_empty = acc.erase_if_empty \/ acc.nonexistent]
           new == [old EXCEPT !.nonce = old.nonce + 1, !.balance = old.balance - cost,
                              !.warm = TRUE]
           v == GetOrInsert(s, a)
<1>1. s.modified \in [Addr -> Account] /\ acc \in Account /\ IsRecord(s)
  BY StateFields DEF IsRecord
<1>2. Get(s, a) = s
  BY DEF Get
<1>3. acc.nonexistent \in BOOLEAN /\ acc.erase_if_empty \in BOOLEAN
  BY <1>1 DEF Account
<1>4. v = [s EXCEPT !.modified[a] = old]
  <2>1. CASE acc.nonexistent
    <3>1. old = [acc EXCEPT !.nonexistent = FALSE, !.erase_if_empty = TRUE]
      BY <1>3, <2>1
    <3>2. v = [s EXCEPT !.modified[a] = [acc EXCEPT !.nonexistent = FALSE,
                                                    !.erase_if_empty = TRUE]]
      BY <1>2, <2>1 DEF GetOrInsert
    <3> QED
      BY <3>1, <3>2
  <2>2. CASE ~acc.nonexistent
    <3>1. old = acc
      BY <1>1, <1>3, <2>2 DEF Account
    <3>2. v = s
      BY <1>2, <2>2 DEF GetOrInsert
    <3> HIDE DEF old, v
    <3>3. PICK i, m, j : s = [initial |-> i, modified |-> m, journal |-> j]
      BY <1>1 DEF IsRecord
    <3>4. m = s.modified
      BY <3>3
    <3> QED
      BY <1>1, <3>1, <3>2, <3>3, <3>4
  <2> QED
    BY <2>1, <2>2
<1>5. new = Buyer(acc)
  BY <1>1, <1>3 DEF Buyer, Account
<1>6. BuyGas(s, a) = [v EXCEPT !.modified[a] =
                          [v.modified[a] EXCEPT !.nonce = v.modified[a].nonce + 1,
                                    !.balance = v.modified[a].balance - cost, !.warm = TRUE]]
  BY DEF BuyGas
<1> HIDE DEF v, old, cost
<1>7. PICK i, m, j : s = [initial |-> i, modified |-> m, journal |-> j]
  BY <1>1 DEF IsRecord
<1>8. v = [initial |-> i, modified |-> [m EXCEPT ![a] = old], journal |-> j]
  BY ONLY <1>4, <1>7
<1>9. m \in [Addr -> Account]
  BY <1>1, <1>7
<1>10. v.modified[a] = old
  BY <1>8, <1>9
<1>11. BuyGas(s, a) = [v EXCEPT !.modified[a] = new]
  BY <1>6, <1>10
<1> HIDE DEF new
<1>12. BuyGas(s, a) = [initial |-> i, modified |-> [m EXCEPT ![a] = new], journal |-> j]
  BY ONLY <1>8, <1>9, <1>11
<1>13. [s EXCEPT !.modified[a] = new]
         = [initial |-> i, modified |-> [m EXCEPT ![a] = new], journal |-> j]
  BY ONLY <1>7
<1> QED
  BY <1>5, <1>12, <1>13

LEMMA BuyerFields ==
    ASSUME NEW acc \in Account, acc.balance >= GasLimit * GasPrice, NEW acc2, acc2 = Buyer(acc)
    PROVE  /\ acc2 \in Account
           /\ acc2.nonexistent = FALSE
           /\ acc2.nonce = acc.nonce + 1 /\ acc2.balance = acc.balance - GasLimit * GasPrice
           /\ acc2.code_hash = acc.code_hash /\ acc2.code = acc.code
           /\ acc2.storage = acc.storage /\ acc2.loaded = acc.loaded
           /\ acc2.destructed = acc.destructed /\ acc2.just_created = acc.just_created
           /\ acc2.code_changed = acc.code_changed
           /\ acc2.has_initial_storage = acc.has_initial_storage
<1> DEFINE n == acc.nonce + 1
           b == acc.balance - GasLimit * GasPrice
           f == acc.erase_if_empty \/ acc.nonexistent
<1>1. n \in Nat /\ b \in Nat /\ f \in BOOLEAN
  BY CostType DEF Account
<1>2. acc2 = [acc EXCEPT !.nonexistent = FALSE, !.erase_if_empty = f, !.nonce = n,
                         !.balance = b, !.warm = TRUE]
  BY DEF Buyer
<1> HIDE DEF n, b, f
<1>3. /\ acc2.nonexistent = FALSE /\ acc2.nonce = n /\ acc2.balance = b
      /\ acc2.code_hash = acc.code_hash /\ acc2.code = acc.code
      /\ acc2.storage = acc.storage /\ acc2.loaded = acc.loaded
      /\ acc2.destructed = acc.destructed /\ acc2.just_created = acc.just_created
      /\ acc2.code_changed = acc.code_changed
      /\ acc2.has_initial_storage = acc.has_initial_storage
  BY <1>2 DEF Account
<1> DEFINE p == [acc EXCEPT !.nonce = n, !.balance = b]
<1>4. p \in Account
  BY <1>1 DEF Account
<1>5. acc2 = [p EXCEPT !.nonexistent = FALSE, !.erase_if_empty = f, !.warm = TRUE]
  BY <1>2 DEF Account
<1> HIDE DEF p
<1>6. acc2 \in Account
  BY ONLY <1>1, <1>4, <1>5 DEF Account
<1> QED
  BY <1>3, <1>6 DEF n, b

(* The sender pays for the gas it can pay for. *)
LEMMA BuyGasStep ==
    ASSUME NEW s, Good(s), NEW a \in Addr, World(s)[a].balance >= GasLimit * GasPrice
    PROVE  LET t == BuyGas(s, a)
               w == World(s)
           IN  /\ Good(t) /\ t.initial = s.initial
               /\ \A b \in Addr : KeepsLoaded(s.modified[b], t.modified[b])
               /\ Writable(t, a)
               /\ World(t)[a].balance = w[a].balance - GasLimit * GasPrice
               /\ World(t)[a].nonce = w[a].nonce + 1
               /\ \A b \in Addr : World(t)[b].just_created = w[b].just_created
               /\ \A b \in Addr : b # a => World(t)[b].balance = w[b].balance
<1> DEFINE g == Get(s, a)
           acc == g.modified[a]
           acc2 == Buyer(acc)
           view == g.initial[a]
           t == After(g, a, acc2, g.journal)
           o == World(g)[a]
           o2 == Observed(acc2, view)
<1>1. Quiet(s, g) /\ Good(g) /\ acc.loaded
  BY GetStep
<1>2. World(g) = World(s) /\ g.initial = s.initial /\ Extends(s, g) /\ StateOK(g)
  BY <1>1 DEF Quiet, Good
<1>3. BuyGas(s, a) = BuyGas(g, a)
  <2>1. Get(g, a) = g
    BY <1>1 DEF Get
  <2>2. GetOrInsert(s, a) = GetOrInsert(g, a)
    BY <2>1 DEF GetOrInsert
  <2> QED
    BY <2>2 DEF BuyGas
<1> HIDE DEF g
<1>4. BuyGas(g, a) = t
  <2> HIDE DEF acc2
  <2>1. BuyGas(g, a) = [g EXCEPT !.modified[a] = acc2]
    BY <1>1, <1>2, BuyGasForm DEF acc2
  <2> QED
    BY <1>2, <2>1, AmendForm
<1>5. /\ view \in ViewAccount /\ (~view.exists => view = NoAccount)
      /\ AccountOK(acc, view) /\ acc \in Account
  BY <1>2, StateFields
<1>6. Shows(o, acc, view) /\ ObservationOK(o, view)
  BY <1>1, <1>2, WorldShows DEF Good, WorldOK
<1>7. acc.balance >= GasLimit * GasPrice
  BY <1>2, <1>6 DEF Shows
<1>8. /\ acc2 \in Account
      /\ acc2.nonexistent = FALSE
      /\ acc2.nonce = acc.nonce + 1 /\ acc2.balance = acc.balance - GasLimit * GasPrice
      /\ acc2.code_hash = acc.code_hash /\ acc2.code = acc.code
      /\ acc2.storage = acc.storage /\ acc2.loaded = acc.loaded
      /\ acc2.destructed = acc.destructed /\ acc2.just_created = acc.just_created
      /\ acc2.code_changed = acc.code_changed
      /\ acc2.has_initial_storage = acc.has_initial_storage
  BY <1>5, <1>7, BuyerFields
<1> HIDE DEF acc2, acc
<1>9. AccountOK(acc2, view)
  <2>1. CacheOK(acc2, view) /\ SlotsOK(acc2, view)
    BY <1>5, <1>8 DEF AccountOK, CacheOK, SlotsOK
  <2>2. LoadedOK(acc2, view)
    BY <1>1, <1>5, <1>8 DEF AccountOK, LoadedOK
  <2> QED
    BY <1>8, <2>1, <2>2 DEF AccountOK
<1>10. KeepsLoaded(acc, acc2)
  BY <1>8 DEF KeepsLoaded
<1>11. Shows(o2, acc2, view) /\ o2 \in Observation
  BY <1>1, <1>5, <1>8, <1>9, AccountRaw, ObservedShows, ObservedType
<1> HIDE DEF o, o2
<1>12. /\ o2.exists /\ o2.code = o.code /\ o2.has_code = o.has_code
       /\ o2.just_created = o.just_created /\ o2.code_changed = o.code_changed
       /\ o2.destructed = o.destructed /\ o2.nonce = o.nonce + 1
       /\ o2.balance = o.balance - GasLimit * GasPrice
  BY <1>6, <1>8, <1>11 DEF Shows
<1>13. ObservationOK(o2, view)
  <2>1. AbsentOK(o2, view)
    BY <1>12 DEF AbsentOK
  <2>2. CodeOK(o2, view) /\ LifeOK(o2, view)
    BY <1>6, <1>12 DEF ObservationOK, CodeOK, LifeOK
  <2> QED
    BY <1>11, <2>1, <2>2 DEF ObservationOK
<1>14. Growth(o, o2)
  <2>1. o.nonce \in Nat
    BY <1>6 DEF ObservationOK, Observation
  <2> QED
    BY <1>12, <2>1 DEF Growth
<1>15. Amendable(g, a, acc2)
  BY <1>9, <1>10, <1>12, <1>13, <1>14 DEF Amendable, acc, o, o2
<1>16. Amends(g, t, a, acc2)
  BY <1>1, <1>15, AmendStep
<1> HIDE DEF t
<1>17. /\ Good(t) /\ t.initial = g.initial /\ t.modified[a] = acc2
       /\ \A b \in Addr : KeepsLoaded(g.modified[b], t.modified[b])
       /\ World(t) = [World(g) EXCEPT ![a] = o2]
  BY <1>16 DEF Amends, o2
<1>18. \A b \in Addr : KeepsLoaded(s.modified[b], t.modified[b])
  BY <1>2, <1>17 DEF Extends, KeepsLoaded
<1>19. World(t)[a] = o2 /\ \A b \in Addr : b # a => World(t)[b] = World(g)[b]
  <2>1. World(g) \in Worlds
    BY <1>1 DEF Good, WorldOK
  <2> QED
    BY <1>17, <2>1 DEF Worlds
<1>20. Writable(t, a)
  BY <1>1, <1>8, <1>12, <1>17, <1>19 DEF Writable
<1> QED
  BY <1>2, <1>3, <1>4, <1>12, <1>17, <1>18, <1>19, <1>20 DEF o

LEMMA WarmAccessListPrologues ==
    ASSUME NEW s, Good(s), NEW t
    PROVE  Prologues(s, WarmAccessList(s, t))
<1> DEFINE keys == (t.access_list \ Precompiles) \X Key
           s1 == IF \E a \in Addr : t.access_list = {a}
                 THEN AccessAccount(s, CHOOSE a \in Addr : t.access_list = {a})
                 ELSE s
<1>1. Prologues(s, s1)
  <2>1. CASE \E a \in Addr : t.access_list = {a}
    <3> DEFINE a == CHOOSE a \in Addr : t.access_list = {a}
    <3>1. a \in Addr
      BY <2>1
    <3>2. s1 = AccessAccount(s, a)
      BY <2>1
    <3> HIDE DEF a, s1
    <3> QED
      BY <3>1, <3>2, AccessAccountPrologues
  <2>2. CASE ~ \E a \in Addr : t.access_list = {a}
    BY <2>2, QuietSelf, QuietPrologues
  <2> QED
    BY <2>1, <2>2
<1>2. WarmAccessList(s, t) = WarmStorage(s1, keys)
  BY DEF WarmAccessList
<1> HIDE DEF s1, keys
<1>3. Prologues(s1, WarmStorage(s1, keys))
  BY <1>1, WarmStoragePrologues DEF Prologues
<1> QED
  BY <1>1, <1>2, <1>3, ProloguesTransitive

\* What the prologue of transaction t makes of state s: the sender has paid.
Opens(s, t, u) ==
    /\ Good(u) /\ u.initial = s.initial
    /\ \A b \in Addr : KeepsLoaded(s.modified[b], u.modified[b])
    /\ Writable(u, t.sender)
    /\ World(u)[t.sender].balance = World(s)[t.sender].balance - GasLimit * GasPrice
    /\ World(u)[t.sender].nonce = World(s)[t.sender].nonce + 1
    /\ \A b \in Addr : World(u)[b].just_created = World(s)[b].just_created
    /\ \A b \in Addr : b # t.sender => World(u)[b].balance = World(s)[b].balance

LEMMA OpensOn ==
    ASSUME NEW s, NEW t, NEW u, Opens(s, t, u), NEW v, Prologues(u, v)
    PROVE  Opens(s, t, v)
<1>1. t.sender \in Addr /\ SameValues(World(u), World(v))
  BY DEF Opens, Writable, Prologues
<1>2. Writable(v, t.sender)
  BY <1>1 DEF Opens, Writable, Prologues, SameValues, KeepsLoaded
<1>3. \A b \in Addr : KeepsLoaded(s.modified[b], v.modified[b])
  BY DEF Opens, Prologues, KeepsLoaded
<1> QED
  BY <1>1, <1>2, <1>3 DEF Opens, Prologues, SameValues

(* The prologue of a transaction whose sender can pay for its gas. *)
LEMMA TxPrologueStep ==
    ASSUME NEW t, t.sender \in Addr, TxRecipient(t) \in Addr, Good(state),
           World(state)[t.sender].balance >= GasLimit * GasPrice
    PROVE  Opens(state, t, TxPrologue(t))
<1> DEFINE s0 == BuyGas(state, t.sender)
           r == TxRecipient(t)
           s1 == AccessAccount(s0, r)
           s2 == WarmAccessList(s1, t)
           s3 == IF Rev >= SHANGHAI THEN AccessAccount(s2, Coinbase) ELSE s2
           s4 == IF t.to \in Addr THEN GetCode(s3, t.to)
                 ELSE IF Rev >= AMSTERDAM THEN Get(s3, r) ELSE s3
<1>1. Opens(state, t, s0)
  BY BuyGasStep DEF Opens
<1>2. TxPrologue(t) = s4
  BY DEF TxPrologue
<1> HIDE DEF s0, r
<1>3. Prologues(s0, s1) /\ Good(s1)
  BY <1>1, AccessAccountPrologues DEF Opens, Prologues, r
<1> HIDE DEF s1
<1>4. Prologues(s1, s2) /\ Good(s2)
  BY <1>3, WarmAccessListPrologues DEF Prologues
<1> HIDE DEF s2
<1>5. Prologues(s2, s3) /\ Good(s3)
  <2>1. Prologues(s2, s2)
    BY <1>4, QuietSelf, QuietPrologues
  <2>2. Prologues(s2, AccessAccount(s2, Coinbase))
    BY <1>4, RoleAssumption, AccessAccountPrologues
  <2>3. s3 = s2 \/ s3 = AccessAccount(s2, Coinbase)
    OBVIOUS
  <2> HIDE DEF s3
  <2>4. Prologues(s2, s3)
    BY <2>1, <2>2, <2>3
  <2> QED
    BY <2>4 DEF Prologues
<1> HIDE DEF s3
<1>6. Prologues(s3, s4)
  <2>1. Prologues(s3, s3)
    BY <1>5, QuietSelf, QuietPrologues
  <2>2. Prologues(s3, Get(s3, r))
    BY <1>5, GetStep, QuietPrologues DEF r
  <2>3. t.to \in Addr => Prologues(s3, GetCode(s3, t.to))
    BY <1>5, GetCodeStep, QuietPrologues
  <2> QED
    BY <2>1, <2>2, <2>3
<1> HIDE DEF s4
<1> QED
  BY <1>1, <1>2, <1>3, <1>4, <1>5, <1>6, OpensOn
=============================================================================
