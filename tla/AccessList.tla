----------------------------- MODULE AccessList -----------------------------
(***************************************************************************)
(* The block access list of Amsterdam (EIP-7928): the class BalBuilder     *)
(* (test/state/bal.cpp), which records state diffs at their block access   *)
(* indices, and what it builds.                                            *)
(*                                                                         *)
(* The builder is a function from all addresses; "listed" says that        *)
(* m_accounts has the address.  A slot without writes is one that is not   *)
(* in storage_writes.  The account before the block, which the code caches *)
(* in "initial", is looked up in the view before the block: that never     *)
(* changes, and a missing account reads there as an empty one.             *)
(***************************************************************************)
EXTENDS State, SequencesExt

Change(index, value) == [index |-> index, value |-> value]

NewAccountData ==
    [listed |-> FALSE, storage_writes |-> [k \in Key |-> << >>],
     storage_reads |-> {}, balance_changes |-> << >>,
     nonce_changes |-> << >>, code_changes |-> << >>]

NewBuilder == [a \in Addr |-> NewAccountData]

\* Wrong variant: the second diff of an index is appended to the first.
BugRecordTwice(changes, index, value, initial) ==
    LET before == IF changes = << >> THEN initial ELSE Last(changes).value
    IN  IF value # before THEN Append(changes, Change(index, value)) ELSE changes

\* record(): a change already recorded at this index is replaced.
Record(changes, index, value, initial) ==
    LET earlier == IF changes # << >> /\ Last(changes).index = index
                   THEN Front(changes) ELSE changes
        before  == IF earlier = << >> THEN initial ELSE Last(earlier).value
    IN  IF value # before THEN Append(earlier, Change(index, value)) ELSE earlier

\* The loop bodies of record_diff() for the account with data ad: read ...
RecordReads(ad, keys) ==
    [ad EXCEPT !.listed = TRUE, !.storage_reads = @ \cup keys]

\* ... modified ...
RecordModified(ad, index, entry, initial) ==
    [ad EXCEPT
       !.listed = TRUE,
       !.nonce_changes = Record(@, index, entry.nonce, initial.nonce),
       !.balance_changes = Record(@, index, entry.balance, initial.balance),
       !.code_changes = IF entry.has_code
                        THEN Record(@, index, entry.code, initial.code) ELSE @,
       !.storage_writes = [k \in Key |->
          IF k \in DOMAIN entry.storage
          THEN Append(@[k], Change(index, entry.storage[k])) ELSE @[k]]]

\* ... or deleted.
RecordDeleted(ad, index, initial) ==
    [ad EXCEPT !.listed = TRUE,
               !.balance_changes = Record(@, index, 0, initial.balance)]

RecordDiff(builder, index, diff, pre_block_state) ==
    [a \in Addr |->
        LET entry == diff.accounts[a]
            ad    == IF a \in DOMAIN diff.reads
                     THEN RecordReads(builder[a], diff.reads[a]) ELSE builder[a]
        IN  CASE entry.op = "unchanged" -> ad
              [] entry.op = "modified"  ->
                     RecordModified(ad, index, entry, pre_block_state[a])
              [] entry.op = "deleted"   ->
                     RecordDeleted(ad, index, pre_block_state[a])]

\* build(): a written slot is not a read.
Build(builder) ==
    [a \in {b \in Addr : builder[b].listed} |->
        [builder[a] EXCEPT !.storage_reads =
            {k \in @ : builder[a].storage_writes[k] = << >>}]]

-----------------------------------------------------------------------------
(* What a reader of the list makes of it. *)

\* The value after index j of a field that changed as listed.
ValueAt(changes, j, initial) ==
    LET upto == {n \in DOMAIN changes : changes[n].index <= j}
    IN  IF upto = {} THEN initial ELSE changes[Max(upto)].value

\* The account before the block, with the changes up to index j replayed.
ReplayAccount(data, j, initial) ==
    [nonce   |-> ValueAt(data.nonce_changes, j, initial.nonce),
     balance |-> ValueAt(data.balance_changes, j, initial.balance),
     code    |-> ValueAt(data.code_changes, j, initial.code),
     storage |-> [k \in Key |->
                    ValueAt(data.storage_writes[k], j, initial.storage[k])]]

\* Indices increase, and every change changes something.
Minimal(changes, initial) ==
    \A n \in DOMAIN changes :
        /\ changes[n].value # (IF n = 1 THEN initial ELSE changes[n - 1].value)
        /\ n > 1 => changes[n - 1].index < changes[n].index
=============================================================================
