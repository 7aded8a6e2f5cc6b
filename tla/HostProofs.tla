----------------------------- MODULE HostProofs -----------------------------
(***************************************************************************)
(* The Host and its transactions, for all accounts, transactions, call     *)
(* depths and journals: the assertions of the code hold, a failed call     *)
(* restores the world of its checkpoint, and the state diff is exact.      *)
(***************************************************************************)
EXTENDS HostProperties, StateProofs, FiniteSetTheorems, WellFoundedInduction

-----------------------------------------------------------------------------
(* A new state. *)

LEMMA NewStateGood ==
    ASSUME NEW views, ViewsOK(views)
    PROVE  Good(NewState(views))
<1> DEFINE s == NewState(views)
<1>1. s.initial = views /\ s.modified = [a \in Addr |-> NewAccount] /\ s.journal = << >>
  BY DEF NewState
<1>2. \A a \in Addr : views[a] \in ViewAccount /\ AccountOK(NewAccount, views[a])
  BY NewAccountOK DEF ViewsOK
<1>3. s.modified \in [Addr -> Account]
  BY <1>1, <1>2 DEF AccountOK
<1>4. s \in StateType
  BY <1>1, <1>3 DEF StateType, NewState, ViewsOK
<1>5. Len(s.journal) = 0
  BY <1>1
<1>6. StateOK(s)
  <2>1. \A a \in Addr : AccountOK(s.modified[a], s.initial[a])
    BY <1>1, <1>2
  <2>2. 1..Len(s.journal) = {}
    BY <1>5
  <2> QED
    BY <1>1, <1>4, <2>1, <2>2 DEF StateOK
<1> HIDE DEF s
<1>7. World(s) \in Worlds
  BY <1>6, WorldType
<1>8. ASSUME NEW a \in Addr
      PROVE  ObservationOK(World(s)[a], views[a]) /\ CreatedOK(World(s), a)
  <2> DEFINE view == views[a]
             o == World(s)[a]
  <2>1. ~NewAccount.loaded /\ \A k \in Key : ~NewAccount.storage[k].loaded
    BY DEF NewAccount, NewSlot
  <2>2. view \in ViewAccount /\ (~view.exists => view = NoAccount)
    BY DEF ViewsOK
  <2>3. o = Observed(NewAccount, view)
    BY <1>1, WorldAt
  <2>4. /\ o.exists = view.exists
        /\ o.nonce = view.nonce /\ o.balance = view.balance
        /\ o.code = view.code
        /\ o.has_code = (view.code # NoCode)
        /\ o.storage = [k \in Key |-> IF NewAccount.storage[k].loaded
                              THEN NewAccount.storage[k].current ELSE view.storage[k]]
        /\ ~o.destructed /\ ~o.erase_if_empty
        /\ ~o.just_created /\ ~o.code_changed
    <3>1. AccountOK(NewAccount, view) /\ ~NewAccount.loaded
      BY <1>2, <2>1
    <3> HIDE DEF view, o
    <3> QED
      BY <2>2, <2>3, <3>1, ObservedUnloaded
  <2>5. o \in Observation
    BY <1>7 DEF Worlds
  <2> HIDE DEF o, view
  <2>6. \A k \in Key : o.storage[k] = view.storage[k]
    BY <2>1, <2>4
  <2>7. AbsentOK(o, view)
    BY <2>2, <2>4, <2>6 DEF AbsentOK, NoAccount
  <2>8. CodeOK(o, view) /\ LifeOK(o, view)
    BY <2>4 DEF CodeOK, LifeOK
  <2> QED
    BY <2>4, <2>5, <2>7, <2>8 DEF ObservationOK, CreatedOK, o, view
<1> QED
  BY <1>1, <1>6, <1>7, <1>8 DEF Good, WorldOK, s

-----------------------------------------------------------------------------
(* The ether supply: a sum over the accounts. *)

\* The account the fold adds next.
NextAdded(A) == CHOOSE a \in A : TRUE

(* A set of natural numbers has a least one: what is proved of sums below   *)
(* is proved of a smallest counterexample.                                 *)
LEMMA LeastNatural ==
    ASSUME NEW T \in SUBSET Nat, T # {}
    PROVE  \E m \in T : \A n \in T : m <= n
<1> DEFINE R == OpToRel(<, Nat)
<1>1. IsWellFoundedOn(R, Nat)
  BY Zenon, NatLessThanWellFounded
<1> HIDE DEF R
<1>2. \E m \in T : \A n \in T : <<n, m>> \notin R
  BY <1>1, WFMin
<1>3. \A m, n \in Nat : <<n, m>> \notin R => m <= n
  BY DEF R, OpToRel
<1> QED
  BY <1>2, <1>3

LEMMA AddedIn ==
    ASSUME NEW A, A # {}
    PROVE  NextAdded(A) \in A
  BY DEF NextAdded

\* total is the sum for the sets of at most n addresses.
Adds(view, total, n) ==
    \A A \in SUBSET Addr : Cardinality(A) <= n =>
       total[A] = IF A = {} THEN 0
                  ELSE view[NextAdded(A)].balance + total[A \ {NextAdded(A)}]

LEMMA Subsets ==
    ASSUME NEW A \in SUBSET Addr
    PROVE  /\ IsFiniteSet(A) /\ Cardinality(A) \in Nat
           /\ Cardinality(A) = 0 <=> A = {}
           /\ \A a \in A : Cardinality(A \ {a}) = Cardinality(A) - 1
  BY AddrAssumption, FS_Subset, FS_CardinalityType, FS_RemoveElement, FS_EmptySet

LEMMA AddsMore ==
    ASSUME NEW view, NEW total, NEW n \in Nat, Adds(view, total, n)
    PROVE  \E more : Adds(view, more, n + 1)
<1> DEFINE more == [A \in SUBSET Addr |->
                IF Cardinality(A) <= n THEN total[A]
                ELSE view[NextAdded(A)].balance + total[A \ {NextAdded(A)}]]
<1>1. SUFFICES ASSUME NEW A \in SUBSET Addr, Cardinality(A) <= n + 1
               PROVE  more[A] = IF A = {} THEN 0
                                ELSE view[NextAdded(A)].balance + more[A \ {NextAdded(A)}]
  BY DEF Adds
<1>2. CASE A = {}
  <2>1. Cardinality(A) <= n
    BY <1>2, Subsets
  <2> QED
    BY <2>1, <1>2 DEF Adds
<1>3. CASE A # {}
  <2> DEFINE rest == A \ {NextAdded(A)}
  <2>1. rest \in SUBSET Addr /\ Cardinality(rest) <= n
    BY <1>1, <1>3, AddedIn, Subsets
  <2>2. more[rest] = total[rest]
    BY <2>1
  <2> HIDE DEF rest
  <2>3. more[A] = view[NextAdded(A)].balance + total[rest]
    BY <1>3, <1>1 DEF Adds, rest
  <2> QED
    BY <2>2, <2>3, <1>3 DEF rest
<1> QED
  BY <1>2, <1>3

LEMMA AddsExist ==
    ASSUME NEW view
    PROVE  \A n \in Nat : \E total : Adds(view, total, n)
<1> DEFINE T == {n \in Nat : ~ \E total : Adds(view, total, n)}
<1>1. SUFFICES ASSUME T # {} PROVE FALSE
  OBVIOUS
<1>2. PICK m \in T : \A n \in T : m <= n
  BY <1>1, LeastNatural
<1>3. m # 0
  <2>1. Adds(view, [A \in SUBSET Addr |-> 0], 0)
    BY Subsets DEF Adds
  <2> QED
    BY <2>1
<1>4. m - 1 \in Nat /\ m - 1 \notin T /\ (m - 1) + 1 = m
  BY <1>2, <1>3
<1>5. PICK total : Adds(view, total, m - 1)
  BY <1>4
<1>6. \E more : Adds(view, more, m)
  BY <1>4, <1>5, AddsMore
<1> QED
  BY <1>6

\* The function that the fold defines: the sum of every set of accounts.
Sums(view) ==
    CHOOSE total : total = [A \in SUBSET Addr |->
       IF A = {} THEN 0 ELSE view[NextAdded(A)].balance + total[A \ {NextAdded(A)}]]

LEMMA SupplyIsSum ==
    ASSUME NEW view PROVE Supply(view) = Sums(view)[Addr]
  BY Zenon DEF Supply, MapThenSumSet, MapThenFoldSet, Sums, NextAdded

(* The sum is what the fold adds up. *)
LEMMA SumsAdd ==
    ASSUME NEW view, NEW A \in SUBSET Addr
    PROVE  Sums(view)[A] = IF A = {} THEN 0
                ELSE view[NextAdded(A)].balance + Sums(view)[A \ {NextAdded(A)}]
<1> DEFINE N == Cardinality(Addr)
           Sum(total) == [B \in SUBSET Addr |->
              IF B = {} THEN 0 ELSE view[NextAdded(B)].balance + total[B \ {NextAdded(B)}]]
<1>1. N \in Nat /\ \A B \in SUBSET Addr : Cardinality(B) <= N
  BY AddrAssumption, FS_Subset, FS_CardinalityType
<1> HIDE DEF N
<1>2. PICK total : Adds(view, total, N)
  BY <1>1, AddsExist
<1> DEFINE sum == [B \in SUBSET Addr |-> total[B]]
<1>3. \A B \in SUBSET Addr : B # {} => sum[B \ {NextAdded(B)}] = total[B \ {NextAdded(B)}]
  OBVIOUS
<1>4. sum = Sum(sum)
  <2>1. \A B \in SUBSET Addr : sum[B] = Sum(sum)[B]
    BY <1>1, <1>2, <1>3 DEF Adds
  <2> QED
    BY <2>1
<1>5. Sums(view) = CHOOSE t : t = Sum(t)
  BY Zenon DEF Sums
<1> HIDE DEF sum, Sum
<1>6. Sums(view) = Sum(Sums(view))
  BY Zenon, <1>4, <1>5
<1> QED
  BY <1>6 DEF Sum

Balances(view) == \A a \in Addr : view[a].balance \in Nat

\* A smallest set of addresses with a property some set has.
LEMMA SmallestSet ==
    ASSUME NEW T \in SUBSET SUBSET Addr, T # {}
    PROVE  \E A \in T : \A B \in T : Cardinality(A) <= Cardinality(B)
<1> DEFINE sizes == {Cardinality(A) : A \in T}
<1>1. sizes \in SUBSET Nat /\ sizes # {}
  BY Subsets
<1>2. PICK m \in sizes : \A n \in sizes : m <= n
  BY <1>1, LeastNatural
<1> QED
  BY <1>2

(* Balances that are natural numbers sum up to one. *)
LEMMA SumsType ==
    ASSUME NEW view, Balances(view), NEW A \in SUBSET Addr
    PROVE  Sums(view)[A] \in Nat
<1> DEFINE T == {B \in SUBSET Addr : Sums(view)[B] \notin Nat}
<1>1. SUFFICES ASSUME T # {} PROVE FALSE
  OBVIOUS
<1>2. T \in SUBSET SUBSET Addr
  OBVIOUS
<1>3. PICK B \in T : \A C \in T : Cardinality(B) <= Cardinality(C)
  BY <1>1, <1>2, SmallestSet
<1>4. B # {}
  BY <1>3, SumsAdd
<1>5. NextAdded(B) \in B
  BY <1>4, AddedIn
<1>6. B \ {NextAdded(B)} \in SUBSET Addr /\ B \ {NextAdded(B)} \notin T
  BY <1>3, <1>5, Subsets
<1>7. Sums(view)[B] = view[NextAdded(B)].balance + Sums(view)[B \ {NextAdded(B)}]
  BY <1>3, <1>4, SumsAdd
<1> QED
  BY <1>3, <1>5, <1>6, <1>7 DEF Balances

(* Any account may be added last. *)
LEMMA SumsSplit ==
    ASSUME NEW view, Balances(view), NEW A \in SUBSET Addr, NEW a \in A
    PROVE  Sums(view)[A] = view[a].balance + Sums(view)[A \ {a}]
<1> DEFINE Splits(B) == \A b \in B : Sums(view)[B] = view[b].balance + Sums(view)[B \ {b}]
           T == {B \in SUBSET Addr : ~Splits(B)}
<1>1. SUFFICES ASSUME T # {} PROVE FALSE
  OBVIOUS
<1>2. T \in SUBSET SUBSET Addr
  OBVIOUS
<1>3. PICK B \in T : \A C \in T : Cardinality(B) <= Cardinality(C)
  BY <1>1, <1>2, SmallestSet
<1>4. PICK b \in B : Sums(view)[B] # view[b].balance + Sums(view)[B \ {b}]
  BY <1>3
<1> DEFINE c == NextAdded(B)
<1>5. c \in B /\ Sums(view)[B] = view[c].balance + Sums(view)[B \ {c}]
  BY <1>3, <1>4, AddedIn, SumsAdd
<1> HIDE DEF c
<1>6. b # c
  BY <1>4, <1>5
<1>7. /\ B \ {c} \in SUBSET Addr /\ Splits(B \ {c})
      /\ B \ {b} \in SUBSET Addr /\ Splits(B \ {b})
  <2>1. /\ Cardinality(B \ {c}) < Cardinality(B)
        /\ Cardinality(B \ {b}) < Cardinality(B)
    BY <1>3, <1>4, <1>5, Subsets
  <2> HIDE DEF Splits
  <2>2. B \ {c} \notin T /\ B \ {b} \notin T
    <3>1. \A C \in T : Cardinality(C) \in Nat
      BY Subsets
    <3>2. Cardinality(B) \in Nat
      BY <1>3, Subsets
    <3> QED
    BY <1>3, <2>1, <3>1, <3>2
  <2> QED
    BY <1>3, <2>2
<1>8. (B \ {c}) \ {b} = (B \ {b}) \ {c}
  OBVIOUS
<1> DEFINE rest == Sums(view)[(B \ {b}) \ {c}]
<1>9. /\ Sums(view)[B \ {c}] = view[b].balance + rest
      /\ Sums(view)[B \ {b}] = view[c].balance + rest
  BY <1>4, <1>5, <1>6, <1>7, <1>8
<1>10. rest \in Nat /\ view[b].balance \in Nat /\ view[c].balance \in Nat
  <2>1. (B \ {b}) \ {c} \in SUBSET Addr
    BY <1>3
  <2> QED
    BY <2>1, <1>3, <1>4, <1>5, SumsType DEF Balances
<1> HIDE DEF rest
<1> QED
  BY <1>4, <1>5, <1>9, <1>10

(* Accounts of at least the balances sum up to at least the sum. *)
LEMMA SumsLess ==
    ASSUME NEW v, Balances(v), NEW w, Balances(w), NEW A \in SUBSET Addr,
           \A a \in A : v[a].balance <= w[a].balance
    PROVE  Sums(v)[A] <= Sums(w)[A]
<1> DEFINE T == {B \in SUBSET A : ~(Sums(v)[B] <= Sums(w)[B])}
<1>1. SUFFICES ASSUME T # {} PROVE FALSE
  OBVIOUS
<1>2. T \in SUBSET SUBSET Addr
  OBVIOUS
<1>3. PICK B \in T : \A C \in T : Cardinality(B) <= Cardinality(C)
  BY <1>1, <1>2, SmallestSet
<1>4. B \in SUBSET Addr /\ B # {}
  BY <1>3, SumsAdd
<1>5. NextAdded(B) \in B
  BY <1>4, AddedIn
<1> DEFINE b == NextAdded(B)
           C == B \ {b}
<1>6. C \in SUBSET Addr /\ C \in SUBSET A /\ C \notin T
  BY <1>3, <1>4, <1>5, Subsets
<1>7. /\ Sums(v)[B] = v[b].balance + Sums(v)[C]
      /\ Sums(w)[B] = w[b].balance + Sums(w)[C]
  BY <1>4, SumsAdd
<1>8. Sums(v)[C] <= Sums(w)[C] /\ v[b].balance <= w[b].balance
  BY <1>3, <1>5, <1>6
<1>9. /\ Sums(v)[C] \in Nat /\ Sums(w)[C] \in Nat
      /\ v[b].balance \in Nat /\ w[b].balance \in Nat
  BY <1>4, <1>5, <1>6, SumsType DEF Balances
<1>10. ~(Sums(v)[B] <= Sums(w)[B])
  BY <1>3
<1> HIDE DEF b, C
<1> QED
  BY <1>7, <1>8, <1>9, <1>10

LEMMA SupplyType ==
    ASSUME NEW view, Balances(view)
    PROVE  Supply(view) \in Nat
  BY SupplyIsSum, SumsType

LEMMA SupplyLess ==
    ASSUME NEW v, Balances(v), NEW w, Balances(w),
           \A a \in Addr : v[a].balance <= w[a].balance
    PROVE  Supply(v) <= Supply(w)
  BY SupplyIsSum, SumsLess

LEMMA SupplySame ==
    ASSUME NEW v, Balances(v), NEW w, \A a \in Addr : w[a].balance = v[a].balance
    PROVE  Supply(w) = Supply(v)
<1>1. Balances(w)
  BY DEF Balances
<1>2. \A a \in Addr : v[a].balance <= w[a].balance /\ w[a].balance <= v[a].balance
  BY DEF Balances
<1>3. Supply(v) \in Nat /\ Supply(w) \in Nat
  BY <1>1, SupplyType
<1>4. Supply(v) <= Supply(w) /\ Supply(w) <= Supply(v)
  BY <1>1, <1>2, SupplyLess
<1> QED
  BY <1>3, <1>4

(* One changed balance changes the sum by as much. *)
LEMMA SupplyChanged ==
    ASSUME NEW v, Balances(v), NEW w, Balances(w), NEW a \in Addr,
           \A b \in Addr : b # a => w[b].balance = v[b].balance
    PROVE  Supply(w) = Supply(v) - v[a].balance + w[a].balance
<1> DEFINE A == Addr \ {a}
           rv == Sums(v)[A]
           rw == Sums(w)[A]
<1>1. A \in SUBSET Addr
  OBVIOUS
<1>2. \A b \in A : v[b].balance <= w[b].balance /\ w[b].balance <= v[b].balance
  BY DEF Balances
<1>3. /\ rv \in Nat /\ rw \in Nat
      /\ v[a].balance \in Nat /\ w[a].balance \in Nat
  BY <1>1, SumsType DEF Balances
<1>4. rv <= rw /\ rw <= rv
  BY <1>1, <1>2, SumsLess
<1>5. /\ Supply(v) = v[a].balance + rv
      /\ Supply(w) = w[a].balance + rw
  BY SupplyIsSum, SumsSplit
<1> HIDE DEF rv, rw
<1> QED
  BY <1>3, <1>4, <1>5

-----------------------------------------------------------------------------
(* What the transaction owns of the supply.                                *)

\* The ether of world w and the gas bought do not exceed the ether of the
\* initial state; from Amsterdam they are exactly that.
Paid(w, views) ==
    LET total == Supply(w) + GasLimit * GasPrice
    IN  /\ total <= Supply(views)
        /\ Rev >= AMSTERDAM => total = Supply(views)

\* No ether is created from w to w2, and from Amsterdam none is lost.
Conserved(w, w2) ==
    /\ Supply(w2) <= Supply(w)
    /\ Rev >= AMSTERDAM => Supply(w2) = Supply(w)

LEMMA WorldBalances ==
    ASSUME NEW w \in Worlds
    PROVE  Balances(w) /\ Supply(w) \in Nat
<1>1. Balances(w)
  BY DEF Balances, Worlds, Observation
<1> QED
  BY <1>1, SupplyType

LEMMA ViewBalances ==
    ASSUME NEW views, ViewsOK(views)
    PROVE  Balances(views) /\ Supply(views) \in Nat
<1>1. Balances(views)
  BY DEF Balances, ViewsOK, ViewAccount
<1> QED
  BY <1>1, SupplyType

LEMMA ConservedSame ==
    ASSUME NEW w \in Worlds, NEW w2, SameBalances(w, w2)
    PROVE  Conserved(w, w2)
<1>1. Supply(w2) = Supply(w) /\ Supply(w) \in Nat
  BY WorldBalances, SupplySame DEF SameBalances
<1> QED
  BY <1>1 DEF Conserved

LEMMA ConservedTransitive ==
    ASSUME NEW w \in Worlds, NEW w1 \in Worlds, NEW w2 \in Worlds,
           Conserved(w, w1), Conserved(w1, w2)
    PROVE  Conserved(w, w2)
<1>1. Supply(w) \in Nat /\ Supply(w1) \in Nat /\ Supply(w2) \in Nat
  BY WorldBalances
<1> QED
  BY <1>1 DEF Conserved

(* Ether that moves from one account to another is conserved. *)
LEMMA RedistributesConserved ==
    ASSUME NEW w \in Worlds, NEW w2 \in Worlds, Redistributes(w, w2)
    PROVE  Supply(w2) = Supply(w)
<1>1. CASE SameBalances(w, w2)
  BY <1>1, WorldBalances, SupplySame DEF SameBalances
<1>2. ASSUME NEW x \in Addr, NEW y \in Addr, NEW v \in Nat, MovesBalance(w, w2, x, y, v)
      PROVE  Supply(w2) = Supply(w)
  <2>1. CASE x = y
    <3>1. \A b \in Addr : w2[b].balance = w[b].balance
      BY <1>2, <2>1 DEF MovesBalance
    <3> QED
      BY <3>1, WorldBalances, SupplySame
  <2>2. CASE x # y
    <3> DEFINE w1 == [b \in Addr |-> IF b = x THEN w2[x] ELSE w[b]]
    <3>1. Balances(w) /\ Balances(w2)
      BY WorldBalances
    <3>2. /\ w1[x] = w2[x] /\ w1[y] = w[y]
          /\ \A b \in Addr : b # x => w1[b] = w[b]
      BY <2>2
    <3> HIDE DEF w1
    <3>3. Balances(w1)
      BY <3>1, <3>2 DEF Balances
    <3>4. Supply(w1) = Supply(w) - w[x].balance + w2[x].balance
      BY <3>1, <3>2, <3>3, SupplyChanged
    <3>5. \A b \in Addr : b # y => w2[b].balance = w1[b].balance
      BY <1>2, <2>2, <3>2 DEF MovesBalance
    <3>6. Supply(w2) = Supply(w1) - w[y].balance + w2[y].balance
      BY <3>1, <3>2, <3>3, <3>5, SupplyChanged
    <3>7. /\ w2[x].balance = w[x].balance - v
          /\ w2[y].balance = w[y].balance + v
      BY <1>2, <2>2 DEF MovesBalance
    <3>8. /\ Supply(w) \in Nat /\ w[x].balance \in Nat /\ w[y].balance \in Nat
      BY <3>1, WorldBalances DEF Balances
    <3> QED
      BY <3>4, <3>6, <3>7, <3>8
  <2> QED
    BY <2>1, <2>2
<1> QED
  BY <1>1, <1>2 DEF Redistributes

LEMMA BurnsConserved ==
    ASSUME NEW w \in Worlds, NEW w2 \in Worlds, NEW a, RedistributesOrBurns(w, w2, a)
    PROVE  Conserved(w, w2)
<1>1. Supply(w) \in Nat /\ Supply(w2) \in Nat /\ Balances(w) /\ Balances(w2)
  BY WorldBalances
<1>2. CASE Redistributes(w, w2)
  BY <1>1, <1>2, RedistributesConserved DEF Conserved
<1>3. CASE BurnsBalance(w, w2, a)
  <2>1. \A b \in Addr : w2[b].balance <= w[b].balance
    BY <1>1, <1>3 DEF BurnsBalance, Balances
  <2>2. Supply(w2) <= Supply(w)
    BY <1>1, <2>1, SupplyLess
  <2>3. ~(Rev >= AMSTERDAM)
    BY <1>3, RevAssumption DEF BurnsBalance, Revisions, AMSTERDAM
  <2> QED
    BY <2>2, <2>3 DEF Conserved
<1> QED
  BY <1>2, <1>3 DEF RedistributesOrBurns

LEMMA PaidOn ==
    ASSUME NEW views, ViewsOK(views), NEW w \in Worlds, Paid(w, views),
           NEW w2 \in Worlds, Conserved(w, w2)
    PROVE  Paid(w2, views)
<1>1. Supply(w) \in Nat /\ Supply(w2) \in Nat /\ Supply(views) \in Nat
  BY WorldBalances, ViewBalances
<1>2. GasLimit * GasPrice \in Nat
  BY CostType
<1> QED
  BY <1>1, <1>2 DEF Paid, Conserved

-----------------------------------------------------------------------------
(* Settling a transaction. *)

LEMMA PayStep ==
    ASSUME NEW s, Good(s), NEW a, Writable(s, a), NEW v \in Nat
    PROVE  LET t == [s EXCEPT !.modified[a].balance = @ + v]
           IN  /\ Good(t) /\ t.initial = s.initial
               /\ World(t)[a].balance = World(s)[a].balance + v
               /\ \A d \in Addr : d # a => World(t)[d].balance = World(s)[d].balance
               /\ Supply(World(t)) = Supply(World(s)) + v
<1> DEFINE acc == s.modified[a]
           b == acc.balance + v
           acc2 == [acc EXCEPT !.balance = b]
           t == [s EXCEPT !.modified[a] = acc2]
           view == s.initial[a]
           o == World(s)[a]
           o2 == Observed(acc2, view)
<1>1. a \in Addr /\ acc.loaded /\ o.exists /\ StateOK(s)
  BY DEF Writable, Good
<1>2. acc \in Account /\ AccountOK(acc, view) /\ view \in ViewAccount
  BY <1>1, StateFields
<1>3. [s EXCEPT !.modified[a].balance = @ + v] = t
  OBVIOUS
<1>4. b \in Nat
  BY <1>2 DEF Account
<1> HIDE DEF b
<1>5. /\ acc2 \in Account /\ acc2.balance = b
      /\ acc2.nonce = acc.nonce
      /\ acc2.nonexistent = acc.nonexistent
      /\ acc2.code_hash = acc.code_hash /\ acc2.code = acc.code
      /\ acc2.storage = acc.storage /\ acc2.loaded = acc.loaded
      /\ acc2.destructed = acc.destructed /\ acc2.just_created = acc.just_created
      /\ acc2.code_changed = acc.code_changed
      /\ acc2.has_initial_storage = acc.has_initial_storage
  BY <1>2, <1>4 DEF Account
<1>6. ~view.exists => view = NoAccount
  BY <1>1, StateFields
<1>7. Shows(o, acc, view) /\ ObservationOK(o, view)
  BY <1>1, WorldShows DEF Good, WorldOK
<1> HIDE DEF acc2, acc
<1>8. AccountOK(acc2, view)
  <2>1. CacheOK(acc2, view) /\ SlotsOK(acc2, view)
    BY <1>2, <1>5 DEF AccountOK, CacheOK, SlotsOK
  <2>2. LoadedOK(acc2, view)
    BY <1>1, <1>2, <1>5 DEF AccountOK, LoadedOK
  <2> QED
    BY <1>5, <2>1, <2>2 DEF AccountOK
<1>9. KeepsLoaded(acc, acc2)
  BY <1>5 DEF KeepsLoaded
<1>10. Shows(o2, acc2, view) /\ o2 \in Observation
  BY <1>1, <1>2, <1>5, <1>6, <1>8, AccountRaw, ObservedShows, ObservedType
<1> HIDE DEF o, o2
<1>11. /\ o2.exists = o.exists /\ o2.code = o.code /\ o2.has_code = o.has_code
       /\ o2.just_created = o.just_created /\ o2.code_changed = o.code_changed
       /\ o2.destructed = o.destructed /\ o2.nonce = o.nonce
  BY <1>5, <1>7, <1>10 DEF Shows
<1>12. ObservationOK(o2, view)
  <2>1. AbsentOK(o2, view)
    BY <1>1, <1>11 DEF AbsentOK
  <2>2. CodeOK(o2, view) /\ LifeOK(o2, view)
    BY <1>7, <1>11 DEF ObservationOK, CodeOK, LifeOK
  <2> QED
    BY <1>10, <2>1, <2>2 DEF ObservationOK
<1>13. Growth(o, o2)
  <2>1. o.nonce \in Nat
    BY <1>7 DEF ObservationOK, Observation
  <2> QED
    BY <1>11, <2>1 DEF Growth
<1>14. Amendable(s, a, acc2)
  BY <1>8, <1>9, <1>11, <1>12, <1>13 DEF Amendable, acc, o, o2
<1>15. t = After(s, a, acc2, s.journal)
  BY <1>1, AmendForm
<1>16. Amends(s, t, a, acc2)
  BY <1>1, <1>14, <1>15, AmendStep
<1> HIDE DEF t
<1>17. /\ Good(t) /\ t.initial = s.initial /\ World(s) \in Worlds /\ World(t) \in Worlds
       /\ World(t) = [World(s) EXCEPT ![a] = o2]
  BY <1>16 DEF Amends, Good, WorldOK, o2
<1>18. o2.balance = o.balance + v
  BY <1>5, <1>7, <1>10 DEF Shows, b
<1>19. /\ World(t)[a].balance = World(s)[a].balance + v
       /\ \A d \in Addr : d # a => World(t)[d].balance = World(s)[d].balance
  BY <1>1, <1>17, <1>18 DEF Worlds, o
<1>20. Supply(World(t)) = Supply(World(s)) + v
  <2>1. Supply(World(t)) = Supply(World(s)) - World(s)[a].balance + World(t)[a].balance
    <3> DEFINE w == World(s)
               w2 == World(t)
    <3>1. Balances(w) /\ Balances(w2)
      BY <1>17, WorldBalances
    <3>2. \A d \in Addr : d # a => w2[d].balance = w[d].balance
      BY <1>19
    <3> HIDE DEF w, w2
    <3>3. Supply(w2) = Supply(w) - w[a].balance + w2[a].balance
      BY <1>1, <3>1, <3>2, SupplyChanged
    <3> QED
      BY <3>3 DEF w, w2
  <2>2. Supply(World(s)) \in Nat /\ World(s)[a].balance \in Nat
    BY <1>1, <1>17, WorldBalances DEF Balances
  <2> QED
    BY <1>19, <2>1, <2>2
<1> QED
  BY <1>3, <1>17, <1>19, <1>20

\* The payment is observed at nothing but the balance.
LEMMA SettleStep ==
    ASSUME NEW s, Good(s), NEW sender, Writable(s, sender), NEW gas_used \in 1..GasLimit
    PROVE  /\ Good(Settle(s, sender, gas_used)) /\ Settle(s, sender, gas_used).initial = s.initial
           /\ Supply(World(Settle(s, sender, gas_used)))
                = Supply(World(s)) + (GasLimit - gas_used) * GasPrice + gas_used * PriorityFee
<1> DEFINE refund == (GasLimit - gas_used) * GasPrice
           fee == gas_used * PriorityFee
           s1 == [s EXCEPT !.modified[sender].balance = @ + refund]
           s2 == Touch(s1, Coinbase)
           s3 == [s2 EXCEPT !.modified[Coinbase].balance = @ + fee]
<1>1. refund \in Nat /\ fee \in Nat
  <2>1. gas_used \in Nat /\ GasLimit - gas_used \in Nat /\ GasPrice \in Nat /\ PriorityFee \in Nat
    BY FeeAssumption, CostType
  <2> QED
    BY <2>1
<1>2. Settle(s, sender, gas_used) = s3
  BY DEF Settle
<1> HIDE DEF refund, fee
<1>3. Good(s1) /\ s1.initial = s.initial /\ Supply(World(s1)) = Supply(World(s)) + refund
  BY <1>1, PayStep
<1> HIDE DEF s1
<1>4. /\ Good(s2) /\ s2.initial = s1.initial
      /\ Writable(s2, Coinbase)
      /\ Supply(World(s2)) = Supply(World(s1))
  <2>1. Extends(s1, s2) /\ Good(s2) /\ s2.modified[Coinbase].loaded
          /\ World(s2)[Coinbase].exists
          /\ World(s2) = TouchedWorld(World(s1), Coinbase)
    BY <1>3, RoleAssumption, TouchStep
  <2> HIDE DEF s2
  <2>2. World(s1) \in Worlds
    BY <1>3 DEF Good, WorldOK
  <2>3. SameBalances(World(s1), World(s2))
    BY <2>1, <2>2, TouchedBalances, RoleAssumption
  <2>4. Supply(World(s2)) = Supply(World(s1))
    BY <2>2, <2>3, WorldBalances, SupplySame DEF SameBalances
  <2> QED
    BY <2>1, <2>4, RoleAssumption DEF Extends, Writable
<1> HIDE DEF s2
<1>5. Good(s3) /\ s3.initial = s2.initial /\ Supply(World(s3)) = Supply(World(s2)) + fee
  BY <1>1, <1>4, PayStep
<1> QED
  BY <1>2, <1>3, <1>4, <1>5 DEF refund, fee

-----------------------------------------------------------------------------
(* The state diff. *)

\* The storage of a loaded account after its diff is applied to the view.
LEMMA StorageExact ==
    ASSUME NEW view \in ViewAccount, NEW acc, AccountOK(acc, view), acc.loaded
    PROVE  LET changed == {k \in Key : acc.storage[k].current # acc.storage[k].original}
               d == [k \in changed |-> acc.storage[k].current]
           IN  [k \in Key |-> IF k \in DOMAIN d THEN d[k] ELSE view.storage[k]]
                 = [k \in Key |-> IF acc.storage[k].loaded
                                  THEN acc.storage[k].current ELSE view.storage[k]]
<1> DEFINE changed == {k \in Key : acc.storage[k].current # acc.storage[k].original}
           d == [k \in changed |-> acc.storage[k].current]
<1>1. SlotsOK(acc, view)
  BY DEF AccountOK
<1>2. DOMAIN d = changed
  OBVIOUS
<1>3. \A k \in Key : (IF k \in changed THEN d[k] ELSE view.storage[k])
                       = IF acc.storage[k].loaded
                         THEN acc.storage[k].current ELSE view.storage[k]
  BY <1>1 DEF SlotsOK
<1> HIDE DEF d, changed
<1> QED
  BY <1>2, <1>3 DEF d, changed

(* What build_diff() reports of an account and apply() makes of it. *)
LEMMA DiffEntryExact ==
    ASSUME NEW view \in ViewAccount, ~view.exists => view = NoAccount,
           NEW acc, AccountOK(acc, view), NEW o, o = Observed(acc, view),
           ObservationOK(o, view),
           Rev >= SPURIOUS_DRAGON /\ o.just_created => o.nonce > 0
    PROVE  /\ ApplyEntry(view, DiffEntry(acc, Rev)) = FinalAccount(o)
           /\ FinalAccount(o) \in ViewAccount
           /\ ~FinalAccount(o).exists => FinalAccount(o) = NoAccount
<1> DEFINE zero == [k \in Key |-> 0]
<1>z. /\ NoAccount \in ViewAccount /\ NoAccount.exists = FALSE
      /\ NoAccount.nonce = 0 /\ NoAccount.balance = 0 /\ NoAccount.code = NoCode
      /\ NoAccount.storage = zero
  BY ValAssumption DEF NoAccount, ViewAccount, Codes
<1>a. acc \in Account /\ acc \in RawAccount
  BY AccountRaw DEF AccountOK
<1>o. o \in Observation /\ AbsentOK(o, view) /\ CodeOK(o, view) /\ LifeOK(o, view)
  BY DEF ObservationOK
<1>u. ApplyEntry(view, Unchanged) = view /\ ApplyEntry(view, Deleted) = NoAccount
  BY DEF ApplyEntry, Unchanged, Deleted
<1>1. CASE ~acc.loaded
  <2>1. DiffEntry(acc, Rev) = Unchanged
    BY <1>1 DEF DiffEntry
  <2>2. /\ o.exists = view.exists
        /\ o.nonce = view.nonce /\ o.balance = view.balance
        /\ o.code = view.code
        /\ o.storage = [k \in Key |-> IF acc.storage[k].loaded
                           THEN acc.storage[k].current ELSE view.storage[k]]
        /\ ~o.destructed /\ ~o.erase_if_empty
    BY <1>1, ObservedUnloaded
  <2>3. o.storage = view.storage
    <3>1. LoadedOK(acc, view) /\ SlotsOK(acc, view)
      BY DEF AccountOK
    <3>2. \A k \in Key : (IF acc.storage[k].loaded
                          THEN acc.storage[k].current ELSE view.storage[k]) = view.storage[k]
      BY <1>1, <3>1 DEF LoadedOK, SlotsOK
    <3>3. view.storage = [k \in Key |-> view.storage[k]]
      BY DEF ViewAccount
    <3> QED
      BY <2>2, <3>2, <3>3
  <2>4. FinalAccount(o) = view
    <3>1. CASE ~view.exists
      BY <2>2, <3>1 DEF FinalAccount
    <3>2. CASE view.exists
      <4>1. FinalAccount(o) = [exists |-> TRUE, nonce |-> view.nonce, balance |-> view.balance,
                               code |-> view.code, storage |-> view.storage]
        BY <2>2, <2>3, <3>2 DEF FinalAccount
      <4>2. view.exists = TRUE
        BY <3>2 DEF ViewAccount
      <4> QED
        BY <4>1, <4>2 DEF ViewAccount
    <3> QED
      BY <3>1, <3>2
  <2> QED
    BY <1>u, <2>1, <2>4
<1>2. CASE acc.loaded /\ acc.nonexistent
  <2>1. DiffEntry(acc, Rev) = Unchanged
    BY <1>2 DEF DiffEntry
  <2>2. ~o.exists
    BY <1>2, <1>a, ObservedShows DEF Shows
  <2>3. view = NoAccount
    BY <1>o, <2>2 DEF AbsentOK
  <2>4. FinalAccount(o) = NoAccount
    BY <2>2 DEF FinalAccount
  <2> QED
    BY <1>u, <1>z, <2>1, <2>3, <2>4
<1>3. CASE acc.loaded /\ ~acc.nonexistent
  <2>s. Shows(o, acc, view)
    BY <1>3, <1>a, ObservedShows
  <2>x. o.exists
    BY <1>3, <2>s DEF Shows
  <2>e. IsEmpty(acc) = WorldAccountEmpty(o)
    BY <2>s DEF Shows, IsEmpty, WorldAccountEmpty
  <2>1. CASE acc.destructed /\ Rev >= AMSTERDAM /\ acc.balance # 0
    <3> DEFINE d == [op |-> "modified", nonce |-> 0, balance |-> acc.balance,
                     has_code |-> FALSE, code |-> NoCode, storage |-> << >>]
    <3>1. DiffEntry(acc, Rev) = d
      BY <1>3, <2>1 DEF DiffEntry
    <3>2. /\ d.op = "modified" /\ d.nonce = 0 /\ d.balance = acc.balance
          /\ d.has_code = FALSE /\ DOMAIN d.storage = {}
      OBVIOUS
    <3>3. o.just_created
      <4>1. Rev >= CANCUN
        BY <2>1, RevAssumption DEF Revisions, AMSTERDAM, CANCUN
      <4> QED
        BY <1>o, <2>1, <2>s, <4>1 DEF LifeOK, Shows
    <3>4. view.code = NoCode /\ \A k \in Key : view.storage[k] = 0
      BY <1>o, <3>3 DEF LifeOK
    <3> HIDE DEF d
    <3>5. ApplyEntry(view, d) = [exists |-> TRUE, nonce |-> 0, balance |-> acc.balance,
                                 code |-> NoCode, storage |-> zero]
      BY <3>2, <3>4 DEF ApplyEntry
    <3>6. FinalAccount(o) = [NoAccount EXCEPT !.exists = TRUE, !.balance = acc.balance]
      BY <2>1, <2>s, <2>x DEF FinalAccount, Shows
    <3>7. [NoAccount EXCEPT !.exists = TRUE, !.balance = acc.balance]
            = [exists |-> TRUE, nonce |-> 0, balance |-> acc.balance,
               code |-> NoCode, storage |-> zero]
      <4> DEFINE b == acc.balance
                 p == [NoAccount EXCEPT !.exists = TRUE, !.balance = b]
      <4> HIDE DEF zero, b
      <4>1. b \in Nat
        BY <1>a DEF Account, b
      <4>2. /\ p \in ViewAccount /\ p.exists = TRUE /\ p.balance = b
            /\ p.nonce = 0 /\ p.code = NoCode /\ p.storage = zero
        BY ONLY <1>z, <4>1 DEF ViewAccount
      <4> HIDE DEF p
      <4>3. p = [exists |-> TRUE, nonce |-> 0, balance |-> b, code |-> NoCode,
                 storage |-> zero]
        BY ONLY <4>2 DEF ViewAccount
      <4> QED
        BY <4>3 DEF p, b
    <3>8. [exists |-> TRUE, nonce |-> 0, balance |-> acc.balance,
           code |-> NoCode, storage |-> zero] \in ViewAccount
      BY <1>a, <1>z DEF ViewAccount, Account, Codes
    <3> QED
      BY <3>1, <3>5, <3>6, <3>7, <3>8
  <2>2. CASE acc.destructed /\ ~(Rev >= AMSTERDAM /\ acc.balance # 0)
    <3>1. DiffEntry(acc, Rev) = Deleted
      BY <1>3, <2>2 DEF DiffEntry
    <3>2. FinalAccount(o) = NoAccount
      BY <2>2, <2>s, <2>x DEF FinalAccount, Shows
    <3> QED
      BY <1>u, <1>z, <3>1, <3>2
  <2>3. CASE ~acc.destructed /\ acc.erase_if_empty /\ Rev >= SPURIOUS_DRAGON /\ IsEmpty(acc)
    <3>1. ~acc.just_created
      BY <2>3, <2>s DEF Shows, IsEmpty
    <3>2. DiffEntry(acc, Rev) = Deleted
      BY <1>3, <2>3, <3>1 DEF DiffEntry
    <3>3. FinalAccount(o) = NoAccount
      BY <2>3, <2>e, <2>s, <2>x DEF FinalAccount, Shows
    <3> QED
      BY <1>u, <1>z, <3>2, <3>3
  <2>4. CASE ~acc.destructed /\ ~(acc.erase_if_empty /\ Rev >= SPURIOUS_DRAGON /\ IsEmpty(acc))
    <3> DEFINE d == ModifiedAccount(acc)
    <3>1. DiffEntry(acc, Rev) = d
      BY <1>3, <2>4 DEF DiffEntry
    <3>2. /\ d.op = "modified" /\ d.nonce = acc.nonce /\ d.balance = acc.balance
          /\ d.has_code = acc.code_changed /\ d.code = acc.code
          /\ [k \in Key |-> IF k \in DOMAIN d.storage THEN d.storage[k] ELSE view.storage[k]]
               = o.storage
      <4> DEFINE changed == {k \in Key : acc.storage[k].current # acc.storage[k].original}
                 c == [k \in changed |-> acc.storage[k].current]
      <4>1. /\ d.op = "modified" /\ d.nonce = acc.nonce /\ d.balance = acc.balance
            /\ d.has_code = acc.code_changed /\ d.code = acc.code /\ d.storage = c
        BY DEF ModifiedAccount
      <4>2. [k \in Key |-> IF k \in DOMAIN c THEN c[k] ELSE view.storage[k]]
              = [k \in Key |-> IF acc.storage[k].loaded
                               THEN acc.storage[k].current ELSE view.storage[k]]
        BY <1>3, StorageExact
      <4> HIDE DEF d, c
      <4> QED
        BY <2>s, <4>1, <4>2 DEF Shows
    <3> HIDE DEF d
    <3>3. (IF d.has_code THEN d.code ELSE view.code) = o.code
      <4>1. CASE acc.code_changed
        BY <2>s, <3>2, <4>1 DEF AccountOK, CacheOK, Shows
      <4>2. CASE ~acc.code_changed
        BY <1>o, <2>s, <3>2, <4>2 DEF CodeOK, Shows
      <4> QED
        BY <4>1, <4>2
    <3> DEFINE v == [exists |-> TRUE, nonce |-> o.nonce, balance |-> o.balance,
                     code |-> o.code, storage |-> o.storage]
    <3>4. ApplyEntry(view, d) = v
      <4> DEFINE st == [k \in Key |-> IF k \in DOMAIN d.storage
                                      THEN d.storage[k] ELSE view.storage[k]]
      <4>1. ApplyEntry(view, d) =
              [exists |-> TRUE, nonce |-> d.nonce, balance |-> d.balance,
               code |-> IF d.has_code THEN d.code ELSE view.code,
               storage |-> st]
        BY <3>2 DEF ApplyEntry
      <4>2. d.nonce = o.nonce /\ d.balance = o.balance /\ st = o.storage
        BY <2>s, <3>2 DEF Shows
      <4> HIDE DEF st
      <4> QED
        BY <3>3, <4>1, <4>2
    <3>5. FinalAccount(o) = v
      BY <2>4, <2>e, <2>s, <2>x DEF FinalAccount, Shows
    <3>6. v \in ViewAccount /\ v.exists
      BY <1>o DEF Observation, ViewAccount
    <3> QED
      BY <3>1, <3>4, <3>5, <3>6
  <2> QED
    BY <2>1, <2>2, <2>3, <2>4
<1> QED
  BY <1>1, <1>2, <1>3

(* The diff of a whole state gives well-formed views again. *)
LEMMA DiffExact ==
    ASSUME NEW s, Good(s)
    PROVE  LET views == ApplyDiff(s.initial, BuildDiff(s, Rev))
           IN  /\ views = [a \in Addr |-> FinalAccount(World(s)[a])]
               /\ ViewsOK(views)
<1> DEFINE d == BuildDiff(s, Rev)
           views == ApplyDiff(s.initial, d)
<1>1. StateOK(s) /\ WorldOK(World(s), s.initial)
  BY DEF Good
<1>2. d.accounts = [a \in Addr |-> DiffEntry(s.modified[a], Rev)]
  BY DEF BuildDiff
<1> HIDE DEF d
<1>3. views = [a \in Addr |-> ApplyEntry(s.initial[a], DiffEntry(s.modified[a], Rev))]
  BY <1>2 DEF ApplyDiff
<1>4. ASSUME NEW a \in Addr
      PROVE  LET v == FinalAccount(World(s)[a])
             IN  /\ ApplyEntry(s.initial[a], DiffEntry(s.modified[a], Rev)) = v
                 /\ v \in ViewAccount
                 /\ ~v.exists => v = NoAccount
  <2> DEFINE o == World(s)[a]
  <2>1. /\ s.initial[a] \in ViewAccount /\ AccountOK(s.modified[a], s.initial[a])
        /\ ~s.initial[a].exists => s.initial[a] = NoAccount
    BY <1>1, StateFields
  <2>2. o = Observed(s.modified[a], s.initial[a])
    BY WorldAt
  <2>3. ObservationOK(o, s.initial[a])
    BY <1>1 DEF WorldOK
  <2>4. Rev >= SPURIOUS_DRAGON /\ o.just_created => o.nonce > 0
    BY <1>1 DEF WorldOK, CreatedOK
  <2> HIDE DEF o
  <2> QED
    BY <2>1, <2>2, <2>3, <2>4, DiffEntryExact DEF o
<1>5. views = [a \in Addr |-> FinalAccount(World(s)[a])]
  BY <1>3, <1>4
<1> HIDE DEF views
<1>6. ViewsOK(views)
  BY <1>4, <1>5 DEF ViewsOK
<1> QED
  BY <1>5, <1>6 DEF views, d

-----------------------------------------------------------------------------
(* The open calls and the journal. *)

\* The account that frame f executes for is there, and is a contract.
Alive(f, w) ==
    /\ w[f.recipient].exists /\ Contract(w, f.recipient)
    /\ f.kind = "CREATE" => w[f.recipient].just_created

\* Frame j of the stack fs, when w labels the journal of s: its checkpoint is
\* a label, and its account is alive in all the labels from fl[j] on.
FrameOK(s, base, fs, w, fl, j) ==
    LET f == fs[j]
        n == Len(s.journal)
    IN  /\ base <= f.state_checkpoint /\ f.state_checkpoint <= n
        /\ w[f.state_checkpoint + 1] = f.checkpoint.world
        /\ f.state_checkpoint < fl[j]
        /\ f.exec = "code" => \A i \in fl[j]..(n + 1) : Alive(f, w[i])
        /\ f.kind = "CREATE" /\ fl[j] <= n + 1 =>
              /\ f.exec = "code"
              /\ f.state_checkpoint + 2 <= fl[j]
              /\ Clears(s.journal[fl[j] - 1]) /\ s.journal[fl[j] - 1].acc = f.recipient
        /\ f.step = "run" => fl[j] <= n + 1
        /\ f.exec = "code" /\ f.step = "run" => s.modified[f.recipient].loaded
        /\ \A k \in (j + 1)..Len(fs) : fl[j] <= fs[k].state_checkpoint + 1
        /\ j < Len(fs) => f.step = "run" /\ f.exec = "code"

\* x, the sender of the transaction, is there in all labels.
Layout(s, base, fs, x, w, fl) ==
    /\ Labels(s, base, w)
    /\ fl \in [Nat -> Nat]
    /\ x \in Addr /\ s.modified[x].loaded
    /\ \A i \in (base + 1)..(Len(s.journal) + 1) : w[i][x].exists
    /\ \A j \in 1..Len(fs) : FrameOK(s, base, fs, w, fl, j)

Emitters == Addr \cup {SYSTEM_ADDRESS}

FrameType ==
    [kind : {"CALL", "CALLCODE", "DELEGATECALL", "CREATE"},
     sender : Addr, recipient : Addr, exec : {"code", "precompile", "empty"},
     static : BOOLEAN, step : {"run", "collision", "rollback"},
     ripemd_touched : BOOLEAN, state_checkpoint : Nat, logs_checkpoint : Nat,
     checkpoint : [world : Worlds, log : Seq(Emitters)]]

LEMMA AliveGrows ==
    ASSUME NEW f \in FrameType, NEW w, NEW w2, Grows(w, w2), Alive(f, w)
    PROVE  Alive(f, w2)
<1>1. f.recipient \in Addr
  BY DEF FrameType
<1> QED
  BY <1>1 DEF Alive, Contract, Grows, Growth

(* What a running program does. *)
LEMMA LayoutExtends ==
    ASSUME NEW s, Good(s), NEW t, Extends(s, t), NEW base, NEW fs \in Seq(FrameType),
           NEW x, NEW w, NEW fl, Layout(s, base, fs, x, w, fl),
           \A j \in 1..Len(fs) : fs[j].step = "run"
    PROVE  \E w2 : Layout(t, base, fs, x, w2, fl) /\ Continued(w, w2, s, t)
<1> DEFINE n == Len(s.journal)
           m == Len(t.journal)
<1>1. PICK w2 : Labels(t, base, w2) /\ Continued(w, w2, s, t)
  BY LabelsExtend DEF Layout
<1>2. /\ n \in Nat /\ m \in Nat /\ n <= m /\ base \in Nat /\ base <= n
      /\ \A i \in 1..n : t.journal[i] = s.journal[i]
      /\ \A a \in Addr : KeepsLoaded(s.modified[a], t.modified[a])
      /\ w[n + 1] = World(s) /\ Grows(World(s), World(t))
  BY StateFields, ExtendsFacts DEF Good, Extends, Layout, Labels
<1>3. /\ \A i \in 1..(n + 1) : w2[i] = w[i]
      /\ \A i \in (n + 1)..(m + 1) : Grows(World(s), w2[i])
  BY <1>1 DEF Continued
<1>4. x \in Addr /\ t.modified[x].loaded /\ fl \in [Nat -> Nat]
  BY <1>2 DEF Layout, KeepsLoaded
<1> HIDE DEF n, m
<1>5. ASSUME NEW i \in (base + 1)..(m + 1) PROVE w2[i][x].exists
  <2>1. \A k \in (base + 1)..(n + 1) : w[k][x].exists
    BY DEF Layout, n
  <2>2. CASE i <= n + 1
    BY <1>2, <1>3, <2>1, <2>2
  <2>3. CASE i > n + 1
    <3>1. World(s)[x].exists
      BY <1>2, <2>1
    <3>2. Grows(World(s), w2[i])
      BY <1>2, <1>3, <2>3
    <3> QED
      BY <1>4, <3>1, <3>2 DEF Grows, Growth
  <2> QED
    BY <1>2, <2>2, <2>3
<1>6. ASSUME NEW j \in 1..Len(fs) PROVE FrameOK(t, base, fs, w2, fl, j)
  <2> DEFINE f == fs[j]
             c == f.state_checkpoint
             p == fl[j]
  <2>0. FrameOK(s, base, fs, w, fl, j)
    BY DEF Layout
  <2>1. f \in FrameType /\ c \in Nat /\ p \in Nat
    <3>1. Len(fs) \in Nat /\ f \in FrameType
      BY ElementOfSeq, LenProperties
    <3>2. j \in Nat
      BY <3>1
    <3> QED
      BY <1>4, <3>1, <3>2 DEF FrameType
  <2>2. /\ base <= c /\ c <= n /\ w[c + 1] = f.checkpoint.world /\ c < p
        /\ f.exec = "code" => \A i \in p..(n + 1) : Alive(f, w[i])
        /\ p <= n + 1
    BY <2>0 DEF FrameOK, n
  <2>3. /\ f.kind = "CREATE" =>
              /\ f.exec = "code" /\ c + 2 <= p
              /\ Clears(s.journal[p - 1]) /\ s.journal[p - 1].acc = f.recipient
        /\ f.exec = "code" => s.modified[f.recipient].loaded
        /\ \A k \in (j + 1)..Len(fs) : p <= fs[k].state_checkpoint + 1
        /\ j < Len(fs) => f.exec = "code"
    BY <2>0, <2>2 DEF FrameOK, n
  <2>s. f.step = "run"
    OBVIOUS
  <2> HIDE DEF f, c, p
  <2>4. w2[c + 1] = f.checkpoint.world
    BY <1>2, <1>3, <2>1, <2>2
  <2>5. ASSUME f.exec = "code", NEW i \in p..(m + 1) PROVE Alive(f, w2[i])
    <3>1. CASE i <= n + 1
      BY <1>2, <1>3, <2>1, <2>2, <2>5, <3>1
    <3>2. CASE i > n + 1
      <4>1. Alive(f, World(s))
        BY <1>2, <2>1, <2>2, <2>5
      <4>2. Grows(World(s), w2[i])
        BY <1>2, <1>3, <2>1, <3>2
      <4> QED
        BY <2>1, <4>1, <4>2, AliveGrows
    <3> QED
      BY <1>2, <2>1, <3>1, <3>2
  <2>6. f.kind = "CREATE" => Clears(t.journal[p - 1]) /\ t.journal[p - 1].acc = f.recipient
    BY <1>2, <2>1, <2>2, <2>3
  <2>7. f.exec = "code" => t.modified[f.recipient].loaded
    BY <1>2, <2>1, <2>3 DEF KeepsLoaded, FrameType
  <2>8. c <= m /\ p <= m + 1
    BY <1>2, <2>1, <2>2
  <2> QED
    BY <2>2, <2>3, <2>s, <2>4, <2>5, <2>6, <2>7, <2>8 DEF FrameOK, f, c, p, m
<1> QED
  BY <1>1, <1>4, <1>5, <1>6 DEF Layout, m

(* Looking something up. *)
LEMMA LayoutQuiet ==
    ASSUME NEW s, NEW t, Quiet(s, t), NEW base, NEW fs \in Seq(FrameType),
           NEW x, NEW w, NEW fl, Layout(s, base, fs, x, w, fl)
    PROVE  Layout(t, base, fs, x, w, fl)
<1>1. /\ t.journal = s.journal /\ t.initial = s.initial /\ World(t) = World(s)
      /\ \A a \in Addr : KeepsLoaded(s.modified[a], t.modified[a])
  BY DEF Quiet, Extends
<1>2. Labels(t, base, w)
  BY <1>1 DEF Layout, Labels
<1>3. ASSUME NEW j \in 1..Len(fs) PROVE FrameOK(t, base, fs, w, fl, j)
  <2>1. FrameOK(s, base, fs, w, fl, j)
    BY DEF Layout
  <2>2. fs[j].recipient \in Addr
    <3>1. fs[j] \in FrameType
      BY ElementOfSeq
    <3> QED
      BY <3>1 DEF FrameType
  <2>3. s.modified[fs[j].recipient].loaded => t.modified[fs[j].recipient].loaded
    BY <1>1, <2>2 DEF KeepsLoaded
  <2> QED
    BY <1>1, <2>1, <2>3 DEF FrameOK
<1> QED
  BY <1>1, <1>2, <1>3 DEF Layout, KeepsLoaded

\* The calls fs without the innermost one.
IsPop(gs, fs) ==
    /\ gs \in Seq(FrameType) /\ Len(gs) = Len(fs) - 1
    /\ \A j \in 1..Len(gs) : gs[j] = fs[j]

LEMMA PopFrames ==
    ASSUME NEW fs \in Seq(FrameType), fs # << >>
    PROVE  IsPop(SubSeq(fs, 1, Len(fs) - 1), fs)
<1> DEFINE gs == SubSeq(fs, 1, Len(fs) - 1)
<1>1. Len(fs) \in Nat /\ Len(fs) > 0
  BY LenProperties, EmptySeq
<1>2. /\ gs \in Seq(FrameType) /\ Len(gs) = Len(fs) - 1
      /\ \A j \in 1..Len(gs) : gs[j] = fs[j]
  <2> DEFINE m == Len(fs) - 1
  <2>1. m \in Int /\ m \in Nat /\ 1 \in Int /\ m - 1 + 1 = m
    BY <1>1
  <2>2. \A i \in 1..m : fs[i] \in FrameType
    BY <1>1, ElementOfSeq
  <2> HIDE DEF m
  <2>3. /\ SubSeq(fs, 1, m) \in Seq(FrameType)
        /\ Len(SubSeq(fs, 1, m)) = IF 1 <= m THEN m - 1 + 1 ELSE 0
        /\ \A i \in 1..(m - 1 + 1) : SubSeq(fs, 1, m)[i] = fs[1 + i - 1]
    BY <2>1, <2>2, SubSeqProperties
  <2>4. gs = SubSeq(fs, 1, m)
    BY DEF m
  <2>5. gs \in Seq(FrameType) /\ Len(gs) = m
    BY <2>1, <2>3, <2>4
  <2>6. \A j \in 1..m : gs[j] = fs[j]
    BY <2>1, <2>3, <2>4
  <2> QED
    BY <2>5, <2>6 DEF m
<1> QED
  BY <1>2 DEF IsPop

(* The innermost call is closed. *)
LEMMA LayoutPop ==
    ASSUME NEW s, NEW base, NEW fs \in Seq(FrameType), fs # << >>,
           NEW x, NEW w, NEW fl, Layout(s, base, fs, x, w, fl),
           NEW gs, IsPop(gs, fs)
    PROVE  Layout(s, base, gs, x, w, fl)
<1>1. Len(fs) \in Nat /\ Len(fs) > 0
  BY LenProperties, EmptySeq
<1>2. /\ gs \in Seq(FrameType) /\ Len(gs) = Len(fs) - 1
      /\ \A j \in 1..Len(gs) : gs[j] = fs[j]
  BY DEF IsPop
<1>3. ASSUME NEW j \in 1..Len(gs)
      PROVE  FrameOK(s, base, gs, w, fl, j) /\ gs[j].step = "run"
  <2>1. j \in 1..Len(fs) /\ j < Len(fs) /\ gs[j] = fs[j]
    BY <1>1, <1>2
  <2>2. FrameOK(s, base, fs, w, fl, j)
    BY <2>1 DEF Layout
  <2>3. \A k \in (j + 1)..Len(gs) : fl[j] <= gs[k].state_checkpoint + 1
    <3>1. ASSUME NEW k \in (j + 1)..Len(gs) PROVE k \in (j + 1)..Len(fs) /\ gs[k] = fs[k]
      BY <1>1, <1>2, <2>1
    <3>2. \A k \in (j + 1)..Len(fs) : fl[j] <= fs[k].state_checkpoint + 1
      BY <2>2 DEF FrameOK
    <3> QED
      BY <3>1, <3>2
  <2>4. fs[j].step = "run" /\ fs[j].exec = "code"
    BY <2>1, <2>2 DEF FrameOK
  <2> QED
    BY <2>1, <2>2, <2>3, <2>4 DEF FrameOK
<1> QED
  BY <1>2, <1>3 DEF Layout

\* A frame f with its checkpoint at c, alive from m on.
Opened(s, base, w, f, m) ==
    /\ base <= f.state_checkpoint /\ f.state_checkpoint <= Len(s.journal)
    /\ w[f.state_checkpoint + 1] = f.checkpoint.world
    /\ m \in Nat /\ f.state_checkpoint < m
    /\ f.exec = "code" => \A i \in m..(Len(s.journal) + 1) : Alive(f, w[i])
    /\ f.kind = "CREATE" /\ m <= Len(s.journal) + 1 =>
          /\ f.exec = "code"
          /\ f.state_checkpoint + 2 <= m
          /\ Clears(s.journal[m - 1]) /\ s.journal[m - 1].acc = f.recipient
    /\ f.step = "run" => m <= Len(s.journal) + 1
    /\ f.exec = "code" /\ f.step = "run" => s.modified[f.recipient].loaded

(* A call is opened by running programs. *)
LEMMA LayoutPush ==
    ASSUME NEW s, NEW base, NEW fs \in Seq(FrameType), NEW f \in FrameType,
           NEW x, NEW w, NEW fl, Layout(s, base, fs, x, w, fl),
           \A j \in 1..Len(fs) : /\ fs[j].step = "run" /\ fs[j].exec = "code"
                                 /\ fl[j] <= f.state_checkpoint + 1,
           NEW m, Opened(s, base, w, f, m)
    PROVE  Layout(s, base, Append(fs, f), x, w, [fl EXCEPT ![Len(fs) + 1] = m])
<1> DEFINE gs == Append(fs, f)
           gl == [fl EXCEPT ![Len(fs) + 1] = m]
<1>1. /\ Len(fs) \in Nat /\ gs \in Seq(FrameType) /\ Len(gs) = Len(fs) + 1
      /\ gs[Len(fs) + 1] = f /\ \A j \in 1..Len(fs) : gs[j] = fs[j]
  BY LenProperties, AppendProperties
<1>2. /\ gl \in [Nat -> Nat] /\ gl[Len(fs) + 1] = m
      /\ \A j \in 1..Len(fs) : gl[j] = fl[j]
  <2>1. fl \in [Nat -> Nat] /\ m \in Nat /\ Len(fs) + 1 \in Nat
    <3>1. fl \in [Nat -> Nat]
      BY DEF Layout
    <3>2. m \in Nat
      BY DEF Opened
    <3>3. Len(fs) \in Nat
      BY LenProperties
    <3> QED
      BY ONLY <3>1, <3>2, <3>3
  <2>2. ASSUME NEW j \in 1..Len(fs) PROVE gl[j] = fl[j]
    <3>1. j \in Nat /\ j # Len(fs) + 1
      BY <1>1
    <3> QED
      BY <2>1, <3>1
  <2> QED
    BY <2>1, <2>2
<1> HIDE DEF gs, gl
<1>3. ASSUME NEW j \in 1..Len(fs) PROVE FrameOK(s, base, gs, w, gl, j)
  <2>1. FrameOK(s, base, fs, w, fl, j)
    BY DEF Layout
  <2>2. ASSUME NEW k \in (j + 1)..Len(gs) PROVE fl[j] <= gs[k].state_checkpoint + 1
    <3>1. CASE k <= Len(fs)
      <4>1. k \in (j + 1)..Len(fs) /\ k \in 1..Len(fs)
        BY <1>1, <3>1
      <4> QED
        BY <1>1, <2>1, <4>1 DEF FrameOK
    <3>2. CASE k = Len(fs) + 1
      BY <1>1, <3>2
    <3> QED
      BY <1>1, <3>1, <3>2
  <2>3. gs[j] = fs[j] /\ gl[j] = fl[j] /\ fs[j].step = "run" /\ fs[j].exec = "code"
    BY <1>1, <1>2
  <2> QED
    BY <2>1, <2>2, <2>3 DEF FrameOK
<1>4. FrameOK(s, base, gs, w, gl, Len(fs) + 1)
  <2>1. (Len(fs) + 1 + 1)..Len(gs) = {} /\ ~(Len(fs) + 1 < Len(gs))
    BY <1>1
  <2>2. gs[Len(fs) + 1] = f /\ gl[Len(fs) + 1] = m
    BY <1>1, <1>2
  <2> QED
    BY <2>1, <2>2 DEF FrameOK, Opened
<1>5. ASSUME NEW j \in 1..Len(gs) PROVE FrameOK(s, base, gs, w, gl, j)
  <2>1. j \in 1..Len(fs) \/ j = Len(fs) + 1
    BY <1>1
  <2> QED
    BY <1>3, <1>4, <2>1
<1> QED
  BY <1>2, <1>5 DEF Layout, gs, gl

RollsBack(fs, touched) ==
    [fs EXCEPT ![Len(fs)] = [@ EXCEPT !.step = "rollback", !.ripemd_touched = touched]]

\* gs are the calls fs with rollback() begun in the innermost one.
IsRolled(gs, fs, touched) ==
    LET f == fs[Len(fs)]
        g == gs[Len(fs)]
    IN  /\ gs \in Seq(FrameType) /\ Len(gs) = Len(fs)
        /\ \A j \in 1..Len(fs) : j # Len(fs) => gs[j] = fs[j]
        /\ g.kind = f.kind /\ g.exec = f.exec /\ g.step = "rollback"
        /\ g.recipient = f.recipient /\ g.state_checkpoint = f.state_checkpoint
        /\ g.checkpoint = f.checkpoint /\ g.logs_checkpoint = f.logs_checkpoint
        /\ g.ripemd_touched = touched

LEMMA RolledFrames ==
    ASSUME NEW fs \in Seq(FrameType), fs # << >>, NEW touched \in BOOLEAN
    PROVE  IsRolled(RollsBack(fs, touched), fs, touched)
<1> DEFINE f == fs[Len(fs)]
           g == [f EXCEPT !.step = "rollback", !.ripemd_touched = touched]
           gs == RollsBack(fs, touched)
<1>1. Len(fs) \in Nat /\ Len(fs) \in 1..Len(fs) /\ f \in FrameType
  BY LenProperties, EmptySeq, ElementOfSeq
<1>2. /\ g \in FrameType /\ g.kind = f.kind /\ g.exec = f.exec /\ g.step = "rollback"
      /\ g.recipient = f.recipient /\ g.state_checkpoint = f.state_checkpoint
      /\ g.checkpoint = f.checkpoint /\ g.logs_checkpoint = f.logs_checkpoint
      /\ g.ripemd_touched = touched
  <2> HIDE DEF f
  <2> QED
    BY <1>1 DEF FrameType
<1>3. gs = [fs EXCEPT ![Len(fs)] = g]
  BY DEF RollsBack
<1> HIDE DEF g, gs
<1>4. /\ gs \in Seq(FrameType) /\ Len(gs) = Len(fs) /\ gs[Len(fs)] = g
      /\ \A j \in 1..Len(fs) : j # Len(fs) => gs[j] = fs[j]
  <2>1. fs \in Seq(FrameType)
    OBVIOUS
  <2> HIDE DEF f
  <2>2. [fs EXCEPT ![Len(fs)] = g] \in Seq(FrameType)
    BY ONLY <1>1, <1>2, <2>1, ExceptSeq
  <2>3. /\ Len([fs EXCEPT ![Len(fs)] = g]) = Len(fs) /\ [fs EXCEPT ![Len(fs)] = g][Len(fs)] = g
        /\ \A j \in 1..Len(fs) : j # Len(fs) => [fs EXCEPT ![Len(fs)] = g][j] = fs[j]
    BY ONLY <1>1, <1>2, <2>1, ExceptSeq
  <2> QED
    BY <1>3, <2>2, <2>3
<1> QED
  BY <1>2, <1>4 DEF IsRolled, gs

(* The innermost call is seen to have failed. *)
LEMMA LayoutStep ==
    ASSUME NEW s, NEW base, NEW fs \in Seq(FrameType), fs # << >>,
           NEW x, NEW w, NEW fl, Layout(s, base, fs, x, w, fl),
           NEW touched, NEW gs, IsRolled(gs, fs, touched)
    PROVE  Layout(s, base, gs, x, w, fl)
<1> DEFINE f == fs[Len(fs)]
           g == gs[Len(fs)]
<1>1. Len(fs) \in Nat /\ Len(fs) \in 1..Len(fs)
  BY LenProperties, EmptySeq
<1>2. /\ g.kind = f.kind /\ g.exec = f.exec /\ g.step = "rollback"
      /\ g.recipient = f.recipient /\ g.state_checkpoint = f.state_checkpoint
      /\ g.checkpoint = f.checkpoint
  BY DEF IsRolled
<1>4. /\ gs \in Seq(FrameType) /\ Len(gs) = Len(fs) /\ gs[Len(fs)] = g
      /\ \A j \in 1..Len(fs) : j # Len(fs) => gs[j] = fs[j]
  BY DEF IsRolled
<1>5. \A j \in 1..Len(fs) : gs[j].state_checkpoint = fs[j].state_checkpoint
  BY <1>2, <1>4
<1> HIDE DEF g
<1>6. ASSUME NEW j \in 1..Len(fs) PROVE FrameOK(s, base, gs, w, fl, j)
  <2>1. FrameOK(s, base, fs, w, fl, j)
    BY DEF Layout
  <2>2. \A k \in (j + 1)..Len(gs) : fl[j] <= gs[k].state_checkpoint + 1
    <3>1. \A k \in (j + 1)..Len(fs) : k \in 1..Len(fs)
      BY <1>1
    <3> QED
      BY <1>4, <1>5, <2>1, <3>1 DEF FrameOK
  <2>3. CASE j # Len(fs)
    BY <1>4, <2>1, <2>2, <2>3 DEF FrameOK
  <2>4. CASE j = Len(fs)
    <3>1. \A v : Alive(f, v) => Alive(g, v)
      BY <1>2 DEF Alive
    <3>2. gs[j] = g /\ fs[j] = f /\ ~(j < Len(gs)) /\ g.step # "run"
      BY <1>1, <1>2, <1>4, <2>4
    <3> QED
      BY <1>2, <2>1, <2>2, <3>1, <3>2 DEF FrameOK
  <2> QED
    BY <2>3, <2>4
<1> QED
  BY <1>4, <1>6 DEF Layout, g

(* One entry of the journal is undone. *)
LEMMA LayoutUndo ==
    ASSUME NEW s, Good(s), NEW base, NEW fs \in Seq(FrameType), fs # << >>,
           NEW x, NEW w, NEW fl, Layout(s, base, fs, x, w, fl),
           fs[Len(fs)].step = "rollback",
           Len(s.journal) > fs[Len(fs)].state_checkpoint
    PROVE  /\ Layout(UndoLast(s), base, fs, x, w, fl) /\ Good(UndoLast(s))
           /\ UndoLast(s).initial = s.initial
           /\ \A a \in Addr : KeepsLoaded(s.modified[a], UndoLast(s).modified[a])
           /\ UndoAsserts(s.modified[s.journal[Len(s.journal)].acc], s.journal[Len(s.journal)])
<1> DEFINE n == Len(s.journal)
           t == UndoLast(s)
           c == fs[Len(fs)].state_checkpoint
<1>1. /\ Len(fs) \in Nat /\ Len(fs) \in 1..Len(fs)
      /\ \A j \in 1..Len(fs) : /\ fs[j] \in FrameType /\ fs[j].state_checkpoint \in Nat
                               /\ fs[j].recipient \in Addr
  <2>1. Len(fs) \in Nat /\ Len(fs) \in 1..Len(fs)
    BY LenProperties, EmptySeq
  <2>2. \A j \in 1..Len(fs) : fs[j] \in FrameType
    BY ElementOfSeq
  <2> QED
    BY <2>1, <2>2 DEF FrameType
<1>2. StateOK(s) /\ n \in Nat /\ s.journal \in Seq(JournalEntry) /\ WorldOK(World(s), s.initial)
  BY StateFields DEF Good
<1>3. /\ w \in [Nat -> Worlds] /\ base \in Nat /\ base <= n /\ w[n + 1] = World(s)
      /\ \A i \in (base + 1)..(n + 1) : WorldOK(w[i], s.initial)
      /\ \A i \in (base + 1)..n : Undoes(w[i], s.journal[i], w[i + 1], s.initial)
      /\ fl \in [Nat -> Nat] /\ x \in Addr /\ s.modified[x].loaded
      /\ \A i \in (base + 1)..(n + 1) : w[i][x].exists
  BY DEF Layout, Labels
<1>4. base <= c /\ c < n /\ c \in Nat
  <2>1. FrameOK(s, base, fs, w, fl, Len(fs))
    BY <1>1 DEF Layout
  <2> QED
    BY <1>1, <2>1 DEF FrameOK
<1>n. n \in Nat /\ base \in Nat /\ c \in Nat /\ base <= c /\ c < n
  BY <1>2, <1>3, <1>4
<1>5. n \in (base + 1)..n /\ n \in (base + 1)..(n + 1) /\ n > 0
  <2> HIDE DEF n, c
  <2> QED
    BY ONLY <1>n
<1>6. WorldOK(w[n], s.initial) /\ Undoes(w[n], s.journal[n], World(s), s.initial)
  BY <1>3, <1>5
<1>7. /\ StateOK(t) /\ World(t) = w[n]
      /\ t.initial = s.initial
      /\ t.journal = SubSeq(s.journal, 1, n - 1)
      /\ \A a \in Addr : KeepsLoaded(s.modified[a], t.modified[a])
      /\ UndoAsserts(s.modified[s.journal[n].acc], s.journal[n])
  BY <1>2, <1>5, <1>6, UndoStep
<1> HIDE DEF t
<1>8. Len(t.journal) = n - 1 /\ \A i \in 1..(n - 1) : t.journal[i] = s.journal[i]
  <2> DEFINE m == n - 1
  <2>1. m \in Int /\ m \in Nat /\ 1 \in Int /\ m - 1 + 1 = m
    BY <1>2, <1>5
  <2>2. \A i \in 1..m : s.journal[i] \in JournalEntry
    BY <1>2, ElementOfSeq
  <2> HIDE DEF m
  <2>3. /\ Len(SubSeq(s.journal, 1, m)) = IF 1 <= m THEN m - 1 + 1 ELSE 0
        /\ \A i \in 1..(m - 1 + 1) : SubSeq(s.journal, 1, m)[i] = s.journal[1 + i - 1]
    BY <2>1, <2>2, SubSeqProperties
  <2>4. t.journal = SubSeq(s.journal, 1, m)
    BY <1>7 DEF m
  <2>5. Len(t.journal) = m
    BY <2>1, <2>3, <2>4
  <2>6. \A i \in 1..m : t.journal[i] = s.journal[i]
    BY <2>1, <2>3, <2>4
  <2> QED
    BY <2>5, <2>6 DEF m
<1> HIDE DEF n
<1>9. Labels(t, base, w)
  <2>1. base <= Len(t.journal) /\ w[Len(t.journal) + 1] = World(t)
    <3>1. base <= n - 1 /\ n - 1 + 1 = n
      BY ONLY <1>n
    <3> QED
      BY <1>7, <1>8, <3>1
  <2>2. ASSUME NEW i \in (base + 1)..(Len(t.journal) + 1)
        PROVE  WorldOK(w[i], t.initial)
    <3>1. Len(t.journal) + 1 = n
      BY <1>8, <1>n
    <3>2. i \in (base + 1)..(n + 1)
      BY <3>1, <1>n
    <3>3. WorldOK(w[i], s.initial)
      BY <1>3, <3>2
    <3> QED
      BY <1>7, <3>3
  <2>3. ASSUME NEW i \in (base + 1)..Len(t.journal)
        PROVE  Undoes(w[i], t.journal[i], w[i + 1], t.initial)
    <3>1. i \in (base + 1)..(n - 1)
      BY <1>8
    <3>2. i \in (base + 1)..n /\ i \in 1..(n - 1)
      BY ONLY <1>n, <3>1
    <3> QED
      BY <1>3, <1>7, <1>8, <3>2
  <2> QED
    BY <1>3, <2>1, <2>2, <2>3 DEF Labels
<1>10. ASSUME NEW j \in 1..Len(fs) PROVE FrameOK(t, base, fs, w, fl, j)
  <2> DEFINE f == fs[j]
             p == fl[j]
  <2>0. FrameOK(s, base, fs, w, fl, j)
    BY DEF Layout
  <2>1. j \in Nat /\ p \in Nat /\ f.state_checkpoint \in Nat /\ f.recipient \in Addr
    <3>1. j \in Nat
      BY <1>1
    <3> QED
      BY <1>1, <1>3, <3>1
  <2>2. j # Len(fs) => f.step = "run" /\ p <= c + 1
    <3>1. j # Len(fs) => j < Len(fs) /\ Len(fs) \in (j + 1)..Len(fs)
      BY <1>1
    <3> QED
      BY <2>0, <3>1 DEF FrameOK
  <2>3. f.state_checkpoint <= n - 1
    <3>1. f.state_checkpoint < p
      BY <2>0 DEF FrameOK
    <3>2. CASE j = Len(fs)
      BY <1>2, <1>4, <3>2
    <3>3. CASE j # Len(fs)
      BY <1>2, <1>4, <2>1, <2>2, <3>1, <3>3
    <3> QED
      BY <3>2, <3>3
  <2>4. f.step = "run" => p <= n
    <3>1. CASE j = Len(fs)
      BY <3>1
    <3>2. CASE j # Len(fs)
      BY <1>2, <1>4, <2>1, <2>2, <3>2
    <3> QED
      BY <3>1, <3>2
  <2>5. f.exec = "code" => \A i \in p..n : Alive(f, w[i])
    <3>1. \A i \in p..n : i \in p..(n + 1)
      BY <1>2, <2>1
    <3> QED
      BY <2>0, <3>1 DEF FrameOK, n
  <2>6. f.kind = "CREATE" /\ p <= n =>
              /\ f.exec = "code"
              /\ f.state_checkpoint + 2 <= p
              /\ Clears(t.journal[p - 1]) /\ t.journal[p - 1].acc = f.recipient
    <3>1. f.kind = "CREATE" /\ p <= n =>
              /\ f.exec = "code"
              /\ f.state_checkpoint + 2 <= p
              /\ Clears(s.journal[p - 1]) /\ s.journal[p - 1].acc = f.recipient
      BY <1>2, <2>0, <2>1 DEF FrameOK, n
    <3>2. f.kind = "CREATE" /\ p <= n => p - 1 \in 1..(n - 1)
      BY <1>2, <2>1, <3>1
    <3> QED
      BY <1>8, <3>1, <3>2
  <2>7. f.exec = "code" /\ f.step = "run" => t.modified[f.recipient].loaded
    BY <1>7, <2>0, <2>1 DEF FrameOK, KeepsLoaded
  <2>8. Len(t.journal) = n - 1 /\ n - 1 + 1 = n
    BY <1>2, <1>8
  <2> HIDE DEF f, p
  <2>9. /\ base <= f.state_checkpoint /\ w[f.state_checkpoint + 1] = f.checkpoint.world
        /\ f.state_checkpoint < p
        /\ \A k \in (j + 1)..Len(fs) : p <= fs[k].state_checkpoint + 1
        /\ j < Len(fs) => f.step = "run" /\ f.exec = "code"
    BY <2>0 DEF FrameOK, f, p
  <2> QED
    BY <2>3, <2>4, <2>5, <2>6, <2>7, <2>8, <2>9 DEF FrameOK, f, p
<1>11. t.modified[x].loaded
  BY <1>3, <1>7 DEF KeepsLoaded
<1>12. \A i \in (base + 1)..(Len(t.journal) + 1) : w[i][x].exists
  BY <1>2, <1>3, <1>8
<1> QED
  BY <1>3, <1>6, <1>7, <1>9, <1>10, <1>11, <1>12 DEF Layout, Good, t, n

-----------------------------------------------------------------------------
(* Code is deployed without an entry in the journal: it goes when the      *)
(* creation of the account is undone.                                      *)

Coded(o, code) == [o EXCEPT !.code = code, !.has_code = TRUE, !.code_changed = TRUE]

IsCoded(p, o, code) ==
    /\ p \in Observation /\ p.code = code /\ p.has_code = TRUE /\ p.code_changed = TRUE
    /\ p.exists = o.exists /\ p.nonce = o.nonce /\ p.balance = o.balance
    /\ p.storage = o.storage /\ p.warm_storage = o.warm_storage
    /\ p.transient_storage = o.transient_storage /\ p.warm = o.warm
    /\ p.destructed = o.destructed /\ p.erase_if_empty = o.erase_if_empty
    /\ p.just_created = o.just_created

LEMMA CodedFields ==
    ASSUME NEW o \in Observation, NEW code \in Codes
    PROVE  IsCoded(Coded(o, code), o, code)
  BY DEF Coded, Observation, IsCoded

LEMMA CodedOK ==
    ASSUME NEW o, NEW view, ObservationOK(o, view), o.just_created,
           NEW code \in Codes, code # NoCode
    PROVE  ObservationOK(Coded(o, code), view) /\ Growth(o, Coded(o, code))
<1> DEFINE p == Coded(o, code)
<1>1. o \in Observation /\ AbsentOK(o, view) /\ CodeOK(o, view) /\ LifeOK(o, view)
  BY DEF ObservationOK
<1>2. IsCoded(p, o, code)
  BY <1>1, CodedFields
<1> HIDE DEF p
<1>3. o.exists
  BY <1>1 DEF LifeOK
<1>4. AbsentOK(p, view)
  BY <1>2, <1>3 DEF AbsentOK, IsCoded
<1>5. CodeOK(p, view)
  BY <1>2 DEF CodeOK, IsCoded
<1>6. LifeOK(p, view)
  BY <1>1, <1>2 DEF LifeOK, IsCoded
<1>7. o.nonce \in Nat
  BY <1>1 DEF Observation
<1>8. Growth(o, p)
  BY <1>2, <1>7 DEF Growth, IsCoded
<1> QED
  BY <1>2, <1>4, <1>5, <1>6, <1>8 DEF ObservationOK, IsCoded, p

(* What undoing an entry makes of the deployed code. *)
LEMMA UndoCoded ==
    ASSUME NEW o \in Observation, NEW e \in JournalEntry, NEW code \in Codes
    PROVE  IF Clears(e) THEN UndoObservation(Coded(o, code), e) = UndoObservation(o, e)
           ELSE UndoObservation(Coded(o, code), e) = Coded(UndoObservation(o, e), code)
<1> DEFINE p == Coded(o, code)
<1>1. IsCoded(p, o, code)
  BY CodedFields
<1> HIDE DEF p
<1>2. p \in RawObservation /\ o \in RawObservation
  BY <1>1 DEF Observation, RawObservation, IsCoded
<1> DEFINE u == UndoObservation(o, e)
           v == UndoObservation(p, e)
<1>3. u \in RawObservation /\ v \in RawObservation
  BY <1>2, UndoObservationType
<1>c. Clears(e) \in BOOLEAN
  BY DEF Clears
<1>4. /\ v.exists = u.exists /\ v.nonce = u.nonce /\ v.balance = u.balance
      /\ v.storage = u.storage /\ v.warm_storage = u.warm_storage
      /\ v.transient_storage = u.transient_storage /\ v.warm = u.warm
      /\ v.destructed = u.destructed /\ v.erase_if_empty = u.erase_if_empty
      /\ v.just_created = u.just_created
  BY <1>1 DEF UndoObservation, IsCoded
<1>5. CASE Clears(e)
  <2>1. /\ v.code = NoCode /\ u.code = NoCode /\ v.has_code = FALSE /\ u.has_code = FALSE
        /\ v.code_changed = FALSE /\ u.code_changed = FALSE
    BY <1>5 DEF UndoObservation
  <2> HIDE DEF u, v
  <2>2. v = u
    BY <1>3, <1>4, <2>1, ObservationEqual
  <2> QED
    BY <1>5, <2>2 DEF u, v, p
<1>6. CASE ~Clears(e)
  <2>1. v.code = code /\ v.has_code = TRUE /\ v.code_changed = TRUE
    BY <1>1, <1>6 DEF UndoObservation, IsCoded
  <2> DEFINE q == Coded(u, code)
  <2> HIDE DEF u, v
  <2>2. /\ q \in RawObservation /\ q.code = code /\ q.has_code = TRUE /\ q.code_changed = TRUE
        /\ q.exists = u.exists /\ q.nonce = u.nonce /\ q.balance = u.balance
        /\ q.storage = u.storage /\ q.warm_storage = u.warm_storage
        /\ q.transient_storage = u.transient_storage /\ q.warm = u.warm
        /\ q.destructed = u.destructed /\ q.erase_if_empty = u.erase_if_empty
        /\ q.just_created = u.just_created
    BY <1>3 DEF Coded, RawObservation
  <2> HIDE DEF q
  <2>3. v = q
    BY <1>3, <1>4, <2>1, <2>2, ObservationEqual
  <2> QED
    BY <1>6, <2>3 DEF u, v, q, p
<1> QED
  BY <1>5, <1>6

LEMMA DeployStep ==
    ASSUME NEW s, Good(s), NEW a, Writable(s, a), World(s)[a].just_created,
           NEW code \in Codes, code # NoCode
    PROVE  LET t == DeployCode(s, a, code)
           IN  /\ Good(t) /\ t.initial = s.initial /\ t.journal = s.journal
               /\ \A b \in Addr : KeepsLoaded(s.modified[b], t.modified[b])
               /\ World(t) = [World(s) EXCEPT ![a] = Coded(World(s)[a], code)]
<1> DEFINE acc == s.modified[a]
           acc2 == [acc EXCEPT !.code_hash = code, !.code = code, !.code_changed = TRUE]
           t == [s EXCEPT !.modified[a] = acc2]
           view == s.initial[a]
           o == World(s)[a]
           o2 == Observed(acc2, view)
           q == Coded(o, code)
<1>1. a \in Addr /\ acc.loaded /\ o.exists /\ StateOK(s)
  BY DEF Writable, Good
<1>2. acc \in Account /\ AccountOK(acc, view) /\ view \in ViewAccount
  BY <1>1, StateFields
<1>3. DeployCode(s, a, code) = t
  BY DEF DeployCode
<1>5. /\ acc2 \in Account /\ acc2.balance = acc.balance
      /\ acc2.nonce = acc.nonce
      /\ acc2.nonexistent = acc.nonexistent
      /\ acc2.code_hash = code /\ acc2.code = code
      /\ acc2.storage = acc.storage /\ acc2.loaded = acc.loaded
      /\ acc2.transient_storage = acc.transient_storage
      /\ acc2.warm = acc.warm /\ acc2.erase_if_empty = acc.erase_if_empty
      /\ acc2.destructed = acc.destructed /\ acc2.just_created = acc.just_created
      /\ acc2.code_changed = TRUE
      /\ acc2.has_initial_storage = acc.has_initial_storage
  BY <1>2 DEF Account
<1>6. ~view.exists => view = NoAccount
  BY <1>1, StateFields
<1>7. Shows(o, acc, view) /\ ObservationOK(o, view) /\ o \in Observation
  BY <1>1, WorldShows DEF Good, WorldOK, ObservationOK
<1> HIDE DEF acc2, acc
<1>8. AccountOK(acc2, view)
  <2>1. CacheOK(acc2, view) /\ SlotsOK(acc2, view)
    BY <1>2, <1>5 DEF AccountOK, CacheOK, SlotsOK
  <2>2. LoadedOK(acc2, view)
    BY <1>1, <1>2, <1>5 DEF AccountOK, LoadedOK
  <2> QED
    BY <1>5, <2>1, <2>2 DEF AccountOK
<1>9. KeepsLoaded(acc, acc2)
  BY <1>5 DEF KeepsLoaded
<1>10. Shows(o2, acc2, view) /\ o2 \in Observation
  BY <1>1, <1>2, <1>5, <1>6, <1>8, AccountRaw, ObservedShows, ObservedType
<1> HIDE DEF o2
<1>11. IsCoded(q, o, code)
  <2> HIDE DEF o
  <2> QED
    BY <1>7, CodedFields
<1>12. ObservationOK(q, view) /\ Growth(o, q)
  <2> HIDE DEF o
  <2> QED
    BY <1>7, CodedOK DEF o
<1> HIDE DEF o, q
<1>13. o2 = q
  <2>1. o2 \in RawObservation /\ q \in RawObservation
    BY <1>10, <1>11 DEF Observation, RawObservation, IsCoded
  <2>2. /\ o2.exists = q.exists /\ o2.nonce = q.nonce /\ o2.balance = q.balance
        /\ o2.code = q.code /\ o2.has_code = q.has_code /\ o2.storage = q.storage
        /\ o2.warm_storage = q.warm_storage
        /\ o2.transient_storage = q.transient_storage /\ o2.warm = q.warm
        /\ o2.destructed = q.destructed /\ o2.erase_if_empty = q.erase_if_empty
        /\ o2.just_created = q.just_created /\ o2.code_changed = q.code_changed
    <3>1. o2.has_code = TRUE
      BY <1>5, <1>10 DEF Shows
    <3>2. o2.storage = q.storage /\ o2.warm_storage = q.warm_storage
      <4>1. q.storage = o.storage /\ q.warm_storage = o.warm_storage
        BY <1>11 DEF IsCoded
      <4>2. o2.storage = o.storage
        BY <1>5, <1>7, <1>10 DEF Shows
      <4>3. o2.warm_storage = o.warm_storage
        BY <1>5, <1>7, <1>10 DEF Shows
      <4> QED
        BY <4>1, <4>2, <4>3
    <3>3. /\ o2.exists = o.exists /\ o2.nonce = o.nonce /\ o2.balance = o.balance
          /\ o2.code = code /\ o2.transient_storage = o.transient_storage
          /\ o2.warm = o.warm
          /\ o2.destructed = o.destructed /\ o2.erase_if_empty = o.erase_if_empty
          /\ o2.just_created = o.just_created /\ o2.code_changed = TRUE
      BY <1>5, <1>7, <1>10 DEF Shows
    <3> QED
      BY <1>11, <3>1, <3>2, <3>3 DEF IsCoded
  <2> QED
    BY <2>1, <2>2, ObservationEqual
<1>14. Amendable(s, a, acc2)
  BY <1>8, <1>9, <1>11, <1>12, <1>13 DEF Amendable, acc, o, o2, IsCoded
<1>15. t = After(s, a, acc2, s.journal)
  BY <1>1, AmendForm
<1>16. Amends(s, t, a, acc2)
  BY <1>1, <1>14, <1>15, AmendStep
<1>17. t.journal = s.journal
  BY <1>1, <1>8, <1>15, AfterFields DEF IsAfter
<1> HIDE DEF t
<1> QED
  BY <1>3, <1>13, <1>16, <1>17 DEF Amends, o2, q, o

\* The labels from p on with the code of account a deployed.
Recoded(w, a, code, p) ==
    [i \in Nat |-> IF i >= p THEN [w[i] EXCEPT ![a] = Coded(w[i][a], code)] ELSE w[i]]

\* Account a is created by the entry before p, and not un-created after.
CreatedFrom(s, base, w, a, p) ==
    /\ p \in Nat /\ base + 2 <= p /\ p <= Len(s.journal) + 1
    /\ Clears(s.journal[p - 1]) /\ s.journal[p - 1].acc = a
    /\ \A i \in p..(Len(s.journal) + 1) : w[i][a].just_created

IsRecoded(w2, w, a, code, p) ==
    /\ w2 \in [Nat -> Worlds]
    /\ \A i \in Nat : i < p => w2[i] = w[i]
    /\ \A i \in Nat : i >= p => w2[i] = [w[i] EXCEPT ![a] = Coded(w[i][a], code)]

LEMMA RecodedAt ==
    ASSUME NEW w \in [Nat -> Worlds], NEW a \in Addr, NEW code \in Codes, NEW p \in Nat
    PROVE  IsRecoded(Recoded(w, a, code, p), w, a, code, p)
<1> DEFINE q(k) == Coded(w[k][a], code)
           w2 == Recoded(w, a, code, p)
<1>1. \A k \in Nat : w[k] \in Worlds /\ w[k][a] \in Observation
  BY DEF Worlds
<1>2. \A k \in Nat : q(k) \in Observation
  BY <1>1, CodedFields DEF IsCoded
<1>3. w2 = [k \in Nat |-> IF k >= p THEN [w[k] EXCEPT ![a] = q(k)] ELSE w[k]]
  BY DEF Recoded
<1> HIDE DEF q, w2
<1>4. \A k \in Nat : [w[k] EXCEPT ![a] = q(k)] \in Worlds
  BY <1>1, <1>2 DEF Worlds
<1>5. w2 \in [Nat -> Worlds]
  BY <1>1, <1>3, <1>4
<1>6. /\ \A i \in Nat : i < p => w2[i] = w[i]
      /\ \A i \in Nat : i >= p => w2[i] = [w[i] EXCEPT ![a] = q(i)]
  BY <1>3
<1> QED
  BY <1>5, <1>6 DEF q, w2, IsRecoded

LEMMA RecodedOK ==
    ASSUME NEW w, NEW views, WorldOK(w, views), NEW a \in Addr, w[a].just_created,
           NEW code \in Codes, code # NoCode
    PROVE  WorldOK([w EXCEPT ![a] = Coded(w[a], code)], views)
<1> DEFINE q == Coded(w[a], code)
<1>1. w \in Worlds /\ ObservationOK(w[a], views[a])
  BY DEF WorldOK
<1>2. ObservationOK(q, views[a]) /\ Growth(w[a], q)
  BY <1>1, CodedOK
<1>3. CreatesOK(w, w[a], q, a)
  BY DEF CreatesOK
<1> HIDE DEF q
<1>4. WorldOK([w EXCEPT ![a] = q], views)
  BY <1>2, <1>3, GrownWorld
<1> QED
  BY <1>4 DEF q

(* Undoing an entry of another account, or one that keeps the code. *)
LEMMA RecodedUndoes ==
    ASSUME NEW w \in Worlds, NEW w2 \in Worlds, NEW e \in JournalEntry, NEW views,
           Undoes(w, e, w2, views), NEW a \in Addr, NEW code \in Codes,
           w[a].just_created
    PROVE  Undoes([w EXCEPT ![a] = Coded(w[a], code)], e,
                  [w2 EXCEPT ![a] = Coded(w2[a], code)], views)
<1> DEFINE b == e.acc
           u == UndoObservation(w2[b], e)
           q == Coded(w[a], code)
           q2 == Coded(w2[a], code)
           v == [w EXCEPT ![a] = q]
           v2 == [w2 EXCEPT ![a] = q2]
<1>1. b \in Addr
  BY EntryFields
<1>2. w = [w2 EXCEPT ![b] = u] /\ UndoExpects(w2[b], e, views[b])
  BY DEF Undoes
<1>3. CASE b # a
  <2> HIDE DEF b, u, q, q2
  <2>1. w[a] = w2[a] /\ v2[b] = w2[b]
    BY <1>1, <1>2, <1>3 DEF Worlds
  <2>2. q = q2
    BY <2>1 DEF q, q2
  <2>3. v = [v2 EXCEPT ![b] = u]
    BY <1>1, <1>2, <1>3, <2>2 DEF Worlds
  <2> QED
    BY <1>2, <2>1, <2>3 DEF Undoes, b, u, q, q2
<1>4. CASE b = a
  <2>1. w[a] = u /\ w2[a] \in Observation
    BY <1>1, <1>2, <1>4 DEF Worlds
  <2>2. ~Clears(e)
    <3>1. u.just_created = (~Clears(e) /\ w2[b].just_created)
      BY DEF UndoObservation
    <3> HIDE DEF u
    <3> QED
      BY <2>1, <3>1
  <2>3. q = UndoObservation(q2, e)
    BY <1>4, <2>1, <2>2, UndoCoded
  <2>4. IsCoded(q2, w2[a], code)
    BY <2>1, CodedFields
  <2>5. v2[b] = q2
    BY <1>4 DEF Worlds
  <2>6. UndoExpects(q2, e, views[b])
    <3> HIDE DEF q2
    <3> QED
      BY <1>2, <1>4, <2>4 DEF UndoExpects, IsCoded
  <2> HIDE DEF q, q2, u
  <2>7. v = [v2 EXCEPT ![b] = q]
    BY <1>2, <1>4 DEF Worlds
  <2> QED
    BY <2>3, <2>5, <2>6, <2>7 DEF Undoes, q, q2
<1> QED
  BY <1>3, <1>4

(* Undoing the creation. *)
LEMMA RecodedCreation ==
    ASSUME NEW w \in Worlds, NEW w2 \in Worlds, NEW e \in JournalEntry, NEW views,
           Undoes(w, e, w2, views), Clears(e), NEW a, a = e.acc, NEW code \in Codes
    PROVE  Undoes(w, e, [w2 EXCEPT ![a] = Coded(w2[a], code)], views)
<1> DEFINE u == UndoObservation(w2[a], e)
           q2 == Coded(w2[a], code)
           v2 == [w2 EXCEPT ![a] = q2]
<1>1. a \in Addr
  BY EntryFields
<1>2. w = [w2 EXCEPT ![a] = u] /\ UndoExpects(w2[a], e, views[a])
  BY DEF Undoes
<1>3. w2[a] \in Observation
  BY <1>1 DEF Worlds
<1>4. u = UndoObservation(q2, e) /\ IsCoded(q2, w2[a], code)
  BY <1>3, UndoCoded, CodedFields
<1> HIDE DEF q2, u
<1>5. v2[a] = q2 /\ w = [v2 EXCEPT ![a] = u]
  BY <1>1, <1>2 DEF Worlds
<1>6. UndoExpects(q2, e, views[a])
  BY <1>2, <1>4 DEF UndoExpects, IsCoded
<1> QED
  BY <1>4, <1>5, <1>6 DEF Undoes, q2

(* create() deploys the code: nothing is journaled, and the labels from the *)
(* creation of the account on have the code.                                *)
LEMMA LabelsDeploy ==
    ASSUME NEW s, Good(s), NEW base, NEW w, Labels(s, base, w),
           NEW a, Writable(s, a), NEW p, CreatedFrom(s, base, w, a, p),
           NEW code \in Codes, code # NoCode
    PROVE  Labels(DeployCode(s, a, code), base, Recoded(w, a, code, p))
<1> DEFINE t == DeployCode(s, a, code)
           w2 == Recoded(w, a, code, p)
           n == Len(s.journal)
           N(i) == [w[i] EXCEPT ![a] = Coded(w[i][a], code)]
<1>1. /\ a \in Addr /\ n \in Nat /\ s.journal \in Seq(JournalEntry)
  BY StateFields DEF Writable, Good
<1>2. /\ w \in [Nat -> Worlds] /\ base \in Nat /\ base <= n /\ w[n + 1] = World(s)
      /\ \A i \in (base + 1)..(n + 1) : WorldOK(w[i], s.initial)
      /\ \A i \in (base + 1)..n : Undoes(w[i], s.journal[i], w[i + 1], s.initial)
  BY DEF Labels
<1>3. /\ p \in Nat /\ base + 2 <= p /\ p <= n + 1
      /\ Clears(s.journal[p - 1]) /\ s.journal[p - 1].acc = a
      /\ \A i \in p..(n + 1) : w[i][a].just_created
  BY DEF CreatedFrom
<1>4. w[n + 1][a].just_created
  BY <1>1, <1>3
<1>5. /\ t.initial = s.initial /\ t.journal = s.journal
      /\ World(t) = [World(s) EXCEPT ![a] = Coded(World(s)[a], code)]
  BY <1>2, <1>4, DeployStep
<1>6a. IsRecoded(w2, w, a, code, p)
  BY <1>1, <1>2, <1>3, RecodedAt
<1> HIDE DEF t, w2, n
<1>6. /\ w2 \in [Nat -> Worlds]
      /\ \A i \in Nat : i < p => w2[i] = w[i]
      /\ \A i \in Nat : i >= p => w2[i] = N(i)
  BY <1>6a DEF IsRecoded
<1>7. w2[n + 1] = World(t)
  <2>1. n + 1 \in Nat /\ n + 1 >= p
    BY <1>1, <1>3
  <2>2. w2[n + 1] = N(n + 1)
    BY <1>6, <2>1
  <2> QED
    BY <1>2, <1>5, <2>2
<1>8. ASSUME NEW i \in (base + 1)..(n + 1) PROVE WorldOK(w2[i], s.initial)
  <2>1. i \in Nat /\ WorldOK(w[i], s.initial) /\ (i >= p => i \in p..(n + 1))
    BY <1>1, <1>2, <1>3
  <2>2. CASE i < p
    BY <1>6, <2>1, <2>2
  <2>3. CASE i >= p
    <3>1. w[i][a].just_created
      BY <1>3, <2>1, <2>3
    <3> QED
      BY <1>1, <1>6, <2>1, <2>3, <3>1, RecodedOK
  <2> QED
    BY <1>3, <2>1, <2>2, <2>3
<1>9. ASSUME NEW i \in (base + 1)..n
      PROVE  Undoes(w2[i], s.journal[i], w2[i + 1], s.initial)
  <2>1. /\ i \in Nat /\ i + 1 \in Nat /\ i \in 1..n /\ (i >= p => i \in p..(n + 1))
        /\ i < p - 1 \/ i = p - 1 \/ i >= p
    BY <1>1, <1>2, <1>3
  <2>2. /\ w[i] \in Worlds /\ w[i + 1] \in Worlds /\ s.journal[i] \in JournalEntry
    BY <1>1, <1>2, <2>1, ElementOfSeq DEF n
  <2>3. Undoes(w[i], s.journal[i], w[i + 1], s.initial)
    BY <1>2
  <2>4. CASE i < p - 1
    <3>1. i < p /\ i + 1 < p
      BY <1>3, <2>1, <2>4
    <3> QED
      BY <1>6, <2>1, <2>3, <3>1
  <2>5. CASE i = p - 1
    <3>1. i < p /\ i + 1 >= p
      BY <1>3, <2>1, <2>5
    <3>2. w2[i] = w[i] /\ w2[i + 1] = N(i + 1)
      BY <1>6, <2>1, <3>1
    <3>3. Clears(s.journal[i]) /\ s.journal[i].acc = a
      BY <1>3, <2>5
    <3> QED
      BY <2>2, <2>3, <3>2, <3>3, RecodedCreation
  <2>6. CASE i >= p
    <3>1. i + 1 >= p
      BY <1>3, <2>1, <2>6
    <3>2. w2[i] = N(i) /\ w2[i + 1] = N(i + 1)
      BY <1>6, <2>1, <2>6, <3>1
    <3>3. w[i][a].just_created
      BY <1>3, <2>1, <2>6
    <3> QED
      BY <1>1, <2>2, <2>3, <3>2, <3>3, RecodedUndoes
  <2> QED
    BY <2>1, <2>4, <2>5, <2>6
<1> QED
  <2>1. Len(t.journal) = n
    BY <1>5 DEF n
  <2> QED
    BY <1>2, <1>5, <1>6, <1>7, <1>8, <1>9, <2>1 DEF Labels, t, w2

LEMMA AliveCoded ==
    ASSUME NEW f \in FrameType, NEW w \in Worlds, Alive(f, w), NEW a \in Addr,
           NEW code \in Codes, code # NoCode
    PROVE  Alive(f, [w EXCEPT ![a] = Coded(w[a], code)])
<1> DEFINE q == Coded(w[a], code)
           r == f.recipient
<1>1. r \in Addr /\ w[a] \in Observation
  BY DEF FrameType, Worlds
<1>2. IsCoded(q, w[a], code)
  BY <1>1, CodedFields
<1> HIDE DEF q
<1>3. CASE r = a
  <2>1. [w EXCEPT ![a] = q][r] = q
    BY <1>1, <1>3 DEF Worlds
  <2> QED
    BY <1>2, <1>3, <2>1 DEF Alive, Contract, IsCoded, q
<1>4. CASE r # a
  <2>1. [w EXCEPT ![a] = q][r] = w[r]
    BY <1>1, <1>4 DEF Worlds
  <2> QED
    BY <2>1 DEF Alive, Contract, q
<1> QED
  BY <1>3, <1>4

Keeps(s, t) == /\ t.initial = s.initial
               /\ \A b \in Addr : KeepsLoaded(s.modified[b], t.modified[b])

LaysOut(s, t, base, gs, x, fl) ==
    /\ Good(t) /\ Keeps(s, t) /\ SameBalances(World(s), World(t))
    /\ \E w2 : Layout(t, base, gs, x, w2, fl)

LEMMA LayoutDeploy ==
    ASSUME NEW s, Good(s), NEW base, NEW fs \in Seq(FrameType), fs # << >>,
           NEW x, NEW w, NEW fl, Layout(s, base, fs, x, w, fl),
           NEW f, f = fs[Len(fs)], f.step = "run", f.kind = "CREATE", f.exec = "code",
           NEW code \in Codes, code # NoCode,
           NEW gs, IsPop(gs, fs)
    PROVE  LaysOut(s, DeployCode(s, f.recipient, code), base, gs, x, fl)
<1> DEFINE a == f.recipient
           t == DeployCode(s, a, code)
           n == Len(s.journal)
           m == Len(fs)
           p == fl[m]
           c == f.state_checkpoint
           w2 == Recoded(w, a, code, p)
<1>1. m \in Nat /\ m >= 1 /\ m \in 1..m
  BY LenProperties, EmptySeq
<1>2. f \in FrameType
  BY <1>1, ElementOfSeq
<1>3. /\ a \in Addr /\ c \in Nat /\ n \in Nat
  BY <1>2, StateFields DEF FrameType, Good
<1>4. /\ Labels(s, base, w) /\ fl \in [Nat -> Nat] /\ x \in Addr
      /\ s.modified[x].loaded
      /\ \A i \in (base + 1)..(n + 1) : w[i][x].exists
      /\ \A j \in 1..m : FrameOK(s, base, fs, w, fl, j)
  BY DEF Layout
<1>5. /\ base <= c /\ c + 2 <= p /\ p <= n + 1 /\ p \in Nat
      /\ Clears(s.journal[p - 1]) /\ s.journal[p - 1].acc = a
      /\ \A i \in p..(n + 1) : Alive(f, w[i])
      /\ s.modified[a].loaded
  BY <1>1, <1>4 DEF FrameOK
<1>6. base \in Nat /\ w[n + 1] = World(s) /\ w \in [Nat -> Worlds]
  BY <1>4 DEF Labels
<1> HIDE DEF n, p, c, m, a
<1>7. \A i \in p..(n + 1) : w[i][a].just_created /\ w[i][a].exists
  BY <1>5 DEF Alive, a
<1>8. n + 1 \in p..(n + 1) /\ base + 2 <= p
  BY ONLY <1>3, <1>5, <1>6
<1>9. Writable(s, a) /\ World(s)[a].just_created
  BY <1>3, <1>5, <1>6, <1>7, <1>8 DEF Writable
<1>10. CreatedFrom(s, base, w, a, p)
  BY <1>5, <1>7, <1>8 DEF CreatedFrom, n
<1>11. /\ Good(t) /\ t.initial = s.initial /\ t.journal = s.journal
       /\ \A b \in Addr : KeepsLoaded(s.modified[b], t.modified[b])
  BY <1>9, DeployStep
<1>12. Labels(t, base, w2)
  BY <1>4, <1>9, <1>10, LabelsDeploy
<1>13a. IsRecoded(w2, w, a, code, p)
  BY <1>3, <1>5, <1>6, RecodedAt
<1>13. /\ \A i \in Nat : i < p => w2[i] = w[i]
       /\ \A i \in Nat : i >= p => w2[i] = [w[i] EXCEPT ![a] = Coded(w[i][a], code)]
  BY <1>13a DEF IsRecoded
<1>14. Layout(s, base, gs, x, w, fl)
  BY LayoutPop
<1>15. gs \in Seq(FrameType) /\ Len(gs) = m - 1 /\ \A j \in 1..Len(gs) : gs[j] = fs[j]
  BY DEF IsPop, m
<1> HIDE DEF t, w2
<1>16. ASSUME NEW i \in Nat, NEW g \in FrameType, Alive(g, w[i]) PROVE Alive(g, w2[i])
  <2>1. CASE i < p
    BY <1>13, <1>16, <2>1
  <2>2. CASE i >= p
    <3>1. w[i] \in Worlds
      BY <1>6
    <3>2. Alive(g, [w[i] EXCEPT ![a] = Coded(w[i][a], code)])
      BY <1>3, <1>16, <3>1, AliveCoded, Zenon
    <3> QED
      BY <1>13, <2>2, <3>2
  <2> QED
    BY <1>5, <2>1, <2>2
<1>17. ASSUME NEW i \in Nat, w[i][x].exists PROVE w2[i][x].exists
  <2>1. CASE i < p
    BY <1>13, <1>17, <2>1
  <2>2. CASE i >= p
    <3> DEFINE q == Coded(w[i][a], code)
    <3>1. w[i] \in Worlds /\ w[i][a] \in Observation
      BY <1>3, <1>6 DEF Worlds
    <3>2. q.exists = w[i][a].exists
      BY <3>1, CodedFields DEF IsCoded
    <3>3. w2[i] = [w[i] EXCEPT ![a] = q]
      BY <1>13, <2>2
    <3> HIDE DEF q
    <3> QED
      BY <1>3, <1>4, <1>17, <3>1, <3>2, <3>3 DEF Worlds
  <2> QED
    BY <1>5, <2>1, <2>2
<1>18. ASSUME NEW j \in 1..Len(gs) PROVE FrameOK(t, base, gs, w2, fl, j)
  <2> DEFINE g == gs[j]
             d == g.state_checkpoint
  <2>1. j \in 1..m /\ j # m /\ g = fs[j] /\ j \in Nat
    BY <1>1, <1>15
  <2>2. g \in FrameType
    BY <1>1, <2>1, ElementOfSeq DEF m
  <2>3. FrameOK(s, base, gs, w, fl, j)
    BY <1>14 DEF Layout
  <2>4. d \in Nat /\ fl[j] \in Nat /\ d < fl[j]
    BY <1>4, <2>1, <2>2, <2>3 DEF FrameType, FrameOK
  <2>5. fl[j] <= c + 1
    <3>1. FrameOK(s, base, fs, w, fl, j) /\ m \in (j + 1)..Len(fs)
      BY <1>1, <1>4, <2>1 DEF m
    <3> QED
      BY <3>1 DEF FrameOK, c, m
  <2>6. d + 1 < p /\ d + 1 \in Nat
    BY ONLY <1>3, <1>5, <2>4, <2>5
  <2>7. w2[d + 1] = w[d + 1]
    BY <1>13, <2>6
  <2>8. Len(t.journal) = n /\ Len(s.journal) = n
    BY <1>11 DEF n
  <2>9. g.exec = "code" => \A i \in fl[j]..(n + 1) : Alive(g, w2[i])
    <3>1. g.exec = "code" => \A i \in fl[j]..(n + 1) : Alive(g, w[i])
      BY <2>3, <2>8 DEF FrameOK
    <3>2. \A i \in fl[j]..(n + 1) : i \in Nat
      BY <1>3, <2>4
    <3> QED
      BY <1>16, <2>2, <3>1, <3>2
  <2>10. s.modified[g.recipient].loaded => t.modified[g.recipient].loaded
    BY <1>11, <2>2 DEF FrameType, KeepsLoaded
  <2> QED
    BY <1>11, <2>3, <2>7, <2>8, <2>9, <2>10 DEF FrameOK
<1>19. \A i \in (base + 1)..(n + 1) : w2[i][x].exists
  <2>1. \A i \in (base + 1)..(n + 1) : i \in Nat
    BY <1>3, <1>6
  <2> QED
    BY <1>4, <1>17, <2>1
<1>20. t.modified[x].loaded /\ Len(t.journal) = n
  BY <1>4, <1>11 DEF KeepsLoaded, n
<1>21. Layout(t, base, gs, x, w2, fl)
  BY <1>4, <1>12, <1>18, <1>19, <1>20 DEF Layout
<1>22. SameBalances(World(s), World(t))
  <2> DEFINE q == Coded(World(s)[a], code)
  <2>1. World(t) = [World(s) EXCEPT ![a] = q]
    BY <1>9, DeployStep DEF t
  <2>2. q.balance = World(s)[a].balance /\ World(s) \in Worlds
    BY <1>3, WorldType, CodedFields DEF IsCoded, Good, Worlds
  <2> HIDE DEF q
  <2> QED
    BY <2>1, <2>2 DEF Worlds, SameBalances
<1> QED
  BY <1>11, <1>21, <1>22 DEF LaysOut, Keeps, t, a

-----------------------------------------------------------------------------
(* The state, the logs and the open calls together. *)

\* The logs at the checkpoint of frame f are the first of the logs l.
LogSaved(f, l) ==
    /\ f.logs_checkpoint <= Len(l)
    /\ Len(f.checkpoint.log) = f.logs_checkpoint
    /\ \A i \in 1..f.logs_checkpoint : f.checkpoint.log[i] = l[i]

LogsOK(l, fs) ==
    /\ l \in Seq(Emitters)
    /\ \A j \in 1..Len(fs) : LogSaved(fs[j], l)
    /\ \A j, k \in 1..Len(fs) : j < k => fs[j].logs_checkpoint <= fs[k].logs_checkpoint

TouchesOK(fs) == \A j \in 1..Len(fs) : fs[j].ripemd_touched => TouchSurvives

\* x is the sender of the transaction.
CallsOK(s, l, fs, x) ==
    /\ Good(s)
    /\ fs \in Seq(FrameType)
    /\ LogsOK(l, fs)
    /\ TouchesOK(fs)
    /\ \E base, w, fl : Layout(s, base, fs, x, w, fl)

LogGrows(l, l2) == l2 = l \/ \E e \in Emitters : l2 = Append(l, e)

LEMMA LogSavedGrows ==
    ASSUME NEW l \in Seq(Emitters), NEW l2, LogGrows(l, l2), NEW f \in FrameType,
           LogSaved(f, l)
    PROVE  LogSaved(f, l2)
<1>1. CASE l2 = l
  BY <1>1
<1>2. ASSUME NEW e \in Emitters, l2 = Append(l, e) PROVE LogSaved(f, l2)
  <2>1. Len(l) \in Nat /\ f.logs_checkpoint \in Nat
    BY LenProperties DEF FrameType
  <2>2. Len(l2) = Len(l) + 1 /\ \A i \in 1..Len(l) : l2[i] = l[i]
    BY <1>2, AppendProperties
  <2> QED
    BY <2>1, <2>2 DEF LogSaved
<1> QED
  BY <1>1, <1>2 DEF LogGrows

LEMMA LogGrowsType ==
    ASSUME NEW l \in Seq(Emitters), NEW l2, LogGrows(l, l2)
    PROVE  l2 \in Seq(Emitters)
  BY AppendProperties DEF LogGrows

LEMMA LogsGrow ==
    ASSUME NEW l, NEW fs \in Seq(FrameType), LogsOK(l, fs), NEW l2, LogGrows(l, l2)
    PROVE  LogsOK(l2, fs)
<1>1. \A j \in 1..Len(fs) : fs[j] \in FrameType
  BY LenProperties, ElementOfSeq
<1>2. l \in Seq(Emitters) /\ l2 \in Seq(Emitters)
  BY LogGrowsType DEF LogsOK
<1>3. \A j \in 1..Len(fs) : LogSaved(fs[j], l2)
  BY <1>1, <1>2, LogSavedGrows DEF LogsOK
<1> QED
  BY <1>2, <1>3 DEF LogsOK

AllRun(fs) == \A j \in 1..Len(fs) : fs[j].step = "run"

(* Only the innermost call can be anything but running. *)
LEMMA RunsWhenTop ==
    ASSUME NEW s, NEW l, NEW fs, NEW x, CallsOK(s, l, fs, x),
           fs # << >> => fs[Len(fs)].step = "run"
    PROVE  AllRun(fs)
<1>1. PICK base, w, fl : Layout(s, base, fs, x, w, fl)
  BY DEF CallsOK
<1>2. Len(fs) \in Nat
  BY LenProperties DEF CallsOK
<1>3. ASSUME NEW j \in 1..Len(fs) PROVE fs[j].step = "run"
  <2>1. FrameOK(s, base, fs, w, fl, j)
    BY <1>1 DEF Layout
  <2>2. CASE j < Len(fs)
    BY <2>1, <2>2 DEF FrameOK
  <2>3. CASE j = Len(fs)
    <3>1. fs # << >>
      BY <1>2, <2>3, EmptySeq
    <3> QED
      BY <2>3, <3>1
  <2> QED
    BY <1>2, <2>2, <2>3
<1> QED
  BY <1>3 DEF AllRun

LEMMA CallsWork ==
    ASSUME NEW s, NEW l, NEW fs, NEW x, CallsOK(s, l, fs, x), AllRun(fs),
           NEW t, Extends(s, t), NEW l2, LogGrows(l, l2)
    PROVE  CallsOK(t, l2, fs, x)
<1>1. Good(s) /\ fs \in Seq(FrameType) /\ LogsOK(l, fs) /\ TouchesOK(fs)
  BY DEF CallsOK
<1>2. PICK base, w, fl : Layout(s, base, fs, x, w, fl)
  BY DEF CallsOK
<1>3. \E w2 : Layout(t, base, fs, x, w2, fl) /\ Continued(w, w2, s, t)
  BY <1>1, <1>2, LayoutExtends DEF AllRun
<1>4. Good(t)
  BY DEF Extends
<1>5. LogsOK(l2, fs)
  BY <1>1, LogsGrow
<1> QED
  BY <1>1, <1>3, <1>4, <1>5 DEF CallsOK

LEMMA LogsPop ==
    ASSUME NEW l, NEW fs, LogsOK(l, fs), TouchesOK(fs), Len(fs) \in Nat,
           NEW gs, IsPop(gs, fs)
    PROVE  LogsOK(l, gs) /\ TouchesOK(gs)
<1>1. \A j \in 1..Len(gs) : j \in 1..Len(fs) /\ gs[j] = fs[j]
  BY DEF IsPop
<1> QED
  BY <1>1 DEF LogsOK, TouchesOK

LEMMA CallsPop ==
    ASSUME NEW s, NEW l, NEW fs, NEW x, CallsOK(s, l, fs, x), fs # << >>,
           NEW gs, IsPop(gs, fs)
    PROVE  CallsOK(s, l, gs, x)
<1>1. Good(s) /\ fs \in Seq(FrameType) /\ LogsOK(l, fs) /\ TouchesOK(fs)
  BY DEF CallsOK
<1>2. PICK base, w, fl : Layout(s, base, fs, x, w, fl)
  BY DEF CallsOK
<1>3. Layout(s, base, gs, x, w, fl)
  BY <1>1, <1>2, LayoutPop
<1>4. LogsOK(l, gs) /\ TouchesOK(gs)
  BY <1>1, LenProperties, LogsPop
<1> QED
  BY <1>1, <1>3, <1>4 DEF CallsOK, IsPop

LEMMA CallsDeploy ==
    ASSUME NEW s, NEW l, NEW fs, NEW x, CallsOK(s, l, fs, x), fs # << >>,
           fs[Len(fs)].step = "run", fs[Len(fs)].kind = "CREATE", NEW code \in Codes,
           NEW gs, IsPop(gs, fs)
    PROVE  LET t == DeployCode(s, fs[Len(fs)].recipient, code)
           IN  CallsOK(t, l, gs, x) /\ Keeps(s, t) /\ SameBalances(World(s), World(t))
<1> DEFINE f == fs[Len(fs)]
           t == DeployCode(s, f.recipient, code)
<1>1. Good(s) /\ fs \in Seq(FrameType) /\ LogsOK(l, fs) /\ TouchesOK(fs)
  BY DEF CallsOK
<1>2. PICK base, w, fl : Layout(s, base, fs, x, w, fl)
  BY DEF CallsOK
<1>3. LogsOK(l, gs) /\ TouchesOK(gs)
  BY <1>1, LenProperties, LogsPop
<1>4. CASE code = NoCode
  <2>1. t = s
    BY <1>4 DEF DeployCode
  <2>2. CallsOK(s, l, gs, x)
    BY CallsPop
  <2> QED
    BY <2>1, <2>2, KeepsSame DEF Keeps, SameBalances
<1>5. CASE code # NoCode
  <2>1. Len(fs) \in 1..Len(fs)
    BY <1>1, LenProperties, EmptySeq
  <2>2. f.exec = "code"
    BY <1>2, <2>1 DEF Layout, FrameOK
  <2> HIDE DEF f
  <2>3. LaysOut(s, t, base, gs, x, fl)
    <3>1. f = fs[Len(fs)] /\ f.step = "run" /\ f.kind = "CREATE"
      BY DEF f
    <3> QED
      BY <1>1, <1>2, <1>5, <2>2, <3>1, LayoutDeploy
  <2> HIDE DEF t
  <2> QED
    BY <1>3, <2>3 DEF CallsOK, LaysOut, IsPop, t, f
<1> QED
  BY <1>4, <1>5

SameCheckpoints(gs, fs) ==
    /\ Len(gs) = Len(fs)
    /\ \A j \in 1..Len(fs) : /\ gs[j].checkpoint = fs[j].checkpoint
                             /\ gs[j].logs_checkpoint = fs[j].logs_checkpoint

LEMMA LogsSame ==
    ASSUME NEW l, NEW fs, LogsOK(l, fs), NEW gs, SameCheckpoints(gs, fs)
    PROVE  LogsOK(l, gs)
  BY DEF LogsOK, SameCheckpoints, LogSaved

(* A call fails: rollback() begins. *)
LEMMA CallsFail ==
    ASSUME NEW s, NEW l, NEW fs, NEW x, CallsOK(s, l, fs, x), fs # << >>,
           NEW t, Quiet(s, t), NEW touched \in BOOLEAN, touched => TouchSurvives
    PROVE  /\ CallsOK(t, l, RollsBack(fs, touched), x)
           /\ SameCheckpoints(RollsBack(fs, touched), fs)
<1> DEFINE gs == RollsBack(fs, touched)
<1>1. fs \in Seq(FrameType) /\ LogsOK(l, fs) /\ TouchesOK(fs)
  BY DEF CallsOK
<1>2. PICK base, w, fl : Layout(s, base, fs, x, w, fl)
  BY DEF CallsOK
<1>3. Layout(t, base, fs, x, w, fl)
  BY <1>1, <1>2, LayoutQuiet
<1>4. IsRolled(gs, fs, touched)
  BY <1>1, RolledFrames
<1> HIDE DEF gs
<1>5. Layout(t, base, gs, x, w, fl)
  BY <1>1, <1>3, <1>4, LayoutStep
<1>10. SameCheckpoints(gs, fs)
  BY <1>4 DEF SameCheckpoints, IsRolled
<1>11. TouchesOK(gs)
  BY <1>1, <1>4 DEF TouchesOK, IsRolled
<1>12. LogsOK(l, gs)
  BY <1>1, <1>10, LogsSame
<1>13. Good(t)
  BY DEF Quiet, Extends
<1> QED
  BY <1>4, <1>5, <1>10, <1>11, <1>12, <1>13 DEF CallsOK, IsRolled, gs

(* One entry is undone. *)
LEMMA CallsUndo ==
    ASSUME NEW s, NEW l, NEW fs, NEW x, CallsOK(s, l, fs, x), fs # << >>,
           fs[Len(fs)].step = "rollback",
           Len(s.journal) > fs[Len(fs)].state_checkpoint
    PROVE  /\ CallsOK(UndoLast(s), l, fs, x) /\ Keeps(s, UndoLast(s))
           /\ UndoAsserts(s.modified[s.journal[Len(s.journal)].acc], s.journal[Len(s.journal)])
<1>1. Good(s) /\ fs \in Seq(FrameType) /\ LogsOK(l, fs) /\ TouchesOK(fs)
  BY DEF CallsOK
<1>2. PICK base, w, fl : Layout(s, base, fs, x, w, fl)
  BY DEF CallsOK
<1> DEFINE t == UndoLast(s)
           e == s.journal[Len(s.journal)]
<1>3. /\ Layout(t, base, fs, x, w, fl) /\ Good(t)
      /\ t.initial = s.initial
      /\ \A a \in Addr : KeepsLoaded(s.modified[a], t.modified[a])
      /\ UndoAsserts(s.modified[e.acc], e)
  BY <1>1, <1>2, LayoutUndo
<1> HIDE DEF t
<1> QED
  BY <1>1, <1>3 DEF CallsOK, Keeps, t

\* Frame f is closed and its checkpoint restored.
Restored(s, l2, gs, x, f) ==
    /\ CallsOK(s, l2, gs, x)
    /\ World(s) = f.checkpoint.world /\ l2 = f.checkpoint.log

(* At the end of rollback() the world is that of the checkpoint. *)
LEMMA CallsRestored ==
    ASSUME NEW s, NEW l, NEW fs, NEW x, CallsOK(s, l, fs, x), fs # << >>,
           NEW f, f = fs[Len(fs)], Len(s.journal) = f.state_checkpoint,
           NEW gs, IsPop(gs, fs),
           NEW l2, l2 = SubSeq(l, 1, f.logs_checkpoint)
    PROVE  Restored(s, l2, gs, x, f)
<1> DEFINE m == Len(fs)
           c == f.logs_checkpoint
<1>1. Good(s) /\ fs \in Seq(FrameType) /\ LogsOK(l, fs) /\ TouchesOK(fs)
  BY DEF CallsOK
<1>2. PICK base, w, fl : Layout(s, base, fs, x, w, fl)
  BY DEF CallsOK
<1>3. m \in 1..m /\ m \in Nat
  BY <1>1, LenProperties, EmptySeq
<1>4. f \in FrameType
  BY <1>1, <1>3, ElementOfSeq
<1>5. World(s) = f.checkpoint.world
  <2>1. w[f.state_checkpoint + 1] = f.checkpoint.world
    BY <1>2, <1>3 DEF Layout, FrameOK
  <2>2. w[Len(s.journal) + 1] = World(s)
    BY <1>2 DEF Layout, Labels
  <2> QED
    BY <2>1, <2>2
<1>6. /\ l \in Seq(Emitters) /\ c \in Nat /\ c <= Len(l) /\ f.checkpoint.log \in Seq(Emitters)
      /\ Len(f.checkpoint.log) = c /\ \A i \in 1..c : f.checkpoint.log[i] = l[i]
  BY <1>1, <1>3, <1>4 DEF LogsOK, LogSaved, FrameType
<1>7. l2 = SubSeq(l, 1, c)
  OBVIOUS
<1> HIDE DEF c
<1>8. l2 \in Seq(Emitters) /\ Len(l2) = c /\ \A i \in 1..c : l2[i] = l[i]
  <2>1. Len(l) \in Nat
    BY <1>6, LenProperties
  <2>2. \A i \in 1..c : l[i] \in Emitters
    BY <1>6, <2>1, ElementOfSeq
  <2>3. 1 \in Int /\ c \in Int
    BY <1>6
  <2>4. /\ SubSeq(l, 1, c) \in Seq(Emitters)
        /\ Len(SubSeq(l, 1, c)) = IF 1 <= c THEN c - 1 + 1 ELSE 0
        /\ \A i \in 1..(c - 1 + 1) : SubSeq(l, 1, c)[i] = l[1 + i - 1]
    BY <2>2, <2>3, SubSeqProperties
  <2>c. c \in Nat
    BY <1>6
  <2>a. /\ Len(l2) = IF 1 <= c THEN c - 1 + 1 ELSE 0
        /\ \A i \in 1..(c - 1 + 1) : l2[i] = l[1 + i - 1]
    BY ONLY <1>7, <2>4
  <2>5. \A i \in 1..c : l2[i] = l[i]
    BY ONLY <2>a, <2>c
  <2>6. Len(l2) = c
    BY ONLY <2>a, <2>c
  <2> QED
    BY <1>7, <2>4, <2>5, <2>6
<1>9. l2 = f.checkpoint.log
  BY <1>6, <1>8, SeqEqual
<1>10. LogsOK(l2, gs) /\ TouchesOK(gs)
  <2>1. LogsOK(l, gs) /\ TouchesOK(gs)
    BY <1>1, <1>3, LogsPop
  <2>2. ASSUME NEW j \in 1..Len(gs) PROVE LogSaved(gs[j], l2)
    <3>1. j \in 1..m /\ j < m /\ gs[j] = fs[j] /\ j \in Nat
      BY <1>3 DEF IsPop
    <3>2. fs[j] \in FrameType
      BY <1>1, <3>1, ElementOfSeq
    <3>3. gs[j].logs_checkpoint <= c /\ gs[j].logs_checkpoint \in Nat
      BY <1>1, <1>3, <3>1, <3>2 DEF LogsOK, FrameType, c
    <3>4. LogSaved(gs[j], l)
      BY <2>1 DEF LogsOK
    <3> QED
      BY <1>6, <1>8, <3>3, <3>4 DEF LogSaved
  <2> QED
    BY <1>8, <2>1, <2>2 DEF LogsOK
<1>11. Layout(s, base, gs, x, w, fl)
  BY <1>1, <1>2, LayoutPop
<1> QED
  BY <1>1, <1>5, <1>9, <1>10, <1>11 DEF Restored, CallsOK, IsPop

\* Frame f has its checkpoint in state s with logs l.
Begun(f, s, l) ==
    /\ f \in FrameType
    /\ f.state_checkpoint = Len(s.journal) /\ f.logs_checkpoint = Len(l)
    /\ f.checkpoint.world = World(s) /\ f.checkpoint.log = l
    /\ ~f.ripemd_touched

AllCode(fs) == \A j \in 1..Len(fs) : fs[j].exec = "code"

LEMMA LogsPush ==
    ASSUME NEW l, NEW fs \in Seq(FrameType), LogsOK(l, fs), TouchesOK(fs), NEW s, NEW f,
           Begun(f, s, l)
    PROVE  LogsOK(l, Append(fs, f)) /\ TouchesOK(Append(fs, f))
<1> DEFINE gs == Append(fs, f)
           m == Len(fs)
<1>1. m \in Nat /\ l \in Seq(Emitters) /\ Len(l) \in Nat
  BY LenProperties DEF LogsOK
<1>2. Len(gs) = m + 1 /\ gs[m + 1] = f /\ \A j \in 1..m : gs[j] = fs[j]
  BY AppendProperties DEF Begun
<1>3. f.logs_checkpoint = Len(l) /\ f.checkpoint.log = l /\ ~f.ripemd_touched
  BY DEF Begun
<1>4. LogSaved(f, l)
  BY <1>1, <1>3 DEF LogSaved
<1>5. /\ \A j \in 1..m : LogSaved(fs[j], l)
      /\ \A j, k \in 1..m : j < k => fs[j].logs_checkpoint <= fs[k].logs_checkpoint
      /\ \A j \in 1..m : fs[j].ripemd_touched => TouchSurvives
  BY DEF LogsOK, TouchesOK
<1> HIDE DEF gs, m
<1>6. \A j \in 1..(m + 1) : j \in 1..m \/ j = m + 1
  BY <1>1
<1>7. \A j \in 1..(m + 1) : LogSaved(gs[j], l) /\ (gs[j].ripemd_touched => TouchSurvives)
  BY <1>2, <1>3, <1>4, <1>5, <1>6
<1>8. ASSUME NEW j \in 1..(m + 1), NEW k \in 1..(m + 1), j < k
      PROVE  gs[j].logs_checkpoint <= gs[k].logs_checkpoint
  <2>1. j \in 1..m
    BY <1>1, <1>8
  <2>2. CASE k \in 1..m
    BY <1>2, <1>5, <1>8, <2>1, <2>2
  <2>3. CASE k = m + 1
    BY <1>2, <1>3, <1>5, <2>1, <2>3 DEF LogSaved
  <2> QED
    BY <1>6, <2>2, <2>3
<1> QED
  BY <1>1, <1>2, <1>7, <1>8 DEF LogsOK, TouchesOK, gs

LEMMA CallsPush ==
    ASSUME NEW s, NEW l, NEW fs, NEW x, CallsOK(s, l, fs, x), AllRun(fs), AllCode(fs),
           NEW base, NEW w, NEW fl, Layout(s, base, fs, x, w, fl),
           NEW f, Begun(f, s, l),
           NEW t, Good(t), NEW w2, Layout(t, base, fs, x, w2, fl),
           NEW m, Opened(t, base, w2, f, m), NEW l2, LogGrows(l, l2)
    PROVE  CallsOK(t, l2, Append(fs, f), x)
<1> DEFINE gl == [fl EXCEPT ![Len(fs) + 1] = m]
<1>1. fs \in Seq(FrameType) /\ LogsOK(l, fs) /\ TouchesOK(fs)
  BY DEF CallsOK
<1>2. f \in FrameType /\ f.state_checkpoint = Len(s.journal)
  BY DEF Begun
<1>3. Append(fs, f) \in Seq(FrameType)
  BY <1>1, <1>2, AppendProperties
<1>4. LogsOK(l, Append(fs, f)) /\ TouchesOK(Append(fs, f))
  BY <1>1, LogsPush
<1>5. LogsOK(l2, Append(fs, f))
  BY <1>3, <1>4, LogsGrow
<1>6. \A j \in 1..Len(fs) : /\ fs[j].step = "run" /\ fs[j].exec = "code"
                            /\ fl[j] <= f.state_checkpoint + 1
  BY <1>2 DEF AllRun, AllCode, Layout, FrameOK
<1>7. Layout(t, base, Append(fs, f), x, w2, gl)
  BY <1>1, <1>2, <1>6, LayoutPush
<1> QED
  BY <1>3, <1>4, <1>5, <1>7 DEF CallsOK

(* A call message that executes the code of an account that is there. *)
LEMMA CallsOpenCall ==
    ASSUME NEW s, NEW l, NEW fs, NEW x, CallsOK(s, l, fs, x), AllRun(fs), AllCode(fs),
           NEW f, Begun(f, s, l), f.kind # "CREATE",
           NEW t, Extends(s, t),
           f.exec = "code" => Alive(f, World(t)) /\ t.modified[f.recipient].loaded,
           NEW l2, LogGrows(l, l2)
    PROVE  CallsOK(t, l2, Append(fs, f), x)
<1> DEFINE c == Len(s.journal)
           n == Len(t.journal)
<1>1. fs \in Seq(FrameType) /\ Good(s) /\ Good(t)
  BY DEF CallsOK, Extends
<1>2. PICK base, w, fl : Layout(s, base, fs, x, w, fl)
  BY DEF CallsOK
<1>3. PICK w2 : Layout(t, base, fs, x, w2, fl) /\ Continued(w, w2, s, t)
  BY <1>1, <1>2, LayoutExtends DEF AllRun
<1>4. c \in Nat /\ n \in Nat /\ c <= n
  BY <1>1, StateFields DEF Good, Extends
<1>5. w[c + 1] = World(s) /\ w2[n + 1] = World(t) /\ base <= c
  BY <1>2, <1>3 DEF Layout, Labels
<1>6. w2[c + 1] = World(s)
  BY <1>3, <1>4, <1>5 DEF Continued
<1>7. f.state_checkpoint = c /\ f.checkpoint.world = World(s)
  BY DEF Begun
<1>8. Opened(t, base, w2, f, n + 1)
  <2>1. \A i \in (n + 1)..(n + 1) : i = n + 1
    BY <1>4
  <2>2. n + 1 \in Nat /\ n + 1 <= n + 1 /\ c < n + 1
    BY <1>4
  <2> HIDE DEF c, n
  <2>3. n = Len(t.journal)
    BY DEF n
  <2> QED
    BY <1>4, <1>5, <1>6, <1>7, <2>1, <2>2, <2>3 DEF Opened
<1> QED
  BY <1>1, <1>2, <1>3, <1>8, CallsPush

(* A create message whose address is taken: it is seen to fail at once. *)
LEMMA CallsOpenCollision ==
    ASSUME NEW s, NEW l, NEW fs, NEW x, CallsOK(s, l, fs, x), AllRun(fs), AllCode(fs),
           NEW f, Begun(f, s, l), f.step = "collision",
           NEW t, Quiet(s, t)
    PROVE  CallsOK(t, l, Append(fs, f), x)
<1> DEFINE c == Len(s.journal)
<1>1. fs \in Seq(FrameType) /\ Good(s) /\ Good(t) /\ World(t) = World(s)
  BY DEF CallsOK, Extends, Quiet
<1>2. PICK base, w, fl : Layout(s, base, fs, x, w, fl)
  BY DEF CallsOK
<1>3. Layout(t, base, fs, x, w, fl)
  BY <1>1, <1>2, LayoutQuiet
<1>4. c \in Nat /\ Len(t.journal) = c
  BY <1>1, StateFields DEF Good, Quiet
<1>5. w[c + 1] = World(s) /\ base <= c
  BY <1>2 DEF Layout, Labels
<1>6. f.state_checkpoint = c /\ f.checkpoint.world = World(s)
  BY DEF Begun
<1>7. Opened(t, base, w, f, c + 2)
  <2>1. /\ c <= c /\ c + 2 \in Nat /\ c < c + 2 /\ ~(c + 2 <= c + 1)
        /\ \A i \in (c + 2)..(c + 1) : FALSE
    BY <1>4
  <2> HIDE DEF c
  <2> QED
    BY <1>4, <1>5, <1>6, <2>1 DEF Opened
<1>8. LogGrows(l, l)
  BY DEF LogGrows
<1> QED
  BY <1>1, <1>2, <1>3, <1>7, <1>8, CallsPush

(* A create message that sets a new contract up and runs its initcode. *)
LEMMA CallsOpenCreate ==
    ASSUME NEW s, NEW l, NEW fs, NEW x, CallsOK(s, l, fs, x), AllRun(fs), AllCode(fs),
           NEW f, Begun(f, s, l), f.kind = "CREATE", f.exec = "code", f.step = "run",
           NEW s3, SetUp(s, s3, f.recipient),
           NEW t, Extends(s3, t), NEW l2, LogGrows(l, l2)
    PROVE  CallsOK(t, l2, Append(fs, f), x)
<1> DEFINE c == Len(s.journal)
           n == Len(t.journal)
           a == f.recipient
           p == c + 2
<1>1. fs \in Seq(FrameType) /\ Good(s) /\ Good(s3) /\ Good(t) /\ Extends(s, s3)
  BY DEF CallsOK, Extends, SetUp
<1>2. PICK base, w, fl : Layout(s, base, fs, x, w, fl)
  BY DEF CallsOK
<1>3. PICK w3 : Layout(s3, base, fs, x, w3, fl) /\ Continued(w, w3, s, s3)
  BY <1>1, <1>2, LayoutExtends DEF AllRun
<1>4. PICK w2 : Layout(t, base, fs, x, w2, fl) /\ Continued(w3, w2, s3, t)
  BY <1>1, <1>3, LayoutExtends DEF AllRun
<1>5. c \in Nat /\ n \in Nat /\ Len(s3.journal) = c + 1 /\ c + 1 <= n
  BY <1>1, StateFields DEF Good, Extends, SetUp
<1>6. w[c + 1] = World(s) /\ base <= c
  BY <1>2 DEF Layout, Labels
<1> HIDE DEF c, n
<1>7. w2[c + 1] = World(s)
  <2>1. w3[c + 1] = w[c + 1]
    <3>1. c + 1 \in 1..(c + 1) /\ Len(s.journal) = c
      BY <1>5 DEF c
    <3> QED
      BY <1>3, <3>1 DEF Continued
  <2>2. w2[c + 1] = w3[c + 1]
    <3>1. c + 1 \in 1..(c + 1 + 1)
      BY <1>5
    <3> QED
      BY <1>4, <1>5, <3>1 DEF Continued
  <2> QED
    BY <1>6, <2>1, <2>2
<1>8. f \in FrameType /\ f.state_checkpoint = c /\ f.checkpoint.world = World(s)
  BY DEF Begun, c
<1>9. /\ Clears(s3.journal[c + 1]) /\ s3.journal[c + 1].acc = a
      /\ Writable(s3, a) /\ World(s3)[a].just_created
  BY <1>5 DEF SetUp
<1>10. Clears(t.journal[c + 1]) /\ t.journal[c + 1].acc = a
  <2>1. c + 1 \in 1..(c + 1)
    BY <1>5
  <2>2. t.journal[c + 1] = s3.journal[c + 1]
    BY <1>5, <2>1 DEF Extends
  <2> QED
    BY <1>9, <2>2
<1>11. Alive(f, World(s3))
  BY <1>9 DEF Alive, Contract, Writable
<1>12. ASSUME NEW i \in p..(n + 1) PROVE Alive(f, w2[i])
  <2>1. i \in (c + 1 + 1)..(n + 1)
    BY <1>5
  <2>2. Grows(World(s3), w2[i])
    BY <1>4, <1>5, <2>1 DEF Continued, n
  <2> QED
    BY <1>8, <1>11, <2>2, AliveGrows
<1>13. t.modified[a].loaded
  <2>1. StateOK(s3) /\ a \in Addr
    BY <1>1, <1>8 DEF Good, FrameType
  <2> QED
    BY <1>9, <2>1, ExtendsFacts DEF KeepsLoaded, Writable
<1>14. Opened(t, base, w2, f, p)
  <2>1. /\ base <= c /\ c <= n /\ p \in Nat /\ c < p /\ c + 2 <= p /\ p <= n + 1 /\ p - 1 = c + 1
    BY <1>5, <1>6
  <2>2. Len(t.journal) = n
    BY DEF n
  <2> HIDE DEF p
  <2> QED
    BY <1>7, <1>8, <1>10, <1>12, <1>13, <2>1, <2>2 DEF Opened
<1> QED
  BY <1>1, <1>2, <1>4, <1>14, CallsPush

-----------------------------------------------------------------------------
(* Opening a call. *)

IsFrame(f, kind, recipient, exec, s, l) ==
    /\ Begun(f, s, l)
    /\ f.kind = kind /\ f.recipient = recipient /\ f.exec = exec /\ f.step = "run"
    /\ Begun([f EXCEPT !.step = "collision"], s, l)
    /\ [f EXCEPT !.step = "collision"].step = "collision"

LEMMA FrameFields ==
    ASSUME NEW s, Good(s), NEW l \in Seq(Emitters),
           NEW kind \in {"CALL", "CALLCODE", "DELEGATECALL", "CREATE"},
           NEW sender \in Addr, NEW recipient \in Addr,
           NEW exec \in {"code", "precompile", "empty"}, NEW static \in BOOLEAN
    PROVE  IsFrame(Frame(kind, sender, recipient, exec, static, s, l),
                   kind, recipient, exec, s, l)
<1> DEFINE f == Frame(kind, sender, recipient, exec, static, s, l)
           c == Len(s.journal)
           d == Len(l)
           v == World(s)
<1>1. c \in Nat /\ d \in Nat /\ v \in Worlds
  BY LenProperties, StateFields, WorldType DEF Good
<1> HIDE DEF c, d, v
<1>2. f = [kind |-> kind, sender |-> sender, recipient |-> recipient, exec |-> exec,
           static |-> static, step |-> "run", ripemd_touched |-> FALSE,
           state_checkpoint |-> c, logs_checkpoint |-> d,
           checkpoint |-> [world |-> v, log |-> l]]
  BY DEF Frame, c, d, v
<1>3. /\ f \in FrameType /\ f.state_checkpoint = c /\ f.logs_checkpoint = d
      /\ f.checkpoint.world = v /\ f.checkpoint.log = l /\ f.ripemd_touched = FALSE
      /\ f.kind = kind /\ f.recipient = recipient /\ f.exec = exec /\ f.step = "run"
  <2> HIDE DEF f
  <2> QED
    BY <1>1, <1>2 DEF FrameType
<1> HIDE DEF f
<1> DEFINE g == [f EXCEPT !.step = "collision"]
<1>4. /\ g \in FrameType /\ g.state_checkpoint = c /\ g.logs_checkpoint = d
      /\ g.checkpoint.world = v /\ g.checkpoint.log = l /\ g.ripemd_touched = FALSE
      /\ g.step = "collision"
  BY <1>1, <1>3 DEF FrameType
<1> HIDE DEF g
<1> QED
  BY <1>3, <1>4 DEF IsFrame, Begun, c, d, v, f, g

LEMMA TransferLogGrows ==
    ASSUME NEW l, NEW from, NEW to, NEW value
    PROVE  LogGrows(l, EmitTransferLog(l, from, to, value))
  BY DEF LogGrows, EmitTransferLog, Emitters

\* The account of a call message of this kind can be executed for.
Callable(s, kind, sender, recipient, code_address, value) ==
    IF kind = "CALL"
    THEN /\ recipient = code_address
         /\ value # 0 => World(s)[sender].exists /\ World(s)[sender].balance >= value
    ELSE Writable(s, recipient) /\ Contract(World(s), recipient)

\* The abstract checkpoints of the calls fs.
Saved(fs) == [i \in DOMAIN fs |-> fs[i].checkpoint]

\* A call is opened from state s on.
OpenedFrom(s, l, fs, x, t, l2, gs) ==
    /\ Extends(s, t)
    /\ Redistributes(World(s), World(t))
    /\ CallsOK(t, l2, gs, x)
    /\ \E f : Begun(f, s, l) /\ gs = Append(fs, f)

LEMMA OpenCallStep ==
    ASSUME NEW s, NEW x, CallsOK(s, logs, frames, x), AllRun(frames), AllCode(frames),
           NEW kind \in {"CALL", "CALLCODE", "DELEGATECALL"}, NEW sender \in Addr,
           NEW recipient \in Addr, NEW code_address \in Addr, NEW value \in Nat,
           NEW static \in BOOLEAN,
           Callable(s, kind, sender, recipient, code_address, value),
           OpenCall(s, kind, sender, recipient, code_address, value, static)
    PROVE  OpenedFrom(s, logs, frames, x, state', logs', frames')
<1> DEFINE s1 == CallEffects(s, kind, sender, recipient, value)
           s2 == IF code_address \in Precompiles THEN s1 ELSE GetCode(s1, code_address)
           exec == IF code_address \in Precompiles THEN "precompile"
                   ELSE IF s2.modified[code_address].code_hash = NoCode THEN "empty"
                   ELSE "code"
           f == Frame(kind, sender, recipient, exec, static, s, logs)
<1>1. state' = s2 /\ frames' = Append(frames, f)
  BY DEF OpenCall
<1>2. LogGrows(logs, logs')
  <2>1. logs' = logs \/ logs' = EmitTransferLog(logs, sender, recipient, value)
    BY DEF OpenCall
  <2> QED
    BY <2>1, TransferLogGrows DEF LogGrows
<1>3. Good(s) /\ logs \in Seq(Emitters)
  BY DEF CallsOK, LogsOK
<1>4. Extends(s, s1) /\ Good(s1) /\ Redistributes(World(s), World(s1))
  BY <1>3, CallEffectsStep DEF Callable
<1>5. kind # "CALL" => s1 = s
  BY DEF CallEffects
<1> HIDE DEF s1
<1>6. /\ Quiet(s1, s2) /\ Good(s2)
      /\ code_address \notin Precompiles => /\ s2.modified[code_address].loaded
                                            /\ s2.modified[code_address].code_hash
                                                 = World(s1)[code_address].code
  BY <1>4, GetCodeStep, QuietSelf
<1>7. exec \in {"code", "precompile", "empty"}
  OBVIOUS
<1>8. exec = "code" => /\ code_address \notin Precompiles
                       /\ s2.modified[code_address].code_hash # NoCode
  OBVIOUS
<1> HIDE DEF s2, exec
<1>9. /\ Begun(f, s, logs)
      /\ f.kind = kind /\ f.recipient = recipient /\ f.exec = exec /\ f.step = "run"
  <2>1. IsFrame(f, kind, recipient, exec, s, logs)
    BY <1>3, <1>7, FrameFields
  <2> HIDE DEF f
  <2> QED
    BY <2>1 DEF IsFrame
<1> HIDE DEF f
<1>10. Extends(s, s2) /\ World(s2) = World(s1)
  BY <1>3, <1>4, <1>6, ExtendsTransitive DEF Quiet
<1>11. exec = "code" => Alive(f, World(s2)) /\ s2.modified[recipient].loaded
  <2> SUFFICES ASSUME exec = "code"
               PROVE  Alive(f, World(s2)) /\ s2.modified[recipient].loaded
    OBVIOUS
  <2>1. CASE kind = "CALL"
    <3>1. recipient = code_address /\ s2.modified[recipient].loaded
      BY <1>6, <1>8, <2>1 DEF Callable
    <3>2. World(s2)[recipient].code # NoCode
      BY <1>6, <1>8, <1>10, <3>1
    <3>3. AbsentOK(World(s2)[recipient], s2.initial[recipient])
          /\ World(s2)[recipient].exists \in BOOLEAN
      BY <1>6 DEF Good, WorldOK, ObservationOK, Observation
    <3>4. World(s2)[recipient].exists
      BY <3>2, <3>3 DEF AbsentOK
    <3> QED
      BY <1>9, <2>1, <3>1, <3>2, <3>4 DEF Alive, Contract
  <2>2. CASE kind # "CALL"
    <3>1. Writable(s, recipient) /\ Contract(World(s), recipient)
      BY <2>2 DEF Callable
    <3>2. World(s2) = World(s)
      BY <1>5, <1>10, <2>2
    <3>3. s2.modified[recipient].loaded
      BY <1>3, <1>10, <3>1, StaysWritable DEF Writable
    <3> QED
      BY <1>9, <3>1, <3>2, <3>3 DEF Alive, Writable
  <2> QED
    BY <2>1, <2>2
<1>12. CallsOK(s2, logs', Append(frames, f), x)
  <2>1. f.kind # "CREATE"
    BY <1>9
  <2>2. f.exec = "code" => Alive(f, World(s2)) /\ s2.modified[f.recipient].loaded
    BY <1>9, <1>11
  <2> QED
    BY <1>2, <1>9, <1>10, <2>1, <2>2, CallsOpenCall
<1> QED
  BY <1>1, <1>4, <1>9, <1>10, <1>12 DEF OpenedFrom

LEMMA OpenCreateStep ==
    ASSUME NEW s, NEW x, CallsOK(s, logs, frames, x), AllRun(frames), AllCode(frames),
           NEW sender \in Addr, NEW a \in Addr, NEW value \in Nat,
           World(s)[sender].exists, World(s)[sender].balance >= value,
           ~Collides(s, a) => Creatable(s, a),
           OpenCreate(s, sender, a, value)
    PROVE  OpenedFrom(s, logs, frames, x, state', logs', frames')
<1> DEFINE f == Frame("CREATE", sender, a, "code", FALSE, s, logs)
           g == [f EXCEPT !.step = "collision"]
<1>1. Good(s) /\ logs \in Seq(Emitters)
  BY DEF CallsOK, LogsOK
<1>2. /\ Begun(f, s, logs) /\ Begun(g, s, logs) /\ g.step = "collision"
      /\ f.kind = "CREATE" /\ f.recipient = a /\ f.exec = "code" /\ f.step = "run"
  <2>1. IsFrame(f, "CREATE", a, "code", s, logs)
    BY <1>1, FrameFields
  <2> HIDE DEF f
  <2> QED
    BY <2>1 DEF IsFrame
<1>3. CASE Collides(s, a)
  <2>1. state' = Get(s, a) /\ frames' = Append(frames, g) /\ logs' = logs
    BY <1>3 DEF OpenCreate
  <2>2. Quiet(s, Get(s, a))
    BY <1>1, GetStep
  <2> HIDE DEF f, g
  <2>3. CallsOK(Get(s, a), logs, Append(frames, g), x)
    BY <1>2, <2>2, CallsOpenCollision
  <2>4. Redistributes(World(s), World(Get(s, a)))
    BY <2>2 DEF Quiet, Redistributes, SameBalances
  <2> QED
    BY <1>2, <2>1, <2>2, <2>3, <2>4 DEF OpenedFrom, Quiet
<1>4. CASE ~Collides(s, a)
  <2> DEFINE t == NewContract(s, sender, a, value)
             s3 == SetUpContract(s, a)
  <2>1. /\ state' = t /\ frames' = Append(frames, f)
        /\ logs' = EmitTransferLog(logs, sender, a, value)
    BY <1>4 DEF OpenCreate
  <2>2. /\ SetUp(s, s3, a) /\ Extends(s3, t) /\ Good(t)
        /\ Redistributes(World(s), World(t))
    BY <1>1, <1>4, NewContractStep
  <2> HIDE DEF f, g, t, s3
  <2>3. LogGrows(logs, logs')
    BY <2>1, TransferLogGrows
  <2>4. SetUp(s, s3, f.recipient)
    BY <1>2, <2>2
  <2>5. CallsOK(t, logs', Append(frames, f), x)
    BY <1>2, <2>2, <2>3, <2>4, CallsOpenCreate
  <2>6. Extends(s, t)
    BY <1>1, <2>2, ExtendsTransitive DEF SetUp
  <2> QED
    BY <1>2, <2>1, <2>2, <2>5, <2>6 DEF OpenedFrom
<1> QED
  BY <1>3, <1>4

-----------------------------------------------------------------------------
(* The checkpoints of the open calls, as the abstract specification saves   *)
(* them.                                                                    *)

Checkpoints == [world : Worlds, log : Seq(Emitters)]

IsSaved(v, fs) ==
    /\ v \in Seq(Checkpoints) /\ Len(v) = Len(fs)
    /\ \A i \in 1..Len(fs) : v[i] = fs[i].checkpoint

LEMMA SavedSeq ==
    ASSUME NEW fs \in Seq(FrameType)
    PROVE  IsSaved(Saved(fs), fs)
<1> DEFINE m == Len(fs)
           v == Saved(fs)
<1>1. m \in Nat /\ DOMAIN fs = 1..m
  BY LenProperties
<1>2. \A i \in 1..m : fs[i].checkpoint \in Checkpoints
  <2>1. \A i \in 1..m : fs[i] \in FrameType
    BY ElementOfSeq
  <2> QED
    BY <2>1 DEF FrameType, Checkpoints
<1>3. v = [i \in 1..m |-> fs[i].checkpoint]
  BY <1>1 DEF Saved
<1> HIDE DEF m, v
<1>4. v \in [1..m -> Checkpoints]
  BY <1>2, <1>3
<1>5. v \in Seq(Checkpoints)
  BY <1>1, <1>4, SeqDef
<1>6. Len(v) = m
  <2>1. DOMAIN v = 1..m /\ DOMAIN v = 1..Len(v) /\ Len(v) \in Nat
    BY <1>4, <1>5, LenProperties
  <2> QED
    BY <1>1, <2>1
<1> QED
  BY <1>3, <1>5, <1>6 DEF IsSaved, m, v

LEMMA SavedSame ==
    ASSUME NEW fs \in Seq(FrameType), NEW gs \in Seq(FrameType), SameCheckpoints(gs, fs)
    PROVE  Saved(gs) = Saved(fs)
<1>1. IsSaved(Saved(fs), fs) /\ IsSaved(Saved(gs), gs)
  BY SavedSeq
<1> QED
  BY <1>1, SeqEqual DEF IsSaved, SameCheckpoints

LEMMA SavedEmpty ==
    ASSUME NEW fs \in Seq(FrameType)
    PROVE  Saved(fs) = << >> <=> fs = << >>
<1>1. IsSaved(Saved(fs), fs)
  BY SavedSeq
<1>2. fs = << >> <=> Len(fs) = 0
  BY EmptySeq
<1>3. Saved(fs) = << >> <=> Len(Saved(fs)) = 0
  BY <1>1, EmptySeq DEF IsSaved
<1> QED
  BY <1>1, <1>2, <1>3 DEF IsSaved

LEMMA SavedPush ==
    ASSUME NEW fs \in Seq(FrameType), NEW s, NEW l, NEW f, Begun(f, s, l)
    PROVE  Saved(Append(fs, f)) = Append(Saved(fs), [world |-> World(s), log |-> l])
<1> DEFINE gs == Append(fs, f)
           v == Saved(fs)
           u == Saved(gs)
           c == [world |-> World(s), log |-> l]
           m == Len(fs)
<1>1. f \in FrameType /\ m \in Nat
  BY LenProperties DEF Begun
<1>2. f.checkpoint = c
  <2>1. f.checkpoint \in Checkpoints
    BY <1>1 DEF FrameType, Checkpoints
  <2>2. f.checkpoint.world = World(s) /\ f.checkpoint.log = l
    BY DEF Begun
  <2> QED
    BY <2>1, <2>2 DEF Checkpoints
<1>3. gs \in Seq(FrameType) /\ Len(gs) = m + 1 /\ gs[m + 1] = f /\ \A i \in 1..m : gs[i] = fs[i]
  BY <1>1, AppendProperties
<1>4. IsSaved(v, fs) /\ IsSaved(u, gs)
  BY <1>3, SavedSeq
<1>5. c \in Checkpoints
  BY <1>1, <1>2 DEF FrameType, Checkpoints
<1> HIDE DEF gs, v, u, c, m
<1>6. /\ v \in Seq(Checkpoints) /\ u \in Seq(Checkpoints) /\ Len(v) = m /\ Len(u) = m + 1
      /\ \A i \in 1..m : v[i] = fs[i].checkpoint
      /\ \A i \in 1..(m + 1) : u[i] = gs[i].checkpoint
  BY <1>3, <1>4 DEF IsSaved, m
<1>7. /\ Append(v, c) \in Seq(Checkpoints) /\ Len(Append(v, c)) = m + 1
      /\ Append(v, c)[m + 1] = c /\ \A i \in 1..m : Append(v, c)[i] = v[i]
  BY <1>5, <1>6, AppendProperties
<1>8. ASSUME NEW i \in 1..(m + 1) PROVE u[i] = Append(v, c)[i]
  <2>1. i \in 1..m \/ i = m + 1
    BY <1>1
  <2>2. CASE i \in 1..m
    BY <1>3, <1>6, <1>7, <2>2
  <2>3. CASE i = m + 1
    BY <1>2, <1>3, <1>6, <1>7, <2>3
  <2> QED
    BY <2>1, <2>2, <2>3
<1>9. u = Append(v, c)
  BY <1>6, <1>7, <1>8, SeqEqual
<1> QED
  BY <1>9 DEF gs, v, u, c

LEMMA SavedPop ==
    ASSUME NEW fs \in Seq(FrameType), fs # << >>, NEW gs, IsPop(gs, fs)
    PROVE  Saved(gs) = SubSeq(Saved(fs), 1, Len(Saved(fs)) - 1)
<1> DEFINE v == Saved(fs)
           u == Saved(gs)
           m == Len(fs) - 1
<1>1. m \in Nat /\ Len(fs) = m + 1
  BY LenProperties, EmptySeq
<1>2. gs \in Seq(FrameType) /\ Len(gs) = m /\ \A j \in 1..m : gs[j] = fs[j]
  BY <1>1 DEF IsPop
<1>3. IsSaved(v, fs) /\ IsSaved(u, gs)
  BY <1>2, SavedSeq
<1> HIDE DEF v, u, m
<1>4. /\ v \in Seq(Checkpoints) /\ u \in Seq(Checkpoints) /\ Len(v) = m + 1 /\ Len(u) = m
      /\ \A i \in 1..(m + 1) : v[i] = fs[i].checkpoint
      /\ \A i \in 1..m : u[i] = gs[i].checkpoint
  BY <1>1, <1>2, <1>3 DEF IsSaved
<1>5. \A i \in 1..m : v[i] \in Checkpoints /\ u[i] = v[i]
  BY <1>1, <1>2, <1>4, ElementOfSeq
<1>6. m \in Int /\ 1 \in Int
  BY <1>1
<1>7. /\ SubSeq(v, 1, m) \in Seq(Checkpoints)
      /\ Len(SubSeq(v, 1, m)) = IF 1 <= m THEN m - 1 + 1 ELSE 0
      /\ \A i \in 1..(m - 1 + 1) : SubSeq(v, 1, m)[i] = v[1 + i - 1]
  BY <1>5, <1>6, SubSeqProperties
<1>8. Len(SubSeq(v, 1, m)) = m /\ \A i \in 1..m : SubSeq(v, 1, m)[i] = v[i]
  BY ONLY <1>1, <1>7
<1>9. u = SubSeq(v, 1, m)
  BY <1>4, <1>5, <1>7, <1>8, SeqEqual
<1>10. m = Len(v) - 1
  BY <1>1, <1>4
<1> QED
  BY <1>9, <1>10 DEF u, v

-----------------------------------------------------------------------------
(* The prologue of a call, as the abstract specification describes it. *)

PrologueOf(o, b, warmed, creators) ==
    [o EXCEPT !.warm = o.warm \/ b \in warmed,
              !.nonce = IF b \in creators THEN o.nonce + 1 ELSE o.nonce]

LEMMA PrologueForm ==
    ASSUME NEW w \in Worlds, NEW warmed, NEW creators
    PROVE  Abstract!Prologue(w, warmed, creators)
             = [b \in Addr |-> PrologueOf(w[b], b, warmed, creators)]
  BY DEF Abstract!Prologue, PrologueOf, Worlds, Observation

IsPrologueOf(q, o, b, warmed, creators) ==
    /\ b \notin warmed /\ b \notin creators => q = o
    /\ b \in warmed /\ b \notin creators => q = [o EXCEPT !.warm = TRUE]
    /\ b \notin warmed /\ b \in creators => q = [o EXCEPT !.nonce = o.nonce + 1]
    /\ b \in warmed /\ b \in creators
          => q = [[o EXCEPT !.warm = TRUE] EXCEPT !.nonce = o.nonce + 1]

LEMMA PrologueOfSet ==
    ASSUME NEW o \in Observation, NEW b, NEW warmed, NEW creators
    PROVE  IsPrologueOf(PrologueOf(o, b, warmed, creators), o, b, warmed, creators)
<1>1. /\ b \in warmed => (o.warm \/ b \in warmed) = TRUE
      /\ b \notin warmed => (o.warm \/ b \in warmed) = o.warm
  BY DEF Observation
<1> QED
  BY <1>1 DEF IsPrologueOf, PrologueOf, Observation

Solitary == {{}} \cup {{a} : a \in Addr}

IsPrologue(w, w2) ==
    \E warmed, creators \in Solitary : w2 = Abstract!Prologue(w, warmed, creators)

LEMMA WarmPrologue ==
    ASSUME NEW w \in Worlds, NEW w2, NEW a \in Addr, Warms(w, w2, a)
    PROVE  IsPrologue(w, w2)
<1>1. \A b \in Addr : w[b] \in Observation
  BY DEF Worlds
<1>2. CASE w2 = w
  <2> DEFINE v == Abstract!Prologue(w, {}, {})
  <2>1. v = [b \in Addr |-> PrologueOf(w[b], b, {}, {})]
    BY PrologueForm
  <2>2. \A b \in Addr : PrologueOf(w[b], b, {}, {}) = w[b]
    <3>1. \A b \in Addr : IsPrologueOf(PrologueOf(w[b], b, {}, {}), w[b], b, {}, {})
      BY <1>1, PrologueOfSet
    <3> QED
      BY <3>1 DEF IsPrologueOf
  <2> HIDE DEF v
  <2>3. v = w
    BY <2>1, <2>2 DEF Worlds
  <2> QED
    BY <1>2, <2>3 DEF IsPrologue, Solitary, v
<1>3. CASE w2 = [w EXCEPT ![a] = [w[a] EXCEPT !.warm = TRUE]]
  <2> DEFINE v == Abstract!Prologue(w, {a}, {})
             o == [w[a] EXCEPT !.warm = TRUE]
  <2>1. v = [b \in Addr |-> PrologueOf(w[b], b, {a}, {})]
    BY PrologueForm
  <2>2. \A b \in Addr : PrologueOf(w[b], b, {a}, {}) = IF b = a THEN o ELSE w[b]
    <3>1. \A b \in Addr : IsPrologueOf(PrologueOf(w[b], b, {a}, {}), w[b], b, {a}, {})
      BY <1>1, PrologueOfSet
    <3> QED
      BY <3>1 DEF IsPrologueOf
  <2> HIDE DEF v, o
  <2>3. w2 = [w EXCEPT ![a] = o]
    BY <1>3 DEF o
  <2>4. v = w2
    BY <2>1, <2>2, <2>3 DEF Worlds
  <2> QED
    BY <2>4 DEF IsPrologue, Solitary, v
<1> QED
  BY <1>2, <1>3 DEF Warms

LEMMA CreatePrologueIs ==
    ASSUME NEW w \in Worlds, NEW w2, NEW a \in Addr, NEW sender \in Addr,
           Prepares(w, w2, a, sender)
    PROVE  IsPrologue(w, w2)
<1>1. \A b \in Addr : w[b] \in Observation
  BY DEF Worlds
<1>2. PICK w1 : Warms(w, w1, a) /\ w2 = Bumped(w1, sender)
  BY DEF Prepares
<1>3. CASE w1 = w
  <2> DEFINE v == Abstract!Prologue(w, {}, {sender})
             o == [w[sender] EXCEPT !.nonce = w[sender].nonce + 1]
  <2>1. v = [b \in Addr |-> PrologueOf(w[b], b, {}, {sender})]
    BY PrologueForm
  <2>2. \A b \in Addr : PrologueOf(w[b], b, {}, {sender})
                          = IF b = sender THEN o ELSE w[b]
    <3>1. \A b \in Addr : IsPrologueOf(PrologueOf(w[b], b, {}, {sender}), w[b], b, {}, {sender})
      BY <1>1, PrologueOfSet
    <3> QED
      BY <3>1 DEF IsPrologueOf
  <2>3. w2 = [w EXCEPT ![sender] = o]
    BY <1>2, <1>3 DEF Bumped
  <2> HIDE DEF v, o
  <2>4. v = w2
    BY <2>1, <2>2, <2>3 DEF Worlds
  <2> QED
    BY <2>4 DEF IsPrologue, Solitary, v
<1>4. CASE w1 = [w EXCEPT ![a] = [w[a] EXCEPT !.warm = TRUE]]
  <2> DEFINE v == Abstract!Prologue(w, {a}, {sender})
             p == [w[a] EXCEPT !.warm = TRUE]
             q == w1[sender]
             o == [q EXCEPT !.nonce = q.nonce + 1]
  <2>1. v = [b \in Addr |-> PrologueOf(w[b], b, {a}, {sender})]
    BY PrologueForm
  <2>2. w2 = [w1 EXCEPT ![sender] = o]
    BY <1>2 DEF Bumped
  <2>3. p.nonce = w[a].nonce
    BY <1>1 DEF Observation
  <2>4. q = IF sender = a THEN p ELSE w[sender]
    BY <1>4 DEF Worlds
  <2>5. /\ sender = a => o = [p EXCEPT !.nonce = w[a].nonce + 1]
        /\ sender # a => o = [w[sender] EXCEPT !.nonce = w[sender].nonce + 1]
    BY <2>3, <2>4
  <2>6. \A b \in Addr : PrologueOf(w[b], b, {a}, {sender})
                          = IF b = sender THEN o ELSE IF b = a THEN p ELSE w[b]
    <3> SUFFICES ASSUME NEW b \in Addr
                 PROVE  PrologueOf(w[b], b, {a}, {sender})
                          = IF b = sender THEN o ELSE IF b = a THEN p ELSE w[b]
      OBVIOUS
    <3> DEFINE u == PrologueOf(w[b], b, {a}, {sender})
    <3>1. IsPrologueOf(u, w[b], b, {a}, {sender})
      BY <1>1, PrologueOfSet
    <3> HIDE DEF u, o, p
    <3>2. u = IF b = sender THEN o ELSE IF b = a THEN p ELSE w[b]
      <4>1. CASE b = sender /\ b = a
        BY <2>5, <3>1, <4>1 DEF IsPrologueOf, p
      <4>2. CASE b = sender /\ b # a
        BY <2>5, <3>1, <4>2 DEF IsPrologueOf
      <4>3. CASE b # sender /\ b = a
        BY <3>1, <4>3 DEF IsPrologueOf, p
      <4>4. CASE b # sender /\ b # a
        BY <3>1, <4>4 DEF IsPrologueOf
      <4> QED
        BY <4>1, <4>2, <4>3, <4>4
    <3> QED
      BY <3>2 DEF u
  <2>7. w1 = [w EXCEPT ![a] = p]
    BY <1>4
  <2> HIDE DEF v, o, p, q
  <2>8. v = w2
    BY <2>1, <2>2, <2>6, <2>7 DEF Worlds
  <2> QED
    BY <2>8 DEF IsPrologue, Solitary, v
<1> QED
  BY <1>2, <1>3, <1>4 DEF Warms

-----------------------------------------------------------------------------
(* The inductive invariant of the host, and what each of its steps does.    *)

\* A call is being rolled back: the world is none of a program's.
Rolling(fs) == fs # << >> /\ fs[Len(fs)].step = "rollback"

\* Neither the world nor the checkpoint of an open call holds created ether.
SupplyOK(s, fs) ==
    /\ ~Rolling(fs) => Paid(World(s), s.initial)
    /\ \A i \in 1..Len(fs) : Paid(fs[i].checkpoint.world, s.initial)

LEMMA SupplyWork ==
    ASSUME NEW s, Good(s), NEW fs, SupplyOK(s, fs), ~Rolling(fs),
           NEW t, Good(t), t.initial = s.initial, Conserved(World(s), World(t))
    PROVE  SupplyOK(t, fs)
<1>1. ViewsOK(s.initial) /\ World(s) \in Worlds /\ World(t) \in Worlds
  BY DEF Good, StateOK, WorldOK
<1>2. Paid(World(t), t.initial)
  BY <1>1, PaidOn DEF SupplyOK
<1> QED
  BY <1>2 DEF SupplyOK

LEMMA SupplyPush ==
    ASSUME NEW s, Good(s), NEW fs \in Seq(FrameType), SupplyOK(s, fs), ~Rolling(fs),
           NEW l, NEW f, Begun(f, s, l),
           NEW t, Good(t), t.initial = s.initial, Conserved(World(s), World(t))
    PROVE  SupplyOK(t, Append(fs, f))
<1> DEFINE gs == Append(fs, f)
<1>1. ViewsOK(s.initial) /\ World(s) \in Worlds /\ World(t) \in Worlds
  BY DEF Good, StateOK, WorldOK
<1>2. Paid(World(s), t.initial) /\ Paid(World(t), t.initial)
  BY <1>1, PaidOn DEF SupplyOK
<1>3. f \in FrameType /\ f.checkpoint.world = World(s)
  BY DEF Begun
<1>4. /\ Len(fs) \in Nat /\ Len(gs) = Len(fs) + 1 /\ gs[Len(fs) + 1] = f
      /\ \A i \in 1..Len(fs) : gs[i] = fs[i]
  BY <1>3, AppendProperties, LenProperties
<1> HIDE DEF gs
<1>5. ASSUME NEW i \in 1..Len(gs)
      PROVE  Paid(gs[i].checkpoint.world, t.initial)
  <2>1. i \in 1..Len(fs) \/ i = Len(fs) + 1
    BY <1>4
  <2>2. CASE i \in 1..Len(fs)
    BY <1>4, <2>2 DEF SupplyOK
  <2>3. CASE i = Len(fs) + 1
    BY <1>2, <1>3, <1>4, <2>3
  <2> QED
    BY <2>1, <2>2, <2>3
<1> QED
  BY <1>2, <1>5 DEF SupplyOK, gs

LEMMA SupplyPop ==
    ASSUME NEW s, NEW fs \in Seq(FrameType), fs # << >>, SupplyOK(s, fs),
           NEW gs, IsPop(gs, fs),
           NEW t, t.initial = s.initial, Paid(World(t), t.initial)
    PROVE  SupplyOK(t, gs)
<1>1. \A i \in 1..Len(gs) : i \in 1..Len(fs) /\ gs[i] = fs[i]
  BY LenProperties DEF IsPop
<1> QED
  BY <1>1 DEF SupplyOK

LEMMA SupplyRolling ==
    ASSUME NEW s, NEW fs, SupplyOK(s, fs), NEW gs, SameCheckpoints(gs, fs), Rolling(gs),
           NEW t, t.initial = s.initial
    PROVE  SupplyOK(t, gs)
  BY DEF SupplyOK, SameCheckpoints

LEMMA RunNotRolling ==
    ASSUME NEW fs \in Seq(FrameType), AllRun(fs)
    PROVE  ~Rolling(fs)
<1>1. fs # << >> => Len(fs) \in 1..Len(fs)
  BY LenProperties, EmptySeq
<1> QED
  BY <1>1 DEF AllRun, Rolling

HostInv ==
    /\ phase \in {"idle", "call", "returned"}
    /\ phase = "call" <=> frames # << >>
    /\ Good(state)
    /\ phase = "idle" => state = NewState(state.initial) /\ logs = << >>
    /\ phase # "idle" => /\ tx \in Transactions /\ CallsOK(state, logs, frames, tx.sender)
                        /\ SupplyOK(state, frames)

\* What every step must do: keep the invariant and the reads, and be a step
\* of the abstract specification.
StepOK ==
    /\ HostInv'
    /\ phase # "returned" =>
          \A a \in Addr : KeepsLoaded(state.modified[a], state'.modified[a])
    /\ Abstract!ANext \/ UNCHANGED Abstract!avars

\* What a running program can rely on.
RunsOK ==
    /\ phase = "call" /\ frames # << >> /\ frames \in Seq(FrameType)
    /\ Good(state) /\ tx \in Transactions /\ CallsOK(state, logs, frames, tx.sender)
    /\ AllRun(frames) /\ AllCode(frames)
    /\ SupplyOK(state, frames) /\ ~Rolling(frames)
    /\ Top \in FrameType
    /\ Writable(state, Top.recipient) /\ Contract(World(state), Top.recipient)

LEMMA RunningFacts ==
    ASSUME HostInv, Running
    PROVE  RunsOK
<1> DEFINE m == Len(frames)
           n == Len(state.journal)
           f == frames[m]
<1>1. /\ phase = "call" /\ frames # << >> /\ Good(state) /\ tx \in Transactions
      /\ CallsOK(state, logs, frames, tx.sender) /\ f.step = "run" /\ f.exec = "code"
  BY DEF HostInv, Running, Top
<1>2. frames \in Seq(FrameType)
  BY <1>1 DEF CallsOK
<1>3. m \in 1..m /\ m \in Nat
  BY <1>1, <1>2, LenProperties, EmptySeq
<1>4. f \in FrameType
  BY <1>2, <1>3, ElementOfSeq
<1>5. AllRun(frames)
  BY <1>1, RunsWhenTop
<1>s. SupplyOK(state, frames) /\ ~Rolling(frames)
  BY <1>1, <1>2, <1>5, RunNotRolling DEF HostInv
<1>6. PICK base, w, fl : Layout(state, base, frames, tx.sender, w, fl)
  BY <1>1 DEF CallsOK
<1>7. \A j \in 1..m : FrameOK(state, base, frames, w, fl, j)
  BY <1>6 DEF Layout
<1>8. AllCode(frames)
  <2>1. ASSUME NEW j \in 1..m PROVE frames[j].exec = "code"
    <3>1. CASE j < m
      BY <1>7, <3>1 DEF FrameOK
    <3>2. CASE j = m
      BY <1>1, <3>2
    <3> QED
      BY <1>3, <3>1, <3>2
  <2> QED
    BY <2>1 DEF AllCode
<1>9. n \in Nat /\ w[n + 1] = World(state)
  BY <1>1, <1>6, StateFields DEF Good, Layout, Labels
<1>10. /\ fl[m] <= n + 1 /\ state.modified[f.recipient].loaded
       /\ \A i \in fl[m]..(n + 1) : Alive(f, w[i])
  BY <1>1, <1>3, <1>7 DEF FrameOK
<1>11. fl[m] \in Nat
  BY <1>3, <1>6 DEF Layout
<1>12. Alive(f, World(state))
  <2>1. n + 1 \in fl[m]..(n + 1)
    BY <1>9, <1>10, <1>11
  <2> QED
    BY <1>9, <1>10, <2>1
<1>13. f.recipient \in Addr
  BY <1>4 DEF FrameType
<1> QED
  BY <1>1, <1>2, <1>4, <1>5, <1>8, <1>10, <1>12, <1>13, <1>s
  DEF RunsOK, Top, Writable, Alive

LEMMA SenderType ==
    ASSUME NEW t \in Transactions PROVE t.sender \in Addr /\ t.value \in Nat
  BY InputAssumption

(* A step of the running program that neither opens nor closes a call. *)
LEMMA WorkStep ==
    ASSUME RunsOK, Extends(state, state'), LogGrows(logs, logs'),
           SameBalances(World(state), World(state')),
           UNCHANGED <<frames, tx, phase, status, txs>>
    PROVE  StepOK
<1>1. CallsOK(state', logs', frames, tx.sender)
  BY CallsWork DEF RunsOK
<1>2. CallsOK(state, logs, frames, tx.sender)' /\ Good(state)'
  BY <1>1 DEF CallsOK
<1>s. SupplyOK(state, frames)'
  <2>1. Good(state') /\ World(state) \in Worlds
    BY <1>1 DEF CallsOK, RunsOK, Good, WorldOK
  <2>2. Conserved(World(state), World(state'))
    BY <2>1, ConservedSame
  <2>3. SupplyOK(state', frames)
    BY <2>1, <2>2, SupplyWork DEF RunsOK, Extends
  <2> QED
    BY <2>3
<1>3. HostInv'
  BY <1>2, <1>s DEF RunsOK, HostInv
<1>4. \A a \in Addr : KeepsLoaded(state.modified[a], state'.modified[a])
  BY DEF Extends
<1>5. Saved(frames) # << >>
  BY SavedEmpty DEF RunsOK
<1>6. Abstract!Work
  BY <1>5 DEF Abstract!Work, Saved
<1> QED
  BY <1>3, <1>4, <1>6 DEF StepOK, Abstract!ANext

(* A call is opened: prologue, checkpoint, and the first effects. *)
LEMMA OpenStep ==
    ASSUME RunsOK, NEW s, IsPrologue(World(state), World(s)), Extends(state, s), Good(s),
           SameBalances(World(state), World(s)),
           OpenedFrom(s, logs, frames, tx.sender, state', logs', frames'),
           UNCHANGED <<tx, phase, status, txs>>
    PROVE  StepOK
<1>1. /\ Extends(s, state') /\ CallsOK(state', logs', frames', tx.sender)
      /\ Redistributes(World(s), World(state'))
  BY DEF OpenedFrom
<1>2. PICK f : Begun(f, s, logs) /\ frames' = Append(frames, f)
  BY DEF OpenedFrom
<1>3. Saved(frames') = Append(Saved(frames), [world |-> World(s), log |-> logs])
  BY <1>2, SavedPush DEF RunsOK
<1>4. Extends(state, state')
  BY <1>1, ExtendsTransitive DEF RunsOK
<1>5. frames' # << >>
  <2>1. frames \in Seq(FrameType) /\ f \in FrameType
    BY <1>2 DEF RunsOK, Begun
  <2>2. Len(frames') = Len(frames) + 1 /\ Len(frames) \in Nat
    BY <1>2, <2>1, AppendProperties, LenProperties
  <2> QED
    BY <2>2, EmptySeq
<1>s. SupplyOK(state, frames)'
  <2>1. Good(state') /\ World(state) \in Worlds /\ World(s) \in Worlds /\ World(state') \in Worlds
    BY <1>1 DEF CallsOK, RunsOK, Good, WorldOK
  <2>2. Conserved(World(state), World(s)) /\ Conserved(World(s), World(state'))
    BY <1>1, <2>1, ConservedSame, BurnsConserved DEF RedistributesOrBurns
  <2>3. SupplyOK(s, frames)
    BY <2>2, SupplyWork DEF RunsOK, Extends
  <2>4. SupplyOK(state', Append(frames, f))
    BY <1>1, <1>2, <2>1, <2>2, <2>3, SupplyPush DEF RunsOK, Extends
  <2>5. SupplyOK(state', frames')
    BY <1>2, <2>4
  <2> QED
    BY <2>5
<1>6. HostInv'
  <2>1. CallsOK(state, logs, frames, tx.sender)'
    BY <1>1
  <2>2. Good(state)'
    BY <1>1 DEF CallsOK
  <2> QED
    BY <1>5, <1>s, <2>1, <2>2 DEF RunsOK, HostInv
<1>7. \A a \in Addr : KeepsLoaded(state.modified[a], state'.modified[a])
  BY <1>4 DEF Extends
<1>8. Saved(frames) # << >>
  BY SavedEmpty DEF RunsOK
<1>9. PICK warmed \in Solitary, creators \in Solitary :
        World(s) = Abstract!Prologue(World(state), warmed, creators)
  BY DEF IsPrologue
<1>10. Saved(frames)' = Append(Saved(frames),
            [world |-> Abstract!Prologue(World(state), warmed, creators), log |-> logs])
  BY <1>3, <1>9
<1>11. Abstract!Enter
  BY <1>8, <1>10 DEF Abstract!Enter, Saved, Solitary
<1> QED
  BY <1>6, <1>7, <1>11 DEF StepOK, Abstract!ANext

LEMMA PopEmpty ==
    ASSUME NEW fs \in Seq(FrameType), fs # << >>, NEW gs, IsPop(gs, fs)
    PROVE  Len(fs) = 1 <=> gs = << >>
<1>1. Len(fs) \in Nat /\ gs \in Seq(FrameType) /\ Len(gs) = Len(fs) - 1
  BY LenProperties DEF IsPop
<1>2. gs = << >> <=> Len(gs) = 0
  BY <1>1, EmptySeq
<1> QED
  BY <1>1, <1>2

LEMMA CloseInv ==
    ASSUME phase = "call", frames # << >>, tx \in Transactions, frames \in Seq(FrameType),
           CallsOK(state', logs', frames', tx.sender), IsPop(frames', frames),
           SupplyOK(state, frames), state'.initial = state.initial,
           Paid(World(state'), state'.initial),
           PhaseAfterReturn, UNCHANGED <<tx, txs>>
    PROVE  HostInv'
<1>1. Len(frames) = 1 <=> frames' = << >>
  BY PopEmpty
<1>2. Good(state)' /\ CallsOK(state, logs, frames, tx.sender)'
  BY DEF CallsOK
<1>3. phase' = IF frames' = << >> THEN "returned" ELSE "call"
  BY <1>1 DEF PhaseAfterReturn
<1>4. SupplyOK(state', frames')
  BY SupplyPop
<1>5. SupplyOK(state, frames)'
  BY <1>4
<1> QED
  BY <1>2, <1>3, <1>5 DEF HostInv

(* A call is closed successfully. *)
LEMMA SucceedStep ==
    ASSUME phase = "call", frames # << >>, tx \in Transactions, frames \in Seq(FrameType),
           CallsOK(state', logs', frames', tx.sender), IsPop(frames', frames),
           Keeps(state, state'),
           Good(state), SupplyOK(state, frames), ~Rolling(frames),
           Conserved(World(state), World(state')),
           PhaseAfterReturn, status' = "success", UNCHANGED <<tx, txs>>
    PROVE  StepOK
<1>s. state'.initial = state.initial /\ Paid(World(state'), state'.initial)
  <2>1. /\ ViewsOK(state.initial) /\ World(state) \in Worlds /\ World(state') \in Worlds
    BY DEF CallsOK, Good, StateOK, WorldOK
  <2>2. Paid(World(state), state.initial) /\ state'.initial = state.initial
    BY DEF SupplyOK, Keeps
  <2> QED
    BY <2>1, <2>2, PaidOn
<1>1. HostInv'
  BY <1>s, CloseInv
<1>2. Saved(frames) # << >> /\ Saved(frames') = SubSeq(Saved(frames), 1, Len(Saved(frames)) - 1)
  BY SavedEmpty, SavedPop
<1>3. Abstract!Succeed
  BY <1>2 DEF Abstract!Succeed, Saved
<1> QED
  BY <1>1, <1>3 DEF StepOK, Abstract!ANext, Keeps

-----------------------------------------------------------------------------
(* The callbacks of a running program. *)

LEMMA WarmValues ==
    ASSUME NEW w \in Worlds, NEW w2, NEW a \in Addr, Warms(w, w2, a), NEW b \in Addr
    PROVE  w2[b].balance = w[b].balance /\ w2[b].exists = w[b].exists
<1>1. w[a] \in Observation
  BY DEF Worlds
<1>2. CASE w2 = w
  BY <1>2
<1>3. CASE w2 = [w EXCEPT ![a] = [w[a] EXCEPT !.warm = TRUE]]
  <2> DEFINE o == [w[a] EXCEPT !.warm = TRUE]
  <2>1. o.balance = w[a].balance /\ o.exists = w[a].exists
    BY <1>1 DEF Observation
  <2>2. w2 = [w EXCEPT ![a] = o]
    BY <1>3
  <2> HIDE DEF o
  <2> QED
    BY <2>1, <2>2 DEF Worlds
<1> QED
  BY <1>2, <1>3 DEF Warms

LEMMA AccountCallbacks ==
    ASSUME HostInv, NEW a \in Addr, DoAccessAccount(a) \/ DoReadAccount(a)
    PROVE  StepOK
<1>1. RunsOK
  BY RunningFacts DEF DoAccessAccount, DoReadAccount
<1>2. Extends(state, state') /\ SameBalances(World(state), World(state'))
  <2>1. Good(state)
    BY <1>1 DEF RunsOK
  <2>2. CASE DoAccessAccount(a)
    <3>1. state' = AccessAccount(state, a)
      BY <2>2 DEF DoAccessAccount
    <3>2. Extends(state, state') /\ Warms(World(state), World(state'), a)
      BY <2>1, <3>1, AccessAccountStep
    <3> QED
      BY <2>1, <3>2, WarmValues DEF SameBalances, Good, WorldOK
  <2>3. CASE DoReadAccount(a)
    <3>1. Quiet(state, Get(state, a)) /\ Quiet(state, GetCode(state, a))
      BY <2>1, GetStep, GetCodeStep
    <3>2. Quiet(state, state')
      BY <2>3, <3>1 DEF DoReadAccount
    <3> QED
      BY <3>2 DEF Quiet, SameBalances
  <2> QED
    BY <2>2, <2>3
<1>3. LogGrows(logs, logs') /\ UNCHANGED <<frames, tx, phase, status, txs>>
  BY DEF DoAccessAccount, DoReadAccount, LogGrows
<1> QED
  BY <1>1, <1>2, <1>3, WorkStep

LEMMA SlotReads ==
    ASSUME HostInv, NEW k \in Key, DoAccessStorage(k) \/ DoGetStorage(k)
    PROVE  StepOK
<1>1. RunsOK
  BY RunningFacts DEF DoAccessStorage, DoGetStorage
<1>2. Good(state) /\ Writable(state, Top.recipient) /\ Top.recipient \in Addr
  BY <1>1 DEF RunsOK, Writable
<1>3. Extends(state, state') /\ SameBalances(World(state), World(state'))
  <2>1. CASE DoAccessStorage(k)
    BY <1>2, <2>1, AccessStorageStep DEF DoAccessStorage
  <2>2. CASE DoGetStorage(k)
    <3>1. Quiet(state, GetStorage(state, Top.recipient, k))
      BY <1>2, GetStorageStep
    <3>2. Quiet(state, state')
      BY <2>2, <3>1 DEF DoGetStorage
    <3> QED
      BY <3>2 DEF Quiet, SameBalances
  <2> QED
    BY <2>1, <2>2
<1>4. LogGrows(logs, logs') /\ UNCHANGED <<frames, tx, phase, status, txs>>
  BY DEF DoAccessStorage, DoGetStorage, LogGrows
<1> QED
  BY <1>1, <1>3, <1>4, WorkStep

LEMMA SlotWrites ==
    ASSUME HostInv, NEW k \in Key, NEW v \in Val,
           DoSetStorage(k, v) \/ DoSetTransientStorage(k, v)
    PROVE  StepOK
<1> DEFINE self == Top.recipient
<1>1. RunsOK
  BY RunningFacts DEF DoSetStorage, DoSetTransientStorage
<1>2. Good(state) /\ Writable(state, self)
  BY <1>1 DEF RunsOK
<1> HIDE DEF self
<1>3. Extends(state, state') /\ SameBalances(World(state), World(state'))
  <2>1. CASE DoSetStorage(k, v)
    <3> DEFINE s == IF Rev >= BERLIN THEN AccessStorage(state, self, k) ELSE state
    <3>1. state' = SetStorage(s, self, k, v)
      BY <2>1 DEF DoSetStorage, self
    <3>2. Extends(state, s) /\ Good(s) /\ SameBalances(World(state), World(s))
      <4>1. SameBalances(World(state), World(state))
        BY DEF SameBalances
      <4> QED
        BY <1>2, <4>1, AccessStorageStep, ExtendsSelf
    <3> HIDE DEF s
    <3>3. Writable(s, self)
      BY <1>2, <3>2, StaysWritable
    <3>4. /\ Extends(s, SetStorage(s, self, k, v))
          /\ SameBalances(World(s), World(SetStorage(s, self, k, v)))
      BY <3>2, <3>3, SetStorageStep
    <3>5. Extends(state, state')
      BY <1>2, <3>1, <3>2, <3>4, ExtendsTransitive
    <3>6. SameBalances(World(state), World(state'))
      BY <3>1, <3>2, <3>4 DEF SameBalances
    <3> QED
      BY <3>5, <3>6
  <2>2. CASE DoSetTransientStorage(k, v)
    BY <1>2, <2>2, SetTransientStorageStep DEF DoSetTransientStorage, self
  <2> QED
    BY <2>1, <2>2
<1>4. LogGrows(logs, logs') /\ UNCHANGED <<frames, tx, phase, status, txs>>
  BY DEF DoSetStorage, DoSetTransientStorage, LogGrows
<1> QED
  BY <1>1, <1>3, <1>4, WorkStep

LEMMA LogCallback ==
    ASSUME HostInv, DoEmitLog
    PROVE  StepOK
<1>1. RunsOK
  BY RunningFacts DEF DoEmitLog
<1>2. Extends(state, state') /\ SameBalances(World(state), World(state'))
  <2>1. state' = state /\ Good(state)
    BY <1>1 DEF RunsOK, DoEmitLog
  <2> QED
    BY <2>1, ExtendsSelf DEF SameBalances
<1>3. LogGrows(logs, logs')
  BY <1>1 DEF RunsOK, Writable, DoEmitLog, LogGrows, Emitters
<1> QED
  BY <1>1, <1>2, <1>3, WorkStep DEF DoEmitLog

LEMMA CallCallback ==
    ASSUME HostInv, NEW op \in CallOps, NEW dst \in Addr, NEW value \in Values,
           DoCall(op, dst, value)
    PROVE  StepOK
<1> DEFINE self == Top.recipient
           s == CallPrologue(state, op, dst, value)
           kind == CallKind(op)
           sender == IF op = "DELEGATECALL" THEN Top.sender ELSE self
           recipient == IF op \in {"CALL", "STATICCALL"} THEN dst ELSE self
           static == Top.static \/ op = "STATICCALL"
<1>1. RunsOK
  BY RunningFacts DEF DoCall
<1>2. /\ Good(state) /\ Writable(state, self) /\ self \in Addr /\ Top \in FrameType
      /\ Contract(World(state), self) /\ value \in Nat
      /\ CallsOK(state, logs, frames, tx.sender) /\ AllRun(frames) /\ AllCode(frames)
  BY <1>1, InputAssumption DEF RunsOK, Writable
<1>3. Extends(state, s) /\ Good(s) /\ Warms(World(state), World(s), dst)
  BY <1>2, CallPrologueStep
<1>4. OpenCall(s, kind, sender, recipient, dst, value, static)
  BY DEF DoCall
<1>5. /\ value # 0 => op \in {"CALL", "CALLCODE"}
      /\ state.modified[self].balance >= value
      /\ UNCHANGED <<tx, phase, status, txs>>
  BY DEF DoCall, CanTransfer
<1>6. kind \in {"CALL", "CALLCODE", "DELEGATECALL"} /\ sender \in Addr /\ recipient \in Addr
  BY <1>2 DEF CallKind, CallOps, FrameType
<1>7. static \in BOOLEAN
  BY <1>2 DEF FrameType
<1>8. kind = "CALL" <=> op \in {"CALL", "STATICCALL"}
  BY DEF CallKind, CallOps
<1> HIDE DEF s, kind, self, static
<1>9. World(state)[self].balance >= value /\ World(state)[self].exists
  <2>1. Shows(World(state)[self], state.modified[self], state.initial[self])
    BY <1>2, WorldShows DEF Good, Writable
  <2> QED
    BY <1>2, <1>5, <2>1 DEF Shows, Writable
<1>10. World(s)[self].balance >= value /\ World(s)[self].exists
  <2>1. World(state) \in Worlds
    BY <1>2 DEF Good, WorldOK
  <2> QED
    BY <1>2, <1>3, <1>9, <2>1, WarmValues
<1>11. Writable(s, self) /\ Contract(World(s), self)
  BY <1>2, <1>3, StaysWritable, StaysContract
<1>12. Callable(s, kind, sender, recipient, dst, value)
  <2>1. CASE kind = "CALL"
    <3>1. recipient = dst
      BY <1>8, <2>1
    <3>2. value # 0 => sender = self
      BY <1>5
    <3> HIDE DEF sender, recipient
    <3> QED
      BY <1>10, <2>1, <3>1, <3>2 DEF Callable
  <2>2. CASE kind # "CALL"
    <3>1. recipient = self
      BY <1>8, <2>2
    <3> HIDE DEF sender, recipient
    <3> QED
      BY <1>11, <2>2, <3>1 DEF Callable
  <2> QED
    BY <2>1, <2>2
<1> HIDE DEF sender, recipient
<1>13. CallsOK(s, logs, frames, tx.sender)
  <2>1. LogGrows(logs, logs)
    BY DEF LogGrows
  <2> QED
    BY <1>2, <1>3, <2>1, CallsWork
<1>14. OpenedFrom(s, logs, frames, tx.sender, state', logs', frames')
  BY <1>2, <1>4, <1>6, <1>7, <1>12, <1>13, OpenCallStep
<1>15. IsPrologue(World(state), World(s)) /\ SameBalances(World(state), World(s))
  BY <1>2, <1>3, WarmPrologue, WarmValues DEF SameBalances, Good, WorldOK
<1> QED
  BY <1>1, <1>3, <1>5, <1>14, <1>15, OpenStep

LEMMA FreeNonce ==
    ASSUME NEW s, Good(s), NEW a \in Addr, ~Collides(s, a), World(s)[a].exists
    PROVE  World(s)[a].nonce = 0
<1> DEFINE g == Get(s, a)
           acc == g.modified[a]
<1>1. Good(g) /\ acc.loaded /\ World(g) = World(s)
  BY GetStep DEF Quiet
<1>2. acc.nonexistent \/ acc.nonce = 0
  BY DEF Collides, IsCreateCollision
<1>3. Shows(World(s)[a], acc, g.initial[a])
  <2> HIDE DEF g
  <2> QED
    BY <1>1, WorldShows DEF Good
<1> HIDE DEF acc
<1> QED
  BY <1>2, <1>3 DEF Shows

(* A creator never computes the address of a contract it has just created:  *)
(* the nonce that a creation gives the contract, or before Spurious Dragon  *)
(* the bump of the creator's nonce, sees to that.                           *)
LEMMA Creates ==
    ASSUME NEW s, Good(s), NEW self, Writable(s, self),
           NEW a \in CreateTargets(self, World(s)[self].nonce), a \in Addr,
           NEW t, Good(t), Prepares(World(s), World(t), a, self), ~Collides(t, a)
    PROVE  Creatable(t, a)
<1> DEFINE w == World(s)
           v == World(t)
           n == w[self].nonce
           p == <<self, n>>
<1>1. self \in Addr /\ w \in Worlds /\ v \in Worlds
  BY DEF Writable, Good, WorldOK
<1>2. n \in Nat
  BY <1>1 DEF Worlds, Observation
<1>3. /\ v[a].just_created = w[a].just_created
      /\ v[self].nonce = n + 1
  BY <1>1, PreparedWorld
<1>4. /\ ObservationOK(v[a], t.initial[a]) /\ CreatedOK(v, a) /\ CreatedOK(w, a)
  BY DEF Good, WorldOK
<1>5. CASE Rev >= SPURIOUS_DRAGON
  <2>1. v[a].just_created => v[a].nonce > 0 /\ v[a].exists
    BY <1>4, <1>5 DEF CreatedOK, ObservationOK, LifeOK
  <2>2. v[a].exists => v[a].nonce = 0
    BY FreeNonce
  <2>3. ~v[a].just_created
    BY <2>1, <2>2
  <2>4. ~(Rev < SPURIOUS_DRAGON)
    BY <1>5, RevAssumption DEF Revisions, SPURIOUS_DRAGON
  <2> QED
    BY <2>3, <2>4 DEF Creatable
<1>6. CASE ~(Rev >= SPURIOUS_DRAGON)
  <2>1. Rev < SPURIOUS_DRAGON /\ ~(Rev >= PETERSBURG)
    BY <1>6, RevAssumption DEF Revisions, SPURIOUS_DRAGON, PETERSBURG
  <2>2. p \in DOMAIN CreateAddress /\ a = CreateAddress[p]
    BY <2>1 DEF CreateTargets
  <2>3. p[1] = self /\ p[2] = n
    OBVIOUS
  <2> HIDE DEF p
  <2>4. CreatedBy(v, a)
    <3>1. v[p[1]].nonce > p[2]
      BY <1>2, <1>3, <2>3
    <3> QED
      BY <2>2, <3>1 DEF CreatedBy
  <2>5. ~w[a].just_created
    <3> SUFFICES ASSUME w[a].just_created PROVE FALSE
      OBVIOUS
    <3>1. CreatedBy(w, a)
      BY <1>4, <1>6 DEF CreatedOK
    <3>2. PICK q \in DOMAIN CreateAddress : CreateAddress[q] = a /\ w[q[1]].nonce > q[2]
      BY <3>1 DEF CreatedBy
    <3>3. q = p
      BY <2>1, <2>2, <3>2, AddressAssumption
    <3> QED
      BY <1>2, <2>3, <3>2, <3>3
  <2> QED
    BY <1>3, <2>4, <2>5 DEF Creatable
<1> QED
  BY <1>5, <1>6

LEMMA CreateCallback ==
    ASSUME HostInv, NEW a \in Addr, NEW value \in Values, DoCreate(a, value)
    PROVE  StepOK
<1> DEFINE self == Top.recipient
           s == CreatePrologue(state, self, a)
<1>1. RunsOK
  BY RunningFacts DEF DoCreate
<1>2. /\ Good(state) /\ Writable(state, self) /\ self \in Addr /\ value \in Nat
      /\ CallsOK(state, logs, frames, tx.sender) /\ AllRun(frames) /\ AllCode(frames)
  BY <1>1, InputAssumption DEF RunsOK, Writable
<1>3. /\ state.modified[self].balance >= value
      /\ a \in CreateTargets(self, state.modified[self].nonce)
      /\ OpenCreate(s, self, a, value)
      /\ UNCHANGED <<tx, phase, status, txs>>
  BY DEF DoCreate, CanTransfer
<1>4. Extends(state, s) /\ Good(s) /\ Prepares(World(state), World(s), a, self)
  BY <1>2, CreatePrologueStep
<1> HIDE DEF s, self
<1>5. /\ World(state)[self].balance = state.modified[self].balance
      /\ World(state)[self].nonce = state.modified[self].nonce
  <2>1. Shows(World(state)[self], state.modified[self], state.initial[self])
    BY <1>2, WorldShows DEF Good, Writable
  <2> QED
    BY <2>1 DEF Shows
<1>6. World(state) \in Worlds
  BY <1>2 DEF Good, WorldOK
<1>7. World(s)[self].balance >= value /\ World(s)[self].exists
  <2>1. World(s)[self].balance = World(state)[self].balance
    BY <1>2, <1>4, <1>6, PreparedWorld
  <2>2. Writable(s, self)
    BY <1>2, <1>4, StaysWritable
  <2> QED
    BY <1>3, <1>5, <2>1, <2>2 DEF Writable
<1>8. ~Collides(s, a) => Creatable(s, a)
  BY <1>2, <1>3, <1>4, <1>5, Creates
<1>9. CallsOK(s, logs, frames, tx.sender)
  <2>1. LogGrows(logs, logs)
    BY DEF LogGrows
  <2> QED
    BY <1>2, <1>4, <2>1, CallsWork
<1>10. OpenedFrom(s, logs, frames, tx.sender, state', logs', frames')
  BY <1>2, <1>3, <1>7, <1>8, <1>9, OpenCreateStep
<1>11. IsPrologue(World(state), World(s)) /\ SameBalances(World(state), World(s))
  BY <1>2, <1>4, <1>6, CreatePrologueIs, PreparedWorld DEF SameBalances
<1> QED
  BY <1>1, <1>3, <1>4, <1>10, <1>11, OpenStep

LEMMA SelfdestructCallback ==
    ASSUME HostInv, NEW b \in Addr, DoSelfdestruct(b)
    PROVE  StepOK
<1> DEFINE self == Top.recipient
           s1 == AccessAccount(state, b)
           s2 == IF Rev = TANGERINE_WHISTLE
                    \/ (Rev > TANGERINE_WHISTLE /\ state.modified[self].balance # 0)
                 THEN Get(s1, b) ELSE s1
           t == Selfdestruct(s2, self, b)
<1>1. RunsOK
  BY RunningFacts DEF DoSelfdestruct
<1>2. /\ Good(state) /\ Writable(state, self) /\ self \in Addr
      /\ Contract(World(state), self)
      /\ CallsOK(state, logs, frames, tx.sender) /\ AllRun(frames)
      /\ frames \in Seq(FrameType) /\ frames # << >> /\ phase = "call" /\ tx \in Transactions
  BY <1>1 DEF RunsOK, Writable
<1>3. /\ state' = t
      /\ logs' = EmitTransferLog(logs, self, b, state.modified[self].balance)
      /\ Pop /\ PhaseAfterReturn /\ status' = "success" /\ UNCHANGED <<tx, txs>>
  BY DEF DoSelfdestruct
<1>4. Extends(state, s1) /\ Good(s1) /\ Warms(World(state), World(s1), b)
  BY <1>2, AccessAccountStep
<1> HIDE DEF s1, self
<1>5. Quiet(s1, s2) /\ Extends(s1, s2) /\ Good(s2)
  <2>1. Quiet(s1, s2) /\ Good(s2)
    BY <1>4, GetStep, QuietSelf
  <2> QED
    BY <2>1 DEF Quiet
<1> HIDE DEF s2
<1>b. SameBalances(World(state), World(s2))
  BY <1>2, <1>4, <1>5, WarmValues DEF SameBalances, Quiet, Good, WorldOK
<1>6. Extends(state, s2)
  BY <1>2, <1>4, <1>5, ExtendsTransitive
<1>7. Writable(s2, self) /\ Contract(World(s2), self)
  BY <1>2, <1>6, StaysWritable, StaysContract
<1>8. Extends(s2, t) /\ RedistributesOrBurns(World(s2), World(t), self)
  BY <1>5, <1>7, SelfdestructStep
<1>9. Extends(state, state')
  BY <1>2, <1>3, <1>6, <1>8, ExtendsTransitive
<1>10. LogGrows(logs, logs')
  BY <1>3, TransferLogGrows
<1> HIDE DEF t
<1>11. CallsOK(state', logs', frames, tx.sender)
  BY <1>2, <1>9, <1>10, CallsWork
<1>12. IsPop(frames', frames)
  BY <1>2, <1>3, PopFrames DEF Pop
<1>13. CallsOK(state', logs', frames', tx.sender)
  BY <1>2, <1>11, <1>12, CallsPop
<1>14. Keeps(state, state')
  BY <1>9 DEF Extends, Keeps
<1>15. Conserved(World(state), World(state'))
  <2>1. RedistributesOrBurns(World(state), World(state'), self)
    BY <1>3, <1>8, <1>b, RedistributesBefore DEF t
  <2>2. World(state) \in Worlds /\ World(state') \in Worlds
    BY <1>2, <1>13 DEF CallsOK, Good, WorldOK
  <2> QED
    BY <2>1, <2>2, BurnsConserved
<1>16. SupplyOK(state, frames) /\ ~Rolling(frames)
  BY <1>1 DEF RunsOK
<1> QED
  BY <1>2, <1>3, <1>12, <1>13, <1>14, <1>15, <1>16, SucceedStep

LEMMA ReturnStep ==
    ASSUME HostInv, NEW code \in Codes, Return(code)
    PROVE  StepOK
<1>1. /\ frames # << >> /\ Top.step = "run" /\ Pop /\ PhaseAfterReturn
      /\ status' = "success" /\ logs' = logs /\ UNCHANGED <<tx, txs>>
  BY DEF Return
<1>2. /\ phase = "call" /\ tx \in Transactions /\ CallsOK(state, logs, frames, tx.sender)
      /\ frames \in Seq(FrameType)
  BY <1>1 DEF HostInv, CallsOK
<1>3. IsPop(frames', frames)
  BY <1>1, <1>2, PopFrames DEF Pop
<1>4. /\ CallsOK(state', logs', frames', tx.sender) /\ Keeps(state, state')
      /\ SameBalances(World(state), World(state'))
  <2>1. CASE Top.kind = "CREATE"
    <3>1. state' = DeployCode(state, frames[Len(frames)].recipient, code)
      BY <2>1 DEF Return, Top
    <3>2. frames[Len(frames)].step = "run" /\ frames[Len(frames)].kind = "CREATE"
      BY <1>1, <2>1 DEF Top
    <3> QED
      BY <1>1, <1>2, <1>3, <3>1, <3>2, CallsDeploy
  <2>2. CASE Top.kind # "CREATE"
    <3>1. state' = state
      BY <2>2 DEF Return
    <3>2. CallsOK(state, logs, frames', tx.sender)
      BY <1>1, <1>2, <1>3, CallsPop
    <3> QED
      BY <1>1, <3>1, <3>2, KeepsSame DEF Keeps, SameBalances
  <2> QED
    BY <2>1, <2>2
<1>5. SupplyOK(state, frames) /\ ~Rolling(frames) /\ Good(state)
  BY <1>1, <1>2 DEF HostInv, Rolling, Top
<1>6. Conserved(World(state), World(state'))
  BY <1>4, <1>5, ConservedSame DEF Good, WorldOK
<1> QED
  BY <1>1, <1>2, <1>3, <1>4, <1>5, <1>6, SucceedStep

-----------------------------------------------------------------------------
(* The failure of a call. *)

\* Facts about the frame that ends.
LEMMA OpenFacts ==
    ASSUME HostInv, frames # << >>
    PROVE  /\ phase = "call" /\ tx \in Transactions
           /\ CallsOK(state, logs, frames, tx.sender)
           /\ frames \in Seq(FrameType) /\ Good(state) /\ Saved(frames) # << >>
           /\ SupplyOK(state, frames)
<1>1. /\ phase = "call" /\ tx \in Transactions
      /\ CallsOK(state, logs, frames, tx.sender) /\ SupplyOK(state, frames)
  BY DEF HostInv
<1>2. frames \in Seq(FrameType) /\ Good(state)
  BY <1>1 DEF CallsOK
<1> QED
  BY <1>1, <1>2, SavedEmpty

(* Inside the failing call nothing but the state and the steps change. *)
LEMMA FailingStep ==
    ASSUME HostInv, frames # << >>, frames' \in Seq(FrameType), frames' # << >>,
           CallsOK(state', logs', frames', tx.sender), Keeps(state, state'),
           SameCheckpoints(frames', frames), Rolling(frames'),
           UNCHANGED <<tx, phase, status, txs>>
    PROVE  StepOK
<1>1. /\ phase = "call" /\ tx \in Transactions /\ frames \in Seq(FrameType)
      /\ Saved(frames) # << >> /\ SupplyOK(state, frames)
  BY OpenFacts
<1>2. Saved(frames') = Saved(frames)
  BY <1>1, SavedSame
<1>3. Abstract!Work
  BY <1>1, <1>2 DEF Abstract!Work, Saved
<1>4. Good(state)' /\ CallsOK(state, logs, frames, tx.sender)'
  BY DEF CallsOK
<1>s. SupplyOK(state', frames')
  BY <1>1, SupplyRolling DEF Keeps
<1>6. SupplyOK(state, frames)'
  BY <1>s
<1>5. HostInv'
  BY <1>1, <1>4, <1>6 DEF HostInv
<1> QED
  BY <1>3, <1>5 DEF StepOK, Keeps, Abstract!ANext

LEMMA FailStep ==
    ASSUME HostInv, Fail
    PROVE  StepOK
<1> DEFINE s == IF TouchSurvives THEN Get(state, RIPEMD) ELSE state
           touched == TouchSurvives /\ s.modified[RIPEMD].erase_if_empty
<1>1. /\ frames # << >> /\ state' = s /\ frames' = RollsBack(frames, touched)
      /\ UNCHANGED <<logs, tx, phase, status, txs>>
  BY DEF Fail, RollsBack
<1>2. /\ CallsOK(state, logs, frames, tx.sender) /\ frames \in Seq(FrameType) /\ Good(state)
  BY <1>1, OpenFacts
<1>3. Quiet(state, s) /\ Good(s)
  BY <1>2, GetStep, QuietSelf, RoleAssumption
<1>4. touched => TouchSurvives
  OBVIOUS
<1>5. touched \in BOOLEAN
  OBVIOUS
<1> HIDE DEF touched, s
<1>6. /\ CallsOK(s, logs, RollsBack(frames, touched), tx.sender)
      /\ SameCheckpoints(RollsBack(frames, touched), frames)
  BY <1>1, <1>2, <1>3, <1>4, <1>5, CallsFail
<1>7. frames' \in Seq(FrameType) /\ frames' # << >>
  <2>1. frames' \in Seq(FrameType) /\ Len(frames') = Len(frames)
    BY <1>1, <1>6 DEF CallsOK, SameCheckpoints
  <2> QED
    BY <1>1, <1>2, <2>1, EmptySeq
<1>8. Keeps(state, state')
  BY <1>1, <1>3 DEF Quiet, Extends, Keeps
<1>9. Rolling(frames')
  <2>1. IsRolled(RollsBack(frames, touched), frames, touched)
    BY <1>1, <1>2, <1>5, RolledFrames
  <2> QED
    BY <1>1, <1>7, <2>1 DEF IsRolled, Rolling
<1> QED
  BY <1>1, <1>6, <1>7, <1>8, <1>9, FailingStep

LEMMA RollbackStep ==
    ASSUME HostInv, Rollback
    PROVE  StepOK
<1>1. /\ frames # << >> /\ state' = UndoLast(state)
      /\ frames[Len(frames)].step = "rollback"
      /\ Len(state.journal) > frames[Len(frames)].state_checkpoint
      /\ UNCHANGED <<logs, frames, tx, phase, status, txs>>
  BY DEF Rollback, RollingBack, Top
<1>2. /\ CallsOK(state, logs, frames, tx.sender) /\ frames \in Seq(FrameType)
  BY <1>1, OpenFacts
<1>3. CallsOK(UndoLast(state), logs, frames, tx.sender) /\ Keeps(state, UndoLast(state))
  BY <1>1, <1>2, CallsUndo
<1>4. SameCheckpoints(frames', frames) /\ Rolling(frames')
  BY <1>1 DEF SameCheckpoints, Rolling
<1> QED
  BY <1>1, <1>2, <1>3, <1>4, FailingStep

LEMMA PoppedRun ==
    ASSUME NEW s, NEW l, NEW fs, NEW x, CallsOK(s, l, fs, x), NEW gs, IsPop(gs, fs)
    PROVE  AllRun(gs)
<1>1. PICK base, w, fl : Layout(s, base, fs, x, w, fl)
  BY DEF CallsOK
<1>2. Len(fs) \in Nat
  BY LenProperties DEF CallsOK
<1>3. ASSUME NEW j \in 1..Len(gs) PROVE gs[j].step = "run"
  <2>1. j \in 1..Len(fs) /\ j < Len(fs) /\ gs[j] = fs[j]
    BY <1>2 DEF IsPop
  <2> QED
    BY <1>1, <2>1 DEF Layout, FrameOK
<1> QED
  BY <1>3 DEF AllRun

LEMMA TouchRipemdIs ==
    ASSUME NEW w, NEW views, WorldOK(w, views)
    PROVE  Abstract!TouchRipemd(w) = TouchedWorld(w, RIPEMD)
<1> DEFINE o == w[RIPEMD]
<1>1. o \in Observation /\ (o.has_code <=> o.code # NoCode) /\ RIPEMD \in Addr
  BY RoleAssumption DEF WorldOK, ObservationOK, CodeOK
<1>2. w \in Worlds
  BY DEF WorldOK
<1>3. o.has_code \in BOOLEAN
  BY <1>1 DEF Observation
<1>4. o.has_code = FALSE <=> o.code = NoCode
  BY <1>1, <1>3
<1>5. [w EXCEPT ![RIPEMD].exists = TRUE, ![RIPEMD].erase_if_empty = TRUE]
        = [w EXCEPT ![RIPEMD] = [o EXCEPT !.exists = TRUE, !.erase_if_empty = TRUE]]
  BY <1>1, <1>2 DEF Worlds, Observation
<1> QED
  BY <1>4, <1>5 DEF Abstract!TouchRipemd, Abstract!EmptyInWorld, TouchedWorld

LEMMA FailReturnStep ==
    ASSUME HostInv, FailReturn
    PROVE  StepOK
<1> DEFINE f == frames[Len(frames)]
           v == f.checkpoint.world
<1>1. /\ frames # << >> /\ Len(state.journal) = f.state_checkpoint
      /\ state' = IF f.ripemd_touched THEN Touch(state, RIPEMD) ELSE state
      /\ logs' = SubSeq(logs, 1, f.logs_checkpoint)
      /\ Pop /\ PhaseAfterReturn /\ status' = "failure" /\ UNCHANGED <<tx, txs>>
  BY DEF FailReturn, RollingBack, Top
<1>2. /\ phase = "call" /\ tx \in Transactions
      /\ CallsOK(state, logs, frames, tx.sender)
      /\ frames \in Seq(FrameType) /\ Good(state) /\ Saved(frames) # << >>
      /\ SupplyOK(state, frames)
  BY <1>1, OpenFacts
<1>3. IsPop(frames', frames)
  BY <1>1, <1>2, PopFrames DEF Pop
<1>4. CallsOK(state, logs', frames', tx.sender) /\ World(state) = v /\ logs' = f.checkpoint.log
  <2> DEFINE h == f
  <2>1. h = frames[Len(frames)] /\ Len(state.journal) = h.state_checkpoint
        /\ logs' = SubSeq(logs, 1, h.logs_checkpoint)
    BY <1>1
  <2> HIDE DEF h
  <2>2. Restored(state, logs', frames', tx.sender, h)
    BY <1>1, <1>2, <1>3, <2>1, CallsRestored
  <2> QED
    BY <2>2 DEF Restored, h
<1>5. AllRun(frames')
  BY <1>2, <1>3, PoppedRun
<1>6. Len(frames) \in 1..Len(frames)
  BY <1>1, <1>2, LenProperties, EmptySeq
<1>7. f.ripemd_touched => TouchSurvives
  BY <1>2, <1>6 DEF CallsOK, TouchesOK
<1>8. IsSaved(Saved(frames), frames)
  BY <1>2, SavedSeq
<1>9. Saved(frames)[Len(Saved(frames))] = f.checkpoint
  BY <1>6, <1>8 DEF IsSaved
<1>p. Paid(World(state), state.initial)
  BY <1>2, <1>4, <1>6 DEF SupplyOK
<1>10. Saved(frames') = SubSeq(Saved(frames), 1, Len(Saved(frames)) - 1)
  BY <1>1, <1>2, <1>3, SavedPop
<1> HIDE DEF f, v
<1>11. /\ CallsOK(state', logs', frames', tx.sender) /\ Keeps(state, state')
       /\ World(state') = v \/ (TouchSurvives /\ World(state') = Abstract!TouchRipemd(v))
       /\ SameBalances(World(state), World(state'))
  <2>1. CASE f.ripemd_touched
    <3>1. state' = Touch(state, RIPEMD) /\ TouchSurvives
      BY <1>1, <1>7, <2>1
    <3>2. Extends(state, state') /\ World(state') = TouchedWorld(World(state), RIPEMD)
      BY <1>2, <3>1, TouchStep, RoleAssumption
    <3>3. LogGrows(logs', logs')
      BY DEF LogGrows
    <3>4. CallsOK(state', logs', frames', tx.sender)
      BY <1>4, <1>5, <3>2, <3>3, CallsWork
    <3>5. Abstract!TouchRipemd(World(state)) = TouchedWorld(World(state), RIPEMD)
      BY <1>2, TouchRipemdIs DEF Good
    <3>6. SameBalances(World(state), World(state'))
      BY <1>2, <3>2, TouchedBalances, RoleAssumption DEF Good, WorldOK
    <3> QED
      BY <1>4, <3>1, <3>2, <3>4, <3>5, <3>6 DEF Extends, Keeps
  <2>2. CASE ~f.ripemd_touched
    <3>1. state' = state
      BY <1>1, <2>2
    <3>2. Keeps(state, state)
      BY KeepsSame DEF Keeps
    <3>3. CallsOK(state', logs', frames', tx.sender)
      BY <1>4, <3>1
    <3>4. World(state') = v
      BY <1>4, <3>1
    <3>5. SameBalances(World(state), World(state'))
      BY <3>1 DEF SameBalances
    <3> QED
      BY <3>1, <3>2, <3>3, <3>4, <3>5
  <2> QED
    BY <2>1, <2>2
<1>q. state'.initial = state.initial /\ Paid(World(state'), state'.initial)
  <2>1. /\ ViewsOK(state.initial) /\ World(state) \in Worlds /\ World(state') \in Worlds
    BY <1>2, <1>11 DEF CallsOK, Good, StateOK, WorldOK
  <2>2. Conserved(World(state), World(state')) /\ state'.initial = state.initial
    BY <1>11, <2>1, ConservedSame DEF Keeps
  <2> QED
    BY <1>p, <2>1, <2>2, PaidOn
<1>12. HostInv'
  BY <1>1, <1>2, <1>3, <1>11, <1>q, CloseInv
<1>13. World(state)' = v \/ (Abstract!TouchIsSticky /\ World(state)' = Abstract!TouchRipemd(v))
  BY <1>11 DEF TouchSurvives, SPURIOUS_DRAGON, PARIS, Abstract!TouchIsSticky,
               Abstract!SPURIOUS_DRAGON, Abstract!PARIS
<1>14. Abstract!Fail
  BY <1>1, <1>2, <1>4, <1>9, <1>10, <1>13 DEF Abstract!Fail, Saved, v
<1> QED
  BY <1>11, <1>12, <1>14 DEF StepOK, Keeps, Abstract!ANext

-----------------------------------------------------------------------------
(* The transaction around the calls. *)

LEMMA CallsNone ==
    ASSUME NEW s, Good(s), NEW x, Writable(s, x)
    PROVE  CallsOK(s, << >>, << >>, x)
<1> DEFINE n == Len(s.journal)
           v == World(s)
           w == [i \in Nat |-> v]
           fl == [i \in Nat |-> 0]
<1>1. n \in Nat /\ v \in Worlds /\ WorldOK(v, s.initial)
  BY StateFields DEF Good, WorldOK
<1>2. << >> \in Seq(FrameType) /\ << >> \in Seq(Emitters) /\ Len(<< >>) = 0
  BY EmptySeq
<1> HIDE DEF n, v
<1>3. w \in [Nat -> Worlds] /\ fl \in [Nat -> Nat] /\ \A i \in Nat : w[i] = v
  BY <1>1
<1> HIDE DEF w, fl
<1>4. /\ n <= n /\ n + 1 \in Nat
      /\ \A i \in (n + 1)..n : FALSE
      /\ \A i \in (n + 1)..(n + 1) : i \in Nat
  BY <1>1
<1>5. Labels(s, n, w)
  BY <1>1, <1>3, <1>4 DEF Labels, n, v
<1>6. v[x].exists /\ x \in Addr /\ s.modified[x].loaded
  BY DEF Writable, v
<1>7. \A i \in (n + 1)..(n + 1) : w[i][x].exists
  BY <1>3, <1>4, <1>6
<1>8. Layout(s, n, << >>, x, w, fl)
  BY <1>2, <1>3, <1>5, <1>6, <1>7 DEF Layout, n
<1>9. LogsOK(<< >>, << >>) /\ TouchesOK(<< >>)
  BY <1>2 DEF LogsOK, TouchesOK
<1> QED
  BY <1>2, <1>8, <1>9 DEF CallsOK

LEMMA NewWorld ==
    ASSUME NEW s, Good(s), s = NewState(s.initial), NEW a \in Addr
    PROVE  /\ World(s)[a].balance = s.initial[a].balance
           /\ World(s)[a].nonce = s.initial[a].nonce
           /\ ~World(s)[a].just_created
<1> DEFINE view == s.initial[a]
           acc == s.modified[a]
           o == World(s)[a]
<1>1. /\ view \in ViewAccount /\ (~view.exists => view = NoAccount)
      /\ AccountOK(acc, view)
  BY StateFields DEF Good
<1>2. ~acc.loaded
  <2>1. s.modified = [b \in Addr |-> NewAccount]
    <3> DEFINE m == [b \in Addr |-> NewAccount]
    <3> HIDE DEF m
    <3>1. NewState(s.initial).modified = m
      BY DEF NewState, m
    <3>2. s.modified = NewState(s.initial).modified
      OBVIOUS
    <3> QED
      BY <3>1, <3>2 DEF m
  <2>2. acc = NewAccount
    BY <2>1
  <2> HIDE DEF acc
  <2> QED
    BY <2>2 DEF NewAccount
<1>3. o = Observed(acc, view)
  BY WorldAt
<1> HIDE DEF o, acc, view
<1>4. o.balance = view.balance /\ o.nonce = view.nonce /\ ~o.just_created
  BY <1>1, <1>2, <1>3, ObservedUnloaded
<1> QED
  BY <1>4 DEF o, view

\* What holds when a transaction has been accepted and prepared, in state u.
Prepared(t, u) ==
    /\ phase = "idle" /\ frames = << >> /\ logs = << >> /\ Good(state) /\ Good(u)
    /\ t.sender \in Addr /\ t.value \in Nat /\ TxRecipient(t) \in Addr
    /\ Keeps(state, u) /\ Writable(u, t.sender)
    /\ World(u)[t.sender].balance >= t.value
    /\ World(u)[t.sender].nonce = state.initial[t.sender].nonce + 1
    /\ state.initial[t.sender].nonce \in Nat
    /\ \A b \in Addr : ~World(u)[b].just_created
    /\ CallsOK(u, logs, frames, t.sender)
    /\ Paid(World(u), u.initial)

LEMMA PreparedStep ==
    ASSUME HostInv, phase = "idle", NEW t \in Transactions, TxValid(t)
    PROVE  Prepared(t, TxPrologue(t))
<1> DEFINE u == TxPrologue(t)
           x == t.sender
           cost == GasLimit * GasPrice
           view == state.initial[x]
<1>1. /\ frames = << >> /\ logs = << >> /\ Good(state) /\ state = NewState(state.initial)
  BY DEF HostInv
<1>2. x \in Addr /\ t.value \in Nat /\ cost \in Nat
  BY SenderType, CostType
<1>3. view \in ViewAccount
  BY <1>1, <1>2, StateFields DEF Good
<1>4. view.balance >= cost + t.value
      /\ (t.to \in Addr \/ <<x, view.nonce>> \in DOMAIN CreateAddress)
  BY DEF TxValid
<1>5. view.balance \in Nat /\ view.nonce \in Nat
  BY <1>3 DEF ViewAccount
<1>6. TxRecipient(t) \in Addr
  BY <1>4, AddressAssumption DEF TxRecipient
<1>7. \A b \in Addr : /\ World(state)[b].balance = state.initial[b].balance
                      /\ World(state)[b].nonce = state.initial[b].nonce
                      /\ ~World(state)[b].just_created
  BY <1>1, NewWorld
<1>8. World(state)[x].balance >= cost
  <2>1. World(state)[x].balance = view.balance
    BY <1>2, <1>7
  <2> HIDE DEF cost, view
  <2> QED
    BY <1>2, <1>4, <1>5, <2>1
<1>9. Opens(state, t, u)
  BY <1>1, <1>2, <1>6, <1>8, TxPrologueStep
<1> HIDE DEF u
<1>10. /\ Good(u) /\ Keeps(state, u) /\ Writable(u, x)
       /\ World(u)[x].balance = World(state)[x].balance - cost
       /\ World(u)[x].nonce = World(state)[x].nonce + 1
       /\ \A b \in Addr : World(u)[b].just_created = World(state)[b].just_created
       /\ \A b \in Addr : b # x => World(u)[b].balance = World(state)[b].balance
  BY <1>9 DEF Opens, Keeps
<1>11. World(u)[x].balance >= t.value
  <2>1. World(u)[x].balance = view.balance - cost
    BY <1>2, <1>7, <1>10
  <2> HIDE DEF cost, view
  <2> QED
    BY <1>2, <1>4, <1>5, <2>1
<1>12. World(u)[x].nonce = view.nonce + 1
  BY <1>2, <1>7, <1>10
<1>13. \A b \in Addr : ~World(u)[b].just_created
  BY <1>7, <1>10
<1>14. CallsOK(u, logs, frames, x)
  BY <1>1, <1>10, CallsNone
<1>15. Paid(World(u), u.initial)
  <2> DEFINE w == World(u)
             views == state.initial
  <2>1. w \in Worlds /\ Balances(w) /\ ViewsOK(views) /\ u.initial = views
    BY <1>1, <1>10, WorldBalances DEF Good, StateOK, WorldOK, Keeps
  <2>2. Balances(views) /\ Supply(views) \in Nat
    BY <2>1, ViewBalances
  <2>3. \A b \in Addr : b # x => w[b].balance = views[b].balance
    BY <1>7, <1>10
  <2>4. w[x].balance = views[x].balance - cost
    BY <1>2, <1>7, <1>10
  <2> HIDE DEF w, cost
  <2>5. Supply(w) = Supply(views) - views[x].balance + w[x].balance
    BY <1>2, <2>1, <2>2, <2>3, SupplyChanged
  <2>6. views[x].balance \in Nat /\ cost \in Nat
    BY <1>2, <1>5
  <2> HIDE DEF views
  <2>7. Supply(w) + cost = Supply(views)
    BY <2>2, <2>4, <2>5, <2>6
  <2>8. Supply(w) + cost <= Supply(views)
    BY <2>2, <2>7
  <2> QED
    BY <2>1, <2>7, <2>8 DEF Paid, w, cost
<1> QED
  BY <1>1, <1>2, <1>5, <1>6, <1>10, <1>11, <1>12, <1>13, <1>14, <1>15 DEF Prepared, u

(* The top-level call is opened. *)
LEMMA OpenTopStep ==
    ASSUME NEW t \in Transactions, NEW u, Prepared(t, u),
           OpenedFrom(u, logs, frames, t.sender, state', logs', frames'),
           tx' = t, phase' = "call", status' = "none"
    PROVE  StepOK
<1>1. /\ phase = "idle" /\ frames = << >> /\ Good(u) /\ Keeps(state, u)
      /\ frames \in Seq(FrameType)
  BY EmptySeq DEF Prepared
<1>2. /\ Extends(u, state') /\ CallsOK(state', logs', frames', t.sender)
      /\ Redistributes(World(u), World(state'))
  BY DEF OpenedFrom
<1>3. PICK f : Begun(f, u, logs) /\ frames' = Append(frames, f)
  BY DEF OpenedFrom
<1>4. f \in FrameType
  BY <1>3 DEF Begun
<1>5. frames' \in Seq(FrameType) /\ Len(frames') = 1
  <2>1. Len(frames) = 0
    BY <1>1, EmptySeq
  <2> QED
    BY <1>1, <1>3, <1>4, <2>1, AppendProperties
<1>6. frames' # << >>
  BY <1>5, EmptySeq
<1>s. SupplyOK(state, frames)'
  <2>1. 1..Len(frames) = {}
    BY <1>1, EmptySeq
  <2>2. SupplyOK(u, frames) /\ ~Rolling(frames)
    BY <1>1, <2>1 DEF Prepared, SupplyOK, Rolling
  <2>3. Good(state') /\ World(u) \in Worlds /\ World(state') \in Worlds
    BY <1>1, <1>2 DEF CallsOK, Good, WorldOK
  <2>4. Conserved(World(u), World(state'))
    BY <1>2, <2>3, BurnsConserved DEF RedistributesOrBurns
  <2>5. SupplyOK(state', Append(frames, f))
    BY <1>1, <1>2, <1>3, <2>2, <2>3, <2>4, SupplyPush DEF Extends
  <2>6. SupplyOK(state', frames')
    BY <1>3, <2>5
  <2> QED
    BY <2>6
<1>7. HostInv'
  <2>1. CallsOK(state, logs, frames, tx.sender)'
    BY <1>2
  <2>2. Good(state)'
    BY <1>2 DEF CallsOK
  <2> QED
    BY <1>6, <1>s, <2>1, <2>2 DEF HostInv
<1>8. \A a \in Addr : KeepsLoaded(state.modified[a], state'.modified[a])
  BY <1>1, <1>2 DEF Keeps, Extends, KeepsLoaded
<1>9. Saved(frames) = << >>
  BY <1>1, SavedEmpty
<1>10. Len(Saved(frames')) = 1
  BY <1>5, SavedSeq DEF IsSaved
<1>11. Abstract!EnterTop
  BY <1>9, <1>10 DEF Abstract!EnterTop, Saved
<1> QED
  BY <1>7, <1>8, <1>11 DEF StepOK, Abstract!ANext

LEMMA BeginStep ==
    ASSUME HostInv, NEW t \in Transactions, Begin(t)
    PROVE  StepOK
<1> DEFINE u == TxPrologue(t)
           a == TxRecipient(t)
<1>1. /\ phase = "idle" /\ TxValid(t)
      /\ tx' = t /\ phase' = "call" /\ status' = "none"
      /\ IF t.to \in Addr
         THEN OpenCall(u, "CALL", t.sender, t.to, t.to, t.value, FALSE)
         ELSE OpenCreate(u, t.sender, a, t.value)
  BY DEF Begin
<1>2. Prepared(t, u)
  BY <1>1, PreparedStep
<1>3. \/ t.to \in Addr
      \/ /\ t.to \notin Addr
         /\ <<t.sender, state.initial[t.sender].nonce>> \in DOMAIN CreateAddress
         /\ a = CreateAddress[<<t.sender, state.initial[t.sender].nonce>>]
  BY <1>1 DEF TxValid, TxRecipient
<1> HIDE DEF u, a
<1>4. /\ t.sender \in Addr /\ t.value \in Nat /\ Good(u)
      /\ World(u)[t.sender].exists /\ World(u)[t.sender].balance >= t.value
      /\ CallsOK(u, logs, frames, t.sender) /\ frames = << >>
  BY <1>2 DEF Prepared, Writable
<1>5. AllRun(frames) /\ AllCode(frames)
  <2>1. 1..Len(frames) = {}
    BY <1>4, EmptySeq
  <2> QED
    BY <2>1 DEF AllRun, AllCode
<1>6. OpenedFrom(u, logs, frames, t.sender, state', logs', frames')
  <2>1. CASE t.to \in Addr
    <3>1. Callable(u, "CALL", t.sender, t.to, t.to, t.value)
      BY <1>4 DEF Callable
    <3>2. OpenCall(u, "CALL", t.sender, t.to, t.to, t.value, FALSE)
      BY <1>1, <2>1
    <3> QED
      BY <1>4, <1>5, <2>1, <3>1, <3>2, OpenCallStep
  <2>2. CASE t.to \notin Addr
    <3>1. OpenCreate(u, t.sender, a, t.value) /\ a \in Addr
      BY <1>1, <1>2, <2>2 DEF Prepared, a
    <3>2. ~World(u)[a].just_created
      BY <1>2, <3>1 DEF Prepared
    <3>3. CreatedBy(World(u), a)
      <4> DEFINE n == state.initial[t.sender].nonce
                 p == <<t.sender, n>>
      <4>1. p \in DOMAIN CreateAddress /\ CreateAddress[p] = a
        BY <1>3, <2>2
      <4>2. World(u)[t.sender].nonce = n + 1 /\ n \in Nat
        BY <1>2 DEF Prepared
      <4>3. p[1] = t.sender /\ p[2] = n
        OBVIOUS
      <4> HIDE DEF n, p
      <4>4. World(u)[p[1]].nonce > p[2]
        BY <4>2, <4>3
      <4> QED
        BY <4>1, <4>4 DEF CreatedBy
    <3>4. ~Collides(u, a) => Creatable(u, a)
      BY <3>2, <3>3 DEF Creatable
    <3> QED
      BY <1>4, <1>5, <3>1, <3>4, OpenCreateStep
  <2> QED
    BY <2>1, <2>2
<1> QED
  BY <1>1, <1>2, <1>6, OpenTopStep

LEMMA BeginOutOfGasStep ==
    ASSUME HostInv, NEW t \in Transactions, BeginOutOfGas(t)
    PROVE  StepOK
<1> DEFINE u == TxPrologue(t)
<1>1. /\ phase = "idle" /\ TxValid(t) /\ state' = u
      /\ tx' = t /\ phase' = "returned" /\ UNCHANGED <<logs, frames, txs>>
  BY DEF BeginOutOfGas
<1>2. Prepared(t, u)
  BY <1>1, PreparedStep
<1> HIDE DEF u
<1>3. /\ frames = << >> /\ Good(u) /\ Keeps(state, u) /\ CallsOK(u, logs, frames, t.sender)
      /\ Paid(World(u), u.initial)
  BY <1>2 DEF Prepared
<1>4. HostInv'
  <2>1. CallsOK(state, logs, frames, tx.sender)'
    BY <1>1, <1>3
  <2>2. 1..Len(frames) = {}
    BY <1>3, EmptySeq
  <2>3. SupplyOK(state', frames')
    BY <1>1, <1>3, <2>2 DEF SupplyOK
  <2>4. SupplyOK(state, frames)'
    BY <2>3
  <2> QED
    BY <1>1, <1>3, <2>1, <2>4 DEF HostInv
<1>5. Saved(frames) = << >> /\ Saved(frames') = << >>
  BY <1>1, <1>3, SavedEmpty, EmptySeq
<1>6. Abstract!Outside
  BY <1>5 DEF Abstract!Outside, Saved
<1> QED
  BY <1>1, <1>3, <1>4, <1>6 DEF StepOK, Abstract!ANext, Keeps

(* The end of a transaction: the state diff gives the next initial state.  *)
Settled(gas_used) ==
    LET s == Settle(state, tx.sender, gas_used)
    IN  /\ state'.initial = [a \in Addr |-> FinalAccount(World(s)[a])]
        /\ state' = NewState(state'.initial)
        /\ Good(state')

LEMMA SenderWritable ==
    ASSUME NEW s, NEW l, NEW fs, NEW x, CallsOK(s, l, fs, x)
    PROVE  Writable(s, x)
<1>1. PICK base, w, fl : Layout(s, base, fs, x, w, fl)
  BY DEF CallsOK
<1> DEFINE n == Len(s.journal)
<1>2. n \in Nat /\ base \in Nat /\ base <= n /\ w[n + 1] = World(s)
  BY <1>1, StateFields DEF CallsOK, Good, Layout, Labels
<1>3. n + 1 \in (base + 1)..(n + 1)
  <2> HIDE DEF n
  <2> QED
    BY <1>2
<1>4. x \in Addr /\ s.modified[x].loaded /\ w[n + 1][x].exists
  BY <1>1, <1>3 DEF Layout
<1> QED
  BY <1>2, <1>4 DEF Writable

LEMMA FinishSettles ==
    ASSUME HostInv, NEW gas_used \in 1..GasLimit, Finish(gas_used)
    PROVE  Settled(gas_used)
<1> DEFINE s == Settle(state, tx.sender, gas_used)
           views == ApplyDiff(s.initial, BuildDiff(s, Rev))
<1>1. phase = "returned" /\ state' = NewState(views)
  BY DEF Finish
<1>2. Good(state) /\ CallsOK(state, logs, frames, tx.sender)
  BY <1>1 DEF HostInv
<1>3. Writable(state, tx.sender)
  BY <1>2, SenderWritable
<1>4. Good(s)
  BY <1>2, <1>3, SettleStep
<1> HIDE DEF s
<1>5. views = [a \in Addr |-> FinalAccount(World(s)[a])] /\ ViewsOK(views)
  BY <1>4, DiffExact
<1> HIDE DEF views
<1>6. Good(NewState(views)) /\ NewState(views).initial = views
  BY <1>5, NewStateGood DEF NewState
<1> QED
  BY <1>1, <1>5, <1>6 DEF Settled, s

LEMMA FinishStep ==
    ASSUME HostInv, NEW gas_used \in 1..GasLimit, Finish(gas_used)
    PROVE  StepOK
<1>1. /\ phase = "returned" /\ logs' = << >> /\ frames' = << >>
      /\ phase' = "idle"
  BY DEF Finish
<1>2. Settled(gas_used)
  BY FinishSettles
<1>3. HostInv'
  BY <1>1, <1>2 DEF HostInv, Settled
<1>4. frames = << >>
  BY <1>1 DEF HostInv
<1>5. Saved(frames) = << >> /\ Saved(frames') = << >>
  BY <1>1, <1>4, SavedEmpty, EmptySeq
<1>6. Abstract!Outside
  BY <1>5 DEF Abstract!Outside, Saved
<1> QED
  BY <1>1, <1>3, <1>6 DEF StepOK, Abstract!ANext

-----------------------------------------------------------------------------
(* The invariant. *)

LEMMA CallbackStep ==
    ASSUME HostInv, Callback
    PROVE  StepOK
<1>1. \/ \E a \in Addr : DoAccessAccount(a) \/ DoReadAccount(a)
      \/ \E k \in Key : DoAccessStorage(k) \/ DoGetStorage(k)
      \/ \E k \in Key, v \in Val : DoSetStorage(k, v) \/ DoSetTransientStorage(k, v)
      \/ DoEmitLog
      \/ \E op \in CallOps, dst \in Addr, value \in Values : DoCall(op, dst, value)
      \/ \E a \in Addr, value \in Values : DoCreate(a, value)
      \/ \E b \in Addr : DoSelfdestruct(b)
  BY Zenon DEF Callback
<1>2. CASE \E a \in Addr : DoAccessAccount(a) \/ DoReadAccount(a)
  BY <1>2, AccountCallbacks
<1>3. CASE \E k \in Key : DoAccessStorage(k) \/ DoGetStorage(k)
  BY <1>3, SlotReads
<1>4. CASE \E k \in Key, v \in Val : DoSetStorage(k, v) \/ DoSetTransientStorage(k, v)
  BY <1>4, SlotWrites
<1>5. CASE DoEmitLog
  BY <1>5, LogCallback
<1>6. CASE \E op \in CallOps, dst \in Addr, value \in Values : DoCall(op, dst, value)
  BY <1>6, CallCallback
<1>7. CASE \E a \in Addr, value \in Values : DoCreate(a, value)
  BY <1>7, CreateCallback
<1>8. CASE \E b \in Addr : DoSelfdestruct(b)
  BY <1>8, SelfdestructCallback
<1> QED
  BY <1>1, <1>2, <1>3, <1>4, <1>5, <1>6, <1>7, <1>8

LEMMA StutterStep ==
    ASSUME HostInv, UNCHANGED vars
    PROVE  StepOK
<1>1. UNCHANGED <<state, logs, frames, tx, phase, status, txs>>
  BY DEF vars
<1>2. HostInv'
  BY <1>1 DEF HostInv
<1>3. UNCHANGED Abstract!avars
  BY <1>1 DEF Abstract!avars
<1> QED
  BY <1>1, <1>2, <1>3, KeepsSame DEF StepOK

LEMMA NextStep ==
    ASSUME HostInv, [Next]_vars
    PROVE  StepOK
<1>1. CASE \E t \in Transactions : Begin(t) \/ BeginOutOfGas(t)
  BY <1>1, BeginStep, BeginOutOfGasStep
<1>2. CASE Callback
  BY <1>2, CallbackStep
<1>3. CASE \E code \in Codes : Return(code)
  BY <1>3, ReturnStep
<1>4. CASE Fail \/ Rollback \/ FailReturn
  BY <1>4, FailStep, RollbackStep, FailReturnStep
<1>5. CASE \E gas_used \in 1..GasLimit : Finish(gas_used)
  BY <1>5, FinishStep
<1>6. CASE Idle \/ UNCHANGED vars
  BY <1>6, StutterStep DEF Idle
<1> QED
  BY <1>1, <1>2, <1>3, <1>4, <1>5, <1>6, Zenon DEF Next

LEMMA InitOK ==
    ASSUME Init
    PROVE  HostInv
<1>1. PICK view \in InitialViews : state = NewState(view)
  BY DEF Init
<1>2. ViewsOK(view)
  BY InputAssumption DEF ViewsOK
<1>3. Good(state) /\ state.initial = view
  BY <1>1, <1>2, NewStateGood DEF NewState
<1> QED
  BY <1>1, <1>3 DEF Init, HostInv

(* In every reachable state the journal leads back, entry by entry, through *)
(* well-formed worlds to the checkpoint of every open call, and the account *)
(* of every open call is alive in all of them: the journal of State is      *)
(* correct for every nesting of calls, creations, failures and deployments. *)
THEOREM HostInvariance == Spec => []HostInv
<1>1. Init => HostInv
  BY InitOK
<1>2. HostInv /\ [Next]_vars => HostInv'
  BY NextStep DEF StepOK
<1> QED
  BY <1>1, <1>2, PTL DEF Spec

(* A failed call restores the world and the logs of its checkpoint, with    *)
(* the touch of 0x03 as the only exception: Host and the journal of State   *)
(* implement nested calls.                                                  *)
THEOREM FailureRestores == Spec => ImplementsNestedCalls
<1>1. Init => Abstract!AInit
  <2> SUFFICES ASSUME Init PROVE Abstract!AInit
    OBVIOUS
  <2>1. frames = << >> /\ logs = << >> /\ status = "none"
    BY DEF Init
  <2>2. Saved(frames) = << >>
    BY <2>1, SavedEmpty, EmptySeq
  <2> QED
    BY <2>1, <2>2 DEF Abstract!AInit, Saved
<1>2. HostInv /\ [Next]_vars => [Abstract!ANext]_(Abstract!avars)
  BY NextStep DEF StepOK
<1> QED
  BY <1>1, <1>2, HostInvariance, PTL DEF Spec, ImplementsNestedCalls, Abstract!ASpec

(* Nothing but the end of the transaction forgets that an account or a slot *)
(* was read, rollback of a failed call included.                            *)
THEOREM ReadsKept == Spec => ReadsAreKept
<1> DEFINE Kept ==
      phase # "returned" =>
         \A a \in Addr :
            /\ state.modified[a].loaded => state'.modified[a].loaded
            /\ \A k \in Key : state.modified[a].storage[k].loaded
                                => state'.modified[a].storage[k].loaded
<1>1. HostInv /\ [Next]_vars => [Kept]_vars
  BY NextStep DEF StepOK, KeepsLoaded
<1> QED
  BY <1>1, HostInvariance, PTL DEF Spec, ReadsAreKept

(* The code that an account caches is the code of its code hash, whatever   *)
(* was deployed and reverted before.                                        *)
THEOREM CacheCoherent == Spec => []CodeCacheCoherent
<1>1. HostInv => CodeCacheCoherent
  BY DEF HostInv, Good, StateOK, AccountOK, CacheOK, CodeCacheCoherent
<1> QED
  BY <1>1, HostInvariance, PTL

(* Executing, failing and rolling back calls, creating and destructing       *)
(* accounts creates no ether, and from Amsterdam destroys none: with the     *)
(* price of the gas bought, the accounts hold what they held before.         *)
THEOREM SupplyIsConserved == Spec => []SupplyConserved
<1>1. HostInv => SupplyConserved
  BY DEF HostInv, SupplyOK, Rolling, Paid, SupplyConserved, RollingBack, Top
<1> QED
  BY <1>1, HostInvariance, PTL

-----------------------------------------------------------------------------
(* The assertions of State. *)

LEMMA NoChangeHeld ==
    ASSUME NEW s, Good(s), NEW a \in Addr,
           ~s.modified[a].loaded \/ s.modified[a].nonexistent
    PROVE  HoldsNoChange(s.modified[a])
<1> DEFINE acc == s.modified[a]
           view == s.initial[a]
           o == World(s)[a]
<1>1. acc \in Account /\ AccountOK(acc, view) /\ StateOK(s)
  BY DEF Good, StateOK, AccountOK
<1>2. CASE ~acc.loaded
  <2> HIDE DEF acc, view
  <2> QED
    BY <1>1, <1>2 DEF AccountOK, LoadedOK, HoldsNoChange, IsEmpty, acc
<1>3. CASE acc.loaded
  <2>1. acc.nonexistent
    BY <1>3
  <2>2. Shows(o, acc, view)
    BY <1>1, <1>3, WorldShows
  <2>3. ObservationOK(o, view)
    BY DEF Good, WorldOK
  <2> HIDE DEF acc, view, o
  <2>4. ~o.exists
    BY <2>1, <2>2 DEF Shows
  <2>5. /\ o.nonce = 0 /\ o.balance = 0 /\ o.code = NoCode
        /\ ~o.destructed /\ ~o.erase_if_empty
        /\ ~o.just_created /\ ~o.code_changed
        /\ \A k \in Key : o.storage[k] = view.storage[k]
    BY <2>3, <2>4 DEF ObservationOK, AbsentOK, LifeOK, CodeOK
  <2>6. ASSUME NEW k \in Key
        PROVE  acc.storage[k].current = acc.storage[k].original
    <3>1. acc.storage[k].loaded => o.storage[k] = acc.storage[k].current
      BY <2>2 DEF Shows
    <3> QED
      BY <1>1, <2>5, <3>1 DEF AccountOK, SlotsOK
  <2>7. IsEmpty(acc)
    BY <2>2, <2>5 DEF Shows, IsEmpty
  <2>8. ~acc.destructed /\ ~acc.erase_if_empty /\ ~acc.just_created /\ ~acc.code_changed
    BY <2>2, <2>5 DEF Shows
  <2> QED
    BY <2>6, <2>7, <2>8 DEF HoldsNoChange, acc
<1> QED
  BY <1>2, <1>3

(* The assertions of State::get(), build_diff() and rollback() never fail,  *)
(* and no unsigned nonce or balance wraps around: for every journal.        *)
THEOREM StateAsserts == Spec => []StateAssertions
<1>1. HostInv => StateAssertions
  <2> SUFFICES ASSUME HostInv PROVE StateAssertions
    OBVIOUS
  <2>1. Good(state)
    BY DEF HostInv
  <2>2. state.modified \in [Addr -> Account]
    BY <2>1 DEF Good, StateOK, StateType
  <2>3. \A a \in Addr : ~state.modified[a].loaded \/ state.modified[a].nonexistent
                          => HoldsNoChange(state.modified[a])
    BY <2>1, NoChangeHeld
  <2>4. ASSUME RollingBack, Len(state.journal) > Top.state_checkpoint
        PROVE  UndoAsserts(state.modified[state.journal[Len(state.journal)].acc],
                           state.journal[Len(state.journal)])
    <3>1. frames # << >> /\ frames[Len(frames)].step = "rollback"
      BY <2>4 DEF RollingBack, Top
    <3>2. CallsOK(state, logs, frames, tx.sender)
      BY <3>1, OpenFacts
    <3> QED
      BY <2>4, <3>1, <3>2, CallsUndo DEF Top
  <2> QED
    BY <2>2, <2>3, <2>4 DEF StateAssertions
<1> QED
  BY <1>1, HostInvariance, PTL

-----------------------------------------------------------------------------
(* The assertions of Host. *)

(* A contract is not created twice in a transaction: CREATE does not        *)
(* compute its address again, and CREATE2 collides with its nonce.          *)
LEMMA NotCreatedTwice ==
    ASSUME NEW s, Good(s), NEW self \in Addr,
           NEW a \in CreateTargets(self, World(s)[self].nonce), a \in Addr, ~Collides(s, a)
    PROVE  ~World(s)[a].just_created
<1> DEFINE w == World(s)
           n == w[self].nonce
           p == <<self, n>>
<1>1. w \in Worlds /\ ObservationOK(w[a], s.initial[a]) /\ CreatedOK(w, a)
  BY DEF Good, WorldOK
<1>2. n \in Nat
  BY <1>1 DEF Worlds, Observation
<1>3. CASE Rev >= SPURIOUS_DRAGON
  <2>1. w[a].just_created => w[a].nonce > 0 /\ w[a].exists
    BY <1>1, <1>3 DEF CreatedOK, ObservationOK, LifeOK
  <2>2. w[a].exists => w[a].nonce = 0
    BY FreeNonce
  <2> QED
    BY <2>1, <2>2
<1>4. CASE ~(Rev >= SPURIOUS_DRAGON)
  <2> SUFFICES ASSUME w[a].just_created PROVE FALSE
    OBVIOUS
  <2>1. Rev < SPURIOUS_DRAGON /\ ~(Rev >= PETERSBURG)
    BY <1>4, RevAssumption DEF Revisions, SPURIOUS_DRAGON, PETERSBURG
  <2>2. p \in DOMAIN CreateAddress /\ a = CreateAddress[p]
    BY <2>1 DEF CreateTargets
  <2>3. p[1] = self /\ p[2] = n
    OBVIOUS
  <2> HIDE DEF p
  <2>4. CreatedBy(w, a)
    BY <1>1, <1>4 DEF CreatedOK
  <2>5. PICK q \in DOMAIN CreateAddress : CreateAddress[q] = a /\ w[q[1]].nonce > q[2]
    BY <2>4 DEF CreatedBy
  <2>6. q = p
    BY <2>1, <2>2, <2>5, AddressAssumption
  <2> QED
    BY <1>2, <2>3, <2>5, <2>6
<1> QED
  BY <1>3, <1>4

LEMMA TargetsAreAddresses ==
    ASSUME NEW sender, NEW nonce, NEW a \in CreateTargets(sender, nonce)
    PROVE  a \in Addr
  BY AddressAssumption DEF CreateTargets

LEMMA CreateFindsClean ==
    ASSUME NEW s, Good(s), NEW a \in Addr, ~Collides(s, a), ~World(s)[a].just_created
    PROVE  LET acc == Get(s, a).modified[a]
           IN  acc.nonce = 0 /\ ~acc.just_created /\ ~acc.code_changed /\ ~acc.destructed
<1> DEFINE g == Get(s, a)
           acc == g.modified[a]
           o == World(s)[a]
<1>1. Good(g) /\ acc.loaded /\ World(g) = World(s)
  BY GetStep DEF Quiet
<1>2. Blank(o, s.initial[a])
  BY CreatableBlank
<1>3. Shows(o, acc, g.initial[a])
  <2> HIDE DEF g
  <2> QED
    BY <1>1, WorldShows DEF Good
<1> HIDE DEF acc, o
<1>4. acc.nonce = 0 /\ ~acc.just_created /\ ~acc.code_changed /\ ~acc.destructed
  BY <1>2, <1>3 DEF Shows, Blank
<1> QED
  BY <1>4 DEF acc

(* The account of an open call stays loaded and alive until its rollback.   *)
LEMMA ExecutedAccount ==
    ASSUME NEW s, NEW l, NEW fs, NEW x, CallsOK(s, l, fs, x), NEW j \in 1..Len(fs),
           fs[j].exec = "code", fs[j].step = "run"
    PROVE  s.modified[fs[j].recipient].loaded /\ ~s.modified[fs[j].recipient].nonexistent
<1> DEFINE n == Len(s.journal)
           f == fs[j]
<1>1. PICK base, w, fl : Layout(s, base, fs, x, w, fl)
  BY DEF CallsOK
<1>2. Good(s) /\ fs \in Seq(FrameType)
  BY DEF CallsOK
<1>3. n \in Nat /\ w[n + 1] = World(s) /\ fl[j] \in Nat
  BY <1>1, <1>2, StateFields, LenProperties DEF Good, Layout, Labels
<1>4. /\ fl[j] <= n + 1 /\ s.modified[f.recipient].loaded
      /\ \A i \in fl[j]..(n + 1) : Alive(f, w[i])
  BY <1>1 DEF Layout, FrameOK
<1>5. Alive(f, World(s))
  <2>1. n + 1 \in fl[j]..(n + 1)
    BY <1>3, <1>4
  <2> QED
    BY <1>3, <1>4, <2>1
<1>6. f.recipient \in Addr
  <2>1. f \in FrameType
    BY <1>2, ElementOfSeq
  <2> QED
    BY <2>1 DEF FrameType
<1> DEFINE b == f.recipient
<1>7. World(s)[b].exists /\ s.modified[b].loaded /\ b \in Addr
  BY <1>4, <1>5, <1>6 DEF Alive
<1> HIDE DEF b
<1>8. Shows(World(s)[b], s.modified[b], s.initial[b])
  BY <1>2, <1>7, WorldShows DEF Good
<1>9. ~s.modified[b].nonexistent
  BY <1>7, <1>8 DEF Shows
<1> QED
  BY <1>7, <1>9 DEF b

(* The assertions of Host::create() and of the storage and selfdestruct     *)
(* callbacks never fail: a create that passes the collision check finds a   *)
(* clean account, and the account of every open call is loaded and alive.   *)
THEOREM HostAsserts == Spec => []HostAssertions
<1>1. HostInv => HostAssertions
  <2> SUFFICES ASSUME HostInv PROVE HostAssertions
    OBVIOUS
  <2> DEFINE self == Top.recipient
             Clean(acc) == acc.nonce = 0 /\ ~acc.just_created /\ ~acc.code_changed
                             /\ ~acc.destructed
  <2>1. ASSUME Running, NEW a \in CreateTargets(self, state.modified[self].nonce),
               ~Collides(state, a)
        PROVE  Clean(Get(state, a).modified[a])
    <3>1. Good(state) /\ Writable(state, self)
      BY <2>1, RunningFacts DEF RunsOK
    <3>2. self \in Addr /\ state.modified[self].loaded /\ a \in Addr
      BY <2>1, <3>1, TargetsAreAddresses DEF Writable
    <3> HIDE DEF self
    <3>3. Shows(World(state)[self], state.modified[self], state.initial[self])
      BY <3>1, <3>2, WorldShows DEF Good
    <3>4. a \in CreateTargets(self, World(state)[self].nonce)
      BY <2>1, <3>3 DEF Shows
    <3>5. ~World(state)[a].just_created
      BY <2>1, <3>1, <3>2, <3>4, NotCreatedTwice
    <3> QED
      BY <2>1, <3>1, <3>2, <3>5, CreateFindsClean
  <2>2. ASSUME NEW i \in DOMAIN frames, frames[i].exec = "code", frames[i].step = "run"
        PROVE  LET acc == state.modified[frames[i].recipient]
               IN  acc.loaded /\ ~acc.nonexistent
    <3>1. frames # << >>
      OBVIOUS
    <3>2. CallsOK(state, logs, frames, tx.sender) /\ frames \in Seq(FrameType)
      BY <3>1, OpenFacts
    <3>3. i \in 1..Len(frames)
      BY <3>2, LenProperties
    <3> QED
      BY <2>2, <3>2, <3>3, ExecutedAccount
  <2> QED
    BY <2>1, <2>2 DEF HostAssertions
<1> QED
  BY <1>1, HostInvariance, PTL

-----------------------------------------------------------------------------
(* The end of a transaction, and the touch of 0x03. *)

(* From the end of the calls only finish() leads on. *)
LEMMA OnlyFinishes ==
    ASSUME HostInv, [Next]_vars, phase = "returned", phase' = "idle"
    PROVE  \E gas_used \in 1..GasLimit : Finish(gas_used)
<1>1. phase' # phase
  OBVIOUS
<1>2. frames = << >>
  BY DEF HostInv
<1>3. ~(\E t \in Transactions : Begin(t) \/ BeginOutOfGas(t))
  BY DEF Begin, BeginOutOfGas
<1>4. ~Callback
  <2>1. ~Running
    BY <1>2 DEF Running
  <2> QED
    BY <2>1 DEF Callback, DoAccessAccount, DoReadAccount, DoAccessStorage, DoGetStorage,
        DoSetStorage, DoSetTransientStorage, DoEmitLog, DoCall, DoCreate, DoSelfdestruct
<1>5. ~(\E code \in Codes : Return(code)) /\ ~Fail /\ ~Rollback /\ ~FailReturn
  BY <1>2 DEF Return, Fail, Rollback, FailReturn, RollingBack
<1>6. ~Idle /\ ~UNCHANGED vars
  BY <1>1 DEF Idle, vars
<1> QED
  BY <1>3, <1>4, <1>5, <1>6, Zenon DEF Next

(* The state diff of a transaction, applied to the state before it, gives   *)
(* exactly what the accounts were observed to be at its end.                *)
THEOREM DiffExactness == Spec => DiffIsExact
<1> DEFINE Exact ==
      phase = "returned" /\ phase' = "idle" =>
         \E gas_used \in 1..GasLimit :
            LET w == World(Settle(state, tx.sender, gas_used))
            IN  state'.initial = [a \in Addr |-> FinalAccount(w[a])]
<1>1. ASSUME HostInv, [Next]_vars, phase = "returned", phase' = "idle"
      PROVE  \E gas_used \in 1..GasLimit : Finish(gas_used)
  BY <1>1, OnlyFinishes
<1>2. ASSUME HostInv, [Next]_vars PROVE Exact
  <2> SUFFICES ASSUME phase = "returned", phase' = "idle"
               PROVE  \E gas_used \in 1..GasLimit :
                         LET w == World(Settle(state, tx.sender, gas_used))
                         IN  state'.initial = [a \in Addr |-> FinalAccount(w[a])]
    OBVIOUS
  <2>1. PICK gas_used \in 1..GasLimit : Finish(gas_used)
    BY <1>1, <1>2
  <2>2. Settled(gas_used)
    BY <1>2, <2>1, FinishSettles
  <2> QED
    BY <2>2 DEF Settled
<1>3. HostInv /\ [Next]_vars => [Exact]_vars
  BY <1>2
<1> QED
  BY <1>3, HostInvariance, PTL DEF Spec, DiffIsExact

-----------------------------------------------------------------------------
(* The supply after a transaction. *)

(* The state diff makes no account richer, and from Amsterdam none poorer. *)
LEMMA FinalBalance ==
    ASSUME NEW o \in Observation, NEW view, AbsentOK(o, view)
    PROVE  /\ FinalAccount(o).balance \in Nat
           /\ FinalAccount(o).balance <= o.balance
           /\ Rev >= AMSTERDAM => FinalAccount(o).balance = o.balance
<1> DEFINE f == FinalAccount(o)
<1>1. o.balance \in Nat /\ NoAccount.balance = 0
  BY DEF Observation, NoAccount
<1>2. CASE ~o.exists
  <2>1. f.balance = 0 /\ o.balance = 0
    BY <1>1, <1>2 DEF FinalAccount, AbsentOK
  <2> QED
    BY <2>1
<1>3. CASE o.exists /\ o.destructed /\ Rev >= AMSTERDAM /\ o.balance # 0
  <2>1. f = [NoAccount EXCEPT !.exists = TRUE, !.balance = o.balance]
    BY <1>3 DEF FinalAccount
  <2>2. f.balance = o.balance
    BY <2>1 DEF NoAccount
  <2> QED
    BY <1>1, <2>2
<1>4. CASE o.exists /\ o.destructed /\ ~(Rev >= AMSTERDAM /\ o.balance # 0)
  <2>1. f.balance = 0
    BY <1>1, <1>4 DEF FinalAccount
  <2> QED
    BY <1>1, <1>4, <2>1
<1>5. CASE o.exists /\ ~o.destructed
  <2>1. CASE o.erase_if_empty /\ WorldAccountEmpty(o) /\ Rev >= SPURIOUS_DRAGON
    <3>1. f.balance = 0 /\ o.balance = 0
      BY <1>1, <1>5, <2>1 DEF FinalAccount, WorldAccountEmpty
    <3> QED
      BY <3>1
  <2>2. CASE ~(o.erase_if_empty /\ WorldAccountEmpty(o) /\ Rev >= SPURIOUS_DRAGON)
    <3>1. f = [exists |-> TRUE, nonce |-> o.nonce, balance |-> o.balance,
               code |-> o.code, storage |-> o.storage]
      BY <1>5, <2>2 DEF FinalAccount
    <3>2. f.balance = o.balance
      BY <3>1
    <3> QED
      BY <1>1, <3>2
  <2> QED
    BY <2>1, <2>2
<1> QED
  BY <1>2, <1>3, <1>4, <1>5

(* What is refunded and paid is what was bought, but for the base fee. *)
LEMMA SettledGas ==
    ASSUME NEW gas_used \in 1..GasLimit
    PROVE  (GasLimit - gas_used) * GasPrice + gas_used * PriorityFee
             = GasLimit * GasPrice - gas_used * BaseFee
<1>1. GasLimit \in Int /\ BaseFee \in Int /\ PriorityFee \in Int /\ gas_used \in Int
  BY FeeAssumption
<1>2. GasPrice = BaseFee + PriorityFee
  BY DEF GasPrice
<1>3. \A g, u, b, p \in Int :
        (g - u) * (b + p) + u * p = g * (b + p) - u * b
  OBVIOUS
<1> QED
  BY <1>1, <1>2, <1>3

LEMMA FinishSupply ==
    ASSUME HostInv, NEW gas_used \in 1..GasLimit, Finish(gas_used)
    PROVE  LET left == Supply(state.initial) - gas_used * BaseFee
           IN  /\ Supply(state'.initial) <= left
               /\ Rev >= AMSTERDAM => Supply(state'.initial) = left
<1> DEFINE s == Settle(state, tx.sender, gas_used)
           w == World(s)
           views == state.initial
           final == state'.initial
           bought == GasLimit * GasPrice
           burnt == gas_used * BaseFee
<1>1. /\ phase = "returned" /\ frames = << >> /\ Good(state)
      /\ CallsOK(state, logs, frames, tx.sender) /\ SupplyOK(state, frames)
  BY DEF Finish, HostInv
<1>2. Settled(gas_used)
  BY FinishSettles
<1>3. /\ final = [a \in Addr |-> FinalAccount(w[a])] /\ Good(state')
  BY <1>2 DEF Settled
<1>4. Paid(World(state), views)
  BY <1>1 DEF SupplyOK, Rolling
<1>5. /\ Good(s)
      /\ Supply(w) = Supply(World(state))
                       + (GasLimit - gas_used) * GasPrice + gas_used * PriorityFee
  BY <1>1, SenderWritable, SettleStep
<1>6. /\ World(state) \in Worlds /\ w \in Worlds /\ ViewsOK(views) /\ ViewsOK(final)
      /\ \A a \in Addr : AbsentOK(w[a], s.initial[a])
  BY <1>1, <1>3, <1>5 DEF Good, StateOK, WorldOK, ObservationOK
<1> HIDE DEF s, w, views, final
<1>7. /\ Supply(World(state)) \in Nat /\ Supply(w) \in Nat
      /\ Supply(views) \in Nat /\ Supply(final) \in Nat
      /\ Balances(w) /\ Balances(final)
  BY <1>6, WorldBalances, ViewBalances
<1>8. bought \in Nat /\ burnt \in Int
  BY CostType, FeeAssumption
<1>9. (GasLimit - gas_used) * GasPrice + gas_used * PriorityFee = bought - burnt
  BY SettledGas
<1> DEFINE refund == (GasLimit - gas_used) * GasPrice
           fee == gas_used * PriorityFee
<1>10. refund \in Int /\ fee \in Int
  BY CostType, FeeAssumption DEF GasPrice
<1>11. refund + fee = bought - burnt /\ Supply(w) = Supply(World(state)) + refund + fee
  BY <1>5, <1>9
<1>12. /\ Supply(World(state)) + bought <= Supply(views)
       /\ Rev >= AMSTERDAM => Supply(World(state)) + bought = Supply(views)
  BY <1>4 DEF Paid
<1> HIDE DEF refund, fee, bought, burnt
<1>13. /\ Supply(w) <= Supply(views) - burnt
       /\ Rev >= AMSTERDAM => Supply(w) = Supply(views) - burnt
  BY <1>7, <1>8, <1>10, <1>11, <1>12
<1>14. \A a \in Addr : /\ final[a].balance <= w[a].balance
                       /\ Rev >= AMSTERDAM => final[a].balance = w[a].balance
  BY <1>3, <1>6, FinalBalance DEF Worlds
<1>15. Supply(final) <= Supply(w)
  BY <1>7, <1>14, SupplyLess
<1>16. Rev >= AMSTERDAM => Supply(final) = Supply(w)
  BY <1>7, <1>14, SupplySame
<1>17. /\ Supply(final) <= Supply(views) - burnt
       /\ Rev >= AMSTERDAM => Supply(final) = Supply(views) - burnt
  BY <1>7, <1>8, <1>13, <1>15, <1>16
<1> QED
  BY <1>17 DEF final, views, burnt

(* A transaction burns the base fee of the gas it used, and from Amsterdam   *)
(* nothing else, whatever its calls did: the supply of the next initial      *)
(* state is the supply before less that fee.                                 *)
THEOREM SupplyIsSettled == Spec => SupplySettled
<1> DEFINE Burns ==
      phase = "returned" /\ phase' = "idle" =>
         \E gas_used \in 1..GasLimit :
            LET left == Supply(state.initial) - gas_used * BaseFee
            IN  /\ Supply(state'.initial) <= left
                /\ Rev >= AMSTERDAM => Supply(state'.initial) = left
<1>1. ASSUME HostInv, [Next]_vars, phase = "returned", phase' = "idle"
      PROVE  \E gas_used \in 1..GasLimit : Finish(gas_used)
  BY <1>1, OnlyFinishes
<1>2. ASSUME HostInv, [Next]_vars PROVE Burns
  BY <1>1, <1>2, FinishSupply
<1>3. HostInv /\ [Next]_vars => [Burns]_vars
  BY <1>2
<1> QED
  BY <1>3, HostInvariance, PTL DEF Spec, SupplySettled

-----------------------------------------------------------------------------
(* The touch of 0x03. *)

\* What happens to 0x03 while no call fails: it is not un-touched, does not
\* become empty, and is touched only while it is empty.
Lasts(o, o2) ==
    /\ o.erase_if_empty => o2.erase_if_empty
    /\ WorldAccountEmpty(o2) => WorldAccountEmpty(o)
    /\ o2.erase_if_empty => o.erase_if_empty \/ WorldAccountEmpty(o)

LastsIn(s, t) == Lasts(World(s)[RIPEMD], World(t)[RIPEMD])

LEMMA LastsTransitive ==
    ASSUME NEW o, NEW o2, NEW o3, Lasts(o, o2), Lasts(o2, o3)
    PROVE  Lasts(o, o3)
  BY DEF Lasts

LEMMA LastsSame ==
    ASSUME NEW s, NEW t, World(t) = World(s)
    PROVE  LastsIn(s, t)
  BY DEF Lasts, LastsIn

LEMMA LastsThen ==
    ASSUME NEW s, NEW t, NEW u, LastsIn(s, t), LastsIn(t, u)
    PROVE  LastsIn(s, u)
  BY LastsTransitive DEF LastsIn

\* t differs from s in the journal and in other accounts.
Elsewhere(s, t) ==
    /\ IsRecord(t) /\ t.initial = s.initial /\ DOMAIN t.modified = Addr
    /\ t.modified[RIPEMD] = s.modified[RIPEMD]

LEMMA GoodElsewhere ==
    ASSUME NEW s, Good(s) PROVE Elsewhere(s, s)
<1>1. IsRecord(s) /\ s.modified \in [Addr -> Account]
  BY StateFields DEF Good, IsRecord
<1> QED
  BY <1>1 DEF Elsewhere

LEMMA ElsewhereThen ==
    ASSUME NEW s, NEW t, NEW u, Elsewhere(s, t), Elsewhere(t, u)
    PROVE  Elsewhere(s, u)
  BY DEF Elsewhere

LEMMA ElsewhereLasts ==
    ASSUME NEW s, NEW t, Elsewhere(s, t)
    PROVE  LastsIn(s, t)
<1>1. World(t)[RIPEMD] = World(s)[RIPEMD]
  BY WorldAt, RoleAssumption DEF Elsewhere
<1> QED
  BY <1>1 DEF LastsIn, Lasts

LEMMA JournalElsewhere ==
    ASSUME NEW s, Elsewhere(s, s), NEW e
    PROVE  Elsewhere(s, Journal(s, e)) /\ Elsewhere(Journal(s, e), Journal(s, e))
  BY JournalRecord DEF Elsewhere

\* Any write to the account a.
LEMMA PutElsewhere ==
    ASSUME NEW s, Elsewhere(s, s), NEW a \in Addr, a # RIPEMD, NEW acc
    PROVE  Elsewhere(s, [s EXCEPT !.modified[a] = acc])
<1>1. PICK i, m, j : s = [initial |-> i, modified |-> m, journal |-> j]
  BY DEF Elsewhere, IsRecord
<1> DEFINE n == [m EXCEPT ![a] = acc]
           t == [s EXCEPT !.modified[a] = acc]
<1>2. DOMAIN m = Addr
  BY <1>1 DEF Elsewhere
<1>3. DOMAIN n = Addr /\ n[RIPEMD] = m[RIPEMD]
  BY <1>2, RoleAssumption
<1>4. t = [initial |-> i, modified |-> n, journal |-> j]
  BY ONLY <1>1
<1> HIDE DEF n, t
<1>5. IsRecord(t) /\ t.initial = i /\ t.modified = n
  BY <1>4 DEF IsRecord
<1>6. s.initial = i /\ s.modified = m
  BY <1>1
<1>7. Elsewhere(s, t)
  BY <1>3, <1>5, <1>6 DEF Elsewhere
<1> QED
  BY <1>7 DEF t

LEMMA GetElsewhere ==
    ASSUME NEW s, Elsewhere(s, s), NEW a \in Addr, a # RIPEMD
    PROVE  Elsewhere(s, Get(s, a)) /\ Elsewhere(Get(s, a), Get(s, a))
<1>1. Elsewhere(s, [s EXCEPT !.modified[a] = LoadAccount(s.modified[a], s.initial[a])])
  BY PutElsewhere
<1>2. Elsewhere(s, Get(s, a))
  BY <1>1 DEF Get
<1> QED
  BY <1>2 DEF Elsewhere

LEMMA GetStorageElsewhere ==
    ASSUME NEW s, Elsewhere(s, s), NEW a \in Addr, a # RIPEMD, NEW k
    PROVE  Elsewhere(s, GetStorage(s, a, k)) /\ Elsewhere(GetStorage(s, a, k), GetStorage(s, a, k))
<1> DEFINE slot == [s.modified[a].storage[k] EXCEPT !.loaded   = TRUE,
                        !.original = s.initial[a].storage[k],
                        !.current  = s.initial[a].storage[k]]
           acc == [s.modified[a] EXCEPT !.storage[k] = slot]
<1>1. Elsewhere(s, [s EXCEPT !.modified[a] = acc])
  BY PutElsewhere
<1>2. ~s.modified[a].storage[k].loaded =>
        GetStorage(s, a, k) = [s EXCEPT !.modified[a].storage[k] = slot]
  BY DEF GetStorage
<1>3. [s EXCEPT !.modified[a].storage[k] = slot] = [s EXCEPT !.modified[a] = acc]
  <2> HIDE DEF slot
  <2> QED
    OBVIOUS
<1>4. Elsewhere(s, GetStorage(s, a, k))
  BY <1>1, <1>2, <1>3 DEF GetStorage
<1> QED
  BY <1>4 DEF Elsewhere

-----------------------------------------------------------------------------
(* The history of the touch: at every checkpoint a touch of 0x03 that is    *)
(* made after it would take effect again once the checkpoint is restored.  *)

\* 0x03 as the checkpoint of an open call shows it.
Saw(f) == f.checkpoint.world[RIPEMD]

\* No code is executed for 0x03 and no contract created there.
NotRun(fs) ==
    \A i \in 1..Len(fs) :
        fs[i].exec = "code" \/ fs[i].kind = "CREATE" => fs[i].recipient # RIPEMD

\* 0x03 lasts from every checkpoint to those of the calls inside it.
Chained(fs) ==
    \A i \in 1..Len(fs), j \in 1..Len(fs) : i < j => Lasts(Saw(fs[i]), Saw(fs[j]))

\* ... and to o.
Below(fs, o) == \A i \in 1..Len(fs) : Lasts(Saw(fs[i]), o)

\* A touch of 0x03 takes effect at every checkpoint.
Touchable(fs) ==
    \A i \in 1..Len(fs) : Saw(fs[i]).erase_if_empty \/ WorldAccountEmpty(Saw(fs[i]))

\* What is so of the open calls fs, of the account o that 0x03 is now, of
\* the phase ph and of the history wt.
TouchOK(fs, o, ph, wt) ==
    /\ ph = "idle" => ~wt
    /\ NotRun(fs) /\ Chained(fs)
    /\ Rolling(fs) =>
          /\ fs[Len(fs)].ripemd_touched => Touchable(fs)
          /\ TouchSurvives /\ wt => fs[Len(fs)].ripemd_touched
    /\ ~Rolling(fs) => /\ Below(fs, o)
                       /\ TouchSurvives /\ wt => o.erase_if_empty

TouchInv == TouchOK(frames, World(state)[RIPEMD], phase, was_touched)

\* wt2 is the history once 0x03 is the account o.
Marked(wt, o, wt2) == wt2 => wt \/ o.erase_if_empty

LEMMA TouchEmpty ==
    ASSUME NEW fs, fs = << >>, NEW o, NEW ph, NEW wt, ph = "idle" => ~wt,
           TouchSurvives /\ wt => o.erase_if_empty
    PROVE  TouchOK(fs, o, ph, wt)
<1>1. 1..Len(fs) = {} /\ ~Rolling(fs)
  BY EmptySeq DEF Rolling
<1> QED
  BY <1>1 DEF TouchOK, NotRun, Chained, Below

LEMMA TouchWork ==
    ASSUME NEW fs, NEW o, NEW ph, NEW wt, TouchOK(fs, o, ph, wt), ~Rolling(fs),
           NEW p, Lasts(o, p), NEW ph2, ph2 # "idle", NEW wt2, Marked(wt, p, wt2)
    PROVE  TouchOK(fs, p, ph2, wt2)
<1>1. Below(fs, o) /\ (TouchSurvives /\ wt => o.erase_if_empty)
  BY DEF TouchOK
<1>2. Below(fs, p)
  BY <1>1, LastsTransitive DEF Below
<1>3. TouchSurvives /\ wt2 => p.erase_if_empty
  BY <1>1 DEF Lasts, Marked
<1> QED
  BY <1>2, <1>3 DEF TouchOK

LEMMA TouchPush ==
    ASSUME NEW fs \in Seq(FrameType), NEW o, NEW ph, NEW wt, TouchOK(fs, o, ph, wt), ~Rolling(fs),
           NEW f \in FrameType, Lasts(o, Saw(f)), f.step # "rollback",
           f.exec = "code" \/ f.kind = "CREATE" => f.recipient # RIPEMD,
           NEW p, Lasts(Saw(f), p), NEW ph2, ph2 # "idle", NEW wt2, Marked(wt, p, wt2)
    PROVE  TouchOK(Append(fs, f), p, ph2, wt2)
<1> DEFINE gs == Append(fs, f)
           n == Len(fs)
<1>1. /\ Len(gs) = n + 1 /\ n \in Nat /\ gs[n + 1] = f /\ gs # << >>
      /\ \A i \in 1..n : gs[i] = fs[i]
  BY AppendProperties, LenProperties
<1>2. /\ Below(fs, o) /\ (TouchSurvives /\ wt => o.erase_if_empty)
      /\ NotRun(fs) /\ Chained(fs)
  BY DEF TouchOK
<1>3. \A i \in 1..Len(gs) : i = n + 1 \/ i \in 1..n
  BY <1>1
<1>4. ~Rolling(gs)
  BY <1>1 DEF Rolling
<1> HIDE DEF gs, n
<1>5. NotRun(gs)
  BY <1>1, <1>2, <1>3 DEF NotRun, n
<1>6. Below(fs, Saw(f))
  BY <1>2, LastsTransitive DEF Below
<1>7. Chained(gs)
  <2>1. ASSUME NEW i \in 1..Len(gs), NEW j \in 1..Len(gs), i < j
        PROVE  Lasts(Saw(gs[i]), Saw(gs[j]))
    <3>1. i \in 1..n /\ gs[i] = fs[i]
      BY <1>1, <2>1
    <3>2. CASE j = n + 1
      BY <1>1, <1>6, <3>1, <3>2 DEF Below, n
    <3>3. CASE j \in 1..n
      BY <1>1, <1>2, <2>1, <3>1, <3>3 DEF Chained, n
    <3> QED
      BY <1>3, <3>2, <3>3
  <2> QED
    BY <2>1 DEF Chained
<1>8. Below(gs, p)
  <2>1. Below(fs, p)
    BY <1>6, LastsTransitive DEF Below
  <2> QED
    BY <1>1, <1>3, <2>1 DEF Below, n
<1>9. TouchSurvives /\ wt2 => p.erase_if_empty
  BY <1>2 DEF Lasts, Marked
<1>10. TouchOK(gs, p, ph2, wt2)
  BY <1>4, <1>5, <1>7, <1>8, <1>9 DEF TouchOK
<1> QED
  BY <1>10 DEF gs

LEMMA PoppedTouch ==
    ASSUME NEW fs, NEW n \in Nat, n = Len(fs), NEW gs, IsPop(gs, fs)
    PROVE  /\ \A i \in 1..Len(gs) : i \in 1..n /\ i < n /\ gs[i] = fs[i]
           /\ NotRun(fs) => NotRun(gs)
           /\ Chained(fs) => Chained(gs)
           /\ \A o : Below(fs, o) => Below(gs, o)
<1>1. \A i \in 1..Len(gs) : i \in 1..n /\ i < n /\ gs[i] = fs[i]
  BY DEF IsPop
<1>2. NotRun(fs) => NotRun(gs)
  BY <1>1 DEF NotRun
<1>3. Chained(fs) => Chained(gs)
  BY <1>1 DEF Chained
<1>4. \A o : Below(fs, o) => Below(gs, o)
  BY <1>1 DEF Below
<1> QED
  BY <1>1, <1>2, <1>3, <1>4

LEMMA TouchPop ==
    ASSUME NEW fs \in Seq(FrameType), NEW o, NEW ph, NEW wt, TouchOK(fs, o, ph, wt), ~Rolling(fs),
           NEW gs, IsPop(gs, fs), ~Rolling(gs),
           NEW p, Lasts(o, p), NEW ph2, ph2 # "idle", NEW wt2, Marked(wt, p, wt2)
    PROVE  TouchOK(gs, p, ph2, wt2)
<1>1. TouchOK(fs, p, ph2, wt2)
  BY TouchWork
<1>2. Len(fs) \in Nat
  BY LenProperties
<1>3. NotRun(gs) /\ Chained(gs) /\ Below(gs, p)
  BY <1>1, <1>2, PoppedTouch DEF TouchOK
<1> QED
  BY <1>1, <1>3 DEF TouchOK

\* A call has failed.
LEMMA TouchRolled ==
    ASSUME NEW fs \in Seq(FrameType), fs # << >>, NEW o, NEW ph, NEW wt, TouchOK(fs, o, ph, wt),
           ~Rolling(fs), NEW touched \in BOOLEAN, touched = (TouchSurvives /\ o.erase_if_empty),
           NEW gs, IsRolled(gs, fs, touched), NEW p
    PROVE  TouchOK(gs, p, ph, wt)
<1> DEFINE n == Len(fs)
<1>1. n \in Nat /\ n \in 1..n
  BY LenProperties, EmptySeq
<1>2. /\ Len(gs) = n /\ gs # << >> /\ gs[n].step = "rollback" /\ gs[n].ripemd_touched = touched
      /\ \A i \in 1..n : /\ gs[i].exec = fs[i].exec /\ gs[i].kind = fs[i].kind
                         /\ gs[i].recipient = fs[i].recipient
                         /\ gs[i].checkpoint = fs[i].checkpoint
  <2>1. gs \in Seq(FrameType) /\ Len(gs) = n
    BY DEF IsRolled
  <2>2. gs # << >>
    BY <1>1, <2>1, EmptySeq
  <2> QED
    BY <2>1, <2>2 DEF IsRolled
<1>3. /\ NotRun(fs) /\ Chained(fs) /\ Below(fs, o) /\ (TouchSurvives /\ wt => o.erase_if_empty)
      /\ ph = "idle" => ~wt
  BY DEF TouchOK
<1> HIDE DEF n
<1>4. NotRun(gs)
  BY <1>2, <1>3 DEF NotRun, n
<1>5. \A i \in 1..n : Saw(gs[i]) = Saw(fs[i])
  BY <1>2 DEF Saw
<1>6. Chained(gs)
  BY <1>2, <1>3, <1>5 DEF Chained, n
<1>7. touched => Touchable(gs)
  BY <1>2, <1>3, <1>5 DEF Touchable, Below, Lasts, n
<1>8. Rolling(gs)
  BY <1>2 DEF Rolling
<1> QED
  BY <1>2, <1>3, <1>4, <1>6, <1>7, <1>8 DEF TouchOK

LEMMA TouchUndone ==
    ASSUME NEW fs, NEW o, NEW ph, NEW wt, TouchOK(fs, o, ph, wt), Rolling(fs), NEW p
    PROVE  TouchOK(fs, p, ph, wt)
  BY DEF TouchOK

\* A failed call has returned.
LEMMA TouchFailed ==
    ASSUME NEW fs \in Seq(FrameType), NEW o, NEW ph, NEW wt, TouchOK(fs, o, ph, wt), Rolling(fs),
           NEW f, f = fs[Len(fs)], NEW gs, IsPop(gs, fs), ~Rolling(gs), NEW p,
           f.ripemd_touched /\ Touchable(fs) =>
               /\ p.erase_if_empty
               /\ WorldAccountEmpty(p) => WorldAccountEmpty(Saw(f)),
           ~f.ripemd_touched => p = Saw(f),
           NEW ph2, ph2 # "idle", NEW wt2, Marked(wt, p, wt2)
    PROVE  TouchOK(gs, p, ph2, wt2)
<1> DEFINE n == Len(fs)
<1>1. n \in Nat /\ n \in 1..n
  BY LenProperties, EmptySeq DEF Rolling
<1>2. /\ NotRun(fs) /\ Chained(fs)
      /\ f.ripemd_touched => Touchable(fs)
      /\ TouchSurvives /\ wt => f.ripemd_touched
  BY DEF TouchOK
<1> HIDE DEF n
<1>3. /\ \A i \in 1..Len(gs) : i \in 1..n /\ i < n /\ gs[i] = fs[i]
      /\ NotRun(gs) /\ Chained(gs)
  BY <1>1, <1>2, PoppedTouch DEF n
<1>4. \A i \in 1..Len(gs) : Lasts(Saw(gs[i]), Saw(f))
  BY <1>1, <1>2, <1>3 DEF Chained, n
<1>5. Below(gs, p)
  <2>1. CASE f.ripemd_touched
    <3>1. \A i \in 1..Len(gs) : Saw(gs[i]).erase_if_empty \/ WorldAccountEmpty(Saw(gs[i]))
      BY <1>2, <1>3, <2>1 DEF Touchable, n
    <3>2. p.erase_if_empty /\ (WorldAccountEmpty(p) => WorldAccountEmpty(Saw(f)))
      BY <1>2, <2>1
    <3> QED
      BY <1>4, <3>1, <3>2 DEF Below, Lasts
  <2>2. CASE ~f.ripemd_touched
    BY <1>4, <2>2 DEF Below
  <2> QED
    BY <2>1, <2>2
<1>6. TouchSurvives /\ wt2 => p.erase_if_empty
  BY <1>2 DEF Marked
<1> QED
  BY <1>3, <1>5, <1>6 DEF TouchOK

LEMMA GetCodeElsewhere ==
    ASSUME NEW s, Elsewhere(s, s), NEW a \in Addr, a # RIPEMD
    PROVE  Elsewhere(s, GetCode(s, a))
<1> DEFINE s1 == Get(s, a)
           acc == [s1.modified[a] EXCEPT !.code = s.initial[a].code]
<1>1. Elsewhere(s, s1) /\ Elsewhere(s1, s1)
  BY GetElsewhere
<1>2. GetCode(s, a) = s1 \/ GetCode(s, a) = [s1 EXCEPT !.modified[a].code = s.initial[a].code]
  BY DEF GetCode
<1> HIDE DEF s1
<1>3. Elsewhere(s1, [s1 EXCEPT !.modified[a] = acc])
  BY <1>1, PutElsewhere
<1>4. [s1 EXCEPT !.modified[a].code = s.initial[a].code] = [s1 EXCEPT !.modified[a] = acc]
  OBVIOUS
<1>5. Elsewhere(s1, GetCode(s, a))
  BY <1>1, <1>2, <1>3, <1>4
<1> QED
  BY <1>1, <1>5, ElsewhereThen

LEMMA AccessStorageElsewhere ==
    ASSUME NEW s, Elsewhere(s, s), NEW a \in Addr, a # RIPEMD, NEW k
    PROVE  LET t == AccessStorage(s, a, k)
           IN  Elsewhere(s, t) /\ Elsewhere(t, t)
<1> DEFINE s1 == JournalStorageChange(s, a, k)
           acc == [s1.modified[a] EXCEPT !.storage[k].warm = TRUE]
           t == [s1 EXCEPT !.modified[a].storage[k].warm = TRUE]
<1>1. Elsewhere(s, s1) /\ Elsewhere(s1, s1)
  BY JournalElsewhere DEF JournalStorageChange
<1>2. AccessStorage(s, a, k) = s \/ AccessStorage(s, a, k) = t
  BY DEF AccessStorage
<1> HIDE DEF s1
<1>3. Elsewhere(s1, [s1 EXCEPT !.modified[a] = acc])
  BY <1>1, PutElsewhere
<1>4. t = [s1 EXCEPT !.modified[a] = acc]
  OBVIOUS
<1> HIDE DEF t
<1>5. Elsewhere(s, t)
  BY <1>1, <1>3, <1>4, ElsewhereThen
<1> QED
  BY <1>2, <1>5 DEF Elsewhere

LEMMA SetStorageElsewhere ==
    ASSUME NEW s, Elsewhere(s, s), NEW a \in Addr, a # RIPEMD, NEW k, NEW v
    PROVE  Elsewhere(s, SetStorage(s, a, k, v))
<1> DEFINE s0 == GetStorage(s, a, k)
           s1 == JournalStorageChange(s0, a, k)
           acc == [s1.modified[a] EXCEPT !.storage[k].current = v]
           t == [s1 EXCEPT !.modified[a].storage[k].current = v]
<1>1. Elsewhere(s, s0) /\ Elsewhere(s0, s0)
  BY GetStorageElsewhere
<1> HIDE DEF s0
<1>2. Elsewhere(s0, s1) /\ Elsewhere(s1, s1)
  BY <1>1, JournalElsewhere DEF JournalStorageChange
<1>3. SetStorage(s, a, k, v) = t
  BY DEF SetStorage, s0
<1> HIDE DEF s1
<1>4. Elsewhere(s1, [s1 EXCEPT !.modified[a] = acc])
  BY <1>2, PutElsewhere
<1>5. t = [s1 EXCEPT !.modified[a] = acc]
  OBVIOUS
<1> HIDE DEF t
<1> QED
  BY <1>1, <1>2, <1>3, <1>4, <1>5, ElsewhereThen

LEMMA SetTransientStorageElsewhere ==
    ASSUME NEW s, Elsewhere(s, s), NEW a \in Addr, a # RIPEMD, NEW k, NEW v
    PROVE  Elsewhere(s, SetTransientStorage(s, a, k, v))
<1> DEFINE s0 == Get(s, a)
           s1 == JournalTransientStorageChange(s0, a, k)
           acc == [s1.modified[a] EXCEPT !.transient_storage[k] = v]
           t == [s1 EXCEPT !.modified[a].transient_storage[k] = v]
<1>1. Elsewhere(s, s0) /\ Elsewhere(s0, s0)
  BY GetElsewhere
<1> HIDE DEF s0
<1>2. Elsewhere(s0, s1) /\ Elsewhere(s1, s1)
  BY <1>1, JournalElsewhere DEF JournalTransientStorageChange
<1>3. SetTransientStorage(s, a, k, v) = t
  BY DEF SetTransientStorage, s0
<1> HIDE DEF s1
<1>4. Elsewhere(s1, [s1 EXCEPT !.modified[a] = acc])
  BY <1>2, PutElsewhere
<1>5. t = [s1 EXCEPT !.modified[a] = acc]
  OBVIOUS
<1> HIDE DEF t
<1> QED
  BY <1>1, <1>2, <1>3, <1>4, <1>5, ElsewhereThen

LEMMA GetOrCreateElsewhere ==
    ASSUME NEW s, Elsewhere(s, s), NEW a \in Addr, a # RIPEMD
    PROVE  Elsewhere(s, GetOrCreate(s, a)) /\ Elsewhere(GetOrCreate(s, a), GetOrCreate(s, a))
<1> DEFINE s0 == Get(s, a)
           s1 == JournalAccountFlags(s0, a)
           acc == [s1.modified[a] EXCEPT !.nonexistent = FALSE]
           t == [s1 EXCEPT !.modified[a].nonexistent = FALSE]
<1>1. Elsewhere(s, s0) /\ Elsewhere(s0, s0)
  BY GetElsewhere
<1>3. GetOrCreate(s, a) = t \/ GetOrCreate(s, a) = s0
  BY DEF GetOrCreate
<1> HIDE DEF s0
<1>2. Elsewhere(s0, s1) /\ Elsewhere(s1, s1)
  BY <1>1, JournalElsewhere DEF JournalAccountFlags
<1> HIDE DEF s1
<1>4. Elsewhere(s1, [s1 EXCEPT !.modified[a] = acc])
  BY <1>2, PutElsewhere
<1>5. t = [s1 EXCEPT !.modified[a] = acc]
  OBVIOUS
<1> HIDE DEF t
<1>6. Elsewhere(s, t)
  BY <1>1, <1>2, <1>4, <1>5, ElsewhereThen
<1> QED
  BY <1>1, <1>3, <1>6 DEF Elsewhere

\* Journaling two balances.
LEMMA JournaledElsewhere ==
    ASSUME NEW s, Elsewhere(s, s), NEW x, NEW y,
           NEW u, u = JournalBalanceChange(JournalBalanceChange(s, x), y)
    PROVE  Elsewhere(s, u) /\ Elsewhere(u, u) /\ u.modified = s.modified
<1> DEFINE e == [t |-> "balance", acc |-> x, prev_balance |-> s.modified[x].balance]
           v == Journal(s, e)
           g == [t |-> "balance", acc |-> y, prev_balance |-> v.modified[y].balance]
<1>1. u = Journal(v, g)
  BY DEF JournalBalanceChange
<1> HIDE DEF e, g
<1>2. Elsewhere(s, v) /\ Elsewhere(v, v) /\ v.modified = s.modified
  BY JournalElsewhere, JournalRecord DEF Elsewhere
<1> HIDE DEF v
<1>3. Elsewhere(v, u) /\ Elsewhere(u, u) /\ u.modified = v.modified
  BY <1>1, <1>2, JournalElsewhere, JournalRecord DEF Elsewhere
<1> QED
  BY <1>2, <1>3, ElsewhereThen

\* 0x03 in the state t has at least the balance it has in s, where it is loaded.
Credited(s, t) ==
    /\ IsRecord(t) /\ t.initial = s.initial /\ DOMAIN t.modified = Addr
    /\ LET acc == s.modified[RIPEMD]
           acc2 == t.modified[RIPEMD]
       IN  /\ acc2.loaded /\ acc2.erase_if_empty = acc.erase_if_empty
           /\ acc2.nonce = acc.nonce /\ acc2.code_hash = acc.code_hash
           /\ acc2.balance = 0 => acc.balance = 0

LEMMA CreditedLasts ==
    ASSUME NEW s, s.modified[RIPEMD].loaded, NEW t, Credited(s, t)
    PROVE  LastsIn(s, t)
<1> DEFINE acc == s.modified[RIPEMD]
           acc2 == t.modified[RIPEMD]
           o == World(s)[RIPEMD]
           o2 == World(t)[RIPEMD]
<1>1. o = Observed(acc, s.initial[RIPEMD]) /\ o2 = Observed(acc2, t.initial[RIPEMD])
  BY WorldAt, RoleAssumption
<1>2. /\ acc.loaded /\ acc2.loaded /\ acc2.erase_if_empty = acc.erase_if_empty
      /\ acc2.nonce = acc.nonce /\ acc2.code_hash = acc.code_hash
      /\ acc2.balance = 0 => acc.balance = 0
  BY DEF Credited
<1> HIDE DEF acc, acc2
<1>3. /\ o.erase_if_empty = acc.erase_if_empty /\ o.nonce = acc.nonce
      /\ o.balance = acc.balance /\ o.code = acc.code_hash
      /\ o2.erase_if_empty = acc2.erase_if_empty /\ o2.nonce = acc2.nonce
      /\ o2.balance = acc2.balance /\ o2.code = acc2.code_hash
  BY <1>1, <1>2 DEF Observed
<1> HIDE DEF o, o2
<1>4. Lasts(o, o2)
  BY <1>2, <1>3 DEF Lasts, WorldAccountEmpty
<1> QED
  BY <1>4 DEF LastsIn, o, o2

LEMMA CreditRipemd ==
    ASSUME NEW s, Elsewhere(s, s), s.modified[RIPEMD] \in Account,
           s.modified[RIPEMD].loaded, NEW v \in Nat
    PROVE  Credited(s, [s EXCEPT !.modified[RIPEMD].balance = @ + v])
<1>1. PICK i, m, j : s = [initial |-> i, modified |-> m, journal |-> j]
  BY DEF Elsewhere, IsRecord
<1> DEFINE acc == m[RIPEMD]
           acc2 == [acc EXCEPT !.balance = acc.balance + v]
           n == [m EXCEPT ![RIPEMD] = acc2]
           t == [s EXCEPT !.modified[RIPEMD].balance = @ + v]
<1>2. DOMAIN m = Addr /\ acc \in Account /\ acc.loaded
  BY <1>1 DEF Elsewhere
<1>3. /\ acc2.loaded /\ acc2.erase_if_empty = acc.erase_if_empty
      /\ acc2.nonce = acc.nonce /\ acc2.code_hash = acc.code_hash
      /\ acc2.balance = 0 => acc.balance = 0
  <2> HIDE DEF acc
  <2> QED
    BY <1>2 DEF Account
<1>4. t = [initial |-> i, modified |-> n, journal |-> j]
  BY ONLY <1>1
<1> HIDE DEF acc2
<1>5. DOMAIN n = Addr /\ n[RIPEMD] = acc2
  BY <1>2, RoleAssumption
<1> HIDE DEF n, t
<1>6. IsRecord(t) /\ t.initial = i /\ t.modified = n
  BY <1>4 DEF IsRecord
<1>7. s.initial = i /\ s.modified = m
  BY <1>1
<1>8. Credited(s, t)
  BY <1>3, <1>5, <1>6, <1>7 DEF Credited
<1> QED
  BY <1>8 DEF t

LEMMA BalanceElsewhere ==
    ASSUME NEW s, Elsewhere(s, s), NEW a \in Addr, a # RIPEMD, NEW c,
           NEW t, t = [s EXCEPT !.modified[a].balance = c]
    PROVE  Elsewhere(s, t) /\ Elsewhere(t, t)
<1> DEFINE acc == [s.modified[a] EXCEPT !.balance = c]
<1>1. Elsewhere(s, [s EXCEPT !.modified[a] = acc])
  BY PutElsewhere
<1>2. [s EXCEPT !.modified[a].balance = c] = [s EXCEPT !.modified[a] = acc]
  OBVIOUS
<1>3. Elsewhere(s, t)
  BY <1>1, <1>2
<1> QED
  BY <1>3 DEF Elsewhere

\* In s, 0x03 is as it is in the well-formed state r.
LEMMA ElsewhereCredited ==
    ASSUME NEW s, NEW t, NEW u, Elsewhere(s, t), Credited(t, u)
    PROVE  Credited(s, u)
  BY DEF Elsewhere, Credited

LEMMA CreditedElsewhere ==
    ASSUME NEW s, NEW t, NEW u, Credited(s, t), Elsewhere(t, u)
    PROVE  Credited(s, u)
  BY DEF Elsewhere, Credited

(* A transfer from another account. *)
LEMMA TransferElsewhere ==
    ASSUME NEW s, Elsewhere(s, s), NEW x \in Addr, x # RIPEMD, NEW y \in Addr, NEW v \in Nat
    PROVE  LET t == Transfer(s, x, y, v)
           IN  /\ y # RIPEMD => Elsewhere(s, t)
               /\ y = RIPEMD /\ s.modified[RIPEMD] \in Account /\ s.modified[RIPEMD].loaded
                     => Credited(s, t)
<1> DEFINE s1 == JournalBalanceChange(JournalBalanceChange(s, x), y)
           s2 == [s1 EXCEPT !.modified[x].balance = @ - v]
           t == [s2 EXCEPT !.modified[y].balance = @ + v]
<1>1. Transfer(s, x, y, v) = t
  BY DEF Transfer
<1>2. Elsewhere(s, s1) /\ Elsewhere(s1, s1)
  BY JournaledElsewhere
<1> HIDE DEF s1
<1>3. Elsewhere(s1, s2) /\ Elsewhere(s2, s2)
  <2>1. s2 = [s1 EXCEPT !.modified[x].balance = s1.modified[x].balance - v]
    OBVIOUS
  <2> HIDE DEF s2
  <2> QED
    BY <1>2, <2>1, BalanceElsewhere
<1> HIDE DEF s2
<1>4. Elsewhere(s, s2)
  BY <1>2, <1>3, ElsewhereThen
<1>5. ASSUME y # RIPEMD PROVE Elsewhere(s, t)
  <2>1. t = [s2 EXCEPT !.modified[y].balance = s2.modified[y].balance + v]
    OBVIOUS
  <2> HIDE DEF t
  <2>2. Elsewhere(s2, t)
    BY <1>3, <1>5, <2>1, BalanceElsewhere
  <2> QED
    BY <1>4, <2>2, ElsewhereThen
<1>6. ASSUME y = RIPEMD, s.modified[RIPEMD] \in Account, s.modified[RIPEMD].loaded
      PROVE  Credited(s, t)
  <2>1. s2.modified[RIPEMD] \in Account /\ s2.modified[RIPEMD].loaded
    BY <1>4, <1>6 DEF Elsewhere
  <2>2. Credited(s2, t)
    BY <1>3, <1>6, <2>1, CreditRipemd
  <2> QED
    BY <1>4, <2>2, ElsewhereCredited
<1> QED
  BY <1>1, <1>5, <1>6

LEMMA NewContractElsewhere ==
    ASSUME NEW s, Elsewhere(s, s), NEW x \in Addr, x # RIPEMD, NEW a \in Addr, a # RIPEMD,
           NEW v \in Nat
    PROVE  Elsewhere(s, NewContract(s, x, a, v))
<1> DEFINE s1 == GetOrCreate(s, a)
           s2 == IF Get(s, a).modified[a].nonexistent THEN s1 ELSE JournalCreate(s1, a)
           n == IF Rev >= SPURIOUS_DRAGON THEN 1 ELSE s2.modified[a].nonce
           acc == [s2.modified[a] EXCEPT !.nonce = n]
           s3 == [s2 EXCEPT !.modified[a].nonce = n]
           acc2 == [s3.modified[a] EXCEPT !.just_created = TRUE]
           s4 == [s3 EXCEPT !.modified[a].just_created = TRUE]
           s5 == Get(s4, x)
<1>1. NewContract(s, x, a, v) = Transfer(s5, x, a, v)
  <2> HIDE DEF s2
  <2>1. [s2 EXCEPT !.modified[a].nonce = IF Rev >= SPURIOUS_DRAGON THEN 1 ELSE @,
                   !.modified[a].just_created = TRUE] = s4
    OBVIOUS
  <2> HIDE DEF s4
  <2> QED
    BY <2>1 DEF NewContract, s2
<1>2. Elsewhere(s, s1) /\ Elsewhere(s1, s1)
  BY GetOrCreateElsewhere
<1> HIDE DEF s1
<1>3. Elsewhere(s, s2) /\ Elsewhere(s2, s2)
  <2>1. Elsewhere(s1, JournalCreate(s1, a)) /\ Elsewhere(JournalCreate(s1, a), JournalCreate(s1, a))
    BY <1>2, JournalElsewhere DEF JournalCreate
  <2> QED
    BY <1>2, <2>1, ElsewhereThen
<1> HIDE DEF s2, n
<1>4. Elsewhere(s2, s3)
  <2>1. Elsewhere(s2, [s2 EXCEPT !.modified[a] = acc])
    BY <1>3, PutElsewhere
  <2>2. s3 = [s2 EXCEPT !.modified[a] = acc]
    OBVIOUS
  <2> QED
    BY <2>1, <2>2
<1> HIDE DEF s3
<1>5. Elsewhere(s3, s4)
  <2>1. Elsewhere(s3, s3)
    BY <1>4 DEF Elsewhere
  <2>2. Elsewhere(s3, [s3 EXCEPT !.modified[a] = acc2])
    BY <2>1, PutElsewhere
  <2>3. s4 = [s3 EXCEPT !.modified[a] = acc2]
    OBVIOUS
  <2> QED
    BY <2>2, <2>3
<1> HIDE DEF s4
<1>6. Elsewhere(s4, s5) /\ Elsewhere(s5, s5)
  <2>1. Elsewhere(s4, s4)
    BY <1>5 DEF Elsewhere
  <2> QED
    BY <2>1, GetElsewhere
<1> HIDE DEF s5
<1>7. Elsewhere(s5, Transfer(s5, x, a, v))
  BY <1>6, TransferElsewhere
<1>8. Elsewhere(s, s5)
  BY <1>3, <1>4, <1>5, <1>6, ElsewhereThen
<1> QED
  BY <1>1, <1>7, <1>8, ElsewhereThen

(* Creating 0x03 for a transfer does not touch it. *)
LEMMA GetOrCreateRipemd ==
    ASSUME NEW s, Good(s)
    PROVE  LET t == GetOrCreate(s, RIPEMD)
           IN  /\ LastsIn(s, t) /\ Elsewhere(t, t) /\ Good(t)
               /\ t.modified[RIPEMD] \in Account /\ t.modified[RIPEMD].loaded
<1> DEFINE s1 == Get(s, RIPEMD)
           e == [t |-> "flags", acc |-> RIPEMD, warm |-> s1.modified[RIPEMD].warm,
                 nonexistent |-> s1.modified[RIPEMD].nonexistent,
                 destructed |-> s1.modified[RIPEMD].destructed,
                 erase_if_empty |-> s1.modified[RIPEMD].erase_if_empty]
           s2 == Journal(s1, e)
           t == [s2 EXCEPT !.modified[RIPEMD].nonexistent = FALSE]
           u == GetOrCreate(s, RIPEMD)
<1>1. Quiet(s, s1) /\ Good(s1) /\ s1.modified[RIPEMD].loaded
  BY GetStep, RoleAssumption
<1>2. u = IF s1.modified[RIPEMD].nonexistent THEN t ELSE s1
  BY DEF GetOrCreate, JournalAccountFlags
<1>3. Good(u)
  BY GetOrCreateStep, RoleAssumption
<1> HIDE DEF u, s1, e
<1>4. LastsIn(s, s1)
  BY <1>1, LastsSame DEF Quiet
<1>5. /\ s1.modified[RIPEMD] \in Account /\ Elsewhere(s1, s1)
  BY <1>1, GoodElsewhere, StateFields, RoleAssumption DEF Good
<1>6. Credited(s1, t)
  <2>1. /\ IsRecord(s2) /\ s2.initial = s1.initial /\ s2.modified = s1.modified
        /\ DOMAIN s2.modified = Addr
    BY <1>5, JournalRecord DEF Elsewhere
  <2> HIDE DEF s2
  <2>2. PICK i, m, j : s2 = [initial |-> i, modified |-> m, journal |-> j]
    BY <2>1 DEF IsRecord
  <2> DEFINE acc == m[RIPEMD]
             acc2 == [acc EXCEPT !.nonexistent = FALSE]
             n == [m EXCEPT ![RIPEMD] = acc2]
  <2>3. DOMAIN m = Addr /\ acc \in Account /\ acc.loaded
    BY <1>1, <1>5, <2>1, <2>2
  <2>4. /\ acc2.loaded /\ acc2.erase_if_empty = acc.erase_if_empty
        /\ acc2.nonce = acc.nonce /\ acc2.code_hash = acc.code_hash
        /\ acc2.balance = acc.balance
    <3> HIDE DEF acc
    <3> QED
      BY <2>3 DEF Account
  <2>5. t = [initial |-> i, modified |-> n, journal |-> j]
    <3>1. t = [s2 EXCEPT !.modified[RIPEMD] = [s2.modified[RIPEMD] EXCEPT !.nonexistent = FALSE]]
      OBVIOUS
    <3>2. acc2 = [s2.modified[RIPEMD] EXCEPT !.nonexistent = FALSE]
      BY <2>2
    <3> HIDE DEF acc2, t
    <3>3. t = [s2 EXCEPT !.modified[RIPEMD] = acc2]
      BY <3>1, <3>2
    <3> QED
      BY ONLY <2>2, <3>3 DEF n
  <2> HIDE DEF acc2
  <2>6. DOMAIN n = Addr /\ n[RIPEMD] = acc2
    BY <2>3, RoleAssumption
  <2> HIDE DEF n, t
  <2>7. IsRecord(t) /\ t.initial = i /\ t.modified = n
    BY <2>5 DEF IsRecord
  <2>8. s1.initial = i /\ s1.modified = m
    BY <2>1, <2>2
  <2> QED
    BY <2>4, <2>6, <2>7, <2>8 DEF Credited
<1>7. LastsIn(s1, t)
  BY <1>1, <1>6, CreditedLasts
<1>8. LastsIn(s, u)
  BY <1>2, <1>4, <1>7, LastsThen
<1>9. /\ u.modified[RIPEMD] \in Account /\ Elsewhere(u, u)
  BY <1>3, GoodElsewhere, StateFields, RoleAssumption DEF Good
<1>10. u.modified[RIPEMD].loaded
  BY <1>1, <1>2, <1>6 DEF Credited
<1> QED
  BY <1>3, <1>8, <1>9, <1>10 DEF u

LEMMA CreditedRecord ==
    ASSUME NEW s, NEW t, Credited(s, t)
    PROVE  Elsewhere(t, t)
  BY DEF Credited, Elsewhere

LEMMA TouchLasts ==
    ASSUME NEW s, Good(s), NEW a \in Addr
    PROVE  LastsIn(s, Touch(s, a))
<1> DEFINE t == Touch(s, a)
           o == World(s)[RIPEMD]
           p == [o EXCEPT !.exists = TRUE, !.erase_if_empty = TRUE]
<1>1. World(t) = TouchedWorld(World(s), a)
  BY TouchStep
<1> HIDE DEF t
<1>2. World(s) \in Worlds /\ o \in Observation
  BY RoleAssumption DEF Good, WorldOK, Worlds
<1>3. p.erase_if_empty = TRUE /\ p.nonce = o.nonce /\ p.balance = o.balance /\ p.code = o.code
  <2> HIDE DEF o
  <2> QED
    BY <1>2 DEF Observation
<1>4. World(t)[RIPEMD] = o \/ (World(t)[RIPEMD] = p /\ WorldAccountEmpty(o))
  BY <1>1, <1>2, RoleAssumption DEF TouchedWorld, Worlds, WorldAccountEmpty
<1> HIDE DEF p, o
<1>5. Lasts(o, World(t)[RIPEMD])
  BY <1>3, <1>4 DEF Lasts, WorldAccountEmpty
<1> QED
  BY <1>5 DEF LastsIn, o, t

LEMMA SelfdestructBalancesElsewhere ==
    ASSUME NEW s, Elsewhere(s, s), NEW a \in Addr, a # RIPEMD, NEW b \in Addr,
           s.modified[a].balance \in Nat
    PROVE  LET t == SelfdestructBalances(s, a, b)
           IN  /\ b # RIPEMD => Elsewhere(s, t)
               /\ b = RIPEMD /\ s.modified[RIPEMD] \in Account /\ s.modified[RIPEMD].loaded
                     => Credited(s, t)
<1> DEFINE v == s.modified[a].balance
           s1 == [s EXCEPT !.modified[a].balance = 0]
           t1 == [s1 EXCEPT !.modified[b].balance = @ + v]
           s2 == [s EXCEPT !.modified[b].balance = @ + v]
           t2 == [s2 EXCEPT !.modified[a].balance = 0]
           t == SelfdestructBalances(s, a, b)
<1>1. t = t1 \/ t = t2 \/ (a = b /\ t = s)
  BY DEF SelfdestructBalances
<1> HIDE DEF t
<1>2. v \in Nat
  OBVIOUS
<1> HIDE DEF v
<1>3. ASSUME b # RIPEMD PROVE Elsewhere(s, t1) /\ Elsewhere(s, t2)
  <2>1. Elsewhere(s, s1) /\ Elsewhere(s1, s1)
    BY BalanceElsewhere
  <2> HIDE DEF s1
  <2>2. Elsewhere(s1, t1)
    <3>1. t1 = [s1 EXCEPT !.modified[b].balance = s1.modified[b].balance + v]
      OBVIOUS
    <3> HIDE DEF t1
    <3> QED
      BY <1>3, <2>1, <3>1, BalanceElsewhere
  <2>3. Elsewhere(s, s2) /\ Elsewhere(s2, s2)
    <3>1. s2 = [s EXCEPT !.modified[b].balance = s.modified[b].balance + v]
      OBVIOUS
    <3> HIDE DEF s2
    <3> QED
      BY <1>3, <3>1, BalanceElsewhere
  <2> HIDE DEF s2
  <2>4. Elsewhere(s2, t2)
    BY <2>3, BalanceElsewhere
  <2> HIDE DEF t1, t2
  <2> QED
    BY <2>1, <2>2, <2>3, <2>4, ElsewhereThen
<1>4. ASSUME b = RIPEMD, s.modified[RIPEMD] \in Account, s.modified[RIPEMD].loaded
      PROVE  Credited(s, t1) /\ Credited(s, t2)
  <2>1. Elsewhere(s, s1) /\ Elsewhere(s1, s1)
    BY BalanceElsewhere
  <2> HIDE DEF s1
  <2>2. Credited(s1, t1)
    <3>1. s1.modified[RIPEMD] \in Account /\ s1.modified[RIPEMD].loaded
      BY <1>4, <2>1 DEF Elsewhere
    <3> QED
      BY <1>2, <1>4, <2>1, <3>1, CreditRipemd
  <2>3. Credited(s, s2) /\ Elsewhere(s2, s2)
    BY <1>2, <1>4, CreditRipemd, CreditedRecord
  <2> HIDE DEF s2
  <2>4. Elsewhere(s2, t2)
    BY <2>3, BalanceElsewhere
  <2> HIDE DEF t1, t2
  <2> QED
    BY <2>1, <2>2, <2>3, <2>4, ElsewhereCredited, CreditedElsewhere
<1> HIDE DEF t1, t2
<1> QED
  BY <1>1, <1>3, <1>4 DEF t

(* A self-destruction in favour of 0x03 touches it and never empties it. *)
LEMMA SelfdestructLasts ==
    ASSUME NEW s, Good(s), NEW a \in Addr, a # RIPEMD, NEW b \in Addr
    PROVE  LastsIn(s, Selfdestruct(s, a, b))
<1> DEFINE s0 == Get(s, a)
           s1 == Touch(s0, b)
           s2 == JournalBalanceChange(JournalBalanceChange(s1, b), a)
           s3 == SelfdestructBalances(s2, a, b)
           e  == [t |-> "flags", acc |-> a, warm |-> s3.modified[a].warm,
                  nonexistent |-> s3.modified[a].nonexistent,
                  destructed |-> s3.modified[a].destructed,
                  erase_if_empty |-> s3.modified[a].erase_if_empty]
           s4 == Journal(s3, e)
           acc == [s4.modified[a] EXCEPT !.destructed = TRUE]
           s5 == [s4 EXCEPT !.modified[a].destructed = TRUE]
           t == Selfdestruct(s, a, b)
<1>1. t = s3 \/ t = s5
  BY DEF Selfdestruct, JournalAccountFlags
<1> HIDE DEF t
<1>2. Quiet(s, s0) /\ Good(s0)
  BY GetStep
<1> HIDE DEF s0
<1>3. Good(s1) /\ s1.modified[b].loaded
  BY <1>2, TouchStep
<1>4. LastsIn(s0, s1)
  BY <1>2, TouchLasts
<1> HIDE DEF s1
<1>5. Elsewhere(s1, s1) /\ s1.modified \in [Addr -> Account]
  BY <1>3, GoodElsewhere, StateFields DEF Good
<1>6. Elsewhere(s1, s2) /\ Elsewhere(s2, s2) /\ s2.modified = s1.modified
  BY <1>5, JournaledElsewhere
<1> HIDE DEF s2
<1>7. s2.modified[a].balance \in Nat
  <2>1. s1.modified[a] \in Account
    BY <1>5
  <2>2. s1.modified[a].balance \in Nat
    BY <2>1 DEF Account
  <2> QED
    BY <1>6, <2>2
<1>8. LastsIn(s2, s3) /\ Elsewhere(s3, s3)
  <2>1. CASE b # RIPEMD
    <3>1. Elsewhere(s2, s3)
      BY <1>6, <1>7, <2>1, SelfdestructBalancesElsewhere
    <3> QED
      BY <3>1, ElsewhereLasts DEF Elsewhere
  <2>2. CASE b = RIPEMD
    <3>1. s2.modified[RIPEMD] \in Account /\ s2.modified[RIPEMD].loaded
      BY <1>3, <1>5, <1>6, <2>2, RoleAssumption
    <3>2. Credited(s2, s3)
      BY <1>6, <1>7, <2>2, <3>1, SelfdestructBalancesElsewhere
    <3> QED
      BY <3>1, <3>2, CreditedLasts, CreditedRecord
  <2> QED
    BY <2>1, <2>2
<1> HIDE DEF s3, e
<1>9. Elsewhere(s3, s4) /\ Elsewhere(s4, s4)
  BY <1>8, JournalElsewhere
<1> HIDE DEF s4
<1>10. Elsewhere(s4, s5)
  <2>1. Elsewhere(s4, [s4 EXCEPT !.modified[a] = acc])
    BY <1>9, PutElsewhere
  <2>2. s5 = [s4 EXCEPT !.modified[a] = acc]
    OBVIOUS
  <2> QED
    BY <2>1, <2>2
<1> HIDE DEF s5
<1>11. LastsIn(s1, s2) /\ LastsIn(s3, s5)
  BY <1>6, <1>9, <1>10, ElsewhereThen, ElsewhereLasts
<1>12. LastsIn(s, s0)
  BY <1>2, LastsSame DEF Quiet
<1>13. LastsIn(s, s3)
  BY <1>4, <1>8, <1>11, <1>12, LastsThen
<1> QED
  BY <1>1, <1>11, <1>13, LastsThen DEF t

(* The call messages. *)
LEMMA CallEffectsLast ==
    ASSUME NEW s, Good(s), NEW kind, NEW sender \in Addr, NEW recipient \in Addr,
           NEW value \in Nat, kind = "CALL" /\ value # 0 => sender # RIPEMD
    PROVE  LET t == CallEffects(s, kind, sender, recipient, value)
           IN  LastsIn(s, t) /\ Elsewhere(t, t)
<1> DEFINE t == CallEffects(s, kind, sender, recipient, value)
<1>0. Elsewhere(s, s)
  BY GoodElsewhere
<1>1. CASE kind # "CALL"
  <2>1. t = s
    BY <1>1 DEF CallEffects
  <2> HIDE DEF t
  <2> QED
    BY <1>0, <2>1, LastsSame DEF t
<1>2. CASE kind = "CALL" /\ value = 0
  <2>1. t = Touch(s, recipient)
    BY <1>2 DEF CallEffects
  <2> HIDE DEF t
  <2> QED
    BY <2>1, TouchStep, TouchLasts, GoodElsewhere DEF t
<1>3. CASE kind = "CALL" /\ value # 0
  <2> DEFINE s1 == GetOrCreate(s, recipient)
             s2 == Get(s1, sender)
  <2>1. t = Transfer(s2, sender, recipient, value) /\ sender # RIPEMD
    BY <1>3 DEF CallEffects
  <2> HIDE DEF t
  <2>2. CASE recipient # RIPEMD
    <3>1. Elsewhere(s, s1) /\ Elsewhere(s1, s1)
      BY <1>0, <2>2, GetOrCreateElsewhere
    <3> HIDE DEF s1
    <3>2. Elsewhere(s1, s2) /\ Elsewhere(s2, s2)
      BY <2>1, <3>1, GetElsewhere
    <3> HIDE DEF s2
    <3>3. Elsewhere(s2, t)
      BY <2>1, <2>2, <3>2, TransferElsewhere
    <3>4. Elsewhere(s, t) /\ Elsewhere(t, t)
      BY <3>1, <3>2, <3>3, ElsewhereThen DEF Elsewhere
    <3> QED
      BY <3>4, ElsewhereLasts DEF t
  <2>3. CASE recipient = RIPEMD
    <3>1. /\ LastsIn(s, s1) /\ Elsewhere(s1, s1)
          /\ s1.modified[RIPEMD] \in Account /\ s1.modified[RIPEMD].loaded
      BY <2>3, GetOrCreateRipemd
    <3> HIDE DEF s1
    <3>2. Elsewhere(s1, s2) /\ Elsewhere(s2, s2)
      BY <2>1, <3>1, GetElsewhere
    <3> HIDE DEF s2
    <3>3. s2.modified[RIPEMD] \in Account /\ s2.modified[RIPEMD].loaded
      BY <3>1, <3>2 DEF Elsewhere
    <3>4. Credited(s2, t)
      BY <2>1, <2>3, <3>2, <3>3, TransferElsewhere, RoleAssumption
    <3>5. LastsIn(s1, s2) /\ LastsIn(s2, t) /\ Elsewhere(t, t)
      BY <3>2, <3>3, <3>4, ElsewhereLasts, CreditedLasts, CreditedRecord
    <3> QED
      BY <3>1, <3>5, LastsThen DEF t
  <2> QED
    BY <2>2, <2>3
<1> QED
  BY <1>1, <1>2, <1>3

LEMMA WarmsLasts ==
    ASSUME NEW s, Good(s), NEW t, NEW a \in Addr, Warms(World(s), World(t), a)
    PROVE  LastsIn(s, t)
<1> DEFINE o == World(s)[RIPEMD]
           p == [o EXCEPT !.warm = TRUE]
<1>1. World(s) \in Worlds /\ o \in Observation
  BY RoleAssumption DEF Good, WorldOK, Worlds
<1>2. /\ p.erase_if_empty = o.erase_if_empty /\ p.nonce = o.nonce
      /\ p.balance = o.balance /\ p.code = o.code
  <2> HIDE DEF o
  <2> QED
    BY <1>1 DEF Observation
<1>3. World(t)[RIPEMD] = o \/ World(t)[RIPEMD] = p
  BY <1>1, RoleAssumption DEF Warms, Worlds
<1> HIDE DEF o, p
<1>4. Lasts(o, World(t)[RIPEMD])
  BY <1>2, <1>3 DEF Lasts, WorldAccountEmpty
<1> QED
  BY <1>4 DEF LastsIn, o

LEMMA BumpNonceElsewhere ==
    ASSUME NEW s, Good(s), NEW a \in Addr, a # RIPEMD
    PROVE  Elsewhere(s, BumpNonce(s, a))
<1> DEFINE s1 == JournalBumpNonce(s, a)
           acc == [s1.modified[a] EXCEPT !.nonce = s1.modified[a].nonce + 1]
           t == [s1 EXCEPT !.modified[a].nonce = @ + 1]
<1>1. Elsewhere(s, s1) /\ Elsewhere(s1, s1)
  BY GoodElsewhere, JournalElsewhere DEF JournalBumpNonce
<1>2. BumpNonce(s, a) = t
  BY DEF BumpNonce
<1> HIDE DEF s1
<1>3. Elsewhere(s1, [s1 EXCEPT !.modified[a] = acc])
  BY <1>1, PutElsewhere
<1>4. t = [s1 EXCEPT !.modified[a] = acc]
  OBVIOUS
<1> QED
  BY <1>1, <1>2, <1>3, <1>4, ElsewhereThen

LEMMA CreatePrologueLasts ==
    ASSUME NEW s, Good(s), NEW sender \in Addr, sender # RIPEMD, NEW a \in Addr
    PROVE  LastsIn(s, CreatePrologue(s, sender, a))
<1> DEFINE s1 == AccessAccount(s, a)
           s2 == IF Rev >= AMSTERDAM THEN Get(s1, a) ELSE s1
           t == BumpNonce(s2, sender)
<1>1. Good(s1) /\ Warms(World(s), World(s1), a)
  BY AccessAccountStep
<1>2. CreatePrologue(s, sender, a) = t
  BY DEF CreatePrologue
<1> HIDE DEF s1
<1>3. Quiet(s1, s2) /\ Good(s2)
  BY <1>1, QuietSelf, GetStep
<1> HIDE DEF s2
<1>4. LastsIn(s, s1) /\ LastsIn(s1, s2)
  BY <1>1, <1>3, WarmsLasts, LastsSame DEF Quiet
<1>5. LastsIn(s2, t)
  BY <1>3, BumpNonceElsewhere, ElsewhereLasts
<1> QED
  BY <1>2, <1>4, <1>5, LastsThen

LEMMA DeployElsewhere ==
    ASSUME NEW s, Good(s), NEW a \in Addr, a # RIPEMD, NEW code
    PROVE  Elsewhere(s, DeployCode(s, a, code))
<1> DEFINE acc == [s.modified[a] EXCEPT !.code_hash = code, !.code = code, !.code_changed = TRUE]
<1>1. DeployCode(s, a, code) = s \/ DeployCode(s, a, code) = [s EXCEPT !.modified[a] = acc]
  BY DEF DeployCode
<1>2. Elsewhere(s, s)
  BY GoodElsewhere
<1> QED
  BY <1>1, <1>2, PutElsewhere

-----------------------------------------------------------------------------
\* f is the frame of a call opened in s.
OpenedIn(s, f) ==
    /\ f \in FrameType /\ f.step # "rollback"
    /\ Saw(f) = World(s)[RIPEMD]
    /\ f.exec = "code" \/ f.kind = "CREATE" => f.recipient # RIPEMD

LEMMA OpenCallLasts ==
    ASSUME NEW s, Good(s), logs \in Seq(Emitters),
           NEW kind \in {"CALL", "CALLCODE", "DELEGATECALL"}, NEW sender \in Addr,
           NEW recipient \in Addr, NEW code_address \in Addr, NEW value \in Nat,
           NEW static \in BOOLEAN,
           kind = "CALL" /\ value # 0 => sender # RIPEMD,
           recipient = RIPEMD => code_address = RIPEMD,
           OpenCall(s, kind, sender, recipient, code_address, value, static)
    PROVE  LastsIn(s, state') /\ \E f : OpenedIn(s, f) /\ frames' = Append(frames, f)
<1> DEFINE s1   == CallEffects(s, kind, sender, recipient, value)
           s2   == IF code_address \in Precompiles THEN s1 ELSE GetCode(s1, code_address)
           exec == IF code_address \in Precompiles THEN "precompile"
                   ELSE IF s2.modified[code_address].code_hash = NoCode THEN "empty"
                   ELSE "code"
           f    == Frame(kind, sender, recipient, exec, static, s, logs)
<1>1. state' = s2 /\ frames' = Append(frames, f)
  BY DEF OpenCall
<1>2. LastsIn(s, s1) /\ Elsewhere(s1, s1)
  BY CallEffectsLast
<1> HIDE DEF s1
<1>3. code_address \notin Precompiles => code_address # RIPEMD
  BY RipemdAssumption
<1>4. LastsIn(s1, s2)
  <2>1. CASE code_address \in Precompiles
    BY <2>1, LastsSame
  <2>2. CASE code_address \notin Precompiles
    <3>1. Elsewhere(s1, s2)
      BY <1>2, <1>3, <2>2, GetCodeElsewhere
    <3> HIDE DEF s2
    <3> QED
      BY <3>1, ElsewhereLasts
  <2> QED
    BY <2>1, <2>2
<1>5. exec \in {"code", "precompile", "empty"} /\ (exec = "code" => recipient # RIPEMD)
  BY <1>3
<1> HIDE DEF s2, exec
<1>6. IsFrame(f, kind, recipient, exec, s, logs)
  BY <1>5, FrameFields
<1> HIDE DEF f
<1>7. OpenedIn(s, f)
  BY <1>5, <1>6 DEF OpenedIn, IsFrame, Begun, Saw
<1> QED
  BY <1>1, <1>2, <1>4, <1>7, LastsThen

LEMMA OpenCreateLasts ==
    ASSUME NEW s, Good(s), logs \in Seq(Emitters), NEW sender \in Addr, sender # RIPEMD,
           NEW a \in Addr, a # RIPEMD, NEW value \in Nat, OpenCreate(s, sender, a, value)
    PROVE  LastsIn(s, state') /\ \E f : OpenedIn(s, f) /\ frames' = Append(frames, f)
<1> DEFINE f == Frame("CREATE", sender, a, "code", FALSE, s, logs)
           g == [f EXCEPT !.step = "collision"]
<1>1. \/ state' = Get(s, a) /\ frames' = Append(frames, g)
      \/ state' = NewContract(s, sender, a, value) /\ frames' = Append(frames, f)
  BY DEF OpenCreate
<1>2. IsFrame(f, "CREATE", a, "code", s, logs)
  BY FrameFields
<1> HIDE DEF f
<1>3. OpenedIn(s, f)
  BY <1>2 DEF OpenedIn, IsFrame, Begun, Saw
<1>4. OpenedIn(s, g)
  <2>1. g \in FrameType /\ g.step = "collision" /\ g.checkpoint.world = World(s)
    BY <1>2 DEF IsFrame, Begun
  <2>2. g.recipient = a
    BY <1>2 DEF IsFrame, Begun, FrameType
  <2> HIDE DEF g
  <2> QED
    BY <2>1, <2>2 DEF OpenedIn, Saw
<1> HIDE DEF g
<1>5. Elsewhere(s, Get(s, a)) /\ Elsewhere(s, NewContract(s, sender, a, value))
  BY GoodElsewhere, GetElsewhere, NewContractElsewhere
<1>6. LastsIn(s, state')
  BY <1>1, <1>5, ElsewhereLasts
<1> QED
  BY <1>1, <1>3, <1>4, <1>6

LEMMA FlagSeen ==
    ASSUME NEW s, Good(s)
    PROVE  s.modified[RIPEMD].erase_if_empty = World(s)[RIPEMD].erase_if_empty
<1> DEFINE acc == s.modified[RIPEMD]
           view == s.initial[RIPEMD]
           seen == IF acc.loaded THEN acc ELSE LoadAccount(acc, view)
<1>1. acc \in Account
  BY StateFields, RoleAssumption DEF Good
<1>2. World(s)[RIPEMD] = Observed(acc, view)
  BY WorldAt, RoleAssumption
<1> HIDE DEF acc, view
<1>3. LoadAccount(acc, view).erase_if_empty = acc.erase_if_empty
  BY <1>1 DEF LoadAccount, Account
<1>4. Observed(acc, view).erase_if_empty = seen.erase_if_empty
  BY DEF Observed
<1> QED
  BY <1>2, <1>3, <1>4 DEF acc

\* What is known of the step of the history.
StepMarked ==
    /\ Marked(was_touched, World(state')[RIPEMD], was_touched')
    /\ phase' = "idle" => ~was_touched'
    /\ Rolling(frames') /\ phase' # "idle" => (was_touched' <=> was_touched)

LEMMA HistoryMarks ==
    ASSUME HostInv', History
    PROVE  StepMarked
<1>1. RipemdFlag' = World(state')[RIPEMD].erase_if_empty
  <2>1. Good(state')
    BY DEF HostInv
  <2> HIDE DEF World
  <2> QED
    BY <2>1, FlagSeen DEF RipemdFlag
<1>2. RollingBack' <=> Rolling(frames')
  BY DEF RollingBack, Rolling, Top
<1>3. was_touched' <=> /\ phase' # "idle"
                       /\ was_touched \/ (~Rolling(frames') /\ World(state')[RIPEMD].erase_if_empty)
  BY <1>1, <1>2 DEF History
<1> QED
  BY <1>3 DEF StepMarked, Marked

LEMMA TouchInvNext ==
    ASSUME TouchOK(frames', World(state')[RIPEMD], phase', was_touched')
    PROVE  TouchInv'
  BY DEF TouchInv

LEMMA SameHistory ==
    ASSUME NEW fs, NEW o, NEW ph, NEW wt, TouchOK(fs, o, ph, wt), NEW wt2, wt2 <=> wt
    PROVE  TouchOK(fs, o, ph, wt2)
  BY DEF TouchOK

\* What a running program keeps away from.
LEMMA RunsElsewhere ==
    ASSUME HostInv, TouchInv, Running
    PROVE  /\ RunsOK /\ Top.recipient # RIPEMD
           /\ Elsewhere(state, state) /\ Good(state) /\ Top.recipient \in Addr
<1>1. RunsOK
  BY RunningFacts
<1>2. Len(frames) \in 1..Len(frames)
  BY <1>1, LenProperties, EmptySeq DEF RunsOK
<1>3. frames[Len(frames)].exec = "code"
  BY DEF Running, Top
<1>4. Top.recipient # RIPEMD
  BY <1>2, <1>3 DEF TouchInv, TouchOK, NotRun, Top
<1> QED
  BY <1>1, <1>4, GoodElsewhere DEF RunsOK, Writable

LEMMA WorkLasts ==
    ASSUME TouchInv, StepMarked, RunsOK, UNCHANGED <<frames, phase>>, LastsIn(state, state')
    PROVE  TouchInv'
<1>1. TouchOK(frames, World(state')[RIPEMD], phase', was_touched')
  BY TouchWork DEF TouchInv, StepMarked, RunsOK, LastsIn
<1> QED
  BY <1>1, TouchInvNext

LEMMA AccountCallbacksLast ==
    ASSUME HostInv, TouchInv, StepMarked, NEW a \in Addr, DoAccessAccount(a) \/ DoReadAccount(a)
    PROVE  TouchInv'
<1>1. RunsOK /\ Good(state)
  BY RunsElsewhere DEF DoAccessAccount, DoReadAccount
<1>2. LastsIn(state, state')
  <2>1. CASE DoAccessAccount(a)
    <3>1. state' = AccessAccount(state, a)
      BY <2>1 DEF DoAccessAccount
    <3> QED
      BY <1>1, <3>1, AccessAccountStep, WarmsLasts
  <2>2. CASE DoReadAccount(a)
    <3>1. Quiet(state, Get(state, a)) /\ Quiet(state, GetCode(state, a))
      BY <1>1, GetStep, GetCodeStep
    <3>2. Quiet(state, state')
      BY <2>2, <3>1 DEF DoReadAccount
    <3> QED
      BY <3>2, LastsSame DEF Quiet
  <2> QED
    BY <2>1, <2>2
<1>3. UNCHANGED <<frames, phase>>
  BY DEF DoAccessAccount, DoReadAccount
<1> QED
  BY <1>1, <1>2, <1>3, WorkLasts

LEMMA SlotCallbacksLast ==
    ASSUME HostInv, TouchInv, StepMarked, NEW k \in Key, NEW v \in Val,
           \/ DoAccessStorage(k) \/ DoGetStorage(k)
           \/ DoSetStorage(k, v) \/ DoSetTransientStorage(k, v)
    PROVE  TouchInv'
<1> DEFINE self == Top.recipient
           s == IF Rev >= BERLIN THEN AccessStorage(state, self, k) ELSE state
<1>1. RunsOK /\ self # RIPEMD /\ self \in Addr /\ Elsewhere(state, state)
  BY RunsElsewhere DEF DoAccessStorage, DoGetStorage, DoSetStorage, DoSetTransientStorage
<1>2. \/ state' = AccessStorage(state, self, k) \/ state' = GetStorage(state, self, k)
      \/ state' = SetStorage(s, self, k, v)
      \/ state' = SetTransientStorage(state, self, k, v)
  BY DEF DoAccessStorage, DoGetStorage, DoSetStorage, DoSetTransientStorage
<1>3. UNCHANGED <<frames, phase>>
  BY DEF DoAccessStorage, DoGetStorage, DoSetStorage, DoSetTransientStorage
<1> HIDE DEF self
<1>4. Elsewhere(state, s) /\ Elsewhere(s, s)
  BY <1>1, AccessStorageElsewhere
<1> HIDE DEF s
<1>5. Elsewhere(state, SetStorage(s, self, k, v))
  BY <1>1, <1>4, SetStorageElsewhere, ElsewhereThen
<1>6. Elsewhere(state, state')
  BY <1>1, <1>2, <1>5, AccessStorageElsewhere, GetStorageElsewhere, SetTransientStorageElsewhere
<1> QED
  BY <1>1, <1>3, <1>6, ElsewhereLasts, WorkLasts

LEMMA LogCallbackLasts ==
    ASSUME HostInv, TouchInv, StepMarked, DoEmitLog
    PROVE  TouchInv'
<1>1. RunsOK
  BY RunsElsewhere DEF DoEmitLog
<1>2. LastsIn(state, state') /\ UNCHANGED <<frames, phase>>
  BY LastsSame DEF DoEmitLog
<1> QED
  BY <1>1, <1>2, WorkLasts

\* A call is opened in the state s.
LEMMA OpenLasts ==
    ASSUME TouchInv, StepMarked, frames \in Seq(FrameType), ~Rolling(frames),
           NEW s, LastsIn(state, s), LastsIn(s, state'),
           \E f : OpenedIn(s, f) /\ frames' = Append(frames, f), phase' # "idle"
    PROVE  TouchInv'
<1>1. PICK f : OpenedIn(s, f) /\ frames' = Append(frames, f)
  OBVIOUS
<1>2. /\ f \in FrameType /\ f.step # "rollback" /\ Saw(f) = World(s)[RIPEMD]
      /\ f.exec = "code" \/ f.kind = "CREATE" => f.recipient # RIPEMD
  BY <1>1 DEF OpenedIn
<1>3. /\ Lasts(World(state)[RIPEMD], Saw(f)) /\ Lasts(Saw(f), World(state')[RIPEMD])
  BY <1>2 DEF LastsIn
<1>4. TouchOK(Append(frames, f), World(state')[RIPEMD], phase', was_touched')
  BY <1>2, <1>3, TouchPush DEF TouchInv, StepMarked
<1> QED
  BY <1>1, <1>4, TouchInvNext

LEMMA CallCallbackLasts ==
    ASSUME HostInv, TouchInv, StepMarked, NEW op \in CallOps, NEW dst \in Addr,
           NEW value \in Values, DoCall(op, dst, value)
    PROVE  TouchInv'
<1> DEFINE self == Top.recipient
           s == CallPrologue(state, op, dst, value)
           kind == CallKind(op)
           sender == IF op = "DELEGATECALL" THEN Top.sender ELSE self
           recipient == IF op \in {"CALL", "STATICCALL"} THEN dst ELSE self
           static == Top.static \/ op = "STATICCALL"
<1>1. RunsOK /\ self # RIPEMD /\ self \in Addr /\ Good(state)
  BY RunsElsewhere DEF DoCall
<1>2. /\ Top \in FrameType /\ value \in Nat /\ logs \in Seq(Emitters)
      /\ frames \in Seq(FrameType) /\ ~Rolling(frames) /\ phase = "call"
  BY <1>1, InputAssumption DEF RunsOK, CallsOK, LogsOK
<1>3. Good(s) /\ LastsIn(state, s)
  BY <1>1, CallPrologueStep, WarmsLasts
<1>4. OpenCall(s, kind, sender, recipient, dst, value, static)
  BY DEF DoCall
<1>5. (value # 0 => op \in {"CALL", "CALLCODE"}) /\ phase' = phase
  BY DEF DoCall
<1>6. kind \in {"CALL", "CALLCODE", "DELEGATECALL"} /\ sender \in Addr /\ recipient \in Addr
  BY <1>1, <1>2 DEF CallKind, CallOps, FrameType
<1>7. static \in BOOLEAN
  BY <1>2 DEF FrameType
<1>8. kind = "CALL" /\ value # 0 => sender # RIPEMD
  BY <1>1, <1>5
<1>9. recipient = RIPEMD => dst = RIPEMD
  BY <1>1
<1> HIDE DEF s, kind, self, static, sender, recipient
<1>10. LastsIn(s, state') /\ \E f : OpenedIn(s, f) /\ frames' = Append(frames, f)
  BY <1>2, <1>3, <1>4, <1>6, <1>7, <1>8, <1>9, OpenCallLasts
<1> QED
  BY <1>2, <1>3, <1>5, <1>10, OpenLasts

LEMMA CreateCallbackLasts ==
    ASSUME HostInv, TouchInv, StepMarked, NEW a \in Addr, NEW value \in Values,
           DoCreate(a, value)
    PROVE  TouchInv'
<1> DEFINE self == Top.recipient
           s == CreatePrologue(state, self, a)
<1>1. RunsOK /\ self # RIPEMD /\ self \in Addr /\ Good(state)
  BY RunsElsewhere DEF DoCreate
<1>2. /\ value \in Nat /\ logs \in Seq(Emitters) /\ Writable(state, self)
      /\ frames \in Seq(FrameType) /\ ~Rolling(frames) /\ phase = "call"
  BY <1>1, InputAssumption DEF RunsOK, CallsOK, LogsOK
<1>3. /\ a \in CreateTargets(self, state.modified[self].nonce)
      /\ OpenCreate(s, self, a, value) /\ phase' = phase
  BY DEF DoCreate
<1>4. a # RIPEMD
  BY <1>3, RipemdAssumption DEF CreateTargets
<1>5. Good(s) /\ LastsIn(state, s)
  BY <1>1, <1>2, CreatePrologueStep, CreatePrologueLasts
<1> HIDE DEF s, self
<1>6. LastsIn(s, state') /\ \E f : OpenedIn(s, f) /\ frames' = Append(frames, f)
  BY <1>1, <1>2, <1>3, <1>4, <1>5, OpenCreateLasts
<1> QED
  BY <1>2, <1>3, <1>5, <1>6, OpenLasts

\* A call ends with success.
LEMMA SuccessLasts ==
    ASSUME TouchInv, StepMarked, NEW x, CallsOK(state, logs, frames, x), frames # << >>,
           Top.step = "run", Pop, phase' # "idle", LastsIn(state, state')
    PROVE  TouchInv'
<1>1. frames \in Seq(FrameType)
  BY DEF CallsOK
<1>2. IsPop(frames', frames)
  BY <1>1, PopFrames DEF Pop
<1>3. AllRun(frames') /\ frames' \in Seq(FrameType)
  BY <1>2, PoppedRun DEF IsPop
<1>4. ~Rolling(frames') /\ ~Rolling(frames)
  BY <1>3, RunNotRolling DEF Rolling, Top
<1>5. TouchOK(frames', World(state')[RIPEMD], phase', was_touched')
  BY <1>1, <1>2, <1>4, TouchPop DEF TouchInv, StepMarked, LastsIn
<1> QED
  BY <1>5, TouchInvNext

LEMMA SelfdestructCallbackLasts ==
    ASSUME HostInv, TouchInv, StepMarked, NEW b \in Addr, DoSelfdestruct(b)
    PROVE  TouchInv'
<1> DEFINE self == Top.recipient
           s1 == AccessAccount(state, b)
           s2 == IF Rev = TANGERINE_WHISTLE
                    \/ (Rev > TANGERINE_WHISTLE /\ state.modified[self].balance # 0)
                 THEN Get(s1, b) ELSE s1
<1>1. RunsOK /\ self # RIPEMD /\ self \in Addr /\ Good(state)
  BY RunsElsewhere DEF DoSelfdestruct
<1>2. state' = Selfdestruct(s2, self, b) /\ Pop /\ PhaseAfterReturn /\ Top.step = "run"
  BY DEF DoSelfdestruct, Running
<1>3. Good(s1) /\ LastsIn(state, s1)
  BY <1>1, AccessAccountStep, WarmsLasts
<1> HIDE DEF s1, self
<1>4. Quiet(s1, s2) /\ Good(s2)
  BY <1>3, GetStep, QuietSelf
<1> HIDE DEF s2
<1>5. LastsIn(s1, s2) /\ LastsIn(s2, state')
  BY <1>1, <1>2, <1>4, LastsSame, SelfdestructLasts DEF Quiet
<1>6. LastsIn(state, state')
  BY <1>3, <1>5, LastsThen
<1>7. phase' # "idle"
  BY <1>1, <1>2 DEF PhaseAfterReturn, RunsOK
<1> QED
  BY <1>1, <1>2, <1>6, <1>7, SuccessLasts DEF RunsOK

LEMMA ReturnLasts ==
    ASSUME HostInv, TouchInv, StepMarked, NEW code \in Codes, Return(code)
    PROVE  TouchInv'
<1>1. /\ frames # << >> /\ Top.step = "run" /\ Pop /\ PhaseAfterReturn
      /\ state' = IF Top.kind = "CREATE" THEN DeployCode(state, Top.recipient, code) ELSE state
  BY DEF Return
<1>2. /\ phase = "call" /\ CallsOK(state, logs, frames, tx.sender) /\ Good(state)
      /\ frames \in Seq(FrameType)
  BY <1>1, OpenFacts
<1>3. Len(frames) \in 1..Len(frames) /\ frames[Len(frames)] \in FrameType
  BY <1>1, <1>2, LenProperties, EmptySeq, ElementOfSeq
<1>4. LastsIn(state, state')
  <2>1. CASE Top.kind = "CREATE"
    <3>1. Top.recipient # RIPEMD /\ Top.recipient \in Addr
      BY <1>3, <2>1 DEF TouchInv, TouchOK, NotRun, Top, FrameType
    <3>2. Elsewhere(state, state')
      BY <1>1, <1>2, <2>1, <3>1, DeployElsewhere
    <3> QED
      BY <3>2, ElsewhereLasts
  <2>2. CASE Top.kind # "CREATE"
    BY <1>1, <2>2, LastsSame
  <2> QED
    BY <2>1, <2>2
<1>5. phase' # "idle"
  BY <1>1, <1>2 DEF PhaseAfterReturn
<1> QED
  BY <1>1, <1>2, <1>4, <1>5, SuccessLasts

LEMMA FailLasts ==
    ASSUME HostInv, TouchInv, StepMarked, Fail
    PROVE  TouchInv'
<1> DEFINE s == IF TouchSurvives THEN Get(state, RIPEMD) ELSE state
           touched == TouchSurvives /\ s.modified[RIPEMD].erase_if_empty
           o == World(state)[RIPEMD]
<1>1. /\ frames # << >> /\ frames' = RollsBack(frames, touched) /\ phase' = phase
      /\ Top.step # "rollback"
  BY DEF Fail, RollsBack
<1>2. frames \in Seq(FrameType) /\ Good(state) /\ phase = "call"
  BY <1>1, OpenFacts
<1>3. touched \in BOOLEAN /\ touched = (TouchSurvives /\ o.erase_if_empty)
  <2>1. Quiet(state, s) /\ Good(s)
    BY <1>2, GetStep, QuietSelf, RoleAssumption
  <2> HIDE DEF s
  <2>2. s.modified[RIPEMD].erase_if_empty = World(s)[RIPEMD].erase_if_empty
    BY <2>1, FlagSeen
  <2>3. s.modified[RIPEMD].erase_if_empty = o.erase_if_empty
    BY <2>1, <2>2 DEF Quiet
  <2> QED
    BY <2>3
<1> HIDE DEF touched, o
<1>4. IsRolled(frames', frames, touched)
  BY <1>1, <1>2, <1>3, RolledFrames
<1>5. Rolling(frames')
  <2>1. Len(frames) \in 1..Len(frames)
    BY <1>1, <1>2, LenProperties, EmptySeq
  <2>2. /\ frames' \in Seq(FrameType) /\ Len(frames') = Len(frames)
        /\ frames'[Len(frames)].step = "rollback"
    BY <1>4 DEF IsRolled
  <2>3. frames' # << >>
    BY <2>1, <2>2, EmptySeq
  <2> QED
    BY <2>2, <2>3 DEF Rolling
<1>6. ~Rolling(frames)
  BY <1>1 DEF Rolling, Top
<1>7. TouchOK(frames', World(state')[RIPEMD], phase', was_touched)
  BY <1>1, <1>2, <1>3, <1>4, <1>6, TouchRolled DEF TouchInv, o
<1>8. TouchOK(frames', World(state')[RIPEMD], phase', was_touched')
  BY <1>1, <1>2, <1>5, <1>7, SameHistory DEF StepMarked
<1> QED
  BY <1>8, TouchInvNext

LEMMA RollbackLasts ==
    ASSUME HostInv, TouchInv, StepMarked, Rollback
    PROVE  TouchInv'
<1>1. frames' = frames /\ phase' = phase /\ Rolling(frames)
  BY DEF Rollback, RollingBack, Rolling, Top
<1>2. phase = "call"
  BY <1>1, OpenFacts DEF Rolling
<1>3. TouchOK(frames', World(state')[RIPEMD], phase', was_touched')
  BY <1>1, <1>2, TouchUndone, SameHistory DEF TouchInv, StepMarked
<1> QED
  BY <1>3, TouchInvNext

(* After a failure 0x03 is what the checkpoint shows, touched again if it   *)
(* was touched when the call failed; the checkpoint shows it touched or     *)
(* empty then, so that the touch takes effect.                              *)
LEMMA FailReturnLasts ==
    ASSUME HostInv, TouchInv, StepMarked, FailReturn
    PROVE  TouchInv'
<1> DEFINE f == frames[Len(frames)]
           o == World(state)[RIPEMD]
           p == World(state')[RIPEMD]
<1>1. /\ frames # << >> /\ Rolling(frames) /\ Len(state.journal) = f.state_checkpoint
      /\ state' = IF f.ripemd_touched THEN Touch(state, RIPEMD) ELSE state
      /\ logs' = SubSeq(logs, 1, f.logs_checkpoint)
      /\ Pop /\ PhaseAfterReturn
  BY DEF FailReturn, RollingBack, Rolling, Top
<1>2. /\ phase = "call" /\ CallsOK(state, logs, frames, tx.sender)
      /\ frames \in Seq(FrameType) /\ Good(state)
  BY <1>1, OpenFacts
<1>3. IsPop(frames', frames)
  BY <1>1, <1>2, PopFrames DEF Pop
<1>4. ~Rolling(frames')
  BY <1>2, <1>3, PoppedRun, RunNotRolling DEF IsPop
<1>5. o = Saw(f)
  <2> DEFINE h == f
  <2>1. h = frames[Len(frames)] /\ Len(state.journal) = h.state_checkpoint
        /\ logs' = SubSeq(logs, 1, h.logs_checkpoint)
    BY <1>1
  <2> HIDE DEF h
  <2>2. Restored(state, logs', frames', tx.sender, h)
    BY <1>1, <1>2, <1>3, <2>1, CallsRestored
  <2>3. World(state) = h.checkpoint.world
    BY <2>2 DEF Restored
  <2> QED
    BY <2>3 DEF h, Saw
<1>6. Len(frames) \in 1..Len(frames)
  BY <1>1, <1>2, LenProperties, EmptySeq
<1>7. Touchable(frames) => o.erase_if_empty \/ WorldAccountEmpty(o)
  BY <1>5, <1>6 DEF Touchable
<1> HIDE DEF f, o, p
<1>8. ASSUME f.ripemd_touched, Touchable(frames)
      PROVE  p.erase_if_empty /\ (WorldAccountEmpty(p) => WorldAccountEmpty(o))
  <2>1. World(state') = TouchedWorld(World(state), RIPEMD)
    BY <1>1, <1>2, <1>8, TouchStep, RoleAssumption
  <2> DEFINE q == [o EXCEPT !.exists = TRUE, !.erase_if_empty = TRUE]
  <2>2. World(state) \in Worlds /\ o \in Observation
    BY <1>2, RoleAssumption DEF Good, WorldOK, Worlds, o
  <2>3. q.erase_if_empty = TRUE
    BY <2>2 DEF Observation
  <2>4. IF WorldAccountEmpty(o) THEN p = q ELSE p = o
    BY <2>1, <2>2, RoleAssumption DEF TouchedWorld, Worlds, WorldAccountEmpty, o, p
  <2> HIDE DEF q
  <2> QED
    BY <1>7, <1>8, <2>3, <2>4
<1>9. ~f.ripemd_touched => p = o
  BY <1>1 DEF o, p
<1>10. phase' # "idle"
  BY <1>1, <1>2 DEF PhaseAfterReturn
<1>11. TouchOK(frames', p, phase', was_touched')
  <2>1. TouchOK(frames, o, phase, was_touched) /\ Marked(was_touched, p, was_touched')
    BY DEF TouchInv, StepMarked, o, p
  <2>2. f = frames[Len(frames)]
    BY DEF f
  <2> QED
    BY <1>1, <1>2, <1>3, <1>4, <1>5, <1>8, <1>9, <1>10, <2>1, <2>2, TouchFailed
<1> QED
  BY <1>11, TouchInvNext DEF p

LEMMA BeginLasts ==
    ASSUME HostInv, TouchInv, StepMarked, NEW t \in Transactions, Begin(t)
    PROVE  TouchInv'
<1> DEFINE u == TxPrologue(t)
           a == TxRecipient(t)
           o == World(u)[RIPEMD]
<1>1. /\ phase = "idle" /\ TxValid(t) /\ phase' = "call"
      /\ IF t.to \in Addr
         THEN OpenCall(u, "CALL", t.sender, t.to, t.to, t.value, FALSE)
         ELSE OpenCreate(u, t.sender, a, t.value)
  BY DEF Begin
<1>2. Prepared(t, u)
  BY <1>1, PreparedStep
<1>3. t.to \notin Addr => a \in Addr /\ a # RIPEMD
  <2> SUFFICES ASSUME t.to \notin Addr PROVE a \in Addr /\ a # RIPEMD
    OBVIOUS
  <2>1. /\ <<t.sender, state.initial[t.sender].nonce>> \in DOMAIN CreateAddress
        /\ a = CreateAddress[<<t.sender, state.initial[t.sender].nonce>>]
    BY <1>1 DEF TxValid, TxRecipient
  <2> QED
    BY <2>1, RipemdAssumption, AddressAssumption
<1> HIDE DEF u, a
<1>4. /\ t.sender \in Addr /\ t.value \in Nat /\ Good(u)
      /\ CallsOK(u, logs, frames, t.sender) /\ frames = << >>
  BY <1>2 DEF Prepared, Writable
<1>5. logs \in Seq(Emitters) /\ frames \in Seq(FrameType) /\ t.sender # RIPEMD
  BY <1>4, RipemdAssumption DEF CallsOK, LogsOK
<1>6. LastsIn(u, state') /\ \E f : OpenedIn(u, f) /\ frames' = Append(frames, f)
  <2>1. CASE t.to \in Addr
    BY <1>1, <1>4, <1>5, <2>1, OpenCallLasts
  <2>2. CASE t.to \notin Addr
    BY <1>1, <1>3, <1>4, <1>5, <2>2, OpenCreateLasts
  <2> QED
    BY <2>1, <2>2
<1>7. PICK f : OpenedIn(u, f) /\ frames' = Append(frames, f)
  BY <1>6
<1>8. /\ f \in FrameType /\ f.step # "rollback" /\ Saw(f) = o
      /\ f.exec = "code" \/ f.kind = "CREATE" => f.recipient # RIPEMD
  BY <1>7 DEF OpenedIn
<1>9. ~was_touched
  BY <1>1 DEF TouchInv, TouchOK
<1>10. TouchOK(frames, o, phase, was_touched) /\ ~Rolling(frames)
  BY <1>4, <1>9, TouchEmpty DEF Rolling
<1>11. Lasts(o, Saw(f)) /\ Lasts(Saw(f), World(state')[RIPEMD])
  <2>1. Lasts(o, o)
    BY DEF Lasts
  <2> QED
    BY <1>6, <1>8, <2>1 DEF LastsIn
<1> HIDE DEF o
<1>12. TouchOK(Append(frames, f), World(state')[RIPEMD], phase', was_touched')
  BY <1>1, <1>5, <1>8, <1>10, <1>11, TouchPush DEF StepMarked
<1> QED
  BY <1>7, <1>12, TouchInvNext

\* No call is open before and after.
LEMMA OutsideLasts ==
    ASSUME HostInv, TouchInv, StepMarked, frames' = << >>, ~was_touched
    PROVE  TouchInv'
<1>1. /\ phase' = "idle" => ~was_touched'
      /\ TouchSurvives /\ was_touched' => World(state')[RIPEMD].erase_if_empty
  BY DEF StepMarked, Marked
<1>2. TouchOK(frames', World(state')[RIPEMD], phase', was_touched')
  BY <1>1, TouchEmpty
<1> QED
  BY <1>2, TouchInvNext

LEMMA TouchNextStep ==
    ASSUME HostInv, HostInv', TouchInv, Next, History
    PROVE  TouchInv'
<1>1. StepMarked
  BY HistoryMarks
<1>2. CASE \E t \in Transactions : Begin(t) \/ BeginOutOfGas(t)
  <2>1. PICK t \in Transactions : Begin(t) \/ BeginOutOfGas(t)
    BY <1>2
  <2>2. CASE Begin(t)
    BY <1>1, <2>2, BeginLasts
  <2>3. CASE BeginOutOfGas(t)
    <3>1. phase = "idle" /\ frames' = frames
      BY <2>3 DEF BeginOutOfGas
    <3>2. frames = << >> /\ ~was_touched
      BY <3>1 DEF HostInv, TouchInv, TouchOK
    <3> QED
      BY <1>1, <3>1, <3>2, OutsideLasts
  <2> QED
    BY <2>1, <2>2, <2>3
<1>3. CASE Callback
  <2>1. \/ \E a \in Addr : DoAccessAccount(a) \/ DoReadAccount(a)
        \/ \E k \in Key : DoAccessStorage(k) \/ DoGetStorage(k)
        \/ \E k \in Key, v \in Val : DoSetStorage(k, v) \/ DoSetTransientStorage(k, v)
        \/ DoEmitLog
        \/ \E op \in CallOps, dst \in Addr, value \in Values : DoCall(op, dst, value)
        \/ \E a \in Addr, value \in Values : DoCreate(a, value)
        \/ \E b \in Addr : DoSelfdestruct(b)
    BY <1>3, Zenon DEF Callback
  <2>2. CASE \E a \in Addr : DoAccessAccount(a) \/ DoReadAccount(a)
    BY <1>1, <2>2, AccountCallbacksLast
  <2>3. CASE \E k \in Key : DoAccessStorage(k) \/ DoGetStorage(k)
    <3>1. 0 \in Val
      BY ValAssumption
    <3> QED
      BY <1>1, <2>3, <3>1, SlotCallbacksLast
  <2>4. CASE \E k \in Key, v \in Val : DoSetStorage(k, v) \/ DoSetTransientStorage(k, v)
    BY <1>1, <2>4, SlotCallbacksLast
  <2>5. CASE DoEmitLog
    BY <1>1, <2>5, LogCallbackLasts
  <2>6. CASE \E op \in CallOps, dst \in Addr, value \in Values : DoCall(op, dst, value)
    BY <1>1, <2>6, CallCallbackLasts
  <2>7. CASE \E a \in Addr, value \in Values : DoCreate(a, value)
    BY <1>1, <2>7, CreateCallbackLasts
  <2>8. CASE \E b \in Addr : DoSelfdestruct(b)
    BY <1>1, <2>8, SelfdestructCallbackLasts
  <2> QED
    BY <2>1, <2>2, <2>3, <2>4, <2>5, <2>6, <2>7, <2>8
<1>4. CASE \E code \in Codes : Return(code)
  BY <1>1, <1>4, ReturnLasts
<1>5. CASE Fail \/ Rollback \/ FailReturn
  BY <1>1, <1>5, FailLasts, RollbackLasts, FailReturnLasts
<1>6. CASE \E gas_used \in 1..GasLimit : Finish(gas_used)
  <2>1. frames' = << >> /\ phase' = "idle"
    BY <1>6 DEF Finish
  <2>2. ~was_touched' /\ 1..Len(frames') = {} /\ ~Rolling(frames')
    BY <1>1, <2>1 DEF StepMarked, Rolling
  <2>3. TouchOK(frames', World(state')[RIPEMD], phase', was_touched')
    BY <2>1, <2>2, TouchEmpty
  <2> QED
    BY <2>3, TouchInvNext
<1>7. CASE Idle
  <2>1. phase = "idle" /\ frames' = frames
    BY <1>7 DEF Idle, vars
  <2>2. frames = << >> /\ ~was_touched
    BY <2>1 DEF HostInv, TouchInv, TouchOK
  <2> QED
    BY <1>1, <2>1, <2>2, OutsideLasts
<1> QED
  BY <1>2, <1>3, <1>4, <1>5, <1>6, <1>7, Zenon DEF Next

(* In the revisions where the touch of 0x03 outlives failures, it is there   *)
(* whenever an instruction, a caller or build_diff() looks once it was made, *)
(* however deep the call that made it and whatever failed around it since.   *)
THEOREM RipemdTouch == TouchSpec => []RipemdTouchIsKept
<1>1. Init /\ was_touched = FALSE => TouchInv
  <2> SUFFICES ASSUME Init, was_touched = FALSE PROVE TouchInv
    OBVIOUS
  <2>1. frames = << >> /\ ~was_touched
    BY DEF Init
  <2> QED
    BY <2>1, TouchEmpty DEF TouchInv
<1>2. HostInv /\ HostInv' /\ TouchInv /\ [TouchNext]_<<vars, was_touched>> => TouchInv'
  <2> SUFFICES ASSUME HostInv, HostInv', TouchInv, [TouchNext]_<<vars, was_touched>>
               PROVE  TouchInv'
    OBVIOUS
  <2>1. CASE TouchNext
    BY <2>1, TouchNextStep DEF TouchNext
  <2>2. CASE UNCHANGED <<vars, was_touched>>
    BY <2>2 DEF TouchInv, vars
  <2> QED
    BY <2>1, <2>2
<1>3. HostInv /\ TouchInv => RipemdTouchIsKept
  <2> SUFFICES ASSUME HostInv, TouchInv, TouchSurvives, was_touched, ~RollingBack
               PROVE  RipemdFlag
    BY DEF RipemdTouchIsKept
  <2>1. ~Rolling(frames) /\ Good(state)
    BY DEF RollingBack, Rolling, Top, HostInv
  <2>2. World(state)[RIPEMD].erase_if_empty
    BY <2>1 DEF TouchInv, TouchOK
  <2> QED
    BY <2>1, <2>2, FlagSeen DEF RipemdFlag
<1>4. TouchSpec => Spec
  <2>1. TouchInit => Init
    BY DEF TouchInit
  <2>2. [TouchNext]_<<vars, was_touched>> => [Next]_vars
    BY DEF TouchNext
  <2> QED
    BY <2>1, <2>2, PTL DEF TouchSpec, Spec
<1>5. TouchSpec => []HostInv
  BY <1>4, HostInvariance, PTL
<1>6. TouchSpec => [](HostInv /\ TouchInv)
  <2>1. TouchInit => TouchInv
    BY <1>1 DEF TouchInit
  <2> QED
    BY <1>2, <1>5, <2>1, PTL DEF TouchSpec
<1> QED
  BY <1>3, <1>6, PTL
=============================================================================
