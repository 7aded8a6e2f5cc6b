----------------------------- MODULE BlockProofs -----------------------------
(***************************************************************************)
(* Proofs about the transition of a block, for all accounts, views,        *)
(* transactions, system contracts, outcomes and gas results: its gas for   *)
(* every revision; its access list, the ether it issues and the            *)
(* authorizations taken back from Amsterdam on, when there is such a list. *)
(* A state that works on a view is Exact for it: each account Follows what *)
(* the view says of it.  The operations of State move such a state, those  *)
(* of Transaction and the system calls are folds of them, the diff of the  *)
(* result is applied to the view (DiffApplies) and recorded (BalOK).       *)
(***************************************************************************)
EXTENDS BlockProperties, SequenceTheorems, FiniteSetTheorems, WellFoundedInduction, TLAPS

-----------------------------------------------------------------------------
(* Sums over all accounts, and folds over the elements of a sequence.  What *)
(* is said of every set of accounts or indices is proved by a smallest set  *)
(* for which it would not hold: a set of natural numbers has a least one.   *)

LEMMA LeastNatural ==
    ASSUME NEW T \in SUBSET Nat, T # {}
    PROVE  \E m \in T : \A n \in T : m <= n
<1> DEFINE R == OpToRel(<, Nat)
<1>1. IsWellFoundedOn(R, Nat)
  BY Zenon, NatLessThanWellFounded
<1> HIDE DEF R
<1>2. \E m \in T : \A n \in T : <<n, m>> \notin R
  BY <1>1, WFMin
<1>3. \A m, n \in Nat : <<n, m>> \notin R => m <= n
  BY DEF R, OpToRel
<1> QED
  BY <1>2, <1>3

-----------------------------------------------------------------------------
(* The sum of the balances of a view: MapThenSumSet().                      *)

\* The account the fold adds next.
NextAdded(A) == CHOOSE a \in A : TRUE

LEMMA AddedIn ==
    ASSUME NEW A, A # {}
    PROVE  NextAdded(A) \in A
  BY DEF NextAdded

\* total is the sum for the sets of at most n addresses.
Adds(view, total, n) ==
    \A A \in SUBSET Addr : Cardinality(A) <= n =>
       total[A] = IF A = {} THEN 0
                  ELSE view[NextAdded(A)].balance + total[A \ {NextAdded(A)}]

LEMMA Subsets ==
    ASSUME NEW A \in SUBSET Addr
    PROVE  /\ IsFiniteSet(A) /\ Cardinality(A) \in Nat
           /\ Cardinality(A) = 0 <=> A = {}
           /\ \A a \in A : Cardinality(A \ {a}) = Cardinality(A) - 1
  BY AddrAssumption, FS_Subset, FS_CardinalityType, FS_RemoveElement, FS_EmptySet

LEMMA AddsMore ==
    ASSUME NEW view, NEW total, NEW n \in Nat, Adds(view, total, n)
    PROVE  \E more : Adds(view, more, n + 1)
<1> DEFINE more == [A \in SUBSET Addr |->
                IF Cardinality(A) <= n THEN total[A]
                ELSE view[NextAdded(A)].balance + total[A \ {NextAdded(A)}]]
<1>1. SUFFICES ASSUME NEW A \in SUBSET Addr, Cardinality(A) <= n + 1
               PROVE  more[A] = IF A = {} THEN 0
                                ELSE view[NextAdded(A)].balance + more[A \ {NextAdded(A)}]
  BY DEF Adds
<1>2. CASE A = {}
  <2>1. Cardinality(A) <= n
    BY <1>2, Subsets
  <2> QED
    BY <2>1, <1>2 DEF Adds
<1>3. CASE A # {}
  <2> DEFINE rest == A \ {NextAdded(A)}
  <2>1. rest \in SUBSET Addr /\ Cardinality(rest) <= n
    BY <1>1, <1>3, AddedIn, Subsets
  <2>2. more[rest] = total[rest]
    BY <2>1
  <2> HIDE DEF rest
  <2>3. more[A] = view[NextAdded(A)].balance + total[rest]
    BY <1>3, <1>1 DEF Adds, rest
  <2> QED
    BY <2>2, <2>3, <1>3 DEF rest
<1> QED
  BY <1>2, <1>3

LEMMA AddsExist ==
    ASSUME NEW view
    PROVE  \A n \in Nat : \E total : Adds(view, total, n)
<1> DEFINE T == {n \in Nat : ~ \E total : Adds(view, total, n)}
<1>1. SUFFICES ASSUME T # {} PROVE FALSE
  OBVIOUS
<1>2. PICK m \in T : \A n \in T : m <= n
  BY <1>1, LeastNatural
<1>3. m # 0
  <2>1. Adds(view, [A \in SUBSET Addr |-> 0], 0)
    BY Subsets DEF Adds
  <2> QED
    BY <2>1
<1>4. m - 1 \in Nat /\ m - 1 \notin T /\ (m - 1) + 1 = m
  BY <1>2, <1>3
<1>5. PICK total : Adds(view, total, m - 1)
  BY <1>4
<1>6. \E more : Adds(view, more, m)
  BY <1>4, <1>5, AddsMore
<1> QED
  BY <1>6

\* The function that the fold defines: the sum of every set of accounts.
Sums(view) ==
    CHOOSE total : total = [A \in SUBSET Addr |->
       IF A = {} THEN 0 ELSE view[NextAdded(A)].balance + total[A \ {NextAdded(A)}]]

\* The sum of all balances of a view.
Total(view) == Sums(view)[Addr]

LEMMA TotalIsFold ==
    ASSUME NEW view PROVE MapThenSumSet(LAMBDA a : view[a].balance, Addr) = Total(view)
  BY Zenon DEF Total, MapThenSumSet, MapThenFoldSet, Sums, NextAdded

(* The sum is what the fold adds up. *)
LEMMA SumsAdd ==
    ASSUME NEW view, NEW A \in SUBSET Addr
    PROVE  Sums(view)[A] = IF A = {} THEN 0
                ELSE view[NextAdded(A)].balance + Sums(view)[A \ {NextAdded(A)}]
<1> DEFINE N == Cardinality(Addr)
           Sum(total) == [B \in SUBSET Addr |->
              IF B = {} THEN 0 ELSE view[NextAdded(B)].balance + total[B \ {NextAdded(B)}]]
<1>1. N \in Nat /\ \A B \in SUBSET Addr : Cardinality(B) <= N
  BY AddrAssumption, FS_Subset, FS_CardinalityType
<1> HIDE DEF N
<1>2. PICK total : Adds(view, total, N)
  BY <1>1, AddsExist
<1> DEFINE sum == [B \in SUBSET Addr |-> total[B]]
<1>3. \A B \in SUBSET Addr : B # {} => sum[B \ {NextAdded(B)}] = total[B \ {NextAdded(B)}]
  OBVIOUS
<1>4. sum = Sum(sum)
  <2>1. \A B \in SUBSET Addr : sum[B] = Sum(sum)[B]
    BY <1>1, <1>2, <1>3 DEF Adds
  <2> QED
    BY <2>1
<1>5. Sums(view) = CHOOSE t : t = Sum(t)
  BY Zenon DEF Sums
<1> HIDE DEF sum, Sum
<1>6. Sums(view) = Sum(Sums(view))
  BY Zenon, <1>4, <1>5
<1> QED
  BY <1>6 DEF Sum

Balances(view) == \A a \in Addr : view[a].balance \in Nat

\* A smallest set of addresses with a property some set has.
LEMMA SmallestSet ==
    ASSUME NEW T \in SUBSET SUBSET Addr, T # {}
    PROVE  \E A \in T : \A B \in T : Cardinality(A) <= Cardinality(B)
<1> DEFINE sizes == {Cardinality(A) : A \in T}
<1>1. sizes \in SUBSET Nat /\ sizes # {}
  BY Subsets
<1>2. PICK m \in sizes : \A n \in sizes : m <= n
  BY <1>1, LeastNatural
<1> QED
  BY <1>2

(* Balances that are natural numbers sum up to one. *)
LEMMA SumsType ==
    ASSUME NEW view, Balances(view), NEW A \in SUBSET Addr
    PROVE  Sums(view)[A] \in Nat
<1> DEFINE T == {B \in SUBSET Addr : Sums(view)[B] \notin Nat}
<1>1. SUFFICES ASSUME T # {} PROVE FALSE
  OBVIOUS
<1>2. T \in SUBSET SUBSET Addr
  OBVIOUS
<1>3. PICK B \in T : \A C \in T : Cardinality(B) <= Cardinality(C)
  BY <1>1, <1>2, SmallestSet
<1>4. B # {}
  BY <1>3, SumsAdd
<1>5. NextAdded(B) \in B
  BY <1>4, AddedIn
<1>6. B \ {NextAdded(B)} \in SUBSET Addr /\ B \ {NextAdded(B)} \notin T
  BY <1>3, <1>5, Subsets
<1>7. Sums(view)[B] = view[NextAdded(B)].balance + Sums(view)[B \ {NextAdded(B)}]
  BY <1>3, <1>4, SumsAdd
<1> QED
  BY <1>3, <1>5, <1>6, <1>7 DEF Balances

(* Any account may be added last. *)
LEMMA SumsSplit ==
    ASSUME NEW view, Balances(view), NEW A \in SUBSET Addr, NEW a \in A
    PROVE  Sums(view)[A] = view[a].balance + Sums(view)[A \ {a}]
<1> DEFINE Splits(B) == \A b \in B : Sums(view)[B] = view[b].balance + Sums(view)[B \ {b}]
           T == {B \in SUBSET Addr : ~Splits(B)}
<1>1. SUFFICES ASSUME T # {} PROVE FALSE
  OBVIOUS
<1>2. T \in SUBSET SUBSET Addr
  OBVIOUS
<1>3. PICK B \in T : \A C \in T : Cardinality(B) <= Cardinality(C)
  BY <1>1, <1>2, SmallestSet
<1>4. PICK b \in B : Sums(view)[B] # view[b].balance + Sums(view)[B \ {b}]
  BY <1>3
<1> DEFINE c == NextAdded(B)
<1>5. c \in B /\ Sums(view)[B] = view[c].balance + Sums(view)[B \ {c}]
  BY <1>3, <1>4, AddedIn, SumsAdd
<1> HIDE DEF c
<1>6. b # c
  BY <1>4, <1>5
<1>7. /\ B \ {c} \in SUBSET Addr /\ Splits(B \ {c})
      /\ B \ {b} \in SUBSET Addr /\ Splits(B \ {b})
  <2>1. /\ Cardinality(B \ {c}) < Cardinality(B)
        /\ Cardinality(B \ {b}) < Cardinality(B)
    BY <1>3, <1>4, <1>5, Subsets
  <2> HIDE DEF Splits
  <2>2. B \ {c} \notin T /\ B \ {b} \notin T
    <3>1. \A C \in T : Cardinality(C) \in Nat
      BY Subsets
    <3>2. Cardinality(B) \in Nat
      BY <1>3, Subsets
    <3> QED
    BY <1>3, <2>1, <3>1, <3>2
  <2> QED
    BY <1>3, <2>2
<1>8. (B \ {c}) \ {b} = (B \ {b}) \ {c}
  OBVIOUS
<1> DEFINE rest == Sums(view)[(B \ {b}) \ {c}]
<1>9. /\ Sums(view)[B \ {c}] = view[b].balance + rest
      /\ Sums(view)[B \ {b}] = view[c].balance + rest
  BY <1>4, <1>5, <1>6, <1>7, <1>8
<1>10. rest \in Nat /\ view[b].balance \in Nat /\ view[c].balance \in Nat
  <2>1. (B \ {b}) \ {c} \in SUBSET Addr
    BY <1>3
  <2> QED
    BY <2>1, <1>3, <1>4, <1>5, SumsType DEF Balances
<1> HIDE DEF rest
<1> QED
  BY <1>4, <1>5, <1>9, <1>10

(* Accounts of at least the balances sum up to at least the sum. *)
LEMMA SumsLess ==
    ASSUME NEW v, Balances(v), NEW w, Balances(w), NEW A \in SUBSET Addr,
           \A a \in A : v[a].balance <= w[a].balance
    PROVE  Sums(v)[A] <= Sums(w)[A]
<1> DEFINE T == {B \in SUBSET A : ~(Sums(v)[B] <= Sums(w)[B])}
<1>1. SUFFICES ASSUME T # {} PROVE FALSE
  OBVIOUS
<1>2. T \in SUBSET SUBSET Addr
  OBVIOUS
<1>3. PICK B \in T : \A C \in T : Cardinality(B) <= Cardinality(C)
  BY <1>1, <1>2, SmallestSet
<1>4. B \in SUBSET Addr /\ B # {}
  BY <1>3, SumsAdd
<1>5. NextAdded(B) \in B
  BY <1>4, AddedIn
<1> DEFINE b == NextAdded(B)
           C == B \ {b}
<1>6. C \in SUBSET Addr /\ C \in SUBSET A /\ C \notin T
  BY <1>3, <1>4, <1>5, Subsets
<1>7. /\ Sums(v)[B] = v[b].balance + Sums(v)[C]
      /\ Sums(w)[B] = w[b].balance + Sums(w)[C]
  BY <1>4, SumsAdd
<1>8. Sums(v)[C] <= Sums(w)[C] /\ v[b].balance <= w[b].balance
  BY <1>3, <1>5, <1>6
<1>9. /\ Sums(v)[C] \in Nat /\ Sums(w)[C] \in Nat
      /\ v[b].balance \in Nat /\ w[b].balance \in Nat
  BY <1>4, <1>5, <1>6, SumsType DEF Balances
<1>10. ~(Sums(v)[B] <= Sums(w)[B])
  BY <1>3
<1> HIDE DEF b, C
<1> QED
  BY <1>7, <1>8, <1>9, <1>10

LEMMA TotalType ==
    ASSUME NEW view, Balances(view)
    PROVE  Total(view) \in Nat
  BY SumsType DEF Total

LEMMA TotalLess ==
    ASSUME NEW v, Balances(v), NEW w, Balances(w),
           \A a \in Addr : v[a].balance <= w[a].balance
    PROVE  Total(v) <= Total(w)
  BY SumsLess DEF Total

LEMMA TotalSame ==
    ASSUME NEW v, Balances(v), NEW w, \A a \in Addr : w[a].balance = v[a].balance
    PROVE  Total(w) = Total(v)
<1>1. Balances(w)
  BY DEF Balances
<1>2. \A a \in Addr : v[a].balance <= w[a].balance /\ w[a].balance <= v[a].balance
  BY DEF Balances
<1>3. Total(v) \in Nat /\ Total(w) \in Nat
  BY <1>1, TotalType
<1>4. Total(v) <= Total(w) /\ Total(w) <= Total(v)
  BY <1>1, <1>2, TotalLess
<1> QED
  BY <1>3, <1>4

(* One changed balance changes the sum by as much. *)
LEMMA TotalChanged ==
    ASSUME NEW v, Balances(v), NEW w, Balances(w), NEW a \in Addr,
           \A b \in Addr : b # a => w[b].balance = v[b].balance
    PROVE  Total(w) = Total(v) - v[a].balance + w[a].balance
<1> DEFINE A == Addr \ {a}
           rv == Sums(v)[A]
           rw == Sums(w)[A]
<1>1. A \in SUBSET Addr
  OBVIOUS
<1>2. \A b \in A : v[b].balance <= w[b].balance /\ w[b].balance <= v[b].balance
  BY DEF Balances
<1>3. /\ rv \in Nat /\ rw \in Nat
      /\ v[a].balance \in Nat /\ w[a].balance \in Nat
  BY <1>1, SumsType DEF Balances
<1>4. rv <= rw /\ rw <= rv
  BY <1>1, <1>2, SumsLess
<1>5. /\ Total(v) = v[a].balance + rv
      /\ Total(w) = w[a].balance + rw
  BY SumsSplit DEF Total
<1> HIDE DEF rv, rw
<1> QED
  BY <1>3, <1>4, <1>5

-----------------------------------------------------------------------------
(* Folds over a sequence: FoldLeft() takes the elements off from the last   *)
(* index on; f is its operation as a function on states St and indices.     *)

LEMMA LastIndex ==
    ASSUME NEW N \in Nat, NEW D \in SUBSET (1..N), D # {}
    PROVE  Max(D) \in D /\ \A i \in D : i <= Max(D)
<1> DEFINE T == {n \in Nat : \A i \in D : i <= n}
<1>1. N \in T
  OBVIOUS
<1>2. PICK m \in T : \A n \in T : m <= n
  BY <1>1, LeastNatural
<1>3. CASE m \in D
  BY <1>2, <1>3 DEF Max
<1>4. CASE m \notin D
  <2>1. \A i \in D : i <= m /\ i # m /\ i \in Nat /\ i > 0
    BY <1>2, <1>4
  <2>2. m \in Nat /\ m > 0
    <3>1. PICK i \in D : TRUE
      OBVIOUS
    <3> QED
      BY <2>1, <3>1
  <2>3. m - 1 \in T
    BY <2>1, <2>2
  <2> QED
    BY <1>2, <2>2, <2>3
<1> QED
  BY <1>3, <1>4

\* it is the fold by f of all sets of at most n indices up to N.
FoldsUpTo(f, base, N, it, n) ==
    \A D \in SUBSET (1..N) : Cardinality(D) <= n =>
       it[D] = IF D = {} THEN base ELSE f[<<it[D \ {Max(D)}], Max(D)>>]

LEMMA IndexSets ==
    ASSUME NEW N \in Nat, NEW D \in SUBSET (1..N)
    PROVE  /\ IsFiniteSet(D) /\ Cardinality(D) \in Nat /\ Cardinality(D) <= N
           /\ Cardinality(D) = 0 <=> D = {}
           /\ \A i \in D : Cardinality(D \ {i}) = Cardinality(D) - 1
<1>1. IsFiniteSet(1..N) /\ Cardinality(1..N) = N
  BY FS_Interval
<1>2. IsFiniteSet(D) /\ Cardinality(D) <= N
  BY <1>1, FS_Subset
<1> QED
  BY <1>2, FS_CardinalityType, FS_RemoveElement, FS_EmptySet

LEMMA FoldsMore ==
    ASSUME NEW f, NEW base, NEW N \in Nat, NEW it, NEW n \in Nat,
           FoldsUpTo(f, base, N, it, n)
    PROVE  \E more : FoldsUpTo(f, base, N, more, n + 1)
<1> DEFINE more == [D \in SUBSET (1..N) |->
                IF Cardinality(D) <= n THEN it[D]
                ELSE f[<<it[D \ {Max(D)}], Max(D)>>]]
<1>1. SUFFICES ASSUME NEW D \in SUBSET (1..N), Cardinality(D) <= n + 1
               PROVE  more[D] = IF D = {} THEN base ELSE f[<<more[D \ {Max(D)}], Max(D)>>]
  BY DEF FoldsUpTo
<1>2. CASE D = {}
  <2>1. Cardinality(D) <= n
    BY <1>2, IndexSets
  <2> QED
    BY <2>1, <1>2 DEF FoldsUpTo
<1>3. CASE D # {}
  <2> DEFINE rest == D \ {Max(D)}
  <2>1. rest \in SUBSET (1..N) /\ Cardinality(rest) <= n
    <3>1. Max(D) \in D
      BY <1>3, LastIndex
    <3>2. Cardinality(rest) = Cardinality(D) - 1 /\ Cardinality(D) \in Nat
      BY <3>1, IndexSets
    <3>3. rest \in SUBSET (1..N)
      OBVIOUS
    <3> HIDE DEF rest
    <3> QED
      BY <1>1, <3>2, <3>3
  <2>2. more[rest] = it[rest]
    BY <2>1
  <2> HIDE DEF rest
  <2>3. more[D] = f[<<it[rest], Max(D)>>]
    BY <1>3, <1>1 DEF FoldsUpTo, rest
  <2> QED
    BY <2>2, <2>3, <1>3 DEF rest
<1> QED
  BY <1>2, <1>3

IsFold(it, f, base, N) ==
    it = [D \in SUBSET (1..N) |->
            IF D = {} THEN base ELSE f[<<it[D \ {Max(D)}], Max(D)>>]]

(* A fold by a function exists: by a least number of indices for which it   *)
(* would not.                                                              *)
LEMMA FoldExists ==
    ASSUME NEW f, NEW base, NEW N \in Nat
    PROVE  \E it : IsFold(it, f, base, N)
<1> DEFINE T == {n \in Nat : ~ \E it : FoldsUpTo(f, base, N, it, n)}
<1>1. T = {}
  <2> SUFFICES ASSUME T # {} PROVE FALSE
    OBVIOUS
  <2>2. PICK m \in T : \A n \in T : m <= n
    BY LeastNatural
  <2>3. m # 0
    <3>1. \A D \in SUBSET (1..N) : Cardinality(D) <= 0 => D = {}
      BY IndexSets
    <3>2. FoldsUpTo(f, base, N, [D \in SUBSET (1..N) |-> base], 0)
      BY <3>1 DEF FoldsUpTo
    <3> QED
      BY <3>2
  <2>4. m - 1 \in Nat /\ m - 1 \notin T /\ (m - 1) + 1 = m
    BY <2>2, <2>3
  <2>5. PICK it : FoldsUpTo(f, base, N, it, m - 1)
    BY <2>4
  <2>6. \E more : FoldsUpTo(f, base, N, more, m)
    BY <2>4, <2>5, FoldsMore
  <2> QED
    BY <2>6
<1>2. PICK it : FoldsUpTo(f, base, N, it, N)
  BY <1>1
<1> DEFINE full == [D \in SUBSET (1..N) |-> it[D]]
<1>3. \A D \in SUBSET (1..N) :
         full[D] = IF D = {} THEN base ELSE f[<<full[D \ {Max(D)}], Max(D)>>]
  BY <1>2, IndexSets DEF FoldsUpTo
<1>4. full = [D \in SUBSET (1..N) |->
                IF D = {} THEN base ELSE f[<<full[D \ {Max(D)}], Max(D)>>]]
  BY <1>3
<1> QED
  BY <1>4 DEF IsFold

(* What the last index adds to the indices before it.                      *)
LEMMA Indices ==
    ASSUME NEW N \in Nat, NEW i \in 1..N
    PROVE  1..i \in SUBSET (1..N) /\ 1..i # {} /\ Max(1..i) = i /\ (1..i) \ {i} = 1..(i - 1)
<1>1. 1..i \in SUBSET (1..N) /\ i \in 1..i /\ i \in Nat /\ (1..i) \ {i} = 1..(i - 1)
  OBVIOUS
<1>2. Max(1..i) \in 1..i /\ \A j \in 1..i : j <= Max(1..i)
  BY <1>1, LastIndex
<1> QED
  BY <1>1, <1>2

(* What all folds of sets of indices have in common.                       *)
LEMMA FoldedIn ==
    ASSUME NEW St, NEW N \in Nat, NEW it, it[{}] \in St,
           \A D \in SUBSET (1..N) : D # {} /\ it[D \ {Max(D)}] \in St => it[D] \in St
    PROVE  \A D \in SUBSET (1..N) : it[D] \in St
<1> DEFINE bad == {D \in SUBSET (1..N) : it[D] \notin St}
           T   == {Cardinality(D) : D \in bad}
<1>1. SUFFICES ASSUME T # {} PROVE FALSE
  OBVIOUS
<1>2. T \in SUBSET Nat
  <2>1. \A D \in SUBSET (1..N) : Cardinality(D) \in Nat
    BY IndexSets
  <2>2. bad \subseteq SUBSET (1..N)
    OBVIOUS
  <2> HIDE DEF bad
  <2> QED
    BY <2>1, <2>2
<1>3. PICK m \in T : \A n \in T : m <= n
  BY <1>1, <1>2, LeastNatural
<1>4. PICK D \in bad : Cardinality(D) = m
  BY <1>3
<1>5. D # {} /\ Max(D) \in D
  BY <1>4, LastIndex
<1>6. Cardinality(D \ {Max(D)}) = m - 1 /\ m \in Nat
  BY <1>2, <1>4, <1>5, IndexSets
<1>7. D \ {Max(D)} \notin bad
  BY <1>3, <1>6
<1>8. it[D \ {Max(D)}] \in St
  BY <1>4, <1>7
<1> QED
  BY <1>4, <1>5, <1>8

\* it folds all sets of indices up to N by f, within St.
FoldsWithin(it, f, base, St, N) ==
    /\ it = [D \in SUBSET (1..N) |-> it[D]]
    /\ it[{}] = base
    /\ \A D \in SUBSET (1..N) :
          D # {} => /\ it[D \ {Max(D)}] \in St /\ Max(D) \in 1..N
                    /\ it[D] = f[<<it[D \ {Max(D)}], Max(D)>>]

LEMMA FoldWithin ==
    ASSUME NEW St, NEW base \in St, NEW N \in Nat, NEW f \in [St \X (1..N) -> St]
    PROVE  \E it : FoldsWithin(it, f, base, St, N)
<1>1. PICK it : IsFold(it, f, base, N)
  BY FoldExists
<1>2. ASSUME NEW D \in SUBSET (1..N), D # {}
      PROVE  Max(D) \in 1..N /\ it[D] = f[<<it[D \ {Max(D)}], Max(D)>>]
  BY <1>1, <1>2, LastIndex DEF IsFold
<1>3. it[{}] = base /\ it = [D \in SUBSET (1..N) |-> it[D]]
  BY <1>1 DEF IsFold
<1>4. \A D \in SUBSET (1..N) : D # {} /\ it[D \ {Max(D)}] \in St => it[D] \in St
  BY <1>2
<1>5. \A D \in SUBSET (1..N) : it[D] \in St
  BY <1>3, <1>4, FoldedIn
<1>6. \A D \in SUBSET (1..N) : D \ {Max(D)} \in SUBSET (1..N)
  OBVIOUS
<1> QED
  BY <1>2, <1>3, <1>5, <1>6 DEF FoldsWithin

\* The results of the fold it after each index.
FoldLabels(lab, it, St, N) ==
    /\ \A i \in 0..N : lab[i] \in St
    /\ lab[0] = it[{}] /\ lab[N] = it[1..N]
    /\ \A i \in 1..N : /\ 1..i \in SUBSET (1..N) /\ 1..i # {} /\ Max(1..i) = i
                       /\ lab[i] = it[1..i] /\ lab[i - 1] = it[(1..i) \ {i}]

LEMMA Labelled ==
    ASSUME NEW St, NEW N \in Nat, NEW it, it[{}] \in St,
           \A D \in SUBSET (1..N) : D # {} /\ it[D \ {Max(D)}] \in St => it[D] \in St
    PROVE  \E lab : FoldLabels(lab, it, St, N)
<1> DEFINE lab == [i \in 0..N |-> it[1..i]]
<1>1. \A D \in SUBSET (1..N) : it[D] \in St
  BY FoldedIn
<1>2. 1..0 = {} /\ \A i \in 0..N : lab[i] = it[1..i] /\ 1..i \in SUBSET (1..N)
  OBVIOUS
<1>3. ASSUME NEW i \in 1..N
      PROVE  i \in 0..N /\ i - 1 \in 0..N
  OBVIOUS
<1>4. 0 \in 0..N /\ N \in 0..N
  OBVIOUS
<1> HIDE DEF lab
<1>5. FoldLabels(lab, it, St, N)
  BY <1>1, <1>2, <1>3, <1>4, Indices DEF FoldLabels
<1> QED
  BY <1>5

-----------------------------------------------------------------------------
(* The folds of a block.  Each goes through labels, the results after each  *)
(* element, and stays in any set St that its operation does not leave.     *)

StartFold(it, base, xs) ==
    it = [D \in SUBSET (DOMAIN xs) |->
            IF D = {} THEN base ELSE CallAtStart(it[D \ {Max(D)}], xs[Max(D)])]

StartResult(base, xs) == FoldLeft(CallAtStart, base, xs)

StartLabels(lab, base, xs, St, N) ==
    /\ lab[0] = base /\ \A i \in 0..N : lab[i] \in St
    /\ \A i \in 1..N : lab[i] = CallAtStart(lab[i - 1], xs[i])
    /\ StartResult(base, xs) = lab[N]

LEMMA CallsAtStart ==
    ASSUME NEW St, NEW base \in St, NEW N \in Nat, NEW xs, DOMAIN xs = 1..N,
           \A s \in St, i \in 1..N : CallAtStart(s, xs[i]) \in St
    PROVE  \E lab : StartLabels(lab, base, xs, St, N)
<1> DEFINE f  == [p \in St \X (1..N) |-> CallAtStart(p[1], xs[p[2]])]
           it == CHOOSE g : StartFold(g, base, xs)
<1>1. StartResult(base, xs) = it[1..N]
  BY Zenon DEF StartResult, FoldLeft, MapThenFoldSet, StartFold
<1>2. f \in [St \X (1..N) -> St]
  OBVIOUS
<1>3. PICK g : FoldsWithin(g, f, base, St, N)
  BY <1>2, FoldWithin
<1>4. StartFold(g, base, xs)
  <2>1. \A D \in SUBSET (1..N) : D # {} => g[D] = CallAtStart(g[D \ {Max(D)}], xs[Max(D)])
    BY <1>3 DEF FoldsWithin
  <2> HIDE DEF f
  <2> QED
    BY <1>3, <2>1 DEF FoldsWithin, StartFold
<1>5. StartFold(it, base, xs)
  BY Zenon, <1>4
<1> HIDE DEF f, it
<1>6. /\ it[{}] = base
      /\ \A D \in SUBSET (1..N) :
            D # {} => it[D] = CallAtStart(it[D \ {Max(D)}], xs[Max(D)]) /\ Max(D) \in 1..N
  BY <1>5, LastIndex DEF StartFold
<1>7. PICK lab : FoldLabels(lab, it, St, N)
  BY <1>6, Labelled
<1>8. ASSUME NEW i \in 1..N PROVE lab[i] = CallAtStart(lab[i - 1], xs[i])
  <2>1. /\ 1..i \in SUBSET (1..N) /\ 1..i # {} /\ Max(1..i) = i
        /\ lab[i] = it[1..i] /\ lab[i - 1] = it[(1..i) \ {i}]
    BY <1>7 DEF FoldLabels
  <2>2. it[1..i] = CallAtStart(it[(1..i) \ {Max(1..i)}], xs[Max(1..i)])
    BY <1>6, <2>1
  <2> QED
    BY <2>1, <2>2
<1> QED
  BY <1>1, <1>6, <1>7, <1>8 DEF FoldLabels, StartLabels

EndFold(it, base, xs) ==
    it = [D \in SUBSET (DOMAIN xs) |->
            IF D = {} THEN base ELSE CallAtEnd(it[D \ {Max(D)}], xs[Max(D)])]

EndResult(base, xs) == FoldLeft(CallAtEnd, base, xs)

EndLabels(lab, base, xs, St, N) ==
    /\ lab[0] = base /\ \A i \in 0..N : lab[i] \in St
    /\ \A i \in 1..N : lab[i] = CallAtEnd(lab[i - 1], xs[i])
    /\ EndResult(base, xs) = lab[N]

LEMMA CallsAtEnd ==
    ASSUME NEW St, NEW base \in St, NEW N \in Nat, NEW xs, DOMAIN xs = 1..N,
           \A s \in St, i \in 1..N : CallAtEnd(s, xs[i]) \in St
    PROVE  \E lab : EndLabels(lab, base, xs, St, N)
<1> DEFINE f  == [p \in St \X (1..N) |-> CallAtEnd(p[1], xs[p[2]])]
           it == CHOOSE g : EndFold(g, base, xs)
<1>1. EndResult(base, xs) = it[1..N]
  BY Zenon DEF EndResult, FoldLeft, MapThenFoldSet, EndFold
<1>2. f \in [St \X (1..N) -> St]
  OBVIOUS
<1>3. PICK g : FoldsWithin(g, f, base, St, N)
  BY <1>2, FoldWithin
<1>4. EndFold(g, base, xs)
  <2>1. \A D \in SUBSET (1..N) : D # {} => g[D] = CallAtEnd(g[D \ {Max(D)}], xs[Max(D)])
    BY <1>3 DEF FoldsWithin
  <2> HIDE DEF f
  <2> QED
    BY <1>3, <2>1 DEF FoldsWithin, EndFold
<1>5. EndFold(it, base, xs)
  BY Zenon, <1>4
<1> HIDE DEF f, it
<1>6. /\ it[{}] = base
      /\ \A D \in SUBSET (1..N) :
            D # {} => it[D] = CallAtEnd(it[D \ {Max(D)}], xs[Max(D)]) /\ Max(D) \in 1..N
  BY <1>5, LastIndex DEF EndFold
<1>7. PICK lab : FoldLabels(lab, it, St, N)
  BY <1>6, Labelled
<1>8. ASSUME NEW i \in 1..N PROVE lab[i] = CallAtEnd(lab[i - 1], xs[i])
  <2>1. /\ 1..i \in SUBSET (1..N) /\ 1..i # {} /\ Max(1..i) = i
        /\ lab[i] = it[1..i] /\ lab[i - 1] = it[(1..i) \ {i}]
    BY <1>7 DEF FoldLabels
  <2>2. it[1..i] = CallAtEnd(it[(1..i) \ {Max(1..i)}], xs[Max(1..i)])
    BY <1>6, <2>1
  <2> QED
    BY <2>1, <2>2
<1> QED
  BY <1>1, <1>6, <1>7, <1>8 DEF FoldLabels, EndLabels

AuthorizeFold(it, base, xs) ==
    it = [D \in SUBSET (DOMAIN xs) |->
            IF D = {} THEN base ELSE Authorize(it[D \ {Max(D)}], xs[Max(D)])]

AuthorizeResult(base, xs) == FoldLeft(Authorize, base, xs)

AuthorizeLabels(lab, base, xs, St, N) ==
    /\ lab[0] = base /\ \A i \in 0..N : lab[i] \in St
    /\ \A i \in 1..N : lab[i] = Authorize(lab[i - 1], xs[i])
    /\ AuthorizeResult(base, xs) = lab[N]

LEMMA Authorizations ==
    ASSUME NEW St, NEW base \in St, NEW N \in Nat, NEW xs, DOMAIN xs = 1..N,
           \A s \in St, i \in 1..N : Authorize(s, xs[i]) \in St
    PROVE  \E lab : AuthorizeLabels(lab, base, xs, St, N)
<1> DEFINE f  == [p \in St \X (1..N) |-> Authorize(p[1], xs[p[2]])]
           it == CHOOSE g : AuthorizeFold(g, base, xs)
<1>1. AuthorizeResult(base, xs) = it[1..N]
  BY Zenon DEF AuthorizeResult, FoldLeft, MapThenFoldSet, AuthorizeFold
<1>2. f \in [St \X (1..N) -> St]
  OBVIOUS
<1>3. PICK g : FoldsWithin(g, f, base, St, N)
  BY <1>2, FoldWithin
<1>4. AuthorizeFold(g, base, xs)
  <2>1. \A D \in SUBSET (1..N) : D # {} => g[D] = Authorize(g[D \ {Max(D)}], xs[Max(D)])
    BY <1>3 DEF FoldsWithin
  <2> HIDE DEF f
  <2> QED
    BY <1>3, <2>1 DEF FoldsWithin, AuthorizeFold
<1>5. AuthorizeFold(it, base, xs)
  BY Zenon, <1>4
<1> HIDE DEF f, it
<1>6. /\ it[{}] = base
      /\ \A D \in SUBSET (1..N) :
            D # {} => it[D] = Authorize(it[D \ {Max(D)}], xs[Max(D)]) /\ Max(D) \in 1..N
  BY <1>5, LastIndex DEF AuthorizeFold
<1>7. PICK lab : FoldLabels(lab, it, St, N)
  BY <1>6, Labelled
<1>8. ASSUME NEW i \in 1..N PROVE lab[i] = Authorize(lab[i - 1], xs[i])
  <2>1. /\ 1..i \in SUBSET (1..N) /\ 1..i # {} /\ Max(1..i) = i
        /\ lab[i] = it[1..i] /\ lab[i - 1] = it[(1..i) \ {i}]
    BY <1>7 DEF FoldLabels
  <2>2. it[1..i] = Authorize(it[(1..i) \ {Max(1..i)}], xs[Max(1..i)])
    BY <1>6, <2>1
  <2> QED
    BY <2>1, <2>2
<1> QED
  BY <1>1, <1>6, <1>7, <1>8 DEF FoldLabels, AuthorizeLabels

RevertFold(it, base, xs) ==
    it = [D \in SUBSET (DOMAIN xs) |->
            IF D = {} THEN base ELSE RevertAuthorization(it[D \ {Max(D)}], xs[Max(D)])]

RevertResult(base, xs) == FoldLeft(RevertAuthorization, base, xs)

RevertLabels(lab, base, xs, St, N) ==
    /\ lab[0] = base /\ \A i \in 0..N : lab[i] \in St
    /\ \A i \in 1..N : lab[i] = RevertAuthorization(lab[i - 1], xs[i])
    /\ RevertResult(base, xs) = lab[N]

LEMMA Reverts ==
    ASSUME NEW St, NEW base \in St, NEW N \in Nat, NEW xs, DOMAIN xs = 1..N,
           \A s \in St, i \in 1..N : RevertAuthorization(s, xs[i]) \in St
    PROVE  \E lab : RevertLabels(lab, base, xs, St, N)
<1> DEFINE f  == [p \in St \X (1..N) |-> RevertAuthorization(p[1], xs[p[2]])]
           it == CHOOSE g : RevertFold(g, base, xs)
<1>1. RevertResult(base, xs) = it[1..N]
  BY Zenon DEF RevertResult, FoldLeft, MapThenFoldSet, RevertFold
<1>2. f \in [St \X (1..N) -> St]
  OBVIOUS
<1>3. PICK g : FoldsWithin(g, f, base, St, N)
  BY <1>2, FoldWithin
<1>4. RevertFold(g, base, xs)
  <2>1. \A D \in SUBSET (1..N) : D # {} => g[D] = RevertAuthorization(g[D \ {Max(D)}], xs[Max(D)])
    BY <1>3 DEF FoldsWithin
  <2> HIDE DEF f
  <2> QED
    BY <1>3, <2>1 DEF FoldsWithin, RevertFold
<1>5. RevertFold(it, base, xs)
  BY Zenon, <1>4
<1> HIDE DEF f, it
<1>6. /\ it[{}] = base
      /\ \A D \in SUBSET (1..N) :
            D # {} => it[D] = RevertAuthorization(it[D \ {Max(D)}], xs[Max(D)]) /\ Max(D) \in 1..N
  BY <1>5, LastIndex DEF RevertFold
<1>7. PICK lab : FoldLabels(lab, it, St, N)
  BY <1>6, Labelled
<1>8. ASSUME NEW i \in 1..N PROVE lab[i] = RevertAuthorization(lab[i - 1], xs[i])
  <2>1. /\ 1..i \in SUBSET (1..N) /\ 1..i # {} /\ Max(1..i) = i
        /\ lab[i] = it[1..i] /\ lab[i - 1] = it[(1..i) \ {i}]
    BY <1>7 DEF FoldLabels
  <2>2. it[1..i] = RevertAuthorization(it[(1..i) \ {Max(1..i)}], xs[Max(1..i)])
    BY <1>6, <2>1
  <2> QED
    BY <2>1, <2>2
<1> QED
  BY <1>1, <1>6, <1>7, <1>8 DEF FoldLabels, RevertLabels

CreditFold(it, base, xs) ==
    it = [D \in SUBSET (DOMAIN xs) |->
            IF D = {} THEN base ELSE Credit(it[D \ {Max(D)}], xs[Max(D)].recipient, xs[Max(D)].amount)]

CreditResult(base, xs) == FoldLeft(LAMBDA s, w : Credit(s, w.recipient, w.amount), base, xs)

CreditLabels(lab, base, xs, St, N) ==
    /\ lab[0] = base /\ \A i \in 0..N : lab[i] \in St
    /\ \A i \in 1..N : lab[i] = Credit(lab[i - 1], xs[i].recipient, xs[i].amount)
    /\ CreditResult(base, xs) = lab[N]

LEMMA Credits ==
    ASSUME NEW St, NEW base \in St, NEW N \in Nat, NEW xs, DOMAIN xs = 1..N,
           \A s \in St, i \in 1..N : Credit(s, xs[i].recipient, xs[i].amount) \in St
    PROVE  \E lab : CreditLabels(lab, base, xs, St, N)
<1> DEFINE f  == [p \in St \X (1..N) |-> Credit(p[1], xs[p[2]].recipient, xs[p[2]].amount)]
           it == CHOOSE g : CreditFold(g, base, xs)
<1>1. CreditResult(base, xs) = it[1..N]
  BY Zenon DEF CreditResult, FoldLeft, MapThenFoldSet, CreditFold
<1>2. f \in [St \X (1..N) -> St]
  OBVIOUS
<1>3. PICK g : FoldsWithin(g, f, base, St, N)
  BY <1>2, FoldWithin
<1>4. CreditFold(g, base, xs)
  <2>1. \A D \in SUBSET (1..N) : D # {} => g[D] = Credit(g[D \ {Max(D)}], xs[Max(D)].recipient, xs[Max(D)].amount)
    BY <1>3 DEF FoldsWithin
  <2> HIDE DEF f
  <2> QED
    BY <1>3, <2>1 DEF FoldsWithin, CreditFold
<1>5. CreditFold(it, base, xs)
  BY Zenon, <1>4
<1> HIDE DEF f, it
<1>6. /\ it[{}] = base
      /\ \A D \in SUBSET (1..N) :
            D # {} => it[D] = Credit(it[D \ {Max(D)}], xs[Max(D)].recipient, xs[Max(D)].amount) /\ Max(D) \in 1..N
  BY <1>5, LastIndex DEF CreditFold
<1>7. PICK lab : FoldLabels(lab, it, St, N)
  BY <1>6, Labelled
<1>8. ASSUME NEW i \in 1..N PROVE lab[i] = Credit(lab[i - 1], xs[i].recipient, xs[i].amount)
  <2>1. /\ 1..i \in SUBSET (1..N) /\ 1..i # {} /\ Max(1..i) = i
        /\ lab[i] = it[1..i] /\ lab[i - 1] = it[(1..i) \ {i}]
    BY <1>7 DEF FoldLabels
  <2>2. it[1..i] = Credit(it[(1..i) \ {Max(1..i)}], xs[Max(1..i)].recipient, xs[Max(1..i)].amount)
    BY <1>6, <2>1
  <2> QED
    BY <2>1, <2>2
<1> QED
  BY <1>1, <1>6, <1>7, <1>8 DEF FoldLabels, CreditLabels

AmountFold(it, base, xs) ==
    it = [D \in SUBSET (DOMAIN xs) |->
            IF D = {} THEN base ELSE it[D \ {Max(D)}] + xs[Max(D)].amount]

AmountResult(base, xs) == FoldLeft(LAMBDA n, w : n + w.amount, base, xs)

AmountLabels(lab, base, xs, St, N) ==
    /\ lab[0] = base /\ \A i \in 0..N : lab[i] \in St
    /\ \A i \in 1..N : lab[i] = lab[i - 1] + xs[i].amount
    /\ AmountResult(base, xs) = lab[N]

LEMMA Amounts ==
    ASSUME NEW St, NEW base \in St, NEW N \in Nat, NEW xs, DOMAIN xs = 1..N,
           \A s \in St, i \in 1..N : s + xs[i].amount \in St
    PROVE  \E lab : AmountLabels(lab, base, xs, St, N)
<1> DEFINE f  == [p \in St \X (1..N) |-> p[1] + xs[p[2]].amount]
           it == CHOOSE g : AmountFold(g, base, xs)
<1>1. AmountResult(base, xs) = it[1..N]
  BY Zenon DEF AmountResult, FoldLeft, MapThenFoldSet, AmountFold
<1>2. f \in [St \X (1..N) -> St]
  OBVIOUS
<1>3. PICK g : FoldsWithin(g, f, base, St, N)
  BY <1>2, FoldWithin
<1>4. AmountFold(g, base, xs)
  <2>1. \A D \in SUBSET (1..N) : D # {} => g[D] = g[D \ {Max(D)}] + xs[Max(D)].amount
    BY <1>3 DEF FoldsWithin
  <2> HIDE DEF f
  <2> QED
    BY <1>3, <2>1 DEF FoldsWithin, AmountFold
<1>5. AmountFold(it, base, xs)
  BY Zenon, <1>4
<1> HIDE DEF f, it
<1>6. /\ it[{}] = base
      /\ \A D \in SUBSET (1..N) :
            D # {} => it[D] = it[D \ {Max(D)}] + xs[Max(D)].amount /\ Max(D) \in 1..N
  BY <1>5, LastIndex DEF AmountFold
<1>7. PICK lab : FoldLabels(lab, it, St, N)
  BY <1>6, Labelled
<1>8. ASSUME NEW i \in 1..N PROVE lab[i] = lab[i - 1] + xs[i].amount
  <2>1. /\ 1..i \in SUBSET (1..N) /\ 1..i # {} /\ Max(1..i) = i
        /\ lab[i] = it[1..i] /\ lab[i - 1] = it[(1..i) \ {i}]
    BY <1>7 DEF FoldLabels
  <2>2. it[1..i] = it[(1..i) \ {Max(1..i)}] + xs[Max(1..i)].amount
    BY <1>6, <2>1
  <2> QED
    BY <2>1, <2>2
<1> QED
  BY <1>1, <1>6, <1>7, <1>8 DEF FoldLabels, AmountLabels

-----------------------------------------------------------------------------
(* What the methods of State make of the accounts, from Amsterdam.          *)

\* An account without nonce and code: storage and changes of the code come
\* only with one of them.
Blank(acc) == acc.nonce = 0 /\ acc.code_hash = NoCode

\* What is missing holds nothing, and an account that may be deleted as an
\* empty one has no storage.
Sound(v) ==
    /\ v \in ViewAccount
    /\ ~v.exists => v = NoAccount
    /\ v.nonce = 0 /\ v.code = NoCode /\ v.balance = 0 => \A k \in Key : v.storage[k] = 0

SoundViews(view) == view \in [Addr -> ViewAccount] /\ \A a \in Addr : Sound(view[a])

SlotFollows(slot, x) ==
    IF slot.loaded THEN slot.original = x ELSE slot.current = slot.original

\* Account acc is the account v of the view with what a transaction may do
\* to it: its nonce does not decrease, nor does the balance of a blank one;
\* it is destructed only if created in the transaction, and created only
\* where the view has no nonce and no storage.
Follows(acc, v) ==
    /\ acc \in Account
    /\ \A k \in Key : SlotFollows(acc.storage[k], v.storage[k])
    /\ ~acc.loaded => /\ acc.nonce = 0 /\ acc.balance = 0 /\ acc.code_hash = NoCode
                      /\ acc.code = NoCode /\ ~acc.nonexistent /\ ~acc.destructed
                      /\ ~acc.erase_if_empty /\ ~acc.just_created
                      /\ ~acc.code_changed
    /\ acc.loaded => /\ acc.nonce >= v.nonce
                     /\ ~acc.code_changed => acc.code_hash = v.code
                     /\ Blank(acc) => acc.balance >= v.balance
                     /\ ~acc.has_initial_storage => \A k \in Key : v.storage[k] = 0
    /\ acc.code_changed => acc.nonce > 0
    /\ acc.nonexistent => /\ ~v.exists /\ acc.nonce = 0 /\ acc.balance = 0
                          /\ acc.code_hash = NoCode /\ ~acc.erase_if_empty
    /\ acc.just_created => /\ v.nonce = 0 /\ v.code = NoCode /\ acc.nonce > 0
                           /\ \A k \in Key : v.storage[k] = 0
    /\ acc.destructed => acc.just_created
    /\ Blank(acc) => \A k \in Key : acc.storage[k].current = acc.storage[k].original

\* The state works on the view.
Exact(s, view) ==
    /\ s \in StateType /\ s.initial = view
    /\ \A a \in Addr : Follows(s.modified[a], view[a])

\* A blank account has no code to run.
Runnable(s) == \A a \in Addr : s.modified[a].code # NoCode => ~Blank(s.modified[a])

Live(acc) == acc.loaded /\ ~acc.nonexistent

\* What a transaction does not take back: accounts that it has found or
\* created stay, and so do their nonces.
KeepsAccount(acc, acc2) ==
    /\ Live(acc) => Live(acc2)
    /\ acc.loaded => acc2.loaded
    /\ acc.nonce > 0 => acc2.nonce > 0
    /\ ~Blank(acc) => ~Blank(acc2)

Keeps(s, t) == \A a \in Addr : KeepsAccount(s.modified[a], t.modified[a])

\* The balances that the state holds.
Held(acc, v) == [balance |-> IF acc.loaded THEN acc.balance ELSE v.balance]
Holds(s) == [a \in Addr |-> Held(s.modified[a], s.initial[a])]

LEMMA SlotType ==
    ASSUME NEW slot \in StorageValue
    PROVE  slot.current \in Val /\ slot.original \in Val /\ slot.loaded \in BOOLEAN
  BY DEF StorageValue

LEMMA NewAccountType == NewAccount \in Account
<1>1. NewSlot \in StorageValue
  BY ValAssumption DEF NewSlot, StorageValue
<1> QED
  BY <1>1, ValAssumption DEF NewAccount, Account, Codes

LEMMA NewFollows ==
    ASSUME NEW v \in ViewAccount PROVE Follows(NewAccount, v)
  BY NewAccountType DEF Blank, Follows, SlotFollows, NewAccount, NewSlot

LEMMA NewExact ==
    ASSUME NEW view, SoundViews(view)
    PROVE  /\ Exact(NewState(view), view) /\ Runnable(NewState(view))
           /\ Holds(NewState(view)) = [a \in Addr |-> [balance |-> view[a].balance]]
<1>1. view \in [Addr -> ViewAccount]
  BY DEF SoundViews
<1>2. NewState(view) \in StateType
  <2>1. NewAccount \in Account
    BY NewAccountType
  <2>2. << >> \in Seq(JournalEntry)
    BY EmptySeq
  <2> QED
    BY <1>1, <2>1, <2>2 DEF NewState, StateType
<1>3. /\ NewState(view).initial = view
      /\ \A a \in Addr : NewState(view).modified[a] = NewAccount
  BY DEF NewState
<1>4. Exact(NewState(view), view)
  BY <1>1, <1>2, <1>3, NewFollows DEF Exact
<1>5. ~NewAccount.loaded /\ NewAccount.code = NoCode
  BY DEF NewAccount
<1> QED
  BY <1>3, <1>4, <1>5 DEF Runnable, Holds, Held

-----------------------------------------------------------------------------
(* Writing an account. *)

Put(s, a, acc, j) ==
    [initial |-> s.initial, modified |-> [s.modified EXCEPT ![a] = acc], journal |-> j]

LEMMA ExactFields ==
    ASSUME NEW s, NEW view, Exact(s, view)
    PROVE  /\ s = [initial |-> s.initial, modified |-> s.modified, journal |-> s.journal]
           /\ s.initial = view /\ view \in [Addr -> ViewAccount]
           /\ s.modified \in [Addr -> Account] /\ s.journal \in Seq(JournalEntry)
           /\ \A a \in Addr : s.modified[a] \in Account /\ Follows(s.modified[a], view[a])
  BY DEF Exact, StateType

\* t is s with account a written.
Wrote(s, t, a, acc) ==
    t.journal \in Seq(JournalEntry) /\ t = Put(s, a, acc, t.journal)

LEMMA WroteExact ==
    ASSUME NEW s, NEW view, Exact(s, view), NEW a \in Addr,
           NEW acc, Follows(acc, view[a]), NEW t, Wrote(s, t, a, acc)
    PROVE  /\ Exact(t, view)
           /\ t.modified = [s.modified EXCEPT ![a] = acc]
           /\ Runnable(s) /\ (acc.code # NoCode => ~Blank(acc)) => Runnable(t)
           /\ KeepsAccount(s.modified[a], acc) => Keeps(s, t)
           /\ Holds(t) = [Holds(s) EXCEPT ![a] = Held(acc, view[a])]
<1>1. /\ s.initial = view /\ view \in [Addr -> ViewAccount]
      /\ s.modified \in [Addr -> Account]
      /\ \A b \in Addr : Follows(s.modified[b], view[b])
  BY ExactFields
<1>2. acc \in Account
  BY DEF Blank, Follows
<1>3. /\ t.initial = view /\ t.modified = [s.modified EXCEPT ![a] = acc]
      /\ t.journal \in Seq(JournalEntry)
      /\ t = [initial |-> t.initial, modified |-> t.modified, journal |-> t.journal]
  BY <1>1 DEF Wrote, Put
<1>4. t.modified \in [Addr -> Account]
  BY <1>1, <1>2, <1>3
<1>5. t \in StateType
  BY <1>1, <1>3, <1>4 DEF StateType
<1>6. /\ t.modified[a] = acc
      /\ \A b \in Addr \ {a} : t.modified[b] = s.modified[b]
  BY <1>1, <1>3
<1>7. Exact(t, view)
  BY <1>1, <1>3, <1>5, <1>6 DEF Exact
<1>8. Runnable(s) /\ (acc.code # NoCode => ~Blank(acc)) => Runnable(t)
  BY <1>6 DEF Runnable
<1>9. KeepsAccount(s.modified[a], acc) => Keeps(s, t)
  BY <1>6 DEF Keeps, KeepsAccount
<1>10. Holds(t) = [Holds(s) EXCEPT ![a] = Held(acc, view[a])]
  <2>1. \A b \in Addr : Holds(t)[b] = IF b = a THEN Held(acc, view[a]) ELSE Holds(s)[b]
    BY <1>1, <1>3, <1>6 DEF Holds
  <2> QED
    BY <2>1 DEF Holds
<1> QED
  BY <1>3, <1>7, <1>8, <1>9, <1>10

LEMMA AccountFields ==
    ASSUME NEW acc \in Account
    PROVE  /\ acc.nonce \in Nat /\ acc.balance \in Nat
           /\ acc.code_hash \in Codes /\ acc.code \in Codes
           /\ acc.storage \in [Key -> StorageValue]
           /\ acc.warm \in BOOLEAN /\ acc.loaded \in BOOLEAN
           /\ acc.nonexistent \in BOOLEAN /\ acc.destructed \in BOOLEAN
           /\ acc.erase_if_empty \in BOOLEAN /\ acc.just_created \in BOOLEAN
           /\ acc.code_changed \in BOOLEAN /\ acc.has_initial_storage \in BOOLEAN
  BY DEF Account

LEMMA LoadFollows ==
    ASSUME NEW v, Sound(v), NEW acc, Follows(acc, v), ~acc.loaded,
           NEW lo, lo = LoadAccount(acc, v)
    PROVE  /\ Follows(lo, v) /\ KeepsAccount(acc, lo) /\ lo.loaded
           /\ lo.code = NoCode /\ lo.storage = acc.storage
           /\ ~lo.erase_if_empty /\ ~lo.just_created /\ ~lo.destructed /\ ~lo.code_changed
           /\ lo.nonexistent <=> ~v.exists
           /\ lo.nonce = v.nonce /\ lo.code_hash = v.code
           /\ Held(lo, v) = Held(acc, v)
<1>1. /\ acc \in Account /\ v \in ViewAccount
      /\ acc.nonce = 0 /\ acc.balance = 0 /\ acc.code_hash = NoCode
      /\ acc.code = NoCode /\ ~acc.nonexistent /\ ~acc.destructed
      /\ ~acc.erase_if_empty /\ ~acc.just_created /\ ~acc.code_changed
      /\ \A k \in Key : acc.storage[k].current = acc.storage[k].original
      /\ \A k \in Key : SlotFollows(acc.storage[k], v.storage[k])
  BY DEF Blank, Follows, Sound
<1>2. v.nonce \in Nat /\ v.balance \in Nat /\ v.code \in Codes
  BY <1>1 DEF ViewAccount
<1>3. CASE v.exists
  <2> DEFINE has == \E k \in Key : v.storage[k] # 0
             l   == [acc EXCEPT !.loaded = TRUE, !.nonce = v.nonce,
                       !.balance = v.balance, !.code_hash = v.code,
                       !.has_initial_storage = has]
  <2>1. lo = l
    BY <1>3 DEF LoadAccount
  <2>2. has \in BOOLEAN /\ (~has => \A k \in Key : v.storage[k] = 0)
    OBVIOUS
  <2> HIDE DEF has
  <2>3. l \in Account
    BY <1>1, <1>2, <2>2 DEF Account
  <2>4. /\ l.loaded /\ l.nonce = v.nonce /\ l.balance = v.balance /\ l.code_hash = v.code
        /\ l.code = acc.code /\ l.storage = acc.storage
        /\ l.nonexistent = acc.nonexistent /\ l.destructed = acc.destructed
        /\ l.erase_if_empty = acc.erase_if_empty /\ l.just_created = acc.just_created
        /\ l.has_initial_storage = has
        /\ l.code_changed = acc.code_changed
    BY <1>1 DEF Account
  <2> HIDE DEF l
  <2>5. Follows(l, v)
    BY <1>1, <1>2, <2>2, <2>3, <2>4 DEF Blank, Follows
  <2> QED
    BY <1>1, <1>2, <1>3, <2>1, <2>4, <2>5 DEF Blank, KeepsAccount, Live, Held
<1>4. CASE ~v.exists
  <2> DEFINE l == [acc EXCEPT !.loaded = TRUE, !.nonexistent = TRUE]
  <2>1. lo = l
    BY <1>4 DEF LoadAccount
  <2>2. l \in Account
    BY <1>1 DEF Account
  <2>3. /\ l.loaded /\ l.nonexistent /\ l.nonce = acc.nonce /\ l.balance = acc.balance
        /\ l.code_hash = acc.code_hash /\ l.code = acc.code /\ l.storage = acc.storage
        /\ l.destructed = acc.destructed /\ l.erase_if_empty = acc.erase_if_empty
        /\ l.just_created = acc.just_created /\ l.code_changed = acc.code_changed
        /\ l.has_initial_storage = acc.has_initial_storage
    BY <1>1 DEF Account
  <2> HIDE DEF l
  <2>4. /\ v.nonce = 0 /\ v.balance = 0 /\ v.code = NoCode
        /\ \A k \in Key : v.storage[k] = 0
    BY <1>4 DEF Sound, NoAccount
  <2>5. Follows(l, v)
    BY <1>1, <1>4, <2>2, <2>3, <2>4 DEF Blank, Follows
  <2> QED
    BY <1>1, <1>4, <2>1, <2>3, <2>4, <2>5 DEF Blank, KeepsAccount, Live, Held
<1> QED
  BY <1>3, <1>4

\* t differs from s by what was loaded or journaled, and by accounts that
\* came to exist: no balance changes.
Quiet(s, t, view) ==
    Exact(t, view) /\ Keeps(s, t) /\ Holds(t) = Holds(s) /\ (Runnable(s) => Runnable(t))

LEMMA QuietSelf ==
    ASSUME NEW s, NEW view, Exact(s, view) PROVE Quiet(s, s, view)
  BY DEF Quiet, Keeps, KeepsAccount

LEMMA KeepsTransitive ==
    ASSUME NEW s, NEW t, NEW u, Keeps(s, t), Keeps(t, u) PROVE Keeps(s, u)
  BY DEF Keeps, KeepsAccount

LEMMA QuietTransitive ==
    ASSUME NEW s, NEW t, NEW u, NEW view, Quiet(s, t, view), Quiet(t, u, view)
    PROVE  Quiet(s, u, view)
  BY KeepsTransitive DEF Quiet

LEMMA HoldsAt ==
    ASSUME NEW s, NEW view, Exact(s, view), NEW a \in Addr
    PROVE  [Holds(s) EXCEPT ![a] = Held(s.modified[a], view[a])] = Holds(s)
<1>1. Holds(s)[a] = Held(s.modified[a], view[a])
  BY ExactFields DEF Holds
<1> QED
  BY <1>1 DEF Holds

\* The balances with that of account a replaced.
Replace(held, a, x) == [held EXCEPT ![a] = x]

LEMMA WroteHolds ==
    ASSUME NEW s, NEW view, Exact(s, view), NEW a \in Addr,
           NEW acc, Follows(acc, view[a]), NEW t, Wrote(s, t, a, acc)
    PROVE  Holds(t) = Replace(Holds(s), a, Held(acc, view[a]))
<1>1. /\ s.initial = view /\ view \in [Addr -> ViewAccount]
      /\ s.modified \in [Addr -> Account]
  BY ExactFields
<1>2. t.initial = view /\ t.modified = [s.modified EXCEPT ![a] = acc]
  BY <1>1 DEF Wrote, Put
<1>3. \A b \in Addr : Holds(t)[b] = IF b = a THEN Held(acc, view[a]) ELSE Holds(s)[b]
  BY <1>1, <1>2 DEF Holds
<1> QED
  BY <1>3 DEF Holds, Replace

(* A write that leaves the balance.                                        *)
LEMMA WroteQuiet ==
    ASSUME NEW s, NEW view, Exact(s, view), NEW a \in Addr,
           NEW acc, Follows(acc, view[a]), NEW t, Wrote(s, t, a, acc),
           KeepsAccount(s.modified[a], acc),
           Held(acc, view[a]) = Held(s.modified[a], view[a]),
           Runnable(s) => (acc.code # NoCode => ~Blank(acc))
    PROVE  Quiet(s, t, view) /\ t.modified = [s.modified EXCEPT ![a] = acc]
<1>1. Holds(t) = Holds(s)
  <2>1. Holds(t) = Replace(Holds(s), a, Held(acc, view[a]))
    BY WroteHolds
  <2>2. Replace(Holds(s), a, Held(s.modified[a], view[a])) = Holds(s)
    BY HoldsAt DEF Replace
  <2> QED
    BY <2>1, <2>2
<1> QED
  BY <1>1, WroteExact DEF Quiet

LEMMA GetQuiet ==
    ASSUME NEW view, SoundViews(view), NEW s, Exact(s, view), NEW a \in Addr
    PROVE  /\ Quiet(s, Get(s, a), view) /\ Get(s, a).modified[a].loaded
           /\ Get(s, a).modified[a].code = s.modified[a].code
           /\ \A b \in Addr \ {a} : Get(s, a).modified[b] = s.modified[b]
<1>1. /\ s = [initial |-> s.initial, modified |-> s.modified, journal |-> s.journal]
      /\ s.initial = view /\ s.modified \in [Addr -> Account]
      /\ s.journal \in Seq(JournalEntry)
      /\ Follows(s.modified[a], view[a])
  BY ExactFields
<1>2. CASE s.modified[a].loaded
  BY <1>2, QuietSelf DEF Get
<1>3. CASE ~s.modified[a].loaded
  <2> DEFINE lo == LoadAccount(s.modified[a], view[a])
             t  == Get(s, a)
  <2>1. Sound(view[a])
    BY DEF SoundViews
  <2>2. /\ Follows(lo, view[a]) /\ KeepsAccount(s.modified[a], lo) /\ lo.loaded
        /\ lo.code = NoCode /\ Held(lo, view[a]) = Held(s.modified[a], view[a])
    BY <1>1, <1>3, <2>1, LoadFollows
  <2>3. s.modified[a].code = NoCode
    BY <1>1, <1>3 DEF Blank, Follows
  <2>4. t = [initial |-> s.initial, modified |-> [s.modified EXCEPT ![a] = lo],
             journal |-> s.journal]
    BY <1>1, <1>3 DEF Get
  <2> HIDE DEF lo, t
  <2>5. Wrote(s, t, a, lo)
    BY <1>1, <2>4 DEF Wrote, Put
  <2>6. Quiet(s, t, view) /\ t.modified = [s.modified EXCEPT ![a] = lo]
    BY <2>2, <2>5, WroteQuiet
  <2> QED
    BY <1>1, <2>2, <2>3, <2>6 DEF t
<1> QED
  BY <1>2, <1>3

LEMMA GetCodeQuiet ==
    ASSUME NEW view, SoundViews(view), NEW s, Exact(s, view), NEW a \in Addr
    PROVE  /\ Quiet(s, GetCode(s, a), view) /\ GetCode(s, a).modified[a].loaded
           /\ \A b \in Addr \ {a} : GetCode(s, a).modified[b] = s.modified[b]
<1> DEFINE s1 == Get(s, a)
           acc == s1.modified[a]
<1>1. /\ Quiet(s, s1, view) /\ acc.loaded
      /\ \A b \in Addr \ {a} : s1.modified[b] = s.modified[b]
  BY GetQuiet
<1>2. Exact(s1, view)
  BY <1>1 DEF Quiet
<1> HIDE DEF s1
<1>3. /\ s1 = [initial |-> s1.initial, modified |-> s1.modified, journal |-> s1.journal]
      /\ s1.initial = view /\ s1.modified \in [Addr -> Account]
      /\ s1.journal \in Seq(JournalEntry)
      /\ acc \in Account /\ Follows(acc, view[a])
      /\ s.initial = view /\ view[a] \in ViewAccount
  BY <1>2, ExactFields
<1>4. CASE acc.code_hash # NoCode /\ acc.code = NoCode
  <2> DEFINE new == [acc EXCEPT !.code = view[a].code]
             t   == GetCode(s, a)
  <2>1. t = [initial |-> s1.initial, modified |-> [s1.modified EXCEPT ![a] = new],
             journal |-> s1.journal]
    BY <1>3, <1>4 DEF GetCode, s1
  <2>2. new \in Account
    BY <1>3 DEF Account, ViewAccount
  <2>3. /\ new.nonce = acc.nonce /\ new.balance = acc.balance /\ new.code = view[a].code
        /\ new.code_hash = acc.code_hash /\ new.storage = acc.storage
        /\ new.loaded = acc.loaded /\ new.nonexistent = acc.nonexistent
        /\ new.destructed = acc.destructed /\ new.erase_if_empty = acc.erase_if_empty
        /\ new.just_created = acc.just_created /\ new.code_changed = acc.code_changed
        /\ new.has_initial_storage = acc.has_initial_storage
    BY <1>3 DEF Account
  <2> HIDE DEF new, t
  <2>4. Follows(new, view[a])
    BY <1>1, <1>3, <2>2, <2>3 DEF Blank, Follows
  <2>5. new.code # NoCode => ~Blank(new)
    BY <1>4, <2>3 DEF Blank
  <2>6. KeepsAccount(acc, new) /\ Held(new, view[a]) = Held(acc, view[a])
    BY <2>3 DEF Blank, KeepsAccount, Live, Held
  <2>7. Wrote(s1, t, a, new)
    BY <1>3, <2>1 DEF Wrote, Put
  <2>8. Quiet(s1, t, view) /\ t.modified = [s1.modified EXCEPT ![a] = new]
    BY <1>2, <2>4, <2>5, <2>6, <2>7, WroteQuiet
  <2>9. Quiet(s, t, view)
    BY <1>1, <2>8, QuietTransitive
  <2> QED
    BY <1>1, <1>3, <2>3, <2>8, <2>9 DEF t
<1>5. CASE ~(acc.code_hash # NoCode /\ acc.code = NoCode)
  BY <1>1, <1>5 DEF GetCode, s1
<1> QED
  BY <1>4, <1>5

LEMMA GetOrInsertQuiet ==
    ASSUME NEW view, SoundViews(view), NEW s, Exact(s, view), NEW a \in Addr
    PROVE  /\ Quiet(s, GetOrInsert(s, a), view) /\ Live(GetOrInsert(s, a).modified[a])
           /\ \A b \in Addr \ {a} : GetOrInsert(s, a).modified[b] = s.modified[b]
<1> DEFINE s1 == Get(s, a)
           acc == s1.modified[a]
<1>1. /\ Quiet(s, s1, view) /\ acc.loaded
      /\ \A b \in Addr \ {a} : s1.modified[b] = s.modified[b]
  BY GetQuiet
<1>2. Exact(s1, view)
  BY <1>1 DEF Quiet
<1> HIDE DEF s1
<1>3. /\ s1 = [initial |-> s1.initial, modified |-> s1.modified, journal |-> s1.journal]
      /\ s1.initial = view /\ s1.modified \in [Addr -> Account]
      /\ s1.journal \in Seq(JournalEntry)
      /\ acc \in Account /\ Follows(acc, view[a])
  BY <1>2, ExactFields
<1>4. CASE acc.nonexistent
  <2> DEFINE new == [acc EXCEPT !.nonexistent = FALSE, !.erase_if_empty = TRUE]
             t   == GetOrInsert(s, a)
  <2>1. t = [initial |-> s1.initial, modified |-> [s1.modified EXCEPT ![a] = new],
             journal |-> s1.journal]
    BY <1>3, <1>4 DEF GetOrInsert, s1
  <2>2. new \in Account
    BY <1>3 DEF Account
  <2>3. /\ new.nonce = acc.nonce /\ new.balance = acc.balance /\ new.code = acc.code
        /\ new.code_hash = acc.code_hash /\ new.storage = acc.storage
        /\ new.loaded = acc.loaded /\ ~new.nonexistent
        /\ new.destructed = acc.destructed
        /\ new.just_created = acc.just_created /\ new.code_changed = acc.code_changed
        /\ new.has_initial_storage = acc.has_initial_storage
    BY <1>3 DEF Account
  <2> HIDE DEF new, t
  <2>4. Follows(new, view[a])
    BY <1>1, <1>3, <2>2, <2>3 DEF Blank, Follows
  <2>6. KeepsAccount(acc, new) /\ Held(new, view[a]) = Held(acc, view[a]) /\ Live(new)
    BY <1>1, <2>3 DEF Blank, KeepsAccount, Live, Held
  <2>7. Wrote(s1, t, a, new)
    BY <1>3, <2>1 DEF Wrote, Put
  <2>12. Runnable(s1) => (new.code # NoCode => ~Blank(new))
    BY <2>3, <2>6 DEF Runnable, KeepsAccount
  <2>8. Quiet(s1, t, view) /\ t.modified = [s1.modified EXCEPT ![a] = new]
    BY <1>2, <2>4, <2>6, <2>7, <2>12, WroteQuiet
  <2>9. Quiet(s, t, view)
    BY <1>1, <2>8, QuietTransitive
  <2> QED
    BY <1>1, <1>3, <2>6, <2>8, <2>9 DEF t
<1>5. CASE ~acc.nonexistent
  BY <1>1, <1>5 DEF GetOrInsert, s1, Live
<1> QED
  BY <1>4, <1>5

LEMMA JournalQuiet ==
    ASSUME NEW view, NEW s, Exact(s, view), NEW e \in JournalEntry
    PROVE  Quiet(s, Journal(s, e), view) /\ Journal(s, e).modified = s.modified
<1> DEFINE j == Append(s.journal, e)
           t == Journal(s, e)
<1>1. /\ s = [initial |-> s.initial, modified |-> s.modified, journal |-> s.journal]
      /\ s.initial = view /\ s.modified \in [Addr -> Account]
      /\ s.journal \in Seq(JournalEntry)
  BY ExactFields
<1>2. j \in Seq(JournalEntry)
  BY <1>1, AppendProperties
<1> HIDE DEF j
<1>3. t = [initial |-> s.initial, modified |-> s.modified, journal |-> j]
  <2>1. PICK i, m, q : s = [initial |-> i, modified |-> m, journal |-> q]
    BY <1>1
  <2>2. t = [initial |-> i, modified |-> m, journal |-> Append(q, e)]
    <3>1. t = [s EXCEPT !.journal = Append(@, e)]
      BY DEF Journal
    <3> HIDE DEF t
    <3> QED
      BY <2>1, <3>1
  <2> QED
    BY <2>1, <2>2 DEF j
<1>4. t.initial = s.initial /\ t.modified = s.modified
  BY <1>3
<1>5. t \in StateType
  BY <1>1, <1>2, <1>3 DEF Exact, StateType
<1> HIDE DEF t
<1>6. Exact(t, view)
  BY <1>4, <1>5 DEF Exact
<1> QED
  BY <1>4, <1>6 DEF Quiet, Keeps, KeepsAccount, Holds, Runnable, t

LEMMA FlagsJournaled ==
    ASSUME NEW view, NEW s, Exact(s, view), NEW a \in Addr
    PROVE  /\ Quiet(s, JournalAccountFlags(s, a), view)
           /\ JournalAccountFlags(s, a).modified = s.modified
<1> DEFINE acc == s.modified[a]
           e == [t |-> "flags", acc |-> a, warm |-> acc.warm,
                 nonexistent |-> acc.nonexistent, destructed |-> acc.destructed,
                 erase_if_empty |-> acc.erase_if_empty]
<1>1. acc \in Account
  BY ExactFields
<1>2. e \in JournalEntry
  BY <1>1, AccountFields DEF JournalEntry
<1> HIDE DEF e
<1>3. Quiet(s, Journal(s, e), view) /\ Journal(s, e).modified = s.modified
  BY <1>2, JournalQuiet
<1> QED
  BY <1>3 DEF JournalAccountFlags, e

LEMMA BalanceJournaled ==
    ASSUME NEW view, NEW s, Exact(s, view), NEW a \in Addr
    PROVE  /\ Quiet(s, JournalBalanceChange(s, a), view)
           /\ JournalBalanceChange(s, a).modified = s.modified
<1> DEFINE e == [t |-> "balance", acc |-> a, prev_balance |-> s.modified[a].balance]
<1>1. s.modified[a] \in Account
  BY ExactFields
<1>2. e \in JournalEntry
  BY <1>1, AccountFields DEF JournalEntry
<1> HIDE DEF e
<1>3. Quiet(s, Journal(s, e), view) /\ Journal(s, e).modified = s.modified
  BY <1>2, JournalQuiet
<1> QED
  BY <1>3 DEF JournalBalanceChange, e

LEMMA StorageJournaled ==
    ASSUME NEW view, NEW s, Exact(s, view), NEW a \in Addr, NEW k \in Key
    PROVE  /\ Quiet(s, JournalStorageChange(s, a, k), view)
           /\ JournalStorageChange(s, a, k).modified = s.modified
<1> DEFINE slot == s.modified[a].storage[k]
           e == [t |-> "storage", acc |-> a, key |-> k, prev_value |-> slot.current,
                 prev_warm |-> slot.warm, prev_loaded |-> slot.loaded]
<1>1. slot \in StorageValue
  <2>1. s.modified[a].storage \in [Key -> StorageValue]
    BY ExactFields, AccountFields
  <2> QED
    BY <2>1
<1>2. e \in JournalEntry
  BY <1>1 DEF JournalEntry, StorageValue
<1> HIDE DEF e
<1>3. Quiet(s, Journal(s, e), view) /\ Journal(s, e).modified = s.modified
  BY <1>2, JournalQuiet
<1> QED
  BY <1>3 DEF JournalStorageChange, e

LEMMA CreateJournaled ==
    ASSUME NEW view, NEW s, Exact(s, view), NEW a \in Addr
    PROVE  /\ Quiet(s, JournalCreate(s, a), view)
           /\ JournalCreate(s, a).modified = s.modified
<1> DEFINE e == [t |-> "create", acc |-> a]
<1>2. e \in JournalEntry
  BY DEF JournalEntry
<1> HIDE DEF e
<1>3. Quiet(s, Journal(s, e), view) /\ Journal(s, e).modified = s.modified
  BY <1>2, JournalQuiet
<1> QED
  BY <1>3 DEF JournalCreate, e

-----------------------------------------------------------------------------
(* Revertible changes. *)

\* Account a of s, which is a state to be written.
LEMMA GetOrCreateQuiet ==
    ASSUME NEW view, SoundViews(view), NEW s, Exact(s, view), NEW a \in Addr
    PROVE  /\ Quiet(s, GetOrCreate(s, a), view) /\ Live(GetOrCreate(s, a).modified[a])
           /\ GetOrCreate(s, a).modified[a].nonce = Get(s, a).modified[a].nonce
           /\ \A b \in Addr \ {a} : GetOrCreate(s, a).modified[b] = s.modified[b]
<1> DEFINE s1 == Get(s, a)
           acc == s1.modified[a]
<1>1. /\ Quiet(s, s1, view) /\ acc.loaded
      /\ \A b \in Addr \ {a} : s1.modified[b] = s.modified[b]
  BY GetQuiet
<1>2. Exact(s1, view)
  BY <1>1 DEF Quiet
<1> HIDE DEF s1
<1>4. CASE acc.nonexistent
  <2> DEFINE u   == JournalAccountFlags(s1, a)
             new == [acc EXCEPT !.nonexistent = FALSE]
             t   == GetOrCreate(s, a)
  <2>1. Quiet(s1, u, view) /\ u.modified = s1.modified
    BY <1>2, FlagsJournaled
  <2>a. t = [u EXCEPT !.modified[a].nonexistent = FALSE]
    BY <1>4 DEF GetOrCreate, s1
  <2> HIDE DEF u
  <2>2. Exact(u, view)
    BY <2>1 DEF Quiet
  <2>3. /\ u = [initial |-> u.initial, modified |-> u.modified, journal |-> u.journal]
        /\ u.modified \in [Addr -> Account] /\ u.journal \in Seq(JournalEntry)
        /\ acc \in Account /\ Follows(acc, view[a]) /\ u.modified[a] = acc
    BY <2>1, <2>2, ExactFields
  <2>4. t = [initial |-> u.initial, modified |-> [u.modified EXCEPT ![a] = new],
             journal |-> u.journal]
    BY <2>a, <2>3
  <2>5. new \in Account
    BY <2>3 DEF Account
  <2>6. /\ new.nonce = acc.nonce /\ new.balance = acc.balance /\ new.code = acc.code
        /\ new.code_hash = acc.code_hash /\ new.storage = acc.storage
        /\ new.loaded = acc.loaded /\ ~new.nonexistent
        /\ new.destructed = acc.destructed /\ new.erase_if_empty = acc.erase_if_empty
        /\ new.just_created = acc.just_created /\ new.code_changed = acc.code_changed
        /\ new.has_initial_storage = acc.has_initial_storage
    BY <2>3 DEF Account
  <2> HIDE DEF new, t
  <2>7. Follows(new, view[a])
    BY <1>1, <2>3, <2>5, <2>6 DEF Blank, Follows
  <2>8. KeepsAccount(acc, new) /\ Held(new, view[a]) = Held(acc, view[a]) /\ Live(new)
    BY <1>1, <2>6 DEF Blank, KeepsAccount, Live, Held
  <2>9. Wrote(u, t, a, new)
    BY <2>3, <2>4 DEF Wrote, Put
  <2>12. Runnable(u) => (new.code # NoCode => ~Blank(new))
    BY <2>3, <2>6, <2>8 DEF Runnable, KeepsAccount
  <2>10. Quiet(u, t, view) /\ t.modified = [u.modified EXCEPT ![a] = new]
    <3>1. /\ KeepsAccount(u.modified[a], new)
          /\ Held(new, view[a]) = Held(u.modified[a], view[a])
      BY <2>3, <2>8
    <3>2. Exact(u, view)
      BY <2>2
    <3> QED
      BY <2>7, <2>9, <2>12, <3>1, <3>2, WroteQuiet
  <2>11. Quiet(s, t, view)
    BY <1>1, <2>1, <2>10, QuietTransitive
  <2> QED
    BY <1>1, <2>1, <2>3, <2>6, <2>8, <2>10, <2>11 DEF t, s1
<1>5. CASE ~acc.nonexistent
  BY <1>1, <1>5 DEF GetOrCreate, s1, Live
<1> QED
  BY <1>4, <1>5

LEMMA TouchQuiet ==
    ASSUME NEW view, SoundViews(view), NEW s, Exact(s, view), NEW a \in Addr
    PROVE  /\ Quiet(s, Touch(s, a), view) /\ Live(Touch(s, a).modified[a])
           /\ \A b \in Addr \ {a} : Touch(s, a).modified[b] = s.modified[b]
<1> DEFINE s1 == Get(s, a)
           acc == s1.modified[a]
<1>1. /\ Quiet(s, s1, view) /\ acc.loaded
      /\ \A b \in Addr \ {a} : s1.modified[b] = s.modified[b]
  BY GetQuiet
<1>2. Exact(s1, view)
  BY <1>1 DEF Quiet
<1> HIDE DEF s1
<1>4. CASE ~acc.erase_if_empty /\ IsEmpty(acc)
  <2> DEFINE u   == JournalAccountFlags(s1, a)
             new == [acc EXCEPT !.nonexistent = FALSE, !.erase_if_empty = TRUE]
             t   == Touch(s, a)
  <2>1. Quiet(s1, u, view) /\ u.modified = s1.modified
    BY <1>2, FlagsJournaled
  <2>a. t = [u EXCEPT !.modified[a].nonexistent = FALSE,
                      !.modified[a].erase_if_empty = TRUE]
    BY <1>4 DEF Touch, s1
  <2> HIDE DEF u
  <2>2. Exact(u, view)
    BY <2>1 DEF Quiet
  <2>3. /\ u = [initial |-> u.initial, modified |-> u.modified, journal |-> u.journal]
        /\ u.modified \in [Addr -> Account] /\ u.journal \in Seq(JournalEntry)
        /\ acc \in Account /\ Follows(acc, view[a]) /\ u.modified[a] = acc
    BY <2>1, <2>2, ExactFields
  <2>4. t = [initial |-> u.initial, modified |-> [u.modified EXCEPT ![a] = new],
             journal |-> u.journal]
    <3>1. PICK i, m, q : u = [initial |-> i, modified |-> m, journal |-> q]
      BY <2>3
    <3>2. t = [initial |-> i, journal |-> q,
               modified |-> [m EXCEPT ![a].nonexistent = FALSE, ![a].erase_if_empty = TRUE]]
      BY <2>a, <3>1
    <3>3. m \in [Addr -> Account] /\ m[a] = acc
      BY <2>3, <3>1
    <3>4. [m EXCEPT ![a].nonexistent = FALSE, ![a].erase_if_empty = TRUE] = [m EXCEPT ![a] = new]
      BY <3>3
    <3> HIDE DEF new
    <3> QED
      BY <3>1, <3>2, <3>4
  <2>5. new \in Account
    BY <2>3 DEF Account
  <2>6. /\ new.nonce = acc.nonce /\ new.balance = acc.balance /\ new.code = acc.code
        /\ new.code_hash = acc.code_hash /\ new.storage = acc.storage
        /\ new.loaded = acc.loaded /\ ~new.nonexistent
        /\ new.destructed = acc.destructed
        /\ new.just_created = acc.just_created /\ new.code_changed = acc.code_changed
        /\ new.has_initial_storage = acc.has_initial_storage
    BY <2>3 DEF Account
  <2> HIDE DEF new, t
  <2>7. Follows(new, view[a])
    BY <1>1, <2>3, <2>5, <2>6 DEF Blank, Follows
  <2>8. KeepsAccount(acc, new) /\ Held(new, view[a]) = Held(acc, view[a]) /\ Live(new)
    BY <1>1, <2>6 DEF Blank, KeepsAccount, Live, Held
  <2>9. Wrote(u, t, a, new)
    BY <2>3, <2>4 DEF Wrote, Put
  <2>12. Runnable(u) => (new.code # NoCode => ~Blank(new))
    BY <2>3, <2>6, <2>8 DEF Runnable, KeepsAccount
  <2>10. Quiet(u, t, view) /\ t.modified = [u.modified EXCEPT ![a] = new]
    <3>1. /\ KeepsAccount(u.modified[a], new)
          /\ Held(new, view[a]) = Held(u.modified[a], view[a])
      BY <2>3, <2>8
    <3>2. Exact(u, view)
      BY <2>2
    <3> QED
      BY <2>7, <2>9, <2>12, <3>1, <3>2, WroteQuiet
  <2>11. Quiet(s, t, view)
    BY <1>1, <2>1, <2>10, QuietTransitive
  <2> QED
    BY <1>1, <2>1, <2>3, <2>6, <2>8, <2>10, <2>11 DEF t, s1
<1>5. CASE ~(~acc.erase_if_empty /\ IsEmpty(acc))
  <2>1. Follows(acc, view[a])
    BY <1>2, ExactFields
  <2>2. ~acc.nonexistent
    BY <1>5, <2>1 DEF Blank, Follows, IsEmpty
  <2> QED
    BY <1>1, <1>5, <2>2 DEF Touch, s1, Live
<1> QED
  BY <1>4, <1>5

\* The slots of an account with slot k written.
WithSlot(acc, k, slot) == [acc EXCEPT !.storage = [@ EXCEPT ![k] = slot]]

LEMMA SlotWritten ==
    ASSUME NEW v, Sound(v), NEW acc, Follows(acc, v), NEW k \in Key,
           NEW slot \in StorageValue, SlotFollows(slot, v.storage[k]),
           ~Blank(acc) \/ slot.current = slot.original
    PROVE  /\ Follows(WithSlot(acc, k, slot), v)
           /\ KeepsAccount(acc, WithSlot(acc, k, slot))
           /\ Held(WithSlot(acc, k, slot), v) = Held(acc, v)
           /\ WithSlot(acc, k, slot).code = acc.code
           /\ WithSlot(acc, k, slot).nonce = acc.nonce
<1> DEFINE new == WithSlot(acc, k, slot)
<1>1. acc \in Account /\ acc.storage \in [Key -> StorageValue]
  BY AccountFields DEF Blank, Follows
<1> DEFINE stored == [acc.storage EXCEPT ![k] = slot]
<1>2. stored \in [Key -> StorageValue]
  BY <1>1
<1>3. /\ stored[k] = slot
      /\ \A j \in Key \ {k} : stored[j] = acc.storage[j]
  BY <1>1
<1> HIDE DEF stored
<1>a. new = [acc EXCEPT !.storage = stored]
  BY DEF WithSlot, stored
<1>4. new \in Account
  BY <1>1, <1>2, <1>a DEF Account
<1>5. /\ new.nonce = acc.nonce /\ new.balance = acc.balance /\ new.code = acc.code
      /\ new.code_hash = acc.code_hash /\ new.storage = stored
      /\ new.loaded = acc.loaded /\ new.nonexistent = acc.nonexistent
      /\ new.destructed = acc.destructed /\ new.erase_if_empty = acc.erase_if_empty
      /\ new.just_created = acc.just_created /\ new.code_changed = acc.code_changed
      /\ new.has_initial_storage = acc.has_initial_storage
  BY <1>1, <1>a DEF Account
<1> HIDE DEF new
<1>6. \A j \in Key : SlotFollows(new.storage[j], v.storage[j])
  BY <1>3, <1>5 DEF Blank, Follows
<1>7. Blank(new) => \A j \in Key : new.storage[j].current = new.storage[j].original
  BY <1>3, <1>5 DEF Blank, Follows
<1>8. Follows(new, v)
  BY <1>4, <1>5, <1>6, <1>7 DEF Blank, Follows
<1> QED
  BY <1>5, <1>8 DEF Blank, KeepsAccount, Live, Held, new

WriteSlot(s, a, k, slot) == [s EXCEPT !.modified[a].storage[k] = slot]

LEMMA WriteSlotQuiet ==
    ASSUME NEW view, SoundViews(view), NEW s, Exact(s, view), NEW a \in Addr, NEW k \in Key,
           NEW slot \in StorageValue, SlotFollows(slot, view[a].storage[k]),
           ~Blank(s.modified[a]) \/ slot.current = slot.original,
           NEW t, t = WriteSlot(s, a, k, slot)
    PROVE  /\ Quiet(s, t, view)
           /\ t.modified[a].storage[k] = slot
           /\ t.modified[a].nonce = s.modified[a].nonce
<1>1. /\ s = [initial |-> s.initial, modified |-> s.modified, journal |-> s.journal]
      /\ s.modified \in [Addr -> Account] /\ s.journal \in Seq(JournalEntry)
      /\ s.modified[a] \in Account /\ Follows(s.modified[a], view[a])
  BY ExactFields
<1> DEFINE new == WithSlot(s.modified[a], k, slot)
<1>2. t = [initial |-> s.initial, modified |-> [s.modified EXCEPT ![a] = new],
           journal |-> s.journal]
  <2>1. PICK i, m, q : s = [initial |-> i, modified |-> m, journal |-> q]
    BY <1>1
  <2>2. t = [initial |-> i, modified |-> [m EXCEPT ![a].storage[k] = slot], journal |-> q]
    BY <2>1 DEF WriteSlot
  <2>3. m \in [Addr -> Account] /\ m[a] \in Account
    BY <1>1, <2>1
  <2>4. [m EXCEPT ![a].storage[k] = slot] = [m EXCEPT ![a] = WithSlot(m[a], k, slot)]
    BY <2>3 DEF WithSlot
  <2> QED
    BY <2>1, <2>2, <2>4
<1>3. Sound(view[a])
  BY DEF SoundViews
<1>4. /\ Follows(new, view[a]) /\ KeepsAccount(s.modified[a], new)
      /\ Held(new, view[a]) = Held(s.modified[a], view[a])
      /\ new.code = s.modified[a].code /\ new.nonce = s.modified[a].nonce
  BY <1>1, <1>3, SlotWritten
<1>5. new.storage[k] = slot
  BY <1>1, AccountFields DEF WithSlot, Account
<1> HIDE DEF new
<1>6. Wrote(s, t, a, new)
  BY <1>1, <1>2 DEF Wrote, Put
<1>7. Quiet(s, t, view) /\ t.modified = [s.modified EXCEPT ![a] = new]
  <2>1. Runnable(s) => (new.code # NoCode => ~Blank(new))
    BY <1>4 DEF Runnable, KeepsAccount
  <2> QED
    BY <1>4, <1>6, <2>1, WroteQuiet
<1> QED
  BY <1>1, <1>4, <1>5, <1>7

LEMMA SlotOf ==
    ASSUME NEW view, SoundViews(view), NEW s, Exact(s, view), NEW a \in Addr, NEW k \in Key
    PROVE  /\ s.modified[a].storage[k] \in StorageValue
           /\ SlotFollows(s.modified[a].storage[k], view[a].storage[k])
           /\ view[a].storage[k] \in Val
           /\ s.initial = view
<1>1. s.modified[a].storage \in [Key -> StorageValue] /\ Follows(s.modified[a], view[a])
      /\ s.initial = view
  BY ExactFields, AccountFields
<1>2. view[a].storage \in [Key -> Val]
  BY DEF SoundViews, Sound, ViewAccount
<1> QED
  BY <1>1, <1>2 DEF Blank, Follows

LEMMA GetStorageQuiet ==
    ASSUME NEW view, SoundViews(view), NEW s, Exact(s, view), NEW a \in Addr, NEW k \in Key
    PROVE  /\ Quiet(s, GetStorage(s, a, k), view)
           /\ GetStorage(s, a, k).modified[a].storage[k].loaded
           /\ GetStorage(s, a, k).modified[a].nonce = s.modified[a].nonce
<1> DEFINE slot == s.modified[a].storage[k]
           new  == [slot EXCEPT !.loaded = TRUE, !.original = view[a].storage[k],
                                !.current = view[a].storage[k]]
           t    == GetStorage(s, a, k)
<1>1. /\ slot \in StorageValue /\ SlotFollows(slot, view[a].storage[k])
      /\ view[a].storage[k] \in Val /\ s.initial = view
  BY SlotOf
<1>2. CASE slot.loaded
  BY <1>2, QuietSelf DEF GetStorage
<1>3. CASE ~slot.loaded
  <2>1. new \in StorageValue /\ new.loaded /\ new.original = view[a].storage[k]
        /\ new.current = new.original
    BY <1>1 DEF StorageValue
  <2>2. SlotFollows(new, view[a].storage[k])
    BY <2>1 DEF SlotFollows
  <2>3. t = WriteSlot(s, a, k, new)
    BY <1>1, <1>3 DEF GetStorage, WriteSlot
  <2> HIDE DEF new, t
  <2>4. /\ Quiet(s, t, view) /\ t.modified[a].storage[k] = new
        /\ t.modified[a].nonce = s.modified[a].nonce
    <3>1. ~Blank(s.modified[a]) \/ new.current = new.original
      BY <2>1
    <3> QED
      BY <2>1, <2>2, <2>3, <3>1, WriteSlotQuiet
  <2> QED
    BY <2>1, <2>4 DEF t
<1> QED
  BY <1>2, <1>3

LEMMA SetStorageQuiet ==
    ASSUME NEW view, SoundViews(view), NEW s, Exact(s, view), NEW a \in Addr, NEW k \in Key,
           NEW x \in Val, ~Blank(s.modified[a])
    PROVE  Quiet(s, SetStorage(s, a, k, x), view)
<1> DEFINE s1 == GetStorage(s, a, k)
           u  == JournalStorageChange(s1, a, k)
           slot == u.modified[a].storage[k]
           new  == [slot EXCEPT !.current = x]
           t    == SetStorage(s, a, k, x)
<1>1. /\ Quiet(s, s1, view) /\ s1.modified[a].storage[k].loaded
      /\ s1.modified[a].nonce = s.modified[a].nonce
  BY GetStorageQuiet
<1>2. Exact(s1, view)
  BY <1>1 DEF Quiet
<1>a. t = [u EXCEPT !.modified[a].storage[k].current = x]
  BY DEF SetStorage
<1> HIDE DEF s1
<1>3. Quiet(s1, u, view) /\ u.modified = s1.modified
  BY <1>2, StorageJournaled
<1>4. Exact(u, view)
  BY <1>3 DEF Quiet
<1> HIDE DEF u
<1>5. /\ slot \in StorageValue /\ SlotFollows(slot, view[a].storage[k]) /\ slot.loaded
  BY <1>1, <1>3, <1>4, SlotOf
<1>6. new \in StorageValue /\ SlotFollows(new, view[a].storage[k])
  BY <1>5 DEF StorageValue, SlotFollows
<1>7. t = WriteSlot(u, a, k, new)
  BY <1>a DEF WriteSlot
<1> HIDE DEF new, t
<1>8. Quiet(u, t, view)
  <2>1. ~Blank(u.modified[a])
    BY <1>1, <1>3 DEF Quiet, Keeps, KeepsAccount
  <2> QED
    BY <1>4, <1>6, <1>7, <2>1, WriteSlotQuiet
<1> QED
  BY <1>1, <1>3, <1>8, QuietTransitive DEF t

-----------------------------------------------------------------------------
(* Balances. *)

\* t differs from s by what a call may do: ether moves, none is made or lost.
Moves(s, t, view) ==
    /\ Exact(t, view) /\ Keeps(s, t) /\ (Runnable(s) => Runnable(t))
    /\ Total(Holds(t)) = Total(Holds(s))

LEMMA QuietMoves ==
    ASSUME NEW s, NEW t, NEW view, Quiet(s, t, view) PROVE Moves(s, t, view)
  BY DEF Quiet, Moves

LEMMA MovesTransitive ==
    ASSUME NEW s, NEW t, NEW u, NEW view, Moves(s, t, view), Moves(t, u, view)
    PROVE  Moves(s, u, view)
  BY KeepsTransitive DEF Moves

LEMMA HeldType ==
    ASSUME NEW s, NEW view, Exact(s, view)
    PROVE  Balances(Holds(s))
<1>1. ASSUME NEW a \in Addr PROVE Holds(s)[a].balance \in Nat
  <2>1. s.modified[a].balance \in Nat /\ view[a].balance \in Nat /\ s.initial = view
    <3>1. s.modified[a] \in Account /\ view[a] \in ViewAccount /\ s.initial = view
      BY ExactFields
    <3> QED
      BY <3>1, AccountFields DEF ViewAccount
  <2> QED
    BY <2>1 DEF Holds, Held
<1> QED
  BY <1>1 DEF Balances

WriteBalance(s, a, b) == [s EXCEPT !.modified[a].balance = b]

\* Account a of t is that of s with balance b.
Rebalanced(s, t, a, b) ==
    /\ t.modified[a].balance = b
    /\ t.modified[a].nonce = s.modified[a].nonce
    /\ t.modified[a].just_created = s.modified[a].just_created
    /\ t.modified[a].destructed = s.modified[a].destructed
    /\ \A c \in Addr \ {a} : t.modified[c] = s.modified[c]
    /\ Holds(t) = [Holds(s) EXCEPT ![a] = [balance |-> b]]

LEMMA BalanceWritten ==
    ASSUME NEW view, SoundViews(view), NEW s, Exact(s, view), NEW a \in Addr, NEW b \in Nat,
           s.modified[a].loaded, s.modified[a].nonexistent => b = 0,
           ~Blank(s.modified[a]) \/ b >= s.modified[a].balance
    PROVE  /\ Exact(WriteBalance(s, a, b), view)
           /\ Keeps(s, WriteBalance(s, a, b))
           /\ Runnable(s) => Runnable(WriteBalance(s, a, b))
           /\ Rebalanced(s, WriteBalance(s, a, b), a, b)
<1> DEFINE t   == WriteBalance(s, a, b)
           acc == s.modified[a]
           new == [acc EXCEPT !.balance = b]
<1>1. /\ s = [initial |-> s.initial, modified |-> s.modified, journal |-> s.journal]
      /\ s.modified \in [Addr -> Account] /\ s.journal \in Seq(JournalEntry)
      /\ acc \in Account /\ Follows(acc, view[a]) /\ s.initial = view
  BY ExactFields
<1>2. t = [initial |-> s.initial, modified |-> [s.modified EXCEPT ![a] = new],
           journal |-> s.journal]
  <2>1. PICK i, m, q : s = [initial |-> i, modified |-> m, journal |-> q]
    BY <1>1
  <2> QED
    BY <2>1 DEF WriteBalance
<1>3. new \in Account
  BY <1>1 DEF Account
<1>4. /\ new.nonce = acc.nonce /\ new.balance = b /\ new.code = acc.code
      /\ new.code_hash = acc.code_hash /\ new.storage = acc.storage
      /\ new.loaded = acc.loaded /\ new.nonexistent = acc.nonexistent
      /\ new.destructed = acc.destructed /\ new.erase_if_empty = acc.erase_if_empty
      /\ new.just_created = acc.just_created /\ new.code_changed = acc.code_changed
      /\ new.has_initial_storage = acc.has_initial_storage
  BY <1>1 DEF Account
<1> HIDE DEF new
<1>5. Follows(new, view[a])
  <2>1. view[a].balance \in Nat /\ acc.balance \in Nat
    BY <1>1, AccountFields DEF SoundViews, ViewAccount
  <2>2. Blank(new) /\ new.loaded => new.balance >= view[a].balance
    BY <1>1, <1>4, <2>1 DEF Blank, Follows
  <2> QED
    BY <1>1, <1>3, <1>4, <2>2 DEF Blank, Follows
<1>6. Wrote(s, t, a, new)
  BY <1>1, <1>2 DEF Wrote, Put
<1> HIDE DEF t
<1>7. /\ Exact(t, view)
      /\ t.modified = [s.modified EXCEPT ![a] = new]
      /\ Runnable(s) /\ (new.code # NoCode => ~Blank(new)) => Runnable(t)
      /\ KeepsAccount(acc, new) => Keeps(s, t)
      /\ Holds(t) = [Holds(s) EXCEPT ![a] = Held(new, view[a])]
  BY <1>5, <1>6, WroteExact
<1>8. KeepsAccount(acc, new) /\ (Runnable(s) => (new.code # NoCode => ~Blank(new)))
  BY <1>4 DEF Blank, KeepsAccount, Live, Runnable
<1>9. Held(new, view[a]) = [balance |-> b]
  BY <1>4 DEF Held
<1>10. /\ t.modified[a] = new
       /\ \A c \in Addr \ {a} : t.modified[c] = s.modified[c]
  BY <1>1, <1>7
<1> QED
  BY <1>4, <1>7, <1>8, <1>9, <1>10 DEF Rebalanced, t

LEMMA HoldsField ==
    ASSUME NEW s, NEW view, Exact(s, view), NEW a \in Addr, s.modified[a].loaded
    PROVE  Holds(s)[a].balance = s.modified[a].balance
  BY DEF Holds, Held

(* One balance changed, the total changes by as much.                      *)
LEMMA TotalRebalanced ==
    ASSUME NEW view, NEW s, Exact(s, view), NEW t, Exact(t, view), NEW a \in Addr, NEW b \in Nat,
           s.modified[a].loaded, Rebalanced(s, t, a, b)
    PROVE  /\ Total(Holds(t)) = Total(Holds(s)) - s.modified[a].balance + b
           /\ Total(Holds(s)) \in Nat /\ s.modified[a].balance \in Nat
<1>1. Balances(Holds(s)) /\ Balances(Holds(t))
  BY HeldType
<1>2. Holds(t) = [Holds(s) EXCEPT ![a] = [balance |-> b]]
  BY DEF Rebalanced
<1>3. DOMAIN Holds(s) = Addr
  BY DEF Holds
<1>4. Holds(t)[a].balance = b /\ \A c \in Addr : c # a => Holds(t)[c].balance = Holds(s)[c].balance
  BY <1>2, <1>3
<1>5. Holds(s)[a].balance = s.modified[a].balance
  BY HoldsField
<1>6. Total(Holds(t)) = Total(Holds(s)) - Holds(s)[a].balance + Holds(t)[a].balance
  BY <1>1, <1>4, TotalChanged
<1>7. Total(Holds(s)) \in Nat
  BY <1>1, TotalType
<1>8. s.modified[a].balance \in Nat
  BY ExactFields, AccountFields
<1> QED
  BY <1>4, <1>5, <1>6, <1>7, <1>8

LEMMA RunsLive ==
    ASSUME NEW view, NEW s, Exact(s, view), NEW a \in Addr, ~Blank(s.modified[a])
    PROVE  Live(s.modified[a])
<1>1. Follows(s.modified[a], view[a])
  BY ExactFields
<1> QED
  BY <1>1 DEF Blank, Follows, Live

LEMMA TransferMoves ==
    ASSUME NEW view, SoundViews(view), NEW s, Exact(s, view),
           NEW from \in Addr, NEW to \in Addr, NEW value \in Nat,
           ~Blank(s.modified[from]), Live(s.modified[to]),
           value <= s.modified[from].balance
    PROVE  /\ Moves(s, Transfer(s, from, to, value), view)
           /\ \A a \in Addr : LET x == s.modified[a]
                                  y == Transfer(s, from, to, value).modified[a]
                              IN  y.nonce = x.nonce /\ y.just_created = x.just_created
<1> DEFINE u1 == JournalBalanceChange(s, from)
           u  == JournalBalanceChange(u1, to)
           b  == s.modified[from].balance - value
           s2 == WriteBalance(u, from, b)
           c  == s2.modified[to].balance + value
           s3 == WriteBalance(s2, to, c)
<1>1. Quiet(s, u1, view) /\ u1.modified = s.modified
  BY BalanceJournaled
<1>2. Exact(u1, view)
  BY <1>1 DEF Quiet
<1>a. Transfer(s, from, to, value)
        = [[u EXCEPT !.modified[from].balance = @ - value]
             EXCEPT !.modified[to].balance = @ + value]
  BY DEF Transfer
<1> HIDE DEF u1
<1>3. Quiet(u1, u, view) /\ u.modified = s.modified
  BY <1>1, <1>2, BalanceJournaled
<1> HIDE DEF u
<1>4. Exact(u, view) /\ Quiet(s, u, view)
  BY <1>1, <1>3, QuietTransitive DEF Quiet
<1>5. /\ Follows(s.modified[from], view[from]) /\ s.modified[from].balance \in Nat
      /\ s.modified[from].loaded
  BY ExactFields, AccountFields, RunsLive DEF Live
<1>6. b \in Nat /\ (s.modified[from].nonexistent => b = 0)
  BY <1>5 DEF Blank, Follows
<1>b. [u EXCEPT !.modified[from].balance = @ - value] = s2
  BY <1>3 DEF WriteBalance
<1> HIDE DEF b
<1>7. /\ Exact(s2, view) /\ Keeps(u, s2) /\ (Runnable(u) => Runnable(s2))
      /\ Rebalanced(u, s2, from, b)
  <2>1. /\ u.modified[from].loaded /\ ~Blank(u.modified[from])
        /\ u.modified[from].nonexistent => b = 0
    BY <1>3, <1>5, <1>6
  <2> QED
    BY <1>4, <1>6, <2>1, BalanceWritten
<1>c. Transfer(s, from, to, value) = s3
  BY <1>a, <1>b DEF WriteBalance
<1> HIDE DEF s2
<1>8. Live(s2.modified[to]) /\ s2.modified[to].balance \in Nat
  <2>1. s2.modified[to].balance \in Nat
    BY <1>7, ExactFields, AccountFields
  <2>2. Live(s2.modified[to])
    BY <1>3, <1>7 DEF Keeps, KeepsAccount
  <2> QED
    BY <2>1, <2>2
<1>9. c \in Nat /\ c >= s2.modified[to].balance
  BY <1>8
<1> HIDE DEF c
<1>10. /\ Exact(s3, view) /\ Keeps(s2, s3) /\ (Runnable(s2) => Runnable(s3))
       /\ Rebalanced(s2, s3, to, c)
  <2>1. s2.modified[to].loaded /\ ~s2.modified[to].nonexistent
    BY <1>8 DEF Live
  <2> QED
    BY <1>7, <1>9, <2>1, BalanceWritten
<1> HIDE DEF s3
<1>11. /\ Total(Holds(s2)) = Total(Holds(u)) - u.modified[from].balance + b
       /\ Total(Holds(u)) \in Nat
  <2>1. u.modified[from].loaded
    BY <1>3, <1>5
  <2> QED
    BY <1>4, <1>6, <1>7, <2>1, TotalRebalanced
<1>12. /\ Total(Holds(s3)) = Total(Holds(s2)) - s2.modified[to].balance + c
       /\ Total(Holds(s2)) \in Nat
  BY <1>7, <1>8, <1>9, <1>10, TotalRebalanced DEF Live
<1>13. Total(Holds(s3)) = Total(Holds(u))
  BY <1>3, <1>5, <1>8, <1>11, <1>12 DEF b, c
<1>14. Moves(u, s3, view)
  BY <1>7, <1>10, <1>13, KeepsTransitive DEF Moves
<1>15. Moves(s, s3, view)
  BY <1>4, <1>14, QuietMoves, MovesTransitive
<1>16. ASSUME NEW a \in Addr
       PROVE  /\ s3.modified[a].nonce = s.modified[a].nonce
              /\ s3.modified[a].just_created = s.modified[a].just_created
  <2>1. /\ s2.modified[a].nonce = u.modified[a].nonce
        /\ s2.modified[a].just_created = u.modified[a].just_created
    BY <1>7 DEF Rebalanced
  <2>2. /\ s3.modified[a].nonce = s2.modified[a].nonce
        /\ s3.modified[a].just_created = s2.modified[a].just_created
    BY <1>10 DEF Rebalanced
  <2> QED
    BY <1>3, <2>1, <2>2
<1> QED
  BY <1>c, <1>15, <1>16

LEMMA RevNat == Rev \in Nat
  BY RevAssumption DEF Revisions, FRONTIER, AMSTERDAM

\* What changes that do not journal balances do: they mark a live account.
LEMMA Amsterdam ==
    ASSUME Rev >= AMSTERDAM
    PROVE  /\ Rev >= CANCUN /\ Rev >= SPURIOUS_DRAGON /\ Rev >= BERLIN /\ Rev >= PRAGUE
           /\ Rev >= LONDON /\ ~(Rev < AMSTERDAM)
  BY RevNat DEF AMSTERDAM, CANCUN, SPURIOUS_DRAGON, BERLIN, PRAGUE, LONDON

LEMMA SelfdestructBalancesMoves ==
    ASSUME NEW view, SoundViews(view), Rev >= AMSTERDAM, NEW s, Exact(s, view),
           NEW a \in Addr, NEW b \in Addr, ~Blank(s.modified[a]), Live(s.modified[b])
    PROVE  Moves(s, SelfdestructBalances(s, a, b), view)
<1> DEFINE balance == s.modified[a].balance
           t == SelfdestructBalances(s, a, b)
<1>1. balance \in Nat /\ s.modified[b].balance \in Nat /\ Live(s.modified[a])
  BY ExactFields, AccountFields, RunsLive
<1>2. CASE ~s.modified[a].just_created
  <2> DEFINE s1 == WriteBalance(s, a, 0)
             c  == s1.modified[b].balance + balance
             s2 == WriteBalance(s1, b, c)
  <2>1. [s EXCEPT !.modified[a].balance = 0] = s1
    BY DEF WriteBalance
  <2>2. /\ Exact(s1, view) /\ Keeps(s, s1) /\ (Runnable(s) => Runnable(s1))
        /\ Rebalanced(s, s1, a, 0)
    BY <1>1, BalanceWritten DEF Live
  <2>a. t = [[s EXCEPT !.modified[a].balance = 0] EXCEPT !.modified[b].balance = @ + balance]
    BY <1>2, Amsterdam DEF SelfdestructBalances
  <2>3. t = s2
    BY <2>1, <2>a DEF WriteBalance
  <2> HIDE DEF s1
  <2>4. Live(s1.modified[b]) /\ s1.modified[b].balance \in Nat
    <3>1. s1.modified[b].balance \in Nat
      BY <2>2, ExactFields, AccountFields
    <3>2. Live(s1.modified[b])
      BY <2>2 DEF Keeps, KeepsAccount
    <3> QED
      BY <3>1, <3>2
  <2>5. c \in Nat /\ c >= s1.modified[b].balance
    BY <1>1, <2>4
  <2> HIDE DEF c
  <2>6. /\ Exact(s2, view) /\ Keeps(s1, s2) /\ (Runnable(s1) => Runnable(s2))
        /\ Rebalanced(s1, s2, b, c)
    BY <2>2, <2>4, <2>5, BalanceWritten DEF Live
  <2> HIDE DEF s2
  <2>7. /\ Total(Holds(s1)) = Total(Holds(s)) - balance + 0
        /\ Total(Holds(s)) \in Nat
    BY <1>1, <2>2, TotalRebalanced DEF Live
  <2>8. Total(Holds(s2)) = Total(Holds(s1)) - s1.modified[b].balance + c
    BY <2>2, <2>4, <2>5, <2>6, TotalRebalanced DEF Live
  <2>9. Total(Holds(s2)) = Total(Holds(s))
    BY <1>1, <2>4, <2>7, <2>8 DEF c
  <2> QED
    BY <2>2, <2>3, <2>6, <2>9, KeepsTransitive DEF Moves
<1>3. CASE s.modified[a].just_created /\ a # b
  <2> DEFINE c  == s.modified[b].balance + balance
             s1 == WriteBalance(s, b, c)
             s2 == WriteBalance(s1, a, 0)
  <2>1. [s EXCEPT !.modified[b].balance = @ + balance] = s1
    BY DEF WriteBalance
  <2>2. c \in Nat /\ c >= s.modified[b].balance
    BY <1>1
  <2> HIDE DEF c
  <2>3. /\ Exact(s1, view) /\ Keeps(s, s1) /\ (Runnable(s) => Runnable(s1))
        /\ Rebalanced(s, s1, b, c)
    BY <2>2, BalanceWritten DEF Live
  <2>a. t = [[s EXCEPT !.modified[b].balance = @ + balance] EXCEPT !.modified[a].balance = 0]
    BY <1>3, Amsterdam DEF SelfdestructBalances
  <2>4. t = s2
    BY <2>1, <2>a DEF WriteBalance
  <2> HIDE DEF s1
  <2>5. s1.modified[a] = s.modified[a]
    BY <1>3, <2>3 DEF Rebalanced
  <2>6. /\ Exact(s2, view) /\ Keeps(s1, s2) /\ (Runnable(s1) => Runnable(s2))
        /\ Rebalanced(s1, s2, a, 0)
    BY <1>1, <2>3, <2>5, BalanceWritten DEF Live
  <2> HIDE DEF s2
  <2>7. /\ Total(Holds(s1)) = Total(Holds(s)) - s.modified[b].balance + c
        /\ Total(Holds(s)) \in Nat
    BY <2>2, <2>3, TotalRebalanced DEF Live
  <2>8. Total(Holds(s2)) = Total(Holds(s1)) - s1.modified[a].balance + 0
    BY <1>1, <2>3, <2>5, <2>6, TotalRebalanced DEF Live
  <2>9. Total(Holds(s2)) = Total(Holds(s))
    BY <1>1, <2>5, <2>7, <2>8 DEF c
  <2> QED
    BY <2>3, <2>4, <2>6, <2>9, KeepsTransitive DEF Moves
<1>4. CASE s.modified[a].just_created /\ a = b
  <2>1. t = s
    BY <1>4, Amsterdam DEF SelfdestructBalances
  <2> QED
    BY <2>1, QuietSelf, QuietMoves
<1> QED
  BY <1>2, <1>3, <1>4

LEMMA SelfdestructMoves ==
    ASSUME NEW view, SoundViews(view), Rev >= AMSTERDAM, NEW s, Exact(s, view),
           NEW a \in Addr, NEW b \in Addr, ~Blank(s.modified[a])
    PROVE  Moves(s, Selfdestruct(s, a, b), view)
<1> DEFINE s0 == Get(s, a)
           s1 == Touch(s0, b)
           u1 == JournalBalanceChange(s1, b)
           u  == JournalBalanceChange(u1, a)
           s3 == SelfdestructBalances(u, a, b)
           acc == s3.modified[a]
           f  == JournalAccountFlags(s3, a)
           t  == Selfdestruct(s, a, b)
<1>a. t = IF (Rev >= CANCUN /\ ~acc.just_created) \/ acc.destructed THEN s3
          ELSE [f EXCEPT !.modified[a].destructed = TRUE]
  BY DEF Selfdestruct
<1>1. Quiet(s, s0, view) /\ Exact(s0, view)
  BY GetQuiet DEF Quiet
<1> HIDE DEF s0
<1>2. Quiet(s0, s1, view) /\ Exact(s1, view) /\ Live(s1.modified[b])
  BY <1>1, TouchQuiet DEF Quiet
<1> HIDE DEF s1
<1>3. Quiet(s1, u1, view) /\ Exact(u1, view) /\ u1.modified = s1.modified
  BY <1>2, BalanceJournaled DEF Quiet
<1> HIDE DEF u1
<1>4. Quiet(u1, u, view) /\ Exact(u, view) /\ u.modified = u1.modified
  BY <1>3, BalanceJournaled DEF Quiet
<1> HIDE DEF u
<1>5. Quiet(s, u, view)
  BY <1>1, <1>2, <1>3, <1>4, QuietTransitive
<1>6. Live(u.modified[a]) /\ Live(u.modified[b]) /\ ~Blank(u.modified[a])
  <2>1. ~Blank(u.modified[a])
    BY <1>5 DEF Quiet, Keeps, KeepsAccount
  <2> QED
    BY <1>2, <1>3, <1>4, <2>1, RunsLive
<1>7. Moves(u, s3, view)
  BY <1>4, <1>6, SelfdestructBalancesMoves
<1>8. Moves(s, s3, view)
  BY <1>5, <1>7, QuietMoves, MovesTransitive
<1>9. Exact(s3, view) /\ Live(acc) /\ acc \in Account /\ Follows(acc, view[a])
  <2>1. Exact(s3, view) /\ Live(acc)
    BY <1>6, <1>7 DEF Moves, Keeps, KeepsAccount
  <2> QED
    BY <2>1, ExactFields
<1> HIDE DEF s3
<1>10. CASE acc.just_created /\ ~acc.destructed
  <2> DEFINE new == [acc EXCEPT !.destructed = TRUE]
  <2>1. Quiet(s3, f, view) /\ Exact(f, view) /\ f.modified = s3.modified
    BY <1>9, FlagsJournaled DEF Quiet
  <2>a. t = [f EXCEPT !.modified[a].destructed = TRUE]
    BY <1>a, <1>10
  <2> HIDE DEF f
  <2>2. /\ f = [initial |-> f.initial, modified |-> f.modified, journal |-> f.journal]
        /\ f.modified \in [Addr -> Account] /\ f.journal \in Seq(JournalEntry)
        /\ f.modified[a] = acc
    BY <2>1, ExactFields
  <2>3. t = [initial |-> f.initial, modified |-> [f.modified EXCEPT ![a] = new],
             journal |-> f.journal]
    <3>1. PICK i, m, q : f = [initial |-> i, modified |-> m, journal |-> q]
      BY <2>2
    <3> QED
      BY <2>a, <2>2, <3>1
  <2>4. new \in Account
    BY <1>9 DEF Account
  <2>5. /\ new.nonce = acc.nonce /\ new.balance = acc.balance /\ new.code = acc.code
        /\ new.code_hash = acc.code_hash /\ new.storage = acc.storage
        /\ new.loaded = acc.loaded /\ new.nonexistent = acc.nonexistent
        /\ new.erase_if_empty = acc.erase_if_empty
        /\ new.just_created = acc.just_created /\ new.code_changed = acc.code_changed
        /\ new.has_initial_storage = acc.has_initial_storage
    BY <1>9 DEF Account
  <2> HIDE DEF new, t
  <2>6. Follows(new, view[a])
    BY <1>9, <1>10, <2>4, <2>5 DEF Blank, Follows, Live
  <2>7. Wrote(f, t, a, new)
    BY <2>2, <2>3 DEF Wrote, Put
  <2>8. KeepsAccount(acc, new) /\ Held(new, view[a]) = Held(acc, view[a])
    BY <2>5 DEF Blank, KeepsAccount, Live, Held
  <2>9. Runnable(f) => (new.code # NoCode => ~Blank(new))
    BY <2>2, <2>5, <2>8 DEF Runnable, KeepsAccount
  <2>10. Quiet(f, t, view)
    BY <2>1, <2>2, <2>6, <2>7, <2>8, <2>9, WroteQuiet
  <2> QED
    BY <1>8, <2>1, <2>10, QuietMoves, MovesTransitive DEF t
<1>11. CASE ~(acc.just_created /\ ~acc.destructed)
  <2>1. t = s3
    BY <1>a, <1>11, Amsterdam
  <2> QED
    BY <1>8, <2>1
<1> QED
  BY <1>10, <1>11

(* The account of a create that does not collide has no nonce, and gets one. *)
LEMMA NewContractMoves ==
    ASSUME NEW view, SoundViews(view), Rev >= AMSTERDAM, NEW s, Exact(s, view),
           NEW sender \in Addr, NEW a \in Addr, NEW value \in Nat,
           value <= Holds(s)[sender].balance, ~Collides(s, a), ~Blank(s.modified[sender])
    PROVE  /\ Moves(s, NewContract(s, sender, a, value), view)
           /\ NewContract(s, sender, a, value).modified[a].nonce > 0
<1> DEFINE found == Get(s, a).modified[a]
           s1 == GetOrCreate(s, a)
           s2 == IF found.nonexistent THEN s1 ELSE JournalCreate(s1, a)
           acc == s2.modified[a]
           new == [acc EXCEPT !.nonce = 1, !.just_created = TRUE]
           s3 == [s2 EXCEPT !.modified[a].nonce = 1, !.modified[a].just_created = TRUE]
           s4 == Get(s3, sender)
           t  == NewContract(s, sender, a, value)
<1>a. t = Transfer(s4, sender, a, value)
  BY Amsterdam DEF NewContract
<1>1. /\ found.nonce = 0 /\ found.loaded
      /\ view[a].nonce = 0 /\ view[a].code = NoCode
      /\ \A k \in Key : view[a].storage[k] = 0
  <2>1. Exact(Get(s, a), view) /\ found.loaded
    BY GetQuiet DEF Quiet
  <2>2. Follows(found, view[a])
    BY <2>1, ExactFields
  <2> HIDE DEF found
  <2>3. Blank(found)
    <3>1. CASE found.nonexistent
      BY <2>2, <3>1 DEF Blank, Follows
    <3>2. CASE ~IsCreateCollision(found)
      BY <3>2 DEF IsCreateCollision, Blank
    <3> QED
      BY <3>1, <3>2 DEF Collides, found
  <2>4. view[a].nonce \in Nat
    BY DEF SoundViews, ViewAccount
  <2>5. \A k \in Key : view[a].storage[k] = 0
    <3>1. CASE found.nonexistent
      <4>1. view[a] = NoAccount
        BY <2>2, <3>1 DEF Follows, SoundViews, Sound
      <4> QED
        BY <4>1 DEF NoAccount
    <3>2. CASE ~found.nonexistent
      <4>1. ~found.has_initial_storage
        BY <3>2 DEF Collides, IsCreateCollision, found
      <4> QED
        BY <2>1, <2>2, <4>1 DEF Follows
    <3> QED
      BY <3>1, <3>2
  <2> QED
    BY <2>1, <2>2, <2>3, <2>4, <2>5 DEF Blank, Follows
<1>2. Quiet(s, s1, view) /\ Exact(s1, view) /\ Live(s1.modified[a]) /\ s1.modified[a].nonce = 0
  BY <1>1, GetOrCreateQuiet DEF Quiet
<1> HIDE DEF s1
<1>3. Quiet(s1, s2, view) /\ s2.modified = s1.modified
  BY <1>2, CreateJournaled, QuietSelf
<1> HIDE DEF s2
<1>4. Exact(s2, view) /\ Live(acc) /\ acc.nonce = 0
  BY <1>2, <1>3 DEF Quiet
<1>5. /\ s2 = [initial |-> s2.initial, modified |-> s2.modified, journal |-> s2.journal]
      /\ s2.modified \in [Addr -> Account] /\ s2.journal \in Seq(JournalEntry)
      /\ acc \in Account /\ Follows(acc, view[a])
  BY <1>4, ExactFields
<1>7. s3 = [initial |-> s2.initial, modified |-> [s2.modified EXCEPT ![a] = new],
            journal |-> s2.journal]
  <2>1. PICK i, m, q : s2 = [initial |-> i, modified |-> m, journal |-> q]
    BY <1>5
  <2>3. m \in [Addr -> Account] /\ m[a] = acc
    BY <1>5, <2>1
  <2> DEFINE m1 == [m EXCEPT ![a].nonce = 1]
             u  == [initial |-> i, modified |-> m1, journal |-> q]
  <2>x. PICK x : x = TRUE
    OBVIOUS
  <2>5. s3 = [[s2 EXCEPT !.modified[a].nonce = 1] EXCEPT !.modified[a].just_created = x]
    BY <2>1, <2>x
  <2>6. [s2 EXCEPT !.modified[a].nonce = 1] = u
    BY <2>1, <2>3
  <2>7. [m1 EXCEPT ![a].just_created = x]
          = [m EXCEPT ![a].nonce = 1, ![a].just_created = TRUE]
    BY <2>x
  <2>9. DOMAIN m1 = Addr
    BY <2>3
  <2>10. u = [initial |-> i, modified |-> m1, journal |-> q]
    OBVIOUS
  <2> HIDE DEF m1, u
  <2>8. [u EXCEPT !.modified[a].just_created = x]
          = [initial |-> i, modified |-> [m1 EXCEPT ![a].just_created = x], journal |-> q]
    BY <2>9, <2>10
  <2>2. s3 = [initial |-> i, journal |-> q,
              modified |-> [m EXCEPT ![a].nonce = 1, ![a].just_created = TRUE]]
    BY <2>5, <2>6, <2>7, <2>8
  <2>4. [m EXCEPT ![a].nonce = 1, ![a].just_created = TRUE] = [m EXCEPT ![a] = new]
    BY <2>3
  <2> HIDE DEF new
  <2> QED
    BY <2>1, <2>2, <2>4
<1>8. new \in Account
  BY <1>5 DEF Account
<1>9. /\ new.nonce = 1 /\ new.balance = acc.balance /\ new.code = acc.code
      /\ new.code_hash = acc.code_hash /\ new.storage = acc.storage
      /\ new.loaded = acc.loaded /\ new.nonexistent = acc.nonexistent
      /\ new.destructed = acc.destructed /\ new.erase_if_empty = acc.erase_if_empty
      /\ new.just_created = TRUE /\ new.code_changed = acc.code_changed
      /\ new.has_initial_storage = acc.has_initial_storage
  BY <1>5 DEF Account
<1> HIDE DEF new, s3
<1>10. Follows(new, view[a])
  BY <1>1, <1>4, <1>5, <1>8, <1>9 DEF Blank, Follows, Live
<1>11. Wrote(s2, s3, a, new)
  BY <1>5, <1>7 DEF Wrote, Put
<1>12. KeepsAccount(acc, new) /\ Held(new, view[a]) = Held(acc, view[a])
  BY <1>9 DEF Blank, KeepsAccount, Live, Held
<1>13. new.code # NoCode => ~Blank(new)
  BY <1>9 DEF Blank
<1>14. Quiet(s2, s3, view) /\ s3.modified = [s2.modified EXCEPT ![a] = new]
  BY <1>4, <1>10, <1>11, <1>12, <1>13, WroteQuiet
<1>15. s3.modified[a] = new /\ Exact(s3, view)
  BY <1>5, <1>14 DEF Quiet
<1>16. Quiet(s3, s4, view) /\ s4.modified[sender].loaded /\ Exact(s4, view)
  BY <1>15, GetQuiet DEF Quiet
<1> HIDE DEF s4
<1>17. Quiet(s, s4, view)
  BY <1>2, <1>3, <1>14, <1>16, QuietTransitive
<1>18. value <= s4.modified[sender].balance
  <2>1. Holds(s4)[sender].balance = s4.modified[sender].balance
    BY <1>16, HoldsField
  <2> QED
    BY <1>17, <2>1 DEF Quiet
<1>19. Live(s4.modified[a]) /\ s4.modified[a].nonce > 0
  <2>1. Live(new) /\ new.nonce > 0
    BY <1>4, <1>9 DEF Live
  <2>2. KeepsAccount(new, s4.modified[a])
    BY <1>15, <1>16 DEF Quiet, Keeps
  <2> QED
    BY <2>1, <2>2 DEF Blank, KeepsAccount
<1>20. Moves(s4, t, view) /\ t.modified[a].nonce = s4.modified[a].nonce
  <2>1. ~Blank(s4.modified[sender])
    BY <1>17 DEF Quiet, Keeps, KeepsAccount
  <2> QED
    BY <1>a, <1>16, <1>18, <1>19, <2>1, TransferMoves
<1> HIDE DEF t
<1>21. Moves(s, t, view)
  BY <1>17, <1>20, QuietMoves, MovesTransitive
<1> QED
  BY <1>19, <1>20, <1>21 DEF t

LEMMA DeployCodeQuiet ==
    ASSUME NEW view, NEW s, Exact(s, view), NEW a \in Addr, NEW code \in Codes,
           s.modified[a].nonce > 0
    PROVE  Quiet(s, DeployCode(s, a, code), view)
<1> DEFINE acc == s.modified[a]
           new == [acc EXCEPT !.code_hash = code, !.code = code, !.code_changed = TRUE]
           t   == DeployCode(s, a, code)
<1>1. CASE code = NoCode
  BY <1>1, QuietSelf DEF DeployCode
<1>2. CASE code # NoCode
  <2>1. /\ s = [initial |-> s.initial, modified |-> s.modified, journal |-> s.journal]
        /\ s.modified \in [Addr -> Account] /\ s.journal \in Seq(JournalEntry)
        /\ acc \in Account /\ Follows(acc, view[a])
    BY ExactFields
  <2>2. t = [initial |-> s.initial, modified |-> [s.modified EXCEPT ![a] = new],
             journal |-> s.journal]
    <3>1. PICK i, m, q : s = [initial |-> i, modified |-> m, journal |-> q]
      BY <2>1
    <3> QED
      BY <1>2, <3>1 DEF DeployCode
  <2>3. new \in Account
    BY <2>1 DEF Account
  <2>4. /\ new.nonce = acc.nonce /\ new.balance = acc.balance
        /\ new.storage = acc.storage
        /\ new.loaded = acc.loaded /\ new.nonexistent = acc.nonexistent
        /\ new.destructed = acc.destructed /\ new.erase_if_empty = acc.erase_if_empty
        /\ new.just_created = acc.just_created /\ new.code_changed
        /\ new.has_initial_storage = acc.has_initial_storage
    BY <2>1 DEF Account
  <2> HIDE DEF new, t
  <2>5. Live(acc) /\ acc.nonce # 0 /\ acc.nonce > 0
    <3>1. acc.nonce \in Nat
      BY <2>1, AccountFields
    <3> QED
      BY <3>1, RunsLive DEF Blank
  <2>6. Follows(new, view[a])
    BY <2>1, <2>3, <2>4, <2>5 DEF Blank, Follows, Live
  <2>7. Wrote(s, t, a, new)
    BY <2>1, <2>2 DEF Wrote, Put
  <2>8. KeepsAccount(acc, new) /\ Held(new, view[a]) = Held(acc, view[a])
    BY <2>4 DEF Blank, KeepsAccount, Live, Held
  <2>9. new.code # NoCode => ~Blank(new)
    BY <2>4, <2>5 DEF Blank
  <2> QED
    BY <2>6, <2>7, <2>8, <2>9, WroteQuiet DEF t
<1> QED
  BY <1>1, <1>2

LEMMA CallEffectsMoves ==
    ASSUME NEW view, SoundViews(view), NEW s, Exact(s, view),
           NEW from \in Addr, NEW to \in Addr, NEW value \in Nat,
           value <= Holds(s)[from].balance, ~Blank(s.modified[from])
    PROVE  Moves(s, CallEffects(s, "CALL", from, to, value), view)
<1> DEFINE t == CallEffects(s, "CALL", from, to, value)
<1>1. CASE value = 0
  <2>1. t = Touch(s, to)
    BY <1>1 DEF CallEffects
  <2> QED
    BY <2>1, TouchQuiet, QuietMoves
<1>2. CASE value # 0
  <2> DEFINE s1 == GetOrCreate(s, to)
             s2 == Get(s1, from)
  <2>a. t = Transfer(s2, from, to, value)
    BY <1>2 DEF CallEffects
  <2>1. Quiet(s, s1, view) /\ Exact(s1, view) /\ Live(s1.modified[to])
    BY GetOrCreateQuiet DEF Quiet
  <2> HIDE DEF s1
  <2>2. Quiet(s1, s2, view) /\ Exact(s2, view) /\ s2.modified[from].loaded
    BY <2>1, GetQuiet DEF Quiet
  <2> HIDE DEF s2
  <2>3. Quiet(s, s2, view)
    BY <2>1, <2>2, QuietTransitive
  <2>4. value <= s2.modified[from].balance
    <3>1. Holds(s2)[from].balance = s2.modified[from].balance
      BY <2>2, HoldsField
    <3> QED
      BY <2>3, <3>1 DEF Quiet
  <2>5. Live(s2.modified[to])
    BY <2>1, <2>2 DEF Quiet, Keeps, KeepsAccount
  <2>7. ~Blank(s2.modified[from])
    BY <2>3 DEF Quiet, Keeps, KeepsAccount
  <2>6. Moves(s2, t, view)
    BY <2>a, <2>2, <2>4, <2>5, <2>7, TransferMoves
  <2> QED
    BY <2>3, <2>6, QuietMoves, MovesTransitive
<1> QED
  BY <1>1, <1>2

LEMMA RunCodeMoves ==
    ASSUME NEW view, SoundViews(view), Rev >= AMSTERDAM, NEW s, Exact(s, view),
           NEW a \in Addr, ~Blank(s.modified[a]), NEW o,
           OutcomeType(o), o.op \notin {"fail", "auth"}
    PROVE  Moves(s, RunCode(s, a, o), view)
<1> DEFINE t == RunCode(s, a, o)
<1>1. CASE o.op = "stop"
  <2>1. t = s
    BY <1>1 DEF RunCode
  <2> QED
    BY <2>1, QuietSelf, QuietMoves
<1>2. CASE o.op = "sload"
  <2>1. t = GetStorage(s, a, o.key)
    BY <1>2 DEF RunCode
  <2> QED
    BY <2>1, GetStorageQuiet, QuietMoves DEF OutcomeType
<1>3. CASE o.op = "sstore"
  <2>1. t = SetStorage(s, a, o.key, o.value)
    BY <1>3 DEF RunCode
  <2>2. o.key \in Key /\ o.value \in Val
    BY <1>3 DEF OutcomeType
  <2>3. Quiet(s, t, view)
    BY <2>1, <2>2, SetStorageQuiet
  <2> QED
    BY <2>3, QuietMoves
<1>4. CASE o.op = "call"
  <2>1. t = IF s.modified[a].balance >= o.value
            THEN CallEffects(s, "CALL", a, o.to, o.value) ELSE Get(s, o.to)
    BY <1>4 DEF RunCode
  <2>2. o.to \in Addr /\ o.value \in Nat /\ s.modified[a].balance \in Nat
    BY ExactFields, AccountFields DEF OutcomeType
  <2>3. CASE s.modified[a].balance >= o.value
    <3>1. Holds(s)[a].balance = s.modified[a].balance
      BY RunsLive, HoldsField DEF Live
    <3>2. o.value <= Holds(s)[a].balance
      BY <2>2, <2>3, <3>1
    <3>3. t = CallEffects(s, "CALL", a, o.to, o.value)
      BY <2>1, <2>3
    <3> QED
      BY <2>2, <3>2, <3>3, CallEffectsMoves
  <2>4. CASE ~(s.modified[a].balance >= o.value)
    BY <2>1, <2>2, <2>4, GetQuiet, QuietMoves
  <2> QED
    BY <2>3, <2>4
<1>5. CASE o.op = "selfdestruct"
  <2>1. t = Selfdestruct(s, a, o.to)
    BY <1>5 DEF RunCode
  <2> QED
    BY <2>1, SelfdestructMoves DEF OutcomeType
<1> QED
  BY <1>1, <1>2, <1>3, <1>4, <1>5 DEF OutcomeType

-----------------------------------------------------------------------------
(* System calls. *)

\* The states that work on the view and hold the given ether.
Reached(view, total) ==
    {s \in StateType : Exact(s, view) /\ Runnable(s) /\ Total(Holds(s)) = total}

LEMMA MovesReached ==
    ASSUME NEW view, NEW total, NEW s \in Reached(view, total), NEW t, Moves(s, t, view)
    PROVE  t \in Reached(view, total)
  BY DEF Reached, Moves, Exact

LEMMA NewReached ==
    ASSUME NEW view, SoundViews(view)
    PROVE  NewState(view) \in Reached(view, Total(view))
<1>1. Exact(NewState(view), view) /\ Runnable(NewState(view))
  BY NewExact
<1>2. Balances(view)
  BY DEF SoundViews, Balances, ViewAccount
<1>3. \A a \in Addr : Holds(NewState(view))[a].balance = view[a].balance
  BY NewExact
<1>4. Total(Holds(NewState(view))) = Total(view)
  BY <1>2, <1>3, TotalSame
<1> QED
  BY <1>1, <1>4 DEF Reached, Exact

\* A call of a system contract, with its outcome.
SystemCall(x) ==
    x.addr \in Addr /\ OutcomeType(x.outcome) /\ x.outcome.op # "auth"

(* The contract's code is run, and its account is not blank.               *)
LEMMA ExecuteSystemCallMoves ==
    ASSUME NEW view, SoundViews(view), Rev >= AMSTERDAM, NEW s, Exact(s, view),
           NEW x, SystemCall(x), ~Blank(s.modified[x.addr])
    PROVE  Moves(s, ExecuteSystemCall(s, x.addr, x.outcome), view)
<1>1. CASE x.outcome.op = "fail"
  <2>1. ExecuteSystemCall(s, x.addr, x.outcome) = GetStorage(s, x.addr, x.outcome.key)
    BY <1>1 DEF ExecuteSystemCall
  <2>2. x.addr \in Addr /\ x.outcome.key \in Key
    BY DEF SystemCall, OutcomeType
  <2> QED
    BY <2>1, <2>2, GetStorageQuiet, QuietMoves
<1>2. CASE x.outcome.op # "fail"
  <2>1. ExecuteSystemCall(s, x.addr, x.outcome) = RunCode(s, x.addr, x.outcome)
    BY <1>2 DEF ExecuteSystemCall
  <2> QED
    BY <1>2, <2>1, RunCodeMoves DEF SystemCall
<1> QED
  BY <1>1, <1>2

(* The code that is looked up belongs to an account that is not blank.     *)
LEMMA LookedUp ==
    ASSUME NEW view, SoundViews(view), NEW s, Exact(s, view), Runnable(s), NEW a \in Addr
    PROVE  /\ Moves(s, GetCode(s, a), view) /\ Exact(GetCode(s, a), view)
           /\ GetCode(s, a).modified[a].code # NoCode => ~Blank(GetCode(s, a).modified[a])
<1>1. Quiet(s, GetCode(s, a), view)
  BY GetCodeQuiet
<1>2. Runnable(GetCode(s, a)) /\ Exact(GetCode(s, a), view)
  BY <1>1 DEF Quiet
<1> QED
  BY <1>1, <1>2, QuietMoves DEF Runnable

LEMMA CallAtStartMoves ==
    ASSUME NEW view, SoundViews(view), Rev >= AMSTERDAM, NEW s, Exact(s, view), Runnable(s),
           NEW x, SystemCall(x)
    PROVE  Moves(s, CallAtStart(s, x), view)
<1> DEFINE s1 == GetCode(s, x.addr)
<1>1. /\ Moves(s, s1, view) /\ Exact(s1, view)
      /\ s1.modified[x.addr].code # NoCode => ~Blank(s1.modified[x.addr])
  BY LookedUp DEF SystemCall
<1>2. CallAtStart(s, x) = IF s1.modified[x.addr].code = NoCode THEN s1
                          ELSE ExecuteSystemCall(s1, x.addr, x.outcome)
  BY DEF CallAtStart
<1> HIDE DEF s1
<1>3. CASE s1.modified[x.addr].code = NoCode
  BY <1>1, <1>2, <1>3
<1>4. CASE s1.modified[x.addr].code # NoCode
  <2>1. Moves(s1, ExecuteSystemCall(s1, x.addr, x.outcome), view)
    BY <1>1, <1>4, ExecuteSystemCallMoves
  <2> QED
    BY <1>1, <1>2, <1>4, <2>1, MovesTransitive
<1> QED
  BY <1>3, <1>4

LEMMA CallAtEndMoves ==
    ASSUME NEW view, SoundViews(view), Rev >= AMSTERDAM, NEW total,
           NEW p \in [state : Reached(view, total), ok : BOOLEAN], NEW x, SystemCall(x)
    PROVE  CallAtEnd(p, x) \in [state : Reached(view, total), ok : BOOLEAN]
<1> DEFINE s == GetCode(p.state, x.addr)
<1>1. p.state \in Reached(view, total) /\ Exact(p.state, view) /\ Runnable(p.state)
  BY DEF Reached
<1>2. /\ Moves(p.state, s, view) /\ Exact(s, view)
      /\ s.modified[x.addr].code # NoCode => ~Blank(s.modified[x.addr])
  BY <1>1, LookedUp DEF SystemCall
<1>3. CallAtEnd(p, x) =
         IF ~p.ok \/ s.modified[x.addr].code = NoCode \/ x.outcome.op = "fail"
         THEN [p EXCEPT !.ok = FALSE]
         ELSE [p EXCEPT !.state = ExecuteSystemCall(s, x.addr, x.outcome)]
  BY DEF CallAtEnd
<1> HIDE DEF s
<1>4. CASE ~p.ok \/ s.modified[x.addr].code = NoCode \/ x.outcome.op = "fail"
  BY <1>3, <1>4
<1>5. CASE ~(~p.ok \/ s.modified[x.addr].code = NoCode \/ x.outcome.op = "fail")
  <2>1. Moves(s, ExecuteSystemCall(s, x.addr, x.outcome), view)
    BY <1>2, <1>5, ExecuteSystemCallMoves
  <2>2. ExecuteSystemCall(s, x.addr, x.outcome) \in Reached(view, total)
    BY <1>1, <1>2, <2>1, MovesTransitive, MovesReached
  <2> QED
    BY <1>3, <1>5, <2>2
<1> QED
  BY <1>4, <1>5

ContractType == [since : Nat, addr : Addr]

LEMMA ActiveType ==
    ASSUME NEW contracts \in Seq(ContractType)
    PROVE  Active(contracts) \in Seq(ContractType)
<1> DEFINE later == {i \in DOMAIN contracts : Rev < contracts[i].since}
<1>1. CASE later = {}
  BY <1>1 DEF Active
<1>2. CASE later # {}
  <2>1. later \in SUBSET Nat
    BY ElementOfSeq, LenProperties
  <2>2. PICK m \in later : \A n \in later : m <= n
    BY <1>2, <2>1, LeastNatural
  <2>3. Min(later) \in later
    BY <2>1, <2>2 DEF Min
  <2>4. Active(contracts) = SubSeq(contracts, 1, Min(later) - 1)
    BY <1>2 DEF Active
  <2>5. Min(later) \in 1..Len(contracts)
    BY <2>3, LenProperties
  <2> HIDE DEF later
  <2>6. Min(later) - 1 \in 0..Len(contracts)
    BY <2>5, LenProperties
  <2> QED
    BY <2>4, <2>6, SubSeqProperties
<1> QED
  BY <1>1, <1>2

LEMMA CallsType ==
    ASSUME NEW contracts \in {STORAGE_SYSTEM_CONTRACTS, REQUESTS_SYSTEM_CONTRACTS},
           NEW outcomes \in SystemOutcomeLists(contracts)
    PROVE  \E N \in Nat : /\ DOMAIN Calls(contracts, outcomes) = 1..N
                          /\ \A i \in 1..N : SystemCall(Calls(contracts, outcomes)[i])
<1>1. contracts \in Seq(ContractType)
  BY SystemAssumption DEF ContractType
<1>2. Active(contracts) \in Seq(ContractType)
  BY <1>1, ActiveType
<1> DEFINE N == Len(Active(contracts))
<1>3. N \in Nat /\ DOMAIN Active(contracts) = 1..N
  BY <1>2, LenProperties
<1>4. ASSUME NEW i \in 1..N PROVE SystemCall(Calls(contracts, outcomes)[i])
  <2>1. Active(contracts)[i] \in ContractType
    BY <1>2, <1>3, ElementOfSeq
  <2>2. outcomes[i] \in SystemOutcomes
    BY <1>3 DEF SystemOutcomeLists
  <2>3. OutcomeType(outcomes[i]) /\ outcomes[i].op # "auth"
    BY <2>2, SystemAssumption
  <2>4. Calls(contracts, outcomes)[i] = [addr |-> Active(contracts)[i].addr,
                                         outcome |-> outcomes[i]]
    BY <1>3 DEF Calls
  <2> QED
    BY <2>1, <2>3, <2>4 DEF SystemCall, ContractType
<1> QED
  BY <1>3, <1>4 DEF Calls

LEMMA StartReached ==
    ASSUME NEW view, SoundViews(view), Rev >= AMSTERDAM,
           NEW outcomes \in SystemOutcomeLists(STORAGE_SYSTEM_CONTRACTS)
    PROVE  StartResult(NewState(view), Calls(STORAGE_SYSTEM_CONTRACTS, outcomes))
             \in Reached(view, Total(view))
<1> DEFINE calls == Calls(STORAGE_SYSTEM_CONTRACTS, outcomes)
           St    == Reached(view, Total(view))
<1>1. PICK N \in Nat : DOMAIN calls = 1..N /\ \A i \in 1..N : SystemCall(calls[i])
  BY CallsType
<1>2. NewState(view) \in St
  BY NewReached
<1>3. \A s \in St, i \in 1..N : CallAtStart(s, calls[i]) \in St
  <2> TAKE s \in St, i \in 1..N
  <2>1. Exact(s, view) /\ Runnable(s) /\ SystemCall(calls[i])
    BY <1>1 DEF Reached
  <2> HIDE DEF calls
  <2>2. Moves(s, CallAtStart(s, calls[i]), view)
    BY <2>1, CallAtStartMoves
  <2> QED
    BY <2>2, MovesReached
<1> HIDE DEF calls, St
<1>4. PICK lab : StartLabels(lab, NewState(view), calls, St, N)
  BY <1>1, <1>2, <1>3, CallsAtStart
<1>5. StartResult(NewState(view), calls) \in St
  BY <1>4 DEF StartLabels
<1> QED
  BY <1>5 DEF calls, St

LEMMA EndReached ==
    ASSUME NEW view, SoundViews(view), Rev >= AMSTERDAM, NEW deposits \in BOOLEAN,
           NEW outcomes \in SystemOutcomeLists(REQUESTS_SYSTEM_CONTRACTS)
    PROVE  EndResult([state |-> NewState(view), ok |-> deposits],
                     Calls(REQUESTS_SYSTEM_CONTRACTS, outcomes))
             \in [state : Reached(view, Total(view)), ok : BOOLEAN]
<1> DEFINE calls == Calls(REQUESTS_SYSTEM_CONTRACTS, outcomes)
           St    == [state : Reached(view, Total(view)), ok : BOOLEAN]
           base  == [state |-> NewState(view), ok |-> deposits]
<1>1. PICK N \in Nat : DOMAIN calls = 1..N /\ \A i \in 1..N : SystemCall(calls[i])
  BY CallsType
<1>2. base \in St
  BY NewReached
<1>3. \A p \in St, i \in 1..N : CallAtEnd(p, calls[i]) \in St
  BY <1>1, CallAtEndMoves
<1> HIDE DEF calls, St, base
<1>4. PICK lab : EndLabels(lab, base, calls, St, N)
  BY <1>1, <1>2, <1>3, CallsAtEnd
<1>5. EndResult(base, calls) \in St
  BY <1>4 DEF EndLabels
<1> QED
  BY <1>5 DEF calls, St, base

-----------------------------------------------------------------------------
(* The diff of a state, as record_diff() and apply() rely on it. *)

\* An account is deleted only if there is nothing but its balance, and no
\* storage is reported that has not changed.
EntryOK(v, d) ==
    /\ d.op \in {"unchanged", "modified", "deleted"}
    /\ d.op = "deleted" => /\ v.nonce = 0 /\ v.code = NoCode
                           /\ \A k \in Key : v.storage[k] = 0
    /\ d.op = "modified" =>
         /\ d.nonce \in Nat /\ d.balance \in Nat
         /\ d.has_code \in BOOLEAN /\ d.code \in Codes
         /\ DOMAIN d.storage \in SUBSET Key
         /\ \A k \in DOMAIN d.storage : d.storage[k] \in Val /\ d.storage[k] # v.storage[k]

LEMMA NoAccountSound == Sound(NoAccount)
<1>1. NoAccount.storage = [k \in Key |-> 0] /\ NoAccount.exists = FALSE
  BY DEF NoAccount
<1>2. NoAccount \in ViewAccount
  BY ValAssumption DEF NoAccount, ViewAccount, Codes
<1> QED
  BY <1>1, <1>2 DEF Sound

\* The view after entry d, and what it says of account acc.
Applied(v, d, acc) ==
    /\ EntryOK(v, d) /\ Sound(ApplyEntry(v, d))
    /\ ApplyEntry(v, d).balance = Held(acc, v).balance

LEMMA DeletedApplied ==
    ASSUME NEW v, Sound(v), NEW acc, acc.loaded, acc.balance = 0,
           v.nonce = 0, v.code = NoCode, \A k \in Key : v.storage[k] = 0
    PROVE  Applied(v, Deleted, acc)
<1>1. Deleted.op = "deleted" /\ ApplyEntry(v, Deleted) = NoAccount
  BY DEF Deleted, ApplyEntry
<1>2. NoAccount.balance = 0
  BY DEF NoAccount
<1>3. EntryOK(v, Deleted)
  BY <1>1 DEF EntryOK, Sound
<1> QED
  BY <1>1, <1>2, <1>3, NoAccountSound DEF Applied, Held

LEMMA ModifiedApplied ==
    ASSUME NEW v, Sound(v), NEW acc, Follows(acc, v), Live(acc)
    PROVE  Applied(v, ModifiedAccount(acc), acc)
<1> DEFINE changed == {k \in Key : acc.storage[k].current # acc.storage[k].original}
           d == ModifiedAccount(acc)
           w == ApplyEntry(v, d)
<1>1. /\ acc \in Account /\ acc.nonce \in Nat /\ acc.balance \in Nat
      /\ acc.code_changed \in BOOLEAN /\ acc.code \in Codes /\ acc.loaded
      /\ acc.storage \in [Key -> StorageValue]
  BY AccountFields DEF Follows, Live
<1>2. /\ v \in ViewAccount /\ v.nonce \in Nat /\ v.code \in Codes
      /\ v.storage \in [Key -> Val]
  BY DEF Sound, ViewAccount
<1>3. /\ d.op = "modified" /\ d.nonce = acc.nonce /\ d.balance = acc.balance
      /\ d.has_code = acc.code_changed /\ d.code = acc.code
      /\ DOMAIN d.storage = changed
      /\ \A k \in changed : d.storage[k] = acc.storage[k].current
  BY DEF ModifiedAccount
<1> HIDE DEF d
<1>4. ASSUME NEW k \in changed
      PROVE  k \in Key /\ d.storage[k] \in Val /\ d.storage[k] # v.storage[k]
  <2>1. acc.storage[k].current \in Val /\ SlotFollows(acc.storage[k], v.storage[k])
    BY <1>1, SlotType DEF Follows
  <2> QED
    BY <1>3, <2>1 DEF SlotFollows
<1>5. EntryOK(v, d)
  BY <1>1, <1>3, <1>4 DEF EntryOK
<1>6. w = [exists |-> TRUE, nonce |-> acc.nonce, balance |-> acc.balance,
           code |-> IF acc.code_changed THEN acc.code ELSE v.code,
           storage |-> [k \in Key |-> IF k \in changed THEN d.storage[k] ELSE v.storage[k]]]
  <2> HIDE DEF changed
  <2> QED
    BY <1>3 DEF ApplyEntry
<1>7. /\ w.exists = TRUE /\ w.nonce = acc.nonce /\ w.balance = acc.balance
      /\ w.code = (IF acc.code_changed THEN acc.code ELSE v.code)
      /\ \A k \in Key : w.storage[k] = IF k \in changed THEN d.storage[k] ELSE v.storage[k]
  BY <1>6
<1>8. w \in ViewAccount
  <2>1. [k \in Key |-> IF k \in changed THEN d.storage[k] ELSE v.storage[k]] \in [Key -> Val]
    BY <1>2, <1>4
  <2> HIDE DEF changed
  <2> QED
    BY <1>1, <1>2, <1>6, <2>1 DEF ViewAccount
<1> HIDE DEF w
<1>9. ASSUME w.nonce = 0, w.code = NoCode, w.balance = 0
      PROVE  \A k \in Key : w.storage[k] = 0
  <2>1. ~acc.code_changed /\ acc.code_hash = v.code /\ v.nonce = 0
    BY <1>1, <1>2, <1>7, <1>9 DEF Follows
  <2>2. v.code = NoCode
    BY <1>7, <1>9, <2>1
  <2>3. changed = {}
    BY <1>7, <1>9, <2>1, <2>2 DEF Follows, Blank
  <2>4. v.balance = 0
    <3>1. v.balance \in Nat /\ acc.balance >= v.balance
      BY <1>1, <1>2, <1>7, <1>9, <2>1, <2>2 DEF Follows, Blank, ViewAccount
    <3> QED
      BY <1>7, <1>9, <3>1
  <2> QED
    BY <1>7, <2>1, <2>2, <2>3, <2>4 DEF Sound
<1>10. Sound(w)
  BY <1>7, <1>8, <1>9 DEF Sound
<1> QED
  BY <1>1, <1>5, <1>7, <1>10 DEF Applied, Held, w, d

LEMMA EntryApplied ==
    ASSUME Rev >= AMSTERDAM, NEW v, Sound(v), NEW acc, Follows(acc, v)
    PROVE  Applied(v, DiffEntry(acc, Rev), acc)
<1>1. /\ acc.nonce \in Nat /\ acc.balance \in Nat /\ v.nonce \in Nat
      /\ v \in ViewAccount /\ acc \in Account
  BY AccountFields DEF Follows, Sound, ViewAccount
<1>2. CASE ~acc.loaded \/ acc.nonexistent
  <2>1. DiffEntry(acc, Rev) = Unchanged /\ Unchanged.op = "unchanged"
    BY <1>2 DEF DiffEntry, Unchanged
  <2>2. ApplyEntry(v, Unchanged) = v
    BY DEF ApplyEntry, Unchanged
  <2>3. v.balance = Held(acc, v).balance
    <3>1. CASE ~acc.loaded
      BY <3>1 DEF Held
    <3>2. CASE acc.nonexistent
      BY <3>2 DEF Held, Follows, Sound, NoAccount
    <3> QED
      BY <1>2, <3>1, <3>2
  <2> QED
    BY <2>1, <2>2, <2>3 DEF Applied, EntryOK
<1>3. CASE Live(acc) /\ acc.destructed
  <2>1. v.nonce = 0 /\ v.code = NoCode /\ \A k \in Key : v.storage[k] = 0
    BY <1>3 DEF Follows, Sound
  <2>2. CASE acc.balance = 0
    <3>1. DiffEntry(acc, Rev) = Deleted
      BY <1>3, <2>2 DEF DiffEntry, Live
    <3> QED
      BY <1>3, <2>1, <2>2, <3>1, DeletedApplied DEF Live
  <2>3. CASE acc.balance # 0
    <3> DEFINE d == [op |-> "modified", nonce |-> 0, balance |-> acc.balance,
                     has_code |-> FALSE, code |-> NoCode, storage |-> << >>]
               w == ApplyEntry(v, d)
    <3>1. DiffEntry(acc, Rev) = d
      BY <1>3, <2>3 DEF DiffEntry, Live
    <3>2. DOMAIN d.storage = {}
      OBVIOUS
    <3>3. EntryOK(v, d)
      BY <1>1, <3>2 DEF EntryOK, Codes
    <3> DEFINE st == [k \in Key |-> v.storage[k]]
    <3>4. w = [exists |-> TRUE, nonce |-> 0, balance |-> acc.balance, code |-> v.code,
               storage |-> st]
      BY <3>2 DEF ApplyEntry
    <3>a. v.storage \in [Key -> Val] /\ v.code \in Codes
      BY <1>1 DEF ViewAccount
    <3>b. st \in [Key -> Val] /\ \A k \in Key : st[k] = 0
      BY <2>1, <3>a
    <3> HIDE DEF d, w, st
    <3>5. w \in ViewAccount
      BY <1>1, <3>4, <3>a, <3>b DEF ViewAccount
    <3>6. w.balance = acc.balance /\ w.exists = TRUE /\ \A k \in Key : w.storage[k] = 0
      BY <3>4, <3>b
    <3>7. Sound(w)
      BY <3>5, <3>6 DEF Sound
    <3> QED
      BY <1>3, <3>1, <3>3, <3>6, <3>7 DEF Applied, Held, Live, w
  <2> QED
    BY <2>2, <2>3
<1>4. CASE Live(acc) /\ ~acc.destructed /\ acc.erase_if_empty /\ IsEmpty(acc)
  <2>1. ~acc.just_created /\ v.nonce = 0 /\ v.code = NoCode
    BY <1>1, <1>4 DEF IsEmpty, Follows, Live
  <2>3. v.balance = 0
    <3>1. v.balance \in Nat /\ acc.balance >= v.balance /\ acc.balance = 0
      BY <1>1, <1>4 DEF IsEmpty, Follows, Live, Blank, ViewAccount
    <3> QED
      BY <3>1
  <2>4. \A k \in Key : v.storage[k] = 0
    BY <2>1, <2>3 DEF Sound
  <2>2. DiffEntry(acc, Rev) = Deleted
    BY <1>4, <2>1, Amsterdam DEF DiffEntry, Live
  <2> QED
    BY <1>4, <2>1, <2>2, <2>4, DeletedApplied DEF IsEmpty, Live
<1>5. CASE Live(acc) /\ ~acc.destructed /\ ~(acc.erase_if_empty /\ IsEmpty(acc))
  <2>1. DiffEntry(acc, Rev) = ModifiedAccount(acc)
    BY <1>5 DEF DiffEntry, Live
  <2> QED
    BY <1>5, <2>1, ModifiedApplied
<1> QED
  BY <1>2, <1>3, <1>4, <1>5 DEF Live

\* The diff is applied to the view.
DiffApplies(view, diff, total) ==
    /\ SoundViews(ApplyDiff(view, diff))
    /\ Total(ApplyDiff(view, diff)) = total
    /\ \A a \in Addr : EntryOK(view[a], diff.accounts[a])

(* The diff of a state that works on the view keeps it sound, and its      *)
(* balances are those that the state holds.                                *)
LEMMA DiffApplied ==
    ASSUME Rev >= AMSTERDAM, NEW view, SoundViews(view), NEW s, Exact(s, view)
    PROVE  DiffApplies(view, BuildDiff(s, Rev), Total(Holds(s)))
<1> DEFINE diff == BuildDiff(s, Rev)
           new == ApplyDiff(view, diff)
<1>1. /\ s.initial = view
      /\ \A a \in Addr : Sound(view[a]) /\ Follows(s.modified[a], view[a])
  BY ExactFields DEF SoundViews
<1>2. \A a \in Addr : /\ diff.accounts[a] = DiffEntry(s.modified[a], Rev)
                      /\ new[a] = ApplyEntry(view[a], diff.accounts[a])
  BY DEF BuildDiff, ApplyDiff
<1>3. new = [a \in Addr |-> new[a]]
  BY DEF ApplyDiff
<1>4. \A a \in Addr : Holds(s)[a] = Held(s.modified[a], view[a])
  BY <1>1 DEF Holds
<1> HIDE DEF diff, new
<1>5. ASSUME NEW a \in Addr
      PROVE  /\ EntryOK(view[a], diff.accounts[a]) /\ Sound(new[a])
             /\ new[a].balance = Holds(s)[a].balance
  <2>1. Applied(view[a], DiffEntry(s.modified[a], Rev), s.modified[a])
    BY <1>1, EntryApplied
  <2> QED
    BY <1>2, <1>4, <2>1 DEF Applied
<1>6. SoundViews(new)
  <2>1. \A a \in Addr : new[a] \in ViewAccount
    BY <1>5 DEF Sound
  <2>2. new \in [Addr -> ViewAccount]
    BY <1>3, <2>1
  <2> QED
    BY <1>5, <2>2 DEF SoundViews
<1>7. Total(new) = Total(Holds(s))
  <2>1. Balances(Holds(s))
    BY HeldType
  <2> QED
    BY <1>5, <2>1, TotalSame
<1> QED
  BY <1>5, <1>6, <1>7 DEF DiffApplies, diff, new

-----------------------------------------------------------------------------
(* The changes of a field, as record() keeps them.                          *)

ChangeType(V) == [index : Nat, value : V]

\* The changes up to index m of a field that was initial before the block.
ListOK(changes, V, initial, m) ==
    /\ changes \in Seq(ChangeType(V)) /\ initial \in V
    /\ \A n \in DOMAIN changes : changes[n].index <= m
    /\ \A i, n \in DOMAIN changes : i < n => changes[i].index < changes[n].index
    /\ Minimal(changes, initial)

Latest(changes, initial) ==
    IF changes = << >> THEN initial ELSE changes[Len(changes)].value

LEMMA EmptyList ==
    ASSUME NEW V, NEW initial \in V, NEW m
    PROVE  ListOK(<< >>, V, initial, m)
<1>1. << >> \in Seq(ChangeType(V)) /\ DOMAIN << >> = {}
  BY EmptySeq
<1> QED
  BY <1>1 DEF ListOK, Minimal

LEMMA ValueUpTo ==
    ASSUME NEW changes, NEW j, NEW initial, NEW N \in Nat, DOMAIN changes = 1..N,
           NEW i \in 0..N,
           \A n \in 1..N : changes[n].index <= j <=> n <= i
    PROVE  ValueAt(changes, j, initial) = IF i = 0 THEN initial ELSE changes[i].value
<1> DEFINE upto == {n \in DOMAIN changes : changes[n].index <= j}
<1>1. upto = {n \in 1..N : n <= i}
  OBVIOUS
<1>2. ValueAt(changes, j, initial) = IF upto = {} THEN initial ELSE changes[Max(upto)].value
  BY Zenon DEF ValueAt
<1>3. CASE i = 0
  <2>1. upto = {}
    BY <1>1, <1>3
  <2> QED
    BY <1>2, <1>3, <2>1
<1>4. CASE i # 0
  <2>1. i \in upto /\ \A n \in upto : n <= i
    BY <1>1, <1>4
  <2>2. upto \in SUBSET (1..N) /\ upto # {}
    BY <1>1, <2>1
  <2> HIDE DEF upto
  <2>3. Max(upto) \in upto /\ \A n \in upto : n <= Max(upto)
    BY <2>2, LastIndex
  <2>a. \A n \in upto : n \in Int
    BY <2>2
  <2>4. Max(upto) = i
    <3> DEFINE mx == Max(upto)
    <3>1. mx \in upto /\ i <= mx /\ mx <= i /\ mx \in Int /\ i \in Int
      BY <2>1, <2>3, <2>a
    <3> HIDE DEF mx
    <3>2. mx = i
      BY <3>1
    <3> QED
      BY <3>2 DEF mx
  <2> QED
    BY <1>2, <1>4, <2>2, <2>4
<1> QED
  BY <1>3, <1>4

(* From its last index on, a field is what it was changed to last.          *)
LEMMA LatestValue ==
    ASSUME NEW V, NEW initial, NEW m \in Int, NEW changes, ListOK(changes, V, initial, m),
           NEW j \in Int, m <= j
    PROVE  ValueAt(changes, j, initial) = Latest(changes, initial)
<1>1. changes \in Seq(ChangeType(V))
  BY DEF ListOK
<1>2. /\ Len(changes) \in Nat /\ DOMAIN changes = 1..Len(changes)
      /\ changes = << >> <=> Len(changes) = 0
      /\ \A n \in 1..Len(changes) : changes[n] \in ChangeType(V)
  BY <1>1, LenProperties, EmptySeq, ElementOfSeq
<1>3. \A n \in 1..Len(changes) : changes[n].index <= j
  <2>1. \A n \in 1..Len(changes) : changes[n].index \in Nat /\ changes[n].index <= m
    BY <1>2 DEF ListOK, ChangeType
  <2> QED
    BY <2>1
<1>4. Len(changes) \in 0..Len(changes)
  BY <1>2
<1>5. \A n \in 1..Len(changes) : changes[n].index <= j <=> n <= Len(changes)
  BY <1>2, <1>3
<1>6. ValueAt(changes, j, initial)
        = IF Len(changes) = 0 THEN initial ELSE changes[Len(changes)].value
  <2> DEFINE N == Len(changes)
  <2>1. N \in Nat /\ DOMAIN changes = 1..N /\ N \in 0..N
        /\ \A n \in 1..N : changes[n].index <= j <=> n <= N
    BY <1>2, <1>4, <1>5
  <2> HIDE DEF N
  <2>2. ValueAt(changes, j, initial) = IF N = 0 THEN initial ELSE changes[N].value
    BY <2>1, ValueUpTo
  <2> QED
    BY <2>2 DEF N
<1> QED
  BY <1>2, <1>6 DEF Latest

\* The same value at every index before m.
SameBefore(changes, more, initial, m) ==
    \A j \in Int : j < m => ValueAt(more, j, initial) = ValueAt(changes, j, initial)

(* How many changes there are up to an index.                               *)
LEMMA UpTo ==
    ASSUME NEW V, NEW initial, NEW m, NEW changes, ListOK(changes, V, initial, m), NEW j \in Int
    PROVE  \E i \in 0..Len(changes) :
              \A n \in 1..Len(changes) : changes[n].index <= j <=> n <= i
<1>1. changes \in Seq(ChangeType(V))
  BY DEF ListOK
<1>2. /\ Len(changes) \in Nat /\ DOMAIN changes = 1..Len(changes)
      /\ \A n \in 1..Len(changes) : changes[n] \in ChangeType(V)
  BY <1>1, LenProperties, ElementOfSeq
<1>3. \A n \in 1..Len(changes) : changes[n].index \in Nat
  BY <1>2 DEF ChangeType
<1>4. \A i, n \in 1..Len(changes) : i < n => changes[i].index < changes[n].index
  BY <1>2 DEF ListOK
<1> DEFINE upto == {n \in 1..Len(changes) : changes[n].index <= j}
<1>5. CASE upto = {}
  <2>1. 0 \in 0..Len(changes)
    BY <1>2
  <2> QED
    BY <1>5, <2>1, <1>2
<1>6. CASE upto # {}
  <2>1. upto \in SUBSET (1..Len(changes))
    OBVIOUS
  <2>2. Max(upto) \in upto /\ \A n \in upto : n <= Max(upto)
    <3> HIDE DEF upto
    <3> QED
      BY <1>2, <1>6, <2>1, LastIndex
  <2> DEFINE i == Max(upto)
  <2>3. i \in 1..Len(changes) /\ changes[i].index <= j
    BY <2>2
  <2>5. \A n \in 1..Len(changes) : changes[n].index <= j => n <= i
    BY <2>2
  <2> HIDE DEF i, upto
  <2>4. ASSUME NEW n \in 1..Len(changes), n <= i
        PROVE  changes[n].index <= j
    BY <1>2, <1>3, <1>4, <2>3, <2>4
  <2>6. i \in 0..Len(changes)
    BY <1>2, <2>3
  <2>7. \A n \in 1..Len(changes) : changes[n].index <= j <=> n <= i
    BY Zenon, <2>4, <2>5
  <2> QED
    BY Zenon, <2>6, <2>7
<1> QED
  BY <1>5, <1>6

(* Without the change at the last index.                                    *)
LEMMA FrontList ==
    ASSUME NEW V, NEW initial, NEW m \in Nat, NEW changes, ListOK(changes, V, initial, m),
           changes # << >>, changes[Len(changes)].index = m
    PROVE  /\ ListOK(Front(changes), V, initial, m - 1)
           /\ SameBefore(changes, Front(changes), initial, m)
<1>1. changes \in Seq(ChangeType(V))
  BY DEF ListOK
<1>2. /\ Len(changes) \in Nat /\ Len(changes) > 0 /\ DOMAIN changes = 1..Len(changes)
      /\ \A n \in 1..Len(changes) : changes[n] \in ChangeType(V)
  BY <1>1, LenProperties, EmptySeq, ElementOfSeq
<1> DEFINE N == Len(changes) - 1
           f == Front(changes)
<1>3. /\ f \in Seq(ChangeType(V)) /\ Len(f) = N /\ DOMAIN f = 1..N
      /\ \A n \in 1..N : f[n] = changes[n]
  <2>1. f = SubSeq(changes, 1, N)
    BY DEF Front
  <2>2. 1 \in 1..(Len(changes) + 1) /\ N \in 0..Len(changes)
    BY <1>2
  <2>3. /\ SubSeq(changes, 1, N) \in Seq(ChangeType(V))
        /\ Len(SubSeq(changes, 1, N)) = N
        /\ \A n \in 1..N : SubSeq(changes, 1, N)[n] = changes[n]
    BY <1>1, <1>2, <2>2, SubSeqProperties
  <2> QED
    BY <2>1, <2>3, LenProperties
<1> HIDE DEF f
<1>4. \A n \in 1..Len(changes) : changes[n].index \in Nat
  BY <1>2 DEF ChangeType
<1>5. \A n \in 1..N : changes[n].index < m /\ n \in 1..Len(changes)
  BY <1>2 DEF ListOK
<1>6. ListOK(f, V, initial, m - 1)
  <2>1. \A n \in 1..N : f[n].index <= m - 1
    BY <1>2, <1>3, <1>4, <1>5
  <2>2. \A i, n \in 1..N : i < n => f[i].index < f[n].index
    BY <1>2, <1>3, <1>5 DEF ListOK
  <2>3. Minimal(f, initial)
    <3>1. Minimal(changes, initial)
      BY DEF ListOK
    <3> SUFFICES ASSUME NEW n \in 1..N
                 PROVE  /\ f[n].value # (IF n = 1 THEN initial ELSE f[n - 1].value)
                        /\ n > 1 => f[n - 1].index < f[n].index
      BY <1>3 DEF Minimal
    <3>2. n \in DOMAIN changes /\ f[n] = changes[n] /\ (n # 1 => f[n - 1] = changes[n - 1])
      BY <1>2, <1>3
    <3> QED
      BY <3>1, <3>2 DEF Minimal
  <2>4. initial \in V
    BY DEF ListOK
  <2> QED
    BY <1>3, <2>1, <2>2, <2>3, <2>4 DEF ListOK
<1>7. ASSUME NEW j \in Int, j < m
      PROVE  ValueAt(f, j, initial) = ValueAt(changes, j, initial)
  <2>1. PICK i \in 0..Len(changes) :
            \A n \in 1..Len(changes) : changes[n].index <= j <=> n <= i
    BY UpTo
  <2>2. ~(changes[Len(changes)].index <= j) /\ Len(changes) \in 1..Len(changes)
    BY <1>2, <1>7
  <2>3. i \in 0..N
    BY <1>2, <2>1, <2>2
  <2>4. ValueAt(changes, j, initial) = IF i = 0 THEN initial ELSE changes[i].value
    BY <1>2, <2>1, ValueUpTo
  <2>5. \A n \in 1..N : f[n].index <= j <=> n <= i
    BY <1>3, <1>5, <2>1
  <2>6. ValueAt(f, j, initial) = IF i = 0 THEN initial ELSE f[i].value
    BY <1>2, <1>3, <2>3, <2>5, ValueUpTo
  <2> QED
    BY <1>3, <2>3, <2>4, <2>6
<1> QED
  BY <1>6, <1>7 DEF SameBefore, f

\* The changes with one at index m: value x from then on.
Recorded(changes, more, V, initial, m, x) ==
    /\ ListOK(more, V, initial, m)
    /\ SameBefore(changes, more, initial, m)
    /\ \A j \in Int : j >= m => ValueAt(more, j, initial) = x

(* A change is appended to earlier ones.                                    *)
LEMMA AppendedList ==
    ASSUME NEW V, NEW initial, NEW m \in Nat, NEW changes, ListOK(changes, V, initial, m - 1),
           NEW x \in V, x # Latest(changes, initial)
    PROVE  Recorded(changes, Append(changes, Change(m, x)), V, initial, m, x)
<1>1. changes \in Seq(ChangeType(V))
  BY DEF ListOK
<1>2. /\ Len(changes) \in Nat /\ DOMAIN changes = 1..Len(changes)
      /\ changes = << >> <=> Len(changes) = 0
      /\ \A n \in 1..Len(changes) : changes[n] \in ChangeType(V)
  BY <1>1, LenProperties, EmptySeq, ElementOfSeq
<1> DEFINE N == Len(changes) + 1
           e == Change(m, x)
           f == Append(changes, e)
<1>3. e \in ChangeType(V) /\ e.index = m /\ e.value = x
  BY DEF Change, ChangeType
<1> HIDE DEF e
<1>4. /\ f \in Seq(ChangeType(V)) /\ Len(f) = N /\ DOMAIN f = 1..N
      /\ f[N] = e /\ \A n \in 1..Len(changes) : f[n] = changes[n]
  <2>1. /\ f \in Seq(ChangeType(V)) /\ Len(f) = N /\ f[N] = e
        /\ \A n \in 1..Len(changes) : f[n] = changes[n]
    BY <1>1, <1>3, AppendProperties
  <2> QED
    BY <2>1, LenProperties
<1> HIDE DEF f
<1>5. \A n \in 1..Len(changes) : changes[n].index \in Nat /\ changes[n].index <= m - 1
  BY <1>2 DEF ChangeType, ListOK
<1>6. ListOK(f, V, initial, m)
  <2>1. \A n \in 1..N : f[n].index <= m
    BY <1>2, <1>3, <1>4, <1>5
  <2>2. \A i, n \in 1..N : i < n => f[i].index < f[n].index
    <3> SUFFICES ASSUME NEW i \in 1..N, NEW n \in 1..N, i < n PROVE f[i].index < f[n].index
      OBVIOUS
    <3>1. CASE n = N
      BY <1>2, <1>3, <1>4, <1>5, <3>1
    <3>2. CASE n # N
      <4>1. i \in 1..Len(changes) /\ n \in 1..Len(changes)
        BY <1>2, <3>2
      <4>2. changes[i].index < changes[n].index
        BY <1>2, <4>1 DEF ListOK
      <4> QED
        BY <1>4, <4>1, <4>2
    <3> QED
      BY <3>1, <3>2
  <2>3. Minimal(f, initial)
    <3>1. Minimal(changes, initial)
      BY DEF ListOK
    <3> SUFFICES ASSUME NEW n \in 1..N
                 PROVE  /\ f[n].value # (IF n = 1 THEN initial ELSE f[n - 1].value)
                        /\ n > 1 => f[n - 1].index < f[n].index
      BY <1>4 DEF Minimal
    <3>2. CASE n = N
      <4>1. f[n].value = x
        BY <1>3, <1>4, <3>2
      <4>2. Latest(changes, initial) = IF n = 1 THEN initial ELSE f[n - 1].value
        BY <1>2, <1>4, <3>2 DEF Latest
      <4>3. n > 1 => f[n - 1].index < f[n].index
        BY <1>4, <2>2
      <4> QED
        BY <4>1, <4>2, <4>3
    <3>3. CASE n # N
      <4>1. n \in DOMAIN changes /\ f[n] = changes[n] /\ (n # 1 => f[n - 1] = changes[n - 1])
        BY <1>2, <1>4, <3>3
      <4> QED
        BY <3>1, <4>1 DEF Minimal
    <3> QED
      BY <3>2, <3>3
  <2>4. initial \in V
    BY DEF ListOK
  <2> QED
    BY <1>4, <2>1, <2>2, <2>3, <2>4 DEF ListOK
<1>7. ASSUME NEW j \in Int, j < m
      PROVE  ValueAt(f, j, initial) = ValueAt(changes, j, initial)
  <2>1. PICK i \in 0..Len(changes) :
            \A n \in 1..Len(changes) : changes[n].index <= j <=> n <= i
    BY UpTo
  <2>4. ValueAt(changes, j, initial) = IF i = 0 THEN initial ELSE changes[i].value
    BY <1>2, <2>1, ValueUpTo
  <2>5. i \in 0..N /\ \A n \in 1..N : f[n].index <= j <=> n <= i
    <3> SUFFICES ASSUME NEW n \in 1..N PROVE f[n].index <= j <=> n <= i
      BY <1>2
    <3>1. CASE n = N
      BY <1>2, <1>3, <1>4, <1>7, <3>1
    <3>2. CASE n # N
      BY <1>2, <1>4, <2>1, <3>2
    <3> QED
      BY <3>1, <3>2
  <2>6. ValueAt(f, j, initial) = IF i = 0 THEN initial ELSE f[i].value
    BY <1>2, <1>4, <2>5, ValueUpTo
  <2> QED
    BY <1>2, <1>4, <2>4, <2>6
<1>8. ASSUME NEW j \in Int, j >= m
      PROVE  ValueAt(f, j, initial) = x
  <2>1. ValueAt(f, j, initial) = Latest(f, initial)
    BY <1>6, <1>8, LatestValue
  <2>2. f # << >>
    BY <1>2, <1>4
  <2> QED
    BY <1>3, <1>4, <2>1, <2>2 DEF Latest
<1> QED
  BY <1>6, <1>7, <1>8 DEF Recorded, SameBefore, f, e

LEMMA WiderList ==
    ASSUME NEW V, NEW initial, NEW m \in Int, NEW l \in Int, l <= m, NEW changes,
           ListOK(changes, V, initial, l)
    PROVE  ListOK(changes, V, initial, m)
<1>1. \A n \in DOMAIN changes : changes[n].index \in Nat
  <2>1. changes \in Seq(ChangeType(V))
    BY DEF ListOK
  <2>2. \A n \in DOMAIN changes : changes[n] \in ChangeType(V)
    BY <2>1, ElementOfSeq, LenProperties
  <2> QED
    BY <2>2 DEF ChangeType
<1> QED
  BY <1>1 DEF ListOK

(* record() leaves the earlier changes, and the value at the index.         *)
LEMMA RecordedList ==
    ASSUME NEW V, NEW initial, NEW m \in Nat, NEW changes, ListOK(changes, V, initial, m),
           NEW x \in V
    PROVE  Recorded(changes, Record(changes, m, x, initial), V, initial, m, x)
<1>1. changes \in Seq(ChangeType(V))
  BY DEF ListOK
<1>2. /\ Len(changes) \in Nat /\ DOMAIN changes = 1..Len(changes)
      /\ changes = << >> <=> Len(changes) = 0
      /\ \A n \in 1..Len(changes) : changes[n] \in ChangeType(V)
  BY <1>1, LenProperties, EmptySeq, ElementOfSeq
<1> DEFINE earlier == IF changes # << >> /\ Last(changes).index = m
                      THEN Front(changes) ELSE changes
           r == Record(changes, m, x, initial)
<1>3. Last(changes) = changes[Len(changes)]
  BY DEF Last
<1>4. /\ ListOK(earlier, V, initial, m - 1)
      /\ SameBefore(changes, earlier, initial, m)
  <2>1. CASE changes # << >> /\ Last(changes).index = m
    <3>1. earlier = Front(changes) /\ changes[Len(changes)].index = m
      BY <1>3, <2>1
    <3>2. /\ ListOK(Front(changes), V, initial, m - 1)
          /\ SameBefore(changes, Front(changes), initial, m)
      BY <2>1, <3>1, FrontList
    <3> QED
      BY Zenon, <3>1, <3>2
  <2>2. CASE ~(changes # << >> /\ Last(changes).index = m)
    <3>1. earlier = changes
      BY <2>2
    <3>2. \A n \in 1..Len(changes) : changes[n].index <= m - 1
      <4> SUFFICES ASSUME NEW n \in 1..Len(changes) PROVE changes[n].index <= m - 1
        OBVIOUS
      <4>1. /\ Len(changes) \in 1..Len(changes) /\ changes[Len(changes)].index \in Nat
            /\ changes[n].index \in Nat /\ changes # << >>
        BY <1>2 DEF ChangeType
      <4>2. changes[Len(changes)].index <= m /\ changes[Len(changes)].index # m
        BY <1>2, <1>3, <2>2, <4>1 DEF ListOK
      <4>3. n # Len(changes) => changes[n].index < changes[Len(changes)].index
        <5>1. \A i, k \in 1..Len(changes) : i < k => changes[i].index < changes[k].index
          BY <1>2 DEF ListOK
        <5>a. Len(changes) \in Nat
          BY <1>2
        <5>2. n # Len(changes) => n < Len(changes)
          BY <5>a
        <5> QED
          BY <4>1, <5>1, <5>2
      <4> QED
        BY <4>1, <4>2, <4>3
    <3>3. ListOK(changes, V, initial, m - 1)
      BY <1>2, <3>2 DEF ListOK
    <3> QED
      BY <3>1, <3>3 DEF SameBefore
  <2> QED
    BY <2>1, <2>2
<1>5. r = IF x # Latest(earlier, initial) THEN Append(earlier, Change(m, x)) ELSE earlier
  BY Zenon DEF Record, Latest, Last
<1> HIDE DEF earlier, r
<1>6. CASE x # Latest(earlier, initial)
  <2>1. Recorded(earlier, Append(earlier, Change(m, x)), V, initial, m, x)
    BY <1>4, <1>6, AppendedList
  <2>2. r = Append(earlier, Change(m, x))
    BY <1>5, <1>6
  <2>3. Recorded(earlier, r, V, initial, m, x)
    BY Zenon, <2>1, <2>2
  <2> QED
    BY <1>4, <2>3 DEF Recorded, SameBefore, r
<1>7. CASE x = Latest(earlier, initial)
  <2>1. r = earlier
    BY <1>5, <1>7
  <2>2. ListOK(earlier, V, initial, m)
    BY <1>4, WiderList
  <2>3. \A j \in Int : j >= m => ValueAt(earlier, j, initial) = x
    BY <1>4, <1>7, LatestValue
  <2> QED
    BY <1>4, <2>1, <2>2, <2>3 DEF Recorded, r
<1> QED
  BY <1>6, <1>7

(* A field that is not recorded keeps its value.                            *)
LEMMA KeptList ==
    ASSUME NEW V, NEW initial, NEW m \in Nat, NEW l \in Int, l <= m, NEW changes,
           ListOK(changes, V, initial, l), NEW x, x = ValueAt(changes, m, initial)
    PROVE  Recorded(changes, changes, V, initial, m, x)
<1>1. ListOK(changes, V, initial, m)
  BY WiderList
<1>2. \A j \in Int : j >= m => ValueAt(changes, j, initial) = Latest(changes, initial)
  BY LatestValue
<1> QED
  BY <1>1, <1>2 DEF Recorded, SameBefore

-----------------------------------------------------------------------------
(* What the access list says of an account.                                 *)

AccountData ==
    [listed : BOOLEAN, storage_writes : [Key -> Seq(ChangeType(Val))],
     storage_reads : SUBSET Key, balance_changes : Seq(ChangeType(Nat)),
     nonce_changes : Seq(ChangeType(Nat)), code_changes : Seq(ChangeType(Codes))]

Unlisted(data) ==
    /\ data.balance_changes = << >> /\ data.nonce_changes = << >>
    /\ data.code_changes = << >> /\ \A k \in Key : data.storage_writes[k] = << >>

\* The changes of the account v0 up to index m, of its storage up to l.
DataOK(data, v0, m, l) ==
    /\ data \in AccountData
    /\ ListOK(data.nonce_changes, Nat, v0.nonce, m)
    /\ ListOK(data.balance_changes, Nat, v0.balance, m)
    /\ ListOK(data.code_changes, Codes, v0.code, m)
    /\ \A k \in Key : ListOK(data.storage_writes[k], Val, v0.storage[k], l)
    /\ data.listed = FALSE => Unlisted(data)

\* The changes of the account, with those that make it w from index m on.
FieldsRecorded(data, more, v0, m, w) ==
    /\ Recorded(data.nonce_changes, more.nonce_changes, Nat, v0.nonce, m, w.nonce)
    /\ Recorded(data.balance_changes, more.balance_changes, Nat, v0.balance, m, w.balance)
    /\ Recorded(data.code_changes, more.code_changes, Codes, v0.code, m, w.code)
    /\ \A k \in Key : Recorded(data.storage_writes[k], more.storage_writes[k], Val,
                               v0.storage[k], m, w.storage[k])

ReplaysTo(data, more, v0, m, w) ==
    /\ \A j \in Int : j < m => ReplayAccount(more, j, v0) = ReplayAccount(data, j, v0)
    /\ \A j \in Int : j >= m => ReplayAccount(more, j, v0) = Content(w)

LEMMA NewData ==
    ASSUME NEW v0 \in ViewAccount, NEW m, NEW l
    PROVE  /\ DataOK(NewAccountData, v0, m, l)
           /\ \A j \in Int : ReplayAccount(NewAccountData, j, v0) = Content(v0)
<1>1. /\ v0.nonce \in Nat /\ v0.balance \in Nat /\ v0.code \in Codes
      /\ v0.storage \in [Key -> Val]
  BY DEF ViewAccount
<1>2. NewAccountData \in AccountData
  <2>1. /\ << >> \in Seq(ChangeType(Nat)) /\ << >> \in Seq(ChangeType(Codes))
        /\ << >> \in Seq(ChangeType(Val))
    BY EmptySeq
  <2> QED
    BY <2>1 DEF NewAccountData, AccountData
<1>3. /\ NewAccountData.nonce_changes = << >> /\ NewAccountData.balance_changes = << >>
      /\ NewAccountData.code_changes = << >>
      /\ \A k \in Key : NewAccountData.storage_writes[k] = << >>
  BY DEF NewAccountData
<1>4. DataOK(NewAccountData, v0, m, l)
  <2>1. /\ ListOK(<< >>, Nat, v0.nonce, m) /\ ListOK(<< >>, Nat, v0.balance, m)
        /\ ListOK(<< >>, Codes, v0.code, m)
    BY <1>1, EmptyList
  <2>2. \A k \in Key : ListOK(<< >>, Val, v0.storage[k], l)
    BY <1>1, EmptyList
  <2> HIDE DEF NewAccountData
  <2> QED
    BY <1>2, <1>3, <2>1, <2>2 DEF DataOK, Unlisted
<1>5. ASSUME NEW j \in Int PROVE ReplayAccount(NewAccountData, j, v0) = Content(v0)
  <2>1. \A x : ValueAt(<< >>, j, x) = x
    <3>1. {n \in DOMAIN << >> : << >>[n].index <= j} = {}
      OBVIOUS
    <3> QED
      BY Zenon, <3>1 DEF ValueAt
  <2>2. [k \in Key |-> ValueAt(NewAccountData.storage_writes[k], j, v0.storage[k])]
          = v0.storage
    <3>1. \A k \in Key : ValueAt(NewAccountData.storage_writes[k], j, v0.storage[k])
                           = v0.storage[k]
      BY Zenon, <1>3, <2>1
    <3> QED
      BY <1>1, <3>1
  <2>3. /\ ValueAt(NewAccountData.nonce_changes, j, v0.nonce) = v0.nonce
        /\ ValueAt(NewAccountData.balance_changes, j, v0.balance) = v0.balance
        /\ ValueAt(NewAccountData.code_changes, j, v0.code) = v0.code
    BY Zenon, <1>3, <2>1
  <2> HIDE DEF NewAccountData
  <2> QED
    BY Zenon, <2>2, <2>3 DEF ReplayAccount, Content
<1> QED
  BY <1>4, <1>5

LEMMA FieldsReplayed ==
    ASSUME NEW v0, NEW w \in ViewAccount, NEW m \in Nat, NEW data,
           NEW more \in AccountData, FieldsRecorded(data, more, v0, m, w),
           more.listed = FALSE => Unlisted(more)
    PROVE  DataOK(more, v0, m, m) /\ ReplaysTo(data, more, v0, m, w)
<1>1. DataOK(more, v0, m, m)
  BY DEF DataOK, FieldsRecorded, Recorded
<1>2. ASSUME NEW j \in Int, j < m
      PROVE  ReplayAccount(more, j, v0) = ReplayAccount(data, j, v0)
  <2>1. /\ ValueAt(more.nonce_changes, j, v0.nonce)
             = ValueAt(data.nonce_changes, j, v0.nonce)
        /\ ValueAt(more.balance_changes, j, v0.balance)
             = ValueAt(data.balance_changes, j, v0.balance)
        /\ ValueAt(more.code_changes, j, v0.code) = ValueAt(data.code_changes, j, v0.code)
    BY <1>2 DEF FieldsRecorded, Recorded, SameBefore
  <2>2. \A k \in Key : ValueAt(more.storage_writes[k], j, v0.storage[k])
                         = ValueAt(data.storage_writes[k], j, v0.storage[k])
    BY <1>2 DEF FieldsRecorded, Recorded, SameBefore
  <2>3. [k \in Key |-> ValueAt(more.storage_writes[k], j, v0.storage[k])]
          = [k \in Key |-> ValueAt(data.storage_writes[k], j, v0.storage[k])]
    BY <2>2
  <2> QED
    BY Zenon, <2>1, <2>3 DEF ReplayAccount
<1>3. ASSUME NEW j \in Int, j >= m
      PROVE  ReplayAccount(more, j, v0) = Content(w)
  <2>1. /\ ValueAt(more.nonce_changes, j, v0.nonce) = w.nonce
        /\ ValueAt(more.balance_changes, j, v0.balance) = w.balance
        /\ ValueAt(more.code_changes, j, v0.code) = w.code
    BY <1>3 DEF FieldsRecorded, Recorded
  <2>2. \A k \in Key : ValueAt(more.storage_writes[k], j, v0.storage[k]) = w.storage[k]
    BY <1>3 DEF FieldsRecorded, Recorded
  <2>3. w.storage \in [Key -> Val]
    BY DEF ViewAccount
  <2>4. [k \in Key |-> ValueAt(more.storage_writes[k], j, v0.storage[k])] = w.storage
    BY <2>2, <2>3
  <2> QED
    BY Zenon, <2>1, <2>4 DEF ReplayAccount, Content
<1> QED
  BY <1>1, <1>2, <1>3 DEF ReplaysTo

(* What the list says at index m is the account v.                          *)
LEMMA ReplayFields ==
    ASSUME NEW v, NEW data, NEW m, NEW v0, Content(v) = ReplayAccount(data, m, v0)
    PROVE  /\ v.nonce = ValueAt(data.nonce_changes, m, v0.nonce)
           /\ v.balance = ValueAt(data.balance_changes, m, v0.balance)
           /\ v.code = ValueAt(data.code_changes, m, v0.code)
           /\ \A k \in Key : v.storage[k] = ValueAt(data.storage_writes[k], m, v0.storage[k])
<1> DEFINE st == [k \in Key |-> ValueAt(data.storage_writes[k], m, v0.storage[k])]
<1>1. /\ v.nonce = ValueAt(data.nonce_changes, m, v0.nonce)
      /\ v.balance = ValueAt(data.balance_changes, m, v0.balance)
      /\ v.code = ValueAt(data.code_changes, m, v0.code)
      /\ v.storage = st
  <2> HIDE DEF st
  <2>1. Content(v) = [nonce |-> ValueAt(data.nonce_changes, m, v0.nonce),
                      balance |-> ValueAt(data.balance_changes, m, v0.balance),
                      code |-> ValueAt(data.code_changes, m, v0.code), storage |-> st]
    BY DEF ReplayAccount, st
  <2>2. /\ Content(v).nonce = v.nonce /\ Content(v).balance = v.balance
        /\ Content(v).code = v.code /\ Content(v).storage = v.storage
    BY DEF Content
  <2> QED
    BY <2>1, <2>2
<1> QED
  BY <1>1

(* A field of which nothing is recorded.                                    *)
LEMMA KeptFields ==
    ASSUME NEW v \in ViewAccount, NEW v0, NEW m \in Nat, NEW l \in Int, l <= m,
           NEW data, DataOK(data, v0, m, l), Content(v) = ReplayAccount(data, m, v0)
    PROVE  FieldsRecorded(data, data, v0, m, v)
<1>1. /\ v.nonce = ValueAt(data.nonce_changes, m, v0.nonce)
      /\ v.balance = ValueAt(data.balance_changes, m, v0.balance)
      /\ v.code = ValueAt(data.code_changes, m, v0.code)
      /\ \A k \in Key : v.storage[k] = ValueAt(data.storage_writes[k], m, v0.storage[k])
  BY ReplayFields
<1>2. Recorded(data.nonce_changes, data.nonce_changes, Nat, v0.nonce, m, v.nonce)
  BY <1>1, KeptList DEF DataOK
<1>3. Recorded(data.balance_changes, data.balance_changes, Nat, v0.balance, m, v.balance)
  BY <1>1, KeptList DEF DataOK
<1>4. Recorded(data.code_changes, data.code_changes, Codes, v0.code, m, v.code)
  BY <1>1, KeptList DEF DataOK
<1>5. ASSUME NEW k \in Key
      PROVE  Recorded(data.storage_writes[k], data.storage_writes[k], Val,
                      v0.storage[k], m, v.storage[k])
  BY <1>1, KeptList DEF DataOK
<1> QED
  BY <1>2, <1>3, <1>4, <1>5 DEF FieldsRecorded

\* What record_diff() makes of the account.
RecordEntry(data, m, d, v0) ==
    CASE d.op = "unchanged" -> data
      [] d.op = "modified"  -> RecordModified(data, m, d, v0)
      [] d.op = "deleted"   -> RecordDeleted(data, m, v0)

\* The changes of the account, with those of entry d for index m.
AccountRecorded(data, more, v0, m, w) ==
    DataOK(more, v0, m, m) /\ ReplaysTo(data, more, v0, m, w)

DataRecord(y, w, r, b, n, c) ==
    [listed |-> y, storage_writes |-> w, storage_reads |-> r, balance_changes |-> b,
     nonce_changes |-> n, code_changes |-> c]

LEMMA DataRecords ==
    ASSUME NEW data \in AccountData
    PROVE  \E y, w, r, b, n, c : data = DataRecord(y, w, r, b, n, c)
BY DEF AccountData, DataRecord

DataChanged(data, y, w, b, n, c) ==
    [data EXCEPT !.listed = y, !.nonce_changes = n, !.balance_changes = b,
                 !.code_changes = c, !.storage_writes = w]

LEMMA DataWith ==
    ASSUME NEW data \in AccountData, NEW y, NEW w, NEW b, NEW n, NEW c
    PROVE  DataChanged(data, y, w, b, n, c)
             = DataRecord(y, w, data.storage_reads, b, n, c)
<1>1. PICK l0, w0, r0, b0, n0, c0 : data = DataRecord(l0, w0, r0, b0, n0, c0)
  BY DataRecords
<1>2. data.storage_reads = r0
  BY <1>1 DEF DataRecord
<1> DEFINE d1 == [data EXCEPT !.listed = y]
           d2 == [d1 EXCEPT !.nonce_changes = n]
           d3 == [d2 EXCEPT !.balance_changes = b]
           d4 == [d3 EXCEPT !.code_changes = c]
           d5 == [d4 EXCEPT !.storage_writes = w]
<1>3. d1 = DataRecord(y, w0, r0, b0, n0, c0)
  BY <1>1 DEF DataRecord
<1> HIDE DEF d1
<1>4. d2 = DataRecord(y, w0, r0, b0, n, c0)
  BY <1>3 DEF DataRecord
<1> HIDE DEF d2
<1>6. d3 = DataRecord(y, w0, r0, b, n, c0)
  BY <1>4 DEF DataRecord
<1> HIDE DEF d3
<1>7. d4 = DataRecord(y, w0, r0, b, n, c)
  BY <1>6 DEF DataRecord
<1> HIDE DEF d4
<1>8. d5 = DataRecord(y, w, r0, b, n, c)
  BY <1>7 DEF DataRecord
<1> QED
  BY Zenon, <1>2, <1>8 DEF d1, d2, d3, d4, d5, DataChanged

DataDeleted(data, y, b) == [data EXCEPT !.listed = y, !.balance_changes = b]

LEMMA DataWithBalances ==
    ASSUME NEW data \in AccountData, NEW y, NEW b
    PROVE  DataDeleted(data, y, b)
             = DataRecord(y, data.storage_writes, data.storage_reads, b,
                          data.nonce_changes, data.code_changes)
<1>1. PICK l0, w0, r0, b0, n0, c0 : data = DataRecord(l0, w0, r0, b0, n0, c0)
  BY DataRecords
<1>2. /\ data.storage_writes = w0 /\ data.storage_reads = r0
      /\ data.nonce_changes = n0 /\ data.code_changes = c0
  BY <1>1 DEF DataRecord
<1> DEFINE d1 == [data EXCEPT !.listed = y]
<1>3. d1 = DataRecord(y, w0, r0, b0, n0, c0)
  BY <1>1 DEF DataRecord
<1> HIDE DEF d1
<1>4. [d1 EXCEPT !.balance_changes = b] = DataRecord(y, w0, r0, b, n0, c0)
  BY <1>3 DEF DataRecord
<1> QED
  BY Zenon, <1>2, <1>4 DEF d1, DataDeleted

FieldsAre(x, y, w, b, n, c) ==
    /\ x \in AccountData /\ x.listed = y /\ x.storage_writes = w
    /\ x.balance_changes = b /\ x.nonce_changes = n /\ x.code_changes = c

LEMMA MakeData ==
    ASSUME NEW y \in BOOLEAN, NEW w \in [Key -> Seq(ChangeType(Val))],
           NEW r \in SUBSET Key, NEW b \in Seq(ChangeType(Nat)),
           NEW n \in Seq(ChangeType(Nat)), NEW c \in Seq(ChangeType(Codes))
    PROVE  FieldsAre(DataRecord(y, w, r, b, n, c), y, w, b, n, c)
BY DEF AccountData, DataRecord, FieldsAre

(* A deleted account had nothing but its balance.                           *)
LEMMA DeletedRecorded ==
    ASSUME NEW v, Sound(v), NEW v0, NEW m \in Nat, NEW l \in Int, l <= m,
           NEW data, DataOK(data, v0, m, l), Content(v) = ReplayAccount(data, m, v0),
           v.nonce = 0, v.code = NoCode, \A k \in Key : v.storage[k] = 0
    PROVE  /\ AccountRecorded(data, RecordDeleted(data, m, v0), v0, m, NoAccount)
           /\ RecordDeleted(data, m, v0).storage_writes = data.storage_writes
<1> DEFINE b == Record(data.balance_changes, m, 0, v0.balance)
           more == RecordDeleted(data, m, v0)
<1>1. FieldsRecorded(data, data, v0, m, v)
  BY KeptFields DEF Sound
<1>2. data \in AccountData /\ ListOK(data.balance_changes, Nat, v0.balance, m)
  BY DEF DataOK
<1>3. Recorded(data.balance_changes, b, Nat, v0.balance, m, 0)
  BY <1>2, RecordedList
<1>4. b \in Seq(ChangeType(Nat))
  BY <1>3 DEF Recorded, ListOK
<1>y. PICK y \in BOOLEAN : y = TRUE
  OBVIOUS
<1>5. more = DataRecord(y, data.storage_writes, data.storage_reads, b,
                        data.nonce_changes, data.code_changes)
  <2> HIDE DEF b
  <2>1. more = DataDeleted(data, y, b)
    BY Zenon, <1>y DEF RecordDeleted, DataDeleted, b, more
  <2> HIDE DEF more
  <2> QED
    BY Zenon, <1>2, <2>1, DataWithBalances
<1> HIDE DEF b, more
<1>6. /\ data.storage_writes \in [Key -> Seq(ChangeType(Val))]
      /\ data.storage_reads \in SUBSET Key /\ data.nonce_changes \in Seq(ChangeType(Nat))
      /\ data.code_changes \in Seq(ChangeType(Codes))
  BY <1>2 DEF AccountData
<1>7. /\ more \in AccountData /\ more.listed = y
      /\ more.storage_writes = data.storage_writes /\ more.balance_changes = b
      /\ more.nonce_changes = data.nonce_changes /\ more.code_changes = data.code_changes
  <2>1. FieldsAre(DataRecord(y, data.storage_writes, data.storage_reads, b,
                             data.nonce_changes, data.code_changes),
                  y, data.storage_writes, b, data.nonce_changes, data.code_changes)
    BY <1>4, <1>6, MakeData
  <2>2. FieldsAre(more, y, data.storage_writes, b, data.nonce_changes, data.code_changes)
    BY Zenon, <1>5, <2>1
  <2> QED
    BY Zenon, <2>2 DEF FieldsAre
<1>8. /\ NoAccount.nonce = 0 /\ NoAccount.balance = 0 /\ NoAccount.code = NoCode
      /\ \A k \in Key : NoAccount.storage[k] = 0
      /\ NoAccount \in ViewAccount
  BY NoAccountSound DEF NoAccount, Sound
<1>9. FieldsRecorded(data, more, v0, m, NoAccount)
  BY <1>1, <1>3, <1>7, <1>8 DEF FieldsRecorded
<1>10. more.listed = FALSE => Unlisted(more)
  BY <1>7, <1>y
<1> QED
  BY <1>7, <1>8, <1>9, <1>10, FieldsReplayed DEF AccountRecorded, more

(* A modified account, which has nothing recorded of its storage for index *)
(* m so far.                                                               *)
LEMMA ModifiedRecorded ==
    ASSUME NEW v, Sound(v), NEW v0, NEW m \in Nat, NEW l \in Int, l < m,
           NEW data, DataOK(data, v0, m, l), Content(v) = ReplayAccount(data, m, v0),
           NEW d, d.op = "modified", EntryOK(v, d), ApplyEntry(v, d) \in ViewAccount
    PROVE  /\ AccountRecorded(data, RecordModified(data, m, d, v0), v0, m, ApplyEntry(v, d))
           /\ DOMAIN d.storage = {} =>
                 \A k \in Key : RecordModified(data, m, d, v0).storage_writes[k]
                                  = data.storage_writes[k]
<1> DEFINE n == Record(data.nonce_changes, m, d.nonce, v0.nonce)
           b == Record(data.balance_changes, m, d.balance, v0.balance)
           c == IF d.has_code THEN Record(data.code_changes, m, d.code, v0.code)
                ELSE data.code_changes
           w == [k \in Key |-> IF k \in DOMAIN d.storage
                               THEN Append(data.storage_writes[k], Change(m, d.storage[k]))
                               ELSE data.storage_writes[k]]
           more == RecordModified(data, m, d, v0)
           u == ApplyEntry(v, d)
<1>1. FieldsRecorded(data, data, v0, m, v)
  BY KeptFields DEF Sound
<1>2. /\ data \in AccountData /\ ListOK(data.balance_changes, Nat, v0.balance, m)
      /\ ListOK(data.nonce_changes, Nat, v0.nonce, m)
      /\ ListOK(data.code_changes, Codes, v0.code, m)
      /\ \A k \in Key : ListOK(data.storage_writes[k], Val, v0.storage[k], l)
  BY DEF DataOK
<1>3. /\ d.nonce \in Nat /\ d.balance \in Nat
      /\ d.has_code \in BOOLEAN /\ d.code \in Codes
      /\ DOMAIN d.storage \in SUBSET Key
      /\ \A k \in DOMAIN d.storage : d.storage[k] \in Val /\ d.storage[k] # v.storage[k]
  BY DEF EntryOK
<1>4. /\ u.nonce = d.nonce /\ u.balance = d.balance
      /\ u.code = (IF d.has_code THEN d.code ELSE v.code)
      /\ \A k \in Key : u.storage[k] = IF k \in DOMAIN d.storage THEN d.storage[k]
                                       ELSE v.storage[k]
  BY DEF ApplyEntry
<1>5. Recorded(data.nonce_changes, n, Nat, v0.nonce, m, u.nonce)
  <2> HIDE DEF u
  <2> QED
    BY <1>2, <1>3, <1>4, RecordedList
<1>6. Recorded(data.balance_changes, b, Nat, v0.balance, m, u.balance)
  <2> HIDE DEF u
  <2> QED
    BY <1>2, <1>3, <1>4, RecordedList
<1>7. Recorded(data.code_changes, c, Codes, v0.code, m, u.code)
  <2> HIDE DEF u
  <2>1. CASE d.has_code
    <3>1. c = Record(data.code_changes, m, d.code, v0.code) /\ u.code = d.code
      BY <1>4, <2>1
    <3> HIDE DEF c
    <3>2. Recorded(data.code_changes, Record(data.code_changes, m, d.code, v0.code),
                   Codes, v0.code, m, d.code)
      BY <1>2, <1>3, RecordedList
    <3> QED
      BY Zenon, <3>1, <3>2
  <2>2. CASE ~d.has_code
    BY <1>1, <1>4, <2>2 DEF FieldsRecorded
  <2> QED
    BY <2>1, <2>2
<1>8. ASSUME NEW k \in Key
      PROVE  Recorded(data.storage_writes[k], w[k], Val, v0.storage[k], m, u.storage[k])
  <2> HIDE DEF u
  <2>1. CASE k \in DOMAIN d.storage
    <3>1. w[k] = Append(data.storage_writes[k], Change(m, d.storage[k]))
          /\ u.storage[k] = d.storage[k]
      BY <1>4, <2>1
    <3> HIDE DEF w
    <3>2. ListOK(data.storage_writes[k], Val, v0.storage[k], l)
      BY <1>2
    <3>3. ListOK(data.storage_writes[k], Val, v0.storage[k], m - 1)
      BY <3>2, WiderList
    <3>4. v.storage[k] = ValueAt(data.storage_writes[k], m, v0.storage[k])
      BY ReplayFields
    <3>5. ValueAt(data.storage_writes[k], m, v0.storage[k])
            = Latest(data.storage_writes[k], v0.storage[k])
      BY <3>2, LatestValue
    <3>6. d.storage[k] # Latest(data.storage_writes[k], v0.storage[k])
      BY <1>3, <2>1, <3>4, <3>5
    <3>7. Recorded(data.storage_writes[k],
                   Append(data.storage_writes[k], Change(m, d.storage[k])), Val,
                   v0.storage[k], m, d.storage[k])
      BY <1>3, <2>1, <3>3, <3>6, AppendedList
    <3> QED
      BY Zenon, <3>1, <3>7
  <2>2. CASE k \notin DOMAIN d.storage
    <3>1. w[k] = data.storage_writes[k] /\ u.storage[k] = v.storage[k]
      BY <1>4, <2>2
    <3> QED
      BY <1>1, <3>1 DEF FieldsRecorded
  <2> QED
    BY <2>1, <2>2
<1>9. /\ n \in Seq(ChangeType(Nat)) /\ b \in Seq(ChangeType(Nat))
      /\ c \in Seq(ChangeType(Codes)) /\ w \in [Key -> Seq(ChangeType(Val))]
  <2>1. \A k \in Key : w[k] \in Seq(ChangeType(Val))
    BY <1>8 DEF Recorded, ListOK
  <2>2. w \in [Key -> Seq(ChangeType(Val))]
    <3>1. w = [k \in Key |-> w[k]]
      OBVIOUS
    <3> HIDE DEF w
    <3> QED
      BY <2>1, <3>1
  <2> HIDE DEF n, b, c, w
  <2> QED
    BY <1>5, <1>6, <1>7, <2>2 DEF Recorded, ListOK
<1>y. PICK y \in BOOLEAN : y = TRUE
  OBVIOUS
<1>10. more = DataRecord(y, w, data.storage_reads, b, n, c)
  <2>1. more = DataChanged(data, y, w, b, n, c)
    BY Zenon, <1>y DEF RecordModified, DataChanged
  <2> HIDE DEF n, b, c, w, more
  <2>2. data \in AccountData
    BY <1>2
  <2>3. DataChanged(data, y, w, b, n, c)
          = DataRecord(y, w, data.storage_reads, b, n, c)
    BY <2>2, DataWith
  <2> QED
    BY ONLY Zenon, <2>1, <2>3
<1>11. /\ \A k \in Key : DOMAIN d.storage = {} => w[k] = data.storage_writes[k]
       /\ data.storage_reads \in SUBSET Key
  BY <1>2 DEF AccountData
<1> HIDE DEF n, b, c, w, more, u
<1>12. /\ more \in AccountData /\ more.listed = y
       /\ more.storage_writes = w /\ more.balance_changes = b
       /\ more.nonce_changes = n /\ more.code_changes = c
  <2>1. FieldsAre(DataRecord(y, w, data.storage_reads, b, n, c), y, w, b, n, c)
    BY <1>9, <1>11, MakeData
  <2>2. FieldsAre(more, y, w, b, n, c)
    BY Zenon, <1>10, <2>1
  <2> QED
    BY Zenon, <2>2 DEF FieldsAre
<1>13. FieldsRecorded(data, more, v0, m, u)
  BY <1>5, <1>6, <1>7, <1>8, <1>12 DEF FieldsRecorded
<1>14. (more.listed = FALSE => Unlisted(more)) /\ u \in ViewAccount
  BY <1>12, <1>y DEF u
<1> QED
  BY <1>11, <1>12, <1>13, <1>14, FieldsReplayed DEF AccountRecorded, more, u

\* Nothing is written in storage.
NoWrites(d) == d.op = "modified" => DOMAIN d.storage = {}

LEMMA EntryRecorded ==
    ASSUME NEW v, Sound(v), NEW v0, NEW m \in Nat, NEW l \in Int, l < m,
           NEW data, DataOK(data, v0, m, l), Content(v) = ReplayAccount(data, m, v0),
           NEW d, EntryOK(v, d), Sound(ApplyEntry(v, d))
    PROVE  /\ AccountRecorded(data, RecordEntry(data, m, d, v0), v0, m, ApplyEntry(v, d))
           /\ NoWrites(d) => DataOK(RecordEntry(data, m, d, v0), v0, m, l)
<1> DEFINE more == RecordEntry(data, m, d, v0)
<1>1. d.op \in {"unchanged", "modified", "deleted"}
  BY DEF EntryOK
<1>2. \A k \in Key : ListOK(data.storage_writes[k], Val, v0.storage[k], l)
  BY DEF DataOK
<1>3. CASE d.op = "unchanged"
  <2>1. more = data /\ ApplyEntry(v, d) = v
    BY <1>3 DEF RecordEntry, ApplyEntry
  <2>2. /\ FieldsRecorded(data, data, v0, m, v) /\ data \in AccountData
        /\ data.listed = FALSE => Unlisted(data)
    <3>1. v \in ViewAccount /\ l <= m
      BY DEF Sound
    <3>2. FieldsRecorded(data, data, v0, m, v)
      BY <3>1, KeptFields
    <3> QED
      BY <3>2 DEF DataOK
  <2>3. DataOK(data, v0, m, m) /\ ReplaysTo(data, data, v0, m, v)
    BY <2>2, FieldsReplayed DEF Sound
  <2> QED
    BY Zenon, <2>1, <2>3 DEF AccountRecorded
<1>4. CASE d.op = "modified"
  <2>1. more = RecordModified(data, m, d, v0)
    BY <1>4 DEF RecordEntry
  <2>2. /\ AccountRecorded(data, RecordModified(data, m, d, v0), v0, m, ApplyEntry(v, d))
        /\ DOMAIN d.storage = {} =>
              \A k \in Key : RecordModified(data, m, d, v0).storage_writes[k]
                               = data.storage_writes[k]
    BY <1>4, ModifiedRecorded DEF Sound
  <2> HIDE DEF more
  <2>3. /\ AccountRecorded(data, more, v0, m, ApplyEntry(v, d))
        /\ DOMAIN d.storage = {} =>
              \A k \in Key : more.storage_writes[k] = data.storage_writes[k]
    BY Zenon, <2>1, <2>2
  <2>4. NoWrites(d) => \A k \in Key : ListOK(more.storage_writes[k], Val, v0.storage[k], l)
    BY <1>2, <1>4, <2>3 DEF NoWrites
  <2> QED
    BY <2>3, <2>4 DEF AccountRecorded, DataOK, more
<1>5. CASE d.op = "deleted"
  <2>1. more = RecordDeleted(data, m, v0) /\ ApplyEntry(v, d) = NoAccount
    BY <1>5 DEF RecordEntry, ApplyEntry
  <2>2. v.nonce = 0 /\ v.code = NoCode /\ \A k \in Key : v.storage[k] = 0
    BY <1>5 DEF EntryOK
  <2>3. /\ AccountRecorded(data, RecordDeleted(data, m, v0), v0, m, NoAccount)
        /\ RecordDeleted(data, m, v0).storage_writes = data.storage_writes
    BY <2>2, DeletedRecorded
  <2> HIDE DEF more
  <2>4. /\ AccountRecorded(data, more, v0, m, ApplyEntry(v, d))
        /\ more.storage_writes = data.storage_writes
    BY Zenon, <2>1, <2>3
  <2> QED
    BY <1>2, <2>4 DEF AccountRecorded, DataOK, more
<1> QED
  BY <1>1, <1>3, <1>4, <1>5

LEMMA ReadsRecorded ==
    ASSUME NEW v0, NEW m, NEW l, NEW data, DataOK(data, v0, m, l), NEW keys \in SUBSET Key
    PROVE  /\ DataOK(RecordReads(data, keys), v0, m, l)
           /\ \A j : ReplayAccount(RecordReads(data, keys), j, v0)
                       = ReplayAccount(data, j, v0)
<1> DEFINE more == RecordReads(data, keys)
<1>y. PICK y \in BOOLEAN : y = TRUE
  OBVIOUS
<1>1. data \in AccountData
  BY DEF DataOK
<1>2. PICK l0, w0, r0, b0, n0, c0 : data = DataRecord(l0, w0, r0, b0, n0, c0)
  BY <1>1, DataRecords
<1>3. /\ data.storage_writes = w0 /\ data.storage_reads = r0 /\ data.balance_changes = b0
      /\ data.nonce_changes = n0 /\ data.code_changes = c0
  BY <1>2 DEF DataRecord
<1>4. /\ w0 \in [Key -> Seq(ChangeType(Val))]
      /\ r0 \in SUBSET Key /\ n0 \in Seq(ChangeType(Nat))
      /\ b0 \in Seq(ChangeType(Nat)) /\ c0 \in Seq(ChangeType(Codes))
  BY <1>1, <1>3 DEF AccountData
<1>5. more = DataRecord(y, w0, r0 \cup keys, b0, n0, c0)
  <2> DEFINE d1 == [data EXCEPT !.listed = y]
  <2>1. more = [d1 EXCEPT !.storage_reads = @ \cup keys]
    BY Zenon, <1>y DEF RecordReads
  <2>2. d1 = DataRecord(y, w0, r0, b0, n0, c0)
    BY <1>2 DEF DataRecord
  <2> HIDE DEF d1, more
  <2> QED
    BY <2>1, <2>2 DEF DataRecord
<1>6. FieldsAre(more, y, w0, b0, n0, c0)
  <2>1. FieldsAre(DataRecord(y, w0, r0 \cup keys, b0, n0, c0), y, w0, b0, n0, c0)
    BY <1>4, MakeData
  <2> QED
    BY Zenon, <1>5, <2>1
<1> HIDE DEF more
<1>7. /\ more \in AccountData /\ more.listed = y
      /\ more.storage_writes = data.storage_writes
      /\ more.balance_changes = data.balance_changes
      /\ more.nonce_changes = data.nonce_changes
      /\ more.code_changes = data.code_changes
  BY Zenon, <1>3, <1>6 DEF FieldsAre
<1>8. DataOK(more, v0, m, l)
  BY <1>7, <1>y DEF DataOK
<1>9. \A j : ReplayAccount(more, j, v0) = ReplayAccount(data, j, v0)
  BY Zenon, <1>7 DEF ReplayAccount
<1> QED
  BY <1>8, <1>9 DEF more

-----------------------------------------------------------------------------
(* The access list.                                                         *)

\* The changes of all accounts of view up to index m, of storage up to l.
BuilderOK(builder, view, m, l) == \A a \in Addr : DataOK(builder[a], view[a], m, l)

\* What the list says of index m.
ListsAt(builder, view, m, now) ==
    \A a \in Addr : Content(now[a]) = ReplayAccount(builder[a], m, view[a])

ListsFrom(builder, more, view, m, now) ==
    \A a \in Addr : ReplaysTo(builder[a], more[a], view[a], m, now[a])

ReadsOK(diff) == \A a \in DOMAIN diff.reads : diff.reads[a] \in SUBSET Key

LEMMA BuiltReads ==
    ASSUME NEW s PROVE ReadsOK(BuildDiff(s, Rev))
BY DEF BuildDiff, ReadsOK

(* record_diff() makes of the list one of the next state as well.           *)
LEMMA DiffRecorded ==
    ASSUME NEW view, NEW now, SoundViews(now), NEW m \in Nat, NEW l \in Int, l < m,
           NEW builder, BuilderOK(builder, view, m, l), ListsAt(builder, view, m, now),
           NEW diff, ReadsOK(diff), NEW total, DiffApplies(now, diff, total),
           NEW more, more = RecordDiff(builder, m, diff, view)
    PROVE  /\ BuilderOK(more, view, m, m)
           /\ ListsFrom(builder, more, view, m, ApplyDiff(now, diff))
           /\ (\A a \in Addr : NoWrites(diff.accounts[a])) => BuilderOK(more, view, m, l)
<1> SUFFICES ASSUME NEW a \in Addr
             PROVE  /\ DataOK(more[a], view[a], m, m)
                    /\ ReplaysTo(builder[a], more[a], view[a], m, ApplyDiff(now, diff)[a])
                    /\ NoWrites(diff.accounts[a]) => DataOK(more[a], view[a], m, l)
  BY Zenon DEF BuilderOK, ListsFrom
<1> DEFINE ad == IF a \in DOMAIN diff.reads
                 THEN RecordReads(builder[a], diff.reads[a]) ELSE builder[a]
           d  == diff.accounts[a]
           w  == ApplyDiff(now, diff)[a]
<1>1. more[a] = RecordEntry(ad, m, d, view[a])
  <2>1. more = RecordDiff(builder, m, diff, view)
    OBVIOUS
  <2>2. \A f : f = RecordDiff(builder, m, diff, view) => f[a] = RecordEntry(ad, m, d, view[a])
    BY Zenon DEF RecordDiff, RecordEntry
  <2> QED
    BY Zenon, <2>1, <2>2
<1>2. w = ApplyEntry(now[a], d)
  BY DEF ApplyDiff
<1>3. DataOK(builder[a], view[a], m, l) /\ Content(now[a]) = ReplayAccount(builder[a], m, view[a])
  BY DEF BuilderOK, ListsAt
<1>4. /\ DataOK(ad, view[a], m, l)
      /\ \A j : ReplayAccount(ad, j, view[a]) = ReplayAccount(builder[a], j, view[a])
  <2>1. CASE a \in DOMAIN diff.reads
    <3>1. ad = RecordReads(builder[a], diff.reads[a]) /\ diff.reads[a] \in SUBSET Key
      BY <2>1 DEF ReadsOK
    <3> HIDE DEF ad
    <3>2. /\ DataOK(RecordReads(builder[a], diff.reads[a]), view[a], m, l)
          /\ \A j : ReplayAccount(RecordReads(builder[a], diff.reads[a]), j, view[a])
                      = ReplayAccount(builder[a], j, view[a])
      BY <1>3, <3>1, ReadsRecorded
    <3> QED
      BY Zenon, <3>1, <3>2
  <2>2. CASE a \notin DOMAIN diff.reads
    BY Zenon, <1>3, <2>2
  <2> QED
    BY <2>1, <2>2
<1>5. /\ Sound(now[a]) /\ EntryOK(now[a], d) /\ Sound(w)
  BY DEF SoundViews, DiffApplies
<1> HIDE DEF ad, d, w
<1>6. Sound(ApplyEntry(now[a], d))
  BY Zenon, <1>2, <1>5
<1>7. Content(now[a]) = ReplayAccount(ad, m, view[a])
  BY Zenon, <1>3, <1>4
<1>8. /\ AccountRecorded(ad, RecordEntry(ad, m, d, view[a]), view[a], m, ApplyEntry(now[a], d))
      /\ NoWrites(d) => DataOK(RecordEntry(ad, m, d, view[a]), view[a], m, l)
  BY <1>4, <1>5, <1>6, <1>7, EntryRecorded
<1>9. /\ AccountRecorded(ad, more[a], view[a], m, w)
      /\ NoWrites(d) => DataOK(more[a], view[a], m, l)
  BY Zenon, <1>1, <1>2, <1>8
<1>10. ReplaysTo(builder[a], more[a], view[a], m, w)
  BY <1>4, <1>9 DEF AccountRecorded, ReplaysTo
<1> QED
  BY <1>9, <1>10 DEF AccountRecorded, d, w

\* The list says of each index so far what the state was.
HistoryOK(builder, view, hist) ==
    \A j \in 1..Len(hist) : ListsAt(builder, view, j - 1, hist[j])

Views == [Addr -> ViewAccount]

(* Nothing changes after the last index.                                    *)
LEMMA ListsOn ==
    ASSUME NEW builder, NEW view, NEW m \in Int, BuilderOK(builder, view, m, m),
           NEW now, ListsAt(builder, view, m, now), NEW j \in Int, m <= j
    PROVE  ListsAt(builder, view, j, now)
<1> SUFFICES ASSUME NEW a \in Addr
             PROVE  Content(now[a]) = ReplayAccount(builder[a], j, view[a])
  BY DEF ListsAt
<1> DEFINE data == builder[a]
           v0   == view[a]
<1>1. DataOK(data, v0, m, m) /\ Content(now[a]) = ReplayAccount(data, m, v0)
  BY DEF BuilderOK, ListsAt
<1> HIDE DEF data, v0
<1>2. /\ ListOK(data.nonce_changes, Nat, v0.nonce, m)
      /\ ListOK(data.balance_changes, Nat, v0.balance, m)
      /\ ListOK(data.code_changes, Codes, v0.code, m)
      /\ \A k \in Key : ListOK(data.storage_writes[k], Val, v0.storage[k], m)
  BY <1>1 DEF DataOK
<1>3. /\ ValueAt(data.nonce_changes, j, v0.nonce) = ValueAt(data.nonce_changes, m, v0.nonce)
      /\ ValueAt(data.balance_changes, j, v0.balance)
           = ValueAt(data.balance_changes, m, v0.balance)
      /\ ValueAt(data.code_changes, j, v0.code) = ValueAt(data.code_changes, m, v0.code)
  <2>1. /\ ValueAt(data.nonce_changes, j, v0.nonce) = Latest(data.nonce_changes, v0.nonce)
        /\ ValueAt(data.nonce_changes, m, v0.nonce) = Latest(data.nonce_changes, v0.nonce)
    BY <1>2, LatestValue
  <2>2. /\ ValueAt(data.balance_changes, j, v0.balance)
             = Latest(data.balance_changes, v0.balance)
        /\ ValueAt(data.balance_changes, m, v0.balance)
             = Latest(data.balance_changes, v0.balance)
    BY <1>2, LatestValue
  <2>3. /\ ValueAt(data.code_changes, j, v0.code) = Latest(data.code_changes, v0.code)
        /\ ValueAt(data.code_changes, m, v0.code) = Latest(data.code_changes, v0.code)
    BY <1>2, LatestValue
  <2> QED
    BY <2>1, <2>2, <2>3
<1>4. ASSUME NEW k \in Key
      PROVE  ValueAt(data.storage_writes[k], j, v0.storage[k])
               = ValueAt(data.storage_writes[k], m, v0.storage[k])
  <2>1. ListOK(data.storage_writes[k], Val, v0.storage[k], m)
    BY <1>2
  <2>2. /\ ValueAt(data.storage_writes[k], j, v0.storage[k])
             = Latest(data.storage_writes[k], v0.storage[k])
        /\ ValueAt(data.storage_writes[k], m, v0.storage[k])
             = Latest(data.storage_writes[k], v0.storage[k])
    BY <2>1, LatestValue
  <2> QED
    BY <2>2
<1>5. [k \in Key |-> ValueAt(data.storage_writes[k], j, v0.storage[k])]
        = [k \in Key |-> ValueAt(data.storage_writes[k], m, v0.storage[k])]
  BY <1>4
<1>6. ReplayAccount(data, j, v0) = ReplayAccount(data, m, v0)
  BY Zenon, <1>3, <1>5 DEF ReplayAccount
<1> QED
  BY <1>1, <1>6 DEF data, v0

(* What is recorded for an index leaves the indices before it.              *)
LEMMA ListsBefore ==
    ASSUME NEW builder, NEW more, NEW view, NEW m \in Nat, NEW next,
           ListsFrom(builder, more, view, m, next)
    PROVE  /\ \A j \in Int : \A now : j < m /\ ListsAt(builder, view, j, now)
                               => ListsAt(more, view, j, now)
           /\ ListsAt(more, view, m, next)
BY DEF ListsFrom, ListsAt, ReplaysTo

LEMMA WiderBuilder ==
    ASSUME NEW builder, NEW view, NEW l \in Int, NEW m \in Int, l <= m,
           BuilderOK(builder, view, l, l)
    PROVE  BuilderOK(builder, view, m, m)
<1> SUFFICES ASSUME NEW a \in Addr PROVE DataOK(builder[a], view[a], m, m)
  BY DEF BuilderOK
<1>1. DataOK(builder[a], view[a], l, l)
  BY DEF BuilderOK
<1>2. /\ ListOK(builder[a].nonce_changes, Nat, view[a].nonce, m)
      /\ ListOK(builder[a].balance_changes, Nat, view[a].balance, m)
      /\ ListOK(builder[a].code_changes, Codes, view[a].code, m)
  BY <1>1, WiderList DEF DataOK
<1>3. \A k \in Key : ListOK(builder[a].storage_writes[k], Val, view[a].storage[k], m)
  BY <1>1, WiderList DEF DataOK
<1> QED
  BY <1>1, <1>2, <1>3 DEF DataOK

\* What is known of the list after the last index, storage up to index l.
BalOK(builder, view, now, hist, l) ==
    /\ hist \in Seq(Views)
    /\ BuilderOK(builder, view, Len(hist) - 1, l)
    /\ ListsAt(builder, view, Len(hist) - 1, now)
    /\ HistoryOK(builder, view, hist)

LEMMA Appended ==
    ASSUME NEW hist \in Seq(Views), NEW next \in Views
    PROVE  /\ Append(hist, next) \in Seq(Views)
           /\ Len(hist) \in Nat /\ Len(Append(hist, next)) = Len(hist) + 1
           /\ Append(hist, next)[Len(hist) + 1] = next
           /\ \A j \in 1..Len(hist) : Append(hist, next)[j] = hist[j]
BY LenProperties, AppendProperties

(* The next index: nothing happens ...                                      *)
LEMMA IndexSkipped ==
    ASSUME NEW builder, NEW view, NEW now \in Views, NEW hist,
           BalOK(builder, view, now, hist, Len(hist) - 1)
    PROVE  BalOK(builder, view, now, Append(hist, now), Len(hist))
<1> DEFINE m == Len(hist)
           h == Append(hist, now)
<1>1. /\ h \in Seq(Views) /\ m \in Nat /\ Len(h) = m + 1 /\ h[m + 1] = now
      /\ \A j \in 1..m : h[j] = hist[j]
  BY Appended DEF BalOK
<1>2. BuilderOK(builder, view, m - 1, m - 1) /\ ListsAt(builder, view, m - 1, now)
  BY DEF BalOK
<1>a. \A j \in 1..m : ListsAt(builder, view, j - 1, hist[j])
  BY DEF BalOK, HistoryOK
<1> HIDE DEF m, h
<1>3. BuilderOK(builder, view, m, m) /\ ListsAt(builder, view, m, now)
  BY <1>1, <1>2, WiderBuilder, ListsOn
<1>4. HistoryOK(builder, view, h)
  <2> SUFFICES ASSUME NEW j \in 1..(m + 1) PROVE ListsAt(builder, view, j - 1, h[j])
    BY <1>1 DEF HistoryOK
  <2>1. CASE j = m + 1
    <3>1. j - 1 = m /\ h[j] = now
      BY <1>1, <2>1
    <3> QED
      BY <1>3, <3>1
  <2>2. CASE j # m + 1
    <3>1. j \in 1..m /\ h[j] = hist[j]
      BY <1>1, <2>2
    <3> QED
      BY <1>a, <3>1
  <2> QED
    BY <2>1, <2>2
<1>5. Len(h) - 1 = m
  BY <1>1
<1>6. BalOK(builder, view, now, h, m)
  BY <1>1, <1>3, <1>4, <1>5 DEF BalOK
<1> QED
  BY <1>6 DEF m, h

(* ... or a diff is recorded.                                               *)
LEMMA IndexRecorded ==
    ASSUME NEW builder, NEW view, NEW now, SoundViews(now), NEW hist,
           BalOK(builder, view, now, hist, Len(hist) - 1),
           NEW diff, ReadsOK(diff), NEW total, DiffApplies(now, diff, total),
           NEW next, next = ApplyDiff(now, diff),
           NEW more, more = RecordDiff(builder, Len(hist), diff, view)
    PROVE  /\ BalOK(more, view, next, Append(hist, next), Len(hist))
           /\ (\A a \in Addr : NoWrites(diff.accounts[a])) =>
                 BalOK(more, view, next, Append(hist, next), Len(hist) - 1)
<1> DEFINE m == Len(hist)
           h == Append(hist, next)
<1>1. next \in Views
  BY DEF DiffApplies, SoundViews, Views
<1>2. /\ h \in Seq(Views) /\ m \in Nat /\ Len(h) = m + 1 /\ h[m + 1] = next
      /\ \A j \in 1..m : h[j] = hist[j]
  BY <1>1, Appended DEF BalOK
<1>3. BuilderOK(builder, view, m - 1, m - 1) /\ ListsAt(builder, view, m - 1, now)
  BY DEF BalOK
<1>a. \A j \in 1..m : ListsAt(builder, view, j - 1, hist[j])
  BY DEF BalOK, HistoryOK
<1>b. more = RecordDiff(builder, m, diff, view)
  OBVIOUS
<1> HIDE DEF m, h
<1>4. BuilderOK(builder, view, m, m - 1) /\ ListsAt(builder, view, m, now)
  <2>1. ListsAt(builder, view, m, now)
    BY <1>2, <1>3, ListsOn
  <2>2. BuilderOK(builder, view, m, m)
    BY <1>2, <1>3, WiderBuilder
  <2> QED
    BY <1>3, <2>1, <2>2 DEF BuilderOK, DataOK
<1>5. /\ BuilderOK(more, view, m, m)
      /\ ListsFrom(builder, more, view, m, next)
      /\ (\A a \in Addr : NoWrites(diff.accounts[a])) => BuilderOK(more, view, m, m - 1)
  <2>1. m - 1 \in Int /\ m - 1 < m /\ m \in Nat
    BY <1>2
  <2> QED
    BY <1>4, <1>b, <2>1, DiffRecorded
<1>6. /\ \A j \in Int : \A x : j < m /\ ListsAt(builder, view, j, x) => ListsAt(more, view, j, x)
      /\ ListsAt(more, view, m, next)
  BY <1>2, <1>5, ListsBefore
<1>7. HistoryOK(more, view, h)
  <2> SUFFICES ASSUME NEW j \in 1..(m + 1) PROVE ListsAt(more, view, j - 1, h[j])
    BY <1>2 DEF HistoryOK
  <2>1. CASE j = m + 1
    <3>1. j - 1 = m /\ h[j] = next
      BY <1>2, <2>1
    <3> QED
      BY <1>6, <3>1
  <2>2. CASE j # m + 1
    <3>1. j \in 1..m /\ h[j] = hist[j] /\ j - 1 \in Int /\ j - 1 < m
      BY <1>2, <2>2
    <3>2. ListsAt(builder, view, j - 1, hist[j])
      BY <1>a, <3>1
    <3> QED
      BY <1>6, <3>1, <3>2
  <2> QED
    BY <2>1, <2>2
<1>8. Len(h) - 1 = m
  BY <1>2
<1>9. /\ BalOK(more, view, next, h, m)
      /\ (\A a \in Addr : NoWrites(diff.accounts[a])) => BalOK(more, view, next, h, m - 1)
  BY <1>2, <1>5, <1>6, <1>7, <1>8 DEF BalOK
<1> QED
  BY <1>9 DEF m, h

(* The second diff of the last index, which had no writes in storage.       *)
LEMMA LastRecorded ==
    ASSUME NEW builder, NEW view, NEW now, SoundViews(now), NEW hist, Len(hist) > 0,
           BalOK(builder, view, now, hist, Len(hist) - 2),
           NEW diff, ReadsOK(diff), NEW total, DiffApplies(now, diff, total),
           NEW next, next = ApplyDiff(now, diff),
           NEW more, more = RecordDiff(builder, Len(hist) - 1, diff, view)
    PROVE  BalOK(more, view, next, [hist EXCEPT ![Len(hist)] = next], Len(hist) - 1)
<1> DEFINE n == Len(hist)
           h == [hist EXCEPT ![n] = next]
<1>1. next \in Views
  BY DEF DiffApplies, SoundViews, Views
<1>2. /\ h \in Seq(Views) /\ n \in Nat /\ n > 0 /\ Len(h) = n /\ h[n] = next
      /\ \A j \in 1..n : j # n => h[j] = hist[j]
  <2>1. hist \in Seq(Views)
    BY DEF BalOK
  <2> QED
    BY <1>1, <2>1, LenProperties, ExceptSeq
<1>3. /\ BuilderOK(builder, view, n - 1, n - 2) /\ ListsAt(builder, view, n - 1, now)
      /\ \A j \in 1..n : ListsAt(builder, view, j - 1, hist[j])
  BY DEF BalOK, HistoryOK
<1>b. more = RecordDiff(builder, n - 1, diff, view)
  OBVIOUS
<1> HIDE DEF n, h
<1>4. /\ BuilderOK(more, view, n - 1, n - 1)
      /\ ListsFrom(builder, more, view, n - 1, next)
  <2>1. n - 2 \in Int /\ n - 2 < n - 1 /\ n - 1 \in Nat
    BY <1>2
  <2> QED
    BY <1>3, <1>b, <2>1, DiffRecorded
<1>5. /\ \A j \in Int : \A x : j < n - 1 /\ ListsAt(builder, view, j, x)
                             => ListsAt(more, view, j, x)
      /\ ListsAt(more, view, n - 1, next)
  <2>1. n - 1 \in Nat
    BY <1>2
  <2> QED
    BY <1>4, <2>1, ListsBefore
<1>6. HistoryOK(more, view, h)
  <2> SUFFICES ASSUME NEW j \in 1..n PROVE ListsAt(more, view, j - 1, h[j])
    BY <1>2 DEF HistoryOK
  <2>1. CASE j = n
    BY <1>2, <1>5, <2>1
  <2>2. CASE j # n
    <3>1. h[j] = hist[j] /\ j - 1 \in Int /\ j - 1 < n - 1
      BY <1>2, <2>2
    <3>2. ListsAt(builder, view, j - 1, hist[j])
      BY <1>3
    <3> QED
      BY <1>5, <3>1, <3>2
  <2> QED
    BY <2>1, <2>2
<1>7. BalOK(more, view, next, h, n - 1)
  BY <1>2, <1>4, <1>5, <1>6 DEF BalOK
<1> QED
  BY <1>7 DEF n, h

(* The last index ends without the second diff.                             *)
LEMMA LastSkipped ==
    ASSUME NEW builder, NEW view, NEW now \in Views, NEW hist, Len(hist) > 0,
           BalOK(builder, view, now, hist, Len(hist) - 2)
    PROVE  BalOK(builder, view, now, [hist EXCEPT ![Len(hist)] = now], Len(hist) - 1)
<1> DEFINE n == Len(hist)
           h == [hist EXCEPT ![n] = now]
<1>1. /\ h \in Seq(Views) /\ n \in Nat /\ n > 0 /\ Len(h) = n /\ h[n] = now
      /\ \A j \in 1..n : j # n => h[j] = hist[j]
  <2>1. hist \in Seq(Views)
    BY DEF BalOK
  <2> QED
    BY <2>1, LenProperties, ExceptSeq
<1>2. /\ BuilderOK(builder, view, n - 1, n - 2) /\ ListsAt(builder, view, n - 1, now)
      /\ \A j \in 1..n : ListsAt(builder, view, j - 1, hist[j])
  BY DEF BalOK, HistoryOK
<1> HIDE DEF n, h
<1>3. BuilderOK(builder, view, n - 1, n - 1)
  <2> SUFFICES ASSUME NEW a \in Addr PROVE DataOK(builder[a], view[a], n - 1, n - 1)
    BY DEF BuilderOK
  <2>1. DataOK(builder[a], view[a], n - 1, n - 2)
    BY <1>2 DEF BuilderOK
  <2>2. \A k \in Key : ListOK(builder[a].storage_writes[k], Val, view[a].storage[k], n - 1)
    <3>1. n - 2 \in Int /\ n - 1 \in Int /\ n - 2 <= n - 1
      BY <1>1
    <3>2. \A k \in Key : ListOK(builder[a].storage_writes[k], Val, view[a].storage[k], n - 2)
      BY <2>1 DEF DataOK
    <3> QED
      BY <3>1, <3>2, WiderList
  <2> QED
    BY <2>1, <2>2 DEF DataOK
<1>4. HistoryOK(builder, view, h)
  BY <1>1, <1>2 DEF HistoryOK
<1>5. BalOK(builder, view, now, h, n - 1)
  BY <1>1, <1>2, <1>3, <1>4 DEF BalOK
<1> QED
  BY <1>5 DEF n, h

-----------------------------------------------------------------------------
(* The costs of a transaction. *)

LEMMA TimesAtMost ==
    ASSUME NEW x \in Nat, NEW a \in Nat, NEW b \in Nat, a <= b
    PROVE  x * a <= x * b /\ x * a \in Nat /\ x * b \in Nat
<1>1. PICK c \in Nat : b = a + c
  <2>1. b - a \in Nat /\ b = a + (b - a)
    OBVIOUS
  <2> QED
    BY <2>1
<1>2. x * b = x * a + x * c /\ x * c \in Nat /\ x * a \in Nat
  BY <1>1
<1> QED
  BY <1>2

\* What the transaction pays for gas and blobs before it is executed.
Fee(t) == t.gas_limit * EffectiveGasPrice(t)
            + (IF t.type = "blob" THEN BlobGasUsed(t) * BlobBaseFee ELSE 0)

TransactionType(t) ==
    /\ t.sender \in Addr /\ t.to \in Addr \cup {NoAddr} /\ Recipient(t) \in Addr
    /\ t.gas_limit \in Nat /\ t.min \in Nat /\ t.intrinsic \in Nat /\ t.blobs \in Nat
    /\ t.value \in Nat /\ t.max_gas_price \in Nat
    /\ t.max_priority_gas_price \in Nat /\ t.max_blob_gas_price \in Nat
    /\ t.type # "blob" => t.blobs = 0
    /\ t.auths \in Seq([authority : Addr \cup {NoAddr}, nonce : Nat, code : Codes])

LEMMA TransactionTyped ==
    ASSUME NEW t \in Transactions PROVE TransactionType(t)
<1>1. t.to # NoAddr => Recipient(t) = t.to
  BY DEF Recipient
<1>2. t.to = NoAddr => Recipient(t) = CreateAddress[<<t.sender, t.nonce>>]
  BY DEF Recipient
<1> QED
  BY <1>1, <1>2, TransactionAssumption, MessageAssumption DEF TransactionType

\* What is known of a transaction that was accepted.
AcceptedOn(view, t) ==
    \E g, sg, b : ValidateTransaction(view, t, g, sg, b)

LEMMA AcceptedFields ==
    ASSUME NEW view, NEW t, AcceptedOn(view, t)
    PROVE  /\ t.type = "blob" => t.max_blob_gas_price >= BlobBaseFee
           /\ t.max_gas_price >= BaseFee
           /\ view[t.sender].balance >= MaxTotalFee(t)
           /\ t.gas_limit - StateGasLimit(t) >= Greatest(t.intrinsic, t.min)
<1>1. PICK g, sg, b : ValidateTransaction(view, t, g, sg, b)
  BY DEF AcceptedOn
<1>2. /\ ValidType(t, b) /\ t.max_gas_price >= BaseFee
      /\ ValidSender(view[t.sender], t)
      /\ t.gas_limit - StateGasLimit(t) >= Greatest(t.intrinsic, t.min)
  BY Zenon, <1>1 DEF ValidateTransaction
<1>3. view[t.sender].balance >= MaxTotalFee(t)
  BY Zenon, <1>2 DEF ValidSender
<1>4. t.type = "blob" => t.max_blob_gas_price >= BlobBaseFee
  BY Zenon, <1>2 DEF ValidType, ValidBlobs
<1> QED
  BY Zenon, <1>2, <1>3, <1>4

LEMMA Prices ==
    ASSUME NEW t, TransactionType(t), t.max_gas_price >= BaseFee
    PROVE  /\ PriorityGasPrice(t) \in Nat /\ EffectiveGasPrice(t) \in Nat
           /\ EffectiveGasPrice(t) = BaseFee + PriorityGasPrice(t)
           /\ EffectiveGasPrice(t) <= t.max_gas_price
           /\ BaseFee \in Nat /\ BlobBaseFee \in Nat /\ BlobGasUsed(t) \in Nat
<1>1. /\ t.max_gas_price \in Nat /\ t.max_priority_gas_price \in Nat /\ t.blobs \in Nat
      /\ BaseFee \in Nat /\ BlobBaseFee \in Nat /\ GAS_PER_BLOB \in Nat
  BY BlockInfoAssumption, TransactionAssumption DEF TransactionType
<1>2. BlobGasUsed(t) \in Nat
  BY <1>1 DEF BlobGasUsed
<1> QED
  BY <1>1, <1>2 DEF PriorityGasPrice, EffectiveGasPrice, Least

(* The sender can pay for gas and blobs, and has the value left.            *)
LEMMA FeeCovered ==
    ASSUME NEW view, NEW t, TransactionType(t), AcceptedOn(view, t),
           view[t.sender].balance \in Nat
    PROVE  Fee(t) \in Nat /\ Fee(t) + t.value <= view[t.sender].balance
<1>1. /\ PriorityGasPrice(t) \in Nat /\ EffectiveGasPrice(t) \in Nat
      /\ EffectiveGasPrice(t) <= t.max_gas_price
      /\ BlobBaseFee \in Nat /\ BlobGasUsed(t) \in Nat
  BY AcceptedFields, Prices
<1>2. /\ t.gas_limit \in Nat /\ t.max_gas_price \in Nat /\ t.max_blob_gas_price \in Nat
      /\ t.value \in Nat
  BY DEF TransactionType
<1>3. /\ t.gas_limit * EffectiveGasPrice(t) <= t.gas_limit * t.max_gas_price
      /\ t.gas_limit * EffectiveGasPrice(t) \in Nat /\ t.gas_limit * t.max_gas_price \in Nat
  BY <1>1, <1>2, TimesAtMost
<1>4. t.type = "blob" =>
         /\ BlobGasUsed(t) * BlobBaseFee <= BlobGasUsed(t) * t.max_blob_gas_price
         /\ BlobGasUsed(t) * BlobBaseFee \in Nat
         /\ BlobGasUsed(t) * t.max_blob_gas_price \in Nat
  BY <1>1, <1>2, AcceptedFields, TimesAtMost
<1>5. view[t.sender].balance >= MaxTotalFee(t)
  BY AcceptedFields
<1> DEFINE a  == t.gas_limit * EffectiveGasPrice(t)
           am == t.gas_limit * t.max_gas_price
           b  == IF t.type = "blob" THEN BlobGasUsed(t) * BlobBaseFee ELSE 0
           bm == IF t.type = "blob" THEN BlobGasUsed(t) * t.max_blob_gas_price ELSE 0
<1>6. b \in Nat /\ bm \in Nat /\ b <= bm /\ a \in Nat /\ am \in Nat /\ a <= am
  BY <1>3, <1>4
<1>7. Fee(t) = a + b /\ MaxTotalFee(t) = am + t.value + bm
  BY DEF Fee, MaxTotalFee
<1> HIDE DEF a, am, b, bm
<1> QED
  BY <1>2, <1>5, <1>6, <1>7

-----------------------------------------------------------------------------
(* What authorizations do to an account, before anything is executed.       *)

Untouched(acc, v) ==
    /\ acc.storage = NewAccount.storage
    /\ ~acc.just_created /\ ~acc.destructed
    /\ acc.loaded => ((acc.erase_if_empty \/ acc.nonexistent) <=> ~v.exists)
    /\ acc.loaded /\ ~acc.code_changed => acc.code_hash = v.code

\* The nonce is n above that of the view, and if the code has changed, it
\* says h of an authorization that has done it.
Waits(acc, v, n, h) ==
    /\ Untouched(acc, v)
    /\ acc.loaded => acc.nonce = v.nonce + n
    /\ n > 0 => Live(acc)
    /\ acc.code_changed => h

\* t differs from s by what was looked up.
LooksUp(s, t, view) ==
    \A a \in Addr, n \in Nat, h \in BOOLEAN :
       Waits(s.modified[a], view[a], n, h) => Waits(t.modified[a], view[a], n, h)

LEMMA LooksUpAt ==
    ASSUME NEW s, NEW t, NEW view, NEW a \in Addr,
           \A b \in Addr \ {a} : t.modified[b] = s.modified[b],
           \A n \in Nat, h \in BOOLEAN :
              Waits(s.modified[a], view[a], n, h) => Waits(t.modified[a], view[a], n, h)
    PROVE  LooksUp(s, t, view)
<1> SUFFICES ASSUME NEW b \in Addr, NEW n \in Nat, NEW h \in BOOLEAN,
                    Waits(s.modified[b], view[b], n, h)
             PROVE  Waits(t.modified[b], view[b], n, h)
  BY Zenon DEF LooksUp
<1>1. CASE b = a
  BY <1>1
<1>2. CASE b # a
  <2>1. t.modified[b] = s.modified[b]
    BY <1>2
  <2> QED
    BY Zenon, <2>1
<1> QED
  BY <1>1, <1>2

LEMMA GetLooksUp ==
    ASSUME NEW view, SoundViews(view), NEW s, Exact(s, view), NEW a \in Addr
    PROVE  LooksUp(s, Get(s, a), view)
<1> DEFINE t == Get(s, a)
<1>1. /\ s = [initial |-> s.initial, modified |-> s.modified, journal |-> s.journal]
      /\ s.initial = view /\ s.modified \in [Addr -> Account]
      /\ Follows(s.modified[a], view[a]) /\ Sound(view[a])
  BY ExactFields DEF SoundViews
<1>2. CASE s.modified[a].loaded
  BY <1>2 DEF Get, LooksUp
<1>3. CASE ~s.modified[a].loaded
  <2> DEFINE acc == s.modified[a]
             lo  == LoadAccount(acc, view[a])
  <2>1. /\ lo.loaded /\ lo.storage = acc.storage
        /\ ~lo.erase_if_empty /\ ~lo.just_created /\ ~lo.destructed /\ ~lo.code_changed
        /\ lo.nonexistent <=> ~view[a].exists
        /\ lo.nonce = view[a].nonce /\ lo.code_hash = view[a].code
    BY <1>1, <1>3, LoadFollows
  <2>2. t.modified[a] = lo
    BY <1>1, <1>3 DEF Get
  <2>3. view[a].nonce \in Nat
    BY <1>1 DEF Sound, ViewAccount
  <2> HIDE DEF lo, acc
  <2>4. ASSUME NEW n \in Nat, NEW h \in BOOLEAN, Waits(acc, view[a], n, h)
        PROVE  Waits(lo, view[a], n, h)
    <3>1. n = 0
      BY <1>3, <2>4 DEF Waits, Live, acc
    <3>2. Untouched(lo, view[a])
      BY <2>1, <2>4 DEF Waits, Untouched
    <3> QED
      BY <2>1, <2>3, <3>1, <3>2 DEF Waits
  <2>5. \A n \in Nat, h \in BOOLEAN :
           Waits(s.modified[a], view[a], n, h) => Waits(t.modified[a], view[a], n, h)
    BY Zenon, <2>2, <2>4 DEF acc
  <2>6. \A b \in Addr \ {a} : t.modified[b] = s.modified[b]
    BY GetQuiet
  <2> HIDE DEF t
  <2>7. LooksUp(s, t, view)
    BY <2>5, <2>6, LooksUpAt
  <2> QED
    BY <2>7 DEF t
<1> QED
  BY <1>2, <1>3

LEMMA LooksUpTransitive ==
    ASSUME NEW s, NEW t, NEW u, NEW view, LooksUp(s, t, view), LooksUp(t, u, view)
    PROVE  LooksUp(s, u, view)
BY Zenon DEF LooksUp

\* The fields that matter here.
SameWaits(acc, new) ==
    /\ new.nonce = acc.nonce /\ new.code_hash = acc.code_hash
    /\ new.storage = acc.storage /\ new.loaded = acc.loaded
    /\ new.nonexistent = acc.nonexistent /\ new.destructed = acc.destructed
    /\ new.erase_if_empty = acc.erase_if_empty
    /\ new.just_created = acc.just_created /\ new.code_changed = acc.code_changed
    /\ new.has_initial_storage = acc.has_initial_storage

LEMMA GetCodeLooksUp ==
    ASSUME NEW view, SoundViews(view), NEW s, Exact(s, view), NEW a \in Addr
    PROVE  /\ LooksUp(s, GetCode(s, a), view)
           /\ s.modified[a].loaded => SameWaits(s.modified[a], GetCode(s, a).modified[a])
<1> DEFINE s1 == Get(s, a)
           acc == s1.modified[a]
           t   == GetCode(s, a)
<1>1. /\ Exact(s1, view)
      /\ LooksUp(s, s1, view) /\ (s.modified[a].loaded => s1 = s)
      /\ \A b \in Addr \ {a} : s1.modified[b] = s.modified[b]
      /\ \A b \in Addr \ {a} : t.modified[b] = s.modified[b]
  <2>1. s.modified[a].loaded => s1 = s
    BY DEF Get
  <2> QED
    BY <2>1, GetQuiet, GetCodeQuiet, GetLooksUp DEF Quiet
<1> HIDE DEF s1
<1>3. /\ s1 = [initial |-> s1.initial, modified |-> s1.modified, journal |-> s1.journal]
      /\ s1.modified \in [Addr -> Account] /\ acc \in Account
  BY <1>1, ExactFields
<1>4. SameWaits(acc, t.modified[a])
  <2>1. CASE acc.code_hash # NoCode /\ acc.code = NoCode
    <3> DEFINE new == [acc EXCEPT !.code = s.initial[a].code]
    <3>1. t.modified[a] = new
      BY <1>3, <2>1 DEF GetCode, s1
    <3>2. SameWaits(acc, new)
      BY <1>3 DEF Account, SameWaits
    <3> HIDE DEF new, t
    <3> QED
      BY <3>1, <3>2
  <2>2. CASE ~(acc.code_hash # NoCode /\ acc.code = NoCode)
    <3>1. t = s1
      BY <2>2 DEF GetCode, s1
    <3> QED
      BY <3>1 DEF SameWaits
  <2> QED
    BY <2>1, <2>2
<1> HIDE DEF t
<1>5. \A n \in Nat, h \in BOOLEAN :
         Waits(acc, view[a], n, h) => Waits(t.modified[a], view[a], n, h)
  BY <1>4 DEF SameWaits, Waits, Untouched, Live
<1>6. \A b \in Addr \ {a} : t.modified[b] = s1.modified[b]
  BY <1>1
<1>7. LooksUp(s1, t, view)
  <2> HIDE DEF acc
  <2>1. \A n \in Nat, h \in BOOLEAN :
           Waits(s1.modified[a], view[a], n, h) => Waits(t.modified[a], view[a], n, h)
    BY Zenon, <1>5 DEF acc
  <2> QED
    BY <1>6, <2>1, LooksUpAt
<1>8. LooksUp(s, t, view)
  BY <1>1, <1>7, LooksUpTransitive
<1> QED
  BY <1>1, <1>4, <1>8 DEF t

LEMMA GetOrInsertLooksUp ==
    ASSUME NEW view, SoundViews(view), NEW s, Exact(s, view), NEW a \in Addr
    PROVE  /\ LooksUp(s, GetOrInsert(s, a), view)
           /\ GetOrInsert(s, a).modified[a].balance = Get(s, a).modified[a].balance
<1> DEFINE s1 == Get(s, a)
           acc == s1.modified[a]
           t   == GetOrInsert(s, a)
<1>1. /\ Exact(s1, view) /\ LooksUp(s, s1, view)
      /\ \A b \in Addr \ {a} : s1.modified[b] = s.modified[b]
      /\ \A b \in Addr \ {a} : t.modified[b] = s.modified[b]
  BY GetQuiet, GetOrInsertQuiet, GetLooksUp DEF Quiet
<1> HIDE DEF s1
<1>3. /\ s1 = [initial |-> s1.initial, modified |-> s1.modified, journal |-> s1.journal]
      /\ s1.modified \in [Addr -> Account] /\ acc \in Account
  BY <1>1, ExactFields
<1>4. CASE acc.nonexistent
  <2>y. PICK y : y = TRUE
    OBVIOUS
  <2>z. PICK z : z = FALSE
    OBVIOUS
  <2> DEFINE new == [acc EXCEPT !.nonexistent = z, !.erase_if_empty = y]
  <2>1. t.modified[a] = new
    BY <1>3, <1>4, <2>y, <2>z DEF GetOrInsert, s1
  <2>2. /\ new.nonce = acc.nonce /\ new.code_hash = acc.code_hash
        /\ new.storage = acc.storage /\ new.loaded = acc.loaded
        /\ new.nonexistent = z /\ new.destructed = acc.destructed
        /\ new.erase_if_empty = y /\ new.balance = acc.balance
        /\ new.just_created = acc.just_created /\ new.code_changed = acc.code_changed
        /\ new.has_initial_storage = acc.has_initial_storage
    BY <1>3 DEF Account
  <2> HIDE DEF new, t, acc
  <2>3. ASSUME NEW n \in Nat, NEW h \in BOOLEAN, Waits(acc, view[a], n, h)
        PROVE  Waits(new, view[a], n, h)
    BY <1>4, <2>2, <2>3, <2>y, <2>z DEF Waits, Untouched, Live
  <2>4. \A n \in Nat, h \in BOOLEAN :
           Waits(s1.modified[a], view[a], n, h) => Waits(t.modified[a], view[a], n, h)
    BY Zenon, <2>1, <2>3 DEF acc
  <2>5. \A b \in Addr \ {a} : t.modified[b] = s1.modified[b]
    BY <1>1
  <2>6. LooksUp(s1, t, view)
    BY <2>4, <2>5, LooksUpAt
  <2>7. LooksUp(s, t, view)
    BY <1>1, <2>6, LooksUpTransitive
  <2> QED
    BY <2>1, <2>2, <2>7 DEF t, s1, acc
<1>5. CASE ~acc.nonexistent
  <2>1. t = s1
    BY <1>5 DEF GetOrInsert, s1
  <2> QED
    BY <1>1, <2>1 DEF s1
<1> QED
  BY <1>4, <1>5

\* Nonces and codes are as in the view; only the sender's nonce is bumped.
Bump(t, a) == IF a = t.sender THEN 1 ELSE 0

Bought(s, view, t) ==
    /\ Exact(s, view) /\ Runnable(s)
    /\ Holds(s) = Replace(Holds(NewState(view)), t.sender,
                          [balance |-> view[t.sender].balance - Fee(t)])
    /\ \A a \in Addr : Waits(s.modified[a], view[a], Bump(t, a), FALSE)

LEMMA NewWaits ==
    ASSUME NEW v PROVE Waits(NewAccount, v, 0, FALSE)
<1> DEFINE acc == NewAccount
<1>1. ~acc.just_created /\ ~acc.destructed /\ ~acc.loaded /\ ~acc.code_changed
  BY DEF NewAccount
<1> HIDE DEF acc
<1> QED
  BY <1>1 DEF Waits, Untouched, acc

LEMMA GasBought ==
    ASSUME NEW view, SoundViews(view), NEW t, TransactionType(t), AcceptedOn(view, t)
    PROVE  Bought(BuyGas(NewState(view), t), view, t)
<1> DEFINE s0 == NewState(view)
           a  == t.sender
           s1 == GetOrInsert(s0, a)
           acc == s1.modified[a]
           b  == view[a].balance - Fee(t)
           u  == BuyGas(s0, t)
<1>1. Exact(s0, view) /\ Runnable(s0) /\ a \in Addr /\ s0.modified = [x \in Addr |-> NewAccount]
  BY NewExact DEF TransactionType, NewState
<1>2. /\ Quiet(s0, s1, view) /\ Live(acc)
      /\ \A x \in Addr \ {a} : s1.modified[x] = s0.modified[x]
      /\ LooksUp(s0, s1, view)
  BY <1>1, GetOrInsertQuiet, GetOrInsertLooksUp
<1>3. view[a] \in ViewAccount /\ view[a].balance \in Nat /\ view[a].nonce \in Nat
  BY <1>1 DEF SoundViews, ViewAccount
<1>4. Fee(t) \in Nat /\ Fee(t) + t.value <= view[a].balance /\ t.value \in Nat
  <2>1. t.value \in Nat
    BY DEF TransactionType
  <2> QED
    BY <1>3, <2>1, FeeCovered
<1>5. b \in Nat
  <2> HIDE DEF a
  <2>1. \A x, y, z \in Nat : x + y <= z => z - x \in Nat
    OBVIOUS
  <2> QED
    BY <1>3, <1>4, <2>1
<1>6. acc.balance = view[a].balance
  <2>1. Holds(s1) = Holds(s0) /\ Exact(s1, view)
    BY <1>2 DEF Quiet
  <2>2. Holds(s0) = [x \in Addr |-> [balance |-> view[x].balance]]
    BY NewExact
  <2>3. Holds(s1)[a].balance = acc.balance
    BY <1>1, <1>2, <2>1, HoldsField DEF Live
  <2>4. Holds(s0)[a].balance = view[a].balance
    BY <1>1, <2>2
  <2> HIDE DEF s1, s0, a
  <2> QED
    BY <2>1, <2>3, <2>4
<1>7. \A x \in Addr : Waits(s1.modified[x], view[x], 0, FALSE)
  <2>1. \A x \in Addr : Waits(s0.modified[x], view[x], 0, FALSE)
    BY <1>1, NewWaits
  <2> HIDE DEF s0, s1
  <2> QED
    BY <1>2, <2>1 DEF LooksUp
<1>8. /\ s1 = [initial |-> s1.initial, modified |-> s1.modified, journal |-> s1.journal]
      /\ s1.initial = view /\ s1.modified \in [Addr -> Account]
      /\ s1.journal \in Seq(JournalEntry)
      /\ acc \in Account /\ Follows(acc, view[a]) /\ Exact(s1, view) /\ Runnable(s1)
  <2>1. Exact(s1, view) /\ Runnable(s1)
    BY <1>1, <1>2 DEF Quiet
  <2> HIDE DEF s1
  <2> QED
    BY <1>1, <2>1, ExactFields
<1> DEFINE new == [acc EXCEPT !.nonce = @ + 1, !.balance = b]
<1>9. u = [initial |-> s1.initial, modified |-> [s1.modified EXCEPT ![a] = new],
           journal |-> s1.journal]
  <2> DEFINE x == t.gas_limit * EffectiveGasPrice(t)
             y == IF t.type = "blob" THEN BlobGasUsed(t) * BlobBaseFee ELSE 0
  <2>1. acc.balance - x - y = b
    <3>1. x \in Nat /\ y \in Nat
      <4>1. /\ PriorityGasPrice(t) \in Nat /\ EffectiveGasPrice(t) \in Nat
            /\ BlobBaseFee \in Nat /\ BlobGasUsed(t) \in Nat /\ t.gas_limit \in Nat
        BY AcceptedFields, Prices DEF TransactionType
      <4>2. \A i, j \in Nat : i * j \in Nat
        OBVIOUS
      <4> QED
        BY <4>1, <4>2
    <3>2. Fee(t) = x + y
      BY DEF Fee
    <3>3. view[a].balance \in Nat
      BY <1>3
    <3> HIDE DEF x, y, a, s1
    <3> QED
      BY <1>6, <3>1, <3>2, <3>3
  <2>2. u = [s1 EXCEPT !.modified[a].nonce = @ + 1, !.modified[a].balance = @ - x - y]
    BY DEF BuyGas
  <2> HIDE DEF x, y, a, s1, u, s0
  <2>3. PICK i, m, q : s1 = [initial |-> i, modified |-> m, journal |-> q]
    BY <1>8
  <2>4. m[a] \in Account /\ m \in [Addr -> Account] /\ a \in Addr
    BY <1>1, <1>8, <2>3
  <2> DEFINE p1 == [m[a] EXCEPT !.nonce = @ + 1]
             m1 == [m EXCEPT ![a] = p1]
             p2 == [m1[a] EXCEPT !.balance = @ - x - y]
             r1 == [s1 EXCEPT !.modified[a].nonce = @ + 1]
  <2>5. r1 = [initial |-> i, modified |-> m1, journal |-> q]
    BY <2>3, <2>4
  <2>6. u = [r1 EXCEPT !.modified[a].balance = @ - x - y]
    BY Zenon, <2>2
  <2> HIDE DEF r1
  <2>7. u = [initial |-> i, modified |-> [m1 EXCEPT ![a] = p2], journal |-> q]
    BY <2>5, <2>6
  <2>8. m1[a] = p1 /\ p1.balance = m[a].balance
    BY <2>4 DEF Account
  <2>9. [m1 EXCEPT ![a] = p2] = [m EXCEPT ![a] = p2]
    BY <2>4
  <2>10. p2 = [m[a] EXCEPT !.nonce = @ + 1, !.balance = b]
    BY <2>1, <2>3, <2>4, <2>8 DEF Account
  <2> QED
    BY <2>3, <2>7, <2>9, <2>10
<1>10. /\ new \in Account /\ new.nonce = acc.nonce + 1 /\ new.balance = b
       /\ new.code = acc.code /\ new.code_hash = acc.code_hash
       /\ new.storage = acc.storage /\ new.loaded = acc.loaded
       /\ new.nonexistent = acc.nonexistent /\ new.destructed = acc.destructed
       /\ new.erase_if_empty = acc.erase_if_empty
       /\ new.just_created = acc.just_created /\ new.code_changed = acc.code_changed
       /\ new.has_initial_storage = acc.has_initial_storage
  <2>1. acc \in Account /\ b \in Nat
    BY <1>5, <1>8
  <2> HIDE DEF b, a, s1, acc
  <2>2. acc.nonce \in Nat
    BY <2>1, AccountFields
  <2> DEFINE p == [acc EXCEPT !.nonce = @ + 1]
             q == [p EXCEPT !.balance = b]
  <2>3. /\ p \in Account /\ p.nonce = acc.nonce + 1 /\ p.balance = acc.balance
        /\ p.code = acc.code /\ p.code_hash = acc.code_hash
        /\ p.storage = acc.storage /\ p.loaded = acc.loaded
        /\ p.nonexistent = acc.nonexistent /\ p.destructed = acc.destructed
        /\ p.erase_if_empty = acc.erase_if_empty
        /\ p.just_created = acc.just_created /\ p.code_changed = acc.code_changed
        /\ p.has_initial_storage = acc.has_initial_storage
    BY <2>1, <2>2 DEF Account
  <2>4. new = q
    OBVIOUS
  <2> HIDE DEF p, new
  <2>5. /\ q \in Account /\ q.nonce = p.nonce /\ q.balance = b
        /\ q.code = p.code /\ q.code_hash = p.code_hash
        /\ q.storage = p.storage /\ q.loaded = p.loaded
        /\ q.nonexistent = p.nonexistent /\ q.destructed = p.destructed
        /\ q.erase_if_empty = p.erase_if_empty
        /\ q.just_created = p.just_created /\ q.code_changed = p.code_changed
        /\ q.has_initial_storage = p.has_initial_storage
    BY <2>1, <2>3 DEF Account
  <2> HIDE DEF q
  <2> QED
    BY <2>3, <2>4, <2>5
<1>11. Waits(acc, view[a], 0, FALSE) /\ acc.nonce \in Nat
  BY <1>1, <1>7, <1>8, AccountFields
<1> HIDE DEF new, b, u, s1, acc, a, s0
<1>12. Follows(new, view[a])
  BY <1>2, <1>3, <1>8, <1>10, <1>11 DEF Follows, Live, Blank
<1>13. Waits(new, view[a], 1, FALSE)
  BY <1>2, <1>3, <1>10, <1>11 DEF Waits, Live, Untouched
<1>14. Wrote(s1, u, a, new)
  BY <1>8, <1>9 DEF Wrote, Put
<1>15. ~Blank(new)
  BY <1>10, <1>11 DEF Blank
<1>16. /\ Exact(u, view) /\ Runnable(u)
       /\ u.modified = [s1.modified EXCEPT ![a] = new]
  BY <1>1, <1>8, <1>12, <1>14, <1>15, WroteExact
<1>17. Holds(u) = Replace(Holds(s1), a, Held(new, view[a]))
  BY <1>1, <1>8, <1>12, <1>14, WroteHolds
<1>18. Held(new, view[a]) = [balance |-> b] /\ Holds(s1) = Holds(s0)
  BY <1>2, <1>10 DEF Held, Live, Quiet
<1>19. \A x \in Addr : Waits(u.modified[x], view[x], Bump(t, x), FALSE)
  <2> SUFFICES ASSUME NEW x \in Addr PROVE Waits(u.modified[x], view[x], Bump(t, x), FALSE)
    OBVIOUS
  <2>1. CASE x = a
    <3>1. u.modified[x] = new /\ Bump(t, x) = 1
      BY <1>8, <1>16, <2>1 DEF Bump, a
    <3> QED
      BY Zenon, <1>13, <2>1, <3>1
  <2>2. CASE x # a
    <3>1. u.modified[x] = s1.modified[x] /\ Bump(t, x) = 0
      BY <1>8, <1>16, <2>2 DEF Bump, a
    <3> QED
      BY Zenon, <1>7, <3>1
  <2> QED
    BY <2>1, <2>2
<1>20. Holds(u) = Replace(Holds(s0), a, [balance |-> b])
  BY Zenon, <1>17, <1>18
<1> QED
  BY <1>16, <1>19, <1>20 DEF Bought, u, s0, a, b

-----------------------------------------------------------------------------
(* The authorizations of a transaction. *)

AuthType == [authority : Addr \cup {NoAddr}, nonce : Nat, code : Codes]

Entries == [authority : Addr, initial_code_hash : Codes \cup {NoHash}]

\* The applied authorizations of a after the first i of them.
Waiting(L, i, a) == {k \in (i + 1)..Len(L) : L[k].authority = a}
Hashed(L, i, a) == \E k \in Waiting(L, i, a) : L[k].initial_code_hash # NoHash

AppliedOK(s, L, i, view, t) ==
    \A a \in Addr : Waits(s.modified[a], view[a],
                          Bump(t, a) + Cardinality(Waiting(L, i, a)), Hashed(L, i, a))

HashesOK(L, view) ==
    \A k \in 1..Len(L) : L[k].initial_code_hash \in {NoHash, view[L[k].authority].code}

Authorizing(s0, view, t) ==
    {p \in [state : StateType, applied : Seq(Entries)] :
        /\ Quiet(s0, p.state, view)
        /\ AppliedOK(p.state, p.applied, 0, view, t) /\ HashesOK(p.applied, view)}

LEMMA DelegationSet ==
    ASSUME NEW acc \in Account, NEW code \in Codes, NEW new, new = SetDelegation(acc, code)
    PROVE  /\ new \in Account /\ new.nonce = acc.nonce + 1 /\ new.balance = acc.balance
           /\ new.storage = acc.storage /\ new.loaded = acc.loaded
           /\ new.nonexistent = acc.nonexistent /\ new.destructed = acc.destructed
           /\ new.erase_if_empty = acc.erase_if_empty
           /\ new.just_created = acc.just_created
           /\ new.has_initial_storage = acc.has_initial_storage
           /\ \/ new.code_changed = acc.code_changed /\ new.code_hash = acc.code_hash
              \/ new.code_changed = TRUE
<1>1. acc.nonce \in Nat
  BY AccountFields
<1> DEFINE p == [acc EXCEPT !.nonce = @ + 1]
           old == IF code = NoCode THEN acc.code_hash ELSE acc.code
<1>2. /\ p \in Account /\ p.nonce = acc.nonce + 1 /\ p.balance = acc.balance
      /\ p.code = acc.code /\ p.code_hash = acc.code_hash
      /\ p.storage = acc.storage /\ p.loaded = acc.loaded
      /\ p.nonexistent = acc.nonexistent /\ p.destructed = acc.destructed
      /\ p.erase_if_empty = acc.erase_if_empty
      /\ p.just_created = acc.just_created /\ p.code_changed = acc.code_changed
      /\ p.has_initial_storage = acc.has_initial_storage
  BY <1>1 DEF Account
<1>y. PICK y \in BOOLEAN : y = TRUE
  OBVIOUS
<1> DEFINE q == [p EXCEPT !.code_changed = y, !.code = code, !.code_hash = code]
<1>3. new = IF old = code THEN p ELSE q
  BY <1>y DEF SetDelegation
<1> HIDE DEF p, old
<1>4. /\ q \in Account /\ q.nonce = p.nonce /\ q.balance = p.balance
      /\ q.storage = p.storage /\ q.loaded = p.loaded
      /\ q.nonexistent = p.nonexistent /\ q.destructed = p.destructed
      /\ q.erase_if_empty = p.erase_if_empty
      /\ q.just_created = p.just_created /\ q.code_changed = y
      /\ q.has_initial_storage = p.has_initial_storage
  BY <1>2 DEF Account
<1> HIDE DEF q
<1>5. CASE new = p
  BY <1>2, <1>5
<1>6. CASE new = q
  BY <1>2, <1>4, <1>6, <1>y
<1> QED
  BY <1>3, <1>5, <1>6

(* One more applied authorization.                                          *)
LEMMA MoreWaiting ==
    ASSUME NEW L \in Seq(Entries), NEW e \in Entries, NEW M, M = Append(L, e)
    PROVE  /\ M \in Seq(Entries)
           /\ \A a \in Addr : /\ Cardinality(Waiting(L, 0, a)) \in Nat
                              /\ Cardinality(Waiting(M, 0, a)) = Cardinality(Waiting(L, 0, a))
                                   + (IF e.authority = a THEN 1 ELSE 0)
                              /\ Hashed(M, 0, a) <=>
                                   \/ Hashed(L, 0, a)
                                   \/ e.authority = a /\ e.initial_code_hash # NoHash
<1>1. /\ M \in Seq(Entries) /\ Len(L) \in Nat /\ Len(M) = Len(L) + 1
      /\ M[Len(L) + 1] = e /\ \A k \in 1..Len(L) : M[k] = L[k]
  BY LenProperties, AppendProperties
<1> SUFFICES ASSUME NEW a \in Addr
             PROVE  /\ Cardinality(Waiting(L, 0, a)) \in Nat
                    /\ Cardinality(Waiting(M, 0, a)) = Cardinality(Waiting(L, 0, a))
                         + (IF e.authority = a THEN 1 ELSE 0)
                    /\ Hashed(M, 0, a) <=>
                         \/ Hashed(L, 0, a)
                         \/ e.authority = a /\ e.initial_code_hash # NoHash
  BY <1>1
<1> DEFINE N == Len(L) + 1
           W == Waiting(L, 0, a)
           X == Waiting(M, 0, a)
<1>2. W \in SUBSET (1..N) /\ X \in SUBSET (1..N) /\ N \in Nat /\ N \notin W
  BY <1>1 DEF Waiting
<1>3. /\ e.authority = a => X = W \cup {N} /\ N \in X
      /\ e.authority # a => X = W
  BY <1>1 DEF Waiting
<1>4. \A k \in W : M[k] = L[k] /\ k \in 1..Len(L)
  BY <1>1 DEF Waiting
<1>5. Hashed(L, 0, a) <=> \E k \in W : L[k].initial_code_hash # NoHash
  BY DEF Hashed
<1>6. Hashed(M, 0, a) <=> \E k \in X : M[k].initial_code_hash # NoHash
  BY DEF Hashed
<1>7. M[N] = e
  BY <1>1
<1> HIDE DEF N, W, X
<1>8. Cardinality(W) \in Nat
  BY <1>2, IndexSets
<1>9. Cardinality(X) = Cardinality(W) + (IF e.authority = a THEN 1 ELSE 0)
  <2>1. CASE e.authority = a
    <3>1. X \ {N} = W
      BY <1>2, <1>3, <2>1
    <3>2. Cardinality(X) \in Nat /\ Cardinality(X \ {N}) = Cardinality(X) - 1
      BY <1>2, <1>3, <2>1, IndexSets
    <3>3. Cardinality(X \ {N}) = Cardinality(W)
      BY Zenon, <3>1
    <3> DEFINE cx == Cardinality(X)
               cw == Cardinality(W)
    <3>4. cx \in Nat /\ cw \in Nat /\ cw = cx - 1
      BY <1>8, <3>2, <3>3
    <3> HIDE DEF cx, cw
    <3>5. cx = cw + 1
      BY <3>4
    <3> QED
      BY <2>1, <3>5 DEF cx, cw
  <2>2. CASE e.authority # a
    BY <1>3, <1>8, <2>2
  <2> QED
    BY <2>1, <2>2
<1>10. Hashed(M, 0, a) <=>
          \/ Hashed(L, 0, a)
          \/ e.authority = a /\ e.initial_code_hash # NoHash
  <2>1. CASE e.authority = a
    BY <1>3, <1>4, <1>5, <1>6, <1>7, <2>1
  <2>2. CASE e.authority # a
    BY <1>3, <1>4, <1>5, <1>6, <2>2
  <2> QED
    BY <2>1, <2>2
<1> QED
  BY <1>8, <1>9, <1>10 DEF W, X

LEMMA AuthorityLookedUp ==
    ASSUME NEW view, SoundViews(view), NEW s, Exact(s, view), NEW auth \in AuthType,
           NEW u, u = LookUpAuthority(s, auth)
    PROVE  /\ Quiet(s, u, view) /\ LooksUp(s, u, view)
           /\ Authorized(u, auth) => auth.authority \in Addr /\ Live(u.modified[auth.authority])
<1>1. CASE auth.nonce = MAX_NONCE \/ auth.authority = NoAddr
  <2>1. u = s /\ ~Authorized(u, auth)
    BY <1>1 DEF LookUpAuthority, Authorized
  <2> QED
    BY <2>1, QuietSelf DEF LooksUp
<1>2. CASE ~(auth.nonce = MAX_NONCE \/ auth.authority = NoAddr)
  <2> DEFINE a == auth.authority
             s1 == GetOrInsert(s, a)
  <2>1. a \in Addr
    BY <1>2 DEF AuthType
  <2>2. u = GetCode(s1, a)
    BY <1>2 DEF LookUpAuthority
  <2> HIDE DEF a
  <2>3. Quiet(s, s1, view) /\ Live(s1.modified[a]) /\ LooksUp(s, s1, view)
    BY <2>1, GetOrInsertQuiet, GetOrInsertLooksUp
  <2> HIDE DEF s1
  <2>4. Exact(s1, view)
    BY <2>3 DEF Quiet
  <2>5. Quiet(s1, u, view) /\ LooksUp(s1, u, view)
    BY <2>1, <2>2, <2>4, GetCodeQuiet, GetCodeLooksUp
  <2>6. Live(u.modified[a])
    BY <2>1, <2>3, <2>5 DEF Quiet, Keeps, KeepsAccount
  <2>7. Quiet(s, u, view) /\ LooksUp(s, u, view)
    BY <2>3, <2>5, QuietTransitive, LooksUpTransitive
  <2> QED
    BY <2>1, <2>6, <2>7 DEF a
<1> QED
  BY <1>1, <1>2

LEMMA WaitingCounts ==
    ASSUME NEW L \in Seq(Entries), NEW i \in Nat, NEW a
    PROVE  /\ Waiting(L, i, a) \in SUBSET (1..Len(L)) /\ Len(L) \in Nat
           /\ Cardinality(Waiting(L, i, a)) \in Nat
           /\ Cardinality(Waiting(L, i, a)) = 0 <=> Waiting(L, i, a) = {}
<1>1. Len(L) \in Nat
  BY LenProperties
<1>2. Waiting(L, i, a) \in SUBSET (1..Len(L))
  BY <1>1 DEF Waiting
<1> QED
  BY <1>1, <1>2, IndexSets

LEMMA BumpNat ==
    ASSUME NEW t, NEW a PROVE Bump(t, a) \in {0, 1}
BY DEF Bump

LEMMA LooksUpApplied ==
    ASSUME NEW view, NEW t, NEW s, NEW u, LooksUp(s, u, view),
           NEW L \in Seq(Entries), NEW i \in Nat, AppliedOK(s, L, i, view, t)
    PROVE  AppliedOK(u, L, i, view, t)
<1> SUFFICES ASSUME NEW a \in Addr
             PROVE  Waits(u.modified[a], view[a],
                          Bump(t, a) + Cardinality(Waiting(L, i, a)), Hashed(L, i, a))
  BY DEF AppliedOK
<1> DEFINE n == Bump(t, a) + Cardinality(Waiting(L, i, a))
<1>1. n \in Nat
  BY BumpNat, WaitingCounts
<1>2. Waits(s.modified[a], view[a], n, Hashed(L, i, a))
  BY DEF AppliedOK
<1> HIDE DEF n
<1>3. CASE Hashed(L, i, a)
  <2>1. Waits(s.modified[a], view[a], n, TRUE)
    BY <1>2 DEF Waits
  <2>2. Waits(u.modified[a], view[a], n, TRUE)
    BY Zenon, <1>1, <2>1 DEF LooksUp
  <2> QED
    BY <1>3, <2>2 DEF Waits, n
<1>4. CASE ~Hashed(L, i, a)
  <2>1. Waits(s.modified[a], view[a], n, FALSE)
    BY <1>2, <1>4 DEF Waits
  <2>2. Waits(u.modified[a], view[a], n, FALSE)
    BY Zenon, <1>1, <2>1 DEF LooksUp
  <2> QED
    BY <1>4, <2>2 DEF Waits, n
<1> QED
  BY <1>3, <1>4

(* One authorization.                                                       *)
LEMMA AuthorizeKept ==
    ASSUME NEW view, SoundViews(view), NEW t, NEW s0, NEW p \in Authorizing(s0, view, t),
           NEW auth \in AuthType
    PROVE  Authorize(p, auth) \in Authorizing(s0, view, t)
<1> DEFINE u   == LookUpAuthority(p.state, auth)
           a   == auth.authority
           acc == u.modified[a]
           L   == p.applied
<1>1. /\ p \in [state : StateType, applied : Seq(Entries)]
      /\ Quiet(s0, p.state, view) /\ L \in Seq(Entries)
      /\ AppliedOK(p.state, L, 0, view, t) /\ HashesOK(L, view)
  BY DEF Authorizing
<1>2. Exact(p.state, view)
  BY <1>1 DEF Quiet
<1>3. /\ Quiet(p.state, u, view) /\ LooksUp(p.state, u, view)
      /\ Authorized(u, auth) => a \in Addr /\ Live(acc)
  BY <1>2, AuthorityLookedUp
<1> HIDE DEF u
<1>4. Quiet(s0, u, view) /\ AppliedOK(u, L, 0, view, t) /\ Exact(u, view)
  <2>1. Exact(u, view)
    BY <1>3 DEF Quiet
  <2>2. AppliedOK(u, L, 0, view, t)
    BY <1>1, <1>3, LooksUpApplied
  <2> QED
    BY <1>1, <1>3, <2>1, <2>2, QuietTransitive
<1>5. CASE ~Authorized(u, auth)
  <2>1. Authorize(p, auth) = [state |-> u, applied |-> L]
    BY <1>1, <1>5 DEF Authorize, u
  <2>2. u \in StateType
    BY <1>4 DEF Exact
  <2> QED
    BY <1>1, <1>4, <2>1, <2>2 DEF Authorizing
<1>6. CASE Authorized(u, auth)
  <2> DEFINE new == SetDelegation(acc, auth.code)
             e   == [authority |-> a,
                     initial_code_hash |-> IF acc.code_changed THEN NoHash ELSE acc.code_hash]
             M   == Append(L, e)
             w   == [u EXCEPT !.modified[a] = new]
  <2>1. Authorize(p, auth) = [state |-> w, applied |-> M]
    BY <1>6 DEF Authorize, u
  <2>2. a \in Addr /\ Live(acc) /\ auth.code \in Codes
    BY <1>3, <1>6 DEF AuthType
  <2>3. /\ u = [initial |-> u.initial, modified |-> u.modified, journal |-> u.journal]
        /\ u.initial = view /\ view \in [Addr -> ViewAccount]
        /\ u.modified \in [Addr -> Account] /\ u.journal \in Seq(JournalEntry)
        /\ acc \in Account /\ Follows(acc, view[a])
    BY <1>4, <2>2, ExactFields
  <2>4. acc.nonce \in Nat /\ acc.code_hash \in Codes
    BY <2>3, AccountFields
  <2> HIDE DEF acc, new, w, e, M
  <2>5. /\ new \in Account /\ new.nonce = acc.nonce + 1 /\ new.balance = acc.balance
        /\ new.storage = acc.storage /\ new.loaded = acc.loaded
        /\ new.nonexistent = acc.nonexistent /\ new.destructed = acc.destructed
        /\ new.erase_if_empty = acc.erase_if_empty
        /\ new.just_created = acc.just_created
        /\ new.has_initial_storage = acc.has_initial_storage
        /\ \/ new.code_changed = acc.code_changed /\ new.code_hash = acc.code_hash
           \/ new.code_changed = TRUE
    <3>1. \A x : x = SetDelegation(acc, auth.code) =>
            /\ x \in Account /\ x.nonce = acc.nonce + 1 /\ x.balance = acc.balance
            /\ x.storage = acc.storage /\ x.loaded = acc.loaded
            /\ x.nonexistent = acc.nonexistent /\ x.destructed = acc.destructed
            /\ x.erase_if_empty = acc.erase_if_empty
            /\ x.just_created = acc.just_created
            /\ x.has_initial_storage = acc.has_initial_storage
            /\ \/ x.code_changed = acc.code_changed /\ x.code_hash = acc.code_hash
               \/ x.code_changed = TRUE
      BY <2>2, <2>3, DelegationSet
    <3> QED
      BY Zenon, <3>1 DEF new
  <2>6. w = [initial |-> u.initial, modified |-> [u.modified EXCEPT ![a] = new],
             journal |-> u.journal]
    BY <2>3 DEF w
  <2>7. Follows(new, view[a])
    <3>1. view[a].nonce \in Nat
      BY <2>2, <2>3 DEF ViewAccount
    <3>2. new.nonce >= view[a].nonce /\ new.nonce > 0
      BY <2>2, <2>3, <2>4, <2>5, <3>1 DEF Follows, Live
    <3>3. ~new.code_changed => new.code_hash = view[a].code
      BY <2>2, <2>3, <2>5 DEF Follows, Live
    <3> QED
      BY <2>2, <2>3, <2>4, <2>5, <3>1, <3>2, <3>3 DEF Follows, Live, Blank
  <2>8. Wrote(u, w, a, new)
    BY <2>3, <2>6 DEF Wrote, Put
  <2>9. /\ KeepsAccount(acc, new) /\ Held(new, view[a]) = Held(acc, view[a]) /\ ~Blank(new)
    BY <2>4, <2>5 DEF KeepsAccount, Blank, Live, Held
  <2>10. Quiet(u, w, view) /\ w.modified = [u.modified EXCEPT ![a] = new]
    BY <1>4, <2>2, <2>7, <2>8, <2>9, WroteQuiet DEF acc
  <2>11. Quiet(s0, w, view) /\ w \in StateType
    <3>1. w \in StateType
      BY <2>10 DEF Quiet, Exact
    <3> QED
      BY <1>4, <2>10, <3>1, QuietTransitive
  <2>12. Waits(acc, view[a], Bump(t, a) + Cardinality(Waiting(L, 0, a)), Hashed(L, 0, a))
    BY <1>4, <2>2 DEF AppliedOK, acc
  <2>13. e.authority = a /\ e.initial_code_hash = (IF acc.code_changed THEN NoHash ELSE acc.code_hash)
    BY DEF e
  <2>14. e \in Entries
    BY <2>2, <2>4 DEF e, Entries
  <2>15. e.initial_code_hash \in {NoHash, view[a].code}
         /\ (~acc.code_changed => e.initial_code_hash # NoHash)
    <3>1. ~acc.code_changed => acc.code_hash = view[a].code
      BY <2>2, <2>12 DEF Waits, Untouched, Live
    <3>2. acc.code_hash # NoHash
      BY <2>4, HashAssumption
    <3> QED
      BY <2>13, <3>1, <3>2
  <2>16. /\ M \in Seq(Entries)
         /\ \A b \in Addr : /\ Cardinality(Waiting(L, 0, b)) \in Nat
                            /\ Cardinality(Waiting(M, 0, b)) = Cardinality(Waiting(L, 0, b))
                                 + (IF e.authority = b THEN 1 ELSE 0)
                            /\ Hashed(M, 0, b) <=>
                                 \/ Hashed(L, 0, b)
                                 \/ e.authority = b /\ e.initial_code_hash # NoHash
    <3>1. L \in Seq(Entries) /\ M = Append(L, e)
      BY <1>1 DEF M
    <3> HIDE DEF M, e, L
    <3> QED
      BY <2>14, <3>1, MoreWaiting
  <2>17. AppliedOK(w, M, 0, view, t)
    <3> SUFFICES ASSUME NEW b \in Addr
                 PROVE  Waits(w.modified[b], view[b],
                              Bump(t, b) + Cardinality(Waiting(M, 0, b)), Hashed(M, 0, b))
      BY DEF AppliedOK
    <3>1. Waits(u.modified[b], view[b], Bump(t, b) + Cardinality(Waiting(L, 0, b)),
                Hashed(L, 0, b))
      BY <1>4 DEF AppliedOK
    <3> DEFINE n  == Cardinality(Waiting(L, 0, b))
               n2 == Cardinality(Waiting(M, 0, b))
    <3>2. n \in Nat /\ n2 = n + (IF a = b THEN 1 ELSE 0) /\ Bump(t, b) \in {0, 1}
      BY <2>13, <2>16, BumpNat
    <3>3. Hashed(L, 0, b) => Hashed(M, 0, b)
      BY <2>16
    <3>4. CASE b = a
      <4>1. w.modified[b] = new
        BY <2>2, <2>3, <2>10, <3>4
      <4>2. Waits(acc, view[a], Bump(t, b) + n, Hashed(L, 0, b))
        BY <3>1, <3>4 DEF acc
      <4>3. ~acc.code_changed => Hashed(M, 0, b)
        BY <2>13, <2>15, <2>16, <3>4
      <4>4. view[a].nonce \in Nat
        BY <2>2, <2>3 DEF ViewAccount
      <4> HIDE DEF n, n2
      <4>5. Untouched(new, view[a])
        BY <2>5, <4>2 DEF Waits, Untouched
      <4>6. new.loaded => new.nonce = view[a].nonce + (Bump(t, b) + n2)
        BY <2>4, <2>5, <3>2, <3>4, <4>2, <4>4 DEF Waits
      <4>7. Live(new)
        BY <2>2, <2>5 DEF Live
      <4>8. new.code_changed => Hashed(M, 0, b)
        BY <3>3, <4>2, <4>3 DEF Waits
      <4>9. Waits(new, view[b], Bump(t, b) + n2, Hashed(M, 0, b))
        BY <3>4, <4>5, <4>6, <4>7, <4>8 DEF Waits
      <4> QED
        BY <4>1, <4>9 DEF n2
    <3>5. CASE b # a
      <4>1. w.modified[b] = u.modified[b]
        BY <2>2, <2>3, <2>10, <3>5
      <4>2. n2 = n
        BY <3>2, <3>5
      <4> HIDE DEF n, n2
      <4>3. Waits(u.modified[b], view[b], Bump(t, b) + n2, Hashed(L, 0, b))
        BY <3>1, <4>2 DEF n
      <4>4. Waits(w.modified[b], view[b], Bump(t, b) + n2, Hashed(M, 0, b))
        BY <3>3, <4>1, <4>3 DEF Waits
      <4> QED
        BY <4>4 DEF n2
    <3> QED
      BY <3>4, <3>5
  <2>18. HashesOK(M, view)
    <3>1. /\ Len(L) \in Nat /\ Len(M) = Len(L) + 1
          /\ M[Len(L) + 1] = e /\ \A k \in 1..Len(L) : M[k] = L[k]
      BY <1>1, <2>14, LenProperties, AppendProperties DEF M
    <3> SUFFICES ASSUME NEW k \in 1..Len(M)
                 PROVE  M[k].initial_code_hash \in {NoHash, view[M[k].authority].code}
      BY DEF HashesOK
    <3>2. CASE k = Len(L) + 1
      <4>1. M[k] = e
        BY <3>1, <3>2
      <4> QED
        BY <2>13, <2>15, <4>1
    <3>3. CASE k # Len(L) + 1
      <4>1. k \in 1..Len(L) /\ M[k] = L[k]
        BY <3>1, <3>3
      <4> QED
        BY <1>1, <4>1 DEF HashesOK
    <3> QED
      BY <3>2, <3>3
  <2>19. [state |-> w, applied |-> M] \in Authorizing(s0, view, t)
    <3> DEFINE q == [state |-> w, applied |-> M]
    <3>1. q.state = w /\ q.applied = M /\ q \in [state : StateType, applied : Seq(Entries)]
      BY <2>11, <2>16
    <3> HIDE DEF q
    <3>2. q \in Authorizing(s0, view, t)
      BY <2>11, <2>17, <2>18, <3>1 DEF Authorizing
    <3> QED
      BY <3>2 DEF q
  <2> QED
    BY Zenon, <2>1, <2>19
<1> QED
  BY <1>5, <1>6

LEMMA UpToAll ==
    ASSUME NEW N \in Nat, NEW T, 0 \in T, \A i \in 1..N : i - 1 \in T => i \in T
    PROVE  \A i \in 0..N : i \in T
<1> DEFINE X == {i \in 0..N : i \notin T}
<1> SUFFICES ASSUME X # {} PROVE FALSE
  OBVIOUS
<1>1. X \in SUBSET Nat
  OBVIOUS
<1> HIDE DEF X
<1>2. PICK i \in X : \A n \in X : i <= n
  BY <1>1, LeastNatural
<1>3. i \in 0..N /\ i \notin T /\ i # 0
  BY <1>2 DEF X
<1>4. i \in 1..N /\ i - 1 \in 0..N /\ i - 1 \notin X
  BY <1>1, <1>2, <1>3
<1>5. i - 1 \in T
  BY <1>4 DEF X
<1> QED
  BY <1>3, <1>4, <1>5

LEMMA AuthorizationsProcessed ==
    ASSUME NEW view, SoundViews(view), NEW t, NEW s, Exact(s, view),
           \A a \in Addr : Waits(s.modified[a], view[a], Bump(t, a), FALSE),
           NEW auths \in Seq(AuthType)
    PROVE  ProcessAuthorizationList(s, auths) \in Authorizing(s, view, t)
<1> DEFINE base == [state |-> s, applied |-> << >>]
           N    == Len(auths)
<1>1. /\ N \in Nat /\ DOMAIN auths = 1..N /\ \A i \in 1..N : auths[i] \in AuthType
  BY LenProperties, ElementOfSeq
<1>2. base \in Authorizing(s, view, t)
  <2>1. << >> \in Seq(Entries) /\ Len(<< >>) = 0
    BY EmptySeq
  <2>2. base.state = s /\ base.applied = << >> /\ base \in [state : StateType, applied : Seq(Entries)]
    BY <2>1 DEF Exact
  <2>3. HashesOK(<< >>, view)
    BY <2>1 DEF HashesOK
  <2>4. AppliedOK(s, << >>, 0, view, t)
    <3> SUFFICES ASSUME NEW a \in Addr
                 PROVE  Waits(s.modified[a], view[a],
                              Bump(t, a) + Cardinality(Waiting(<< >>, 0, a)),
                              Hashed(<< >>, 0, a))
      BY DEF AppliedOK
    <3>1. Waiting(<< >>, 0, a) = {}
      BY <2>1 DEF Waiting
    <3>2. Cardinality(Waiting(<< >>, 0, a)) = 0
      BY <2>1, <3>1, WaitingCounts
    <3>3. Bump(t, a) + Cardinality(Waiting(<< >>, 0, a)) = Bump(t, a)
      BY <3>2, BumpNat
    <3>4. Waits(s.modified[a], view[a], Bump(t, a), FALSE)
      OBVIOUS
    <3>5. Waits(s.modified[a], view[a], Bump(t, a), Hashed(<< >>, 0, a))
      BY <3>4 DEF Waits
    <3> QED
      BY Zenon, <3>3, <3>5
  <2>5. Quiet(s, s, view)
    BY QuietSelf
  <2> HIDE DEF base
  <2> QED
    BY <2>2, <2>3, <2>4, <2>5 DEF Authorizing
<1> HIDE DEF base
<1>3. \A p \in Authorizing(s, view, t), i \in 1..N :
         Authorize(p, auths[i]) \in Authorizing(s, view, t)
  BY <1>1, AuthorizeKept
<1> HIDE DEF N
<1>4. PICK lab : AuthorizeLabels(lab, base, auths, Authorizing(s, view, t), N)
  BY <1>1, <1>2, <1>3, Authorizations
<1>5. AuthorizeResult(base, auths) \in Authorizing(s, view, t)
  <2>1. N \in 0..N
    BY <1>1
  <2> QED
    BY <1>4, <2>1 DEF AuthorizeLabels
<1>6. ProcessAuthorizationList(s, auths) = AuthorizeResult(base, auths)
  BY Zenon DEF ProcessAuthorizationList, AuthorizeResult, base
<1> QED
  BY <1>5, <1>6

-----------------------------------------------------------------------------
(* Authorizations taken back.                                               *)

\* An account whose nonce may be below 0.
LooseAccount ==
    [nonce : Int, balance : Nat, code_hash : Codes, code : Codes,
     storage : [Key -> StorageValue], transient_storage : [Key -> Val],
     warm : BOOLEAN, loaded : BOOLEAN, nonexistent : BOOLEAN,
     destructed : BOOLEAN, erase_if_empty : BOOLEAN, just_created : BOOLEAN,
     code_changed : BOOLEAN, has_initial_storage : BOOLEAN]

LooseStates(view, j) == [initial : {view}, modified : [Addr -> LooseAccount], journal : {j}]

RevertedAccount(acc, x) ==
    LET acc1 == [acc EXCEPT !.nonce = @ - 1]
    IN  IF x.initial_code_hash = NoHash THEN acc1
        ELSE [acc1 EXCEPT !.code_changed = FALSE, !.code_hash = x.initial_code_hash]

RevertedFields(acc, new, x) ==
    /\ new.nonce = acc.nonce - 1 /\ new.balance = acc.balance /\ new.code = acc.code
    /\ new.storage = acc.storage /\ new.loaded = acc.loaded
    /\ new.nonexistent = acc.nonexistent /\ new.destructed = acc.destructed
    /\ new.erase_if_empty = acc.erase_if_empty
    /\ new.just_created = acc.just_created
    /\ new.has_initial_storage = acc.has_initial_storage
    /\ x.initial_code_hash = NoHash =>
          new.code_changed = acc.code_changed /\ new.code_hash = acc.code_hash
    /\ x.initial_code_hash # NoHash =>
          new.code_changed = FALSE /\ new.code_hash = x.initial_code_hash

LEMMA AccountReverted ==
    ASSUME NEW acc \in LooseAccount, NEW x \in Entries, NEW new,
           new = RevertedAccount(acc, x)
    PROVE  new \in LooseAccount /\ RevertedFields(acc, new, x)
<1>1. acc.nonce \in Int
  BY DEF LooseAccount
<1> DEFINE p == [acc EXCEPT !.nonce = @ - 1]
<1>2. /\ p \in LooseAccount /\ p.nonce = acc.nonce - 1 /\ p.balance = acc.balance
      /\ p.code = acc.code /\ p.code_hash = acc.code_hash
      /\ p.storage = acc.storage /\ p.loaded = acc.loaded
      /\ p.nonexistent = acc.nonexistent /\ p.destructed = acc.destructed
      /\ p.erase_if_empty = acc.erase_if_empty
      /\ p.just_created = acc.just_created /\ p.code_changed = acc.code_changed
      /\ p.has_initial_storage = acc.has_initial_storage
  BY <1>1 DEF LooseAccount
<1>y. PICK y \in BOOLEAN : y = FALSE
  OBVIOUS
<1> DEFINE h == x.initial_code_hash
           q == [p EXCEPT !.code_changed = y, !.code_hash = h]
<1>3. new = IF h = NoHash THEN p ELSE q
  BY <1>y DEF RevertedAccount
<1>4. h # NoHash => h \in Codes
  BY DEF Entries
<1> HIDE DEF p, h
<1>5. CASE h = NoHash
  BY <1>2, <1>3, <1>5 DEF RevertedFields, h
<1>6. CASE h # NoHash
  <2>1. /\ q \in LooseAccount /\ q.nonce = p.nonce /\ q.balance = p.balance
        /\ q.code = p.code /\ q.storage = p.storage /\ q.loaded = p.loaded
        /\ q.nonexistent = p.nonexistent /\ q.destructed = p.destructed
        /\ q.erase_if_empty = p.erase_if_empty
        /\ q.just_created = p.just_created /\ q.code_changed = y /\ q.code_hash = h
        /\ q.has_initial_storage = p.has_initial_storage
    BY <1>2, <1>4, <1>6 DEF LooseAccount
  <2> HIDE DEF q
  <2> QED
    BY <1>2, <1>3, <1>6, <1>y, <2>1 DEF RevertedFields, h
<1> QED
  BY <1>5, <1>6

LEMMA AuthorizationReverted ==
    ASSUME NEW view, NEW j, NEW s \in LooseStates(view, j), NEW x \in Entries,
           NEW u, u = RevertAuthorization(s, x)
    PROVE  /\ u \in LooseStates(view, j)
           /\ RevertedFields(s.modified[x.authority], u.modified[x.authority], x)
           /\ \A b \in Addr : b # x.authority => u.modified[b] = s.modified[b]
<1> DEFINE a   == x.authority
           acc == s.modified[a]
           new == RevertedAccount(acc, x)
<1>1. a \in Addr
  BY DEF Entries
<1>2. /\ s = [initial |-> view, modified |-> s.modified, journal |-> j]
      /\ s.modified \in [Addr -> LooseAccount]
  BY DEF LooseStates
<1>3. u = [initial |-> view, modified |-> [s.modified EXCEPT ![a] = new], journal |-> j]
  <2> DEFINE acc1 == [acc EXCEPT !.nonce = @ - 1]
             s1   == [s EXCEPT !.modified[x.authority].nonce = @ - 1]
             m1   == [s.modified EXCEPT ![a] = acc1]
  <2>1. s1 = [initial |-> view, modified |-> m1, journal |-> j]
    BY <1>1, <1>2
  <2>2. CASE x.initial_code_hash = NoHash
    <3>1. u = s1 /\ new = acc1
      BY <2>2 DEF RevertAuthorization, RevertedAccount
    <3> HIDE DEF s1, new, acc1
    <3> QED
      BY Zenon, <2>1, <3>1
  <2>3. CASE x.initial_code_hash # NoHash
    <3>y. PICK y \in BOOLEAN : y = FALSE
      OBVIOUS
    <3> DEFINE h == x.initial_code_hash
    <3>1. u = [s1 EXCEPT !.modified[a].code_changed = y, !.modified[a].code_hash = h]
      BY Zenon, <2>3, <3>y DEF RevertAuthorization
    <3>2. new = [acc1 EXCEPT !.code_changed = y, !.code_hash = h]
      BY Zenon, <2>3, <3>y DEF RevertedAccount
    <3> HIDE DEF s1, new, acc1, h, acc
    <3>3. m1[a] = acc1 /\ m1 = [m1 EXCEPT ![a] = acc1]
      BY <1>1, <1>2
    <3> DEFINE acc2 == [acc1 EXCEPT !.code_changed = y]
               s2   == [s1 EXCEPT !.modified[a].code_changed = y]
               m2   == [s.modified EXCEPT ![a] = acc2]
    <3>4. s2 = [initial |-> view, modified |-> [m1 EXCEPT ![a] = acc2], journal |-> j]
      <4> HIDE DEF m1
      <4> QED
        BY <1>1, <2>1, <3>3
    <3>5. [m1 EXCEPT ![a] = acc2] = m2 /\ m2[a] = acc2
      BY <1>1, <1>2
    <3>6. u = [s2 EXCEPT !.modified[a].code_hash = h]
      BY Zenon, <3>1
    <3>7. u = [initial |-> view, modified |-> [m2 EXCEPT ![a] = [acc2 EXCEPT !.code_hash = h]],
               journal |-> j]
      <4> HIDE DEF m1, m2, acc2, s2
      <4> QED
        BY <1>1, <3>4, <3>5, <3>6
    <3>8. [m2 EXCEPT ![a] = [acc2 EXCEPT !.code_hash = h]]
            = [s.modified EXCEPT ![a] = [acc2 EXCEPT !.code_hash = h]]
      <4> HIDE DEF acc2
      <4> QED
        BY <1>1, <1>2
    <3>9. new = [acc2 EXCEPT !.code_hash = h]
      BY Zenon, <3>2
    <3> HIDE DEF m1, m2, acc2, s2
    <3> QED
      BY Zenon, <3>7, <3>8, <3>9
  <2> QED
    BY <2>2, <2>3
<1>4. acc \in LooseAccount
  BY <1>1, <1>2
<1> HIDE DEF new, acc
<1>5. new \in LooseAccount /\ RevertedFields(acc, new, x)
  BY <1>4, AccountReverted DEF new
<1>6. /\ u.modified = [s.modified EXCEPT ![a] = new]
      /\ u \in LooseStates(view, j)
  BY <1>1, <1>2, <1>3, <1>5 DEF LooseStates
<1> QED
  BY <1>1, <1>2, <1>5, <1>6 DEF acc

LEMMA LooseType ==
    ASSUME NEW s, NEW view, Exact(s, view)
    PROVE  s \in LooseStates(view, s.journal)
<1>1. /\ s = [initial |-> s.initial, modified |-> s.modified, journal |-> s.journal]
      /\ s.initial = view /\ s.modified \in [Addr -> Account]
  BY ExactFields
<1>2. Account \subseteq LooseAccount
  BY DEF Account, LooseAccount
<1>3. s.modified \in [Addr -> LooseAccount]
  BY <1>1, <1>2
<1> QED
  BY <1>1, <1>3 DEF LooseStates

(* The i-th authorization is no longer waiting.                             *)
LEMMA LessWaiting ==
    ASSUME NEW L \in Seq(Entries), NEW i \in 1..Len(L)
    PROVE  \A b :
              /\ Cardinality(Waiting(L, i, b)) \in Nat
              /\ Cardinality(Waiting(L, i - 1, b))
                   = Cardinality(Waiting(L, i, b)) + (IF L[i].authority = b THEN 1 ELSE 0)
              /\ Hashed(L, i - 1, b) <=>
                   \/ Hashed(L, i, b)
                   \/ L[i].authority = b /\ L[i].initial_code_hash # NoHash
<1> TAKE b
<1>1. Len(L) \in Nat /\ i - 1 \in Nat /\ i \in Nat
  BY LenProperties
<1> DEFINE W == Waiting(L, i - 1, b)
           X == Waiting(L, i, b)
<1>2. W \in SUBSET (1..Len(L)) /\ X \in SUBSET (1..Len(L)) /\ i \notin X
  BY <1>1 DEF Waiting
<1>3. /\ L[i].authority = b => W = X \cup {i}
      /\ L[i].authority # b => W = X
  <2>1. ((i - 1) + 1)..Len(L) = {i} \cup ((i + 1)..Len(L))
    BY <1>1
  <2> QED
    BY <2>1 DEF Waiting
<1>4. Hashed(L, i, b) <=> \E k \in X : L[k].initial_code_hash # NoHash
  BY DEF Hashed
<1>5. Hashed(L, i - 1, b) <=> \E k \in W : L[k].initial_code_hash # NoHash
  BY DEF Hashed
<1> HIDE DEF W, X
<1>6. Cardinality(X) \in Nat /\ Cardinality(W) \in Nat
  BY <1>1, <1>2, IndexSets
<1>7. Cardinality(W) = Cardinality(X) + (IF L[i].authority = b THEN 1 ELSE 0)
  <2>1. CASE L[i].authority = b
    <3>1. W \ {i} = X /\ i \in W
      BY <1>2, <1>3, <2>1
    <3>2. Cardinality(W \ {i}) = Cardinality(W) - 1
      BY <1>1, <1>2, <3>1, IndexSets
    <3>3. Cardinality(W \ {i}) = Cardinality(X)
      BY Zenon, <3>1
    <3> DEFINE cx == Cardinality(X)
               cw == Cardinality(W)
    <3>4. cx \in Nat /\ cw \in Nat /\ cx = cw - 1
      BY <1>6, <3>2, <3>3
    <3> HIDE DEF cx, cw
    <3>5. cw = cx + 1
      BY <3>4
    <3> QED
      BY <2>1, <3>5 DEF cx, cw
  <2>2. CASE L[i].authority # b
    <3>1. Cardinality(W) = Cardinality(X)
      BY Zenon, <1>3, <2>2
    <3> DEFINE cx == Cardinality(X)
               cw == Cardinality(W)
    <3>2. cx \in Nat /\ cw = cx
      BY <1>6, <3>1
    <3> HIDE DEF cx, cw
    <3>3. cw = cx + 0
      BY <3>2
    <3> QED
      BY <2>2, <3>3 DEF cx, cw
  <2> QED
    BY <2>1, <2>2
<1>8. Hashed(L, i - 1, b) <=>
         \/ Hashed(L, i, b)
         \/ L[i].authority = b /\ L[i].initial_code_hash # NoHash
  BY <1>3, <1>4, <1>5
<1> QED
  BY <1>6, <1>7, <1>8 DEF W, X

\* What reverting does not change.
SameOthers(s, w) ==
    \A a \in Addr : LET acc == s.modified[a]
                        new == w.modified[a]
                    IN  /\ new.balance = acc.balance /\ new.loaded = acc.loaded
                        /\ new.code = acc.code /\ (~acc.loaded => new = acc)
                        /\ new.nonexistent = acc.nonexistent
                        /\ new.erase_if_empty = acc.erase_if_empty
                        /\ new.has_initial_storage = acc.has_initial_storage

LEMMA OneReverted ==
    ASSUME NEW view, SoundViews(view), NEW t, NEW L \in Seq(Entries), HashesOK(L, view),
           NEW i \in 1..Len(L), NEW j, NEW s \in LooseStates(view, j),
           AppliedOK(s, L, i - 1, view, t), NEW u, u = RevertAuthorization(s, L[i])
    PROVE  AppliedOK(u, L, i, view, t) /\ SameOthers(s, u)
<1> DEFINE x == L[i]
           a == x.authority
<1>1. x \in Entries /\ a \in Addr
  <2>1. x \in Entries
    BY ElementOfSeq
  <2> QED
    BY <2>1 DEF Entries
<1> HIDE DEF x
<1>a. u = RevertAuthorization(s, x)
  BY DEF x
<1>2. /\ RevertedFields(s.modified[a], u.modified[a], x)
      /\ \A b \in Addr : b # a => u.modified[b] = s.modified[b]
  BY <1>1, <1>a, AuthorizationReverted
<1>3. \A b : /\ Cardinality(Waiting(L, i, b)) \in Nat
             /\ Cardinality(Waiting(L, i - 1, b))
                   = Cardinality(Waiting(L, i, b)) + (IF a = b THEN 1 ELSE 0)
             /\ Hashed(L, i - 1, b) <=>
                   \/ Hashed(L, i, b)
                   \/ a = b /\ x.initial_code_hash # NoHash
  BY LessWaiting DEF x
<1>h. \A b : Hashed(L, i - 1, b) <=>
               Hashed(L, i, b) \/ (a = b /\ x.initial_code_hash # NoHash)
  BY LessWaiting DEF x
<1>4. x.initial_code_hash \in {NoHash, view[a].code}
  BY DEF HashesOK, x
<1> HIDE DEF a
<1>5. ASSUME NEW b \in Addr
      PROVE  Waits(u.modified[b], view[b],
                   Bump(t, b) + Cardinality(Waiting(L, i, b)), Hashed(L, i, b))
  <2> DEFINE n  == Cardinality(Waiting(L, i, b))
             n1 == Cardinality(Waiting(L, i - 1, b))
             acc == s.modified[b]
             new == u.modified[b]
  <2>1. Waits(acc, view[b], Bump(t, b) + n1, Hashed(L, i - 1, b))
    BY DEF AppliedOK
  <2>2. n \in Nat /\ n1 = n + (IF a = b THEN 1 ELSE 0) /\ Bump(t, b) \in {0, 1}
    BY <1>3, BumpNat
  <2>3. view[b].nonce \in Nat
    BY DEF SoundViews, ViewAccount
  <2>b. Hashed(L, i - 1, b) <=>
           Hashed(L, i, b) \/ (a = b /\ x.initial_code_hash # NoHash)
    BY Zenon, <1>h
  <2>4. CASE b = a
    <3>1. RevertedFields(acc, new, x)
      BY <1>2, <2>4
    <3> HIDE DEF n, n1, acc, new
    <3>2. n1 = n + 1
      BY <2>2, <2>4
    <3>3. Live(acc) /\ Live(new)
      <4>1. Bump(t, b) + n1 > 0
        BY <2>2, <3>2
      <4> QED
        BY <2>1, <3>1, <4>1 DEF Waits, Live, RevertedFields
    <3>4. new.nonce = view[b].nonce + (Bump(t, b) + n)
      <4>1. acc.nonce = view[b].nonce + (Bump(t, b) + n1) /\ new.nonce = acc.nonce - 1
        BY <2>1, <3>1, <3>3 DEF Waits, Live, RevertedFields
      <4> QED
        BY <2>2, <2>3, <3>2, <4>1
    <3>5. Untouched(new, view[b])
      <4>1. CASE x.initial_code_hash = NoHash
        BY <2>1, <3>1, <4>1 DEF Waits, Untouched, RevertedFields
      <4>2. CASE x.initial_code_hash # NoHash
        <5>1. new.code_hash = view[b].code
          BY <1>4, <2>4, <3>1, <4>2 DEF RevertedFields
        <5> QED
          BY <2>1, <3>1, <5>1 DEF Waits, Untouched, RevertedFields
      <4> QED
        BY <4>1, <4>2
    <3>6. new.code_changed => Hashed(L, i, b)
      <4>1. CASE x.initial_code_hash = NoHash
        BY <2>1, <2>b, <3>1, <4>1 DEF Waits, RevertedFields
      <4>2. CASE x.initial_code_hash # NoHash
        BY <3>1, <4>2 DEF RevertedFields
      <4> QED
        BY <4>1, <4>2
    <3> QED
      BY <3>3, <3>4, <3>5, <3>6 DEF Waits, n, new
  <2>5. CASE b # a
    <3>1. new = acc
      BY <1>2, <2>5
    <3>2. n1 = n
      BY <2>2, <2>5
    <3> HIDE DEF n, n1, acc, new
    <3>3. Waits(new, view[b], Bump(t, b) + n, Hashed(L, i, b))
      BY <2>1, <2>5, <2>b, <3>1, <3>2 DEF Waits
    <3> QED
      BY <3>3 DEF n, new
  <2> QED
    BY <2>4, <2>5
<1>6. SameOthers(s, u)
  <2>1. s.modified[a].loaded
    <3>1. Waits(s.modified[a], view[a],
                Bump(t, a) + Cardinality(Waiting(L, i - 1, a)), Hashed(L, i - 1, a))
      BY <1>1 DEF AppliedOK
    <3>2. Cardinality(Waiting(L, i - 1, a)) = Cardinality(Waiting(L, i, a)) + 1
          /\ Cardinality(Waiting(L, i, a)) \in Nat
      BY <1>3
    <3>3. Bump(t, a) + Cardinality(Waiting(L, i - 1, a)) > 0
      BY <3>2, BumpNat
    <3> QED
      BY <3>1, <3>3 DEF Waits, Live
  <2>2. ASSUME NEW b \in Addr
        PROVE  LET acc == s.modified[b]
                   new == u.modified[b]
               IN  /\ new.balance = acc.balance /\ new.loaded = acc.loaded
                   /\ new.code = acc.code /\ (~acc.loaded => new = acc)
                   /\ new.nonexistent = acc.nonexistent
                   /\ new.erase_if_empty = acc.erase_if_empty
                   /\ new.has_initial_storage = acc.has_initial_storage
    <3>1. CASE b = a
      BY <1>2, <2>1, <3>1 DEF RevertedFields
    <3>2. CASE b # a
      BY <1>2, <3>2
    <3> QED
      BY <3>1, <3>2
  <2> QED
    BY <2>2 DEF SameOthers
<1> QED
  BY <1>5, <1>6 DEF AppliedOK

(* An account without authorizations is as a transaction may leave it.       *)
LEMMA WaitsFollows ==
    ASSUME NEW v, Sound(v), NEW acc, Follows(acc, v), acc.loaded, NEW n \in {0, 1},
           NEW new \in LooseAccount, Waits(new, v, n, FALSE),
           new.balance = acc.balance, new.loaded = acc.loaded,
           new.nonexistent = acc.nonexistent, new.erase_if_empty = acc.erase_if_empty,
           new.has_initial_storage = acc.has_initial_storage,
           n = 0 => acc.balance >= v.balance
    PROVE  Follows(new, v)
<1>1. /\ new.storage = NewAccount.storage /\ ~new.just_created /\ ~new.destructed
      /\ (new.erase_if_empty \/ new.nonexistent) <=> ~v.exists
      /\ ~new.code_changed /\ new.code_hash = v.code
      /\ new.nonce = v.nonce + n /\ new.loaded
      /\ n > 0 => ~new.nonexistent
  BY DEF Waits, Untouched, Live
<1>2. ~new.nonexistent \/ (n = 0 /\ v = NoAccount)
  <2>1. v.exists \/ v = NoAccount
    BY DEF Sound
  <2>2. CASE new.nonexistent
    <3>1. ~v.exists
      BY <1>1, <2>2
    <3>2. n = 0
      <4>1. ~(n > 0)
        BY <1>1, <2>2
      <4> QED
        BY <4>1
    <3> QED
      BY <2>1, <3>1, <3>2
  <2>3. CASE ~new.nonexistent
    BY <2>3
  <2> QED
    BY <2>2, <2>3
<1>3. v.nonce \in Nat /\ v \in ViewAccount
  BY DEF Sound, ViewAccount
<1>4. /\ new.nonce \in Nat /\ new.nonce >= v.nonce
      /\ new.nonexistent => new.nonce = 0 /\ ~v.exists /\ new.code_hash = NoCode
  BY <1>1, <1>2, <1>3 DEF NoAccount
<1>5. new \in Account
  BY <1>4 DEF LooseAccount, Account
<1>6. \A k \in Key : /\ SlotFollows(new.storage[k], v.storage[k])
                     /\ new.storage[k].current = new.storage[k].original
  BY <1>1 DEF NewAccount, NewSlot, SlotFollows
<1>7. new.nonexistent => new.balance = 0 /\ ~new.erase_if_empty
  BY DEF Follows
<1>8. Blank(new) => new.balance >= v.balance
  <2>1. ASSUME Blank(new) PROVE n = 0
    BY <1>1, <1>3, <2>1 DEF Blank
  <2> QED
    BY <2>1
<1>9. ~new.has_initial_storage => \A k \in Key : v.storage[k] = 0
  BY DEF Follows
<1> QED
  BY <1>1, <1>4, <1>5, <1>6, <1>7, <1>8, <1>9 DEF Follows

\* Nothing is left of the authorizations.
Reverted(s0, u, view, t) ==
    /\ Exact(u, view) /\ Holds(u) = Holds(s0)
    /\ \A a \in Addr : Waits(u.modified[a], view[a], Bump(t, a), FALSE)

LEMMA AuthorizationsTakenBack ==
    ASSUME NEW view, SoundViews(view), NEW t, NEW s0, NEW s, Quiet(s0, s, view),
           NEW L \in Seq(Entries), HashesOK(L, view), AppliedOK(s, L, 0, view, t),
           \A a \in Addr \ {t.sender} : Holds(s0)[a].balance = view[a].balance
    PROVE  Reverted(s0, FoldLeft(RevertAuthorization, s, L), view, t)
<1> DEFINE N  == Len(L)
           j  == s.journal
           St == LooseStates(view, j)
           r  == RevertResult(s, L)
<1>1. N \in Nat /\ DOMAIN L = 1..N /\ \A i \in 1..N : L[i] \in Entries
  BY LenProperties, ElementOfSeq
<1>2. Exact(s, view) /\ Holds(s) = Holds(s0)
  BY DEF Quiet
<1>3. s \in St
  BY <1>2, LooseType
<1> HIDE DEF St, N, j, r
<1>4. \A w \in St, i \in 1..N : RevertAuthorization(w, L[i]) \in St
  BY <1>1, AuthorizationReverted DEF St
<1>5. PICK lab : RevertLabels(lab, s, L, St, N)
  BY <1>1, <1>3, <1>4, Reverts
<1> DEFINE T == {i \in 0..N : AppliedOK(lab[i], L, i, view, t) /\ SameOthers(s, lab[i])}
<1>6. 0 \in T
  <2>1. lab[0] = s
    BY <1>5 DEF RevertLabels
  <2>2. SameOthers(s, s)
    BY DEF SameOthers
  <2> QED
    BY <1>1, <2>1, <2>2
<1>7. ASSUME NEW i \in 1..N, i - 1 \in T
      PROVE  i \in T
  <2>1. /\ AppliedOK(lab[i - 1], L, i - 1, view, t) /\ SameOthers(s, lab[i - 1])
        /\ i - 1 \in 0..N /\ i \in 0..N
    BY <1>1, <1>7
  <2>2. lab[i - 1] \in St /\ lab[i] = RevertAuthorization(lab[i - 1], L[i])
    BY <1>5, <2>1 DEF RevertLabels
  <2>3. AppliedOK(lab[i], L, i, view, t) /\ SameOthers(lab[i - 1], lab[i])
    BY <2>1, <2>2, OneReverted DEF St, N
  <2>4. SameOthers(s, lab[i])
    BY <2>1, <2>3 DEF SameOthers
  <2> QED
    BY <2>1, <2>3, <2>4
<1> HIDE DEF T
<1>8. N \in T
  <2>1. \A i \in 0..N : i \in T
    BY <1>1, <1>6, <1>7, UpToAll
  <2> QED
    BY <1>1, <2>1
<1>9. r = lab[N] /\ r \in St
  <2>1. N \in 0..N
    BY <1>1
  <2> QED
    BY <1>5, <2>1 DEF RevertLabels, r
<1>10. AppliedOK(r, L, N, view, t) /\ SameOthers(s, r)
  BY <1>8, <1>9 DEF T
<1>11. ASSUME NEW a \in Addr
       PROVE  Waits(r.modified[a], view[a], Bump(t, a), FALSE)
  <2>1. Waits(r.modified[a], view[a], Bump(t, a) + Cardinality(Waiting(L, N, a)),
              Hashed(L, N, a))
    BY <1>10 DEF AppliedOK
  <2>2. Waiting(L, N, a) = {}
    BY <1>1 DEF Waiting, N
  <2>3. Cardinality(Waiting(L, N, a)) = 0 /\ ~Hashed(L, N, a)
    BY <1>1, <2>2, WaitingCounts DEF Hashed
  <2>4. Bump(t, a) + Cardinality(Waiting(L, N, a)) = Bump(t, a)
    BY <2>3, BumpNat
  <2>5. Waits(r.modified[a], view[a], Bump(t, a), Hashed(L, N, a))
    BY Zenon, <2>1, <2>4
  <2> QED
    BY <2>3, <2>5 DEF Waits
<1>12. /\ r = [initial |-> view, modified |-> r.modified, journal |-> j]
       /\ r.modified \in [Addr -> LooseAccount] /\ r.initial = view
  BY <1>9 DEF LooseStates, St
<1>13. ASSUME NEW a \in Addr
       PROVE  /\ Follows(r.modified[a], view[a])
              /\ Held(r.modified[a], view[a]) = Held(s.modified[a], view[a])
  <2> DEFINE acc == s.modified[a]
             new == r.modified[a]
             v   == view[a]
             n   == Bump(t, a)
  <2>1. /\ acc \in Account /\ Follows(acc, v)
        /\ new.balance = acc.balance /\ new.loaded = acc.loaded /\ new.code = acc.code
        /\ ~acc.loaded => new = acc
        /\ new.nonexistent = acc.nonexistent /\ new.erase_if_empty = acc.erase_if_empty
        /\ new.has_initial_storage = acc.has_initial_storage
    BY <1>2, <1>10, ExactFields DEF SameOthers
  <2>2. new \in LooseAccount
    BY <1>12
  <2>3. Waits(new, v, n, FALSE)
    BY <1>11
  <2>4. v.nonce \in Nat /\ Sound(v) /\ n \in {0, 1}
    BY BumpNat DEF SoundViews, ViewAccount
  <2>b. ASSUME n = 0, acc.loaded PROVE acc.balance >= v.balance
    <3>1. a # t.sender
      BY <2>b DEF Bump
    <3>2. Holds(s)[a].balance = v.balance
      BY <1>2, <3>1
    <3>3. Holds(s)[a].balance = acc.balance
      BY <2>b DEF Holds, Held
    <3>4. acc.balance \in Nat
      BY <2>1, AccountFields
    <3> QED
      BY <3>2, <3>3, <3>4
  <2> HIDE DEF acc, new, v, n
  <2>5. CASE ~acc.loaded
    <3>1. new = acc
      BY <2>1, <2>5
    <3>2. Follows(new, v) /\ Held(new, v) = Held(acc, v)
      BY <2>1, <3>1
    <3> QED
      BY <3>2 DEF acc, new, v
  <2>6. CASE acc.loaded
    <3>1. Held(new, v) = Held(acc, v)
      BY <2>1 DEF Held
    <3>2. Follows(new, v)
      BY <2>1, <2>2, <2>3, <2>4, <2>6, <2>b, WaitsFollows
    <3> QED
      BY <3>1, <3>2 DEF acc, new, v
  <2> QED
    BY <2>5, <2>6
<1>14. Exact(r, view) /\ Holds(r) = Holds(s)
  <2>1. r.modified \in [Addr -> Account]
    BY <1>12, <1>13 DEF Follows
  <2>2. s.journal \in Seq(JournalEntry) /\ view \in [Addr -> ViewAccount] /\ s.initial = view
    BY <1>2, ExactFields
  <2>3. r \in StateType
    BY <1>12, <2>1, <2>2 DEF StateType, j
  <2>4. Exact(r, view)
    BY <1>12, <1>13, <2>3 DEF Exact
  <2>5. Holds(r) = Holds(s)
    BY <1>12, <1>13, <2>2 DEF Holds
  <2> QED
    BY <2>4, <2>5
<1>15. r = FoldLeft(RevertAuthorization, s, L)
  BY Zenon DEF r, RevertResult
<1> QED
  BY Zenon, <1>2, <1>11, <1>14, <1>15 DEF Reverted

(* The recipient is looked up.                                              *)
LEMMA CallPrepared ==
    ASSUME NEW view, SoundViews(view), NEW t, TransactionType(t),
           NEW s, Exact(s, view), NEW u, u = PrepareCall(s, t)
    PROVE  Quiet(s, u, view) /\ LooksUp(s, u, view)
<1>1. t.to \in Addr \cup {NoAddr} /\ Recipient(t) \in Addr
  BY DEF TransactionType
<1>2. CASE t.to # NoAddr
  <2>1. t.to \in Addr /\ u = GetCode(s, t.to)
    BY <1>1, <1>2 DEF PrepareCall
  <2> QED
    BY <2>1, GetCodeQuiet, GetCodeLooksUp
<1>3. CASE t.to = NoAddr /\ Rev >= AMSTERDAM
  <2>1. u = Get(s, Recipient(t))
    BY <1>3 DEF PrepareCall
  <2> QED
    BY <1>1, <2>1, GetQuiet, GetLooksUp
<1>4. CASE t.to = NoAddr /\ ~(Rev >= AMSTERDAM)
  <2>1. u = s
    BY <1>4 DEF PrepareCall
  <2> QED
    BY <2>1, QuietSelf DEF LooksUp
<1> QED
  BY <1>2, <1>3, <1>4

LEMMA FirstAuthorizations ==
    ASSUME NEW L \in Seq(AuthType), NEW n \in Nat, n <= Len(L)
    PROVE  /\ SubSeq(L, 1, n) \in Seq(AuthType)
           /\ n < Len(L) => L[n + 1] \in AuthType
<1>1. Len(L) \in Nat
  BY LenProperties
<1>2. SubSeq(L, 1, n) \in Seq(AuthType)
  <2>1. \A i \in 1..n : i \in 1..Len(L)
    BY <1>1
  <2>2. \A i \in 1..n : L[i] \in AuthType
    BY <2>1, ElementOfSeq
  <2>3. SubSeq(L, 1, n) = [i \in 1..n |-> L[i]]
    BY <1>1
  <2>4. [i \in 1..n |-> L[i]] \in [1..n -> AuthType]
    BY <2>2
  <2> QED
    BY <2>3, <2>4, SeqDef
<1>3. ASSUME n < Len(L) PROVE L[n + 1] \in AuthType
  <2>1. n + 1 \in 1..Len(L)
    BY <1>1, <1>3
  <2> QED
    BY <2>1, ElementOfSeq
<1> QED
  BY <1>2, <1>3

(* Gas runs out before the call: the authorizations are taken back.         *)
LEMMA AuthRunsOut ==
    ASSUME NEW view, SoundViews(view), NEW t, TransactionType(t), NEW s, Bought(s, view, t),
           NEW o, o.op = "auth", o.count \in Nat, o.count <= Len(t.auths)
    PROVE  Reverted(s, ProcessTopLevel(s, t, o), view, t)
<1> DEFINE n    == o.count
           done == ProcessAuthorizationList(s, SubSeq(t.auths, 1, n))
           s1   == IF n < Len(t.auths) THEN LookUpAuthority(done.state, t.auths[n + 1])
                   ELSE PrepareCall(done.state, t)
           L    == done.applied
           d    == done.state
<1>1. t.auths \in Seq(AuthType)
  BY DEF TransactionType, AuthType
<1>2. SubSeq(t.auths, 1, n) \in Seq(AuthType) /\ (n < Len(t.auths) => t.auths[n + 1] \in AuthType)
  BY <1>1, FirstAuthorizations
<1>3. Exact(s, view) /\ \A a \in Addr : Waits(s.modified[a], view[a], Bump(t, a), FALSE)
  BY DEF Bought
<1>4. ProcessTopLevel(s, t, o) = FoldLeft(RevertAuthorization, s1, L)
  BY Zenon DEF ProcessTopLevel
<1>5. done \in Authorizing(s, view, t)
  BY <1>2, <1>3, AuthorizationsProcessed
<1> HIDE DEF done
<1>6. /\ Quiet(s, d, view) /\ AppliedOK(d, L, 0, view, t) /\ HashesOK(L, view)
      /\ L \in Seq(Entries)
  BY <1>5 DEF Authorizing
<1>7. Exact(d, view)
  BY <1>6 DEF Quiet
<1> HIDE DEF d, L
<1>8. Quiet(d, s1, view) /\ LooksUp(d, s1, view)
  <2>1. CASE n < Len(t.auths)
    <3>1. s1 = LookUpAuthority(d, t.auths[n + 1]) /\ t.auths[n + 1] \in AuthType
      BY <1>2, <2>1 DEF d
    <3> QED
      BY <1>7, <3>1, AuthorityLookedUp
  <2>2. CASE ~(n < Len(t.auths))
    <3>1. s1 = PrepareCall(d, t)
      BY <2>2 DEF d
    <3> QED
      BY <1>7, <3>1, CallPrepared
  <2> QED
    BY <2>1, <2>2
<1> HIDE DEF s1, n
<1>9. Quiet(s, s1, view)
  BY <1>6, <1>8, QuietTransitive
<1>10. AppliedOK(s1, L, 0, view, t)
  <2>1. 0 \in Nat
    OBVIOUS
  <2> QED
    BY <1>6, <1>8, <2>1, LooksUpApplied
<1>11. \A a \in Addr \ {t.sender} : Holds(s)[a].balance = view[a].balance
  BY NewExact DEF Bought, Replace
<1>12. Reverted(s, FoldLeft(RevertAuthorization, s1, L), view, t)
  BY <1>6, <1>9, <1>10, <1>11, AuthorizationsTakenBack
<1> QED
  BY Zenon, <1>4, <1>12

(* A message call at the top level: the account whose code runs in the      *)
(* context of the recipient has code, and so has the recipient.             *)
LEMMA TopLevelCallMoves ==
    ASSUME NEW view, SoundViews(view), Rev >= AMSTERDAM, NEW t, t.sender \in Addr,
           t.to \in Addr, t.value \in Nat,
           NEW s, Exact(s, view), Runnable(s), s.modified[t.to].loaded,
           t.value <= Holds(s)[t.sender].balance, ~Blank(s.modified[t.sender]),
           NEW o, OutcomeType(o), o.op # "auth"
    PROVE  Moves(s, TopLevelCall(s, t, o), view)
<1> DEFINE ca == CodeAddress(s, t)
           s0 == GetCode(s, t.to)
           s2 == CallEffects(s, "CALL", t.sender, t.to, t.value)
           s1 == GetCode(s2, ca)
           code == s1.modified[ca].code
           u  == TopLevelCall(s, t, o)
           b  == t.to
<1>1. ca \in Addr
  BY DelegateAssumption DEF CodeAddress, IsCodeDelegated
<1>2. /\ code = NoCode => u = s1
      /\ code # NoCode /\ IsCodeDelegated(code) => u = GetCode(s, ca)
      /\ code # NoCode /\ ~IsCodeDelegated(code) /\ o.op = "fail" =>
            u = GetStorage(GetCode(s, ca), b, o.key)
      /\ code # NoCode /\ ~IsCodeDelegated(code) /\ o.op # "fail" => u = RunCode(s1, b, o)
  BY Zenon DEF TopLevelCall
<1>3. ca = b \/ s0.modified[b].code # NoCode
  BY DelegateAssumption, CodeAssumption DEF CodeAddress, IsCodeDelegated
<1>4. /\ Moves(s, s0, view)
      /\ s0.modified[b].code # NoCode => ~Blank(s0.modified[b])
      /\ SameWaits(s.modified[b], s0.modified[b])
  BY LookedUp, GetCodeLooksUp
<1> HIDE DEF ca, s0, u
<1>5. Moves(s, s2, view)
  BY CallEffectsMoves
<1> HIDE DEF s2
<1>6. Exact(s2, view) /\ Runnable(s2)
  BY <1>5 DEF Moves
<1>7. /\ Moves(s2, s1, view) /\ Exact(s1, view)
      /\ code # NoCode => ~Blank(s1.modified[ca])
  BY <1>1, <1>6, LookedUp
<1> HIDE DEF code, s1
<1>8. Moves(s, s1, view)
  BY <1>5, <1>7, MovesTransitive
<1>9. CASE code = NoCode
  BY <1>2, <1>8, <1>9 DEF u
<1>10. Quiet(s, GetCode(s, ca), view) /\ Exact(GetCode(s, ca), view)
  BY <1>1, GetCodeQuiet DEF Quiet
<1>11. CASE code # NoCode /\ IsCodeDelegated(code)
  <2>1. u = GetCode(s, ca)
    BY <1>2, <1>11
  <2> QED
    BY <1>10, <2>1, QuietMoves DEF u
<1>12. CASE code # NoCode /\ ~IsCodeDelegated(code) /\ o.op = "fail"
  <2>1. u = GetStorage(GetCode(s, ca), b, o.key)
    BY <1>2, <1>12
  <2>2. o.key \in Key /\ b \in Addr
    BY DEF OutcomeType
  <2>3. Quiet(GetCode(s, ca), u, view)
    BY <1>10, <2>1, <2>2, GetStorageQuiet
  <2>4. Quiet(s, u, view)
    BY <1>10, <2>3, QuietTransitive
  <2> QED
    BY <2>4, QuietMoves DEF u
<1>13. CASE code # NoCode /\ ~IsCodeDelegated(code) /\ o.op # "fail"
  <2>1. u = RunCode(s1, b, o)
    BY <1>2, <1>13
  <2>2. ~Blank(s1.modified[b])
    <3>1. CASE ca = b
      BY <1>7, <1>13, <3>1
    <3>2. CASE ca # b
      <4>1. ~Blank(s.modified[b])
        BY <1>3, <1>4, <3>2 DEF SameWaits, Blank
      <4>2. KeepsAccount(s.modified[b], s1.modified[b])
        BY <1>8 DEF Moves, Keeps
      <4> QED
        BY <4>1, <4>2 DEF KeepsAccount
    <3> QED
      BY <3>1, <3>2
  <2>3. Moves(s1, u, view)
    BY <1>7, <1>13, <2>1, <2>2, RunCodeMoves
  <2> QED
    BY <1>8, <2>3, MovesTransitive DEF u
<1> QED
  BY <1>9, <1>11, <1>12, <1>13

(* A create at the top level.                                               *)
LEMMA TopLevelCreateMoves ==
    ASSUME NEW view, SoundViews(view), Rev >= AMSTERDAM, NEW t, t.sender \in Addr,
           Recipient(t) \in Addr, t.value \in Nat,
           NEW s, Exact(s, view), t.value <= Holds(s)[t.sender].balance,
           ~Blank(s.modified[t.sender]), NEW o, OutcomeType(o), o.op # "auth"
    PROVE  Moves(s, TopLevelCreate(s, t, o), view)
<1> DEFINE a  == Recipient(t)
           s1 == NewContract(s, t.sender, a, t.value)
           s2 == RunCode(s1, a, o)
           u  == TopLevelCreate(s, t, o)
<1>1. o.key \in Key /\ o.code \in Codes
  BY DEF OutcomeType
<1>2. /\ Collides(s, a) => u = Get(s, a)
      /\ ~Collides(s, a) /\ o.op = "fail" => u = GetStorage(Get(s, a), a, o.key)
      /\ ~Collides(s, a) /\ o.op = "selfdestruct" => u = s2
      /\ ~Collides(s, a) /\ o.op \notin {"fail", "selfdestruct"} => u = DeployCode(s2, a, o.code)
  BY DEF TopLevelCreate
<1>3. a \in Addr
  OBVIOUS
<1>4. Quiet(s, Get(s, a), view) /\ Exact(Get(s, a), view)
  BY <1>3, GetQuiet DEF Quiet
<1> HIDE DEF a, u
<1>5. CASE Collides(s, a)
  BY <1>2, <1>4, <1>5, QuietMoves DEF u
<1>6. CASE ~Collides(s, a) /\ o.op = "fail"
  <2>1. u = GetStorage(Get(s, a), a, o.key)
    BY <1>2, <1>6
  <2>2. Quiet(Get(s, a), u, view)
    BY <1>1, <1>3, <1>4, <2>1, GetStorageQuiet
  <2>3. Quiet(s, u, view)
    BY <1>4, <2>2, QuietTransitive
  <2> QED
    BY <2>3, QuietMoves DEF u
<1>7. CASE ~Collides(s, a) /\ o.op # "fail"
  <2>1. Moves(s, s1, view) /\ s1.modified[a].nonce > 0
    BY <1>3, <1>7, NewContractMoves
  <2> HIDE DEF s1
  <2>2. Exact(s1, view) /\ s1.modified[a] \in Account
    BY <1>3, <2>1, ExactFields DEF Moves
  <2>3. ~Blank(s1.modified[a])
    BY <2>1 DEF Blank
  <2>4. Moves(s1, s2, view)
    BY <1>3, <1>7, <2>2, <2>3, RunCodeMoves
  <2>5. s2.modified[a].nonce > 0 /\ Exact(s2, view)
    BY <1>3, <2>1, <2>4 DEF Moves, Keeps, KeepsAccount
  <2> HIDE DEF s2
  <2>6. Moves(s, s2, view)
    BY <2>1, <2>4, MovesTransitive
  <2>7. CASE o.op = "selfdestruct"
    BY <1>2, <1>7, <2>6, <2>7 DEF u
  <2>8. CASE o.op # "selfdestruct"
    <3>1. u = DeployCode(s2, a, o.code)
      BY <1>2, <1>7, <2>8
    <3>2. Quiet(s2, u, view)
      BY <1>1, <1>3, <2>5, <3>1, DeployCodeQuiet
    <3>3. Moves(s2, u, view)
      BY <3>2, QuietMoves
    <3> QED
      BY <2>6, <3>3, MovesTransitive DEF u
  <2> QED
    BY <2>7, <2>8
<1> QED
  BY <1>5, <1>6, <1>7

-----------------------------------------------------------------------------
(* The gas of a block. *)

\* What the block charges in its two dimensions for transaction t.
ExecutionPart(t, r) == Receipt(t, r).block_gas_used - Receipt(t, r).state_gas_used
StatePart(t, r) == Receipt(t, r).state_gas_used

(* The state-gas part of the limit is what exceeds MAX_TX_GAS_LIMIT.       *)
LEMMA StateGasLimitFacts ==
    ASSUME NEW t \in Transactions
    PROVE  /\ StateGasLimit(t) \in Nat /\ StateGasLimit(t) <= t.gas_limit
           /\ Rev < AMSTERDAM => StateGasLimit(t) = 0
           /\ Rev >= AMSTERDAM =>
                t.gas_limit - StateGasLimit(t) = Least(t.gas_limit, MAX_TX_GAS_LIMIT)
<1>1. t.gas_limit \in Nat /\ MAX_TX_GAS_LIMIT \in Nat
  BY TransactionAssumption, BlockInfoAssumption
<1> QED
  BY <1>1, RevNat DEF StateGasLimit, Least, Greatest, AMSTERDAM

\* The numbers of Receipt(t, r), by name.
B4Refund(t, r) == t.gas_limit - r.gas_left - r.left
Refunded(t, r) == Least(r.refund, B4Refund(t, r) \div (IF Rev >= LONDON THEN 5 ELSE 2))
StateGasUsed(t, r) == StateGasLimit(t) - r.left + r.spilled

LEMMA ReceiptFields ==
    ASSUME NEW t, NEW r
    PROVE  /\ Receipt(t, r).gas_used = Greatest(B4Refund(t, r) - Refunded(t, r), t.min)
           /\ Receipt(t, r).state_gas_used = StateGasUsed(t, r)
           /\ Rev >= AMSTERDAM =>
                Receipt(t, r).block_gas_used
                  = Greatest(B4Refund(t, r), t.min + StateGasUsed(t, r))
           /\ ~(Rev >= AMSTERDAM) =>
                Receipt(t, r).block_gas_used = Receipt(t, r).gas_used
<1>1. /\ TransactionProperties(t).min_gas_cost = t.min
      /\ TransactionProperties(t).state_gas_limit = StateGasLimit(t)
  BY DEF TransactionProperties
<1> QED
  BY <1>1 DEF Receipt, B4Refund, Refunded, StateGasUsed

(* A refund is a proper part of the gas it is taken from.                  *)
LEMMA RefundFacts ==
    ASSUME NEW gas \in Nat, gas > 0, NEW refund \in Nat, NEW d \in {2, 5}
    PROVE  Least(refund, gas \div d) \in Nat /\ Least(refund, gas \div d) < gas
<1>1. gas \div d \in Nat /\ gas \div d < gas
  <2>1. CASE d = 2
    BY <2>1
  <2>2. CASE d = 5
    BY <2>2
  <2> QED
    BY <2>1, <2>2
<1> QED
  BY <1>1 DEF Least

\* The gas result r is one of an accepted transaction t that the block can
\* afford in both dimensions.
Affords(t, r, gas, state_gas) ==
    /\ Receipt(t, r).gas_used \in Nat /\ Receipt(t, r).gas_used > 0
    /\ ExecutionPart(t, r) \in Nat /\ ExecutionPart(t, r) <= gas
    /\ StatePart(t, r) \in Nat /\ StatePart(t, r) <= state_gas

(* Whatever the execution makes of its gas, what is charged to the block   *)
(* is covered by what the validation has checked: the execution part by    *)
(* the gas limit without its state gas, the state part by all of it.       *)
LEMMA ValidatedIsAfforded ==
    ASSUME NEW t \in Transactions, NEW o, NEW r \in GasResults,
           NEW gas \in Nat, NEW state_gas \in Nat,
           FitsBlock(t, gas, state_gas),
           t.gas_limit - StateGasLimit(t) >= Greatest(t.intrinsic, t.min),
           CanReturn(t, o, r)
    PROVE  Affords(t, r, gas, state_gas)
<1>1. /\ t.gas_limit \in Nat /\ t.min \in Nat /\ t.intrinsic \in Nat /\ t.intrinsic > 0
      /\ r.gas_left \in Nat /\ r.left \in Nat /\ r.spilled \in Nat /\ r.refund \in Nat
  BY TransactionAssumption
<1>2. StateGasLimit(t) \in Nat /\ StateGasLimit(t) <= t.gas_limit
  BY StateGasLimitFacts
<1>3. PICK limit \in Nat : limit = StateGasLimit(t)
  BY <1>2
<1>4. /\ r.gas_left + r.spilled <= t.gas_limit - t.intrinsic - limit
      /\ r.left <= limit
      /\ Rev < AMSTERDAM => r.spilled = 0
  BY <1>3 DEF CanReturn, TransactionProperties
<1>5. t.intrinsic <= t.gas_limit - limit /\ t.min <= t.gas_limit - limit
  BY <1>1, <1>2, <1>3 DEF Greatest
<1>6. PICK b4 : b4 = B4Refund(t, r)
  OBVIOUS
<1>7. b4 = t.gas_limit - r.gas_left - r.left
  BY <1>6 DEF B4Refund
<1>8. b4 \in Nat /\ b4 > 0 /\ b4 <= t.gas_limit
  BY <1>1, <1>3, <1>4, <1>7
<1>9. PICK refunded : refunded = Refunded(t, r)
  OBVIOUS
<1>10. refunded \in Nat /\ refunded < b4
  <2>1. (IF Rev >= LONDON THEN 5 ELSE 2) \in {2, 5}
    OBVIOUS
  <2> QED
    BY <1>1, <1>6, <1>8, <1>9, <2>1, RefundFacts DEF Refunded
<1>11. PICK state_used : state_used = StateGasUsed(t, r)
  OBVIOUS
<1>12. state_used = limit - r.left + r.spilled
  BY <1>3, <1>11 DEF StateGasUsed
<1>13. state_used \in Nat /\ state_used <= t.gas_limit
  BY <1>1, <1>3, <1>4, <1>12
<1>14. PICK used : used = Receipt(t, r).gas_used
  OBVIOUS
<1>15. used = Greatest(b4 - refunded, t.min)
  BY <1>6, <1>9, <1>14, ReceiptFields
<1>16. used \in Nat /\ used > 0 /\ used <= t.gas_limit
  BY <1>1, <1>3, <1>5, <1>8, <1>10, <1>15 DEF Greatest
<1>17. StatePart(t, r) = state_used
  BY <1>11, ReceiptFields DEF StatePart
<1>18. CASE Rev >= AMSTERDAM
  <2>1. ExecutionPart(t, r) = Greatest(b4, t.min + state_used) - state_used
    BY <1>6, <1>11, <1>18, ReceiptFields DEF ExecutionPart
  <2>2. t.gas_limit - limit <= gas /\ t.gas_limit <= state_gas
    <3>1. ~(Rev < AMSTERDAM)
      BY <1>18, RevNat DEF AMSTERDAM
    <3>2. Least(t.gas_limit, MAX_TX_GAS_LIMIT) <= gas /\ t.gas_limit <= state_gas
      BY <3>1 DEF FitsBlock
    <3>3. t.gas_limit - limit = Least(t.gas_limit, MAX_TX_GAS_LIMIT)
      BY <1>3, <1>18, StateGasLimitFacts
    <3> QED
      BY <3>2, <3>3
  <2>3. PICK x : x = ExecutionPart(t, r)
    OBVIOUS
  <2>4. x \in Nat /\ x <= t.gas_limit - limit
    <3>1. x = Greatest(b4, t.min + state_used) - state_used
      BY <2>1, <2>3
    <3>2. b4 - state_used = t.gas_limit - limit - r.gas_left - r.spilled
      BY <1>1, <1>3, <1>7, <1>12
    <3>3. b4 - state_used <= t.gas_limit - limit
      BY <1>1, <1>3, <3>2
    <3> QED
      BY <1>1, <1>3, <1>5, <1>8, <1>13, <3>1, <3>3 DEF Greatest
  <2>5. x <= gas /\ state_used <= state_gas
    BY <1>1, <1>3, <1>13, <2>2, <2>4
  <2> QED
    BY <1>13, <1>14, <1>16, <1>17, <2>3, <2>4, <2>5 DEF Affords
<1>19. CASE ~(Rev >= AMSTERDAM)
  <2>1. Rev < AMSTERDAM
    BY <1>19, RevNat DEF AMSTERDAM
  <2>2. limit = 0
    BY <1>3, <2>1, StateGasLimitFacts
  <2>3. state_used = 0
    BY <1>1, <1>4, <1>12, <2>1, <2>2
  <2>4. t.gas_limit <= gas
    BY <2>1 DEF FitsBlock
  <2>5. ExecutionPart(t, r) = used - 0
    BY <1>11, <1>14, <1>19, <2>3, ReceiptFields DEF ExecutionPart
  <2>6. ExecutionPart(t, r) = used
    BY <1>16, <2>5
  <2>7. used <= gas
    BY <1>1, <1>16, <2>4
  <2> QED
    BY <1>14, <1>16, <1>17, <2>3, <2>6, <2>7 DEF Affords
<1> QED
  BY <1>18, <1>19

(* The blobs of an accepted transaction fit in what is left for blobs.     *)
LEMMA BlobsFit ==
    ASSUME NEW t \in Transactions, NEW blob_left \in Nat, ValidType(t, blob_left)
    PROVE  BlobGasUsed(t) \in Nat /\ BlobGasUsed(t) <= blob_left
<1>1. t.blobs \in Nat /\ GAS_PER_BLOB \in Nat /\ (t.type # "blob" => t.blobs = 0)
  BY TransactionAssumption
<1>2. t.blobs * GAS_PER_BLOB \in Nat
  BY <1>1
<1>3. CASE t.type = "blob"
  BY <1>2, <1>3 DEF ValidType, ValidBlobs, BlobGasUsed
<1>4. CASE t.type # "blob"
  <2>1. BlobGasUsed(t) = 0
    BY <1>1, <1>4 DEF BlobGasUsed
  <2> QED
    BY <2>1
<1> QED
  BY <1>3, <1>4

-----------------------------------------------------------------------------
(* The steps. *)

\* BlockGasWithinLimits, with the receipts a sequence.
GasInv == BlockGasWithinLimits /\ \E S : receipts \in Seq(S)

(* The receipt of a transaction that used gas joins the others.            *)
LEMMA AppendReceipt ==
    ASSUME NEW S, NEW s \in Seq(S), \A n \in DOMAIN s : s[n].gas_used > 0,
           NEW x, x.gas_used > 0
    PROVE  /\ \A n \in DOMAIN Append(s, x) : Append(s, x)[n].gas_used > 0
           /\ \E T : Append(s, x) \in Seq(T)
<1>1. s \in Seq(S \cup {x}) /\ x \in S \cup {x}
  <2>1. /\ Len(s) \in Nat /\ DOMAIN s = 1..Len(s) /\ \A i \in 1..Len(s) : s[i] \in S
    BY LenProperties, ElementOfSeq
  <2>2. \A i \in 1..Len(s) : s[i] \in S \cup {x}
    BY <2>1
  <2> QED
    BY <2>1, <2>2, SeqDef
<1>2. /\ Append(s, x) \in Seq(S \cup {x})
      /\ Len(Append(s, x)) = Len(s) + 1
      /\ \A i \in 1..Len(s) : Append(s, x)[i] = s[i]
      /\ Append(s, x)[Len(s) + 1] = x
  BY <1>1, AppendProperties
<1>3. DOMAIN Append(s, x) = 1..(Len(s) + 1) /\ DOMAIN s = 1..Len(s) /\ Len(s) \in Nat
  BY <1>1, <1>2, LenProperties
<1>4. ASSUME NEW n \in DOMAIN Append(s, x)
      PROVE  Append(s, x)[n].gas_used > 0
  <2>1. n \in 1..Len(s) \/ n = Len(s) + 1
    BY <1>3
  <2> QED
    BY <1>2, <1>3, <2>1
<1> QED
  BY <1>2, <1>4

LEMMA ExecuteTransactionStep ==
    ASSUME GasInv, NEW t \in Transactions, NEW o \in Outcomes, NEW r \in GasResults,
           ExecuteTransaction(t, o, r)
    PROVE  GasInv'
<1>1. /\ Accepted(t) /\ CanReturn(t, o, r)
      /\ block_gas_left' = block_gas_left - ExecutionPart(t, r)
      /\ block_state_gas_left' = block_state_gas_left - StatePart(t, r)
      /\ blob_gas_left' = blob_gas_left - BlobGasUsed(t)
  BY DEF ExecuteTransaction, ExecutionPart, StatePart
<1>2. /\ block_gas_left \in Nat /\ block_gas_left <= BlockGasLimit
      /\ block_state_gas_left \in Nat /\ block_state_gas_left <= BlockGasLimit
      /\ blob_gas_left \in Nat /\ blob_gas_left <= BlobGasLimit
      /\ BlockGasLimit \in Nat /\ BlobGasLimit \in Nat
  BY LimitAssumption DEF GasInv, BlockGasWithinLimits
<1>3. /\ ValidType(t, blob_gas_left)
      /\ FitsBlock(t, block_gas_left, block_state_gas_left)
      /\ t.gas_limit - StateGasLimit(t) >= Greatest(t.intrinsic, t.min)
  BY <1>1 DEF Accepted, ValidateTransaction
<1>4. Affords(t, r, block_gas_left, block_state_gas_left)
  BY <1>1, <1>2, <1>3, ValidatedIsAfforded
<1>5. BlobGasUsed(t) \in Nat /\ BlobGasUsed(t) <= blob_gas_left
  BY <1>2, <1>3, BlobsFit
<1>6. /\ block_gas_left' \in 0..BlockGasLimit
      /\ block_state_gas_left' \in 0..BlockGasLimit
      /\ blob_gas_left' \in 0..BlobGasLimit
  BY <1>1, <1>2, <1>4, <1>5 DEF Affords
<1>7. PICK x : x.gas_used = Receipt(t, r).gas_used /\ receipts' = Append(receipts, x)
  BY DEF ExecuteTransaction
<1>8. PICK S : receipts \in Seq(S)
  BY DEF GasInv
<1>9. (\A n \in DOMAIN receipts' : receipts'[n].gas_used > 0) /\ \E T : receipts' \in Seq(T)
  <2>1. \A n \in DOMAIN receipts : receipts[n].gas_used > 0
    BY DEF GasInv, BlockGasWithinLimits
  <2>2. x.gas_used > 0
    BY <1>4, <1>7 DEF Affords
  <2> QED
    BY <1>7, <1>8, <2>1, <2>2, AppendReceipt
<1> QED
  BY <1>6, <1>9 DEF GasInv, BlockGasWithinLimits

\* No other step touches the gas of the block.
GasUnchanged ==
    UNCHANGED <<block_gas_left, block_state_gas_left, blob_gas_left, receipts>>

LEMMA OtherSteps ==
    ASSUME GasInv, GasUnchanged
    PROVE  GasInv'
  BY DEF GasUnchanged, GasInv, BlockGasWithinLimits

LEMMA InitGas ==
    ASSUME Init PROVE GasInv
<1>1. receipts \in Seq({}) /\ DOMAIN receipts = {}
  BY DEF Init
<1>2. /\ block_gas_left = BlockGasLimit /\ block_state_gas_left = BlockGasLimit
      /\ blob_gas_left = BlobGasLimit
  BY DEF Init
<1> QED
  BY <1>1, <1>2, LimitAssumption DEF GasInv, BlockGasWithinLimits

LEMMA GasStep ==
    ASSUME GasInv, [Next]_vars
    PROVE  GasInv'
<1>1. ASSUME NEW t \in Transactions, NEW o \in Outcomes, NEW r \in GasResults,
             ExecuteTransaction(t, o, r)
      PROVE  GasInv'
  BY <1>1, ExecuteTransactionStep
<1>2. ASSUME NEW outcomes, SystemCallBlockStart(outcomes) PROVE GasInv'
  BY <1>2, OtherSteps DEF SystemCallBlockStart, GasUnchanged
<1>3. ASSUME NEW t \in Transactions, RejectTransaction(t) PROVE GasInv'
  BY <1>3, OtherSteps DEF RejectTransaction, GasUnchanged
<1>4. ASSUME NEW f \in Finalizations, Finalize(f) PROVE GasInv'
  BY <1>4, OtherSteps DEF Finalize, GasUnchanged
<1>5. ASSUME NEW deposits \in BOOLEAN, NEW outcomes,
             SystemCallBlockEnd(deposits, outcomes)
      PROVE  GasInv'
  BY <1>5, OtherSteps DEF SystemCallBlockEnd, GasUnchanged
<1>6. CASE Done \/ UNCHANGED vars
  BY <1>6, OtherSteps DEF Done, vars, GasUnchanged
<1> QED
  BY <1>1, <1>2, <1>3, <1>4, <1>5, <1>6 DEF Next

(* No dimension of the block's gas is used beyond its limit, and every     *)
(* accepted transaction uses some gas.                                     *)
THEOREM GasWithinLimits == Spec => []BlockGasWithinLimits
<1>1. Init => GasInv
  BY InitGas
<1>2. GasInv /\ [Next]_vars => GasInv'
  BY GasStep
<1>3. GasInv => BlockGasWithinLimits
  BY DEF GasInv
<1> QED
  BY <1>1, <1>2, <1>3, PTL DEF Spec

(* The receipt does not exceed the gas limit. *)
LEMMA GasUsedFits ==
    ASSUME NEW t \in Transactions, NEW o, NEW r \in GasResults,
           t.gas_limit - StateGasLimit(t) >= Greatest(t.intrinsic, t.min),
           CanReturn(t, o, r)
    PROVE  Receipt(t, r).gas_used \in Nat /\ Receipt(t, r).gas_used <= t.gas_limit
<1> DEFINE b4 == B4Refund(t, r)
           rf == Refunded(t, r)
           sl == StateGasLimit(t)
           gl == t.gas_limit
<1>1. /\ gl \in Nat /\ t.min \in Nat /\ t.intrinsic \in Nat /\ t.intrinsic > 0
      /\ r.gas_left \in Nat /\ r.left \in Nat /\ r.spilled \in Nat /\ r.refund \in Nat
  BY TransactionAssumption
<1>2. sl \in Nat /\ sl <= gl
  BY StateGasLimitFacts
<1>3. /\ r.gas_left + r.spilled <= gl - t.intrinsic - sl
      /\ r.left <= sl
  BY DEF CanReturn, TransactionProperties
<1>4. gl - sl >= t.min
  BY <1>1, <1>2 DEF Greatest
<1> HIDE DEF sl
<1>5. b4 \in Nat /\ b4 > 0 /\ b4 <= gl
  BY <1>1, <1>2, <1>3 DEF B4Refund
<1> HIDE DEF b4
<1>6. rf \in Nat /\ rf < b4
  <2> DEFINE d == IF Rev >= LONDON THEN 5 ELSE 2
  <2>1. rf = Least(r.refund, b4 \div d)
    BY DEF Refunded, b4
  <2>2. d \in {2, 5}
    OBVIOUS
  <2> HIDE DEF d, rf
  <2>3. Least(r.refund, b4 \div d) \in Nat /\ Least(r.refund, b4 \div d) < b4
    BY <1>1, <1>5, <2>2, RefundFacts
  <2> QED
    BY <2>1, <2>3
<1>7. Receipt(t, r).gas_used = Greatest(b4 - rf, t.min)
  BY ReceiptFields DEF b4
<1> HIDE DEF rf, gl
<1> QED
  BY <1>1, <1>2, <1>4, <1>5, <1>6, <1>7 DEF Greatest, gl

\* What the execution of a transaction leaves.
Processed(u, view, t) ==
    /\ Exact(u, view) /\ Live(u.modified[t.sender])
    /\ Total(Holds(u)) + Fee(t) = Total(view)

(* What is bought before a transaction is executed is not made of nothing.  *)
LEMMA BoughtTotal ==
    ASSUME NEW view, SoundViews(view), NEW t, TransactionType(t), AcceptedOn(view, t),
           NEW s, Bought(s, view, t)
    PROVE  /\ Total(Holds(s)) + Fee(t) = Total(view) /\ Total(view) \in Nat
           /\ Holds(s)[t.sender].balance = view[t.sender].balance - Fee(t)
<1> DEFINE h == Holds(NewState(view))
           a == t.sender
           b == view[a].balance - Fee(t)
<1>1. h = [x \in Addr |-> [balance |-> view[x].balance]] /\ Exact(NewState(view), view)
  BY NewExact
<1>2. a \in Addr /\ \A x \in Addr : view[x].balance \in Nat
  BY DEF TransactionType, SoundViews, ViewAccount
<1>3. Fee(t) \in Nat /\ b \in Nat
  <2>1. Fee(t) \in Nat /\ Fee(t) + t.value <= view[a].balance /\ t.value \in Nat
    BY <1>2, FeeCovered DEF TransactionType
  <2> HIDE DEF a
  <2> QED
    BY <1>2, <2>1
<1>4. Holds(s) = Replace(h, a, [balance |-> b])
  BY DEF Bought
<1> HIDE DEF h, b, a
<1>5. /\ Holds(s)[a].balance = b
      /\ \A x \in Addr : x # a => Holds(s)[x].balance = h[x].balance
  BY <1>1, <1>2, <1>4 DEF Replace
<1>6. Balances(h) /\ Balances(view) /\ Balances(Holds(s))
  BY <1>1, <1>2, <1>3, <1>5 DEF Balances
<1>7. Total(h) = Total(view)
  <2>1. \A x \in Addr : h[x].balance = view[x].balance
    BY <1>1
  <2> QED
    BY <1>6, <2>1, TotalSame
<1>8. Total(Holds(s)) = Total(h) - h[a].balance + Holds(s)[a].balance
  BY <1>2, <1>5, <1>6, TotalChanged
<1>9. Total(h) \in Nat /\ Total(view) \in Nat
  BY <1>6, TotalType
<1>10. h[a].balance = view[a].balance /\ view[a].balance \in Nat
  BY <1>1, <1>2
<1>11. Total(Holds(s)) + Fee(t) = Total(view)
  BY <1>3, <1>5, <1>7, <1>8, <1>9, <1>10 DEF b
<1> QED
  BY <1>5, <1>9, <1>11 DEF a, b

(* Whatever a transaction has done before it ends, ether has only moved.    *)
LEMMA TopLevelProcessed ==
    ASSUME NEW view, SoundViews(view), Rev >= AMSTERDAM,
           NEW t, TransactionType(t), AcceptedOn(view, t), NEW s, Bought(s, view, t),
           NEW o, OutcomeType(o), o.op = "auth" => o.count <= Len(t.auths)
    PROVE  Processed(ProcessTopLevel(s, t, o), view, t)
<1> DEFINE u == ProcessTopLevel(s, t, o)
           a == t.sender
<1>1. /\ a \in Addr /\ t.to \in Addr \cup {NoAddr} /\ Recipient(t) \in Addr
      /\ t.value \in Nat /\ t.auths \in Seq(AuthType)
  BY DEF TransactionType, AuthType
<1>2. /\ Total(Holds(s)) + Fee(t) = Total(view)
      /\ Holds(s)[a].balance = view[a].balance - Fee(t)
  BY BoughtTotal
<1>3. /\ Exact(s, view) /\ Runnable(s)
      /\ \A b \in Addr : Waits(s.modified[b], view[b], Bump(t, b), FALSE)
  BY DEF Bought
<1>4. Live(s.modified[a]) /\ ~Blank(s.modified[a])
  <2>1. Waits(s.modified[a], view[a], Bump(t, a), FALSE)
    BY <1>1, <1>3
  <2>2. Bump(t, a) = 1
    BY DEF Bump
  <2>3. view[a].nonce \in Nat
    BY <1>1 DEF SoundViews, ViewAccount
  <2> QED
    BY <2>1, <2>2, <2>3 DEF Waits, Live, Blank
<1>5. CASE o.op = "auth"
  <2>1. o.count \in Nat /\ o.count <= Len(t.auths)
    BY <1>5 DEF OutcomeType
  <2>2. Reverted(s, u, view, t)
    BY <1>5, <2>1, AuthRunsOut
  <2> HIDE DEF u
  <2>3. /\ Exact(u, view) /\ Holds(u) = Holds(s)
        /\ Waits(u.modified[a], view[a], Bump(t, a), FALSE)
    BY <1>1, <2>2 DEF Reverted
  <2>4. Bump(t, a) > 0
    BY DEF Bump
  <2>5. Live(u.modified[a])
    BY <2>3, <2>4 DEF Waits
  <2> QED
    BY <1>2, <2>3, <2>5 DEF Processed, u
<1>6. CASE o.op # "auth"
  <2> DEFINE done == ProcessAuthorizationList(s, t.auths)
             d    == done.state
             s1   == PrepareCall(d, t)
  <2>1. u = IF t.to # NoAddr THEN TopLevelCall(s1, t, o) ELSE TopLevelCreate(s1, t, o)
    BY <1>6 DEF ProcessTopLevel
  <2> HIDE DEF u
  <2>2. done \in Authorizing(s, view, t)
    BY <1>1, <1>3, AuthorizationsProcessed
  <2> HIDE DEF done
  <2>3. Quiet(s, d, view) /\ Exact(d, view)
    BY <2>2 DEF Authorizing, Quiet
  <2> HIDE DEF d
  <2>4. Quiet(d, s1, view)
    BY <2>3, CallPrepared
  <2>5. t.to \in Addr => s1.modified[t.to].loaded
    <3>1. ASSUME t.to \in Addr PROVE s1 = GetCode(d, t.to)
      BY <3>1, BlockInfoAssumption DEF PrepareCall
    <3> QED
      BY <2>3, <3>1, GetCodeQuiet
  <2> HIDE DEF s1
  <2>6. Quiet(s, s1, view)
    BY <2>3, <2>4, QuietTransitive
  <2>7. /\ Exact(s1, view) /\ Runnable(s1) /\ Holds(s1) = Holds(s)
        /\ ~Blank(s1.modified[a])
    BY <1>1, <1>3, <1>4, <2>6 DEF Quiet, Keeps, KeepsAccount
  <2>8. t.value <= Holds(s1)[a].balance
    <3>1. view[a].balance \in Nat
      BY <1>1 DEF SoundViews, ViewAccount
    <3>2. Fee(t) \in Nat /\ Fee(t) + t.value <= view[a].balance
      BY <3>1, FeeCovered
    <3>3. Holds(s1)[a].balance = view[a].balance - Fee(t)
      BY <1>2, <2>7
    <3> HIDE DEF a
    <3> QED
      BY <1>1, <3>1, <3>2, <3>3
  <2>9. Moves(s1, u, view)
    <3>1. CASE t.to # NoAddr
      <4>1. t.to \in Addr /\ u = TopLevelCall(s1, t, o)
        BY <1>1, <2>1, <3>1
      <4> QED
        BY <1>1, <1>6, <2>5, <2>7, <2>8, <4>1, TopLevelCallMoves
    <3>2. CASE t.to = NoAddr
      <4>1. u = TopLevelCreate(s1, t, o)
        BY <2>1, <3>2
      <4> QED
        BY <1>1, <1>6, <2>7, <2>8, <4>1, TopLevelCreateMoves
    <3> QED
      BY <3>1, <3>2
  <2>10. Moves(s, s1, view)
    BY <2>6, QuietMoves
  <2>11. Moves(s, u, view)
    BY <2>9, <2>10, MovesTransitive
  <2>12. Live(u.modified[a])
    BY <1>1, <1>4, <2>11 DEF Moves, Keeps, KeepsAccount
  <2> QED
    BY <1>2, <2>11, <2>12 DEF Processed, Moves, u
<1> QED
  BY <1>5, <1>6

-----------------------------------------------------------------------------
(* The settlement.                                                         *)

LEMMA Distributes ==
    ASSUME NEW x \in Nat, NEW y \in Nat, NEW p \in Nat, NEW q \in Nat, y <= x
    PROVE  /\ x * (p + q) \in Nat /\ y * q \in Nat /\ y * p \in Nat
           /\ (x - y) * (p + q) \in Nat
           /\ (x - y) * (p + q) + y * q = x * (p + q) - y * p
<1>1. PICK d \in Nat : x = y + d
  <2>1. x - y \in Nat /\ x = y + (x - y)
    OBVIOUS
  <2> QED
    BY <2>1
<1>2. x - y = d
  BY <1>1
<1>3. /\ d * (p + q) = d * p + d * q
      /\ x * (p + q) = y * p + y * q + d * p + d * q
      /\ y * p \in Nat /\ y * q \in Nat /\ d * p \in Nat /\ d * q \in Nat
  BY <1>1
<1> QED
  BY <1>2, <1>3

\* s with x more on the balance of account a.
Paid(s, a, x) == [s EXCEPT !.modified[a].balance = @ + x]

(* One account is credited. *)
LEMMA Credited ==
    ASSUME NEW view, SoundViews(view), NEW s, Exact(s, view), NEW a \in Addr,
           Live(s.modified[a]), NEW x \in Nat,
           NEW t, t = Paid(s, a, x)
    PROVE  /\ Exact(t, view) /\ Keeps(s, t)
           /\ Total(Holds(t)) = Total(Holds(s)) + x /\ Total(Holds(s)) \in Nat
           /\ \A b \in Addr : SameWaits(s.modified[b], t.modified[b])
           /\ \A b \in Addr \ {a} : t.modified[b] = s.modified[b]
<1> DEFINE b == s.modified[a].balance + x
<1>1. /\ s.modified[a] \in Account /\ s.modified \in [Addr -> Account]
      /\ s = [initial |-> s.initial, modified |-> s.modified, journal |-> s.journal]
  BY ExactFields
<1>2. s.modified[a].balance \in Nat /\ b \in Nat
  BY <1>1, AccountFields
<1>3. t = WriteBalance(s, a, b)
  BY DEF WriteBalance, Paid
<1>4. s.modified[a].loaded /\ ~s.modified[a].nonexistent
  BY DEF Live
<1> HIDE DEF b
<1>5. Exact(t, view) /\ Keeps(s, t) /\ Rebalanced(s, t, a, b)
  <2>1. b >= s.modified[a].balance
    BY <1>2 DEF b
  <2> QED
    BY <1>2, <1>3, <1>4, <2>1, BalanceWritten
<1>6. /\ Total(Holds(t)) = Total(Holds(s)) - s.modified[a].balance + b
      /\ Total(Holds(s)) \in Nat
  BY <1>2, <1>4, <1>5, TotalRebalanced
<1>7. Total(Holds(t)) = Total(Holds(s)) + x
  BY <1>2, <1>6 DEF b
<1>8. \A c \in Addr : SameWaits(s.modified[c], t.modified[c])
  <2> SUFFICES ASSUME NEW c \in Addr PROVE SameWaits(s.modified[c], t.modified[c])
    OBVIOUS
  <2>1. CASE c = a
    <3> DEFINE acc == s.modified[a]
               new == [acc EXCEPT !.balance = b]
    <3>1. t.modified[a] = new
      BY <1>1, <1>3 DEF WriteBalance
    <3> HIDE DEF acc
    <3>2. acc \in Account
      BY <1>1 DEF acc
    <3>3. SameWaits(acc, new)
      BY <3>2 DEF Account, SameWaits
    <3> QED
      BY <2>1, <3>1, <3>3 DEF acc
  <2>2. CASE c # a
    BY <1>5, <2>2 DEF Rebalanced, SameWaits
  <2> QED
    BY <2>1, <2>2
<1>9. \A c \in Addr \ {a} : t.modified[c] = s.modified[c]
  BY <1>5 DEF Rebalanced
<1> QED
  BY <1>5, <1>6, <1>7, <1>8, <1>9

\* What transition() leaves of the ether.
Charged(t, r) == Receipt(t, r).gas_used * BaseFee + BlobGasUsed(t) * BlobBaseFee

LEMMA Settled ==
    ASSUME NEW view, SoundViews(view), NEW t \in Transactions, AcceptedOn(view, t),
           NEW o, NEW r \in GasResults, CanReturn(t, o, r),
           NEW u, Processed(u, view, t), Total(view) \in Nat
    PROVE  LET w == SettleGas(u, t, Receipt(t, r))
           IN  /\ Exact(w, view) /\ Total(Holds(w)) + Charged(t, r) = Total(view)
               /\ Charged(t, r) \in Nat
<1> DEFINE a  == t.sender
           gl == t.gas_limit
           gu == Receipt(t, r).gas_used
           p  == PriorityGasPrice(t)
           e  == EffectiveGasPrice(t)
           x  == (gl - gu) * e
           y  == gu * p
           s1 == Paid(u, a, x)
           s2 == Touch(s1, Coinbase)
           w  == Paid(s2, Coinbase, y)
           z  == BlobGasUsed(t) * BlobBaseFee
<1>1. TransactionType(t)
  BY TransactionTyped
<1>2. a \in Addr /\ Coinbase \in Addr /\ gl \in Nat
  BY <1>1, BlockInfoAssumption DEF TransactionType
<1>3. /\ p \in Nat /\ e = BaseFee + p /\ BaseFee \in Nat
      /\ BlobBaseFee \in Nat /\ BlobGasUsed(t) \in Nat
  BY <1>1, AcceptedFields, Prices
<1>4. gu \in Nat /\ gu <= gl
  BY AcceptedFields, GasUsedFits
<1>5. z \in Nat
  BY <1>3
<1>6. Fee(t) = gl * e + z
  <2>1. CASE t.type = "blob"
    BY <2>1 DEF Fee
  <2>2. CASE t.type # "blob"
    <3>1. t.blobs = 0 /\ GAS_PER_BLOB \in Nat
      BY <1>1, <2>2, TransactionAssumption DEF TransactionType
    <3>2. BlobGasUsed(t) = 0
      BY <3>1 DEF BlobGasUsed
    <3>3. z = 0
      BY <1>3, <3>2
    <3>4. Fee(t) = gl * e + 0
      BY <2>2 DEF Fee
    <3> QED
      BY <3>3, <3>4
  <2> QED
    BY <2>1, <2>2
<1>7. SettleGas(u, t, Receipt(t, r)) = w
  BY Zenon DEF SettleGas, Paid
<1>8. Charged(t, r) = gu * BaseFee + z
  BY DEF Charged
<1> HIDE DEF gu, p, e, z
<1>9. /\ gl * e \in Nat /\ gu * BaseFee \in Nat /\ y \in Nat /\ x \in Nat
      /\ x + y = gl * e - gu * BaseFee
  <2>1. /\ gl * (BaseFee + p) \in Nat /\ gu * p \in Nat /\ gu * BaseFee \in Nat
        /\ (gl - gu) * (BaseFee + p) \in Nat
        /\ (gl - gu) * (BaseFee + p) + gu * p = gl * (BaseFee + p) - gu * BaseFee
    BY <1>2, <1>3, <1>4, Distributes
  <2> QED
    BY Zenon, <1>3, <2>1
<1> HIDE DEF x, y, gl
<1>10. Exact(u, view) /\ Live(u.modified[a]) /\ Total(Holds(u)) + Fee(t) = Total(view)
  BY DEF Processed
<1>11. /\ Exact(s1, view) /\ Total(Holds(s1)) = Total(Holds(u)) + x
       /\ Total(Holds(u)) \in Nat
  BY <1>2, <1>9, <1>10, Credited
<1> HIDE DEF s1
<1>12. /\ Quiet(s1, s2, view) /\ Live(s2.modified[Coinbase])
  BY <1>2, <1>11, TouchQuiet
<1>13. Exact(s2, view) /\ Holds(s2) = Holds(s1)
  BY <1>12 DEF Quiet
<1> HIDE DEF s2
<1>14. Exact(w, view) /\ Total(Holds(w)) = Total(Holds(s2)) + y
  BY <1>2, <1>9, <1>12, <1>13, Credited
<1> HIDE DEF w
<1>15. Total(Holds(w)) = Total(Holds(u)) + x + y
  BY <1>9, <1>11, <1>13, <1>14
<1>16. Total(Holds(w)) + (gu * BaseFee + z) = Total(view)
  <2> DEFINE T == Total(Holds(w))
             U == Total(Holds(u))
             V == Total(view)
             G == gl * e
             B == gu * BaseFee
  <2>1. U \in Nat /\ V \in Nat /\ G \in Nat /\ B \in Nat /\ T = U + x + y
        /\ x \in Nat /\ y \in Nat /\ z \in Nat /\ x + y = G - B /\ U + (G + z) = V
    <3>1. U + Fee(t) = V
      BY <1>10
    <3>2. U + (G + z) = V
      BY Zenon, <1>6, <3>1
    <3> QED
      BY <1>5, <1>9, <1>11, <1>15, <3>2
  <2> HIDE DEF T, U, V, G, B
  <2>2. T + (B + z) = V
    BY <2>1
  <2> QED
    BY <2>2 DEF T, V, B
<1>17. Charged(t, r) \in Nat
  BY <1>5, <1>8, <1>9
<1> QED
  BY Zenon, <1>7, <1>8, <1>14, <1>16, <1>17

(* A transaction's diff accounts for what the block keeps.                  *)
LEMMA Transitioned ==
    ASSUME NEW view, SoundViews(view), Rev >= AMSTERDAM,
           NEW t \in Transactions, AcceptedOn(view, t), NEW o \in Outcomes,
           NEW r \in GasResults, CanReturn(t, o, r),
           CanEnd(BuyGas(NewState(view), t), t, o)
    PROVE  /\ DiffApplies(view, Transition(view, t, o, r), Total(view) - Charged(t, r))
           /\ Charged(t, r) \in Nat
<1> DEFINE s0 == BuyGas(NewState(view), t)
           u  == ProcessTopLevel(s0, t, o)
           w  == SettleGas(u, t, Receipt(t, r))
<1>1. TransactionType(t)
  BY TransactionTyped
<1>2. Bought(s0, view, t)
  BY <1>1, GasBought
<1>3. Total(view) \in Nat
  BY <1>1, <1>2, BoughtTotal
<1>4. OutcomeType(o) /\ (o.op = "auth" => o.count <= Len(t.auths))
  BY OutcomeAssumption DEF CanEnd
<1>5. Transition(view, t, o, r) = BuildDiff(w, Rev)
  BY Zenon DEF Transition
<1> HIDE DEF s0
<1>6. Processed(u, view, t)
  BY <1>1, <1>2, <1>4, TopLevelProcessed
<1> HIDE DEF u
<1>7. /\ Exact(w, view) /\ Total(Holds(w)) + Charged(t, r) = Total(view)
      /\ Charged(t, r) \in Nat
  BY <1>3, <1>6, Settled
<1> HIDE DEF w
<1>8. DiffApplies(view, BuildDiff(w, Rev), Total(Holds(w)))
  BY <1>7, DiffApplied
<1>9. Total(Holds(w)) = Total(view) - Charged(t, r)
  <2> DEFINE T == Total(Holds(w))
  <2>1. T \in Nat
    BY <1>7, HeldType, TotalType
  <2> HIDE DEF T
  <2>2. T + Charged(t, r) = Total(view)
    BY <1>7 DEF T
  <2>3. T = Total(view) - Charged(t, r)
    BY <1>3, <1>7, <2>1, <2>2
  <2> QED
    BY <2>3 DEF T
<1> QED
  BY Zenon, <1>5, <1>7, <1>8, <1>9

-----------------------------------------------------------------------------
(* What is left of a transaction whose authorizations were taken back. *)

Left(acc, v, n) ==
    /\ Follows(acc, v) /\ acc.storage = NewAccount.storage
    /\ ~acc.just_created /\ ~acc.destructed /\ ~acc.code_changed
    /\ acc.loaded => acc.nonce = v.nonce + n
    /\ n > 0 => Live(acc)

\* An entry that only bumps the nonce by n and changes the balance.
OnlyPays(v, new, n) ==
    new.code = v.code /\ new.storage = v.storage /\ new.nonce = v.nonce + n

LEMMA LeftEntry ==
    ASSUME Rev >= AMSTERDAM, NEW v, Sound(v), NEW n \in {0, 1}, NEW acc, Left(acc, v, n)
    PROVE  OnlyPays(v, ApplyEntry(v, DiffEntry(acc, Rev)), n)
<1>1. /\ acc \in Account /\ v \in ViewAccount /\ v.nonce \in Nat /\ acc.nonce \in Nat
      /\ v.storage \in [Key -> Val] /\ v.code \in Codes
  BY AccountFields DEF Left, Follows, Sound, ViewAccount
<1>2. CASE ~Live(acc)
  <2>1. DiffEntry(acc, Rev) = Unchanged
    BY <1>2 DEF DiffEntry, Live
  <2>2. ApplyEntry(v, Unchanged) = v
    BY DEF ApplyEntry, Unchanged
  <2>3. n = 0
    BY <1>2 DEF Left
  <2> QED
    BY <1>1, <2>1, <2>2, <2>3 DEF OnlyPays
<1>3. CASE Live(acc) /\ acc.erase_if_empty /\ IsEmpty(acc)
  <2>1. DiffEntry(acc, Rev) = Deleted
    BY <1>3, Amsterdam DEF DiffEntry, Live, Left
  <2>2. ApplyEntry(v, Deleted) = NoAccount
    BY DEF ApplyEntry, Deleted
  <2>3. n = 0 /\ v.nonce = 0 /\ v.code = NoCode
    BY <1>1, <1>3 DEF Left, Follows, Live, IsEmpty
  <2>4. v.balance = 0
    <3>1. Blank(acc) /\ acc.balance = 0
      BY <1>3 DEF IsEmpty, Blank
    <3>2. acc.balance >= v.balance /\ v.balance \in Nat
      BY <1>1, <1>3, <3>1 DEF Left, Follows, Live, ViewAccount
    <3> QED
      BY <3>1, <3>2
  <2>5. v.storage = [k \in Key |-> 0]
    BY <1>1, <2>3, <2>4 DEF Sound
  <2> QED
    BY <2>1, <2>2, <2>3, <2>5 DEF OnlyPays, NoAccount
<1>4. CASE Live(acc) /\ ~(acc.erase_if_empty /\ IsEmpty(acc))
  <2> DEFINE d == ModifiedAccount(acc)
             changed == {k \in Key : acc.storage[k].current # acc.storage[k].original}
  <2>1. DiffEntry(acc, Rev) = d
    BY <1>4 DEF DiffEntry, Live, Left
  <2>2. changed = {}
    BY DEF Left, NewAccount, NewSlot
  <2>3. /\ d.op = "modified" /\ d.nonce = acc.nonce /\ d.has_code = acc.code_changed
        /\ DOMAIN d.storage = changed
    BY DEF ModifiedAccount
  <2> HIDE DEF d, changed
  <2>4. ApplyEntry(v, d) = [exists |-> TRUE, nonce |-> d.nonce, balance |-> d.balance,
            code |-> v.code, storage |-> [k \in Key |-> v.storage[k]]]
    BY <2>2, <2>3 DEF ApplyEntry, Left
  <2>5. [k \in Key |-> v.storage[k]] = v.storage
    BY <1>1
  <2>6. d.nonce = v.nonce + n
    BY <1>4, <2>3 DEF Left, Live
  <2> QED
    BY <2>1, <2>4, <2>5, <2>6 DEF OnlyPays
<1> QED
  BY <1>2, <1>3, <1>4

(* An account that only waited is not changed. *)
LEMMA WaitedEntry ==
    ASSUME Rev >= AMSTERDAM, NEW v, Sound(v), NEW acc, Left(acc, v, 0),
           Waits(acc, v, 0, FALSE), Held(acc, v).balance = v.balance
    PROVE  ApplyEntry(v, DiffEntry(acc, Rev)) = v
<1>1. /\ acc \in Account /\ v \in ViewAccount /\ v.nonce \in Nat /\ acc.nonce \in Nat
      /\ v.storage \in [Key -> Val] /\ v.code \in Codes
      /\ v.exists \in BOOLEAN
  BY AccountFields DEF Left, Follows, Sound, ViewAccount
<1>2. CASE ~Live(acc)
  <2>1. DiffEntry(acc, Rev) = Unchanged
    BY <1>2 DEF DiffEntry, Live
  <2> QED
    BY <2>1 DEF ApplyEntry, Unchanged
<1>3. CASE Live(acc) /\ acc.erase_if_empty
  <2>1. ~v.exists /\ v = NoAccount
    BY <1>3 DEF Waits, Untouched, Live, Sound
  <2>2. acc.nonce = 0 /\ acc.balance = 0 /\ acc.code_hash = NoCode
    <3>1. acc.nonce = v.nonce + 0 /\ acc.code_hash = v.code /\ acc.balance = v.balance
      BY <1>3 DEF Left, Waits, Untouched, Live, Held
    <3> QED
      BY <2>1, <3>1 DEF NoAccount
  <2>3. DiffEntry(acc, Rev) = Deleted
    BY <1>3, <2>2, Amsterdam DEF DiffEntry, Live, Left, IsEmpty
  <2> QED
    BY <2>1, <2>3 DEF ApplyEntry, Deleted
<1>4. CASE Live(acc) /\ ~acc.erase_if_empty
  <2> DEFINE d == ModifiedAccount(acc)
             changed == {k \in Key : acc.storage[k].current # acc.storage[k].original}
  <2>1. DiffEntry(acc, Rev) = d
    BY <1>4 DEF DiffEntry, Live, Left
  <2>2. changed = {}
    BY DEF Left, NewAccount, NewSlot
  <2>3. /\ d.op = "modified" /\ d.nonce = acc.nonce /\ d.balance = acc.balance
        /\ d.has_code = acc.code_changed
        /\ DOMAIN d.storage = changed
    BY DEF ModifiedAccount
  <2> HIDE DEF d, changed
  <2>4. ApplyEntry(v, d) = [exists |-> TRUE, nonce |-> d.nonce, balance |-> d.balance,
            code |-> v.code, storage |-> [k \in Key |-> v.storage[k]]]
    BY <2>2, <2>3 DEF ApplyEntry, Left
  <2>5. [k \in Key |-> v.storage[k]] = v.storage
    BY <1>1
  <2>6. d.nonce = v.nonce
    BY <1>1, <1>4, <2>3 DEF Left, Live
  <2>7. d.balance = v.balance
    BY <1>4, <2>3 DEF Held, Live
  <2>8. v.exists = TRUE
    BY <1>1, <1>4 DEF Waits, Untouched, Live
  <2>9. v = [exists |-> v.exists, nonce |-> v.nonce, balance |-> v.balance,
             code |-> v.code, storage |-> v.storage]
    BY <1>1 DEF ViewAccount
  <2> QED
    BY <2>1, <2>4, <2>5, <2>6, <2>7, <2>8, <2>9
<1> QED
  BY <1>2, <1>3, <1>4

\* What touching an account leaves of it.
SameTouched(acc, new) ==
    /\ new.nonce = acc.nonce /\ new.code_hash = acc.code_hash
    /\ new.storage = acc.storage /\ new.loaded = acc.loaded
    /\ new.destructed = acc.destructed
    /\ new.just_created = acc.just_created /\ new.code_changed = acc.code_changed
    /\ new.has_initial_storage = acc.has_initial_storage

LEMMA TouchedFields ==
    ASSUME NEW view, SoundViews(view), NEW s, Exact(s, view), NEW a \in Addr
    PROVE  SameTouched(Get(s, a).modified[a], Touch(s, a).modified[a])
<1> DEFINE s1 == Get(s, a)
           acc == s1.modified[a]
<1>1. Quiet(s, s1, view)
  BY GetQuiet
<1>2. Exact(s1, view)
  BY <1>1 DEF Quiet
<1> HIDE DEF s1
<1>3. CASE ~acc.erase_if_empty /\ IsEmpty(acc)
  <2> DEFINE u   == JournalAccountFlags(s1, a)
             new == [acc EXCEPT !.nonexistent = FALSE, !.erase_if_empty = TRUE]
             t   == Touch(s, a)
  <2>1. Quiet(s1, u, view) /\ u.modified = s1.modified
    BY <1>2, FlagsJournaled
  <2>2. t = [u EXCEPT !.modified[a].nonexistent = FALSE,
                      !.modified[a].erase_if_empty = TRUE]
    BY <1>3 DEF Touch, s1
  <2> HIDE DEF u
  <2>3. /\ u = [initial |-> u.initial, modified |-> u.modified, journal |-> u.journal]
        /\ u.modified \in [Addr -> Account]
        /\ acc \in Account /\ u.modified[a] = acc
    BY <2>1, ExactFields DEF Quiet
  <2>4. t.modified[a] = new
    <3>1. PICK i, m, q : u = [initial |-> i, modified |-> m, journal |-> q]
      BY <2>3
    <3>2. t = [initial |-> i, journal |-> q,
               modified |-> [m EXCEPT ![a].nonexistent = FALSE, ![a].erase_if_empty = TRUE]]
      BY <2>2, <3>1
    <3>3. m \in [Addr -> Account] /\ m[a] = acc
      BY <2>3, <3>1
    <3>4. [m EXCEPT ![a].nonexistent = FALSE, ![a].erase_if_empty = TRUE] = [m EXCEPT ![a] = new]
      BY <3>3
    <3> HIDE DEF new, t
    <3> QED
      BY <3>2, <3>3, <3>4
  <2>5. SameTouched(acc, new)
    BY <2>3 DEF Account, SameTouched
  <2> HIDE DEF new, t
  <2> QED
    BY <2>4, <2>5 DEF t, s1
<1>4. CASE ~(~acc.erase_if_empty /\ IsEmpty(acc))
  <2>1. Touch(s, a) = s1
    BY <1>4 DEF Touch, s1
  <2> QED
    BY <2>1 DEF SameTouched, s1
<1> QED
  BY <1>3, <1>4

LEMMA WaitsLeft ==
    ASSUME NEW v, NEW acc, Follows(acc, v), NEW n \in {0, 1}, Waits(acc, v, n, FALSE)
    PROVE  Left(acc, v, n)
BY DEF Waits, Untouched, Left

LEMMA WaitsSame ==
    ASSUME NEW v, NEW acc, NEW n, NEW h, Waits(acc, v, n, h), NEW new, SameWaits(acc, new)
    PROVE  Waits(new, v, n, h)
<1>1. (acc.nonexistent => new.nonexistent) /\ (new.nonexistent => acc.nonexistent)
  BY DEF SameWaits
<1> QED
  BY <1>1 DEF SameWaits, Waits, Untouched, Live

LEMMA LeftSame ==
    ASSUME NEW v, NEW acc, NEW n, Left(acc, v, n), NEW new, SameWaits(acc, new),
           Follows(new, v)
    PROVE  Left(new, v, n)
BY DEF SameWaits, Left, Live

LEMMA LeftTouched ==
    ASSUME NEW v, NEW acc, NEW n \in {0, 1}, Waits(acc, v, n, FALSE), NEW new, SameTouched(acc, new),
           Follows(new, v), Live(new)
    PROVE  Left(new, v, n)
BY DEF SameTouched, Left, Live, Waits, Untouched

(* An account that was reverted is settled. *)
LEMMA RevertedSettled ==
    ASSUME NEW view, SoundViews(view), NEW t, NEW s0, NEW u, Reverted(s0, u, view, t),
           NEW a \in Addr, NEW x \in Nat, NEW y \in Nat, t.sender = a, Live(u.modified[a]),
           NEW s1, s1 = Paid(u, a, x), NEW w, w = Paid(Touch(s1, Coinbase), Coinbase, y)
    PROVE  \A b \in Addr : /\ Left(w.modified[b], view[b], Bump(t, b))
                           /\ b \notin {a, Coinbase} => w.modified[b] = u.modified[b]
<1> DEFINE c  == Coinbase
           g  == Get(s1, c)
           s2 == Touch(s1, c)
<1>1. c \in Addr
  BY BlockInfoAssumption
<1>2. Exact(u, view) /\ \A b \in Addr : Waits(u.modified[b], view[b], Bump(t, b), FALSE)
  BY DEF Reverted
<1>3. /\ Exact(s1, view) /\ \A b \in Addr : SameWaits(u.modified[b], s1.modified[b])
      /\ \A b \in Addr \ {a} : s1.modified[b] = u.modified[b]
  BY <1>2, Credited
<1>4. \A b \in Addr : Waits(s1.modified[b], view[b], Bump(t, b), FALSE)
  BY <1>2, <1>3, WaitsSame
<1>5. LooksUp(s1, g, view)
  BY <1>1, <1>3, GetLooksUp
<1>6. Waits(g.modified[c], view[c], Bump(t, c), FALSE)
  <2>1. Bump(t, c) \in Nat
    BY BumpNat
  <2> QED
    BY <1>1, <1>4, <1>5, <2>1 DEF LooksUp
<1>7. SameTouched(g.modified[c], s2.modified[c])
  BY <1>1, <1>3, TouchedFields
<1>8. /\ Quiet(s1, s2, view) /\ Live(s2.modified[c])
      /\ \A b \in Addr \ {c} : s2.modified[b] = s1.modified[b]
  BY <1>1, <1>3, TouchQuiet
<1>9. Exact(s2, view) /\ \A b \in Addr : Follows(s2.modified[b], view[b])
  BY <1>8, ExactFields DEF Quiet
<1>10. \A b \in Addr : Follows(s1.modified[b], view[b])
  BY <1>3, ExactFields
<1> HIDE DEF g, s2
<1>11. w = Paid(s2, c, y)
  BY DEF s2
<1> HIDE DEF c
<1>12. /\ Exact(w, view) /\ \A b \in Addr : SameWaits(s2.modified[b], w.modified[b])
       /\ \A b \in Addr \ {c} : w.modified[b] = s2.modified[b]
  BY <1>1, <1>8, <1>9, <1>11, Credited
<1>13. \A b \in Addr : Follows(w.modified[b], view[b])
  BY <1>12, ExactFields
<1>14. \A b \in Addr : Bump(t, b) \in {0, 1}
  BY BumpNat
<1>15. ASSUME NEW b \in Addr PROVE Left(s2.modified[b], view[b], Bump(t, b))
  <2>1. CASE b = c
    BY <1>1, <1>6, <1>7, <1>8, <1>9, <1>14, <2>1, LeftTouched
  <2>2. CASE b # c
    <3>1. s2.modified[b] = s1.modified[b]
      BY <1>8, <2>2
    <3>2. Left(s1.modified[b], view[b], Bump(t, b))
      BY <1>4, <1>10, <1>14, WaitsLeft
    <3> QED
      BY <3>1, <3>2
  <2> QED
    BY <2>1, <2>2
<1>16. ASSUME NEW b \in Addr PROVE Left(w.modified[b], view[b], Bump(t, b))
  BY <1>12, <1>13, <1>15, LeftSame
<1>17. ASSUME NEW b \in Addr, b \notin {a, c} PROVE w.modified[b] = u.modified[b]
  BY <1>3, <1>8, <1>12, <1>17
<1> QED
  BY <1>16, <1>17 DEF c

\* What a transaction without effects makes of the view.
PaysOnly(view, next, t) ==
    \A a \in Addr : /\ OnlyPays(view[a], next[a], Bump(t, a))
                    /\ a \notin {t.sender, Coinbase} => next[a] = view[a]

(* A transaction that runs out of gas before its call only pays.            *)
LEMMA AuthPays ==
    ASSUME NEW view, SoundViews(view), Rev >= AMSTERDAM,
           NEW t \in Transactions, AcceptedOn(view, t), NEW o \in Outcomes, o.op = "auth",
           NEW r \in GasResults, CanReturn(t, o, r),
           CanEnd(BuyGas(NewState(view), t), t, o)
    PROVE  PaysOnly(view, ApplyDiff(view, Transition(view, t, o, r)), t)
<1> DEFINE s0 == BuyGas(NewState(view), t)
           u  == ProcessTopLevel(s0, t, o)
           w  == SettleGas(u, t, Receipt(t, r))
           a  == t.sender
           gu == Receipt(t, r).gas_used
           x  == (t.gas_limit - gu) * EffectiveGasPrice(t)
           y  == gu * PriorityGasPrice(t)
           s1 == Paid(u, a, x)
<1>1. TransactionType(t) /\ a \in Addr /\ t.gas_limit \in Nat
  BY TransactionTyped DEF TransactionType
<1>2. Bought(s0, view, t)
  BY <1>1, GasBought
<1>3. o.op = "auth" /\ o.count \in Nat /\ o.count <= Len(t.auths)
  BY OutcomeAssumption DEF OutcomeType, CanEnd
<1>4. Transition(view, t, o, r) = BuildDiff(w, Rev)
  BY Zenon DEF Transition
<1>5. w = Paid(Touch(s1, Coinbase), Coinbase, y)
  BY Zenon DEF SettleGas, Paid
<1> HIDE DEF s0
<1>6. Reverted(s0, u, view, t)
  BY <1>1, <1>2, <1>3, AuthRunsOut
<1> HIDE DEF u, w
<1>7. x \in Nat /\ y \in Nat
  <2>1. /\ PriorityGasPrice(t) \in Nat /\ EffectiveGasPrice(t) \in Nat
    BY <1>1, AcceptedFields, Prices
  <2>2. gu \in Nat /\ gu <= t.gas_limit
    BY AcceptedFields, GasUsedFits
  <2> HIDE DEF gu
  <2>3. t.gas_limit - gu \in Nat
    BY <1>1, <2>2
  <2> QED
    BY <2>1, <2>2, <2>3
<1> HIDE DEF x, y
<1>8. Live(u.modified[a])
  <2>1. Waits(u.modified[a], view[a], Bump(t, a), FALSE)
    BY <1>1, <1>6 DEF Reverted
  <2>2. Bump(t, a) > 0
    BY DEF Bump
  <2> QED
    BY <2>1, <2>2 DEF Waits
<1> HIDE DEF s1
<1>9. s1 = Paid(u, a, x) /\ t.sender = a
  BY DEF s1
<1> HIDE DEF a
<1>10. \A b \in Addr : /\ Left(w.modified[b], view[b], Bump(t, b))
                       /\ b \notin {a, Coinbase} => w.modified[b] = u.modified[b]
  BY <1>1, <1>5, <1>6, <1>7, <1>8, <1>9, RevertedSettled
<1> SUFFICES ASSUME NEW b \in Addr
             PROVE  LET next == ApplyDiff(view, BuildDiff(w, Rev))
                    IN  /\ OnlyPays(view[b], next[b], Bump(t, b))
                        /\ b \notin {a, Coinbase} => next[b] = view[b]
  BY <1>4, <1>9 DEF PaysOnly
<1>11. ApplyDiff(view, BuildDiff(w, Rev))[b] = ApplyEntry(view[b], DiffEntry(w.modified[b], Rev))
  BY DEF ApplyDiff, BuildDiff
<1>12. Sound(view[b]) /\ Bump(t, b) \in {0, 1}
  BY BumpNat DEF SoundViews
<1>13. OnlyPays(view[b], ApplyEntry(view[b], DiffEntry(w.modified[b], Rev)), Bump(t, b))
  BY <1>10, <1>12, LeftEntry
<1>14. ASSUME b \notin {a, Coinbase}
       PROVE  ApplyEntry(view[b], DiffEntry(w.modified[b], Rev)) = view[b]
  <2> DEFINE acc == w.modified[b]
  <2>1. acc = u.modified[b] /\ Left(acc, view[b], Bump(t, b))
    BY <1>10, <1>14
  <2>2. Bump(t, b) = 0
    BY <1>9, <1>14 DEF Bump
  <2>3. Waits(u.modified[b], view[b], Bump(t, b), FALSE) /\ Holds(u) = Holds(s0) /\ Exact(u, view)
    BY <1>6 DEF Reverted
  <2>4. Held(u.modified[b], view[b]).balance = view[b].balance
    <3>1. Holds(u)[b] = Held(u.modified[b], view[b])
      BY <2>3, ExactFields DEF Holds
    <3>2. Holds(NewState(view)) = [c \in Addr |-> [balance |-> view[c].balance]]
      BY NewExact
    <3>3. Holds(s0) = Replace(Holds(NewState(view)), a,
                              [balance |-> view[a].balance - Fee(t)])
      BY <1>2, <1>9 DEF Bought
    <3>4. Holds(s0)[b] = [balance |-> view[b].balance]
      BY <1>14, <3>2, <3>3 DEF Replace
    <3> QED
      BY <2>3, <3>1, <3>4
  <2> HIDE DEF acc
  <2>5. Left(acc, view[b], 0) /\ Waits(acc, view[b], 0, FALSE)
        /\ Held(acc, view[b]).balance = view[b].balance
    BY <2>1, <2>2, <2>3, <2>4
  <2>6. ApplyEntry(view[b], DiffEntry(acc, Rev)) = view[b]
    BY <1>12, <2>5, WaitedEntry
  <2> QED
    BY <2>6 DEF acc
<1> QED
  BY Zenon, <1>11, <1>13, <1>14

-----------------------------------------------------------------------------
(* Rewards and withdrawals.                                                *)

LEMMA GetKeepsStorage ==
    ASSUME NEW view, SoundViews(view), NEW s, Exact(s, view), NEW a \in Addr
    PROVE  Get(s, a).modified[a].storage = s.modified[a].storage
<1>1. /\ s = [initial |-> s.initial, modified |-> s.modified, journal |-> s.journal]
      /\ s.initial = view /\ s.modified \in [Addr -> Account]
      /\ Follows(s.modified[a], view[a]) /\ Sound(view[a])
  BY ExactFields DEF SoundViews
<1>2. CASE s.modified[a].loaded
  BY <1>2 DEF Get
<1>3. CASE ~s.modified[a].loaded
  <2> DEFINE acc == s.modified[a]
             lo  == LoadAccount(acc, view[a])
  <2>1. lo.storage = acc.storage
    BY <1>1, <1>3, LoadFollows
  <2>2. Get(s, a).modified[a] = lo
    BY <1>1, <1>3 DEF Get
  <2> HIDE DEF lo, acc
  <2> QED
    BY <2>1, <2>2 DEF acc
<1> QED
  BY <1>2, <1>3

\* The states in which nothing is loaded from storage.
Unwritten(view) ==
    {s \in StateType : Exact(s, view)
                         /\ \A a \in Addr : s.modified[a].storage = NewAccount.storage}

LEMMA CreditStep ==
    ASSUME NEW view, SoundViews(view), NEW s \in Unwritten(view), NEW a \in Addr, NEW x \in Nat
    PROVE  /\ Credit(s, a, x) \in Unwritten(view)
           /\ Total(Holds(Credit(s, a, x))) = Total(Holds(s)) + x
<1> DEFINE s1 == Touch(s, a)
           u  == Credit(s, a, x)
<1>1. Exact(s, view) /\ \A b \in Addr : s.modified[b].storage = NewAccount.storage
  BY DEF Unwritten
<1>2. /\ Quiet(s, s1, view) /\ Live(s1.modified[a])
      /\ \A b \in Addr \ {a} : s1.modified[b] = s.modified[b]
  BY <1>1, TouchQuiet
<1>3. s1.modified[a].storage = s.modified[a].storage
  BY <1>1, TouchedFields, GetKeepsStorage DEF SameTouched
<1>4. \A b \in Addr : s1.modified[b].storage = NewAccount.storage
  BY <1>1, <1>2, <1>3
<1>5. Exact(s1, view) /\ Holds(s1) = Holds(s)
  BY <1>2 DEF Quiet
<1>6. u = Paid(s1, a, x)
  BY Zenon DEF Credit, Paid
<1> HIDE DEF s1, u
<1>7. /\ Exact(u, view) /\ Total(Holds(u)) = Total(Holds(s1)) + x
      /\ \A b \in Addr : SameWaits(s1.modified[b], u.modified[b])
  BY <1>2, <1>5, <1>6, Credited
<1>8. \A b \in Addr : u.modified[b].storage = NewAccount.storage
  BY <1>4, <1>7 DEF SameWaits
<1>9. u \in Unwritten(view)
  BY <1>7, <1>8 DEF Unwritten, Exact
<1> QED
  BY <1>5, <1>7, <1>9 DEF u

CreditType == [recipient : Addr, amount : Nat]

LEMMA CreditsPaid ==
    ASSUME NEW view, SoundViews(view), NEW credits \in Seq(CreditType)
    PROVE  LET w == CreditResult(NewState(view), credits)
           IN  /\ w \in Unwritten(view)
               /\ Total(Holds(w)) = Total(view) + AmountResult(0, credits)
               /\ AmountResult(0, credits) \in Nat
<1> DEFINE N  == Len(credits)
           St == Unwritten(view)
           w  == CreditResult(NewState(view), credits)
<1>1. /\ N \in Nat /\ DOMAIN credits = 1..N
      /\ \A i \in 1..N : credits[i].recipient \in Addr /\ credits[i].amount \in Nat
  <2>1. \A i \in 1..N : credits[i] \in CreditType
    BY ElementOfSeq
  <2> QED
    BY <2>1, LenProperties DEF CreditType
<1>2. NewState(view) \in St
  BY NewExact DEF Unwritten, Exact, NewState
<1> HIDE DEF St, N
<1>3. \A s \in St, i \in 1..N : Credit(s, credits[i].recipient, credits[i].amount) \in St
  BY <1>1, CreditStep DEF St
<1>4. PICK lab : CreditLabels(lab, NewState(view), credits, St, N)
  BY <1>1, <1>2, <1>3, Credits
<1>5. \A n \in Nat, i \in 1..N : n + credits[i].amount \in Nat
  BY <1>1
<1>6. PICK am : AmountLabels(am, 0, credits, Nat, N)
  BY <1>1, <1>5, Amounts
<1>7. Total(Holds(NewState(view))) = Total(view) /\ Total(view) \in Nat
  <2> DEFINE h == Holds(NewState(view))
  <2>1. h = [a \in Addr |-> [balance |-> view[a].balance]]
    BY NewExact
  <2>2. \A a \in Addr : view[a].balance \in Nat
    BY DEF SoundViews, ViewAccount
  <2> HIDE DEF h
  <2>3. Balances(view) /\ \A a \in Addr : h[a].balance = view[a].balance
    BY <2>1, <2>2 DEF Balances
  <2>4. Total(h) = Total(view) /\ Total(view) \in Nat
    BY <2>3, TotalSame, TotalType
  <2> QED
    BY <2>4 DEF h
<1> DEFINE T == {i \in 0..N : Total(Holds(lab[i])) = Total(view) + am[i]}
<1>8. 0 \in T
  <2>1. lab[0] = NewState(view) /\ am[0] = 0
    BY <1>4, <1>6 DEF CreditLabels, AmountLabels
  <2>2. Total(Holds(lab[0])) = Total(view) + 0
    BY <1>7, <2>1
  <2> QED
    BY <1>1, <2>1, <2>2
<1>9. ASSUME NEW i \in 1..N, i - 1 \in T PROVE i \in T
  <2>1. /\ Total(Holds(lab[i - 1])) = Total(view) + am[i - 1]
        /\ i - 1 \in 0..N /\ i \in 0..N
    BY <1>1, <1>9
  <2> DEFINE x == credits[i].amount
  <2>2. x \in Nat /\ credits[i].recipient \in Addr
    BY <1>1
  <2>3. /\ lab[i - 1] \in St
        /\ lab[i] = Credit(lab[i - 1], credits[i].recipient, x)
    BY <1>4, <2>1 DEF CreditLabels
  <2>4. am[i - 1] \in Nat /\ am[i] = am[i - 1] + x
    BY <1>6, <2>1 DEF AmountLabels
  <2> HIDE DEF x
  <2>5. Total(Holds(lab[i])) = Total(Holds(lab[i - 1])) + x
    BY <2>2, <2>3, CreditStep DEF St
  <2>6. Total(Holds(lab[i])) = Total(view) + am[i]
    BY <1>7, <2>1, <2>2, <2>4, <2>5
  <2> QED
    BY <2>1, <2>6
<1> HIDE DEF T
<1>10. N \in T /\ N \in 0..N
  <2>1. \A i \in 0..N : i \in T
    BY <1>1, <1>8, <1>9, UpToAll
  <2> QED
    BY <1>1, <2>1
<1>11. w = lab[N] /\ lab[N] \in St
  BY <1>4, <1>10 DEF CreditLabels
<1>12. AmountResult(0, credits) = am[N] /\ am[N] \in Nat
  BY <1>6, <1>10 DEF AmountLabels
<1>13. Total(Holds(lab[N])) = Total(view) + am[N]
  BY <1>10 DEF T
<1> HIDE DEF w
<1>14. w \in Unwritten(view) /\ Total(Holds(w)) = Total(view) + AmountResult(0, credits)
  BY <1>11, <1>12, <1>13 DEF St
<1> QED
  BY <1>12, <1>14 DEF w

LEMMA UnwrittenEntries ==
    ASSUME NEW view, NEW s \in Unwritten(view), NEW a \in Addr
    PROVE  NoWrites(BuildDiff(s, Rev).accounts[a])
<1> DEFINE acc == s.modified[a]
           d   == DiffEntry(acc, Rev)
<1>1. acc.storage = NewAccount.storage
  BY DEF Unwritten
<1>2. BuildDiff(s, Rev).accounts[a] = d
  BY DEF BuildDiff
<1> HIDE DEF acc
<1>3. {k \in Key : acc.storage[k].current # acc.storage[k].original} = {}
  BY <1>1 DEF NewAccount, NewSlot
<1>4. DOMAIN ModifiedAccount(acc).storage = {}
  BY <1>3 DEF ModifiedAccount
<1> DEFINE e == [op |-> "modified", nonce |-> 0, balance |-> acc.balance,
                 has_code |-> FALSE, code |-> NoCode, storage |-> << >>]
<1>5. DOMAIN e.storage = {} /\ Unchanged.op # "modified" /\ Deleted.op # "modified"
  BY DEF Unchanged, Deleted
<1>6. d \in {Unchanged, Deleted, e, ModifiedAccount(acc)}
  BY DEF DiffEntry
<1> HIDE DEF d, e
<1>7. NoWrites(d)
  BY <1>4, <1>5, <1>6 DEF NoWrites
<1> QED
  BY <1>2, <1>7

LEMMA RewardsType ==
    ASSUME NEW f \in Finalizations
    PROVE  Rewards(f) \o f.withdrawals \in Seq(CreditType)
<1>1. /\ f.reward \in Nat \cup {NoReward}
      /\ f.ommers \in Seq([beneficiary : Addr, delta : 1..7])
      /\ f.withdrawals \in Seq(CreditType)
  BY FinalizationAssumption DEF CreditType
<1>2. Rewards(f) \in Seq(CreditType)
  <2>1. CASE f.reward = NoReward
    <3>1. Rewards(f) = << >>
      BY <2>1 DEF Rewards
    <3> QED
      BY <3>1, EmptySeq
  <2>2. CASE f.reward # NoReward
    <3> DEFINE N  == Len(f.ommers)
               r  == f.reward
               c  == [recipient |-> Coinbase, amount |-> r + (r \div 32) * N]
               os == [i \in DOMAIN f.ommers |->
                        [recipient |-> f.ommers[i].beneficiary,
                         amount |-> (r \div 8) * (8 - f.ommers[i].delta)]]
    <3>1. Rewards(f) = <<c>> \o os
      BY <2>2 DEF Rewards
    <3>2. N \in Nat /\ DOMAIN f.ommers = 1..N /\ r \in Nat
      BY <1>1, <2>2, LenProperties
    <3>3. \A i \in 1..N : f.ommers[i].beneficiary \in Addr /\ f.ommers[i].delta \in 1..7
      <4>1. \A i \in 1..N : f.ommers[i] \in [beneficiary : Addr, delta : 1..7]
        BY <1>1, ElementOfSeq
      <4> QED
        BY <4>1
    <3>4. r \div 8 \in Nat /\ r \div 32 \in Nat
      BY <3>2
    <3>5. c \in CreditType
      <4>1. (r \div 32) * N \in Nat
        <5> DEFINE q == r \div 32
        <5>1. q \in Nat
          BY <3>4
        <5> HIDE DEF q, N
        <5>2. q * N \in Nat
          BY <3>2, <5>1
        <5> QED
          BY <5>2 DEF q
      <4> DEFINE p == (r \div 32) * N
      <4>2. p \in Nat
        BY <4>1
      <4> HIDE DEF p
      <4>3. r + p \in Nat
        BY <3>2, <4>2
      <4> QED
        BY <4>3, BlockInfoAssumption DEF CreditType, p
    <3>6. os \in Seq(CreditType)
      <4> DEFINE q == r \div 8
      <4>1. q \in Nat
        BY <3>4
      <4> HIDE DEF q
      <4>2. ASSUME NEW i \in 1..N
            PROVE  [recipient |-> f.ommers[i].beneficiary,
                    amount |-> q * (8 - f.ommers[i].delta)] \in CreditType
        <5>1. 8 - f.ommers[i].delta \in Nat
          <6> DEFINE y == f.ommers[i].delta
          <6>1. y \in 1..7
            BY <3>3, <4>2
          <6> HIDE DEF y
          <6>2. 8 - y \in Nat
            BY <6>1
          <6> QED
            BY <6>2 DEF y
        <5> DEFINE e == 8 - f.ommers[i].delta
        <5>2. e \in Nat
          BY <5>1
        <5> HIDE DEF e
        <5>3. q * e \in Nat
          BY <4>1, <5>2
        <5> QED
          BY <3>3, <5>3 DEF CreditType, e
      <4>3. os = [i \in 1..N |-> [recipient |-> f.ommers[i].beneficiary,
                                  amount |-> q * (8 - f.ommers[i].delta)]]
        BY Zenon, <3>2 DEF q
      <4> HIDE DEF os, N
      <4>4. os \in [1..N -> CreditType]
        BY <4>2, <4>3
      <4> QED
        BY <3>2, <4>4, SeqDef
    <3>7. <<c>> \in Seq(CreditType)
      BY <3>5
    <3> HIDE DEF c, os
    <3> QED
      BY <3>1, <3>6, <3>7, ConcatProperties
  <2> QED
    BY <2>1, <2>2
<1> QED
  BY <1>1, <1>2, ConcatProperties

(* What finalize() credits is all that it changes.                          *)
LEMMA Finalized ==
    ASSUME SoundViews(block_state), Rev >= AMSTERDAM, NEW credits \in Seq(CreditType)
    PROVE  LET diff == FinalizeDiff(credits)
           IN  /\ ReadsOK(diff)
               /\ DiffApplies(block_state, diff, Total(block_state) + AmountResult(0, credits))
               /\ AmountResult(0, credits) \in Nat
               /\ \A a \in Addr : NoWrites(diff.accounts[a])
<1> DEFINE w == CreditResult(NewState(block_state), credits)
<1>1. FinalizeDiff(credits) = BuildDiff(w, Rev)
  BY Zenon DEF FinalizeDiff, CreditResult
<1>2. /\ w \in Unwritten(block_state)
      /\ Total(Holds(w)) = Total(block_state) + AmountResult(0, credits)
      /\ AmountResult(0, credits) \in Nat
  BY CreditsPaid
<1> HIDE DEF w
<1>3. Exact(w, block_state)
  BY <1>2 DEF Unwritten
<1>4. DiffApplies(block_state, BuildDiff(w, Rev), Total(Holds(w)))
  BY <1>3, DiffApplied
<1>5. \A a \in Addr : NoWrites(BuildDiff(w, Rev).accounts[a])
  BY <1>2, UnwrittenEntries
<1>6. ReadsOK(BuildDiff(w, Rev))
  BY BuiltReads
<1> QED
  BY Zenon, <1>1, <1>2, <1>4, <1>5, <1>6

-----------------------------------------------------------------------------
(* The block.                                                              *)

\* The index of the last changes of storage: not the last index while the
\* calls at the block end are still to come.
LastWrites == IF phase = "end" THEN Len(history) - 2 ELSE Len(history) - 1

\* The views before the block and now, what was issued between them, and
\* what the list and the history say of them.
BlockInv ==
    /\ SoundViews(state) /\ SoundViews(block_state)
    /\ issued \in Int /\ TotalBalance(block_state) = TotalBalance(state) + issued
    /\ BalOK(bal_builder, state, block_state, history, LastWrites)
    /\ count \in Nat
    /\ phase = "start" => history = << >> /\ count = 0
    /\ phase = "txs" => Len(history) = count + 1
    /\ phase = "end" => Len(history) = count + 2

TotalInv == issued \in Int /\ Total(block_state) = Total(state) + issued

LEMMA TotalBalanced ==
    ASSUME NEW view PROVE TotalBalance(view) = Total(view)
BY Zenon, TotalIsFold DEF TotalBalance

LEMMA InitBlock ==
    ASSUME Init PROVE BlockInv
<1>1. /\ state \in InitialViews /\ block_state = state /\ bal_builder = NewBuilder
      /\ count = 0 /\ phase = "start" /\ history = << >> /\ issued = 0
  BY DEF Init
<1>2. SoundViews(state)
  BY <1>1, ViewAssumption DEF SoundViews, Sound
<1>3. << >> \in Seq(Views) /\ Len(<< >>) = 0
  BY EmptySeq
<1>4. TotalBalance(block_state) = TotalBalance(state) + issued
  <2>1. TotalBalance(state) = Total(state)
    BY TotalBalanced
  <2>2. Balances(state)
    BY <1>2 DEF SoundViews, ViewAccount, Balances
  <2>3. Total(state) \in Nat
    BY <2>2, TotalType
  <2>4. Total(state) = Total(state) + 0
    BY <2>3
  <2> QED
    BY <1>1, <2>1, <2>4
<1>5. ASSUME NEW a \in Addr
      PROVE  /\ bal_builder[a] = NewAccountData
             /\ DataOK(bal_builder[a], state[a], -1, -1)
             /\ Content(block_state[a]) = ReplayAccount(bal_builder[a], -1, state[a])
  <2>1. bal_builder[a] = NewAccountData
    BY <1>1 DEF NewBuilder
  <2>2. state[a] \in ViewAccount
    BY <1>2 DEF SoundViews
  <2>3. -1 \in Int
    OBVIOUS
  <2> QED
    BY <1>1, <2>1, <2>2, <2>3, NewData
<1>6. LastWrites = -1 /\ Len(history) - 1 = -1
  BY <1>1, <1>3 DEF LastWrites
<1>7. BuilderOK(bal_builder, state, -1, -1) /\ ListsAt(bal_builder, state, -1, block_state)
  BY <1>5 DEF BuilderOK, ListsAt
<1>8. HistoryOK(bal_builder, state, history)
  BY <1>1, <1>3 DEF HistoryOK
<1>9. BalOK(bal_builder, state, block_state, history, LastWrites)
  BY <1>1, <1>3, <1>6, <1>7, <1>8 DEF BalOK
<1> QED
  BY <1>1, <1>2, <1>4, <1>9 DEF BlockInv

\* What BlockInv says of the state, by its parts.
LEMMA BlockInvParts ==
    ASSUME BlockInv
    PROVE  /\ SoundViews(state) /\ SoundViews(block_state) /\ block_state \in Views
           /\ issued \in Int /\ Total(block_state) = Total(state) + issued
           /\ Total(state) \in Int
           /\ history \in Seq(Views) /\ Len(history) \in Nat
<1>1. SoundViews(state) /\ SoundViews(block_state) /\ issued \in Int
      /\ BalOK(bal_builder, state, block_state, history, LastWrites)
  BY DEF BlockInv
<1>2. TotalBalance(block_state) = TotalBalance(state) + issued
  BY DEF BlockInv
<1>3. Total(block_state) = Total(state) + issued
  BY <1>2, TotalBalanced
<1>4. Balances(state) /\ block_state \in Views
  BY <1>1 DEF SoundViews, ViewAccount, Balances, Views
<1>5. Total(state) \in Nat
  BY <1>4, TotalType
<1>6. history \in Seq(Views)
  BY <1>1 DEF BalOK
<1> QED
  BY <1>1, <1>3, <1>4, <1>5, <1>6, LenProperties

(* How the next views keep the invariant: by what is issued. *)
LEMMA NextTotal ==
    ASSUME BlockInv, NEW x \in Int, NEW diff,
           DiffApplies(block_state, diff, Total(block_state) + x),
           block_state' = ApplyDiff(block_state, diff), state' = state, issued' = issued + x
    PROVE  /\ SoundViews(state') /\ SoundViews(block_state')
           /\ issued' \in Int /\ TotalBalance(block_state') = TotalBalance(state') + issued'
<1>1. /\ SoundViews(state) /\ issued \in Int /\ Total(block_state) = Total(state) + issued
      /\ Total(state) \in Int
  BY BlockInvParts
<1>2. SoundViews(block_state') /\ Total(block_state') = Total(block_state) + x
  BY DEF DiffApplies
<1>3. Total(block_state') = Total(state) + issued'
  BY <1>1, <1>2
<1>4. TotalBalance(block_state') = Total(block_state') /\ TotalBalance(state) = Total(state)
  BY TotalBalanced
<1> QED
  BY <1>1, <1>2, <1>3, <1>4

\* The list after a step, with the changes of storage up to index l.
NextBal(l) == BalOK(bal_builder', state', block_state', history', l)

LEMMA StartStep ==
    ASSUME BlockInv, Rev >= AMSTERDAM,
           NEW outcomes \in SystemOutcomeLists(STORAGE_SYSTEM_CONTRACTS),
           SystemCallBlockStart(outcomes)
    PROVE  BlockInv'
<1> DEFINE s == StartResult(NewState(block_state), Calls(STORAGE_SYSTEM_CONTRACTS, outcomes))
           diff == BuildDiff(s, Rev)
<1>1. /\ phase = "start" /\ phase' = "txs" /\ history' = <<block_state'>>
      /\ state' = state /\ count' = count /\ issued' = issued
      /\ skip_system_calls => bal_builder' = bal_builder /\ block_state' = block_state
      /\ ~skip_system_calls => Apply(0, diff)
  <2>1. diff = BuildDiff(FoldLeft(CallAtStart, NewState(block_state),
                                  Calls(STORAGE_SYSTEM_CONTRACTS, outcomes)), Rev)
    BY Zenon DEF StartResult
  <2> HIDE DEF diff
  <2> QED
    BY <2>1 DEF SystemCallBlockStart
<1>2. /\ history = << >> /\ count = 0
      /\ BalOK(bal_builder, state, block_state, history, LastWrites)
      /\ SoundViews(block_state) /\ block_state \in Views
      /\ TotalBalance(block_state) = TotalBalance(state) + issued
      /\ SoundViews(state) /\ issued \in Int
  BY <1>1, BlockInvParts DEF BlockInv
<1>3. Len(history) = 0 /\ LastWrites = Len(history) - 1
  BY <1>1, <1>2, EmptySeq DEF LastWrites
<1>a. BalOK(bal_builder, state, block_state, history, Len(history) - 1)
  BY <1>2, <1>3
<1>4. history' = Append(history, block_state')
  BY <1>1, <1>2
<1>5. /\ SoundViews(state') /\ SoundViews(block_state')
      /\ issued' \in Int /\ TotalBalance(block_state') = TotalBalance(state') + issued'
      /\ NextBal(Len(history))
  <2>1. CASE skip_system_calls
    <3>1. BalOK(bal_builder, state, block_state, Append(history, block_state), Len(history))
      BY <1>2, <1>a, IndexSkipped
    <3>2. bal_builder' = bal_builder /\ block_state' = block_state /\ state' = state
          /\ history' = Append(history, block_state)
      BY <1>1, <1>4, <2>1
    <3>3. NextBal(Len(history))
      BY <3>1, <3>2 DEF NextBal
    <3> QED
      BY <1>1, <1>2, <3>2, <3>3
  <2>2. CASE ~skip_system_calls
    <3>1. /\ bal_builder' = RecordDiff(bal_builder, 0, diff, state)
          /\ block_state' = ApplyDiff(block_state, diff)
      BY <1>1, <2>2 DEF Apply
    <3>2. s \in Reached(block_state, Total(block_state))
      BY <1>2, StartReached
    <3> HIDE DEF s
    <3>3. Exact(s, block_state) /\ Total(Holds(s)) = Total(block_state)
      BY <3>2 DEF Reached
    <3>4. DiffApplies(block_state, diff, Total(Holds(s))) /\ ReadsOK(diff)
      BY <1>2, <3>3, DiffApplied, BuiltReads
    <3> HIDE DEF diff
    <3>5. DiffApplies(block_state, diff, Total(block_state))
      BY <3>3, <3>4
    <3>6. bal_builder' = RecordDiff(bal_builder, Len(history), diff, state)
      BY <1>3, <3>1
    <3>7. BalOK(bal_builder', state, block_state', Append(history, block_state'), Len(history))
      BY <1>2, <1>a, <3>1, <3>4, <3>5, <3>6, IndexRecorded
    <3>8. NextBal(Len(history))
      BY <1>1, <1>4, <3>7 DEF NextBal
    <3>9. Total(block_state) = Total(block_state) + 0 /\ issued' = issued + 0
      BY <1>1, <1>2, BlockInvParts
    <3>10. DiffApplies(block_state, diff, Total(block_state) + 0)
      BY Zenon, <3>5, <3>9
    <3> QED
      BY <1>1, <3>1, <3>8, <3>9, <3>10, NextTotal
  <2> QED
    BY <2>1, <2>2
<1>6. Len(history') = 1 /\ count' = 0
  BY <1>1, <1>2
<1>7. LastWrites' = Len(history)
  BY <1>1, <1>3, <1>6 DEF LastWrites
<1>8. BalOK(bal_builder, state, block_state, history, LastWrites)'
  BY <1>5, <1>7 DEF NextBal
<1> QED
  BY <1>1, <1>5, <1>6, <1>8 DEF BlockInv

\* What a step in the phase of the transactions starts from.
LEMMA TransactionsPhase ==
    ASSUME BlockInv, phase = "txs"
    PROVE  /\ SoundViews(state) /\ SoundViews(block_state) /\ block_state \in Views
           /\ BalOK(bal_builder, state, block_state, history, Len(history) - 1)
           /\ history \in Seq(Views) /\ Len(history) \in Nat /\ Len(history) = count + 1
           /\ count \in Nat /\ issued \in Int
           /\ TotalBalance(block_state) = TotalBalance(state) + issued
<1>1. LastWrites = Len(history) - 1
  BY DEF LastWrites
<1>2. BalOK(bal_builder, state, block_state, history, Len(history) - 1)
  BY <1>1 DEF BlockInv
<1> QED
  BY <1>2, BlockInvParts DEF BlockInv

LEMMA RejectStep ==
    ASSUME BlockInv, NEW t \in Transactions, RejectTransaction(t)
    PROVE  BlockInv'
<1>1. /\ phase = "txs" /\ phase' = "txs" /\ history' = Append(history, block_state)
      /\ state' = state /\ count' = count + 1 /\ issued' = issued
      /\ bal_builder' = bal_builder /\ block_state' = block_state
  BY DEF RejectTransaction
<1>2. /\ SoundViews(state) /\ SoundViews(block_state) /\ block_state \in Views
      /\ BalOK(bal_builder, state, block_state, history, Len(history) - 1)
      /\ history \in Seq(Views) /\ Len(history) \in Nat /\ Len(history) = count + 1
      /\ count \in Nat /\ issued \in Int
      /\ TotalBalance(block_state) = TotalBalance(state) + issued
  BY <1>1, TransactionsPhase
<1>3. BalOK(bal_builder, state, block_state, Append(history, block_state), Len(history))
  BY <1>2, IndexSkipped
<1>4. NextBal(Len(history))
  BY <1>1, <1>3 DEF NextBal
<1>5. Len(history') = Len(history) + 1
  BY <1>1, <1>2, Appended
<1>6. count' \in Nat /\ Len(history') = count' + 1 /\ Len(history') - 1 = Len(history)
  BY <1>1, <1>2, <1>5
<1>7. LastWrites' = Len(history)
  BY <1>1, <1>6 DEF LastWrites
<1>8. BalOK(bal_builder, state, block_state, history, LastWrites)'
  BY <1>4, <1>7 DEF NextBal
<1> QED
  BY <1>1, <1>2, <1>6, <1>8 DEF BlockInv

LEMMA ExecuteStep ==
    ASSUME BlockInv, Rev >= AMSTERDAM,
           NEW t \in Transactions, NEW o \in Outcomes, NEW r \in GasResults,
           ExecuteTransaction(t, o, r)
    PROVE  BlockInv'
<1> DEFINE diff == Transition(block_state, t, o, r)
           ch   == Charged(t, r)
<1>1. /\ phase = "txs" /\ phase' = "txs" /\ history' = Append(history, block_state')
      /\ state' = state /\ count' = count + 1
      /\ Accepted(t) /\ CanReturn(t, o, r) /\ CanEnd(BuyGas(NewState(block_state), t), t, o)
      /\ Apply(count + 1, diff)
      /\ issued' = issued - Receipt(t, r).gas_used * BaseFee - BlobGasUsed(t) * BlobBaseFee
  BY DEF ExecuteTransaction
<1>2. /\ SoundViews(state) /\ SoundViews(block_state) /\ block_state \in Views
      /\ BalOK(bal_builder, state, block_state, history, Len(history) - 1)
      /\ history \in Seq(Views) /\ Len(history) \in Nat /\ Len(history) = count + 1
      /\ count \in Nat /\ issued \in Int
      /\ TotalBalance(block_state) = TotalBalance(state) + issued
  BY <1>1, TransactionsPhase
<1>3. AcceptedOn(block_state, t)
  BY <1>1 DEF Accepted, AcceptedOn
<1>4. DiffApplies(block_state, diff, Total(block_state) - ch) /\ ch \in Nat
  BY <1>1, <1>2, <1>3, Transitioned
<1>5. ReadsOK(diff)
  BY BuiltReads DEF Transition
<1>6. /\ bal_builder' = RecordDiff(bal_builder, count + 1, diff, state)
      /\ block_state' = ApplyDiff(block_state, diff)
  BY <1>1 DEF Apply
<1> HIDE DEF diff
<1>7. bal_builder' = RecordDiff(bal_builder, Len(history), diff, state)
  BY <1>2, <1>6
<1>8. BalOK(bal_builder', state, block_state', Append(history, block_state'), Len(history))
  BY <1>2, <1>4, <1>5, <1>6, <1>7, IndexRecorded
<1>9. NextBal(Len(history))
  BY <1>1, <1>8 DEF NextBal
<1>10. /\ Total(block_state) - ch = Total(block_state) + (-ch) /\ issued' = issued + (-ch)
       /\ -ch \in Int
  <2> DEFINE g == Receipt(t, r).gas_used * BaseFee
             b == BlobGasUsed(t) * BlobBaseFee
  <2>1. g \in Nat /\ b \in Nat
    <3>1. TransactionType(t) /\ t.max_gas_price >= BaseFee
      BY <1>3, TransactionTyped, AcceptedFields
    <3>2. BaseFee \in Nat /\ BlobBaseFee \in Nat /\ BlobGasUsed(t) \in Nat
      BY <3>1, Prices
    <3>3. Receipt(t, r).gas_used \in Nat
      BY <1>1, <1>3, AcceptedFields, GasUsedFits
    <3> QED
      BY <3>2, <3>3
  <2>2. ch = g + b /\ issued' = issued - g - b
    BY <1>1 DEF Charged
  <2> HIDE DEF g, b, ch
  <2>3. Total(block_state) \in Int
    BY <1>2, BlockInvParts
  <2> QED
    BY <1>2, <2>1, <2>2, <2>3
<1> HIDE DEF ch
<1>11. DiffApplies(block_state, diff, Total(block_state) + (-ch))
  BY Zenon, <1>4, <1>10
<1>12. /\ SoundViews(state') /\ SoundViews(block_state')
       /\ issued' \in Int /\ TotalBalance(block_state') = TotalBalance(state') + issued'
  BY <1>1, <1>6, <1>10, <1>11, NextTotal
<1>13. block_state' \in Views
  BY <1>12 DEF SoundViews, Views
<1>14. Len(history') = Len(history) + 1
  BY <1>1, <1>2, <1>13, Appended
<1>15. count' \in Nat /\ Len(history') = count' + 1 /\ Len(history') - 1 = Len(history)
  BY <1>1, <1>2, <1>14
<1>16. LastWrites' = Len(history)
  BY <1>1, <1>15 DEF LastWrites
<1>17. BalOK(bal_builder, state, block_state, history, LastWrites)'
  BY <1>9, <1>16 DEF NextBal
<1> QED
  BY <1>1, <1>12, <1>15, <1>17 DEF BlockInv

LEMMA FinalizeStep ==
    ASSUME BlockInv, Rev >= AMSTERDAM, NEW f \in Finalizations, Finalize(f)
    PROVE  BlockInv'
<1> DEFINE credits == Rewards(f) \o f.withdrawals
           diff    == FinalizeDiff(credits)
           x       == AmountResult(0, credits)
<1>1. /\ phase = "txs" /\ phase' = (IF skip_system_calls THEN "done" ELSE "end")
      /\ history' = Append(history, block_state')
      /\ state' = state /\ count' = count
      /\ Apply(count + 1, diff)
  BY DEF Finalize
<1>a. issued' = issued + x
  BY Zenon DEF Finalize, AmountResult
<1>2. /\ SoundViews(state) /\ SoundViews(block_state) /\ block_state \in Views
      /\ BalOK(bal_builder, state, block_state, history, Len(history) - 1)
      /\ history \in Seq(Views) /\ Len(history) \in Nat /\ Len(history) = count + 1
      /\ count \in Nat /\ issued \in Int
      /\ TotalBalance(block_state) = TotalBalance(state) + issued
  BY <1>1, TransactionsPhase
<1>3. credits \in Seq(CreditType)
  BY RewardsType
<1> HIDE DEF credits
<1>4. /\ ReadsOK(diff) /\ DiffApplies(block_state, diff, Total(block_state) + x) /\ x \in Nat
      /\ \A a \in Addr : NoWrites(diff.accounts[a])
  BY <1>2, <1>3, Finalized
<1> HIDE DEF diff, x
<1>5. /\ bal_builder' = RecordDiff(bal_builder, count + 1, diff, state)
      /\ block_state' = ApplyDiff(block_state, diff)
  BY <1>1 DEF Apply
<1>6. bal_builder' = RecordDiff(bal_builder, Len(history), diff, state)
  BY <1>2, <1>5
<1>7. /\ BalOK(bal_builder', state, block_state', Append(history, block_state'), Len(history))
      /\ BalOK(bal_builder', state, block_state', Append(history, block_state'),
               Len(history) - 1)
  BY <1>2, <1>4, <1>5, <1>6, IndexRecorded
<1>8. NextBal(Len(history)) /\ NextBal(Len(history) - 1)
  BY <1>1, <1>7 DEF NextBal
<1>9. /\ SoundViews(state') /\ SoundViews(block_state')
      /\ issued' \in Int /\ TotalBalance(block_state') = TotalBalance(state') + issued'
  <2>1. x \in Int
    BY <1>4
  <2> QED
    BY <1>1, <1>a, <1>4, <1>5, <2>1, NextTotal
<1>10. block_state' \in Views
  BY <1>9 DEF SoundViews, Views
<1>11. Len(history') = Len(history) + 1
  BY <1>1, <1>2, <1>10, Appended
<1>12. /\ count' \in Nat /\ Len(history') = count' + 2
       /\ Len(history') - 1 = Len(history) /\ Len(history') - 2 = Len(history) - 1
  BY <1>1, <1>2, <1>11
<1>13. BalOK(bal_builder, state, block_state, history, LastWrites)'
  <2>1. CASE phase' = "end"
    <3>1. LastWrites' = Len(history) - 1
      BY <1>12, <2>1 DEF LastWrites
    <3> QED
      BY <1>8, <3>1 DEF NextBal
  <2>2. CASE phase' # "end"
    <3>1. LastWrites' = Len(history)
      BY <1>12, <2>2 DEF LastWrites
    <3> QED
      BY <1>8, <3>1 DEF NextBal
  <2> QED
    BY <2>1, <2>2
<1> QED
  BY <1>1, <1>9, <1>12, <1>13 DEF BlockInv

LEMMA EndStep ==
    ASSUME BlockInv, Rev >= AMSTERDAM, NEW deposits \in BOOLEAN,
           NEW outcomes \in SystemOutcomeLists(REQUESTS_SYSTEM_CONTRACTS),
           SystemCallBlockEnd(deposits, outcomes)
    PROVE  BlockInv'
<1> DEFINE p == EndResult([state |-> NewState(block_state), ok |-> deposits],
                          Calls(REQUESTS_SYSTEM_CONTRACTS, outcomes))
           s == p.state
           diff == BuildDiff(s, Rev)
           n == Len(history)
<1>1. /\ phase = "end" /\ phase' = "done"
      /\ history' = [history EXCEPT ![n] = block_state']
      /\ state' = state /\ count' = count /\ issued' = issued
      /\ ~p.ok => bal_builder' = bal_builder /\ block_state' = block_state
      /\ p.ok => Apply(count + 1, diff)
  <2>1. p = FoldLeft(CallAtEnd, [state |-> NewState(block_state), ok |-> deposits],
                     Calls(REQUESTS_SYSTEM_CONTRACTS, outcomes))
    BY Zenon DEF EndResult
  <2> HIDE DEF p
  <2> QED
    BY <2>1 DEF SystemCallBlockEnd
<1>2. /\ SoundViews(state) /\ SoundViews(block_state) /\ block_state \in Views
      /\ issued \in Int /\ TotalBalance(block_state) = TotalBalance(state) + issued
      /\ history \in Seq(Views) /\ n \in Nat /\ n = count + 2 /\ count \in Nat
      /\ BalOK(bal_builder, state, block_state, history, LastWrites)
  BY <1>1, BlockInvParts DEF BlockInv
<1>3. LastWrites = n - 2 /\ n > 0 /\ count + 1 = n - 1
  BY <1>1, <1>2 DEF LastWrites
<1>4. BalOK(bal_builder, state, block_state, history, n - 2)
  BY <1>2, <1>3
<1>5. p \in [state : Reached(block_state, Total(block_state)), ok : BOOLEAN]
  BY <1>2, EndReached
<1> HIDE DEF p
<1>6. /\ SoundViews(state') /\ SoundViews(block_state')
      /\ issued' \in Int /\ TotalBalance(block_state') = TotalBalance(state') + issued'
      /\ NextBal(n - 1)
  <2>1. CASE ~p.ok
    <3>1. BalOK(bal_builder, state, block_state, [history EXCEPT ![n] = block_state], n - 1)
      BY <1>2, <1>3, <1>4, LastSkipped
    <3>2. bal_builder' = bal_builder /\ block_state' = block_state /\ state' = state
          /\ history' = [history EXCEPT ![n] = block_state]
      BY <1>1, <2>1
    <3>3. NextBal(n - 1)
      BY <3>1, <3>2 DEF NextBal
    <3> QED
      BY <1>1, <1>2, <3>2, <3>3
  <2>2. CASE p.ok
    <3>1. /\ bal_builder' = RecordDiff(bal_builder, count + 1, diff, state)
          /\ block_state' = ApplyDiff(block_state, diff)
      BY <1>1, <2>2 DEF Apply
    <3>2. s \in Reached(block_state, Total(block_state))
      BY <1>5
    <3> HIDE DEF s
    <3>3. Exact(s, block_state) /\ Total(Holds(s)) = Total(block_state)
      BY <3>2 DEF Reached
    <3>4. DiffApplies(block_state, diff, Total(Holds(s))) /\ ReadsOK(diff)
      BY <1>2, <3>3, DiffApplied, BuiltReads
    <3> HIDE DEF diff
    <3>5. DiffApplies(block_state, diff, Total(block_state))
      BY <3>3, <3>4
    <3>6. bal_builder' = RecordDiff(bal_builder, n - 1, diff, state)
      BY <1>3, <3>1
    <3>7. BalOK(bal_builder', state, block_state', [history EXCEPT ![n] = block_state'], n - 1)
      BY <1>2, <1>3, <1>4, <3>1, <3>4, <3>5, <3>6, LastRecorded
    <3>8. NextBal(n - 1)
      BY <1>1, <3>7 DEF NextBal
    <3>9. Total(block_state) = Total(block_state) + 0 /\ issued' = issued + 0
      BY <1>1, <1>2, BlockInvParts
    <3>10. DiffApplies(block_state, diff, Total(block_state) + 0)
      BY Zenon, <3>5, <3>9
    <3> QED
      BY <1>1, <3>1, <3>8, <3>9, <3>10, NextTotal
  <2> QED
    BY <2>1, <2>2
<1>7. Len(history') = n
  BY <1>1, <1>2, ExceptSeq
<1>8. LastWrites' = n - 1
  BY <1>1, <1>7 DEF LastWrites
<1>9. BalOK(bal_builder, state, block_state, history, LastWrites)'
  BY <1>6, <1>8 DEF NextBal
<1> QED
  BY <1>1, <1>2, <1>6, <1>9 DEF BlockInv

LEMMA BlockUnchanged ==
    ASSUME BlockInv, UNCHANGED vars
    PROVE  BlockInv'
BY DEF BlockInv, LastWrites, vars

(* Every step keeps the invariant, from Amsterdam on.                       *)
LEMMA BlockStep ==
    ASSUME BlockInv, Rev >= AMSTERDAM, [Next]_vars
    PROVE  BlockInv'
<1>1. ASSUME NEW outcomes \in SystemOutcomeLists(STORAGE_SYSTEM_CONTRACTS),
             SystemCallBlockStart(outcomes)
      PROVE  BlockInv'
  BY <1>1, StartStep
<1>2. ASSUME NEW t \in Transactions, RejectTransaction(t)
      PROVE  BlockInv'
  BY <1>2, RejectStep
<1>3. ASSUME NEW t \in Transactions, NEW o \in Outcomes, NEW r \in GasResults,
             ExecuteTransaction(t, o, r)
      PROVE  BlockInv'
  BY <1>3, ExecuteStep
<1>4. ASSUME NEW f \in Finalizations, Finalize(f)
      PROVE  BlockInv'
  BY <1>4, FinalizeStep
<1>5. ASSUME NEW deposits \in BOOLEAN,
             NEW outcomes \in SystemOutcomeLists(REQUESTS_SYSTEM_CONTRACTS),
             SystemCallBlockEnd(deposits, outcomes)
      PROVE  BlockInv'
  BY <1>5, EndStep
<1>6. CASE Done
  BY <1>6, BlockUnchanged DEF Done
<1>7. CASE UNCHANGED vars
  BY <1>7, BlockUnchanged
<1> QED
  BY <1>1, <1>2, <1>3, <1>4, <1>5, <1>6, <1>7 DEF Next

-----------------------------------------------------------------------------
(* What the invariant says. *)

LEMMA SupplyHolds ==
    ASSUME BlockInv PROVE SupplyAccounted
BY DEF BlockInv, SoundViews, SupplyAccounted

LEMMA UnlistedReplay ==
    ASSUME NEW data, Unlisted(data), NEW v \in ViewAccount, NEW j
    PROVE  ReplayAccount(data, j, v) = Content(v)
<1>1. \A x : ValueAt(<< >>, j, x) = x
  BY DEF ValueAt
<1>2. v.storage \in [Key -> Val]
  BY DEF ViewAccount
<1>3. [k \in Key |-> v.storage[k]] = v.storage
  BY <1>2
<1>4. [k \in Key |-> ValueAt(data.storage_writes[k], j, v.storage[k])] = v.storage
  BY <1>1, <1>3 DEF Unlisted
<1>5. /\ ValueAt(data.nonce_changes, j, v.nonce) = v.nonce
      /\ ValueAt(data.balance_changes, j, v.balance) = v.balance
      /\ ValueAt(data.code_changes, j, v.code) = v.code
  BY <1>1 DEF Unlisted
<1> QED
  BY <1>4, <1>5 DEF ReplayAccount, Content

(* What is built says as much as what is recorded.                          *)
LEMMA BuiltReplay ==
    ASSUME NEW builder, NEW a \in Addr, builder[a].listed, builder[a] \in AccountData,
           NEW j, NEW v
    PROVE  ReplayAccount(Build(builder)[a], j, v) = ReplayAccount(builder[a], j, v)
<1> DEFINE data == builder[a]
           b    == Build(builder)[a]
<1>1. b = [data EXCEPT !.storage_reads = {k \in @ : data.storage_writes[k] = << >>}]
  BY DEF Build
<1> HIDE DEF b
<1>2. /\ b.nonce_changes = data.nonce_changes /\ b.balance_changes = data.balance_changes
      /\ b.code_changes = data.code_changes /\ b.storage_writes = data.storage_writes
  BY <1>1 DEF AccountData
<1>3. ReplayAccount(b, j, v) = ReplayAccount(data, j, v)
  BY <1>2 DEF ReplayAccount
<1> QED
  BY <1>3 DEF b

LEMMA ReplaysHold ==
    ASSUME BlockInv PROVE BalReplays
<1>1. SoundViews(state) /\ BalOK(bal_builder, state, block_state, history, LastWrites)
  BY DEF BlockInv
<1>2. DOMAIN history = 1..Len(history)
  BY <1>1, LenProperties DEF BalOK
<1> SUFFICES ASSUME NEW j \in 1..Len(history), NEW a \in Addr
             PROVE  Content(history[j][a])
                      = IF a \in DOMAIN Build(bal_builder)
                        THEN ReplayAccount(Build(bal_builder)[a], j - 1, state[a])
                        ELSE Content(state[a])
  BY <1>2 DEF BalReplays
<1>3. Content(history[j][a]) = ReplayAccount(bal_builder[a], j - 1, state[a])
  BY <1>1 DEF BalOK, HistoryOK, ListsAt
<1>4. /\ bal_builder[a] \in AccountData /\ state[a] \in ViewAccount
      /\ bal_builder[a].listed = FALSE => Unlisted(bal_builder[a])
      /\ bal_builder[a].listed \in BOOLEAN
  BY <1>1 DEF BalOK, BuilderOK, DataOK, SoundViews, AccountData
<1>5. a \in DOMAIN Build(bal_builder) <=> bal_builder[a].listed
  BY DEF Build
<1>6. CASE bal_builder[a].listed
  BY <1>3, <1>4, <1>5, <1>6, BuiltReplay
<1>7. CASE ~bal_builder[a].listed
  <2>1. Unlisted(bal_builder[a])
    BY <1>4, <1>7
  <2> QED
    BY <1>3, <1>4, <1>5, <1>7, <2>1, UnlistedReplay
<1> QED
  BY <1>6, <1>7

LEMMA MinimalHolds ==
    ASSUME BlockInv PROVE BalMinimal
<1>1. \A a \in Addr : DataOK(bal_builder[a], state[a], Len(history) - 1, LastWrites)
  BY DEF BlockInv, BalOK, BuilderOK
<1> QED
  BY <1>1 DEF BalMinimal, DataOK, ListOK

\* Before Amsterdam there is no list; the receipts are a sequence.
BlockHyp ==
    /\ GasInv
    /\ Rev >= AMSTERDAM => BlockInv
    /\ Rev < AMSTERDAM => bal_builder = NewBuilder

LEMMA InitHyp ==
    ASSUME Init PROVE BlockHyp
BY InitGas, InitBlock DEF BlockHyp, Init

LEMMA HypStep ==
    ASSUME BlockHyp, [Next]_vars
    PROVE  BlockHyp'
<1>1. GasInv'
  BY GasStep DEF BlockHyp
<1>2. ASSUME Rev >= AMSTERDAM PROVE BlockInv'
  BY <1>2, BlockStep DEF BlockHyp
<1>3. ASSUME Rev < AMSTERDAM PROVE bal_builder' = NewBuilder
  <2>1. bal_builder = NewBuilder /\ ~(Rev >= AMSTERDAM)
    BY <1>3, Amsterdam DEF BlockHyp
  <2> SUFFICES bal_builder' = bal_builder
    BY <2>1
  <2>2. ASSUME NEW outcomes, SystemCallBlockStart(outcomes)
        PROVE  bal_builder' = bal_builder
    BY <2>1, <2>2 DEF SystemCallBlockStart, Apply
  <2>3. ASSUME NEW t \in Transactions, RejectTransaction(t)
        PROVE  bal_builder' = bal_builder
    BY <2>3 DEF RejectTransaction
  <2>4. ASSUME NEW t \in Transactions, NEW o \in Outcomes, NEW r \in GasResults,
               ExecuteTransaction(t, o, r)
        PROVE  bal_builder' = bal_builder
    BY <2>1, <2>4 DEF ExecuteTransaction, Apply
  <2>5. ASSUME NEW f \in Finalizations, Finalize(f)
        PROVE  bal_builder' = bal_builder
    BY <2>1, <2>5 DEF Finalize, Apply
  <2>6. ASSUME NEW deposits \in BOOLEAN, NEW outcomes, SystemCallBlockEnd(deposits, outcomes)
        PROVE  bal_builder' = bal_builder
    BY <2>1, <2>6 DEF SystemCallBlockEnd, Apply
  <2>7. CASE Done \/ UNCHANGED vars
    BY <2>7 DEF Done, vars
  <2> QED
    BY <2>2, <2>3, <2>4, <2>5, <2>6, <2>7 DEF Next
<1> QED
  BY <1>1, <1>2, <1>3 DEF BlockHyp

LEMMA MinimalOfHyp ==
    ASSUME BlockHyp PROVE BalMinimal
<1>1. CASE Rev >= AMSTERDAM
  BY <1>1, MinimalHolds DEF BlockHyp
<1>2. CASE Rev < AMSTERDAM
  <2>1. ASSUME NEW a \in Addr PROVE bal_builder[a] = NewAccountData
    BY <1>2 DEF BlockHyp, NewBuilder
  <2>2. \A x : Minimal(<< >>, x)
    BY DEF Minimal
  <2> QED
    BY <2>1, <2>2 DEF BalMinimal, NewAccountData
<1>3. Rev >= AMSTERDAM \/ Rev < AMSTERDAM
  BY RevNat DEF AMSTERDAM
<1> QED
  BY <1>1, <1>2, <1>3

(* What a receipt that is appended says.                                    *)
LEMMA LastReceipt ==
    ASSUME NEW S, NEW s \in Seq(S), NEW x
    PROVE  Last(Append(s, x)) = x
<1>1. s \in Seq(S \cup {x}) /\ x \in S \cup {x}
  <2>1. /\ Len(s) \in Nat /\ DOMAIN s = 1..Len(s) /\ \A i \in 1..Len(s) : s[i] \in S
    BY LenProperties, ElementOfSeq
  <2>2. \A i \in 1..Len(s) : s[i] \in S \cup {x}
    BY <2>1
  <2> QED
    BY <2>1, <2>2, SeqDef
<1>2. /\ Len(Append(s, x)) = Len(s) + 1
      /\ Append(s, x)[Len(s) + 1] = x
  BY <1>1, AppendProperties
<1> QED
  BY <1>2 DEF Last

\* What AuthorizationsReverted says of a step.
RevertStep ==
    Len(receipts') > Len(receipts) /\ Last(receipts').status = "auth" =>
      \A a \in Addr :
         LET new == block_state'[a]
             old == block_state[a]
             n   == IF a = Last(receipts').sender THEN 1 ELSE 0
         IN  /\ new.code = old.code /\ new.storage = old.storage
             /\ new.nonce = old.nonce + n
             /\ a \notin {Last(receipts').sender, Coinbase} => new = old

LEMMA ExecuteReverts ==
    ASSUME BlockHyp, NEW t \in Transactions, NEW o \in Outcomes, NEW r \in GasResults,
           ExecuteTransaction(t, o, r)
    PROVE  RevertStep
<1> DEFINE diff == Transition(block_state, t, o, r)
<1>1. /\ Accepted(t) /\ CanReturn(t, o, r) /\ CanEnd(BuyGas(NewState(block_state), t), t, o)
      /\ Apply(count + 1, diff)
      /\ \E g, c : receipts' = Append(receipts, [sender |-> t.sender, status |-> o.op,
                                               gas_used |-> g, cumulative_gas_used |-> c])
  BY DEF ExecuteTransaction
<1>2. PICK g, c : receipts' = Append(receipts, [sender |-> t.sender, status |-> o.op,
                                                gas_used |-> g, cumulative_gas_used |-> c])
  BY <1>1
<1>3. Last(receipts').sender = t.sender /\ Last(receipts').status = o.op
  <2>1. PICK S : receipts \in Seq(S)
    BY DEF BlockHyp, GasInv
  <2>2. Last(receipts') = [sender |-> t.sender, status |-> o.op,
                           gas_used |-> g, cumulative_gas_used |-> c]
    BY <1>2, <2>1, LastReceipt
  <2> QED
    BY <2>2
<1>4. CASE o.op = "auth"
  <2>1. Rev >= AMSTERDAM
    BY <1>1, <1>4 DEF CanEnd
  <2>2. SoundViews(block_state)
    BY <2>1 DEF BlockHyp, BlockInv
  <2>3. AcceptedOn(block_state, t)
    BY <1>1 DEF Accepted, AcceptedOn
  <2>4. block_state' = ApplyDiff(block_state, diff)
    BY <1>1 DEF Apply
  <2>5. PaysOnly(block_state, ApplyDiff(block_state, diff), t)
    BY <1>1, <1>4, <2>1, <2>2, <2>3, AuthPays
  <2> HIDE DEF diff
  <2>6. PaysOnly(block_state, block_state', t)
    BY <2>4, <2>5
  <2> QED
    BY <1>3, <2>6 DEF RevertStep, PaysOnly, OnlyPays, Bump
<1>5. CASE o.op # "auth"
  BY <1>3, <1>5 DEF RevertStep
<1> QED
  BY <1>4, <1>5

LEMMA OthersRevert ==
    ASSUME BlockHyp, receipts' = receipts
    PROVE  RevertStep
<1>1. Len(receipts) \in Nat
  BY LenProperties DEF BlockHyp, GasInv
<1> QED
  BY <1>1 DEF RevertStep

LEMMA RevertsStep ==
    ASSUME BlockHyp, [Next]_vars
    PROVE  RevertStep
<1>1. ASSUME NEW outcomes, SystemCallBlockStart(outcomes) PROVE RevertStep
  BY <1>1, OthersRevert DEF SystemCallBlockStart
<1>2. ASSUME NEW t \in Transactions, RejectTransaction(t) PROVE RevertStep
  BY <1>2, OthersRevert DEF RejectTransaction
<1>3. ASSUME NEW t \in Transactions, NEW o \in Outcomes, NEW r \in GasResults,
             ExecuteTransaction(t, o, r)
      PROVE  RevertStep
  BY <1>3, ExecuteReverts
<1>4. ASSUME NEW f \in Finalizations, Finalize(f) PROVE RevertStep
  BY <1>4, OthersRevert DEF Finalize
<1>5. ASSUME NEW deposits \in BOOLEAN, NEW outcomes, SystemCallBlockEnd(deposits, outcomes)
      PROVE  RevertStep
  BY <1>5, OthersRevert DEF SystemCallBlockEnd
<1>6. CASE Done \/ UNCHANGED vars
  BY <1>6, OthersRevert DEF Done, vars
<1> QED
  BY <1>1, <1>2, <1>3, <1>4, <1>5, <1>6 DEF Next

(* Replaying what record_diff() of bal.cpp has listed up to an index gives  *)
(* the accounts as apply_block() had them after that index, for every index.*)
THEOREM BalIsComplete == Spec => []BalReplays
<1>1. Init => BlockHyp
  BY InitHyp
<1>2. BlockHyp /\ [Next]_vars => BlockHyp'
  BY HypStep
<1>3. BlockHyp => BalReplays
  <2>1. CASE Rev >= AMSTERDAM
    BY <2>1, ReplaysHold DEF BlockHyp
  <2>2. CASE ~(Rev >= AMSTERDAM)
    BY <2>2 DEF BalReplays
  <2> QED
    BY <2>1, <2>2
<1> QED
  BY <1>1, <1>2, <1>3, PTL DEF Spec

(* record() of bal.cpp keeps no change that is none, also when two diffs of *)
(* the last index undo each other, and the indices of a field increase.     *)
THEOREM BalIsMinimal == Spec => []BalMinimal
<1>1. Init => BlockHyp
  BY InitHyp
<1>2. BlockHyp /\ [Next]_vars => BlockHyp'
  BY HypStep
<1>3. BlockHyp => BalMinimal
  BY MinimalOfHyp
<1> QED
  BY <1>1, <1>2, <1>3, PTL DEF Spec

(* Rewards, withdrawals and fees account for all ether that apply_block()   *)
(* makes or burns, when deleted accounts keep their balances.               *)
THEOREM SupplyIsAccounted ==
    ASSUME Rev >= AMSTERDAM
    PROVE  Spec => []SupplyAccounted
<1>1. Init => BlockInv
  BY InitBlock
<1>2. BlockInv /\ [Next]_vars => BlockInv'
  BY BlockStep
<1>3. BlockInv => SupplyAccounted
  BY SupplyHolds
<1> QED
  BY <1>1, <1>2, <1>3, PTL DEF Spec

(* transition() takes back every authorization when the gas does not        *)
(* suffice for the call, in any order and number of the authorities.        *)
THEOREM AuthorizationsAreReverted == Spec => AuthorizationsReverted
<1>1. Init => BlockHyp
  BY InitHyp
<1>2. BlockHyp /\ [Next]_vars => BlockHyp'
  BY HypStep
<1>3. BlockHyp /\ [Next]_vars => [RevertStep]_vars
  BY RevertsStep
<1>4. Spec => [][RevertStep]_vars
  BY <1>1, <1>2, <1>3, PTL DEF Spec
<1> QED
  BY <1>4 DEF AuthorizationsReverted, RevertStep
=============================================================================
