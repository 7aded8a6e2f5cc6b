--------------------------- MODULE LRUCacheProofs ---------------------------
(* The LRU cache, for all keys, values and capacities: its map and its list    *)
(* stay linked, and every operation is one of the abstract LRU map.            *)
EXTENDS LRUCache, SequenceTheorems, FiniteSetTheorems, TLAPS

-----------------------------------------------------------------------------
(* Sequences. *)

\* Sequence t is s with its element at position p moved to the back.
MovedToBack(t, s, p) ==
    /\ Len(t) = Len(s)
    /\ \A i \in 1..Len(s) :
         t[i] = IF i = Len(s) THEN s[p] ELSE IF i < p THEN s[i] ELSE s[i + 1]

(* Taking an element out of a sequence without duplicates and appending it is  *)
(* moving it to the back, as splice() does.                                    *)
LEMMA MoveFacts ==
    ASSUME NEW S, NEW s \in Seq(S), IsInjective(s), NEW p \in 1..Len(s)
    PROVE  /\ Append(RemoveFirst(s, s[p]), s[p]) \in Seq(S)
           /\ MovedToBack(Append(RemoveFirst(s, s[p]), s[p]), s, p)
<1> DEFINE front == SubSeq(s, 1, p - 1)
           back == SubSeq(s, p + 1, Len(s))
           rest == front \o back
<1>1. Len(s) \in Nat /\ DOMAIN s = 1..Len(s) /\ \A i \in 1..Len(s) : s[i] \in S
  BY LenProperties, ElementOfSeq
<1>n. Len(s) \in Nat /\ p \in Nat /\ 1 <= p /\ p <= Len(s)
  BY <1>1
<1>2. RemoveFirst(s, s[p]) = rest
  <2>1. {i \in 1..Len(s) : s[i] = s[p]} = {p}
    BY <1>1 DEF IsInjective
  <2>2. Min({p}) = p
    BY DEF Min
  <2>3. SelectInSeq(s, LAMBDA v : v = s[p]) = p
    BY <2>1, <2>2 DEF SelectInSeq
  <2> QED
    BY <2>3 DEF RemoveFirst, RemoveAt
<1>3. /\ front \in Seq(S) /\ Len(front) = p - 1
      /\ \A i \in 1..(p - 1) : front[i] = s[i]
  <2>1. \A i \in 1..(p - 1) : s[i] \in S
    BY <1>1
  <2>2. 1 \in Int /\ p - 1 \in Int
    OBVIOUS
  <2>3. /\ SubSeq(s, 1, p - 1) \in Seq(S)
        /\ Len(SubSeq(s, 1, p - 1)) = IF 1 <= p - 1 THEN (p - 1) - 1 + 1 ELSE 0
        /\ \A i \in 1..((p - 1) - 1 + 1) : SubSeq(s, 1, p - 1)[i] = s[1 + i - 1]
    BY <2>1, <2>2, SubSeqProperties
  <2> QED
    BY <2>3
<1>4. /\ back \in Seq(S) /\ Len(back) = Len(s) - p
      /\ \A i \in 1..(Len(s) - p) : back[i] = s[p + i]
  <2>1. \A i \in (p + 1)..Len(s) : s[i] \in S
    BY <1>1
  <2>2. p + 1 \in Int /\ Len(s) \in Int
    BY <1>1
  <2>3. /\ back \in Seq(S)
        /\ Len(back) = IF p + 1 <= Len(s) THEN Len(s) - (p + 1) + 1 ELSE 0
        /\ \A i \in 1..(Len(s) - (p + 1) + 1) : back[i] = s[p + 1 + i - 1]
    BY <2>1, <2>2, SubSeqProperties
  <2>l. Len(back) = IF p + 1 <= Len(s) THEN Len(s) - (p + 1) + 1 ELSE 0
    BY <2>3
  <2> HIDE DEF front, back, rest
  <2>4. Len(back) = Len(s) - p
    BY <1>n, <2>l
  <2>5. ASSUME NEW i \in 1..(Len(s) - p)
        PROVE  back[i] = s[p + i]
    <3>1. i \in 1..(Len(s) - (p + 1) + 1) /\ p + 1 + i - 1 = p + i
      BY <1>1
    <3> QED
      BY <2>3, <3>1
  <2> QED
    BY <2>3, <2>4, <2>5
<1>5. /\ rest \in Seq(S) /\ Len(rest) = Len(s) - 1
      /\ \A i \in 1..(Len(s) - 1) : rest[i] = IF i < p THEN s[i] ELSE s[i + 1]
  <2>1. /\ rest \in Seq(S) /\ Len(rest) = Len(front) + Len(back)
        /\ \A i \in 1..(Len(front) + Len(back)) :
             rest[i] = IF i <= Len(front) THEN front[i] ELSE back[i - Len(front)]
    BY <1>3, <1>4, ConcatProperties
  <2> HIDE DEF front, back, rest
  <2>2. Len(rest) = Len(s) - 1
    BY <1>1, <1>3, <1>4, <2>1
  <2>3. ASSUME NEW i \in 1..(Len(s) - 1)
        PROVE  rest[i] = IF i < p THEN s[i] ELSE s[i + 1]
    <3>1. rest[i] = IF i <= p - 1 THEN front[i] ELSE back[i - (p - 1)]
      BY <1>1, <1>3, <1>4, <2>1
    <3>2. CASE i < p
      BY <1>1, <1>3, <3>1, <3>2
    <3>3. CASE ~(i < p)
      <4>1. i - (p - 1) \in 1..(Len(s) - p) /\ p + (i - (p - 1)) = i + 1
        BY <1>1, <3>3
      <4> QED
        BY <1>4, <3>1, <3>3, <4>1
    <3> QED
      BY <3>2, <3>3
  <2> QED
    BY <2>1, <2>2, <2>3
<1>6. s[p] \in S
  BY <1>1
<1> HIDE DEF rest
<1>7. /\ Append(rest, s[p]) \in Seq(S) /\ Len(Append(rest, s[p])) = Len(rest) + 1
      /\ \A i \in 1..Len(rest) : Append(rest, s[p])[i] = rest[i]
      /\ Append(rest, s[p])[Len(rest) + 1] = s[p]
  BY <1>5, <1>6, AppendProperties
<1>8. MovedToBack(Append(rest, s[p]), s, p)
  <2> DEFINE t == Append(rest, s[p])
  <2> HIDE DEF t
  <2>1. Len(t) = Len(s) /\ t[Len(s)] = s[p]
    BY <1>1, <1>5, <1>7 DEF t
  <2>2. ASSUME NEW i \in 1..Len(s), i # Len(s)
        PROVE  t[i] = IF i < p THEN s[i] ELSE s[i + 1]
    <3>1. i \in 1..(Len(s) - 1) /\ i \in 1..Len(rest)
      <4>1. Len(rest) = Len(s) - 1
        BY <1>5
      <4> QED
        BY <1>n, <2>2, <4>1
    <3> QED
      BY <1>5, <1>7, <3>1, Zenon DEF t
  <2>3. MovedToBack(t, s, p)
    BY <2>1, <2>2 DEF MovedToBack
  <2> QED
    BY <2>3 DEF t
<1> QED
  BY <1>2, <1>7, <1>8

(* The moved sequence has the same elements, still without duplicates.         *)
LEMMA MovedFacts ==
    ASSUME NEW S, NEW s \in Seq(S), NEW t \in Seq(S), IsInjective(s),
           NEW p \in 1..Len(s), MovedToBack(t, s, p)
    PROVE  IsInjective(t) /\ ToSet(t) = ToSet(s)
<1>1. Len(s) \in Nat /\ DOMAIN s = 1..Len(s) /\ DOMAIN t = 1..Len(s)
  BY LenProperties DEF MovedToBack
<1>n. Len(s) \in Nat /\ p \in Nat /\ 1 <= p /\ p <= Len(s)
  BY <1>1
<1> DEFINE from(i) == IF i = Len(s) THEN p ELSE IF i < p THEN i ELSE i + 1
<1>2. \A i \in 1..Len(s) : from(i) \in 1..Len(s) /\ t[i] = s[from(i)]
  <2> SUFFICES ASSUME NEW i \in 1..Len(s)
               PROVE  from(i) \in 1..Len(s) /\ t[i] = s[from(i)]
    OBVIOUS
  <2>1. CASE i = Len(s)
    BY <1>1, <2>1 DEF MovedToBack
  <2>2. CASE i # Len(s)
    <3>1. from(i) = IF i < p THEN i ELSE i + 1
      BY <2>2
    <3>2. from(i) \in 1..Len(s)
      BY <1>n, <2>2, <3>1
    <3> HIDE DEF from
    <3>3. t[i] = IF i < p THEN s[i] ELSE s[i + 1]
      BY <2>2 DEF MovedToBack
    <3> QED
      BY <3>1, <3>2, <3>3
  <2> QED
    BY <2>1, <2>2
<1>3. IsInjective(t)
  <2> SUFFICES ASSUME NEW a \in 1..Len(s), NEW b \in 1..Len(s), t[a] = t[b]
               PROVE  a = b
    BY <1>1 DEF IsInjective
  <2>1. from(a) = from(b)
    BY <1>1, <1>2 DEF IsInjective
  <2> QED
    BY <1>n, <2>1
<1>4. \A j \in 1..Len(s) : \E i \in 1..Len(s) : from(i) = j
  <2> SUFFICES ASSUME NEW j \in 1..Len(s)
               PROVE  \E i \in 1..Len(s) : from(i) = j
    OBVIOUS
  <2>1. CASE j = p
    <3>1. Len(s) \in 1..Len(s) /\ from(Len(s)) = j
      BY <1>n, <2>1
    <3> QED
      BY <3>1
  <2>2. CASE j < p
    <3>1. from(j) = j
      BY <1>n, <2>2
    <3> QED
      BY <3>1
  <2>3. CASE j > p
    <3>1. j - 1 \in 1..Len(s) /\ from(j - 1) = j
      BY <1>n, <2>3
    <3> QED
      BY <3>1
  <2> QED
    BY <2>1, <2>2, <2>3
<1> HIDE DEF from
<1>5. ToSet(t) \subseteq ToSet(s)
  BY <1>1, <1>2, Zenon DEF ToSet
<1>6. ToSet(s) \subseteq ToSet(t)
  <2> SUFFICES ASSUME NEW j \in 1..Len(s)
               PROVE  \E i \in 1..Len(s) : t[i] = s[j]
    BY <1>1, Zenon DEF ToSet
  <2>1. PICK i \in 1..Len(s) : from(i) = j
    BY <1>4
  <2> QED
    BY <1>2, <2>1
<1> QED
  BY <1>3, <1>5, <1>6

(* There is only one way to move an element to the back.                       *)
LEMMA MovedIsUnique ==
    ASSUME NEW S, NEW s \in Seq(S), NEW t \in Seq(S), NEW u \in Seq(S), NEW p \in 1..Len(s),
           MovedToBack(t, s, p), MovedToBack(u, s, p)
    PROVE  t = u
<1>1. Len(t) = Len(u) /\ \A i \in 1..Len(t) : t[i] = u[i]
  BY DEF MovedToBack
<1> QED
  BY <1>1, SeqEqual

-----------------------------------------------------------------------------
(* The inductive invariant. *)

Nodes == [key : Keys, iter : Ids]
Entries == [key : Ids, value : Values]

(* Nodes and entries are as many as the list is long.                          *)
TypeOK ==
    /\ lru_list \in Seq(Ids)
    /\ map \in [1..Len(lru_list) -> Nodes]
    /\ entries \in [1..Len(lru_list) -> Entries]
    /\ result \in Values \union {None}

IndInv == TypeOK /\ Linked

LEMMA TypeFacts ==
    ASSUME IndInv
    PROVE  /\ Len(lru_list) \in Nat /\ DOMAIN lru_list = 1..Len(lru_list)
           /\ DOMAIN map = 1..Len(lru_list) /\ DOMAIN entries = 1..Len(lru_list)
           /\ Size = Len(lru_list)
           /\ \A n \in DOMAIN map : map[n] \in Nodes
           /\ \A e \in DOMAIN entries : entries[e] \in Entries
<1>1. Len(lru_list) \in Nat /\ DOMAIN lru_list = 1..Len(lru_list)
  BY LenProperties DEF IndInv, TypeOK
<1>2. DOMAIN map = 1..Len(lru_list) /\ DOMAIN entries = 1..Len(lru_list)
  BY DEF IndInv, TypeOK
<1>3. Cardinality(1..Len(lru_list)) = Len(lru_list)
  <2>1. Cardinality(1..Len(lru_list)) = IF 1 > Len(lru_list) THEN 0 ELSE Len(lru_list) - 1 + 1
    BY <1>1, FS_Interval
  <2> QED
    BY <1>1, <2>1
<1> QED
  BY <1>1, <1>2, <1>3 DEF IndInv, TypeOK, Size

(* The list orders exactly the entries.                                        *)
LEMMA ListFacts ==
    ASSUME IndInv
    PROVE  /\ \A i \in 1..Len(lru_list) : lru_list[i] \in 1..Len(lru_list)
           /\ \A e \in 1..Len(lru_list) : \E i \in 1..Len(lru_list) : lru_list[i] = e
           /\ \A i, j \in 1..Len(lru_list) : lru_list[i] = lru_list[j] => i = j
<1>1. DOMAIN lru_list = 1..Len(lru_list) /\ DOMAIN entries = 1..Len(lru_list)
  BY TypeFacts
<1>2. {lru_list[i] : i \in 1..Len(lru_list)} = 1..Len(lru_list)
  BY <1>1 DEF IndInv, Linked, ToSet
<1> QED
  BY <1>1, <1>2 DEF IndInv, Linked, IsInjective

(* Using an entry moves it within a list that stays a list of the entries.     *)
LEMMA UseFacts ==
    ASSUME IndInv, NEW e \in DOMAIN entries, NEW list, list = MoveToBack(lru_list, e)
    PROVE  /\ list \in Seq(Ids) /\ Len(list) = Len(lru_list)
           /\ IsInjective(list) /\ ToSet(list) = ToSet(lru_list)
           /\ \E p \in 1..Len(lru_list) : lru_list[p] = e /\ MovedToBack(list, lru_list, p)
<1>1. PICK p \in 1..Len(lru_list) : lru_list[p] = e
  BY TypeFacts DEF IndInv, Linked, ToSet
<1>2. lru_list \in Seq(Ids) /\ IsInjective(lru_list)
  BY DEF IndInv, TypeOK, Linked
<1>3. list \in Seq(Ids) /\ MovedToBack(list, lru_list, p)
  BY <1>1, <1>2, MoveFacts DEF MoveToBack
<1>4. IsInjective(list) /\ ToSet(list) = ToSet(lru_list)
  BY <1>2, <1>3, MovedFacts
<1> QED
  BY <1>1, <1>3, <1>4 DEF MovedToBack

(* An entry gets a new value, and nodes may get other, still distinct keys.    *)
LEMMA UpdateKeeps ==
    ASSUME IndInv, NEW e \in DOMAIN entries, NEW v \in Values, Update(e, v),
           map' \in [1..Len(lru_list) -> Nodes], result' \in Values \union {None},
           \A n \in DOMAIN map : map'[n].iter = map[n].iter,
           \A n, m \in DOMAIN map : map'[n].key = map'[m].key => n = m
    PROVE  IndInv'
<1>1. /\ lru_list' \in Seq(Ids) /\ Len(lru_list') = Len(lru_list)
      /\ IsInjective(lru_list') /\ ToSet(lru_list') = ToSet(lru_list)
  BY UseFacts DEF Update
<1>2. /\ entries' \in [1..Len(lru_list) -> Entries]
      /\ \A x \in 1..Len(lru_list) : entries'[x].key = entries[x].key
  BY DEF Update, IndInv, TypeOK, Entries
<1>3. TypeOK'
  BY <1>1, <1>2 DEF TypeOK
<1>4. DOMAIN map' = DOMAIN map /\ DOMAIN entries' = DOMAIN entries
  BY <1>2, TypeFacts
<1>5. \A n \in DOMAIN map : map[n].iter \in DOMAIN entries /\ entries'[map[n].iter].key = n
  BY <1>2, TypeFacts DEF Linked, IndInv
<1>6. \A x \in DOMAIN entries : entries'[x].key \in DOMAIN map /\ map'[entries'[x].key].iter = x
  BY <1>2, TypeFacts DEF Linked, IndInv
<1>7. ToSet(lru_list') = DOMAIN entries' /\ IsInjective(lru_list') /\ Len(lru_list') <= Capacity
  BY <1>1, <1>4 DEF Linked, IndInv
<1>8. Linked'
  <2>1. \A n \in DOMAIN map' :
          map'[n].iter \in DOMAIN entries' /\ entries'[map'[n].iter].key = n
    BY <1>4, <1>5
  <2>2. \A x \in DOMAIN entries' :
          entries'[x].key \in DOMAIN map' /\ map'[entries'[x].key].iter = x
    BY <1>4, <1>6
  <2>3. \A n, m \in DOMAIN map' : map'[n].key = map'[m].key => n = m
    BY <1>4
  <2> QED
    BY <1>7, <2>1, <2>2, <2>3 DEF Linked
<1> QED
  BY <1>3, <1>8 DEF IndInv

(* The extracted node is that of the least recently used entry.                *)
LEMMA ExtractedFacts ==
    ASSUME IndInv, Size = Capacity, NEW n \in DOMAIN map, Extracted(n)
    PROVE  /\ lru_list # <<>> /\ Head(lru_list) = lru_list[1]
           /\ Head(lru_list) \in DOMAIN entries
           /\ n = entries[Head(lru_list)].key /\ map[n].iter = Head(lru_list)
<1>1. Len(lru_list) \in Nat \ {0}
  BY TypeFacts, CapacityAssumption
<1>2. lru_list # <<>> /\ Head(lru_list) = lru_list[1]
  BY <1>1 DEF IndInv, TypeOK
<1>3. lru_list[1] \in DOMAIN entries
  <2>1. 1 \in DOMAIN lru_list
    BY <1>1, TypeFacts
  <2>2. lru_list[1] \in ToSet(lru_list)
    BY <2>1, Zenon DEF ToSet
  <2> QED
    BY <2>2 DEF IndInv, Linked
<1>4. n = entries[Head(lru_list)].key
  BY <1>2, <1>3 DEF Extracted, Find, IndInv, Linked
<1> QED
  BY <1>2, <1>3, <1>4 DEF IndInv, Linked

LEMMA PutEvictingKeeps ==
    ASSUME IndInv, Size = Capacity, NEW k \in Keys, NEW v \in Values,
           PutEvicting(k, v), result' = None
    PROVE  IndInv'
<1>1. PICK n \in DOMAIN map :
        /\ Extracted(n) /\ Find(k) \ {n} = {}
        /\ map' = [map EXCEPT ![n].key = k]
        /\ Update(Head(lru_list), v)
  BY DEF PutEvicting
<1>2. /\ map' \in [1..Len(lru_list) -> Nodes]
      /\ \A m \in DOMAIN map : map'[m].iter = map[m].iter
      /\ \A m \in DOMAIN map : map'[m].key = IF m = n THEN k ELSE map[m].key
  BY <1>1 DEF IndInv, TypeOK, Nodes
<1>3. \A m \in DOMAIN map : map[m].key = k => m = n
  BY <1>1 DEF Find
<1>4. \A m, o \in DOMAIN map : map'[m].key = map'[o].key => m = o
  BY <1>2, <1>3 DEF IndInv, Linked
<1>5. Head(lru_list) \in DOMAIN entries
  BY <1>1, ExtractedFacts
<1> QED
  BY <1>1, <1>2, <1>4, <1>5, UpdateKeeps

(* An update of an entry found by its key leaves the nodes as they are.        *)
LEMMA UpdateFoundKeeps ==
    ASSUME IndInv, NEW k \in Keys, NEW v \in Values, NEW n \in Find(k),
           UNCHANGED map, Update(map[n].iter, v), result' = None
    PROVE  IndInv'
<1>1. n \in DOMAIN map /\ map[n].iter \in DOMAIN entries
  BY DEF Find, IndInv, Linked
<1>2. /\ map' \in [1..Len(lru_list) -> Nodes]
      /\ \A m, o \in DOMAIN map : map[m].key = map[o].key => m = o
  BY DEF IndInv, TypeOK, Linked
<1> QED
  BY <1>1, <1>2, UpdateKeeps

LEMMA PutInsertingKeeps ==
    ASSUME IndInv, Size # Capacity, NEW k \in Keys, NEW v \in Values,
           PutInserting(k, v), result' = None
    PROVE  IndInv'
<1> DEFINE N == Len(lru_list)
           new == N + 1
<1>1. /\ N \in Nat /\ DOMAIN map = 1..N /\ DOMAIN entries = 1..N /\ Size = N
      /\ DOMAIN lru_list = 1..N
  BY TypeFacts
<1>2. new \in 1..Capacity /\ new \notin 1..N /\ (1..N) \union {new} = 1..new
  BY <1>1, CapacityAssumption DEF IndInv, Linked
<1>3. /\ lru_list' = Append(lru_list, new)
      /\ map' = [n \in 1..new |-> IF n = new THEN [key |-> k, iter |-> new] ELSE map[n]]
      /\ entries' = [e \in 1..new |-> IF e = new THEN [key |-> new, value |-> v] ELSE entries[e]]
      /\ \A n \in 1..N : map[n].key # k
  BY <1>1, <1>2 DEF PutInserting, Find
<1>4. /\ lru_list' \in Seq(Ids) /\ Len(lru_list') = new
      /\ \A i \in 1..N : lru_list'[i] = lru_list[i]
      /\ lru_list'[new] = new
  BY <1>2, <1>3, AppendProperties DEF IndInv, TypeOK, Ids
<1>5. /\ \A n \in 1..N : map'[n] = map[n] /\ entries'[n] = entries[n]
      /\ map'[new] = [key |-> k, iter |-> new] /\ entries'[new] = [key |-> new, value |-> v]
      /\ DOMAIN map' = 1..new /\ DOMAIN entries' = 1..new
  BY <1>1, <1>2, <1>3
<1>6. \A n \in 1..new : n \in 1..N \/ n = new
  BY <1>2
<1> HIDE DEF N, new
<1>7. TypeOK'
  <2>1. /\ [key |-> k, iter |-> new] \in Nodes /\ [key |-> new, value |-> v] \in Entries
        /\ \A n \in 1..N : map[n] \in Nodes /\ entries[n] \in Entries
    BY <1>1, <1>2, TypeFacts DEF Nodes, Entries, Ids
  <2>2. map' \in [1..new -> Nodes] /\ entries' \in [1..new -> Entries]
    BY <1>2, <1>3, <2>1
  <2> QED
    BY <1>4, <2>2 DEF TypeOK
<1>8. \A n \in 1..new : map'[n].iter \in 1..new /\ entries'[map'[n].iter].key = n
  <2> SUFFICES ASSUME NEW n \in 1..new
               PROVE  map'[n].iter \in 1..new /\ entries'[map'[n].iter].key = n
    OBVIOUS
  <2>1. CASE n \in 1..N
    BY <1>1, <1>2, <1>5, <2>1 DEF IndInv, Linked
  <2>2. CASE n = new
    BY <1>2, <1>5, <2>2
  <2> QED
    BY <1>6, <2>1, <2>2
<1>9. \A e \in 1..new : entries'[e].key \in 1..new /\ map'[entries'[e].key].iter = e
  <2> SUFFICES ASSUME NEW e \in 1..new
               PROVE  entries'[e].key \in 1..new /\ map'[entries'[e].key].iter = e
    OBVIOUS
  <2>1. CASE e \in 1..N
    BY <1>1, <1>2, <1>5, <2>1 DEF IndInv, Linked
  <2>2. CASE e = new
    BY <1>2, <1>5, <2>2
  <2> QED
    BY <1>6, <2>1, <2>2
<1>10. ToSet(lru_list') = 1..new
  <2>1. DOMAIN lru_list' = 1..new
    BY <1>4, LenProperties
  <2>2. \A i \in 1..N : lru_list[i] \in 1..N
    BY ListFacts DEF N
  <2>3. \A e \in 1..N : \E i \in 1..N : lru_list[i] = e
    BY ListFacts DEF N
  <2>4. \A i \in 1..new : lru_list'[i] \in 1..new
    BY <1>2, <1>4, <1>6, <2>2
  <2>5. \A e \in 1..new : \E i \in 1..new : lru_list'[i] = e
    BY <1>2, <1>4, <1>6, <2>3
  <2> QED
    BY <2>1, <2>4, <2>5, Zenon DEF ToSet
<1>11. IsInjective(lru_list')
  <2>1. DOMAIN lru_list' = 1..new
    BY <1>4, LenProperties
  <2>2. \A i \in 1..N : lru_list[i] \in 1..N
    BY ListFacts DEF N
  <2> QED
    BY <1>1, <1>2, <1>4, <1>6, <2>1, <2>2 DEF IsInjective, IndInv, Linked
<1>12. \A n, m \in 1..new : map'[n].key = map'[m].key => n = m
  BY <1>1, <1>3, <1>5, <1>6 DEF IndInv, Linked
<1>13. Linked'
  BY <1>2, <1>4, <1>5, <1>8, <1>9, <1>10, <1>11, <1>12 DEF Linked
<1> QED
  BY <1>7, <1>13 DEF IndInv

LEMMA GetKeeps ==
    ASSUME IndInv, NEW k \in Keys, Get(k)
    PROVE  IndInv'
<1>1. ASSUME NEW n \in Find(k), lru_list' = MoveToBack(lru_list, map[n].iter),
             result' = entries[map[n].iter].value, UNCHANGED <<map, entries>>
      PROVE  IndInv'
  <2>1. map[n].iter \in DOMAIN entries
    BY DEF Find, IndInv, Linked
  <2>2. /\ lru_list' \in Seq(Ids) /\ Len(lru_list') = Len(lru_list)
        /\ IsInjective(lru_list') /\ ToSet(lru_list') = ToSet(lru_list)
    BY <1>1, <2>1, UseFacts
  <2>3. entries[map[n].iter].value \in Values
    BY <2>1, TypeFacts DEF Entries
  <2>4. TypeOK'
    BY <1>1, <2>2, <2>3 DEF IndInv, TypeOK
  <2>5. Linked'
    BY <1>1, <2>2 DEF IndInv, Linked
  <2> QED
    BY <2>4, <2>5 DEF IndInv
<1>2. ASSUME result' = None, UNCHANGED <<map, entries, lru_list>>
      PROVE  IndInv'
  BY <1>2 DEF IndInv, TypeOK, Linked
<1> QED
  BY <1>1, <1>2 DEF Get

LEMMA PutKeeps ==
    ASSUME IndInv, NEW k \in Keys, NEW v \in Values, Put(k, v)
    PROVE  IndInv'
<1>1. CASE Size = Capacity /\ PutEvicting(k, v)
  BY <1>1, PutEvictingKeeps DEF Put
<1>2. CASE Size = Capacity /\ PutRollingBack(k, v)
  BY <1>2, UpdateFoundKeeps DEF Put, PutRollingBack
<1>3. CASE Size # Capacity /\ PutUpdating(k, v)
  BY <1>3, UpdateFoundKeeps DEF Put, PutUpdating
<1>4. CASE Size # Capacity /\ PutInserting(k, v)
  BY <1>4, PutInsertingKeeps DEF Put
<1> QED
  BY <1>1, <1>2, <1>3, <1>4 DEF Put

LEMMA Empty ==
    ASSUME map = <<>>, entries = <<>>, lru_list = <<>>, result = None
    PROVE  IndInv
<1>1. TypeOK
  BY DEF TypeOK
<1>2. Linked
  BY CapacityAssumption DEF Linked, ToSet, IsInjective
<1> QED
  BY <1>1, <1>2 DEF IndInv

(* What ties the map to the list holds in every reachable state.               *)
LEMMA Invariance == Spec => []IndInv
<1>1. Init => IndInv
  BY Empty DEF Init
<1>2. ASSUME IndInv, [Next]_vars
      PROVE  IndInv'
  <2>1. ASSUME NEW k \in Keys, Get(k)
        PROVE  IndInv'
    BY <1>2, <2>1, GetKeeps
  <2>2. ASSUME NEW k \in Keys, NEW v \in Values, Put(k, v)
        PROVE  IndInv'
    BY <1>2, <2>2, PutKeeps
  <2>3. CASE Clear
    <3>1. TypeOK'
      BY <2>3 DEF Clear, TypeOK
    <3>2. Linked'
      BY <2>3, CapacityAssumption DEF Clear, Linked, ToSet, IsInjective
    <3> QED
      BY <3>1, <3>2 DEF IndInv
  <2>4. CASE UNCHANGED vars
    BY <1>2, <2>4 DEF vars, IndInv, TypeOK, Linked
  <2> QED
    BY <1>2, <2>1, <2>2, <2>3, <2>4 DEF Next
<1> QED
  BY <1>1, <1>2, PTL DEF Spec

(* The map and the list stay linked, also when keys are swapped between nodes. *)
THEOREM LinkedAlways == Spec => []Linked
<1>1. IndInv => Linked
  BY DEF IndInv
<1> QED
  BY <1>1, Invariance, PTL

-----------------------------------------------------------------------------
(* The refinement. *)

(* What Recency and CachedValues are in a linked cache.                        *)
AbstractionOK ==
    /\ Recency \in Seq(Keys) /\ Len(Recency) = Len(lru_list) /\ IsInjective(Recency)
    /\ \A i \in 1..Len(lru_list) : Recency[i] = KeyOf(lru_list[i])
    /\ DOMAIN CachedValues = {map[n].key : n \in DOMAIN map}
    /\ \A n \in DOMAIN map : CachedValues[map[n].key] = entries[map[n].iter].value
    /\ CachedValues = [k \in DOMAIN CachedValues |-> CachedValues[k]]

LEMMA AbstractionFacts == IndInv => AbstractionOK
<1> SUFFICES ASSUME IndInv
             PROVE  AbstractionOK
  OBVIOUS
<1> DEFINE N == Len(lru_list)
<1>1. N \in Nat /\ DOMAIN map = 1..N /\ DOMAIN entries = 1..N
  BY TypeFacts
<1>2. \A e \in 1..N : KeyOf(e) \in Keys
  BY <1>1, TypeFacts DEF KeyOf, IndInv, Linked, Nodes
<1>3. \A i \in 1..N : KeyOf(lru_list[i]) \in Keys
  BY <1>2, ListFacts
<1>4. Recency = [i \in 1..N |-> KeyOf(lru_list[i])]
  BY DEF Recency
<1>5. Recency \in Seq(Keys) /\ Len(Recency) = N /\ DOMAIN Recency = 1..N
  BY <1>1, <1>3, <1>4
<1>6. \A e, x \in 1..N : KeyOf(e) = KeyOf(x) => e = x
  BY <1>1 DEF KeyOf, IndInv, Linked
<1>7. IsInjective(Recency)
  <2> SUFFICES ASSUME NEW a \in 1..N, NEW b \in 1..N, Recency[a] = Recency[b]
               PROVE  a = b
    BY <1>5 DEF IsInjective
  <2>1. KeyOf(lru_list[a]) = KeyOf(lru_list[b])
    BY <1>4
  <2>2. lru_list[a] = lru_list[b]
    BY <1>6, <2>1, ListFacts
  <2> QED
    BY <2>2, ListFacts
<1>8. \A n \in DOMAIN map : CachedValues[map[n].key] = entries[map[n].iter].value
  <2> SUFFICES ASSUME NEW n \in DOMAIN map
               PROVE  CachedValues[map[n].key] = entries[map[n].iter].value
    OBVIOUS
  <2> DEFINE m == CHOOSE x \in DOMAIN map : map[x].key = map[n].key
  <2>1. m \in DOMAIN map /\ map[m].key = map[n].key
    OBVIOUS
  <2>2. m = n
    BY <2>1 DEF IndInv, Linked
  <2>3. CachedValues[map[n].key] = entries[map[m].iter].value
    BY DEF CachedValues
  <2> QED
    BY <2>2, <2>3
<1>9. /\ DOMAIN CachedValues = {map[n].key : n \in DOMAIN map}
      /\ CachedValues = [k \in DOMAIN CachedValues |-> CachedValues[k]]
  BY DEF CachedValues
<1> QED
  BY <1>4, <1>5, <1>7, <1>8, <1>9 DEF AbstractionOK

(* Moving an entry to the back of the list is using its key.                   *)
LEMMA UsedFacts ==
    ASSUME IndInv, AbstractionOK, AbstractionOK', NEW e \in DOMAIN entries,
           lru_list' = MoveToBack(lru_list, e),
           \A x \in DOMAIN entries : map'[entries'[x].key].key = KeyOf(x)
    PROVE  Recency' = Append(RemoveFirst(Recency, KeyOf(e)), KeyOf(e))
<1> DEFINE N == Len(lru_list)
           used == Append(RemoveFirst(Recency, KeyOf(e)), KeyOf(e))
<1>1. N \in Nat /\ DOMAIN entries = 1..N
  BY TypeFacts
<1>2. PICK p \in 1..N : lru_list[p] = e /\ MovedToBack(lru_list', lru_list, p)
  BY UseFacts
<1>3. Recency \in Seq(Keys) /\ IsInjective(Recency) /\ Len(Recency) = N /\ Recency[p] = KeyOf(e)
  BY <1>2 DEF AbstractionOK
<1>4. used \in Seq(Keys) /\ MovedToBack(used, Recency, p)
  BY <1>3, MoveFacts
<1>5. Recency' \in Seq(Keys) /\ Len(Recency') = N
  BY <1>2 DEF AbstractionOK, MovedToBack
<1>6. \A i \in 1..N : Recency'[i] = KeyOf(lru_list'[i])
  <2> SUFFICES ASSUME NEW i \in 1..N
               PROVE  Recency'[i] = KeyOf(lru_list'[i])
    OBVIOUS
  <2>1. Recency'[i] = map'[entries'[lru_list'[i]].key].key
    BY <1>2 DEF AbstractionOK, MovedToBack, KeyOf
  <2>2. lru_list'[i] \in 1..N
    <3>1. i # N => i + 1 \in 1..N
      BY <1>1
    <3>2. lru_list'[i] = IF i = N THEN lru_list[p]
                         ELSE IF i < p THEN lru_list[i] ELSE lru_list[i + 1]
      BY <1>2 DEF MovedToBack
    <3> QED
      BY <3>1, <3>2, ListFacts
  <2> QED
    BY <1>1, <2>1, <2>2
<1>7. MovedToBack(Recency', Recency, p)
  <2> SUFFICES ASSUME NEW i \in 1..N
               PROVE  Recency'[i] = IF i = N THEN Recency[p]
                                    ELSE IF i < p THEN Recency[i] ELSE Recency[i + 1]
    BY <1>3, <1>5 DEF MovedToBack
  <2>1. lru_list'[i] = IF i = N THEN lru_list[p]
                       ELSE IF i < p THEN lru_list[i] ELSE lru_list[i + 1]
    BY <1>2 DEF MovedToBack
  <2>2. i # N => i + 1 \in 1..N
    BY <1>1
  <2>3. \A j \in 1..N : Recency[j] = KeyOf(lru_list[j])
    BY DEF AbstractionOK
  <2> QED
    BY <1>6, <2>1, <2>2, <2>3
<1> QED
  <2>1. p \in 1..Len(Recency)
    BY <1>3
  <2> HIDE DEF used
  <2>2. Recency' = used
    BY <1>3, <1>4, <1>5, <1>7, <2>1, MovedIsUnique
  <2> QED
    BY <2>2 DEF used

(* The helper that the abstract map uses is the same.                          *)
LEMMA SameRemoveFirst ==
    ASSUME NEW s, NEW x
    PROVE  Abstract!RemoveFirst(s, x) = RemoveFirst(s, x)
BY DEF RemoveFirst, RemoveAt, SelectInSeq, Min,
       Abstract!RemoveFirst, Abstract!RemoveAt, Abstract!SelectInSeq, Abstract!Min

LEMMA GetRefines ==
    ASSUME IndInv, AbstractionOK, AbstractionOK', NEW k \in Keys, Get(k)
    PROVE  Abstract!Get(k)
<1>1. ASSUME NEW n \in Find(k), lru_list' = MoveToBack(lru_list, map[n].iter),
             result' = entries[map[n].iter].value, UNCHANGED <<map, entries>>
      PROVE  Abstract!Get(k)
  <2>1. n \in DOMAIN map /\ map[n].key = k
    BY DEF Find
  <2>2. map[n].iter \in DOMAIN entries /\ KeyOf(map[n].iter) = k
    BY <2>1 DEF IndInv, Linked, KeyOf
  <2>3. Recency' = Append(RemoveFirst(Recency, k), k)
    BY <1>1, <2>2, UsedFacts DEF KeyOf
  <2>4. k \in DOMAIN CachedValues /\ result' = CachedValues[k]
    BY <1>1, <2>1 DEF AbstractionOK
  <2>5. CachedValues' = CachedValues
    BY <1>1 DEF CachedValues
  <2> QED
    BY <2>3, <2>4, <2>5, SameRemoveFirst DEF Abstract!Get, Abstract!Cached, Abstract!Used
<1>2. ASSUME Find(k) = {}, result' = None, UNCHANGED <<map, entries, lru_list>>
      PROVE  Abstract!Get(k)
  <2>1. k \notin DOMAIN CachedValues
    BY <1>2 DEF AbstractionOK, Find
  <2>2. CachedValues' = CachedValues /\ Recency' = Recency
    BY <1>2 DEF CachedValues, Recency, KeyOf
  <2> QED
    BY <1>2, <2>1, <2>2 DEF Abstract!Get, Abstract!Cached
<1> QED
  BY <1>1, <1>2 DEF Get

(* A put for a key that is cached replaces its value and uses the key.         *)
LEMMA PutCachedRefines ==
    ASSUME IndInv, AbstractionOK, AbstractionOK', NEW k \in Keys, NEW v \in Values,
           NEW n \in Find(k), map' = map, Update(map[n].iter, v), result' = None
    PROVE  Abstract!Put(k, v)
<1> DEFINE e == map[n].iter
<1>1. n \in DOMAIN map /\ map[n].key = k
  BY DEF Find
<1>2. e \in DOMAIN entries /\ KeyOf(e) = k
  BY <1>1 DEF IndInv, Linked, KeyOf
<1>3. /\ DOMAIN entries' = DOMAIN entries /\ entries'[e].value = v
      /\ \A x \in DOMAIN entries : entries'[x].key = entries[x].key
      /\ \A x \in DOMAIN entries : x # e => entries'[x] = entries[x]
  BY <1>2, TypeFacts DEF Update, Entries
<1>4. Recency' = Append(RemoveFirst(Recency, k), k)
  BY <1>2, <1>3, UsedFacts DEF KeyOf, Update
<1>5. k \in DOMAIN CachedValues
  BY <1>1 DEF AbstractionOK
<1>6. DOMAIN CachedValues' = DOMAIN CachedValues
  BY DEF AbstractionOK
<1>7. \A x \in DOMAIN CachedValues : CachedValues'[x] = IF x = k THEN v ELSE CachedValues[x]
  <2> SUFFICES ASSUME NEW m \in DOMAIN map
               PROVE  CachedValues'[map[m].key] = IF map[m].key = k THEN v
                                                  ELSE CachedValues[map[m].key]
    BY DEF AbstractionOK
  <2>1. CachedValues'[map[m].key] = entries'[map[m].iter].value
    BY DEF AbstractionOK
  <2>2. CachedValues[map[m].key] = entries[map[m].iter].value
    BY DEF AbstractionOK
  <2>3. map[m].iter \in DOMAIN entries /\ (map[m].iter = e => m = n)
    BY <1>1 DEF IndInv, Linked
  <2>4. map[m].key = k => m = n
    BY <1>1 DEF IndInv, Linked
  <2> QED
    BY <1>1, <1>3, <2>1, <2>2, <2>3, <2>4
<1>8. CachedValues' = [x \in DOMAIN CachedValues |-> IF x = k THEN v ELSE CachedValues[x]]
  <2>1. CachedValues' = [x \in DOMAIN CachedValues' |-> CachedValues'[x]]
    BY DEF AbstractionOK
  <2> QED
    BY <1>6, <1>7, <2>1
<1>9. (DOMAIN CachedValues \ {}) \union {k} = DOMAIN CachedValues
  BY <1>5
<1> QED
  BY <1>4, <1>5, <1>8, <1>9, SameRemoveFirst
     DEF Abstract!Put, Abstract!Evicting, Abstract!Cached, Abstract!Used

(* A put for a new key in a full cache evicts the least recently used one.     *)
LEMMA PutEvictingRefines ==
    ASSUME IndInv, AbstractionOK, AbstractionOK', Size = Capacity,
           NEW k \in Keys, NEW v \in Values, PutEvicting(k, v), Find(k) = {}, result' = None
    PROVE  Abstract!Put(k, v)
<1> DEFINE N == Len(lru_list)
           e == Head(lru_list)
<1>1. PICK n \in DOMAIN map :
        /\ Extracted(n)
        /\ map' = [map EXCEPT ![n].key = k]
        /\ Update(e, v)
  BY DEF PutEvicting
<1>2. /\ N \in Nat \ {0} /\ N = Capacity /\ e = lru_list[1] /\ e \in DOMAIN entries
      /\ n = entries[e].key /\ map[n].iter = e
  BY <1>1, ExtractedFacts, TypeFacts, CapacityAssumption
<1>3. /\ DOMAIN map' = DOMAIN map /\ map'[n].key = k
      /\ \A m \in DOMAIN map : map'[m].iter = map[m].iter
      /\ \A m \in DOMAIN map : m # n => map'[m].key = map[m].key
  BY <1>1, TypeFacts DEF Nodes
<1>4. /\ DOMAIN entries' = DOMAIN entries /\ entries'[e].value = v
      /\ \A x \in DOMAIN entries : entries'[x].key = entries[x].key
      /\ \A x \in DOMAIN entries : x # e => entries'[x] = entries[x]
  BY <1>1, <1>2, TypeFacts DEF Update, Entries
<1>5. k \notin DOMAIN CachedValues
  BY DEF AbstractionOK, Find
<1>6. /\ Recency \in Seq(Keys) /\ Len(Recency) = N /\ Recency # <<>>
      /\ Head(Recency) = map[n].key
  BY <1>2 DEF AbstractionOK, KeyOf
<1>7. Recency' = Append(Tail(Recency), k)
  <2>1. PICK p \in 1..N : lru_list[p] = e /\ MovedToBack(lru_list', lru_list, p)
    BY <1>1, <1>2, UseFacts DEF Update
  <2>2. p = 1
    BY <1>2, <2>1, ListFacts
  <2>3. /\ Len(lru_list') = N /\ lru_list'[N] = e
        /\ \A i \in 1..N : i # N => lru_list'[i] = lru_list[i + 1]
    BY <1>2, <2>1, <2>2 DEF MovedToBack
  <2>4. Recency' \in Seq(Keys) /\ Len(Recency') = N
    BY <2>3 DEF AbstractionOK
  <2>5. \A i \in 1..N : Recency'[i] = map'[entries'[lru_list'[i]].key].key
    BY <2>3 DEF AbstractionOK, KeyOf
  <2>6. Recency'[N] = k
    BY <1>2, <1>3, <1>4, <2>3, <2>5
  <2>7. ASSUME NEW i \in 1..N, i # N
        PROVE  Recency'[i] = Recency[i + 1]
    <3>1. i + 1 \in 1..N /\ i + 1 # 1
      BY <1>2, <2>7
    <3>2. lru_list[i + 1] \in DOMAIN entries /\ lru_list[i + 1] # e
      <4>1. 1 \in 1..N /\ DOMAIN entries = 1..N
        BY <1>2, TypeFacts
      <4>2. lru_list[i + 1] \in 1..N /\ lru_list[i + 1] # lru_list[1]
        BY <3>1, <4>1, ListFacts
      <4> QED
        BY <1>2, <4>1, <4>2
    <3>3. entries[lru_list[i + 1]].key \in DOMAIN map /\ entries[lru_list[i + 1]].key # n
      BY <1>2, <3>2 DEF IndInv, Linked
    <3>4. Recency'[i] = map[entries[lru_list[i + 1]].key].key
      BY <1>3, <1>4, <2>3, <2>5, <2>7, <3>2, <3>3
    <3> QED
      BY <3>1, <3>4 DEF AbstractionOK, KeyOf
  <2> DEFINE evicted == Append(Tail(Recency), k)
  <2>8. /\ Tail(Recency) \in Seq(Keys) /\ Len(Tail(Recency)) = N - 1
        /\ \A i \in 1..(N - 1) : Tail(Recency)[i] = Recency[i + 1]
    BY <1>6, HeadTailProperties
  <2>9. /\ evicted \in Seq(Keys) /\ Len(evicted) = N /\ evicted[N] = k
        /\ \A i \in 1..(N - 1) : evicted[i] = Recency[i + 1]
    BY <1>2, <2>8, AppendProperties
  <2> HIDE DEF evicted
  <2>10. \A i \in 1..N : Recency'[i] = evicted[i]
    BY <1>2, <2>6, <2>7, <2>9
  <2>11. Recency' = evicted
    BY <2>4, <2>9, <2>10, SeqEqual
  <2> QED
    BY <2>11 DEF evicted
<1> DEFINE D == (DOMAIN CachedValues \ {Head(Recency)}) \union {k}
<1>8. DOMAIN CachedValues' = D
  <2>1. DOMAIN CachedValues' = {map'[m].key : m \in DOMAIN map}
    BY <1>3 DEF AbstractionOK
  <2>2. DOMAIN CachedValues = {map[m].key : m \in DOMAIN map}
    BY DEF AbstractionOK
  <2>3. \A m \in DOMAIN map : map[m].key = map[n].key => m = n
    BY DEF IndInv, Linked
  <2> QED
    BY <1>3, <1>5, <1>6, <2>1, <2>2, <2>3
<1> HIDE DEF D
<1>9. \A x \in D : CachedValues'[x] = IF x = k THEN v ELSE CachedValues[x]
  <2>d. D = {map'[m].key : m \in DOMAIN map}
    BY <1>3, <1>8 DEF AbstractionOK
  <2> SUFFICES ASSUME NEW m \in DOMAIN map
               PROVE  CachedValues'[map'[m].key] = IF map'[m].key = k THEN v
                                                   ELSE CachedValues[map'[m].key]
    BY <2>d
  <2>1. CachedValues'[map'[m].key] = entries'[map[m].iter].value
    BY <1>3 DEF AbstractionOK
  <2>2. CASE m = n
    BY <1>2, <1>3, <1>4, <2>1, <2>2
  <2>3. CASE m # n
    <3>1. map[m].iter \in DOMAIN entries /\ map[m].iter # e
      BY <1>2, <2>3 DEF IndInv, Linked
    <3>2. map'[m].key = map[m].key /\ map[m].key # k
      BY <1>3, <2>3 DEF Find
    <3> QED
      BY <1>4, <2>1, <3>1, <3>2 DEF AbstractionOK
  <2> QED
    BY <2>2, <2>3
<1>10. CachedValues' = [x \in D |-> IF x = k THEN v ELSE CachedValues[x]]
  <2>1. CachedValues' = [x \in DOMAIN CachedValues' |-> CachedValues'[x]]
    BY DEF AbstractionOK
  <2> QED
    BY <1>8, <1>9, <2>1
<1> QED
  BY <1>2, <1>5, <1>6, <1>7, <1>10 DEF D, Abstract!Put, Abstract!Evicting, Abstract!Cached

(* A put for a new key in a cache that is not full evicts nothing.             *)
LEMMA PutInsertingRefines ==
    ASSUME IndInv, AbstractionOK, AbstractionOK', Size # Capacity,
           NEW k \in Keys, NEW v \in Values, PutInserting(k, v), result' = None
    PROVE  Abstract!Put(k, v)
<1> DEFINE N == Len(lru_list)
           new == N + 1
<1>1. /\ N \in Nat /\ DOMAIN map = 1..N /\ DOMAIN entries = 1..N /\ Size = N
  BY TypeFacts
<1>2. new \in Nat /\ new \notin 1..N /\ (1..N) \union {new} = 1..new
  BY <1>1
<1>3. /\ lru_list' = Append(lru_list, new)
      /\ map' = [n \in 1..new |-> IF n = new THEN [key |-> k, iter |-> new] ELSE map[n]]
      /\ entries' = [e \in 1..new |-> IF e = new THEN [key |-> new, value |-> v] ELSE entries[e]]
      /\ \A n \in 1..N : map[n].key # k
  BY <1>1, <1>2 DEF PutInserting, Find
<1>4. /\ Len(lru_list') = new /\ lru_list'[new] = new
      /\ \A i \in 1..N : lru_list'[i] = lru_list[i]
  BY <1>3, LenProperties DEF IndInv, TypeOK
<1>5. /\ \A n \in 1..N : map'[n] = map[n] /\ entries'[n] = entries[n]
      /\ map'[new] = [key |-> k, iter |-> new] /\ entries'[new] = [key |-> new, value |-> v]
      /\ DOMAIN map' = 1..new
  BY <1>1, <1>2, <1>3
<1>6. \A n \in 1..new : n \in 1..N \/ n = new
  BY <1>2
<1>7. new \in 1..new /\ 1..N \subseteq 1..new
  BY <1>1, <1>2
<1> HIDE DEF N, new
<1>8. k \notin DOMAIN CachedValues /\ DOMAIN CachedValues = {map[n].key : n \in 1..N}
  BY <1>1, <1>3 DEF AbstractionOK
<1>9. /\ Recency \in Seq(Keys) /\ Len(Recency) = N /\ DOMAIN Recency = 1..N
      /\ \A i \in 1..N : Recency[i] \in DOMAIN CachedValues
  <2>1. Recency \in Seq(Keys) /\ Len(Recency) = N
    BY DEF AbstractionOK, N
  <2>2. \A i \in 1..N : Recency[i] = KeyOf(lru_list[i])
    BY DEF AbstractionOK, N
  <2>3. \A e \in 1..N : KeyOf(e) \in DOMAIN CachedValues
    BY <1>1, <1>8 DEF KeyOf, IndInv, Linked
  <2>4. \A i \in 1..N : lru_list[i] \in 1..N
    BY ListFacts DEF N
  <2> QED
    BY <2>1, <2>2, <2>3, <2>4, LenProperties
<1>10. Recency' = Append(Recency, k)
  <2>1. Recency' \in Seq(Keys) /\ Len(Recency') = new
    BY <1>4 DEF AbstractionOK
  <2>2. \A i \in 1..new : Recency'[i] = map'[entries'[lru_list'[i]].key].key
    BY <1>4 DEF AbstractionOK, KeyOf
  <2>3. Recency'[new] = k
    BY <1>4, <1>5, <1>7, <2>2
  <2>4. ASSUME NEW i \in 1..N
        PROVE  Recency'[i] = Recency[i]
    <3>1. lru_list[i] \in 1..N
      BY ListFacts DEF N
    <3>2. entries[lru_list[i]].key \in 1..N
      BY <1>1, <3>1 DEF IndInv, Linked
    <3>3. Recency'[i] = map[entries[lru_list[i]].key].key
      BY <1>4, <1>5, <1>7, <2>2, <3>1, <3>2
    <3> QED
      BY <3>3 DEF AbstractionOK, KeyOf, N
  <2> DEFINE longer == Append(Recency, k)
  <2>5. /\ longer \in Seq(Keys) /\ Len(longer) = new /\ longer[new] = k
        /\ \A i \in 1..N : longer[i] = Recency[i]
    BY <1>9, AppendProperties DEF new
  <2> HIDE DEF longer
  <2>6. \A i \in 1..new : Recency'[i] = longer[i]
    BY <1>6, <2>3, <2>4, <2>5
  <2>7. Recency' = longer
    BY <2>1, <2>5, <2>6, SeqEqual
  <2> QED
    BY <2>7 DEF longer
<1>11. RemoveFirst(Recency, k) = Recency
  BY <1>8, <1>9 DEF RemoveFirst
<1>12. DOMAIN CachedValues' = DOMAIN CachedValues \union {k}
  <2>1. DOMAIN CachedValues' = {map'[n].key : n \in 1..new}
    BY <1>5 DEF AbstractionOK
  <2> QED
    BY <1>5, <1>6, <1>7, <1>8, <2>1
<1>13. \A x \in DOMAIN CachedValues' : CachedValues'[x] = IF x = k THEN v ELSE CachedValues[x]
  <2>1. CachedValues'[k] = v
    <3>1. CachedValues'[map'[new].key] = entries'[map'[new].iter].value
      BY <1>5, <1>7 DEF AbstractionOK
    <3> QED
      BY <1>5, <3>1
  <2>2. ASSUME NEW n \in 1..N
        PROVE  CachedValues'[map[n].key] = CachedValues[map[n].key]
    <3>1. CachedValues'[map'[n].key] = entries'[map'[n].iter].value
      BY <1>5, <1>7 DEF AbstractionOK
    <3>2. map[n].iter \in 1..N
      BY <1>1 DEF IndInv, Linked
    <3>3. CachedValues[map[n].key] = entries[map[n].iter].value
      BY <1>1 DEF AbstractionOK
    <3>4. entries'[map[n].iter] = entries[map[n].iter] /\ map'[n] = map[n]
      BY <1>5, <3>2
    <3> QED
      BY <3>1, <3>3, <3>4
  <2> QED
    BY <1>8, <1>12, <2>1, <2>2
<1>14. CachedValues' = [x \in (DOMAIN CachedValues \ {}) \union {k} |->
                         IF x = k THEN v ELSE CachedValues[x]]
  <2>1. CachedValues' = [x \in DOMAIN CachedValues' |-> CachedValues'[x]]
    BY DEF AbstractionOK
  <2>2. (DOMAIN CachedValues \ {}) \union {k} = DOMAIN CachedValues'
    BY <1>12
  <2> QED
    BY <1>13, <2>1, <2>2
<1>15. ~Abstract!Evicting(k)
  BY <1>1, <1>9 DEF Abstract!Evicting
<1> QED
  BY <1>10, <1>11, <1>14, <1>15, SameRemoveFirst
     DEF Abstract!Put, Abstract!Cached, Abstract!Used

LEMMA PutRefines ==
    ASSUME IndInv, AbstractionOK, AbstractionOK', NEW k \in Keys, NEW v \in Values, Put(k, v)
    PROVE  Abstract!Put(k, v)
<1>1. ASSUME PutEvicting(k, v), Size = Capacity
      PROVE  Abstract!Put(k, v)
  <2>1. CASE Find(k) = {}
    BY <1>1, <2>1, PutEvictingRefines DEF Put
  <2>2. CASE Find(k) # {}
    <3>1. PICK n \in DOMAIN map :
            /\ Extracted(n) /\ Find(k) \ {n} = {}
            /\ map' = [map EXCEPT ![n].key = k]
            /\ Update(Head(lru_list), v)
      BY <1>1 DEF PutEvicting
    <3>2. n \in Find(k) /\ map[n].key = k
      BY <2>2, <3>1 DEF Find
    <3>3. map' = map
      BY <3>1, <3>2, TypeFacts DEF IndInv, TypeOK, Nodes
    <3>4. map[n].iter = Head(lru_list)
      BY <1>1, <3>1, ExtractedFacts
    <3> QED
      BY <3>1, <3>2, <3>3, <3>4, PutCachedRefines DEF Put
  <2> QED
    BY <2>1, <2>2
<1>2. CASE Size = Capacity /\ PutRollingBack(k, v)
  BY <1>2, PutCachedRefines DEF Put, PutRollingBack
<1>3. CASE Size # Capacity /\ PutUpdating(k, v)
  BY <1>3, PutCachedRefines DEF Put, PutUpdating
<1>4. CASE Size # Capacity /\ PutInserting(k, v)
  BY <1>4, PutInsertingRefines DEF Put
<1> QED
  BY <1>1, <1>2, <1>3, <1>4 DEF Put

(* The cache implements the abstract LRU map: a get returns the value that was *)
(* put last for the key, and a put evicts the least recently used key only if  *)
(* the cache is full and has not got the new one.                              *)
THEOREM Refinement == Spec => ImplementsLRUMap
<1>1. Init => Abstract!Init
  BY DEF Init, Abstract!Init, Recency, CachedValues
<1>2. ASSUME IndInv, AbstractionOK, AbstractionOK', [Next]_vars
      PROVE  [Abstract!Next]_(Abstract!vars)
  <2>1. ASSUME NEW k \in Keys, Get(k)
        PROVE  Abstract!Next
    BY <1>2, <2>1, GetRefines DEF Abstract!Next
  <2>2. ASSUME NEW k \in Keys, NEW v \in Values, Put(k, v)
        PROVE  Abstract!Next
    BY <1>2, <2>2, PutRefines DEF Abstract!Next
  <2>3. ASSUME Clear
        PROVE  Abstract!Clear
    BY <2>3 DEF Clear, Abstract!Clear, Recency, CachedValues
  <2>4. ASSUME UNCHANGED vars
        PROVE  UNCHANGED Abstract!vars
    BY <2>4 DEF vars, Abstract!vars, Recency, CachedValues, KeyOf
  <2> QED
    BY <1>2, <2>1, <2>2, <2>3, <2>4 DEF Next, Abstract!Next
<1> QED
  BY <1>1, <1>2, Invariance, AbstractionFacts, PTL DEF Spec, ImplementsLRUMap, Abstract!Spec
=============================================================================
