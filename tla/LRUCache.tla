------------------------------ MODULE LRUCache ------------------------------
(* The LRU cache of lib/evmone/lru_cache.hpp: a hash map from keys to the      *)
(* entries of a list that is kept in the order of use. An entry does not hold  *)
(* its key but a reference to the key of its map node, and a full cache reuses *)
(* the node of the evicted key by swapping keys in it. Nodes and entries are   *)
(* modelled by their identities; they are never freed but by clear().          *)
EXTENDS Integers, FiniteSets, Sequences, SequencesExt

CONSTANTS Keys, Values, Capacity, None

ASSUME CapacityAssumption == Capacity \in Nat \ {0}
ASSUME NoneAssumption == None \notin Values

VARIABLES
    map,       \* the nodes in map_: identity -> [key, iter], iter a list entry
    entries,   \* the entries of lru_list_: identity -> [key, value], key a map node
    lru_list,  \* the order of the entries, the least recently used first
    result     \* what the last operation returned

vars == <<map, entries, lru_list, result>>

Ids == 1..Capacity

Init ==
    /\ map = <<>>
    /\ entries = <<>>
    /\ lru_list = <<>>
    /\ result = None

Size == Cardinality(DOMAIN map)

(* map_.find(): the nodes with the key.                                        *)
Find(k) == {n \in DOMAIN map : map[n].key = k}

MoveToBack(list, e) == Append(RemoveFirst(list, e), e)

(* get() that does not count as a use.                                         *)
BugGet(k) ==
    \/ \E n \in Find(k) :
         /\ result' = entries[map[n].iter].value
         /\ UNCHANGED <<map, entries, lru_list>>
    \/ /\ Find(k) = {}
       /\ result' = None
       /\ UNCHANGED <<map, entries, lru_list>>

Get(k) ==
    \/ \E n \in Find(k) :
         /\ lru_list' = MoveToBack(lru_list, map[n].iter)
         /\ result' = entries[map[n].iter].value
         /\ UNCHANGED <<map, entries>>
    \/ /\ Find(k) = {}
       /\ result' = None
       /\ UNCHANGED <<map, entries, lru_list>>

(* The new value goes to the entry, which becomes the most recently used one.  *)
Update(e, v) ==
    /\ entries' = [entries EXCEPT ![e].value = v]
    /\ lru_list' = MoveToBack(lru_list, e)

(* The node that extract() takes out of the map: the one with the key that the *)
(* front entry refers to.                                                      *)
Extracted(n) == n \in Find(map[entries[Head(lru_list)].key].key)

(* The result of the insertion not checked: a key could be in two nodes.       *)
BugPutEvicting(k, v) ==
    \E n \in DOMAIN map :
        /\ Extracted(n)
        /\ map' = [map EXCEPT ![n].key = k]
        /\ Update(Head(lru_list), v)

(* A full cache: the extracted node is given the new key and put back.         *)
PutEvicting(k, v) ==
    \E n \in DOMAIN map :
        /\ Extracted(n)
        /\ Find(k) \ {n} = {}
        /\ map' = [map EXCEPT ![n].key = k]
        /\ Update(Head(lru_list), v)

(* A full cache that has the key already: insert() refuses the node, which     *)
(* gets its old key back and returns to the map.                               *)
PutRollingBack(k, v) ==
    \E n \in DOMAIN map, m \in Find(k) :
        /\ Extracted(n)
        /\ m # n
        /\ UNCHANGED map
        /\ Update(map[m].iter, v)

PutUpdating(k, v) ==
    \E n \in Find(k) :
        /\ UNCHANGED map
        /\ Update(map[n].iter, v)

PutInserting(k, v) ==
    LET new == Size + 1
    IN  /\ Find(k) = {}
        /\ map' = [n \in DOMAIN map \union {new} |->
                     IF n = new THEN [key |-> k, iter |-> new] ELSE map[n]]
        /\ entries' = [e \in DOMAIN entries \union {new} |->
                         IF e = new THEN [key |-> new, value |-> v] ELSE entries[e]]
        /\ lru_list' = Append(lru_list, new)

Put(k, v) ==
    /\ \/ Size = Capacity /\ (PutEvicting(k, v) \/ PutRollingBack(k, v))
       \/ Size # Capacity /\ (PutUpdating(k, v) \/ PutInserting(k, v))
    /\ result' = None

Clear ==
    /\ map' = <<>>
    /\ entries' = <<>>
    /\ lru_list' = <<>>
    /\ result' = None

Next ==
    \/ \E k \in Keys : Get(k)
    \/ \E k \in Keys, v \in Values : Put(k, v)
    \/ Clear

Spec == Init /\ [][Next]_vars

-----------------------------------------------------------------------------
(* The two structures stay linked: every node in the map points to the list    *)
(* entry that refers back to it, and the list orders exactly these entries,    *)
(* never more than the capacity.                                               *)
(* No two nodes have the same key, also after an eviction swapped keys.  The   *)
(* eviction of lru_cache.hpp finds its victim's node through these links.      *)
Linked ==
    /\ \A n \in DOMAIN map : map[n].iter \in DOMAIN entries /\ entries[map[n].iter].key = n
    /\ \A e \in DOMAIN entries : entries[e].key \in DOMAIN map /\ map[entries[e].key].iter = e
    /\ ToSet(lru_list) = DOMAIN entries
    /\ IsInjective(lru_list) /\ Len(lru_list) <= Capacity
    /\ \A n, m \in DOMAIN map : map[n].key = map[m].key => n = m

(* The keys in the order of use, and their values.                             *)
KeyOf(e) == map[entries[e].key].key
Recency == [i \in 1..Len(lru_list) |-> KeyOf(lru_list[i])]
CachedValues ==
    [k \in {map[n].key : n \in DOMAIN map} |->
        entries[map[CHOOSE n \in DOMAIN map : map[n].key = k].iter].value]

Abstract == INSTANCE LRUMap WITH recency <- Recency, value <- CachedValues

(* The cache is an LRU map: hits return the last value put for the key, and a  *)
(* put evicts exactly the least recently used key, only when the cache is full *)
(* and the key is new.                                                         *)
ImplementsLRUMap == Abstract!Spec
=============================================================================
