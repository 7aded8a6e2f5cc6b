------------------------------- MODULE LRUMap -------------------------------
(* What a Least Recently Used cache promises: a map of at most Capacity keys, *)
(* in which a new key evicts the one used longest ago.                         *)
EXTENDS Integers, Sequences, SequencesExt

CONSTANTS Keys, Values, Capacity, None

VARIABLES
    recency,  \* the cached keys, the least recently used first
    value,    \* the value of every cached key
    result    \* what the last operation returned

vars == <<recency, value, result>>

Init == recency = <<>> /\ value = <<>> /\ result = None

Cached == DOMAIN value

(* The key becomes the most recently used one.                                 *)
Used(k) == Append(RemoveFirst(recency, k), k)

Get(k) ==
    \/ /\ k \in Cached
       /\ result' = value[k]
       /\ recency' = Used(k)
       /\ UNCHANGED value
    \/ /\ k \notin Cached
       /\ result' = None
       /\ UNCHANGED <<recency, value>>

(* Only a key that is not cached yet, in a full cache, evicts another one.     *)
Evicting(k) == k \notin Cached /\ Len(recency) = Capacity

Put(k, v) ==
    LET evicted == IF Evicting(k) THEN {Head(recency)} ELSE {}
    IN  /\ value' = [x \in (Cached \ evicted) \union {k} |-> IF x = k THEN v ELSE value[x]]
        /\ recency' = IF Evicting(k) THEN Append(Tail(recency), k) ELSE Used(k)
        /\ result' = None

Clear == recency' = <<>> /\ value' = <<>> /\ result' = None

Next ==
    \/ \E k \in Keys : Get(k)
    \/ \E k \in Keys, v \in Values : Put(k, v)
    \/ Clear

Spec == Init /\ [][Next]_vars
=============================================================================
