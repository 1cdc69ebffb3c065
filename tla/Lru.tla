--------------------------------- MODULE Lru ---------------------------------
(***************************************************************************)
(* What a shared LRU cache promises: every shard is a sequence of entries,  *)
(* the last used one first, with one entry per key and at most Cap entries; *)
(* the entry used longest ago makes room for a new key.                     *)
(***************************************************************************)
EXTENDS Integers, Sequences

CONSTANTS Key, Value, Shard, ShardOf, Cap, None

VARIABLES
    order,  \* order[s]: the entries <<key, value>> of shard s
    ret     \* what the last call returned

vars == <<order, ret>>

Init ==
    /\ order = [s \in Shard |-> <<>>]
    /\ ret = None

Without(s, k) == SelectSeq(order[s], LAMBDA e : e[1] # k)
Held(s, k) == {i \in DOMAIN order[s] : order[s][i][1] = k}
Found(s, k) == IF Held(s, k) = {} THEN None ELSE order[s][CHOOSE i \in Held(s, k) : TRUE][2]

Room(entries) == IF Len(entries) >= Cap THEN SubSeq(entries, 1, Len(entries) - 1) ELSE entries

Get(k) ==
    LET s == ShardOf[k]
        v == Found(s, k)
    IN  /\ ret' = v
        /\ order' = [order EXCEPT ![s] = IF v = None THEN @ ELSE <<<<k, v>>>> \o Without(s, k)]

Put(k, v) ==
    LET s == ShardOf[k]
    IN  /\ ret' = Found(s, k)
        /\ order' = [order EXCEPT ![s] = <<<<k, v>>>> \o Room(Without(s, k))]

Remove(k) ==
    LET s == ShardOf[k]
    IN  /\ ret' = Found(s, k)
        /\ order' = [order EXCEPT ![s] = Without(s, k)]

(* Get, or else put the value that is at hand, or fail to have one.         *)
GetOrInsert(k, v) ==
    LET s == ShardOf[k]
    IN  \/ Found(s, k) # None /\ Get(k)
        \/ /\ Found(s, k) = None
           /\ ret' = v
           /\ order' = [order EXCEPT ![s] = <<<<k, v>>>> \o Room(@)]
        \/ /\ Found(s, k) = None
           /\ ret' = "error"
           /\ UNCHANGED order

Next ==
    \E k \in Key :
        \/ Get(k) \/ Remove(k)
        \/ \E v \in Value : Put(k, v) \/ GetOrInsert(k, v)

Spec == Init /\ [][Next]_vars
=============================================================================
