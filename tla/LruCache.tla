------------------------------ MODULE LruCache -------------------------------
(***************************************************************************)
(* The shared LRU cache of utils/lru.rs: a vector of shards, each a hash    *)
(* map into a doubly linked list of heap nodes under a mutex.  A call holds *)
(* the mutex from start to end and is one step.  What get and get_or_insert *)
(* return is a reference into a node, which the caller keeps after the      *)
(* mutex is released.  Nothing stops a put or remove of its key meanwhile:  *)
(* Database::execute gives up the metadata lock before the executor runs.   *)
(***************************************************************************)
EXTENDS Integers, FiniteSets

CONSTANTS
    CacheKey, Value,
    Shard,      \* shards (shared_vec)
    ShardOf,    \* the shard of a key, by its hash
    Cap,        \* entries of one shard
    Node,       \* addresses of nodes
    MaxRefs,    \* bound: references callers hold at a time
    None

VARIABLES
    lru,    \* lru[s]: the LruCache of a shard
    refs,   \* references callers hold whose nodes are not freed
    ret     \* what the last call returned

cacheVars == <<lru, refs, ret>>

(* A shard: head and tail of its list, the links of its nodes, what each    *)
(* allocated node holds, and the hash map.                                  *)
EmptyShard ==
    [head |-> None, tail |-> None,
     prev |-> [n \in Node |-> None], next |-> [n \in Node |-> None],
     entry |-> [n \in Node |-> None],
     inner |-> [k \in CacheKey |-> None]]

CacheInit ==
    /\ lru = [s \in Shard |-> EmptyShard]
    /\ refs = {}
    /\ ret = None

-----------------------------------------------------------------------------
(* The list.                                                                *)

Detach(L, n) ==
    LET p == L.prev[n]
        x == L.next[n]
    IN  [L EXCEPT !.head = IF p = None THEN x ELSE @,
                  !.tail = IF x = None THEN p ELSE @,
                  !.next = [m \in Node |-> IF m = n THEN None
                                           ELSE IF m = p THEN x ELSE L.next[m]],
                  !.prev = [m \in Node |-> IF m = n THEN None
                                           ELSE IF m = x THEN p ELSE L.prev[m]]]

Attach(L, n) ==
    LET h == L.head
    IN  [L EXCEPT !.head = n,
                  !.tail = IF h = None THEN n ELSE @,
                  !.next = [L.next EXCEPT ![n] = h],
                  !.prev = [m \in Node |-> IF m = n THEN None
                                           ELSE IF m = h THEN n ELSE L.prev[m]]]

Keys(L) == {k \in CacheKey : L.inner[k] # None}

Unmap(L, k) == [L EXCEPT !.inner[k] = None]

(* Mutant of Expulsion: the evicted node is freed, as put and remove do.    *)
ExpulsionFrees(L) ==
    IF L.tail # None /\ Cardinality(Keys(L)) >= Cap
    THEN [Unmap(Detach(L, L.tail), L.entry[L.tail][1]) EXCEPT !.entry[L.tail] = None]
    ELSE L

(* The last node makes room.  It is not freed: callers may refer to it.     *)
Expulsion(L) ==
    IF L.tail # None /\ Cardinality(Keys(L)) >= Cap
    THEN Unmap(Detach(L, L.tail), L.entry[L.tail][1])
    ELSE L

(* The list without the entry of k, whose node Box::from_raw frees.         *)
Delete(L, k) ==
    LET n == L.inner[k]
    IN  IF n = None THEN L
        ELSE [Detach(Unmap(L, k), n) EXCEPT !.entry[n] = None]

(* A new node n for k at the head, after eviction if need be.               *)
Insert(L, n, k, v) ==
    LET E == Expulsion(L)
    IN  [Attach([E EXCEPT !.entry[n] = <<k, v>>], n) EXCEPT !.inner[k] = n]

(* Mutant of Touch: a hit does not count as use.                            *)
TouchNot(L, n) == L

(* A hit moves the node to the head.                                        *)
Touch(L, n) == Attach(Detach(L, n), n)

ValueOf(L, k) == IF L.inner[k] = None THEN None ELSE L.entry[L.inner[k]][2]

(* The nodes a shard's hash map points to.                                  *)
Linked(L) == {L.inner[k] : k \in Keys(L)}

(* Box::new gives a free node; no property depends on which.                *)
Free(s) == {n \in Node : lru[s].entry[n] = None}
New(s) == CHOOSE n \in Free(s) : TRUE

(* An evicted node leaks.  The model has it free again as soon as no live   *)
(* reference is left that could tell.                                       *)
Reclaim(s, L, held) ==
    [L EXCEPT !.entry = [n \in Node |->
        IF n \in Linked(L) \/ \E r \in held : r.shard = s /\ r.node = n
        THEN L.entry[n] ELSE None]]

-----------------------------------------------------------------------------
(* The caller keeps the reference it got, or does not.                      *)
Hand(s, n, e) ==
    \/ UNCHANGED refs
    \/ /\ Cardinality(refs) < MaxRefs
       /\ refs' = refs \cup {[shard |-> s, node |-> n, entry |-> e]}

(* The node of k is freed: references to it are left dangling, and are not  *)
(* followed any further.                                                    *)
Dangle(s, k) == refs' = {r \in refs : ~(r.shard = s /\ r.node = lru[s].inner[k])}

get(k) ==
    LET s == ShardOf[k]
        n == lru[s].inner[k]
    IN  \/ /\ n # None
           /\ lru' = [lru EXCEPT ![s] = Touch(@, n)]
           /\ ret' = ValueOf(lru[s], k)
           /\ Hand(s, n, lru[s].entry[n])
        \/ /\ n = None
           /\ ret' = None
           /\ UNCHANGED <<lru, refs>>

put(k, v) ==
    LET s == ShardOf[k]
    IN  /\ Free(s) # {}
        /\ lru' = [lru EXCEPT ![s] = Reclaim(s, Insert(Delete(@, k), New(s), k, v), refs)]
        /\ ret' = ValueOf(lru[s], k)
        /\ Dangle(s, k)

remove(k) ==
    LET s == ShardOf[k]
    IN  /\ lru' = [lru EXCEPT ![s] = Delete(@, k)]
        /\ ret' = ValueOf(lru[s], k)
        /\ Dangle(s, k)

(* The value comes from a closure that runs under the mutex and may fail.   *)
get_or_insert(k, v) ==
    LET s == ShardOf[k]
        m == lru[s].inner[k]
    IN  \/ /\ m # None
           /\ lru' = [lru EXCEPT ![s] = Touch(@, m)]
           /\ ret' = ValueOf(lru[s], k)
           /\ Hand(s, m, lru[s].entry[m])
        \/ /\ m = None /\ Free(s) # {}
           /\ lru' = [lru EXCEPT ![s] = Reclaim(s, Insert(@, New(s), k, v), refs)]
           /\ Hand(s, New(s), <<k, v>>)
           /\ ret' = v
        \/ /\ m = None
           /\ ret' = "error"
           /\ UNCHANGED <<lru, refs>>

(* A caller is done with a reference.                                       *)
Release(r) ==
    /\ refs' = refs \ {r}
    /\ lru' = [lru EXCEPT ![r.shard] = Reclaim(r.shard, @, refs')]
    /\ UNCHANGED ret

CacheNext ==
    \/ \E k \in CacheKey :
        \/ get(k)
        \/ remove(k)
        \/ \E v \in Value : put(k, v)
        \/ \E v \in Value : get_or_insert(k, v)
    \/ \E r \in refs : Release(r)

CacheSpec == CacheInit /\ [][CacheNext]_cacheVars

-----------------------------------------------------------------------------
Reference == [shard : Shard, node : Node, entry : CacheKey \X Value]

ShardType ==
    [head : Node \cup {None}, tail : Node \cup {None},
     prev : [Node -> Node \cup {None}], next : [Node -> Node \cup {None}],
     entry : [Node -> (CacheKey \X Value) \cup {None}],
     inner : [CacheKey -> Node \cup {None}]]

CacheTypeOK ==
    /\ lru \in [Shard -> ShardType]
    /\ refs \subseteq Reference

(* The hash map points every key at a node that holds the key.              *)
MapOK(L) == \A k \in Keys(L) : L.entry[L.inner[k]] # None /\ L.entry[L.inner[k]][1] = k

(* A reference that get or get_or_insert returned reads what it read first, *)
(* whatever is evicted to make room and whatever nodes are allocated, until *)
(* put or remove is called for its own key.                                 *)
EvictionKeepsReferences ==
    \A r \in refs : lru[r.shard].entry[r.node] = r.entry
=============================================================================
