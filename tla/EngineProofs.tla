---------------------------- MODULE EngineProofs ----------------------------
(***************************************************************************)
(* Theorems about the shared caches and the statistics.  For caches of      *)
(* every size: references survive evictions; the invariant is that a        *)
(* shard's hash map leads every key to a node that holds the key.  For any  *)
(* keys, hashes and number of rows: the sketch never undercounts.           *)
(***************************************************************************)
EXTENDS LruCache, SketchBuild, WellFoundedInduction, TLAPS

(* A key has a shard, and None is neither a node nor an entry.              *)
CacheConstants ==
    /\ ShardOf \in [CacheKey -> Shard]
    /\ None \notin Node /\ None \notin CacheKey \X Value

-----------------------------------------------------------------------------
(* Detach and Attach move links only.                                       *)
LEMMA DetachKeeps ==
    ASSUME NEW L \in ShardType, NEW n \in Node
    PROVE  /\ Detach(L, n) \in ShardType
           /\ Detach(L, n).entry = L.entry /\ Detach(L, n).inner = L.inner
<1> DEFINE D == Detach(L, n)
           p == L.prev[n]
           x == L.next[n]
<1>1. p \in Node \cup {None} /\ x \in Node \cup {None}
    BY DEF ShardType
<1> HIDE DEF p, x
<1>2. D = [L EXCEPT !.head = IF p = None THEN x ELSE L.head,
                    !.tail = IF x = None THEN p ELSE L.tail,
                    !.next = [m \in Node |-> IF m = n THEN None ELSE IF m = p THEN x ELSE L.next[m]],
                    !.prev = [m \in Node |-> IF m = n THEN None ELSE IF m = x THEN p ELSE L.prev[m]]]
    BY DEF Detach, ShardType, p, x
<1> HIDE DEF D
<1>3. [m \in Node |-> IF m = n THEN None ELSE IF m = p THEN x ELSE L.next[m]] \in [Node -> Node \cup {None}]
    BY <1>1 DEF ShardType
<1>4. [m \in Node |-> IF m = n THEN None ELSE IF m = x THEN p ELSE L.prev[m]] \in [Node -> Node \cup {None}]
    BY <1>1 DEF ShardType
<1>5. D \in ShardType /\ D.entry = L.entry /\ D.inner = L.inner
    BY <1>1, <1>2, <1>3, <1>4 DEF ShardType
<1> QED
    BY <1>5 DEF D

LEMMA AttachKeeps ==
    ASSUME NEW L \in ShardType, NEW n \in Node
    PROVE  /\ Attach(L, n) \in ShardType
           /\ Attach(L, n).entry = L.entry /\ Attach(L, n).inner = L.inner
<1> DEFINE A == Attach(L, n)
           h == L.head
<1>1. A = [L EXCEPT !.head = n,
                    !.tail = IF h = None THEN n ELSE L.tail,
                    !.next = [L.next EXCEPT ![n] = h],
                    !.prev = [m \in Node |-> IF m = n THEN None ELSE IF m = h THEN n ELSE L.prev[m]]]
    BY DEF Attach, ShardType
<1> HIDE DEF A
<1>2. h \in Node \cup {None}
    BY DEF ShardType
<1> HIDE DEF h
<1>3. [m \in Node |-> IF m = n THEN None ELSE IF m = h THEN n ELSE L.prev[m]] \in [Node -> Node \cup {None}]
    BY <1>2 DEF ShardType
<1>4. A \in ShardType /\ A.entry = L.entry /\ A.inner = L.inner
    BY <1>1, <1>2, <1>3 DEF ShardType
<1> QED
    BY <1>4 DEF A

LEMMA TouchKeeps ==
    ASSUME NEW L \in ShardType, NEW n \in Node
    PROVE  /\ Touch(L, n) \in ShardType
           /\ Touch(L, n).entry = L.entry /\ Touch(L, n).inner = L.inner
    BY DetachKeeps, AttachKeeps DEF Touch

(* Eviction frees nothing and takes one key off the map.                    *)
LEMMA ExpulsionKeeps ==
    ASSUME NEW L \in ShardType, CacheConstants, MapOK(L)
    PROVE  LET E == Expulsion(L)
           IN  E \in ShardType /\ E.entry = L.entry /\ MapOK(E) /\ Keys(E) \subseteq Keys(L)
<1> DEFINE D == Detach(L, L.tail)
<1>1. CASE L.tail # None /\ Cardinality(Keys(L)) >= Cap
    <2>1. L.tail \in Node
        BY <1>1 DEF ShardType
    <2>2. D \in ShardType /\ D.entry = L.entry /\ D.inner = L.inner
        BY <2>1, DetachKeeps
    <2> DEFINE j == L.entry[L.tail][1]
    <2>3. Expulsion(L) = [D EXCEPT !.inner[j] = None]
        BY <1>1 DEF Expulsion, Unmap
    <2> HIDE DEF D, j
    <2> QED
        BY <2>2, <2>3, SMTT(20) DEF ShardType, MapOK, Keys
<1> QED
    BY <1>1 DEF Expulsion

(* Delete frees the node of k, which no other key leads to.                 *)
LEMMA DeleteKeeps ==
    ASSUME NEW L \in ShardType, NEW k \in CacheKey, CacheConstants, MapOK(L)
    PROVE  LET E == Delete(L, k)
           IN  /\ E \in ShardType /\ MapOK(E) /\ Keys(E) \subseteq Keys(L)
               /\ \A n \in Node : E.entry[n] = IF n = L.inner[k] THEN None ELSE L.entry[n]
<1> DEFINE n == L.inner[k]
           U == Unmap(L, k)
<1>1. CASE n = None
    BY <1>1 DEF Delete, CacheConstants
<1>2. CASE n # None
    <2>1. n \in Node
        BY <1>2 DEF ShardType
    <2>2. U \in ShardType /\ U.entry = L.entry /\ U.inner = [L.inner EXCEPT ![k] = None]
        BY DEF Unmap, ShardType
    <2>3. /\ Detach(U, n) \in ShardType
          /\ Detach(U, n).entry = L.entry /\ Detach(U, n).inner = U.inner
        BY <2>1, <2>2, DetachKeeps
    <2>4. Delete(L, k) = [Detach(U, n) EXCEPT !.entry[n] = None]
        BY <1>2 DEF Delete
    <2> HIDE DEF n, U
    <2>5. n = L.inner[k]
        BY DEF n
    <2> QED
        BY <2>1, <2>2, <2>3, <2>4, <2>5, SMTT(30) DEF ShardType, MapOK, Keys
<1> QED
    BY <1>1, <1>2

(* Insert fills a free node.                                                *)
LEMMA InsertKeeps ==
    ASSUME NEW L \in ShardType, NEW n \in Node, NEW k \in CacheKey, NEW v \in Value,
           CacheConstants, MapOK(L), L.entry[n] = None
    PROVE  LET E == Insert(L, n, k, v)
           IN  /\ E \in ShardType /\ MapOK(E) /\ Keys(E) \subseteq Keys(L) \cup {k}
               /\ E.entry = [L.entry EXCEPT ![n] = <<k, v>>] /\ E.inner[k] = n
<1> DEFINE X == Expulsion(L)
           F == [X EXCEPT !.entry[n] = <<k, v>>]
<1>1. X \in ShardType /\ X.entry = L.entry /\ MapOK(X) /\ Keys(X) \subseteq Keys(L)
    BY ExpulsionKeeps
<1> HIDE DEF X
<1>2. F \in ShardType /\ F.entry = [L.entry EXCEPT ![n] = <<k, v>>] /\ F.inner = X.inner
    BY <1>1 DEF ShardType
<1>3. /\ Attach(F, n) \in ShardType
      /\ Attach(F, n).entry = F.entry /\ Attach(F, n).inner = F.inner
    BY <1>2, AttachKeeps
<1>4. Insert(L, n, k, v) = [Attach(F, n) EXCEPT !.inner[k] = n]
    BY DEF Insert, X
<1> HIDE DEF F
<1> QED
    BY <1>1, <1>2, <1>3, <1>4, SMTT(30) DEF ShardType, MapOK, Keys, CacheConstants

(* Reclaim spares the nodes of the map and of the references.               *)
LEMMA ReclaimKeeps ==
    ASSUME NEW s \in Shard, NEW L \in ShardType, NEW held \in SUBSET Reference, MapOK(L)
    PROVE  /\ Reclaim(s, L, held) \in ShardType
           /\ MapOK(Reclaim(s, L, held)) /\ Keys(Reclaim(s, L, held)) = Keys(L)
           /\ \A n \in Linked(L) : n \in Node => Reclaim(s, L, held).entry[n] = L.entry[n]
           /\ \A r \in held : r.shard = s => Reclaim(s, L, held).entry[r.node] = L.entry[r.node]
    BY SMTT(30) DEF Reclaim, ShardType, MapOK, Keys, Linked, Reference

-----------------------------------------------------------------------------
CacheInv ==
    /\ CacheTypeOK
    /\ \A s \in Shard : MapOK(lru[s]) /\ \A k \in Keys(lru[s]) : ShardOf[k] = s
    /\ EvictionKeepsReferences

(* One shard changes to L; the references left, and the one that may be     *)
(* new, read in L what they read at first.                                  *)
LEMMA ShardStep ==
    ASSUME CacheConstants, CacheInv, NEW s \in Shard, NEW L \in ShardType,
           lru' = [lru EXCEPT ![s] = L], MapOK(L), \A k \in Keys(L) : ShardOf[k] = s,
           refs' \subseteq Reference,
           \A r \in refs' : r.shard = s => L.entry[r.node] = r.entry,
           \A r \in refs' : r.shard # s => r \in refs
    PROVE  CacheInv'
<1>1. lru' \in [Shard -> ShardType]
    BY DEF CacheInv, CacheTypeOK
<1>2. \A q \in Shard : lru'[q] = IF q = s THEN L ELSE lru[q]
    BY DEF CacheInv, CacheTypeOK
<1> USE DEF CacheInv
<1>3. CacheTypeOK'
    BY <1>1 DEF CacheTypeOK, Reference, ShardType
<1>4. \A q \in Shard : MapOK(lru'[q]) /\ \A k \in Keys(lru'[q]) : ShardOf[k] = q
    BY <1>2
<1>5. EvictionKeepsReferences'
    BY <1>2 DEF EvictionKeepsReferences, Reference
<1> QED
    BY <1>3, <1>4, <1>5 DEF MapOK, Keys

(* The node of a key in the map holds an entry.                             *)
LEMMA MappedEntry ==
    ASSUME CacheConstants, CacheInv, NEW k \in CacheKey, lru[ShardOf[k]].inner[k] # None
    PROVE  /\ lru[ShardOf[k]].inner[k] \in Node
           /\ lru[ShardOf[k]].entry[lru[ShardOf[k]].inner[k]] \in CacheKey \X Value
    BY DEF CacheConstants, CacheInv, CacheTypeOK, ShardType, MapOK, Keys

(* A hit of get or get_or_insert.                                           *)
LEMMA HitInv ==
    ASSUME CacheConstants, CacheInv, NEW k \in CacheKey,
           NEW s, s = ShardOf[k], NEW n, n = lru[s].inner[k], n # None,
           lru' = [lru EXCEPT ![s] = Touch(@, n)], Hand(s, n, lru[s].entry[n])
    PROVE  CacheInv'
<1> DEFINE L == Touch(lru[s], n)
<1>1. s \in Shard /\ lru[s] \in ShardType /\ MapOK(lru[s]) /\ \A j \in Keys(lru[s]) : ShardOf[j] = s
    BY DEF CacheConstants, CacheInv, CacheTypeOK
<1>2. n \in Node /\ lru[s].entry[n] \in CacheKey \X Value
    BY MappedEntry
<1>3. L \in ShardType /\ L.entry = lru[s].entry /\ L.inner = lru[s].inner
    BY <1>1, <1>2, TouchKeeps
<1>4. lru' = [lru EXCEPT ![s] = L]
    BY <1>1 DEF CacheInv, CacheTypeOK
<1> HIDE DEF L
<1>5. MapOK(L) /\ \A j \in Keys(L) : ShardOf[j] = s
    BY <1>1, <1>3 DEF MapOK, Keys
<1> DEFINE new == [shard |-> s, node |-> n, entry |-> lru[s].entry[n]]
<1>6. refs' = refs \/ refs' = refs \cup {new}
    BY DEF Hand
<1>7. new \in Reference /\ new.shard = s /\ L.entry[new.node] = new.entry
    BY <1>1, <1>2, <1>3 DEF Reference
<1> HIDE DEF new
<1>8. /\ refs' \subseteq Reference
      /\ \A r \in refs' : r.shard = s => L.entry[r.node] = r.entry
      /\ \A r \in refs' : r.shard # s => r \in refs
    BY <1>3, <1>6, <1>7 DEF CacheInv, CacheTypeOK, EvictionKeepsReferences
<1> QED
    BY <1>1, <1>3, <1>4, <1>5, <1>8, ShardStep

(* Box::new never gives a node that a reference reads.                      *)
LEMMA NewNode ==
    ASSUME CacheConstants, CacheInv, NEW s \in Shard, Free(s) # {}
    PROVE  /\ New(s) \in Node /\ lru[s].entry[New(s)] = None
           /\ \A r \in refs : r.shard = s => r.node # New(s)
<1>1. New(s) \in Free(s)
    BY DEF New
<1> QED
    BY <1>1 DEF Free, CacheConstants, CacheInv, CacheTypeOK, Reference, EvictionKeepsReferences

(* put.                                                                     *)
LEMMA PutInv ==
    ASSUME CacheConstants, CacheInv, NEW k \in CacheKey, NEW v \in Value, put(k, v)
    PROVE  CacheInv'
<1> DEFINE s == ShardOf[k]
           n == New(s)
           D == Delete(lru[s], k)
           I == Insert(D, n, k, v)
           L == Reclaim(s, I, refs)
<1>1. s \in Shard /\ lru[s] \in ShardType /\ MapOK(lru[s]) /\ \A j \in Keys(lru[s]) : ShardOf[j] = s
    BY DEF CacheConstants, CacheInv, CacheTypeOK
<1>2. /\ n \in Node /\ lru[s].entry[n] = None
      /\ \A r \in refs : r.shard = s => r.node # n
    BY <1>1, NewNode DEF put
<1>3. lru' = [lru EXCEPT ![s] = L]
    BY <1>1 DEF put, CacheInv, CacheTypeOK
<1>4. refs' = {r \in refs : ~(r.shard = s /\ r.node = lru[s].inner[k])}
    BY DEF put, Dangle
<1> HIDE DEF s, n
<1>5. /\ D \in ShardType /\ MapOK(D) /\ Keys(D) \subseteq Keys(lru[s])
      /\ \A m \in Node : D.entry[m] = IF m = lru[s].inner[k] THEN None ELSE lru[s].entry[m]
    BY <1>1, DeleteKeeps
<1> HIDE DEF D
<1>6. D.entry[n] = None
    BY <1>2, <1>5
<1>7. /\ I \in ShardType /\ MapOK(I) /\ Keys(I) \subseteq Keys(D) \cup {k}
      /\ I.entry = [D.entry EXCEPT ![n] = <<k, v>>]
    BY <1>2, <1>5, <1>6, InsertKeeps
<1> HIDE DEF I
<1>8. /\ L \in ShardType /\ MapOK(L) /\ Keys(L) = Keys(I)
      /\ \A r \in refs : r.shard = s => L.entry[r.node] = I.entry[r.node]
    <2>1. refs \in SUBSET Reference
        BY DEF CacheInv, CacheTypeOK
    <2>2. s \in Shard /\ I \in ShardType /\ MapOK(I)
        BY <1>1, <1>7
    <2>3. \A r \in refs : r.shard = s => Reclaim(s, I, refs).entry[r.node] = I.entry[r.node]
        BY <2>1, <2>2, ReclaimKeeps
    <2> QED
        BY <2>1, <2>2, <2>3, ReclaimKeeps
<1> HIDE DEF L
<1>9. \A j \in Keys(L) : ShardOf[j] = s
    BY <1>1, <1>5, <1>7, <1>8 DEF s
<1>10. \A r \in refs' : r.shard = s => L.entry[r.node] = r.entry
    <2> SUFFICES ASSUME NEW r \in refs', r.shard = s PROVE L.entry[r.node] = r.entry
        OBVIOUS
    <2>1. r \in refs /\ r.node \in Node /\ r.node # n /\ r.node # lru[s].inner[k] /\ lru[s].entry[r.node] = r.entry
        BY <1>2, <1>4 DEF CacheInv, CacheTypeOK, Reference, EvictionKeepsReferences
    <2>2. I.entry[r.node] = D.entry[r.node]
        BY <2>1, <1>5, <1>7 DEF ShardType
    <2> QED
        BY <2>1, <2>2, <1>5, <1>8
<1>11. refs' \subseteq Reference /\ refs' \subseteq refs
    BY <1>4 DEF CacheInv, CacheTypeOK
<1> QED
    BY <1>1, <1>3, <1>8, <1>9, <1>10, <1>11, ShardStep

(* remove.                                                                  *)
LEMMA RemoveInv ==
    ASSUME CacheConstants, CacheInv, NEW k \in CacheKey, remove(k)
    PROVE  CacheInv'
<1> DEFINE s == ShardOf[k]
           L == Delete(lru[s], k)
<1>1. s \in Shard /\ lru[s] \in ShardType /\ MapOK(lru[s]) /\ \A j \in Keys(lru[s]) : ShardOf[j] = s
    BY DEF CacheConstants, CacheInv, CacheTypeOK
<1>2. lru' = [lru EXCEPT ![s] = L]
    BY <1>1 DEF remove, CacheInv, CacheTypeOK
<1>3. refs' = {r \in refs : ~(r.shard = s /\ r.node = lru[s].inner[k])}
    BY DEF remove, Dangle
<1> HIDE DEF s
<1>4. /\ L \in ShardType /\ MapOK(L) /\ Keys(L) \subseteq Keys(lru[s])
      /\ \A m \in Node : L.entry[m] = IF m = lru[s].inner[k] THEN None ELSE lru[s].entry[m]
    BY <1>1, DeleteKeeps
<1> HIDE DEF L
<1>5. /\ refs' \subseteq Reference /\ refs' \subseteq refs
      /\ \A r \in refs' : r.shard = s => L.entry[r.node] = r.entry
    BY <1>3, <1>4 DEF CacheInv, CacheTypeOK, Reference, EvictionKeepsReferences
<1> QED
    BY <1>1, <1>2, <1>4, <1>5, ShardStep

(* A miss of get_or_insert whose closure has a value.                       *)
LEMMA MissInv ==
    ASSUME CacheConstants, CacheInv, NEW k \in CacheKey, NEW v \in Value,
           NEW s, s = ShardOf[k], Free(s) # {},
           lru' = [lru EXCEPT ![s] = Reclaim(s, Insert(@, New(s), k, v), refs)],
           Hand(s, New(s), <<k, v>>)
    PROVE  CacheInv'
<1> DEFINE n == New(s)
           I == Insert(lru[s], n, k, v)
           L == Reclaim(s, I, refs)
           new == [shard |-> s, node |-> n, entry |-> <<k, v>>]
<1>1. s \in Shard /\ lru[s] \in ShardType /\ MapOK(lru[s]) /\ \A j \in Keys(lru[s]) : ShardOf[j] = s
    BY DEF CacheConstants, CacheInv, CacheTypeOK
<1>2. /\ n \in Node /\ lru[s].entry[n] = None
      /\ \A r \in refs : r.shard = s => r.node # n
    BY <1>1, NewNode
<1>3. lru' = [lru EXCEPT ![s] = L]
    BY <1>1 DEF CacheInv, CacheTypeOK
<1>4. refs' = refs \/ refs' = refs \cup {new}
    BY DEF Hand
<1> HIDE DEF n
<1>5. /\ I \in ShardType /\ MapOK(I) /\ Keys(I) \subseteq Keys(lru[s]) \cup {k}
      /\ I.entry = [lru[s].entry EXCEPT ![n] = <<k, v>>] /\ I.inner[k] = n
    BY <1>1, <1>2, InsertKeeps
<1> HIDE DEF I
<1>6. n \in Linked(I)
    BY <1>2, <1>5 DEF Linked, Keys, CacheConstants
<1>7. /\ L \in ShardType /\ MapOK(L) /\ Keys(L) = Keys(I)
      /\ L.entry[n] = I.entry[n]
      /\ \A r \in refs : r.shard = s => L.entry[r.node] = I.entry[r.node]
    <2>1. refs \in SUBSET Reference
        BY DEF CacheInv, CacheTypeOK
    <2>2. s \in Shard /\ I \in ShardType /\ MapOK(I)
        BY <1>1, <1>5
    <2>3. \A r \in refs : r.shard = s => Reclaim(s, I, refs).entry[r.node] = I.entry[r.node]
        BY <2>1, <2>2, ReclaimKeeps
    <2> QED
        BY <1>2, <1>6, <2>1, <2>2, <2>3, ReclaimKeeps
<1> HIDE DEF L
<1>8. \A j \in Keys(L) : ShardOf[j] = s
    BY <1>1, <1>5, <1>7
<1>9. new \in Reference /\ new.shard = s /\ L.entry[new.node] = new.entry
    BY <1>1, <1>2, <1>5, <1>7 DEF Reference, ShardType
<1>10. \A r \in refs : r.shard = s => L.entry[r.node] = r.entry
    BY <1>1, <1>2, <1>5, <1>7 DEF CacheInv, CacheTypeOK, Reference, EvictionKeepsReferences, ShardType
<1> HIDE DEF new
<1>11. /\ refs' \subseteq Reference
       /\ \A r \in refs' : r.shard = s => L.entry[r.node] = r.entry
       /\ \A r \in refs' : r.shard # s => r \in refs
    BY <1>4, <1>9, <1>10 DEF CacheInv, CacheTypeOK
<1> QED
    BY <1>1, <1>3, <1>7, <1>8, <1>11, ShardStep

(* The end of a reference.                                                  *)
LEMMA ReleaseInv ==
    ASSUME CacheConstants, CacheInv, NEW r \in refs, Release(r)
    PROVE  CacheInv'
<1> DEFINE s == r.shard
           L == Reclaim(s, lru[s], refs')
<1>1. s \in Shard /\ lru[s] \in ShardType /\ MapOK(lru[s]) /\ \A j \in Keys(lru[s]) : ShardOf[j] = s
    BY DEF CacheInv, CacheTypeOK, Reference
<1>2. lru' = [lru EXCEPT ![s] = L] /\ refs' \subseteq refs
    BY <1>1 DEF Release, CacheInv, CacheTypeOK
<1> HIDE DEF s
<1>3. /\ L \in ShardType /\ MapOK(L) /\ Keys(L) = Keys(lru[s])
      /\ \A q \in refs' : q.shard = s => L.entry[q.node] = lru[s].entry[q.node]
    BY <1>1, <1>2, ReclaimKeeps DEF CacheInv, CacheTypeOK
<1> HIDE DEF L
<1>4. /\ refs' \subseteq Reference
      /\ \A q \in refs' : q.shard = s => L.entry[q.node] = q.entry
    BY <1>2, <1>3 DEF CacheInv, CacheTypeOK, Reference, EvictionKeepsReferences
<1> QED
    BY <1>1, <1>2, <1>3, <1>4, ShardStep

(* For any keys, values, shards, capacity and number of references held: a  *)
(* reference that get or get_or_insert returned (lru.rs) reads the entry it *)
(* was returned for, whatever is evicted or allocated, until put or remove  *)
(* is called for its own key.                                               *)
THEOREM EvictionAlways == ASSUME CacheConstants PROVE CacheSpec => []EvictionKeepsReferences
<1>1. CacheInit => CacheInv
    BY DEF CacheInit, EmptyShard, CacheConstants, CacheInv, CacheTypeOK, ShardType, MapOK, Keys, EvictionKeepsReferences
<1>2. CacheInv /\ [CacheNext]_cacheVars => CacheInv'
    <2> SUFFICES ASSUME CacheInv, [CacheNext]_cacheVars PROVE CacheInv'
        OBVIOUS
    <2>1. ASSUME NEW k \in CacheKey, get(k) PROVE CacheInv'
        <3>1. CASE lru[ShardOf[k]].inner[k] # None
            BY <2>1, <3>1, HitInv DEF get
        <3>2. CASE UNCHANGED <<lru, refs>>
            BY <3>2 DEF CacheInv, CacheTypeOK, EvictionKeepsReferences, MapOK, Keys
        <3> QED
            BY <2>1, <3>1, <3>2 DEF get
    <2>2. ASSUME NEW k \in CacheKey, NEW v \in Value, get_or_insert(k, v) PROVE CacheInv'
        <3>1. CASE lru[ShardOf[k]].inner[k] # None
            BY <2>2, <3>1, HitInv DEF get_or_insert
        <3>2. CASE UNCHANGED <<lru, refs>>
            BY <3>2 DEF CacheInv, CacheTypeOK, EvictionKeepsReferences, MapOK, Keys
        <3>3. CASE lru[ShardOf[k]].inner[k] = None /\ ~UNCHANGED <<lru, refs>>
            BY <2>2, <3>3, MissInv DEF get_or_insert
        <3> QED
            BY <3>1, <3>2, <3>3
    <2>3. CASE UNCHANGED cacheVars
        BY <2>3 DEF cacheVars, CacheInv, CacheTypeOK, EvictionKeepsReferences, MapOK, Keys
    <2> QED
        BY <2>1, <2>2, <2>3, PutInv, RemoveInv, ReleaseInv DEF CacheNext
<1>3. CacheInv => EvictionKeepsReferences
    BY DEF CacheInv
<1> QED
    BY <1>1, <1>2, <1>3, PTL DEF CacheSpec

-----------------------------------------------------------------------------
Row == DOMAIN Offset

(* There is a row, and every key has a column in each.                      *)
SketchConstants ==
    /\ Row # {} /\ NullKey \in SketchKey
    /\ Offset \in [Row -> [SketchKey -> Column]]
    /\ NullCount \in SUBSET Nat

Counters == [Row -> [Column -> Nat]]

(* A set of naturals that is not empty has a smallest element.              *)
LEMMA Smallest ==
    ASSUME NEW S \in SUBSET Nat, S # {}
    PROVE  \E n \in S : \A m \in S : n <= m
<1> DEFINE R == {p \in Nat \X Nat : p[1] < p[2]}
<1>1. IsWellFoundedOn(R, Nat)
    BY NatLessThanWellFounded DEF OpToRel
<1>2. \A n, m \in Nat : <<m, n>> \notin R => n <= m
    OBVIOUS
<1> HIDE DEF R
<1>3. \E n \in S : \A m \in S : <<m, n>> \notin R
    BY <1>1, WFMin
<1> QED
    BY <1>2, <1>3

(* The estimate of a key is the lowest of its counters (estimate).          *)
LEMMA EstimateIsLowest ==
    ASSUME SketchConstants, NEW cs \in Counters, NEW k \in SketchKey
    PROVE  /\ estimate(cs, Offset, k) \in Nat
           /\ \E r \in Row : estimate(cs, Offset, k) = cs[r][Offset[r][k]]
           /\ \A r \in Row : estimate(cs, Offset, k) <= cs[r][Offset[r][k]]
<1>1. Cells(cs, Offset, k) \in SUBSET Nat /\ Cells(cs, Offset, k) # {}
    BY DEF Cells, Row, SketchConstants, Counters
<1>2. \E n \in Cells(cs, Offset, k) : \A m \in Cells(cs, Offset, k) : n <= m
    BY <1>1, Smallest
<1>3. estimate(cs, Offset, k) \in Cells(cs, Offset, k) /\ \A m \in Cells(cs, Offset, k) : estimate(cs, Offset, k) <= m
    BY <1>2 DEF estimate
<1> QED
    BY <1>1, <1>3 DEF Cells, Row

(* Every counter of a key is at least what was added for the key.           *)
Covers ==
    /\ counters \in Counters /\ added \in [SketchKey -> Nat]
    /\ \A k \in SketchKey \ {NullKey}, r \in Row : counters[r][Offset[r][k]] >= added[k]

(* No counter falls, and those of the key added to grow, or are above the   *)
(* estimate already (add).                                                  *)
LEMMA AddGrows ==
    ASSUME SketchConstants, NEW cs \in Counters, NEW k \in SketchKey, NEW n \in Nat
    PROVE  /\ add(cs, Offset, k, n) \in Counters
           /\ \A r \in Row, c \in Column : add(cs, Offset, k, n)[r][c] >= cs[r][c]
           /\ n = 1 => \A r \in Row : add(cs, Offset, k, n)[r][Offset[r][k]] >= estimate(cs, Offset, k) + 1
<1> DEFINE e == estimate(cs, Offset, k)
           a == add(cs, Offset, k, n)
<1>1. e \in Nat /\ \A r \in Row : e <= cs[r][Offset[r][k]]
    BY EstimateIsLowest
<1>2. a = [r \in Row |-> [cs[r] EXCEPT ![Offset[r][k]] = IF @ = e THEN @ + n ELSE @]]
    BY DEF add, Row
<1> HIDE DEF a, e
<1>3. ASSUME NEW r \in Row
      PROVE  /\ a[r] \in [Column -> Nat]
             /\ \A c \in Column : a[r][c] >= cs[r][c]
             /\ n = 1 => a[r][Offset[r][k]] >= e + 1
    <2> DEFINE row == cs[r]
               o == Offset[r][k]
    <2>1. row \in [Column -> Nat] /\ o \in Column /\ e <= row[o]
        BY <1>1 DEF SketchConstants, Counters
    <2>2. a[r] = [row EXCEPT ![o] = IF row[o] = e THEN row[o] + n ELSE row[o]]
        BY <1>2
    <2> HIDE DEF row, o
    <2>3. /\ a[r] \in [Column -> Nat]
          /\ \A c \in Column : a[r][c] >= row[c]
          /\ n = 1 => a[r][o] >= e + 1
        BY <1>1, <2>1, <2>2
    <2> QED
        BY <2>3 DEF row, o
<1>4. a \in Counters
    BY <1>2, <1>3 DEF Counters
<1> QED
    BY <1>3, <1>4 DEF a, e

(* Counting a value keeps every counter at least as high as the count of    *)
(* each of its keys (increment).                                            *)
LEMMA IncrementCovers ==
    ASSUME SketchConstants, Covers, NEW k \in SketchKey, Increment(k)
    PROVE  Covers'
<1>1. /\ counters' \in Counters
      /\ \A r \in Row, c \in Column : counters'[r][c] >= counters[r][c]
      /\ \A r \in Row : counters'[r][Offset[r][k]] >= estimate(counters, Offset, k) + 1
    BY AddGrows DEF Covers, Increment
<1>2. k # NullKey /\ added' = [added EXCEPT ![k] = @ + 1] /\ added' \in [SketchKey -> Nat]
    BY DEF Increment, Covers
<1>3. estimate(counters, Offset, k) \in Nat /\ estimate(counters, Offset, k) >= added[k]
    BY <1>2, EstimateIsLowest DEF Covers
<1>4. ASSUME NEW j \in SketchKey \ {NullKey}, NEW r \in Row
      PROVE  counters'[r][Offset[r][j]] >= added'[j]
    <2>1. Offset[r][j] \in Column /\ counters[r][Offset[r][j]] \in Nat /\ counters'[r][Offset[r][j]] \in Nat
        BY <1>1 DEF SketchConstants, Covers, Counters
    <2>2. CASE j = k
        BY <1>1, <1>2, <1>3, <2>1, <2>2 DEF Covers
    <2>3. CASE j # k
        <3>1. added'[j] = added[j] /\ added[j] \in Nat
            BY <1>2, <2>3 DEF Covers
        <3> QED
            BY <1>1, <2>1, <3>1 DEF Covers
    <2> QED
        BY <2>2, <2>3
<1> QED
    BY <1>1, <1>2, <1>4 DEF Covers

(* Adding the NULLs lowers no counter (add).                                *)
LEMMA AddNullsCovers ==
    ASSUME SketchConstants, Covers, NEW n \in NullCount, AddNulls(n)
    PROVE  Covers'
<1>1. NullKey \in SketchKey /\ counters \in Counters /\ counters' = add(counters, Offset, NullKey, n) /\ added' = added /\ n \in Nat
    BY DEF SketchConstants, Covers, AddNulls
<1>2. /\ counters' \in Counters
      /\ \A r \in Row, c \in Column : counters'[r][c] >= counters[r][c]
    BY <1>1, AddGrows
<1>3. ASSUME NEW j \in SketchKey \ {NullKey}, NEW r \in Row
      PROVE  counters'[r][Offset[r][j]] >= added'[j]
    <2>1. Offset[r][j] \in Column /\ counters[r][Offset[r][j]] \in Nat /\ counters'[r][Offset[r][j]] \in Nat
        BY <1>2 DEF SketchConstants, Covers, Counters
    <2>2. added[j] \in Nat /\ counters[r][Offset[r][j]] >= added[j]
        BY DEF Covers
    <2> QED
        BY <1>1, <1>2, <2>1, <2>2
<1> QED
    BY <1>1, <1>2, <1>3 DEF Covers

(* For any values, any hashes and any number of counters the sketch that    *)
(* HistogramBuilder::build fills never estimates a value as rarer than it   *)
(* is, although add leaves all but the lowest counters as they are.         *)
THEOREM EstimatesAlways == ASSUME SketchConstants PROVE SketchSpec => []EstimatesCover
<1>1. SketchInit => Covers
    BY DEF SketchInit, NoCounts, Row, Covers, Counters, SketchConstants
<1>2. Covers /\ [SketchNext]_sketchVars => Covers'
    <2> SUFFICES ASSUME Covers, [SketchNext]_sketchVars PROVE Covers'
        OBVIOUS
    <2>1. CASE UNCHANGED sketchVars
        BY <2>1 DEF sketchVars, Covers
    <2> QED
        BY <2>1, IncrementCovers, AddNullsCovers DEF SketchNext
<1>3. Covers => EstimatesCover
    <2> SUFFICES ASSUME Covers, NEW k \in SketchKey \ {NullKey} PROVE estimate(counters, Offset, k) >= added[k]
        BY DEF EstimatesCover
    <2>1. PICK r \in Row : estimate(counters, Offset, k) = counters[r][Offset[r][k]]
        BY EstimateIsLowest DEF Covers
    <2> QED
        BY <2>1 DEF Covers
<1> QED
    BY <1>1, <1>2, <1>3, PTL DEF SketchSpec
=============================================================================
