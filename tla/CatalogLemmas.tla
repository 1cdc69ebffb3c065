------------------------------ MODULE CatalogLemmas ------------------------------
(***************************************************************************)
(* The types of the catalog's data and what each statement writes, and      *)
(* lemmas about the operators of CatalogData.                               *)
(***************************************************************************)
EXTENDS CatalogData, Functions, TLAPS

(* Ids tell the elements of S apart.                                        *)
HasIds(S) ==
    /\ IsFiniteSet(S)
    /\ \A x \in S : x.id \in Nat
    /\ \A x, y \in S : x.id = y.id => x = y

Sorted(s) == \A i, j \in DOMAIN s : i < j => s[i].id < s[j].id

CatalogTags == {"root", "hash", "view", "column", "index"}

TableTags == {"column", "index"}

ColumnRec ==
    {Column(1, "a", None), Column(2, "b", None)}
    \cup {Column(i, "c", d) : i \in 0..3, d \in CVal \cup {None}}

MetaRec ==
    [id : 0..MaxIndexId, name : IndexName \cup {"pk_index", "uk_b_index", "uk_c"},
     columns : Seq(0..3), ty : {"primary", "unique", "normal", "composite"}]

IsCatalog(T) ==
    /\ T = [columns |-> T.columns, indexes |-> T.indexes]
    /\ T.columns \in Seq(ColumnRec) /\ T.columns # <<>> /\ Sorted(T.columns)
    /\ T.indexes \in Seq(MetaRec) /\ Sorted(T.indexes)

(* A batch has Deleted for an absent pair, a store has no such pair.        *)
Typed(f, absent) ==
    \A k \in DOMAIN f :
        /\ k[1] = "column" => f[k] \in absent \/ (f[k] \in ColumnRec /\ k = ColumnKey(f[k].id))
        /\ k[1] = "index" => f[k] \in absent \/ (f[k] \in MetaRec /\ k = IndexKey(f[k].id))
        /\ k[1] = "view" => f[k] \in absent \cup ViewBody

PlanOK(q) ==
    /\ q.s \in Statements /\ q.op = q.s.op
    /\ q.T # None => IsCatalog(q.T)
    /\ q.op \in {"add_column", "drop_column", "delete", "analyze"} => q.T # None
    /\ q.op = "create_index" => q.T # None /\ Range(q.s.on) \subseteq ColumnNames(q.T)
    /\ q.op = "insert" => q.T # None /\ {"a", "b"} \subseteq ColumnNames(q.T)

(* The columns and the indexes of the pairs of f.                           *)
ColumnsOf(f) == {f[k] : k \in KeysOf(f, {"column"})}

IndexesOf(f) == {f[k] : k \in KeysOf(f, {"index"})}

(* What CREATE TABLE writes and caches.                                     *)
NewColumns == <<Column(1, "a", None), Column(2, "b", None)>>

NewIndexes(unique) ==
    IF unique THEN <<IndexMeta(0, "uk_b_index", <<2>>, "unique"),
                     IndexMeta(1, "pk_index", <<1>>, "primary")>>
              ELSE <<IndexMeta(0, "pk_index", <<1>>, "primary")>>

NewTable(unique) == [columns |-> NewColumns, indexes |-> NewIndexes(unique)]

ColumnPairs == [k \in {ColumnKey(c.id) : c \in Range(NewColumns)} |-> NewColumns[k[2]]]

IndexPairs(unique) ==
    [k \in {IndexKey(m.id) : m \in Range(NewIndexes(unique))} |-> NewIndexes(unique)[k[2] + 1]]

NewPairs(unique) ==
    Over([k \in {Root, Hash} |-> "name"], Over(ColumnPairs, IndexPairs(unique)))

Unhash == [k \in {Hash} |-> Deleted]

(* The statistics of the first n indexes.                                   *)
Saved(T, n) ==
    [id \in {T.indexes[i].id : i \in 1..n} |-> CHOOSE m \in Range(T.indexes) : m.id = id]

StatPuts(T, n) == [k \in {StatKey(T.indexes[i].id) : i \in 1..n} |-> "path"]

(* The index that CREATE INDEX makes and what it writes for it.             *)
OnIds(q) == [i \in DOMAIN q.s.on |-> ColumnNamed(q.T, q.s.on[i]).id]

MetaOf(T, q) ==
    IndexMeta(NextIndexId(T), q.s.name, OnIds(q),
              IF q.s.unique THEN "unique"
              ELSE IF Len(OnIds(q)) = 1 THEN "normal" ELSE "composite")

Backfill(f, T, q) ==
    AddIndex(f, MetaOf(T, q),
             [p \in Rows(f) |->
                 Project(Ids(q.T.columns), Decode(q.T, f[TupleKey(p)]), OnIds(q))])

IndexPuts(f, T, q) == Over(Pair(IndexKey(MetaOf(T, q).id), MetaOf(T, q)), Backfill(f, T, q).puts)

WithIndex(f, T, q) == Over(Pair(IndexKey(MetaOf(T, q).id), MetaOf(T, q)), f)

(* What ALTER TABLE ADD COLUMN writes: the rows, the column, the index of a *)
(* unique column and its entries.                                           *)
AddValue(q) == IF q.s.default # None THEN q.s.default ELSE Null

AddRows(f, q) ==
    [k \in KeysOf(f, {"tuple"}) |-> Widened(q.T, f[k], AddValue(q))]

AddExists(T) == "c" \in ColumnNames(T)

AddIds(T) == IF AddExists(T) THEN {ColumnNamed(T, "c").id} ELSE NewColumnIds(T)

AddC(q, id) == Column(id, "c", q.s.default)

AddUk(T, id) == IndexMeta(NextIndexId(T), "uk_c", <<id>>, "unique")

AddPuts(f, T, q, id) ==
    IF AddExists(T) THEN AddRows(f, q)
    ELSE Over(AddRows(f, q),
              Over(Pair(ColumnKey(id), AddC(q, id)),
                   IF q.s.unique THEN Pair(IndexKey(AddUk(T, id).id), AddUk(T, id)) ELSE Empty))

AddG(f, T, q, id) == IF AddExists(T) THEN T ELSE Collect(Over(AddPuts(f, T, q, id), f))

AddUnique(f, T, q, id) ==
    {m \in Range(AddG(f, T, q, id).indexes) : m.ty = "unique" /\ m.columns[1] = id}

AddEntries(f, T, q, id) ==
    IF q.s.unique /\ q.s.default # None /\ AddUnique(f, T, q, id) # {}
    THEN AddIndex(f, CHOOSE m \in AddUnique(f, T, q, id) :
                        \A n \in AddUnique(f, T, q, id) : m.id <= n.id,
                  [p \in Rows(f) |-> <<AddValue(q)>>])
    ELSE [ok |-> TRUE, puts |-> Empty]

AddAll(f, T, q, id) == Over(AddPuts(f, T, q, id), AddEntries(f, T, q, id).puts)

(* What ALTER TABLE DROP COLUMN writes and removes.                         *)
DropC(q) == ColumnNamed(q.T, q.s.name)

DropAt(q) == Min({i \in DOMAIN q.T.columns : q.T.columns[i].name = q.s.name})

DropRows(f, q) ==
    [k \in KeysOf(f, {"tuple"}) |-> RemoveAt(Decode(q.T, f[k]), DropAt(q))]

DropGone(T, q) == {m \in Range(T.indexes) : DropC(q).id \in Range(m.columns)}

DropDels(f, T, q) == {ColumnKey(DropC(q).id)} \cup UNION {IndexData(f, m.id) : m \in DropGone(T, q)}

(* What CREATE VIEW writes, and the hash that DROP VIEW removes.            *)
ViewPuts(f, q) ==
    Over(Pair(ViewKey, q.s.body),
         IF ViewKey \in DOMAIN f THEN Empty ELSE Pair(Hash, "name"))

-----------------------------------------------------------------------------
(* The facts about finite sets the lemmas rest on.  The library proves them *)
(* (CatalogTheorems cites it); here they are a hypothesis, FiniteSetFacts,  *)
(* which keeps the library's theorems out of every obligation.              *)
CardinalFact == \A A : IsFiniteSet(A) => Cardinality(A) \in Nat

SubsetFact ==
    \A A, B : IsFiniteSet(A) /\ B \subseteq A
               => /\ IsFiniteSet(B) /\ Cardinality(B) <= Cardinality(A)
                  /\ Cardinality(A) = Cardinality(B) => A = B

IntervalFact ==
    \A i, j \in Int : IsFiniteSet(i..j) /\ Cardinality(i..j) = IF i > j THEN 0 ELSE j - i + 1

InjectionFact ==
    \A A, B : \A g \in Injection(A, B) :
        IsFiniteSet(B) => /\ IsFiniteSet(A) /\ Cardinality(A) <= Cardinality(B)
                          /\ Cardinality(A) = Cardinality(B) <=> g \in Surjection(A, B)

SurjectionFact ==
    \A A, B : \A g \in Surjection(A, B) : IsFiniteSet(A) => IsFiniteSet(B)

EmptyFact == \A A : IsFiniteSet(A) => (Cardinality(A) = 0 <=> A = {})

FiniteSetFacts ==
    /\ CardinalFact /\ SubsetFact /\ IntervalFact /\ EmptyFact
    /\ InjectionFact /\ SurjectionFact

(* The number of elements before x tells where x is.                        *)
LEMMA RankProperties ==
    ASSUME FiniteSetFacts, NEW S, HasIds(S)
    PROVE  LET n == Cardinality(S)
               rank == [x \in S |-> Cardinality({y \in S : y.id < x.id})]
           IN  /\ n \in Nat
               /\ rank \in [S -> 0..(n - 1)]
               /\ \A x, y \in S : x.id < y.id => rank[x] < rank[y]
               /\ \A i \in 0..(n - 1) : \E x \in S : rank[x] = i
<1> DEFINE n == Cardinality(S)
           Before(x) == {y \in S : y.id < x.id}
           rank == [x \in S |-> Cardinality(Before(x))]
<1>1. n \in Nat
    BY DEF HasIds, FiniteSetFacts, CardinalFact
<1>2. ASSUME NEW x \in S
      PROVE  IsFiniteSet(Before(x)) /\ Cardinality(Before(x)) \in Nat /\ Cardinality(Before(x)) < n
  <2>1. Before(x) \in SUBSET S /\ x \notin Before(x)
    BY DEF HasIds
  <2>2. IsFiniteSet(Before(x)) /\ Cardinality(Before(x)) <= n /\ Cardinality(Before(x)) # n
    BY <2>1 DEF HasIds, FiniteSetFacts, SubsetFact
  <2>3. Cardinality(Before(x)) \in Nat
    BY <2>2 DEF FiniteSetFacts, CardinalFact
  <2> QED BY <2>2, <2>3, <1>1
<1>3. rank \in [S -> 0..(n - 1)]
  <2> HIDE DEF n, Before
  <2> QED BY <1>1, <1>2
<1>4. ASSUME NEW x \in S, NEW y \in S, x.id < y.id PROVE rank[x] < rank[y]
  <2>1. Before(x) \in SUBSET Before(y) /\ x \in Before(y) /\ x \notin Before(x)
    BY <1>4 DEF HasIds
  <2>2. IsFiniteSet(Before(y)) /\ Cardinality(Before(y)) \in Nat /\ Cardinality(Before(x)) \in Nat
    BY <1>2
  <2>3. Cardinality(Before(x)) <= Cardinality(Before(y)) /\ Cardinality(Before(x)) # Cardinality(Before(y))
    BY <2>1, <2>2 DEF FiniteSetFacts, SubsetFact
  <2> QED BY <2>2, <2>3
<1>5. \A x, y \in S : rank[x] = rank[y] => x = y
  <2> SUFFICES ASSUME NEW x \in S, NEW y \in S, rank[x] = rank[y] PROVE x = y
    OBVIOUS
  <2>1. x.id \in Nat /\ y.id \in Nat /\ rank[x] \in Nat /\ rank[y] \in Nat
    BY <1>2 DEF HasIds
  <2>2. ~(x.id < y.id) /\ ~(y.id < x.id)
    <3> HIDE DEF rank
    <3> QED BY <1>4, <2>1
  <2> QED BY <2>1, <2>2 DEF HasIds
<1>6. \A i \in 0..(n - 1) : \E x \in S : rank[x] = i
  <2>1. IsFiniteSet(0..(n - 1)) /\ Cardinality(0..(n - 1)) = n
    <3> HIDE DEF n
    <3>1. 0 \in Int /\ n - 1 \in Int
      BY <1>1
    <3>2. IsFiniteSet(0..(n - 1)) /\ Cardinality(0..(n - 1)) = IF 0 > n - 1 THEN 0 ELSE n - 1 - 0 + 1
      BY <3>1, Zenon DEF FiniteSetFacts, IntervalFact
    <3> QED BY <1>1, <3>2
  <2>2. rank \in Injection(S, 0..(n - 1))
    <3> HIDE DEF rank, n
    <3> QED BY <1>3, <1>5 DEF Injection, IsInjective
  <2>3. rank \in Surjection(S, 0..(n - 1))
    <3> HIDE DEF rank
    <3> QED BY <2>1, <2>2 DEF FiniteSetFacts, InjectionFact
  <2> HIDE DEF rank, n
  <2> QED BY <2>3 DEF Surjection
<1> QED BY <1>1, <1>3, <1>4, <1>6, Zenon

(* ById gives every element of S once, in the order of the ids.             *)
LEMMA ByIdProperties ==
    ASSUME FiniteSetFacts, NEW S, HasIds(S)
    PROVE  /\ ById(S) \in [1..Cardinality(S) -> S] /\ ById(S) \in Seq(S)
           /\ Len(ById(S)) = Cardinality(S) /\ Cardinality(S) \in Nat
           /\ Range(ById(S)) = S
           /\ Sorted(ById(S))
<1> DEFINE n == Cardinality(S)
           rank == [x \in S |-> Cardinality({y \in S : y.id < x.id})]
<1>1. /\ n \in Nat /\ rank \in [S -> 0..(n - 1)]
      /\ \A x, y \in S : x.id < y.id => rank[x] < rank[y]
      /\ \A i \in 0..(n - 1) : \E x \in S : rank[x] = i
    BY RankProperties
<1>2. ASSUME NEW i \in 1..n PROVE ById(S)[i] \in S /\ rank[ById(S)[i]] = i - 1
  <2>1. i - 1 \in 0..(n - 1)
    BY <1>1
  <2>2. \E x \in S : Cardinality({y \in S : y.id < x.id}) = i - 1
    BY <1>1, <2>1
  <2>3. WithBefore(S, i - 1) \in S /\ rank[WithBefore(S, i - 1)] = i - 1
    BY <2>2 DEF WithBefore
  <2>4. ById(S)[i] = WithBefore(S, i - 1)
    BY DEF ById
  <2> QED BY <2>3, <2>4
<1>3. ById(S) = [i \in 1..n |-> ById(S)[i]]
    BY DEF ById
<1> HIDE DEF rank, n
<1>4. ById(S) \in [1..n -> S]
    BY <1>2, <1>3
<1>5. ById(S) \in Seq(S) /\ Len(ById(S)) = n
    BY <1>1, <1>4
<1>6. ASSUME NEW x \in S, NEW y \in S, rank[x] = rank[y] PROVE x = y
    BY <1>1, <1>6 DEF HasIds
<1>7. S \subseteq Range(ById(S))
  <2> SUFFICES ASSUME NEW x \in S PROVE \E i \in 1..n : ById(S)[i] = x
    BY <1>4 DEF Range
  <2>1. rank[x] + 1 \in 1..n /\ (rank[x] + 1) - 1 = rank[x]
    BY <1>1
  <2> QED BY <2>1, <1>2, <1>6
<1>8. Range(ById(S)) \subseteq S
    BY <1>4 DEF Range
<1>9. Sorted(ById(S))
  <2> SUFFICES ASSUME NEW i \in 1..n, NEW j \in 1..n, i < j PROVE ById(S)[i].id < ById(S)[j].id
    BY <1>4 DEF Sorted
  <2> DEFINE x == ById(S)[i]
             y == ById(S)[j]
  <2>1. x \in S /\ y \in S /\ rank[x] < rank[y] /\ rank[x] \in Nat /\ rank[y] \in Nat
    BY <1>1, <1>2
  <2>2. x.id \in Nat /\ y.id \in Nat /\ (y.id < x.id => rank[y] < rank[x]) /\ (x.id = y.id => x = y)
    BY <2>1, <1>1 DEF HasIds
  <2> HIDE DEF x, y
  <2>3. x.id < y.id
    BY <2>1, <2>2
  <2> QED BY <2>3 DEF x, y
<1> QED BY <1>1, <1>4, <1>5, <1>7, <1>8, <1>9 DEF n

(* The first component of a key tells what it is a key of.                  *)
LEMMA KeyTags ==
    /\ Root[1] = "root" /\ Hash[1] = "hash" /\ ViewKey[1] = "view"
    /\ \A id : /\ ColumnKey(id)[1] = "column" /\ IndexKey(id)[1] = "index"
               /\ StatKey(id)[1] = "stat" /\ TupleKey(id)[1] = "tuple"
    /\ \A m, v, p : EntryKey(m, v, p)[1] = "entry"
BY DEF Root, Hash, ViewKey, ColumnKey, IndexKey, StatKey, TupleKey, EntryKey

(* Empty has no keys.                                                       *)
LEMMA EmptyKeys == DOMAIN Empty = {}
BY DEF Empty

(* add_index writes index entries only.                                     *)
LEMMA AddIndexTags ==
    ASSUME NEW f, NEW m, NEW vals, NEW k \in DOMAIN AddIndex(f, m, vals).puts
    PROVE  k[1] = "entry"
BY KeyTags DEF AddIndex

(* drop_data removes rows, index entries and statistics paths only.         *)
LEMMA DataTags == \A f : \A k \in Data(f) : k[1] \in {"tuple", "entry", "stat"}
BY DEF Data, KeysOf

(* table_collect reads the column and the index keys only.                  *)
LEMMA CollectDepends ==
    ASSUME NEW f, NEW g, KeysOf(f, TableTags) = KeysOf(g, TableTags),
           \A k \in KeysOf(g, TableTags) : f[k] = g[k]
    PROVE  Collect(f) = Collect(g)
<1>1. ASSUME NEW tag \in TableTags
      PROVE  KeysOf(f, {tag}) = KeysOf(g, {tag}) /\ \A k \in KeysOf(g, {tag}) : f[k] = g[k]
    BY DEF KeysOf
<1>2. ASSUME NEW tag \in TableTags
      PROVE  {f[k] : k \in KeysOf(f, {tag})} = {g[k] : k \in KeysOf(g, {tag})}
    BY <1>1
<1>3. /\ {f[k] : k \in KeysOf(f, {"column"})} = {g[k] : k \in KeysOf(g, {"column"})}
      /\ {f[k] : k \in KeysOf(f, {"index"})} = {g[k] : k \in KeysOf(g, {"index"})}
    BY <1>2 DEF TableTags
<1> QED BY <1>3, Zenon DEF Collect

(* What a stored column may be.                                             *)
LEMMA ColumnRecFields ==
    \A c \in ColumnRec :
        /\ c.id \in 0..3 /\ c.name \in {"a", "b", "c"} /\ c.default \in CVal \cup {None}
        /\ c.name \in {"a", "b"} => c.id \in 1..2
        /\ c.name \in {"a", "b"} => c.default = None
        /\ c = Column(c.id, c.name, c.default)
BY DEF ColumnRec, Column

(* What the binder leaves in the fields of a statement.                     *)
LEMMA StatementFields ==
    ASSUME NEW s \in Statements
    PROVE  /\ s.op # "none"
           /\ s.op \in {"create_table", "create_index", "add_column"} => s.unique \in BOOLEAN
           /\ s.op = "create_index" => s.name \in IndexName /\ s.on \in {<<"b">>, <<"c">>, <<"b", "c">>}
           /\ s.op = "drop_index" => s.name \in IndexName \cup {"pk_index"}
           /\ s.op = "add_column" => s.default \in CVal \cup {None} /\ s.nullable \in BOOLEAN
           /\ s.op = "drop_column" => s.name \in {"a", "b", "c"}
           /\ s.op = "create_view" => s.body \in ViewBody
           /\ s.op = "insert" => s.pk \in Pk /\ s.b \in BVal \cup {Null} /\ s.idents \in {<<>>, <<"b", "a">>}
           /\ s.op = "delete" => s.pk \in Pk
BY DEF Statements

(* Typed pairs over typed pairs are typed.                                  *)
LEMMA TypedOver ==
    ASSUME NEW f, NEW g, NEW absent, Typed(f, absent), Typed(g, absent)
    PROVE  Typed(Over(f, g), absent)
<1> SUFFICES ASSUME NEW k \in DOMAIN Over(f, g)
             PROVE  \/ k \in DOMAIN f /\ Over(f, g)[k] = f[k]
                    \/ k \in DOMAIN g /\ Over(f, g)[k] = g[k]
    BY DEF Typed
<1> QED BY DEF Over

(* Values whose keys are told apart by their ids.                           *)
LEMMA ValuesHaveIds ==
    ASSUME FiniteSetFacts, NEW f, NEW K, IsFiniteSet(K), \A k \in K : f[k].id \in Nat,
           \A k, j \in K : f[k].id = f[j].id => k = j
    PROVE  HasIds({f[k] : k \in K})
<1> DEFINE S == {f[k] : k \in K}
           g == [k \in K |-> f[k]]
<1>1. g \in Surjection(K, S)
    BY DEF Surjection
<1>2. IsFiniteSet(S)
    BY <1>1 DEF FiniteSetFacts, SurjectionFact
<1> QED BY <1>2 DEF HasIds

(* There are finitely many column and index keys.                           *)
LEMMA FiniteKeys ==
    ASSUME FiniteSetFacts
    PROVE  /\ IsFiniteSet({ColumnKey(id) : id \in 0..3})
           /\ IsFiniteSet({IndexKey(id) : id \in 0..MaxIndexId})
<1>1. IsFiniteSet(0..3) /\ IsFiniteSet(0..MaxIndexId)
  <2>1. 0 \in Int /\ 3 \in Int /\ MaxIndexId \in Int
    BY IdAssumption
  <2> QED BY <2>1, Zenon DEF FiniteSetFacts, IntervalFact
<1>2. [id \in 0..3 |-> ColumnKey(id)] \in Surjection(0..3, {ColumnKey(id) : id \in 0..3})
    BY DEF Surjection
<1>3. [id \in 0..MaxIndexId |-> IndexKey(id)]
        \in Surjection(0..MaxIndexId, {IndexKey(id) : id \in 0..MaxIndexId})
    BY DEF Surjection
<1> QED BY <1>1, <1>2, <1>3 DEF FiniteSetFacts, SurjectionFact

(* The stored columns and indexes are told apart by their ids.              *)
LEMMA TypedValues ==
    ASSUME FiniteSetFacts, NEW f, Typed(f, {})
    PROVE  /\ HasIds(ColumnsOf(f)) /\ ColumnsOf(f) \subseteq ColumnRec
           /\ HasIds(IndexesOf(f)) /\ IndexesOf(f) \subseteq MetaRec
           /\ \A c \in ColumnsOf(f) : ColumnKey(c.id) \in DOMAIN f /\ f[ColumnKey(c.id)] = c
           /\ \A m \in IndexesOf(f) : IndexKey(m.id) \in DOMAIN f /\ f[IndexKey(m.id)] = m
<1>1. \A k \in KeysOf(f, {"column"}) : f[k] \in ColumnRec /\ k = ColumnKey(f[k].id) /\ f[k].id \in 0..3
    BY ColumnRecFields DEF Typed, KeysOf
<1>2. \A k \in KeysOf(f, {"index"}) : f[k] \in MetaRec /\ k = IndexKey(f[k].id) /\ f[k].id \in 0..MaxIndexId
  <2>1. \A k \in KeysOf(f, {"index"}) : f[k] \in MetaRec /\ k = IndexKey(f[k].id)
    BY DEF Typed, KeysOf
  <2>2. \A m \in MetaRec : m.id \in 0..MaxIndexId
    BY DEF MetaRec
  <2> QED BY <2>1, <2>2
<1>3. KeysOf(f, {"column"}) \subseteq {ColumnKey(id) : id \in 0..3}
    BY <1>1
<1>4. KeysOf(f, {"index"}) \subseteq {IndexKey(id) : id \in 0..MaxIndexId}
    BY <1>2
<1>5. IsFiniteSet(KeysOf(f, {"column"})) /\ IsFiniteSet(KeysOf(f, {"index"}))
    BY <1>3, <1>4, FiniteKeys DEF FiniteSetFacts, SubsetFact
<1>6. HasIds(ColumnsOf(f))
  <2>1. \A k \in KeysOf(f, {"column"}) : f[k].id \in Nat
    BY <1>1
  <2>2. \A k, j \in KeysOf(f, {"column"}) : f[k].id = f[j].id => k = j
    BY <1>1
  <2> QED BY <1>5, <2>1, <2>2, ValuesHaveIds DEF ColumnsOf
<1>7. HasIds(IndexesOf(f))
  <2>1. \A k \in KeysOf(f, {"index"}) : f[k].id \in Nat
    BY <1>2
  <2>2. \A k, j \in KeysOf(f, {"index"}) : f[k].id = f[j].id => k = j
    BY <1>2
  <2> QED BY <1>5, <2>1, <2>2, ValuesHaveIds DEF IndexesOf
<1>8. ColumnsOf(f) \subseteq ColumnRec /\ IndexesOf(f) \subseteq MetaRec
    BY <1>1, <1>2 DEF ColumnsOf, IndexesOf
<1>9. /\ \A c \in ColumnsOf(f) : ColumnKey(c.id) \in DOMAIN f /\ f[ColumnKey(c.id)] = c
      /\ \A m \in IndexesOf(f) : IndexKey(m.id) \in DOMAIN f /\ f[IndexKey(m.id)] = m
  <2>1. \A k : k \in KeysOf(f, {"column"}) \/ k \in KeysOf(f, {"index"}) => k \in DOMAIN f
    BY DEF KeysOf
  <2> QED BY <1>1, <1>2, <2>1, Zenon DEF ColumnsOf, IndexesOf
<1> QED BY <1>6, <1>7, <1>8, <1>9

(* Only the empty set is the empty sequence in the order of ids.            *)
LEMMA EmptyById ==
    ASSUME FiniteSetFacts, NEW S, HasIds(S)
    PROVE  ById(S) = <<>> <=> S = {}
<1>1. ById(S) \in Seq(S) /\ Len(ById(S)) = Cardinality(S) /\ Range(ById(S)) = S
    BY ByIdProperties
<1>2. Cardinality(S) = 0 <=> S = {}
    BY DEF HasIds, FiniteSetFacts, EmptyFact
<1> QED BY <1>1, <1>2

(* table_collect returns the columns and the indexes in the order of ids.   *)
LEMMA CollectProperties ==
    ASSUME FiniteSetFacts, NEW f, Typed(f, {}), Collect(f) # None
    PROVE  /\ IsCatalog(Collect(f))
           /\ Range(Collect(f).columns) = ColumnsOf(f)
           /\ Range(Collect(f).indexes) = IndexesOf(f)
           /\ ColumnsOf(f) # {}
           /\ Collect(f) = [columns |-> ById(ColumnsOf(f)), indexes |-> ById(IndexesOf(f))]
<1>1. /\ HasIds(ColumnsOf(f)) /\ ColumnsOf(f) \subseteq ColumnRec
      /\ HasIds(IndexesOf(f)) /\ IndexesOf(f) \subseteq MetaRec
    BY TypedValues
<1> DEFINE C == ById(ColumnsOf(f))
           I == ById(IndexesOf(f))
<1>2. Collect(f) = [columns |-> C, indexes |-> I] /\ C # <<>>
    BY Zenon DEF Collect, ColumnsOf, IndexesOf
<1>3. C \in Seq(ColumnsOf(f)) /\ Sorted(C) /\ Range(C) = ColumnsOf(f)
    BY <1>1, ByIdProperties
<1>4. I \in Seq(IndexesOf(f)) /\ Sorted(I) /\ Range(I) = IndexesOf(f)
    BY <1>1, ByIdProperties
<1>5. ColumnsOf(f) # {}
    BY <1>1, <1>2, EmptyById
<1> HIDE DEF C, I
<1>6. C \in Seq(ColumnRec) /\ I \in Seq(MetaRec)
    BY <1>1, <1>3, <1>4
<1> QED BY <1>2, <1>3, <1>4, <1>5, <1>6 DEF IsCatalog, C, I

(* The columns and indexes of a catalog have their types.                   *)
LEMMA CatalogElements ==
    ASSUME NEW T, IsCatalog(T)
    PROVE  /\ \A c \in Range(T.columns) : c \in ColumnRec
           /\ \A m \in Range(T.indexes) : m \in MetaRec /\ m.id \in 0..MaxIndexId /\ m.columns \in Seq(0..3)
           /\ \A i \in 1..Len(T.indexes) : T.indexes[i] \in Range(T.indexes)
           /\ \A i \in 1..Len(T.columns) : T.columns[i] \in Range(T.columns)
<1>1. \A m \in MetaRec : m.id \in 0..MaxIndexId /\ m.columns \in Seq(0..3)
    BY DEF MetaRec
<1> QED BY <1>1 DEF IsCatalog, Range

(* The id of a new index is above those of the table.                       *)
LEMMA NextIndexIdFresh ==
    ASSUME NEW T, IsCatalog(T)
    PROVE  /\ NextIndexId(T) \in Nat
           /\ \A m \in Range(T.indexes) : m.id < NextIndexId(T)
<1>1. CASE T.indexes = <<>>
    BY <1>1 DEF NextIndexId, Range
<1>2. CASE T.indexes # <<>>
  <2> DEFINE n == Len(T.indexes)
  <2>1. n \in Nat /\ n >= 1 /\ DOMAIN T.indexes = 1..n
    BY <1>2 DEF IsCatalog
  <2>2. NextIndexId(T) = T.indexes[n].id + 1
    BY <1>2 DEF NextIndexId
  <2>3. \A i \in 1..n : T.indexes[i].id \in 0..MaxIndexId
    BY <2>1, CatalogElements
  <2>4. \A i \in 1..n : i < n => T.indexes[i].id < T.indexes[n].id
    BY <2>1 DEF IsCatalog, Sorted
  <2>5. \A i \in 1..n : T.indexes[i].id < NextIndexId(T)
    BY <2>1, <2>2, <2>3, <2>4, IdAssumption
  <2>6. \A m \in Range(T.indexes) : \E i \in 1..n : m = T.indexes[i]
    BY <2>1 DEF Range
  <2> QED BY <2>1, <2>2, <2>3, <2>5, <2>6, IdAssumption
<1> QED BY <1>1, <1>2

(* A column that is there is found by its name.                             *)
LEMMA NamedColumn ==
    ASSUME NEW T, NEW name \in ColumnNames(T)
    PROVE  ColumnNamed(T, name) \in Range(T.columns) /\ ColumnNamed(T, name).name = name
<1>1. \E c \in Range(T.columns) : c.name = name
    BY DEF ColumnNames
<1> QED BY <1>1 DEF ColumnNamed

(* The column that ALTER TABLE ADD COLUMN adds.                             *)
LEMMA NewColumn ==
    ASSUME NEW T, IsCatalog(T), "c" \notin ColumnNames(T), NEW id \in NewColumnIds(T),
           NEW d \in CVal \cup {None}
    PROVE  id \in 0..3 /\ Column(id, "c", d) \in ColumnRec
<1> DEFINE n == Len(T.columns)
<1>1. n \in Nat /\ n >= 1 /\ DOMAIN T.columns = 1..n
    BY DEF IsCatalog
<1>2. \A i \in 1..n : T.columns[i] \in Range(T.columns) /\ T.columns[i] \in ColumnRec
    BY <1>1, CatalogElements
<1>3. \A i \in 1..n : T.columns[i].name \in {"a", "b"}
    BY <1>2, ColumnRecFields DEF ColumnNames
<1>4. T.columns[1].id \in 1..2 /\ T.columns[n].id \in 1..2
    BY <1>1, <1>2, <1>3, ColumnRecFields
<1>5. id \in 0..3
    BY <1>4 DEF NewColumnIds
<1> QED BY <1>5 DEF ColumnRec

(* No pairs are typed.                                                      *)
LEMMA EmptyTyped == \A absent : Typed(Empty, absent)
BY DEF Typed, Empty

(* Pairs with no catalog key among them are typed.                          *)
LEMMA UntaggedTyped ==
    ASSUME NEW f, NEW absent, \A k \in DOMAIN f : k[1] \notin CatalogTags
    PROVE  Typed(f, absent)
BY DEF Typed, CatalogTags

(* A pair of a column, an index, a view or a name hash is typed.            *)
LEMMA PairTyped ==
    ASSUME NEW absent
    PROVE  /\ \A c \in ColumnRec : Typed(Pair(ColumnKey(c.id), c), absent)
           /\ \A m \in MetaRec : Typed(Pair(IndexKey(m.id), m), absent)
           /\ \A v \in ViewBody : Typed(Pair(ViewKey, v), absent)
           /\ \A v : Typed(Pair(Hash, v), absent)
<1>1. ASSUME NEW k, NEW v, NEW j \in DOMAIN Pair(k, v) PROVE j = k /\ Pair(k, v)[j] = v
    BY DEF Pair
<1>2. \A c \in ColumnRec : Typed(Pair(ColumnKey(c.id), c), absent)
    BY <1>1, KeyTags DEF Typed
<1>3. \A m \in MetaRec : Typed(Pair(IndexKey(m.id), m), absent)
    BY <1>1, KeyTags DEF Typed
<1>4. \A v \in ViewBody : Typed(Pair(ViewKey, v), absent)
    BY <1>1, KeyTags DEF Typed
<1>5. \A v : Typed(Pair(Hash, v), absent)
    BY <1>1, KeyTags DEF Typed
<1> QED BY <1>2, <1>3, <1>4, <1>5

(* Rows are typed.                                                          *)
LEMMA TupleRowsTyped ==
    ASSUME NEW f, NEW rows, NEW absent, DOMAIN rows = KeysOf(f, {"tuple"})
    PROVE  Typed(rows, absent)
<1>1. \A k \in KeysOf(f, {"tuple"}) : k[1] \notin CatalogTags
    BY DEF KeysOf, CatalogTags
<1> QED BY <1>1, UntaggedTyped, Zenon

(* The keys of pairs over other pairs.                                      *)
LEMMA OverKeys == \A f, g : DOMAIN Over(f, g) = DOMAIN f \cup DOMAIN g
BY DEF Over

(* CREATE TABLE caches a catalog.                                           *)
LEMMA NewTableTyped ==
    ASSUME NEW unique \in BOOLEAN
    PROVE  IsCatalog(NewTable(unique))
<1>1. NewColumns \in Seq(ColumnRec) /\ NewColumns # <<>> /\ Sorted(NewColumns)
    BY DEF NewColumns, ColumnRec, Sorted, Column
<1>2. /\ IndexMeta(0, "uk_b_index", <<2>>, "unique") \in MetaRec
      /\ IndexMeta(1, "pk_index", <<1>>, "primary") \in MetaRec
      /\ IndexMeta(0, "pk_index", <<1>>, "primary") \in MetaRec
    BY IdAssumption DEF IndexMeta, MetaRec
<1>3. NewIndexes(unique) \in Seq(MetaRec)
    BY <1>2 DEF NewIndexes
<1>4. Sorted(NewIndexes(unique))
    BY DEF NewIndexes, Sorted, IndexMeta
<1> QED BY <1>1, <1>3, <1>4 DEF IsCatalog, NewTable

(* The columns and indexes CREATE TABLE writes are under their keys.        *)
LEMMA NewPairsKeys ==
    ASSUME NEW unique \in BOOLEAN
    PROVE  /\ DOMAIN ColumnPairs = {ColumnKey(1), ColumnKey(2)}
           /\ \A k \in DOMAIN ColumnPairs : ColumnPairs[k] \in Range(NewColumns)
                                            /\ k = ColumnKey(ColumnPairs[k].id)
           /\ DOMAIN IndexPairs(unique) = {IndexKey(m.id) : m \in Range(NewIndexes(unique))}
           /\ \A k \in DOMAIN IndexPairs(unique) :
                IndexPairs(unique)[k] \in Range(NewIndexes(unique))
                /\ k = IndexKey(IndexPairs(unique)[k].id)
<1>1. Range(NewColumns) = {Column(1, "a", None), Column(2, "b", None)}
    BY DEF Range, NewColumns
<1>2. DOMAIN ColumnPairs = {ColumnKey(1), ColumnKey(2)}
    BY <1>1 DEF ColumnPairs, Column
<1>3. ColumnPairs[ColumnKey(1)] = NewColumns[1] /\ ColumnPairs[ColumnKey(2)] = NewColumns[2]
    BY <1>2 DEF ColumnPairs, ColumnKey
<1>4. \A k \in DOMAIN ColumnPairs : ColumnPairs[k] \in Range(NewColumns)
                                    /\ k = ColumnKey(ColumnPairs[k].id)
    BY <1>1, <1>2, <1>3 DEF NewColumns, Column
<1>5. DOMAIN IndexPairs(unique) = {IndexKey(m.id) : m \in Range(NewIndexes(unique))}
    BY DEF IndexPairs
<1>6. CASE unique
  <2>1. Range(NewIndexes(unique)) = {IndexMeta(0, "uk_b_index", <<2>>, "unique"),
                                     IndexMeta(1, "pk_index", <<1>>, "primary")}
    BY <1>6 DEF Range, NewIndexes
  <2>2. DOMAIN IndexPairs(unique) = {IndexKey(0), IndexKey(1)}
    BY <1>5, <2>1 DEF IndexMeta
  <2>3. /\ IndexPairs(unique)[IndexKey(0)] = NewIndexes(unique)[1]
        /\ IndexPairs(unique)[IndexKey(1)] = NewIndexes(unique)[2]
    BY <2>2 DEF IndexPairs, IndexKey
  <2>4. /\ NewIndexes(unique)[1] \in Range(NewIndexes(unique)) /\ NewIndexes(unique)[1].id = 0
        /\ NewIndexes(unique)[2] \in Range(NewIndexes(unique)) /\ NewIndexes(unique)[2].id = 1
    BY <1>6, <2>1 DEF NewIndexes, IndexMeta
  <2> QED BY <1>2, <1>4, <1>5, <2>2, <2>3, <2>4
<1>7. CASE ~unique
  <2>1. Range(NewIndexes(unique)) = {IndexMeta(0, "pk_index", <<1>>, "primary")}
    BY <1>7 DEF Range, NewIndexes
  <2>2. DOMAIN IndexPairs(unique) = {IndexKey(0)}
    BY <1>5, <2>1 DEF IndexMeta
  <2>3. IndexPairs(unique)[IndexKey(0)] = NewIndexes(unique)[1]
    BY <2>2 DEF IndexPairs, IndexKey
  <2> QED BY <1>2, <1>4, <1>5, <1>7, <2>1, <2>2, <2>3 DEF NewIndexes, IndexMeta
<1> QED BY <1>6, <1>7

(* What CREATE TABLE writes is typed.                                       *)
LEMMA NewPairsTyped ==
    ASSUME NEW unique \in BOOLEAN, NEW absent
    PROVE  Typed(NewPairs(unique), absent)
<1>1. IsCatalog(NewTable(unique))
    BY NewTableTyped
<1>2. /\ \A c \in Range(NewColumns) : c \in ColumnRec
      /\ \A m \in Range(NewIndexes(unique)) : m \in MetaRec
    BY <1>1, CatalogElements DEF NewTable
<1>3. Typed(ColumnPairs, absent)
    BY <1>2, NewPairsKeys, KeyTags DEF Typed
<1>4. Typed(IndexPairs(unique), absent)
    BY <1>2, NewPairsKeys, KeyTags DEF Typed
<1> DEFINE names == [k \in {Root, Hash} |-> "name"]
<1>5. Typed(names, absent)
    BY KeyTags DEF Typed
<1>6. Typed(Over(ColumnPairs, IndexPairs(unique)), absent)
    BY <1>3, <1>4, TypedOver, Zenon
<1> HIDE DEF names
<1>7. Typed(Over(names, Over(ColumnPairs, IndexPairs(unique))), absent)
    BY <1>5, <1>6, TypedOver, Zenon
<1> QED BY <1>7 DEF NewPairs, names

(* ANALYZE saves the statistics of indexes of the table.                    *)
LEMMA SavedIds ==
    ASSUME NEW T, IsCatalog(T), NEW n \in Int, n <= Len(T.indexes)
    PROVE  DOMAIN Saved(T, n) \subseteq 0..MaxIndexId
<1>1. \A i \in 1..Len(T.indexes) : T.indexes[i].id \in 0..MaxIndexId
    BY CatalogElements
<1>2. Len(T.indexes) \in Nat
    BY DEF IsCatalog
<1>3. \A i \in 1..n : i \in 1..Len(T.indexes)
    BY <1>2
<1> QED BY <1>1, <1>3 DEF Saved

(* A transaction sees its batch, and the store where that has no pair.      *)
LEMMA MergeProperties ==
    ASSUME NEW w, NEW g, NEW h, h = Merge(w, g)
    PROVE  /\ \A k : k \in DOMAIN h <=> IF k \in DOMAIN w THEN w[k] # Deleted
                                                      ELSE k \in DOMAIN g /\ g[k] # Deleted
           /\ \A k \in DOMAIN h : h[k] = IF k \in DOMAIN w THEN w[k] ELSE g[k]
           /\ \A k \in DOMAIN h : h[k] # Deleted
           /\ h = [k \in DOMAIN h |-> h[k]]
<1> DEFINE o == Over(w, g)
           D == {k \in DOMAIN o : o[k] # Deleted}
<1>1. DOMAIN o = DOMAIN w \cup DOMAIN g
    BY DEF Over
<1>2. \A k \in DOMAIN o : o[k] = IF k \in DOMAIN w THEN w[k] ELSE g[k]
    BY DEF Over
<1>3. h = [k \in D |-> o[k]]
    BY DEF Merge, RestrictValues, Restrict
<1> HIDE DEF o
<1>4. DOMAIN h = D /\ \A k \in D : h[k] = o[k]
    BY <1>3
<1>5. h = [k \in DOMAIN h |-> h[k]]
    BY <1>3
<1>6. \A k \in DOMAIN h : h[k] = IF k \in DOMAIN w THEN w[k] ELSE g[k]
    BY <1>2, <1>4
<1> QED BY <1>1, <1>2, <1>4, <1>5, <1>6

(* It sees the store as it is where the batch has no keys.                  *)
LEMMA MergeUntouched ==
    ASSUME NEW w, NEW g, NEW tags, KeysOf(w, tags) = {}, \A k \in DOMAIN g : g[k] # Deleted
    PROVE  /\ KeysOf(Merge(w, g), tags) = KeysOf(g, tags)
           /\ \A k \in KeysOf(g, tags) : Merge(w, g)[k] = g[k]
<1> PICK h : h = Merge(w, g)
    OBVIOUS
<1>2. \A k : k[1] \in tags => k \notin DOMAIN w
    BY DEF KeysOf
<1>3. \A k : k[1] \in tags => (k \in DOMAIN h <=> k \in DOMAIN g)
    BY <1>2, MergeProperties
<1>4. KeysOf(h, tags) = KeysOf(g, tags)
    BY <1>3 DEF KeysOf
<1>5. \A k \in KeysOf(g, tags) : h[k] = g[k]
    BY <1>2, <1>3, MergeProperties DEF KeysOf
<1> QED BY <1>4, <1>5

(* A typed batch on a typed store shows a typed store.                      *)
LEMMA TypedMerge ==
    ASSUME NEW w, NEW g, Typed(g, {}), Typed(w, {Deleted})
    PROVE  Typed(Merge(w, g), {})
<1> PICK h : h = Merge(w, g)
    OBVIOUS
<1>2. \A k \in DOMAIN h : /\ k \in DOMAIN w \cup DOMAIN g /\ h[k] # Deleted
                          /\ h[k] = IF k \in DOMAIN w THEN w[k] ELSE g[k]
    BY MergeProperties
<1>3. Typed(h, {})
    BY <1>2 DEF Typed
<1> QED BY <1>3

(* CREATE INDEX resolves the columns it names.                              *)
LEMMA OnIdsTyped ==
    ASSUME NEW q, PlanOK(q), q.op = "create_index"
    PROVE  /\ OnIds(q) \in Seq(0..3)
           /\ \A i \in DOMAIN OnIds(q) : \E c \in Range(q.T.columns) :
                c.id = OnIds(q)[i] /\ c.name = q.s.on[i]
           /\ DOMAIN OnIds(q) = DOMAIN q.s.on
<1> DEFINE on == q.s.on
           T == q.T
<1>1. on \in {<<"b">>, <<"c">>, <<"b", "c">>} /\ IsCatalog(T) /\ Range(on) \subseteq ColumnNames(T)
    BY StatementFields DEF PlanOK
<1>2. on \in Seq({"b", "c"}) /\ \A i \in DOMAIN on : on[i] \in Range(on)
  <2> HIDE DEF on
  <2>1. <<"b">> \in Seq({"b", "c"}) /\ <<"c">> \in Seq({"b", "c"}) /\ <<"b", "c">> \in Seq({"b", "c"})
    OBVIOUS
  <2>2. on \in Seq({"b", "c"})
    BY <1>1, <2>1, Zenon
  <2> QED BY <2>2 DEF Range
<1> HIDE DEF on, T
<1>3. \A i \in DOMAIN on : ColumnNamed(T, on[i]) \in Range(T.columns) /\ ColumnNamed(T, on[i]).name = on[i]
    BY <1>1, <1>2, NamedColumn
<1>4. \A i \in DOMAIN on : ColumnNamed(T, on[i]).id \in 0..3
    BY <1>1, <1>3, CatalogElements, ColumnRecFields
<1>5. OnIds(q) = [i \in DOMAIN on |-> ColumnNamed(T, on[i]).id]
    BY DEF OnIds, on, T
<1>6. OnIds(q) \in Seq(0..3)
    BY <1>2, <1>4, <1>5
<1> QED BY <1>3, <1>5, <1>6 DEF on, T

(* CREATE INDEX writes an index.                                            *)
LEMMA MetaOfTyped ==
    ASSUME NEW T, NEW q, IsCatalog(T), PlanOK(q), q.op = "create_index",
           MetaOf(T, q).id <= MaxIndexId
    PROVE  MetaOf(T, q) \in MetaRec
<1>1. NextIndexId(T) \in Nat
    BY NextIndexIdFresh
<1>2. MetaOf(T, q).id = NextIndexId(T)
    BY DEF MetaOf, IndexMeta
<1>3. NextIndexId(T) \in 0..MaxIndexId
    BY <1>1, <1>2, IdAssumption
<1>4. q.s.name \in IndexName /\ OnIds(q) \in Seq(0..3)
    BY StatementFields, OnIdsTyped DEF PlanOK
<1> QED BY <1>3, <1>4 DEF MetaOf, IndexMeta, MetaRec

(* For a unique column ADD COLUMN writes index entries.                     *)
LEMMA AddEntriesTags == \A f, T, q, id : \A k \in DOMAIN AddEntries(f, T, q, id).puts : k[1] = "entry"
<1>1. ASSUME NEW f, NEW T, NEW q, NEW id, NEW k \in DOMAIN AddEntries(f, T, q, id).puts PROVE k[1] = "entry"
  <2> DEFINE index == AddIndex(f, CHOOSE m \in AddUnique(f, T, q, id) : \A n \in AddUnique(f, T, q, id) : m.id <= n.id,
                               [p \in Rows(f) |-> <<AddValue(q)>>])
  <2>1. AddEntries(f, T, q, id).puts = index.puts \/ AddEntries(f, T, q, id).puts = Empty
    BY Zenon DEF AddEntries
  <2>2. \A j \in DOMAIN index.puts : j[1] = "entry"
    BY AddIndexTags, Zenon
  <2> HIDE DEF index
  <2> QED BY <1>1, <2>1, <2>2, EmptyKeys
<1> QED BY <1>1, Zenon

(* What ADD COLUMN writes is typed.                                         *)
LEMMA AddColumnPuts ==
    ASSUME NEW f, NEW T, NEW q, IsCatalog(T), PlanOK(q), q.op = "add_column",
           NEW id, ~AddExists(T) => id \in NewColumnIds(T),
           q.s.unique /\ ~AddExists(T) => AddUk(T, id).id <= MaxIndexId
    PROVE  \A absent : /\ Typed(AddRows(f, q), absent) /\ Typed(AddPuts(f, T, q, id), absent)
                       /\ Typed(AddAll(f, T, q, id), absent)
<1>1. \A absent : Typed(AddRows(f, q), absent)
  <2>1. DOMAIN AddRows(f, q) = KeysOf(f, {"tuple"})
    BY DEF AddRows
  <2>2. \A k \in KeysOf(f, {"tuple"}) : k[1] \notin CatalogTags
    BY DEF KeysOf, CatalogTags
  <2> QED BY <2>1, <2>2, UntaggedTyped, Zenon
<1>2. \A absent : Typed(AddEntries(f, T, q, id).puts, absent)
    BY AddEntriesTags, UntaggedTyped DEF CatalogTags
<1>3. q.s.default \in CVal \cup {None}
    BY StatementFields DEF PlanOK
<1>4. ASSUME ~AddExists(T)
      PROVE  /\ AddC(q, id) \in ColumnRec
             /\ q.s.unique => AddUk(T, id) \in MetaRec
  <2>1. "c" \notin ColumnNames(T)
    BY <1>4 DEF AddExists
  <2>2. id \in 0..3 /\ AddC(q, id) \in ColumnRec
    BY <1>3, <1>4, <2>1, NewColumn DEF AddC
  <2>3. AddC(q, id) \in ColumnRec
    BY <2>2
  <2>4. id \in 0..3 /\ NextIndexId(T) \in Nat
    BY <2>2, NextIndexIdFresh
  <2>5. AddUk(T, id).id = NextIndexId(T)
    BY DEF AddUk, IndexMeta
  <2>6. q.s.unique => NextIndexId(T) \in 0..MaxIndexId
    BY <1>4, <2>4, <2>5, IdAssumption
  <2>7. <<id>> \in Seq(0..3)
    BY <2>4
  <2>8. q.s.unique => AddUk(T, id) \in MetaRec
    BY <2>6, <2>7 DEF AddUk, IndexMeta, MetaRec
  <2> QED BY <2>3, <2>8
<1>5. ASSUME NEW absent, ~AddExists(T)
      PROVE  Typed(Over(Pair(ColumnKey(id), AddC(q, id)),
                        IF q.s.unique THEN Pair(IndexKey(AddUk(T, id).id), AddUk(T, id)) ELSE Empty), absent)
  <2> DEFINE uk == IF q.s.unique THEN Pair(IndexKey(AddUk(T, id).id), AddUk(T, id)) ELSE Empty
  <2>1. Typed(Pair(ColumnKey(id), AddC(q, id)), absent)
    <3>1. AddC(q, id).id = id
      BY DEF AddC, Column
    <3> QED BY <1>4, <1>5, <3>1, PairTyped
  <2>2. Typed(uk, absent)
    BY <1>4, <1>5, PairTyped, EmptyTyped
  <2> HIDE DEF uk
  <2>3. Typed(Over(Pair(ColumnKey(id), AddC(q, id)), uk), absent)
    BY <2>1, <2>2, TypedOver, Zenon
  <2> QED BY <2>3 DEF uk
<1>6. \A absent : Typed(AddPuts(f, T, q, id), absent)
  <2>1. CASE AddExists(T)
    BY <1>1, <2>1 DEF AddPuts
  <2>2. CASE ~AddExists(T)
    BY <1>1, <1>5, <2>2, TypedOver, Zenon DEF AddPuts
  <2> QED BY <2>1, <2>2
<1>7. \A absent : Typed(AddAll(f, T, q, id), absent)
    BY <1>2, <1>6, TypedOver, Zenon DEF AddAll
<1> QED BY <1>1, <1>6, <1>7, Zenon

=============================================================================
