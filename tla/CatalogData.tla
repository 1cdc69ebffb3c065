----------------------------- MODULE CatalogData -----------------------------
(***************************************************************************)
(* A table, its indexes and a view of one name as key/value pairs: the keys *)
(* and values, the catalog they make, the statements on them, and what the  *)
(* executors compute from them.  No state; see module Catalog.              *)
(***************************************************************************)
EXTENDS Integers, Sequences, FiniteSetsExt

CONSTANTS
    Pk,           \* primary keys
    BVal, CVal,   \* values of the columns "b" and "c"
    IndexName,    \* names CREATE INDEX may use
    ViewBody,     \* definitions CREATE VIEW may use
    BitsMaxIndex, \* columns per byte of a tuple's NULL bitmap (tuple.rs: 8)
    MaxIndexId,   \* bound: index ids of the table
    None, Null, Deleted

ASSUME PkAssumption == Pk \subseteq Int
ASSUME BitsAssumption == BitsMaxIndex \in Nat \ {0}
\* Up to 255 the little-endian bytes of an index id sort as the id does.
ASSUME IdAssumption == MaxIndexId \in 1..255

-----------------------------------------------------------------------------
(* Keys and values of the store.                                            *)

Root == <<"root">>
Hash == <<"hash">>
ViewKey == <<"view">>
ColumnKey(id) == <<"column", id>>
IndexKey(id) == <<"index", id>>
StatKey(id) == <<"stat", id>>
TupleKey(pk) == <<"tuple", pk>>
EntryKey(meta, vals, pk) ==
    IF meta.ty = "unique" THEN <<"entry", meta.id, vals>>
                          ELSE <<"entry", meta.id, vals, pk>>

KeysOf(f, tags) == {k \in DOMAIN f : k[1] \in tags}
EntriesOf(f, id) == {k \in KeysOf(f, {"entry"}) : k[2] = id}
Empty == [k \in {} |-> None]
Pair(k, v) == [x \in {k} |-> v]

(* The pairs of g under those of f.                                         *)
Over(f, g) == [k \in DOMAIN f \cup DOMAIN g |-> IF k \in DOMAIN f THEN f[k] ELSE g[k]]

(* What a transaction with the write batch w sees of the store f.           *)
Merge(w, f) == RestrictValues(Over(w, f), LAMBDA v : v # Deleted)

Column(id, name, default) == [id |-> id, name |-> name, default |-> default]
IndexMeta(id, name, columns, ty) ==
    [id |-> id, name |-> name, columns |-> columns, ty |-> ty]

(* The elements of S in the order of their ids.                             *)
WithBefore(S, n) == CHOOSE x \in S : Cardinality({y \in S : y.id < x.id}) = n
ById(S) == [i \in 1..Cardinality(S) |-> WithBefore(S, i - 1)]

(* table_collect: a table is there when it has columns.  Columns are in the  *)
(* order of their ids, which need not be the order they were added in.      *)
Collect(f) ==
    LET columns == ById({f[k] : k \in KeysOf(f, {"column"})})
    IN  IF columns = <<>> THEN None
        ELSE [columns |-> columns, indexes |-> ById({f[k] : k \in KeysOf(f, {"index"})})]

NextIndexId(T) == IF T.indexes = <<>> THEN 0 ELSE T.indexes[Len(T.indexes)].id + 1
(* Generator::generate: a ULID is the time in milliseconds and random bits,  *)
(* and each generator counts on from its own last one only.  ADD COLUMN has *)
(* a generator of its own: its id comes after those of the table, or before *)
(* them when it falls in the same millisecond or the clock was set back.    *)
NewColumnIds(T) == {T.columns[1].id - 1, T.columns[Len(T.columns)].id + 1}

ColumnNames(T) == {c.name : c \in Range(T.columns)}
ColumnNamed(T, name) == CHOOSE c \in Range(T.columns) : c.name = name
IndexNames(T) == {m.name : m \in Range(T.indexes)}
IndexNamed(T, name) == CHOOSE m \in Range(T.indexes) : m.name = name

-----------------------------------------------------------------------------
(* Statements and their binding (db.rs, binder/).  flag is IF [NOT] EXISTS  *)
(* or OR REPLACE; idents is the column list of INSERT, <<>> without one.    *)

Statements ==
    [op : {"create_table"}, unique : BOOLEAN, flag : BOOLEAN]
    \cup [op : {"drop_table", "drop_view"}, flag : BOOLEAN]
    \cup [op : {"create_index"}, name : IndexName, unique : BOOLEAN,
          on : {<<"b">>, <<"c">>, <<"b", "c">>}, flag : BOOLEAN]
    \cup [op : {"drop_index"}, name : IndexName \cup {"pk_index"}, flag : BOOLEAN]
    \cup [op : {"add_column"}, unique : BOOLEAN, default : CVal \cup {None},
          nullable : BOOLEAN, flag : BOOLEAN]
    \cup [op : {"drop_column"}, name : {"a", "b", "c"}, flag : BOOLEAN]
    \cup [op : {"create_view"}, body : ViewBody, flag : BOOLEAN]
    \cup [op : {"insert"}, pk : Pk, b : BVal \cup {Null}, idents : {<<>>, <<"b", "a">>}]
    \cup [op : {"delete"}, pk : Pk]
    \cup [op : {"truncate", "analyze", "select"}]

(* What a statement needs to find; it is not bound without it.              *)
Bindable(s, T, V) ==
    CASE s.op \in {"add_column", "drop_column", "delete", "analyze"} -> T # None
      [] s.op = "create_index" -> T # None /\ Range(s.on) \subseteq ColumnNames(T)
      [] s.op = "insert" -> T # None /\ {"a", "b"} \subseteq ColumnNames(T)
      [] s.op = "select" -> T # None \/ V # None
      [] OTHER -> TRUE

ReadsTable == {"create_index", "add_column", "drop_column", "insert", "delete",
               "analyze", "select"}

DDL == {"create_table", "drop_table", "create_index", "drop_index",
        "add_column", "drop_column", "create_view", "drop_view"}

(* Statements whose executor publishes to the table or the view cache       *)
(* before the commit.                                                       *)
Publishing == {"create_table", "create_index", "add_column", "create_view"}

-----------------------------------------------------------------------------
(* What executors compute.                                                  *)

(* Bytes of the NULL bitmap of a tuple of n values.                         *)
BitsLen(n) == (n + BitsMaxIndex) \div BitsMaxIndex

Rows(f) == {k[2] : k \in KeysOf(f, {"tuple"})}

(* Tuple::deserialize_from of all columns of T, as the executors here read; *)
(* for a row whose NULL bitmap has the length that the number of columns    *)
(* implies (see RowsDecodable).                                             *)
Decode(T, row) == [i \in 1..Len(T.columns) |-> IF i \in DOMAIN row THEN row[i] ELSE Null]

(* ScalarExpression::eval of column references: the value at the place the  *)
(* column has in a schema (a sequence of column ids), NULL without one.     *)
Project(schema, row, ids) ==
    [i \in DOMAIN ids |-> IF ids[i] \in Range(schema)
                          THEN row[Min({j \in DOMAIN schema : schema[j] = ids[i]})]
                          ELSE Null]

Ids(columns) == [i \in DOMAIN columns |-> columns[i].id]

(* The value of the columns of index m in row p.                            *)
Indexed(f, m, p) ==
    Project(Ids(Collect(f).columns), Decode(Collect(f), f[TupleKey(p)]), m.columns)

(* IndexMeta::column_exprs fails: an index names a column that is not there. *)
Dangling(T) ==
    /\ T # None
    /\ \E m \in Range(T.indexes) : ~(Range(m.columns) \subseteq Range(Ids(T.columns)))

(* Mutant of AddIndex: a unique key that is taken is written again.         *)
AddIndexUnchecked(f, meta, vals) ==
    LET key(p) == EntryKey(meta, vals[p], p)
    IN  [ok |-> TRUE,
         puts |-> [k \in {key(p) : p \in DOMAIN vals} |-> CHOOSE p \in DOMAIN vals : key(p) = k]]

(* Transaction::add_index for one row after another, in key order: a unique *)
(* key that another row has is refused.  What was written is what came      *)
(* before the first refusal.                                                *)
AddIndex(f, meta, vals) ==
    LET key(p) == EntryKey(meta, vals[p], p)
        taken(p) == \/ key(p) \in DOMAIN f /\ f[key(p)] # p
                    \/ \E q \in DOMAIN vals : q < p /\ key(q) = key(p)
        refused == {p \in DOMAIN vals : meta.ty = "unique" /\ taken(p)}
        added == {p \in DOMAIN vals : \A q \in refused : p < q}
    IN  [ok |-> refused = {},
         puts |-> [k \in {key(p) : p \in added} |-> CHOOSE p \in added : key(p) = k]]

(* Vec::remove.                                                             *)
RemoveAt(s, n) == [i \in 1..(Len(s) - 1) |-> IF i < n THEN s[i] ELSE s[i + 1]]

(* drop_data: the rows, the index entries and the statistics paths; the     *)
(* mutant leaves the paths.                                                 *)
DataWithoutPaths(f) == KeysOf(f, {"tuple", "entry"})
Data(f) == KeysOf(f, {"tuple", "entry", "stat"})

(* What goes with an index: its meta, its entries, its statistics path; the *)
(* mutant leaves the path.                                                  *)
IndexWithoutPath(f, id) == {IndexKey(id)} \cup EntriesOf(f, id)
IndexData(f, id) == {IndexKey(id), StatKey(id)} \cup EntriesOf(f, id)

(* The row with the value of the new column; the mutant forgets it.         *)
NotWidened(T, row, value) == Decode(T, row)
Widened(T, row, value) == Append(Decode(T, row), value)
=============================================================================
