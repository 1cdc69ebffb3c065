------------------------------ MODULE MCCatalog ------------------------------
(* Instances of Catalog for TLC, and its properties without exemptions.     *)
EXTENDS Catalog, TLC

Symmetry == Permutations(Txn)

(* Statements of the given kinds, with or without IF [NOT] EXISTS, OR       *)
(* REPLACE and UNIQUE, on the given rows.                                   *)
Some(ops, flags, uniques, pks) ==
    {s \in Statements :
        /\ s.op \in ops
        /\ "flag" \in DOMAIN s => s.flag \in flags
        /\ "unique" \in DOMAIN s => s.unique \in uniques
        /\ "pk" \in DOMAIN s => s.pk \in pks
        /\ "idents" \in DOMAIN s => s.idents = <<>>}

(* Applications that alter tables, plainly and with IF [NOT] EXISTS, that   *)
(* trade names between tables and views, and that analyze tables.           *)
OneSession ==
    [alter |-> Some({"create_table", "drop_table", "create_index", "drop_index",
                     "add_column", "drop_column", "insert", "delete"},
                    {FALSE}, BOOLEAN, Pk),
     guarded |-> Some({"create_table", "drop_table", "create_index", "drop_index",
                       "add_column", "drop_column", "insert", "truncate"},
                      BOOLEAN, {TRUE}, {1}),
     rename |-> Some({"create_table", "drop_table", "create_view", "drop_view",
                      "create_index", "insert", "truncate", "analyze", "select"},
                     BOOLEAN, {FALSE}, {1}),
     analyze |-> Some({"create_table", "drop_table", "create_index", "drop_index",
                       "add_column", "drop_column", "analyze", "select"},
                      {FALSE}, {FALSE}, {})]

TwoSessions ==
    [index |-> Some({"create_table", "drop_table", "create_index", "insert"},
                    {FALSE}, {FALSE}, {1}),
     alter |-> Some({"create_table", "drop_table", "add_column", "drop_column"},
                    {FALSE}, {FALSE}, {}),
     analyze |-> Some({"create_table", "drop_table", "analyze"}, {FALSE}, {FALSE}, {}),
     delete |-> Some({"create_table", "drop_table", "delete", "select"}, {FALSE}, {FALSE}, {1})]

(* INSERT with a column list.                                               *)
Inserting ==
    [list |-> {s \in Statements : s.op \in {"create_table", "insert"}}]

(* The properties say nothing after a hazard, so nothing is explored there. *)
Untainted == hazard = {}
OnlyOverlap == hazard \subseteq {"overlap"}

AllClosed == \A t \in Txn : phase[t] = "closed"

(* "All metadata [is] in KV Storage" (README): between transactions the     *)
(* table cache holds what the store holds.  A statement that failed or was  *)
(* dropped after it published to the cache breaks it.                       *)
TableCacheIsStore ==
    AllClosed /\ "overlap" \notin hazard => tcache \in {None, Collect(store)}

(* A row can be decoded with the types of its table: the bitmap in front of *)
(* the values has the length deserialize_from computes from the columns.    *)
RowsDecodable ==
    hazard \subseteq {"rewritten"} =>
        \A k \in KeysOf(store, {"tuple"}) :
            BitsLen(Len(store[k])) = BitsLen(Len(Collect(store).columns))

(* Column a of a row reads back as the key the row is stored under: ADD     *)
(* COLUMN leaves the values of the other columns where they are             *)
(* (tests/slt/alter_table.slt).                                             *)
KeysReadBack ==
    hazard \subseteq {"reordered"} /\ Collect(store) # None =>
        LET T == Collect(store)
        IN  \A p \in Rows(store) :
                Project(Ids(T.columns), Decode(T, store[TupleKey(p)]), <<ColumnNamed(T, "a").id>>) = <<p>>

(* No two rows have the same value in a unique column.                      *)
UniqueValues ==
    hazard \subseteq {"projected"} /\ Collect(store) # None =>
        \A m \in Range(Collect(store).indexes) : m.ty = "unique" =>
            \A p, q \in Rows(store) :
                /\ p # q
                /\ Indexed(store, m, p) = Indexed(store, m, q)
                => Null \in Range(Indexed(store, m, p))
=============================================================================
