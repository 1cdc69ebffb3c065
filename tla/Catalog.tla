------------------------------- MODULE Catalog -------------------------------
(***************************************************************************)
(* The catalog of KiteSQL: how CREATE, DROP, ALTER, TRUNCATE and ANALYZE    *)
(* change the keys of one table-or-view name in the key/value store, and    *)
(* the three caches (table, view, statistics) in front of those keys.       *)
(*                                                                          *)
(* A statement is bound under the metadata lock, which Database::execute    *)
(* releases when it returns; its executor runs later, and the transaction   *)
(* commits later still.  The caches are shared and not transactional: an    *)
(* executor changes them when it runs.  One executor run is one step here;  *)
(* module TransactionalTable takes the DML executors apart.                 *)
(***************************************************************************)
EXTENDS CatalogData

CONSTANTS
    Txn,      \* transactions (DatabaseIter or DBTransaction)
    Workload, \* for each kind of application, the statements it runs
    Explicit  \* whether it opens DBTransactions

ASSUME WorkloadAssumption == \A w \in DOMAIN Workload : Workload[w] \subseteq Statements

-----------------------------------------------------------------------------
VARIABLES
    store,    \* committed key/value pairs
    ws,       \* ws[t]: write batch
    stale,    \* stale[t]: keys of the batch overtaken by a commit
    phase,    \* phase[t]: "closed", "open", "bound" or "ran"
    guard,    \* guard[t]: t holds the metadata lock for reading
    plan,     \* plan[t]: the bound statement, with the catalog it was bound to
    tcache,   \* table cache: None or a catalog
    vcache,   \* view cache: None or a view body
    mcache,   \* statistics cache, by index id: the index they were built for
    file,     \* statistics files, by index id: the same
    app,      \* the kind of application
    \* History, read by the properties only:
    ran,      \* ran[t]: statements t has run
    calm,     \* DBTransactions opened while no DDL statement was in flight
    hazard    \* what the properties exempt, see the actions

vars == <<store, ws, stale, phase, guard, plan, tcache, vcache, mcache, file,
          app, ran, calm, hazard>>

NoPlan == [op |-> "none"]

View(t) == Merge(ws[t], store)

(* Transaction::table, Transaction::view: the cache first.                  *)
Table(f) == IF tcache # None THEN tcache ELSE Collect(f)
ViewOf(f) ==
    IF vcache # None THEN vcache
    ELSE IF ViewKey \in DOMAIN f THEN f[ViewKey] ELSE None

Init ==
    /\ store = Empty
    /\ ws = [t \in Txn |-> Empty]
    /\ stale = [t \in Txn |-> {}]
    /\ phase = [t \in Txn |-> "closed"]
    /\ guard = [t \in Txn |-> FALSE]
    /\ plan = [t \in Txn |-> NoPlan]
    /\ tcache = None
    /\ vcache = None
    /\ mcache = Empty
    /\ file = Empty
    /\ app \in DOMAIN Workload
    /\ ran = [t \in Txn |-> {}]
    /\ calm = {}
    /\ hazard = {}

-----------------------------------------------------------------------------
(* What a step adds to the history.  "overlap": a statement has written, is *)
(* not committed, and another transaction is open.                          *)
Mark(what) ==
    /\ hazard' = hazard \cup what \cup
          IF \E x, y \in Txn : x # y /\ phase'[x] # "closed" /\ ws'[y] # Empty
          THEN {"overlap"} ELSE {}
    /\ UNCHANGED app

(* Mutant of Close: the plan is left behind.                                *)
CloseKeepsPlan(t) ==
    /\ ws' = [ws EXCEPT ![t] = Empty]
    /\ phase' = [phase EXCEPT ![t] = "closed"]
    /\ guard' = [guard EXCEPT ![t] = FALSE]
    /\ UNCHANGED plan
    /\ ran' = [ran EXCEPT ![t] = {}]
    /\ calm' = calm \ {t}

Close(t) ==
    /\ ws' = [ws EXCEPT ![t] = Empty]
    /\ phase' = [phase EXCEPT ![t] = "closed"]
    /\ guard' = [guard EXCEPT ![t] = FALSE]
    /\ plan' = [plan EXCEPT ![t] = NoPlan]
    /\ ran' = [ran EXCEPT ![t] = {}]
    /\ calm' = calm \ {t}

(* The transaction is dropped.  "abandoned": after it published to a cache. *)
Drop(t, published) ==
    /\ Close(t)
    /\ stale' = [stale EXCEPT ![t] = {}]
    /\ UNCHANGED store
    /\ Mark(IF published THEN {"abandoned"} ELSE {})

(* A statement of t is over and its writes are in the batch.                *)
Keep(t, puts, dels, what) ==
    /\ ws' = [ws EXCEPT ![t] = Over(puts, Over([k \in dels |-> Deleted], ws[t]))]
    /\ phase' = [phase EXCEPT ![t] = IF guard[t] THEN "open" ELSE "ran"]
    /\ plan' = [plan EXCEPT ![t] = NoPlan]
    /\ ran' = [ran EXCEPT ![t] = @ \cup {plan[t].op}]
    /\ UNCHANGED <<store, stale, guard, calm>>
    /\ Mark(what)

Done(t, puts, dels) == Keep(t, puts, dels, {})

(* The executor of t yields an error (throw!) after it wrote puts, and maybe *)
(* published.  The caller drops the transaction, as done() does, or takes   *)
(* the error from next() and goes on; "torn": half a statement may then be  *)
(* committed.                                                               *)
Err(t, puts, published) ==
    \/ Drop(t, published)
    \/ Keep(t, puts, {}, IF puts = Empty THEN {} ELSE {"torn"})

-----------------------------------------------------------------------------
(* Statistics the optimizer may load for a query on T                       *)
(* (StatisticMetaLoader::load): not cached, recorded in the store.  When the *)
(* file of a recorded path is gone, from_file creates an empty one and the  *)
(* statement is not bound; StatisticsRecorded says that no state is such.   *)
Loadable(f, T) ==
    {m.id : m \in {m \in Range(T.indexes) :
                     /\ m.id \notin DOMAIN mcache
                     /\ StatKey(m.id) \in DOMAIN f
                     /\ m.id \in DOMAIN file}}

(* Database::new_transaction: the read guard lives as long as it.           *)
BeginExplicit(t) ==
    /\ Explicit
    /\ phase[t] = "closed"
    /\ phase' = [phase EXCEPT ![t] = "open"]
    /\ guard' = [guard EXCEPT ![t] = TRUE]
    /\ calm' = IF \A x \in Txn : plan[x].op \notin DDL /\ ran[x] \cap DDL = {}
               THEN calm \cup {t} ELSE calm
    /\ UNCHANGED <<store, ws, stale, plan, tcache, vcache, mcache, file, ran>>
    /\ Mark({})

(* Mutant of LockFree: DDL takes the lock for reading.                      *)
LockShared(t, s) == s.op \in DDL => ~guard[t]

(* The lock of a DDL statement is the write lock, and a DBTransaction runs  *)
(* no DDL.                                                                  *)
LockFree(t, s) == s.op \in DDL => \A x \in Txn : ~guard[x]

(* Database::execute and DBTransaction::execute: bind and optimise under    *)
(* the metadata lock, through the caches.                                   *)
Bind(t, s) ==
    LET f == View(t)
        T == Table(f)
        V == ViewOf(f)
    IN  /\ phase[t] \in {"closed", "open"}
        /\ LockFree(t, s)
        /\ Bindable(s, T, V)
        /\ plan' = [plan EXCEPT ![t] =
              [op |-> s.op, s |-> s, T |-> IF s.op \in ReadsTable THEN T ELSE None]]
        /\ phase' = [phase EXCEPT ![t] = "bound"]
        /\ tcache' = IF s.op \in ReadsTable THEN T ELSE tcache
        /\ vcache' = IF s.op = "select" /\ T = None THEN V ELSE vcache
        /\ \E ids \in IF s.op \in {"select", "delete"} /\ T # None
                      THEN SUBSET Loadable(f, T) ELSE {{}} :
              mcache' = Over(mcache, Restrict(file, ids))
        /\ UNCHANGED <<store, ws, stale, guard, file, ran, calm>>
        /\ Mark({})

Commit(t) ==
    /\ phase[t] \in {"open", "ran"}
    /\ stale[t] = {}
    /\ store' = View(t)
    /\ stale' = [x \in Txn |-> IF x = t THEN {}
                               ELSE stale[x] \cup (DOMAIN ws[x] \cap DOMAIN ws[t])]
    /\ Close(t)
    /\ UNCHANGED <<tcache, vcache, mcache, file>>
    /\ Mark({})

(* The iterator of a statement in a DBTransaction is dropped unused.        *)
DropIterator(t) ==
    /\ phase[t] = "bound" /\ guard[t]
    /\ phase' = [phase EXCEPT ![t] = "open"]
    /\ plan' = [plan EXCEPT ![t] = NoPlan]
    /\ UNCHANGED <<store, ws, stale, guard, tcache, vcache, mcache, file, app, ran, calm, hazard>>

(* The iterator or the transaction is dropped, or RocksDB refuses to commit. *)
Abandon(t) ==
    /\ phase[t] # "closed"
    /\ Drop(t, ws[t] # Empty /\ ran[t] \cap Publishing # {})
    /\ UNCHANGED <<tcache, vcache, mcache, file>>

(* The process restarts: the caches are empty, the store and the files stay. *)
Crash ==
    /\ ws' = [t \in Txn |-> Empty]
    /\ stale' = [t \in Txn |-> {}]
    /\ phase' = [t \in Txn |-> "closed"]
    /\ guard' = [t \in Txn |-> FALSE]
    /\ plan' = [t \in Txn |-> NoPlan]
    /\ ran' = [t \in Txn |-> {}]
    /\ calm' = {}
    /\ tcache' = None
    /\ vcache' = None
    /\ mcache' = Empty
    /\ UNCHANGED <<store, file, app, hazard>>

(* Entries of other names push ours out of the shared caches.               *)
Evict ==
    /\ \/ tcache # None /\ tcache' = None /\ UNCHANGED <<vcache, mcache>>
       \/ vcache # None /\ vcache' = None /\ UNCHANGED <<tcache, mcache>>
       \/ \E id \in DOMAIN mcache :
            /\ mcache' = Restrict(mcache, DOMAIN mcache \ {id})
            /\ UNCHANGED <<tcache, vcache>>
    /\ UNCHANGED <<store, ws, stale, phase, guard, plan, file, app, ran, calm, hazard>>

-----------------------------------------------------------------------------
(* Executors (execution/ddl/, execution/dml/) with the storage methods they *)
(* call (storage/mod.rs).                                                   *)

Running(t, op) == phase[t] = "bound" /\ plan[t].op = op

(* table_cache.remove, view_cache.remove, and a mutant that forgets to.     *)
UncacheTable == tcache' = None
KeepView == UNCHANGED vcache
UncacheView == vcache' = None

(* create_table with columns a (the primary key) and b; a unique b gets the *)
(* first index id and pk_index the next.                                    *)
CreateTable(t) ==
    LET f == View(t)
        s == plan[t].s
        columns == <<Column(1, "a", None), Column(2, "b", None)>>
        indexes == IF s.unique THEN <<IndexMeta(0, "uk_b_index", <<2>>, "unique"),
                                      IndexMeta(1, "pk_index", <<1>>, "primary")>>
                               ELSE <<IndexMeta(0, "pk_index", <<1>>, "primary")>>
    IN  /\ Running(t, "create_table")
        /\ \/ /\ Root \in DOMAIN f
              /\ IF s.flag THEN Done(t, Empty, {}) ELSE Err(t, Empty, FALSE)
              /\ UNCHANGED tcache
           \/ /\ Root \notin DOMAIN f /\ Hash \in DOMAIN f
              /\ Err(t, Empty, FALSE)
              /\ UNCHANGED tcache
           \/ /\ Root \notin DOMAIN f /\ Hash \notin DOMAIN f
              /\ Done(t, Over([k \in {Root, Hash} |-> "name"],
                      Over([k \in {ColumnKey(c.id) : c \in Range(columns)} |-> columns[k[2]]],
                           [k \in {IndexKey(m.id) : m \in Range(indexes)} |-> indexes[k[2] + 1]])),
                      {})
              /\ tcache' = [columns |-> columns, indexes |-> indexes]
        /\ UNCHANGED <<vcache, mcache, file>>

(* The cached statistics and the statistics files stay.                     *)
DropTable(t) ==
    LET f == View(t)
        T == Table(f)
    IN  /\ Running(t, "drop_table")
        /\ \/ /\ T = None
              /\ IF plan[t].s.flag THEN Done(t, Empty, {}) ELSE Err(t, Empty, FALSE)
              /\ UNCHANGED tcache
           \/ /\ T # None
              /\ Done(t, Empty, {Root, Hash} \cup Data(f) \cup KeysOf(f, {"column", "index"}))
              /\ UncacheTable
        /\ UNCHANGED <<vcache, mcache, file>>

(* The index meta is written and the cache entry removed before the scan,   *)
(* which loads the catalog again, the new index included.                   *)
CreateIndex(t) ==
    LET f == View(t)
        T == Table(f)
        s == plan[t].s
        ids == [i \in DOMAIN s.on |-> ColumnNamed(plan[t].T, s.on[i]).id]
        meta == IndexMeta(NextIndexId(T), s.name, ids,
                          IF s.unique THEN "unique"
                          ELSE IF Len(ids) = 1 THEN "normal" ELSE "composite")
        g == Over(Pair(IndexKey(meta.id), meta), f)
        vals == [p \in Rows(f) |-> Project(Ids(plan[t].T.columns),
                                           Decode(plan[t].T, f[TupleKey(p)]), ids)]
        index == AddIndex(f, meta, vals)
        puts == Over(Pair(IndexKey(meta.id), meta), index.puts)
    IN  /\ Running(t, "create_index")
        /\ \/ T = None /\ Err(t, Empty, FALSE) /\ UNCHANGED tcache
           \/ /\ T # None /\ s.name \in IndexNames(T)
              /\ IF s.flag THEN Done(t, Empty, {}) ELSE Err(t, Empty, FALSE)
              /\ tcache' = T
           \/ /\ T # None /\ s.name \notin IndexNames(T)
              /\ ~(Range(ids) \subseteq Range(Ids(T.columns)))
              /\ Err(t, Empty, FALSE)
              /\ tcache' = T
           \/ /\ T # None /\ s.name \notin IndexNames(T)
              /\ Range(ids) \subseteq Range(Ids(T.columns))
              /\ meta.id <= MaxIndexId
              /\ IF index.ok THEN Done(t, puts, {}) ELSE Err(t, puts, TRUE)
              /\ tcache' = Collect(g)
        /\ UNCHANGED <<vcache, mcache, file>>

(* The cached statistics of the index stay.                                 *)
DropIndex(t) ==
    LET f == View(t)
        T == Table(f)
        s == plan[t].s
        meta == IndexNamed(T, s.name)
    IN  /\ Running(t, "drop_index")
        /\ \/ T = None /\ Err(t, Empty, FALSE) /\ UNCHANGED tcache
           \/ /\ T # None /\ s.name \notin IndexNames(T)
              /\ IF s.flag THEN Done(t, Empty, {}) ELSE Err(t, Empty, FALSE)
              /\ tcache' = T
           \/ /\ T # None /\ s.name \in IndexNames(T)
              /\ meta.ty \in {"primary", "unique"}
              /\ Err(t, Empty, FALSE)
              /\ tcache' = T
           \/ /\ T # None /\ s.name \in IndexNames(T)
              /\ meta.ty \in {"normal", "composite"}
              /\ Done(t, Empty, IndexData(f, meta.id))
              /\ UncacheTable
        /\ UNCHANGED <<vcache, mcache, file>>

(* Every row is read and written back one value longer before anything is   *)
(* checked, so IF NOT EXISTS on a column that exists rewrites the rows       *)
(* ("rewritten").  The catalog is cached again with the new column in it,    *)
(* in the place of its id, while the rows have the value at their end       *)
(* ("reordered": that is another place).                                    *)
AddColumn(t) ==
    LET f == View(t)
        T == Table(f)
        B == plan[t].T
        s == plan[t].s
        value == IF s.default # None THEN s.default ELSE Null
        rows == [k \in KeysOf(f, {"tuple"}) |-> Widened(B, f[k], value)]
        exists == "c" \in ColumnNames(T)
        ids == IF exists THEN {ColumnNamed(T, "c").id} ELSE NewColumnIds(T)
        first(id) == \E c \in Range(T.columns) : id < c.id
        uk(id) == IndexMeta(NextIndexId(T), "uk_c", <<id>>, "unique")
        puts(id) == IF exists THEN rows
                    ELSE Over(rows, Over(Pair(ColumnKey(id), Column(id, "c", s.default)),
                                         IF s.unique THEN Pair(IndexKey(uk(id).id), uk(id)) ELSE Empty))
        G(id) == IF exists THEN T ELSE Collect(Over(puts(id), f))
        unique(id) == {m \in Range(G(id).indexes) : m.ty = "unique" /\ m.columns[1] = id}
        index(id) == IF s.unique /\ s.default # None /\ unique(id) # {}
                     THEN AddIndex(f, CHOOSE m \in unique(id) : \A n \in unique(id) : m.id <= n.id,
                                   [p \in Rows(f) |-> <<value>>])
                     ELSE [ok |-> TRUE, puts |-> Empty]
    IN  /\ Running(t, "add_column")
        /\ \/ T = None /\ Err(t, Empty, FALSE) /\ UNCHANGED tcache
           \/ /\ T # None /\ ~s.nullable /\ s.default = None
              /\ Err(t, rows, FALSE)
              /\ tcache' = T
           \/ /\ T # None /\ (s.nullable \/ s.default # None)
              /\ exists /\ ~s.flag
              /\ Err(t, rows, FALSE)
              /\ tcache' = T
           \/ /\ T # None /\ (s.nullable \/ s.default # None)
              /\ exists => s.flag
              /\ s.unique /\ ~exists => NextIndexId(T) <= MaxIndexId
              /\ \E id \in ids :
                    /\ IF index(id).ok
                       THEN Keep(t, Over(puts(id), index(id).puts), {},
                                 IF rows = Empty THEN {}
                                 ELSE IF exists THEN {"rewritten"}
                                 ELSE IF first(id) THEN {"reordered"} ELSE {})
                       ELSE Err(t, Over(puts(id), index(id).puts), ~exists)
                    /\ tcache' = G(id)
        /\ UNCHANGED <<vcache, mcache, file>>

DropColumn(t) ==
    LET f == View(t)
        T == Table(f)
        B == plan[t].T
        s == plan[t].s
        c == ColumnNamed(B, s.name)
        at == Min({i \in DOMAIN B.columns : B.columns[i].name = s.name})
        rows == [k \in KeysOf(f, {"tuple"}) |-> RemoveAt(Decode(B, f[k]), at)]
        gone == {m \in Range(T.indexes) : c.id \in Range(m.columns)}
    IN  /\ Running(t, "drop_column")
        /\ \/ /\ s.name \notin ColumnNames(B)
              /\ IF s.flag THEN Done(t, Empty, {}) ELSE Err(t, Empty, FALSE)
              /\ UNCHANGED <<tcache, mcache>>
           \/ /\ s.name = "a"
              /\ Err(t, Empty, FALSE)
              /\ UNCHANGED <<tcache, mcache>>
           \/ /\ s.name \in ColumnNames(B) \ {"a"}
              /\ \/ T = None /\ Err(t, Empty, FALSE)
                 \/ T # None /\ s.name \notin ColumnNames(T) /\ Drop(t, FALSE)   \* unwrap
              /\ tcache' = T
              /\ UNCHANGED mcache
           \/ /\ s.name \in ColumnNames(B) \ {"a"}
              /\ T # None /\ s.name \in ColumnNames(T)
              /\ Done(t, rows,
                      {ColumnKey(c.id)} \cup UNION {IndexData(f, m.id) : m \in gone})
              /\ UncacheTable
              /\ mcache' = Restrict(mcache, DOMAIN mcache \ {m.id : m \in gone})
        /\ UNCHANGED <<vcache, file>>

CreateView(t) ==
    LET f == View(t)
        s == plan[t].s
    IN  /\ Running(t, "create_view")
        /\ \/ /\ ViewKey \in DOMAIN f /\ ~s.flag
              /\ Err(t, Empty, FALSE)
              /\ UNCHANGED vcache
           \/ /\ ViewKey \notin DOMAIN f /\ Hash \in DOMAIN f
              /\ Err(t, Empty, FALSE)
              /\ UNCHANGED vcache
           \/ /\ IF ViewKey \in DOMAIN f THEN s.flag ELSE Hash \notin DOMAIN f
              /\ Done(t, Over(Pair(ViewKey, s.body),
                              IF ViewKey \in DOMAIN f THEN Empty ELSE Pair(Hash, "name")), {})
              /\ vcache' = s.body
        /\ UNCHANGED <<tcache, mcache, file>>

(* The hash goes before the view is looked up ("hash": it was a table's).   *)
DropView(t) ==
    LET f == View(t)
        V == ViewOf(f)
        unhash == [k \in {Hash} |-> Deleted]
    IN  /\ Running(t, "drop_view")
        /\ \/ /\ V = None
              /\ IF plan[t].s.flag
                 THEN Keep(t, unhash, {}, IF Root \in DOMAIN f THEN {"hash"} ELSE {})
                 ELSE Err(t, unhash, FALSE)
              /\ UNCHANGED vcache
           \/ /\ V # None
              /\ Done(t, unhash, {ViewKey})
              /\ UncacheView
        /\ UNCHANGED <<tcache, mcache, file>>

(* Neither the catalog nor a cache is touched; nothing is bound.            *)
Truncate(t) ==
    /\ Running(t, "truncate")
    /\ Done(t, Empty, Data(View(t)))
    /\ UNCHANGED <<tcache, vcache, mcache, file>>

(* Index by index: the statistics are cached and recorded, then the file is *)
(* renamed into place; at the end the files of other indexes are removed    *)
(* one by one.  Any file operation may fail.                                *)
Analyze(t) ==
    LET T == Table(View(t))
        saved(n) == [id \in {T.indexes[i].id : i \in 1..n} |->
                        CHOOSE m \in Range(T.indexes) : m.id = id]
        keys(n) == [k \in {StatKey(T.indexes[i].id) : i \in 1..n} |-> "path"]
        expired == DOMAIN file \ {m.id : m \in Range(T.indexes)}
    IN  /\ Running(t, "analyze")
        /\ \/ /\ T = None \/ Dangling(T)
              /\ Err(t, Empty, FALSE)
              /\ UNCHANGED <<mcache, file>>
           \/ /\ T # None /\ ~Dangling(T)
              /\ \E n \in 0..Len(T.indexes), renamed \in BOOLEAN :
                    /\ IF renamed THEN n < Len(T.indexes) ELSE n > 0
                    /\ Err(t, keys(n), FALSE)
                    /\ mcache' = Over(saved(n), mcache)
                    /\ file' = Over(saved(IF renamed THEN n ELSE n - 1), file)
           \/ /\ T # None /\ ~Dangling(T)
              /\ \E gone \in SUBSET expired :
                    file' = Over(saved(Len(T.indexes)), Restrict(file, DOMAIN file \ gone))
              /\ Err(t, keys(Len(T.indexes)), FALSE)
              /\ mcache' = Over(saved(Len(T.indexes)), mcache)
           \/ /\ T # None /\ ~Dangling(T)
              /\ Done(t, keys(Len(T.indexes)), {})
              /\ mcache' = Over(saved(Len(T.indexes)), mcache)
              /\ file' = saved(Len(T.indexes))
        /\ tcache' = T
        /\ UNCHANGED vcache

(* The row takes its values by column, but the index entries are projected  *)
(* by the position a column has in the column list of the statement         *)
(* ("projected": that gives another value).  Indexes first, then the row.   *)
Insert(t) ==
    LET f == View(t)
        T == Table(f)
        s == plan[t].s
        schema == IF s.idents = <<>> THEN Ids(plan[t].T.columns)
                  ELSE [i \in DOMAIN s.idents |-> ColumnNamed(plan[t].T, s.idents[i]).id]
        row == [i \in DOMAIN T.columns |->
                  LET c == T.columns[i]
                  IN  IF c.name = "a" THEN s.pk
                      ELSE IF c.name = "b" THEN s.b
                      ELSE IF c.default # None THEN c.default ELSE Null]
        metas == {m \in Range(T.indexes) : m.ty # "primary"}
        panics == \E m \in Range(T.indexes) : \E i \in (Len(row) + 1)..Len(schema) :
                      schema[i] \in Range(m.columns)
        entry(m) == AddIndex(f, m, [p \in {s.pk} |-> Project(schema, row, m.columns)])
        refused == {m \in metas : ~entry(m).ok}
        added == {m \in metas : \A n \in refused : m.id < n.id}
        entries == [k \in UNION {DOMAIN entry(m).puts : m \in added} |-> s.pk]
        projected == \E m \in metas : Project(schema, row, m.columns)
                                       # Project(Ids(T.columns), row, m.columns)
        what == IF projected THEN {"projected"} ELSE {}
    IN  /\ Running(t, "insert")
        /\ \/ T = None /\ Done(t, Empty, {})
           \/ T # None /\ Dangling(T) /\ Err(t, Empty, FALSE)
           \/ T # None /\ ~Dangling(T) /\ panics /\ Drop(t, FALSE)
           \/ /\ T # None /\ ~Dangling(T) /\ ~panics
              /\ refused # {} \/ TupleKey(s.pk) \in DOMAIN f
              /\ Err(t, entries, FALSE)
           \/ /\ T # None /\ ~Dangling(T) /\ ~panics
              /\ refused = {} /\ TupleKey(s.pk) \notin DOMAIN f
              /\ Keep(t, Over(Pair(TupleKey(s.pk), row), entries), {}, what)
        /\ tcache' = T
        /\ UNCHANGED <<vcache, mcache, file>>

Delete(t) ==
    LET f == View(t)
        T == Table(f)
        B == plan[t].T
        key == TupleKey(plan[t].s.pk)
        entries == {EntryKey(m, Project(Ids(B.columns), Decode(B, f[key]), m.columns), key[2]) :
                      m \in {m \in Range(T.indexes) : m.ty # "primary"}}
    IN  /\ Running(t, "delete")
        /\ \/ T = None /\ Err(t, Empty, FALSE)
           \/ T # None /\ key \notin DOMAIN f /\ Done(t, Empty, {})
           \/ T # None /\ key \in DOMAIN f /\ Dangling(T) /\ Err(t, Empty, FALSE)
           \/ T # None /\ key \in DOMAIN f /\ ~Dangling(T) /\ Done(t, Empty, {key} \cup entries)
        /\ tcache' = T
        /\ UNCHANGED <<vcache, mcache, file>>

(* A table is looked up again by the scan; a view is part of the plan.      *)
Select(t) ==
    LET T == Table(View(t))
    IN  /\ Running(t, "select")
        /\ \/ plan[t].T = None /\ Done(t, Empty, {}) /\ UNCHANGED tcache
           \/ plan[t].T # None /\ T = None /\ Err(t, Empty, FALSE) /\ UNCHANGED tcache
           \/ plan[t].T # None /\ T # None /\ Done(t, Empty, {}) /\ tcache' = T
        /\ UNCHANGED <<vcache, mcache, file>>

Next ==
    \/ \E t \in Txn :
        \/ BeginExplicit(t)
        \/ \E s \in Workload[app] : Bind(t, s)
        \/ CreateTable(t)
        \/ DropTable(t)
        \/ CreateIndex(t)
        \/ DropIndex(t)
        \/ AddColumn(t)
        \/ DropColumn(t)
        \/ CreateView(t)
        \/ DropView(t)
        \/ Truncate(t)
        \/ Analyze(t)
        \/ Insert(t)
        \/ Delete(t)
        \/ Select(t)
        \/ Commit(t)
        \/ DropIterator(t)
        \/ Abandon(t)
    \/ Crash
    \/ Evict

Spec == Init /\ [][Next]_vars

-----------------------------------------------------------------------------
(* Properties.  hazard lists what may break them; the MC module has them    *)
(* again without one of the exemptions.                                     *)

(* A plan is bound or nothing is; a catalog has columns; a closed           *)
(* transaction holds neither a batch nor the metadata lock.                 *)
TypeOK ==
    /\ \A t \in Txn :
        /\ phase[t] \in {"closed", "open", "bound", "ran"}
        /\ (phase[t] = "bound") = (plan[t] # NoPlan)
        /\ phase[t] = "closed" => ws[t] = Empty /\ stale[t] = {} /\ ~guard[t]
        /\ stale[t] \subseteq DOMAIN ws[t]
    /\ tcache # None => tcache.columns # <<>>
    /\ vcache \in ViewBody \cup {None}
    /\ app \in DOMAIN Workload
    /\ DOMAIN mcache \cup DOMAIN file \subseteq 0..MaxIndexId
    /\ calm \subseteq {t \in Txn : guard[t]}
    /\ hazard \subseteq {"overlap", "abandoned", "torn", "rewritten", "reordered", "hash", "projected"}

(* What a new statement should see: the store, or the batch in progress.    *)
Latest ==
    IF \E t \in Txn : ws[t] # Empty
    THEN View(CHOOSE t \in Txn : ws[t] # Empty) ELSE store

(* The table and the view cache never disagree with the keys they stand     *)
(* for, whatever sequence of DDL, eviction, crash and restart came before:  *)
(* an executor that changes catalog keys also replaces or removes the       *)
(* cache entry (table_cache.put/remove, view_cache.put/remove).             *)
CacheCoherent ==
    hazard = {} =>
        /\ tcache \in {None, Collect(Latest)}
        /\ vcache # None => ViewKey \in DOMAIN Latest /\ vcache = Latest[ViewKey]

(* Every stored row has one value per column of the committed table: ALTER  *)
(* TABLE rewrites all rows in the transaction that changes the columns, and *)
(* INSERT writes the rows of the catalog it finds when it runs.             *)
RowsMatchSchema ==
    hazard = {} =>
        \A k \in KeysOf(store, {"tuple"}) :
            Collect(store) # None /\ Len(store[k]) = Len(Collect(store).columns)

(* The entries of each index are those of the rows, for any sequence of     *)
(* CREATE INDEX (backfill), ALTER TABLE, INSERT, DELETE and DROP.  A unique *)
(* index may miss a row with a NULL: ADD COLUMN UNIQUE without a default    *)
(* indexes no row.                                                          *)
IndexesExact ==
    hazard = {} /\ Collect(store) # None =>
        LET metas == {m \in Range(Collect(store).indexes) : m.ty # "primary"}
            due(m) == {EntryKey(m, Indexed(store, m, p), p) : p \in Rows(store)}
            optional(m) == {EntryKey(m, Indexed(store, m, p), p) :
                p \in {p \in Rows(store) : m.ty = "unique" /\ Null \in Range(Indexed(store, m, p))}}
        IN  /\ KeysOf(store, {"entry"}) \subseteq UNION {due(m) : m \in metas}
            /\ UNION {due(m) \ optional(m) : m \in metas} \subseteq DOMAIN store
            /\ \A k \in KeysOf(store, {"entry"}) : store[k] \in Rows(store)
            /\ \A m \in metas : \A p \in Rows(store) :
                 LET k == EntryKey(m, Indexed(store, m, p), p)
                 IN  k \notin optional(m) => store[k] = p

(* The name hash is there exactly when the name is a table's or a view's,   *)
(* never both's, and a name that is no table's has no key of a table left:  *)
(* drop_table and drop_view clean up what the create and DML methods wrote. *)
NamesReserved ==
    hazard = {} =>
        /\ Hash \in DOMAIN store <=> (Root \in DOMAIN store \/ ViewKey \in DOMAIN store)
        /\ ~(Root \in DOMAIN store /\ ViewKey \in DOMAIN store)
        /\ Root \in DOMAIN store <=> Collect(store) # None
        /\ Root \notin DOMAIN store =>
              KeysOf(store, {"tuple", "entry", "stat", "column", "index"}) = {}

(* A statistics path in the store is one of a live index, and the file it   *)
(* names was built for that index, although index ids are used again after  *)
(* DROP INDEX and files are written and removed outside the transaction.    *)
StatisticsRecorded ==
    hazard = {} =>
        \A k \in KeysOf(store, {"stat"}) :
            /\ IndexKey(k[2]) \in DOMAIN store
            /\ k[2] \in DOMAIN file /\ file[k[2]] = store[IndexKey(k[2])]

(* The catalog does not change under a DBTransaction that was opened while  *)
(* no DDL was in flight: it holds the metadata lock for reading and DDL     *)
(* cannot be bound before it ends.                                          *)
CatalogFrozen ==
    [][\A t \in calm : t \in calm' => Collect(store') = Collect(store)]_vars
=============================================================================
