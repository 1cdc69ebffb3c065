------------------------------ MODULE CatalogTypes ------------------------------
(***************************************************************************)
(* The types of the catalog, and the catalog under the metadata lock, for   *)
(* every set of transactions, workload and bound.                           *)
(***************************************************************************)
EXTENDS Catalog, CatalogLemmas

HazardKinds == {"overlap", "abandoned", "torn", "rewritten", "reordered", "hash",
                "projected"}

(* What a transaction sees has no deleted pair.                             *)
LEMMA ViewProperties ==
    ASSUME NEW t
    PROVE  /\ View(t) = Merge(ws[t], store)
           /\ \A k \in DOMAIN View(t) : View(t)[k] # Deleted
BY MergeProperties DEF View

(* What a transaction sees is typed.                                        *)
LEMMA TypedView ==
    ASSUME NEW t, Typed(store, {}), Typed(ws[t], {Deleted})
    PROVE  Typed(View(t), {})
BY TypedMerge, Zenon DEF View

(* DBTransactions that were opened in a calm hold the metadata lock; while  *)
(* there is one, no DDL statement is bound or has run uncommitted.  A       *)
(* transaction that has run none has no catalog key in its batch.           *)
FrozenInv ==
    /\ DOMAIN plan = Txn /\ DOMAIN ran = Txn /\ DOMAIN ws = Txn /\ DOMAIN guard = Txn
    /\ calm \subseteq {t \in Txn : guard[t]}
    /\ calm # {} => \A x \in Txn : plan[x].op \notin DDL /\ ran[x] \cap DDL = {}
    /\ \A x \in Txn : ran[x] \cap DDL = {} => KeysOf(ws[x], CatalogTags) = {}
    /\ \A k \in DOMAIN store : store[k] # Deleted

(* A statement that is DDL or leaves the catalog keys alone.                *)
LEMMA KeepFrozen ==
    ASSUME FrozenInv, NEW t \in Txn, NEW puts, NEW dels, NEW what, Keep(t, puts, dels, what),
           plan[t].op \in DDL \/ \A k \in DOMAIN puts \cup dels : k[1] \notin CatalogTags
    PROVE  FrozenInv'
<1>1. /\ DOMAIN plan' = Txn /\ DOMAIN ran' = Txn /\ DOMAIN ws' = Txn /\ DOMAIN guard' = Txn
      /\ store' = store /\ calm' = calm /\ guard' = guard
    BY DEF Keep, FrozenInv
<1>2. /\ \A x \in Txn \ {t} : plan'[x] = plan[x] /\ ran'[x] = ran[x] /\ ws'[x] = ws[x]
      /\ plan'[t] = NoPlan /\ ran'[t] = ran[t] \cup {plan[t].op}
      /\ ws'[t] = Over(puts, Over([k \in dels |-> Deleted], ws[t]))
    BY DEF Keep, FrozenInv
<1>3. calm' # {} => \A x \in Txn : plan'[x].op \notin DDL /\ ran'[x] \cap DDL = {}
    BY <1>1, <1>2 DEF FrozenInv, NoPlan, DDL
<1>4. DOMAIN ws'[t] = DOMAIN puts \cup dels \cup DOMAIN ws[t]
    BY <1>2 DEF Over
<1>5. ran'[t] \cap DDL = {} => KeysOf(ws'[t], CatalogTags) = {}
    BY <1>2, <1>4 DEF KeysOf, FrozenInv
<1>6. \A x \in Txn : ran'[x] \cap DDL = {} => KeysOf(ws'[x], CatalogTags) = {}
    BY <1>2, <1>5 DEF FrozenInv
<1> QED BY <1>1, <1>3, <1>6 DEF FrozenInv

(* The end of a transaction.                                                *)
LEMMA CloseFrozen ==
    ASSUME FrozenInv, NEW t \in Txn, Close(t), \A k \in DOMAIN store' : store'[k] # Deleted
    PROVE  FrozenInv'
<1>1. /\ DOMAIN plan' = Txn /\ DOMAIN ran' = Txn /\ DOMAIN ws' = Txn /\ DOMAIN guard' = Txn
      /\ \A x \in Txn \ {t} : plan'[x] = plan[x] /\ ran'[x] = ran[x] /\ ws'[x] = ws[x] /\ guard'[x] = guard[x]
      /\ plan'[t] = NoPlan /\ ran'[t] = {} /\ ws'[t] = Empty /\ calm' = calm \ {t}
    BY DEF Close, FrozenInv
<1>2. KeysOf(Empty, CatalogTags) = {}
    BY DEF KeysOf, Empty
<1>3. calm' # {} => \A x \in Txn : plan'[x].op \notin DDL /\ ran'[x] \cap DDL = {}
    BY <1>1 DEF FrozenInv, NoPlan, DDL
<1>4. \A x \in Txn : ran'[x] \cap DDL = {} => KeysOf(ws'[x], CatalogTags) = {}
    BY <1>1, <1>2 DEF FrozenInv
<1> QED BY <1>1, <1>3, <1>4 DEF FrozenInv

(* A transaction that is dropped.                                           *)
LEMMA DropFrozen ==
    ASSUME FrozenInv, NEW t \in Txn, NEW published, Drop(t, published)
    PROVE  FrozenInv'
<1>1. Close(t) /\ store' = store
    BY DEF Drop
<1> QED BY <1>1, CloseFrozen DEF FrozenInv

(* Every executor ends with the transaction dropped or its writes kept.     *)
Executes(t) ==
    \/ \E published : Drop(t, published)
    \/ \E puts, dels, what : Keep(t, puts, dels, what)

(* An error drops the transaction or keeps writes.                          *)
LEMMA ErrExecutes ==
    ASSUME NEW t, NEW puts, NEW published, Err(t, puts, published)
    PROVE  Executes(t)
BY Zenon DEF Err, Executes

(* A statement that is done keeps its writes.                               *)
LEMMA DoneExecutes ==
    ASSUME NEW t, NEW puts, NEW dels, Done(t, puts, dels)
    PROVE  Executes(t)
BY Zenon DEF Done, Executes

(* What ADD COLUMN adds to the history.                                     *)
AddWhat(f, T, q, id) ==
    IF AddRows(f, q) = Empty THEN {}
    ELSE IF AddExists(T) THEN {"rewritten"}
    ELSE IF \E c \in Range(T.columns) : id < c.id THEN {"reordered"} ELSE {}

(* The ways ADD COLUMN ends.                                                *)
LEMMA AddColumnCases ==
    ASSUME NEW t, AddColumn(t)
    PROVE  LET f == View(t)
               T == Table(f)
               q == plan[t]
           IN  /\ phase[t] = "bound" /\ q.op = "add_column"
               /\ UNCHANGED <<vcache, mcache, file>>
               /\ \/ T = None /\ Err(t, Empty, FALSE) /\ tcache' = tcache
                  \/ T # None /\ Err(t, AddRows(f, q), FALSE) /\ tcache' = T
                  \/ /\ T # None
                     /\ q.s.unique /\ ~AddExists(T) => NextIndexId(T) <= MaxIndexId
                     /\ \E id \in AddIds(T) :
                           /\ IF AddEntries(f, T, q, id).ok
                              THEN Keep(t, AddAll(f, T, q, id), {}, AddWhat(f, T, q, id))
                              ELSE Err(t, AddAll(f, T, q, id), ~AddExists(T))
                           /\ tcache' = AddG(f, T, q, id)
<1>1. /\ phase[t] = "bound" /\ plan[t].op = "add_column" /\ UNCHANGED <<vcache, mcache, file>>
    BY Zenon DEF AddColumn, Running
<1>2. \/ Table(View(t)) = None /\ Err(t, Empty, FALSE) /\ tcache' = tcache
      \/ Table(View(t)) # None /\ Err(t, AddRows(View(t), plan[t]), FALSE) /\ tcache' = Table(View(t))
      \/ /\ Table(View(t)) # None
         /\ plan[t].s.unique /\ ~AddExists(Table(View(t))) => NextIndexId(Table(View(t))) <= MaxIndexId
         /\ \E id \in AddIds(Table(View(t))) :
              /\ IF AddEntries(View(t), Table(View(t)), plan[t], id).ok
                 THEN Keep(t, AddAll(View(t), Table(View(t)), plan[t], id), {},
                           AddWhat(View(t), Table(View(t)), plan[t], id))
                 ELSE Err(t, AddAll(View(t), Table(View(t)), plan[t], id), ~AddExists(Table(View(t))))
              /\ tcache' = AddG(View(t), Table(View(t)), plan[t], id)
    BY ZenonT(60) DEF AddColumn, AddValue, AddRows, AddExists, AddIds, AddC, AddUk, AddPuts, AddG,
                      AddUnique, AddEntries, AddAll, AddWhat
<1> QED BY <1>1, <1>2, Zenon

(* The executors of DDL statements run what was bound as DDL.               *)
LEMMA DDLExecutes ==
    ASSUME NEW t \in Txn,
           \/ CreateTable(t) \/ DropTable(t) \/ CreateIndex(t) \/ DropIndex(t)
           \/ AddColumn(t) \/ DropColumn(t) \/ CreateView(t) \/ DropView(t)
    PROVE  Executes(t) /\ plan[t].op \in DDL
<1>1. CASE CreateTable(t)
  <2>1. Executes(t)
    BY <1>1, ErrExecutes, DoneExecutes, Zenon DEF CreateTable
  <2> QED BY <1>1, <2>1, Zenon DEF CreateTable, Running, DDL
<1>2. CASE DropTable(t)
  <2>1. Executes(t)
    BY <1>2, ErrExecutes, DoneExecutes, Zenon DEF DropTable
  <2> QED BY <1>2, <2>1, Zenon DEF DropTable, Running, DDL
<1>3. CASE CreateIndex(t)
  <2>1. Executes(t)
    BY <1>3, ErrExecutes, DoneExecutes, Zenon DEF CreateIndex
  <2> QED BY <1>3, <2>1, Zenon DEF CreateIndex, Running, DDL
<1>4. CASE DropIndex(t)
  <2>1. Executes(t)
    BY <1>4, ErrExecutes, DoneExecutes DEF DropIndex
  <2> QED BY <1>4, <2>1, Zenon DEF DropIndex, Running, DDL
<1>5. CASE AddColumn(t)
  <2>1. Executes(t)
    BY <1>5, AddColumnCases, ErrExecutes, Zenon DEF Executes
  <2> QED BY <1>5, <2>1, AddColumnCases, Zenon DEF DDL
<1>6. CASE DropColumn(t)
  <2>1. Executes(t)
    BY <1>6, ErrExecutes, DoneExecutes, Zenon DEF DropColumn, Executes
  <2> QED BY <1>6, <2>1, Zenon DEF DropColumn, Running, DDL
<1>7. CASE CreateView(t)
  <2>1. Executes(t)
    BY <1>7, ErrExecutes, DoneExecutes, Zenon DEF CreateView
  <2> QED BY <1>7, <2>1, Zenon DEF CreateView, Running, DDL
<1>8. CASE DropView(t)
  <2>1. Executes(t)
    BY <1>8, ErrExecutes, DoneExecutes, Zenon DEF DropView, Executes
  <2> QED BY <1>8, <2>1, Zenon DEF DropView, Running, DDL
<1> QED BY <1>1, <1>2, <1>3, <1>4, <1>5, <1>6, <1>7, <1>8

(* What the other executors write leaves the catalog keys alone.            *)
Harmless(t) ==
    \/ \E published : Drop(t, published)
    \/ \E puts, dels, what :
          /\ Keep(t, puts, dels, what)
          /\ \A k \in DOMAIN puts \cup dels : k[1] \notin CatalogTags
          /\ what \subseteq HazardKinds

(* An error after writes to no catalog key.                                 *)
LEMMA ErrHarmless ==
    ASSUME NEW t, NEW puts, NEW published, Err(t, puts, published),
           \A k \in DOMAIN puts : k[1] \notin CatalogTags
    PROVE  Harmless(t)
<1>1. CASE Drop(t, published)
    BY <1>1, Zenon DEF Harmless
<1>2. CASE Keep(t, puts, {}, IF puts = Empty THEN {} ELSE {"torn"})
  <2> DEFINE what == IF puts = Empty THEN {} ELSE {"torn"}
  <2>1. \A k \in DOMAIN puts \cup {} : k[1] \notin CatalogTags
    OBVIOUS
  <2>2. what \subseteq HazardKinds
    BY DEF HazardKinds
  <2>3. Keep(t, puts, {}, what)
    BY <1>2
  <2> HIDE DEF what
  <2> QED BY <2>1, <2>2, <2>3, Zenon DEF Harmless
<1> QED BY <1>1, <1>2 DEF Err

(* Writes to no catalog key.                                                *)
LEMMA KeepHarmless ==
    ASSUME NEW t, NEW puts, NEW dels, NEW what, Keep(t, puts, dels, what), what \subseteq HazardKinds,
           \A k \in DOMAIN puts : k[1] \notin CatalogTags,
           \A k \in dels : k[1] \notin CatalogTags
    PROVE  Harmless(t)
BY Zenon DEF Harmless

(* TRUNCATE, ANALYZE and DML write to no catalog key.                       *)
LEMMA DMLHarmless ==
    ASSUME NEW t \in Txn, Truncate(t) \/ Analyze(t) \/ Insert(t) \/ Delete(t) \/ Select(t)
    PROVE  Harmless(t)
<1>1. CASE Truncate(t)
  <2>1. Keep(t, Empty, Data(View(t)), {})
    BY <1>1 DEF Truncate, Done
  <2>2. \A k \in Data(View(t)) : k[1] \notin CatalogTags
    BY DataTags DEF CatalogTags
  <2> QED BY <2>1, <2>2, EmptyKeys, KeepHarmless
<1>2. CASE Select(t)
  <2>1. Err(t, Empty, FALSE) \/ Keep(t, Empty, {}, {})
    BY <1>2, Zenon DEF Select, Done
  <2> QED BY <2>1, EmptyKeys, ErrHarmless, KeepHarmless
<1>3. CASE Analyze(t)
  <2> DEFINE T == Table(View(t))
             keys(n) == [k \in {StatKey(T.indexes[i].id) : i \in 1..n} |-> "path"]
  <2>1. \/ Err(t, Empty, FALSE)
        \/ \E n \in 0..Len(T.indexes) : Err(t, keys(n), FALSE)
        \/ Err(t, keys(Len(T.indexes)), FALSE)
        \/ Keep(t, keys(Len(T.indexes)), {}, {})
    BY <1>3, Zenon DEF Analyze, Done
  <2>2. ASSUME NEW n PROVE \A k \in DOMAIN keys(n) : k[1] \notin CatalogTags
    BY KeyTags DEF CatalogTags
  <2> HIDE DEF T, keys
  <2> QED BY <2>1, <2>2, EmptyKeys, ErrHarmless, KeepHarmless, Zenon
<1>4. CASE Delete(t)
  <2> DEFINE f == View(t)
             T == Table(f)
             B == plan[t].T
             key == TupleKey(plan[t].s.pk)
             entries == {EntryKey(m, Project(Ids(B.columns), Decode(B, f[key]), m.columns), key[2]) :
                          m \in {m \in Range(T.indexes) : m.ty # "primary"}}
  <2>1. Err(t, Empty, FALSE) \/ Keep(t, Empty, {}, {}) \/ Keep(t, Empty, {key} \cup entries, {})
    BY <1>4, Zenon DEF Delete, Done
  <2>2. \A k \in {key} \cup entries : k[1] \notin CatalogTags
    BY KeyTags DEF CatalogTags
  <2> HIDE DEF key, entries
  <2> QED BY <2>1, <2>2, EmptyKeys, ErrHarmless, KeepHarmless
<1>5. CASE Insert(t)
  <2>1. PICK puts, E : /\ Err(t, Empty, FALSE) \/ Err(t, E, FALSE) \/ (\E p : Drop(t, p)) \/ Keep(t, Empty, {}, {})
                          \/ \E what \in SUBSET HazardKinds : Keep(t, puts, {}, what)
                       /\ \A k \in DOMAIN E \cup DOMAIN puts : k[1] \notin CatalogTags
    <3> DEFINE f == View(t)
               T == Table(f)
               s == plan[t].s
               schema == IF s.idents = <<>> THEN Ids(plan[t].T.columns)
                         ELSE [i \in DOMAIN s.idents |-> ColumnNamed(plan[t].T, s.idents[i]).id]
               row == [i \in DOMAIN T.columns |->
                        LET c == T.columns[i]
                        IN  IF c.name = "a" THEN s.pk
                            ELSE IF c.name = "b" THEN s.b
                            ELSE IF c.default # None THEN c.default ELSE Null]
               metas == {m \in Range(T.indexes) : m.ty # "primary"}
               entry(m) == AddIndex(f, m, [p \in {s.pk} |-> Project(schema, row, m.columns)])
               refused == {m \in metas : ~entry(m).ok}
               added == {m \in metas : \A n \in refused : m.id < n.id}
               entries == [k \in UNION {DOMAIN entry(m).puts : m \in added} |-> s.pk]
               P == Over(Pair(TupleKey(s.pk), row), entries)
    <3>1. \A k \in DOMAIN entries : k[1] = "entry"
        BY AddIndexTags, Zenon
    <3>2. \A k \in DOMAIN P : k \in DOMAIN entries \/ k = TupleKey(s.pk)
        BY Zenon DEF Over, Pair
    <3>3. \/ Err(t, Empty, FALSE) \/ Err(t, entries, FALSE) \/ Drop(t, FALSE) \/ Keep(t, Empty, {}, {})
          \/ Keep(t, P, {}, {}) \/ Keep(t, P, {}, {"projected"})
        BY <1>5, Zenon DEF Insert, Done
    <3>4. \A k \in DOMAIN entries \cup DOMAIN P : k[1] \notin CatalogTags
        <4> HIDE DEF entries, P
        <4> QED BY <3>1, <3>2, KeyTags DEF CatalogTags
    <3>5. {} \in SUBSET HazardKinds /\ {"projected"} \in SUBSET HazardKinds
        BY DEF HazardKinds
    <3> HIDE DEF entries, P
    <3> QED BY <3>3, <3>4, <3>5, Zenon
  <2> QED BY <2>1, EmptyKeys, ErrHarmless, KeepHarmless, Zenon DEF Harmless
<1> QED BY <1>1, <1>2, <1>3, <1>4, <1>5

(* FrozenInv at the start.                                                  *)
LEMMA FrozenInit == Init => FrozenInv
<1> SUFFICES ASSUME Init PROVE FrozenInv
    OBVIOUS
<1>1. KeysOf(Empty, CatalogTags) = {} /\ DOMAIN Empty = {}
    BY DEF KeysOf, Empty
<1> QED BY <1>1 DEF Init, FrozenInv

(* Every step keeps FrozenInv.                                              *)
LEMMA FrozenNext == FrozenInv /\ [Next]_vars => FrozenInv'
<1> SUFFICES ASSUME FrozenInv, [Next]_vars PROVE FrozenInv'
    OBVIOUS
<1>1. CASE UNCHANGED vars
    BY <1>1 DEF vars, FrozenInv, KeysOf
<1>2. CASE Crash
  <2>1. KeysOf(Empty, CatalogTags) = {}
    BY DEF KeysOf, Empty
  <2> QED BY <1>2, <2>1 DEF Crash, FrozenInv
<1>3. CASE Evict
    BY <1>3 DEF Evict, FrozenInv, KeysOf
<1>4. ASSUME NEW t \in Txn, BeginExplicit(t) PROVE FrozenInv'
    BY <1>4 DEF BeginExplicit, FrozenInv, KeysOf
<1>5. ASSUME NEW t \in Txn, NEW s \in Workload[app], Bind(t, s) PROVE FrozenInv'
  <2>1. /\ UNCHANGED <<store, ws, guard, ran, calm>>
        /\ DOMAIN plan' = Txn /\ plan'[t].op = s.op
        /\ \A x \in Txn \ {t} : plan'[x] = plan[x]
    BY <1>5 DEF Bind, FrozenInv
  <2>2. s.op \in DDL => calm = {}
    BY <1>5 DEF Bind, LockFree, FrozenInv
  <2>3. calm # {} => \A x \in Txn : plan'[x].op \notin DDL
    BY <2>1, <2>2 DEF FrozenInv
  <2> QED BY <2>1, <2>3 DEF FrozenInv, KeysOf
<1>6. ASSUME NEW t \in Txn, Executes(t), plan[t].op \in DDL PROVE FrozenInv'
    BY <1>6, DropFrozen, KeepFrozen, Zenon DEF Executes
<1>7. ASSUME NEW t \in Txn, Harmless(t) PROVE FrozenInv'
    BY <1>7, DropFrozen, KeepFrozen, Zenon DEF Harmless
<1>8. ASSUME NEW t \in Txn, Commit(t) PROVE FrozenInv'
    BY <1>8, ViewProperties, CloseFrozen DEF Commit
<1>9. ASSUME NEW t \in Txn, DropIterator(t) PROVE FrozenInv'
    BY <1>9 DEF DropIterator, FrozenInv, KeysOf, NoPlan, DDL
<1>10. ASSUME NEW t \in Txn, Abandon(t) PROVE FrozenInv'
    BY <1>10, DropFrozen, Zenon DEF Abandon
<1>11. ASSUME NEW t \in Txn,
              \/ CreateTable(t) \/ DropTable(t) \/ CreateIndex(t) \/ DropIndex(t)
              \/ AddColumn(t) \/ DropColumn(t) \/ CreateView(t) \/ DropView(t)
       PROVE  FrozenInv'
    BY <1>6, <1>11, DDLExecutes, Zenon
<1>12. ASSUME NEW t \in Txn, Truncate(t) \/ Analyze(t) \/ Insert(t) \/ Delete(t) \/ Select(t)
       PROVE  FrozenInv'
    BY <1>7, <1>12, DMLHarmless, Zenon
<1> QED BY <1>1, <1>2, <1>3, <1>4, <1>5, <1>8, <1>9, <1>10, <1>11, <1>12, Zenon DEF Next

(* Only a commit changes the store, and while a DBTransaction that was      *)
(* opened in a calm is open, no batch holds a catalog key.                  *)
LEMMA FrozenStep ==
    ASSUME FrozenInv, [Next]_vars, NEW t \in calm, t \in calm'
    PROVE  Collect(store') = Collect(store)
<1>1. ASSUME NEW x \in Txn, Executes(x) PROVE store' = store
    BY <1>1, Zenon DEF Executes, Drop, Keep
<1>2. ASSUME NEW x \in Txn, Harmless(x) PROVE store' = store
    BY <1>2, Zenon DEF Harmless, Drop, Keep
<1>3. ASSUME NEW x \in Txn, Commit(x) PROVE Collect(store') = Collect(store)
  <2>1. KeysOf(ws[x], CatalogTags) = {}
    BY DEF FrozenInv
  <2>2. \A k \in DOMAIN store : store[k] # Deleted
    BY DEF FrozenInv
  <2>3. KeysOf(ws[x], TableTags) = {}
    BY <2>1 DEF KeysOf, CatalogTags, TableTags
  <2>4. Collect(View(x)) = Collect(store)
    BY <2>2, <2>3, MergeUntouched, CollectDepends DEF View
  <2>5. store' = View(x)
    BY <1>3 DEF Commit
  <2> QED BY <2>4, <2>5
<1>4. ASSUME NEW x \in Txn,
             \/ BeginExplicit(x) \/ (\E s \in Workload[app] : Bind(x, s))
             \/ DropIterator(x) \/ Abandon(x)
      PROVE  store' = store
    BY <1>4, Zenon DEF BeginExplicit, Bind, DropIterator, Abandon, Drop
<1>5. Crash \/ Evict \/ UNCHANGED vars => store' = store
    BY Zenon DEF Crash, Evict, vars
<1> QED BY <1>1, <1>2, <1>3, <1>4, <1>5, DDLExecutes, DMLHarmless, Zenon DEF Next

(* The catalog does not change under a DBTransaction that was opened while  *)
(* no DDL was in flight, for any number of transactions and any workload:   *)
(* execute_inner takes the metadata lock for writing before it binds DDL,   *)
(* and no other executor writes a column or an index key.                   *)
THEOREM CatalogFrozenAlways == Spec => CatalogFrozen
<1>1. Init => FrozenInv
    BY FrozenInit
<1>2. FrozenInv /\ [Next]_vars => FrozenInv'
    BY FrozenNext
<1>3. FrozenInv /\ [Next]_vars
        => [\A t \in calm : t \in calm' => Collect(store') = Collect(store)]_vars
    BY FrozenStep
<1> QED BY <1>1, <1>2, <1>3, PTL DEF Spec, CatalogFrozen

TypedState ==
    /\ TypeOK
    /\ DOMAIN ws = Txn /\ DOMAIN stale = Txn /\ DOMAIN phase = Txn /\ DOMAIN guard = Txn
    /\ DOMAIN plan = Txn /\ DOMAIN ran = Txn
    /\ Typed(store, {}) /\ \A k \in DOMAIN store : store[k] # Deleted
    /\ \A t \in Txn : Typed(ws[t], {Deleted}) /\ (plan[t] # NoPlan => PlanOK(plan[t]))
    /\ tcache # None => IsCatalog(tcache)

(* Transaction::table finds a catalog, in the cache or in the keys.         *)
LEMMA TypedTable ==
    ASSUME FiniteSetFacts, TypedState, NEW t \in Txn, Table(View(t)) # None
    PROVE  IsCatalog(Table(View(t)))
<1>1. Typed(View(t), {})
    BY TypedView DEF TypedState
<1> QED BY <1>1, CollectProperties DEF TypedState, Table

CachesTyped ==
    /\ tcache # None => IsCatalog(tcache)
    /\ vcache \in ViewBody \cup {None}
    /\ DOMAIN mcache \cup DOMAIN file \subseteq 0..MaxIndexId

(* The history stays among its kinds.                                       *)
LEMMA MarkKinds ==
    ASSUME NEW what, Mark(what), hazard \subseteq HazardKinds, what \subseteq HazardKinds
    PROVE  hazard' \subseteq HazardKinds /\ app' = app
BY DEF Mark, HazardKinds

(* A statement that keeps typed writes.                                     *)
LEMMA KeepTyped ==
    ASSUME TypedState, NEW t \in Txn, phase[t] = "bound", NEW puts, NEW dels, NEW what,
           Keep(t, puts, dels, what), Typed(puts, {Deleted}), what \subseteq HazardKinds, CachesTyped'
    PROVE  TypedState'
<1>1. /\ DOMAIN ws' = Txn /\ DOMAIN stale' = Txn /\ DOMAIN phase' = Txn /\ DOMAIN guard' = Txn
      /\ DOMAIN plan' = Txn /\ DOMAIN ran' = Txn
      /\ UNCHANGED <<store, stale, guard, calm>>
    BY DEF Keep, TypedState
<1>2. /\ \A x \in Txn \ {t} : ws'[x] = ws[x] /\ phase'[x] = phase[x] /\ plan'[x] = plan[x]
      /\ ws'[t] = Over(puts, Over([k \in dels |-> Deleted], ws[t]))
      /\ phase'[t] \in {"open", "ran"} /\ plan'[t] = NoPlan
    BY DEF Keep, TypedState
<1> DEFINE gone == [k \in dels |-> Deleted]
<1>3. Typed(gone, {Deleted})
  <2>1. \A k \in DOMAIN gone : gone[k] \in {Deleted}
    OBVIOUS
  <2> HIDE DEF gone
  <2> QED BY <2>1 DEF Typed
<1>4. Typed(ws'[t], {Deleted})
  <2> HIDE DEF gone
  <2>1. Typed(Over(gone, ws[t]), {Deleted})
    BY <1>3, TypedOver, Zenon DEF TypedState
  <2>2. Typed(Over(puts, Over(gone, ws[t])), {Deleted})
    BY <2>1, TypedOver, Zenon
  <2>3. ws'[t] = Over(puts, Over(gone, ws[t]))
    BY <1>2 DEF gone
  <2> QED BY <2>2, <2>3, Zenon
<1>5. DOMAIN ws[t] \subseteq DOMAIN ws'[t]
    BY <1>2 DEF Over
<1>6. hazard' \subseteq HazardKinds /\ app' = app
    BY MarkKinds DEF Keep, TypedState, TypeOK, HazardKinds
<1>7. \A x \in Txn : /\ phase'[x] \in {"closed", "open", "bound", "ran"}
                     /\ (phase'[x] = "bound") = (plan'[x] # NoPlan)
                     /\ phase'[x] = "closed" => ws'[x] = Empty /\ stale'[x] = {} /\ ~guard'[x]
                     /\ stale'[x] \subseteq DOMAIN ws'[x]
    BY <1>1, <1>2, <1>5 DEF TypedState, TypeOK
<1>8. TypeOK'
    BY <1>1, <1>6, <1>7 DEF TypedState, TypeOK, CachesTyped, HazardKinds, IsCatalog
<1>9. \A x \in Txn : Typed(ws'[x], {Deleted}) /\ (plan'[x] # NoPlan => PlanOK(plan'[x]))
    BY <1>2, <1>4 DEF TypedState
<1> QED BY <1>1, <1>8, <1>9 DEF TypedState, CachesTyped

(* The end of a transaction on a typed store.                               *)
LEMMA CloseTyped ==
    ASSUME TypedState, NEW t \in Txn, Close(t), CachesTyped',
           DOMAIN stale' = Txn, stale'[t] = {},
           \A x \in Txn \ {t} : stale'[x] \subseteq stale[x] \cup DOMAIN ws[x]
                                /\ (ws[x] = Empty => stale'[x] = stale[x]),
           Typed(store, {})', \A k \in DOMAIN store' : store'[k] # Deleted,
           hazard' \subseteq HazardKinds, app' = app
    PROVE  TypedState'
<1>1. /\ DOMAIN ws' = Txn /\ DOMAIN phase' = Txn /\ DOMAIN guard' = Txn
      /\ DOMAIN plan' = Txn /\ DOMAIN ran' = Txn /\ calm' = calm \ {t}
    BY DEF Close, TypedState
<1>2. /\ \A x \in Txn \ {t} : /\ ws'[x] = ws[x] /\ phase'[x] = phase[x] /\ plan'[x] = plan[x]
                              /\ guard'[x] = guard[x]
      /\ ws'[t] = Empty /\ phase'[t] = "closed" /\ plan'[t] = NoPlan /\ guard'[t] = FALSE
    BY DEF Close, TypedState
<1>3. Typed(Empty, {Deleted})
    BY DEF Typed, Empty
<1>4. \A x \in Txn : /\ phase'[x] \in {"closed", "open", "bound", "ran"}
                     /\ (phase'[x] = "bound") = (plan'[x] # NoPlan)
                     /\ phase'[x] = "closed" => ws'[x] = Empty /\ stale'[x] = {} /\ ~guard'[x]
                     /\ stale'[x] \subseteq DOMAIN ws'[x]
    BY <1>2 DEF TypedState, TypeOK
<1>5. calm' \subseteq {x \in Txn : guard'[x]}
    BY <1>1, <1>2 DEF TypedState, TypeOK
<1>6. TypeOK'
    BY <1>4, <1>5 DEF TypedState, TypeOK, CachesTyped, HazardKinds, IsCatalog
<1>7. \A x \in Txn : Typed(ws'[x], {Deleted}) /\ (plan'[x] # NoPlan => PlanOK(plan'[x]))
    BY <1>2, <1>3 DEF TypedState
<1> QED BY <1>1, <1>6, <1>7 DEF TypedState, CachesTyped

(* A transaction that is dropped.                                           *)
LEMMA DropTyped ==
    ASSUME TypedState, NEW t \in Txn, NEW published, Drop(t, published), CachesTyped'
    PROVE  TypedState'
<1>1. /\ Close(t) /\ store' = store /\ DOMAIN stale' = Txn /\ stale'[t] = {}
      /\ \A x \in Txn \ {t} : stale'[x] = stale[x]
    BY DEF Drop, TypedState
<1>2. hazard' \subseteq HazardKinds /\ app' = app
  <2>1. (IF published THEN {"abandoned"} ELSE {}) \subseteq HazardKinds
    BY DEF HazardKinds
  <2> QED BY <2>1, MarkKinds DEF Drop, TypedState, TypeOK, HazardKinds
<1>3. Typed(store, {})'
    BY <1>1 DEF TypedState, Typed
<1> QED BY <1>1, <1>2, <1>3, CloseTyped DEF TypedState

(* An executor drops the transaction or keeps typed writes.                 *)
WritesTyped(t) ==
    \/ \E published : Drop(t, published)
    \/ \E puts, dels, what :
          Keep(t, puts, dels, what) /\ Typed(puts, {Deleted}) /\ what \subseteq HazardKinds

(* An executor that writes typed pairs keeps the types.                     *)
LEMMA WritesKeepTyped ==
    ASSUME TypedState, NEW t \in Txn, phase[t] = "bound", WritesTyped(t), CachesTyped'
    PROVE  TypedState'
BY DropTyped, KeepTyped, Zenon DEF WritesTyped

(* Kept writes.                                                             *)
LEMMA KeepWritesTyped ==
    ASSUME NEW t, NEW puts, NEW dels, NEW what, Keep(t, puts, dels, what),
           Typed(puts, {Deleted}), what \subseteq HazardKinds
    PROVE  WritesTyped(t)
BY Zenon DEF WritesTyped

(* The writes of a statement that is done.                                  *)
LEMMA DoneWritesTyped ==
    ASSUME NEW t, NEW puts, NEW dels, Done(t, puts, dels), Typed(puts, {Deleted})
    PROVE  WritesTyped(t)
<1>1. {} \subseteq HazardKinds /\ Keep(t, puts, dels, {})
    BY DEF Done
<1> QED BY <1>1, KeepWritesTyped

(* The writes before an error.                                              *)
LEMMA ErrWritesTyped ==
    ASSUME NEW t, NEW puts, NEW published, Err(t, puts, published),
           Typed(puts, {Deleted})
    PROVE  WritesTyped(t)
<1>1. CASE Drop(t, published)
    BY <1>1, Zenon DEF WritesTyped
<1>2. CASE Keep(t, puts, {}, IF puts = Empty THEN {} ELSE {"torn"})
  <2> DEFINE what == IF puts = Empty THEN {} ELSE {"torn"}
  <2>1. what \subseteq HazardKinds
    BY DEF HazardKinds
  <2>2. Keep(t, puts, {}, what)
    BY <1>2
  <2> HIDE DEF what
  <2> QED BY <2>1, <2>2, KeepWritesTyped, Zenon
<1> QED BY <1>1, <1>2 DEF Err

(* Writes to no catalog key are typed.                                      *)
LEMMA HarmlessWritesTyped ==
    ASSUME NEW t, Harmless(t)
    PROVE  WritesTyped(t)
<1>1. ASSUME NEW puts, NEW dels, \A k \in DOMAIN puts \cup dels : k[1] \notin CatalogTags
      PROVE  Typed(puts, {Deleted})
    BY <1>1 DEF Typed, CatalogTags
<1> QED BY <1>1, Zenon DEF Harmless, WritesTyped

(* The ways create_table ends.                                              *)
LEMMA CreateTableCases ==
    ASSUME NEW t, CreateTable(t)
    PROVE  /\ phase[t] = "bound" /\ plan[t].op = "create_table"
           /\ UNCHANGED <<vcache, mcache, file>>
           /\ \/ Root \in DOMAIN View(t) /\ Done(t, Empty, {}) /\ tcache' = tcache
              \/ /\ Root \in DOMAIN View(t) \/ Hash \in DOMAIN View(t)
                 /\ Err(t, Empty, FALSE) /\ tcache' = tcache
              \/ /\ Root \notin DOMAIN View(t) /\ Hash \notin DOMAIN View(t)
                 /\ Done(t, NewPairs(plan[t].s.unique), {})
                 /\ tcache' = NewTable(plan[t].s.unique)
BY Zenon DEF CreateTable, Running, NewPairs, NewTable, ColumnPairs, IndexPairs, NewColumns, NewIndexes

(* create_table keeps the types.                                            *)
LEMMA CreateTableTyped ==
    ASSUME TypedState, NEW t \in Txn, CreateTable(t)
    PROVE  TypedState'
<1> DEFINE unique == plan[t].s.unique
<1>1. phase[t] = "bound" /\ unique \in BOOLEAN
  <2>1. phase[t] = "bound" /\ plan[t].op = "create_table"
    BY CreateTableCases, Zenon
  <2>2. PlanOK(plan[t])
    BY <2>1 DEF TypedState, TypeOK
  <2> QED BY <2>1, <2>2, StatementFields DEF PlanOK
<1>2. Typed(NewPairs(unique), {Deleted}) /\ IsCatalog(NewTable(unique))
  <2> HIDE DEF unique
  <2> QED BY <1>1, NewPairsTyped, NewTableTyped
<1>5. WritesTyped(t)
    BY <1>2, CreateTableCases, EmptyTyped, DoneWritesTyped, ErrWritesTyped, Zenon
<1>3. tcache' \in {tcache, NewTable(plan[t].s.unique)} /\ UNCHANGED <<vcache, mcache, file>>
    BY CreateTableCases, Zenon
<1>4. CachesTyped'
    BY <1>2, <1>3 DEF CachesTyped, TypedState, TypeOK
<1> QED BY <1>1, <1>4, <1>5, WritesKeepTyped

(* drop_table keeps the types.                                              *)
LEMMA DropTableTyped ==
    ASSUME TypedState, NEW t \in Txn, DropTable(t)
    PROVE  TypedState'
<1>1. phase[t] = "bound" /\ tcache' \in {tcache, None} /\ UNCHANGED <<vcache, mcache, file>>
    BY Zenon DEF DropTable, Running, UncacheTable
<1>2. WritesTyped(t)
    BY EmptyTyped, DoneWritesTyped, ErrWritesTyped, Zenon DEF DropTable
<1>3. CachesTyped'
    BY <1>1 DEF CachesTyped, TypedState, TypeOK
<1> QED BY <1>1, <1>2, <1>3, WritesKeepTyped

(* A cached catalog is a catalog when it was there or is looked up.         *)
LEMMA CachesKept ==
    ASSUME FiniteSetFacts, TypedState, NEW t \in Txn, tcache' \in {tcache, None, Table(View(t))}
    PROVE  tcache' # None => IsCatalog(tcache')
<1>1. tcache # None => IsCatalog(tcache)
    BY DEF TypedState
<1>2. Table(View(t)) # None => IsCatalog(Table(View(t)))
    BY TypedTable
<1> QED BY <1>1, <1>2

(* drop_index keeps the types.                                              *)
LEMMA DropIndexTyped ==
    ASSUME FiniteSetFacts, TypedState, NEW t \in Txn, DropIndex(t)
    PROVE  TypedState'
<1>1. /\ phase[t] = "bound" /\ tcache' \in {tcache, None, Table(View(t))}
      /\ UNCHANGED <<vcache, mcache, file>>
    BY Zenon DEF DropIndex, Running, UncacheTable
<1>2. WritesTyped(t)
    BY EmptyTyped, DoneWritesTyped, ErrWritesTyped, Zenon DEF DropIndex
<1>3. CachesTyped'
    BY <1>1, CachesKept DEF CachesTyped, TypedState, TypeOK
<1> QED BY <1>1, <1>2, <1>3, WritesKeepTyped

(* The ways CREATE INDEX ends.                                              *)
LEMMA CreateIndexCases ==
    ASSUME NEW t, CreateIndex(t)
    PROVE  LET f == View(t)
               T == Table(f)
               q == plan[t]
           IN  /\ phase[t] = "bound" /\ q.op = "create_index"
               /\ UNCHANGED <<vcache, mcache, file>>
               /\ \/ Err(t, Empty, FALSE) /\ tcache' \in {tcache, T}
                  \/ Done(t, Empty, {}) /\ tcache' = T
                  \/ /\ T # None
                     /\ q.s.name \notin IndexNames(T)
                     /\ Range(OnIds(q)) \subseteq Range(Ids(T.columns))
                     /\ MetaOf(T, q).id <= MaxIndexId
                     /\ IF Backfill(f, T, q).ok THEN Done(t, IndexPuts(f, T, q), {}) ELSE Err(t, IndexPuts(f, T, q), TRUE)
                     /\ tcache' = Collect(WithIndex(f, T, q))
BY Zenon DEF CreateIndex, Running, OnIds, MetaOf, Backfill, IndexPuts, WithIndex

(* CREATE INDEX keeps the types.                                            *)
LEMMA CreateIndexTyped ==
    ASSUME FiniteSetFacts, TypedState, NEW t \in Txn, CreateIndex(t)
    PROVE  TypedState'
<1> DEFINE f == View(t)
           T == Table(f)
           q == plan[t]
<1>1. PlanOK(q) /\ phase[t] = "bound" /\ q.op = "create_index" /\ Typed(f, {})
    BY CreateIndexCases, TypedView DEF TypedState, TypeOK
<1>2. CASE \/ Err(t, Empty, FALSE) /\ tcache' \in {tcache, T}
           \/ Done(t, Empty, {}) /\ tcache' = T
  <2>1. WritesTyped(t)
    BY <1>2, EmptyTyped, DoneWritesTyped, ErrWritesTyped, Zenon
  <2>2. CachesTyped'
    <3>1. tcache' \in {tcache, None, T} /\ UNCHANGED <<vcache, mcache, file>>
      BY <1>2, CreateIndexCases
    <3> QED BY <3>1, CachesKept DEF CachesTyped, TypedState, TypeOK
  <2> QED BY <1>1, <2>1, <2>2, WritesKeepTyped
<1>3. CASE /\ T # None
           /\ MetaOf(T, q).id <= MaxIndexId
           /\ IF Backfill(f, T, q).ok THEN Done(t, IndexPuts(f, T, q), {}) ELSE Err(t, IndexPuts(f, T, q), TRUE)
           /\ tcache' = Collect(WithIndex(f, T, q))
  <2>1. MetaOf(T, q) \in MetaRec
    BY <1>1, <1>3, MetaOfTyped, TypedTable
  <2>2. \A absent : Typed(Pair(IndexKey(MetaOf(T, q).id), MetaOf(T, q)), absent)
    BY <2>1, PairTyped
  <2>3. Typed(Backfill(f, T, q).puts, {Deleted})
    BY AddIndexTags, UntaggedTyped DEF Backfill, CatalogTags
  <2>4. Typed(IndexPuts(f, T, q), {Deleted}) /\ Typed(WithIndex(f, T, q), {})
    BY <1>1, <2>2, <2>3, TypedOver, Zenon DEF IndexPuts, WithIndex
  <2>5. WritesTyped(t)
    BY <1>3, <2>4, DoneWritesTyped, ErrWritesTyped, Zenon
  <2>6. CachesTyped'
    BY <1>3, <2>4, CollectProperties, CreateIndexCases DEF CachesTyped, TypedState, TypeOK
  <2> QED BY <1>1, <2>5, <2>6, WritesKeepTyped
<1> QED BY <1>2, <1>3, CreateIndexCases

(* ADD COLUMN keeps the types.                                              *)
LEMMA AddColumnTyped ==
    ASSUME FiniteSetFacts, TypedState, NEW t \in Txn, AddColumn(t)
    PROVE  TypedState'
<1> DEFINE f == View(t)
           T == Table(f)
           q == plan[t]
<1>1. PlanOK(q) /\ phase[t] = "bound" /\ q.op = "add_column" /\ Typed(f, {})
    BY AddColumnCases, TypedView DEF TypedState, TypeOK
<1>2. UNCHANGED <<vcache, mcache, file>>
    BY AddColumnCases, Zenon
<1>3. CASE T = None /\ Err(t, Empty, FALSE) /\ tcache' = tcache
  <2>1. WritesTyped(t)
    BY <1>3, EmptyTyped, ErrWritesTyped, Zenon
  <2>2. CachesTyped'
    BY <1>2, <1>3 DEF CachesTyped, TypedState, TypeOK
  <2> QED BY <1>1, <2>1, <2>2, WritesKeepTyped
<1>4. CASE T # None /\ Err(t, AddRows(f, q), FALSE) /\ tcache' = T
  <2>1. Typed(AddRows(f, q), {Deleted})
    BY TupleRowsTyped DEF AddRows
  <2>2. WritesTyped(t)
    BY <1>4, <2>1, ErrWritesTyped, Zenon
  <2>3. CachesTyped'
    BY <1>2, <1>4, CachesKept DEF CachesTyped, TypedState, TypeOK
  <2> QED BY <1>1, <2>2, <2>3, WritesKeepTyped
<1>5. ASSUME T # None,
             q.s.unique /\ ~AddExists(T) => NextIndexId(T) <= MaxIndexId,
             NEW id \in AddIds(T),
             \/ Keep(t, AddAll(f, T, q, id), {}, AddWhat(f, T, q, id))
             \/ Err(t, AddAll(f, T, q, id), ~AddExists(T)),
             tcache' = AddG(f, T, q, id)
      PROVE  TypedState'
  <2>1. Typed(AddAll(f, T, q, id), {Deleted}) /\ Typed(AddPuts(f, T, q, id), {})
    <3>1. ~AddExists(T) => id \in NewColumnIds(T)
      BY DEF AddIds
    <3>2. AddUk(T, id).id = NextIndexId(T)
      BY DEF AddUk, IndexMeta
    <3> QED BY <1>1, <1>5, <3>1, <3>2, AddColumnPuts, TypedTable, Zenon
  <2>2. AddWhat(f, T, q, id) \subseteq HazardKinds
    BY DEF AddWhat, HazardKinds
  <2>3. WritesTyped(t)
    BY <1>5, <2>1, <2>2, KeepWritesTyped, ErrWritesTyped, Zenon
  <2>4. Typed(Over(AddPuts(f, T, q, id), f), {})
    BY <1>1, <2>1, TypedOver, Zenon
  <2>5. tcache' # None => IsCatalog(tcache')
    BY <1>5, <2>4, CollectProperties, TypedTable DEF AddG
  <2>6. CachesTyped'
    BY <1>2, <2>5 DEF CachesTyped, TypedState, TypeOK
  <2> QED BY <1>1, <2>3, <2>6, WritesKeepTyped
<1> QED BY <1>3, <1>4, <1>5, AddColumnCases, Zenon

(* The ways DROP COLUMN ends.                                               *)
LEMMA DropColumnCases ==
    ASSUME NEW t, DropColumn(t)
    PROVE  LET f == View(t)
               T == Table(f)
               q == plan[t]
           IN  /\ phase[t] = "bound" /\ q.op = "drop_column"
               /\ UNCHANGED <<vcache, file>>
               /\ \/ Done(t, Empty, {}) /\ UNCHANGED <<tcache, mcache>>
                  \/ Err(t, Empty, FALSE) /\ tcache' \in {tcache, T} /\ UNCHANGED mcache
                  \/ Drop(t, FALSE) /\ tcache' = T /\ UNCHANGED mcache
                  \/ /\ q.s.name \in ColumnNames(q.T) \ {"a"}
                     /\ T # None /\ q.s.name \in ColumnNames(T)
                     /\ Done(t, DropRows(f, q), DropDels(f, T, q))
                     /\ tcache' = None
                     /\ mcache' = Restrict(mcache, DOMAIN mcache \ {m.id : m \in DropGone(T, q)})
BY ZenonT(30) DEF DropColumn, Running, UncacheTable, DropC, DropAt, DropRows, DropGone, DropDels

(* A dropped transaction writes nothing.                                    *)
LEMMA DropWritesTyped ==
    ASSUME NEW t, NEW published, Drop(t, published)
    PROVE  WritesTyped(t)
BY Zenon DEF WritesTyped

(* DROP COLUMN keeps the types.                                             *)
LEMMA DropColumnTyped ==
    ASSUME FiniteSetFacts, TypedState, NEW t \in Txn, DropColumn(t)
    PROVE  TypedState'
<1>1. /\ phase[t] = "bound" /\ UNCHANGED <<vcache, file>>
      /\ tcache' \in {tcache, None, Table(View(t))}
    BY DropColumnCases, Zenon
<1>2. DOMAIN mcache' \subseteq DOMAIN mcache
  <2>1. \/ mcache' = mcache
        \/ mcache' = Restrict(mcache, DOMAIN mcache \ {m.id : m \in DropGone(Table(View(t)), plan[t])})
    BY DropColumnCases, Zenon
  <2> QED BY <2>1 DEF Restrict
<1>3. Typed(DropRows(View(t), plan[t]), {Deleted})
    BY TupleRowsTyped DEF DropRows
<1>4. WritesTyped(t)
    BY <1>3, EmptyTyped, DropColumnCases, DropWritesTyped, DoneWritesTyped, ErrWritesTyped, Zenon
<1>5. CachesTyped'
    BY <1>1, <1>2, CachesKept DEF CachesTyped, TypedState, TypeOK
<1> QED BY <1>1, <1>4, <1>5, WritesKeepTyped

(* The ways create_view ends.                                               *)
LEMMA CreateViewCases ==
    ASSUME NEW t, CreateView(t)
    PROVE  /\ phase[t] = "bound" /\ plan[t].op = "create_view"
           /\ UNCHANGED <<tcache, mcache, file>>
           /\ \/ Err(t, Empty, FALSE) /\ vcache' = vcache
              \/ /\ IF ViewKey \in DOMAIN View(t) THEN plan[t].s.flag ELSE Hash \notin DOMAIN View(t)
                 /\ Done(t, ViewPuts(View(t), plan[t]), {})
                 /\ vcache' = plan[t].s.body
BY Zenon DEF CreateView, Running, ViewPuts

(* create_view keeps the types.                                             *)
LEMMA CreateViewTyped ==
    ASSUME TypedState, NEW t \in Txn, CreateView(t)
    PROVE  TypedState'
<1>1. /\ PlanOK(plan[t]) /\ phase[t] = "bound" /\ plan[t].op = "create_view"
      /\ UNCHANGED <<tcache, mcache, file>>
    BY CreateViewCases DEF TypedState, TypeOK
<1>2. plan[t].s.body \in ViewBody
    BY <1>1, StatementFields DEF PlanOK
<1>3. Typed(ViewPuts(View(t), plan[t]), {Deleted})
  <2> DEFINE hash == IF ViewKey \in DOMAIN View(t) THEN Empty ELSE Pair(Hash, "name")
  <2>1. Typed(hash, {Deleted})
    BY PairTyped, EmptyTyped
  <2>2. Typed(Pair(ViewKey, plan[t].s.body), {Deleted})
    BY <1>2, PairTyped
  <2> HIDE DEF hash
  <2>3. Typed(Over(Pair(ViewKey, plan[t].s.body), hash), {Deleted})
    BY <2>1, <2>2, TypedOver, Zenon
  <2> QED BY <2>3 DEF ViewPuts, hash
<1>4. WritesTyped(t)
    BY <1>3, EmptyTyped, CreateViewCases, DoneWritesTyped, ErrWritesTyped, Zenon
<1>5. vcache' \in {vcache, plan[t].s.body}
    BY CreateViewCases, Zenon
<1>6. CachesTyped'
    BY <1>1, <1>2, <1>5 DEF CachesTyped, TypedState, TypeOK
<1> QED BY <1>1, <1>4, <1>6, WritesKeepTyped

(* The ways drop_view ends.                                                 *)
LEMMA DropViewCases ==
    ASSUME NEW t, DropView(t)
    PROVE  /\ phase[t] = "bound" /\ plan[t].op = "drop_view"
           /\ UNCHANGED <<tcache, mcache, file>>
           /\ \/ ViewOf(View(t)) = None /\ vcache' = vcache
                 /\ \/ Err(t, Unhash, FALSE)
                    \/ Keep(t, Unhash, {}, IF Root \in DOMAIN View(t) THEN {"hash"} ELSE {})
              \/ ViewOf(View(t)) # None /\ vcache' = None /\ Done(t, Unhash, {ViewKey})
BY Zenon DEF DropView, Running, UncacheView, Unhash

(* drop_view keeps the types.                                               *)
LEMMA DropViewTyped ==
    ASSUME TypedState, NEW t \in Txn, DropView(t)
    PROVE  TypedState'
<1>1. phase[t] = "bound" /\ UNCHANGED <<tcache, mcache, file>> /\ vcache' \in {vcache, None}
    BY DropViewCases, Zenon
<1>2. Typed(Unhash, {Deleted})
  <2>1. \A k \in DOMAIN Unhash : k[1] = "hash"
    BY KeyTags DEF Unhash
  <2> QED BY <2>1 DEF Typed
<1> DEFINE what == IF Root \in DOMAIN View(t) THEN {"hash"} ELSE {}
<1>3. what \subseteq HazardKinds
    BY DEF HazardKinds
<1>4. Err(t, Unhash, FALSE) \/ Keep(t, Unhash, {}, what) \/ Done(t, Unhash, {ViewKey})
    BY DropViewCases, Zenon
<1>5. WritesTyped(t)
  <2> HIDE DEF what
  <2> QED BY <1>2, <1>3, <1>4, KeepWritesTyped, DoneWritesTyped, ErrWritesTyped, Zenon
<1>6. CachesTyped'
    BY <1>1 DEF CachesTyped, TypedState, TypeOK
<1> QED BY <1>1, <1>5, <1>6, WritesKeepTyped

(* The ways ANALYZE ends.                                                   *)
LEMMA AnalyzeCases ==
    ASSUME NEW t, Analyze(t)
    PROVE  /\ phase[t] = "bound" /\ plan[t].op = "analyze"
           /\ tcache' = Table(View(t)) /\ UNCHANGED vcache
           /\ \/ Err(t, Empty, FALSE) /\ UNCHANGED <<mcache, file>>
              \/ /\ Table(View(t)) # None
                 /\ \E n \in 0..Len(Table(View(t)).indexes), renamed \in BOOLEAN :
                       /\ IF renamed THEN n < Len(Table(View(t)).indexes) ELSE n > 0
                       /\ Err(t, StatPuts(Table(View(t)), n), FALSE)
                       /\ mcache' = Over(Saved(Table(View(t)), n), mcache)
                       /\ file' = Over(Saved(Table(View(t)), IF renamed THEN n ELSE n - 1), file)
              \/ /\ Table(View(t)) # None
                 /\ \E ids : file' = Over(Saved(Table(View(t)), Len(Table(View(t)).indexes)),
                                         Restrict(file, DOMAIN file \ ids))
                 /\ Err(t, StatPuts(Table(View(t)), Len(Table(View(t)).indexes)), FALSE)
                 /\ mcache' = Over(Saved(Table(View(t)), Len(Table(View(t)).indexes)), mcache)
              \/ /\ Table(View(t)) # None
                 /\ Done(t, StatPuts(Table(View(t)), Len(Table(View(t)).indexes)), {})
                 /\ mcache' = Over(Saved(Table(View(t)), Len(Table(View(t)).indexes)), mcache)
                 /\ file' = Saved(Table(View(t)), Len(Table(View(t)).indexes))
BY ZenonT(30) DEF Analyze, Running, Saved, StatPuts

(* ANALYZE keeps the types.                                                 *)
LEMMA AnalyzeTyped ==
    ASSUME FiniteSetFacts, TypedState, NEW t \in Txn, Analyze(t)
    PROVE  TypedState'
<1> DEFINE T == Table(View(t))
<1>1. phase[t] = "bound" /\ tcache' = T /\ vcache' = vcache
    BY AnalyzeCases, Zenon
<1>2. WritesTyped(t)
    BY DMLHarmless, HarmlessWritesTyped
<1>3. DOMAIN mcache \cup DOMAIN file \subseteq 0..MaxIndexId
    BY DEF TypedState, TypeOK
<1>4. T # None => IsCatalog(T) /\ Len(T.indexes) \in Nat
    BY TypedTable DEF IsCatalog
<1>5. DOMAIN mcache' \cup DOMAIN file' \subseteq 0..MaxIndexId
  <2> HIDE DEF T
  <2>1. CASE UNCHANGED <<mcache, file>>
    BY <1>3, <2>1
  <2>2. ASSUME T # None, NEW n \in 0..Len(T.indexes), NEW renamed \in BOOLEAN,
               mcache' = Over(Saved(T, n), mcache),
               file' = Over(Saved(T, IF renamed THEN n ELSE n - 1), file)
        PROVE  DOMAIN mcache' \cup DOMAIN file' \subseteq 0..MaxIndexId
    <3> DEFINE j == IF renamed THEN n ELSE n - 1
    <3>1. n \in Int /\ n <= Len(T.indexes) /\ j \in Int /\ j <= Len(T.indexes)
      BY <1>4, <2>2
    <3>2. file' = Over(Saved(T, j), file)
      BY <2>2
    <3> HIDE DEF j
    <3>3. DOMAIN Saved(T, n) \subseteq 0..MaxIndexId /\ DOMAIN Saved(T, j) \subseteq 0..MaxIndexId
      BY <1>4, <2>2, <3>1, SavedIds
    <3>4. DOMAIN mcache' = DOMAIN Saved(T, n) \cup DOMAIN mcache /\ DOMAIN file' = DOMAIN Saved(T, j) \cup DOMAIN file
      BY <2>2, <3>2, OverKeys, Zenon
    <3> QED BY <1>3, <3>3, <3>4, Zenon
  <2>3. ASSUME T # None, mcache' = Over(Saved(T, Len(T.indexes)), mcache),
               file' = Saved(T, Len(T.indexes))
        PROVE  DOMAIN mcache' \cup DOMAIN file' \subseteq 0..MaxIndexId
    <3>1. DOMAIN Saved(T, Len(T.indexes)) \subseteq 0..MaxIndexId
      BY <1>4, <2>3, SavedIds
    <3>2. DOMAIN mcache' = DOMAIN Saved(T, Len(T.indexes)) \cup DOMAIN mcache
      BY <2>3, OverKeys, Zenon
    <3> QED BY <1>3, <2>3, <3>1, <3>2, Zenon
  <2>4. ASSUME T # None, mcache' = Over(Saved(T, Len(T.indexes)), mcache), NEW ids,
               file' = Over(Saved(T, Len(T.indexes)), Restrict(file, DOMAIN file \ ids))
        PROVE  DOMAIN mcache' \cup DOMAIN file' \subseteq 0..MaxIndexId
    <3>1. DOMAIN Saved(T, Len(T.indexes)) \subseteq 0..MaxIndexId
      BY <1>4, <2>4, SavedIds
    <3>2. DOMAIN Restrict(file, DOMAIN file \ ids) \subseteq DOMAIN file
      BY DEF Restrict
    <3>3. /\ DOMAIN mcache' = DOMAIN Saved(T, Len(T.indexes)) \cup DOMAIN mcache
          /\ DOMAIN file' = DOMAIN Saved(T, Len(T.indexes)) \cup DOMAIN Restrict(file, DOMAIN file \ ids)
      BY <2>4, OverKeys, Zenon
    <3> QED BY <1>3, <3>1, <3>2, <3>3, Zenon
  <2> QED BY <2>1, <2>2, <2>3, <2>4, AnalyzeCases, Zenon DEF T
<1>6. CachesTyped'
    BY <1>1, <1>5, CachesKept DEF CachesTyped, TypedState, TypeOK
<1> QED BY <1>1, <1>2, <1>6, WritesKeepTyped

(* TRUNCATE and DML keep the types.                                         *)
LEMMA RestTyped ==
    ASSUME FiniteSetFacts, TypedState, NEW t \in Txn, Truncate(t) \/ Insert(t) \/ Delete(t) \/ Select(t)
    PROVE  TypedState'
<1>1. /\ phase[t] = "bound" /\ tcache' \in {tcache, None, Table(View(t))}
      /\ UNCHANGED <<vcache, mcache, file>>
    BY Zenon DEF Truncate, Insert, Delete, Select, Running
<1>2. WritesTyped(t)
    BY DMLHarmless, HarmlessWritesTyped
<1>3. CachesTyped'
    BY <1>1, CachesKept DEF CachesTyped, TypedState, TypeOK
<1> QED BY <1>1, <1>2, <1>3, WritesKeepTyped

(* Binding a statement keeps the types.                                     *)
LEMMA BindTyped ==
    ASSUME FiniteSetFacts, TypedState, NEW t \in Txn, NEW s \in Statements, Bind(t, s)
    PROVE  TypedState'
<1> DEFINE f == View(t)
           T == Table(f)
           V == ViewOf(f)
           q == [op |-> s.op, s |-> s, T |-> IF s.op \in ReadsTable THEN T ELSE None]
<1>1. /\ phase[t] \in {"closed", "open"} /\ Bindable(s, T, V)
      /\ plan' = [plan EXCEPT ![t] = q] /\ phase' = [phase EXCEPT ![t] = "bound"]
      /\ tcache' \in {tcache, None, T} /\ vcache' \in {vcache, V}
      /\ UNCHANGED <<store, ws, stale, guard, file, ran, calm>> /\ Mark({})
    BY Zenon DEF Bind
<1>2. PICK ids \in {{}} \cup SUBSET Loadable(f, T) : mcache' = Over(mcache, Restrict(file, ids))
    BY Zenon DEF Bind
<1>3. DOMAIN mcache' \subseteq 0..MaxIndexId
  <2>1. ids \subseteq DOMAIN file
    BY DEF Loadable
  <2>2. DOMAIN Restrict(file, ids) = ids
    BY DEF Restrict
  <2>3. DOMAIN mcache' = DOMAIN mcache \cup ids
    BY <1>2, <2>2, OverKeys, Zenon
  <2> QED BY <2>1, <2>3 DEF TypedState, TypeOK
<1>4. V \in ViewBody \cup {None}
  <2>1. Typed(f, {})
    BY TypedView DEF TypedState
  <2>2. ViewKey \in DOMAIN f => f[ViewKey] \in ViewBody
    BY <2>1, KeyTags DEF Typed
  <2> HIDE DEF f
  <2> QED BY <2>2 DEF ViewOf, TypedState, TypeOK
<1>5. CachesTyped'
    BY <1>1, <1>3, <1>4, CachesKept DEF CachesTyped, TypedState, TypeOK
<1>6. PlanOK(q)
  <2>1. T # None => IsCatalog(T)
    BY TypedTable
  <2>2. q.s = s /\ q.op = s.op /\ (q.T # None => q.T = T) /\ (s.op \in ReadsTable => q.T = T)
    OBVIOUS
  <2> HIDE DEF q, T, V
  <2>3. /\ s.op \in {"add_column", "drop_column", "delete", "analyze"} => q.T # None
        /\ s.op = "create_index" => q.T # None /\ Range(s.on) \subseteq ColumnNames(q.T)
        /\ s.op = "insert" => q.T # None /\ {"a", "b"} \subseteq ColumnNames(q.T)
    BY <1>1, <2>2 DEF Bindable, ReadsTable
  <2> QED BY <2>1, <2>2, <2>3 DEF PlanOK
<1>7. q # NoPlan
    BY StatementFields DEF NoPlan
<1> HIDE DEF q
<1>8. hazard' \subseteq HazardKinds /\ app' = app
  <2>1. {} \subseteq HazardKinds /\ hazard \subseteq HazardKinds /\ Mark({})
    BY <1>1 DEF TypedState, TypeOK, HazardKinds
  <2> QED BY <2>1, MarkKinds
<1>9. \A x \in Txn : /\ phase'[x] \in {"closed", "open", "bound", "ran"}
                     /\ (phase'[x] = "bound") = (plan'[x] # NoPlan)
                     /\ phase'[x] = "closed" => ws'[x] = Empty /\ stale'[x] = {} /\ ~guard'[x]
                     /\ stale'[x] \subseteq DOMAIN ws'[x]
                     /\ plan'[x] # NoPlan => PlanOK(plan'[x])
    BY <1>1, <1>6, <1>7 DEF TypedState, TypeOK
<1>10. TypeOK'
    BY <1>1, <1>5, <1>8, <1>9 DEF TypedState, TypeOK, CachesTyped, HazardKinds, IsCatalog
<1>11. Typed(store, {})' /\ \A x \in Txn : Typed(ws[x], {Deleted})'
    BY <1>1 DEF TypedState, Typed
<1> QED BY <1>1, <1>5, <1>9, <1>10, <1>11 DEF TypedState, CachesTyped

(* Every step keeps the types.                                              *)
LEMMA TypedNext == FiniteSetFacts /\ TypedState /\ [Next]_vars => TypedState'
<1> SUFFICES ASSUME FiniteSetFacts, TypedState, [Next]_vars PROVE TypedState'
    OBVIOUS
<1>1. CASE UNCHANGED vars
  <2>1. TypeOK'
    BY <1>1 DEF vars, TypedState, TypeOK
  <2>2. Typed(store, {})' /\ \A x \in Txn : Typed(ws[x], {Deleted})'
    BY <1>1 DEF vars, TypedState, Typed
  <2> QED BY <1>1, <2>1, <2>2 DEF vars, TypedState
<1>2. CASE Crash
  <2>1. DOMAIN Empty = {} /\ Typed(Empty, {Deleted}) /\ Typed(store, {})'
    BY <1>2, EmptyTyped, EmptyKeys DEF Crash, TypedState, Typed
  <2>2. /\ store' = store /\ file' = file /\ app' = app /\ hazard' = hazard
        /\ ws' = [t \in Txn |-> Empty] /\ stale' = [t \in Txn |-> {}] /\ mcache' = Empty
        /\ phase' = [t \in Txn |-> "closed"] /\ guard' = [t \in Txn |-> FALSE]
        /\ plan' = [t \in Txn |-> NoPlan] /\ ran' = [t \in Txn |-> {}]
        /\ calm' = {} /\ tcache' = None /\ vcache' = None
    BY <1>2 DEF Crash
  <2>3. TypeOK'
    BY <2>1, <2>2 DEF TypedState, TypeOK
  <2> QED BY <2>1, <2>2, <2>3 DEF TypedState
<1>3. CASE Evict
  <2>1. UNCHANGED <<store, ws, stale, phase, guard, plan, file, app, ran, calm, hazard>>
    BY <1>3 DEF Evict
  <2>2. tcache' \in {tcache, None} /\ vcache' \in {vcache, None}
    BY <1>3 DEF Evict
  <2>3. DOMAIN mcache' \subseteq DOMAIN mcache
    BY <1>3 DEF Evict, Restrict
  <2>4. TypeOK'
    BY <2>1, <2>2, <2>3 DEF TypedState, TypeOK
  <2>5. Typed(store, {})' /\ \A x \in Txn : Typed(ws[x], {Deleted})'
    BY <2>1 DEF TypedState, Typed
  <2> QED BY <2>1, <2>2, <2>4, <2>5 DEF TypedState
<1>4. ASSUME NEW t \in Txn, BeginExplicit(t) PROVE TypedState'
  <2>1. /\ UNCHANGED <<store, ws, stale, plan, tcache, vcache, mcache, file, ran>>
        /\ phase[t] = "closed" /\ phase' = [phase EXCEPT ![t] = "open"]
        /\ guard' = [guard EXCEPT ![t] = TRUE] /\ calm' \subseteq calm \cup {t} /\ Mark({})
    BY <1>4 DEF BeginExplicit
  <2>2. hazard' \subseteq HazardKinds /\ app' = app
    <3>1. {} \subseteq HazardKinds /\ hazard \subseteq HazardKinds
      BY DEF TypedState, TypeOK, HazardKinds
    <3> QED BY <2>1, <3>1, MarkKinds
  <2>3. TypeOK'
    BY <2>1, <2>2 DEF TypedState, TypeOK, HazardKinds
  <2>4. Typed(store, {})' /\ \A x \in Txn : Typed(ws[x], {Deleted})'
    BY <2>1 DEF TypedState, Typed
  <2> QED BY <2>1, <2>3, <2>4 DEF TypedState
<1>5. ASSUME NEW t \in Txn, NEW s \in Workload[app], Bind(t, s) PROVE TypedState'
    BY <1>5, BindTyped, WorkloadAssumption DEF TypedState, TypeOK
<1>6. ASSUME NEW t \in Txn, Commit(t) PROVE TypedState'
  <2>1. CachesTyped'
    BY <1>6 DEF Commit, CachesTyped, TypedState, TypeOK
  <2>2. Typed(store, {})' /\ \A k \in DOMAIN store' : store'[k] # Deleted
    <3>1. store' = View(t) /\ Typed(View(t), {})
      BY <1>6, TypedView DEF Commit, TypedState
    <3> QED BY <3>1, ViewProperties DEF Typed
  <2>3. hazard' \subseteq HazardKinds /\ app' = app
    <3>1. {} \subseteq HazardKinds /\ hazard \subseteq HazardKinds /\ Mark({})
      BY <1>6 DEF TypedState, TypeOK, HazardKinds, Commit
    <3> QED BY <3>1, MarkKinds
  <2>4. /\ DOMAIN stale' = Txn /\ stale'[t] = {}
        /\ \A x \in Txn \ {t} : stale'[x] = stale[x] \cup (DOMAIN ws[x] \cap DOMAIN ws[t])
    BY <1>6 DEF Commit
  <2>5. \A x \in Txn \ {t} : stale'[x] \subseteq stale[x] \cup DOMAIN ws[x]
                             /\ (ws[x] = Empty => stale'[x] = stale[x])
    BY <2>4, EmptyKeys
  <2> QED BY <1>6, <2>1, <2>2, <2>3, <2>4, <2>5, CloseTyped DEF Commit
<1>7. ASSUME NEW t \in Txn, DropIterator(t) PROVE TypedState'
  <2>1. Typed(store, {})' /\ \A x \in Txn : Typed(ws[x], {Deleted})'
    BY <1>7 DEF TypedState, Typed, DropIterator
  <2> QED BY <1>7, <2>1 DEF DropIterator, TypedState, TypeOK
<1>8. ASSUME NEW t \in Txn, Abandon(t) PROVE TypedState'
  <2>1. UNCHANGED <<tcache, vcache, mcache, file>> /\ Drop(t, ws[t] # Empty /\ ran[t] \cap Publishing # {})
    BY <1>8 DEF Abandon
  <2>2. CachesTyped'
    BY <2>1 DEF CachesTyped, TypedState, TypeOK
  <2> QED BY <2>1, <2>2, DropTyped, Zenon
<1> QED BY <1>1, <1>2, <1>3, <1>4, <1>5, <1>6, <1>7, <1>8, CreateTableTyped, DropTableTyped,
           CreateIndexTyped, DropIndexTyped, AddColumnTyped, DropColumnTyped, CreateViewTyped,
           DropViewTyped, AnalyzeTyped, RestTyped, Zenon DEF Next

(* The types at the start.                                                  *)
LEMMA TypedInit == Init => TypedState
<1> SUFFICES ASSUME Init PROVE TypedState
    OBVIOUS
<1>1. DOMAIN Empty = {} /\ \A absent : Typed(Empty, absent)
    BY EmptyTyped, EmptyKeys
<1>2. TypeOK
    BY <1>1 DEF Init, TypeOK
<1> QED BY <1>1, <1>2 DEF Init, TypedState

=============================================================================
