-------------------------- MODULE TransactionalTable --------------------------
(***************************************************************************)
(* One table of KiteSQL under concurrent transactions.                      *)
(*                                                                          *)
(* The table has a primary key, one column with a UNIQUE index and one with *)
(* a normal index.  A row is three kinds of key in the key/value store: the *)
(* tuple itself, a unique-index entry and a normal-index entry.  Every      *)
(* INSERT, UPDATE or DELETE is a loop of the executor (execution/dml/) over *)
(* rows, and every call it makes on the storage (Transaction::get, set,     *)
(* remove) is a step of its own, so that commits of other transactions fall *)
(* between any two of them.                                                 *)
(*                                                                          *)
(* The store below is RocksDB's OptimisticTransactionDB as rocksdb.rs uses  *)
(* it: reads are not tracked and see the latest commit under the            *)
(* transaction's own writes; a write is tracked from the first time the     *)
(* transaction writes the key; a commit fails when a tracked key was        *)
(* committed by somebody else in between.                                   *)
(***************************************************************************)
EXTENDS Integers

CONSTANTS
    Txn,        \* transaction handles (DatabaseIter or DBTransaction)
    Pk,         \* primary key values
    UVal,       \* values of the column with the UNIQUE index
    NVal,       \* values of the column with the normal index
    Modes,      \* which of {"auto", "explicit"} the application uses
    Ops,        \* which of {"insert","overwrite","update","delete"} it runs
    MaxStmts,   \* bound: statements of one explicit transaction
    None,       \* absent value
    Unwritten   \* key not in the write batch

ASSUME PkAssumption == Pk \subseteq Int
ASSUME ModesAssumption == Modes \subseteq {"auto", "explicit"}
ASSUME OpsAssumption == Ops \subseteq {"insert", "overwrite", "update", "delete"}
ASSUME MaxStmtsAssumption == MaxStmts \in Nat

Row == [u : UVal, n : NVal]

ASSUME NoneAssumption == None \notin Row \cup Pk
ASSUME UnwrittenAssumption == Unwritten \notin Row \cup Pk \cup {None}

-----------------------------------------------------------------------------
(* Keys of the store: the tags keep the three key spaces apart, and only    *)
(* the normal index carries the tuple id in its key.                        *)

TupleKey(pk) == <<"tuple", pk>>
UniqueKey(v) == <<"unique", v>>
NormalKey(v, pk) == <<"normal", v, pk>>

TupleKeys == {TupleKey(pk) : pk \in Pk}
UniqueKeys == {UniqueKey(v) : v \in UVal}
NormalKeys == {NormalKey(v, pk) : v \in NVal, pk \in Pk}
Key == TupleKeys \cup UniqueKeys \cup NormalKeys

(* A tuple key holds a row; an index key holds the tuple id.                *)
IsKV(f, absent) ==
    /\ f = [k \in Key |-> f[k]]
    /\ \A pk \in Pk : f[TupleKey(pk)] \in Row \cup absent
    /\ \A v \in UVal : f[UniqueKey(v)] \in Pk \cup absent
    /\ \A v \in NVal, pk \in Pk : f[NormalKey(v, pk)] \in {pk} \cup absent

-----------------------------------------------------------------------------
VARIABLES
    store,      \* the committed key/value pairs
    ws,         \* ws[t]: write batch, Unwritten where t did not write
    stale,      \* stale[t]: keys of the batch committed by others since
    mode,       \* mode[t]: "closed", "auto" or "explicit"
    stmts,      \* stmts[t]: statements t may still start
    pc,         \* pc[t]: the storage call the executor of t is about to make
    cur,        \* cur[t]: the row the executor works on
    todo,       \* todo[t]: primary keys its input has still to deliver
    snap,       \* snap[t]: tuples under the scan's iterator
    acc,        \* acc[t]: rows this DELETE has collected (delete.rs `indexes`)
    \* History, read by the properties only:
    taint,      \* taint[t]: what went wrong inside t, see the actions
    hazard,     \* union of the taints of the committed transactions
    inserted    \* inserted[t]: keys whose insert found no committed tuple

txnVars == <<mode, stmts>>
execVars == <<pc, cur, todo, snap, acc>>
ghosts == <<taint, hazard, inserted>>
vars == <<store, ws, stale, mode, stmts, pc, cur, todo, snap, acc,
          taint, hazard, inserted>>

(* What an executor holds: its operation, the row it read, the one it       *)
(* writes.                                                                  *)
Reg(op, pk, row, npk, nrow) ==
    [op |-> op, pk |-> pk, row |-> row, npk |-> npk, nrow |-> nrow]
RowDone(op) == Reg(op, None, None, None, None)
NoRow == RowDone("none")
EmptyBatch == [k \in Key |-> Unwritten]
NoTuples == [pk \in Pk |-> None]

Calls == {"delU", "delN", "eval", "remove", "getU", "putU", "putN", "getT", "putT"}
PC == {"idle", "next", "done"} \cup Calls
MidStatement(t) == pc[t] \in {"next"} \cup Calls

Tuples(f) == [pk \in Pk |-> f[TupleKey(pk)]]
Written(t) == {k \in Key : ws[t][k] # Unwritten}
View(t) == [k \in Key |-> IF ws[t][k] = Unwritten THEN store[k] ELSE ws[t][k]]

Init ==
    /\ store = [k \in Key |-> None]
    /\ ws = [t \in Txn |-> EmptyBatch]
    /\ stale = [t \in Txn |-> {}]
    /\ mode = [t \in Txn |-> "closed"]
    /\ stmts = [t \in Txn |-> 0]
    /\ pc = [t \in Txn |-> "idle"]
    /\ cur = [t \in Txn |-> NoRow]
    /\ todo = [t \in Txn |-> {}]
    /\ snap = [t \in Txn |-> NoTuples]
    /\ acc = [t \in Txn |-> {}]
    /\ taint = [t \in Txn |-> {}]
    /\ hazard = {}
    /\ inserted = [t \in Txn |-> {}]

-----------------------------------------------------------------------------
(* The storage interface (rocksdb.rs).                                      *)

Get(t, k) == IF ws[t][k] = Unwritten THEN store[k] ELSE ws[t][k]

Set(t, k, v) == ws' = [ws EXCEPT ![t][k] = v]

Without(f, K) == [k \in Key |-> IF k \in K THEN None ELSE f[k]]

Remove(t, K) == ws' = [ws EXCEPT ![t] = Without(ws[t], K)]

(* What dropping a transaction, or a commit, leaves of it.                  *)
Close(t) ==
    /\ ws' = [ws EXCEPT ![t] = EmptyBatch]
    /\ mode' = [mode EXCEPT ![t] = "closed"]
    /\ stmts' = [stmts EXCEPT ![t] = 0]
    /\ pc' = [pc EXCEPT ![t] = "idle"]
    /\ cur' = [cur EXCEPT ![t] = NoRow]
    /\ todo' = [todo EXCEPT ![t] = {}]
    /\ snap' = [snap EXCEPT ![t] = NoTuples]
    /\ acc' = [acc EXCEPT ![t] = {}]
    /\ inserted' = [inserted EXCEPT ![t] = {}]

Abandon(t) ==
    /\ Close(t)
    /\ stale' = [stale EXCEPT ![t] = {}]
    /\ taint' = [taint EXCEPT ![t] = {}]
    /\ UNCHANGED <<store, hazard>>

-----------------------------------------------------------------------------
(* Transactions (db.rs).                                                    *)

(* Database::execute opens a transaction for one statement ("auto"),        *)
(* Database::new_transaction one for many ("explicit").                     *)
Begin(t) ==
    /\ mode[t] = "closed"
    /\ \E m \in Modes :
        /\ mode' = [mode EXCEPT ![t] = m]
        /\ stmts' = [stmts EXCEPT ![t] = IF m = "auto" THEN 1 ELSE MaxStmts]
    /\ UNCHANGED <<store, ws, stale, execVars, ghosts>>

(* The executor is at rest: DBTransaction between statements, DatabaseIter  *)
(* once its statement has run.                                              *)
AtRest(t) ==
    \/ mode[t] = "explicit" /\ pc[t] = "idle"
    \/ mode[t] = "auto" /\ pc[t] = "done"

(* Mutant of Commit: the keys overtaken since they were written are not     *)
(* looked at.                                                               *)
CommitUnchecked(t) ==
    /\ AtRest(t)
    /\ store' = View(t)
    /\ stale' = [x \in Txn |-> IF x = t THEN {}
                               ELSE stale[x] \cup (Written(x) \cap Written(t))]
    /\ hazard' = hazard \cup taint[t]
    /\ taint' = [x \in Txn |->
                    IF x = t THEN {}
                    ELSE IF MidStatement(x) /\ Written(t) # {}
                         THEN taint[x] \cup {"race"}
                         ELSE taint[x]]
    /\ Close(t)

(* Mutant of Commit: the other transactions' writes are not tracked.        *)
CommitUntracked(t) ==
    /\ AtRest(t)
    /\ stale[t] = {}
    /\ store' = View(t)
    /\ stale' = stale
    /\ hazard' = hazard \cup taint[t]
    /\ taint' = [x \in Txn |->
                    IF x = t THEN {}
                    ELSE IF MidStatement(x) /\ Written(t) # {}
                         THEN taint[x] \cup {"race"}
                         ELSE taint[x]]
    /\ Close(t)

(* DatabaseIter::done / DBTransaction::commit.  A transaction that another  *)
(* commit overtakes in the middle of a statement is tainted "race".         *)
Commit(t) ==
    /\ AtRest(t)
    /\ stale[t] = {}
    /\ store' = View(t)
    /\ stale' = [x \in Txn |-> IF x = t THEN {}
                               ELSE stale[x] \cup (Written(x) \cap Written(t))]
    /\ hazard' = hazard \cup taint[t]
    /\ taint' = [x \in Txn |->
                    IF x = t THEN {}
                    ELSE IF MidStatement(x) /\ Written(t) # {}
                         THEN taint[x] \cup {"race"}
                         ELSE taint[x]]
    /\ Close(t)

(* RocksDB refuses the commit: Busy when a tracked key was overtaken, or    *)
(* TryAgain when its memtables no longer reach back far enough to tell.     *)
CommitFails(t) ==
    /\ AtRest(t)
    /\ Written(t) # {}
    /\ Abandon(t)

(* The DatabaseIter or DBTransaction is dropped without a commit.           *)
Rollback(t) ==
    /\ mode[t] # "closed"
    /\ pc[t] \in {"idle", "done"}
    /\ Abandon(t)

(* The process dies: every open transaction is lost, the store is not.      *)
Crash ==
    /\ ws' = [t \in Txn |-> EmptyBatch]
    /\ stale' = [t \in Txn |-> {}]
    /\ mode' = [t \in Txn |-> "closed"]
    /\ stmts' = [t \in Txn |-> 0]
    /\ pc' = [t \in Txn |-> "idle"]
    /\ cur' = [t \in Txn |-> NoRow]
    /\ todo' = [t \in Txn |-> {}]
    /\ snap' = [t \in Txn |-> NoTuples]
    /\ acc' = [t \in Txn |-> {}]
    /\ taint' = [t \in Txn |-> {}]
    /\ inserted' = [t \in Txn |-> {}]
    /\ UNCHANGED <<store, hazard>>

-----------------------------------------------------------------------------
(* Executors (execution/dml/).                                              *)

Goto(t, label) == pc' = [pc EXCEPT ![t] = label]

(* The scan of an UPDATE or DELETE opens its iterator here: it keeps seeing *)
(* the tuples committed by now, under the transaction's own writes.         *)
StartStatement(t) ==
    /\ mode[t] # "closed"
    /\ pc[t] = "idle"
    /\ stmts[t] > 0
    /\ stmts' = [stmts EXCEPT ![t] = @ - 1]
    /\ \E op \in Ops, selected \in SUBSET Pk :
        /\ selected # {}
        /\ cur' = [cur EXCEPT ![t] = RowDone(op)]
        /\ todo' = [todo EXCEPT ![t] = selected]
    /\ snap' = [snap EXCEPT ![t] = Tuples(store)]
    /\ Goto(t, "next")
    /\ UNCHANGED <<store, ws, stale, mode, acc, ghosts>>

Finish(t, label) ==
    /\ Goto(t, label)
    /\ cur' = [cur EXCEPT ![t] = NoRow]
    /\ todo' = [todo EXCEPT ![t] = {}]
    /\ snap' = [snap EXCEPT ![t] = NoTuples]
    /\ acc' = [acc EXCEPT ![t] = {}]

RestLabel(t) == IF mode[t] = "auto" THEN "done" ELSE "idle"

EndStatement(t) ==
    /\ pc[t] = "next"
    /\ todo[t] = {}
    /\ Finish(t, RestLabel(t))
    /\ UNCHANGED <<store, ws, stale, txnVars, ghosts>>

(* An executor yields an error and returns.  DatabaseIter::done then drops  *)
(* the transaction; a DBTransaction, or a DatabaseIter whose caller took    *)
(* the error from next(), keeps what the statement wrote so far.  "torn"    *)
(* records that the error struck between two writes of one row.             *)
Fail(t, touched) ==
    \/ mode[t] = "auto" /\ Abandon(t)
    \/ /\ Finish(t, RestLabel(t))
       /\ taint' = [taint EXCEPT ![t] = @ \cup (IF touched THEN {"torn"} ELSE {})]
       /\ UNCHANGED <<store, ws, stale, txnVars, hazard, inserted>>

(* The input or the NOT NULL check of the next row fails.                   *)
NextFails(t) ==
    /\ pc[t] = "next"
    /\ todo[t] # {}
    /\ Fail(t, FALSE)

(* VALUES may name a primary key twice.                                     *)
NextInserted(t) ==
    /\ pc[t] = "next"
    /\ cur[t].op \in {"insert", "overwrite"}
    /\ \E pk \in todo[t], row \in Row :
        /\ cur' = [cur EXCEPT ![t] = Reg(cur[t].op, None, None, pk, row)]
        /\ \/ todo' = [todo EXCEPT ![t] = @ \ {pk}]
           \/ UNCHANGED todo
    /\ Goto(t, "getU")
    /\ UNCHANGED <<store, ws, stale, txnVars, snap, acc, ghosts>>

(* The scan delivers tuples in primary-key order.                           *)
NextScanned(t) ==
    /\ pc[t] = "next"
    /\ cur[t].op \in {"update", "delete"}
    /\ \E pk \in todo[t] :
        LET row == IF ws[t][TupleKey(pk)] = Unwritten
                   THEN snap[t][pk] ELSE ws[t][TupleKey(pk)]
        IN  /\ \A q \in todo[t] : pk <= q
            /\ todo' = [todo EXCEPT ![t] = @ \ {pk}]
            /\ IF row = None
               THEN UNCHANGED <<cur, pc, acc>>
               ELSE /\ cur' = [cur EXCEPT ![t] = Reg(cur[t].op, pk, row, None, None)]
                    /\ acc' = [acc EXCEPT ![t] =
                                 IF cur[t].op = "delete" THEN @ \cup {row} ELSE {row}]
                    /\ Goto(t, "delU")
    /\ UNCHANGED <<store, ws, stale, txnVars, snap, ghosts>>

(* Mutant of DelUnique: only DELETE removes the unique entries.             *)
DelUniqueOnDelete(t) ==
    /\ pc[t] = "delU"
    /\ Remove(t, {UniqueKey(r.u) : r \in IF cur[t].op = "delete" THEN acc[t] ELSE {}})
    /\ Goto(t, "delN")
    /\ UNCHANGED <<store, stale, txnVars, cur, todo, snap, acc, ghosts>>

(* del_index: UPDATE removes the entries of the old row; DELETE those of    *)
(* every row it has collected so far, under the current tuple id.           *)
DelUnique(t) ==
    /\ pc[t] = "delU"
    /\ Remove(t, {UniqueKey(r.u) : r \in acc[t]})
    /\ Goto(t, "delN")
    /\ UNCHANGED <<store, stale, txnVars, cur, todo, snap, acc, ghosts>>

DelNormal(t) ==
    /\ pc[t] = "delN"
    /\ Remove(t, {NormalKey(r.n, cur[t].pk) : r \in acc[t]})
    /\ Goto(t, IF cur[t].op = "delete" THEN "remove" ELSE "eval")
    /\ UNCHANGED <<store, stale, txnVars, cur, todo, snap, acc, ghosts>>

(* UPDATE evaluates the new column values, which may fail.                  *)
Eval(t) ==
    /\ pc[t] = "eval"
    /\ \E npk \in Pk, nrow \in Row :
        /\ cur' = [cur EXCEPT ![t] =
                      Reg("update", cur[t].pk, cur[t].row, npk, nrow)]
        /\ Goto(t, IF npk = cur[t].pk THEN "getU" ELSE "remove")
    /\ UNCHANGED <<store, ws, stale, txnVars, todo, snap, acc, ghosts>>

EvalFails(t) ==
    /\ pc[t] = "eval"
    /\ Fail(t, TRUE)

(* Mutant of RemoveTuple: an UPDATE that moves the key leaves the tuple.    *)
RemoveTupleOnDelete(t) ==
    /\ pc[t] = "remove"
    /\ IF cur[t].op = "delete"
       THEN /\ Remove(t, {TupleKey(cur[t].pk)})
            /\ Goto(t, "next")
            /\ cur' = [cur EXCEPT ![t] = RowDone("delete")]
       ELSE /\ Goto(t, "getU")
            /\ UNCHANGED <<ws, cur>>
    /\ UNCHANGED <<store, stale, txnVars, todo, snap, acc, ghosts>>

RemoveTuple(t) ==
    /\ pc[t] = "remove"
    /\ Remove(t, {TupleKey(cur[t].pk)})
    /\ IF cur[t].op = "delete"
       THEN /\ Goto(t, "next")
            /\ cur' = [cur EXCEPT ![t] = RowDone("delete")]
       ELSE /\ Goto(t, "getU")
            /\ UNCHANGED cur
    /\ UNCHANGED <<store, stale, txnVars, todo, snap, acc, ghosts>>

(* Mutant of GetUnique: an entry of another tuple is no error.              *)
GetUniqueUnchecked(t) ==
    /\ pc[t] = "getU"
    /\ Goto(t, "putU")
    /\ UNCHANGED <<store, ws, stale, txnVars, cur, todo, snap, acc, ghosts>>

(* add_index on the UNIQUE index.                                           *)
GetUnique(t) ==
    LET found == Get(t, UniqueKey(cur[t].nrow.u))
    IN  /\ pc[t] = "getU"
        /\ \/ /\ found \in {None, cur[t].npk}
              /\ Goto(t, IF found = None THEN "putU" ELSE "putN")
              /\ UNCHANGED <<store, ws, stale, txnVars, cur, todo, snap, acc, ghosts>>
           \/ /\ found \notin {None, cur[t].npk}
              /\ Fail(t, cur[t].op = "update")

PutUnique(t) ==
    /\ pc[t] = "putU"
    /\ Set(t, UniqueKey(cur[t].nrow.u), cur[t].npk)
    /\ Goto(t, "putN")
    /\ UNCHANGED <<store, stale, txnVars, cur, todo, snap, acc, ghosts>>

(* `is_overwrite` of append_tuple.                                          *)
IsOverwrite(t) ==
    \/ cur[t].op = "overwrite"
    \/ cur[t].op = "update" /\ cur[t].npk = cur[t].pk

(* Mutant of PutNormal: the entry carries the tuple id the row had before.  *)
PutNormalOldPk(t) ==
    /\ pc[t] = "putN"
    /\ Set(t, NormalKey(cur[t].nrow.n, cur[t].npk), cur[t].pk)
    /\ Goto(t, IF IsOverwrite(t) THEN "putT" ELSE "getT")
    /\ UNCHANGED <<store, stale, txnVars, cur, todo, snap, acc, ghosts>>

PutNormal(t) ==
    /\ pc[t] = "putN"
    /\ Set(t, NormalKey(cur[t].nrow.n, cur[t].npk), cur[t].npk)
    /\ Goto(t, IF IsOverwrite(t) THEN "putT" ELSE "getT")
    /\ UNCHANGED <<store, stale, txnVars, cur, todo, snap, acc, ghosts>>

(* Mutant of GetTuple: only the transaction's own batch is searched.        *)
GetTupleOwnBatch(t) ==
    LET key == TupleKey(cur[t].npk)
    IN  /\ pc[t] = "getT"
        /\ ws[t][key] \in {None, Unwritten}
        /\ inserted' = [inserted EXCEPT ![t] =
              IF ws[t][key] = Unwritten THEN @ \cup {cur[t].npk} ELSE @]
        /\ Goto(t, "putT")
        /\ UNCHANGED <<store, ws, stale, txnVars, cur, todo, snap, acc, taint, hazard>>

(* append_tuple's duplicate check.                                          *)
GetTuple(t) ==
    LET key == TupleKey(cur[t].npk)
    IN  /\ pc[t] = "getT"
        /\ \/ /\ Get(t, key) = None
              /\ inserted' = [inserted EXCEPT ![t] =
                    IF ws[t][key] = Unwritten THEN @ \cup {cur[t].npk} ELSE @]
              /\ Goto(t, "putT")
              /\ UNCHANGED <<store, ws, stale, txnVars, cur, todo, snap, acc,
                             taint, hazard>>
           \/ /\ Get(t, key) # None
              /\ Fail(t, TRUE)

(* A row whose primary key moved may or may not come up again in the scan   *)
(* that moved it.  INSERT OVERWRITE does not remove the index entries of    *)
(* the tuple it replaces, which the taint "overwrite" records.              *)
PutTuple(t) ==
    LET key == TupleKey(cur[t].npk)
        moved == cur[t].op = "update" /\ cur[t].npk # cur[t].pk
    IN  /\ pc[t] = "putT"
        /\ Set(t, key, cur[t].nrow)
        /\ taint' = [taint EXCEPT ![t] =
              IF cur[t].op = "overwrite" /\ Get(t, key) \notin {None, cur[t].nrow}
              THEN @ \cup {"overwrite"} ELSE @]
        /\ \/ UNCHANGED todo
           \/ moved /\ todo' = [todo EXCEPT ![t] = @ \ {cur[t].npk}]
        /\ cur' = [cur EXCEPT ![t] = RowDone(cur[t].op)]
        /\ Goto(t, "next")
        /\ UNCHANGED <<store, stale, txnVars, snap, acc, hazard, inserted>>

-----------------------------------------------------------------------------
TxnStep(t) ==
    \/ Begin(t) \/ Commit(t) \/ CommitFails(t) \/ Rollback(t)
    \/ StartStatement(t) \/ EndStatement(t)
    \/ NextFails(t) \/ NextInserted(t) \/ NextScanned(t)
    \/ DelUnique(t) \/ DelNormal(t) \/ Eval(t) \/ EvalFails(t) \/ RemoveTuple(t)
    \/ GetUnique(t) \/ PutUnique(t) \/ PutNormal(t) \/ GetTuple(t) \/ PutTuple(t)

Next == Crash \/ \E t \in Txn : TxnStep(t)

Spec == Init /\ [][Next]_vars

-----------------------------------------------------------------------------
Registers ==
    [op : {"none", "insert", "overwrite", "update", "delete"},
     pk : Pk \cup {None}, row : Row \cup {None},
     npk : Pk \cup {None}, nrow : Row \cup {None}]

Taints == {"race", "torn", "overwrite"}

(* Every variable keeps its type: in particular the executors' registers    *)
(* hold rows and keys of the table.                                         *)
TypeOK ==
    /\ IsKV(store, {None})
    /\ ws = [t \in Txn |-> ws[t]]
    /\ \A t \in Txn : IsKV(ws[t], {None, Unwritten})
    /\ stale \in [Txn -> SUBSET Key]
    /\ mode \in [Txn -> {"closed", "auto", "explicit"}]
    /\ stmts \in [Txn -> Nat]
    /\ pc \in [Txn -> PC]
    /\ cur \in [Txn -> Registers]
    /\ todo \in [Txn -> SUBSET Pk]
    /\ snap \in [Txn -> [Pk -> Row \cup {None}]]
    /\ acc \in [Txn -> SUBSET Row]
    /\ taint \in [Txn -> SUBSET Taints]
    /\ hazard \in SUBSET Taints
    /\ inserted \in [Txn -> SUBSET Pk]

(* Tuples and index entries describe the same rows.                         *)
Consistent(f) ==
    /\ \A pk \in Pk : f[TupleKey(pk)] # None =>
          /\ f[UniqueKey(f[TupleKey(pk)].u)] = pk
          /\ f[NormalKey(f[TupleKey(pk)].n, pk)] = pk
    /\ \A v \in UVal : f[UniqueKey(v)] # None =>
          /\ f[TupleKey(f[UniqueKey(v)])] # None
          /\ f[TupleKey(f[UniqueKey(v)])].u = v
    /\ \A v \in NVal, pk \in Pk : f[NormalKey(v, pk)] # None =>
          /\ f[TupleKey(pk)] # None
          /\ f[TupleKey(pk)].n = v

(* Whatever transactions overlap, the committed tuples and index entries    *)
(* stay consistent, as long as no committed transaction was overtaken in    *)
(* the middle of a statement, committed past an error that tore a row, or   *)
(* replaced a tuple by INSERT OVERWRITE (rocksdb.rs commit, insert.rs,      *)
(* update.rs, delete.rs).                                                   *)
IndexConsistent == hazard = {} => Consistent(store)

(* Between its statements an open transaction reads consistent tuples and   *)
(* index entries too, until another commit makes one of its writes stale    *)
(* (rocksdb.rs get over the write batch).                                   *)
ReadsConsistent ==
    \A t \in Txn :
        (hazard = {} /\ taint[t] = {} /\ stale[t] = {} /\ ~MidStatement(t))
            => Consistent(View(t))

(* An INSERT that found no tuple under its key never replaces one: when the *)
(* transaction commits the key is still absent from the store, unless the   *)
(* transaction was overtaken inside a statement (append_tuple's check).     *)
InsertNeverReplaces ==
    [][\A t \in Txn :
        (Commit(t) /\ "race" \notin taint[t]) =>
            \A pk \in inserted[t] : store[TupleKey(pk)] = None]_vars

(* DuplicateUniqueValue, "the value already exists", is told truthfully: a  *)
(* tuple with that value is there (add_index on a UNIQUE index).            *)
DuplicateIsReal(allowed) ==
    \A t \in Txn :
        (/\ hazard \subseteq allowed
         /\ taint[t] \subseteq allowed
         /\ stale[t] = {}
         /\ pc[t] = "getU"
         /\ Get(t, UniqueKey(cur[t].nrow.u)) \notin {None, cur[t].npk})
            => \E pk \in Pk : /\ Get(t, TupleKey(pk)) # None
                              /\ Get(t, TupleKey(pk)).u = cur[t].nrow.u

(* In particular while no row was torn, overwritten or raced for.           *)
DuplicateUniqueIsReal == DuplicateIsReal({})

-----------------------------------------------------------------------------
(* The strengthening that makes the properties inductive: what holds        *)
(* between two storage calls of one executor.                               *)

(* Which registers are filled at which call.                                *)
RegistersOK(t) ==
    LET c == cur[t]
    IN  /\ pc[t] \in {"idle", "done"} => acc[t] = {}
        /\ pc[t] \in {"delU", "delN", "eval", "remove"} =>
              c.op \in {"update", "delete"} /\ c.pk \in Pk /\ c.row \in Row
        /\ pc[t] \in {"delU", "delN"} => c.row \in acc[t]
        /\ pc[t] = "eval" => c.op = "update"
        /\ pc[t] = "remove" /\ c.op = "update" =>
              c.npk \in Pk /\ c.nrow \in Row /\ c.npk # c.pk
        /\ pc[t] \in {"getU", "putU", "putN", "getT", "putT"} =>
              /\ c.op \in {"insert", "overwrite", "update"}
              /\ c.npk \in Pk /\ c.nrow \in Row
        /\ pc[t] = "putT" /\ ~IsOverwrite(t) => Get(t, TupleKey(c.npk)) = None
              \/ "race" \in taint[t]

(* The view without the tuple that an UPDATE in place is about to replace.  *)
Base(t) ==
    IF cur[t].op = "update" /\ cur[t].npk = cur[t].pk
    THEN Without(View(t), {TupleKey(cur[t].npk)})
    ELSE View(t)

(* The tuples and index entries an executor sees differ from consistent     *)
(* ones by exactly the calls it has made for its current row.               *)
RowInProgress(t) ==
    LET f == View(t)
        g == Base(t)
        c == cur[t]
        Entries == {UniqueKey(c.nrow.u), NormalKey(c.nrow.n, c.npk)}
    IN  /\ pc[t] \in {"idle", "done", "next", "delU"} => Consistent(f)
        /\ pc[t] = "delU" =>
              /\ f[TupleKey(c.pk)] = c.row
              /\ \A r \in acc[t] : r = c.row \/ f[UniqueKey(r.u)] = None
        /\ pc[t] = "delN" =>
              Consistent(Without(f, {TupleKey(c.pk), NormalKey(c.row.n, c.pk)}))
        /\ pc[t] \in {"eval", "remove"} => Consistent(Without(f, {TupleKey(c.pk)}))
        /\ pc[t] \in {"next", "delN", "remove"} /\ c.op = "delete" =>
              \A r \in acc[t] : f[UniqueKey(r.u)] = None
        /\ pc[t] \in {"getU", "putU"} => Consistent(g)
        /\ pc[t] = "putU" => f[UniqueKey(c.nrow.u)] = None
        /\ pc[t] \in {"putN", "getT", "putT"} =>
              /\ f[UniqueKey(c.nrow.u)] = c.npk
              /\ g[TupleKey(c.npk)] = None => Consistent(Without(g, Entries))
              /\ g[TupleKey(c.npk)] = c.nrow => Consistent(g)
        /\ pc[t] \in {"getT", "putT"} => f[NormalKey(c.nrow.n, c.npk)] = c.npk
        /\ MidStatement(t) => snap[t] = Tuples(store)

(* Between any two storage calls of the executors (insert.rs, update.rs,    *)
(* delete.rs) the committed store is consistent, and an executor that no    *)
(* commit has overtaken is off by its current row only.                     *)
ExecutorsConsistent ==
    /\ \A t \in Txn : RegistersOK(t)
    /\ hazard = {} =>
          /\ Consistent(store)
          /\ \A t \in Txn : taint[t] = {} /\ stale[t] = {} => RowInProgress(t)

(* A key that an INSERT found absent is in the batch of its transaction, or *)
(* about to be, and whoever commits the key first makes it stale there.     *)
InsertsTracked ==
    \A t \in Txn : "race" \notin taint[t] =>
        \A pk \in inserted[t] :
            /\ store[TupleKey(pk)] = None \/ TupleKey(pk) \in stale[t]
            /\ ws[t][TupleKey(pk)] # Unwritten \/ (pc[t] = "putT" /\ cur[t].npk = pk)
=============================================================================
