------------------------ MODULE MCTransactionalTable ------------------------
(* Instances of TransactionalTable for TLC, and what the repository's tests *)
(* and messages say of it without the exemptions of the proved properties.  *)
EXTENDS TransactionalTable, TLC

Symmetry == Permutations(Txn) \cup Permutations(UVal) \cup Permutations(NVal)

(* The conditional properties say nothing of a tainted transaction, nor of  *)
(* anything after its commit.                                               *)
Untainted == hazard = {} /\ \A t \in Txn : taint[t] = {}

(* An "auto" transaction makes the calls of an "explicit" one and differs in *)
(* how it ends: it is explored alone, the explicit ones beside each other.  *)
AutoAlone ==
    \A t, u \in Txn : mode[t] = "auto" /\ mode[u] # "closed" => t = u

(* Of two transactions that insert one key the second fails to commit, also *)
(* when the first commits inside the second's statement (append_tuple,      *)
(* rocksdb.rs commit).  db.rs:693 asserts it of one order of the calls.     *)
SecondInsertFails ==
    [][\A t \in Txn :
        Commit(t) => \A pk \in inserted[t] : store[TupleKey(pk)] = None]_vars

(* "the value already exists" is true also after a statement of the         *)
(* transaction failed and the transaction went on (errors.rs:50, add_index  *)
(* before append_tuple in insert.rs).                                       *)
DuplicateIsRealAfterError == DuplicateIsReal({"torn"})
=============================================================================
