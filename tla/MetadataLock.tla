----------------------------- MODULE MetadataLock ----------------------------
(***************************************************************************)
(* The metadata lock of a Database (mdl in db.rs) as threads of an          *)
(* application use it: Database::run and execute hold it while a statement  *)
(* is bound, for writing if it is DDL, and a DBTransaction holds it for     *)
(* reading until it is committed or dropped.  Nothing keeps a thread with   *)
(* an open DBTransaction from calling Database::run.                        *)
(***************************************************************************)
CONSTANTS Thread, None

VARIABLES
    want,   \* what a thread waits for: "read", "write", "open" or None
    held,   \* the guard of a running execute: "read", "write" or None
    open,   \* the threads with an open DBTransaction
    bit     \* the thread that waits for the readers to leave

lockVars == <<want, held, open, bit>>

LockInit ==
    /\ want = [t \in Thread |-> None]
    /\ held = [t \in Thread |-> None]
    /\ open = {}
    /\ bit = None

-----------------------------------------------------------------------------
(* The lock (parking_lot::RwLock): a writer announces itself first, from    *)
(* then on no reader gets in, and waits for those inside to leave.          *)
Reading == {t \in Thread : held[t] = "read"} \cup open
Writing == {t \in Thread : held[t] = "write"}

(* Mutant of TryRead: a waiting writer does not stop readers.               *)
TryReadBarging(t) ==
    /\ want[t] \in {"read", "open"}
    /\ Writing = {}
    /\ held' = IF want[t] = "read" THEN [held EXCEPT ![t] = "read"] ELSE held
    /\ open' = IF want[t] = "open" THEN open \cup {t} ELSE open
    /\ want' = [want EXCEPT ![t] = None]
    /\ UNCHANGED bit

TryRead(t) ==
    /\ want[t] \in {"read", "open"}
    /\ Writing = {} /\ bit = None
    /\ held' = IF want[t] = "read" THEN [held EXCEPT ![t] = "read"] ELSE held
    /\ open' = IF want[t] = "open" THEN open \cup {t} ELSE open
    /\ want' = [want EXCEPT ![t] = None]
    /\ UNCHANGED bit

Announce(t) ==
    /\ want[t] = "write"
    /\ Writing = {} /\ bit = None
    /\ bit' = t
    /\ UNCHANGED <<want, held, open>>

(* Mutant of TryWrite: an open transaction does not keep the writer out.    *)
TryWriteOverOpen(t) ==
    /\ bit = t
    /\ Reading \ open = {}
    /\ held' = [held EXCEPT ![t] = "write"]
    /\ want' = [want EXCEPT ![t] = None]
    /\ bit' = None
    /\ UNCHANGED open

TryWrite(t) ==
    /\ bit = t
    /\ Reading = {}
    /\ held' = [held EXCEPT ![t] = "write"]
    /\ want' = [want EXCEPT ![t] = None]
    /\ bit' = None
    /\ UNCHANGED open

-----------------------------------------------------------------------------
Idle(t) == want[t] = None /\ held[t] = None

(* Database::execute of a statement: DDL asks for the lock to write.        *)
Ask(t, w) ==
    /\ Idle(t)
    /\ want' = [want EXCEPT ![t] = w]
    /\ UNCHANGED <<held, open, bit>>

execute(t) == \E w \in {"read", "write"} : Ask(t, w)

new_transaction(t) == t \notin open /\ Ask(t, "open")

(* execute returns, with an iterator or an error: the guard is dropped.     *)
Return(t) ==
    /\ held[t] # None
    /\ held' = [held EXCEPT ![t] = None]
    /\ UNCHANGED <<want, open, bit>>

(* A DBTransaction is committed or dropped.                                 *)
Close(t) ==
    /\ t \in open /\ Idle(t)
    /\ open' = open \ {t}
    /\ UNCHANGED <<want, held, bit>>

Enter(t) == TryRead(t) \/ Announce(t)
Leave(t) == Return(t) \/ Close(t) \/ TryWrite(t)

LockNext ==
    \E t \in Thread : execute(t) \/ new_transaction(t) \/ Enter(t) \/ Leave(t)

(* execute ends, applications end their transactions, and the lock, which   *)
(* is fair in the end, lets every waiting thread have its turn.             *)
LockFairness == \A t \in Thread : SF_lockVars(Enter(t)) /\ WF_lockVars(Leave(t))

LockSpec == LockInit /\ [][LockNext]_lockVars /\ LockFairness

-----------------------------------------------------------------------------
LockTypeOK ==
    /\ want \in [Thread -> {None, "read", "write", "open"}]
    /\ held \in [Thread -> {None, "read", "write"}]
    /\ open \subseteq Thread
    /\ bit \in Thread \cup {None}

(* While a DDL statement is bound no other statement is, and no             *)
(* DBTransaction is open (the guard kept in DBTransaction, db.rs).          *)
DdlAlone ==
    \A t \in Writing : Writing = {t} /\ Reading = {}

(* Between Announce and TryWrite nobody writes.                             *)
LockInv ==
    /\ LockTypeOK
    /\ DdlAlone
    /\ bit # None => Writing = {}

(* A thread that waits although it has a transaction open itself.           *)
SelfBlocked == \E t \in open : want[t] # None

(* Every call of execute and new_transaction gets the lock in the end,      *)
(* unless a thread with an open DBTransaction calls Database::run: alone if *)
(* it runs DDL, or with any statement once another thread waits to write    *)
(* (db.rs).                                                                 *)
CallsReturn == \A t \in Thread : want[t] # None ~> (want[t] = None \/ SelfBlocked)
=============================================================================
