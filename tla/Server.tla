-------------------------------- MODULE Server -------------------------------
(***************************************************************************)
(* The PostgreSQL server (bin/server.rs): every connection talks to one     *)
(* SessionBackend, whose mutex is held while a query is answered and whose  *)
(* transaction, once begun, belongs to all connections.  A query that is    *)
(* not in a transaction goes through Database::run and its metadata lock.   *)
(* Data is abstracted to the set of statements whose writes are in it.      *)
(***************************************************************************)
EXTENDS Integers, MetadataLock

CONSTANTS MaxQueries    \* bound: queries of a connection

Conn == Thread
Query == {"begin", "commit", "rollback", "ddl", "dml", "failing", "tuple"}

VARIABLES
    conn,       \* where a connection is: "idle", "sent", "locked", "bound", "ran"
    query,      \* the query it sent
    count,      \* queries it has sent
    guard,      \* the mutex of the session: its holder, or None
    session,    \* what the session's transaction has written, or None
    store,      \* the committed writes
    acked,      \* ghost: statements that were answered with success
    given,      \* ghost: writes given up by a rollback, failed commit or end
    failed      \* ghost: statements outside a transaction answered with an error

srvVars == <<conn, query, count, guard, session, store, acked, given, failed>>
serverVars == <<lockVars, srvVars>>

SrvInit ==
    /\ conn = [c \in Conn |-> "idle"]
    /\ query = [c \in Conn |-> None]
    /\ count = [c \in Conn |-> 0]
    /\ guard = None /\ session = None
    /\ store = {} /\ acked = {} /\ given = {} /\ failed = {}

ServerInit == LockInit /\ SrvInit

Statement(c) == <<c, count[c]>>

Send(c, q) ==
    /\ conn[c] = "idle" /\ count[c] < MaxQueries
    /\ conn' = [conn EXCEPT ![c] = "sent"]
    /\ query' = [query EXCEPT ![c] = q]
    /\ count' = [count EXCEPT ![c] = @ + 1]
    /\ UNCHANGED <<lockVars, guard, session, store, acked, given, failed>>

(* do_query takes the mutex; its guard lives until the answer.              *)
Lock(c) ==
    /\ conn[c] = "sent" /\ guard = None
    /\ guard' = c
    /\ conn' = [conn EXCEPT ![c] = "locked"]
    /\ UNCHANGED <<lockVars, query, count, session, store, acked, given, failed>>

Answer(c) ==
    /\ conn' = [conn EXCEPT ![c] = "idle"]
    /\ guard' = None
    /\ UNCHANGED <<query, count>>

(* A result with a column of type Tuple has no PostgreSQL type.             *)
encode_tuples(q) == q # "tuple"

(* BEGIN is refused in a transaction; else it takes the metadata lock.      *)
Begin(c) ==
    /\ conn[c] = "locked" /\ query[c] = "begin"
    /\ \/ /\ session # None
          /\ Answer(c)
          /\ UNCHANGED <<lockVars, session, store, acked, given, failed>>
       \/ /\ session = None /\ c \notin open /\ Idle(c)
          /\ new_transaction(c)
          /\ UNCHANGED srvVars
       \/ /\ session = None /\ c \in open
          /\ session' = {}
          /\ Answer(c)
          /\ UNCHANGED <<lockVars, store, acked, given, failed>>

Unlocked == open' = {} /\ UNCHANGED <<want, held, bit>>

(* The transaction is taken out of the session before it commits: it is     *)
(* gone, and the metadata lock free, also when the commit fails.            *)
Commit(c) ==
    /\ conn[c] = "locked" /\ query[c] = "commit"
    /\ Answer(c) /\ UNCHANGED failed
    /\ \/ /\ session = None
          /\ UNCHANGED <<lockVars, session, store, acked, given>>
       \/ /\ session # None
          /\ \/ store' = store \cup session /\ UNCHANGED given
             \/ given' = given \cup session /\ UNCHANGED store
          /\ session' = None
          /\ Unlocked
          /\ UNCHANGED acked

Rollback(c) ==
    /\ conn[c] = "locked" /\ query[c] = "rollback"
    /\ Answer(c) /\ UNCHANGED failed
    /\ IF session = None THEN UNCHANGED <<lockVars, session, given>>
       ELSE /\ given' = given \cup session
            /\ session' = None
            /\ Unlocked
    /\ UNCHANGED <<store, acked>>

IsStatement(c) == query[c] \in {"ddl", "dml", "failing", "tuple"}

(* A statement inside the session's transaction.  DDL is refused; what a    *)
(* failing statement has written stays; a result of an unsupported type is  *)
(* refused by encode_tuples once the statement has run.                     *)
RunInSession(c) ==
    /\ conn[c] = "locked" /\ IsStatement(c) /\ session # None
    /\ session' = IF query[c] \in {"dml", "failing"} THEN session \cup {Statement(c)} ELSE session
    /\ acked' = IF query[c] = "dml" THEN acked \cup {Statement(c)} ELSE acked
    /\ Answer(c)
    /\ UNCHANGED <<lockVars, store, given, failed>>

(* Mutant of CallRun: DDL goes to the database, transaction or not.         *)
CallRunAlways(c) ==
    /\ conn[c] = "locked" /\ IsStatement(c)
    /\ session = None \/ query[c] = "ddl"
    /\ Ask(c, IF query[c] = "ddl" THEN "write" ELSE "read")
    /\ conn' = [conn EXCEPT ![c] = "bound"]
    /\ UNCHANGED <<query, count, guard, session, store, acked, given, failed>>

(* A statement outside a transaction: Database::run ...                     *)
CallRun(c) ==
    /\ conn[c] = "locked" /\ IsStatement(c) /\ session = None
    /\ Ask(c, IF query[c] = "ddl" THEN "write" ELSE "read")
    /\ conn' = [conn EXCEPT ![c] = "bound"]
    /\ UNCHANGED <<query, count, guard, session, store, acked, given, failed>>

(* ... returns an iterator, which holds no lock ...                         *)
RunReturns(c) ==
    /\ conn[c] = "bound" /\ held[c] # None
    /\ Return(c)
    /\ conn' = [conn EXCEPT ![c] = "ran"]
    /\ UNCHANGED <<query, count, guard, session, store, acked, given, failed>>

Writes(c) == IF query[c] \in {"ddl", "dml"} THEN {Statement(c)} ELSE {}

(* Mutant of Done: committed before the error is looked at.                 *)
DoneDespiteError(c) ==
    /\ conn[c] = "ran"
    /\ Answer(c)
    /\ store' = store \cup Writes(c)
    /\ failed' = failed \cup {Statement(c)}
    /\ UNCHANGED <<lockVars, session, given, acked>>

(* ... is drained, committed by done() and encoded; or the statement or the *)
(* commit fails, and it is dropped with its transaction.                    *)
Done(c) ==
    /\ conn[c] = "ran"
    /\ Answer(c)
    /\ \/ /\ query[c] # "failing"
          /\ store' = store \cup Writes(c)
          /\ IF encode_tuples(query[c])
             THEN acked' = acked \cup Writes(c) /\ UNCHANGED failed
             ELSE failed' = failed \cup {Statement(c)} /\ UNCHANGED acked
       \/ /\ failed' = failed \cup {Statement(c)}
          /\ UNCHANGED <<store, acked>>
    /\ UNCHANGED <<lockVars, session, given>>

(* SIGINT or SIGTERM: main returns; the open transaction was never          *)
(* committed.  The server is started again.                                 *)
Quit ==
    /\ \E c \in Conn : count[c] > 0
    /\ want' = [t \in DOMAIN want |-> None] /\ held' = [t \in DOMAIN held |-> None]
    /\ open' = {} /\ bit' = None
    /\ conn' = [c \in Conn |-> "idle"]
    /\ guard' = None /\ session' = None
    /\ given' = IF session = None THEN given ELSE given \cup session
    /\ UNCHANGED <<query, count, store, acked, failed>>

Work(c) ==
    \/ Lock(c) \/ Begin(c) \/ Commit(c) \/ Rollback(c)
    \/ RunInSession(c) \/ CallRun(c) \/ RunReturns(c) \/ Done(c)
    \/ (Enter(c) \/ TryWrite(c)) /\ UNCHANGED srvVars

ServerNext ==
    \/ \E c \in Conn : Work(c) \/ \E q \in Query : Send(c, q)
    \/ Quit

(* As long as some connection can go on, one does.                          *)
ServerFairness == WF_serverVars(\E c \in Conn : Work(c))

ServerSpec == ServerInit /\ [][ServerNext]_serverVars /\ ServerFairness

-----------------------------------------------------------------------------
ServerTyped ==
    /\ conn \in [Conn -> {"idle", "sent", "locked", "bound", "ran"}]
    /\ query \in [Conn -> Query \cup {None}]
    /\ count \in [Conn -> Nat]
    /\ guard \in Conn \cup {None}
    /\ session \in {None} \cup SUBSET (Conn \X Nat)

(* Every query is answered: connections that share a session never wait for *)
(* a metadata lock the session itself holds (do_query, server.rs).          *)
QueriesAnswered == \A c \in Conn : conn[c] # "idle" ~> conn[c] = "idle"

(* What the open transaction of the session has written.                    *)
Waiting == IF session = None THEN {} ELSE session

(* A statement that was answered with success is committed, or part of the  *)
(* open transaction of the session, whichever connection began it, or was   *)
(* given up with that transaction; never two of these.                      *)
AcknowledgedKept ==
    /\ acked \subseteq store \cup Waiting \cup given
    /\ store \cap given = {} /\ Waiting \cap (store \cup given) = {}

(* A statement outside a transaction that was answered with an error, from  *)
(* the statement, its commit or encode_tuples, has written nothing.         *)
ErrorsLeaveNothing == failed \cap store = {}

(* What the server answers is true of the store (do_query, server.rs): what *)
(* it acknowledged is kept or given up as a whole transaction, and what it  *)
(* refused outside a transaction has left nothing, although connections     *)
(* share a transaction, commits fail and the server is stopped.             *)
AnswersTrue == AcknowledgedKept /\ ErrorsLeaveNothing

(* The session holds the metadata lock exactly as long as it has a          *)
(* transaction, so no DDL runs beside it (BEGIN, COMMIT and ROLLBACK in     *)
(* server.rs); between queries nothing else is locked.                      *)
SessionHoldsLock ==
    guard = None =>
        /\ (session = None) = (open = {})
        /\ \A c \in Conn : Idle(c)
        /\ bit = None
-----------------------------------------------------------------------------
(* Why the properties hold, as invariants of the steps.  The holder of the  *)
(* mutex is the one connection at work; all others hold nothing and wait    *)
(* for nothing but the mutex.                                               *)
OneAtWork ==
    /\ \A c \in Conn : conn[c] \in {"locked", "bound", "ran"} <=> guard = c
    /\ \A c \in Conn : conn[c] # "bound" => held[c] = None /\ bit # c
    /\ \A c \in Conn : conn[c] \in {"idle", "sent", "ran"} => want[c] = None

(* A connection waits in the metadata lock only while the session has no    *)
(* transaction; only BEGIN holds the lock before there is one.              *)
LockOfSession ==
    /\ session # None => open # {}
    /\ \A c \in Conn : conn[c] = "locked" /\ want[c] # None =>
            want[c] = "open" /\ query[c] = "begin" /\ session = None /\ open = {}
    /\ \A c \in Conn : conn[c] \in {"bound", "ran"} => session = None /\ open = {}
    /\ \A c \in Conn : conn[c] = "bound" =>
            want[c] # "open" /\ (held[c] # None => want[c] = None /\ bit # c)
    /\ session = None /\ open # {} =>
            \E c \in Conn : open = {c} /\ guard = c /\ conn[c] = "locked" /\ query[c] = "begin"

(* What was written or answered is of a query already sent, and none of it  *)
(* of a query still at work.                                                *)
Known == store \cup Waiting \cup given \cup acked \cup failed
StatementsPast ==
    /\ Known \subseteq Conn \X Nat
    /\ \A s \in Known : s[2] <= count[s[1]] /\ (s[2] = count[s[1]] => conn[s[1]] = "idle")

(* A statement answered with an error outside a transaction is in no        *)
(* transaction that may still be committed either.                          *)
FailedApart == failed \cap (store \cup Waiting \cup given) = {}

ServerInv ==
    /\ LockInv
    /\ ServerTyped
    /\ OneAtWork /\ LockOfSession /\ StatementsPast
    /\ AcknowledgedKept /\ FailedApart
=============================================================================
