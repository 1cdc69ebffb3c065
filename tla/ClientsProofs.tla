--------------------------- MODULE ClientsProofs ----------------------------
(***************************************************************************)
(* Theorems about the metadata lock (db.rs), the session all connections of *)
(* the server share (bin/server.rs), for any number of threads, connections *)
(* and queries, and COPY, for every file and table.  COPY FROM is all or    *)
(* nothing: what the executor has appended and what is in the channel are,  *)
(* at any moment, the records the thread has read.  COPY TO writes every    *)
(* row: what is in the file and in the buffer are, at any moment, the rows  *)
(* scanned so far.                                                          *)
(***************************************************************************)
EXTENDS Server, Copy, TLAPS

(* None is no thread, no way to hold the lock and no set of statements.     *)
NoneApart ==
    /\ None \notin Thread /\ None \notin {"read", "write", "open"}
    /\ \A S \in SUBSET (Thread \X Nat) : S # None

-----------------------------------------------------------------------------
(* The lock *)

(* At the start nobody holds the lock (db.rs).                              *)
LEMMA LockInitInv == ASSUME NoneApart PROVE LockInit => LockInv
  BY DEF NoneApart, LockInit, LockInv, LockTypeOK, DdlAlone, Writing, Reading

(* A reader gets in only when nobody writes or waits to (read_arc).         *)
LEMMA TryReadInv == ASSUME NoneApart, LockInv, NEW t \in Thread, TryRead(t) PROVE LockInv'
  BY DEF NoneApart, TryRead, LockInv, LockTypeOK, DdlAlone, Writing, Reading

(* A writer announces itself only when nobody writes (write_arc).           *)
LEMMA AnnounceInv == ASSUME NoneApart, LockInv, NEW t \in Thread, Announce(t) PROVE LockInv'
  BY DEF NoneApart, Announce, LockInv, LockTypeOK, DdlAlone, Writing, Reading

(* An announced writer gets in when the last reader has left (write_arc).   *)
LEMMA TryWriteInv == ASSUME NoneApart, LockInv, NEW t \in Thread, TryWrite(t) PROVE LockInv'
  BY DEF NoneApart, TryWrite, LockInv, LockTypeOK, DdlAlone, Writing, Reading

(* Asking for the lock holds nothing (Database::execute, new_transaction).  *)
LEMMA AskInv ==
  ASSUME NoneApart, LockInv, NEW t \in Thread, NEW w \in {"read", "write", "open"}, Ask(t, w)
  PROVE LockInv'
  BY DEF NoneApart, Ask, LockInv, LockTypeOK, DdlAlone, Writing, Reading

(* Leaving the lock lets nobody in (Database::execute).                     *)
LEMMA ReturnInv == ASSUME NoneApart, LockInv, NEW t \in Thread, Return(t) PROVE LockInv'
  BY DEF NoneApart, Return, LockInv, LockTypeOK, DdlAlone, Writing, Reading

(* Ending a transaction lets nobody in (DBTransaction::commit).             *)
LEMMA CloseInv == ASSUME NoneApart, LockInv, NEW t \in Thread, Close(t) PROVE LockInv'
  BY DEF NoneApart, Close, LockInv, LockTypeOK, DdlAlone, Writing, Reading

(* Whichever threads use a Database and however: while a DDL statement is   *)
(* bound no other statement is and no DBTransaction is open (the guards of  *)
(* db.rs).                                                                  *)
THEOREM DdlAlways == ASSUME NoneApart PROVE LockSpec => []DdlAlone
<1>1. LockInit => LockInv
  BY LockInitInv
<1>2. LockInv /\ [LockNext]_lockVars => LockInv'
  <2> SUFFICES ASSUME LockInv, [LockNext]_lockVars PROVE LockInv'
    OBVIOUS
  <2>1. CASE LockNext
    <3> PICK t \in Thread : execute(t) \/ new_transaction(t) \/ Enter(t) \/ Leave(t)
      BY <2>1 DEF LockNext
    <3>1. CASE execute(t) \/ new_transaction(t)
      BY <3>1, AskInv DEF execute, new_transaction
    <3>2. CASE Enter(t)
      BY <3>2, TryReadInv, AnnounceInv DEF Enter
    <3>3. CASE Leave(t)
      BY <3>3, ReturnInv, CloseInv, TryWriteInv DEF Leave
    <3> QED BY <3>1, <3>2, <3>3
  <2>2. CASE UNCHANGED lockVars
    BY <2>2 DEF lockVars, LockInv, LockTypeOK, DdlAlone, Writing, Reading
  <2> QED BY <2>1, <2>2
<1>3. LockInv => DdlAlone
  BY DEF LockInv
<1> QED BY <1>1, <1>2, <1>3, PTL DEF LockSpec
-----------------------------------------------------------------------------
(* The server: who holds what *)

(* The part of ServerInv that is about locks.                               *)
Control == LockInv /\ ServerTyped /\ OneAtWork /\ LockOfSession

(* At the start no connection is at work (SessionBackend::new).             *)
LEMMA ServerInitControl == ASSUME NoneApart PROVE ServerInit => Control
<1> SUFFICES ASSUME ServerInit PROVE Control
  OBVIOUS
<1>1. LockInv
  BY LockInitInv DEF ServerInit
<1>2. ServerTyped
  BY DEF NoneApart, ServerInit, SrvInit, ServerTyped
<1>3. OneAtWork
  BY DEF NoneApart, ServerInit, SrvInit, LockInit, OneAtWork, Conn
<1>4. LockOfSession
  BY DEF NoneApart, ServerInit, SrvInit, LockInit, LockOfSession
<1> QED BY <1>1, <1>2, <1>3, <1>4 DEF Control

(* A query arrives; nothing is taken for it yet (server_run).               *)
LEMMA SendControl ==
  ASSUME NoneApart, Control, NEW c \in Conn, NEW q \in Query, Send(c, q) PROVE Control'
<1> USE DEF Control, Send
<1>1. LockInv'
  BY DEF LockInv, LockTypeOK, DdlAlone, Writing, Reading, lockVars
<1>2. ServerTyped'
  BY DEF ServerTyped
<1>3. OneAtWork'
  BY DEF OneAtWork, ServerTyped, lockVars
<1>4. LockOfSession'
  BY DEF LockOfSession, OneAtWork, ServerTyped, lockVars
<1> QED BY <1>1, <1>2, <1>3, <1>4

(* The mutex of the session is taken by one connection (do_query).          *)
LEMMA LockControl ==
  ASSUME NoneApart, Control, NEW c \in Conn, Lock(c) PROVE Control'
<1> USE DEF Control, Lock
<1>1. LockInv'
  BY DEF LockInv, LockTypeOK, DdlAlone, Writing, Reading, lockVars
<1>2. ServerTyped'
  BY DEF ServerTyped
<1>3. OneAtWork'
  BY DEF NoneApart, OneAtWork, ServerTyped, lockVars, Conn
<1>4. LockOfSession'
  BY DEF NoneApart, LockOfSession, OneAtWork, ServerTyped, lockVars, Conn
<1> QED BY <1>1, <1>2, <1>3, <1>4
(* COMMIT takes the transaction and with it the lock out of the session,    *)
(* whether it succeeds or not (do_query).                                   *)
LEMMA CommitControl ==
  ASSUME NoneApart, Control, NEW c \in Conn, Commit(c) PROVE Control'
<1> USE DEF Control, Commit
<1>1. LockInv'
  BY DEF LockInv, LockTypeOK, DdlAlone, Writing, Reading, lockVars, Unlocked
<1>2. ServerTyped'
  BY DEF ServerTyped, Answer, Unlocked
<1>3. OneAtWork'
  BY DEF NoneApart, OneAtWork, LockOfSession, ServerTyped, lockVars, srvVars, Conn, LockInv, LockTypeOK, Answer, Unlocked
<1>4. LockOfSession'
  BY DEF NoneApart, LockOfSession, OneAtWork, ServerTyped, lockVars, srvVars, Conn, LockInv, LockTypeOK, Answer, Unlocked
<1> QED BY <1>1, <1>2, <1>3, <1>4

(* ROLLBACK does too (do_query).                                            *)
LEMMA RollbackControl ==
  ASSUME NoneApart, Control, NEW c \in Conn, Rollback(c) PROVE Control'
<1> USE DEF Control, Rollback
<1>1. LockInv'
  BY DEF LockInv, LockTypeOK, DdlAlone, Writing, Reading, lockVars, Unlocked
<1>2. ServerTyped'
  BY DEF ServerTyped, Answer, Unlocked
<1>3. OneAtWork'
  BY DEF NoneApart, OneAtWork, LockOfSession, ServerTyped, lockVars, srvVars, Conn, LockInv, LockTypeOK, Answer, Unlocked
<1>4. LockOfSession'
  BY DEF NoneApart, LockOfSession, OneAtWork, ServerTyped, lockVars, srvVars, Conn, LockInv, LockTypeOK, Answer, Unlocked
<1> QED BY <1>1, <1>2, <1>3, <1>4

(* A statement in the transaction leaves the lock alone (do_query).         *)
LEMMA InSessionControl ==
  ASSUME NoneApart, Control, NEW c \in Conn, RunInSession(c) PROVE Control'
<1> USE DEF Control, RunInSession, Statement
<1>1. LockInv'
  BY DEF LockInv, LockTypeOK, DdlAlone, Writing, Reading, lockVars
<1>2. ServerTyped'
  BY DEF ServerTyped, Answer, NoneApart, Conn
<1>3. OneAtWork'
  BY DEF NoneApart, OneAtWork, LockOfSession, ServerTyped, lockVars, srvVars, Conn, LockInv, LockTypeOK, Answer
<1>4. LockOfSession'
  BY DEF NoneApart, LockOfSession, OneAtWork, ServerTyped, lockVars, srvVars, Conn, LockInv, LockTypeOK, Answer
<1> QED BY <1>1, <1>2, <1>3, <1>4

(* A statement outside a transaction asks for the lock; the session cannot  *)
(* hold it then (do_query).                                                 *)
LEMMA CallRunControl ==
  ASSUME NoneApart, Control, NEW c \in Conn, CallRun(c) PROVE Control'
<1> USE DEF Control, CallRun
<1>1. LockInv'
  BY AskInv DEF Conn
<1>2. ServerTyped'
  BY DEF ServerTyped, Ask, Idle, IsStatement
<1>3. OneAtWork'
  BY DEF NoneApart, OneAtWork, LockOfSession, ServerTyped, lockVars, srvVars, Conn, LockInv, LockTypeOK, Ask, Idle, IsStatement
<1>4. LockOfSession'
  BY DEF NoneApart, LockOfSession, OneAtWork, ServerTyped, lockVars, srvVars, Conn, LockInv, LockTypeOK, Ask, Idle, IsStatement
<1> QED BY <1>1, <1>2, <1>3, <1>4

(* Database::run gives the lock back when it returns (Database::execute).   *)
LEMMA RunReturnsControl ==
  ASSUME NoneApart, Control, NEW c \in Conn, RunReturns(c) PROVE Control'
<1> USE DEF Control, RunReturns
<1>1. LockInv'
  BY ReturnInv DEF Conn
<1>2. ServerTyped'
  BY DEF ServerTyped, Return
<1>3. OneAtWork'
  BY DEF NoneApart, OneAtWork, LockOfSession, ServerTyped, lockVars, srvVars, Conn, LockInv, LockTypeOK, Return
<1>4. LockOfSession'
  BY DEF NoneApart, LockOfSession, OneAtWork, ServerTyped, lockVars, srvVars, Conn, LockInv, LockTypeOK, Return
<1> QED BY <1>1, <1>2, <1>3, <1>4

(* The end of a statement leaves the lock alone (do_query).                 *)
LEMMA DoneControl ==
  ASSUME NoneApart, Control, NEW c \in Conn, Done(c) PROVE Control'
<1> USE DEF Control, Done
<1>1. LockInv'
  BY DEF LockInv, LockTypeOK, DdlAlone, Writing, Reading, lockVars
<1>2. ServerTyped'
  BY DEF ServerTyped, Answer, NoneApart, Conn
<1>3. OneAtWork'
  BY DEF NoneApart, OneAtWork, LockOfSession, ServerTyped, lockVars, srvVars, Conn, LockInv, LockTypeOK, Answer
<1>4. LockOfSession'
  BY DEF NoneApart, LockOfSession, OneAtWork, ServerTyped, lockVars, srvVars, Conn, LockInv, LockTypeOK, Answer
<1> QED BY <1>1, <1>2, <1>3, <1>4
(* BEGIN is refused in a transaction, waits for the lock, or has it: then   *)
(* the session has a transaction (do_query).                                *)
LEMMA BeginControl ==
  ASSUME NoneApart, Control, NEW c \in Conn, Begin(c) PROVE Control'
<1> USE DEF Control
<1>1. CASE session # None /\ Answer(c) /\ UNCHANGED <<lockVars, session>>
  <2>1. LockInv'
    BY <1>1 DEF LockInv, LockTypeOK, DdlAlone, Writing, Reading, lockVars
  <2>2. ServerTyped'
    BY <1>1 DEF ServerTyped, Answer
  <2>3. OneAtWork' /\ LockOfSession'
    BY <1>1 DEF Begin, NoneApart, OneAtWork, LockOfSession, ServerTyped, lockVars, Conn, Answer, LockInv, LockTypeOK
  <2> QED BY <2>1, <2>2, <2>3
<1>2. CASE session = None /\ c \notin open /\ new_transaction(c) /\ UNCHANGED srvVars
  <2>1. LockInv'
    BY <1>2, AskInv DEF new_transaction, Conn
  <2>2. ServerTyped'
    BY <1>2 DEF ServerTyped, srvVars
  <2>3. OneAtWork' /\ LockOfSession'
    BY <1>2 DEF Begin, NoneApart, OneAtWork, LockOfSession, ServerTyped, srvVars, Conn, LockInv, LockTypeOK,
                new_transaction, Ask, Idle
  <2> QED BY <2>1, <2>2, <2>3
<1>3. CASE session = None /\ c \in open /\ session' = {} /\ Answer(c) /\ UNCHANGED lockVars
  <2>1. LockInv'
    BY <1>3 DEF LockInv, LockTypeOK, DdlAlone, Writing, Reading, lockVars
  <2>2. ServerTyped'
    BY <1>3 DEF ServerTyped, Answer
  <2>3. {} # None
    BY DEF NoneApart
  <2>4. OneAtWork' /\ LockOfSession'
    BY <1>3, <2>3 DEF Begin, NoneApart, OneAtWork, LockOfSession, ServerTyped, lockVars, Conn, Answer, LockInv, LockTypeOK
  <2> QED BY <2>1, <2>2, <2>4
<1> QED BY <1>1, <1>2, <1>3 DEF Begin

(* The lock lets a connection in (parking_lot::RwLock).                     *)
LEMMA EnterControl ==
  ASSUME NoneApart, Control, NEW c \in Conn, Enter(c) \/ TryWrite(c), UNCHANGED srvVars PROVE Control'
<1> USE DEF Control
<1>1. LockInv'
  BY TryReadInv, AnnounceInv, TryWriteInv DEF Enter, Conn
<1>2. ServerTyped'
  BY DEF ServerTyped, srvVars
<1>3. CASE TryRead(c)
  BY <1>1, <1>2, <1>3 DEF TryRead, NoneApart, OneAtWork, LockOfSession, ServerTyped, srvVars, Conn, LockInv, LockTypeOK
<1>4. CASE Announce(c)
  BY <1>1, <1>2, <1>4 DEF Announce, NoneApart, OneAtWork, LockOfSession, ServerTyped, srvVars, Conn, LockInv, LockTypeOK
<1>5. CASE TryWrite(c)
  BY <1>1, <1>2, <1>5 DEF TryWrite, NoneApart, OneAtWork, LockOfSession, ServerTyped, srvVars, Conn, LockInv, LockTypeOK
<1> QED BY <1>3, <1>4, <1>5 DEF Enter

(* The server ends with nothing held (main).                                *)
LEMMA QuitControl == ASSUME NoneApart, Control, Quit PROVE Control'
<1> USE DEF Control, Quit
<1>1. LockInv'
  BY DEF NoneApart, LockInv, LockTypeOK, DdlAlone, Writing, Reading
<1>2. ServerTyped'
  BY DEF ServerTyped
<1>3. OneAtWork' /\ LockOfSession'
  BY DEF NoneApart, OneAtWork, LockOfSession, ServerTyped, Conn, LockInv, LockTypeOK
<1> QED BY <1>1, <1>2, <1>3

(* Every step of the server keeps Control.                                  *)
LEMMA StepControl == ASSUME NoneApart, Control, [ServerNext]_serverVars PROVE Control'
<1>1. CASE ServerNext
  <2>1. CASE Quit
    BY <2>1, QuitControl
  <2>2. ASSUME NEW c \in Conn, Work(c) PROVE Control'
    BY <2>2, LockControl, BeginControl, CommitControl, RollbackControl, InSessionControl, CallRunControl,
       RunReturnsControl, DoneControl, EnterControl DEF Work
  <2>3. ASSUME NEW c \in Conn, NEW q \in Query, Send(c, q) PROVE Control'
    BY <2>3, SendControl
  <2> QED BY <1>1, <2>1, <2>2, <2>3 DEF ServerNext
<1>2. CASE UNCHANGED serverVars
  BY <1>2 DEF Control, serverVars, srvVars, lockVars, LockInv, LockTypeOK, DdlAlone, Writing, Reading,
              ServerTyped, OneAtWork, LockOfSession
<1> QED BY <1>1, <1>2

(* Between two queries the session holds the metadata lock exactly if it    *)
(* has a transaction, and nothing else is locked or waited for, whatever    *)
(* the connections sent and in whatever order (do_query).                   *)
THEOREM SessionLockAlways == ASSUME NoneApart PROVE ServerSpec => []SessionHoldsLock
<1>1. ServerInit => Control
  BY ServerInitControl
<1>2. Control /\ [ServerNext]_serverVars => Control'
  BY StepControl
<1>3. Control => SessionHoldsLock
  <2> SUFFICES ASSUME Control, guard = None
               PROVE ((session = None) = (open = {})) /\ (\A c \in Conn : Idle(c)) /\ bit = None
    BY DEF SessionHoldsLock
  <2>1. \A c \in Conn : conn[c] \in {"idle", "sent"}
    <3> SUFFICES ASSUME NEW c \in Conn PROVE conn[c] \in {"idle", "sent"}
      OBVIOUS
    <3>1. guard # c
      BY DEF NoneApart, Conn
    <3> QED BY <3>1 DEF Control, OneAtWork, ServerTyped
  <2>2. (\A c \in Conn : Idle(c)) /\ bit = None
    BY <2>1 DEF Control, OneAtWork, LockInv, LockTypeOK, Idle, Conn
  <2>3. (session = None) <=> (open = {})
    BY <2>1 DEF Control, LockOfSession, NoneApart, Conn
  <2> QED BY <2>2, <2>3
<1> QED BY <1>1, <1>2, <1>3, PTL DEF ServerSpec

(* DDL sent to the server runs beside no other statement and no transaction *)
(* (do_query, with the guards of db.rs).                                    *)
THEOREM ServerDdlAlways == ASSUME NoneApart PROVE ServerSpec => []DdlAlone
<1>1. ServerInit => Control
  BY ServerInitControl
<1>2. Control /\ [ServerNext]_serverVars => Control'
  BY StepControl
<1>3. Control => DdlAlone
  BY DEF Control, LockInv
<1> QED BY <1>1, <1>2, <1>3, PTL DEF ServerSpec
-----------------------------------------------------------------------------
(* The server: what is written *)

(* The part of ServerInv that is about data.                                *)
Written == StatementsPast /\ AcknowledgedKept /\ FailedApart

(* Nothing is written at the start (SessionBackend::new).                   *)
LEMMA ServerInitWritten == ServerInit => Written
  BY DEF ServerInit, SrvInit, Written, StatementsPast, Known, Waiting, AcknowledgedKept, FailedApart

(* A step that writes nothing and begins no query: what is known stays of   *)
(* queries that are over.                                                   *)
LEMMA NothingWritten ==
  ASSUME Written, UNCHANGED <<store, acked, given, failed, count, Waiting>>,
         \A c \in Conn : conn[c] = "idle" => conn'[c] = "idle"
  PROVE Written'
<1>1. Known' = Known
  BY DEF Known
<1>2. StatementsPast'
  BY <1>1 DEF Written, StatementsPast
<1>3. AcknowledgedKept' /\ FailedApart'
  BY DEF Written, AcknowledgedKept, FailedApart
<1> QED BY <1>2, <1>3 DEF Written

(* A query that arrives gets a number nothing that was written has          *)
(* (server_run).                                                            *)
LEMMA SendWritten ==
  ASSUME Control, Written, NEW c \in Conn, NEW q \in Query, Send(c, q) PROVE Written'
<1>1. Known' = Known /\ Waiting' = Waiting
  BY DEF Known, Waiting, Send
<1>2. StatementsPast'
  <2>1. \A s \in Known : s[1] \in Conn /\ s[2] \in Nat /\ s[2] <= count[s[1]]
    BY DEF Written, StatementsPast
  <2>2. \A d \in Conn : count[d] \in Nat
    BY DEF Control, ServerTyped
  <2>3. \A s \in Known : s[2] <= count'[s[1]] /\ (s[2] = count'[s[1]] => conn'[s[1]] = "idle")
    BY <2>1, <2>2 DEF Control, ServerTyped, Send, Written, StatementsPast
  <2> QED BY <1>1, <2>3 DEF Written, StatementsPast
<1>3. AcknowledgedKept' /\ FailedApart'
  BY <1>1 DEF Written, AcknowledgedKept, FailedApart, Send
<1> QED BY <1>2, <1>3 DEF Written

(* A query at work has written nothing yet.                                 *)
LEMMA StatementFresh ==
  ASSUME Control, Written, NEW c \in Conn, conn[c] # "idle"
  PROVE Statement(c) \notin Known /\ Statement(c) \in Conn \X Nat
  BY DEF Control, ServerTyped, Written, StatementsPast, Statement

(* Of the statement a query ends with, and of it alone, something new is    *)
(* known afterwards.                                                        *)
LEMMA AnswerPast ==
  ASSUME Control, Written, NEW c \in Conn, conn[c] # "idle", Answer(c),
         Known' \subseteq Known \cup {Statement(c)}
  PROVE StatementsPast'
<1>1. Statement(c) \in Conn \X Nat /\ Statement(c)[1] = c /\ Statement(c)[2] = count[c]
  BY DEF Control, ServerTyped, Statement
<1>2. conn'[c] = "idle" /\ count' = count /\ \A d \in Conn : conn[d] = "idle" => conn'[d] = "idle"
  BY DEF Answer, Control, ServerTyped
<1>3. \A s \in Known' : s[2] <= count'[s[1]] /\ (s[2] = count'[s[1]] => conn'[s[1]] = "idle")
  BY <1>1, <1>2 DEF Written, StatementsPast, Control, ServerTyped
<1> QED BY <1>1, <1>3 DEF Written, StatementsPast
(* COMMIT stores what the transaction wrote or gives it up, and ROLLBACK    *)
(* gives it up (do_query).                                                  *)
LEMMA EndWritten ==
  ASSUME NoneApart, Control, Written, NEW c \in Conn, Commit(c) \/ Rollback(c) PROVE Written'
<1>1. Known' \subseteq Known
  BY DEF Commit, Rollback, Known, Waiting
<1>2. StatementsPast'
  BY <1>1, AnswerPast DEF Commit, Rollback
<1>3. AcknowledgedKept' /\ FailedApart'
  BY DEF Commit, Rollback, Written, AcknowledgedKept, FailedApart, Waiting
<1> QED BY <1>2, <1>3 DEF Written

(* A statement of the session adds to its transaction (do_query).           *)
LEMMA InSessionWritten ==
  ASSUME NoneApart, Control, Written, NEW c \in Conn, RunInSession(c) PROVE Written'
<1>1. Statement(c) \notin Known /\ Statement(c) \in Thread \X Nat
  BY StatementFresh DEF RunInSession, Conn
<1>2. session' # None /\ session # None
  BY <1>1 DEF RunInSession, NoneApart, Control, ServerTyped, Conn
<1>3. Known' \subseteq Known \cup {Statement(c)}
  BY <1>2 DEF RunInSession, Known, Waiting
<1>4. StatementsPast'
  BY <1>3, AnswerPast DEF RunInSession
<1>5. AcknowledgedKept' /\ FailedApart'
  BY <1>1, <1>2 DEF RunInSession, Written, AcknowledgedKept, FailedApart, Waiting, Known
<1> QED BY <1>4, <1>5 DEF Written

(* A statement by itself is committed or has failed (do_query).             *)
LEMMA DoneWritten ==
  ASSUME NoneApart, Control, Written, NEW c \in Conn, Done(c) PROVE Written'
<1>1. Statement(c) \notin Known
  BY StatementFresh DEF Done
<1>2. Known' \subseteq Known \cup {Statement(c)} /\ Waiting' = Waiting
  BY DEF Done, Known, Waiting, Writes
<1>3. StatementsPast'
  BY <1>2, AnswerPast DEF Done
<1>4. AcknowledgedKept' /\ FailedApart'
  BY <1>1, <1>2 DEF Done, Written, AcknowledgedKept, FailedApart, Known, Writes, encode_tuples
<1> QED BY <1>3, <1>4 DEF Written

(* The end of the server gives up the open transaction (main).              *)
LEMMA QuitWritten == ASSUME NoneApart, Control, Written, Quit PROVE Written'
<1>1. Known' = Known
  BY DEF Quit, Known, Waiting
<1>2. StatementsPast'
  BY <1>1 DEF Quit, Written, StatementsPast
<1>3. AcknowledgedKept' /\ FailedApart'
  BY DEF Quit, Written, AcknowledgedKept, FailedApart, Waiting
<1> QED BY <1>2, <1>3 DEF Written

(* Every step of the server keeps Written.                                  *)
LEMMA StepWritten ==
  ASSUME NoneApart, Control, Written, [ServerNext]_serverVars PROVE Written'
<1>1. ASSUME NEW c \in Conn, NEW q \in Query, Send(c, q) PROVE Written'
  BY <1>1, SendWritten
<1>2. ASSUME NEW c \in Conn, Lock(c) \/ Begin(c) \/ CallRun(c) \/ RunReturns(c) PROVE Written'
  <2>1. UNCHANGED <<store, acked, given, failed, count, Waiting>>
    BY <1>2 DEF Lock, Begin, CallRun, RunReturns, Waiting, srvVars, Answer
  <2>2. \A d \in Conn : conn[d] = "idle" => conn'[d] = "idle"
    BY <1>2 DEF Lock, Begin, CallRun, RunReturns, srvVars, Answer, Control, ServerTyped
  <2> QED BY <2>1, <2>2, NothingWritten
<1>3. ASSUME UNCHANGED srvVars PROVE Written'
  BY <1>3, NothingWritten DEF srvVars, Waiting
<1>4. ASSUME NEW c \in Conn, Work(c) PROVE Written'
  BY <1>2, <1>3, <1>4, EndWritten, InSessionWritten, DoneWritten DEF Work
<1>5. CASE ServerNext
  BY <1>1, <1>4, <1>5, QuitWritten DEF ServerNext
<1>6. CASE UNCHANGED serverVars
  BY <1>3, <1>6 DEF serverVars
<1> QED BY <1>5, <1>6

(* What the server acknowledged is committed, in the open transaction, or   *)
(* was given up with it, and only one of these, and a statement outside a   *)
(* transaction that was answered with an error is never in the store,       *)
(* whichever connections shared the session and however often the server    *)
(* ended (do_query).                                                        *)
THEOREM AnswersAlways == ASSUME NoneApart PROVE ServerSpec => []AnswersTrue
<1>1. ServerInit => Control /\ Written
  BY ServerInitControl, ServerInitWritten
<1>2. Control /\ Written /\ [ServerNext]_serverVars => (Control /\ Written)'
  BY StepControl, StepWritten
<1>3. Written => AnswersTrue
  BY DEF Written, FailedApart, AnswersTrue, ErrorsLeaveNothing
<1> QED BY <1>1, <1>2, <1>3, PTL DEF ServerSpec

-----------------------------------------------------------------------------
(* Facts about sequences.                                                   *)
LEMMA SeqLen == \A S : \A s \in Seq(S) : Len(s) \in Nat /\ DOMAIN s = 1..Len(s)
OBVIOUS

LEMMA SeqWider == \A S, T : \A s \in Seq(S) : S \subseteq T => s \in Seq(T)
OBVIOUS

LEMMA SeqSame ==
    ASSUME NEW S, NEW s \in Seq(S), NEW r \in Seq(S),
           Len(s) = Len(r), \A i \in 1..Len(s) : s[i] = r[i]
    PROVE  s = r
OBVIOUS

LEMMA SeqEmpty == \A S : <<>> \in Seq(S) /\ \A s \in Seq(S) : s = <<>> <=> Len(s) = 0
OBVIOUS

LEMMA SeqAppend ==
    \A S : \A s \in Seq(S), e \in S :
        /\ Append(s, e) \in Seq(S) /\ Len(Append(s, e)) = Len(s) + 1
        /\ \A i \in 1..Len(s) : Append(s, e)[i] = s[i]
        /\ Append(s, e)[Len(s) + 1] = e
OBVIOUS

LEMMA SeqConcat ==
    \A S : \A s, r \in Seq(S) :
        /\ s \o r \in Seq(S) /\ Len(s \o r) = Len(s) + Len(r)
        /\ \A i \in 1..(Len(s) + Len(r)) : (s \o r)[i] = IF i <= Len(s) THEN s[i] ELSE r[i - Len(s)]
OBVIOUS

LEMMA SeqConcatEmpty == \A S : \A s \in Seq(S) : s \o <<>> = s /\ <<>> \o s = s
OBVIOUS

LEMMA SeqHeadTail ==
    \A S : \A s \in Seq(S) : s # <<>> =>
        /\ Head(s) \in S /\ Tail(s) \in Seq(S) /\ Len(Tail(s)) = Len(s) - 1
        /\ \A i \in 1..Len(Tail(s)) : Tail(s)[i] = s[i + 1]
OBVIOUS

CopyConstants ==
    /\ Files \subseteq Seq(Keyed \cup NoRow) \cup {Nothing}
    /\ Table \in Seq(Keyed)
    /\ Nothing \notin {"open", "read"} \cup ThreadOver
    /\ Nothing # <<"export">>

(* batch and chan together are the records before at.                       *)
Matches ==
    /\ at = 1 + Len(batch) + Len(chan)
    /\ \A i \in 1..Len(batch) : batch[i] = file[i]
    /\ \A i \in 1..Len(chan) : chan[i] = file[Len(batch) + i]

(* Where the thread is, and what it has read of the file.                   *)
ReaderAt ==
    /\ reader \in {Nothing, "open"} => at = 1 /\ chan = <<>>
    /\ reader \in {"read", "ok"} => file \in Seq(Keyed \cup NoRow) /\ at <= Len(file) + 1
    /\ reader = "ok" => at = Len(file) + 1

(* What is known at each place of the executor.                             *)
Executing ==
    /\ exec = "bound" => reader = Nothing /\ batch = <<>>
    /\ exec = "recv" => reader # Nothing /\ Matches
    /\ exec = "join" => reader \in ThreadOver /\ chan = <<>> /\ Matches
    /\ exec = "yielded" => reply = <<"import", Len(file)>> /\ batch = file
    /\ exec = "failed" => reply = <<"error">>
    /\ exec = "over" => IF passed THEN reply = <<"error">>
                        ELSE reply = <<"import", Len(file)>> /\ batch = file
    /\ exec \in {"bound", "recv", "join", "yielded", "failed"} => ~passed
    /\ exec # "write"
    /\ exec # "committed" => rows = Table
    /\ exec = "committed" /\ ~passed => rows = Table \o file

Typed ==
    /\ batch \in Seq(Keyed) /\ chan \in Seq(Keyed) /\ at \in Nat \ {0}
    /\ reader \in {Nothing, "open", "read"} \cup ThreadOver
    /\ passed \in BOOLEAN

ImportInv ==
    op = "from" =>
        /\ file \in Seq(Keyed \cup NoRow) \cup {Nothing}
        /\ Typed /\ ReaderAt /\ Executing

-----------------------------------------------------------------------------
LEMMA ReaderKeeps ==
    ASSUME CopyConstants, op = "from", ImportInv, ReaderStep PROVE ImportInv'
<1> USE DEF CopyConstants, ImportInv, Typed, ThreadOver
<1>1. CASE OpenFile
    BY <1>1 DEF OpenFile, ReaderAt, Executing, Matches, ThreadOver
<1>2. CASE EndOfFile
  <2>1. Len(file) \in Nat
    BY <1>2, SeqLen DEF EndOfFile, ReaderAt
  <2>2. ReaderAt'
    BY <1>2, <2>1 DEF EndOfFile, ReaderAt
  <2>3. Executing'
    BY <1>2 DEF EndOfFile, Executing, Matches, ThreadOver
  <2> QED BY <1>2, <2>2, <2>3 DEF EndOfFile, ThreadOver
<1>3. CASE ReadRecord /\ reader' \in {"error", "panic"}
  <2>1. UNCHANGED <<op, file, rows, at, chan, exec, batch, reply, passed>> /\ reader = "read"
    BY <1>3 DEF ReadRecord
  <2>2. ReaderAt'
    BY <1>3, <2>1 DEF ReaderAt
  <2>3. Executing'
    BY <1>3, <2>1 DEF Executing, Matches, ThreadOver
  <2> QED BY <1>3, <2>1, <2>2, <2>3 DEF ThreadOver
<1>4. CASE ReadRecord /\ reader' \notin {"error", "panic"}
  <2>1. /\ file[at] \in Keyed /\ Receiver /\ chan' = Append(chan, file[at]) /\ at' = at + 1
        /\ UNCHANGED <<op, file, rows, reader, exec, batch, reply, passed>>
        /\ reader = "read" /\ at <= Len(file)
    BY <1>4 DEF ReadRecord
  <2>2. /\ chan' \in Seq(Keyed) /\ Len(chan') = Len(chan) + 1
        /\ \A i \in 1..Len(chan) : chan'[i] = chan[i]
        /\ chan'[Len(chan) + 1] = file[at]
    BY <2>1, SeqAppend
  <2>3. Matches => Matches'
    BY <2>1, <2>2 DEF Matches
  <2>4. ReaderAt' /\ at' \in Nat \ {0}
    <3>1. file \in Seq(Keyed \cup NoRow) /\ Len(file) \in Nat
      BY <2>1, SeqLen DEF ReaderAt
    <3> QED BY <2>1, <3>1 DEF ReaderAt
  <2>5. Executing'
    BY <2>1, <2>3 DEF Executing, Receiver, ThreadOver
  <2> QED BY <2>1, <2>2, <2>4, <2>5
<1> QED BY <1>1, <1>2, <1>3, <1>4 DEF ReaderStep

LEMMA ReceiveKeeps ==
    ASSUME CopyConstants, op = "from", ImportInv, Receive PROVE ImportInv'
<1> USE DEF CopyConstants, ImportInv, Typed, ThreadOver
<1>1. /\ exec = "recv" /\ chan # <<>> /\ chan' = Tail(chan)
      /\ UNCHANGED <<op, file, rows, reader, at, passed>>
    BY DEF Receive
<1>2. /\ chan' \in Seq(Keyed) /\ Len(chan') = Len(chan) - 1 /\ Head(chan) \in Keyed
      /\ \A i \in 1..Len(chan') : chan'[i] = chan[i + 1]
      /\ Head(chan) = chan[1] /\ Len(chan) \in Nat \ {0}
    BY <1>1, SeqHeadTail
<1>3. ReaderAt'
    BY <1>1 DEF ReaderAt
<1>4. CASE batch' = batch
    BY <1>1, <1>2, <1>3, <1>4 DEF Receive, Throw, Executing
<1>5. CASE batch' # batch
  <2>1. batch' = Append(batch, Head(chan)) /\ UNCHANGED <<exec, reply>>
    BY <1>5 DEF Receive
  <2>2. /\ batch' \in Seq(Keyed) /\ Len(batch') = Len(batch) + 1
        /\ \A i \in 1..Len(batch) : batch'[i] = batch[i]
        /\ batch'[Len(batch) + 1] = chan[1]
    BY <2>1, <1>2, SeqAppend
  <2>3. Matches'
    BY <1>1, <1>2, <2>1, <2>2 DEF Matches, Executing
  <2> QED BY <1>1, <1>2, <1>3, <2>1, <2>2, <2>3 DEF Executing
<1> QED BY <1>4, <1>5

LEMMA JoinKeeps ==
    ASSUME CopyConstants, op = "from", ImportInv, Join PROVE ImportInv'
<1> USE DEF CopyConstants, ImportInv, Typed, ThreadOver
<1>1. exec = "join" /\ UNCHANGED <<op, file, rows, reader, at, chan, passed>>
    BY DEF Join
<1>2. CASE reader = "ok"
  <2>1. exec' = "yielded" /\ reply' = <<"import", Len(batch)>> /\ batch' = batch
    BY <1>2 DEF Join
  <2>2. file \in Seq(Keyed \cup NoRow) /\ Len(batch) = Len(file)
    BY <1>1, <1>2 DEF ReaderAt, Executing, Matches
  <2>3. batch \in Seq(Keyed \cup NoRow)
    BY SeqWider
  <2>4. \A i \in 1..Len(batch) : batch[i] = file[i]
    BY <1>1 DEF Executing, Matches
  <2>5. batch = file
    BY <2>2, <2>3, <2>4, SeqSame
  <2> QED BY <1>1, <2>1, <2>5 DEF ReaderAt, Executing
<1>3. CASE reader = "error"
    BY <1>1, <1>3 DEF Join, Throw, ReaderAt, Executing
<1>4. CASE reader = "panic"
    BY <1>1, <1>4 DEF Join, ReaderAt, Executing
<1> QED BY <1>1, <1>2, <1>3, <1>4 DEF Executing, ThreadOver

LEMMA OthersKeep ==
    ASSUME CopyConstants, op = "from", ImportInv,
           EndOfRows \/ Start \/ Resume \/ Drop \/ CopyDone
    PROVE  ImportInv'
<1> USE DEF CopyConstants, ImportInv, Typed, ThreadOver
<1>1. CASE EndOfRows
    BY <1>1 DEF EndOfRows, ReaderAt, Executing, Matches
<1>2. CASE Start
  <2>1. /\ exec = "bound" /\ reader = Nothing /\ batch = <<>> /\ at = 1 /\ chan = <<>>
        /\ UNCHANGED <<op, file, rows, at, chan, batch, passed>>
    BY <1>2 DEF Start, Executing, ReaderAt
  <2>2. reader' \in {Nothing, "open"}
    BY <1>2, <2>1 DEF Start
  <2>3. ReaderAt'
    BY <2>1, <2>2 DEF ReaderAt
  <2>4. Matches'
    BY <2>1 DEF Matches
  <2>5. Executing'
    BY <1>2, <2>1, <2>4 DEF Start, Throw, Executing
  <2> QED BY <2>1, <2>2, <2>3, <2>5
<1>3. CASE Resume
  <2>1. /\ exec' = "over" /\ chan' = <<>>
        /\ UNCHANGED <<op, file, rows, batch, reader, at, reply>>
    BY <1>3 DEF Resume, Destroy
  <2>2. ReaderAt'
    BY <2>1 DEF ReaderAt
  <2>3. CASE exec = "failed"
    <3>1. passed' = TRUE
      BY <1>3, <2>3 DEF Resume
    <3> QED BY <2>1, <2>2, <2>3, <3>1 DEF Executing
  <2>4. CASE exec = "yielded"
    <3>1. ~passed' /\ passed' \in BOOLEAN
      BY <1>3, <2>4 DEF Resume
    <3>2. Executing'
      BY <2>1, <2>4, <3>1 DEF Executing
    <3> QED BY <2>1, <2>2, <3>1, <3>2
  <2> QED BY <1>3, <2>3, <2>4 DEF Resume
<1>4. CASE Drop
    BY <1>4 DEF Drop, Destroy, ReaderAt, Executing
<1>5. CASE CopyDone
  <2>1. /\ exec = "over" /\ exec' = "committed" /\ rows' = Table \o batch /\ batch' = <<>>
        /\ UNCHANGED <<op, file, reader, at, chan, reply, passed>>
    BY <1>5 DEF CopyDone, Executing
  <2>2. ~passed => rows' = Table \o file
    BY <2>1 DEF Executing
  <2> QED BY <2>1, <2>2 DEF ReaderAt, Executing
<1> QED BY <1>1, <1>2, <1>3, <1>4, <1>5

(* For every file and table: COPY FROM reports the rows of the whole file   *)
(* and commits all of them or none (copy_from_file.rs), unless the caller   *)
(* gets an error from next and then calls done.                             *)
THEOREM ImportAlways == ASSUME CopyConstants PROVE CopySpec => []ImportWhole
<1>1. CopyInit => ImportInv
  <2> SUFFICES ASSUME CopyInit, op = "from" PROVE ImportInv
    BY DEF ImportInv
  <2>1. ~passed /\ passed \in BOOLEAN
    BY DEF CopyInit
  <2>2. Typed /\ ReaderAt
    BY <2>1 DEF CopyInit, CopyConstants, Typed, ReaderAt, ThreadOver
  <2>3. Executing
    BY <2>1 DEF CopyInit, Executing
  <2> QED BY <2>2, <2>3 DEF CopyInit, CopyConstants, ImportInv
<1>2. ImportInv /\ [CopyNext]_copyVars => ImportInv'
  <2> SUFFICES ASSUME ImportInv, [CopyNext]_copyVars PROVE ImportInv'
    OBVIOUS
  <2>1. op' = op
    BY DEF CopyNext, ReaderStep, ExecutorStep, CallerStep, OpenFile, ReadRecord, EndOfFile,
           Receive, EndOfRows, Join, WriteRecord, Flush, Start, CreateWriter, Resume, Drop, CopyDone, copyVars
  <2>2. CASE op # "from"
    BY <2>1, <2>2 DEF ImportInv
  <2>3. CASE op = "from" /\ UNCHANGED copyVars
    BY <2>3 DEF copyVars, ImportInv, Typed, ReaderAt, Executing, Matches
  <2>4. CASE op = "from" /\ CopyNext
    <3>1. ~CreateWriter
      BY <2>4 DEF CreateWriter
    <3>2. ~WriteRecord /\ ~Flush
      BY <2>4 DEF WriteRecord, Flush, ImportInv, Executing
    <3> QED
      BY <2>4, <3>1, <3>2, ReaderKeeps, ReceiveKeeps, JoinKeeps, OthersKeep
         DEF CopyNext, ExecutorStep, CallerStep
  <2> QED BY <2>2, <2>3, <2>4
<1>3. ImportInv => ImportWhole
    BY DEF ImportInv, ImportWhole, Executing
<1> QED BY <1>1, <1>2, <1>3, PTL DEF CopySpec

-----------------------------------------------------------------------------
(* COPY TO.  Exported: what went to the writer, in the file or still in its  *)
(* buffer, is the header h and the rows before at.                          *)
Exported(h) ==
    LET all == file \o batch
    IN  /\ Len(all) = Len(h) + at - 1
        /\ \A i \in 1..Len(h) : all[i] = h[i]
        /\ \A i \in 1..(at - 1) : all[Len(h) + i] = rows[i]

Header == {<<>>, <<"header">>}

Record == Keyed \cup {"header"}

ExportInv ==
    IF op = "to"
    THEN /\ rows = Table /\ reader = Nothing
         /\ file \in Seq(Record) /\ batch \in Seq(Record) /\ at \in Nat \ {0}
         /\ exec \in {"bound", "write", "failed", "yielded", "over", "gone", "committed"}
         /\ exec = "bound" => file = <<>> /\ batch = <<>> /\ at = 1
         /\ exec = "write" => at <= Len(rows) + 1 /\ \E h \in Header : Exported(h)
         /\ exec \in {"bound", "write", "failed"} => reply # <<"export">>
         /\ exec \in {"yielded", "over", "gone", "committed"} => batch = <<>> /\ ExportWhole
    ELSE exec # "write" /\ reply # <<"export">>

LEMMA HeaderSeq == ASSUME NEW h \in Header PROVE h \in Seq(Record) /\ Len(h) \in Nat
<1>1. <<>> \in Seq(Record) /\ "header" \in Record
    BY SeqEmpty DEF Record
<1>2. <<"header">> \in Seq(Record)
    BY <1>1
<1> QED BY <1>1, <1>2, SeqLen DEF Header

(* A record more in the buffer is a record more that went to the writer.    *)
LEMMA OneMore ==
    ASSUME NEW S, NEW s \in Seq(S), NEW t \in Seq(S), NEW x \in S
    PROVE  s \o Append(t, x) = Append(s \o t, x) /\ s \o <<x>> = Append(s, x)
<1>1. s \o t \in Seq(S) /\ Append(t, x) \in Seq(S) /\ <<x>> \in Seq(S)
    BY SeqConcat, SeqAppend
<1>2. s \o Append(t, x) \in Seq(S) /\ Append(s \o t, x) \in Seq(S)
    BY <1>1, SeqConcat, SeqAppend
<1>3. Len(s) \in Nat /\ Len(t) \in Nat
    BY SeqLen
<1>4. Len(s \o Append(t, x)) = Len(s) + Len(t) + 1 /\ Len(Append(s \o t, x)) = Len(s) + Len(t) + 1
    BY <1>1, <1>3, SeqConcat, SeqAppend
<1>5. ASSUME NEW i \in 1..(Len(s) + Len(t) + 1)
      PROVE  (s \o Append(t, x))[i] = Append(s \o t, x)[i]
    BY <1>1, <1>3
<1>6. s \o Append(t, x) = Append(s \o t, x)
    BY <1>2, <1>4, <1>5, SeqSame
<1>7. s \o <<x>> = Append(s, x)
    BY <1>1, <1>3
<1> QED BY <1>6, <1>7

(* What went to the writer is the whole table when every row was scanned.   *)
LEMMA AllWritten ==
    ASSUME CopyConstants, op = "to", ExportInv, NEW h \in Header, Exported(h), at > Len(rows),
           at <= Len(rows) + 1
    PROVE  file \o batch \in {rows, <<"header">> \o rows}
<1>1. /\ rows \in Seq(Record) /\ Len(rows) \in Nat /\ at = Len(rows) + 1
      /\ file \o batch \in Seq(Record) /\ h \in Seq(Record)
    BY HeaderSeq DEF CopyConstants, ExportInv, Record
<1>2. Len(file \o batch) = Len(h) + Len(rows)
    BY <1>1, HeaderSeq DEF Exported
<1>3. \A i \in 1..Len(h) : (file \o batch)[i] = h[i]
    BY DEF Exported
<1>4. \A i \in 1..Len(rows) : (file \o batch)[Len(h) + i] = rows[i]
    BY <1>1 DEF Exported
<1>5. h \o rows \in Seq(Record) /\ Len(h \o rows) = Len(h) + Len(rows) /\ Len(h) \in Nat
    BY <1>1, SeqConcat, HeaderSeq
<1>6. ASSUME NEW i \in 1..Len(file \o batch) PROVE (file \o batch)[i] = (h \o rows)[i]
  <2>1. (h \o rows)[i] = IF i <= Len(h) THEN h[i] ELSE rows[i - Len(h)]
    BY <1>1, <1>2, SeqConcat
  <2>2. CASE i <= Len(h)
    BY <2>1, <2>2, <1>2, <1>3, <1>5
  <2>3. CASE ~(i <= Len(h))
    <3>1. i - Len(h) \in 1..Len(rows) /\ Len(h) + (i - Len(h)) = i
      BY <2>3, <1>1, <1>2, <1>5
    <3> QED BY <2>1, <2>3, <3>1, <1>4
  <2> QED BY <2>2, <2>3
<1>7. file \o batch = h \o rows
    BY <1>1, <1>2, <1>5, <1>6, SeqSame
<1>8. h = <<>> => h \o rows = rows
    BY <1>1, SeqConcatEmpty
<1> QED BY <1>7, <1>8 DEF Header

(* A row goes to the buffer, which may be written out first.                *)
LEMMA WriteRecordKeeps ==
    ASSUME CopyConstants, op = "to", ExportInv, WriteRecord PROVE ExportInv'
<1>1. /\ exec = "write" /\ at <= Len(rows) /\ UNCHANGED <<op, rows, reader, chan, passed>>
      /\ rows \in Seq(Keyed) /\ file \in Seq(Record) /\ batch \in Seq(Record) /\ at \in Nat \ {0}
      /\ rows = Table /\ reader = Nothing
    BY DEF WriteRecord, ExportInv, CopyConstants
<1>2. CASE Throw /\ UNCHANGED <<file, at, batch>>
    BY <1>1, <1>2 DEF Throw, ExportInv
<1>3. CASE /\ \/ UNCHANGED file /\ batch' = Append(batch, rows[at])
              \/ file' = file \o batch /\ batch' = <<rows[at]>>
           /\ at' = at + 1 /\ UNCHANGED <<exec, reply>>
  <2>1. rows[at] \in Record
    BY <1>1 DEF Record
  <2>2. /\ file \o batch \in Seq(Record) /\ Append(batch, rows[at]) \in Seq(Record)
        /\ <<rows[at]>> \in Seq(Record)
    BY <1>1, <2>1, SeqConcat, SeqAppend
  <2>3. file' \in Seq(Record) /\ batch' \in Seq(Record) /\ at' \in Nat \ {0}
    <3>1. at' \in Nat \ {0}
      BY <1>1, <1>3
    <3>2. file' \in Seq(Record) /\ batch' \in Seq(Record)
      BY <1>1, <1>3, <2>2, Zenon
    <3> QED BY <3>1, <3>2
  <2>4. /\ file \o Append(batch, rows[at]) = Append(file \o batch, rows[at])
        /\ (file \o batch) \o <<rows[at]>> = Append(file \o batch, rows[at])
    BY <1>1, <2>1, <2>2, OneMore
  <2>5. file' \o batch' = Append(file \o batch, rows[at])
    BY <1>3, <2>4
  <2>6. PICK h \in Header : Exported(h)
    BY <1>1 DEF ExportInv
  <2>7. Exported(h)'
    <3> DEFINE all == file \o batch
    <3>1. all \in Seq(Record) /\ Len(all) \in Nat /\ Len(h) \in Nat
      BY <1>1, HeaderSeq
    <3>2. /\ Len(all) = Len(h) + at - 1 /\ \A i \in 1..Len(h) : all[i] = h[i]
          /\ \A i \in 1..(at - 1) : all[Len(h) + i] = rows[i]
      BY <2>6 DEF Exported
    <3> HIDE DEF all
    <3>3. /\ Len(Append(all, rows[at])) = Len(all) + 1
          /\ \A i \in 1..Len(all) : Append(all, rows[at])[i] = all[i]
          /\ Append(all, rows[at])[Len(all) + 1] = rows[at]
      BY <3>1, <2>1
    <3>4. Append(all, rows[at])[Len(h) + at] = rows[at]
      BY <3>1, <3>2, <3>3, <1>1
    <3>5. \A i \in 1..at : Append(all, rows[at])[Len(h) + i] = rows[i]
      <4> SUFFICES ASSUME NEW i \in 1..at PROVE Append(all, rows[at])[Len(h) + i] = rows[i]
        OBVIOUS
      <4>1. CASE i = at
        BY <4>1, <3>4
      <4>2. CASE i # at
        <5>1. i \in 1..(at - 1) /\ Len(h) + i \in 1..Len(all)
          BY <4>2, <3>1, <3>2, <1>1
        <5> QED BY <5>1, <3>2, <3>3
      <4> QED BY <4>1, <4>2
    <3>6. \A i \in 1..Len(h) : Append(all, rows[at])[i] = h[i]
      BY <3>1, <3>2, <3>3, <1>1
    <3>7. file' \o batch' = Append(all, rows[at]) /\ at' - 1 = at /\ rows' = rows
      BY <2>5, <1>1, <1>3 DEF all
    <3>8. Len(file' \o batch') = Len(h) + at' - 1
      BY <3>1, <3>2, <3>3, <3>7, <1>1
    <3> QED BY <3>5, <3>6, <3>7, <3>8 DEF Exported
  <2>8. at' <= Len(rows') + 1
    BY <1>1, <1>3
  <2>9. reply' # <<"export">>
    BY <1>1, <1>3 DEF ExportInv
  <2> QED BY <1>1, <1>3, <2>3, <2>6, <2>7, <2>8, <2>9 DEF ExportInv
<1> QED BY <1>1, <1>2, <1>3 DEF WriteRecord

LEMMA FlushKeeps ==
    ASSUME CopyConstants, op = "to", ExportInv, Flush PROVE ExportInv'
<1>1. /\ exec = "write" /\ at > Len(rows) /\ UNCHANGED <<op, rows, reader, at, chan, passed>>
      /\ file \in Seq(Record) /\ batch \in Seq(Record) /\ at \in Nat \ {0}
      /\ at <= Len(rows) + 1 /\ rows = Table /\ reader = Nothing
    BY DEF Flush, ExportInv
<1>2. CASE Throw /\ UNCHANGED <<file, batch>>
    BY <1>1, <1>2 DEF Throw, ExportInv
<1>3. CASE /\ exec' = "yielded" /\ reply' = <<"export">>
           /\ file' = file \o batch /\ batch' = <<>>
  <2>1. PICK h \in Header : Exported(h)
    BY <1>1 DEF ExportInv
  <2>2. file' \in {rows, <<"header">> \o rows}
    BY <1>1, <1>3, <2>1, AllWritten
  <2>3. file' \in Seq(Record) /\ batch' \in Seq(Record)
    BY <1>1, <1>3
  <2>4. ExportWhole'
    BY <2>2, <1>1 DEF ExportWhole
  <2> QED BY <1>1, <1>3, <2>3, <2>4 DEF ExportInv
<1> QED BY <1>1, <1>2, <1>3 DEF Flush

LEMMA CreateWriterKeeps ==
    ASSUME CopyConstants, op = "to", ExportInv, CreateWriter PROVE ExportInv'
<1>1. /\ exec = "bound" /\ UNCHANGED <<op, file, rows, reader, at, chan, passed>>
      /\ file = <<>> /\ batch = <<>> /\ at = 1 /\ rows = Table /\ reader = Nothing
      /\ reply # <<"export">>
    BY DEF CreateWriter, ExportInv
<1>2. CASE Throw /\ UNCHANGED batch
    BY <1>1, <1>2 DEF Throw, ExportInv
<1>3. CASE exec' = "write" /\ batch' \in {<<>>, <<"header">>} /\ UNCHANGED reply
  <2>1. PICK h \in Header : h = batch'
    BY <1>3 DEF Header
  <2>2. h \in Seq(Record) /\ Len(h) \in Nat
    BY HeaderSeq
  <2>3. file' \o batch' = h
    BY <1>1, <2>1, <2>2, SeqConcatEmpty
  <2>4. Exported(h)'
    BY <1>1, <2>1, <2>2, <2>3 DEF Exported
  <2>5. Len(rows) \in Nat /\ file' \in Seq(Record)
    BY <1>1, SeqEmpty DEF CopyConstants
  <2> QED BY <1>1, <1>3, <2>1, <2>2, <2>4, <2>5 DEF ExportInv
<1> QED BY <1>1, <1>2, <1>3 DEF CreateWriter

(* The caller ends the executor: a reported export has nothing in the       *)
(* buffer any more.                                                         *)
LEMMA EndingKeeps ==
    ASSUME CopyConstants, op = "to", ExportInv, Resume \/ Drop \/ CopyDone PROVE ExportInv'
<1>1. /\ UNCHANGED <<op, reader, at, reply>> /\ rows = Table /\ reader = Nothing
      /\ file \in Seq(Record) /\ batch \in Seq(Record) /\ at \in Nat \ {0}
      /\ exec \in {"bound", "failed", "yielded", "over"}
      /\ exec' \in {"over", "gone", "committed"}
    BY DEF Resume, Drop, CopyDone, ExportInv
<1>2. rows \in Seq(Record)
    BY <1>1 DEF CopyConstants, Record
<1>3. batch' = <<>> /\ file' \in {file, file \o batch}
    BY DEF Resume, Drop, CopyDone, Destroy
<1>4. file' \in Seq(Record) /\ batch' \in Seq(Record)
  <2>1. file \o batch \in Seq(Record) /\ <<>> \in Seq(Record)
    BY <1>1, SeqConcat, SeqEmpty
  <2> QED BY <2>1, <1>1, <1>3
<1>5. rows' = rows
  <2>1. CASE CopyDone
    <3>1. batch = <<>>
      BY <2>1 DEF CopyDone, ExportInv
    <3> QED BY <2>1, <3>1, <1>2, SeqConcatEmpty DEF CopyDone
  <2> QED BY <2>1 DEF Resume, Drop
<1>6. ExportWhole'
  <2>1. CASE exec \in {"bound", "failed"}
    BY <2>1, <1>1 DEF ExportInv, ExportWhole
  <2>2. CASE exec \in {"yielded", "over"}
    <3>1. batch = <<>> /\ ExportWhole
      BY <2>2 DEF ExportInv
    <3>2. file' = file
      BY <3>1, <1>1, <1>3, SeqConcatEmpty
    <3> QED BY <3>1, <3>2, <1>1, <1>5 DEF ExportWhole
  <2> QED BY <1>1, <2>1, <2>2
<1> QED BY <1>1, <1>3, <1>4, <1>5, <1>6 DEF ExportInv

(* COPY TO that reported its end wrote the whole table, whatever was        *)
(* written out when: copy_to_file.rs, ExportWhole of Clients.cfg.           *)
THEOREM ExportAlways == ASSUME CopyConstants PROVE CopySpec => []ExportWhole
<1>1. CopyInit => ExportInv
  <2>1. <<>> \in Seq(Record)
    BY SeqEmpty
  <2>2. CopyInit => reply # <<"export">>
    BY DEF CopyInit, CopyConstants
  <2> SUFFICES ASSUME CopyInit PROVE ExportInv
    OBVIOUS
  <2>3. /\ op \in {"from", "to"} /\ rows = Table /\ reader = Nothing /\ at = 1
        /\ exec = "bound" /\ batch = <<>>
    BY DEF CopyInit
  <2>4. op = "to" => file = <<>>
    BY DEF CopyInit
  <2>5. reply # <<"export">> /\ exec \notin {"write", "yielded", "over", "gone", "committed"}
    BY <2>2, <2>3
  <2>6. at \in Nat \ {0}
    BY <2>3
  <2> QED BY <2>1, <2>3, <2>4, <2>5, <2>6, Zenon DEF ExportInv
<1>2. ExportInv /\ [CopyNext]_copyVars => ExportInv'
  <2> SUFFICES ASSUME ExportInv, [CopyNext]_copyVars PROVE ExportInv'
    OBVIOUS
  <2>1. CASE UNCHANGED copyVars
    BY <2>1 DEF copyVars, ExportInv, ExportWhole, Exported
  <2>2. CASE CopyNext /\ op = "to"
    <3>1. ~ReaderStep /\ ~Receive /\ ~EndOfRows /\ ~Join /\ ~Start
      BY <2>2 DEF ReaderStep, OpenFile, ReadRecord, EndOfFile, Receive, EndOfRows, Join, Start,
                  ExportInv, CopyConstants
    <3> QED
      BY <2>2, <3>1, WriteRecordKeeps, FlushKeeps, CreateWriterKeeps, EndingKeeps
         DEF CopyNext, ExecutorStep, CallerStep
  <2>3. CASE CopyNext /\ op # "to"
    <3>1. exec # "write" /\ reply # <<"export">>
      BY <2>3 DEF ExportInv
    <3>2. /\ op' = op /\ exec' # "write"
          /\ reply' \in {reply, <<"error">>, <<"panic">>, <<"import", Len(batch)>>}
      BY <2>3, <3>1 DEF CopyNext, ReaderStep, ExecutorStep, CallerStep, OpenFile, ReadRecord,
         EndOfFile, Receive, EndOfRows, Join, WriteRecord, Flush, Start, CreateWriter, Resume,
         Drop, CopyDone, Throw
    <3>3. reply' # <<"export">>
      BY <3>1, <3>2
    <3> QED BY <2>3, <3>2, <3>3 DEF ExportInv
  <2> QED BY <2>1, <2>2, <2>3
<1>3. ExportInv => ExportWhole
    BY DEF ExportInv, ExportWhole
<1> QED BY <1>1, <1>2, <1>3, PTL DEF CopySpec
=============================================================================
