------------------------------ MODULE MCClients ------------------------------
(***************************************************************************)
(* Model checking of the programs around the library, each by itself: the   *)
(* TPC-C driver with three workloads, the threads of an application that    *)
(* share a Database and its metadata lock, the server, which uses the same  *)
(* lock, and a caller of COPY.                                              *)
(***************************************************************************)
EXTENDS Tpcc, Server, Copy

CONSTANTS Connection    \* the threads of the server

VARIABLE which          \* the program

allVars == <<which, vars, serverVars, copyVars>>

(* A whole file; a row that is there already, in the table or in the file;  *)
(* records that are none, first, last and between; none at all; no file.    *)
CopyFiles ==
    {<<"c", "d", "e">>, <<"a", "c", "d">>, <<"c", "c", "d">>, <<"short">>, <<"c", "cast", "d">>,
     <<"trailing", "trailing">>, <<>>, Nothing}

CopyTable == <<"a", "b">>

Mix(n, p, o, d, s) == [k \in Kind |-> <<n, p, o, d, s>>[k + 1]]

Line(i, r, q) == [item |-> i, remote |-> r, qty |-> q]

FirstNames == [c \in Cust |-> CustPerDist - c]

(* Orders and deliveries; payments; the response times of all kinds.        *)
WorkloadSet ==
    {[mix |-> Mix(1, 0, 0, 1, 0), custs |-> {1, 2}, names |-> {}, amounts |-> {1}, rts |-> {0},
      orders |-> {<<Line(2, FALSE, 9), Line(1, FALSE, 1)>>,
                  <<Line(1, TRUE, 9), Line(1, FALSE, 9)>>,
                  <<Line(1, FALSE, 1), Line(NotFound, FALSE, 1)>>}],
     [mix |-> Mix(0, 2, 0, 0, 0), custs |-> {1}, names |-> {1, 2}, amounts |-> {1, 4999}, rts |-> {0},
      orders |-> {<<Line(1, FALSE, 1)>>}],
     [mix |-> Mix(0, 0, 1, 0, 1), custs |-> {1, 3}, names |-> {}, amounts |-> {1}, rts |-> {0, 1, 5},
      orders |-> {<<Line(1, FALSE, 1)>>}]}

-----------------------------------------------------------------------------
ClientsInit ==
    /\ which \in {"driver", "threads", "server", "copy"}
    /\ Init /\ (which # "driver" => work = CHOOSE w \in WorkloadSet : TRUE)
    /\ ServerInit
    /\ CopyInit /\ (which # "copy" => op = "to")

(* Threads that are not the server's send it no query.                      *)
Connected == \A t \in Thread \ Connection : count'[t] = 0

OfDriver(A) == which = "driver" /\ A /\ UNCHANGED <<which, serverVars, copyVars>>
OfThreads(A) == which = "threads" /\ A /\ UNCHANGED <<which, vars, srvVars, copyVars>>
OfServer(A) == which = "server" /\ A /\ Connected /\ UNCHANGED <<which, vars, copyVars>>
OfCopy(A) == which = "copy" /\ A /\ UNCHANGED <<which, vars, serverVars>>

ClientsNext ==
    \/ OfDriver(Next)
    \/ OfThreads(LockNext)
    \/ OfServer(ServerNext)
    \/ OfCopy(CopyNext)

(* The fairness of Tpcc, of LockSpec, of ServerSpec and of CopySpec.        *)
ClientsFairness ==
    /\ Fairness
    /\ \A t \in Thread : SF_allVars(OfThreads(Enter(t))) /\ WF_allVars(OfThreads(Leave(t)))
    /\ WF_allVars(OfServer(\E c \in Conn : Work(c)))
    /\ WF_allVars(OfCopy(ReaderStep)) /\ WF_allVars(OfCopy(ExecutorStep))

ClientsSpec == ClientsInit /\ [][ClientsNext]_allVars /\ ClientsFairness
=============================================================================
