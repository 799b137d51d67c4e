-------------------------- MODULE SqlConnectionPool --------------------------
(***************************************************************************)
(* SqlConnectionPool/SqlConnectionPool.cc: a list of database connections, *)
(* under mutex_, and a semaphore (Locker/Locker.h, class Sem) that is to   *)
(* count them.  One thread runs init(), initSqlResult() and, at the end,   *)
(* destroySqlConnectionPool(); the workers take a connection and give it   *)
(* back.                                                                   *)
(***************************************************************************)
EXTENDS Integers, Sequences, FiniteSets, SequencesExt

CONSTANTS
    Workers, \* the threads that use the pool
    MaxConn, \* the argument of init()
    NULL     \* no connection

VARIABLES
    connList_,
    FreeConn_,
    CurConn_,
    sem_,       \* the value of the member sem_
    localSem,   \* the value of the variable sem_ of init()
    isInited_,
    users_,     \* the accounts have been read from the database
    owner,      \* what the initialising thread does
    pc,         \* what the workers do
    conn        \* the connection a thread has got

pool == <<connList_, FreeConn_, CurConn_>>
sems == <<sem_, localSem>>
sqlVars == <<pool, sems, isInited_, users_, owner, pc, conn>>

Threads == Workers \cup {"owner"}

\* the constructors of the pool and of Sem: Sem() has the value 0
Init ==
    /\ connList_ = <<>>
    /\ FreeConn_ = 0
    /\ CurConn_ = 0
    /\ sem_ = 0
    /\ localSem = 0
    /\ isInited_ = FALSE
    /\ users_ = FALSE
    /\ owner = "init"
    /\ pc = [t \in Threads |-> "idle"]
    /\ conn = [t \in Threads |-> NULL]

-----------------------------------------------------------------------------
(* Sem: wait() and post().                                                 *)

SemWait == sem_ > 0 /\ sem_' = sem_ - 1 /\ UNCHANGED localSem

-----------------------------------------------------------------------------
(* init(): a failure to connect ends the program.                          *)

Connect ==
    /\ owner = "init"
    /\ Len(connList_) < MaxConn
    /\ connList_' = Append(connList_, Len(connList_) + 1)
    /\ FreeConn_' = FreeConn_ + 1
    /\ UNCHANGED <<CurConn_, sems, isInited_, users_, owner, pc, conn>>

ConnectFails ==
    /\ owner = "init"
    /\ Len(connList_) < MaxConn
    /\ owner' = "exited"
    /\ UNCHANGED <<pool, sems, isInited_, users_, pc, conn>>

\* the declaration of a Sem sem_ in init(), which ends with init()
InitEnd ==
    /\ owner = "init"
    /\ Len(connList_) = MaxConn
    /\ localSem' = FreeConn_
    /\ owner' = "inited"
    /\ UNCHANGED <<pool, sem_, isInited_, users_, pc, conn>>

-----------------------------------------------------------------------------
(* getConnection() and releaseConnection().                                *)

\* the test of the size, without the lock
GetTest(t) ==
    /\ pc[t] = "get"
    /\ pc' = [pc EXCEPT ![t] = IF connList_ = <<>> THEN "got" ELSE "wait"]
    /\ UNCHANGED <<pool, sems, isInited_, users_, owner, conn>>

GetWait(t) ==
    /\ pc[t] = "wait"
    /\ SemWait
    /\ pc' = [pc EXCEPT ![t] = "pop"]
    /\ UNCHANGED <<pool, isInited_, users_, owner, conn>>

\* the critical section; front() of an empty list is undefined
GetPop(t) ==
    /\ pc[t] = "pop"
    /\ connList_ # <<>>
    /\ conn' = [conn EXCEPT ![t] = Head(connList_)]
    /\ connList_' = Tail(connList_)
    /\ FreeConn_' = FreeConn_ - 1
    /\ CurConn_' = CurConn_ + 1
    /\ pc' = [pc EXCEPT ![t] = "got"]
    /\ UNCHANGED <<sems, isInited_, users_, owner>>

GetConnection(t) == GetTest(t) \/ GetWait(t) \/ GetPop(t)

\* releaseConnection(): nothing happens without a connection
Release(t) ==
    /\ pc[t] = "got"
    /\ IF conn[t] = NULL
       THEN UNCHANGED pool
       ELSE /\ connList_' = Append(connList_, conn[t])
            /\ FreeConn_' = FreeConn_ + 1
            /\ CurConn_' = CurConn_ - 1
    /\ conn' = [conn EXCEPT ![t] = NULL]
    /\ pc' = [pc EXCEPT ![t] = "idle"]
    /\ UNCHANGED <<sems, isInited_, users_, owner>>

-----------------------------------------------------------------------------
(* The initialising thread goes on with initSqlResult(), and destroys the  *)
(* pool at last.                                                           *)

InitResult ==
    /\ owner = "inited"
    /\ pc["owner"] = "idle"
    /\ ~ isInited_
    /\ pc' = [pc EXCEPT !["owner"] = "get"]
    /\ owner' = "query"
    /\ UNCHANGED <<pool, sems, isInited_, users_, conn>>

\* The query, which needs a connection, and its rows.  The connection is not given
\* back to the pool: its shared_ptr deletes what the library has allocated, which
\* is undefined and may end the program.
Query ==
    /\ owner = "query"
    /\ pc["owner"] = "got"
    /\ pc' = [pc EXCEPT !["owner"] = "idle"]
    /\ conn' = [conn EXCEPT !["owner"] = NULL]
    /\ IF conn["owner"] = NULL
       THEN owner' = "exited" /\ UNCHANGED <<users_, isInited_>>
       ELSE owner' \in {"inited", "exited"} /\ users_' = TRUE /\ isInited_' = TRUE
    /\ UNCHANGED <<pool, sems>>

\* destroySqlConnectionPool(): mysql_close() frees each connection and clear()
\* deletes it once more, which may end the program
Destroy ==
    /\ owner = "inited"
    /\ \A t \in Threads : pc[t] = "idle"
    /\ IF connList_ = <<>>
       THEN owner' = "destroyed" /\ UNCHANGED pool
       ELSE /\ connList_' = <<>> /\ CurConn_' = 0 /\ FreeConn_' = 0
            /\ owner' \in {"destroyed", "exited"}
    /\ UNCHANGED <<sems, isInited_, users_, pc, conn>>

-----------------------------------------------------------------------------
\* a worker wants a connection
Want(w) ==
    /\ owner \in {"inited", "query"}
    /\ pc[w] = "idle"
    /\ pc' = [pc EXCEPT ![w] = "get"]
    /\ UNCHANGED <<pool, sems, isInited_, users_, owner, conn>>

Next ==
    \/ Connect \/ ConnectFails \/ InitEnd
    \/ InitResult \/ Query \/ Destroy
    \/ owner # "exited" /\ \E t \in Threads : GetConnection(t)
    \/ owner # "exited" /\ \E w \in Workers : Want(w) \/ Release(w)

Spec == Init /\ [][Next]_sqlVars

\* A thread that can go on does, and gives its connection back.
Fairness ==
    /\ WF_sqlVars(Connect \/ InitEnd)
    /\ WF_sqlVars(Query)
    /\ \A t \in Threads : SF_sqlVars(GetConnection(t))
    /\ \A w \in Workers : WF_sqlVars(Release(w))

FairSpec == Spec /\ Fairness

-----------------------------------------------------------------------------
(* Properties.                                                             *)

\* "get connection / release connection" (SqlConnectionPool.h:19-20): a worker
\* that asks for a connection has an answer in the end, given that every
\* connection is given back, unless the program ends.
GetReturns == \A w \in Workers : pc[w] = "get" ~> pc[w] = "got" \/ owner = "exited"
=============================================================================
