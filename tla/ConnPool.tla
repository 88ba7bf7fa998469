------------------------------ MODULE ConnPool ------------------------------
(***************************************************************************)
(* The connection pools of logic: CDBPool (mysql/db_pool.cc) and, with the *)
(* same code, CachePool (redis/cache_pool.cc).  Everything a call does     *)
(* between taking and releasing the pool's mutex is one step; the          *)
(* condition variable is modelled by the threads it has notified.          *)
(*                                                                         *)
(* What a thread does with a MySQL connection is modelled as far as the    *)
(* health of the connection goes: CDBConn::ExecuteQuery and ExecuteUpdate  *)
(* check and reconnect, CPrepareStatement only pings.                      *)
(*                                                                         *)
(* Left out: abort_request_ and the destructor.  The managers that own the *)
(* pools are never destroyed, so the flag is never set.                    *)
(***************************************************************************)
EXTENDS Naturals, Sequences, FiniteSets

CONSTANTS
    Threads,    \* the threads that call the pool (event loops of logic)
    Timed,      \* those that pass timeout_ms > 0
    MinConn,    \* MIN_DB_CONN_CNT / MIN_CACHE_CONN_CNT
    MaxConn,    \* <pool>_maxconncnt
    NoThread

ASSUME PoolAssumption ==
    /\ IsFiniteSet(Threads)
    /\ Timed \subseteq Threads
    /\ MinConn \in Nat \ {0}
    /\ MaxConn \in Nat
    /\ NoThread \notin Threads

\* The pool starts with MinConn connections whatever the configured maximum.
Limit == IF MaxConn > MinConn THEN MaxConn ELSE MinConn

VARIABLES
    cur_conn_cnt,   \* connections opened, numbered in order: 1..cur_conn_cnt
    free_list,
    waiting,        \* threads blocked in cond_var_.wait / wait_for
    notified,       \* threads notified that do not have the mutex back yet
    held,           \* the connection each thread holds, 0 if none
    alive,          \* connections whose session with the server is up
    server_up,
    result          \* outcome of a thread's last operation on its connection

pool_vars == <<cur_conn_cnt, free_list, waiting, notified, held>>
vars == <<pool_vars, alive, server_up, result>>

TypeOK ==
    /\ cur_conn_cnt \in 0..Limit
    /\ free_list \in Seq(1..Limit)
    /\ waiting \in SUBSET Threads
    /\ notified \in SUBSET Threads
    /\ held \in [Threads -> 0..Limit]
    /\ alive \in SUBSET (1..Limit)
    /\ server_up \in BOOLEAN
    /\ result \in [Threads -> {"none", "ok", "failed"}]

\* Init() opens MinConn connections; if one fails the process does not start.
Init ==
    /\ cur_conn_cnt = MinConn
    /\ free_list = [i \in 1..MinConn |-> i]
    /\ waiting = {}
    /\ notified = {}
    /\ held = [t \in Threads |-> 0]
    /\ alive = 1..MinConn
    /\ server_up = TRUE
    /\ result = [t \in Threads |-> "none"]

Outside(t) == held[t] = 0 /\ t \notin waiting \cup notified

\* Hand out the front of the free list.
TakeFront(t) ==
    /\ held' = [held EXCEPT ![t] = Head(free_list)]
    /\ free_list' = Tail(free_list)
    /\ UNCHANGED cur_conn_cnt

-----------------------------------------------------------------------------
(* Seeded faults: each is a wrong version of the action it is named after.  No  *)
(* specification uses them; putting one in the action's place must break the    *)
(* property it was written for.                                                 *)

\* Off by one: the pool opens one connection more than the configured maximum.
GetNew_OffByOne(t) ==
    /\ Outside(t)
    /\ free_list = <<>>
    /\ cur_conn_cnt <= MaxConn
    /\ server_up
    /\ cur_conn_cnt' = cur_conn_cnt + 1
    /\ held' = [held EXCEPT ![t] = cur_conn_cnt + 1]
    /\ alive' = alive \cup {cur_conn_cnt + 1}
    /\ UNCHANGED <<free_list, waiting, notified, server_up, result>>

\* The new connection is put on the list and returned, but not popped.
GetNew_LeavesOnList(t) ==
    /\ Outside(t)
    /\ free_list = <<>>
    /\ cur_conn_cnt < MaxConn
    /\ server_up
    /\ cur_conn_cnt' = cur_conn_cnt + 1
    /\ free_list' = <<cur_conn_cnt + 1>>
    /\ held' = [held EXCEPT ![t] = cur_conn_cnt + 1]
    /\ alive' = alive \cup {cur_conn_cnt + 1}
    /\ UNCHANGED <<waiting, notified, server_up, result>>

\* The connection goes back without notify_one.
Release_Silent(t) ==
    /\ held[t] # 0
    /\ held' = [held EXCEPT ![t] = 0]
    /\ result' = [result EXCEPT ![t] = "none"]
    /\ free_list' = Append(free_list, held[t])
    /\ UNCHANGED <<cur_conn_cnt, waiting, notified, alive, server_up>>

\* notify_one only when the list was empty before: two releases, one wake-up.
Release_NotifyFirst(t) ==
    /\ held[t] # 0
    /\ held' = [held EXCEPT ![t] = 0]
    /\ result' = [result EXCEPT ![t] = "none"]
    /\ free_list' = Append(free_list, held[t])
    /\ IF free_list # <<>> \/ waiting = {}
       THEN UNCHANGED <<waiting, notified>>
       ELSE \E w \in waiting : waiting' = waiting \ {w} /\ notified' = notified \cup {w}
    /\ UNCHANGED <<cur_conn_cnt, alive, server_up>>

-----------------------------------------------------------------------------
(* GetDBConn / GetCacheConn *)

GetFree(t) ==
    /\ Outside(t)
    /\ free_list # <<>>
    /\ TakeFront(t)
    /\ UNCHANGED <<waiting, notified, alive, server_up, result>>

\* Below the maximum a connection is opened, put on the list and taken from it,
\* all under the mutex.
GetNew(t) ==
    /\ Outside(t)
    /\ free_list = <<>>
    /\ cur_conn_cnt < MaxConn
    /\ server_up                      \* else Init() fails and NULL is returned
    /\ cur_conn_cnt' = cur_conn_cnt + 1
    /\ held' = [held EXCEPT ![t] = cur_conn_cnt + 1]
    /\ alive' = alive \cup {cur_conn_cnt + 1}
    /\ UNCHANGED <<free_list, waiting, notified, server_up, result>>

GetWait(t) ==
    /\ Outside(t)
    /\ free_list = <<>>
    /\ cur_conn_cnt >= MaxConn
    /\ waiting' = waiting \cup {t}
    /\ UNCHANGED <<cur_conn_cnt, free_list, notified, held, alive, server_up, result>>

\* A notified thread has the mutex again: it re-tests the predicate and either
\* takes the front or goes back to waiting.
Wake(t) ==
    /\ t \in notified
    /\ notified' = notified \ {t}
    /\ IF free_list # <<>>
       THEN TakeFront(t) /\ UNCHANGED waiting
       ELSE waiting' = waiting \cup {t} /\ UNCHANGED <<cur_conn_cnt, free_list, held>>
    /\ UNCHANGED <<alive, server_up, result>>

\* wait_for runs out, before or after a notification: the predicate is tested
\* once more, and NULL is returned if the list is still empty.
WaitTimeout(t) ==
    /\ t \in Timed
    /\ t \in waiting \cup notified
    /\ waiting' = waiting \ {t}
    /\ notified' = notified \ {t}
    /\ IF free_list # <<>> THEN TakeFront(t) ELSE UNCHANGED <<cur_conn_cnt, free_list, held>>
    /\ UNCHANGED <<alive, server_up, result>>

(* RelDBConn / RelCacheConn *)

\* The AutoRel guard gives the connection back: to the end of the list, unless
\* it is there already, and one waiter is notified.
Release(t) ==
    LET k == held[t] IN
    /\ k # 0
    /\ held' = [held EXCEPT ![t] = 0]
    /\ result' = [result EXCEPT ![t] = "none"]
    /\ IF \A i \in DOMAIN free_list : free_list[i] # k
       THEN /\ free_list' = Append(free_list, k)
            /\ IF waiting = {}
               THEN UNCHANGED <<waiting, notified>>
               ELSE \E w \in waiting : waiting' = waiting \ {w} /\ notified' = notified \cup {w}
       ELSE UNCHANGED <<free_list, waiting, notified>>
    /\ UNCHANGED <<cur_conn_cnt, alive, server_up>>

-----------------------------------------------------------------------------
(* Using a connection *)

\* ExecuteQuery / ExecuteUpdate: CheckAndReconnect pings and, if the session is
\* gone, opens a new one.
Query(t) ==
    /\ held[t] # 0
    /\ result' = [result EXCEPT ![t] = IF server_up THEN "ok" ELSE "failed"]
    /\ alive' = IF server_up THEN alive \cup {held[t]} ELSE alive \ {held[t]}
    /\ UNCHANGED <<pool_vars, server_up>>

\* CPrepareStatement::Init and ExecuteUpdate: mysql_ping without
\* MYSQL_OPT_RECONNECT does not bring a lost session back.
Statement(t) ==
    /\ held[t] # 0
    /\ result' = [result EXCEPT ![t] =
                     IF server_up /\ held[t] \in alive THEN "ok" ELSE "failed"]
    /\ UNCHANGED <<pool_vars, alive, server_up>>

\* The server closes an idle session, or goes away and comes back.
SessionLost(k) ==
    /\ k \in alive
    /\ alive' = alive \ {k}
    /\ UNCHANGED <<pool_vars, server_up, result>>

ServerDown ==
    /\ server_up
    /\ server_up' = FALSE
    /\ alive' = {}
    /\ UNCHANGED <<pool_vars, result>>

ServerUp ==
    /\ ~server_up
    /\ server_up' = TRUE
    /\ UNCHANGED <<pool_vars, alive, result>>

-----------------------------------------------------------------------------
Get(t) == GetFree(t) \/ GetNew(t) \/ GetWait(t)

Use(t) == \/ Query(t)
          \/ Statement(t)

Next ==
    \/ \E t \in Threads : Get(t) \/ Wake(t) \/ WaitTimeout(t) \/ Release(t) \/ Use(t)
    \/ \E k \in 1..Limit : SessionLost(k)
    \/ ServerDown
    \/ ServerUp

Spec == Init /\ [][Next]_vars

\* A notified thread gets the mutex back, and AutoRel releases every connection.
Fairness == \A t \in Threads : WF_vars(Wake(t)) /\ WF_vars(Release(t))

FairSpec == Spec /\ Fairness

-----------------------------------------------------------------------------
(* Properties *)

\* Every connection ever opened is in exactly one place: once on the free list,
\* or with one thread.  Nothing leaks and no two threads share one.
Free == {free_list[i] : i \in DOMAIN free_list}
EachInOnePlace ==
    /\ \A i, j \in DOMAIN free_list : free_list[i] = free_list[j] => i = j
    /\ \A t, s \in Threads : held[t] = held[s] /\ held[t] # 0 => t = s
    /\ \A t \in Threads : held[t] \notin Free
    /\ \A k \in 1..cur_conn_cnt : k \in Free \/ \E t \in Threads : held[t] = k

\* A free connection never sits beside a sleeping waiter without a thread
\* already notified to take it: notify_one is never lost, also when a thread
\* that did not wait takes the connection first or a timed waiter gives up.
NoLostNotification ==
    waiting # {} => Len(free_list) <= Cardinality(notified)

\* A free connection does not stay free while a thread sleeps for one.
FreeIsTaken == waiting # {} /\ free_list # <<>> ~> waiting = {} \/ free_list = <<>>

\* The pool implements the abstract lease of connections to threads.
Owner == [k \in 1..Limit |->
             IF \E t \in Threads : held[t] = k
             THEN CHOOSE t \in Threads : held[t] = k ELSE NoThread]
L == INSTANCE Lease WITH size <- cur_conn_cnt, owner <- Owner
ImplementsLease == L!Spec
=============================================================================
