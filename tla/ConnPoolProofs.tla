--------------------------- MODULE ConnPoolProofs ---------------------------
(* Theorems about ConnPool, for every number of threads and connections.      *)
EXTENDS ConnPool, FiniteSetTheorems, TLAPS

-----------------------------------------------------------------------------
(* The free list as a set *)

Elements(q) == {q[i] : i \in DOMAIN q}
Distinct(q) == \A i, j \in DOMAIN q : q[i] = q[j] => i = j

\* The set of a list without its head, for a list without duplicates.
LEMMA FreeTail ==
    ASSUME NEW S, NEW q \in Seq(S), q # <<>>,
           Distinct(q)
    PROVE  /\ Elements(Tail(q)) = Elements(q) \ {Head(q)}
           /\ Distinct(Tail(q)) /\ Head(q) \in Elements(q)
<1> USE DEF Elements, Distinct
<1>1. Len(q) \in Nat \ {0} /\ DOMAIN q = 1..Len(q) OBVIOUS
<1>2. DOMAIN Tail(q) = 1..(Len(q) - 1) /\ \A i \in 1..(Len(q) - 1) : Tail(q)[i] = q[i + 1]
  BY <1>1
<1>3. Head(q) = q[1] OBVIOUS
<1>4. \A x \in {Tail(q)[i] : i \in DOMAIN Tail(q)} : x \in {q[i] : i \in DOMAIN q} \ {Head(q)}
  BY <1>1, <1>2, <1>3
<1>5. ASSUME NEW i \in DOMAIN q, q[i] # Head(q) PROVE q[i] \in {Tail(q)[k] : k \in DOMAIN Tail(q)}
  <2>1. i - 1 \in DOMAIN Tail(q) /\ Tail(q)[i - 1] = q[i] BY <1>1, <1>2, <1>3, <1>5
  <2> QED BY <2>1
<1>6. \A i, j \in DOMAIN Tail(q) : Tail(q)[i] = Tail(q)[j] => i = j BY <1>1, <1>2
<1> QED BY <1>1, <1>3, <1>4, <1>5, <1>6

\* The set of a list with a new element at its end.
LEMMA FreeAppend ==
    ASSUME NEW S, NEW q \in Seq(S), NEW k \in S,
           Distinct(q), \A i \in DOMAIN q : q[i] # k
    PROVE  Elements(Append(q, k)) = Elements(q) \cup {k} /\ Distinct(Append(q, k))
<1> USE DEF Elements, Distinct
<1> DEFINE s == Append(q, k)
<1>1. /\ Len(q) \in Nat /\ DOMAIN q = 1..Len(q) /\ DOMAIN s = 1..(Len(q) + 1)
      /\ s[Len(q) + 1] = k /\ \A i \in 1..Len(q) : s[i] = q[i]
  OBVIOUS
<1> HIDE DEF s
<1>2. \A i \in DOMAIN s : s[i] \in {q[j] : j \in DOMAIN q} \cup {k} BY <1>1
<1>3. \A i \in DOMAIN q : q[i] \in {s[j] : j \in DOMAIN s} BY <1>1
<1>4. k \in {s[j] : j \in DOMAIN s} BY <1>1
<1>5. {s[i] : i \in DOMAIN s} = {q[i] : i \in DOMAIN q} \cup {k} BY <1>2, <1>3, <1>4
<1>6. \A i, j \in DOMAIN s : s[i] = s[j] => i = j BY <1>1
<1> QED BY <1>5, <1>6 DEF s

-----------------------------------------------------------------------------
(* The inductive invariant *)

\* Connections in use or free have been opened.
Opened == Free \subseteq 1..cur_conn_cnt /\ \A t \in Threads : held[t] <= cur_conn_cnt

\* A thread is in one place: holding, waiting, notified or outside.
OnePlace ==
    /\ waiting \cap notified = {}
    /\ \A t \in Threads : held[t] # 0 => t \notin waiting \cup notified

\* Threads were sent to wait at the limit, and are still there when notified.
WaitsAtLimit == waiting \cup notified # {} => cur_conn_cnt >= MaxConn

PoolInv == /\ TypeOK /\ Opened /\ OnePlace
           /\ EachInOnePlace /\ WaitsAtLimit /\ NoLostNotification

LEMMA LimitType == Limit \in Nat /\ MinConn <= Limit /\ MaxConn <= Limit
BY PoolAssumption DEF Limit

LEMMA InitPoolInv == Init => PoolInv
<1> SUFFICES ASSUME Init PROVE PoolInv OBVIOUS
<1> USE PoolAssumption, LimitType
<1>1. TypeOK BY DEF Init, TypeOK
<1>2. Free = 1..MinConn BY DEF Init, Free
<1>3. Opened /\ EachInOnePlace BY <1>2 DEF Init, Opened, EachInOnePlace
<1>4. OnePlace /\ WaitsAtLimit /\ NoLostNotification
  BY DEF Init, OnePlace, WaitsAtLimit, NoLostNotification
<1> QED BY <1>1, <1>3, <1>4 DEF PoolInv

\* Taking the front of the list moves one connection from the list to a thread.
LEMMA TakeFrontPlaces ==
    ASSUME PoolInv, NEW t \in Threads, held[t] = 0, free_list # <<>>, TakeFront(t)
    PROVE  /\ free_list' \in Seq(1..Limit) /\ held' \in [Threads -> 0..Limit]
           /\ Len(free_list') = Len(free_list) - 1 /\ Len(free_list) \in Nat
           /\ held'[t] # 0 /\ \A s \in Threads \ {t} : held'[s] = held[s]
           /\ cur_conn_cnt' = cur_conn_cnt
           /\ Opened' /\ EachInOnePlace'
<1> USE LimitType DEF PoolInv
<1>1. free_list \in Seq(1..Limit) /\ held \in [Threads -> 0..Limit] /\ cur_conn_cnt \in 0..Limit
  BY DEF TypeOK
<1>2. /\ Free' = Free \ {Head(free_list)} /\ Head(free_list) \in Free
      /\ \A i, j \in DOMAIN free_list' : free_list'[i] = free_list'[j] => i = j
  <2>1. free_list # <<>> /\ Distinct(free_list) BY DEF EachInOnePlace, Distinct
  <2>2. free_list' = Tail(free_list) BY DEF TakeFront
  <2>3. /\ Elements(Tail(free_list)) = Elements(free_list) \ {Head(free_list)}
        /\ Distinct(Tail(free_list)) /\ Head(free_list) \in Elements(free_list)
    BY <1>1, <2>1, FreeTail
  <2> QED BY <2>2, <2>3 DEF Free, Elements, Distinct
<1>3. Head(free_list) \in 1..Limit /\ free_list' \in Seq(1..Limit)
      /\ Len(free_list') = Len(free_list) - 1 /\ Len(free_list) \in Nat
  BY <1>1 DEF TakeFront
<1>4. held'[t] = Head(free_list) /\ \A s \in Threads \ {t} : held'[s] = held[s]
  BY <1>1 DEF TakeFront
<1>5. held' \in [Threads -> 0..Limit] BY <1>1, <1>3 DEF TakeFront
<1>6. cur_conn_cnt' = cur_conn_cnt BY DEF TakeFront
<1>7. Opened'
  <2>1. Head(free_list) \in 1..cur_conn_cnt BY <1>2 DEF Opened
  <2>2. Free' \subseteq 1..cur_conn_cnt BY <1>2 DEF Opened
  <2>3. \A s \in Threads : held'[s] <= cur_conn_cnt BY <1>1, <1>4, <2>1 DEF Opened
  <2> QED BY <1>6, <2>2, <2>3 DEF Opened
<1>8. EachInOnePlace'
  <2>1. \A s \in Threads : held[s] # Head(free_list) /\ held[s] \notin Free
    BY <1>2 DEF EachInOnePlace
  <2>2. \A s, x \in Threads : held'[s] = held'[x] /\ held'[s] # 0 => s = x
    BY <1>4, <2>1 DEF EachInOnePlace
  <2>3. \A s \in Threads : held'[s] \notin Free' BY <1>2, <1>4, <2>1
  <2>4. \A k \in 1..cur_conn_cnt' : k \in Free' \/ \E s \in Threads : held'[s] = k
    <3> SUFFICES ASSUME NEW k \in 1..cur_conn_cnt, k \notin Free'
                 PROVE  \E s \in Threads : held'[s] = k
      BY <1>6
    <3>1. CASE k = Head(free_list) BY <3>1, <1>4
    <3>2. CASE k # Head(free_list)
      <4>1. PICK s \in Threads : held[s] = k BY <3>2, <1>2 DEF EachInOnePlace
      <4>2. k # 0 BY <1>1
      <4> QED BY <4>1, <4>2, <1>4
    <3> QED BY <3>1, <3>2
  <2> QED BY <1>2, <2>2, <2>3, <2>4 DEF EachInOnePlace
<1> QED BY <1>3, <1>4, <1>5, <1>6, <1>7, <1>8

\* Every step keeps the invariant.
LEMMA NextPoolInv == ASSUME PoolInv, [Next]_vars PROVE PoolInv'
<1> USE PoolAssumption, LimitType DEF PoolInv
<1>a. /\ cur_conn_cnt \in 0..Limit /\ free_list \in Seq(1..Limit) /\ held \in [Threads -> 0..Limit]
      /\ waiting \in SUBSET Threads /\ notified \in SUBSET Threads
      /\ Len(free_list) \in Nat
  BY DEF TypeOK
<1>b. IsFiniteSet(notified) /\ Cardinality(notified) \in Nat
  BY <1>a, FS_Subset, FS_CardinalityType
<1>c. \A t \in notified : /\ Cardinality(notified \ {t}) = Cardinality(notified) - 1
                          /\ Cardinality(notified) > 0
  BY <1>b, FS_RemoveElement, FS_EmptySet
<1>d. free_list = <<>> <=> Len(free_list) = 0 BY <1>a
<1>1. ASSUME NEW t \in Threads, GetFree(t) PROVE PoolInv'
  <2>1. held[t] = 0 /\ free_list # <<>> /\ TakeFront(t) /\ t \notin waiting \cup notified
    BY <1>1 DEF GetFree, Outside
  <2>2. TypeOK' BY <1>1, <2>1, TakeFrontPlaces DEF GetFree, TypeOK
  <2>3. Opened' /\ EachInOnePlace' BY <2>1, TakeFrontPlaces
  <2>4. OnePlace' BY <1>1, <2>1, TakeFrontPlaces DEF GetFree, OnePlace
  <2>5. WaitsAtLimit' BY <1>1, <2>1, TakeFrontPlaces DEF GetFree, WaitsAtLimit
  <2>6. NoLostNotification' BY <1>1, <1>b, <2>1, TakeFrontPlaces DEF GetFree, NoLostNotification
  <2> QED BY <2>2, <2>3, <2>4, <2>5, <2>6
<1>2. ASSUME NEW t \in Threads, GetNew(t) PROVE PoolInv'
  <2>1. TypeOK' BY <1>2, <1>a DEF GetNew, TypeOK
  <2>2. Free' = Free /\ Free = {} BY <1>2 DEF GetNew, Free
  <2>3. Opened' /\ EachInOnePlace'
    <3>1. /\ cur_conn_cnt' = cur_conn_cnt + 1 /\ free_list' = free_list
          /\ held'[t] = cur_conn_cnt + 1 /\ \A s \in Threads \ {t} : held'[s] = held[s]
      BY <1>2, <1>a DEF GetNew
    <3>2. held[t] = 0 BY <1>2 DEF GetNew, Outside
    <3>3. Opened' BY <1>a, <2>2, <3>1 DEF Opened
    <3>4. \A k \in 1..cur_conn_cnt : \E s \in Threads \ {t} : held'[s] = k
      BY <1>a, <2>2, <3>1, <3>2 DEF EachInOnePlace
    <3>5. \A k \in 1..(cur_conn_cnt + 1) : \E s \in Threads : held'[s] = k
      BY <1>a, <3>1, <3>4
    <3>6. \A s \in Threads : held[s] < cur_conn_cnt + 1 BY <1>a DEF Opened
    <3>7. \A s, x \in Threads : held'[s] = held'[x] /\ held'[s] # 0 => s = x
      BY <1>a, <3>1, <3>6 DEF EachInOnePlace
    <3>8. EachInOnePlace' BY <2>2, <3>1, <3>5, <3>7 DEF EachInOnePlace
    <3> QED BY <3>3, <3>8
  <2>4. OnePlace' /\ WaitsAtLimit' BY <1>2, <1>a DEF GetNew, Outside, OnePlace, WaitsAtLimit
  <2>5. NoLostNotification' BY <1>2 DEF GetNew, NoLostNotification
  <2> QED BY <2>1, <2>3, <2>4, <2>5
<1>3. ASSUME NEW t \in Threads, GetWait(t) PROVE PoolInv'
  <2>1. TypeOK' BY <1>3 DEF GetWait, TypeOK
  <2>2. Opened' /\ EachInOnePlace' BY <1>3 DEF GetWait, Opened, EachInOnePlace, Free
  <2>3. OnePlace' /\ WaitsAtLimit' BY <1>3 DEF GetWait, Outside, OnePlace, WaitsAtLimit
  <2>4. NoLostNotification' BY <1>3, <1>b, <1>d DEF GetWait, NoLostNotification
  <2> QED BY <2>1, <2>2, <2>3, <2>4
<1>4. ASSUME NEW t \in Threads, Wake(t) \/ WaitTimeout(t), free_list # <<>> PROVE PoolInv'
  <2>1. /\ held[t] = 0 /\ TakeFront(t) /\ t \in waiting \cup notified
        /\ waiting' = waiting \ {t} /\ notified' = notified \ {t}
        /\ UNCHANGED <<alive, server_up, result>>
    BY <1>4, <1>a DEF Wake, WaitTimeout, OnePlace
  <2>2. TypeOK' BY <2>1, <1>4, TakeFrontPlaces DEF TypeOK
  <2>3. Opened' /\ EachInOnePlace' BY <1>4, <2>1, TakeFrontPlaces
  <2>4. OnePlace' BY <1>4, <2>1, TakeFrontPlaces DEF OnePlace
  <2>5. WaitsAtLimit' BY <1>4, <2>1, TakeFrontPlaces DEF WaitsAtLimit
  <2>6. NoLostNotification'
    <3>1. Len(free_list') = Len(free_list) - 1 BY <1>4, <2>1, TakeFrontPlaces
    <3>2. CASE t \in notified BY <1>a, <1>b, <1>c, <2>1, <3>1, <3>2 DEF NoLostNotification
    <3>3. CASE t \notin notified
      <4>1. notified' = notified BY <2>1, <3>3
      <4>2. waiting # {} BY <2>1, <3>3
      <4>3. Len(free_list) <= Cardinality(notified) BY <4>2 DEF NoLostNotification
      <4> QED BY <1>a, <1>b, <3>1, <4>1, <4>3 DEF NoLostNotification
    <3> QED BY <3>2, <3>3
  <2> QED BY <2>2, <2>3, <2>4, <2>5, <2>6
<1>5. ASSUME NEW t \in Threads, Wake(t) \/ WaitTimeout(t), free_list = <<>> PROVE PoolInv'
  <2>1. /\ UNCHANGED <<cur_conn_cnt, free_list, held, alive, server_up, result>>
        /\ notified' = notified \ {t} /\ waiting' \in {waiting \cup {t}, waiting \ {t}}
        /\ t \in waiting \cup notified
    BY <1>5 DEF Wake, WaitTimeout
  <2>2. TypeOK' BY <2>1 DEF TypeOK
  <2>3. Opened' /\ EachInOnePlace' BY <2>1 DEF Opened, EachInOnePlace, Free
  <2>4. OnePlace' BY <2>1 DEF OnePlace
  <2>5. WaitsAtLimit' BY <2>1 DEF WaitsAtLimit
  <2>6. NoLostNotification'
    <3>1. IsFiniteSet(notified') BY <2>1, <1>b, FS_Subset
    <3>2. Cardinality(notified') \in Nat BY <3>1, FS_CardinalityType
    <3> QED BY <1>5, <1>d, <2>1, <3>2 DEF NoLostNotification
  <2> QED BY <2>2, <2>3, <2>4, <2>5, <2>6
<1>6. ASSUME NEW t \in Threads, Release(t) PROVE PoolInv'
  <2>1. held[t] \in 1..Limit /\ held[t] \in 1..cur_conn_cnt BY <1>6, <1>a DEF Release, Opened
  <2>2. \A i \in DOMAIN free_list : free_list[i] # held[t]
    BY <1>6 DEF EachInOnePlace, Free
  <2>3. free_list' = Append(free_list, held[t]) BY <1>6, <2>2 DEF Release
  <2>4. /\ Free' = Free \cup {held[t]}
        /\ \A i, j \in DOMAIN free_list' : free_list'[i] = free_list'[j] => i = j
    <3>1. Distinct(free_list) BY DEF EachInOnePlace, Distinct
    <3>2. /\ Elements(Append(free_list, held[t])) = Elements(free_list) \cup {held[t]}
          /\ Distinct(Append(free_list, held[t]))
      BY <1>a, <2>1, <2>2, <3>1, FreeAppend
    <3> QED BY <2>3, <3>2 DEF Free, Elements, Distinct
  <2>5. /\ held'[t] = 0 /\ \A s \in Threads \ {t} : held'[s] = held[s]
        /\ cur_conn_cnt' = cur_conn_cnt
    BY <1>6, <1>a DEF Release
  <2>6. Len(free_list') = Len(free_list) + 1 /\ free_list' \in Seq(1..Limit)
    BY <1>a, <2>1, <2>3
  <2>7. \/ waiting = {} /\ UNCHANGED <<waiting, notified>>
        \/ \E w \in waiting : waiting' = waiting \ {w} /\ notified' = notified \cup {w}
    BY <1>6, <2>2 DEF Release
  <2>8. TypeOK'
    <3>1. held' \in [Threads -> 0..Limit] /\ result' \in [Threads -> {"none", "ok", "failed"}]
      BY <1>6 DEF Release, TypeOK
    <3>2. waiting' \in SUBSET Threads /\ notified' \in SUBSET Threads BY <1>a, <2>7
    <3> QED BY <1>6, <2>5, <2>6, <3>1, <3>2 DEF Release, TypeOK
  <2>9. Opened'
    <3>1. Free' \subseteq 1..cur_conn_cnt BY <2>1, <2>4 DEF Opened
    <3>2. \A s \in Threads : held'[s] <= cur_conn_cnt BY <1>a, <2>5 DEF Opened
    <3> QED BY <2>5, <3>1, <3>2 DEF Opened
  <2>10. EachInOnePlace' BY <1>a, <2>1, <2>4, <2>5 DEF EachInOnePlace, Opened
  <2>11. OnePlace' BY <1>a, <2>5, <2>7 DEF OnePlace
  <2>12. WaitsAtLimit' BY <2>5, <2>7 DEF WaitsAtLimit
  <2>13. NoLostNotification'
    <3>1. CASE waiting = {} BY <2>7, <3>1 DEF NoLostNotification
    <3>2. CASE waiting # {}
      <4>1. PICK w \in waiting : waiting' = waiting \ {w} /\ notified' = notified \cup {w}
        BY <2>7, <3>2
      <4>2. w \notin notified BY <4>1 DEF OnePlace
      <4>3. Cardinality(notified') = Cardinality(notified) + 1
        BY <1>b, <4>1, <4>2, FS_AddElement
      <4> QED BY <1>a, <1>b, <2>6, <3>2, <4>3 DEF NoLostNotification
    <3> QED BY <3>1, <3>2
  <2> QED BY <2>8, <2>9, <2>10, <2>11, <2>12, <2>13
\* Using a connection and what the server does leave the pool alone.
<1>7. ASSUME UNCHANGED pool_vars, TypeOK' PROVE PoolInv'
  BY <1>7 DEF pool_vars, Opened, OnePlace, EachInOnePlace, Free, WaitsAtLimit, NoLostNotification
<1>8. ASSUME NEW t \in Threads, Use(t) PROVE PoolInv'
  <2>1. UNCHANGED pool_vars BY <1>8 DEF Use, Query, Statement
  <2>2. CASE Query(t)
    <3>1. held[t] \in 1..Limit BY <1>a, <2>2 DEF Query
    <3>2. alive' \in SUBSET (1..Limit) BY <2>2, <3>1 DEF Query, TypeOK
    <3>3. TypeOK' BY <2>2, <3>2 DEF Query, TypeOK, pool_vars
    <3> QED BY <1>7, <2>1, <3>3
  <2>3. CASE Statement(t)
    <3>1. TypeOK' BY <2>3 DEF Statement, TypeOK, pool_vars
    <3> QED BY <1>7, <2>1, <3>1
  <2> QED BY <1>8, <2>2, <2>3 DEF Use
<1>9. CASE (\E k \in 1..Limit : SessionLost(k)) \/ ServerDown \/ ServerUp
  <2>1. UNCHANGED pool_vars BY <1>9 DEF SessionLost, ServerDown, ServerUp
  <2>2. TypeOK' BY <1>9 DEF SessionLost, ServerDown, ServerUp, TypeOK, pool_vars
  <2> QED BY <1>7, <2>1, <2>2
<1>10. CASE UNCHANGED vars
  <2>1. TypeOK' BY <1>10 DEF vars, pool_vars, TypeOK
  <2> QED BY <1>7, <1>10, <2>1 DEF vars
<1> QED BY <1>1, <1>2, <1>3, <1>4, <1>5, <1>6, <1>8, <1>9, <1>10 DEF Next, Get

LEMMA PoolInvHolds == Spec => []PoolInv
BY InitPoolInv, NextPoolInv, PTL DEF Spec

\* Every state of the pool has the declared types; in particular it never opens
\* more than Limit connections (db_pool.cc GetDBConn).
THEOREM PoolTypes == Spec => []TypeOK
BY PoolInvHolds, PTL DEF PoolInv

\* No connection is shared by two threads, listed twice or lost, for any number
\* of threads and connections (db_pool.cc GetDBConn, RelDBConn).
THEOREM NoSharing == Spec => []EachInOnePlace
BY PoolInvHolds, PTL DEF PoolInv

\* notify_one is never lost: while a thread sleeps, every free connection has a
\* thread already notified for it (db_pool.cc RelDBConn, GetDBConn).
THEOREM NotifyNotLost == Spec => []NoLostNotification
BY PoolInvHolds, PTL DEF PoolInv

-----------------------------------------------------------------------------
(* The pool implements Lease *)

OwnerMap(h) == [k \in 1..Limit |->
                   IF \E t \in Threads : h[t] = k
                   THEN CHOOSE t \in Threads : h[t] = k ELSE NoThread]

\* When no two threads hold the same connection, the owner of a connection is
\* the thread that holds it.
LEMMA OwnerOf ==
    ASSUME NEW h \in [Threads -> 0..Limit],
           \A t, s \in Threads : h[t] = h[s] /\ h[t] # 0 => t = s,
           NEW k \in 1..Limit
    PROVE  /\ \A t \in Threads : OwnerMap(h)[k] = t <=> h[t] = k
           /\ OwnerMap(h)[k] = NoThread <=> \A t \in Threads : h[t] # k
<1>0. Limit \in Nat /\ k # 0 /\ NoThread \notin Threads BY LimitType, PoolAssumption
<1>1. CASE \E t \in Threads : h[t] = k
  <2>1. PICK s \in Threads : h[s] = k BY <1>1
  <2>2. OwnerMap(h)[k] = CHOOSE t \in Threads : h[t] = k BY <1>1 DEF OwnerMap
  <2>3. OwnerMap(h)[k] \in Threads /\ h[OwnerMap(h)[k]] = k BY <2>1, <2>2
  <2> QED BY <1>0, <2>3
<1>2. CASE ~ \E t \in Threads : h[t] = k
  <2>1. OwnerMap(h)[k] = NoThread BY <1>2 DEF OwnerMap
  <2> QED BY <1>0, <1>2, <2>1
<1> QED BY <1>1, <1>2

\* A change of one thread's holding is a change of one connection's owner.
LEMMA OwnerMoves ==
    ASSUME NEW h \in [Threads -> 0..Limit], NEW g \in [Threads -> 0..Limit],
           \A t, s \in Threads : h[t] = h[s] /\ h[t] # 0 => t = s,
           \A t, s \in Threads : g[t] = g[s] /\ g[t] # 0 => t = s,
           NEW t \in Threads, NEW k \in 1..Limit,
           \A s \in Threads \ {t} : g[s] = h[s],
           \/ h[t] = 0 /\ g[t] = k
           \/ h[t] = k /\ g[t] = 0
    PROVE  OwnerMap(g) = [OwnerMap(h) EXCEPT ![k] = IF g[t] = k THEN t ELSE NoThread]
<1> DEFINE O == OwnerMap(h)
           P == OwnerMap(g)
<1>1. DOMAIN O = 1..Limit /\ DOMAIN P = 1..Limit BY DEF OwnerMap
<1>2. P = [i \in 1..Limit |-> P[i]] BY DEF OwnerMap
<1>3. ASSUME NEW i \in 1..Limit PROVE P[i] = [O EXCEPT ![k] = IF g[t] = k THEN t ELSE NoThread][i]
  <2>0. Limit \in Nat /\ NoThread \notin Threads BY LimitType, PoolAssumption
  <2>1. /\ \A s \in Threads : O[i] = s <=> h[s] = i
        /\ O[i] = NoThread <=> \A s \in Threads : h[s] # i
    BY OwnerOf
  <2>2. /\ \A s \in Threads : P[i] = s <=> g[s] = i
        /\ P[i] = NoThread <=> \A s \in Threads : g[s] # i
    BY OwnerOf
  <2>3. O[i] \in Threads \cup {NoThread} BY <2>1
  <2> HIDE DEF O, P
  <2>4. CASE i # k
    <3>1. \A s \in Threads : g[s] = i <=> h[s] = i BY <2>0, <2>4
    <3>2. P[i] = O[i] BY <2>1, <2>2, <3>1
    <3> QED BY <1>1, <2>4, <3>2
  <2>5. CASE i = k
    <3>1. CASE g[t] = k BY <1>1, <2>2, <2>5, <3>1
    <3>2. CASE g[t] # k
      <4>1. h[t] = k /\ g[t] = 0 BY <3>2
      <4>2. \A s \in Threads : g[s] # k BY <2>0, <4>1
      <4> QED BY <1>1, <2>2, <2>5, <3>2, <4>2
    <3> QED BY <3>1, <3>2
  <2> QED BY <2>4, <2>5
<1> HIDE DEF O, P
<1>4. [O EXCEPT ![k] = IF g[t] = k THEN t ELSE NoThread]
        = [i \in 1..Limit |-> [O EXCEPT ![k] = IF g[t] = k THEN t ELSE NoThread][i]]
  BY <1>1
<1>5. P = [O EXCEPT ![k] = IF g[t] = k THEN t ELSE NoThread] BY <1>2, <1>3, <1>4
<1> QED BY <1>5 DEF O, P

LEMMA OwnerIsMap == Owner = OwnerMap(held) /\ Owner' = OwnerMap(held')
BY DEF Owner, OwnerMap

\* Every step of the pool is a step of Lease or leaves it unchanged.
LEMMA LeaseStep == ASSUME PoolInv, PoolInv', [Next]_vars PROVE [L!Next]_<<cur_conn_cnt, Owner>>
<1> USE LimitType
<1>a. /\ held \in [Threads -> 0..Limit] /\ held' \in [Threads -> 0..Limit]
      /\ cur_conn_cnt \in 0..Limit
  BY DEF PoolInv, TypeOK
<1>b. /\ \A t, s \in Threads : held[t] = held[s] /\ held[t] # 0 => t = s
      /\ \A t, s \in Threads : held'[t] = held'[s] /\ held'[t] # 0 => t = s
  BY DEF PoolInv, EachInOnePlace
<1>c. /\ \A k \in 1..Limit : \A t \in Threads : Owner[k] = t <=> held[t] = k
      /\ \A k \in 1..Limit : Owner[k] = NoThread <=> \A t \in Threads : held[t] # k
  BY <1>a, <1>b, OwnerOf, OwnerIsMap
<1>d. ASSUME UNCHANGED <<cur_conn_cnt, held>> PROVE UNCHANGED <<cur_conn_cnt, Owner>>
  BY <1>d, OwnerIsMap
<1>e. ASSUME NEW t \in Threads, held[t] = 0 PROVE L!HasNone(t)
  BY <1>a, <1>c, <1>e DEF L!HasNone
<1>1. ASSUME NEW t \in Threads, held[t] = 0, free_list # <<>>, TakeFront(t) PROVE L!Next
  <2> DEFINE k == Head(free_list)
  <2>1. free_list \in Seq(1..Limit) BY DEF PoolInv, TypeOK
  <2>2. k \in 1..Limit /\ k \in Free BY <1>1, <2>1 DEF Free
  <2>3. k <= cur_conn_cnt /\ \A s \in Threads : held[s] # k
    BY <2>2, <1>a DEF PoolInv, Opened, EachInOnePlace
  <2>4. held'[t] = k /\ (\A s \in Threads \ {t} : held'[s] = held[s]) /\ cur_conn_cnt' = cur_conn_cnt
    BY <1>1, <1>a DEF TakeFront
  <2> HIDE DEF k
  <2>5. Owner' = [Owner EXCEPT ![k] = IF held'[t] = k THEN t ELSE NoThread]
    BY <1>1, <1>a, <1>b, <2>2, <2>4, OwnerMoves, OwnerIsMap
  <2>6. L!Acquire(t, k) BY <1>1, <1>c, <1>e, <2>2, <2>3, <2>4, <2>5 DEF L!Acquire
  <2> QED BY <2>2, <2>6 DEF L!Next
<1>2. ASSUME NEW t \in Threads, GetNew(t) PROVE L!Next
  <2>1. cur_conn_cnt + 1 \in 1..Limit /\ cur_conn_cnt < Limit
    BY <1>2, <1>a, PoolAssumption DEF GetNew
  <2>2. /\ held[t] = 0 /\ held'[t] = cur_conn_cnt + 1 /\ cur_conn_cnt' = cur_conn_cnt + 1
        /\ \A s \in Threads \ {t} : held'[s] = held[s]
    BY <1>2, <1>a DEF GetNew, Outside
  <2>3. Owner' = [Owner EXCEPT ![cur_conn_cnt + 1] = IF held'[t] = cur_conn_cnt + 1 THEN t ELSE NoThread]
    BY <1>a, <1>b, <2>1, <2>2, OwnerMoves, OwnerIsMap
  <2>4. L!Open(t) BY <1>e, <2>1, <2>2, <2>3 DEF L!Open
  <2> QED BY <2>4 DEF L!Next
<1>3. ASSUME NEW t \in Threads, Release(t) PROVE L!Next
  <2>1. held[t] \in 1..Limit BY <1>3, <1>a DEF Release
  <2>2. /\ held'[t] = 0 /\ cur_conn_cnt' = cur_conn_cnt
        /\ \A s \in Threads \ {t} : held'[s] = held[s]
    BY <1>3, <1>a DEF Release
  <2>3. Owner' = [Owner EXCEPT ![held[t]] = IF held'[t] = held[t] THEN t ELSE NoThread]
    BY <1>a, <1>b, <2>1, <2>2, OwnerMoves, OwnerIsMap
  <2>4. held'[t] # held[t] BY <2>1, <2>2
  <2>5. Owner' = [Owner EXCEPT ![held[t]] = NoThread] BY <2>3, <2>4
  <2>6. Owner[held[t]] = t BY <1>c, <2>1
  <2>7. L!Return(t, held[t]) BY <2>2, <2>5, <2>6 DEF L!Return
  <2> QED BY <2>1, <2>7 DEF L!Next
<1>4. ASSUME NEW t \in Threads, GetFree(t) PROVE L!Next BY <1>1, <1>4 DEF GetFree, Outside
<1>5. ASSUME NEW t \in Threads, Wake(t) \/ WaitTimeout(t), free_list # <<>> PROVE L!Next
  BY <1>1, <1>5, <1>a DEF Wake, WaitTimeout, PoolInv, OnePlace
<1>6. ASSUME NEW t \in Threads, Wake(t) \/ WaitTimeout(t), free_list = <<>>
      PROVE  UNCHANGED <<cur_conn_cnt, held>>
  BY <1>6 DEF Wake, WaitTimeout
<1> QED
  BY <1>2, <1>3, <1>4, <1>5, <1>6, <1>d
  DEF Next, Get, GetWait, Use, Query, Statement, SessionLost, ServerDown, ServerUp, pool_vars, vars

\* The pool implements the abstract lease: whatever threads, waits, time-outs and
\* notifications do, callers see connections handed to one thread at a time and
\* never more than Limit of them (db_pool.cc GetDBConn, RelDBConn).
THEOREM PoolImplementsLease == Spec => ImplementsLease
<1>1. Init => L!Init
  <2> SUFFICES ASSUME Init PROVE L!Init OBVIOUS
  <2>1. cur_conn_cnt \in 0..Limit BY LimitType, PoolAssumption DEF Init
  <2>2. \A k \in 1..Limit : \A t \in Threads : held[t] # k BY LimitType DEF Init
  <2>3. Owner = [k \in 1..Limit |-> NoThread] BY <2>2 DEF Owner
  <2> QED BY <2>1, <2>3 DEF L!Init
<1>2. PoolInv /\ PoolInv' /\ [Next]_vars => [L!Next]_<<cur_conn_cnt, Owner>> BY LeaseStep
<1> QED BY <1>1, <1>2, PoolInvHolds, PTL DEF Spec, ImplementsLease, L!Spec
=============================================================================
