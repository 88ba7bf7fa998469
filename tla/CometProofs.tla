---------------------------- MODULE CometProofs ----------------------------
(* Theorems about Comet, for every number of connections, users, rooms, RPCs  *)
(* and workers.                                                               *)
EXTENDS Comet, TLAPS

-----------------------------------------------------------------------------
(* Frames and the queues that carry them *)

\* A frame made of a known kind and of rooms is an outgoing frame.
LEMMA FrameType ==
    ASSUME NEW k \in OutKinds, NEW rs \in SUBSET Rooms
    PROVE  Frame(k, rs) \in OutFrame
BY DEF Frame, OutFrame

\* Sending keeps a queue a sequence of frames.
LEMMA SentType ==
    ASSUME NEW q \in Seq(OutFrame), NEW c, NEW f \in OutFrame
    PROVE  Sent(q, c, f) \in Seq(OutFrame)
BY DEF Sent

\* Sending to one connection keeps every queue well typed.
LEMMA SentToOneType ==
    ASSUME NEW Q \in [Conns -> Seq(OutFrame)], NEW c \in Conns, NEW f \in OutFrame
    PROVE  [Q EXCEPT ![c] = Sent(@, c, f)] \in [Conns -> Seq(OutFrame)]
BY SentType

-----------------------------------------------------------------------------
(* The record of an RPC *)

\* A step of the RPC p changes the record of p and no other.
LEMMA GoStep ==
    ASSUME rpc \in [Rpcs -> Calls], NEW p \in Rpcs, NEW step \in RpcSteps,
           NEW us \in SUBSET Users, NEW c \in Conns \cup {NoConn},
           Go(p, step, us, c)
    PROVE  /\ rpc' \in [Rpcs -> Calls]
           /\ rpc'[p].pc = step /\ rpc'[p].room = rpc[p].room
           /\ rpc'[p].todo = us /\ rpc'[p].conn = c
           /\ \A q \in Rpcs \ {p} : rpc'[q] = rpc[q]
BY DEF Go, Call, Calls

LEMMA GotoStep ==
    ASSUME rpc \in [Rpcs -> Calls], NEW p \in Rpcs, NEW step \in RpcSteps,
           Goto(p, step)
    PROVE  /\ rpc' \in [Rpcs -> Calls]
           /\ rpc'[p].pc = step /\ rpc'[p].room = rpc[p].room
           /\ rpc'[p].todo = rpc[p].todo /\ rpc'[p].conn = rpc[p].conn
           /\ \A q \in Rpcs \ {p} : rpc'[q] = rpc[q]
<1>1. rpc[p].todo \in SUBSET Users /\ rpc[p].conn \in Conns \cup {NoConn} BY DEF Calls
<1>2. Go(p, step, rpc[p].todo, rpc[p].conn) BY DEF Goto
<1> QED BY <1>1, <1>2, GoStep

-----------------------------------------------------------------------------
(* Types *)

LEMMA InitTypeOK == Init => TypeOK
BY CometAssumption DEF Init, TypeOK, IoIdle, Handler, IoSteps, NoTask, NoCall, Call, RpcSteps, Calls, Task

\* The handler of the IO thread works on a connection, which is known to be one.
\* Past its verification that connection has a user.
IoOnConn ==
    /\ io.pc # "idle" => io.conn \in Conns
    /\ io.pc \in {"insert", "hello", "subscribe"} => user_id[io.conn] \in Users

\* A pool thread that runs a task works on a connection.
WorkerOnConn == \A w \in Workers : worker[w].kind # "none" => worker[w].conn \in Conns

\* A call in progress has a room.
RpcOnRoom == \A p \in Rpcs : rpc[p].pc # "free" => rpc[p].room \in Rooms

Types == TypeOK /\ IoOnConn /\ WorkerOnConn /\ RpcOnRoom

LEMMA InitTypes == Init => Types
<1>1. Init => TypeOK BY InitTypeOK
<1>2. Init => IoOnConn /\ WorkerOnConn /\ RpcOnRoom
  BY DEF Init, IoOnConn, WorkerOnConn, RpcOnRoom, IoIdle, Handler, NoTask, NoCall, Call
<1> QED BY <1>1, <1>2 DEF Types

\* Every step keeps the types.
LEMMA NextTypes == ASSUME Types, [Next]_vars PROVE Types'
<1> USE CometAssumption DEF Types, TypeOK, IoOnConn, WorkerOnConn, RpcOnRoom,
       conn_vars, sess_vars, map_vars, pubsub_vars, out_vars, pool_vars
<1>1. CASE InitializeRoomSubscriptions
  BY <1>1 DEF InitializeRoomSubscriptions
<1>2. CASE InitializeFails
  BY <1>2 DEF InitializeFails
<1>3. ASSUME NEW c \in Conns, OnConnectionUp(c) PROVE Types'
  BY <1>3 DEF OnConnectionUp
<1>4. ASSUME NEW c \in Conns, OnConnectionDown(c) PROVE Types'
  BY <1>4 DEF OnConnectionDown
<1>5. ASSUME NEW c \in Conns, OnReadHandshake(c) PROVE Types'
  BY <1>5 DEF OnReadHandshake, IoGo, IoIdle, Handler, IoSteps
<1>6. ASSUME NEW c \in Conns, NEW k \in ClientFrames, OnReadFrame(c, k) PROVE Types'
  <2>1. [conn |-> c, kind |-> k] \in Task BY DEF Task
  <2>2. tasks' \in Seq(Task) BY <1>6, <2>1 DEF OnReadFrame
  <2>3. frames_read' \in [Conns -> 0..MaxFrames] BY <1>6 DEF OnReadFrame
  <2>4. left' \in SUBSET Conns BY <1>6 DEF OnReadFrame
  <2> QED BY <1>6, <2>2, <2>3, <2>4 DEF OnReadFrame
<1>7. ASSUME NEW c \in Conns, SendInLoop(c) PROVE Types'
  BY <1>7 DEF SendInLoop
<1>8. ASSUME NEW u \in Users, VerifyUserAuth(u) PROVE Types'
  BY <1>8 DEF VerifyUserAuth, IoGo, Handler, IoAt, IoSteps
<1>9. CASE VerifyFails
  BY <1>9, FrameType, SentToOneType DEF VerifyFails, IoAt, IoIdle, Handler, IoSteps, OutKinds
<1>10. CASE InsertConn
  BY <1>10 DEF InsertConn, IoGo, Handler, IoAt, IoSteps
<1>11. ASSUME NEW rs \in SUBSET logic_rooms, HelloAnswered(rs) PROVE Types'
  BY <1>11 DEF HelloAnswered, IoGo, Handler, IoAt, IoSteps
<1>12. CASE HelloFails
  BY <1>12 DEF HelloFails, IoAt, IoIdle, Handler, IoSteps
<1>13. ASSUME NEW r \in Rooms, HelloSubscribe(r) PROVE Types'
  BY <1>13 DEF HelloSubscribe, IoGo, Handler, AddSubscriber, IoAt, IoSteps
<1>14. CASE HelloSend
  BY <1>14, FrameType, SentToOneType DEF HelloSend, IoAt, IoIdle, Handler, IoSteps, OutKinds
<1>15. ASSUME NEW w \in Workers, TakeTask(w) PROVE Types'
  <2>1. Head(tasks) \in Task /\ Tail(tasks) \in Seq(Task)
    BY <1>15 DEF TakeTask
  <2> QED BY <1>15, <2>1 DEF TakeTask, Task
<1>16. ASSUME NEW w \in Workers, HandleClientMessages(w) PROVE Types'
  BY <1>16 DEF HandleClientMessages, Finish, NoTask
<1>17. ASSUME NEW w \in Workers, HandleRequestRoomHistory(w) PROVE Types'
  <2>1. worker[w].conn \in Conns BY <1>17 DEF HandleRequestRoomHistory, Running
  <2>2. \A r \in Rooms : Frame("serverRoomHistory", {r}) \in OutFrame BY FrameType DEF OutKinds
  <2>3. pending' \in [Conns -> Seq(OutFrame)]
    <3>1. PICK r \in Rooms, ok \in BOOLEAN :
             pending' = IF ok THEN [pending EXCEPT ![worker[w].conn] =
                                       Sent(@, worker[w].conn, Frame("serverRoomHistory", {r}))]
                              ELSE pending
      BY <1>17 DEF HandleRequestRoomHistory
    <3>2. Frame("serverRoomHistory", {r}) \in OutFrame BY <2>2
    <3>3. Sent(pending[worker[w].conn], worker[w].conn, Frame("serverRoomHistory", {r})) \in Seq(OutFrame)
      BY <2>1, <3>2, SentType
    <3> QED BY <2>1, <3>1, <3>3
  <2> QED BY <1>17, <2>3 DEF HandleRequestRoomHistory, Finish, NoTask
<1>18. ASSUME NEW w \in Workers, NEW r \in Rooms, CreateRoomDone(w, r) PROVE Types'
  BY <1>18 DEF CreateRoomDone, Finish, NoTask
<1>19. ASSUME NEW w \in Workers, CreateRoomRefused(w) PROVE Types'
  <2>1. worker[w].conn \in Conns BY <1>19 DEF CreateRoomRefused, Running
  <2>2. pending' \in [Conns -> Seq(OutFrame)]
    <3>1. Frame("createFailed", {}) \in OutFrame BY FrameType DEF OutKinds
    <3>2. Sent(pending[worker[w].conn], worker[w].conn, Frame("createFailed", {})) \in Seq(OutFrame)
      BY <2>1, <3>1, SentType
    <3> QED BY <1>19, <2>1, <3>2 DEF CreateRoomRefused
  <2> QED BY <1>19, <2>2 DEF CreateRoomRefused, Finish, NoTask
<1>20. ASSUME NEW w \in Workers, DisconnectShutdown(w) PROVE Types'
  <2>1. worker[w].conn \in Conns BY <1>20 DEF DisconnectShutdown, Running
  <2>2. pending' \in [Conns -> Seq(OutFrame)]
    BY <1>20, <2>1, FrameType, SentToOneType DEF DisconnectShutdown, OutKinds
  <2> QED BY <1>20, <2>1, <2>2 DEF DisconnectShutdown
<1>21. ASSUME NEW w \in Workers, DisconnectErase(w) PROVE Types'
  BY <1>21 DEF DisconnectErase, Finish, NoTask
<1>22. ASSUME NEW p \in Rpcs, NEW r \in Rooms, BroadcastCall(p, r) PROVE Types'
  BY <1>22 DEF BroadcastCall, Call, Calls, RpcSteps
<1>23. ASSUME NEW p \in Rpcs, AddRoomTopic(p) PROVE Types'
  BY <1>23 DEF AddRoomTopic, RpcAt, RpcSteps, Goto, Go, Call, Calls
<1>24. ASSUME NEW p \in Rpcs, BroadcastLock(p) PROVE Types'
  BY <1>24 DEF BroadcastLock, RpcAt, OnlineUsers, RpcSteps, Goto, Go, Call, Calls
<1>25. ASSUME NEW p \in Rpcs, NEW u \in Users, BroadcastSubscribe(p, u) PROVE Types'
  BY <1>25 DEF BroadcastSubscribe, AddSubscriber, RpcAt, RpcSteps, Goto, Go, Call, Calls
<1>26. ASSUME NEW p \in Rpcs, BroadcastUnlock(p) PROVE Types'
  BY <1>26 DEF BroadcastUnlock, RpcAt, RpcSteps, Goto, Go, Call, Calls
<1>27. ASSUME NEW p \in Rpcs, AddRoom(p) PROVE Types'
  BY <1>27 DEF AddRoom, RpcAt, RpcSteps, Goto, Go, Call, Calls
<1>28. ASSUME NEW p \in Rpcs, BroadcastSend(p) PROVE Types'
  BY <1>28, FrameType, SentType DEF BroadcastSend, RpcAt, RpcSteps, OutKinds, Goto, Go, Call, Calls
<1>29. ASSUME NEW p \in Rpcs, NEW r \in Rooms, BroadcastRoomCall(p, r) PROVE Types'
  BY <1>29 DEF BroadcastRoomCall, Call, Calls, RpcSteps
<1>30. ASSUME NEW p \in Rpcs, PubSubMessage(p) PROVE Types'
  <2>1. rpc' \in [Rpcs -> Calls] /\ RpcOnRoom'
    <3>1. CASE rpc[p].room \in topics
      <4>1. subscribers[rpc[p].room] \in SUBSET Users BY <3>1
      <4>2. Go(p, "copied", subscribers[rpc[p].room], NoConn) BY <1>30, <3>1 DEF PubSubMessage
      <4> QED BY <1>30, <4>1, <4>2 DEF PubSubMessage, RpcAt, RpcSteps, Go, Call, Calls
    <3>2. CASE rpc[p].room \notin topics
      <4>1. Goto(p, "pushed") BY <1>30, <3>2 DEF PubSubMessage
      <4> QED BY <1>30, <4>1 DEF PubSubMessage, RpcAt, RpcSteps, Goto, Go, Call, Calls
    <3> QED BY <3>1, <3>2
  <2> QED BY <1>30, <2>1 DEF PubSubMessage
<1>31. ASSUME NEW p \in Rpcs, NEW u \in Users, PushLookup(p, u) PROVE Types'
  BY <1>31 DEF PushLookup, RpcAt, RpcSteps, Goto, Go, Call, Calls
<1>32. ASSUME NEW p \in Rpcs, PushSend(p) PROVE Types'
  <2>1. rpc[p].room \in Rooms /\ rpc[p].todo \in SUBSET Users /\ rpc[p].conn \in Conns \cup {NoConn}
    BY <1>32 DEF PushSend, RpcAt, Calls
  <2>2. Frame("serverMessages", {rpc[p].room}) \in OutFrame BY <2>1, FrameType DEF OutKinds
  <2>3. pending' \in [Conns -> Seq(OutFrame)]
    <3>1. CASE rpc[p].conn # NoConn BY <1>32, <2>1, <2>2, <3>1, SentToOneType DEF PushSend
    <3>2. CASE rpc[p].conn = NoConn BY <1>32, <3>2 DEF PushSend
    <3> QED BY <3>1, <3>2
  <2>4. rpc' \in [Rpcs -> Calls] /\ RpcOnRoom'
    BY <1>32, <2>1 DEF PushSend, RpcSteps, Go, Call, Calls
  <2> QED BY <1>32, <2>3, <2>4 DEF PushSend
<1>33. ASSUME NEW p \in Rpcs, PushEnd(p) PROVE Types'
  BY <1>33 DEF PushEnd, RpcAt, RpcSteps, Goto, Go, Call, Calls
<1>34. ASSUME NEW p \in Rpcs, PubSubUnlock(p) PROVE Types'
  BY <1>34 DEF PubSubUnlock, RpcAt, RpcSteps, Goto, Go, Call, Calls
<1>35. CASE UNCHANGED vars
  BY <1>35 DEF vars
<1> QED
  BY <1>1, <1>2, <1>3, <1>4, <1>5, <1>6, <1>7, <1>8, <1>9, <1>10, <1>11, <1>12, <1>13, <1>14, <1>15, <1>16, <1>17, <1>18, <1>19, <1>20, <1>21, <1>22, <1>23, <1>24, <1>25, <1>26, <1>27, <1>28, <1>29, <1>30, <1>31, <1>32, <1>33, <1>34, <1>35
  DEF Next, IoHandler, IoEvent, WorkerStep, RpcCall, RpcStep

\* Every reachable state has the declared types.
THEOREM TypeCorrect == Spec => []TypeOK
<1>1. Init => Types BY InitTypes
<1>2. Types /\ [Next]_vars => Types' BY NextTypes
<1>3. Types => TypeOK BY DEF Types
<1> QED BY <1>1, <1>2, <1>3, PTL DEF Spec

-----------------------------------------------------------------------------
(* The inductive invariant *)

\* The IO thread is in the handshake of one connection, which has not been
\* greeted and, until logic has answered, has no user.
Handshake ==
    /\ io.pc # "idle" => greet[io.conn] = "no" /\ handshake_completed[io.conn]
    /\ io.pc = "verify" => user_id[io.conn] = NoUser
    /\ \A c \in Conns : ~handshake_completed[c] => user_id[c] = NoUser /\ greet[c] = "no"

\* An entry of s_user_ws_conn_map names a connection of that user, which has
\* been greeted or is the one in its handshake.
MapOwner ==
    \A u \in Users : LET c == s_user_ws_conn_map[u] IN
        c # NoConn => /\ user_id[c] = u
                      /\ greet[c] = "no" => io.conn = c /\ io.pc \in {"hello", "subscribe"}

\* Before it serves, comet has no users, no handler and no calls.
Startup ==
    /\ phase # "serving" => /\ \A u \in Users : s_user_ws_conn_map[u] = NoConn
                            /\ \A p \in Rpcs : rpc[p].pc = "free"
    /\ phase = "serving" => InitRooms \subseteq topics
    /\ InitRooms \subseteq logic_rooms

\* A Broadcast in progress: its room is one of logic's, has a topic after the
\* first step, and while the subscribe loop holds the lock every user online is
\* subscribed or still to come.
InTopic == {"lock", "subscribe", "list", "send", "announced"}
PastLoop == {"list", "send", "announced"}
Broadcasting ==
    \A p \in Rpcs :
        /\ rpc[p].pc \in InTopic \cup {"topic"} => rpc[p].room \in logic_rooms
        /\ rpc[p].pc \in InTopic => rpc[p].room \in topics
        /\ rpc[p].pc = "subscribe" =>
              /\ map_lock = p
              /\ OnlineUsers \subseteq subscribers[rpc[p].room] \cup rpc[p].todo

\* The rooms every user online has to be subscribed to: the first ones, and
\* those whose Broadcast has left the subscribe loop.
Covered(r) ==
    /\ phase = "serving"
    /\ r \in InitRooms \/ \E p \in Rpcs : rpc[p].room = r /\ rpc[p].pc \in PastLoop

Listed == \A r \in s_room_list : Covered(r)

\* A covered room is missing from a user online only if logic left it out of the
\* hello answer, the hello call failed, or the handshake is still to reach it.
\* This is what the handshake and the Broadcast owe each other: the connection
\* is registered before logic is asked, the topic is made before the loop.
Missing(c, r) ==
    \/ r \in skipped[c]
    \/ greet[c] = "failed"
    \/ io.conn = c /\ io.pc = "hello"
    \/ io.conn = c /\ io.pc = "subscribe" /\ r \in io.rooms
Coverage ==
    \A u \in OnlineUsers, r \in Rooms :
        Covered(r) => u \in subscribers[r] \/ Missing(s_user_ws_conn_map[u], r)

RoomInv == Types /\ Handshake /\ MapOwner /\ Startup /\ Broadcasting /\ Listed /\ Coverage

\* What RoomInv says of a state, apart from its types.
RoomParts == Handshake /\ MapOwner /\ Startup /\ Broadcasting /\ Listed /\ Coverage

room_vars == <<phase, logic_rooms, sess_vars, map_vars, pubsub_vars, io, rpc>>

LEMMA InitRoomInv == Init => RoomInv
BY InitTypes, CometAssumption
DEF Init, RoomInv, Handshake, MapOwner, Startup, Broadcasting, Listed, Coverage, Covered,
    OnlineUsers, IoIdle, Handler, NoCall, Call, InTopic, PastLoop

\* Nothing RoomParts speaks of changes.
LEMMA QuietRoomParts == ASSUME RoomParts, UNCHANGED room_vars PROVE RoomParts'
BY DEF RoomParts, Handshake, MapOwner, Startup, Broadcasting, Listed, Coverage, Covered,
       Missing, OnlineUsers, room_vars, sess_vars, map_vars, pubsub_vars

\* An RPC that is not past its loop, before and after its step, covers nothing.
LEMMA CoveredSame ==
    ASSUME phase' = phase, NEW p \in Rpcs, \A q \in Rpcs \ {p} : rpc'[q] = rpc[q],
           rpc[p].pc \notin PastLoop, rpc'[p].pc \notin PastLoop, NEW r
    PROVE  Covered(r)' <=> Covered(r)
BY DEF Covered

\* A step of BroadcastRoom leaves rooms and users alone.
LEMMA PushKeepsRooms ==
    ASSUME RoomInv, phase = "serving", NEW p \in Rpcs,
           \A q \in Rpcs \ {p} : rpc'[q] = rpc[q],
           rpc[p].pc \notin PastLoop, rpc'[p].pc \notin InTopic \cup {"topic"},
           UNCHANGED <<phase, logic_rooms, sess_vars, map_vars, topics, subscribers,
                       s_room_list, io>>
    PROVE  RoomParts'
<1>1. \A r : Covered(r)' <=> Covered(r) BY CoveredSame DEF InTopic, PastLoop
<1>2. Listed' /\ Coverage' BY <1>1
  DEF RoomInv, Listed, Coverage, Missing, OnlineUsers, sess_vars, map_vars
<1>3. Broadcasting'
  BY DEF RoomInv, Broadcasting, OnlineUsers, map_vars, InTopic
<1>4. Handshake' /\ MapOwner' /\ Startup'
  BY DEF RoomInv, Handshake, MapOwner, Startup, sess_vars, map_vars
<1> QED BY <1>2, <1>3, <1>4 DEF RoomParts

\* Every step keeps the invariant.
LEMMA NextRoomParts == ASSUME RoomInv, [Next]_vars PROVE RoomParts'
<1> USE CometAssumption
    DEF RoomInv, RoomParts, Types, TypeOK, IoOnConn, RpcOnRoom,
        Handshake, MapOwner, Startup, Broadcasting, Listed, Coverage, Missing,
        OnlineUsers, InTopic, PastLoop, conn_vars, sess_vars, map_vars, pubsub_vars
<1>1. CASE InitializeRoomSubscriptions
  BY <1>1 DEF InitializeRoomSubscriptions, Covered
<1>2. CASE InitializeFails
  BY <1>2 DEF InitializeFails, Covered
<1>3. ASSUME NEW c \in Conns, OnReadHandshake(c) PROVE RoomParts'
  BY <1>3 DEF OnReadHandshake, IoAt, Handler, Covered
<1>4. ASSUME NEW u \in Users, VerifyUserAuth(u) PROVE RoomParts'
  BY <1>4 DEF VerifyUserAuth, IoAt, IoGo, Handler, Covered
<1>5. CASE VerifyFails
  BY <1>5 DEF VerifyFails, IoAt, IoIdle, Handler, Covered
<1>6. CASE InsertConn
  BY <1>6 DEF InsertConn, IoAt, IoGo, Handler, Covered
<1>7. ASSUME NEW rs \in SUBSET logic_rooms, HelloAnswered(rs) PROVE RoomParts'
  BY <1>7 DEF HelloAnswered, IoAt, IoGo, Handler, Covered
<1>8. CASE HelloFails
  BY <1>8 DEF HelloFails, IoAt, IoIdle, Handler, Covered
<1>9. ASSUME NEW r \in Rooms, HelloSubscribe(r) PROVE RoomParts'
  BY <1>9 DEF HelloSubscribe, AddSubscriber, IoAt, IoGo, Handler, Covered
<1>10. CASE HelloSend
  BY <1>10 DEF HelloSend, IoAt, IoIdle, Handler, Covered
<1>11. ASSUME NEW w \in Workers, NEW r \in Rooms, CreateRoomDone(w, r) PROVE RoomParts'
  BY <1>11 DEF CreateRoomDone, Covered
<1>12. ASSUME NEW w \in Workers, DisconnectErase(w) PROVE RoomParts'
  <2>1. \A u \in Users : s_user_ws_conn_map'[u] \in {s_user_ws_conn_map[u], NoConn}
    BY <1>12 DEF DisconnectErase
  <2>2. \A r : Covered(r)' <=> Covered(r) BY <1>12 DEF DisconnectErase, Covered
  <2>3. Listed' /\ Coverage'
    <3>1. UNCHANGED <<s_room_list, subscribers, skipped, greet, io>>
      BY <1>12 DEF DisconnectErase
    <3>2. Listed' BY <2>2, <3>1
    <3>3. \A u \in OnlineUsers' : /\ u \in OnlineUsers
                                  /\ s_user_ws_conn_map'[u] = s_user_ws_conn_map[u]
      BY <2>1
    <3>4. \A c, r : Missing(c, r)' <=> Missing(c, r) BY <3>1
    <3>5. Coverage' BY <2>2, <3>1, <3>3, <3>4
    <3> QED BY <3>2, <3>5
  <2>4. Broadcasting' BY <1>12, <2>1 DEF DisconnectErase
  <2>5. Handshake' /\ MapOwner' BY <1>12, <2>1 DEF DisconnectErase
  <2>6. Startup' BY <1>12, <2>1 DEF DisconnectErase
  <2> QED BY <2>3, <2>4, <2>5, <2>6
<1>13. ASSUME NEW p \in Rpcs, NEW r \in Rooms, BroadcastCall(p, r) PROVE RoomParts'
  <2>1. phase = "serving" /\ rpc[p].pc \notin PastLoop BY <1>13 DEF BroadcastCall, RpcAt
  <2>2. rpc'[p].pc \notin PastLoop /\ \A q \in Rpcs \ {p} : rpc'[q] = rpc[q]
    BY <1>13 DEF BroadcastCall, RpcAt, Call, Calls
  <2>3. \A r_1 : Covered(r_1)' <=> Covered(r_1)
    BY <1>13, <2>1, <2>2, CoveredSame DEF BroadcastCall
  <2>4. Listed' /\ Coverage' BY <1>13, <2>3 DEF BroadcastCall
  <2>5. Broadcasting' BY <1>13 DEF BroadcastCall, RpcAt, Call, Calls
  <2> QED BY <1>13, <2>1, <2>4, <2>5 DEF BroadcastCall
<1>14. ASSUME NEW p \in Rpcs, AddRoomTopic(p) PROVE RoomParts'
  <2>1. phase = "serving" /\ rpc[p].pc \notin PastLoop BY <1>14 DEF AddRoomTopic, RpcAt
  <2>2. rpc'[p].pc \notin PastLoop /\ \A q \in Rpcs \ {p} : rpc'[q] = rpc[q]
    BY <1>14 DEF AddRoomTopic, RpcAt, Goto, Go, Call, Calls
  <2>3. \A r_1 : Covered(r_1)' <=> Covered(r_1)
    BY <1>14, <2>1, <2>2, CoveredSame DEF AddRoomTopic
  <2>4. Listed' /\ Coverage' BY <1>14, <2>3 DEF AddRoomTopic
  <2>5. Broadcasting' BY <1>14 DEF AddRoomTopic, RpcAt, Goto, Go, Call, Calls
  <2> QED BY <1>14, <2>1, <2>4, <2>5 DEF AddRoomTopic
<1>15. ASSUME NEW p \in Rpcs, BroadcastLock(p) PROVE RoomParts'
  <2>1. phase = "serving" /\ rpc[p].pc \notin PastLoop BY <1>15 DEF BroadcastLock, RpcAt
  <2>2. rpc'[p].pc \notin PastLoop /\ \A q \in Rpcs \ {p} : rpc'[q] = rpc[q]
    BY <1>15 DEF BroadcastLock, RpcAt, Go, Call, Calls
  <2>3. \A r_1 : Covered(r_1)' <=> Covered(r_1)
    BY <1>15, <2>1, <2>2, CoveredSame DEF BroadcastLock
  <2>4. Listed' /\ Coverage' BY <1>15, <2>3 DEF BroadcastLock
  <2>5. Broadcasting' BY <1>15 DEF BroadcastLock, RpcAt, Go, Call, Calls
  <2> QED BY <1>15, <2>1, <2>4, <2>5 DEF BroadcastLock
<1>16. ASSUME NEW p \in Rpcs, NEW u \in Users, BroadcastSubscribe(p, u) PROVE RoomParts'
  <2>1. phase = "serving" /\ rpc[p].pc \notin PastLoop BY <1>16 DEF BroadcastSubscribe, RpcAt
  <2>2. rpc'[p].pc \notin PastLoop /\ \A q \in Rpcs \ {p} : rpc'[q] = rpc[q]
    BY <1>16 DEF BroadcastSubscribe, RpcAt, Go, Call, Calls
  <2>3. \A r_1 : Covered(r_1)' <=> Covered(r_1)
    BY <1>16, <2>1, <2>2, CoveredSame DEF BroadcastSubscribe
  <2>4. Listed' /\ Coverage' BY <1>16, <2>3 DEF BroadcastSubscribe, AddSubscriber
  <2>5. Broadcasting' BY <1>16 DEF BroadcastSubscribe, RpcAt, Go, Call, Calls, AddSubscriber
  <2> QED BY <1>16, <2>1, <2>4, <2>5 DEF BroadcastSubscribe, AddSubscriber
<1>17. ASSUME NEW p \in Rpcs, BroadcastUnlock(p) PROVE RoomParts'
  BY <1>17 DEF BroadcastUnlock, RpcAt, Goto, Go, Call, Calls, Covered
<1>18. ASSUME NEW p \in Rpcs, AddRoom(p) PROVE RoomParts'
  BY <1>18 DEF AddRoom, RpcAt, Goto, Go, Call, Calls, Covered
<1>19. ASSUME NEW p \in Rpcs, BroadcastSend(p) PROVE RoomParts'
  BY <1>19 DEF BroadcastSend, RpcAt, Goto, Go, Call, Calls, Covered
<1>20. ASSUME NEW p \in Rpcs, NEW r \in Rooms, BroadcastRoomCall(p, r) PROVE RoomParts'
  <2>1. phase = "serving" /\ rpc[p].pc \notin PastLoop BY <1>20 DEF BroadcastRoomCall, RpcAt
  <2>2. rpc'[p].pc \notin InTopic \cup {"topic"} /\ \A q \in Rpcs \ {p} : rpc'[q] = rpc[q]
    BY <1>20 DEF BroadcastRoomCall, RpcAt, Call, Calls
  <2>3. UNCHANGED <<phase, logic_rooms, sess_vars, map_vars, topics, subscribers, s_room_list, io>>
    BY <1>20 DEF BroadcastRoomCall
  <2> QED BY <2>1, <2>2, <2>3, PushKeepsRooms
<1>21. ASSUME NEW p \in Rpcs, PubSubMessage(p) PROVE RoomParts'
  <2>1. phase = "serving" /\ rpc[p].pc \notin PastLoop BY <1>21 DEF PubSubMessage, RpcAt
  <2>2. rpc'[p].pc \notin InTopic \cup {"topic"} /\ \A q \in Rpcs \ {p} : rpc'[q] = rpc[q]
    BY <1>21 DEF PubSubMessage, RpcAt, Goto, Go, Call, Calls
  <2>3. UNCHANGED <<phase, logic_rooms, sess_vars, map_vars, topics, subscribers, s_room_list, io>>
    BY <1>21 DEF PubSubMessage
  <2> QED BY <2>1, <2>2, <2>3, PushKeepsRooms
<1>22. ASSUME NEW p \in Rpcs, NEW u \in Users, PushLookup(p, u) PROVE RoomParts'
  <2>1. phase = "serving" /\ rpc[p].pc \notin PastLoop BY <1>22 DEF PushLookup, RpcAt
  <2>2. rpc'[p].pc \notin InTopic \cup {"topic"} /\ \A q \in Rpcs \ {p} : rpc'[q] = rpc[q]
    BY <1>22 DEF PushLookup, RpcAt, Go, Call, Calls
  <2>3. UNCHANGED <<phase, logic_rooms, sess_vars, map_vars, topics, subscribers, s_room_list, io>>
    BY <1>22 DEF PushLookup
  <2> QED BY <2>1, <2>2, <2>3, PushKeepsRooms
<1>23. ASSUME NEW p \in Rpcs, PushSend(p) PROVE RoomParts'
  <2>1. phase = "serving" /\ rpc[p].pc \notin PastLoop BY <1>23 DEF PushSend, RpcAt
  <2>2. rpc'[p].pc \notin InTopic \cup {"topic"} /\ \A q \in Rpcs \ {p} : rpc'[q] = rpc[q]
    BY <1>23 DEF PushSend, RpcAt, Go, Call, Calls
  <2>3. UNCHANGED <<phase, logic_rooms, sess_vars, map_vars, topics, subscribers, s_room_list, io>>
    BY <1>23 DEF PushSend
  <2> QED BY <2>1, <2>2, <2>3, PushKeepsRooms
<1>24. ASSUME NEW p \in Rpcs, PushEnd(p) PROVE RoomParts'
  <2>1. phase = "serving" /\ rpc[p].pc \notin PastLoop BY <1>24 DEF PushEnd, RpcAt
  <2>2. rpc'[p].pc \notin InTopic \cup {"topic"} /\ \A q \in Rpcs \ {p} : rpc'[q] = rpc[q]
    BY <1>24 DEF PushEnd, RpcAt, Goto, Go, Call, Calls
  <2>3. UNCHANGED <<phase, logic_rooms, sess_vars, map_vars, topics, subscribers, s_room_list, io>>
    BY <1>24 DEF PushEnd
  <2> QED BY <2>1, <2>2, <2>3, PushKeepsRooms
<1>25. ASSUME NEW c \in Conns,
              OnConnectionUp(c) \/ OnConnectionDown(c) \/ SendInLoop(c)
              \/ \E k \in ClientFrames : OnReadFrame(c, k) PROVE RoomParts'
  BY <1>25, QuietRoomParts DEF room_vars, vars, OnConnectionUp, OnConnectionDown, SendInLoop, OnReadFrame
<1>26. ASSUME NEW w \in Workers,
              TakeTask(w) \/ HandleClientMessages(w) \/ HandleRequestRoomHistory(w)
              \/ CreateRoomRefused(w) \/ DisconnectShutdown(w) PROVE RoomParts'
  BY <1>26, QuietRoomParts DEF room_vars, vars, TakeTask, HandleClientMessages, HandleRequestRoomHistory, CreateRoomRefused, DisconnectShutdown
<1>27. ASSUME NEW p \in Rpcs, PubSubUnlock(p) PROVE RoomParts'
  <2>1. phase = "serving" /\ rpc[p].pc \notin PastLoop BY <1>27 DEF PubSubUnlock, RpcAt
  <2>2. rpc'[p].pc \notin InTopic \cup {"topic"} /\ \A q \in Rpcs \ {p} : rpc'[q] = rpc[q]
    BY <1>27 DEF PubSubUnlock, RpcAt, Goto, Go, Call, Calls
  <2>3. UNCHANGED <<phase, logic_rooms, sess_vars, map_vars, topics, subscribers, s_room_list, io>>
    BY <1>27 DEF PubSubUnlock
  <2> QED BY <2>1, <2>2, <2>3, PushKeepsRooms
<1>28. ASSUME UNCHANGED vars PROVE RoomParts'
  BY <1>28, QuietRoomParts DEF room_vars, vars, conn_vars
<1> QED
  BY <1>1, <1>2, <1>3, <1>4, <1>5, <1>6, <1>7, <1>8, <1>9, <1>10, <1>11, <1>12, <1>13, <1>14, <1>15, <1>16, <1>17, <1>18, <1>19, <1>20, <1>21, <1>22, <1>23, <1>24, <1>25, <1>26, <1>27, <1>28
  DEF Next, IoHandler, IoEvent, WorkerStep, RpcCall, RpcStep

LEMMA RoomInvHolds == Spec => []RoomInv
<1>1. Init => RoomInv BY InitRoomInv
<1>2. RoomInv /\ [Next]_vars => RoomInv'
  <2> SUFFICES ASSUME RoomInv, [Next]_vars PROVE RoomInv' OBVIOUS
  <2>1. Types' BY NextTypes DEF RoomInv
  <2>2. RoomParts' BY NextRoomParts
  <2> QED BY <2>1, <2>2 DEF RoomInv, RoomParts
<1> QED BY <1>1, <1>2, PTL DEF Spec

\* Whatever the order of handshakes, room creations, reconnections and (repeated)
\* Broadcasts, a user whose registered connection was greeted is subscribed to
\* every room comet has taken over, unless logic left the room out of the hello
\* answer (websocket_conn.cc SendHelloMessage, comet_service.cc Broadcast).
THEOREM RoomsCovered == Spec => []SubscribedToKnownRooms
<1>1. RoomInv => SubscribedToKnownRooms
  <2> SUFFICES ASSUME RoomInv, NEW u \in OnlineUsers, NEW r \in KnownRooms,
                      greet[s_user_ws_conn_map[u]] = "sent"
               PROVE  u \in subscribers[r] \/ r \in skipped[s_user_ws_conn_map[u]]
    BY DEF SubscribedToKnownRooms
  <2>1. Covered(r) /\ r \in Rooms
    BY CometAssumption DEF KnownRooms, Covered, RoomInv, Listed, Types, TypeOK
  <2>2. u \in subscribers[r] \/ Missing(s_user_ws_conn_map[u], r)
    BY <2>1 DEF RoomInv, Coverage
  <2>3. io.pc # "idle" => io.conn # s_user_ws_conn_map[u]
    BY DEF RoomInv, Handshake
  <2> QED BY <2>2, <2>3 DEF Missing
<1> QED BY <1>1, RoomInvHolds, PTL

-----------------------------------------------------------------------------
(* Pushed messages *)

\* The frames of a queue after an append, of its tail and at its head.
LEMMA FramesOf ==
    ASSUME NEW q \in Seq(OutFrame)
    PROVE  /\ \A f \in OutFrame : Frames(Append(q, f)) = Frames(q) \cup {f}
           /\ q # <<>> => Head(q) \in Frames(q) /\ Frames(Tail(q)) \subseteq Frames(q)
<1>1. ASSUME NEW f \in OutFrame PROVE Frames(Append(q, f)) = Frames(q) \cup {f}
  <2> DEFINE s == Append(q, f)
  <2>1. /\ Len(s) = Len(q) + 1 /\ DOMAIN s = 1..(Len(q) + 1) /\ DOMAIN q = 1..Len(q)
        /\ s[Len(q) + 1] = f /\ \A i \in 1..Len(q) : s[i] = q[i]
    OBVIOUS
  <2>2. Len(q) \in Nat OBVIOUS
  <2> HIDE DEF s
  <2>3. \A x : x \in Frames(s) => x \in Frames(q) \cup {f} BY <2>1, <2>2 DEF Frames
  <2>4. \A i \in DOMAIN q : q[i] \in Frames(s) BY <2>1, <2>2 DEF Frames
  <2>5. f \in Frames(s) BY <2>1, <2>2 DEF Frames
  <2>6. Frames(s) = Frames(q) \cup {f} BY <2>3, <2>4, <2>5 DEF Frames
  <2> QED BY <2>6 DEF s
<1>2. q # <<>> => Head(q) \in Frames(q) /\ Frames(Tail(q)) \subseteq Frames(q) BY DEF Frames
<1> QED BY <1>1, <1>2

\* Sending adds at most the frame sent.
LEMMA FramesSent ==
    ASSUME NEW q \in Seq(OutFrame), NEW c, NEW f \in OutFrame
    PROVE  Frames(Sent(q, c, f)) \subseteq Frames(q) \cup {f}
BY FramesOf DEF Sent

\* A push in progress: the users still to serve are members of the room, and a
\* connection that was looked up belongs to a member.
Pushing ==
    \A p \in Rpcs :
        /\ rpc[p].pc \in {"copied", "lookup", "push"} => rpc[p].todo \subseteq subscribers[rpc[p].room]
        /\ rpc[p].pc = "push" /\ rpc[p].conn # NoConn =>
              user_id[rpc[p].conn] \in subscribers[rpc[p].room]

\* A frame that a connection of user u may carry, given the members of the rooms.
Deserved(u, members, f) ==
    f.kind = "serverMessages" => u \in Users /\ \A r \in f.rooms : u \in members[r]

PushInv == RoomInv /\ Pushing /\ PushedOnlyToMembers

\* What a connection deserves it keeps: a user id is set once, topics only gain
\* subscribers.
LEMMA KeepsDeserved ==
    ASSUME RoomInv, [Next]_vars
    PROVE  /\ \A c \in Conns : user_id[c] \in Users => user_id'[c] = user_id[c]
           /\ \A r \in Rooms : subscribers[r] \subseteq subscribers'[r]
<1> USE CometAssumption DEF RoomInv, Types, TypeOK, Handshake
<1>1. ASSUME NEW u \in Users, VerifyUserAuth(u)
      PROVE  /\ \A c \in Conns : user_id[c] \in Users => user_id'[c] = user_id[c]
             /\ subscribers' = subscribers
  BY <1>1 DEF VerifyUserAuth, IoAt, pubsub_vars
<1>2. ASSUME NEW r \in Rooms, HelloSubscribe(r)
      PROVE  /\ user_id' = user_id
             /\ \A x \in Rooms : subscribers[x] \subseteq subscribers'[x]
  BY <1>2 DEF HelloSubscribe, AddSubscriber, sess_vars
<1>3. ASSUME NEW p \in Rpcs, NEW u \in Users, BroadcastSubscribe(p, u)
      PROVE  /\ user_id' = user_id
             /\ \A x \in Rooms : subscribers[x] \subseteq subscribers'[x]
  BY <1>3 DEF BroadcastSubscribe, AddSubscriber, sess_vars
<1> QED
  BY <1>1, <1>2, <1>3
  DEF Next, IoHandler, IoEvent, WorkerStep, RpcCall, RpcStep, vars, sess_vars, pubsub_vars,
      InitializeRoomSubscriptions, InitializeFails, OnConnectionUp, OnConnectionDown,
      OnReadHandshake, VerifyFails, InsertConn, HelloAnswered, HelloFails, HelloSend,
      OnReadFrame, SendInLoop, TakeTask, HandleClientMessages, HandleRequestRoomHistory,
      CreateRoomDone, CreateRoomRefused, DisconnectShutdown, DisconnectErase,
      BroadcastCall, AddRoomTopic, BroadcastLock, BroadcastUnlock, AddRoom, BroadcastSend,
      BroadcastRoomCall, PubSubMessage, PubSubUnlock, PushLookup, PushSend, PushEnd

\* Every step keeps the users and connections of a push members of its room.
LEMMA NextPushing == ASSUME PushInv, [Next]_vars PROVE Pushing'
<1> USE CometAssumption DEF PushInv
<1>0. /\ \A c \in Conns : user_id[c] \in Users => user_id'[c] = user_id[c]
      /\ \A r \in Rooms : subscribers[r] \subseteq subscribers'[r]
  BY KeepsDeserved
<1>a. rpc \in [Rpcs -> Calls] /\ subscribers \in [Rooms -> SUBSET Users]
  BY DEF RoomInv, Types, TypeOK
<1>b. \A p \in Rpcs : rpc[p].pc # "free" => rpc[p].room \in Rooms
  BY DEF RoomInv, Types, RpcOnRoom
<1>c. \A p \in Rpcs : rpc[p].conn \in Conns \cup {NoConn}
  BY <1>a DEF Calls
\* An RPC that does not move keeps what it has.
<1>d. ASSUME NEW q \in Rpcs, rpc'[q] = rpc[q]
      PROVE  /\ rpc'[q].pc \in {"copied", "lookup", "push"} => rpc'[q].todo \subseteq subscribers'[rpc'[q].room]
             /\ rpc'[q].pc = "push" /\ rpc'[q].conn # NoConn =>
                   user_id'[rpc'[q].conn] \in subscribers'[rpc'[q].room]
  BY <1>0, <1>a, <1>b, <1>c, <1>d DEF Pushing
\* Nor does one that moves outside the push loop have anything to keep.
<1>e. ASSUME NEW p \in Rpcs, \A q \in Rpcs \ {p} : rpc'[q] = rpc[q],
             rpc'[p].pc \notin {"copied", "lookup", "push"}
      PROVE  Pushing'
  BY <1>d, <1>e DEF Pushing
<1>1. ASSUME NEW p \in Rpcs, PubSubMessage(p), rpc[p].room \in topics PROVE Pushing'
  <2>1. rpc[p].room \in Rooms BY <1>1, <1>b DEF PubSubMessage, RpcAt
  <2>2. subscribers[rpc[p].room] \in SUBSET Users BY <2>1, <1>a
  <2>3. Go(p, "copied", subscribers[rpc[p].room], NoConn) BY <1>1 DEF PubSubMessage
  <2>4. /\ rpc'[p].pc = "copied" /\ rpc'[p].room = rpc[p].room
        /\ rpc'[p].todo = subscribers[rpc[p].room]
        /\ \A q \in Rpcs \ {p} : rpc'[q] = rpc[q]
    BY <2>2, <2>3, <1>a, GoStep DEF RpcSteps
  <2>5. rpc'[p].todo \subseteq subscribers'[rpc'[p].room] BY <1>0, <2>1, <2>4
  <2> QED BY <1>d, <2>4, <2>5 DEF Pushing
<1>2. ASSUME NEW p \in Rpcs, PubSubMessage(p), rpc[p].room \notin topics PROVE Pushing'
  BY <1>2, <1>a, <1>e, GotoStep DEF PubSubMessage, RpcSteps
<1>3. ASSUME NEW p \in Rpcs, NEW u \in Users, PushLookup(p, u) PROVE Pushing'
  <2>1. rpc[p].room \in Rooms BY <1>3, <1>b DEF PushLookup, RpcAt
  <2>2. /\ rpc[p].todo \ {u} \in SUBSET Users
        /\ s_user_ws_conn_map[u] \in Conns \cup {NoConn}
    BY <1>a DEF RoomInv, Types, TypeOK, Calls
  <2>3. /\ rpc'[p].pc = "push" /\ rpc'[p].room = rpc[p].room
        /\ rpc'[p].todo = rpc[p].todo \ {u} /\ rpc'[p].conn = s_user_ws_conn_map[u]
        /\ \A q \in Rpcs \ {p} : rpc'[q] = rpc[q]
    <3>1. Go(p, "push", rpc[p].todo \ {u}, s_user_ws_conn_map[u]) BY <1>3 DEF PushLookup
    <3> QED BY <2>2, <3>1, <1>a, GoStep DEF RpcSteps
  <2>4. rpc[p].todo \subseteq subscribers[rpc[p].room] BY <1>3 DEF PushLookup, RpcAt, Pushing
  <2>5. rpc'[p].conn # NoConn => user_id[rpc'[p].conn] = u
    BY <2>3 DEF RoomInv, MapOwner
  <2>6. rpc'[p].conn # NoConn => user_id'[rpc'[p].conn] \in subscribers'[rpc'[p].room]
    BY <1>0, <1>3, <2>1, <2>2, <2>3, <2>4, <2>5 DEF PushLookup
  <2>7. rpc'[p].todo \subseteq subscribers'[rpc'[p].room] BY <1>0, <2>1, <2>3, <2>4
  <2> QED BY <1>d, <2>3, <2>6, <2>7 DEF Pushing
<1>4. ASSUME NEW p \in Rpcs, PushSend(p) PROVE Pushing'
  <2>1. rpc[p].room \in Rooms /\ rpc[p].todo \in SUBSET Users
    BY <1>4, <1>a, <1>b DEF PushSend, RpcAt, Calls
  <2>2. /\ rpc'[p].pc = "lookup" /\ rpc'[p].room = rpc[p].room /\ rpc'[p].todo = rpc[p].todo
        /\ \A q \in Rpcs \ {p} : rpc'[q] = rpc[q]
    BY <1>4, <2>1, <1>a, GoStep DEF PushSend, RpcSteps
  <2>3. rpc'[p].todo \subseteq subscribers'[rpc'[p].room]
    BY <1>0, <1>4, <2>1, <2>2 DEF PushSend, RpcAt, Pushing
  <2> QED BY <1>d, <2>2, <2>3 DEF Pushing
<1>5. ASSUME NEW p \in Rpcs, PushEnd(p) \/ AddRoomTopic(p) \/ BroadcastUnlock(p) \/ AddRoom(p) \/ BroadcastSend(p)
      PROVE Pushing'
  <2>1. PICK step \in {"pushed", "lock", "list", "send", "announced"} : Goto(p, step)
    BY <1>5 DEF PushEnd, AddRoomTopic, BroadcastUnlock, AddRoom, BroadcastSend
  <2>2. rpc'[p].pc = step /\ \A q \in Rpcs \ {p} : rpc'[q] = rpc[q]
    BY <2>1, <1>a, GotoStep DEF RpcSteps
  <2> QED BY <2>2, <1>e
<1>6. ASSUME NEW p \in Rpcs, BroadcastLock(p) \/ \E u \in Users : BroadcastSubscribe(p, u) PROVE Pushing'
  <2>1. PICK us \in SUBSET Users : Go(p, "subscribe", us, NoConn)
    BY <1>6, <1>a DEF BroadcastLock, BroadcastSubscribe, OnlineUsers, Calls
  <2>2. rpc'[p].pc = "subscribe" /\ \A q \in Rpcs \ {p} : rpc'[q] = rpc[q]
    BY <2>1, <1>a, GoStep DEF RpcSteps
  <2> QED BY <2>2, <1>e
<1>7. ASSUME NEW p \in Rpcs, RpcCall(p) PROVE Pushing'
  BY <1>7, <1>a, <1>e DEF RpcCall, BroadcastCall, BroadcastRoomCall, Call
<1>8. ASSUME NEW p \in Rpcs, PubSubUnlock(p) PROVE Pushing'
  <2>1. rpc[p].room \in Rooms BY <1>8, <1>b DEF PubSubUnlock, RpcAt
  <2>2. /\ rpc'[p].pc = "lookup" /\ rpc'[p].room = rpc[p].room /\ rpc'[p].todo = rpc[p].todo
        /\ \A q \in Rpcs \ {p} : rpc'[q] = rpc[q]
    BY <1>8, <1>a, GotoStep DEF PubSubUnlock, RpcSteps
  <2>3. rpc'[p].todo \subseteq subscribers'[rpc'[p].room]
    BY <1>0, <1>8, <2>1, <2>2 DEF PubSubUnlock, RpcAt, Pushing
  <2> QED BY <1>d, <2>2, <2>3 DEF Pushing
<1>9. ASSUME rpc' = rpc PROVE Pushing' BY <1>9, <1>d DEF Pushing
<1> QED
  BY <1>1, <1>2, <1>3, <1>4, <1>5, <1>6, <1>7, <1>8, <1>9
  DEF Next, IoHandler, IoEvent, WorkerStep, RpcStep, vars,
      InitializeRoomSubscriptions, InitializeFails, OnConnectionUp, OnConnectionDown,
      OnReadHandshake, VerifyUserAuth, VerifyFails, InsertConn, HelloAnswered, HelloFails,
      HelloSubscribe, HelloSend, OnReadFrame, SendInLoop, TakeTask, HandleClientMessages,
      HandleRequestRoomHistory, CreateRoomDone, CreateRoomRefused, DisconnectShutdown,
      DisconnectErase

\* Every step puts only deserved frames on their way.
LEMMA NextPushed == ASSUME PushInv, [Next]_vars PROVE PushedOnlyToMembers'
<1> USE DEF PushInv
<1>a. /\ pending \in [Conns -> Seq(OutFrame)] /\ wire \in [Conns -> Seq(OutFrame)]
      /\ rpc \in [Rpcs -> Calls]
  BY DEF RoomInv, Types, TypeOK
<1>b. /\ \A c \in Conns : user_id[c] \in Users => user_id'[c] = user_id[c]
      /\ \A r \in Rooms : subscribers[r] \subseteq subscribers'[r]
  BY KeepsDeserved
<1>c. \A c \in Conns : \A f \in OnItsWay(c) : f \in OutFrame
  BY <1>a DEF OnItsWay, Frames
<1>d. \A c \in Conns : \A f \in OnItsWay(c) : Deserved(user_id'[c], subscribers', f)
  BY <1>b, <1>c DEF PushedOnlyToMembers, Deserved, OutFrame
<1>e. ASSUME \A c \in Conns : \A f \in OnItsWay(c)' :
                f \in OnItsWay(c) \/ Deserved(user_id'[c], subscribers', f)
      PROVE  PushedOnlyToMembers'
  BY <1>d, <1>e DEF PushedOnlyToMembers, Deserved
\* Frames of other kinds are deserved by everyone.
<1>f. ASSUME NEW k \in OutKinds \ {"serverMessages"}, NEW rs, NEW u
      PROVE  Deserved(u, subscribers', Frame(k, rs))
  BY <1>f DEF Deserved, Frame
<1>g. ASSUME NEW c \in Conns, NEW k \in OutKinds \ {"serverMessages"}, NEW rs \in SUBSET Rooms,
             \/ /\ pending' = [pending EXCEPT ![c] = Sent(@, c, Frame(k, rs))]
                /\ wire' = wire
             \/ /\ wire' = [wire EXCEPT ![c] = Sent(@, c, Frame(k, rs))]
                /\ pending' = pending
      PROVE  PushedOnlyToMembers'
  <2>1. Frame(k, rs) \in OutFrame BY FrameType
  <2>2. CASE pending' = [pending EXCEPT ![c] = Sent(@, c, Frame(k, rs))] /\ wire' = wire
    <3>1. \A d \in Conns : Frames(pending'[d]) \subseteq Frames(pending[d]) \cup {Frame(k, rs)}
      <4>1. pending'[c] = Sent(pending[c], c, Frame(k, rs)) /\ \A d \in Conns \ {c} : pending'[d] = pending[d]
        BY <1>a, <2>2
      <4>2. Frames(Sent(pending[c], c, Frame(k, rs))) \subseteq Frames(pending[c]) \cup {Frame(k, rs)}
        BY <1>a, <2>1, FramesSent
      <4> QED BY <4>1, <4>2
    <3> QED BY <1>e, <1>f, <2>2, <3>1 DEF OnItsWay
  <2>3. CASE wire' = [wire EXCEPT ![c] = Sent(@, c, Frame(k, rs))] /\ pending' = pending
    <3>1. \A d \in Conns : Frames(wire'[d]) \subseteq Frames(wire[d]) \cup {Frame(k, rs)}
      <4>1. wire'[c] = Sent(wire[c], c, Frame(k, rs)) /\ \A d \in Conns \ {c} : wire'[d] = wire[d]
        BY <1>a, <2>3
      <4>2. Frames(Sent(wire[c], c, Frame(k, rs))) \subseteq Frames(wire[c]) \cup {Frame(k, rs)}
        BY <1>a, <2>1, FramesSent
      <4> QED BY <4>1, <4>2
    <3> QED BY <1>e, <1>f, <2>3, <3>1 DEF OnItsWay
  <2> QED BY <1>g, <2>2, <2>3
<1>h. ASSUME UNCHANGED <<pending, wire>> PROVE PushedOnlyToMembers'
  BY <1>e, <1>h DEF OnItsWay
<1>i. ASSUME NEW w \in Workers, worker[w].kind # "none" PROVE worker[w].conn \in Conns
  BY <1>i DEF RoomInv, Types, WorkerOnConn
<1>j. ASSUME io.pc # "idle" PROVE io.conn \in Conns
  BY <1>j DEF RoomInv, Types, IoOnConn
<1>1. CASE VerifyFails
  <2>1. io.conn \in Conns BY <1>1, <1>j DEF VerifyFails, IoAt
  <2>2. /\ wire' = [wire EXCEPT ![io.conn] = Sent(@, io.conn, Frame("close", {}))]
        /\ pending' = pending
    BY <1>1 DEF VerifyFails
  <2>3. "close" \in OutKinds \ {"serverMessages"} /\ {} \in SUBSET Rooms BY DEF OutKinds
  <2> QED BY <1>g, <2>1, <2>2, <2>3
<1>2. CASE HelloSend
  <2>1. io.answer \in SUBSET Rooms BY DEF RoomInv, Types, TypeOK
  <2> QED BY <1>2, <1>g, <1>j, <2>1 DEF HelloSend, IoAt, OutKinds
<1>3. ASSUME NEW c \in Conns, SendInLoop(c) PROVE PushedOnlyToMembers'
  <2>1. /\ pending[c] \in Seq(OutFrame) /\ wire[c] \in Seq(OutFrame) /\ pending[c] # <<>>
    BY <1>a, <1>3 DEF SendInLoop
  <2>2. Head(pending[c]) \in OutFrame BY <2>1
  <2>3. Frames(Tail(pending[c])) \subseteq Frames(pending[c]) /\ Head(pending[c]) \in Frames(pending[c])
    BY <2>1, FramesOf
  <2>4. Frames(Append(wire[c], Head(pending[c]))) = Frames(wire[c]) \cup {Head(pending[c])}
    BY <2>1, <2>2, FramesOf
  <2>5. pending'[c] = Tail(pending[c]) /\ \A d \in Conns \ {c} : pending'[d] = pending[d]
    BY <1>3, <1>a DEF SendInLoop
  <2>6. /\ wire'[c] \in {wire[c], Append(wire[c], Head(pending[c]))}
        /\ \A d \in Conns \ {c} : wire'[d] = wire[d]
    BY <1>3, <1>a DEF SendInLoop
  <2> QED BY <1>e, <2>3, <2>4, <2>5, <2>6 DEF OnItsWay
<1>4. ASSUME NEW w \in Workers, HandleRequestRoomHistory(w) PROVE PushedOnlyToMembers'
  <2>1. worker[w].conn \in Conns BY <1>4, <1>i DEF HandleRequestRoomHistory, Running
  <2>2. PICK r \in Rooms, ok \in BOOLEAN :
           pending' = IF ok THEN [pending EXCEPT ![worker[w].conn] =
                                     Sent(@, worker[w].conn, Frame("serverRoomHistory", {r}))]
                            ELSE pending
    BY <1>4 DEF HandleRequestRoomHistory
  <2>3. wire' = wire BY <1>4 DEF HandleRequestRoomHistory
  <2> QED BY <1>g, <1>h, <2>1, <2>2, <2>3 DEF OutKinds
<1>5. ASSUME NEW w \in Workers, CreateRoomRefused(w) PROVE PushedOnlyToMembers'
  BY <1>5, <1>g, <1>h, <1>i DEF CreateRoomRefused, Running, OutKinds
<1>6. ASSUME NEW w \in Workers, DisconnectShutdown(w) PROVE PushedOnlyToMembers'
  <2>1. worker[w].conn \in Conns BY <1>6, <1>i DEF DisconnectShutdown, Running
  <2>2. /\ pending' = [pending EXCEPT ![worker[w].conn] =
                          Sent(@, worker[w].conn, Frame("close", {}))]
        /\ wire' = wire
    BY <1>6 DEF DisconnectShutdown
  <2>3. "close" \in OutKinds \ {"serverMessages"} /\ {} \in SUBSET Rooms BY DEF OutKinds
  <2> QED BY <1>g, <2>1, <2>2, <2>3
<1>7. ASSUME NEW p \in Rpcs, BroadcastSend(p) PROVE PushedOnlyToMembers'
  <2>1. rpc[p].room \in Rooms BY <1>7 DEF BroadcastSend, RpcAt, RoomInv, Types, RpcOnRoom
  <2>2. Frame("serverCreateRoom", {rpc[p].room}) \in OutFrame BY <2>1, FrameType DEF OutKinds
  <2>3. \A c \in Conns : pending'[c] \in
           {pending[c], Sent(pending[c], c, Frame("serverCreateRoom", {rpc[p].room}))}
    BY <1>7 DEF BroadcastSend
  <2>4. \A c \in Conns : Frames(Sent(pending[c], c, Frame("serverCreateRoom", {rpc[p].room})))
                            \subseteq Frames(pending[c]) \cup {Frame("serverCreateRoom", {rpc[p].room})}
    BY <1>a, <2>2, FramesSent
  <2>5. \A c \in Conns : Frames(pending'[c]) \subseteq
                           Frames(pending[c]) \cup {Frame("serverCreateRoom", {rpc[p].room})}
    BY <2>3, <2>4
  <2>6. wire' = wire BY <1>7 DEF BroadcastSend
  <2>7. \A c \in Conns : 
              Deserved(user_id'[c], subscribers', Frame("serverCreateRoom", {rpc[p].room}))
    BY DEF Deserved, Frame
  <2> QED BY <1>e, <2>5, <2>6, <2>7 DEF OnItsWay
<1>8. ASSUME NEW p \in Rpcs, PushSend(p) PROVE PushedOnlyToMembers'
  <2> DEFINE c == rpc[p].conn
             f == Frame("serverMessages", {rpc[p].room})
  <2>1. wire' = wire BY <1>8 DEF PushSend
  <2>2. CASE c = NoConn BY <1>8, <1>h, <2>1, <2>2 DEF PushSend
  <2>3. CASE c # NoConn
    <3>1. c \in Conns /\ rpc[p].room \in Rooms
      BY <1>8, <1>a, <2>3 DEF PushSend, RpcAt, RoomInv, Types, RpcOnRoom, Calls
    <3>2. user_id[c] \in subscribers[rpc[p].room]
      BY <1>8, <2>3 DEF PushSend, RpcAt, Pushing
    <3>3. user_id[c] \in Users
      BY <3>1, <3>2 DEF RoomInv, Types, TypeOK
    <3>4. user_id'[c] \in Users /\ user_id'[c] \in subscribers'[rpc[p].room]
      BY <1>b, <3>1, <3>2, <3>3
    <3>5. Deserved(user_id'[c], subscribers', f) BY <3>4 DEF Deserved, Frame
    <3>6. f \in OutFrame BY <3>1, FrameType DEF OutKinds
    <3>7. pending' = [pending EXCEPT ![c] = Sent(@, c, f)] BY <1>8, <2>3 DEF PushSend
    <3>8. /\ Frames(pending'[c]) \subseteq Frames(pending[c]) \cup {f}
          /\ \A d \in Conns \ {c} : Frames(pending'[d]) = Frames(pending[d])
      <4>1. pending'[c] = Sent(pending[c], c, f) /\ \A d \in Conns \ {c} : pending'[d] = pending[d]
        BY <1>a, <3>1, <3>7
      <4>2. pending[c] \in Seq(OutFrame) BY <1>a, <3>1
      <4> HIDE DEF c, f
      <4>3. Frames(Sent(pending[c], c, f)) \subseteq Frames(pending[c]) \cup {f}
        BY <3>6, <4>2, FramesSent
      <4> QED BY <4>1, <4>3
    <3> HIDE DEF c, f
    <3>9. \A d \in Conns : \A g \in OnItsWay(d)' : g \in OnItsWay(d) \/ (d = c /\ g = f)
      BY <2>1, <3>8 DEF OnItsWay
    <3> QED BY <1>e, <3>5, <3>9
  <2> QED BY <2>2, <2>3
<1> QED
  BY <1>1, <1>2, <1>3, <1>4, <1>5, <1>6, <1>7, <1>8, <1>h
  DEF Next, IoHandler, IoEvent, WorkerStep, RpcCall, RpcStep, vars, out_vars,
      InitializeRoomSubscriptions, InitializeFails, OnConnectionUp, OnConnectionDown,
      OnReadHandshake, VerifyUserAuth, InsertConn, HelloAnswered, HelloFails,
      HelloSubscribe, OnReadFrame, TakeTask, HandleClientMessages, CreateRoomDone,
      DisconnectErase, BroadcastCall, AddRoomTopic, BroadcastLock, BroadcastSubscribe,
      BroadcastUnlock, AddRoom, BroadcastRoomCall, PubSubMessage, PubSubUnlock, PushLookup, PushEnd

\* A message pushed to a room reaches only connections that verified as a
\* subscriber of the room, although BroadcastRoom looks the connection up under
\* one lock, sends after releasing it, and the frame is written later still
\* (comet_service.cc BroadcastRoom, websocket_conn.cc OnRead).
THEOREM PushesReachMembersOnly == Spec => []PushedOnlyToMembers
<1>1. Init => PushInv
  <2>1. Init => Pushing BY DEF Init, Pushing, NoCall, Call
  <2>2. Init => PushedOnlyToMembers
    <3> SUFFICES ASSUME Init, NEW c \in Conns PROVE OnItsWay(c) = {}
      BY DEF PushedOnlyToMembers
    <3>1. pending[c] = <<>> /\ wire[c] = <<>> BY DEF Init
    <3> QED BY <3>1 DEF OnItsWay, Frames
  <2> QED BY <2>1, <2>2, InitRoomInv DEF PushInv
<1>2. PushInv /\ [Next]_vars => PushInv'
  <2> SUFFICES ASSUME PushInv, [Next]_vars PROVE PushInv' OBVIOUS
  <2>1. RoomInv' 
    <3>1. Types' BY NextTypes DEF PushInv, RoomInv
    <3>2. RoomParts' BY NextRoomParts DEF PushInv
    <3> QED BY <3>1, <3>2 DEF RoomInv, RoomParts
  <2> QED BY <2>1, NextPushing, NextPushed DEF PushInv
<1>3. PushInv => PushedOnlyToMembers BY DEF PushInv
<1> QED BY <1>1, <1>2, <1>3, PTL DEF Spec
-----------------------------------------------------------------------------
(* What a client is told, and in which order *)

\* No frame of a connection is a task before its handshake has left the IO
\* thread, so nothing can close it meanwhile: the hello frame is not dropped.
InHandshake(c) == io.pc # "idle" /\ io.conn = c
QuietHandshake ==
    /\ \A c \in Conns : ~handshake_completed[c] \/ InHandshake(c) =>
          /\ \A i \in DOMAIN tasks : tasks[i].conn # c
          /\ \A w \in Workers : worker[w].kind # "none" => worker[w].conn # c
    /\ \A c \in Conns : /\ InHandshake(c) => tcp[c] = "connected"
                        /\ tcp[c] = "none" => ~handshake_completed[c]

\* What job sends goes to connections that are or were registered.
PushKinds == {"serverMessages", "serverCreateRoom"}
Known(c) == greet[c] = "no" => io.conn = c /\ io.pc \in {"hello", "subscribe"}
SentToKnown ==
    /\ \A c \in Conns : \A f \in Frames(pending[c]) : f.kind \in PushKinds => Known(c)
    /\ \A p \in Rpcs : rpc[p].pc = "push" /\ rpc[p].conn # NoConn => Known(rpc[p].conn)

\* A greeted connection has its hello frame.
Greeted ==
    \A c \in Conns : greet[c] = "sent" =>
        \E j \in DOMAIN wire[c] : wire[c][j].kind = "hello"

\* A room that a finished Broadcast announced is known to every client online
\* whose handshake is over, and comes with the hello frame of the other ones.
ToldOrToCome(c, r) ==
    \/ r \in Told(c) \cup skipped[c]
    \/ greet[c] = "failed"
    \/ io.conn = c /\ io.pc = "hello"
    \/ io.conn = c /\ io.pc = "subscribe" /\ r \in io.answer
Telling ==
    \A u \in OnlineUsers, r \in Announced :
        tcp[s_user_ws_conn_map[u]] = "connected" => ToldOrToCome(s_user_ws_conn_map[u], r)

ToldInv == RoomInv /\ QuietHandshake /\ SentToKnown /\ Greeted /\ HelloFirst /\ Telling

\* What a step does to the frames of one connection: nothing; one frame is queued
\* (of what job sends, only to a connection registered or looked up); the handshake
\* writes one; or the loop takes the oldest queued one.
Queues(c) ==
    /\ wire'[c] = wire[c]
    /\ \E f \in OutFrame :
          /\ pending'[c] = Append(pending[c], f)
          /\ f.kind \in PushKinds => \/ \E u \in Users : s_user_ws_conn_map[u] = c
                                     \/ \E p \in Rpcs : rpc[p].pc = "push" /\ rpc[p].conn = c
Writes(c) ==
    /\ InHandshake(c) /\ pending'[c] = pending[c]
    /\ \E f \in OutFrame : wire'[c] = Append(wire[c], f) /\ f.kind \notin PushKinds
Flushes(c) ==
    /\ io.pc = "idle" /\ UNCHANGED <<tcp, greet, io>>
    /\ pending[c] # <<>> /\ pending'[c] = Tail(pending[c])
    /\ wire'[c] = IF tcp[c] = "disconnected" THEN wire[c] ELSE Append(wire[c], Head(pending[c]))
Rests(c) == pending'[c] = pending[c] /\ wire'[c] = wire[c]
OutStep == \A c \in Conns : Rests(c) \/ Queues(c) \/ Writes(c) \/ Flushes(c)

LEMMA OneQueues ==
    ASSUME pending \in [Conns -> Seq(OutFrame)], wire' = wire,
           NEW c \in Conns, NEW f \in OutFrame,
           \/ f.kind \notin PushKinds
           \/ \E p \in Rpcs : rpc[p].pc = "push" /\ rpc[p].conn = c,
           pending' = [pending EXCEPT ![c] = Sent(@, c, f)]
    PROVE  OutStep
<1>1. pending'[c] \in {pending[c], Append(pending[c], f)} /\ \A d \in Conns \ {c} : pending'[d] = pending[d]
  BY DEF Sent
<1>2. Rests(c) \/ Queues(c) BY <1>1 DEF Rests, Queues
<1>3. \A d \in Conns \ {c} : Rests(d) BY <1>1 DEF Rests
<1> QED BY <1>2, <1>3 DEF OutStep

LEMMA OneWrites ==
    ASSUME wire \in [Conns -> Seq(OutFrame)], pending' = pending,
           NEW c \in Conns, NEW f \in OutFrame, f.kind \notin PushKinds, InHandshake(c),
           wire' = [wire EXCEPT ![c] = Sent(@, c, f)]
    PROVE  OutStep
<1>1. wire'[c] \in {wire[c], Append(wire[c], f)} /\ \A d \in Conns \ {c} : wire'[d] = wire[d]
  BY DEF Sent
<1>2. Rests(c) \/ Writes(c) BY <1>1 DEF Rests, Writes
<1>3. \A d \in Conns \ {c} : Rests(d) BY <1>1 DEF Rests
<1> QED BY <1>2, <1>3 DEF OutStep

LEMMA NextOutStep == ASSUME RoomInv, [Next]_vars PROVE OutStep
<1>a. /\ pending \in [Conns -> Seq(OutFrame)] /\ wire \in [Conns -> Seq(OutFrame)]
      /\ rpc \in [Rpcs -> Calls]
  BY DEF RoomInv, Types, TypeOK
<1>b. ASSUME UNCHANGED <<pending, wire>> PROVE OutStep
  BY <1>b DEF OutStep, Rests
<1>c. ASSUME NEW k \in OutKinds \ PushKinds, NEW rs \in SUBSET Rooms
      PROVE  Frame(k, rs) \in OutFrame /\ Frame(k, rs).kind \notin PushKinds
  BY <1>c, FrameType DEF Frame
<1>i. ASSUME NEW w \in Workers, worker[w].kind # "none" PROVE worker[w].conn \in Conns
  BY <1>i DEF RoomInv, Types, WorkerOnConn
<1>j. ASSUME io.pc # "idle" PROVE io.conn \in Conns
  BY <1>j DEF RoomInv, Types, IoOnConn
<1>1. CASE VerifyFails
  <2>1. Frame("close", {}) \in OutFrame /\ Frame("close", {}).kind \notin PushKinds
    BY <1>c DEF OutKinds, PushKinds
  <2> QED BY <1>1, <1>a, <1>j, <2>1, OneWrites DEF VerifyFails, IoAt, InHandshake
<1>2. CASE HelloSend
  <2>1. io.answer \in SUBSET Rooms BY DEF RoomInv, Types, TypeOK
  <2>2. Frame("hello", io.answer) \in OutFrame /\ Frame("hello", io.answer).kind \notin PushKinds
    BY <1>c, <2>1 DEF OutKinds, PushKinds
  <2> QED BY <1>2, <1>a, <1>j, <2>2, OneWrites DEF HelloSend, IoAt, InHandshake
<1>3. ASSUME NEW c \in Conns, SendInLoop(c) PROVE OutStep
  <2>1. Flushes(c) BY <1>3, <1>a DEF SendInLoop, Flushes, IoAt, conn_vars, sess_vars
  <2>2. \A d \in Conns \ {c} : Rests(d) BY <1>3, <1>a DEF SendInLoop, Rests
  <2> QED BY <2>1, <2>2 DEF OutStep
<1>4. ASSUME NEW w \in Workers, HandleRequestRoomHistory(w) PROVE OutStep
  <2>1. worker[w].conn \in Conns BY <1>4, <1>i DEF HandleRequestRoomHistory, Running
  <2>2. PICK r \in Rooms, ok \in BOOLEAN :
           pending' = IF ok THEN [pending EXCEPT ![worker[w].conn] =
                                     Sent(@, worker[w].conn, Frame("serverRoomHistory", {r}))]
                            ELSE pending
    BY <1>4 DEF HandleRequestRoomHistory
  <2>3. wire' = wire BY <1>4 DEF HandleRequestRoomHistory
  <2>4. /\ Frame("serverRoomHistory", {r}) \in OutFrame
        /\ Frame("serverRoomHistory", {r}).kind \notin PushKinds
    BY <1>c DEF OutKinds, PushKinds
  <2> QED BY <1>a, <1>b, <2>1, <2>2, <2>3, <2>4, OneQueues
<1>5. ASSUME NEW w \in Workers, CreateRoomRefused(w) PROVE OutStep
  <2>1. Frame("createFailed", {}) \in OutFrame /\ Frame("createFailed", {}).kind \notin PushKinds
    BY <1>c DEF OutKinds, PushKinds
  <2> QED BY <1>5, <1>a, <1>b, <1>i, <2>1, OneQueues DEF CreateRoomRefused, Running
<1>6. ASSUME NEW w \in Workers, DisconnectShutdown(w) PROVE OutStep
  <2>1. Frame("close", {}) \in OutFrame /\ Frame("close", {}).kind \notin PushKinds
    BY <1>c DEF OutKinds, PushKinds
  <2>2. worker[w].conn \in Conns BY <1>6, <1>i DEF DisconnectShutdown, Running
  <2>3. /\ pending' = [pending EXCEPT ![worker[w].conn] = Sent(@, worker[w].conn, Frame("close", {}))]
        /\ wire' = wire
    BY <1>6 DEF DisconnectShutdown
  <2> QED BY <1>a, <2>1, <2>2, <2>3, OneQueues
<1>7. ASSUME NEW p \in Rpcs, BroadcastSend(p) PROVE OutStep
  <2>1. rpc[p].room \in Rooms BY <1>7 DEF BroadcastSend, RpcAt, RoomInv, Types, RpcOnRoom
  <2>2. Frame("serverCreateRoom", {rpc[p].room}) \in OutFrame BY <2>1, FrameType DEF OutKinds
  <2> SUFFICES ASSUME NEW c \in Conns PROVE Rests(c) \/ Queues(c) BY DEF OutStep
  <2>3. wire'[c] = wire[c] BY <1>7 DEF BroadcastSend
  <2>4. CASE \E u \in Users : s_user_ws_conn_map[u] = c
    <3>1. pending'[c] \in {pending[c], Append(pending[c], Frame("serverCreateRoom", {rpc[p].room}))}
      BY <1>7, <2>4 DEF BroadcastSend, Sent
    <3> QED BY <2>2, <2>3, <2>4, <3>1 DEF Rests, Queues
  <2>5. CASE ~ \E u \in Users : s_user_ws_conn_map[u] = c
    BY <1>7, <2>3, <2>5 DEF BroadcastSend, Rests
  <2> QED BY <2>4, <2>5
<1>8. ASSUME NEW p \in Rpcs, PushSend(p) PROVE OutStep
  <2>1. wire' = wire /\ rpc[p].pc = "push" BY <1>8 DEF PushSend, RpcAt
  <2>2. CASE rpc[p].conn = NoConn BY <1>8, <1>b, <2>1, <2>2 DEF PushSend
  <2>3. CASE rpc[p].conn # NoConn
    <3>1. rpc[p].conn \in Conns /\ rpc[p].room \in Rooms
      BY <1>a, <2>1, <2>3 DEF RoomInv, Types, RpcOnRoom, Calls
    <3>2. Frame("serverMessages", {rpc[p].room}) \in OutFrame BY <3>1, FrameType DEF OutKinds
    <3>3. pending' = [pending EXCEPT ![rpc[p].conn] =
                         Sent(@, rpc[p].conn, Frame("serverMessages", {rpc[p].room}))]
      BY <1>8, <2>3 DEF PushSend
    <3> QED BY <1>a, <2>1, <3>1, <3>2, <3>3, OneQueues
  <2> QED BY <2>2, <2>3
<1> QED
  BY <1>1, <1>2, <1>3, <1>4, <1>5, <1>6, <1>7, <1>8, <1>b
  DEF Next, IoHandler, IoEvent, WorkerStep, RpcCall, RpcStep, vars, out_vars,
      InitializeRoomSubscriptions, InitializeFails, OnConnectionUp, OnConnectionDown,
      OnReadHandshake, VerifyUserAuth, InsertConn, HelloAnswered, HelloFails,
      HelloSubscribe, OnReadFrame, TakeTask, HandleClientMessages, CreateRoomDone,
      DisconnectErase, BroadcastCall, AddRoomTopic, BroadcastLock, BroadcastSubscribe,
      BroadcastUnlock, AddRoom, BroadcastRoomCall, PubSubMessage, PubSubUnlock, PushLookup, PushEnd

\* Every step keeps the handshake undisturbed.
LEMMA NextQuietHandshake == ASSUME ToldInv, [Next]_vars PROVE QuietHandshake'
<1> USE DEF ToldInv, RoomInv, Types, TypeOK, IoOnConn, Handshake, QuietHandshake, InHandshake,
            conn_vars, sess_vars, pool_vars
<1>1. ASSUME NEW c \in Conns, OnConnectionUp(c) PROVE QuietHandshake'
  BY <1>1 DEF OnConnectionUp, IoAt
<1>2. ASSUME NEW c \in Conns, OnConnectionDown(c) PROVE QuietHandshake'
  BY <1>2 DEF OnConnectionDown, IoAt
<1>3. ASSUME NEW c \in Conns, OnReadHandshake(c) PROVE QuietHandshake'
  BY <1>3 DEF OnReadHandshake, IoAt, Handler
<1>4. ASSUME UNCHANGED <<tcp, handshake_completed, tasks, worker>>,
             io'.pc # "idle" => io.pc # "idle" /\ io'.conn = io.conn
      PROVE QuietHandshake'
  BY <1>4
<1>5. ASSUME NEW u \in Users, VerifyUserAuth(u) PROVE QuietHandshake'
  BY <1>4, <1>5 DEF VerifyUserAuth, IoAt, IoGo, Handler
<1>6. CASE InsertConn BY <1>4, <1>6 DEF InsertConn, IoAt, IoGo, Handler
<1>7. ASSUME NEW rs \in SUBSET logic_rooms, HelloAnswered(rs) PROVE QuietHandshake'
  BY <1>4, <1>7 DEF HelloAnswered, IoAt, IoGo, Handler
<1>8. ASSUME NEW r \in Rooms, HelloSubscribe(r) PROVE QuietHandshake'
  BY <1>4, <1>8 DEF HelloSubscribe, IoAt, IoGo, Handler
<1>9. CASE VerifyFails \/ HelloFails \/ HelloSend
  BY <1>4, <1>9 DEF VerifyFails, HelloFails, HelloSend, IoIdle, Handler
<1>10. ASSUME NEW c \in Conns, NEW k \in ClientFrames, OnReadFrame(c, k) PROVE QuietHandshake'
  <2>1. /\ io.pc = "idle" /\ handshake_completed[c] /\ tasks' = Append(tasks, [conn |-> c, kind |-> k])
        /\ UNCHANGED <<tcp, handshake_completed, io, worker>>
    BY <1>10 DEF OnReadFrame, IoAt
  <2>2. [conn |-> c, kind |-> k] \in Task BY CometAssumption DEF Task
  <2>3. \A i \in DOMAIN tasks' : (i \in DOMAIN tasks /\ tasks'[i] = tasks[i]) \/ tasks'[i].conn = c
    BY <2>1, <2>2
  <2> QED BY <2>1, <2>3
<1>11. ASSUME NEW w \in Workers, TakeTask(w) PROVE QuietHandshake'
  <2>1. /\ tasks # <<>> /\ worker' = [worker EXCEPT ![w] = Head(tasks)] /\ tasks' = Tail(tasks)
        /\ UNCHANGED <<tcp, handshake_completed, io>>
    BY <1>11 DEF TakeTask
  <2>2. /\ 1 \in DOMAIN tasks /\ Head(tasks) = tasks[1]
        /\ \A i \in DOMAIN tasks' : i + 1 \in DOMAIN tasks /\ tasks'[i] = tasks[i + 1]
    BY <2>1
  <2> QED BY <2>1, <2>2
<1>12. ASSUME NEW w \in Workers, Finish(w), UNCHANGED <<tcp, handshake_completed, io, tasks>>
       PROVE QuietHandshake'
  BY <1>12 DEF Finish, NoTask
<1>13. ASSUME NEW w \in Workers, DisconnectShutdown(w) PROVE QuietHandshake'
  <2>1. worker[w].conn \in Conns /\ worker[w].kind = "close"
    BY <1>13 DEF DisconnectShutdown, Running, WorkerOnConn
  <2>2. /\ tcp' = [tcp EXCEPT ![worker[w].conn] = IF @ = "connected" THEN "disconnecting" ELSE @]
        /\ worker' = [worker EXCEPT ![w] = [conn |-> worker[w].conn, kind |-> "erase"]]
        /\ UNCHANGED <<handshake_completed, io, tasks>>
    BY <1>13 DEF DisconnectShutdown
  <2> QED BY <2>1, <2>2
<1>14. ASSUME NEW w \in Workers, \/ HandleClientMessages(w) \/ HandleRequestRoomHistory(w)
                                 \/ CreateRoomRefused(w) \/ DisconnectErase(w)
                                 \/ \E r \in Rooms : CreateRoomDone(w, r)
       PROVE QuietHandshake'
  BY <1>12, <1>14 DEF HandleClientMessages, HandleRequestRoomHistory, CreateRoomRefused,
                      DisconnectErase, CreateRoomDone
<1>15. ASSUME UNCHANGED <<tcp, handshake_completed, tasks, worker, io>> PROVE QuietHandshake'
  BY <1>15
<1> QED
  BY <1>1, <1>2, <1>3, <1>5, <1>6, <1>7, <1>8, <1>9, <1>10, <1>11, <1>13, <1>14, <1>15
  DEF Next, IoHandler, IoEvent, WorkerStep, RpcCall, RpcStep, vars,
      InitializeRoomSubscriptions, InitializeFails, SendInLoop, BroadcastCall, AddRoomTopic,
      BroadcastLock, BroadcastSubscribe, BroadcastUnlock, AddRoom, BroadcastSend,
      BroadcastRoomCall, PubSubMessage, PubSubUnlock, PushLookup, PushSend, PushEnd

\* The outcome of a greeting is final, and a known connection stays known.
LEMMA GreetingIsFinal ==
    ASSUME RoomInv, [Next]_vars, NEW c \in Conns
    PROVE  /\ greet[c] # "no" => greet'[c] = greet[c]
           /\ Known(c) => Known(c)'
<1> USE DEF RoomInv, Types, TypeOK, IoOnConn, Handshake, Known, sess_vars
<1>1. CASE HelloFails BY <1>1 DEF HelloFails, IoAt, IoIdle, Handler
<1>2. CASE HelloSend BY <1>2 DEF HelloSend, IoAt, IoIdle, Handler
<1>3. ASSUME NEW rs, HelloAnswered(rs)
      PROVE  greet' = greet /\ io'.conn = io.conn /\ io'.pc \in {"hello", "subscribe"}
  BY <1>3 DEF HelloAnswered, IoGo, Handler
<1>4. ASSUME NEW r \in Rooms, HelloSubscribe(r)
      PROVE  greet' = greet /\ io'.conn = io.conn /\ io'.pc \in {"hello", "subscribe"}
  BY <1>4 DEF HelloSubscribe, IoGo, Handler
<1>5. ASSUME NEW d, NEW u, OnReadHandshake(d) \/ VerifyUserAuth(u) \/ VerifyFails \/ InsertConn
      PROVE  greet' = greet /\ io.pc \notin {"hello", "subscribe"}
  BY <1>5 DEF OnReadHandshake, VerifyUserAuth, VerifyFails, InsertConn, IoAt
<1> QED
  BY <1>1, <1>2, <1>3, <1>4, <1>5
  DEF Next, IoHandler, IoEvent, WorkerStep, RpcCall, RpcStep, vars,
      InitializeRoomSubscriptions, InitializeFails, OnConnectionUp, OnConnectionDown,
      OnReadFrame, SendInLoop, TakeTask, HandleClientMessages, HandleRequestRoomHistory,
      CreateRoomDone, CreateRoomRefused, DisconnectShutdown, DisconnectErase,
      BroadcastCall, AddRoomTopic, BroadcastLock, BroadcastUnlock, AddRoom, BroadcastSend,
      BroadcastSubscribe, BroadcastRoomCall, PubSubMessage, PubSubUnlock, PushLookup, PushSend, PushEnd

\* What was written stays written, and at most one frame comes after it.
LEMMA WireGrows ==
    ASSUME RoomInv, OutStep, NEW c \in Conns
    PROVE  /\ Len(wire[c]) \in Nat /\ DOMAIN wire[c] = 1..Len(wire[c])
           /\ \A i \in DOMAIN wire[c] : i \in DOMAIN wire'[c] /\ wire'[c][i] = wire[c][i]
           /\ \A i \in DOMAIN wire'[c] \ DOMAIN wire[c] : i = Len(wire[c]) + 1
           /\ wire'[c] = wire[c] => DOMAIN wire'[c] = DOMAIN wire[c]
<1>1. wire[c] \in Seq(OutFrame) /\ pending[c] \in Seq(OutFrame) BY DEF RoomInv, Types, TypeOK
<1>2. \/ wire'[c] = wire[c]
      \/ \E f \in OutFrame : wire'[c] = Append(wire[c], f)
  <2>1. pending[c] # <<>> => Head(pending[c]) \in OutFrame BY <1>1
  <2>2. CASE Flushes(c) BY <2>1, <2>2 DEF Flushes
  <2>3. CASE Writes(c) BY <2>3 DEF Writes
  <2>4. CASE Rests(c) \/ Queues(c) BY <2>4 DEF Rests, Queues
  <2> QED BY <2>2, <2>3, <2>4 DEF OutStep
<1>3. CASE wire'[c] = wire[c] BY <1>1, <1>3
<1>4. CASE \E f \in OutFrame : wire'[c] = Append(wire[c], f) BY <1>1, <1>4
<1> QED BY <1>2, <1>3, <1>4

\* Every step queues what job sends only for known connections.
LEMMA NextSentToKnown == ASSUME ToldInv, [Next]_vars PROVE SentToKnown'
<1> USE DEF ToldInv
<1>a. OutStep BY NextOutStep
<1>b. \A c \in Conns : Known(c) => Known(c)' BY GreetingIsFinal
<1>c. rpc \in [Rpcs -> Calls] /\ \A p \in Rpcs : rpc[p].conn \in Conns \cup {NoConn}
  BY DEF RoomInv, Types, TypeOK, Calls
<1>d. \A c \in Conns, u \in Users : s_user_ws_conn_map[u] = c => Known(c)
  BY CometAssumption DEF RoomInv, MapOwner, Known
<1>1. ASSUME NEW c \in Conns, NEW f \in Frames(pending'[c]), f.kind \in PushKinds PROVE Known(c)
  <2>1. pending[c] \in Seq(OutFrame) BY DEF RoomInv, Types, TypeOK
  <2>2. ASSUME f \in Frames(pending[c]) PROVE Known(c) BY <1>1, <2>2 DEF SentToKnown
  <2>3. CASE Rests(c) \/ Writes(c) BY <1>1, <2>2, <2>3 DEF Rests, Writes
  <2>4. CASE Flushes(c) BY <1>1, <2>1, <2>2, <2>4, FramesOf DEF Flushes
  <2>5. CASE Queues(c)
    <3>1. PICK g \in OutFrame :
             /\ pending'[c] = Append(pending[c], g)
             /\ g.kind \in PushKinds => \/ \E u \in Users : s_user_ws_conn_map[u] = c
                                        \/ \E p \in Rpcs : rpc[p].pc = "push" /\ rpc[p].conn = c
      BY <2>5 DEF Queues
    <3>2. f \in Frames(pending[c]) \/ f = g BY <1>1, <2>1, <3>1, FramesOf
    <3>3. CASE f = g
      <4>1. CASE \E u \in Users : s_user_ws_conn_map[u] = c BY <1>d, <4>1
      <4>2. CASE \E p \in Rpcs : rpc[p].pc = "push" /\ rpc[p].conn = c
        BY <4>2, CometAssumption DEF SentToKnown
      <4> QED BY <1>1, <3>1, <3>3, <4>1, <4>2
    <3> QED BY <2>2, <3>2, <3>3
  <2> QED BY <1>a, <2>3, <2>4, <2>5 DEF OutStep
<1>2. ASSUME NEW p \in Rpcs, rpc'[p].pc = "push", rpc'[p].conn # NoConn
      PROVE  rpc'[p].conn \in Conns /\ Known(rpc'[p].conn)
  <2>1. ASSUME rpc'[p] = rpc[p] PROVE rpc'[p].conn \in Conns /\ Known(rpc'[p].conn)
    BY <1>2, <1>c, <2>1 DEF SentToKnown
  <2>2. ASSUME NEW u \in Users, PushLookup(p, u) PROVE rpc'[p].conn \in Conns /\ Known(rpc'[p].conn)
    <3>1. rpc'[p].conn = s_user_ws_conn_map[u] BY <1>c, <2>2 DEF PushLookup, Go, Call
    <3>2. s_user_ws_conn_map[u] \in Conns BY <1>2, <3>1 DEF RoomInv, Types, TypeOK
    <3> QED BY <1>d, <3>1, <3>2
  <2>3. ASSUME NEW q \in Rpcs, NEW u \in Users, q # p, PushLookup(q, u) PROVE rpc'[p] = rpc[p]
    BY <1>c, <2>3 DEF PushLookup, Go
  <2>4. ASSUME NEW q \in Rpcs,
               \/ RpcCall(q) \/ AddRoomTopic(q) \/ BroadcastLock(q) \/ BroadcastUnlock(q)
               \/ \E u \in Users : BroadcastSubscribe(q, u)
               \/ AddRoom(q) \/ BroadcastSend(q) \/ PubSubMessage(q) \/ PubSubUnlock(q) \/ PushSend(q) \/ PushEnd(q)
        PROVE rpc'[p] = rpc[p]
    <3>1. /\ \A x \in Rpcs \ {q} : rpc'[x] = rpc[x]
          /\ rpc'[q].pc # "push"
      BY <1>c, <2>4 DEF RpcCall, BroadcastCall, BroadcastRoomCall, AddRoomTopic, BroadcastLock,
         BroadcastUnlock, BroadcastSubscribe, AddRoom, BroadcastSend, PubSubMessage, PubSubUnlock, PushSend,
         PushEnd, Goto, Go, Call
    <3> QED BY <1>2, <3>1
  <2>5. rpc'[p] = rpc[p] \/ \E u \in Users : PushLookup(p, u)
    BY <2>3, <2>4
    DEF Next, IoHandler, IoEvent, WorkerStep, RpcStep, vars,
        InitializeRoomSubscriptions, InitializeFails, OnConnectionUp, OnConnectionDown,
        OnReadHandshake, VerifyUserAuth, VerifyFails, InsertConn, HelloAnswered, HelloFails,
        HelloSubscribe, HelloSend, OnReadFrame, SendInLoop, TakeTask, HandleClientMessages,
        HandleRequestRoomHistory, CreateRoomDone, CreateRoomRefused, DisconnectShutdown,
        DisconnectErase
  <2> QED BY <2>1, <2>2, <2>5
<1>3. \A c \in Conns : \A f \in Frames(pending'[c]) : f.kind \in PushKinds => Known(c)'
  BY <1>1, <1>b
<1>4. \A p \in Rpcs : rpc'[p].pc = "push" /\ rpc'[p].conn # NoConn => Known(rpc[p].conn)'
  BY <1>2, <1>b DEF Known
<1> QED BY <1>3, <1>4 DEF SentToKnown, Frames

\* A connection becomes greeted by the step that writes its hello frame.
LEMMA NextGreeted == ASSUME ToldInv, [Next]_vars PROVE Greeted'
<1> USE DEF ToldInv
<1>a. OutStep BY NextOutStep
<1> SUFFICES ASSUME NEW c \in Conns, greet'[c] = "sent"
             PROVE  \E j \in DOMAIN wire'[c] : wire'[c][j].kind = "hello"
  BY DEF Greeted
<1>1. CASE greet[c] = "sent" BY <1>1, <1>a, WireGrows DEF Greeted
<1>2. CASE HelloSend /\ c = io.conn
  <2>1. tcp[c] = "connected" BY <1>2 DEF HelloSend, IoAt, QuietHandshake, InHandshake
  <2>2. wire[c] \in Seq(OutFrame) /\ wire \in [Conns -> Seq(OutFrame)] /\ io.answer \in SUBSET Rooms
    BY DEF RoomInv, Types, TypeOK
  <2>3. wire'[c] = Append(wire[c], Frame("hello", io.answer))
    BY <1>2, <2>1, <2>2 DEF HelloSend, Sent
  <2>4. Frame("hello", io.answer) \in OutFrame BY <2>2, FrameType DEF OutKinds
  <2>5. Len(wire[c]) + 1 \in DOMAIN wire'[c] /\ wire'[c][Len(wire[c]) + 1] = Frame("hello", io.answer)
    BY <2>2, <2>3, <2>4
  <2> QED BY <2>5 DEF Frame
<1>3. greet[c] = "sent" \/ (HelloSend /\ c = io.conn)
  <2>1. CASE HelloSend BY <2>1 DEF HelloSend, RoomInv, Types, TypeOK
  <2>2. CASE HelloFails BY <2>2 DEF HelloFails, RoomInv, Types, TypeOK
  <2> QED BY <2>1, <2>2
    DEF Next, IoHandler, IoEvent, WorkerStep, RpcCall, RpcStep, vars, sess_vars,
      InitializeRoomSubscriptions, InitializeFails, OnConnectionUp, OnConnectionDown,
      OnReadHandshake, VerifyUserAuth, VerifyFails, InsertConn, HelloAnswered, HelloSubscribe,
      OnReadFrame, SendInLoop, TakeTask, HandleClientMessages, HandleRequestRoomHistory,
      CreateRoomDone, CreateRoomRefused, DisconnectShutdown, DisconnectErase,
      BroadcastCall, AddRoomTopic, BroadcastLock, BroadcastUnlock, AddRoom, BroadcastSend,
      BroadcastSubscribe, BroadcastRoomCall, PubSubMessage, PubSubUnlock, PushLookup, PushSend, PushEnd
<1> QED BY <1>1, <1>2, <1>3

\* The loop writes what job sent only when no handshake runs: the connection has
\* been greeted by then, or its greeting has failed.
LEMMA NextHelloFirst == ASSUME ToldInv, [Next]_vars PROVE HelloFirst'
<1> USE DEF ToldInv
<1>a. OutStep BY NextOutStep
<1> SUFFICES ASSUME NEW c \in Conns, NEW i \in DOMAIN wire'[c], wire'[c][i].kind \in PushKinds,
                    greet'[c] # "failed"
             PROVE  \E j \in 1..(i - 1) : wire'[c][j].kind = "hello"
  BY DEF HelloFirst, PushKinds
<1>b. /\ Len(wire[c]) \in Nat /\ DOMAIN wire[c] = 1..Len(wire[c])
      /\ \A j \in DOMAIN wire[c] : j \in DOMAIN wire'[c] /\ wire'[c][j] = wire[c][j]
      /\ \A j \in DOMAIN wire'[c] \ DOMAIN wire[c] : j = Len(wire[c]) + 1
      /\ wire'[c] = wire[c] => DOMAIN wire'[c] = DOMAIN wire[c]
  BY <1>a, WireGrows
<1>c. greet[c] # "no" => greet'[c] = greet[c] BY GreetingIsFinal
<1>1. CASE i \in DOMAIN wire[c]
  <2>1. wire[c][i].kind \in PushKinds /\ greet[c] # "failed" BY <1>1, <1>b, <1>c
  <2>2. PICK j \in 1..(i - 1) : wire[c][j].kind = "hello"
    BY <1>1, <2>1 DEF HelloFirst, PushKinds
  <2>3. j \in DOMAIN wire[c] BY <1>1, <1>b
  <2> QED BY <1>b, <2>2, <2>3
<1>2. CASE i \notin DOMAIN wire[c]
  <2>1. i = Len(wire[c]) + 1 /\ wire'[c] # wire[c] BY <1>2, <1>b
  <2>2. wire[c] \in Seq(OutFrame) /\ pending[c] \in Seq(OutFrame) BY DEF RoomInv, Types, TypeOK
  <2>3. ~Writes(c) BY <2>1, <2>2 DEF Writes
  <2>4. Flushes(c) BY <1>a, <2>1, <2>3 DEF OutStep, Rests, Queues
  <2>5. wire'[c][i] = Head(pending[c]) /\ Head(pending[c]) \in Frames(pending[c])
    BY <2>1, <2>2, <2>4, FramesOf DEF Flushes
  <2>6. Known(c) BY <2>5 DEF SentToKnown
  <2>7. greet[c] # "no" BY <2>4, <2>6 DEF Flushes, Known
  <2>8. greet[c] = "sent" BY <1>c, <2>7 DEF RoomInv, Types, TypeOK
  <2>9. PICK j \in DOMAIN wire[c] : wire[c][j].kind = "hello" BY <2>8 DEF Greeted
  <2> QED BY <1>b, <2>1, <2>9
<1> QED BY <1>1, <1>2

\* While the connection is open, a frame on its way is not lost.
LEMMA ToldGrows ==
    ASSUME RoomInv, OutStep, NEW c \in Conns, tcp[c] = "connected"
    PROVE  OnItsWay(c) \subseteq OnItsWay(c)' /\ Told(c) \subseteq Told(c)'
<1>1. wire[c] \in Seq(OutFrame) /\ pending[c] \in Seq(OutFrame) BY DEF RoomInv, Types, TypeOK
<1>2. CASE Rests(c) BY <1>2 DEF Rests, OnItsWay, Told
<1>3. CASE Queues(c)
  <2>1. PICK f \in OutFrame : pending'[c] = Append(pending[c], f) BY <1>3 DEF Queues
  <2>2. Frames(pending'[c]) = Frames(pending[c]) \cup {f} BY <1>1, <2>1, FramesOf
  <2>3. wire'[c] = wire[c] BY <1>3 DEF Queues
  <2>4. OnItsWay(c) \subseteq OnItsWay(c)' BY <2>2, <2>3 DEF OnItsWay
  <2> QED BY <2>4 DEF Told
<1>4. CASE Writes(c)
  <2>1. PICK f \in OutFrame : wire'[c] = Append(wire[c], f) BY <1>4 DEF Writes
  <2>2. Frames(wire'[c]) = Frames(wire[c]) \cup {f} BY <1>1, <2>1, FramesOf
  <2>3. pending'[c] = pending[c] BY <1>4 DEF Writes
  <2>4. OnItsWay(c) \subseteq OnItsWay(c)' BY <2>2, <2>3 DEF OnItsWay
  <2> QED BY <2>4 DEF Told
<1>5. CASE Flushes(c)
  <2>1. /\ pending[c] # <<>> /\ pending'[c] = Tail(pending[c])
        /\ wire'[c] = Append(wire[c], Head(pending[c]))
    BY <1>5 DEF Flushes
  <2>2. Head(pending[c]) \in OutFrame BY <1>1, <2>1
  <2>3. Frames(wire'[c]) = Frames(wire[c]) \cup {Head(pending[c])} BY <1>1, <2>1, <2>2, FramesOf
  <2>4. Frames(pending[c]) \subseteq {Head(pending[c])} \cup Frames(Tail(pending[c]))
    <3> SUFFICES ASSUME NEW i \in DOMAIN pending[c], i # 1
                 PROVE  pending[c][i] \in Frames(Tail(pending[c]))
      BY <1>1, <2>1 DEF Frames
    <3>1. i - 1 \in DOMAIN Tail(pending[c]) /\ Tail(pending[c])[i - 1] = pending[c][i]
      BY <1>1, <2>1
    <3> QED BY <3>1 DEF Frames
  <2>5. OnItsWay(c) \subseteq OnItsWay(c)' BY <2>1, <2>3, <2>4 DEF OnItsWay
  <2> QED BY <2>5 DEF Told
<1> QED BY <1>2, <1>3, <1>4, <1>5 DEF OutStep

\* What a connection has been told, or has still to come, it keeps.
LEMMA ToldStays ==
    ASSUME ToldInv, [Next]_vars, NEW c \in Conns, tcp[c] = "connected",
           NEW r \in logic_rooms, ToldOrToCome(c, r)
    PROVE  ToldOrToCome(c, r)'
<1> USE DEF ToldInv
<1>a. OutStep BY NextOutStep
<1>b. Told(c) \subseteq Told(c)' BY <1>a, ToldGrows
<1>c. greet[c] # "no" => greet'[c] = greet[c] BY GreetingIsFinal
<1>d. /\ io.answer \in SUBSET Rooms /\ skipped \in [Conns -> SUBSET Rooms]
      /\ greet \in [Conns -> {"no", "sent", "failed"}]
  BY DEF RoomInv, Types, TypeOK
<1>e. io.pc # "idle" => io.conn \in Conns /\ greet[io.conn] = "no"
  BY DEF RoomInv, Types, IoOnConn, Handshake
<1>1. ASSUME skipped' = skipped,
             io.conn = c /\ io.pc \in {"hello", "subscribe"} =>
                io'.pc = io.pc /\ io'.conn = io.conn /\ io'.answer = io.answer
      PROVE  ToldOrToCome(c, r)'
  BY <1>1, <1>b, <1>c DEF ToldOrToCome
<1>2. ASSUME NEW rs \in SUBSET logic_rooms, HelloAnswered(rs) PROVE ToldOrToCome(c, r)'
  <2>1. /\ io'.pc = "subscribe" /\ io'.conn = io.conn /\ io'.answer = rs
        /\ skipped' = [skipped EXCEPT ![io.conn] = logic_rooms \ rs]
        /\ io.conn \in Conns /\ io.pc = "hello"
    BY <1>2, <1>e DEF HelloAnswered, IoAt, IoGo, Handler
  <2>2. CASE io.conn = c BY <2>1, <2>2, <1>d DEF ToldOrToCome
  <2>3. CASE io.conn # c
    <3>1. skipped'[c] = skipped[c] BY <1>d, <2>1, <2>3
    <3> QED BY <1>b, <1>c, <2>1, <2>3, <3>1 DEF ToldOrToCome
  <2> QED BY <2>2, <2>3
<1>3. CASE HelloFails
  <2>1. /\ greet' = [greet EXCEPT ![io.conn] = "failed"] /\ io.pc = "hello" /\ skipped' = skipped
    BY <1>3 DEF HelloFails, IoAt
  <2>2. CASE io.conn = c
    <3>1. greet'[c] = "failed" BY <2>1, <2>2, <1>d
    <3> QED BY <3>1 DEF ToldOrToCome
  <2>3. CASE io.conn # c BY <1>1, <2>1, <2>3
  <2> QED BY <2>2, <2>3
<1>4. CASE HelloSend
  <2>1. skipped' = skipped /\ io.pc = "subscribe" BY <1>4 DEF HelloSend, IoAt
  <2>2. CASE io.conn = c
    <3>1. wire[c] \in Seq(OutFrame) /\ wire \in [Conns -> Seq(OutFrame)] BY DEF RoomInv, Types, TypeOK
    <3>2. wire'[c] = Append(wire[c], Frame("hello", io.answer))
      BY <1>4, <2>2, <3>1 DEF HelloSend, Sent
    <3>3. Frame("hello", io.answer) \in OutFrame BY <1>d, FrameType DEF OutKinds
    <3>4. Frame("hello", io.answer) \in OnItsWay(c)'
      BY <3>1, <3>2, <3>3, FramesOf DEF OnItsWay
    <3>5. io.answer \subseteq Told(c)' BY <3>4 DEF Told, Frame
    <3>6. greet[c] # "failed" BY <1>e, <2>1, <2>2
    <3> QED BY <1>b, <2>1, <2>2, <3>5, <3>6 DEF ToldOrToCome
  <2>3. CASE io.conn # c BY <1>1, <2>1, <2>3
  <2> QED BY <2>2, <2>3
<1>5. ASSUME NEW x \in Rooms, HelloSubscribe(x) PROVE ToldOrToCome(c, r)'
  BY <1>1, <1>5 DEF HelloSubscribe, IoAt, IoGo, Handler, sess_vars
<1>6. ASSUME NEW d, NEW u, OnReadHandshake(d) \/ VerifyUserAuth(u) \/ VerifyFails \/ InsertConn
      PROVE  ToldOrToCome(c, r)'
  BY <1>1, <1>6 DEF OnReadHandshake, VerifyUserAuth, VerifyFails, InsertConn, IoAt, sess_vars
<1>7. ASSUME skipped' = skipped, io' = io PROVE ToldOrToCome(c, r)' BY <1>1, <1>7
<1> QED
  BY <1>2, <1>3, <1>4, <1>5, <1>6, <1>7
  DEF Next, IoHandler, IoEvent, WorkerStep, RpcCall, RpcStep, vars, sess_vars,
      InitializeRoomSubscriptions, InitializeFails, OnConnectionUp, OnConnectionDown,
      OnReadFrame, SendInLoop, TakeTask, HandleClientMessages, HandleRequestRoomHistory,
      CreateRoomDone, CreateRoomRefused, DisconnectShutdown, DisconnectErase,
      BroadcastCall, AddRoomTopic, BroadcastLock, BroadcastUnlock, AddRoom, BroadcastSend,
      BroadcastSubscribe, BroadcastRoomCall, PubSubMessage, PubSubUnlock, PushLookup, PushSend, PushEnd

\* A user comes online by InsertConn, whose connection asks logic afterwards.
LEMMA MapChanges ==
    ASSUME RoomInv, [Next]_vars, NEW u \in Users
    PROVE  \/ s_user_ws_conn_map'[u] \in {s_user_ws_conn_map[u], NoConn}
           \/ /\ s_user_ws_conn_map'[u] = io'.conn /\ io'.pc = "hello"
<1>1. CASE InsertConn
  BY <1>1 DEF InsertConn, IoGo, Handler, IoAt, RoomInv, Types, TypeOK, IoOnConn
<1>2. ASSUME NEW w \in Workers, DisconnectErase(w)
      PROVE  s_user_ws_conn_map'[u] \in {s_user_ws_conn_map[u], NoConn}
  BY <1>2 DEF DisconnectErase, RoomInv, Types, TypeOK
<1> QED
  BY <1>1, <1>2
  DEF Next, IoHandler, IoEvent, WorkerStep, RpcCall, RpcStep, vars, map_vars,
      InitializeRoomSubscriptions, InitializeFails, OnConnectionUp, OnConnectionDown,
      OnReadHandshake, VerifyUserAuth, VerifyFails, HelloAnswered, HelloFails, HelloSubscribe,
      HelloSend, OnReadFrame, SendInLoop, TakeTask, HandleClientMessages,
      HandleRequestRoomHistory, CreateRoomDone, CreateRoomRefused, DisconnectShutdown,
      BroadcastCall, AddRoomTopic, BroadcastLock, BroadcastUnlock, AddRoom, BroadcastSend,
      BroadcastSubscribe, BroadcastRoomCall, PubSubMessage, PubSubUnlock, PushLookup, PushSend, PushEnd

\* A connection that has had its handshake does not become connected again.
LEMMA StaysClosed ==
    ASSUME RoomInv, QuietHandshake, [Next]_vars, NEW c \in Conns, handshake_completed[c],
           tcp'[c] = "connected"
    PROVE  tcp[c] = "connected"
<1> USE DEF RoomInv, Types, TypeOK, conn_vars
<1>1. ASSUME NEW d \in Conns, OnConnectionUp(d) PROVE tcp[c] = "connected"
  BY <1>1 DEF OnConnectionUp, QuietHandshake
<1>2. ASSUME NEW d \in Conns, OnConnectionDown(d) PROVE tcp[c] = "connected"
  BY <1>2 DEF OnConnectionDown
<1>3. ASSUME NEW w \in Workers, DisconnectShutdown(w) PROVE tcp[c] = "connected"
  <2>1. tcp' = [tcp EXCEPT ![worker[w].conn] = IF @ = "connected" THEN "disconnecting" ELSE @]
    BY <1>3 DEF DisconnectShutdown
  <2> QED BY <2>1
<1> QED
  BY <1>1, <1>2, <1>3
  DEF Next, IoHandler, IoEvent, WorkerStep, RpcCall, RpcStep, vars,
      InitializeRoomSubscriptions, InitializeFails, OnReadHandshake, VerifyUserAuth,
      VerifyFails, InsertConn, HelloAnswered, HelloFails, HelloSubscribe, HelloSend,
      OnReadFrame, SendInLoop, TakeTask, HandleClientMessages, HandleRequestRoomHistory,
      CreateRoomDone, CreateRoomRefused, DisconnectErase,
      BroadcastCall, AddRoomTopic, BroadcastLock, BroadcastUnlock, AddRoom, BroadcastSend,
      BroadcastSubscribe, BroadcastRoomCall, PubSubMessage, PubSubUnlock, PushLookup, PushSend, PushEnd

\* A room becomes announced by BroadcastSend.
LEMMA AnnouncedBySend ==
    ASSUME RoomInv, [Next]_vars, NEW r \in Announced'
    PROVE  r \in Announced \/ \E p \in Rpcs : BroadcastSend(p) /\ rpc[p].room = r
<1>a. rpc \in [Rpcs -> Calls] BY DEF RoomInv, Types, TypeOK
<1>1. PICK p \in Rpcs : rpc'[p].pc = "announced" /\ rpc'[p].room = r BY DEF Announced
<1>2. ASSUME NEW q \in Rpcs,
             \/ RpcCall(q) \/ AddRoomTopic(q) \/ BroadcastLock(q) \/ BroadcastUnlock(q)
             \/ \E u \in Users : BroadcastSubscribe(q, u) \/ PushLookup(q, u)
             \/ AddRoom(q) \/ PubSubMessage(q) \/ PubSubUnlock(q) \/ PushSend(q) \/ PushEnd(q)
      PROVE  rpc'[p] = rpc[p]
  <2>1. /\ \A x \in Rpcs \ {q} : rpc'[x] = rpc[x]
        /\ rpc'[q].pc # "announced"
    BY <1>2, <1>a DEF RpcCall, BroadcastCall, BroadcastRoomCall, AddRoomTopic, BroadcastLock,
       BroadcastUnlock, BroadcastSubscribe, AddRoom, PubSubMessage, PubSubUnlock, PushLookup, PushSend,
       PushEnd, Goto, Go, Call
  <2> QED BY <1>1, <2>1
<1>3. ASSUME NEW q \in Rpcs, BroadcastSend(q)
      PROVE  rpc'[p] = rpc[p] \/ (p = q /\ rpc[p].room = r)
  BY <1>1, <1>3, <1>a, GotoStep DEF BroadcastSend, RpcSteps
<1>4. rpc'[p] = rpc[p] \/ (BroadcastSend(p) /\ rpc[p].room = r)
  BY <1>2, <1>3
  DEF Next, IoHandler, IoEvent, WorkerStep, RpcStep, vars,
      InitializeRoomSubscriptions, InitializeFails, OnConnectionUp, OnConnectionDown,
      OnReadHandshake, VerifyUserAuth, VerifyFails, InsertConn, HelloAnswered, HelloFails,
      HelloSubscribe, HelloSend, OnReadFrame, SendInLoop, TakeTask, HandleClientMessages,
      HandleRequestRoomHistory, CreateRoomDone, CreateRoomRefused, DisconnectShutdown,
      DisconnectErase
<1> QED BY <1>1, <1>4 DEF Announced

\* Every step leaves the announced rooms told, or to come with the hello frame.
LEMMA NextTelling == ASSUME ToldInv, [Next]_vars PROVE Telling'
<1> USE DEF ToldInv
<1> SUFFICES ASSUME NEW u \in OnlineUsers', NEW r \in Announced',
                    tcp'[s_user_ws_conn_map'[u]] = "connected"
             PROVE  ToldOrToCome(s_user_ws_conn_map[u], r)'
  BY DEF Telling
<1>1. u \in Users /\ s_user_ws_conn_map'[u] # NoConn BY DEF OnlineUsers
<1>2. CASE s_user_ws_conn_map'[u] = io'.conn /\ io'.pc = "hello"
  BY <1>2 DEF ToldOrToCome
<1>3. CASE s_user_ws_conn_map'[u] = s_user_ws_conn_map[u]
  <2>1. PICK c \in Conns : c = s_user_ws_conn_map[u] /\ c = s_user_ws_conn_map'[u]
    BY <1>1, <1>3 DEF RoomInv, Types, TypeOK
  <2>0. u \in OnlineUsers BY <1>1, <1>3 DEF OnlineUsers
  <2>2. handshake_completed[c]
    <3>1. user_id[c] = u BY <1>1, <1>3, <2>1 DEF RoomInv, MapOwner
    <3> QED BY <1>1, <2>1, <3>1, CometAssumption DEF RoomInv, Handshake
  <2>3. tcp[c] = "connected" BY <1>3, <2>1, <2>2, StaysClosed
  <2>4. CASE r \in Announced
    <3>1. r \in logic_rooms BY <2>4 DEF Announced, RoomInv, Broadcasting, InTopic
    <3>2. ToldOrToCome(c, r) BY <2>0, <2>1, <2>3, <2>4 DEF Telling
    <3>3. ToldOrToCome(c, r)' BY <2>1, <2>3, <3>1, <3>2, ToldStays
    <3> QED BY <2>1, <3>3 DEF ToldOrToCome
  <2>5. ASSUME NEW p \in Rpcs, BroadcastSend(p), rpc[p].room = r PROVE ToldOrToCome(s_user_ws_conn_map[u], r)'
    <3> DEFINE f == Frame("serverCreateRoom", {r})
    <3>1. r \in Rooms /\ pending[c] \in Seq(OutFrame)
      BY <2>1, <2>5 DEF BroadcastSend, RpcAt, RoomInv, Types, TypeOK, RpcOnRoom
    <3>2. f \in OutFrame BY <3>1, FrameType DEF OutKinds
    <3>3. pending'[c] = Append(pending[c], f) BY <1>1, <2>1, <2>3, <2>5 DEF BroadcastSend, Sent
    <3>4. f \in Frames(pending'[c])
      <4> HIDE DEF f
      <4> QED BY <3>1, <3>2, <3>3, FramesOf
    <3>5. f.kind = "serverCreateRoom" /\ r \in f.rooms BY DEF Frame
    <3>6. r \in Told(s_user_ws_conn_map[u])'
      <4>1. f \in OnItsWay(s_user_ws_conn_map[u])' BY <2>1, <3>4 DEF OnItsWay
      <4> HIDE DEF f
      <4> QED BY <3>5, <4>1 DEF Told
    <3> QED BY <3>6 DEF ToldOrToCome
  <2> QED BY <2>4, <2>5, AnnouncedBySend
<1> QED BY <1>1, <1>2, <1>3, MapChanges

LEMMA ToldInvHolds == Spec => []ToldInv
<1>1. Init => ToldInv
  <2> SUFFICES ASSUME Init PROVE ToldInv OBVIOUS
  <2>1. RoomInv BY InitRoomInv
  <2>2. \A c \in Conns : pending[c] = <<>> /\ wire[c] = <<>> BY DEF Init
  <2>3. QuietHandshake BY DEF Init, QuietHandshake, InHandshake, IoIdle, Handler, NoTask
  <2>4. SentToKnown
    <3>1. ASSUME NEW c \in Conns PROVE Frames(pending[c]) = {}
      <4>1. pending[c] = <<>> BY <2>2
      <4> QED BY <4>1 DEF Frames
    <3>2. \A p \in Rpcs : rpc[p].pc # "push" BY DEF Init, NoCall, Call
    <3> QED BY <3>1, <3>2 DEF SentToKnown
  <2>5. Greeted BY DEF Init, Greeted
  <2>6. HelloFirst BY <2>2 DEF HelloFirst
  <2>7. Telling BY DEF Init, Telling, OnlineUsers
  <2> QED BY <2>1, <2>3, <2>4, <2>5, <2>6, <2>7 DEF ToldInv
<1>2. ToldInv /\ [Next]_vars => ToldInv'
  <2> SUFFICES ASSUME ToldInv, [Next]_vars PROVE ToldInv' OBVIOUS
  <2>1. RoomInv'
    <3>1. Types' BY NextTypes DEF ToldInv, RoomInv
    <3>2. RoomParts' BY NextRoomParts DEF ToldInv
    <3> QED BY <3>1, <3>2 DEF RoomInv, RoomParts
  <2> QED BY <2>1, NextQuietHandshake, NextSentToKnown, NextGreeted, NextHelloFirst, NextTelling
      DEF ToldInv
<1> QED BY <1>1, <1>2, PTL DEF Spec

\* No message and no announcement of a room reaches a client before its hello
\* frame, unless the greeting failed: the connection is registered before the
\* handshake has blocked in HTTP for the hello answer, but what the gRPC threads
\* send meanwhile waits for the IO thread, and nothing can close the connection
\* before the handshake is over (websocket_conn.cc OnRead, SendHelloMessage).
THEOREM HelloComesFirst == Spec => []HelloFirst
<1>1. ToldInv => HelloFirst BY DEF ToldInv
<1> QED BY <1>1, ToldInvHolds, PTL

\* Once a Broadcast is complete, every connected client that was greeted and is
\* the registered one of its user has been told of the room, in its hello frame
\* or in a serverCreateRoom frame, or logic skipped the room at hello: no order of
\* the handshake and the Broadcast leaves a client without (comet_service.cc
\* Broadcast, websocket_conn.cc SendHelloMessage).
THEOREM AnnouncementsReachAll == Spec => []ToldOfAnnouncedRooms
<1>1. ToldInv => ToldOfAnnouncedRooms
  <2> SUFFICES ASSUME ToldInv, NEW u \in OnlineUsers, NEW r \in Announced,
                      greet[s_user_ws_conn_map[u]] = "sent",
                      tcp[s_user_ws_conn_map[u]] = "connected"
               PROVE  r \in Told(s_user_ws_conn_map[u]) \cup skipped[s_user_ws_conn_map[u]]
    BY DEF ToldOfAnnouncedRooms
  <2>1. ToldOrToCome(s_user_ws_conn_map[u], r) BY DEF ToldInv, Telling
  <2>2. io.pc # "idle" => io.conn # s_user_ws_conn_map[u] BY DEF ToldInv, RoomInv, Handshake
  <2> QED BY <2>1, <2>2 DEF ToldOrToCome
<1> QED BY <1>1, ToldInvHolds, PTL

-----------------------------------------------------------------------------
(* The two mutexes *)

\* A handler holds s_mtx_user_ws_conn_map only in the subscribe loop of Broadcast, and
\* room_topic_map_mutex only while PubSubMessage copies.
Locks ==
    \A p \in Rpcs : /\ map_lock = p => rpc[p].pc = "subscribe"
                    /\ topic_lock = p => rpc[p].pc = "copied"

\* A step of the RPC p that takes no lock, made while it holds none.
LEMMA LocksKept ==
    ASSUME Locks, NEW p \in Rpcs, rpc[p].pc \notin {"subscribe", "copied"},
           \A q \in Rpcs \ {p} : rpc'[q] = rpc[q], UNCHANGED <<map_lock, topic_lock>>
    PROVE  Locks'
BY DEF Locks

LEMMA NextLocks == ASSUME Types, Locks, [Next]_vars PROVE Locks'
<1>a. rpc \in [Rpcs -> Calls] BY DEF Types, TypeOK
<1>b. \A p \in Rpcs : p # "free" BY CometAssumption
<1>1. ASSUME NEW p \in Rpcs, BroadcastLock(p) PROVE Locks'
  <2>1. /\ rpc[p].pc = "lock" /\ map_lock' = p /\ topic_lock' = topic_lock
        /\ Go(p, "subscribe", OnlineUsers, NoConn)
    BY <1>1 DEF BroadcastLock, RpcAt, pubsub_vars
  <2>2. rpc'[p].pc = "subscribe" /\ \A q \in Rpcs \ {p} : rpc'[q] = rpc[q]
    BY <1>a, <2>1, GoStep DEF RpcSteps, OnlineUsers
  <2> QED BY <2>1, <2>2 DEF Locks
<1>2. ASSUME NEW p \in Rpcs, NEW u \in Users, BroadcastSubscribe(p, u) PROVE Locks'
  <2>1. /\ rpc[p].pc = "subscribe" /\ UNCHANGED <<map_lock, topic_lock>>
        /\ Go(p, "subscribe", rpc[p].todo \ {u}, NoConn)
    BY <1>2 DEF BroadcastSubscribe, AddSubscriber, RpcAt, map_vars
  <2>2. rpc[p].todo \ {u} \in SUBSET Users BY <1>a DEF Calls
  <2>3. rpc'[p].pc = "subscribe" /\ \A q \in Rpcs \ {p} : rpc'[q] = rpc[q]
    BY <1>a, <2>1, <2>2, GoStep DEF RpcSteps
  <2> QED BY <2>1, <2>3 DEF Locks
<1>3. ASSUME NEW p \in Rpcs, BroadcastUnlock(p) PROVE Locks'
  <2>1. rpc[p].pc = "subscribe" /\ map_lock' = "free" /\ topic_lock' = topic_lock /\ Goto(p, "list")
    BY <1>3 DEF BroadcastUnlock, RpcAt, pubsub_vars
  <2>2. \A q \in Rpcs \ {p} : rpc'[q] = rpc[q] BY <1>a, <2>1, GotoStep DEF RpcSteps
  <2> QED BY <1>b, <2>1, <2>2 DEF Locks
<1>4. ASSUME NEW p \in Rpcs, PubSubMessage(p) PROVE Locks'
  <2>1. rpc[p].pc = "copy" /\ map_lock' = map_lock BY <1>4 DEF PubSubMessage, RpcAt, map_vars
  <2>2. CASE rpc[p].room \in topics
    <3>1. topic_lock' = p /\ Go(p, "copied", subscribers[rpc[p].room], NoConn) BY <1>4, <2>2 DEF PubSubMessage
    <3>2. subscribers[rpc[p].room] \in SUBSET Users BY <2>2 DEF Types, TypeOK
    <3>3. rpc'[p].pc = "copied" /\ \A q \in Rpcs \ {p} : rpc'[q] = rpc[q]
      BY <1>a, <3>1, <3>2, GoStep DEF RpcSteps
    <3> QED BY <2>1, <3>1, <3>3 DEF Locks
  <2>3. CASE rpc[p].room \notin topics
    <3>1. topic_lock' = topic_lock /\ Goto(p, "pushed") BY <1>4, <2>3 DEF PubSubMessage
    <3>2. \A q \in Rpcs \ {p} : rpc'[q] = rpc[q] BY <1>a, <3>1, GotoStep DEF RpcSteps
    <3> QED BY <2>1, <3>1, <3>2, LocksKept
  <2> QED BY <2>2, <2>3
<1>5. ASSUME NEW p \in Rpcs, PubSubUnlock(p) PROVE Locks'
  <2>1. rpc[p].pc = "copied" /\ topic_lock' = "free" /\ map_lock' = map_lock /\ Goto(p, "lookup")
    BY <1>5 DEF PubSubUnlock, RpcAt, map_vars
  <2>2. \A q \in Rpcs \ {p} : rpc'[q] = rpc[q] BY <1>a, <2>1, GotoStep DEF RpcSteps
  <2> QED BY <1>b, <2>1, <2>2 DEF Locks
<1>6. ASSUME NEW p \in Rpcs,
             \/ AddRoomTopic(p) \/ AddRoom(p) \/ BroadcastSend(p) \/ PushSend(p) \/ PushEnd(p)
             \/ (\E u \in Users : PushLookup(p, u)) \/ RpcCall(p)
      PROVE  Locks'
  <2>1. rpc[p].pc \notin {"subscribe", "copied"} /\ UNCHANGED <<map_lock, topic_lock>>
    BY <1>6 DEF AddRoomTopic, AddRoom, BroadcastSend, PushSend, PushEnd, PushLookup, RpcCall, BroadcastCall,
                BroadcastRoomCall, RpcAt, map_vars, pubsub_vars
  <2>2. \A q \in Rpcs \ {p} : rpc'[q] = rpc[q]
    BY <1>6, <1>a DEF AddRoomTopic, AddRoom, BroadcastSend, PushSend, PushEnd, PushLookup, RpcCall,
                      BroadcastCall, BroadcastRoomCall, Goto, Go
  <2> QED BY <2>1, <2>2, LocksKept
<1>7. ASSUME UNCHANGED <<rpc, map_lock, topic_lock>> PROVE Locks' BY <1>7 DEF Locks
<1> QED
  BY <1>1, <1>2, <1>3, <1>4, <1>5, <1>6, <1>7
  DEF Next, IoHandler, IoEvent, WorkerStep, RpcStep, vars, map_vars, pubsub_vars,
      InitializeRoomSubscriptions, InitializeFails, OnConnectionUp, OnConnectionDown,
      OnReadHandshake, VerifyUserAuth, VerifyFails, InsertConn, HelloAnswered, HelloFails,
      HelloSubscribe, AddSubscriber, HelloSend, OnReadFrame, SendInLoop, TakeTask,
      HandleClientMessages, HandleRequestRoomHistory, CreateRoomDone, CreateRoomRefused,
      DisconnectShutdown, DisconnectErase

\* However many Broadcast and BroadcastRoom calls run beside each other, the gRPC
\* handlers never wait for each other in a circle: the holder of room_topic_map_mutex
\* waits for nothing, and the holder of s_mtx_user_ws_conn_map only for that one
\* (comet_service.cc Broadcast, pub_sub_service.h PubSubMessage).
THEOREM HandlersDoNotDeadlock == Spec => []NoCircularWait
<1>1. Init => Types /\ Locks
  <2>1. Init => Locks BY CometAssumption DEF Init, Locks
  <2> QED BY <2>1, InitTypes
<1>2. Types /\ Locks /\ [Next]_vars => Types' /\ Locks' BY NextTypes, NextLocks
<1>3. Locks => NoCircularWait
  <2> SUFFICES ASSUME Locks, NEW S \in SUBSET Rpcs, S # {}
               PROVE  \E p \in S : \A q \in S : ~WaitsFor(p, q)
    BY DEF NoCircularWait
  <2>1. CASE topic_lock \in S
    <3>1. rpc[topic_lock].pc = "copied" BY <2>1 DEF Locks
    <3> QED BY <2>1, <3>1 DEF WaitsFor, WantsMap, WantsTopics
  <2>2. CASE topic_lock \notin S /\ map_lock \in S
    <3>1. rpc[map_lock].pc = "subscribe" BY <2>2 DEF Locks
    <3> QED BY <2>2, <3>1 DEF WaitsFor, WantsMap
  <2>3. CASE topic_lock \notin S /\ map_lock \notin S BY <2>3 DEF WaitsFor
  <2> QED BY <2>1, <2>2, <2>3
<1> QED BY <1>1, <1>2, <1>3, PTL DEF Spec
=============================================================================
