------------------------------- MODULE Comet -------------------------------
(***************************************************************************)
(* The comet layer (server/application/chat-room): one process that keeps  *)
(* the web socket connections and pushes what the job layer hands it.      *)
(*                                                                         *)
(* Three kinds of threads share its state.                                 *)
(*   - The IO thread (num_event_loops = 0) accepts, reads, answers the     *)
(*     handshake and writes.  The handshake handler blocks it through two  *)
(*     HTTP calls to logic (verify, hello).                                *)
(*   - The worker pool runs one task per client frame.                     *)
(*   - gRPC handlers (Broadcast, BroadcastRoom) run beside both.           *)
(*                                                                         *)
(* Steps are cut where the code takes or releases a lock, blocks in an     *)
(* HTTP call, or hands a frame to the IO thread.  Left out: the contents   *)
(* of messages, CWebSocketConn::rooms_map (written, never read) and the    *)
(* statistics counters.                                                    *)
(***************************************************************************)
EXTENDS Naturals, Sequences

CONSTANTS
    Conns,         \* TCP connections, each accepted at most once
    Users,         \* user ids
    Rooms,         \* room ids
    Rpcs,          \* gRPC calls made by job, each executed once
    Workers,       \* threads of CWebSocketConn::s_thread_pool
    InitRooms,     \* the rooms logic knows when comet starts
    NoConn,        \* "not in s_user_ws_conn_map"
    NoUser,        \* the empty user_id of a connection that has not verified
    NoRoom,        \* the argument of an RPC not yet made
    Unreadable,    \* the rooms whose history logic may fail to read
    ClientFrames,  \* the kinds of frames clients send
    MaxFrames      \* bound: frames read per connection

FrameKinds == {"clientMessages", "requestRoomHistory", "clientCreateRoom",
               "close", "other"}

ASSUME CometAssumption ==
    /\ InitRooms \subseteq Rooms
    /\ Unreadable \subseteq Rooms
    /\ NoConn \notin Conns
    /\ NoUser \notin Users
    /\ NoRoom \notin Rooms
    /\ "free" \notin Rpcs
    /\ ClientFrames \subseteq FrameKinds
    /\ MaxFrames \in Nat

VARIABLES
    phase,                \* "boot" | "serving" | "exited"
    logic_rooms,          \* external: RoomService's room list in logic
    tcp,                  \* TcpConnection::state_
    left,                 \* connections whose client has closed or vanished
    frames_read,          \* frames OnRead has cut out of the byte stream
    handshake_completed,
    user_id,              \* CWebSocketConn::user_id
    greet,                \* outcome of SendHelloMessage: "no" | "sent" | "failed"
    skipped,              \* rooms whose history logic could not read at hello
    s_user_ws_conn_map,   \* user id -> its registered connection
    map_lock,             \* the RPC that holds s_mtx_user_ws_conn_map, or "free"
    topics,               \* keys of PubSubService::room_topic_map
    subscribers,          \* RoomTopic::user_ids of every topic
    topic_lock,           \* the RPC that holds room_topic_map_mutex, or "free"
    s_room_list,          \* rooms a Broadcast has added
    io,                   \* the IO thread: what it is in the middle of
    pending,              \* frames handed to the loop, not yet written
    wire,                 \* frames written to the client, in order
    tasks,                \* queue of s_thread_pool
    worker,               \* the task each pool thread runs
    rpc                   \* the gRPC handlers

conn_vars   == <<tcp, left, frames_read>>
sess_vars   == <<handshake_completed, user_id, greet, skipped>>
map_vars    == <<s_user_ws_conn_map, map_lock>>
pubsub_vars == <<topics, subscribers, topic_lock, s_room_list>>
out_vars    == <<pending, wire>>
pool_vars   == <<tasks, worker>>
vars == <<phase, logic_rooms, conn_vars, sess_vars, map_vars, pubsub_vars, io,
          out_vars, pool_vars, rpc>>

-----------------------------------------------------------------------------
(* Types *)

OutKinds == {"hello", "serverMessages", "serverCreateRoom", "serverRoomHistory",
             "createFailed", "close"}
OutFrame == [kind : OutKinds, rooms : SUBSET Rooms]
Frame(k, rs) == [kind |-> k, rooms |-> rs]

Task == [conn : Conns, kind : FrameKinds]
NoTask == [conn |-> NoConn, kind |-> "none"]
Call(step, r, us, c) == [pc |-> step, room |-> r, todo |-> us, conn |-> c]
NoCall == Call("free", NoRoom, {}, NoConn)
Handler(step, c, rs, todo) == [pc |-> step, conn |-> c, answer |-> rs, rooms |-> todo]
IoIdle == Handler("idle", NoConn, {}, {})

IoSteps == {"idle", "verify", "insert", "hello", "subscribe"}
RpcSteps == {"free",
             "topic", "lock", "subscribe", "list", "send", "announced",  \* Broadcast
             "copy", "copied", "lookup", "push", "pushed"}               \* BroadcastRoom

Calls == [pc : RpcSteps, room : Rooms \cup {NoRoom},
          todo : SUBSET Users, conn : Conns \cup {NoConn}]

TypeOK ==
    /\ phase \in {"boot", "serving", "exited"}
    /\ logic_rooms \in SUBSET Rooms
    /\ tcp \in [Conns -> {"none", "connected", "disconnecting", "disconnected"}]
    /\ left \in SUBSET Conns
    /\ frames_read \in [Conns -> 0..MaxFrames]
    /\ handshake_completed \in [Conns -> BOOLEAN]
    /\ user_id \in [Conns -> Users \cup {NoUser}]
    /\ greet \in [Conns -> {"no", "sent", "failed"}]
    /\ skipped \in [Conns -> SUBSET Rooms]
    /\ s_user_ws_conn_map \in [Users -> Conns \cup {NoConn}]
    /\ map_lock \in Rpcs \cup {"free"}
    /\ topics \in SUBSET Rooms
    /\ subscribers \in [Rooms -> SUBSET Users]
    /\ topic_lock \in Rpcs \cup {"free"}
    /\ s_room_list \in SUBSET Rooms
    /\ io \in [pc : IoSteps, conn : Conns \cup {NoConn},
               answer : SUBSET Rooms, rooms : SUBSET Rooms]
    /\ pending \in [Conns -> Seq(OutFrame)]
    /\ wire \in [Conns -> Seq(OutFrame)]
    /\ tasks \in Seq(Task)
    /\ worker \in [Workers -> [conn : Conns \cup {NoConn},
                               kind : FrameKinds \cup {"none", "erase"}]]
    /\ rpc \in [Rpcs -> Calls]

Init ==
    /\ phase = "boot"
    /\ logic_rooms = InitRooms
    /\ tcp = [c \in Conns |-> "none"]
    /\ left = {}
    /\ frames_read = [c \in Conns |-> 0]
    /\ handshake_completed = [c \in Conns |-> FALSE]
    /\ user_id = [c \in Conns |-> NoUser]
    /\ greet = [c \in Conns |-> "no"]
    /\ skipped = [c \in Conns |-> {}]
    /\ s_user_ws_conn_map = [u \in Users |-> NoConn]
    /\ map_lock = "free"
    /\ topics = {}
    /\ subscribers = [r \in Rooms |-> {}]
    /\ topic_lock = "free"
    /\ s_room_list = {}
    /\ io = IoIdle
    /\ pending = [c \in Conns |-> <<>>]
    /\ wire = [c \in Conns |-> <<>>]
    /\ tasks = <<>>
    /\ worker = [w \in Workers |-> NoTask]
    /\ rpc = [p \in Rpcs |-> NoCall]

-----------------------------------------------------------------------------
(* Helpers *)

OnlineUsers == {u \in Users : s_user_ws_conn_map[u] # NoConn}

\* TcpConnection::send drops the frame unless the connection is kConnected.
\* From another thread it is queued to the loop (q is pending[c]); on the IO
\* thread it is written at once (q is wire[c]), ahead of what is queued.
Sent(q, c, f) == IF tcp[c] = "connected" THEN Append(q, f) ELSE q

\* PubSubService::AddSubscriber: it locks room_topic_map_mutex and waits for
\* nothing while it has it.
AddSubscriber(r, u) ==
    /\ topic_lock = "free"
    /\ subscribers' = IF r \in topics
                      THEN [subscribers EXCEPT ![r] = @ \cup {u}]
                      ELSE subscribers
    /\ UNCHANGED <<topics, topic_lock, s_room_list>>

IoAt(step) == phase = "serving" /\ io.pc = step

Running(w, k) == worker[w].kind = k
Finish(w) == worker' = [worker EXCEPT ![w] = NoTask]

RpcAt(p, step) == rpc[p].pc = step
Go(p, step, us, c) == rpc' = [rpc EXCEPT ![p] = Call(step, rpc[p].room, us, c)]
Goto(p, step) == Go(p, step, rpc[p].todo, rpc[p].conn)
IoGo(step, rs, todo) == io' = Handler(step, io.conn, rs, todo)

-----------------------------------------------------------------------------
(* Seeded faults: each is a wrong version of the action it is named after.  No  *)
(* specification uses them; putting one in the action's place must break the    *)
(* property it was written for.                                                 *)

\* The failure frame names a room although logic returned an empty roomId.
CreateRoomRefused_NamesRoom(w) ==
    /\ Running(w, "clientCreateRoom")
    /\ pending' = [pending EXCEPT ![worker[w].conn] =
                      Sent(@, worker[w].conn, Frame("createFailed", {NoRoom}))]
    /\ Finish(w)
    /\ UNCHANGED <<phase, logic_rooms, conn_vars, sess_vars, map_vars,
                   pubsub_vars, io, wire, tasks, rpc>>

\* A room message goes to everyone online instead of to the subscribers.
PubSubMessage_ToEveryone(p) ==
    /\ RpcAt(p, "copy")
    /\ topic_lock = "free"
    /\ topic_lock' = p
    /\ Go(p, "copied", OnlineUsers, NoConn)
    /\ UNCHANGED <<phase, logic_rooms, conn_vars, sess_vars, map_vars, topics,
                   subscribers, s_room_list, io, out_vars, pool_vars>>

\* The calling thread writes by itself instead of queueing to the IO thread.
SendInLoop_AnyThread(c) ==
    /\ pending[c] # <<>>
    /\ pending' = [pending EXCEPT ![c] = Tail(@)]
    /\ wire' = [wire EXCEPT ![c] = Append(@, Head(pending[c]))]
    /\ UNCHANGED <<phase, logic_rooms, conn_vars, sess_vars, map_vars,
                   pubsub_vars, io, pool_vars, rpc>>

\* A topic that exists is replaced by a new, empty one.
AddRoomTopic_Replaces(p) ==
    /\ RpcAt(p, "topic")
    /\ topic_lock = "free"
    /\ topics' = topics \cup {rpc[p].room}
    /\ subscribers' = [subscribers EXCEPT ![rpc[p].room] = {}]
    /\ Goto(p, "lock")
    /\ UNCHANGED <<phase, logic_rooms, conn_vars, sess_vars, map_vars,
                   topic_lock, s_room_list, io, out_vars, pool_vars>>

\* The announcement skips connections that are still in their handshake.
BroadcastSend_GreetedOnly(p) ==
    /\ RpcAt(p, "send")
    /\ map_lock = "free"
    /\ pending' = [c \in Conns |->
                      IF greet[c] = "sent" /\ \E u \in Users : s_user_ws_conn_map[u] = c
                      THEN Sent(pending[c], c, Frame("serverCreateRoom", {rpc[p].room}))
                      ELSE pending[c]]
    /\ Goto(p, "announced")
    /\ UNCHANGED <<phase, logic_rooms, conn_vars, sess_vars, map_vars,
                   pubsub_vars, io, wire, pool_vars>>

\* The callback runs inside the scope of PubSubMessage's lock_guard: the lookups
\* wait for s_mtx_user_ws_conn_map with room_topic_map_mutex held.
PubSubUnlock_AfterCallback(p) ==
    /\ \/ RpcAt(p, "copied") /\ Goto(p, "lookup") /\ UNCHANGED topic_lock
       \/ RpcAt(p, "pushed") /\ topic_lock = p /\ topic_lock' = "free" /\ UNCHANGED rpc
    /\ UNCHANGED <<phase, logic_rooms, conn_vars, sess_vars, map_vars, topics,
                   subscribers, s_room_list, io, out_vars, pool_vars>>

\* A dead connection ends the loop (return in place of continue).
PushSend_StopsAtDead(p) ==
    LET c == rpc[p].conn
        dead == c = NoConn \/ tcp[c] # "connected" IN
    /\ RpcAt(p, "push")
    /\ pending' = IF dead
                  THEN pending
                  ELSE [pending EXCEPT ![c] = Append(@, Frame("serverMessages", {rpc[p].room}))]
    /\ Go(p, IF dead THEN "pushed" ELSE "lookup", rpc[p].todo, NoConn)
    /\ UNCHANGED <<phase, logic_rooms, conn_vars, sess_vars, map_vars,
                   pubsub_vars, io, wire, pool_vars>>

-----------------------------------------------------------------------------
(* Startup *)

\* Ask logic for all rooms, give each a topic, then start the gRPC and the HTTP
\* servers.  s_room_list stays empty.
InitializeRoomSubscriptions ==
    /\ phase = "boot"
    /\ topics' = topics \cup logic_rooms
    /\ phase' = "serving"
    /\ UNCHANGED <<logic_rooms, conn_vars, sess_vars, map_vars, subscribers,
                   topic_lock, s_room_list, io, out_vars, pool_vars, rpc>>

\* The call or its answer is bad: the process exits.
InitializeFails ==
    /\ phase = "boot"
    /\ phase' = "exited"
    /\ UNCHANGED <<logic_rooms, conn_vars, sess_vars, map_vars, pubsub_vars, io,
                   out_vars, pool_vars, rpc>>

-----------------------------------------------------------------------------
(* The IO thread *)

\* A connection is accepted and gets its HttpHandler.
OnConnectionUp(c) ==
    /\ IoAt("idle")
    /\ tcp[c] = "none"
    /\ tcp' = [tcp EXCEPT ![c] = "connected"]
    /\ UNCHANGED <<phase, logic_rooms, left, frames_read, sess_vars, map_vars,
                   pubsub_vars, io, out_vars, pool_vars, rpc>>

\* The peer closed or the socket broke.  Only the ConnectionManager forgets the
\* connection: s_user_ws_conn_map and the topics keep their entries.
OnConnectionDown(c) ==
    /\ IoAt("idle")
    /\ tcp[c] \in {"connected", "disconnecting"}
    /\ tcp' = [tcp EXCEPT ![c] = "disconnected"]
    /\ left' = left \cup {c}
    /\ UNCHANGED <<phase, logic_rooms, frames_read, sess_vars, map_vars,
                   pubsub_vars, io, out_vars, pool_vars, rpc>>

\* The handshake request is answered before the cookie is verified.
OnReadHandshake(c) ==
    /\ IoAt("idle")
    /\ tcp[c] = "connected"
    /\ ~handshake_completed[c]
    /\ handshake_completed' = [handshake_completed EXCEPT ![c] = TRUE]
    /\ io' = Handler("verify", c, {}, {})
    /\ UNCHANGED <<phase, logic_rooms, conn_vars, user_id, greet, skipped,
                   map_vars, pubsub_vars, out_vars, pool_vars, rpc>>

\* logic accepts the cookie.
VerifyUserAuth(u) ==
    /\ IoAt("verify")
    /\ user_id' = [user_id EXCEPT ![io.conn] = u]
    /\ IoGo("insert", {}, {})
    /\ UNCHANGED <<phase, logic_rooms, conn_vars, handshake_completed, greet,
                   skipped, map_vars, pubsub_vars, out_vars, pool_vars, rpc>>

\* No cookie, a stale one, or logic unreachable: a close frame (1008) is sent;
\* the connection stays open and its later frames are still processed.
VerifyFails ==
    /\ IoAt("verify")
    /\ wire' = [wire EXCEPT ![io.conn] = Sent(@, io.conn, Frame("close", {}))]
    /\ io' = IoIdle
    /\ UNCHANGED <<phase, logic_rooms, conn_vars, sess_vars, map_vars,
                   pubsub_vars, pending, pool_vars, rpc>>

\* Register the connection under its user, replacing an older one.
InsertConn ==
    /\ IoAt("insert")
    /\ map_lock = "free"
    /\ s_user_ws_conn_map' = [s_user_ws_conn_map EXCEPT ![user_id[io.conn]] = io.conn]
    /\ IoGo("hello", {}, {})
    /\ UNCHANGED <<phase, logic_rooms, conn_vars, sess_vars, map_lock,
                   pubsub_vars, out_vars, pool_vars, rpc>>

\* POST /logic/hello is answered: every room logic knows at that instant, less
\* the ones whose history it could not read.
HelloAnswered(rs) ==
    /\ IoAt("hello")
    /\ logic_rooms \ rs \subseteq Unreadable
    /\ IoGo("subscribe", rs, rs)
    /\ skipped' = [skipped EXCEPT ![io.conn] = logic_rooms \ rs]
    /\ UNCHANGED <<phase, logic_rooms, conn_vars, handshake_completed, user_id,
                   greet, map_vars, pubsub_vars, out_vars, pool_vars, rpc>>

\* No answer or not JSON: SendHelloMessage gives up, the user stays registered.
HelloFails ==
    /\ IoAt("hello")
    /\ greet' = [greet EXCEPT ![io.conn] = "failed"]
    /\ io' = IoIdle
    /\ UNCHANGED <<phase, logic_rooms, conn_vars, handshake_completed, user_id,
                   skipped, map_vars, pubsub_vars, out_vars, pool_vars, rpc>>

\* One room of the answer; without a topic AddSubscriber does nothing.
HelloSubscribe(r) ==
    /\ IoAt("subscribe")
    /\ r \in io.rooms
    /\ AddSubscriber(r, user_id[io.conn])
    /\ IoGo("subscribe", io.answer, io.rooms \ {r})
    /\ UNCHANGED <<phase, logic_rooms, conn_vars, sess_vars, map_vars, out_vars,
                   pool_vars, rpc>>

\* All rooms done: the answer goes out as the hello frame.
HelloSend ==
    /\ IoAt("subscribe")
    /\ io.rooms = {}
    /\ wire' = [wire EXCEPT ![io.conn] = Sent(@, io.conn, Frame("hello", io.answer))]
    /\ greet' = [greet EXCEPT ![io.conn] = "sent"]
    /\ io' = IoIdle
    /\ UNCHANGED <<phase, logic_rooms, conn_vars, handshake_completed, user_id,
                   skipped, map_vars, pubsub_vars, pending, pool_vars, rpc>>

\* A frame of a connection past its handshake becomes a task of the pool.
OnReadFrame(c, k) ==
    /\ IoAt("idle")
    /\ tcp[c] \in {"connected", "disconnecting"}
    /\ handshake_completed[c]
    /\ c \notin left                           \* clients send nothing after close
    /\ frames_read[c] < MaxFrames              \* bound
    /\ frames_read' = [frames_read EXCEPT ![c] = @ + 1]
    /\ tasks' = Append(tasks, [conn |-> c, kind |-> k])
    /\ left' = IF k = "close" THEN left \cup {c} ELSE left
    /\ UNCHANGED <<phase, logic_rooms, tcp, sess_vars, map_vars, pubsub_vars,
                   io, out_vars, worker, rpc>>

\* doPendingFunctors runs sendInLoop for a queued frame.
SendInLoop(c) ==
    /\ IoAt("idle")
    /\ pending[c] # <<>>
    /\ pending' = [pending EXCEPT ![c] = Tail(@)]
    /\ wire' = IF tcp[c] = "disconnected"
               THEN wire
               ELSE [wire EXCEPT ![c] = Append(@, Head(pending[c]))]
    /\ UNCHANGED <<phase, logic_rooms, conn_vars, sess_vars, map_vars,
                   pubsub_vars, io, pool_vars, rpc>>

-----------------------------------------------------------------------------
(* The worker pool *)

TakeTask(w) ==
    /\ Running(w, "none")
    /\ tasks # <<>>
    /\ worker' = [worker EXCEPT ![w] = Head(tasks)]
    /\ tasks' = Tail(tasks)
    /\ UNCHANGED <<phase, logic_rooms, conn_vars, sess_vars, map_vars,
                   pubsub_vars, io, out_vars, rpc>>

\* A text frame forwarded to /logic/send, or a frame that is ignored: comet's
\* own state does not change, whatever logic answers.
HandleClientMessages(w) ==
    /\ worker[w].kind \in {"clientMessages", "other"}
    /\ Finish(w)
    /\ UNCHANGED <<phase, logic_rooms, conn_vars, sess_vars, map_vars,
                   pubsub_vars, io, out_vars, tasks, rpc>>

\* The answer of /logic/room_history goes to the connection that asked.
HandleRequestRoomHistory(w) ==
    /\ Running(w, "requestRoomHistory")
    /\ \E r \in Rooms, ok \in BOOLEAN :
          pending' = IF ok THEN [pending EXCEPT ![worker[w].conn] =
                                    Sent(@, worker[w].conn, Frame("serverRoomHistory", {r}))]
                           ELSE pending
    /\ Finish(w)
    /\ UNCHANGED <<phase, logic_rooms, conn_vars, sess_vars, map_vars,
                   pubsub_vars, io, wire, tasks, rpc>>

\* /logic/room/create made the room.  Nothing is sent from here: the requester,
\* like everyone, learns of it from the Broadcast (also when the answer is lost).
CreateRoomDone(w, r) ==
    /\ Running(w, "clientCreateRoom")
    /\ r \notin logic_rooms
    /\ logic_rooms' = logic_rooms \cup {r}
    /\ Finish(w)
    /\ UNCHANGED <<phase, conn_vars, sess_vars, map_vars, pubsub_vars, io,
                   out_vars, tasks, rpc>>

\* The name is taken (empty roomId): a failure frame; or the call failed: nothing.
CreateRoomRefused(w) ==
    /\ Running(w, "clientCreateRoom")
    /\ pending' \in {pending, [pending EXCEPT ![worker[w].conn] =
                                  Sent(@, worker[w].conn, Frame("createFailed", {}))]}
    /\ Finish(w)
    /\ UNCHANGED <<phase, logic_rooms, conn_vars, sess_vars, map_vars,
                   pubsub_vars, io, wire, tasks, rpc>>

\* Disconnect, first half: close frame (1000) and shutdown.
DisconnectShutdown(w) ==
    LET c == worker[w].conn IN
    /\ Running(w, "close")
    /\ pending' = [pending EXCEPT ![c] = Sent(@, c, Frame("close", {}))]
    /\ tcp' = [tcp EXCEPT ![c] = IF @ = "connected" THEN "disconnecting" ELSE @]
    /\ worker' = [worker EXCEPT ![w] = [conn |-> c, kind |-> "erase"]]
    /\ UNCHANGED <<phase, logic_rooms, left, frames_read, sess_vars, map_vars,
                   pubsub_vars, io, wire, tasks, rpc>>

\* Second half: the entry of this connection's user goes, whichever connection
\* it names.
DisconnectErase(w) ==
    LET u == user_id[worker[w].conn] IN
    /\ Running(w, "erase")
    /\ map_lock = "free"
    /\ s_user_ws_conn_map' = IF u \in Users
                             THEN [s_user_ws_conn_map EXCEPT ![u] = NoConn]
                             ELSE s_user_ws_conn_map
    /\ Finish(w)
    /\ UNCHANGED <<phase, logic_rooms, conn_vars, sess_vars, map_lock,
                   pubsub_vars, io, out_vars, tasks, rpc>>

-----------------------------------------------------------------------------
(* The gRPC handlers *)

\* job announces a room with Broadcast (op 5).  logic puts the message on the
\* Kafka topic after it has added the room to its list.  A retry is one more call.
BroadcastCall(p, r) ==
    /\ phase = "serving"
    /\ RpcAt(p, "free")
    /\ r \in logic_rooms
    /\ rpc' = [rpc EXCEPT ![p] = Call("topic", r, {}, NoConn)]
    /\ UNCHANGED <<phase, logic_rooms, conn_vars, sess_vars, map_vars,
                   pubsub_vars, io, out_vars, pool_vars>>

\* AddRoomTopic: an existing topic and its subscribers are kept.
AddRoomTopic(p) ==
    /\ RpcAt(p, "topic")
    /\ topic_lock = "free"
    /\ topics' = topics \cup {rpc[p].room}
    /\ Goto(p, "lock")
    /\ UNCHANGED <<phase, logic_rooms, conn_vars, sess_vars, map_vars,
                   subscribers, topic_lock, s_room_list, io, out_vars, pool_vars>>

\* Take s_mtx_user_ws_conn_map for the loop over the users online.
BroadcastLock(p) ==
    /\ RpcAt(p, "lock")
    /\ map_lock = "free"
    /\ map_lock' = p
    /\ Go(p, "subscribe", OnlineUsers, NoConn)
    /\ UNCHANGED <<phase, logic_rooms, conn_vars, sess_vars, s_user_ws_conn_map,
                   pubsub_vars, io, out_vars, pool_vars>>

BroadcastSubscribe(p, u) ==
    /\ RpcAt(p, "subscribe")
    /\ u \in rpc[p].todo
    /\ AddSubscriber(rpc[p].room, u)
    /\ Go(p, "subscribe", rpc[p].todo \ {u}, NoConn)
    /\ UNCHANGED <<phase, logic_rooms, conn_vars, sess_vars, map_vars, io,
                   out_vars, pool_vars>>

BroadcastUnlock(p) ==
    /\ RpcAt(p, "subscribe")
    /\ rpc[p].todo = {}
    /\ map_lock' = "free"
    /\ Goto(p, "list")
    /\ UNCHANGED <<phase, logic_rooms, conn_vars, sess_vars, s_user_ws_conn_map,
                   pubsub_vars, io, out_vars, pool_vars>>

\* PubSubService::AddRoom, without duplicates.
AddRoom(p) ==
    /\ RpcAt(p, "list")
    /\ s_room_list' = s_room_list \cup {rpc[p].room}
    /\ Goto(p, "send")
    /\ UNCHANGED <<phase, logic_rooms, conn_vars, sess_vars, map_vars, topics,
                   subscribers, topic_lock, io, out_vars, pool_vars>>

\* The serverCreateRoom frame to every connection registered now, under the lock.
BroadcastSend(p) ==
    /\ RpcAt(p, "send")
    /\ map_lock = "free"
    /\ pending' = [c \in Conns |->
                      IF \E u \in Users : s_user_ws_conn_map[u] = c
                      THEN Sent(pending[c], c, Frame("serverCreateRoom", {rpc[p].room}))
                      ELSE pending[c]]
    /\ Goto(p, "announced")
    /\ UNCHANGED <<phase, logic_rooms, conn_vars, sess_vars, map_vars,
                   pubsub_vars, io, wire, pool_vars>>

\* job pushes a message with BroadcastRoom.  Room ids come from clients and are
\* not checked on the way.
BroadcastRoomCall(p, r) ==
    /\ phase = "serving"
    /\ RpcAt(p, "free")
    /\ rpc' = [rpc EXCEPT ![p] = Call("copy", r, {}, NoConn)]
    /\ UNCHANGED <<phase, logic_rooms, conn_vars, sess_vars, map_vars,
                   pubsub_vars, io, out_vars, pool_vars>>

\* PubSubMessage locks room_topic_map_mutex and copies the subscribers; it returns
\* if the room has no topic ...
PubSubMessage(p) ==
    /\ RpcAt(p, "copy")
    /\ topic_lock = "free"
    /\ IF rpc[p].room \in topics
       THEN topic_lock' = p /\ Go(p, "copied", subscribers[rpc[p].room], NoConn)
       ELSE UNCHANGED topic_lock /\ Goto(p, "pushed")
    /\ UNCHANGED <<phase, logic_rooms, conn_vars, sess_vars, map_vars, topics,
                   subscribers, s_room_list, io, out_vars, pool_vars>>

\* ... and unlocks before it calls back.
PubSubUnlock(p) ==
    /\ RpcAt(p, "copied")
    /\ topic_lock' = "free"
    /\ Goto(p, "lookup")
    /\ UNCHANGED <<phase, logic_rooms, conn_vars, sess_vars, map_vars, topics,
                   subscribers, s_room_list, io, out_vars, pool_vars>>

\* For one copied user, find the connection under the lock ...
PushLookup(p, u) ==
    /\ RpcAt(p, "lookup")
    /\ u \in rpc[p].todo
    /\ map_lock = "free"
    /\ Go(p, "push", rpc[p].todo \ {u}, s_user_ws_conn_map[u])
    /\ UNCHANGED <<phase, logic_rooms, conn_vars, sess_vars, map_vars,
                   pubsub_vars, io, out_vars, pool_vars>>

\* ... and send to it after the lock is released.
PushSend(p) ==
    LET c == rpc[p].conn IN
    /\ RpcAt(p, "push")
    /\ pending' = IF c # NoConn
                  THEN [pending EXCEPT ![c] =
                           Sent(@, c, Frame("serverMessages", {rpc[p].room}))]
                  ELSE pending
    /\ Go(p, "lookup", rpc[p].todo, NoConn)
    /\ UNCHANGED <<phase, logic_rooms, conn_vars, sess_vars, map_vars,
                   pubsub_vars, io, wire, pool_vars>>

PushEnd(p) ==
    /\ RpcAt(p, "lookup")
    /\ rpc[p].todo = {}
    /\ Goto(p, "pushed")
    /\ UNCHANGED <<phase, logic_rooms, conn_vars, sess_vars, map_vars,
                   pubsub_vars, io, out_vars, pool_vars>>

-----------------------------------------------------------------------------
(* Specification *)

\* What the IO thread does once it is inside a handler.
IoHandler ==
    \/ \E u \in Users : VerifyUserAuth(u)
    \/ VerifyFails
    \/ InsertConn
    \/ \E rs \in SUBSET logic_rooms : HelloAnswered(rs)
    \/ HelloFails
    \/ \E r \in Rooms : HelloSubscribe(r)
    \/ HelloSend

IoEvent(c) ==
    \/ OnConnectionUp(c)
    \/ OnConnectionDown(c)
    \/ OnReadHandshake(c)
    \/ \E k \in ClientFrames : OnReadFrame(c, k)
    \/ SendInLoop(c)

WorkerStep(w) ==
    \/ TakeTask(w)
    \/ HandleClientMessages(w)
    \/ HandleRequestRoomHistory(w)
    \/ \E r \in Rooms : CreateRoomDone(w, r)
    \/ CreateRoomRefused(w)
    \/ DisconnectShutdown(w)
    \/ DisconnectErase(w)

RpcStep(p) ==
    \/ AddRoomTopic(p)
    \/ BroadcastLock(p)
    \/ \E u \in Users : BroadcastSubscribe(p, u)
    \/ BroadcastUnlock(p)
    \/ AddRoom(p)
    \/ BroadcastSend(p)
    \/ PubSubMessage(p)
    \/ PubSubUnlock(p)
    \/ \E u \in Users : PushLookup(p, u)
    \/ PushSend(p)
    \/ PushEnd(p)

RpcCall(p) == \E r \in Rooms : BroadcastCall(p, r) \/ BroadcastRoomCall(p, r)

Next ==
    \/ InitializeRoomSubscriptions
    \/ InitializeFails
    \/ IoHandler
    \/ \E c \in Conns : IoEvent(c)
    \/ \E w \in Workers : WorkerStep(w)
    \/ \E p \in Rpcs : RpcCall(p) \/ RpcStep(p)

Spec == Init /\ [][Next]_vars

\* Threads of the process keep running: the IO thread returns from its HTTP
\* calls (they time out) and runs what is queued to it, pool threads and RPC
\* handlers go on.  Clients, job and the network owe nothing.
Fairness ==
    /\ WF_vars(IoHandler)
    /\ \A c \in Conns : WF_vars(SendInLoop(c))
    /\ \A w \in Workers : WF_vars(WorkerStep(w))
    /\ \A p \in Rpcs : WF_vars(RpcStep(p))

FairSpec == Spec /\ Fairness

-----------------------------------------------------------------------------
(* Properties *)

Frames(q) == {q[i] : i \in DOMAIN q}
OnItsWay(c) == Frames(pending[c]) \cup Frames(wire[c])

\* A message pushed by BroadcastRoom (comet_service.cc) only ever reaches a
\* connection that verified as a subscriber of the message's room, however the
\* map entry of that user changed between the copy, the lookup and the send.
PushedOnlyToMembers ==
    \A c \in Conns : \A f \in OnItsWay(c) :
        f.kind = "serverMessages" =>
            /\ user_id[c] \in Users
            /\ \A r \in f.rooms : user_id[c] \in subscribers[r]

\* The client builds its rooms from the hello frame and drops what it cannot
\* place, so nothing pushed may overtake it.  The connection is registered
\* before SendHelloMessage blocks in HTTP; that the hello frame still comes first
\* rests on pushes being queued to the IO thread that runs the handshake.
HelloFirst ==
    \A c \in Conns : \A i \in DOMAIN wire[c] :
        wire[c][i].kind \in {"serverMessages", "serverCreateRoom"} =>
            \/ greet[c] = "failed"
            \/ \E j \in 1..(i - 1) : wire[c][j].kind = "hello"

\* The rooms comet has finished taking over: those it started with, and those
\* whose Broadcast has passed the subscribe loop and AddRoom.
KnownRooms == IF phase = "serving" THEN InitRooms \cup s_room_list ELSE {}

\* A user whose registered connection has been greeted is subscribed to every
\* known room (unless logic left the room out of the hello answer), in whatever
\* order the handshake and the Broadcast of a new room interleave.
SubscribedToKnownRooms ==
    \A u \in OnlineUsers : \A r \in KnownRooms :
        LET c == s_user_ws_conn_map[u] IN
        greet[c] = "sent" => u \in subscribers[r] \/ r \in skipped[c]

\* ... and its client has been told of every room whose Broadcast is complete:
\* in the hello frame, or in a serverCreateRoom frame on its way.
Announced == {rpc[p].room : p \in {q \in Rpcs : rpc[q].pc = "announced"}}
Told(c) == UNION {f.rooms : f \in {g \in OnItsWay(c) : g.kind \in {"hello", "serverCreateRoom"}}}
ToldOfAnnouncedRooms ==
    \A u \in OnlineUsers : \A r \in Announced :
        LET c == s_user_ws_conn_map[u] IN
        greet[c] = "sent" /\ tcp[c] = "connected" => r \in Told(c) \cup skipped[c]

\* What README.md says of Broadcast, "to all users online", needs the map to keep
\* every user who has a live, greeted connection in it: a newer connection may take
\* the entry over, but nothing else may end it.
LiveSession(c) == tcp[c] = "connected" /\ c \notin left /\ greet[c] = "sent"
LiveUsersStayRegistered ==
    [][\A u \in OnlineUsers :
          LiveSession(s_user_ws_conn_map[u]) => s_user_ws_conn_map'[u] # NoConn]_vars

\* The mutex a handler has to lock next: s_mtx_user_ws_conn_map or
\* room_topic_map_mutex.
WantsMap(p) == rpc[p].pc \in {"lock", "send"} \/ (rpc[p].pc = "lookup" /\ rpc[p].todo # {})
WantsTopics(p) == rpc[p].pc \in {"topic", "copy"} \/ (rpc[p].pc = "subscribe" /\ rpc[p].todo # {})
WaitsFor(p, q) == (WantsMap(p) /\ map_lock = q) \/ (WantsTopics(p) /\ topic_lock = q)

\* The gRPC handlers never wait in a circle.  Broadcast subscribes the users online
\* with s_mtx_user_ws_conn_map held and locks room_topic_map_mutex for each of them;
\* BroadcastRoom locks the same two in the other order, and only does no harm
\* because PubSubMessage copies the subscribers and unlocks before the callback.
NoCircularWait ==
    \A S \in SUBSET Rpcs : S # {} => \E p \in S : \A q \in S : ~WaitsFor(p, q)

\* A push to a room gets through to a member's connection unless that connection
\* is closed or replaced meanwhile.
PushReachesMembers ==
    \A p \in Rpcs, u \in Users, c \in Conns, r \in Rooms :
        /\ RpcAt(p, "copy") /\ rpc[p].room = r /\ r \in topics /\ u \in subscribers[r]
        /\ s_user_ws_conn_map[u] = c /\ tcp[c] = "connected"
        ~> \/ Frame("serverMessages", {r}) \in Frames(wire[c])
           \/ tcp[c] # "connected"
           \/ s_user_ws_conn_map[u] # c
=============================================================================
