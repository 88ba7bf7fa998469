# TLA+ models of the distributed chat room

These modules model the chat room of this repository: the **comet** layer that
keeps web sockets (`server/application/chat-room`), the **logic** layer with its
HTTP handlers and stores (`server/application/logic`), the **job** layer that
moves messages from Kafka to comet (`server/application/job`), and the pages of
the web client (`client/web`). Paths below are relative to `server/application`
unless they start with `client`.

`PROJECT.json` holds the same information for tools: components, runs, the map
from definitions to source lines, the seeded faults, findings, hazards, theorems.

## 1. The system

A user registers and logs in over comet's HTTP gateway, which forwards the form
to logic; logic keeps the account in MySQL and the session in Redis and answers
with a cookie. The chat page opens a web socket to comet. Comet asks logic over
HTTP who the user is and for a *hello* answer (all rooms, the newest messages of
each), registers the connection, subscribes the user to the rooms and sends the
hello frame. A chat
message goes browser → comet → logic, which stores it in a Redis stream and in
MySQL and produces it to Kafka; job consumes it and calls comet's gRPC
`BroadcastRoom`, which pushes it to the room's subscribers. A created room takes
the same way with `Broadcast`. History is requested over the web socket and
answered by logic from Redis.

| Component | State it keeps | Operations | What makes it correct |
|---|---|---|---|
| comet (`chat-room/service`, `rpc`, `main.cc`) | `s_user_ws_conn_map` and `room_topic_map` (the subscribers of each room), each with its mutex, `s_room_list`, per connection: TCP state, `handshake_completed`, `user_id`, frames queued to the loop; the worker pool | connect, disconnect, handshake, client frames, `Broadcast`, `BroadcastRoom`, start-up | everybody online is subscribed to and told of every room; pushes reach members, only members, after their hello; handlers do not deadlock |
| connection pools (`logic/mysql/db_pool.cc`, `logic/redis/cache_pool.cc`) | `free_list_`, `db_cur_conn_cnt_`, waiters of the condition variable, the sessions | `GetDBConn`, `RelDBConn`, use of a connection | no sharing, no leak, no lost wake-up |
| logic's handlers and `RoomService` | `m_room_list`, table `room_infos`, the producer's queue | `handleSend`, `handleCreateRoom`, `initialize`, `sendMessage` | rooms that are announced are listed |
| job | Kafka offsets, the retry counter | `consume`, `broadcast`, `broadcastRoom` | nothing is lost silently, order, bounded repetition, progress |
| message store | the Redis stream of a room, table `message_infos` | `storeMessagesToCache`, `storeMessagesToDB`, `getRoomHistory` | history has no hole, and ends |
| web client | rooms, messages, `hasMoreMessages`, scroll state | the reducer, `handleScroll` | what is shown is what was sent |
| accounts and sessions (`logic/api`, comet's gateway, the sign-up and login pages) | `user_infos`, session keys in Redis, cookie and flag in the browser, the requests on their way | register, login, verify, redirections, expiry, crash of logic | who is told of an account has it, sessions have accounts, a page shows its own user and comes to rest |
| reading a connection (`http_handler.h`, `http_conn.cc`, `websocket_conn.cc`) | `request_type_`, the input buffer, `incomplete_frame_buffer` | classify, answer the upgrade, forward an API request, cut, parse and build frames | the same result however TCP cuts the stream |
| event loop, connections and pool (bundled muduo) | pending functors, `wakeupFd_`, channels, `state_`, `outputBuffer_`, the task queue | poll, read, write, close, `send`, `shutdown`, `queueInLoop`, `ThreadPool::run/take` | the byte stream is whole, nothing queued is slept over, shutting down loses nothing |
| configuration, other vendored and generated code | | | see section 7 |

What is hard here: three kinds of threads share comet's maps and the handshake
blocks in two HTTP calls between its steps; a connection is looked up under a
lock and used after it; calls are retried after deadlines although they may have
run; offsets are committed by a timer; processes restart between any two steps;
a message has two ids; pages, pushes and new messages interleave in the client;
sockets take and give parts of messages; `shutdown()` tests and stores a
connection's state in another thread than the loop's; an answer may come after
comet has stopped waiting for it.
Section 3 lists the runs that address each; `hazards` in `PROJECT.json` gives the
lines.

## 2. Modules

| Module | Models | Source |
|---|---|---|
| `Comet` | the comet process | `websocket_conn.cc`, `comet_service.cc`, `pub_sub_service.*`, `chat-room/main.cc`; what lies below a frame is in `Reactor` and `Framing` |
| `Reactor` | comet's threads below the frames | `muduo/net/{EventLoop,TcpServer,TcpConnection,Channel,EPollPoller}.cc`, `muduo/base/ThreadPool.cc` |
| `Framing` | how one connection's bytes become requests and frames | `http_handler.h`, `http_conn.cc`, `websocket_conn.cc` |
| `Accounts` | registration, login, session check, from the page to the tables | `logic/api/*.cc`, `logic/main.cc`, `http_conn.cc`, `logic_client.cc`, `client/web/pages`, `client/web/lib` |
| `ConnPool`, `Lease` | a connection pool and its abstract promise | `db_pool.cc` (and `cache_pool.cc` 1004-1137, the same code) |
| `Delivery` | logic's producers, Kafka, job, restarts | `logic/main.cc`, `room_service.cc`, `kafka_producer.cpp`, `job/main.cc`, `kafka_consumer.cc` |
| `History` | one room as one user sees it | `message_service.cc`, `cache_pool.cc` (XADD, XREVRANGE), `logic/main.cc`, `client/web/pages/chat.tsx` |
| `MC*` | instances for TLC | |
| `CometProofs`, `ConnPoolProofs`, `DeliveryProofs`, `HistoryProofs`, `AccountsProofs`, `FramingProofs` | theorems | |
| `ReactorProofs`, `ReactorLifeProofs` | theorems: threads and wake-ups; the life of connections and their byte streams | |

Every module names its state after the code's variables and has one action per
handler, cut where the code can be interrupted. Definitions called
`Action_Something` in a section *Seeded faults* are wrong versions of `Action`;
no specification uses them, and putting one in its action's place makes TLC
report the property it belongs to.

**Comet.** A step ends where the code takes or releases a mutex, blocks in an
HTTP call, or hands a frame to the IO thread. `io` is the IO thread inside the
handshake (`verify`, `insert`, `hello`, `subscribe`), `worker` and `tasks` the
pool, `rpc` the gRPC handlers; `pending` and `wire` are the frames queued to the
loop and written. The outcomes of HTTP calls are free choices: `logic_rooms`
stands for logic's room list, `skipped` for rooms logic leaves out of a hello
answer, which happens to rooms in `Unreadable` only. Broadcast may be called again
for a room (job's retry). Both mutexes are variables with their holder: `map_lock`
is held by Broadcast across its loop over the users, `topic_lock` by
`PubSubMessage` from the copy of the subscribers to the end of its scope
(`PubSubUnlock`); critical sections that take no second lock are single steps that
need the lock free. `DisconnectShutdown` sends the close frame and shuts down in
one step; `Reactor` has the two apart. `rooms_map` is written but never read and
left out.

**ConnPool.** One step per critical section. The condition variable is a set of
waiting and a set of notified threads. Today all callers pass a time-out of 0 and
logic runs one event loop (`num_event_loops = 0`), so the pool has one caller;
the module keeps the API's timed waiters and any number of threads. `Lease` says
only who holds which connection; `ImplementsLease` instantiates it with the owner
read off `held`. The state of the sessions is kept for what section 4 says of
prepared statements; no property depends on it, and no caller returns a connection
twice, so the check for that in `RelDBConn` never finds one.

**Delivery.** Handlers of logic are atomic (one event loop). The outcome of
`produce()`, of the INSERT and of each gRPC call is a free choice; a call that
reports an error stays in `calls` and may run later or never. The producer's
queue, the partitions (three in `docker-compose.yml`, no key) and the commit
timer are external and modelled from the configuration the code sets: the
defaults, so no idempotence (`Deliver` may write a message twice and in any
order) and auto-commit of offsets stored when `consume()` returns. `dropped` and
`lost` record what becomes of messages for the properties.

**History.** Messages are numbered in the order `handleSend` sees them. A message
shown by the client carries whether its id is the stored one (hello and pages) or
the one `handleSend` made (pushes). `HandleSend` stores a prefix of its batch in
Redis, all or nothing in MySQL, and produces or not, each failure allowed by
`Failing`. The client's `isLoading` is not a variable: the effect at
`chat.tsx:428` resets it in the same update that sets it, so it never guards
anything; `MaxRequests` bounds the requests outstanding and `MaxPerMs` the
messages that share a millisecond, and nothing that is claimed rests on either.
`message_infos` is written as the code does, and read by nobody.
`Xrevrange` counts how many entries are up to the reference (`UpTo`) and takes the
last ones of them, which is what a range is in a stream kept in the order of its
ids.

**Reactor.** One loop (`num_event_loops = 0`), any number of pool and gRPC
threads. A step ends where another thread can see a difference: `send()` tests
`state_`, `queueInLoop` pushes a functor, `wakeup` writes to the eventfd,
`shutdown()` tests and then stores `state_`; on the loop each callback and each
functor is a step, in the order of `handleEventWithGuard` and of the queue. A
message is `MsgLen` bytes and a socket takes `SndBuf` of them until the peer
reads, so writes are partial. A byte is the k-th that a thread sent, which makes
mixing, tearing and overtaking visible. The builds of the repository keep
`assert`, so a failing assert ends the process (`aborted`). `accepted`, `closer`
and `stale` only record history. The functors hold a raw `this`; the model takes
it to be valid. A frame of kind "reply" makes a pool thread send, as a push makes
a gRPC thread send; the task of a close frame sends and shuts down. The frames of
one read are queued in one step (`RunTasks`), which leaves out the states in which
some of them are.

**Framing.** The stream of one connection has positions: the units of the request
between which a cut matters, then the bytes of the frames. Every line of a request
has room for seven units, so line `i` starts at `7 * (i - 1)` whatever the lines
before it are; positions a short line leaves over are no cuts. Only header bytes have
values; key and payload are known by where they lie, so a payload of 65536 bytes
costs nothing and "unmasked with the right key" is an equality of positions.
Lengths, shifts and the sums of `OnRead`, `ParseWebSocketFrame` and
`BuildWebSocketFrame` are computed as in the code, with the two and the eight bytes
of a length written out (`Shifted`, `Number`). The assumption on lengths is that
they are below 2^63, RFC 6455's limit, so that no `uint64_t` sum of the code
overflows. An upgrade that was answered
before all of its request was read treats the rest as frames; such a connection
becomes "misaligned" and nothing is claimed of it.

**Accounts.** A request is `<<browser, n>>` and stands also for the UUIDs made
while it is served. Comet waits for logic at most five seconds (`GiveUp`), logic
finishes regardless and answers to nobody; it may crash between any two of its
steps. MySQL takes names that differ in case for equal (`Fold`), the code's own
comparison does not (`ErrorId`). The result of `ApiSetCookie` is ignored: the
session is stored, or the sid means nothing, or it is empty. An INSERT that is
reported as failed has written nothing (`Delivery` has the other case for rooms),
and a web socket that is dropped after its hello is not modelled: `onClose` treats
it like the refusal that is. The deployment runs
one event loop and points master and slave pool at one MySQL server; the module
allows any number of loops.

How they fit together: `Delivery!AnnouncedRoomsAreListed` is what `Comet` assumes
when `BroadcastCall` takes its room from `logic_rooms`; `Comet!HelloFirst` is
what `History` assumes when the hello frame goes ahead of queued pushes;
`History` assumes each produced batch is pushed once, `Delivery` has the rest;
`Reactor!StreamIntact` and `AcceptedIsDelivered` are what `Comet` assumes of
`send()` when it appends whole frames to `wire` in the order they were queued;
`Framing!FramesExact` and `ParsedAsSent` are what lets `Comet` and `Reactor`
receive whole frames; `Accounts` works out what is a free choice in
`Comet!VerifyUserAuth`.

## 3. Runs that pass

All bounds are CONSTANTS named in the `.cfg` files.

| Run | Bounds | Shows |
|---|---|---|
| `comet_rooms` | 2 connections of 1 user, 2 rooms (1 new), 2 calls, 1 worker; 2.8M states | `SubscribedToKnownRooms`, `ToldOfAnnouncedRooms`: whatever the order of handshake, reconnection and (repeated) Broadcast; `NoCircularWait`: two handlers never wait for each other's mutex |
| `comet_reconnect` | 2 connections, 2 users, 1 room, 1 call, close frames, fairness; 441k | `PushedOnlyToMembers`, `HelloFirst`; `PushReachesMembers`: a dead connection does not stop the loop |
| `pool` | 4 threads (1 timed), limit 2, fairness | no sharing, no lost notification, `FreeIsTaken`, refinement of `Lease` |
| `delivery` | 2 messages, 1 partition, 2 attempts, 1 fault; 256k | `NothingLostSilently`, `InOrderWithinPartition`, `RepeatsBounded` |
| `delivery_rooms` | 2 creations of one name, 1 default room, 2 partitions, 2 attempts, 1 fault, fairness; 38k | `AnnouncedRoomsAreListed`, `ConsumerMovesOn` |
| `history` | 3 messages in batches of up to 2, any of them in one millisecond, hello of 1, pages of 2, 2 requests outstanding, Redis and the producer failing at will, first-time and returning users; 1.1M | `LoadedWithoutHole`, `EndIsTheEnd`, `PagesFromStoredIds`, `MissesOnlyTheGap` |
| `reactor` | 1 connection, 1 worker, 1 gRPC thread, messages of 2 bytes, send buffer of 3, a close frame, 1 push, fairness; 480k | `StreamIntact`, `FinAfterBuffer`, `NoLostWakeup`, `AssertsHoldUnlessOverwritten`, `AcceptedIsDelivered`, `ShutdownCompletes` |
| `reactor_pool` | 1 connection, 2 workers, 3 frames that are answered, in any number of reads; 1.1M | `NoSleepWhileWork` |
| `framing` | an upgrade request of 6 lines or an API request, up to 2 cuts inside it, 2 frames of lengths 0, 125, 126, 65535, 65536, fragments and close, 1 pushed frame; 143k | `FramesExact`, `ParsedAsSent`, `BuiltReadable`, `RequestForwardedOnce`, `OpensExactlyWhen` |
| `accounts` | 2 browsers (2 acts and 1), 1 comet, 2 event loops, 4 forms sharing a name exactly, but for case, or an e-mail, 1 crash, fairness; 961k | `RegisteredIsMine`, `InUseIsTrue`, `SessionHasAccount`, `ShownIsMine`, `PageSettles` |

Why they are enough to be interesting. In Comet a race needs one new room, one
user with an old and a new connection, and two calls (a Broadcast and its
repetition, or a push). In the pool, four threads at a limit of two give two
holders, a waiter and a barger that takes a connection meant for a notified
waiter. In Delivery two messages make order visible and two attempts already
include "late answer of an earlier attempt"; the fault is a restart of logic, a
restart of job or a lost acknowledgement that makes the producer write a message
again (`MaxFaults` counts the three together). In History three messages cover a hello, a
full page (one message after the skip), a last one and the empty page behind it, so
both sides of `has_more`'s boundary occur; a batch of two can be half stored; two
requests for one page, and a request of a page that is no longer the oldest, occur
with two outstanding; and all three messages may tie. (Once, with 4 messages, pages
of 3 and 2 messages per millisecond, 16M states: the same result.) In Reactor a
buffer of three bytes and messages of two make the second message partial and
the third wait behind it; the handshake's answer, hello, a push and a close frame
are sent by all three kinds of thread; epoll never times out (`PollTimeout =
FALSE`), so a lost wake-up would not be repaired. `reactor_pool` gives up the pushes
and the partial writes for a second worker and three frames: two or three in one
read while both workers sleep, one does, or one is about to. In Framing every cut of the
request and of each header is tried, and the lengths are those on both sides of
each encoding's limit. In Accounts two loops let a second request come between
SELECT and INSERT, two acts let an answer find its user on another page, and the
forms give both refusals and the one without an error id. Symmetry is used for
connections and calls in `comet_rooms`, which checks invariants only.

The types of the state are stated as `TypeOK` in every module; the runs check
them for Comet, ConnPool, Delivery and Accounts, where they are also proved, as
they are for Reactor and Framing.

Runs with `CHECK_DEADLOCK FALSE`: clients may stop sending, and bounded instances
run out of connections, messages or calls.

## 4. Runs that show a disagreement

| Run | Property | What the code does |
|---|---|---|
| `comet_registered` | `LiveUsersStayRegistered` | `Disconnect` (`websocket_conn.cc:566`) erases the user's map entry even if it names a newer connection: after a reconnect the close of the old socket makes the user unreachable although "online". The property lets a newer connection take the entry over, so it is the erasure, and nothing else, that violates it |
| `reactor_fin` | `SentBeforeFin` | `Disconnect` (`websocket_conn.cc:554-556`) sends a close frame and calls `shutdown()` from a pool thread; the frame is queued, the state is stored at once, and if the loop finishes writing older data in between, `handleWrite` shuts the socket down before the frame is written |

Other things the modelling showed, for which no run is kept:

- *Prepared statements never get a new session.* `CPrepareStatement::Init` relies
  on `mysql_ping` to reconnect (`logic/mysql/db_pool.cc:88`), but the option that
  makes it do so is commented out (`:208`). `ConnPool` has both uses: ordinary
  queries reconnect, prepared statements do not.
- *Messages shown twice.* The stable sort of a newest-first page
  (`client/web/pages/chat.tsx:139,280`) leaves the newer of two messages of one
  millisecond first, the client pages from it and the older one is loaded again.
  And nothing keeps a second request with the same reference from going out
  before the first is answered (`isLoading` is reset at once, `:428`), so that the
  same page is shown twice. `history` has both; `LoadedWithoutHole` is about the
  set of messages shown and holds nevertheless. That each is shown once is not
  claimed by any text of the repository (`message_service.cc:134` only says that
  the reference itself is skipped), so no run is kept for it.
- *Half a batch.* `storeMessagesToCache` stops at the first XADD that fails
  (`message_service.cc:243`); the rest is in MySQL and is pushed, but is in nobody's
  history afterwards.
- *No fallback to MySQL.* The repository's README (5.5) has history come from
  MySQL when Redis does not have it; `getRoomHistory` only reads Redis.
- *Message ids.* Redis ids are unique per stream, `message_infos.msg_id` over all
  rooms: two rooms' first messages of one millisecond collide
  (`message_service.cc:343`). `History` has one room and lets the INSERT fail.
- *Overwritten state.* `shutdown()` (`muduo/net/TcpConnection.cc:197-199`) may
  store `kDisconnecting` over the loop's `kDisconnected`. Connections where it
  did are excepted in `StreamIntact`; that this is the only way an assert of the
  loop can fail is `AssertsHoldUnlessOverwritten`.
- *Split handshakes.* The first read decides what a connection is; an upgrade
  request cut by TCP may be taken for an API request, lose its key or throw.
  `OpensExactlyWhen` says which cuts still get the 101 for the right key. That is
  not yet a working connection: if the 101 goes out before the end of the request
  was read (a cut after the key line), the rest is taken for frames, and
  `FramesExact` says nothing of such a connection.
- *The close frame is none.* `SendCloseFrame` (`websocket_conn.cc:369-382`) sends
  code and reason without a frame header; the browser fails the connection, and
  `onClose` handles every code alike. A failed handshake never shuts the
  connection down on the server's side.
- *Fragments* (FIN = 0) are cut and parsed exactly, but never put together.
- *Silent page.* When hello cannot be fetched (`websocket_conn.cc:400`) nothing is
  sent and the socket stays open: the page waits for ever. `PageSettles` counts
  this as settled.
- *Case.* A name that differs from a taken one in case only is refused with an
  empty error id (`logic/api/api_register.cc:80`).

## 5. Fairness

- `Comet!Fairness`: the IO thread gets on inside a handler (its HTTP calls have
  time-outs) and writes what is queued, pool threads and gRPC handlers go on.
  Clients, job and the network owe nothing.
- `ConnPool!Fairness`: a notified thread gets the mutex, a holder releases (the
  code releases by RAII on every path).
- `Reactor!FairSpec`: the loop runs for ever and blocks only in `epoll_wait` and
  in HTTP calls with time-outs; pool and gRPC threads inside `send()` or
  `shutdown()` go on; a peer that stays connected reads. Clients need not send,
  close or connect.
- `Accounts!Fairness`: comet's call ends (curl's time-out) and comet then answers;
  a comet that is free takes a waiting request, and does so for every browser
  (strong fairness: with one comet, others may go first, but not for ever; the
  kernel's accept queue and the loop's polling serve all connections). Users and
  logic owe nothing.
- `Delivery!FairSpec`: the consumer thread loops for ever and no call outlasts
  its deadline. Comet, the broker and logic owe nothing.

## 6. Theorems

Proved by TLAPS for every value of the constants, from the named assumptions on
constants only (`CometAssumption`, `PoolAssumption`, `DeliveryAssumption`,
`HistoryAssumption`, `ReactorAssumption`, `AccountsAssumption`,
`FramingAssumption`).

| Theorem | Statement | Inductive invariant |
|---|---|---|
| `CometProofs!TypeCorrect` | `Spec => []TypeOK` | `Types` |
| `CometProofs!RoomsCovered` | `Spec => []SubscribedToKnownRooms` | `RoomInv` |
| `CometProofs!PushesReachMembersOnly` | `Spec => []PushedOnlyToMembers` | `PushInv` |
| `CometProofs!HelloComesFirst` | `Spec => []HelloFirst` | `ToldInv` |
| `CometProofs!AnnouncementsReachAll` | `Spec => []ToldOfAnnouncedRooms` | `ToldInv` |
| `CometProofs!HandlersDoNotDeadlock` | `Spec => []NoCircularWait` | `Types`, `Locks` |
| `ConnPoolProofs!PoolTypes`, `NoSharing`, `NotifyNotLost` | the pool's invariants | `PoolInv` |
| `ConnPoolProofs!PoolImplementsLease` | `Spec => ImplementsLease` | `PoolInv`, step simulation |
| `DeliveryProofs!DeliveryTypes`, `NoSilentLoss` | `TypeOK`, `NothingLostSilently` | `FateInv` |
| `DeliveryProofs!AnnouncedListed` | `Spec => []AnnouncedRoomsAreListed` | `RoomsInv` |
| `DeliveryProofs!PartitionOrder` | `Spec => []InOrderWithinPartition` | `OrderInv` |
| `DeliveryProofs!RepetitionsBounded` | `Spec => []RepeatsBounded` | `RepeatsInv` |
| `HistoryProofs!PagesFromStored` | `Spec => []PagesFromStoredIds` | `PagesInv` |
| `HistoryProofs!OnlyTheGapIsMissed` | `Spec => []MissesOnlyTheGap` | `PagesInv` |
| `HistoryProofs!HistoryHasNoHole` | `Spec => []LoadedWithoutHole` | `PagesInv`, `WindowInv` |
| `HistoryProofs!NoMoreIsTheEnd` | `Spec => []EndIsTheEnd` | `PagesInv`, `WindowInv` |
| `ReactorProofs!WakeupNeverLost` | `Spec => []NoLostWakeup` | `WakeInv` |
| `ReactorProofs!NoWorkerSleepsWhileWork` | `Spec => []NoSleepWhileWork` | `WorkInv` |
| `ReactorLifeProofs!ReactorTypes` | `Spec => []TypeOK` | `LifeInv` |
| `ReactorLifeProofs!FinWaitsForBuffer` | `Spec => []FinAfterBuffer` | `LifeInv` |
| `ReactorLifeProofs!AssertsFailOnlyOverwritten` | `Spec => []AssertsHoldUnlessOverwritten` | `LifeInv` |
| `ReactorLifeProofs!StreamIsWhole` | `Spec => []StreamIntact` | `StreamInv` |
| `FramingProofs!TypesHold` | `Spec => []TypeOK` | `FrameInv`, `Bounded` |
| `FramingProofs!FramesAreExact` | `Spec => []FramesExact` | `FrameInv` |
| `FramingProofs!ParsedIsSent` | `Spec => []ParsedAsSent` | `FrameInv` |
| `FramingProofs!BuiltIsReadable` | `Spec => []BuiltReadable` | `FrameInv` |
| `FramingProofs!ForwardedOnce` | `Spec => []RequestForwardedOnce` | `FrameInv`, `Forwarding` |
| `FramingProofs!OpensExactly` | `Spec => []OpensExactlyWhen` | `FrameInv`, `Opening` |
| `AccountsProofs!TypeCorrect` | `Spec => []TypeOK` | `AccountsInv` |
| `AccountsProofs!CreatedAccountsExist` | `Spec => []RegisteredIsMine` | `AccountsInv` |
| `AccountsProofs!RefusalsAreTrue` | `Spec => []InUseIsTrue` | `AccountsInv` |
| `AccountsProofs!SessionsHaveAccounts` | `Spec => []SessionHasAccount` | `AccountsInv` |
| `AccountsProofs!PagesShowTheirUser` | `Spec => []ShownIsMine` | `AccountsInv` |

*RoomInv.* `SubscribedToKnownRooms` is not inductive: a user in the middle of a
handshake is registered but not subscribed, and a room in the middle of a
Broadcast has a topic but not all users. `Coverage` says what may be missing and
where it is still to come from: a covered room is missing for a registered user
only if the handshake has still to ask logic or has the room among those left to
subscribe. It works because the connection is registered *before* logic is asked
and logic lists the room *before* it is announced: either the Broadcast loop sees
the user or the hello answer contains the room. `Handshake`, `MapOwner`,
`Startup`, `Broadcasting` and `Listed` tie the threads' program counters to the
shared state.

*PushInv* adds that the users and the connection a push handler still holds are
members; a connection never changes its user and subscribers are never removed,
so what was looked up before the lock was released stays right.

*ToldInv* builds on `RoomInv`. Pushes wait in `pending` while the IO thread is in a
handshake, and go only to connections that are greeted or past the registration
(`SentToKnown`); no frame of a connection is a task before its handshake has left
the IO thread, so nothing closes it meanwhile and the hello frame is not dropped
(`QuietHandshake`); a greeted connection has it on the wire (`Greeted`). With these
`HelloFirst` is inductive. `Telling` says of an announced room
and a registered connection what `Coverage` says of subscriptions: the client has
been told, or the handshake has still to ask logic, or it has the room in its answer.
Every step does one of four things to the frames of a connection - nothing, queues
one, writes one in the handshake, flushes the oldest - and the proofs go by these
rather than by action.

*Locks* says where a handler holds which mutex: the map's only in the subscribe loop of
Broadcast, the topics' only between `PubSubMessage`'s copy and the end of its scope.
So in any set of handlers the holder of the topic mutex waits for nothing, and without
it the holder of the map's mutex waits for nobody in the set. IO thread and pool take
one mutex at a time.

*PoolInv* adds to the stated invariants that a thread is in one place and that
notified threads, too, were sent to wait at the limit; `NoLostNotification` is
inductive with these. The refinement maps `Get` of a free connection to
`Acquire`, opening one to `Open`, `Release` to `Return`, and everything else to a
stutter.

*FateInv* adds `committed <= position <= Len(log)` and that the consumer has a
message exactly when it is past `consume()`. *RoomsInv* strengthens the property
from "announced" to "anywhere between `produce()` and comet".

*OrderInv* turns the order of first runs into facts about the present: when a call
for a message has been made (or is about to be), every message before it in its
partition is run, dropped or lost (`SettledBefore`); a call made late does not undo
this. *RepeatsInv* counts. `times` alone cannot bound itself, because calls outlive
the attempt that made them; so it says that *some* set of finished calls exists,
disjoint from those still in flight, with as many members for each message as `times`
says. A call is identified by the life of job, the copy in the log and the attempt,
all within bounds, and an injection into a product of intervals gives the bound.

*PagesInv* adds to the types: the hello frame is the first of an open session and
nothing is shown before it (`Phases`); pages carry stored ids, and a page that claims
more before it is not empty (`StoredFirst`), so that the first message shown is a
stored one whenever the client may page - pushes are appended, pages prepended; and
the property `MissesOnlyTheGap` from the moment the answer is made (`NothingLost`).
*WindowInv* says which entries of the stream are on screen: as a set those from some
`k` to `snapshot`, whatever their order and however often each. Every request
names an entry of that window and every page on its way is the one before an entry of
it, so a page that arrives, also late or a second time, joins the window and may only
move `k` back; `hasMoreMessages` is false only for `k = 1`. `Ordered` (the stream is
in the order messages were sent) makes "up to the reference" a prefix of the stream,
and pushes carry other ids (`PushesUnstored`), so the first message shown, which the
client pages from, is an entry. The order of messages on screen is not part of it,
which is why messages of one millisecond need no exception. The proof rests on the
lemma that the client's sort permutes (`SortPermutes`) and on lemmas about
`getRoomHistory`: what page it is, for any reference (`PageIs`, `HelloIsPage`,
`AnswerIsPage`).

*WakeInv* adds to `NoLostWakeup` only what the prover needs to know of the shapes
of `thr` and `pending`. The property is inductive because the functors are pushed
before the eventfd is written, because the loop's own `queueInLoop` writes to it
exactly while `callingPendingFunctors_` is set, and because the loop reads the
eventfd only in a round that takes the functors afterwards.

*WorkInv* adds to `NoSleepWhileWork` that the queue and what a socket received are
sequences. Taking a frame removes one frame and one taker; `take` goes to sleep
only on an empty queue; and `run`, which notifies once for each frame it adds,
either wakes as many workers as it added frames or leaves none asleep. The run has
two workers, the theorem any finite number.

*LifeInv* follows a connection from `accept` to `connectDestroyed`. Functors, tasks
and busy threads are about connections the loop has accepted (`SoundFunctors`,
`AtWork`), before that only the backlog knows one (`Unborn`). For a connection whose
state `shutdown()` did not overwrite, `state_`, `connections_`, the poller and the
down callback agree (`Agreement`) and an event that may close it is about one still
open, once per round (`Activity`): this is what the asserts test. The channel waits
for writability exactly while bytes are buffered (`WritesBuffer`), which is what
`shutdownInLoop` and `handleWrite` go by before they shut the socket down. Each step
does one of eight things to each connection (`ConnStep`); the parts of the invariant
are preserved by each of them. `ReactorAssumption` keeps connections apart from the
names of the two other descriptors of the loop.

*StreamInv* adds to `LifeInv` what the bytes of a connection are: those of the first
`m[t]` messages of every thread `t`, for some `m` (`Holds`). That the stream is whole
(`Intact`) is inductive only if the next `sendInLoop` brings the next message of its
thread, so the messages after `m[t]` that `send()` has taken must all be among the
functors taken and pending, each once and in order (`Line`) - but for one message of a
thread that stands between `send()`'s test of `state_` and `queueInLoop` (`Queued`).
This ends when the connection does: `sendInLoop` gives up on a closed connection and
on a failing socket, and the functors left may then be for messages after a gap.
`Dead` says when nothing is added any more, and that it stays so is where connections
whose `kDisconnected` was overwritten have to be excepted: for them `sendInLoop` comes
back to life. `Rounds` says that `doPendingFunctors` takes functors only when those it
took before have run, so taking them does not change their order. The proof goes by
what a step does to a stream (`Keeps`, `Adds`, `Drops`) and to the list of functors
(`Lasts`, `Follows`). No bound of the run is left: any number of connections, threads,
pushes, any length of messages and any room in the socket.

*FrameInv* ties the buffers to positions of the stream. `Stream`: the client's frames
lie one after the other behind the request. `Cutting`: the frames cut so far are the
first `m`, task `i` is exactly the bytes of its frame, `incomplete_frame_buffer` begins
where frame `m` ends and holds all that was read since, and the loop of `OnRead` stops
only when frame `m + 1` has not arrived whole. `Uncut`: nothing is cut before the 101
or after a 101 that was sent too early. Each step of the loop rests on lemmas about the
header bytes: what `BigEndian` writes in two or eight bytes `Number` reads back
(`TwoBytes`, `EightBytes`), and a header that arrived in part is never taken
for a whole one. `ParsedAsSent` and `BuiltReadable` are then inductive. *Forwarding*
adds for an API request that it stays in the buffer, unanswered, until its last byte
is there. *Opening* is needed because the answer to a key depends on reads long past:
it keeps, in terms of the positions where reads ended, which read decided the
connection's type (`Decides`: the first that did not end after a colon) and which pairs
of positions the handshake has looked for the key in (`Looked`). *Bounded* keeps every
slice within what was read.

*AccountsInv* has three parts. `TypeInv` adds to `TypeOK` which step of a loop
goes with which kind of request. `FlightInv`: a form is submitted with one input,
whichever of the network, comet, logic or the record of answers knows of it, its
number is in the past, and the e-mail of a session is the one of the form it was
made for; so an answer cannot be about another form. `DataInv`: `user_infos` has
one row per e-mail (by the UNIQUE key), every answer in flight is backed by its
row, every cookie and every handshake holds a sid that its own browser got, and
a user comet has been told of is one the browser is entitled to. Expiry and
crashes only take away, late answers are dropped by the comparison of the
request, and rows are never removed.

Every invariant and every safety action property that a passing run checks is
proved. Only model-checked: all liveness (`PushReachesMembers`,
`FreeIsTaken`, `ConsumerMovesOn`, `AcceptedIsDelivered`, `ShutdownCompletes`,
`PageSettles`), which with fairness and ENABLED is out of the prover's reach. Induction
over data is, too: `Framing` writes the bytes of a length out instead of recurring
over them.

## 7. Not modelled

- The rest of the chat page: several rooms, unread counts, the order of rooms,
  announcements, the create-room dialog. A repeated `serverCreateRoom` replaces
  the room and its messages in the client (`client/web/pages/chat.tsx:266`);
  Comet and Delivery show that repetitions happen.
- The order in which two frames of one connection reach logic: two pool threads
  may run them in either order, and no line of the repository promises one.
- A second request on a kept-alive HTTP connection (`CHttpConn::OnRead` never
  empties the buffer), and requests to logic that TCP splits (`logic/main.cc:116`
  takes each read for a whole request).
- What is below steps: `GetRoomList`'s unlocked iteration
  (`pub_sub_service.cc:35`), the raw `this` in queued functors
  (`TcpConnection.cc:103`), a null connection in `GetUserNameAndUseridByEmail`
  (`api_common.cc:117`), the lock that `AddConnection` declares instead of taking
  (`chat-room/main.cc:42`, harmless with one loop), `curl_global_cleanup` in
  every `~LogicClient` (`logic_client.cc:26`).
- `PushMsg` and `Rooms` of comet: stubs. Single-message store functions: unused.
- Password hashing, JSON, configuration, logging.
- Third-party and generated code: http_parser, hiredis, sds, md5, protobuf and
  gRPC stubs, and of muduo what comet does not run on (timers, `TcpClient`,
  `Connector`, HTTP and protobuf codecs, logging). These are most of the
  repository's lines: muduo is contained three times, once per server, with the
  generated code twice. The map names comet's copy of muduo; the share of all
  lines it covers says little, the share of the program's own code is what the
  components table shows.

## 8. Plan

Done: `Comet` (first, as the layer where most threads meet), `ConnPool` with
`Lease`, `Delivery`, `History`, `Reactor`, `Framing`, `Accounts`, and the theorems
above.

Left, in this order:

1. A composition of Comet and Delivery: the way of one user's messages from the
   frame tasks to the members, with an abstract "room log" specification.
2. The rest of the chat page's reducer (`add_new_room`, unread counts, ordering)
   with a second room and the repeated `serverCreateRoom`.

## 9. Running

    tlc -workers 2 -config MCCometRooms.cfg MCComet
    tlapm CometProofs.tla
