------------------------------ MODULE History ------------------------------
(***************************************************************************)
(* What one user sees of one room.  logic's handleSend stores messages in  *)
(* a Redis stream and in MySQL and hands them to Kafka; handleHello and    *)
(* handleRoomHistory read the stream back through getRoomHistory           *)
(* (message_service.cc); comet pushes, answers the handshake and relays    *)
(* history requests; the web client (client/web/pages/chat.tsx) puts it    *)
(* all together.                                                           *)
(*                                                                         *)
(* A message carries two ids: the one handleSend makes for the push, and   *)
(* the one Redis gives the stored copy.  The client pages back by id.      *)
(*                                                                         *)
(* Kafka and job appear as a set of produced messages, pushed once each in *)
(* any order (three partitions, no key); Delivery has their failures.      *)
(* Comet has the other users, connections and rooms.                       *)
(***************************************************************************)
EXTENDS Naturals, Sequences, FiniteSets, SequencesExt

CONSTANTS
    HelloCount,     \* k_message_batch_size: messages per room in a hello answer
    PageCount,      \* count of a requestRoomHistory
    Returning,      \* may the user be subscribed from an earlier session
    Failing,        \* the services that may fail: Redis, MySQL, the producer
    MaxMsgs,        \* bound: messages sent to the room
    MaxBatch,       \* bound: messages in one clientMessages frame
    MaxPerMs,       \* bound: messages that share a timestamp
    MaxRequests     \* bound: history requests the user lets be outstanding

ASSUME HistoryAssumption ==
    /\ HelloCount \in Nat \ {0}
    /\ PageCount \in Nat \ {0, 1}      \* a page of one only repeats its reference
    /\ Returning \subseteq BOOLEAN
    /\ Failing \subseteq {"redis", "mysql", "kafka"}
    /\ \A n \in {MaxMsgs, MaxBatch, MaxPerMs, MaxRequests} : n \in Nat

Msgs == 1..MaxMsgs                     \* numbered in the order handleSend sees them

VARIABLES
    timestamp,       \* of the messages sent so far
    stream,          \* the room's Redis stream, oldest first
    message_infos,   \* the room's rows in MySQL
    refused,         \* messages produce() did not take
    bus,             \* batches produced to Kafka and not yet pushed
    session,         \* the handshake: "none" "registered" "fetched" "open" "failed"
    subscribed,      \* the user is in RoomTopic::user_ids
    hello,           \* the hello answer comet holds while it subscribes the user
    snapshot,        \* length of the stream when that answer was made
    gap,             \* messages pushed between that moment and the subscription
    requests,        \* firstMessageIds of history requests on their way
    down,            \* frames on their way to the client
    room_known,      \* state.rooms has the room
    messages,        \* its messages as shown
    hasMoreMessages,
    isAtTop

store_vars == <<timestamp, stream, message_infos, refused>>
comet_vars == <<session, subscribed, hello, snapshot, gap>>
client_vars == <<room_known, messages, hasMoreMessages, isAtTop>>
vars == <<store_vars, bus, comet_vars, requests, down, client_vars>>

-----------------------------------------------------------------------------
(* Types *)

\* A message as a client has it: which one, and whether its id is the stored one.
Shown == [msg : Msgs, stored : BOOLEAN]
Page == [msgs : Seq(Shown), more : BOOLEAN]
PageOf(s, b) == [msgs |-> s, more |-> b]
Frame(k, p) == [kind |-> k, page |-> p]
EmptyPage == PageOf(<<>>, FALSE)

\* The types of the state.
TypeOK ==
    /\ timestamp \in Seq(Nat) /\ Len(timestamp) <= MaxMsgs
    /\ stream \in Seq(DOMAIN timestamp)
    /\ message_infos \subseteq DOMAIN timestamp
    /\ refused \subseteq DOMAIN timestamp
    /\ bus \subseteq Seq(DOMAIN timestamp)
    /\ session \in {"none", "registered", "fetched", "open", "failed"}
    /\ subscribed \in BOOLEAN
    /\ hello \in Page
    /\ snapshot \in 0..Len(stream)
    /\ gap \subseteq DOMAIN timestamp
    /\ requests \in Seq(Shown)
    /\ down \in Seq([kind : {"hello", "serverMessages", "serverRoomHistory"}, page : Page])
    /\ room_known \in BOOLEAN
    /\ messages \in Seq(Shown)
    /\ hasMoreMessages \in BOOLEAN
    /\ isAtTop \in BOOLEAN

Init ==
    /\ timestamp = <<>>
    /\ stream = <<>>
    /\ message_infos = {}
    /\ refused = {}
    /\ bus = {}
    /\ session = "none"
    /\ subscribed \in Returning
    /\ hello = EmptyPage
    /\ snapshot = 0
    /\ gap = {}
    /\ requests = <<>>
    /\ down = <<>>
    /\ room_known = FALSE
    /\ messages = <<>>
    /\ hasMoreMessages = FALSE
    /\ isAtTop = FALSE

-----------------------------------------------------------------------------
(* Reading the stream back *)

Stored(s) == [i \in DOMAIN s |-> [msg |-> s[i], stored |-> TRUE]]
Pushed(s) == [i \in DOMAIN s |-> [msg |-> s[i], stored |-> FALSE]]

\* A seeded fault, like the ones below: the range ends before the reference, so that
\* the entry getRoomHistory skips is one the client does not have.
UpTo_Exclusive(ref) ==
    Cardinality({i \in DOMAIN stream : \A j \in DOMAIN ref : stream[i] < ref[j].msg})

\* Redis keeps a stream in the order of its ids: the entries up to ref are the
\* first ones.  ref is <<>> for "+".  The id of a push is made before the stored
\* copy's, so it is at most that one (no request carries it: PagesFromStoredIds).
UpTo(ref) ==
    Cardinality({i \in DOMAIN stream :
        \A j \in DOMAIN ref : stream[i] < ref[j].msg \/ (ref[j].stored /\ stream[i] = ref[j].msg)})

\* XREVRANGE key ref - COUNT n: the n newest up to ref, both ends included, the
\* newest first.
Xrevrange(ref, n) == [i \in 1..Min({UpTo(ref), n}) |-> stream[UpTo(ref) + 1 - i]]

\* messages.sort((a, b) => a.timestamp - b.timestamp), which is stable.
SortByTimestamp(s) ==
    LET Before(i, j) == \/ timestamp[s[i].msg] < timestamp[s[j].msg]
                        \/ timestamp[s[i].msg] = timestamp[s[j].msg] /\ i < j
        Rank(j) == 1 + Cardinality({i \in DOMAIN s : Before(i, j)})
    IN  [k \in DOMAIN s |-> s[CHOOSE j \in DOMAIN s : Rank(j) = k]]

Received(k) == session \in {"open", "failed"} /\ down # <<>> /\ Head(down).kind = k

-----------------------------------------------------------------------------
(* Seeded faults: each is a wrong version of the definition it is named after.  *)
(* No specification uses them; putting one in its place must break the property *)
(* it was written for.                                                          *)

\* has_more compares what is left after the skip.
GetRoomHistory_CountsKept(ref, n) ==
    LET found == Xrevrange(ref, n)
        kept == SubSeq(found, Len(ref) + 1, Len(found))
    IN  PageOf(Stored(kept), Len(kept) >= n)

\* has_more is an offer to try.
GetRoomHistory_AlwaysMore(ref, n) ==
    LET found == Xrevrange(ref, n)
    IN  PageOf(Stored(SubSeq(found, Len(ref) + 1, Len(found))), TRUE)

\* A push only reaches connections that have had their hello.
PushTo_Greeted == subscribed /\ session \in {"open", "failed"}

-----------------------------------------------------------------------------
(* getRoomHistory and PubSubMessage *)

\* getRoomHistory: with a reference the first entry is skipped as already known;
\* there is said to be more when the stream gave as many as were asked for.
GetRoomHistory(ref, n) ==
    LET found == Xrevrange(ref, n)
        kept == SubSeq(found, Len(ref) + 1, Len(found))
    IN  PageOf(Stored(kept), Len(found) >= n)

\* The connections a push goes to: PubSubMessage's copy of the subscribers, each
\* looked up in s_user_ws_conn_map.
PushTo == subscribed /\ session # "none"

-----------------------------------------------------------------------------
(* logic *)

\* Timestamps of a batch: milliseconds, not falling, shared by few messages.
Stamps(n) ==
    LET k == Len(timestamp)
        last == IF k = 0 THEN 1 ELSE Last(timestamp)
    IN  {t \in [1..n -> last..(last + n)] :
            LET all == timestamp \o t IN
            /\ all[1] = 1
            /\ \A i \in (k + 1)..(k + n) : i > 1 => all[i] \in {all[i - 1], all[i - 1] + 1}
            /\ \A i \in 1..k + n : Cardinality({j \in 1..k + n : all[j] = all[i]}) <= MaxPerMs}

\* storeMessagesToCache stops at the first XADD that fails, the one INSERT of
\* storeMessagesToDB writes all or nothing.
StoreMessagesToCache(batch, cached) ==
    /\ cached < Len(batch) => "redis" \in Failing
    /\ stream' = stream \o SubSeq(batch, 1, cached)
StoreMessagesToDB(batch, in_db) ==
    /\ ~in_db => "mysql" \in Failing
    /\ message_infos' = IF in_db THEN message_infos \cup ToSet(batch) ELSE message_infos

\* handleSend stores and produces; each goes on whatever the one before it said.
HandleSend(n, cached, in_db, sent) ==
    LET batch == [i \in 1..n |-> Len(timestamp) + i] IN
    /\ Len(timestamp) + n <= MaxMsgs           \* bound
    /\ \E t \in Stamps(n) : timestamp' = timestamp \o t
    /\ StoreMessagesToCache(batch, cached)
    /\ StoreMessagesToDB(batch, in_db)
    /\ ~sent => "kafka" \in Failing
    /\ bus' = IF sent THEN bus \cup {batch} ELSE bus
    /\ refused' = IF sent THEN refused ELSE refused \cup ToSet(batch)
    /\ UNCHANGED <<comet_vars, requests, down, client_vars>>

\* handleRoomHistory for a request comet relays; when it fails nothing is sent.
HandleRoomHistory(i, ok) ==
    /\ ~ok => "redis" \in Failing
    /\ requests' = RemoveAt(requests, i)
    /\ down' = IF ok
               THEN Append(down, Frame("serverRoomHistory", GetRoomHistory(<<requests[i]>>, PageCount)))
               ELSE down
    /\ UNCHANGED <<store_vars, bus, comet_vars, client_vars>>

-----------------------------------------------------------------------------
(* comet *)

\* The verified connection is registered before the hello call ...
InsertConn ==
    /\ session = "none"
    /\ session' = "registered"
    /\ UNCHANGED <<store_vars, bus, subscribed, hello, snapshot, gap, requests, down, client_vars>>

\* ... logic answers it with the newest messages of the room ...
HandleHello ==
    /\ session = "registered"
    /\ session' = "fetched"
    /\ hello' = GetRoomHistory(<<>>, HelloCount)
    /\ snapshot' = Len(stream)
    /\ UNCHANGED <<store_vars, bus, subscribed, gap, requests, down, client_vars>>

\* ... or leaves the room out, if its history cannot be read ...
HandleHelloSkips ==
    /\ "redis" \in Failing
    /\ session = "registered"
    /\ session' = "failed"
    /\ UNCHANGED <<store_vars, bus, subscribed, hello, snapshot, gap, requests, down, client_vars>>

\* ... the user is subscribed to the rooms of the answer ...
AddSubscriber ==
    /\ session = "fetched"
    /\ ~subscribed
    /\ subscribed' = TRUE
    /\ UNCHANGED <<store_vars, bus, session, hello, snapshot, gap, requests, down, client_vars>>

\* ... and the answer goes out ahead of what was pushed meanwhile (Comet!HelloFirst).
SendHelloMessage ==
    /\ session = "fetched"
    /\ subscribed
    /\ session' = "open"
    /\ down' = <<Frame("hello", hello)>> \o down
    /\ UNCHANGED <<store_vars, bus, subscribed, hello, snapshot, gap, requests, client_vars>>

\* job calls BroadcastRoom for one produced batch.
BroadcastRoom(batch) ==
    /\ bus' = bus \ {batch}
    /\ down' = IF PushTo THEN Append(down, Frame("serverMessages", PageOf(Pushed(batch), FALSE)))
                         ELSE down
    /\ gap' = IF session = "fetched" /\ ~subscribed THEN gap \cup ToSet(batch) ELSE gap
    /\ UNCHANGED <<store_vars, session, subscribed, hello, snapshot, requests, client_vars>>

-----------------------------------------------------------------------------
(* The web client *)

\* set_initial_state
DoSetInitialState ==
    /\ Received("hello")
    /\ room_known' = TRUE
    /\ messages' = SortByTimestamp(Head(down).page.msgs)
    /\ hasMoreMessages' = Head(down).page.more
    /\ down' = Tail(down)
    /\ UNCHANGED <<store_vars, bus, comet_vars, requests, isAtTop>>

\* add_messages; messages of an unknown room are dropped.
DoAddMessages ==
    /\ Received("serverMessages")
    /\ messages' = IF room_known THEN messages \o SortByTimestamp(Head(down).page.msgs)
                                 ELSE messages
    /\ down' = Tail(down)
    /\ UNCHANGED <<store_vars, bus, comet_vars, requests, room_known, hasMoreMessages, isAtTop>>

\* update_room_history
UpdateRoomHistory ==
    /\ Received("serverRoomHistory")
    /\ room_known
    /\ messages' = SortByTimestamp(Head(down).page.msgs) \o messages
    /\ hasMoreMessages' = Head(down).page.more
    /\ down' = Tail(down)
    /\ UNCHANGED <<store_vars, bus, comet_vars, requests, room_known, isAtTop>>

\* handleScroll, upwards at the top: ask for what is before the first message.
\* isLoading does not outlast the action: the effect that is to reset it when the
\* page has arrived runs as soon as it is set.
ScrollRequestsHistory ==
    /\ room_known
    /\ isAtTop
    /\ hasMoreMessages
    /\ messages # <<>>
    /\ Len(requests) + Cardinality({i \in DOMAIN down : down[i].kind = "serverRoomHistory"}) < MaxRequests  \* bound
    /\ requests' = Append(requests, Head(messages))
    /\ isAtTop' = FALSE
    /\ UNCHANGED <<store_vars, bus, comet_vars, down, room_known, messages, hasMoreMessages>>

\* Upwards the first time: only note that the top is reached.
ScrollToTop ==
    /\ room_known
    /\ ~isAtTop
    /\ isAtTop' = TRUE
    /\ UNCHANGED <<store_vars, bus, comet_vars, requests, down, room_known, messages, hasMoreMessages>>

ScrollDown ==
    /\ room_known
    /\ isAtTop
    /\ isAtTop' = FALSE
    /\ UNCHANGED <<store_vars, bus, comet_vars, requests, down, room_known, messages, hasMoreMessages>>

-----------------------------------------------------------------------------
(* Specification *)

Next ==
    \/ \E n \in 1..MaxBatch, cached \in 0..MaxBatch, in_db, sent \in BOOLEAN :
          cached <= n /\ HandleSend(n, cached, in_db, sent)
    \/ \E i \in DOMAIN requests, ok \in BOOLEAN : HandleRoomHistory(i, ok)
    \/ InsertConn
    \/ HandleHello
    \/ HandleHelloSkips
    \/ AddSubscriber
    \/ SendHelloMessage
    \/ \E batch \in bus : BroadcastRoom(batch)
    \/ DoSetInitialState
    \/ DoAddMessages
    \/ UpdateRoomHistory
    \/ ScrollRequestsHistory
    \/ ScrollToTop
    \/ ScrollDown

Spec == Init /\ [][Next]_vars

-----------------------------------------------------------------------------
(* Properties *)

\* What is shown of the messages read back, by position.
Loaded == {i \in DOMAIN messages : messages[i].stored}

\* The messages read back from the stream (hello and pages) have no hole: together
\* they are a window of the stream that ends where the hello answer ended, however
\* pushes, new messages and overlapping requests fall between the pages and whatever
\* timestamps are equal.  (A message may be shown twice: see ScrollRequestsHistory.)
LoadedWithoutHole ==
    room_known =>
        \E k \in 1..(snapshot + 1) :
            {messages[i].msg : i \in Loaded} = {stream[i] : i \in k..snapshot}

\* When the client is told there is nothing more, nothing older is left in the
\* stream (has_more of getRoomHistory is a guess from the number of entries).
EndIsTheEnd ==
    room_known /\ ~hasMoreMessages =>
        \A i \in 1..snapshot : \E j \in DOMAIN messages : messages[j] = [msg |-> stream[i], stored |-> TRUE]

\* The client only pages from ids Redis knows: an id made by handleSend names no
\* entry, and skipping the first entry found for it would hide a message.
PagesFromStoredIds == \A i \in DOMAIN requests : requests[i].stored

\* A stored message whose push is over is on screen, on its way, or before the
\* first message shown - except for what was pushed to a first-time subscriber
\* between the hello answer and the subscription.  A user who comes back misses
\* nothing.
InFrames == UNION {ToSet(down[i].page.msgs) : i \in DOMAIN down}
Reached == {x.msg : x \in ToSet(messages) \cup InFrames}
InBus == UNION {ToSet(b) : b \in bus}
MissesOnlyTheGap ==
    session = "open" =>
        \A i \in (snapshot + 1)..Len(stream) :
            stream[i] \in Reached \cup InBus \cup gap \cup refused
=============================================================================
