------------------------------ MODULE Delivery ------------------------------
(***************************************************************************)
(* From logic's handlers to comet's: handleSend and handleCreateRoom       *)
(* (logic/main.cc) produce to a Kafka topic, the single consumer thread of *)
(* job (job/main.cc) takes one message at a time and calls comet, with up  *)
(* to MAX_RETRIES attempts of five seconds each.                           *)
(*                                                                         *)
(* Four places lose, repeat or reorder messages, and the code relies on    *)
(* library defaults in all of them.                                        *)
(*   - The producer answers as soon as a message is in its own queue.      *)
(*   - No key is given, so any partition may receive a message; the library*)
(*     retries without idempotence, so it may be written twice or late.    *)
(*   - Offsets are stored when consume() returns and committed by a timer, *)
(*     before or after the message has been pushed.                        *)
(*   - A call that reports an error may have run, or may run later.        *)
(*                                                                         *)
(* logic has one event loop (num_event_loops = 0): its handlers are steps. *)
(* What they store of a message is in History; what comet does in Comet.   *)
(***************************************************************************)
EXTENDS Naturals, Sequences, FiniteSets

CONSTANTS
    Chats,          \* requests to /logic/send
    Creates,        \* requests to /logic/room/create; also the rooms they make
    DefaultRooms,   \* RoomService::m_default_rooms
    Name,           \* the name of a room, as a function
    Partitions,     \* of the Kafka topic
    MAX_RETRIES,
    NoMsg,
    MaxFaults       \* bound: restarts of logic and job, lost acknowledgements

Rooms == Creates \cup DefaultRooms
Msgs == Chats \cup Creates

ASSUME DeliveryAssumption ==
    /\ Creates \cap DefaultRooms = {}
    /\ Chats \cap Creates = {}
    /\ DOMAIN Name = Rooms
    /\ NoMsg \notin Msgs
    /\ MAX_RETRIES \in Nat \ {0}
    /\ MaxFaults \in Nat

VARIABLES
    logic_up,
    logic_restarts,
    room_infos,     \* the MySQL table: rooms, unique by name
    m_room_list,    \* RoomService's copy of it
    answer,         \* what each request was answered
    outq,           \* messages in the producer's queue
    log,            \* the partitions
    resends,        \* messages written whose acknowledgement was lost
    position,       \* next message the consumer hands out, per partition
    committed,      \* the consumer group's committed position
    job,            \* the consumer thread
    job_restarts,
    calls,          \* gRPC requests that may still reach comet
    times,          \* how often comet ran the call of a message
    first_runs,     \* messages in the order comet first ran them
    dropped,        \* messages given up after MAX_RETRIES errors
    lost            \* messages a crash of job took with it

logic_vars == <<logic_up, logic_restarts, room_infos, m_room_list, answer>>
kafka_vars == <<outq, log, resends>>
offset_vars == <<position, committed>>
fate_vars == <<dropped, lost>>
comet_vars == <<calls, times, first_runs>>
vars == <<logic_vars, kafka_vars, offset_vars, job, job_restarts, comet_vars, fate_vars>>

-----------------------------------------------------------------------------
(* Types *)

\* Where the consumer thread is, the message (with its offset) and attempt it is
\* at, and whether comet has run the call it waits for.
Thread(step, m, o, n, r) == [pc |-> step, msg |-> m, offset |-> o, retry |-> n, ran |-> r]
Idle == Thread("consume", NoMsg, 0, 0, FALSE)
CallOf(m, o, life, n) == [msg |-> m, offset |-> o, life |-> life, retry |-> n]
ThisCall == CallOf(job.msg, job.offset, job_restarts, job.retry)

Attempts == 0..(MAX_RETRIES - 1)
Call == [msg : Msgs, offset : Nat, life : 0..MaxFaults, retry : Attempts]

TypeOK ==
    /\ logic_up \in BOOLEAN
    /\ logic_restarts \in 0..MaxFaults
    /\ room_infos \in SUBSET Rooms
    /\ m_room_list \in SUBSET Rooms
    /\ answer \in [Msgs -> {"none", "success", "failed", "taken"}]
    /\ outq \in SUBSET Msgs
    /\ log \in [Partitions -> Seq(Msgs)]
    /\ resends \in 0..MaxFaults
    /\ position \in [Partitions -> Nat]
    /\ committed \in [Partitions -> Nat]
    /\ job \in [pc : {"consume", "call", "wait"}, msg : Msgs \cup {NoMsg},
                offset : Nat, retry : Attempts, ran : BOOLEAN]
    /\ job_restarts \in 0..MaxFaults
    /\ calls \in SUBSET Call
    /\ times \in [Msgs -> Nat]
    /\ first_runs \in Seq(Msgs)
    /\ dropped \in SUBSET Msgs
    /\ lost \in SUBSET Msgs

Init ==
    /\ logic_up = FALSE
    /\ logic_restarts = 0
    /\ room_infos = {}
    /\ m_room_list = {}
    /\ answer = [m \in Msgs |-> "none"]
    /\ outq = {}
    /\ log = [p \in Partitions |-> <<>>]
    /\ resends = 0
    /\ position = [p \in Partitions |-> 0]
    /\ committed = [p \in Partitions |-> 0]
    /\ job = Idle
    /\ job_restarts = 0
    /\ calls = {}
    /\ times = [m \in Msgs |-> 0]
    /\ first_runs = <<>>
    /\ dropped = {}
    /\ lost = {}

-----------------------------------------------------------------------------
(* Helpers *)

MoreFaults == logic_restarts + job_restarts + resends < MaxFaults    \* bound

NameIn(r, rs) == \E q \in rs : Name[q] = Name[r]

\* dbCreateRoom's INSERT, whatever it reports, writes the row or does not.
DbCreateRoom(r, stored) == room_infos' = IF stored THEN room_infos \cup {r} ELSE room_infos
AddRoomToList(r) == m_room_list' = m_room_list \cup {r}
RefreshRoomList == m_room_list' = room_infos'

\* produce() puts the message on the producer's queue, or the queue is full.
SendMessage(m, ok) == outq' = IF ok THEN outq \cup {m} ELSE outq

Answer(m, a) == answer' = [answer EXCEPT ![m] = a]

-----------------------------------------------------------------------------
(* Seeded faults: each is a wrong version of the action it is named after.  No  *)
(* specification uses them; putting one in the action's place must break the    *)
(* property it was written for.                                                 *)

\* The room list is not read again after a restart.
LogicStart_NoRefresh(new) ==
    /\ ~logic_up
    /\ new \subseteq DefaultRooms \ room_infos
    /\ \A r \in new : ~NameIn(r, room_infos \cup (new \ {r}))
    /\ logic_up' = TRUE
    /\ room_infos' = room_infos \cup new
    /\ m_room_list' = new
    /\ UNCHANGED <<logic_restarts, answer, kafka_vars, offset_vars, job,
                   job_restarts, comet_vars, fate_vars>>

\* Every error counts as an answer.
CallFails_TakenAsAnswer ==
    /\ job.pc = "wait"
    /\ job' = Idle
    /\ UNCHANGED <<logic_vars, kafka_vars, offset_vars, job_restarts, comet_vars,
                   fate_vars>>

\* One attempt too many.
CallFails_OneMore ==
    /\ job.pc = "wait"
    /\ IF job.retry < MAX_RETRIES
       THEN /\ job' = Thread("call", job.msg, job.offset, job.retry + 1, FALSE)
            /\ UNCHANGED dropped
       ELSE /\ job' = Idle
            /\ dropped' = dropped \cup {job.msg}
    /\ UNCHANGED <<logic_vars, kafka_vars, offset_vars, job_restarts, comet_vars, lost>>

\* The attempt is not counted.
CallFails_Forever ==
    /\ job.pc = "wait"
    /\ job' = Thread("call", job.msg, job.offset, job.retry, FALSE)
    /\ UNCHANGED <<logic_vars, kafka_vars, offset_vars, job_restarts, comet_vars,
                   fate_vars>>

\* The consumer does not wait for comet's answer.
CallComet_Async ==
    /\ job.pc = "call"
    /\ calls' = calls \cup {ThisCall}
    /\ job' = Idle
    /\ UNCHANGED <<logic_vars, kafka_vars, offset_vars, job_restarts, times,
                   first_runs, fate_vars>>

\* The attempts of a message start again without a restart of the process: an
\* exception puts it back to the committed position.
JobRestart_Uncounted ==
    /\ job.pc # "consume"
    /\ position' = committed
    /\ job' = Idle
    /\ lost' = lost \cup {job.msg}
    /\ UNCHANGED <<logic_vars, kafka_vars, committed, job_restarts, comet_vars, dropped>>

-----------------------------------------------------------------------------
(* logic *)

\* RoomService::initialize: default rooms that are missing are inserted, any of
\* the inserts may fail; then the list is read from the table.
LogicStart(new) ==
    /\ ~logic_up
    /\ new \subseteq DefaultRooms \ room_infos
    /\ \A r \in new : ~NameIn(r, room_infos \cup (new \ {r}))
    /\ logic_up' = TRUE
    /\ room_infos' = room_infos \cup new
    /\ RefreshRoomList
    /\ UNCHANGED <<logic_restarts, answer, kafka_vars, offset_vars, job,
                   job_restarts, comet_vars, fate_vars>>

\* The process ends: with it the list and what the producer had not sent.
LogicCrash ==
    /\ logic_up
    /\ MoreFaults
    /\ logic_restarts' = logic_restarts + 1
    /\ logic_up' = FALSE
    /\ m_room_list' = {}
    /\ outq' = {}
    /\ UNCHANGED <<room_infos, answer, log, resends, offset_vars, job, job_restarts,
                   comet_vars, fate_vars>>

\* handleSend, after the message has been stored (or not).
HandleSend(m, sent) ==
    /\ logic_up
    /\ answer[m] = "none"
    /\ SendMessage(m, sent)
    /\ Answer(m, IF sent THEN "success" ELSE "failed")
    /\ UNCHANGED <<logic_up, logic_restarts, room_infos, m_room_list, log, resends,
                   offset_vars, job, job_restarts, comet_vars, fate_vars>>

\* handleCreateRoom, the name is in the list: an answer with an empty roomId.
CreateRoomTaken(r) ==
    /\ logic_up
    /\ answer[r] = "none"
    /\ NameIn(r, m_room_list)
    /\ Answer(r, "taken")
    /\ UNCHANGED <<logic_up, logic_restarts, room_infos, m_room_list, kafka_vars,
                   offset_vars, job, job_restarts, comet_vars, fate_vars>>

\* The INSERT reports an error: a duplicate name, or the session was lost before
\* or after the row was written.
CreateRoomFails(r, stored) ==
    /\ logic_up
    /\ answer[r] = "none"
    /\ ~NameIn(r, m_room_list)
    /\ stored => ~NameIn(r, room_infos)
    /\ DbCreateRoom(r, stored)
    /\ Answer(r, "failed")
    /\ UNCHANGED <<logic_up, logic_restarts, m_room_list, kafka_vars, offset_vars,
                   job, job_restarts, comet_vars, fate_vars>>

\* The room is inserted, listed, answered, and only then announced.  That the
\* producer refused the announcement is logged.
CreateRoomDone(r, sent) ==
    /\ logic_up
    /\ answer[r] = "none"
    /\ ~NameIn(r, m_room_list)
    /\ ~NameIn(r, room_infos)
    /\ DbCreateRoom(r, TRUE)
    /\ AddRoomToList(r)
    /\ Answer(r, "success")
    /\ SendMessage(r, sent)
    /\ UNCHANGED <<logic_up, logic_restarts, log, resends, offset_vars, job, job_restarts,
                   comet_vars, fate_vars>>

-----------------------------------------------------------------------------
(* The producer's thread and the broker *)

\* Without a key the partitioner may choose any partition.  Requests are
\* pipelined and retried, to the same partition: any queued message may be written
\* next, and one whose acknowledgement is lost is written again.
Deliver(m, p, acked) ==
    /\ m \in outq
    /\ \A q \in Partitions : \A i \in DOMAIN log[q] : log[q][i] = m => q = p
    /\ acked \/ MoreFaults
    /\ log' = [log EXCEPT ![p] = Append(log[p], m)]
    /\ outq' = IF acked THEN outq \ {m} ELSE outq
    /\ resends' = IF acked THEN resends ELSE resends + 1
    /\ UNCHANGED <<logic_vars, offset_vars, job, job_restarts, comet_vars, fate_vars>>

\* The message times out in the queue.  No delivery report callback is
\* registered, so nobody learns of it.
DeliverFails(m) ==
    /\ m \in outq
    /\ outq' = outq \ {m}
    /\ UNCHANGED <<logic_vars, log, resends, offset_vars, job, job_restarts, comet_vars,
                   fate_vars>>

-----------------------------------------------------------------------------
(* job *)

\* consume() hands out the next message of a partition and stores its offset.
Consume(p) ==
    /\ job.pc = "consume"
    /\ position[p] < Len(log[p])
    /\ position' = [position EXCEPT ![p] = @ + 1]
    /\ job' = Thread("call", log[p][position[p] + 1], position[p] + 1, 0, FALSE)
    /\ UNCHANGED <<logic_vars, kafka_vars, committed, job_restarts, comet_vars, fate_vars>>

\* The auto-commit timer of the library (enable.auto.commit is left on).
AutoCommit(p) ==
    /\ committed[p] # position[p]
    /\ committed' = [committed EXCEPT ![p] = position[p]]
    /\ UNCHANGED <<logic_vars, kafka_vars, position, job, job_restarts, comet_vars, fate_vars>>

\* One attempt of broadcast or broadcastRoom.
CallComet ==
    /\ job.pc = "call"
    /\ calls' = calls \cup {ThisCall}
    /\ job' = Thread("wait", job.msg, job.offset, job.retry, FALSE)
    /\ UNCHANGED <<logic_vars, kafka_vars, offset_vars, job_restarts, times,
                   first_runs, fate_vars>>

CallOk ==
    /\ job.pc = "wait"
    /\ job.ran
    /\ job' = Idle
    /\ UNCHANGED <<logic_vars, kafka_vars, offset_vars, job_restarts, comet_vars, fate_vars>>

\* An error or the deadline: the handler may have run, run later, or never run.
\* After the last attempt the message is dropped with a line in the log.
CallFails ==
    /\ job.pc = "wait"
    /\ IF job.retry + 1 < MAX_RETRIES
       THEN /\ job' = Thread("call", job.msg, job.offset, job.retry + 1, FALSE)
            /\ UNCHANGED dropped
       ELSE /\ job' = Idle
            /\ dropped' = dropped \cup {job.msg}
    /\ UNCHANGED <<logic_vars, kafka_vars, offset_vars, job_restarts, comet_vars, lost>>

\* job dies and is started again: it resumes from the committed positions.
Covered(m) == \E p \in Partitions : \E i \in 1..committed[p] : log[p][i] = m
JobRestart ==
    /\ MoreFaults
    /\ job_restarts' = job_restarts + 1
    /\ position' = committed
    /\ job' = Idle
    /\ lost' = lost \cup {m \in {job.msg} \ {NoMsg} : Covered(m)}
    /\ UNCHANGED <<logic_vars, kafka_vars, committed, comet_vars, dropped>>

-----------------------------------------------------------------------------
(* comet, as job sees it *)

\* The handler runs, for a caller that may have given up or died.
RunCall(c) ==
    /\ c \in calls
    /\ calls' = calls \ {c}
    /\ times' = [times EXCEPT ![c.msg] = @ + 1]
    /\ first_runs' = IF times[c.msg] = 0 THEN Append(first_runs, c.msg) ELSE first_runs
    /\ job' = IF job.pc = "wait" /\ c = ThisCall
              THEN Thread("wait", job.msg, job.offset, job.retry, TRUE)
              ELSE job
    /\ UNCHANGED <<logic_vars, kafka_vars, offset_vars, job_restarts, fate_vars>>

\* The request never gets there.
CallLost(c) ==
    /\ c \in calls
    /\ calls' = calls \ {c}
    /\ UNCHANGED <<logic_vars, kafka_vars, offset_vars, job, job_restarts, times,
                   first_runs, fate_vars>>

-----------------------------------------------------------------------------
(* Specification *)

LogicStep ==
    \/ \E new \in SUBSET DefaultRooms : LogicStart(new)
    \/ LogicCrash
    \/ \E m \in Chats, sent \in BOOLEAN : HandleSend(m, sent)
    \/ \E r \in Creates : CreateRoomTaken(r)
    \/ \E r \in Creates, stored \in BOOLEAN : CreateRoomFails(r, stored)
    \/ \E r \in Creates, sent \in BOOLEAN : CreateRoomDone(r, sent)

JobStep == (\E p \in Partitions : Consume(p)) \/ CallComet \/ CallOk \/ CallFails

Next ==
    \/ LogicStep
    \/ \E m \in outq, p \in Partitions, acked \in BOOLEAN : Deliver(m, p, acked)
    \/ \E m \in outq : DeliverFails(m)
    \/ \E p \in Partitions : AutoCommit(p)
    \/ JobStep
    \/ JobRestart
    \/ \E c \in calls : RunCall(c) \/ CallLost(c)

Spec == Init /\ [][Next]_vars

\* The consumer thread loops for ever and no call of it blocks beyond its
\* deadline.  Nothing is asked of comet, the broker or logic.
FairSpec == Spec /\ WF_vars(JobStep)

-----------------------------------------------------------------------------
(* Properties *)

Ran == {m \in Msgs : times[m] > 0}
HandedOut == UNION {{log[p][i] : i \in 1..position[p]} : p \in Partitions}

\* A message the consumer (job/main.cc) is past has been run by comet, or was
\* given up after MAX_RETRIES errors, or was committed by the timer and lost with
\* a crash.  There is no fourth way to lose one.
NothingLostSilently ==
    \A m \in HandedOut : m = job.msg \/ m \in Ran \cup dropped \cup lost

\* Messages of one partition are first run in order; one can only be overtaken
\* after job gave it up or crashed.  (A message written twice has the place of its
\* first copy.)
Index(m) == CHOOSE i \in DOMAIN first_runs : first_runs[i] = m
InOrderWithinPartition ==
    \A p \in Partitions : \A i, j \in 1..position[p] :
        i < j /\ log[p][j] \in Ran /\ (\A k \in 1..i : log[p][k] # log[p][j]) =>
            \/ log[p][i] \in dropped \cup lost
            \/ log[p][i] \in Ran /\ Index(log[p][i]) < Index(log[p][j])

\* Comet takes in a message at most MAX_RETRIES times per life of job and copy the
\* producer wrote, whatever late calls do.  Nobody recognises a repetition.
Copies(m) == UNION {{<<p, i>> : i \in {j \in DOMAIN log[p] : log[p][j] = m}} : p \in Partitions}
RepeatsBounded ==
    \A m \in Msgs : times[m] <= MAX_RETRIES * (job_restarts + 1) * Cardinality(Copies(m))

\* A room that job announces is in the table and, while logic serves, in the
\* list its hello answers are made from, also after a restart.  Comet relies on
\* it: the room of a Broadcast is one that later handshakes ask about.
AnnouncedRoomsAreListed ==
    \A r \in Creates :
        r \in Ran \cup {c.msg : c \in calls} =>
            /\ r \in room_infos
            /\ logic_up => r \in m_room_list

\* No message holds up its partition for good, even with comet down: the
\* consumer gets past every message the broker has.
ConsumerMovesOn ==
    \A p \in Partitions, i \in 1..(Cardinality(Msgs) + MaxFaults) :
        i <= Len(log[p]) ~> position[p] >= i /\ job.pc = "consume"
=============================================================================
