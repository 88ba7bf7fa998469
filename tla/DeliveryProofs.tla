--------------------------- MODULE DeliveryProofs ---------------------------
(* Theorems about Delivery, for any number of messages, rooms, partitions,    *)
(* attempts and restarts.                                                     *)
EXTENDS Delivery, FiniteSetTheorems, TLAPS

-----------------------------------------------------------------------------
(* Sequences *)

\* What Append does to the entries.
LEMMA AppendEntries ==
    ASSUME NEW S, NEW q \in Seq(S), NEW e \in S
    PROVE  /\ Append(q, e) \in Seq(S) /\ Len(Append(q, e)) = Len(q) + 1
           /\ Append(q, e)[Len(q) + 1] = e
           /\ \A i \in 1..Len(q) : Append(q, e)[i] = q[i]
OBVIOUS

-----------------------------------------------------------------------------
(* Types *)

\* Constructor types, kept apart so that steps need not expand records.
Threads == [pc : {"consume", "call", "wait"}, msg : Msgs \cup {NoMsg},
            offset : Nat, retry : Attempts, ran : BOOLEAN]

LEMMA IdleType == Idle \in Threads /\ Idle.pc = "consume" /\ Idle.msg = NoMsg /\ Idle.ran = FALSE
<1>1. 0 \in Attempts BY DeliveryAssumption DEF Attempts
<1> QED BY <1>1 DEF Idle, Thread, Threads

LEMMA ThreadParts ==
    ASSUME NEW t \in Threads
    PROVE  /\ t.pc \in {"consume", "call", "wait"} /\ t.msg \in Msgs \cup {NoMsg}
           /\ t.offset \in Nat /\ t.retry \in Attempts /\ t.ran \in BOOLEAN
BY DEF Threads

\* A thread that is past consume() has a message; what it has seen run has run.
Working ==
    /\ job.pc = "consume" <=> job.msg = NoMsg
    /\ job.ran => job.msg \in Ran

\* Committed positions trail the consumer, which trails the broker.
Offsets ==
    \A p \in Partitions : committed[p] <= position[p] /\ position[p] <= Len(log[p])

Types == TypeOK /\ Working

LEMMA TypesJob == Types => job \in Threads
BY DEF Types, TypeOK, Threads

LEMMA InitTypes == Init => Types
<1> SUFFICES ASSUME Init PROVE Types OBVIOUS
<1>1. job \in Threads /\ Working BY IdleType DEF Init, Working
<1>2. 0 \in 0..MaxFaults BY DeliveryAssumption
<1>3. /\ log \in [Partitions -> Seq(Msgs)] /\ outq \in SUBSET Msgs /\ first_runs \in Seq(Msgs)
  BY DEF Init
<1>4. /\ answer \in [Msgs -> {"none", "success", "failed", "taken"}]
      /\ times \in [Msgs -> Nat] /\ position \in [Partitions -> Nat]
      /\ committed \in [Partitions -> Nat]
  BY DEF Init
<1>5. TypeOK
  <2>1. /\ logic_up \in BOOLEAN /\ logic_restarts \in 0..MaxFaults
        /\ job_restarts \in 0..MaxFaults /\ resends \in 0..MaxFaults
    BY <1>2 DEF Init
  <2>2. room_infos \in SUBSET Rooms /\ m_room_list \in SUBSET Rooms BY DEF Init
  <2>3. calls \in SUBSET Call /\ dropped \in SUBSET Msgs /\ lost \in SUBSET Msgs BY DEF Init
  <2> QED BY <1>1, <1>3, <1>4, <2>1, <2>2, <2>3 DEF TypeOK, Threads
<1> QED BY <1>1, <1>5 DEF Types

\* The steps of logic leave job alone.
LEMMA LogicTypes == ASSUME Types, LogicStep PROVE Types'
<1>1. UNCHANGED <<job, times>> BY DEF LogicStep, LogicStart, LogicCrash, HandleSend,
       CreateRoomTaken, CreateRoomFails, CreateRoomDone, comet_vars
<1>2. Working' BY <1>1 DEF Types, Working, Ran
<1> SUFFICES TypeOK' BY <1>2 DEF Types
<1>3. CASE \E new \in SUBSET DefaultRooms : LogicStart(new)
  BY <1>3 DEF Types, TypeOK, LogicStart, RefreshRoomList, Rooms, kafka_vars, offset_vars, comet_vars, fate_vars
<1>4. CASE LogicCrash
  <2>1. logic_restarts' \in 0..MaxFaults
    BY <1>4, DeliveryAssumption DEF Types, TypeOK, LogicCrash, MoreFaults
  <2>2. outq' \in SUBSET Msgs BY <1>4 DEF LogicCrash
  <2>3. logic_up' \in BOOLEAN /\ m_room_list' \in SUBSET Rooms BY <1>4 DEF LogicCrash
  <2> QED BY <1>4, <2>1, <2>2, <2>3 DEF Types, TypeOK, LogicCrash, offset_vars, comet_vars, fate_vars
<1>5. CASE \E m \in Chats, sent \in BOOLEAN : HandleSend(m, sent)
  <2> PICK m \in Chats, sent \in BOOLEAN : HandleSend(m, sent) BY <1>5
  <2>1. m \in Msgs BY DEF Msgs
  <2>2. outq' \in SUBSET Msgs
    BY <2>1 DEF Types, TypeOK, HandleSend, SendMessage
  <2>3. answer' \in [Msgs -> {"none", "success", "failed", "taken"}]
    BY <2>1 DEF Types, TypeOK, HandleSend, Answer
  <2> QED BY <2>2, <2>3 DEF Types, TypeOK, HandleSend, offset_vars, comet_vars, fate_vars
<1>6. CASE \E r \in Creates : CreateRoomTaken(r)
  BY <1>6 DEF Types, TypeOK, CreateRoomTaken, Answer, Msgs, kafka_vars, offset_vars,
       comet_vars, fate_vars
<1>7. CASE \E r \in Creates, stored \in BOOLEAN : CreateRoomFails(r, stored)
  <2> PICK r \in Creates, stored \in BOOLEAN : CreateRoomFails(r, stored) BY <1>7
  <2>1. r \in Msgs /\ r \in Rooms BY DEF Msgs, Rooms
  <2>2. room_infos' \in SUBSET Rooms BY <2>1 DEF Types, TypeOK, CreateRoomFails, DbCreateRoom
  <2>3. answer' \in [Msgs -> {"none", "success", "failed", "taken"}]
    BY <2>1 DEF Types, TypeOK, CreateRoomFails, Answer
  <2> QED BY <2>2, <2>3 DEF Types, TypeOK, CreateRoomFails, kafka_vars, offset_vars,
           comet_vars, fate_vars
<1>8. CASE \E r \in Creates, sent \in BOOLEAN : CreateRoomDone(r, sent)
  <2> PICK r \in Creates, sent \in BOOLEAN : CreateRoomDone(r, sent) BY <1>8
  <2>1. r \in Msgs /\ r \in Rooms BY DEF Msgs, Rooms
  <2>2. outq' \in SUBSET Msgs BY <2>1 DEF Types, TypeOK, CreateRoomDone, SendMessage
  <2>3. answer' \in [Msgs -> {"none", "success", "failed", "taken"}]
    BY <2>1 DEF Types, TypeOK, CreateRoomDone, Answer
  <2>4. room_infos' \in SUBSET Rooms /\ m_room_list' \in SUBSET Rooms
    BY <2>1 DEF Types, TypeOK, CreateRoomDone, DbCreateRoom, AddRoomToList
  <2> QED BY <2>2, <2>3, <2>4 DEF Types, TypeOK, CreateRoomDone, offset_vars, comet_vars, fate_vars
<1> QED BY <1>3, <1>4, <1>5, <1>6, <1>7, <1>8 DEF LogicStep

LEMMA DeliverTypes ==
    ASSUME Types, NEW m \in outq, NEW p \in Partitions, NEW acked \in BOOLEAN,
           Deliver(m, p, acked)
    PROVE  Types'
<1>1. Working' BY DEF Deliver, comet_vars, Types, Working, Ran
<1>2. m \in Msgs /\ outq' \in SUBSET Msgs BY DEF Deliver, Types, TypeOK
<1>3. log' \in [Partitions -> Seq(Msgs)] BY <1>2, AppendEntries DEF Deliver, Types, TypeOK
<1>4. resends' \in 0..MaxFaults BY DeliveryAssumption DEF Deliver, MoreFaults, Types, TypeOK
<1>5. TypeOK'
  BY <1>2, <1>3, <1>4 DEF Deliver, Types, TypeOK, logic_vars, offset_vars, comet_vars, fate_vars
<1> QED BY <1>1, <1>5 DEF Types

LEMMA AutoCommitTypes == ASSUME Types, NEW p \in Partitions, AutoCommit(p) PROVE Types'
<1>1. Working' BY DEF AutoCommit, comet_vars, Types, Working, Ran
<1>2. TypeOK' BY DEF AutoCommit, Types, TypeOK, logic_vars, kafka_vars, comet_vars, fate_vars
<1> QED BY <1>1, <1>2 DEF Types

LEMMA DeliverFailsTypes == ASSUME Types, NEW m \in outq, DeliverFails(m) PROVE Types'
<1>1. UNCHANGED <<job, times>> BY DEF DeliverFails, comet_vars
<1>2. Working' BY <1>1 DEF Types, Working, Ran
<1>3. outq' \in SUBSET Msgs BY DEF DeliverFails, Types, TypeOK
<1>4. TypeOK' BY <1>3 DEF DeliverFails, Types, TypeOK, logic_vars, offset_vars, comet_vars, fate_vars
<1> QED BY <1>2, <1>4 DEF Types

LEMMA JobTypes == ASSUME Types, Offsets, JobStep PROVE Types'
<1>0. job \in Threads /\ times \in [Msgs -> Nat] BY TypesJob DEF Types, TypeOK
<1>1. job.msg \in Msgs \cup {NoMsg} /\ job.offset \in Nat /\ job.retry \in Attempts /\ (job.pc # "consume" => job.msg \in Msgs)
  BY <1>0, ThreadParts DEF Types, Working
<1>2. CASE \E p \in Partitions : Consume(p)
  <2> PICK p \in Partitions : Consume(p) BY <1>2
  <2>1. position[p] \in Nat /\ log[p] \in Seq(Msgs) /\ position[p] < Len(log[p])
    BY DEF Consume, Types, TypeOK
  <2>2. log[p][position[p] + 1] \in Msgs BY <2>1
  <2>3. 0 \in Attempts BY DeliveryAssumption DEF Attempts
  <2>4. /\ job' \in Threads /\ job'.msg \in Msgs /\ job'.pc = "call" /\ job'.ran = FALSE
    <3> DEFINE m == log[p][position[p] + 1]
               o == position[p] + 1
    <3>1. m \in Msgs /\ o \in Nat /\ job' = Thread("call", m, o, 0, FALSE)
      BY <2>1, <2>2 DEF Consume
    <3> HIDE DEF m, o
    <3> QED BY <2>3, <3>1 DEF Thread, Threads
  <2>5. Working' BY <2>4, DeliveryAssumption DEF Working
  <2>6. position' \in [Partitions -> Nat] BY <2>1 DEF Consume, Types, TypeOK
  <2>7. TypeOK'
    BY <2>4, <2>6 DEF Consume, Types, TypeOK, Threads, logic_vars, kafka_vars, comet_vars, fate_vars
  <2> QED BY <2>5, <2>7 DEF Types
<1>3. CASE CallComet
  <2>1. /\ job' \in Threads /\ job'.msg = job.msg /\ job'.pc = "wait" /\ job'.ran = FALSE
    BY <1>1, <1>3 DEF CallComet, Thread, Threads
  <2>2. job.msg \in Msgs BY <1>1, <1>3 DEF CallComet, Types, Working
  <2>3. Working' BY <2>1, <2>2, DeliveryAssumption DEF Working
  <2>4. ThisCall \in Call
    BY <1>1, <2>2 DEF ThisCall, CallOf, Call, Types, TypeOK
  <2>5. calls' \in SUBSET Call BY <1>3, <2>4 DEF CallComet, Types, TypeOK
  <2>6. TypeOK'
    BY <1>3, <2>1, <2>5 DEF CallComet, Types, TypeOK, Threads, logic_vars, kafka_vars, offset_vars, fate_vars
  <2> QED BY <2>3, <2>6 DEF Types
<1>4. CASE CallOk
  <2>1. Working' /\ job' \in Threads BY <1>4, IdleType DEF CallOk, Working
  <2>2. TypeOK'
    BY <1>4, <2>1 DEF CallOk, Types, TypeOK, Threads, logic_vars, kafka_vars, offset_vars, comet_vars, fate_vars
  <2> QED BY <2>1, <2>2 DEF Types
<1>5. CASE CallFails
  <2>1. job.msg \in Msgs BY <1>1, <1>5 DEF CallFails, Types, Working
  <2>2. dropped' \in SUBSET Msgs BY <1>5, <2>1 DEF CallFails, Types, TypeOK
  <2>3. job' \in Threads /\ Working'
    <3>1. CASE job.retry + 1 < MAX_RETRIES
      <4>1. job.retry + 1 \in Attempts BY <1>1, <3>1, DeliveryAssumption DEF Attempts
      <4>2. job' \in Threads /\ job'.msg = job.msg /\ job'.pc = "call" /\ job'.ran = FALSE
        <5>1. job' = Thread("call", job.msg, job.offset, job.retry + 1, FALSE) BY <1>5, <3>1 DEF CallFails
        <5> DEFINE n == job.retry + 1
        <5>2. n \in Attempts /\ job' = Thread("call", job.msg, job.offset, n, FALSE) BY <4>1, <5>1
        <5> HIDE DEF n
        <5> QED BY <1>1, <5>2 DEF Thread, Threads
      <4> QED BY <2>1, <4>2, DeliveryAssumption DEF Working
    <3>2. CASE ~(job.retry + 1 < MAX_RETRIES)
      BY <1>5, <3>2, IdleType DEF CallFails, Working
    <3> QED BY <3>1, <3>2
  <2>4. TypeOK'
    BY <1>5, <2>2, <2>3 DEF CallFails, Types, TypeOK, Threads, logic_vars, kafka_vars, offset_vars, comet_vars
  <2> QED BY <2>3, <2>4 DEF Types
<1> QED BY <1>2, <1>3, <1>4, <1>5 DEF JobStep

LEMMA RestartTypes == ASSUME Types, JobRestart PROVE Types'
<1>1. job' \in Threads /\ Working' BY IdleType DEF JobRestart, Working
<1>2. job.msg \in Msgs \cup {NoMsg} BY TypesJob, ThreadParts
<1>3. lost' \in SUBSET Msgs BY <1>2 DEF JobRestart, Types, TypeOK
<1>4. job_restarts' \in 0..MaxFaults BY DeliveryAssumption DEF JobRestart, MoreFaults, Types, TypeOK
<1>5. TypeOK'
  BY <1>1, <1>3, <1>4 DEF JobRestart, Types, TypeOK, Threads, logic_vars, kafka_vars, comet_vars
<1> QED BY <1>1, <1>5 DEF Types

\* Running a call adds its message to those run, and nothing else changes that.
LEMMA RunAdds ==
    ASSUME Types, NEW c \in calls, RunCall(c)
    PROVE  c.msg \in Msgs /\ times' \in [Msgs -> Nat] /\ Ran' = Ran \cup {c.msg}
<1>1. c.msg \in Msgs BY DEF Types, TypeOK, Call
<1>2. /\ times \in [Msgs -> Nat]
      /\ times' = [times EXCEPT ![c.msg] = times[c.msg] + 1]
  BY DEF Types, TypeOK, RunCall
<1>3. times' \in [Msgs -> Nat] BY <1>1, <1>2
<1>4. \A m \in Msgs : times'[m] > 0 <=> times[m] > 0 \/ m = c.msg BY <1>1, <1>2
<1> QED BY <1>1, <1>3, <1>4 DEF Ran

LEMMA CometTypes == ASSUME Types, NEW c \in calls, RunCall(c) \/ CallLost(c) PROVE Types'
<1>0. job \in Threads BY TypesJob
<1>1. CASE RunCall(c)
  <2>1. c.msg \in Msgs /\ times' \in [Msgs -> Nat] /\ Ran' = Ran \cup {c.msg} BY <1>1, RunAdds
  <2>2. first_runs' \in Seq(Msgs) BY <1>1, <2>1, AppendEntries DEF RunCall, Types, TypeOK
  <2>3. job' \in Threads /\ Working'
    <3>1. CASE job.pc = "wait" /\ c = ThisCall
      <4>1. job.msg \in Msgs \cup {NoMsg} /\ job.offset \in Nat /\ job.retry \in Attempts BY <1>0, ThreadParts
      <4>2. job' \in Threads /\ job'.msg = job.msg /\ job'.pc = "wait"
        BY <1>1, <3>1, <4>1 DEF RunCall, Thread, Threads
      <4>3. job.msg = c.msg BY <3>1 DEF ThisCall, CallOf
      <4> QED BY <2>1, <3>1, <4>2, <4>3 DEF Working, Types
    <3>2. CASE ~(job.pc = "wait" /\ c = ThisCall)
      BY <1>0, <1>1, <2>1, <3>2 DEF RunCall, Working, Types
    <3> QED BY <3>1, <3>2
  <2>4. calls' \in SUBSET Call BY <1>1 DEF RunCall, Types, TypeOK
  <2>5. TypeOK'
    BY <1>1, <2>1, <2>2, <2>3, <2>4 DEF RunCall, Types, TypeOK, Threads, logic_vars, kafka_vars,
       offset_vars, fate_vars
  <2> QED BY <2>3, <2>5 DEF Types
<1>2. CASE CallLost(c)
  <2>1. Working' BY <1>2 DEF CallLost, Types, Working, Ran
  <2>2. TypeOK' BY <1>2 DEF CallLost, Types, TypeOK, logic_vars, kafka_vars, offset_vars, fate_vars
  <2> QED BY <2>1, <2>2 DEF Types
<1> QED BY <1>1, <1>2

LEMMA StutterTypes == ASSUME Types, UNCHANGED vars PROVE Types'
BY DEF Types, TypeOK, Working, Ran, vars, logic_vars, kafka_vars, offset_vars, comet_vars, fate_vars

LEMMA TypesStep == ASSUME Types, Offsets, [Next]_vars PROVE Types'
<1>1. CASE LogicStep BY <1>1, LogicTypes
<1>2. CASE \E m \in outq, p \in Partitions, acked \in BOOLEAN : Deliver(m, p, acked)
  BY <1>2, DeliverTypes
<1>3. CASE \E m \in outq : DeliverFails(m) BY <1>3, DeliverFailsTypes
<1>8. CASE \E p \in Partitions : AutoCommit(p) BY <1>8, AutoCommitTypes
<1>4. CASE JobStep BY <1>4, JobTypes
<1>5. CASE JobRestart BY <1>5, RestartTypes
<1>6. CASE \E c \in calls : RunCall(c) \/ CallLost(c) BY <1>6, CometTypes
<1>7. CASE UNCHANGED vars BY <1>7, StutterTypes
<1> QED BY <1>1, <1>2, <1>3, <1>4, <1>5, <1>6, <1>7, <1>8 DEF Next

-----------------------------------------------------------------------------
(* Offsets *)

LEMMA InitOffsets == Init => Offsets
BY DEF Init, Offsets

\* Nothing but these steps touches the partitions or the positions in them.
LEMMA LogUntouched ==
    ASSUME LogicStep \/ (\E m \in outq : DeliverFails(m)) \/ CallComet \/ CallOk \/ CallFails
           \/ (\E c \in calls : RunCall(c) \/ CallLost(c)) \/ UNCHANGED vars
    PROVE  UNCHANGED <<log, position, committed>>
BY DEF LogicStep, LogicStart, LogicCrash, HandleSend, CreateRoomTaken, CreateRoomFails,
       CreateRoomDone, DeliverFails, CallComet, CallOk, CallFails, RunCall, CallLost, vars,
       kafka_vars, offset_vars

\* Entries of a partition stay where they are.
LEMMA LogGrows ==
    ASSUME Types, NEW m \in outq, NEW p \in Partitions, NEW acked \in BOOLEAN,
           Deliver(m, p, acked)
    PROVE  \A q \in Partitions :
               /\ Len(log[q]) \in Nat /\ Len(log'[q]) \in Nat /\ Len(log[q]) <= Len(log'[q])
               /\ \A i \in 1..Len(log[q]) : log'[q][i] = log[q][i]
<1>1. m \in Msgs BY DEF Types, TypeOK
<1>2. TAKE q \in Partitions
<1>3. log[q] \in Seq(Msgs) BY DEF Types, TypeOK
<1>4. log'[q] = IF q = p THEN Append(log[q], m) ELSE log[q]
  BY DEF Deliver, Types, TypeOK
<1> QED BY <1>1, <1>3, <1>4, AppendEntries

LEMMA OffsetsStep == ASSUME Types, Offsets, [Next]_vars PROVE Offsets'
<1>0. /\ position \in [Partitions -> Nat] /\ committed \in [Partitions -> Nat]
      /\ \A p \in Partitions : Len(log[p]) \in Nat
  BY DEF Types, TypeOK
<1>1. CASE LogicStep \/ (\E m \in outq : DeliverFails(m)) \/ CallComet \/ CallOk \/ CallFails
           \/ (\E c \in calls : RunCall(c) \/ CallLost(c)) \/ UNCHANGED vars
  BY <1>1, LogUntouched DEF Offsets
<1>2. CASE \E m \in outq, p \in Partitions, acked \in BOOLEAN : Deliver(m, p, acked)
  <2> PICK m \in outq, p \in Partitions, acked \in BOOLEAN : Deliver(m, p, acked) BY <1>2
  <2>1. UNCHANGED <<position, committed>> BY DEF Deliver, offset_vars
  <2> QED BY <1>0, <2>1, LogGrows DEF Offsets
<1>3. CASE \E p \in Partitions : AutoCommit(p)
  BY <1>0, <1>3 DEF AutoCommit, Offsets, kafka_vars
<1>4. CASE \E p \in Partitions : Consume(p)
  BY <1>0, <1>4 DEF Consume, Offsets, kafka_vars
<1>5. CASE JobRestart
  BY <1>0, <1>5 DEF JobRestart, Offsets, kafka_vars
<1> QED BY <1>1, <1>2, <1>3, <1>4, <1>5 DEF Next, JobStep

-----------------------------------------------------------------------------
(* Nothing is lost silently *)

FateInv == Types /\ Offsets /\ NothingLostSilently

\* The messages handed out, entry by entry.
LEMMA HandedOutEntries ==
    \A m : m \in HandedOut <=> \E p \in Partitions : \E i \in 1..position[p] : log[p][i] = m
BY DEF HandedOut

LEMMA FateStep == ASSUME FateInv, [Next]_vars PROVE NothingLostSilently'
<1>0. Types /\ Offsets /\ NothingLostSilently BY DEF FateInv
<1>a. job \in Threads /\ job.msg \in Msgs \cup {NoMsg} BY <1>0, TypesJob, ThreadParts
<1>b. \A m \in HandedOut : m = job.msg \/ m \in Ran \/ m \in dropped \/ m \in lost
  BY <1>0 DEF NothingLostSilently
<1>c. /\ position \in [Partitions -> Nat] /\ committed \in [Partitions -> Nat]
      /\ \A p \in Partitions : log[p] \in Seq(Msgs) /\ Len(log[p]) \in Nat
  BY <1>0 DEF Types, TypeOK
<1>d. \A m \in HandedOut : m \in Msgs
  <2> SUFFICES ASSUME NEW p \in Partitions, NEW i \in 1..position[p] PROVE log[p][i] \in Msgs
    BY HandedOutEntries
  <2> QED BY <1>0, <1>c DEF Offsets
<1>1. CASE LogicStep \/ (\E m \in outq : DeliverFails(m)) \/ UNCHANGED vars \/ (\E c \in calls : CallLost(c)) \/ CallComet
           \/ (\E p \in Partitions : AutoCommit(p))
  <2>1. UNCHANGED <<log, position>>
    BY <1>1, LogUntouched DEF AutoCommit, kafka_vars
  <2>2. UNCHANGED <<times, dropped, lost>>
    BY <1>1 DEF LogicStep, LogicStart, LogicCrash, HandleSend, CreateRoomTaken, CreateRoomFails,
       CreateRoomDone, DeliverFails, CallComet, CallLost, AutoCommit, vars, comet_vars, fate_vars
  <2>3. job'.msg = job.msg
    <3>1. CASE CallComet BY <3>1 DEF CallComet, Thread
    <3>2. CASE ~CallComet
      BY <1>1, <3>2 DEF LogicStep, LogicStart, LogicCrash, HandleSend, CreateRoomTaken, CreateRoomFails,
       CreateRoomDone, DeliverFails, CallLost, AutoCommit, vars
    <3> QED BY <3>1, <3>2
  <2> QED BY <1>0, <2>1, <2>2, <2>3 DEF NothingLostSilently, HandedOut, Ran
<1>2. CASE \E m \in outq, p \in Partitions, acked \in BOOLEAN : Deliver(m, p, acked)
  <2> PICK m \in outq, p \in Partitions, acked \in BOOLEAN : Deliver(m, p, acked) BY <1>2
  <2>1. UNCHANGED <<position, job, times, dropped, lost>>
    BY DEF Deliver, offset_vars, comet_vars, fate_vars
  <2>2. \A q \in Partitions : \A i \in 1..position[q] : log'[q][i] = log[q][i]
    BY <1>0, <1>c, LogGrows DEF Offsets
  <2>3. HandedOut' = HandedOut BY <2>1, <2>2 DEF HandedOut
  <2> QED BY <1>0, <2>1, <2>3 DEF NothingLostSilently, Ran
<1>3. CASE \E p \in Partitions : Consume(p)
  <2> PICK p \in Partitions : Consume(p) BY <1>3
  <2>1. UNCHANGED <<log, times, dropped, lost>> BY DEF Consume, kafka_vars, comet_vars, fate_vars
  <2>2. job.msg = NoMsg BY <1>0 DEF Consume, Types, Working
  <2>3. job'.msg = log[p][position[p] + 1] BY DEF Consume, Thread
  <2>4. position' = [position EXCEPT ![p] = position[p] + 1] BY DEF Consume
  <2>5. ASSUME NEW q \in Partitions, NEW i \in 1..position'[q]
        PROVE  log[q][i] \in HandedOut \/ log[q][i] = job'.msg
    <3>1. i \in 1..position[q] \/ (q = p /\ i = position[p] + 1) BY <1>c, <2>4
    <3> QED BY <2>3, <3>1, HandedOutEntries
  <2>6. \A m \in HandedOut' : m \in HandedOut \/ m = job'.msg
    BY <2>1, <2>5 DEF HandedOut
  <2>7. \A m \in HandedOut : m \in Ran \cup dropped \cup lost
    BY <1>b, <1>d, <2>2, DeliveryAssumption
  <2> QED BY <2>1, <2>6, <2>7 DEF NothingLostSilently, Ran
<1>4. CASE CallOk
  <2>1. UNCHANGED <<log, position, times, dropped, lost>>
    BY <1>4 DEF CallOk, kafka_vars, offset_vars, comet_vars, fate_vars
  <2>2. job.msg \in Ran BY <1>0, <1>4 DEF CallOk, Types, Working
  <2> QED BY <1>b, <2>1, <2>2 DEF NothingLostSilently, HandedOut, Ran
<1>5. CASE CallFails
  <2>1. UNCHANGED <<log, position, times, lost>>
    BY <1>5 DEF CallFails, kafka_vars, offset_vars, comet_vars
  <2>2. \/ job'.msg = job.msg /\ UNCHANGED dropped
        \/ dropped' = dropped \cup {job.msg}
    BY <1>5 DEF CallFails, Thread
  <2> QED BY <1>b, <2>1, <2>2 DEF NothingLostSilently, HandedOut, Ran
<1>6. CASE JobRestart
  <2>1. UNCHANGED <<log, times, dropped>> /\ position' = committed /\ lost \subseteq lost'
    BY <1>6 DEF JobRestart, kafka_vars, comet_vars
  <2>2. ASSUME NEW p \in Partitions, NEW i \in 1..committed[p]
        PROVE  /\ log[p][i] \in HandedOut
               /\ log[p][i] = job.msg => log[p][i] \in lost'
    <3>1. i \in 1..position[p] BY <1>0, <1>c DEF Offsets
    <3>2. log[p][i] \in HandedOut BY <3>1, HandedOutEntries
    <3>3. log[p][i] # NoMsg BY <1>d, <3>2, DeliveryAssumption
    <3> QED BY <1>6, <3>2, <3>3 DEF JobRestart, Covered
  <2>3. \A m \in HandedOut' : m \in HandedOut /\ (m = job.msg => m \in lost')
    BY <2>1, <2>2 DEF HandedOut
  <2> QED BY <1>b, <2>1, <2>3 DEF NothingLostSilently, Ran
<1>7. CASE \E c \in calls : RunCall(c)
  <2> PICK c \in calls : RunCall(c) BY <1>7
  <2>1. Ran' = Ran \cup {c.msg} BY <1>0, RunAdds
  <2>2. UNCHANGED <<log, position, dropped, lost>> /\ job'.msg = job.msg
    BY DEF RunCall, kafka_vars, offset_vars, fate_vars, Thread
  <2> QED BY <1>b, <2>1, <2>2 DEF NothingLostSilently, HandedOut
<1> QED BY <1>1, <1>2, <1>3, <1>4, <1>5, <1>6, <1>7 DEF Next, JobStep

\* Every message the consumer thread of job is past was run by comet, dropped
\* after MAX_RETRIES errors, or lost in a crash after the timer had committed it.
THEOREM NoSilentLoss == Spec => []NothingLostSilently
<1>1. Init => FateInv
  <2> SUFFICES ASSUME Init PROVE FateInv OBVIOUS
  <2>1. HandedOut = {} BY DEF Init, HandedOut
  <2> QED BY <2>1, InitTypes, InitOffsets DEF FateInv, NothingLostSilently
<1>2. FateInv /\ [Next]_vars => FateInv'
  BY FateStep, TypesStep, OffsetsStep DEF FateInv
<1>3. FateInv => NothingLostSilently BY DEF FateInv
<1> QED BY <1>1, <1>2, <1>3, PTL DEF Spec

\* The state of the delivery path is well formed, attempts stay below MAX_RETRIES.
THEOREM DeliveryTypes == Spec => []TypeOK
<1>1. Init => Types /\ Offsets BY InitTypes, InitOffsets
<1>2. (Types /\ Offsets) /\ [Next]_vars => (Types /\ Offsets)' BY TypesStep, OffsetsStep
<1>3. Types /\ Offsets => TypeOK BY DEF Types
<1> QED BY <1>1, <1>2, <1>3, PTL DEF Spec

-----------------------------------------------------------------------------
(* Announced rooms are listed *)

\* Every place a message passes through after produce().
Carried(m) ==
    \/ m \in outq
    \/ \E p \in Partitions : \E i \in 1..Len(log[p]) : log[p][i] = m
    \/ job.msg = m
    \/ \E c \in calls : c.msg = m
    \/ m \in Ran

Listed(r) == r \in room_infos /\ (logic_up => r \in m_room_list)

\* A room whose announcement is anywhere on that way is listed.
CarriedAreListed == \A r \in Creates : Carried(r) => Listed(r)

RoomsInv == Types /\ Offsets /\ CarriedAreListed

LEMMA CarriedStep ==
    ASSUME RoomsInv, [Next]_vars,
           NEW r \in Creates, Carried(r)', ~Carried(r)
    PROVE  \E sent \in BOOLEAN : CreateRoomDone(r, sent)
<1>0. /\ Types /\ Offsets /\ outq \in SUBSET Msgs
      /\ \A p \in Partitions : log[p] \in Seq(Msgs) /\ Len(log[p]) \in Nat /\ position[p] \in Nat
      /\ r \in Msgs /\ r # NoMsg /\ r \notin Chats
  BY DeliveryAssumption DEF RoomsInv, Types, TypeOK, Msgs
<1>n. /\ r \notin outq
      /\ \A p \in Partitions : \A i \in 1..Len(log[p]) : log[p][i] # r
      /\ job.msg # r /\ (\A c \in calls : c.msg # r) /\ r \notin Ran
  BY DEF Carried
<1>1. CASE LogicStep
  <2>1. UNCHANGED <<log, job, calls, times>>
    BY <1>1 DEF LogicStep, LogicStart, LogicCrash, HandleSend, CreateRoomTaken, CreateRoomFails,
       CreateRoomDone, kafka_vars, comet_vars
  <2>2. r \in outq' BY <1>n, <2>1 DEF Carried, Ran
  <2>3. outq' # outq BY <1>n, <2>2
  <2>4. outq' # {} BY <2>2
  <2>5. ASSUME NEW m \in Msgs, NEW sent \in BOOLEAN, SendMessage(m, sent) PROVE m = r
    BY <1>n, <2>2, <2>3, <2>5 DEF SendMessage
  <2>6. ASSUME NEW m \in Chats, NEW sent \in BOOLEAN PROVE ~HandleSend(m, sent)
    BY <1>0, <2>5 DEF HandleSend, Msgs
  <2>7. PICK q \in Creates, sent \in BOOLEAN : CreateRoomDone(q, sent)
    BY <1>1, <2>3, <2>4, <2>6 DEF LogicStep, LogicStart, LogicCrash, CreateRoomTaken,
       CreateRoomFails, kafka_vars
  <2>8. q = r BY <2>5, <2>7 DEF CreateRoomDone, Msgs
  <2> QED BY <2>7, <2>8
<1>2. CASE \E m \in outq, p \in Partitions, acked \in BOOLEAN : Deliver(m, p, acked)
  <2> PICK m \in outq, p \in Partitions, acked \in BOOLEAN : Deliver(m, p, acked) BY <1>2
  <2>1. UNCHANGED <<job, calls, times>> BY DEF Deliver, comet_vars
  <2>2. m \in Msgs /\ m # r /\ r \notin outq' BY <1>0, <1>n DEF Deliver
  <2>3. ASSUME NEW q \in Partitions, NEW i \in 1..Len(log'[q]) PROVE log'[q][i] # r
    <3>1. log'[q] = IF q = p THEN Append(log[q], m) ELSE log[q]
      BY <1>0 DEF Deliver, Types, TypeOK
    <3> QED BY <1>0, <1>n, <2>2, <3>1, AppendEntries
  <2>4. ~Carried(r)' BY <1>n, <2>1, <2>2, <2>3 DEF Carried, Ran
  <2> QED BY <2>4
<1>3. CASE \E m \in outq : DeliverFails(m)
  <2>1. UNCHANGED <<log, job, calls, times>> BY <1>3 DEF DeliverFails, comet_vars
  <2>2. r \notin outq' BY <1>3, <1>n DEF DeliverFails
  <2> QED BY <1>n, <2>1, <2>2 DEF Carried, Ran
<1>4. CASE \E p \in Partitions : Consume(p)
  <2> PICK p \in Partitions : Consume(p) BY <1>4
  <2>1. UNCHANGED <<outq, log, calls, times>> BY DEF Consume, kafka_vars, comet_vars
  <2>2. job'.msg = log[p][position[p] + 1] /\ position[p] + 1 \in 1..Len(log[p])
    BY <1>0 DEF Consume, Thread
  <2> QED BY <1>n, <2>1, <2>2 DEF Carried, Ran
<1>5. CASE CallComet
  <2>1. UNCHANGED <<outq, log, times>> /\ job'.msg = job.msg
    BY <1>5 DEF CallComet, kafka_vars, Thread
  <2>2. \A c \in calls' : c \in calls \/ c.msg = job.msg BY <1>5 DEF CallComet, ThisCall, CallOf
  <2> QED BY <1>n, <2>1, <2>2 DEF Carried, Ran
<1>6. CASE CallOk \/ CallFails \/ JobRestart \/ UNCHANGED vars \/ \E p \in Partitions : AutoCommit(p)
  <2>1. UNCHANGED <<outq, log, calls, times>>
    BY <1>6 DEF CallOk, CallFails, JobRestart, AutoCommit, vars, kafka_vars, comet_vars
  <2>2. job'.msg \in {job.msg, NoMsg}
    BY <1>6 DEF CallOk, CallFails, JobRestart, AutoCommit, vars, Idle, Thread
  <2> QED BY <1>0, <1>n, <2>1, <2>2 DEF Carried, Ran
<1>7. CASE \E c \in calls : RunCall(c)
  <2> PICK c \in calls : RunCall(c) BY <1>7
  <2>1. Ran' = Ran \cup {c.msg} BY <1>0, RunAdds
  <2>2. UNCHANGED <<outq, log>> /\ job'.msg = job.msg /\ calls' \subseteq calls
    BY DEF RunCall, kafka_vars, Thread
  <2> QED BY <1>n, <2>1, <2>2 DEF Carried
<1>8. CASE \E c \in calls : CallLost(c)
  BY <1>8, <1>n DEF CallLost, Carried, Ran, kafka_vars
<1> QED BY <1>1, <1>2, <1>3, <1>4, <1>5, <1>6, <1>7, <1>8 DEF Next, JobStep

\* A listed room stays listed: rows are never deleted and a start reads them all.
LEMMA ListedStays ==
    ASSUME Types, [Next]_vars, NEW r \in Creates, Listed(r)
    PROVE  Listed(r)'
<1>1. CASE LogicStep
  BY <1>1 DEF LogicStep, LogicStart, LogicCrash, HandleSend, CreateRoomTaken, CreateRoomFails,
     CreateRoomDone, DbCreateRoom, AddRoomToList, RefreshRoomList, Listed
<1>2. CASE ~LogicStep
  <2>1. UNCHANGED <<room_infos, m_room_list, logic_up>>
    BY <1>2 DEF Next, JobStep, Deliver, AutoCommit, DeliverFails, Consume, CallComet, CallOk, CallFails,
       JobRestart, RunCall, CallLost, vars, logic_vars
  <2> QED BY <2>1 DEF Listed
<1> QED BY <1>1, <1>2

\* A room that job announces to comet is in MySQL and, while logic serves, in the
\* list hello answers are made from - across restarts of logic and of job.
THEOREM AnnouncedListed == Spec => []AnnouncedRoomsAreListed
<1>1. Init => RoomsInv
  <2> SUFFICES ASSUME Init PROVE RoomsInv OBVIOUS
  <2>1. Types /\ Offsets BY InitTypes, InitOffsets
  <2>2. \A r \in Creates : r \in Msgs /\ r # NoMsg BY DeliveryAssumption DEF Msgs
  <2>3. Ran = {} /\ job.msg = NoMsg BY IdleType DEF Init, Ran
  <2>4. \A r \in Creates : ~Carried(r) BY <2>2, <2>3 DEF Init, Carried
  <2> QED BY <2>1, <2>4 DEF RoomsInv, CarriedAreListed
<1>2. RoomsInv /\ [Next]_vars => RoomsInv'
  <2> SUFFICES ASSUME RoomsInv, [Next]_vars PROVE RoomsInv' OBVIOUS
  <2>1. Types' /\ Offsets' BY TypesStep, OffsetsStep DEF RoomsInv
  <2>2. ASSUME NEW r \in Creates, Carried(r)' PROVE Listed(r)'
    <3>1. CASE Carried(r)
      BY <3>1, ListedStays DEF RoomsInv, CarriedAreListed
    <3>2. CASE ~Carried(r)
      <4>1. \E sent \in BOOLEAN : CreateRoomDone(r, sent) BY <2>2, <3>2, CarriedStep
      <4> QED BY <4>1 DEF CreateRoomDone, DbCreateRoom, AddRoomToList, Listed
    <3> QED BY <3>1, <3>2
  <2> QED BY <2>1, <2>2 DEF RoomsInv, CarriedAreListed
<1>3. RoomsInv => AnnouncedRoomsAreListed
  BY DEF RoomsInv, CarriedAreListed, Carried, Listed, AnnouncedRoomsAreListed
<1> QED BY <1>1, <1>2, <1>3, PTL DEF Spec

-----------------------------------------------------------------------------
(* Order within a partition *)

\* All copies of a message are in one partition.
OnePartition ==
    \A p, q \in Partitions : \A i \in 1..Len(log[p]), j \in 1..Len(log[q]) :
        log[p][i] = log[q][j] => p = q

\* Entry i of p was written before the first copy of m.
Before(p, i, m) ==
    /\ i \in 1..Len(log[p])
    /\ \A k \in 1..i : log[p][k] # m
    /\ \E j \in 1..Len(log[p]) : log[p][j] = m

\* Job has the message, or comet has it or may get it.
Started(m) == m = job.msg \/ (\E c \in calls : c.msg = m) \/ m \in Ran
Settled(m) == m \in Ran \/ m \in dropped \/ m \in lost

\* first_runs is what comet has run, each message once.
FirstRuns ==
    /\ \A i, j \in 1..Len(first_runs) : first_runs[i] = first_runs[j] => i = j
    /\ \A m : m \in Ran <=> \E i \in 1..Len(first_runs) : first_runs[i] = m
RanBefore(a, b) ==
    \E i, j \in 1..Len(first_runs) : i < j /\ first_runs[i] = a /\ first_runs[j] = b

StartedAreLogged ==
    \A m \in Msgs : Started(m) => \E p \in Partitions : \E i \in 1..Len(log[p]) : log[p][i] = m

\* Before a message is started, those written before it are done with.
SettledBefore ==
    \A m \in Msgs, p \in Partitions : \A i \in 1..Len(log[p]) :
        Before(p, i, m) /\ Started(m) => Settled(log[p][i])

RunInOrder ==
    \A m \in Msgs, p \in Partitions : \A i \in 1..Len(log[p]) :
        Before(p, i, m) /\ m \in Ran =>
            log[p][i] \in dropped \/ log[p][i] \in lost \/ RanBefore(log[p][i], m)

OrderInv ==
    FateInv /\ OnePartition /\ FirstRuns /\ StartedAreLogged /\ SettledBefore /\ RunInOrder

\* What a step can do to the partitions: entries stay where they are.
LEMMA LogStable ==
    ASSUME Types, [Next]_vars
    PROVE  \A q \in Partitions : \A i \in 1..Len(log[q]) :
               i \in 1..Len(log'[q]) /\ log'[q][i] = log[q][i]
<1>1. CASE \E m \in outq, p \in Partitions, acked \in BOOLEAN : Deliver(m, p, acked)
  BY <1>1, LogGrows
<1>2. CASE log' = log BY <1>2
<1>3. ASSUME ~ \E m \in outq, p \in Partitions, acked \in BOOLEAN : Deliver(m, p, acked)
      PROVE  log' = log
  <2>1. CASE (\E p \in Partitions : AutoCommit(p)) \/ (\E p \in Partitions : Consume(p)) \/ JobRestart
    BY <2>1 DEF AutoCommit, Consume, JobRestart, kafka_vars
  <2> QED BY <1>3, <2>1, LogUntouched DEF Next, JobStep
<1> QED BY <1>1, <1>2, <1>3

\* What has been run, dropped or lost stays so; only a call in flight adds to it.
LEMMA FatesGrow ==
    ASSUME Types, [Next]_vars
    PROVE  /\ Ran \subseteq Ran' /\ dropped \subseteq dropped' /\ lost \subseteq lost'
           /\ (first_runs' = first_runs /\ Ran' = Ran) \/ \E c \in calls : RunCall(c)
<1>1. CASE \E c \in calls : RunCall(c)
  <2>1. Ran \subseteq Ran' BY <1>1, RunAdds
  <2>2. UNCHANGED <<dropped, lost>> BY <1>1 DEF RunCall, fate_vars
  <2> QED BY <1>1, <2>1, <2>2
<1>2. CASE ~ \E c \in calls : RunCall(c)
  <2>1. UNCHANGED <<times, first_runs>>
    BY <1>2 DEF Next, LogicStep, LogicStart, LogicCrash, HandleSend, CreateRoomTaken, CreateRoomFails,
       CreateRoomDone, Deliver, DeliverFails, AutoCommit, JobStep, Consume, CallComet, CallOk, CallFails,
       JobRestart, CallLost, vars, comet_vars
  <2>2. dropped \subseteq dropped' /\ lost \subseteq lost'
    BY <1>2 DEF Next, LogicStep, LogicStart, LogicCrash, HandleSend, CreateRoomTaken, CreateRoomFails,
       CreateRoomDone, Deliver, DeliverFails, AutoCommit, JobStep, Consume, CallComet, CallOk, CallFails,
       JobRestart, CallLost, vars, fate_vars
  <2> QED BY <2>1, <2>2 DEF Ran
<1> QED BY <1>1, <1>2

\* A message is started by being consumed.
LEMMA StartedStep ==
    ASSUME Types, [Next]_vars, NEW m \in Msgs, Started(m)', ~Started(m)
    PROVE  \E p \in Partitions : Consume(p) /\ m = log[p][position[p] + 1]
<1>0. m # NoMsg BY DeliveryAssumption
<1>n. m # job.msg /\ (\A c \in calls : c.msg # m) /\ m \notin Ran BY DEF Started
<1>1. CASE LogicStep \/ (\E k \in outq, p \in Partitions, acked \in BOOLEAN : Deliver(k, p, acked))
           \/ (\E k \in outq : DeliverFails(k)) \/ UNCHANGED vars \/ (\E p \in Partitions : AutoCommit(p))
  <2>1. UNCHANGED <<job, calls, times>>
    BY <1>1 DEF LogicStep, LogicStart, LogicCrash, HandleSend, CreateRoomTaken, CreateRoomFails,
       CreateRoomDone, Deliver, DeliverFails, AutoCommit, vars, comet_vars
  <2> QED BY <1>n, <2>1 DEF Started, Ran
<1>2. CASE CallComet
  <2>1. UNCHANGED times /\ job'.msg = job.msg BY <1>2 DEF CallComet, Thread
  <2>2. \A c \in calls' : c \in calls \/ c.msg = job.msg BY <1>2 DEF CallComet, ThisCall, CallOf
  <2> QED BY <1>n, <2>1, <2>2 DEF Started, Ran
<1>3. CASE CallOk \/ CallFails \/ JobRestart
  <2>1. UNCHANGED <<calls, times>> BY <1>3 DEF CallOk, CallFails, JobRestart, comet_vars
  <2>2. job'.msg \in {job.msg, NoMsg} BY <1>3 DEF CallOk, CallFails, JobRestart, Idle, Thread
  <2> QED BY <1>0, <1>n, <2>1, <2>2 DEF Started, Ran
<1>4. CASE \E c \in calls : RunCall(c)
  <2> PICK c \in calls : RunCall(c) BY <1>4
  <2>1. Ran' = Ran \cup {c.msg} BY RunAdds
  <2>2. job'.msg = job.msg /\ calls' \subseteq calls BY DEF RunCall, Thread
  <2> QED BY <1>n, <2>1, <2>2 DEF Started
<1>5. CASE \E c \in calls : CallLost(c) BY <1>5, <1>n DEF CallLost, Started, Ran
<1>6. ASSUME NEW p \in Partitions, Consume(p)
      PROVE  m = log[p][position[p] + 1]
  <2>1. UNCHANGED <<calls, times>> BY <1>6 DEF Consume, comet_vars
  <2>2. job'.msg = log[p][position[p] + 1] BY <1>6 DEF Consume, Thread
  <2> QED BY <1>n, <2>1, <2>2 DEF Started, Ran
<1> QED BY <1>1, <1>2, <1>3, <1>4, <1>5, <1>6 DEF Next, JobStep

\* The guard of Deliver: a copy goes where the first one went.
LEMMA OnePartitionStep == ASSUME OrderInv, [Next]_vars PROVE OnePartition'
<1>0. Types /\ OnePartition BY DEF OrderInv, FateInv
<1>1. CASE log' = log BY <1>0, <1>1 DEF OnePartition
<1>2. CASE \E m \in outq, p \in Partitions, acked \in BOOLEAN : Deliver(m, p, acked)
  <2> PICK m \in outq, p \in Partitions, acked \in BOOLEAN : Deliver(m, p, acked) BY <1>2
  <2>1. m \in Msgs BY <1>0 DEF Types, TypeOK
  <2>2. ASSUME NEW q \in Partitions, NEW i \in 1..Len(log'[q])
        PROVE  \/ i \in 1..Len(log[q]) /\ log'[q][i] = log[q][i]
               \/ q = p /\ log'[q][i] = m
    <3>1. log'[q] = IF q = p THEN Append(log[q], m) ELSE log[q]
      BY <1>0 DEF Deliver, Types, TypeOK
    <3>2. log[q] \in Seq(Msgs) BY <1>0 DEF Types, TypeOK
    <3> QED BY <2>1, <3>1, <3>2, AppendEntries
  <2>3. \A q \in Partitions : \A i \in 1..Len(log[q]) : log[q][i] = m => q = p
    BY <1>0 DEF Deliver, Types, TypeOK
  <2> QED BY <1>0, <2>2, <2>3 DEF OnePartition
<1>3. ASSUME ~ \E m \in outq, p \in Partitions, acked \in BOOLEAN : Deliver(m, p, acked)
      PROVE  log' = log
  <2>1. CASE (\E p \in Partitions : AutoCommit(p)) \/ (\E p \in Partitions : Consume(p)) \/ JobRestart
    BY <2>1 DEF AutoCommit, Consume, JobRestart, kafka_vars
  <2> QED BY <1>3, <2>1, LogUntouched DEF Next, JobStep
<1> QED BY <1>1, <1>2, <1>3

\* A call that runs for the first time adds its message at the end.
LEMMA FirstRunsGrow ==
    ASSUME Types, FirstRuns, NEW c \in calls, RunCall(c)
    PROVE  /\ FirstRuns'
           /\ \A i \in 1..Len(first_runs) : i \in 1..Len(first_runs') /\ first_runs'[i] = first_runs[i]
           /\ c.msg \notin Ran => /\ Len(first_runs') = Len(first_runs) + 1
                                  /\ first_runs'[Len(first_runs) + 1] = c.msg
<1>1. c.msg \in Msgs /\ Ran' = Ran \cup {c.msg} BY RunAdds
<1>2. first_runs \in Seq(Msgs) /\ Len(first_runs) \in Nat /\ times \in [Msgs -> Nat] BY DEF Types, TypeOK
<1>3. c.msg \in Ran <=> times[c.msg] # 0 BY <1>1, <1>2 DEF Ran
<1>4. CASE c.msg \in Ran
  <2>1. first_runs' = first_runs /\ Ran' = Ran BY <1>1, <1>3, <1>4 DEF RunCall
  <2> QED BY <1>4, <2>1 DEF FirstRuns
<1>5. CASE c.msg \notin Ran
  <2>1. first_runs' = Append(first_runs, c.msg) BY <1>3, <1>5 DEF RunCall
  <2>2. /\ Len(first_runs') = Len(first_runs) + 1 /\ first_runs'[Len(first_runs) + 1] = c.msg
        /\ \A i \in 1..Len(first_runs) : first_runs'[i] = first_runs[i]
    BY <1>1, <1>2, <2>1, AppendEntries
  <2>3. \A i \in 1..Len(first_runs') : i \in 1..Len(first_runs) \/ i = Len(first_runs) + 1
    BY <1>2, <2>2
  <2>4. \A i \in 1..Len(first_runs) : first_runs[i] # c.msg BY <1>5 DEF FirstRuns
  <2>5. \A i, j \in 1..Len(first_runs') : first_runs'[i] = first_runs'[j] => i = j
    BY <2>2, <2>3, <2>4 DEF FirstRuns
  <2>6. Len(first_runs) + 1 \in 1..Len(first_runs') BY <1>2, <2>2
  <2>7. \A i \in 1..Len(first_runs) : i \in 1..Len(first_runs') BY <1>2, <2>2
  <2>8. \A m : m \in Ran' <=> \E i \in 1..Len(first_runs') : first_runs'[i] = m
    BY <1>1, <2>2, <2>3, <2>6, <2>7 DEF FirstRuns
  <2> QED BY <2>2, <2>5, <2>7, <2>8 DEF FirstRuns
<1> QED BY <1>4, <1>5

LEMMA FirstRunsStep == ASSUME OrderInv, [Next]_vars PROVE FirstRuns'
<1>0. Types /\ FirstRuns BY DEF OrderInv, FateInv
<1>1. CASE first_runs' = first_runs /\ Ran' = Ran BY <1>0, <1>1 DEF FirstRuns
<1>2. CASE \E c \in calls : RunCall(c) BY <1>0, <1>2, FirstRunsGrow
<1> QED BY <1>0, <1>1, <1>2, FatesGrow

LEMMA RanBeforeStays ==
    ASSUME OrderInv, [Next]_vars, NEW a, NEW b, RanBefore(a, b)
    PROVE  RanBefore(a, b)'
<1>0. Types /\ FirstRuns BY DEF OrderInv, FateInv
<1>1. \A i \in 1..Len(first_runs) : i \in 1..Len(first_runs') /\ first_runs'[i] = first_runs[i]
  BY <1>0, FatesGrow, FirstRunsGrow
<1> QED BY <1>1 DEF RanBefore

LEMMA LoggedStep == ASSUME OrderInv, [Next]_vars PROVE StartedAreLogged'
<1>0. Types /\ Offsets /\ StartedAreLogged BY DEF OrderInv, FateInv
<1> SUFFICES ASSUME NEW m \in Msgs, Started(m)'
             PROVE  \E p \in Partitions : \E i \in 1..Len(log'[p]) : log'[p][i] = m
  BY DEF StartedAreLogged
<1>1. \E p \in Partitions : \E i \in 1..Len(log[p]) : log[p][i] = m
  <2>1. CASE Started(m) BY <1>0, <2>1 DEF StartedAreLogged
  <2>2. CASE ~Started(m)
    <3> PICK p \in Partitions : Consume(p) /\ m = log[p][position[p] + 1] BY <1>0, <2>2, StartedStep
    <3>1. position[p] + 1 \in 1..Len(log[p]) BY <1>0 DEF Consume, Types, TypeOK
    <3> QED BY <3>1
  <2> QED BY <2>1, <2>2
<1> QED BY <1>0, <1>1, LogStable

\* What was written before a message that is started was written before already.
LEMMA BeforeWasBefore ==
    ASSUME OrderInv, [Next]_vars, NEW m \in Msgs, NEW p \in Partitions, NEW i \in 1..Len(log'[p]),
           Started(m), Before(p, i, m)'
    PROVE  i \in 1..Len(log[p]) /\ Before(p, i, m) /\ log'[p][i] = log[p][i]
<1>0. Types /\ StartedAreLogged BY DEF OrderInv, FateInv
<1>a. PICK q \in Partitions : \E j \in 1..Len(log[q]) : log[q][j] = m BY <1>0 DEF StartedAreLogged
<1>1. PICK j \in 1..Len(log[q]) : log[q][j] = m BY <1>a
<1>2. j \in 1..Len(log'[q]) /\ log'[q][j] = m BY <1>0, <1>1, LogStable
<1>3. p = q
  <2>1. PICK k \in 1..Len(log'[p]) : log'[p][k] = m BY DEF Before
  <2> QED BY <1>2, <2>1, OnePartitionStep DEF OnePartition
<1>4. /\ Len(log[p]) \in Nat /\ Len(log'[p]) \in Nat /\ i \in Nat /\ j \in Nat
  <2>1. Types' BY TypesStep DEF OrderInv, FateInv
  <2>2. log[p] \in Seq(Msgs) /\ log'[p] \in Seq(Msgs) BY <1>0, <2>1 DEF Types, TypeOK
  <2> QED BY <2>2, <1>1
<1>5. ~(j <= i) BY <1>1, <1>2, <1>3, <1>4 DEF Before
<1>6. i \in 1..Len(log[p]) /\ i < j BY <1>1, <1>3, <1>4, <1>5
<1>7. \A k \in 1..i : k \in 1..Len(log[p]) BY <1>4, <1>6
<1>8. \A k \in 1..i : log'[p][k] = log[p][k] BY <1>0, <1>7, LogStable
<1>9. \A k \in 1..i : log[p][k] # m BY <1>8 DEF Before
<1> QED BY <1>0, <1>1, <1>3, <1>6, <1>9, LogStable DEF Before

LEMMA SettledStep == ASSUME OrderInv, [Next]_vars PROVE SettledBefore'
<1>0. /\ Types /\ Offsets /\ SettledBefore /\ OnePartition /\ NothingLostSilently
      /\ \A p \in Partitions : position[p] \in Nat /\ log[p] \in Seq(Msgs)
  BY DEF OrderInv, FateInv, Types, TypeOK
<1> SUFFICES ASSUME NEW m \in Msgs, NEW p \in Partitions, NEW i \in 1..Len(log'[p]),
                    Before(p, i, m)', Started(m)'
             PROVE  Settled(log[p][i])'
  BY DEF SettledBefore
<1>1. CASE Started(m)
  <2>1. i \in 1..Len(log[p]) /\ Before(p, i, m) /\ log'[p][i] = log[p][i] BY <1>1, BeforeWasBefore
  <2>2. Settled(log[p][i]) BY <1>0, <1>1, <2>1 DEF SettledBefore
  <2> QED BY <1>0, <2>1, <2>2, FatesGrow DEF Settled
<1>2. CASE ~Started(m)
  <2>1. PICK q \in Partitions : Consume(q) /\ m = log[q][position[q] + 1] BY <1>0, <1>2, StartedStep
  <2>2. log' = log /\ job.msg = NoMsg BY <1>0, <2>1 DEF Consume, kafka_vars, Types, Working
  <2>3. position[q] + 1 \in 1..Len(log[q]) BY <1>0, <2>1 DEF Consume
  <2>4. p = q
    <3>1. PICK k \in 1..Len(log[p]) : log[p][k] = m BY <2>2 DEF Before
    <3> QED BY <1>0, <2>1, <2>3, <3>1 DEF OnePartition
  <2>5. i \in Nat /\ i >= 1 /\ ~(position[p] + 1 <= i) BY <1>0, <2>1, <2>2, <2>4 DEF Before
  <2>6. i \in 1..position[p] BY <1>0, <2>5
  <2>7. log[p][i] \in HandedOut BY <2>6, HandedOutEntries
  <2>8. log[p][i] \in Msgs BY <1>0, <2>2
  <2>9. Settled(log[p][i]) BY <1>0, <2>2, <2>7, <2>8, DeliveryAssumption DEF NothingLostSilently, Settled
  <2> QED BY <1>0, <2>2, <2>9, FatesGrow DEF Settled
<1> QED BY <1>1, <1>2

LEMMA RunInOrderStep == ASSUME OrderInv, [Next]_vars PROVE RunInOrder'
<1>0. Types /\ SettledBefore /\ RunInOrder /\ FirstRuns BY DEF OrderInv, FateInv
<1> SUFFICES ASSUME NEW m \in Msgs, NEW p \in Partitions, NEW i \in 1..Len(log'[p]),
                    Before(p, i, m)', m \in Ran'
             PROVE  log'[p][i] \in dropped' \/ log'[p][i] \in lost' \/ RanBefore(log[p][i], m)'
  BY DEF RunInOrder
<1>1. CASE m \in Ran
  <2>1. i \in 1..Len(log[p]) /\ Before(p, i, m) /\ log'[p][i] = log[p][i]
    BY <1>1, BeforeWasBefore DEF Started
  <2>2. log[p][i] \in dropped \/ log[p][i] \in lost \/ RanBefore(log[p][i], m)
    BY <1>0, <1>1, <2>1 DEF RunInOrder
  <2> QED BY <1>0, <2>1, <2>2, FatesGrow, RanBeforeStays
<1>2. CASE m \notin Ran
  <2>1. PICK c \in calls : RunCall(c) BY <1>0, <1>2, FatesGrow
  <2>2. c.msg = m BY <1>0, <1>2, <2>1, RunAdds
  <2>3. Started(m) BY <2>2 DEF Started
  <2>4. i \in 1..Len(log[p]) /\ Before(p, i, m) /\ log'[p][i] = log[p][i] BY <2>3, BeforeWasBefore
  <2>5. Settled(log[p][i]) BY <1>0, <2>3, <2>4 DEF SettledBefore
  <2>6. CASE log[p][i] \in Ran
    <3>1. PICK a \in 1..Len(first_runs) : first_runs[a] = log[p][i] BY <1>0, <2>6 DEF FirstRuns
    <3>2. /\ a \in 1..Len(first_runs') /\ first_runs'[a] = log[p][i]
          /\ Len(first_runs') = Len(first_runs) + 1 /\ first_runs'[Len(first_runs) + 1] = m
      BY <1>0, <1>2, <2>1, <2>2, <3>1, FirstRunsGrow
    <3>3. Len(first_runs) \in Nat BY <1>0 DEF Types, TypeOK
    <3>4. Len(first_runs) + 1 \in 1..Len(first_runs') /\ a < Len(first_runs) + 1 BY <3>2, <3>3
    <3> QED BY <2>4, <3>2, <3>4 DEF RanBefore
  <2> QED BY <1>0, <2>4, <2>5, <2>6, FatesGrow DEF Settled
<1> QED BY <1>1, <1>2

LEMMA InitOrder == Init => OrderInv
<1> SUFFICES ASSUME Init PROVE OrderInv OBVIOUS
<1>1. FateInv
  <2>1. HandedOut = {} BY DEF Init, HandedOut
  <2> QED BY <2>1, InitTypes, InitOffsets DEF FateInv, NothingLostSilently
<1>2. \A p \in Partitions : log[p] = <<>> /\ Len(log[p]) = 0 BY DEF Init
<1>3. Ran = {} /\ calls = {} /\ job.msg = NoMsg /\ Len(first_runs) = 0 BY IdleType DEF Init, Ran
<1>4. \A m \in Msgs : ~Started(m) BY <1>3, DeliveryAssumption DEF Started
<1> QED BY <1>1, <1>2, <1>3, <1>4 DEF OrderInv, OnePartition, FirstRuns, StartedAreLogged,
      SettledBefore, RunInOrder

LEMMA OrderStep == OrderInv /\ [Next]_vars => OrderInv'
<1> SUFFICES ASSUME OrderInv, [Next]_vars PROVE OrderInv' OBVIOUS
<1>1. FateInv' BY FateStep, TypesStep, OffsetsStep DEF FateInv, OrderInv
<1> QED BY <1>1, OnePartitionStep, FirstRunsStep, LoggedStep, SettledStep, RunInOrderStep DEF OrderInv

\* Messages of one partition are first run in order: one is overtaken only after
\* job gave it up (CallFails) or crashed with it, whatever late calls, restarts and
\* copies there are.
THEOREM PartitionOrder == Spec => []InOrderWithinPartition
<1>1. Init => OrderInv BY InitOrder
<1>2. OrderInv /\ [Next]_vars => OrderInv' BY OrderStep
<1>3. OrderInv => InOrderWithinPartition
  <2> SUFFICES ASSUME OrderInv, NEW p \in Partitions, NEW i \in 1..position[p], NEW j \in 1..position[p],
                      i < j, log[p][j] \in Ran, \A k \in 1..i : log[p][k] # log[p][j]
               PROVE  \/ log[p][i] \in dropped \cup lost
                      \/ log[p][i] \in Ran /\ Index(log[p][i]) < Index(log[p][j])
    BY DEF InOrderWithinPartition
  <2>0. Types /\ Offsets /\ FirstRuns /\ RunInOrder BY DEF OrderInv, FateInv
  <2>1. i \in 1..Len(log[p]) /\ j \in 1..Len(log[p]) BY <2>0 DEF Types, TypeOK, Offsets
  <2>2. Before(p, i, log[p][j]) /\ log[p][j] \in Msgs BY <2>0, <2>1 DEF Before, Types, TypeOK
  <2>3. log[p][i] \in dropped \/ log[p][i] \in lost \/ RanBefore(log[p][i], log[p][j])
    BY <2>0, <2>1, <2>2 DEF RunInOrder
  <2>4. CASE RanBefore(log[p][i], log[p][j])
    <3>1. PICK a \in 1..Len(first_runs), b \in 1..Len(first_runs) :
             a < b /\ first_runs[a] = log[p][i] /\ first_runs[b] = log[p][j]
      BY <2>4 DEF RanBefore
    <3>2. DOMAIN first_runs = 1..Len(first_runs) BY <2>0 DEF Types, TypeOK
    <3>3. ASSUME NEW k \in 1..Len(first_runs) PROVE Index(first_runs[k]) = k
      BY <2>0, <3>2 DEF Index, FirstRuns
    <3>4. log[p][i] \in Ran BY <2>0, <3>1 DEF FirstRuns
    <3> QED BY <3>1, <3>3, <3>4
  <2> QED BY <2>3, <2>4
<1> QED BY <1>1, <1>2, <1>3, PTL DEF Spec

-----------------------------------------------------------------------------
(* Repetitions are bounded *)

\* The call is for an entry of a partition that job, in its present life, has
\* handed out; in an earlier life it may have been any.
Issued(c) ==
    \E p \in Partitions :
        /\ c.offset \in 1..Len(log[p]) /\ log[p][c.offset] = c.msg
        /\ c.life <= job_restarts
        /\ c.life = job_restarts => c.offset <= position[p]

\* Job does not issue it again: it is past that attempt.
Past(c) ==
    c.life = job_restarts /\ job.pc # "consume" /\ job.msg = c.msg /\ job.offset = c.offset =>
        c.retry < job.retry \/ (c.retry = job.retry /\ job.pc = "wait")

JobAt ==
    job.pc # "consume" =>
        \E p \in Partitions : job.offset \in 1..position[p] /\ log[p][job.offset] = job.msg

\* The calls comet has run are finitely many, different from those in flight, and
\* as many for each message as times says.
AreRun(done) ==
    /\ done \in SUBSET Call
    /\ done \cap calls = {}
    /\ \A c \in done \cup calls : Issued(c) /\ Past(c)
    /\ \A m \in Msgs : /\ IsFiniteSet({c \in done : c.msg = m})
                       /\ times[m] = Cardinality({c \in done : c.msg = m})

RepeatsInv == OrderInv /\ JobAt /\ \E done : AreRun(done)

\* The parts of job's next value, for each of its steps.
LEMMA JobNext ==
    ASSUME Types, [Next]_vars
    PROVE  \/ \E p \in Partitions : /\ Consume(p) /\ job'.pc = "call"
                                    /\ job'.msg = log[p][position[p] + 1] /\ job'.offset = position[p] + 1
           \/ CallComet /\ job'.pc = "wait" /\ job'.msg = job.msg /\ job'.offset = job.offset /\ job'.retry = job.retry
           \/ CallFails /\ job'.pc = "call" /\ job'.msg = job.msg /\ job'.offset = job.offset /\ job'.retry = job.retry + 1
           \/ job'.pc = "consume"
           \/ job'.pc = job.pc /\ job'.msg = job.msg /\ job'.offset = job.offset /\ job'.retry = job.retry
<1>1. ASSUME NEW p \in Partitions, Consume(p)
      PROVE  job'.pc = "call" /\ job'.msg = log[p][position[p] + 1] /\ job'.offset = position[p] + 1
  <2>1. job' = Thread("call", log[p][position[p] + 1], position[p] + 1, 0, FALSE) BY <1>1 DEF Consume
  <2> QED BY <2>1 DEF Thread
<1>2. CASE CallComet BY <1>2 DEF CallComet, Thread
<1>3. CASE CallFails BY <1>3, IdleType DEF CallFails, Thread
<1>4. CASE CallOk \/ JobRestart BY <1>4, IdleType DEF CallOk, JobRestart
<1>5. CASE \E c \in calls : RunCall(c) BY <1>5 DEF RunCall, Thread
<1>6. CASE job' = job BY <1>6
<1>7. CASE LogicStep \/ (\E m \in outq, p \in Partitions, acked \in BOOLEAN : Deliver(m, p, acked))
           \/ (\E m \in outq : DeliverFails(m)) \/ (\E p \in Partitions : AutoCommit(p))
           \/ (\E c \in calls : CallLost(c)) \/ UNCHANGED vars
  BY <1>6, <1>7 DEF LogicStep, LogicStart, LogicCrash, HandleSend, CreateRoomTaken, CreateRoomFails,
     CreateRoomDone, Deliver, DeliverFails, AutoCommit, CallLost, vars
<1> QED BY <1>1, <1>2, <1>3, <1>4, <1>5, <1>7 DEF Next, JobStep

\* Positions go back only with a new life.
LEMMA LivesAndPositions ==
    ASSUME Types, [Next]_vars
    PROVE  \/ job_restarts' = job_restarts + 1 /\ job'.pc = "consume"
           \/ job_restarts' = job_restarts /\ \A p \in Partitions : position[p] <= position'[p]
<1>0. position \in [Partitions -> Nat] BY DEF Types, TypeOK
<1>1. CASE JobRestart BY <1>1, IdleType DEF JobRestart
<1>2. ASSUME NEW q \in Partitions, Consume(q)
      PROVE  job_restarts' = job_restarts /\ \A p \in Partitions : position[p] <= position'[p]
  <2>1. position' = [position EXCEPT ![q] = position[q] + 1] /\ job_restarts' = job_restarts
    BY <1>2 DEF Consume
  <2> QED BY <1>0, <2>1
<1>3. CASE UNCHANGED <<job_restarts, position>> BY <1>0, <1>3
<1>4. ASSUME ~JobRestart, ~ \E p \in Partitions : Consume(p)
      PROVE  UNCHANGED <<job_restarts, position>>
  BY <1>4 DEF Next, LogicStep, LogicStart, LogicCrash, HandleSend, CreateRoomTaken, CreateRoomFails,
     CreateRoomDone, Deliver, DeliverFails, AutoCommit, JobStep, CallComet, CallOk, CallFails,
     RunCall, CallLost, vars, offset_vars
<1> QED BY <1>1, <1>2, <1>3, <1>4

LEMMA CallParts ==
    ASSUME NEW c \in Call
    PROVE  c.msg \in Msgs /\ c.offset \in Nat /\ c.life \in Nat /\ c.retry \in Nat
BY DEF Call, Attempts

LEMMA IssuedStays ==
    ASSUME RepeatsInv, [Next]_vars, NEW c \in Call, Issued(c), Past(c)
    PROVE  Issued(c)' /\ Past(c)'
<1>0. /\ Types /\ OnePartition /\ job_restarts \in Nat /\ Types'
      /\ \A p \in Partitions : position[p] \in Nat /\ position'[p] \in Nat /\ log[p] \in Seq(Msgs)
  <2>1. Types /\ Types' /\ OnePartition BY TypesStep DEF RepeatsInv, OrderInv, FateInv
  <2>2. job_restarts \in Nat /\ position \in [Partitions -> Nat] /\ log \in [Partitions -> Seq(Msgs)]
    BY <2>1 DEF Types, TypeOK
  <2>3. position' \in [Partitions -> Nat] BY <2>1 DEF Types, TypeOK
  <2> QED BY <2>1, <2>2, <2>3
<1>1. c.offset \in Nat /\ c.life \in Nat /\ c.retry \in Nat BY CallParts
<1>2. PICK p \in Partitions :
         /\ c.offset \in 1..Len(log[p]) /\ log[p][c.offset] = c.msg
         /\ c.life <= job_restarts /\ (c.life = job_restarts => c.offset <= position[p])
  BY DEF Issued
<1>3. Issued(c)'
  <2>1. c.offset \in 1..Len(log'[p]) /\ log'[p][c.offset] = c.msg BY <1>0, <1>2, LogStable
  <2>2. c.life <= job_restarts' /\ (c.life = job_restarts' => c.offset <= position'[p])
    BY <1>0, <1>1, <1>2, LivesAndPositions
  <2> QED BY <2>1, <2>2 DEF Issued
<1>4. Past(c)'
  <2> SUFFICES ASSUME c.life = job_restarts', job'.pc # "consume", job'.msg = c.msg, job'.offset = c.offset
               PROVE  c.retry < job'.retry \/ (c.retry = job'.retry /\ job'.pc = "wait")
    BY DEF Past
  <2>1. job_restarts' = job_restarts BY LivesAndPositions, <1>0
  <2>2. job.retry \in Nat BY <1>0, TypesJob, ThreadParts DEF Attempts
  <2>3. ASSUME NEW q \in Partitions, Consume(q), c.msg = log[q][position[q] + 1], c.offset = position[q] + 1
        PROVE  FALSE
    <3>1. position[q] + 1 \in 1..Len(log[q]) BY <1>0, <2>3 DEF Consume
    <3>2. p = q BY <1>0, <1>2, <2>3, <3>1 DEF OnePartition
    <3> QED BY <1>0, <1>2, <2>1, <2>3, <3>2
  <2>4. CASE CallComet /\ job'.pc = "wait" /\ job'.msg = job.msg /\ job'.offset = job.offset /\ job'.retry = job.retry
    BY <2>1, <2>4 DEF Past, CallComet
  <2>5. CASE CallFails /\ job'.pc = "call" /\ job'.msg = job.msg /\ job'.offset = job.offset /\ job'.retry = job.retry + 1
    <3>1. c.retry <= job.retry BY <1>1, <2>1, <2>2, <2>5 DEF Past, CallFails
    <3> QED BY <1>1, <2>2, <2>5, <3>1
  <2>6. CASE job'.pc = job.pc /\ job'.msg = job.msg /\ job'.offset = job.offset /\ job'.retry = job.retry
    BY <2>1, <2>6 DEF Past
  <2> QED BY <1>0, <2>3, <2>4, <2>5, <2>6, JobNext
<1> QED BY <1>3, <1>4

LEMMA JobAtStep == ASSUME RepeatsInv, [Next]_vars PROVE JobAt'
<1>0. /\ Types /\ Offsets /\ JobAt
      /\ \A p \in Partitions : position[p] \in Nat /\ log[p] \in Seq(Msgs) /\ Len(log[p]) \in Nat
  BY DEF RepeatsInv, OrderInv, FateInv, Types, TypeOK
<1>1. ASSUME NEW p \in Partitions, Consume(p), job'.msg = log[p][position[p] + 1], job'.offset = position[p] + 1
      PROVE  JobAt'
  <2>1. log' = log /\ position'[p] = position[p] + 1 BY <1>0, <1>1 DEF Consume, kafka_vars, Types, TypeOK
  <2>2. job'.offset \in 1..position'[p] BY <1>0, <1>1, <2>1
  <2> QED BY <1>1, <2>1, <2>2 DEF JobAt
<1>2. ASSUME job'.msg = job.msg, job'.offset = job.offset, job.pc # "consume", job'.pc # "consume"
      PROVE  JobAt'
  <2>1. PICK p \in Partitions : job.offset \in 1..position[p] /\ log[p][job.offset] = job.msg
    BY <1>0, <1>2 DEF JobAt
  <2>2. position[p] <= position'[p] /\ position'[p] \in Nat
    <3>1. Types' BY TypesStep DEF RepeatsInv, OrderInv, FateInv
    <3> QED BY <1>0, <1>2, <3>1, LivesAndPositions DEF Types, TypeOK
  <2>3. job.offset \in 1..Len(log[p]) BY <1>0, <2>1 DEF Offsets
  <2>4. log'[p][job.offset] = job.msg BY <1>0, <2>1, <2>3, LogStable
  <2>5. job'.offset \in 1..position'[p] BY <1>0, <1>2, <2>1, <2>2
  <2> QED BY <1>2, <2>4, <2>5 DEF JobAt
<1>3. CASE job'.pc = "consume" BY <1>3 DEF JobAt
<1> QED BY <1>0, <1>1, <1>2, <1>3, JobNext DEF CallComet, CallFails

\* The call of the attempt that job is about to make was not made before.
LEMMA ThisCallIsNew ==
    ASSUME RepeatsInv, CallComet, [Next]_vars
    PROVE  /\ ThisCall \in Call /\ Issued(ThisCall)' /\ Past(ThisCall)'
           /\ \A c \in Call : Past(c) => c # ThisCall
<1>0. Types /\ Offsets /\ JobAt BY DEF RepeatsInv, OrderInv, FateInv
<1>1. job.offset \in Nat /\ job.retry \in Attempts /\ job.msg \in Msgs
  BY <1>0, TypesJob, ThreadParts DEF CallComet, Types, Working
<1>2. ThisCall \in Call BY <1>0, <1>1 DEF ThisCall, CallOf, Call, Types, TypeOK
<1>3. /\ ThisCall.msg = job.msg /\ ThisCall.offset = job.offset
      /\ ThisCall.life = job_restarts /\ ThisCall.retry = job.retry
  BY DEF ThisCall, CallOf
<1>4. UNCHANGED <<log, position, job_restarts>> BY DEF CallComet, kafka_vars, offset_vars
<1>5. PICK p \in Partitions : job.offset \in 1..position[p] /\ log[p][job.offset] = job.msg
  BY <1>0 DEF JobAt, CallComet
<1>6. job.offset \in 1..Len(log[p]) /\ job.offset <= position[p]
  <2>1. position[p] \in Nat /\ Len(log[p]) \in Nat /\ position[p] <= Len(log[p])
    BY <1>0 DEF Types, TypeOK, Offsets
  <2> QED BY <1>5, <2>1
<1>7. job_restarts <= job_restarts BY <1>0 DEF Types, TypeOK
<1> DEFINE t == ThisCall
<1>8. /\ t.offset \in 1..Len(log'[p]) /\ log'[p][t.offset] = t.msg
      /\ t.life <= job_restarts' /\ t.offset <= position'[p]
  BY <1>3, <1>4, <1>5, <1>6, <1>7
<1>9. job'.pc = "wait" /\ t.retry = job'.retry BY <1>3 DEF CallComet, Thread
<1>10. Issued(t)' /\ Past(t)'
  <2>1. t' = [msg |-> job'.msg, offset |-> job'.offset, life |-> job_restarts', retry |-> job'.retry]
    BY DEF ThisCall, CallOf
  <2>2. t = [msg |-> job.msg, offset |-> job.offset, life |-> job_restarts, retry |-> job.retry]
    BY DEF ThisCall, CallOf
  <2>3. job'.msg = job.msg /\ job'.offset = job.offset /\ job'.retry = job.retry BY DEF CallComet, Thread
  <2>4. t' = t BY <1>4, <2>1, <2>2, <2>3
  <2> HIDE DEF t
  <2> QED BY <1>8, <1>9, <2>4 DEF Issued, Past
<1>11. ASSUME NEW c \in Call, Past(c), c = ThisCall PROVE FALSE
  <2>1. ~(c.retry < job.retry) /\ job.pc = "call"
    BY <1>1, <1>3, <1>11 DEF Attempts, CallComet
  <2> QED BY <1>3, <1>11, <2>1 DEF Past
<1> QED BY <1>2, <1>10, <1>11

LEMMA AreRunStep == ASSUME RepeatsInv, [Next]_vars PROVE \E done : AreRun(done)'
<1>0. Types /\ calls \in SUBSET Call /\ times \in [Msgs -> Nat] BY DEF RepeatsInv, OrderInv, FateInv, Types, TypeOK
<1>1. PICK done : AreRun(done) BY DEF RepeatsInv
<1>2. /\ done \in SUBSET Call /\ done \cap calls = {}
      /\ \A m \in Msgs : /\ IsFiniteSet({c \in done : c.msg = m})
                         /\ times[m] = Cardinality({c \in done : c.msg = m})
  BY <1>1 DEF AreRun
<1>3. \A c \in done \cup calls : c \in Call /\ Issued(c) /\ Past(c) BY <1>0, <1>1 DEF AreRun
<1>4. \A c \in done \cup calls : Issued(c)' /\ Past(c)' BY <1>3, IssuedStays
<1>5. CASE times' = times /\ calls' \subseteq calls
  <2>1. AreRun(done)' BY <1>2, <1>4, <1>5 DEF AreRun
  <2> QED BY <2>1
<1>6. CASE CallComet
  <2>1. times' = times /\ calls' = calls \cup {ThisCall} BY <1>6 DEF CallComet
  <2>2. /\ ThisCall \notin done /\ ThisCall \in Call BY <1>3, <1>6, ThisCallIsNew
  <2>3. \A c \in calls' : Issued(c)' /\ Past(c)'
    <3>1. ThisCall' = ThisCall BY <1>6 DEF CallComet, ThisCall, CallOf, Thread
    <3>2. Issued(ThisCall)' /\ Past(ThisCall)' BY <1>6, ThisCallIsNew
    <3> DEFINE t == ThisCall
    <3>3. t' = t BY <3>1
    <3>4. Issued(t)' /\ Past(t)' BY <3>2
    <3> HIDE DEF t
    <3>5. ASSUME NEW c, c = t PROVE Issued(c)' /\ Past(c)'
      BY <3>3, <3>4, <3>5 DEF Issued, Past
    <3> QED BY <1>4, <2>1, <3>5 DEF t
  <2>4. AreRun(done)' BY <1>2, <1>4, <2>1, <2>2, <2>3 DEF AreRun
  <2> QED BY <2>4
<1>7. ASSUME NEW c \in calls, RunCall(c)
      PROVE  \E d : AreRun(d)'
  <2> DEFINE d == done \cup {c}
  <2>1. calls' = calls \ {c} /\ times' = [times EXCEPT ![c.msg] = times[c.msg] + 1] BY <1>7 DEF RunCall
  <2>2. c \in Call /\ c.msg \in Msgs /\ c \notin done BY <1>0, <1>2, CallParts
  <2>3. ASSUME NEW m \in Msgs
        PROVE  /\ IsFiniteSet({e \in d : e.msg = m})
               /\ times'[m] = Cardinality({e \in d : e.msg = m})
    <3> DEFINE S == {e \in done : e.msg = m}
    <3>1. IsFiniteSet(S) /\ times[m] = Cardinality(S) BY <1>2
    <3>2. CASE c.msg = m
      <4>1. {e \in d : e.msg = m} = S \cup {c} /\ c \notin S BY <2>2, <3>2
      <4>2. IsFiniteSet(S \cup {c}) /\ Cardinality(S \cup {c}) = Cardinality(S) + 1
        <5> HIDE DEF S
        <5> QED BY <3>1, <4>1, FS_AddElement
      <4>3. times'[m] = times[m] + 1 BY <1>0, <2>1, <2>2, <3>2
      <4> QED BY <3>1, <4>1, <4>2, <4>3
    <3>3. CASE c.msg # m
      <4>1. {e \in d : e.msg = m} = S BY <3>3
      <4>2. times'[m] = times[m] BY <1>0, <2>1, <2>2, <3>3
      <4> QED BY <3>1, <4>1, <4>2
    <3> QED BY <3>2, <3>3
  <2>4. d \in SUBSET Call /\ d \cap calls' = {} /\ d \cup calls' \subseteq done \cup calls
    BY <1>2, <2>1, <2>2
  <2> HIDE DEF d
  <2>5. AreRun(d)' BY <1>4, <2>3, <2>4 DEF AreRun
  <2> QED BY <2>5
<1>8. CASE \E c \in calls : CallLost(c) BY <1>5, <1>8 DEF CallLost
<1>9. CASE ~CallComet /\ ~(\E c \in calls : RunCall(c) \/ CallLost(c))
  BY <1>5, <1>9 DEF Next, LogicStep, LogicStart, LogicCrash, HandleSend, CreateRoomTaken, CreateRoomFails,
     CreateRoomDone, Deliver, DeliverFails, AutoCommit, JobStep, Consume, CallOk, CallFails,
     JobRestart, vars, comet_vars
<1> QED BY <1>6, <1>7, <1>8, <1>9

LEMMA CopiesFinite == ASSUME OrderInv, NEW m \in Msgs PROVE IsFiniteSet(Copies(m))
<1>1. CASE \E p \in Partitions : \E i \in 1..Len(log[p]) : log[p][i] = m
  <2>1. PICK p \in Partitions : \E i \in 1..Len(log[p]) : log[p][i] = m BY <1>1
  <2>2. \A q \in Partitions : log[q] \in Seq(Msgs) BY DEF OrderInv, FateInv, Types, TypeOK
  <2>3. Copies(m) \subseteq {p} \X (1..Len(log[p]))
    BY <2>1, <2>2 DEF Copies, OrderInv, OnePartition
  <2>4. IsFiniteSet({p}) /\ IsFiniteSet(1..Len(log[p]))
    <3>1. Len(log[p]) \in Int /\ 1 \in Int BY <2>2
    <3> QED BY <3>1, FS_Singleton, FS_Interval
  <2>5. IsFiniteSet({p} \X (1..Len(log[p]))) BY <2>4, FS_Product
  <2> QED BY <2>3, <2>5, FS_Subset
<1>2. CASE ~ \E p \in Partitions : \E i \in 1..Len(log[p]) : log[p][i] = m
  <2>1. \A q \in Partitions : log[q] \in Seq(Msgs) BY DEF OrderInv, FateInv, Types, TypeOK
  <2>2. Copies(m) = {} BY <1>2, <2>1 DEF Copies
  <2> QED BY <2>2, FS_EmptySet
<1> QED BY <1>1, <1>2

\* A call is identified by its copy, its life of job and its attempt.
LEMMA RunsCounted == ASSUME RepeatsInv, NEW m \in Msgs
                     PROVE  times[m] <= MAX_RETRIES * (job_restarts + 1) * Cardinality(Copies(m))
<1>0. OrderInv /\ Types /\ OnePartition /\ job_restarts \in Nat /\ \A q \in Partitions : log[q] \in Seq(Msgs)
  BY DEF RepeatsInv, OrderInv, FateInv, Types, TypeOK
<1>1. PICK done : AreRun(done) BY DEF RepeatsInv
<1> DEFINE S == {c \in done : c.msg = m}
           L == 0..job_restarts
           K == Copies(m)
<1>2. IsFiniteSet(S) /\ times[m] = Cardinality(S) BY <1>1 DEF AreRun
<1>3. ASSUME NEW c \in S
      PROVE  /\ \E p \in Partitions : <<p, c.offset>> \in K
             /\ c.life \in L /\ c.retry \in Attempts /\ c \in Call
  <2>1. c \in Call /\ Issued(c) /\ c.msg = m BY <1>1, <1>3 DEF AreRun
  <2>2. PICK p \in Partitions : c.offset \in 1..Len(log[p]) /\ log[p][c.offset] = m /\ c.life <= job_restarts
    BY <2>1 DEF Issued
  <2>3. c.life \in Nat /\ c.retry \in Attempts BY <2>1 DEF Call
  <2>4. <<p, c.offset>> \in K BY <1>0, <2>2 DEF Copies
  <2> QED BY <1>0, <2>1, <2>2, <2>3, <2>4
<1>4. IsFiniteSet(K) /\ Cardinality(K) \in Nat BY <1>0, CopiesFinite, FS_CardinalityType
<1>5. IsFiniteSet(L) /\ Cardinality(L) = job_restarts + 1 BY <1>0, FS_Interval
<1>6. IsFiniteSet(Attempts) /\ Cardinality(Attempts) = MAX_RETRIES
  BY DeliveryAssumption, FS_Interval DEF Attempts
<1>7. IsFiniteSet(K \X L) /\ Cardinality(K \X L) = Cardinality(K) * (job_restarts + 1)
  <2> HIDE DEF K, L
  <2> QED BY <1>4, <1>5, FS_Product
<1> DEFINE T == (K \X L) \X Attempts
<1>8. IsFiniteSet(T) /\ Cardinality(T) = (Cardinality(K) * (job_restarts + 1)) * MAX_RETRIES
  <2> HIDE DEF K, L
  <2> QED BY <1>6, <1>7, FS_Product
<1> DEFINE At(c) == CHOOSE p \in Partitions : <<p, c.offset>> \in K
           f == [c \in S |-> <<<<<<At(c), c.offset>>, c.life>>, c.retry>>]
<1>9. f \in [S -> T]
  <2>1. ASSUME NEW c \in S PROVE <<At(c), c.offset>> \in K BY <1>3, <2>1
  <2> HIDE DEF K, L, At, S
  <2> QED BY <1>3, <2>1
<1>10. ASSUME NEW a \in S, NEW b \in S, f[a] = f[b] PROVE a = b
  <2>1. a.offset = b.offset /\ a.life = b.life /\ a.retry = b.retry /\ a.msg = b.msg BY <1>10
  <2>2. a \in Call /\ b \in Call BY <1>3
  <2> QED BY <2>1, <2>2 DEF Call
<1>11. Cardinality(S) <= Cardinality(T)
  <2>1. f \in Injection(S, T)
    <3> HIDE DEF f, S, T
    <3> QED BY <1>9, <1>10 DEF Injection, IsInjective
  <2> HIDE DEF f, S, T
  <2> QED BY <1>8, <2>1, FS_Injection
<1>12. (Cardinality(K) * (job_restarts + 1)) * MAX_RETRIES = MAX_RETRIES * (job_restarts + 1) * Cardinality(K)
  <2> HIDE DEF K
  <2> QED BY <1>0, <1>4, DeliveryAssumption
<1> HIDE DEF S, T
<1> QED BY <1>2, <1>8, <1>11, <1>12

LEMMA InitRepeats == Init => RepeatsInv
<1> SUFFICES ASSUME Init PROVE RepeatsInv OBVIOUS
<1>1. OrderInv BY InitOrder
<1>2. JobAt BY IdleType DEF Init, JobAt
<1>3. AreRun({})
  <2>1. \A m \in Msgs : {c \in {} : c.msg = m} = {} OBVIOUS
  <2>2. \A m \in Msgs : times[m] = 0 /\ calls = {} BY DEF Init
  <2>3. calls = {} BY DEF Init
  <2> QED BY <2>1, <2>2, <2>3, FS_EmptySet DEF AreRun
<1> QED BY <1>1, <1>2, <1>3 DEF RepeatsInv

\* Comet takes in a message at most MAX_RETRIES times per life of job and copy in
\* Kafka: an attempt is made once, and what it sent arrives once, early or late.
THEOREM RepetitionsBounded == Spec => []RepeatsBounded
<1>1. Init => RepeatsInv BY InitRepeats
<1>2. RepeatsInv /\ [Next]_vars => RepeatsInv'
  <2> SUFFICES ASSUME RepeatsInv, [Next]_vars PROVE RepeatsInv' OBVIOUS
  <2>1. OrderInv' BY OrderStep DEF RepeatsInv
  <2> QED BY <2>1, JobAtStep, AreRunStep DEF RepeatsInv
<1>3. RepeatsInv => RepeatsBounded BY RunsCounted DEF RepeatsBounded
<1> QED BY <1>1, <1>2, <1>3, PTL DEF Spec
=============================================================================
