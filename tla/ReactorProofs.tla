--------------------------- MODULE ReactorProofs ---------------------------
(* Theorems about Reactor, for any number of connections, threads, frames and *)
(* pushes, and any size of messages and socket buffers.                       *)
EXTENDS Reactor, SequenceTheorems, FiniteSetTheorems, TLAPS

-----------------------------------------------------------------------------
(* Sequences *)

\* A sequence of anything: the argument below does not look at the functors.
IsSeq(q) == \E S : q \in Seq(S)

LEMMA IsSeqAppend ==
    ASSUME NEW q, NEW e, IsSeq(q)
    PROVE  IsSeq(Append(q, e))
<1>1. PICK S : q \in Seq(S) BY DEF IsSeq
<1>2. q \in Seq(S \cup {e}) BY <1>1
<1>3. Append(q, e) \in Seq(S \cup {e}) BY <1>2, AppendProperties
<1> QED BY <1>3 DEF IsSeq

LEMMA IsSeqAddOne ==
    ASSUME NEW q, NEW e, IsSeq(q)
    PROVE  IsSeq(q \o <<e>>)
<1>1. PICK S : q \in Seq(S) BY DEF IsSeq
<1>2. q \in Seq(S \cup {e}) /\ <<e>> \in Seq(S \cup {e}) BY <1>1
<1>3. q \o <<e>> \in Seq(S \cup {e}) BY <1>2, ConcatProperties
<1> QED BY <1>3 DEF IsSeq

LEMMA IsSeqAddNone ==
    ASSUME NEW q, IsSeq(q)
    PROVE  q \o <<>> = q
<1>1. PICK S : q \in Seq(S) BY DEF IsSeq
<1> QED BY <1>1, ConcatEmptySeq

-----------------------------------------------------------------------------
(* No lost wake-up *)

\* NoLostWakeup, and pending is a sequence.
WakeInv == IsSeq(pending) /\ NoLostWakeup

\* thr is a function on Threads, and its values have the four fields.
IsThread(r) == r = [pc |-> r.pc, conn |-> r.conn, closing |-> r.closing, fn |-> r.fn]
ThrShape == thr = [t \in Threads |-> thr[t]] /\ \A t \in Threads : IsThread(thr[t])

\* What queueInLoop does on the loop thread keeps it, whichever of the two forms
\* its argument has.
LEMMA QueueInLoopWakes ==
    ASSUME WakeInv, NEW b \in BOOLEAN, NEW f,
           QueueInLoop(IF b THEN <<f>> ELSE <<>>), loop_pc' = loop_pc, thr' = thr
    PROVE  WakeInv'
<1>1. CASE b
  <2>1. pending' = pending \o <<f>> BY <1>1 DEF QueueInLoop
  <2>2. IsSeq(pending') BY <2>1, IsSeqAddOne DEF WakeInv
  <2>3. loop_pc = "functors" => wakeupFd'
    <3>1. <<f>> # <<>> OBVIOUS
    <3> QED BY <1>1, <3>1 DEF QueueInLoop
  <2>4. NoLostWakeup' BY <2>3 DEF NoLostWakeup
  <2> QED BY <2>2, <2>4 DEF WakeInv
<1>2. CASE ~b
  <2>1. pending' = pending BY <1>2, IsSeqAddNone DEF QueueInLoop, WakeInv
  <2>2. wakeupFd => wakeupFd' BY DEF QueueInLoop
  <2>3. NoLostWakeup' BY <2>1, <2>2 DEF NoLostWakeup, WakeInv
  <2> QED BY <2>1, <2>3 DEF WakeInv
<1> QED BY <1>1, <1>2

\* Outside doPendingFunctors only the form of pending matters.
LEMMA NotInFunctors ==
    ASSUME IsSeq(pending'), loop_pc' # "functors"
    PROVE  WakeInv'
BY DEF WakeInv, NoLostWakeup

LEMMA QueueInLoopIsSeq ==
    ASSUME WakeInv, NEW b \in BOOLEAN, NEW f, QueueInLoop(IF b THEN <<f>> ELSE <<>>)
    PROVE  IsSeq(pending')
<1>1. CASE b BY <1>1, IsSeqAddOne DEF QueueInLoop, WakeInv
<1>2. CASE ~b BY <1>2, IsSeqAddNone DEF QueueInLoop, WakeInv
<1> QED BY <1>1, <1>2

LEMMA SendInLoopIsSeq ==
    ASSUME WakeInv, NEW c, NEW t, NEW n, SendInLoop(c, t, n)
    PROVE  IsSeq(pending')
<1>1. \E b \in BOOLEAN : QueueInLoop(IF b THEN <<WriteComplete(c)>> ELSE <<>>)
  BY DEF SendInLoop
<1> QED BY <1>1, QueueInLoopIsSeq

LEMMA LoopSendIsSeq ==
    ASSUME WakeInv, NEW c, LoopSend(c)
    PROVE  IsSeq(pending')
<1>1. CASE state[c] = "kConnected"
  <2>1. SendInLoop(c, LoopThread, accepted[LoopThread][c] + 1) BY <1>1 DEF LoopSend
  <2> QED BY <2>1, SendInLoopIsSeq
<1>2. CASE state[c] # "kConnected"
  <2>1. pending' = pending BY <1>2 DEF LoopSend
  <2> QED BY <2>1 DEF WakeInv
<1> QED BY <1>1, <1>2

LEMMA HandleCloseIsSeq ==
    ASSUME WakeInv, NEW c, HandleClose(c)
    PROVE  IsSeq(pending')
<1>1. CASE QueueInLoop(<<ConnectDestroyed(c)>>)
  BY <1>1, IsSeqAddOne DEF QueueInLoop, WakeInv
<1>2. CASE pending' = pending BY <1>2 DEF WakeInv
<1>3. QueueInLoop(<<ConnectDestroyed(c)>>) \/ pending' = pending BY DEF HandleClose
<1> QED BY <1>1, <1>2, <1>3

\* The steps of the loop outside doPendingFunctors.
LEMMA HandleKeepsWake ==
    ASSUME WakeInv,
           \/ Poll \/ HandleWakeup \/ NewConnection
           \/ \E c \in Conns : HandleHup(c) \/ HandleHandshake(c) \/ SendHelloMessage(c)
                               \/ HandleRead(c) \/ HandleWrite(c)
    PROVE  WakeInv'
<1>1. CASE Poll
  <2>1. pending' = pending /\ loop_pc' = "handle" BY <1>1 DEF Poll
  <2> QED BY <2>1, NotInFunctors DEF WakeInv
<1>2. CASE HandleWakeup \/ NewConnection
  <2>1. pending' = pending /\ loop_pc' = "handle"
    BY <1>2 DEF HandleWakeup, NewConnection, Handling
  <2> QED BY <2>1, NotInFunctors DEF WakeInv
<1>3. ASSUME NEW c \in Conns, HandleHup(c)
      PROVE  WakeInv'
  <2>1. loop_pc' = "handle" /\ HandleClose(c) BY <1>3 DEF HandleHup, Handling
  <2> QED BY <2>1, HandleCloseIsSeq, NotInFunctors
<1>4. ASSUME NEW c \in Conns, HandleHandshake(c)
      PROVE  WakeInv'
  <2>1. loop_pc' = "hello" /\ LoopSend(c) BY <1>4 DEF HandleHandshake
  <2> QED BY <2>1, LoopSendIsSeq, NotInFunctors
<1>5. ASSUME NEW c \in Conns, SendHelloMessage(c)
      PROVE  WakeInv'
  <2>1. loop_pc' = "handle" /\ (LoopSend(c) \/ pending' = pending) BY <1>5 DEF SendHelloMessage
  <2> QED BY <2>1, LoopSendIsSeq, NotInFunctors DEF WakeInv
<1>6. ASSUME NEW c \in Conns, HandleRead(c)
      PROVE  WakeInv'
  <2>1. loop_pc' = "handle" /\ (HandleClose(c) \/ pending' = pending) BY <1>6 DEF HandleRead, Handling
  <2> QED BY <2>1, HandleCloseIsSeq, NotInFunctors DEF WakeInv
<1>7. ASSUME NEW c \in Conns, HandleWrite(c)
      PROVE  WakeInv'
  <2>1. loop_pc' = "handle" BY <1>7 DEF HandleWrite, Handling
  <2>2. \E b \in BOOLEAN : QueueInLoop(IF b THEN <<WriteComplete(c)>> ELSE <<>>)
    BY <1>7 DEF HandleWrite
  <2> QED BY <2>1, <2>2, QueueInLoopIsSeq, NotInFunctors
<1> QED BY <1>1, <1>2, <1>3, <1>4, <1>5, <1>6, <1>7

\* doPendingFunctors: what a functor queues wakes the next poll.
LEMMA FunctorsKeepWake ==
    ASSUME WakeInv,
           TakeFunctors \/ RunSend \/ RunShutdown \/ RunWriteComplete \/ RunConnectDestroyed
    PROVE  WakeInv'
<1>1. CASE TakeFunctors
  <2>1. pending' = <<>> BY <1>1 DEF TakeFunctors
  <2>2. IsSeq(pending')
    <3>1. <<>> \in Seq({}) OBVIOUS
    <3> QED BY <2>1, <3>1 DEF IsSeq
  <2> QED BY <2>1, <2>2 DEF WakeInv, NoLostWakeup
<1>2. CASE RunSend
  <2>1. loop_pc' = loop_pc /\ thr' = thr BY <1>2 DEF RunSend, Running
  <2>2. CASE pending' = pending /\ wakeupFd' = wakeupFd
    BY <2>1, <2>2 DEF WakeInv, NoLostWakeup
  <2>3. CASE \E c, t, n : SendInLoop(c, t, n)
    <3>1. \E b \in BOOLEAN : \E c : QueueInLoop(IF b THEN <<WriteComplete(c)>> ELSE <<>>)
      BY <2>3 DEF SendInLoop
    <3> QED BY <3>1, <2>1, QueueInLoopWakes
  <2>4. (pending' = pending /\ wakeupFd' = wakeupFd) \/ \E c, t, n : SendInLoop(c, t, n)
    BY <1>2 DEF RunSend
  <2> QED BY <2>2, <2>3, <2>4
<1>3. CASE RunShutdown \/ RunWriteComplete \/ RunConnectDestroyed
  <2>1. /\ loop_pc' = loop_pc /\ thr' = thr /\ pending' = pending /\ wakeupFd' = wakeupFd
    BY <1>3 DEF RunShutdown, RunWriteComplete, RunConnectDestroyed, Running
  <2> QED BY <2>1 DEF WakeInv, NoLostWakeup
<1> QED BY <1>1, <1>2, <1>3

-----------------------------------------------------------------------------
(* The other threads *)

\* A step of t leaves the other threads where they are and gives t four fields.
StepOf(t) ==
    /\ thr' = [u \in Threads |-> thr'[u]]
    /\ \A u \in Threads \ {t} : thr'[u] = thr[u]
    /\ IsThread(thr'[t])

LEMMA ThreadIsThread ==
    ASSUME NEW step, NEW c, NEW b, NEW f
    PROVE  IsThread(Thread(step, c, b, f))
BY DEF IsThread, Thread

LEMMA StepWhole ==
    ASSUME ThrShape, NEW t \in Threads, NEW r, IsThread(r), thr' = [thr EXCEPT ![t] = r]
    PROVE  StepOf(t) /\ thr'[t] = r
BY DEF ThrShape, StepOf

LEMMA StepPc ==
    ASSUME ThrShape, NEW t \in Threads, NEW step, thr' = [thr EXCEPT ![t].pc = step]
    PROVE  StepOf(t) /\ thr'[t].pc = step
<1>1. IsThread(thr[t]) BY DEF ThrShape
<1>2. IsThread([thr[t] EXCEPT !.pc = step]) /\ [thr[t] EXCEPT !.pc = step].pc = step
  BY <1>1 DEF IsThread
<1>3. thr' = [thr EXCEPT ![t] = [thr[t] EXCEPT !.pc = step]] OBVIOUS
<1> QED BY <1>2, <1>3, StepWhole

LEMMA StepPcFn ==
    ASSUME ThrShape, NEW t \in Threads, NEW step, NEW f,
           thr' = [thr EXCEPT ![t].pc = step, ![t].fn = f]
    PROVE  StepOf(t) /\ thr'[t].pc = step
<1> DEFINE q == [thr[t] EXCEPT !.pc = step]
<1> DEFINE r == [q EXCEPT !.fn = f]
<1>1. IsThread(thr[t]) BY DEF ThrShape
<1>2. IsThread(q) /\ q.pc = step BY <1>1 DEF IsThread
<1>3. IsThread(r) /\ r.pc = step
  <2> HIDE DEF q
  <2> QED BY <1>2 DEF IsThread
<1>4. thr' = [thr EXCEPT ![t] = r] BY DEF ThrShape
<1> HIDE DEF r
<1> QED BY <1>3, <1>4, StepWhole

LEMMA StepDone ==
    ASSUME ThrShape, NEW t \in Threads, Done(t)
    PROVE  StepOf(t)
BY ThreadIsThread, StepWhole DEF Done

LEMMA StepOfShape ==
    ASSUME ThrShape, NEW t \in Threads, StepOf(t)
    PROVE  ThrShape'
BY DEF ThrShape, StepOf

\* A thread that does not push keeps NoLostWakeup, if it was not about to write to
\* wakeupFd_.
LEMMA StepKeepsWake ==
    ASSUME WakeInv, NEW t \in Threads, StepOf(t), thr[t].pc # "wakeup",
           pending' = pending, loop_pc' = loop_pc, wakeupFd' = wakeupFd
    PROVE  WakeInv'
BY DEF WakeInv, NoLostWakeup, StepOf

LEMMA ThreadKeepsWake ==
    ASSUME WakeInv, ThrShape, NEW t \in Threads, ThreadStep(t) \/ Push(t)
    PROVE  WakeInv' /\ ThrShape'
<1>1. CASE Take(t)
  <2>1. StepOf(t) BY <1>1, ThreadIsThread, StepWhole DEF Take
  <2>2. /\ thr[t].pc # "wakeup"
        /\ pending' = pending /\ loop_pc' = loop_pc /\ wakeupFd' = wakeupFd
    BY <1>1 DEF Take, loop_vars
  <2> QED BY <2>1, <2>2, StepKeepsWake, StepOfShape
<1>2. CASE TakeWait(t)
  <2>1. StepOf(t) BY <1>2, StepPc DEF TakeWait, Goto
  <2>2. /\ thr[t].pc # "wakeup"
        /\ pending' = pending /\ loop_pc' = loop_pc /\ wakeupFd' = wakeupFd
    BY <1>2 DEF TakeWait, loop_vars
  <2> QED BY <2>1, <2>2, StepKeepsWake, StepOfShape
<1>3. CASE Push(t)
  <2>1. PICK c : thr' = [thr EXCEPT ![t] = Thread("send", c, FALSE, "none")] BY <1>3 DEF Push
  <2>2. StepOf(t) BY <2>1, ThreadIsThread, StepWhole
  <2>3. /\ thr[t].pc # "wakeup"
        /\ pending' = pending /\ loop_pc' = loop_pc /\ wakeupFd' = wakeupFd
    BY <1>3 DEF Push, loop_vars
  <2> QED BY <2>2, <2>3, StepKeepsWake, StepOfShape
<1>4. CASE Send(t)
  <2>1. \/ thr' = [thr EXCEPT ![t].pc = "queue", ![t].fn = "sendInLoop"]
        \/ thr' = [thr EXCEPT ![t].pc = "shutdown"]
        \/ Done(t)
    BY <1>4 DEF Send, Goto
  <2>2. StepOf(t) BY <2>1, StepPcFn, StepPc, StepDone
  <2>3. /\ thr[t].pc # "wakeup"
        /\ pending' = pending /\ loop_pc' = loop_pc /\ wakeupFd' = wakeupFd
    BY <1>4 DEF Send, loop_vars
  <2> QED BY <2>2, <2>3, StepKeepsWake, StepOfShape
<1>5. CASE QueueFunctor(t)
  <2>1. StepOf(t) /\ thr'[t].pc = "wakeup" BY <1>5, StepPc DEF QueueFunctor, Goto
  <2>2. PICK f : pending' = Append(pending, f) BY <1>5 DEF QueueFunctor
  <2>3. IsSeq(pending') BY <2>2, IsSeqAppend DEF WakeInv
  <2>4. NoLostWakeup' BY <2>1 DEF NoLostWakeup
  <2> QED BY <2>1, <2>3, <2>4, StepOfShape DEF WakeInv
<1>6. CASE Wakeup(t)
  <2>1. thr' = [thr EXCEPT ![t].pc = "shutdown"] \/ Done(t) BY <1>6 DEF Wakeup, Goto
  <2>2. StepOf(t) BY <2>1, StepPc, StepDone
  <2>3. wakeupFd' = TRUE /\ pending' = pending BY <1>6 DEF Wakeup
  <2>4. WakeInv' BY <2>3 DEF WakeInv, NoLostWakeup
  <2> QED BY <2>2, <2>4, StepOfShape
<1>7. CASE Shutdown(t)
  <2>1. thr' = [thr EXCEPT ![t].pc = "store"] \/ Done(t) BY <1>7 DEF Shutdown, Goto
  <2>2. StepOf(t) BY <2>1, StepPc, StepDone
  <2>3. /\ thr[t].pc # "wakeup"
        /\ pending' = pending /\ loop_pc' = loop_pc /\ wakeupFd' = wakeupFd
    BY <1>7 DEF Shutdown, loop_vars
  <2> QED BY <2>2, <2>3, StepKeepsWake, StepOfShape
<1>8. CASE ShutdownStore(t)
  <2>1. StepOf(t) BY <1>8, StepPcFn DEF ShutdownStore
  <2>2. /\ thr[t].pc # "wakeup"
        /\ pending' = pending /\ loop_pc' = loop_pc /\ wakeupFd' = wakeupFd
    BY <1>8 DEF ShutdownStore, loop_vars
  <2> QED BY <2>1, <2>2, StepKeepsWake, StepOfShape
<1> QED BY <1>1, <1>2, <1>3, <1>4, <1>5, <1>6, <1>7, <1>8 DEF ThreadStep

-----------------------------------------------------------------------------
(* The theorem *)

\* The loop notifies workers and touches thr in no other way.
LEMMA LoopKeepsShape ==
    ASSUME ThrShape, LoopStep
    PROVE  ThrShape'
<1>1. CASE thr' = thr BY <1>1 DEF ThrShape
<1>2. CASE \E c, fs : RunTasks(c, fs)
  <2>1. PICK woken : thr' = [t \in Threads |-> IF t \in woken THEN [thr[t] EXCEPT !.pc = "take"] ELSE thr[t]]
    BY <1>2 DEF RunTasks
  <2>2. \A t \in Threads : IsThread(thr'[t]) BY <2>1 DEF ThrShape, IsThread
  <2> QED BY <2>1, <2>2 DEF ThrShape
<1>3. thr' = thr \/ \E c, fs : RunTasks(c, fs)
  <2>1. CASE Poll \/ HandleWakeup \/ NewConnection \/ TakeFunctors
    BY <2>1 DEF Poll, HandleWakeup, NewConnection, TakeFunctors
  <2>2. CASE RunSend \/ RunShutdown \/ RunWriteComplete \/ RunConnectDestroyed
    BY <2>2 DEF RunSend, RunShutdown, RunWriteComplete, RunConnectDestroyed, Running
  <2>3. CASE \E c \in Conns : HandleHup(c) \/ HandleHandshake(c) \/ SendHelloMessage(c) \/ HandleWrite(c)
    BY <2>3 DEF HandleHup, HandleHandshake, SendHelloMessage, HandleWrite
  <2>4. CASE \E c \in Conns : HandleRead(c) BY <2>4 DEF HandleRead
  <2> QED BY <2>1, <2>2, <2>3, <2>4 DEF LoopStep
<1> QED BY <1>1, <1>2, <1>3

LEMMA InitWake == Init => WakeInv /\ ThrShape
<1> SUFFICES ASSUME Init PROVE WakeInv /\ ThrShape OBVIOUS
<1>1. pending = <<>> BY DEF Init
<1>2. <<>> \in Seq({}) OBVIOUS
<1>3. IsSeq(pending) BY <1>1, <1>2 DEF IsSeq
<1>4. ThrShape BY ThreadIsThread DEF Init, ThrShape
<1> QED BY <1>1, <1>3, <1>4 DEF WakeInv, NoLostWakeup

LEMMA StepWake == WakeInv /\ ThrShape /\ [Next]_vars => (WakeInv /\ ThrShape)'
<1> SUFFICES ASSUME WakeInv, ThrShape, [Next]_vars PROVE (WakeInv /\ ThrShape)' OBVIOUS
<1>1. CASE LoopStep
  <2>1. WakeInv' BY <1>1, HandleKeepsWake, FunctorsKeepWake DEF LoopStep
  <2> QED BY <2>1, <1>1, LoopKeepsShape
<1>2. ASSUME NEW t \in Threads, ThreadStep(t) \/ Push(t)
      PROVE  (WakeInv /\ ThrShape)'
  BY <1>2, ThreadKeepsWake
<1>3. CASE thr' = thr /\ pending' = pending /\ loop_pc' = loop_pc /\ wakeupFd' = wakeupFd
  BY <1>3 DEF WakeInv, NoLostWakeup, ThrShape
<1>4. ASSUME NEW c \in Conns, Client(c)
      PROVE  thr' = thr /\ pending' = pending /\ loop_pc' = loop_pc /\ wakeupFd' = wakeupFd
  BY <1>4 DEF Client, Connect, ClientSend, ClientRead, ClientFin, ClientReset, loop_vars
<1>5. CASE UNCHANGED vars BY <1>3, <1>5 DEF vars, loop_vars
<1> QED BY <1>1, <1>2, <1>3, <1>4, <1>5 DEF Next

\* No wake-up is lost (queueInLoop, doPendingFunctors, wakeup): whenever the loop
\* may poll with functors queued, wakeupFd_ is readable or about to be.
THEOREM WakeupNeverLost == Spec => []NoLostWakeup
<1>1. Init => WakeInv /\ ThrShape BY InitWake
<1>2. WakeInv /\ ThrShape /\ [Next]_vars => (WakeInv /\ ThrShape)' BY StepWake
<1>3. WakeInv => NoLostWakeup BY DEF WakeInv
<1> QED BY <1>1, <1>2, <1>3, PTL DEF Spec

-----------------------------------------------------------------------------
(* No worker sleeps while there is work for it *)

Takers == {w \in Workers : thr[w].pc = "take"}
Waiting == {w \in Workers : thr[w].pc = "wait"}

\* The queue and what a socket received are sequences.
SeqShape ==
    /\ IsSeq(queue)
    /\ rx = [c \in Conns |-> rx[c]]
    /\ \A c \in Conns : IsSeq(rx[c])

WorkInv == SeqShape /\ NoSleepWhileWork

LEMMA LenIsNat ==
    ASSUME NEW q, IsSeq(q)
    PROVE  Len(q) \in Nat
BY LenProperties DEF IsSeq

LEMMA IsSeqTail ==
    ASSUME NEW q, IsSeq(q), q # <<>>
    PROVE  IsSeq(Tail(q)) /\ Len(Tail(q)) = Len(q) - 1
<1>1. PICK S : q \in Seq(S) BY DEF IsSeq
<1>2. Tail(q) \in Seq(S) /\ Len(Tail(q)) = Len(q) - 1 BY <1>1, HeadTailProperties
<1> QED BY <1>2 DEF IsSeq

LEMMA IsSeqTasks ==
    ASSUME NEW q, IsSeq(q), NEW fs, IsSeq(fs), NEW c
    PROVE  LET ts == [i \in 1..Len(fs) |-> Task(fs[i], c)]
           IN  IsSeq(q \o ts) /\ Len(q \o ts) = Len(q) + Len(fs)
<1> DEFINE n == Len(fs)
<1> DEFINE T(i) == Task(fs[i], c)
<1> DEFINE ts == [i \in 1..n |-> T(i)]
<1>1. n \in Nat BY LenIsNat
<1>2. PICK S : q \in Seq(S) BY DEF IsSeq
<1> DEFINE U == S \cup {T(i) : i \in 1..n}
<1>3. q \in Seq(U) BY <1>2
<1>4. ts \in Seq(U) /\ Len(ts) = n
  <2>1. \A i \in 1..n : T(i) \in U OBVIOUS
  <2> HIDE DEF T, U, n
  <2>2. ts \in [1..n -> U] BY <2>1
  <2> QED BY <1>1, <2>2
<1>5. q \o ts \in Seq(U) /\ Len(q \o ts) = Len(q) + n
  <2> HIDE DEF ts, U, n
  <2> QED BY <1>3, <1>4, ConcatProperties
<1> QED BY <1>5 DEF IsSeq

LEMMA TakersFinite ==
    /\ IsFiniteSet(Takers) /\ Cardinality(Takers) \in Nat
    /\ IsFiniteSet(Waiting) /\ Cardinality(Waiting) \in Nat
<1>1. IsFiniteSet(Workers) BY ReactorAssumption
<1>2. Takers \in SUBSET Workers /\ Waiting \in SUBSET Workers BY DEF Takers, Waiting
<1>3. IsFiniteSet(Takers) /\ IsFiniteSet(Waiting) BY <1>1, <1>2, FS_Subset
<1> QED BY <1>3, FS_CardinalityType

\* The next state's takers and sleepers are finite too.
LEMMA TakersFiniteNext ==
    IsFiniteSet(Takers') /\ Cardinality(Takers') \in Nat
<1>1. IsFiniteSet(Workers) BY ReactorAssumption
<1>2. Takers' \in SUBSET Workers BY DEF Takers
<1>3. IsFiniteSet(Takers') BY <1>1, <1>2, FS_Subset
<1> QED BY <1>3, FS_CardinalityType

LEMMA WorkMeans == NoSleepWhileWork <=> (Waiting # {} => Len(queue) <= Cardinality(Takers))
BY DEF NoSleepWhileWork, Takers, Waiting

LEMMA WorkMeansNext == NoSleepWhileWork' <=> (Waiting' # {} => Len(queue') <= Cardinality(Takers'))
BY DEF NoSleepWhileWork, Takers, Waiting

\* A thread that is not about to take, and does not go to sleep, only adds takers.
LEMMA StepKeepsWork ==
    ASSUME WorkInv, NEW t \in Threads, StepOf(t), queue' = queue,
           thr[t].pc # "take", thr'[t].pc # "wait"
    PROVE  NoSleepWhileWork'
<1>1. Waiting' \subseteq Waiting
  BY DEF Waiting, StepOf, Threads
<1>2. Takers \subseteq Takers'
  BY DEF Takers, StepOf, Threads
<1>3. Cardinality(Takers) <= Cardinality(Takers') BY <1>2, TakersFiniteNext, FS_Subset
<1>4. Len(queue) \in Nat BY LenIsNat DEF WorkInv, SeqShape
<1> QED BY <1>1, <1>3, <1>4, TakersFinite, TakersFiniteNext, WorkMeans, WorkMeansNext DEF WorkInv

LEMMA DoneNotWaiting ==
    ASSUME ThrShape, NEW t \in Threads, Done(t)
    PROVE  StepOf(t) /\ thr'[t].pc # "wait"
<1>1. PICK step \in {"take", "idle"} : thr' = [thr EXCEPT ![t] = Thread(step, NoConn, FALSE, "none")]
  BY DEF Done
<1>2. StepOf(t) /\ thr'[t] = Thread(step, NoConn, FALSE, "none")
  BY <1>1, ThreadIsThread, StepWhole
<1> QED BY <1>1, <1>2 DEF Thread

\* The worker that takes a task is one taker less for one task less.
LEMMA TakeKeepsWork ==
    ASSUME WorkInv, ThrShape, NEW w \in Threads, Take(w)
    PROVE  IsSeq(queue') /\ NoSleepWhileWork'
<1>1. w \in Takers /\ queue # <<>> /\ queue' = Tail(queue) BY DEF Take, Takers
<1>2. thr' = [thr EXCEPT ![w] = Thread("send", Head(queue).conn, Head(queue).frame = "close", "none")]
  BY DEF Take
<1>3. StepOf(w) /\ thr'[w].pc = "send"
  <2>1. StepOf(w) /\ thr'[w] = Thread("send", Head(queue).conn, Head(queue).frame = "close", "none")
    BY <1>2, ThreadIsThread, StepWhole
  <2> QED BY <2>1 DEF Thread
<1>4. Waiting' = Waiting
  BY <1>1, <1>3 DEF Waiting, Takers, StepOf, Threads
<1>5. Takers' = Takers \ {w}
  BY <1>3 DEF Takers, StepOf, Threads
<1>6. Cardinality(Takers') = Cardinality(Takers) - 1 BY <1>1, <1>5, TakersFinite, FS_RemoveElement
<1>7. IsSeq(queue') /\ Len(queue') = Len(queue) - 1 BY <1>1, IsSeqTail DEF WorkInv, SeqShape
<1>8. Len(queue) \in Nat BY LenIsNat DEF WorkInv, SeqShape
<1> QED BY <1>4, <1>6, <1>7, <1>8, TakersFinite, WorkMeans, WorkMeansNext DEF WorkInv

LEMMA TakeWaitKeepsWork ==
    ASSUME NEW w, TakeWait(w)
    PROVE  NoSleepWhileWork'
<1>1. queue' = <<>> BY DEF TakeWait
<1>2. Len(queue') = 0 BY <1>1
<1> QED BY <1>2, TakersFiniteNext, WorkMeansNext

\* ThreadPool::run notifies once per frame: if it leaves a worker asleep, it woke
\* one for each frame it added.
LEMMA RunTasksKeepsWork ==
    ASSUME WorkInv, ThrShape, NEW c, NEW fs, IsSeq(fs), RunTasks(c, fs)
    PROVE  IsSeq(queue') /\ NoSleepWhileWork'
<1>1. queue' = queue \o [i \in 1..Len(fs) |-> Task(fs[i], c)] BY DEF RunTasks
<1>2. IsSeq(queue') /\ Len(queue') = Len(queue) + Len(fs)
  BY <1>1, IsSeqTasks DEF WorkInv, SeqShape
<1>3. PICK woken \in SUBSET Waiting :
         /\ Cardinality(woken) = Least(Len(fs), Cardinality(Waiting))
         /\ thr' = [t \in Threads |-> IF t \in woken THEN [thr[t] EXCEPT !.pc = "take"] ELSE thr[t]]
  BY DEF RunTasks, Waiting
<1>4. \A w \in Workers : thr'[w].pc = IF w \in woken THEN "take" ELSE thr[w].pc
  <2>1. \A t \in Threads : [thr[t] EXCEPT !.pc = "take"].pc = "take" BY DEF ThrShape, IsThread
  <2> QED BY <1>3, <2>1 DEF Threads
<1>5. Takers' = Takers \cup woken
  <2>1. woken \subseteq Workers BY DEF Waiting
  <2> QED BY <1>4, <2>1 DEF Takers
<1>6. Waiting' = Waiting \ woken BY <1>4 DEF Waiting
<1>7. Takers \cap woken = {}
  <2>1. Takers \cap Waiting = {} BY DEF Takers, Waiting
  <2> QED BY <2>1
<1>8. IsFiniteSet(woken) /\ Cardinality(woken) \in Nat
  BY TakersFinite, FS_Subset, FS_CardinalityType
<1>9. Cardinality(Takers') = Cardinality(Takers) + Cardinality(woken)
  <2>1. Cardinality(Takers \cup woken) = Cardinality(Takers) + Cardinality(woken) - Cardinality(Takers \cap woken)
    BY <1>8, TakersFinite, FS_Union
  <2>2. Cardinality(Takers \cap woken) = 0 BY <1>7, FS_EmptySet
  <2> QED BY <1>5, <1>8, <2>1, <2>2, TakersFinite
<1>10. Len(fs) \in Nat /\ Len(queue) \in Nat BY LenIsNat DEF WorkInv, SeqShape
<1>11. ASSUME Waiting' # {}
       PROVE  Len(queue') <= Cardinality(Takers')
  <2>1. woken # Waiting /\ Waiting # {} BY <1>6, <1>11
  <2>2. Cardinality(woken) # Cardinality(Waiting) BY <2>1, TakersFinite, FS_Subset
  <2>3. Cardinality(woken) = Len(fs) BY <1>3, <2>2 DEF Least
  <2>4. Len(queue) <= Cardinality(Takers) BY <2>1, WorkMeans DEF WorkInv
  <2> QED BY <1>2, <1>9, <1>10, <2>3, <2>4, TakersFinite
<1> QED BY <1>2, <1>11, WorkMeansNext

\* The steps of the pool and gRPC threads.
LEMMA ThreadKeepsWork ==
    ASSUME WorkInv, ThrShape, NEW t \in Threads, ThreadStep(t) \/ Push(t)
    PROVE  WorkInv'
<1>1. rx' = rx
  BY DEF ThreadStep, Take, TakeWait, Send, QueueFunctor, Wakeup, Shutdown, ShutdownStore, Push, peer_vars
<1>2. SUFFICES IsSeq(queue') /\ NoSleepWhileWork'
  BY <1>1 DEF WorkInv, SeqShape
<1>3. CASE Take(t) BY <1>3, TakeKeepsWork
<1>4. ASSUME queue' = queue PROVE IsSeq(queue') BY <1>4 DEF WorkInv, SeqShape
<1>5. CASE TakeWait(t) BY <1>4, <1>5, TakeWaitKeepsWork DEF TakeWait
<1>6. CASE Push(t)
  <2>1. PICK c : thr' = [thr EXCEPT ![t] = Thread("send", c, FALSE, "none")] BY <1>6 DEF Push
  <2>2. StepOf(t) /\ thr'[t].pc = "send"
    <3>1. StepOf(t) /\ thr'[t] = Thread("send", c, FALSE, "none") BY <2>1, ThreadIsThread, StepWhole
    <3> QED BY <3>1 DEF Thread
  <2>3. queue' = queue /\ thr[t].pc # "take" BY <1>6 DEF Push
  <2> QED BY <1>4, <2>2, <2>3, StepKeepsWork
<1>7. CASE Send(t) \/ Wakeup(t) \/ Shutdown(t)
  <2>1. \/ thr' = [thr EXCEPT ![t].pc = "queue", ![t].fn = "sendInLoop"]
        \/ \E step \in {"shutdown", "store"} : thr' = [thr EXCEPT ![t].pc = step]
        \/ Done(t)
    BY <1>7 DEF Send, Wakeup, Shutdown, Goto
  <2>2. StepOf(t) /\ thr'[t].pc # "wait"
    <3>1. CASE thr' = [thr EXCEPT ![t].pc = "queue", ![t].fn = "sendInLoop"]
      <4>1. StepOf(t) /\ thr'[t].pc = "queue" BY <3>1, StepPcFn
      <4> QED BY <4>1
    <3>2. ASSUME NEW step \in {"shutdown", "store"}, thr' = [thr EXCEPT ![t].pc = step]
          PROVE  StepOf(t) /\ thr'[t].pc # "wait"
      <4>1. StepOf(t) /\ thr'[t].pc = step BY <3>2, StepPc
      <4> QED BY <4>1
    <3> QED BY <2>1, <3>1, <3>2, DoneNotWaiting
  <2>3. queue' = queue /\ thr[t].pc # "take" BY <1>7 DEF Send, Wakeup, Shutdown
  <2> QED BY <1>4, <2>2, <2>3, StepKeepsWork
<1>8. CASE QueueFunctor(t)
  <2>1. StepOf(t) /\ thr'[t].pc = "wakeup" BY <1>8, StepPc DEF QueueFunctor, Goto
  <2>2. queue' = queue /\ thr[t].pc # "take" BY <1>8 DEF QueueFunctor
  <2> QED BY <1>4, <2>1, <2>2, StepKeepsWork
<1>9. CASE ShutdownStore(t)
  <2>1. StepOf(t) /\ thr'[t].pc = "queue" BY <1>9, StepPcFn DEF ShutdownStore
  <2>2. queue' = queue /\ thr[t].pc # "take" BY <1>9 DEF ShutdownStore
  <2> QED BY <1>4, <2>1, <2>2, StepKeepsWork
<1> QED BY <1>3, <1>5, <1>6, <1>7, <1>8, <1>9 DEF ThreadStep

\* A step that leaves the pool alone and changes one socket.
LEMMA SocketKeepsWork ==
    ASSUME WorkInv, queue' = queue, thr' = thr,
           rx' = rx \/ \E c \in Conns : \E q : IsSeq(q) /\ rx' = [rx EXCEPT ![c] = q]
    PROVE  WorkInv'
<1>1. SeqShape' BY DEF WorkInv, SeqShape
<1>2. NoSleepWhileWork' BY DEF WorkInv, NoSleepWhileWork
<1> QED BY <1>1, <1>2 DEF WorkInv

LEMMA EmptyIsSeq == IsSeq(<<>>)
<1>1. <<>> \in Seq({}) OBVIOUS
<1> QED BY <1>1 DEF IsSeq

LEMMA LoopKeepsWork ==
    ASSUME WorkInv, ThrShape, LoopStep
    PROVE  WorkInv'
<1>1. CASE Poll \/ HandleWakeup \/ NewConnection \/ TakeFunctors
  BY <1>1, SocketKeepsWork DEF Poll, HandleWakeup, NewConnection, TakeFunctors, peer_vars
<1>2. CASE RunSend \/ RunShutdown \/ RunWriteComplete \/ RunConnectDestroyed
  BY <1>2, SocketKeepsWork DEF RunSend, RunShutdown, RunWriteComplete, RunConnectDestroyed, Running, peer_vars
<1>3. CASE \E c \in Conns : HandleHup(c) \/ SendHelloMessage(c) \/ HandleWrite(c)
  BY <1>3, SocketKeepsWork DEF HandleHup, SendHelloMessage, HandleWrite, peer_vars
<1>4. ASSUME NEW c \in Conns, HandleHandshake(c)
      PROVE  WorkInv'
  <2>1. queue' = queue /\ thr' = thr /\ rx' = [rx EXCEPT ![c] = <<>>] BY <1>4 DEF HandleHandshake
  <2> QED BY <2>1, EmptyIsSeq, SocketKeepsWork
<1>5. ASSUME NEW c \in Conns, HandleRead(c)
      PROVE  WorkInv'
  <2>1. CASE queue' = queue /\ thr' = thr /\ rx' = rx BY <2>1, SocketKeepsWork
  <2>2. CASE rx' = [rx EXCEPT ![c] = <<>>] /\ RunTasks(c, rx[c])
    <3>1. IsSeq(rx[c]) BY DEF WorkInv, SeqShape
    <3>2. IsSeq(queue') /\ NoSleepWhileWork' BY <2>2, <3>1, RunTasksKeepsWork
    <3>3. SeqShape' BY <2>2, <3>2, EmptyIsSeq DEF WorkInv, SeqShape
    <3> QED BY <3>2, <3>3 DEF WorkInv
  <2> QED BY <1>5, <2>1, <2>2 DEF HandleRead
<1> QED BY <1>1, <1>2, <1>3, <1>4, <1>5 DEF LoopStep

LEMMA ClientKeepsWork ==
    ASSUME WorkInv, NEW c \in Conns, Client(c)
    PROVE  WorkInv'
<1>1. queue' = queue /\ thr' = thr
  BY DEF Client, Connect, ClientSend, ClientRead, ClientFin, ClientReset
<1>2. CASE Connect(c)
  <2>1. IsSeq(<<"handshake">>)
    <3>1. <<"handshake">> \in Seq({"handshake"}) OBVIOUS
    <3> QED BY <3>1 DEF IsSeq
  <2>2. rx' = [rx EXCEPT ![c] = <<"handshake">>] BY <1>2 DEF Connect
  <2> QED BY <1>1, <2>1, <2>2, SocketKeepsWork
<1>3. CASE ClientSend(c)
  <2>1. PICK f : rx' = [rx EXCEPT ![c] = Append(rx[c], f)] BY <1>3 DEF ClientSend
  <2>2. IsSeq(Append(rx[c], f)) BY IsSeqAppend DEF WorkInv, SeqShape
  <2> QED BY <1>1, <2>1, <2>2, SocketKeepsWork
<1>4. CASE rx' = rx BY <1>1, <1>4, SocketKeepsWork
<1>5. ClientRead(c) \/ ClientFin(c) \/ ClientReset(c) => rx' = rx
  BY DEF ClientRead, ClientFin, ClientReset, peer_vars
<1> QED BY <1>2, <1>3, <1>4, <1>5 DEF Client

LEMMA InitWork == Init => WorkInv
<1> SUFFICES ASSUME Init PROVE WorkInv OBVIOUS
<1>1. queue = <<>> /\ rx = [c \in Conns |-> <<>>] BY DEF Init
<1>2. SeqShape BY <1>1, EmptyIsSeq DEF SeqShape
<1>3. \A w \in Workers : thr[w].pc = "take" BY DEF Init, Threads, Thread
<1>4. NoSleepWhileWork BY <1>3 DEF NoSleepWhileWork
<1> QED BY <1>2, <1>4 DEF WorkInv

LEMMA StepWork == ThrShape /\ WorkInv /\ [Next]_vars => WorkInv'
<1> SUFFICES ASSUME ThrShape, WorkInv, [Next]_vars PROVE WorkInv' OBVIOUS
<1>1. CASE LoopStep BY <1>1, LoopKeepsWork
<1>2. ASSUME NEW t \in Threads, ThreadStep(t) \/ Push(t)
      PROVE  WorkInv'
  BY <1>2, ThreadKeepsWork
<1>3. ASSUME NEW c \in Conns, Client(c)
      PROVE  WorkInv'
  BY <1>3, ClientKeepsWork
<1>4. CASE UNCHANGED vars BY <1>4, SocketKeepsWork DEF vars, peer_vars
<1> QED BY <1>1, <1>2, <1>3, <1>4 DEF Next

\* No worker sleeps in ThreadPool::take while more frames are queued than workers
\* about to take one, however many workers and frames there are: run notifies once
\* for each frame, and take tests the queue before it waits.
THEOREM NoWorkerSleepsWhileWork == Spec => []NoSleepWhileWork
<1>1. Init => (WakeInv /\ ThrShape) /\ WorkInv BY InitWake, InitWork
<1>2. (WakeInv /\ ThrShape) /\ WorkInv /\ [Next]_vars => (WakeInv /\ ThrShape)' /\ WorkInv'
  BY StepWake, StepWork
<1>3. WorkInv => NoSleepWhileWork BY DEF WorkInv
<1> QED BY <1>1, <1>2, <1>3, PTL DEF Spec
=============================================================================
