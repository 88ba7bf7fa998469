------------------------------ MODULE Reactor ------------------------------
(***************************************************************************)
(* The threads of comet under its connections: the event loop (muduo       *)
(* EventLoop, TcpServer, TcpConnection), the pool that runs web socket     *)
(* frames (muduo ThreadPool) and the gRPC threads that push.  There is one *)
(* loop, as chat-room.conf configures it (num_event_loops = 0).            *)
(*                                                                         *)
(* Other threads reach a connection in two ways that are not synchronised  *)
(* with the loop.  send() and shutdown() test state_, and shutdown()       *)
(* stores it, without a lock; the work is handed to the loop by            *)
(* queueInLoop, which pushes a functor and then writes to wakeupFd_.  Each *)
(* of these is a step.                                                     *)
(*                                                                         *)
(* A byte is <<thread, k>>, the k-th byte that thread sent on the          *)
(* connection; a message is MsgLen bytes.  Connections are not destroyed:  *)
(* the functors of send and shutdown hold a raw pointer, and the model     *)
(* takes it to be valid.                                                   *)
(***************************************************************************)
EXTENDS Naturals, Sequences, FiniteSets, SequencesExt

CONSTANTS
    Conns,
    Workers,        \* threads of CWebSocketConn::s_thread_pool
    Pushers,        \* gRPC threads
    LoopThread,
    NoConn,
    NoThread,
    MsgLen,         \* bytes in a message
    SndBuf,         \* room in a socket's send buffer
    PollTimeout,    \* whether epoll_wait also returns when nothing happened
    Frames,         \* what a client may send: "reply" is answered, "close" ends
    MaxFrames,      \* bound: frames a client sends
    MaxPushes       \* bound: pushes by one gRPC thread

Threads == Workers \cup Pushers
Senders == Threads \cup {LoopThread}

ASSUME ReactorAssumption ==
    /\ NoConn \notin Conns
    /\ Conns \cap {"wakeupFd", "acceptor"} = {}
    /\ IsFiniteSet(Workers)
    /\ Workers \cap Pushers = {}
    /\ LoopThread \notin Threads
    /\ NoThread \notin Senders
    /\ MsgLen \in Nat \ {0}
    /\ SndBuf \in Nat \ {0}
    /\ PollTimeout \in BOOLEAN
    /\ Frames \subseteq {"reply", "close"}
    /\ MaxFrames \in Nat
    /\ MaxPushes \in Nat

VARIABLES
    (* EventLoop *)
    loop_pc,        \* "handle" (in "hello" it waits for logic) or "functors";
                    \* it polls when these are done
    active,         \* activeChannels_ not yet handled, with their revents_
    wakeupFd,       \* whether the eventfd is readable
    pending,        \* pendingFunctors_
    functors,       \* what doPendingFunctors took and has not run
    (* TcpServer and TcpConnection *)
    connections,    \* TcpServer::connections_
    state,          \* TcpConnection::state_
    events,         \* Channel::events_
    polled,         \* channels registered with epoll
    out,            \* outputBuffer_
    down,           \* connections whose down callback was made
    aborted,        \* an assert failed
    (* Threads *)
    queue,          \* ThreadPool::queue_
    thr,            \* what each pool or gRPC thread does
    (* Sockets and peers *)
    backlog,        \* connections to accept
    rx,             \* frames received, not read
    frames,         \* what the client sent
    greeted,        \* CWebSocketConn::handshake_completed
    sent,           \* bytes written to the socket
    drained,        \* how many of them the peer has received
    peer_fin,       \* the peer closed its direction
    reset,          \* the connection was reset
    fin,            \* shutdownWrite was called
    (* History *)
    accepted,       \* messages send() took, per thread and connection
    closer,         \* the thread whose shutdown() stored kDisconnecting
    stale           \* connections where it overwrote kDisconnected

loop_vars == <<loop_pc, active, wakeupFd, pending, functors>>
conn_vars == <<connections, state, events, polled, out, down>>
peer_vars == <<backlog, rx, frames, drained, peer_fin>>
sock_vars == <<greeted, sent, reset, fin>>
ghosts == <<accepted, closer, stale>>
vars == <<loop_vars, conn_vars, aborted, queue, thr, peer_vars, sock_vars, ghosts>>

-----------------------------------------------------------------------------
(* Types *)

\* The functors that are queued; num is the message of a sendInLoop.
Functor(f, c, t, n) == [fn |-> f, conn |-> c, from |-> t, num |-> n]
SendFunctor(c, t, n) == Functor("sendInLoop", c, t, n)
ShutdownFunctor(c, t) == Functor("shutdownInLoop", c, t, 0)
WriteComplete(c) == Functor("writeComplete", c, LoopThread, 0)
ConnectDestroyed(c) == Functor("connectDestroyed", c, LoopThread, 0)
Functors == [fn : {"sendInLoop", "shutdownInLoop", "writeComplete", "connectDestroyed"},
             conn : Conns, from : Senders, num : Nat]

\* A thread, the connection it works on, whether it runs Disconnect, and the
\* functor it is about to push.
Thread(step, c, closing, f) == [pc |-> step, conn |-> c, closing |-> closing, fn |-> f]
Task(f, c) == [frame |-> f, conn |-> c]

Fds == Conns \cup {"wakeupFd", "acceptor"}
Active(fd, ev) == [fd |-> fd, revents |-> ev]
Events == {"in", "out", "hup"}

Byte == Senders \X (Nat \ {0})

\* The types of the state.
TypeOK ==
    /\ loop_pc \in {"handle", "hello", "functors"}
    /\ active \in Seq([fd : Fds, revents : SUBSET Events])
    /\ wakeupFd \in BOOLEAN
    /\ pending \in Seq(Functors)
    /\ functors \in Seq(Functors)
    /\ connections \in SUBSET Conns
    /\ state \in [Conns -> {"kConnecting", "kConnected", "kDisconnecting", "kDisconnected"}]
    /\ events \in [Conns -> SUBSET {"in", "out"}]
    /\ polled \in SUBSET Conns
    /\ out \in [Conns -> Seq(Byte)]
    /\ down \in SUBSET Conns
    /\ aborted \in BOOLEAN
    /\ queue \in Seq([frame : Frames, conn : Conns])
    /\ thr \in [Threads -> [pc : {"take", "wait", "idle", "send", "queue", "wakeup", "shutdown", "store"},
                            conn : Conns \cup {NoConn}, closing : BOOLEAN,
                            fn : {"none", "sendInLoop", "shutdownInLoop"}]]
    /\ backlog \in SUBSET Conns
    /\ rx \in [Conns -> Seq(Frames \cup {"handshake"})]
    /\ frames \in [Conns -> Seq(Frames \cup {"handshake"})]
    /\ greeted \in SUBSET Conns
    /\ sent \in [Conns -> Seq(Byte)]
    /\ drained \in [Conns -> Nat]
    /\ peer_fin \in SUBSET Conns
    /\ reset \in SUBSET Conns
    /\ fin \in SUBSET Conns
    /\ accepted \in [Senders -> [Conns -> Nat]]
    /\ closer \in [Conns -> Threads \cup {NoThread}]
    /\ stale \in SUBSET Conns

Init ==
    /\ loop_pc = "functors"
    /\ active = <<>>
    /\ wakeupFd = FALSE
    /\ pending = <<>>
    /\ functors = <<>>
    /\ connections = {}
    /\ state = [c \in Conns |-> "kConnecting"]
    /\ events = [c \in Conns |-> {}]
    /\ polled = {}
    /\ out = [c \in Conns |-> <<>>]
    /\ down = {}
    /\ aborted = FALSE
    /\ queue = <<>>
    /\ thr = [t \in Threads |-> Thread(IF t \in Workers THEN "take" ELSE "idle", NoConn, FALSE, "none")]
    /\ backlog = {}
    /\ rx = [c \in Conns |-> <<>>]
    /\ frames = [c \in Conns |-> <<>>]
    /\ greeted = {}
    /\ sent = [c \in Conns |-> <<>>]
    /\ drained = [c \in Conns |-> 0]
    /\ peer_fin = {}
    /\ reset = {}
    /\ fin = {}
    /\ accepted = [t \in Senders |-> [c \in Conns |-> 0]]
    /\ closer = [c \in Conns |-> NoThread]
    /\ stale = {}

-----------------------------------------------------------------------------
(* Seeded faults: each is a wrong version of the definition it is named after.   *)
(* No specification uses them; putting one in its place must break a property.  *)

QueueInLoop_NoWakeup(fs) ==
    /\ pending' = pending \o fs
    /\ UNCHANGED wakeupFd

ShutdownInLoop_AtOnce(c, ev) == fin' = fin \cup {c}

-----------------------------------------------------------------------------
(* Helpers *)

Bytes(t, n) == [i \in 1..MsgLen |-> <<t, MsgLen * (n - 1) + i>>]
Writing(c) == "out" \in events[c]                           \* Channel::isWriting
Room(c) == SndBuf - (Len(sent[c]) - drained[c])
Least(m, n) == IF m <= n THEN m ELSE n

\* sockets::write on a socket that was reset or shut down fails with EPIPE or
\* ECONNRESET; else it takes what there is room for.
Broken(c) == c \in fin \cup reset
Write(c, data) == IF Broken(c) THEN 0 ELSE Least(Len(data), Room(c))

\* Channel::update and EPollPoller::updateChannel.
Update(c, ev) ==
    /\ events' = [events EXCEPT ![c] = ev]
    /\ polled' = IF ev = {} THEN polled \ {c} ELSE polled \cup {c}

\* queueInLoop called by the loop thread: the wake-up is needed only when the
\* functors taken before are running.
QueueInLoop(fs) ==
    /\ pending' = pending \o fs
    /\ wakeupFd' = (wakeupFd \/ (loop_pc = "functors" /\ fs # <<>>))

\* shutdownInLoop; ev is what the channel waits for when it is called.
ShutdownInLoop(c, ev) == fin' = IF "out" \in ev THEN fin ELSE fin \cup {c}

Goto(t, step) == thr' = [thr EXCEPT ![t].pc = step]
Done(t) == thr' = [thr EXCEPT ![t] =
                      Thread(IF t \in Workers THEN "take" ELSE "idle", NoConn, FALSE, "none")]

Rank == [hup |-> 1, in |-> 2, out |-> 3]

\* Channel::handleEventWithGuard calls the close, read and write callbacks in this
\* order (the error callback only logs); ev is the event handled now.
Event(fd, ev) ==
    /\ active # <<>>
    /\ Head(active).fd = fd
    /\ ev \in Head(active).revents
    /\ \A e \in Head(active).revents : Rank[ev] <= Rank[e]

Handled(ev) ==
    /\ active' = IF Head(active).revents = {ev} THEN Tail(active)
                 ELSE [active EXCEPT ![1].revents = @ \ {ev}]
    /\ UNCHANGED functors

Handling(fd, ev) ==
    /\ loop_pc = "handle" /\ Event(fd, ev)
    /\ Handled(ev)
    /\ UNCHANGED loop_pc

-----------------------------------------------------------------------------
(* More seeded faults *)

SendInLoop_Ahead(c, t, n) ==
    LET nwrote == Write(c, Bytes(t, n))
        remaining == SubSeq(Bytes(t, n), nwrote + 1, MsgLen)
        buffered == IF Broken(c) THEN <<>> ELSE remaining
    IN  /\ sent' = [sent EXCEPT ![c] = @ \o SubSeq(Bytes(t, n), 1, nwrote)]
        /\ out' = [out EXCEPT ![c] = @ \o buffered]
        /\ IF buffered = <<>> THEN UNCHANGED <<events, polled>>
                              ELSE Update(c, events[c] \cup {"out"})
        /\ QueueInLoop(IF remaining = <<>> THEN <<WriteComplete(c)>> ELSE <<>>)

HandleClose_StillReading(c) ==
    IF state[c] \in {"kConnected", "kDisconnecting"} /\ c \in connections
    THEN /\ state' = [state EXCEPT ![c] = "kDisconnected"]
         /\ down' = down \cup {c}
         /\ connections' = connections \ {c}
         /\ QueueInLoop(<<ConnectDestroyed(c)>>)
         /\ UNCHANGED <<events, polled, aborted>>
    ELSE /\ aborted' = TRUE
         /\ UNCHANGED <<state, events, polled, down, connections, pending, wakeupFd>>

RunTasks_NotifyOnce(c, fs) ==
    /\ queue' = queue \o [i \in 1..Len(fs) |-> Task(fs[i], c)]
    /\ LET waiting == {w \in Workers : thr[w].pc = "wait"} IN
         \E woken \in SUBSET waiting :
           /\ Cardinality(woken) = Least(1, Cardinality(waiting))
           /\ thr' = [t \in Threads |-> IF t \in woken THEN [thr[t] EXCEPT !.pc = "take"] ELSE thr[t]]

Wakeup_IfPolling(t) ==
    /\ thr[t].pc = "wakeup"
    /\ wakeupFd' = (wakeupFd \/ (loop_pc = "functors" /\ functors = <<>>))
    /\ IF thr[t].closing /\ thr[t].fn = "sendInLoop" THEN Goto(t, "shutdown") ELSE Done(t)
    /\ UNCHANGED <<loop_pc, active, pending, functors, conn_vars, aborted, queue, peer_vars, sock_vars, ghosts>>

HandleWrite_NoShutdown(c) ==
    /\ Handling(c, "out")
    /\ LET n == IF Writing(c) THEN Write(c, out[c]) ELSE 0
           emptied == n > 0 /\ n = Len(out[c])
       IN  /\ sent' = [sent EXCEPT ![c] = @ \o SubSeq(out[c], 1, n)]
           /\ out' = [out EXCEPT ![c] = SubSeq(@, n + 1, Len(@))]
           /\ IF emptied THEN Update(c, events[c] \ {"out"}) ELSE UNCHANGED <<events, polled>>
           /\ QueueInLoop(IF emptied THEN <<WriteComplete(c)>> ELSE <<>>)
    /\ UNCHANGED <<connections, state, down, aborted, queue, thr, peer_vars, greeted, reset, fin, ghosts>>

-----------------------------------------------------------------------------
(* What sendInLoop and handleClose do *)

\* sendInLoop of a connection that is not kDisconnected: write at once if nothing
\* is buffered, buffer what is left and ask for POLLOUT.
SendInLoop(c, t, n) ==
    LET direct == ~Writing(c) /\ out[c] = <<>>
        nwrote == IF direct THEN Write(c, Bytes(t, n)) ELSE 0
        faultError == direct /\ Broken(c)
        remaining == SubSeq(Bytes(t, n), nwrote + 1, MsgLen)
        buffered == IF faultError THEN <<>> ELSE remaining
    IN  /\ sent' = [sent EXCEPT ![c] = @ \o SubSeq(Bytes(t, n), 1, nwrote)]
        /\ out' = [out EXCEPT ![c] = @ \o buffered]
        /\ IF buffered = <<>> THEN UNCHANGED <<events, polled>>
                              ELSE Update(c, events[c] \cup {"out"})
        /\ QueueInLoop(IF remaining = <<>> THEN <<WriteComplete(c)>> ELSE <<>>)

\* handleClose with the callbacks it makes: HttpServer::OnConnection removes the
\* handler, TcpServer::removeConnectionInLoop the connection.
HandleClose(c) ==
    IF state[c] \in {"kConnected", "kDisconnecting"} /\ c \in connections
    THEN /\ state' = [state EXCEPT ![c] = "kDisconnected"]
         /\ Update(c, {})
         /\ down' = down \cup {c}
         /\ connections' = connections \ {c}
         /\ QueueInLoop(<<ConnectDestroyed(c)>>)
         /\ UNCHANGED aborted
    ELSE /\ aborted' = TRUE
         /\ UNCHANGED <<state, events, polled, down, connections, pending, wakeupFd>>

-----------------------------------------------------------------------------
(* Pool and gRPC threads *)

\* ThreadPool::take: the oldest task, or sleep on notEmpty_.
Take(w) ==
    /\ w \in Workers /\ thr[w].pc = "take" /\ queue # <<>>
    /\ queue' = Tail(queue)
    /\ thr' = [thr EXCEPT ![w] = Thread("send", Head(queue).conn, Head(queue).frame = "close", "none")]
    /\ UNCHANGED <<loop_vars, conn_vars, aborted, peer_vars, sock_vars, ghosts>>

TakeWait(w) ==
    /\ w \in Workers /\ thr[w].pc = "take" /\ queue = <<>>
    /\ Goto(w, "wait")
    /\ UNCHANGED <<loop_vars, conn_vars, aborted, queue, peer_vars, sock_vars, ghosts>>

\* A gRPC thread found the connection in s_user_ws_conn_map.
Push(p) ==
    /\ p \in Pushers /\ thr[p].pc = "idle"
    /\ \E c \in greeted :
         /\ accepted[p][c] < MaxPushes                                  \* bound
         /\ thr' = [thr EXCEPT ![p] = Thread("send", c, FALSE, "none")]
    /\ UNCHANGED <<loop_vars, conn_vars, aborted, queue, peer_vars, sock_vars, ghosts>>

\* send() off the loop thread: test state_, then queue sendInLoop.
Send(t) ==
    /\ thr[t].pc = "send"
    /\ LET c == thr[t].conn IN
         \/ /\ state[c] = "kConnected"
            /\ accepted' = [accepted EXCEPT ![t][c] = @ + 1]
            /\ thr' = [thr EXCEPT ![t].pc = "queue", ![t].fn = "sendInLoop"]
         \/ /\ state[c] # "kConnected"
            /\ IF thr[t].closing THEN Goto(t, "shutdown") ELSE Done(t)
            /\ UNCHANGED accepted
    /\ UNCHANGED <<loop_vars, conn_vars, aborted, queue, peer_vars, sock_vars, closer, stale>>

\* queueInLoop off the loop thread: push under the mutex, then wake the loop.
QueueFunctor(t) ==
    /\ thr[t].pc = "queue"
    /\ LET c == thr[t].conn IN
         pending' = Append(pending, IF thr[t].fn = "sendInLoop" THEN SendFunctor(c, t, accepted[t][c])
                                                                ELSE ShutdownFunctor(c, t))
    /\ Goto(t, "wakeup")
    /\ UNCHANGED <<loop_pc, active, wakeupFd, functors, conn_vars, aborted, queue, peer_vars, sock_vars, ghosts>>

Wakeup(t) ==
    /\ thr[t].pc = "wakeup"
    /\ wakeupFd' = TRUE
    /\ IF thr[t].closing /\ thr[t].fn = "sendInLoop" THEN Goto(t, "shutdown") ELSE Done(t)
    /\ UNCHANGED <<loop_pc, active, pending, functors, conn_vars, aborted, queue, peer_vars, sock_vars, ghosts>>

\* shutdown(): test state_, store it, queue shutdownInLoop.
Shutdown(t) ==
    /\ thr[t].pc = "shutdown"
    /\ IF state[thr[t].conn] = "kConnected" THEN Goto(t, "store") ELSE Done(t)
    /\ UNCHANGED <<loop_vars, conn_vars, aborted, queue, peer_vars, sock_vars, ghosts>>

ShutdownStore(t) ==
    /\ thr[t].pc = "store"
    /\ LET c == thr[t].conn IN
         /\ state' = [state EXCEPT ![c] = "kDisconnecting"]
         /\ stale' = IF state[c] = "kDisconnected" THEN stale \cup {c} ELSE stale
         /\ closer' = [closer EXCEPT ![c] = t]
    /\ thr' = [thr EXCEPT ![t].pc = "queue", ![t].fn = "shutdownInLoop"]
    /\ UNCHANGED <<loop_vars, connections, events, polled, out, down, aborted, queue,
                   peer_vars, sock_vars, accepted>>

-----------------------------------------------------------------------------
(* The event loop *)

\* Level-triggered readiness.  POLLHUP matters only without POLLIN.
REvents(c) ==
    LET readable == "in" \in events[c] /\ (rx[c] # <<>> \/ c \in peer_fin \cup reset)
        writable == "out" \in events[c] /\ (Room(c) > 0 \/ Broken(c))
        hup == c \in reset \/ c \in peer_fin \cap fin
    IN  {e \in Events : \/ e = "in" /\ readable
                        \/ e = "out" /\ writable
                        \/ e = "hup" /\ hup /\ ~readable}

Ready ==
    {Active(c, REvents(c)) : c \in {d \in polled : REvents(d) # {}}}
        \cup {Active(fd, {"in"}) : fd \in {f \in {"wakeupFd", "acceptor"} :
                 IF f = "wakeupFd" THEN wakeupFd ELSE backlog # {}}}

Poll ==
    /\ loop_pc = "functors" /\ functors = <<>>
    /\ Ready # {} \/ PollTimeout
    /\ active' \in SetToSeqs(Ready)
    /\ loop_pc' = "handle"
    /\ UNCHANGED <<wakeupFd, pending, functors, conn_vars, aborted, queue, thr, peer_vars, sock_vars, ghosts>>

HandleWakeup ==
    /\ Handling("wakeupFd", "in")
    /\ wakeupFd' = FALSE
    /\ UNCHANGED <<pending, conn_vars, aborted, queue, thr, peer_vars, sock_vars, ghosts>>

\* Acceptor::handleRead, TcpServer::newConnection, connectEstablished: with one
\* loop all of it runs here.
NewConnection ==
    /\ Handling("acceptor", "in")
    /\ \E c \in backlog :
         /\ backlog' = backlog \ {c}
         /\ connections' = connections \cup {c}
         /\ state' = [state EXCEPT ![c] = "kConnected"]
         /\ Update(c, {"in"})
    /\ UNCHANGED <<wakeupFd, pending, out, down, aborted, queue, thr, rx, frames, drained, peer_fin,
                   sock_vars, ghosts>>

HandleHup(c) ==
    /\ Handling(c, "hup")
    /\ HandleClose(c)
    /\ UNCHANGED <<out, queue, thr, peer_vars, sock_vars, ghosts>>

\* ThreadPool::run for every frame: push it and notify one worker.
RunTasks(c, fs) ==
    /\ queue' = queue \o [i \in 1..Len(fs) |-> Task(fs[i], c)]
    /\ LET waiting == {w \in Workers : thr[w].pc = "wait"} IN
         \E woken \in SUBSET waiting :
           /\ Cardinality(woken) = Least(Len(fs), Cardinality(waiting))
           /\ thr' = [t \in Threads |-> IF t \in woken THEN [thr[t] EXCEPT !.pc = "take"] ELSE thr[t]]

\* send() on the loop thread.
LoopSend(c) ==
    IF state[c] = "kConnected"
    THEN /\ accepted' = [accepted EXCEPT ![LoopThread][c] = @ + 1]
         /\ SendInLoop(c, LoopThread, accepted[LoopThread][c] + 1)
    ELSE UNCHANGED <<accepted, sent, out, events, polled, pending, wakeupFd>>

\* handleRead of the handshake: the message callback answers it, then asks logic
\* for the hello message and sends that, all on the loop thread.
HandleHandshake(c) ==
    /\ loop_pc = "handle" /\ Event(c, "in")
    /\ rx[c] # <<>> /\ c \notin greeted
    /\ loop_pc' = "hello"
    /\ rx' = [rx EXCEPT ![c] = <<>>]
    /\ greeted' = greeted \cup {c}
    /\ LoopSend(c)
    /\ UNCHANGED <<active, functors, connections, state, down, aborted, queue, thr,
                   backlog, frames, drained, peer_fin, reset, fin, closer, stale>>

SendHelloMessage(c) ==
    /\ loop_pc = "hello" /\ Event(c, "in")
    /\ loop_pc' = "handle"
    /\ Handled("in")
    /\ \/ LoopSend(c)
       \/ UNCHANGED <<accepted, sent, out, events, polled, pending, wakeupFd>>    \* logic failed
    /\ UNCHANGED <<connections, state, down, aborted, queue, thr, peer_vars, greeted, reset, fin, closer, stale>>

\* handleRead later: frames go to the pool, end of file closes.
HandleRead(c) ==
    /\ Handling(c, "in")
    /\ \/ /\ rx[c] # <<>> /\ c \in greeted
          /\ rx' = [rx EXCEPT ![c] = <<>>]
          /\ RunTasks(c, rx[c])
          /\ UNCHANGED <<wakeupFd, pending, conn_vars, aborted>>
       \/ /\ rx[c] = <<>>
          /\ HandleClose(c)
          /\ UNCHANGED <<out, queue, thr, rx>>
       \/ /\ rx[c] = <<>> /\ c \in reset         \* ECONNRESET: handleError logs it
          /\ UNCHANGED <<wakeupFd, pending, conn_vars, aborted, queue, thr, rx>>
    /\ UNCHANGED <<backlog, frames, drained, peer_fin, sock_vars, ghosts>>

\* handleWrite: empty the buffer as far as the socket takes it; when it is empty,
\* stop waiting for POLLOUT and end a shutdown that waited for it.
HandleWrite(c) ==
    /\ Handling(c, "out")
    /\ LET n == IF Writing(c) THEN Write(c, out[c]) ELSE 0
           emptied == n > 0 /\ n = Len(out[c])
       IN  /\ sent' = [sent EXCEPT ![c] = @ \o SubSeq(out[c], 1, n)]
           /\ out' = [out EXCEPT ![c] = SubSeq(@, n + 1, Len(@))]
           /\ IF emptied THEN Update(c, events[c] \ {"out"}) ELSE UNCHANGED <<events, polled>>
           /\ QueueInLoop(IF emptied THEN <<WriteComplete(c)>> ELSE <<>>)
           /\ IF emptied /\ state[c] = "kDisconnecting" THEN ShutdownInLoop(c, {}) ELSE UNCHANGED fin
    /\ UNCHANGED <<connections, state, down, aborted, queue, thr, peer_vars, greeted, reset, ghosts>>

\* doPendingFunctors takes all functors at once; those queued from now on are
\* for the next round.
TakeFunctors ==
    /\ loop_pc = "handle" /\ active = <<>>
    /\ functors' = pending
    /\ pending' = <<>>
    /\ loop_pc' = "functors"
    /\ UNCHANGED <<active, wakeupFd, conn_vars, aborted, queue, thr, peer_vars, sock_vars, ghosts>>

Running(fn) ==
    /\ loop_pc = "functors" /\ functors # <<>>
    /\ Head(functors).fn = fn
    /\ functors' = Tail(functors)
    /\ UNCHANGED <<loop_pc, active, connections, state, down, queue, thr, peer_vars, greeted, reset, ghosts>>

RunSend ==
    /\ Running("sendInLoop")
    /\ LET f == Head(functors) IN
         IF state[f.conn] = "kDisconnected"
         THEN UNCHANGED <<sent, out, events, polled, pending, wakeupFd>>
         ELSE SendInLoop(f.conn, f.from, f.num)
    /\ UNCHANGED <<aborted, fin>>

RunShutdown ==
    /\ Running("shutdownInLoop")
    /\ LET c == Head(functors).conn IN ShutdownInLoop(c, events[c])
    /\ UNCHANGED <<pending, wakeupFd, events, polled, out, aborted, sent>>

\* HttpServer::OnWriteComplete only logs.
RunWriteComplete ==
    /\ Running("writeComplete")
    /\ UNCHANGED <<pending, wakeupFd, events, polled, out, aborted, sent, fin>>

\* connectDestroyed after handleClose: Channel::remove asserts that the channel
\* waits for nothing.  (The branch for kConnected is for ~TcpServer.)
RunConnectDestroyed ==
    /\ Running("connectDestroyed")
    /\ LET c == Head(functors).conn IN
         IF events[c] = {} THEN polled' = polled \ {c} /\ UNCHANGED aborted
                           ELSE aborted' = TRUE /\ UNCHANGED polled
    /\ UNCHANGED <<pending, wakeupFd, events, out, sent, fin>>

-----------------------------------------------------------------------------
(* Clients *)

Connect(c) ==
    /\ frames[c] = <<>>
    /\ frames' = [frames EXCEPT ![c] = <<"handshake">>]
    /\ rx' = [rx EXCEPT ![c] = <<"handshake">>]
    /\ backlog' = backlog \cup {c}
    /\ UNCHANGED <<loop_vars, conn_vars, aborted, queue, thr, drained, peer_fin, sock_vars, ghosts>>

\* A browser sends frames once the handshake was answered, none after a close frame.
ClientSend(c) ==
    /\ drained[c] > 0 /\ c \notin peer_fin \cup reset
    /\ 0 < Len(frames[c]) /\ Len(frames[c]) <= MaxFrames                   \* bound
    /\ Last(frames[c]) # "close"
    /\ \E f \in Frames :
         /\ rx' = [rx EXCEPT ![c] = Append(@, f)]
         /\ frames' = [frames EXCEPT ![c] = Append(@, f)]
    /\ UNCHANGED <<loop_vars, conn_vars, aborted, queue, thr, backlog, drained, peer_fin, sock_vars, ghosts>>

ClientRead(c) ==
    /\ drained[c] < Len(sent[c]) /\ c \notin reset
    /\ drained' = [drained EXCEPT ![c] = Len(sent[c])]
    /\ UNCHANGED <<loop_vars, conn_vars, aborted, queue, thr, backlog, rx, frames, peer_fin, sock_vars, ghosts>>

ClientFin(c) ==
    /\ frames[c] # <<>> /\ c \notin peer_fin \cup reset
    /\ peer_fin' = peer_fin \cup {c}
    /\ UNCHANGED <<loop_vars, conn_vars, aborted, queue, thr, backlog, rx, frames, drained, sock_vars, ghosts>>

ClientReset(c) ==
    /\ frames[c] # <<>> /\ c \notin reset
    /\ reset' = reset \cup {c}
    /\ UNCHANGED <<loop_vars, conn_vars, aborted, queue, thr, peer_vars, greeted, sent, fin, ghosts>>

-----------------------------------------------------------------------------
(* Specification *)

LoopStep ==
    \/ Poll \/ HandleWakeup \/ NewConnection \/ TakeFunctors
    \/ RunSend \/ RunShutdown \/ RunWriteComplete \/ RunConnectDestroyed
    \/ \E c \in Conns : HandleHup(c) \/ HandleHandshake(c) \/ SendHelloMessage(c) \/ HandleRead(c) \/ HandleWrite(c)

ThreadStep(t) ==
    \/ Take(t) \/ TakeWait(t) \/ Send(t) \/ QueueFunctor(t) \/ Wakeup(t)
    \/ Shutdown(t) \/ ShutdownStore(t)

Client(c) == Connect(c) \/ ClientSend(c) \/ ClientRead(c) \/ ClientFin(c) \/ ClientReset(c)

\* A failed assert ends the process.
Next ==
    /\ ~aborted
    /\ \/ LoopStep
       \/ \E t \in Threads : ThreadStep(t) \/ Push(t)
       \/ \E c \in Conns : Client(c)

Spec == Init /\ [][Next]_vars

\* The loop and the threads run; a client that stays connected reads.
FairSpec ==
    /\ Spec
    /\ WF_vars(~aborted /\ LoopStep)
    /\ \A t \in Threads : WF_vars(~aborted /\ ThreadStep(t))
    /\ \A c \in Conns : WF_vars(~aborted /\ ClientRead(c))

-----------------------------------------------------------------------------
(* Properties *)

\* What the peer of c gets, with what is still buffered for it.
Stream(c) == sent[c] \o out[c]

\* The byte stream of a connection is whole: every byte follows the one its thread
\* sent before, within a message at once, and none is there twice.  Messages of
\* several threads are never mixed, written ahead of buffered ones or torn by a
\* partial write (sendInLoop, handleWrite).  A connection whose kDisconnected was
\* overwritten by shutdown() is excepted.
StreamIntact ==
    \A c \in Conns \ stale :
        \A i \in 1..Len(Stream(c)) :
            LET t == Stream(c)[i][1]
                k == Stream(c)[i][2]
            IN  /\ k > 1 => \E j \in 1..(i - 1) :
                              /\ Stream(c)[j] = <<t, k - 1>>
                              /\ (k - 1) % MsgLen = 0 \/ j = i - 1
                /\ \A j \in 1..(i - 1) : Stream(c)[j] # Stream(c)[i]

\* Shutting an open socket down never cuts off bytes sendInLoop has buffered:
\* shutdownInLoop leaves it to handleWrite while the channel is writing.
FinAfterBuffer == \A c \in fin \ (reset \cup down) : out[c] = <<>>

\* The loop never goes to sleep on a functor: if some are queued when it polls,
\* wakeupFd_ is readable or the thread that queued them is about to write to it.
NoLostWakeup ==
    loop_pc = "functors" /\ pending # <<>> => wakeupFd \/ \E t \in Threads : thr[t].pc = "wakeup"

\* No worker sleeps in ThreadPool::take while there are more frames queued than
\* workers about to take one.
NoSleepWhileWork ==
    (\E w \in Workers : thr[w].pc = "wait")
        => Len(queue) <= Cardinality({w \in Workers : thr[w].pc = "take"})

\* The asserts of handleClose, removeConnectionInLoop and Channel::remove fail in
\* one case only: shutdown() tested state_ before and stored it after the loop
\* closed the connection.
AssertsHoldUnlessOverwritten == aborted => stale # {}

Ended(c) == c \in fin \cup reset \cup down

\* Messages send() took that the client has not received.
Outstanding(c) ==
    /\ ~Ended(c) /\ ~aborted
    /\ \E t \in Senders : accepted[t][c] > 0 /\ <<t, MsgLen * accepted[t][c]>> \notin {sent[c][i] : i \in 1..drained[c]}

\* What send() took reaches the client, unless the connection ends first: no
\* functor stays queued and no byte buffered.  (The instance sends finitely often.)
AcceptedIsDelivered == \A c \in Conns : Outstanding(c) ~> ~Outstanding(c)

\* shutdown() ends the sending side, however much was buffered.
ShutdownCompletes ==
    \A c \in Conns : closer[c] # NoThread ~> Ended(c) \/ aborted

\* Disconnect sends its close frame before it shuts the connection down: when the
\* sending side is closed, all that the closing thread sent was written.
SentBeforeFin ==
    \A c \in Conns : c \in fin /\ closer[c] # NoThread /\ c \notin reset \cup stale =>
        Len(SelectSeq(sent[c], LAMBDA b : b[1] = closer[c])) = MsgLen * accepted[closer[c]][c]
=============================================================================
