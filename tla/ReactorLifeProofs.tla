--------------------------- MODULE ReactorLifeProofs ---------------------------
(* Theorems about the connections of Reactor from accept to connectDestroyed: *)
(* state_, connections_, the channel and the output buffer agree, whatever    *)
(* the other threads do; and the byte stream of a connection is whole.  For   *)
(* any number of connections, threads, frames and pushes, and any size of     *)
(* messages and socket buffers.                                               *)
EXTENDS ReactorProofs

-----------------------------------------------------------------------------
(* The life of a connection *)

\* A connection is born when the loop has accepted it.
Born(c) == state[c] # "kConnecting"

\* Functors and tasks are about born connections; a sendInLoop has a number, a
\* connectDestroyed comes after the down callback.
SoundFunctors ==
    {f \in Functors : /\ Born(f.conn)
                      /\ f.fn = "sendInLoop" => f.num # 0
                      /\ f.fn = "connectDestroyed" => f.conn \in down}
SoundTasks == {k \in [frame : Frames, conn : Conns] : Born(k.conn)}

\* A thread at work has a born connection, and a number for what it is to queue.
AtWork ==
    \A t \in Threads : thr[t].pc \notin {"take", "wait", "idle"} =>
        /\ thr[t].conn \in Conns /\ Born(thr[t].conn)
        /\ thr[t].pc = "queue" /\ thr[t].fn = "sendInLoop" => accepted[t][thr[t].conn] # 0

\* Before its birth nothing but the backlog knows a connection.
Unborn ==
    \A c \in Conns :
        /\ frames[c] = <<>> \/ c \in backlog => ~Born(c)
        /\ c \in backlog => frames[c] # <<>>
        /\ c \in greeted => Born(c) /\ rx[c] \in Seq(Frames)
        /\ ~Born(c) => c \notin down /\ out[c] = <<>>

\* Unless shutdown() stored kDisconnecting too late, state_, connections_, the
\* channel and the down callback agree.
Agreement ==
    /\ stale \subseteq down
    /\ \A c \in Conns \ stale :
        /\ ~Born(c) => c \notin connections
        /\ state[c] \in {"kConnected", "kDisconnecting"} => c \in connections /\ c \notin down
        /\ state[c] = "kDisconnected" => c \in down \ connections
        /\ c \notin connections => c \notin polled /\ events[c] = {}

\* The socket's send buffer is not overfilled.
SocketRoom ==
    \A c \in Conns : drained[c] <= Len(sent[c]) /\ Len(sent[c]) <= drained[c] + SndBuf

\* The loop has one entry per channel to handle.  An entry that may close a
\* connection is about one that is open.
Activity ==
    /\ \A i, j \in DOMAIN active : i # j => active[i].fd # active[j].fd
    /\ \A i \in DOMAIN active : LET c == active[i].fd
                                    ev == active[i].revents IN
          /\ ~({"in", "hup"} \subseteq ev)
          /\ c \in Conns => Born(c)
          /\ c \in Conns \ stale /\ ev \cap {"in", "hup"} # {} => c \in connections

\* While the connection is up, the channel waits to write exactly when bytes are
\* buffered.
WritesBuffer == \A c \in Conns \ down : out[c] # <<>> <=> Writing(c)

LifeTypes ==
    /\ TypeOK
    /\ pending \in Seq(SoundFunctors) /\ functors \in Seq(SoundFunctors)
    /\ queue \in Seq(SoundTasks)
    /\ AtWork /\ Unborn /\ SocketRoom /\ IsFiniteSet(polled)

LifeInv ==
    /\ LifeTypes
    /\ Agreement /\ Activity /\ WritesBuffer
    /\ AssertsHoldUnlessOverwritten /\ FinAfterBuffer

\* A message is MsgLen bytes.
LEMMA BytesType ==
    ASSUME NEW t \in Senders, NEW n \in Nat \ {0}
    PROVE  Bytes(t, n) \in Seq(Byte) /\ Len(Bytes(t, n)) = MsgLen
<1>1. MsgLen \in Nat \ {0} BY ReactorAssumption
<1>2. MsgLen * (n - 1) \in Nat BY <1>1
<1>3. \A i \in 1..MsgLen : MsgLen * (n - 1) + i \in Nat \ {0} BY <1>1, <1>2
<1>4. Bytes(t, n) \in [1..MsgLen -> Byte] BY <1>3 DEF Bytes, Byte
<1> QED BY <1>1, <1>4

\* A sequence split in two.
LEMMA SplitSeq ==
    ASSUME NEW S, NEW s \in Seq(S), NEW n \in 0..Len(s)
    PROVE  /\ SubSeq(s, 1, n) \in Seq(S) /\ Len(SubSeq(s, 1, n)) = n
           /\ SubSeq(s, n + 1, Len(s)) \in Seq(S) /\ Len(SubSeq(s, n + 1, Len(s))) = Len(s) - n
           /\ SubSeq(s, n + 1, Len(s)) = <<>> <=> n = Len(s)
<1>1. Len(s) \in Nat /\ \A i \in 1..Len(s) : s[i] \in S BY LenProperties
<1>2. SubSeq(s, 1, n) \in Seq(S) /\ Len(SubSeq(s, 1, n)) = n BY <1>1, SubSeqProperties
<1>3. SubSeq(s, n + 1, Len(s)) \in Seq(S) /\ Len(SubSeq(s, n + 1, Len(s))) = Len(s) - n
  BY <1>1, SubSeqProperties
<1>4. SubSeq(s, n + 1, Len(s)) = <<>> <=> Len(SubSeq(s, n + 1, Len(s))) = 0
  BY <1>3, EmptySeq
<1> QED BY <1>1, <1>2, <1>3, <1>4

\* A write takes no more than there is, and no more than there is room for.
LEMMA WriteRange ==
    ASSUME LifeTypes, NEW c \in Conns, NEW data \in Seq(Byte)
    PROVE  /\ Write(c, data) \in 0..Len(data)
           /\ Len(sent[c]) + Write(c, data) <= drained[c] + SndBuf
           /\ Broken(c) => Write(c, data) = 0
<1>1. /\ drained[c] \in Nat /\ Len(sent[c]) \in Nat /\ SndBuf \in Nat /\ Len(data) \in Nat
      /\ drained[c] <= Len(sent[c]) /\ Len(sent[c]) <= drained[c] + SndBuf
  BY ReactorAssumption DEF LifeTypes, TypeOK, SocketRoom
<1> QED BY <1>1 DEF Write, Least, Room

\* What sendInLoop does to the connection it is called for, and to no other.
SendEffect(c) ==
    /\ sent' \in [Conns -> Seq(Byte)] /\ out' \in [Conns -> Seq(Byte)]
    /\ \A d \in Conns \ {c} : sent'[d] = sent[d] /\ out'[d] = out[d] /\ events'[d] = events[d]
    /\ Len(sent[c]) <= Len(sent'[c]) /\ Len(sent'[c]) <= drained[c] + SndBuf
    /\ events' \in [Conns -> SUBSET {"in", "out"}]
    /\ polled' \in {polled, polled \cup {c}}
    /\ events[c] \subseteq events'[c]
    /\ (out[c] # <<>> <=> Writing(c)) => (out'[c] # <<>> <=> Writing(c)')
    /\ c \in fin /\ out[c] = <<>> /\ ~Writing(c) => out'[c] = <<>>
    /\ \E b \in BOOLEAN : QueueInLoop(IF b THEN <<WriteComplete(c)>> ELSE <<>>)

LEMMA SendInLoopEffect ==
    ASSUME LifeTypes, NEW c \in Conns, NEW t \in Senders, NEW n \in Nat \ {0},
           SendInLoop(c, t, n)
    PROVE  SendEffect(c)
<1> DEFINE msg == Bytes(t, n)
           direct == ~Writing(c) /\ out[c] = <<>>
           nwrote == IF direct THEN Write(c, msg) ELSE 0
           faultError == direct /\ Broken(c)
           remaining == SubSeq(msg, nwrote + 1, MsgLen)
           buffered == IF faultError THEN <<>> ELSE remaining
<1>1. /\ sent' = [sent EXCEPT ![c] = @ \o SubSeq(msg, 1, nwrote)]
      /\ out' = [out EXCEPT ![c] = @ \o buffered]
      /\ IF buffered = <<>> THEN UNCHANGED <<events, polled>>
                            ELSE Update(c, events[c] \cup {"out"})
      /\ QueueInLoop(IF remaining = <<>> THEN <<WriteComplete(c)>> ELSE <<>>)
  BY DEF SendInLoop
<1>2. msg \in Seq(Byte) /\ Len(msg) = MsgLen BY BytesType
<1>3. MsgLen \in Nat \ {0} BY ReactorAssumption
<1>4. /\ sent \in [Conns -> Seq(Byte)] /\ out \in [Conns -> Seq(Byte)]
      /\ events \in [Conns -> SUBSET {"in", "out"}] /\ polled \in SUBSET Conns
      /\ Len(sent[c]) \in Nat /\ sent[c] \in Seq(Byte) /\ out[c] \in Seq(Byte)
      /\ Len(sent[c]) <= drained[c] + SndBuf /\ drained[c] \in Nat
  BY DEF LifeTypes, TypeOK, SocketRoom
<1> HIDE DEF msg
<1>5. /\ nwrote \in 0..MsgLen /\ Len(sent[c]) + nwrote <= drained[c] + SndBuf
      /\ Broken(c) => nwrote = 0
  BY <1>2, <1>3, <1>4, WriteRange
<1> HIDE DEF nwrote
<1>6. /\ SubSeq(msg, 1, nwrote) \in Seq(Byte) /\ Len(SubSeq(msg, 1, nwrote)) = nwrote
      /\ remaining \in Seq(Byte)
  BY <1>2, <1>5, SplitSeq
<1>7. buffered \in Seq(Byte)
  <2> HIDE DEF remaining
  <2> QED BY <1>6
<1> HIDE DEF remaining, buffered
<1>8. /\ sent[c] \o SubSeq(msg, 1, nwrote) \in Seq(Byte)
      /\ Len(sent[c] \o SubSeq(msg, 1, nwrote)) = Len(sent[c]) + nwrote
      /\ out[c] \o buffered \in Seq(Byte)
      /\ out[c] \o buffered = <<>> <=> out[c] = <<>> /\ buffered = <<>>
  BY <1>4, <1>6, <1>7, ConcatProperties, ConcatEqualIffEmpty
<1>9. /\ sent' \in [Conns -> Seq(Byte)] /\ out' \in [Conns -> Seq(Byte)]
      /\ \A d \in Conns \ {c} : sent'[d] = sent[d] /\ out'[d] = out[d]
      /\ sent'[c] = sent[c] \o SubSeq(msg, 1, nwrote) /\ out'[c] = out[c] \o buffered
  BY <1>1, <1>4, <1>8
<1>10. Len(sent[c]) <= Len(sent'[c]) /\ Len(sent'[c]) <= drained[c] + SndBuf
  BY <1>4, <1>5, <1>8, <1>9
<1>11. /\ events' \in [Conns -> SUBSET {"in", "out"}] /\ polled' \in {polled, polled \cup {c}}
       /\ \A d \in Conns \ {c} : events'[d] = events[d]
       /\ events'[c] = IF buffered = <<>> THEN events[c] ELSE events[c] \cup {"out"}
  <2>1. CASE buffered = <<>> BY <1>1, <1>4, <2>1
  <2>2. CASE buffered # <<>>
    <3>1. Update(c, events[c] \cup {"out"}) BY <1>1, <2>2
    <3>2. events[c] \cup {"out"} # {} OBVIOUS
    <3> QED BY <1>4, <2>2, <3>1, <3>2 DEF Update
  <2> QED BY <2>1, <2>2
<1>12. (out[c] # <<>> <=> Writing(c)) => (out'[c] # <<>> <=> Writing(c)')
  BY <1>8, <1>9, <1>11 DEF Writing
<1>13. c \in fin /\ out[c] = <<>> /\ ~Writing(c) => out'[c] = <<>>
  BY <1>8, <1>9 DEF buffered, Broken
<1> QED BY <1>1, <1>9, <1>10, <1>11, <1>12, <1>13 DEF SendEffect

\* Once born, gone or overwritten, a connection stays so.
Grows ==
    /\ \A c \in Conns : Born(c) => Born(c)'
    /\ down \subseteq down' /\ stale \subseteq stale'

LEMMA SoundStays ==
    ASSUME Grows
    PROVE  /\ SoundFunctors \subseteq SoundFunctors' /\ SoundTasks \subseteq SoundTasks'
           /\ \A q \in Seq(SoundFunctors) : q \in Seq(SoundFunctors')
           /\ \A q \in Seq(SoundTasks) : q \in Seq(SoundTasks')
<1>1. SoundFunctors \subseteq SoundFunctors' BY DEF Grows, SoundFunctors, Functors
<1>2. SoundTasks \subseteq SoundTasks' BY DEF Grows, SoundTasks
<1> QED BY <1>1, <1>2

\* What queueInLoop adds on the loop thread.
LEMMA QueueInLoopSound ==
    ASSUME LifeTypes, Grows, NEW b \in BOOLEAN, NEW f \in SoundFunctors',
           QueueInLoop(IF b THEN <<f>> ELSE <<>>)
    PROVE  pending' \in Seq(SoundFunctors') /\ wakeupFd' \in BOOLEAN
<1>1. pending \in Seq(SoundFunctors') BY SoundStays DEF LifeTypes
<1>2. wakeupFd' \in BOOLEAN BY DEF QueueInLoop, LifeTypes, TypeOK
<1>3. CASE b
  <2>1. pending' = pending \o <<f>> /\ <<f>> \in Seq(SoundFunctors') BY <1>3 DEF QueueInLoop
  <2> QED BY <1>1, <1>2, <2>1, ConcatProperties
<1>4. CASE ~b
  <2>1. pending' = pending \o <<>> BY <1>4 DEF QueueInLoop
  <2> QED BY <1>1, <1>2, <2>1, ConcatEmptySeq
<1> QED BY <1>3, <1>4

LEMMA WriteCompleteSound ==
    ASSUME NEW c \in Conns, Born(c)'
    PROVE  WriteComplete(c) \in SoundFunctors'
BY DEF WriteComplete, Functor, SoundFunctors, Functors, Senders, Born

\* send() on the loop thread has the effect of sendInLoop or none.
LEMMA LoopSendEffect ==
    ASSUME LifeTypes, NEW c \in Conns, LoopSend(c)
    PROVE  /\ \/ SendEffect(c) /\ state[c] = "kConnected"
              \/ UNCHANGED <<sent, out, events, polled, pending, wakeupFd>>
           /\ accepted' \in [Senders -> [Conns -> Nat]]
           /\ \A t \in Threads : accepted'[t] = accepted[t]
<1>1. accepted \in [Senders -> [Conns -> Nat]] /\ LoopThread \in Senders /\ LoopThread \notin Threads
  BY ReactorAssumption DEF LifeTypes, TypeOK, Senders
<1>2. CASE state[c] = "kConnected"
  <2>1. accepted[LoopThread][c] + 1 \in Nat \ {0} BY <1>1
  <2>2. SendInLoop(c, LoopThread, accepted[LoopThread][c] + 1) BY <1>2 DEF LoopSend
  <2>3. SendEffect(c) BY <1>1, <2>1, <2>2, SendInLoopEffect
  <2>4. accepted' = [accepted EXCEPT ![LoopThread][c] = @ + 1] BY <1>2 DEF LoopSend
  <2>5. /\ accepted' \in [Senders -> [Conns -> Nat]]
        /\ \A t \in Threads : accepted'[t] = accepted[t]
    BY <1>1, <2>4 DEF Senders
  <2> QED BY <1>2, <2>3, <2>5
<1>3. CASE state[c] # "kConnected" BY <1>1, <1>3 DEF LoopSend
<1> QED BY <1>2, <1>3

-----------------------------------------------------------------------------
(* What a step does to the connections *)

chan_vars == <<state, connections, down, stale, events, polled, out, sent, fin>>

Rests == UNCHANGED chan_vars

Sends(c) ==
    /\ SendEffect(c) /\ Born(c) /\ state[c] # "kDisconnected"
    /\ UNCHANGED <<state, connections, down, stale, fin>>

\* handleWrite.
Drains(c) ==
    /\ UNCHANGED <<state, connections, down, stale>>
    /\ sent' \in [Conns -> Seq(Byte)] /\ out' \in [Conns -> Seq(Byte)]
    /\ \A d \in Conns \ {c} : sent'[d] = sent[d] /\ out'[d] = out[d] /\ events'[d] = events[d]
    /\ Len(sent[c]) <= Len(sent'[c]) /\ Len(sent'[c]) <= drained[c] + SndBuf
    /\ events' \in [Conns -> SUBSET {"in", "out"}] /\ events'[c] \subseteq events[c]
    /\ polled' \in {polled, polled \ {c}, polled \cup {c}}
    /\ (out[c] # <<>> <=> Writing(c)) => (out'[c] # <<>> <=> Writing(c)')
    /\ out[c] = <<>> => out'[c] = <<>>
    /\ ~Writing(c) => UNCHANGED <<events, polled>>
    /\ fin' = fin \/ (fin' = fin \cup {c} /\ out'[c] = <<>>)

\* handleClose, its asserts holding.
Closes(c) ==
    /\ c \in connections /\ Born(c)
    /\ state' = [state EXCEPT ![c] = "kDisconnected"]
    /\ Update(c, {})
    /\ down' = down \cup {c} /\ connections' = connections \ {c}
    /\ UNCHANGED <<stale, out, sent, fin>>

Accepts(c) ==
    /\ c \in backlog /\ backlog' = backlog \ {c}
    /\ state' = [state EXCEPT ![c] = "kConnected"] /\ connections' = connections \cup {c}
    /\ Update(c, {"in"})
    /\ UNCHANGED <<down, stale, out, sent, fin>>

ShutsDown(c) ==
    /\ fin' = IF Writing(c) THEN fin ELSE fin \cup {c}
    /\ UNCHANGED <<state, connections, down, stale, events, polled, out, sent>>

Stores(c) ==
    /\ Born(c)
    /\ state' = [state EXCEPT ![c] = "kDisconnecting"]
    /\ stale' = IF state[c] = "kDisconnected" THEN stale \cup {c} ELSE stale
    /\ UNCHANGED <<connections, down, events, polled, out, sent, fin>>

Removes(c) ==
    /\ polled' \in {polled, polled \ {c}}
    /\ UNCHANGED <<state, connections, down, stale, events, out, sent, fin>>

ConnStep ==
    \/ Rests
    \/ \E c \in Conns : \/ Sends(c) \/ Drains(c) \/ Closes(c) \/ Accepts(c)
                        \/ ShutsDown(c) \/ Stores(c) \/ Removes(c)

LEMMA HandleWriteDrains ==
    ASSUME LifeTypes, NEW c \in Conns, HandleWrite(c)
    PROVE  Drains(c)
<1> DEFINE n == IF Writing(c) THEN Write(c, out[c]) ELSE 0
           emptied == n > 0 /\ n = Len(out[c])
<1>1. /\ sent' = [sent EXCEPT ![c] = @ \o SubSeq(out[c], 1, n)]
      /\ out' = [out EXCEPT ![c] = SubSeq(out[c], n + 1, Len(out[c]))]
      /\ IF emptied THEN Update(c, events[c] \ {"out"}) ELSE UNCHANGED <<events, polled>>
      /\ IF emptied /\ state[c] = "kDisconnecting" THEN ShutdownInLoop(c, {}) ELSE UNCHANGED fin
      /\ UNCHANGED <<state, connections, down, stale>>
  BY DEF HandleWrite, ghosts
<1>2. /\ sent \in [Conns -> Seq(Byte)] /\ out \in [Conns -> Seq(Byte)]
      /\ events \in [Conns -> SUBSET {"in", "out"}]
      /\ Len(sent[c]) \in Nat /\ sent[c] \in Seq(Byte) /\ out[c] \in Seq(Byte) /\ Len(out[c]) \in Nat
      /\ Len(sent[c]) <= drained[c] + SndBuf /\ drained[c] \in Nat
  BY DEF LifeTypes, TypeOK, SocketRoom
<1>3. /\ n \in 0..Len(out[c]) /\ Len(sent[c]) + n <= drained[c] + SndBuf
      /\ ~Writing(c) => n = 0
  BY <1>2, WriteRange
<1> HIDE DEF n
<1>4. /\ SubSeq(out[c], 1, n) \in Seq(Byte) /\ Len(SubSeq(out[c], 1, n)) = n
      /\ SubSeq(out[c], n + 1, Len(out[c])) \in Seq(Byte)
      /\ SubSeq(out[c], n + 1, Len(out[c])) = <<>> <=> n = Len(out[c])
  BY <1>2, <1>3, SplitSeq
<1>5. /\ sent[c] \o SubSeq(out[c], 1, n) \in Seq(Byte)
      /\ Len(sent[c] \o SubSeq(out[c], 1, n)) = Len(sent[c]) + n
  BY <1>2, <1>4, ConcatProperties
<1>6. /\ sent' \in [Conns -> Seq(Byte)] /\ out' \in [Conns -> Seq(Byte)]
      /\ \A d \in Conns \ {c} : sent'[d] = sent[d] /\ out'[d] = out[d]
      /\ sent'[c] = sent[c] \o SubSeq(out[c], 1, n)
      /\ out'[c] = SubSeq(out[c], n + 1, Len(out[c]))
  BY <1>1, <1>2, <1>4, <1>5
<1>7. Len(sent[c]) <= Len(sent'[c]) /\ Len(sent'[c]) <= drained[c] + SndBuf
  BY <1>2, <1>3, <1>5, <1>6
<1>8. /\ events' \in [Conns -> SUBSET {"in", "out"}]
      /\ \A d \in Conns \ {c} : events'[d] = events[d]
      /\ events'[c] = IF emptied THEN events[c] \ {"out"} ELSE events[c]
      /\ polled' \in {polled, polled \ {c}, polled \cup {c}}
      /\ ~emptied => UNCHANGED <<events, polled>>
  BY <1>1, <1>2 DEF Update
<1>9. out[c] = <<>> <=> Len(out[c]) = 0 BY <1>2, EmptySeq
<1>10. out'[c] = <<>> <=> n = Len(out[c]) BY <1>4, <1>6
<1>11. (out[c] # <<>> <=> Writing(c)) => (out'[c] # <<>> <=> Writing(c)')
  BY <1>2, <1>3, <1>8, <1>9, <1>10 DEF Writing
<1>12. out[c] = <<>> => out'[c] = <<>> BY <1>2, <1>3, <1>9, <1>10
<1>13. ~Writing(c) => UNCHANGED <<events, polled>> BY <1>3, <1>8
<1>14. fin' = fin \/ (fin' = fin \cup {c} /\ out'[c] = <<>>)
  BY <1>1, <1>10 DEF ShutdownInLoop
<1> QED BY <1>1, <1>6, <1>7, <1>8, <1>11, <1>12, <1>13, <1>14 DEF Drains

\* An event of the head of activeChannels_ is about a born connection.
LEMMA EventBorn ==
    ASSUME LifeInv, NEW c \in Conns, NEW ev, Event(c, ev)
    PROVE  /\ Born(c)
           /\ ev \in {"in", "hup"} /\ c \notin stale => c \in connections
<1>1. active \in Seq([fd : Fds, revents : SUBSET Events]) /\ active # <<>>
  BY DEF LifeInv, LifeTypes, TypeOK, Event
<1>2. 1 \in DOMAIN active /\ Head(active) = active[1] BY <1>1
<1>3. active[1].fd = c /\ ev \in active[1].revents BY <1>2 DEF Event
<1> QED BY <1>2, <1>3 DEF LifeInv, Activity

\* handleClose closes the connection, or an assert fails.
LEMMA HandleCloseCloses ==
    ASSUME LifeInv, NEW c \in Conns, NEW ev \in {"in", "hup"}, Event(c, ev), HandleClose(c),
           UNCHANGED <<stale, out, sent, fin>>
    PROVE  \/ Closes(c) /\ aborted' = aborted /\ QueueInLoop(<<ConnectDestroyed(c)>>)
           \/ /\ Rests /\ aborted' = TRUE /\ c \in stale
              /\ UNCHANGED <<pending, wakeupFd>>
<1>1. Born(c) /\ (c \notin stale => c \in connections) BY EventBorn
<1>2. CASE state[c] \in {"kConnected", "kDisconnecting"} /\ c \in connections
  BY <1>1, <1>2 DEF HandleClose, Closes
<1>3. CASE ~(state[c] \in {"kConnected", "kDisconnecting"} /\ c \in connections)
  <2>1. c \in stale
    <3> SUFFICES ASSUME c \notin stale PROVE FALSE OBVIOUS
    <3>1. c \in connections BY <1>1
    <3>2. state[c] \in {"kConnected", "kDisconnecting"}
      BY <1>1, <3>1 DEF LifeInv, LifeTypes, TypeOK, Agreement, Born
    <3> QED BY <1>3, <3>1, <3>2
  <2> QED BY <1>3, <2>1 DEF HandleClose, Rests, chan_vars
<1> QED BY <1>2, <1>3

\* The functor that runs.
LEMMA HeadFunctor ==
    ASSUME LifeTypes, NEW fn, Running(fn)
    PROVE  /\ Head(functors) \in SoundFunctors /\ functors' \in Seq(SoundFunctors)
           /\ Head(functors).conn \in Conns /\ Born(Head(functors).conn)
           /\ Head(functors).from \in Senders /\ Head(functors).num \in Nat
           /\ Head(functors).fn = fn
<1>1. /\ functors \in Seq(SoundFunctors) /\ functors # <<>> /\ Head(functors).fn = fn
      /\ functors' = Tail(functors)
  BY DEF LifeTypes, Running
<1>2. Head(functors) \in SoundFunctors /\ functors' \in Seq(SoundFunctors)
  BY <1>1, HeadTailProperties
<1> QED BY <1>1, <1>2 DEF SoundFunctors, Functors

LEMMA RunSendStep ==
    ASSUME LifeTypes, RunSend
    PROVE  \/ Rests /\ UNCHANGED <<pending, wakeupFd>>
           \/ Sends(Head(functors).conn)
<1>1. Running("sendInLoop") /\ UNCHANGED <<aborted, fin>> BY DEF RunSend
<1>2. /\ Head(functors).conn \in Conns /\ Born(Head(functors).conn)
      /\ Head(functors).from \in Senders /\ Head(functors).num \in Nat \ {0}
  BY <1>1, HeadFunctor DEF SoundFunctors
<1>3. UNCHANGED <<state, connections, down, stale>> BY <1>1 DEF Running, ghosts
<1>4. CASE state[Head(functors).conn] = "kDisconnected"
  BY <1>1, <1>3, <1>4 DEF RunSend, Rests, chan_vars
<1>5. CASE state[Head(functors).conn] # "kDisconnected"
  <2>1. SendInLoop(Head(functors).conn, Head(functors).from, Head(functors).num)
    BY <1>5 DEF RunSend
  <2>2. SendEffect(Head(functors).conn) BY <1>2, <2>1, SendInLoopEffect
  <2> QED BY <1>1, <1>2, <1>3, <1>5, <2>2 DEF Sends
<1> QED BY <1>4, <1>5

LEMMA HelloStep ==
    ASSUME LifeInv, NEW c \in Conns, HandleHandshake(c) \/ SendHelloMessage(c)
    PROVE  \/ Rests /\ UNCHANGED <<pending, wakeupFd>>
           \/ Sends(c)
<1>1. LifeTypes BY DEF LifeInv
<1>2. UNCHANGED <<state, connections, down, stale, fin>>
  BY DEF HandleHandshake, SendHelloMessage
<1>3. Event(c, "in") BY DEF HandleHandshake, SendHelloMessage
<1>4. Born(c) BY <1>3, EventBorn
<1>5. LoopSend(c) \/ UNCHANGED <<sent, out, events, polled, pending, wakeupFd>>
  BY DEF HandleHandshake, SendHelloMessage
<1>6. \/ SendEffect(c) /\ state[c] = "kConnected"
      \/ UNCHANGED <<sent, out, events, polled, pending, wakeupFd>>
  BY <1>1, <1>5, LoopSendEffect
<1> QED BY <1>2, <1>4, <1>6 DEF Sends, Rests, chan_vars

\* Every step is one of these.
LEMMA NextConnStep == ASSUME LifeInv, [Next]_vars PROVE ConnStep
<1> USE DEF LifeInv
<1>1. CASE Poll \/ HandleWakeup \/ TakeFunctors
  BY <1>1 DEF Poll, HandleWakeup, TakeFunctors, ConnStep, Rests, chan_vars, conn_vars, sock_vars, ghosts
<1>2. CASE NewConnection
  <2>1. PICK c \in backlog : /\ connections' = connections \cup {c}
                             /\ backlog' = backlog \ {c}
                             /\ state' = [state EXCEPT ![c] = "kConnected"]
                             /\ Update(c, {"in"})
    BY <1>2 DEF NewConnection
  <2>2. c \in Conns BY DEF LifeTypes, TypeOK
  <2>3. Accepts(c) BY <1>2, <2>1 DEF NewConnection, Accepts, sock_vars, ghosts
  <2> QED BY <2>2, <2>3 DEF ConnStep
<1>3. CASE RunSend
  <2>1. Head(functors).conn \in Conns BY <1>3, HeadFunctor DEF RunSend
  <2> QED BY <1>3, <2>1, RunSendStep DEF ConnStep
<1>4. CASE RunShutdown
  <2>1. Head(functors).conn \in Conns BY <1>4, HeadFunctor DEF RunShutdown
  <2>2. ShutsDown(Head(functors).conn)
    BY <1>4 DEF RunShutdown, Running, ShutsDown, ShutdownInLoop, Writing, ghosts
  <2> QED BY <2>1, <2>2 DEF ConnStep
<1>5. CASE RunWriteComplete
  BY <1>5 DEF RunWriteComplete, Running, ConnStep, Rests, chan_vars, ghosts
<1>6. CASE RunConnectDestroyed
  <2>1. Head(functors).conn \in Conns BY <1>6, HeadFunctor DEF RunConnectDestroyed
  <2>2. Removes(Head(functors).conn)
    BY <1>6 DEF RunConnectDestroyed, Running, Removes, ghosts
  <2> QED BY <2>1, <2>2 DEF ConnStep
<1>7. ASSUME NEW c \in Conns, HandleHup(c) PROVE ConnStep
  <2>1. Event(c, "hup") /\ HandleClose(c) /\ UNCHANGED <<stale, out, sent, fin>>
    BY <1>7 DEF HandleHup, Handling, sock_vars, ghosts
  <2>2. Closes(c) \/ Rests BY <2>1, HandleCloseCloses
  <2> QED BY <2>2 DEF ConnStep
<1>8. ASSUME NEW c \in Conns, HandleHandshake(c) \/ SendHelloMessage(c) PROVE ConnStep
  BY <1>8, HelloStep DEF ConnStep
<1>9. ASSUME NEW c \in Conns, HandleRead(c) PROVE ConnStep
  <2>1. Event(c, "in") /\ UNCHANGED <<stale, sent, fin>>
    BY <1>9 DEF HandleRead, Handling, sock_vars, ghosts
  <2>2. CASE UNCHANGED conn_vars BY <2>1, <2>2 DEF ConnStep, Rests, chan_vars, conn_vars
  <2>3. CASE HandleClose(c) /\ out' = out
    <3>1. Closes(c) \/ Rests BY <2>1, <2>3, HandleCloseCloses
    <3> QED BY <3>1 DEF ConnStep
  <2> QED BY <1>9, <2>2, <2>3 DEF HandleRead
<1>10. ASSUME NEW c \in Conns, HandleWrite(c) PROVE ConnStep
  BY <1>10, HandleWriteDrains DEF ConnStep
<1>11. ASSUME NEW t \in Threads, ShutdownStore(t) PROVE ConnStep
  <2>1. thr[t].conn \in Conns /\ Born(thr[t].conn)
    BY <1>11 DEF ShutdownStore, LifeTypes, AtWork
  <2>2. Stores(thr[t].conn) BY <1>11, <2>1 DEF ShutdownStore, Stores, sock_vars
  <2> QED BY <2>1, <2>2 DEF ConnStep
<1>12. ASSUME NEW t \in Threads, \/ Take(t) \/ TakeWait(t) \/ Send(t) \/ QueueFunctor(t)
                                 \/ Wakeup(t) \/ Shutdown(t) \/ Push(t)
       PROVE ConnStep
  BY <1>12 DEF Take, TakeWait, Send, QueueFunctor, Wakeup, Shutdown, Push,
               ConnStep, Rests, chan_vars, conn_vars, sock_vars, ghosts
<1>13. ASSUME NEW c \in Conns, Client(c) PROVE ConnStep
  BY <1>13 DEF Client, Connect, ClientSend, ClientRead, ClientFin, ClientReset,
               ConnStep, Rests, chan_vars, conn_vars, sock_vars, ghosts
<1>14. CASE UNCHANGED vars
  BY <1>14 DEF vars, ConnStep, Rests, chan_vars, conn_vars, sock_vars, ghosts
<1> QED
  BY <1>1, <1>2, <1>3, <1>4, <1>5, <1>6, <1>7, <1>8, <1>9, <1>10, <1>11, <1>12, <1>13, <1>14
  DEF Next, LoopStep, ThreadStep

LEMMA ConnStepGrows == ASSUME LifeTypes, ConnStep PROVE Grows
<1> USE DEF LifeTypes, TypeOK, Grows, Born
<1>1. ASSUME NEW c \in Conns, Closes(c) \/ Accepts(c) \/ Stores(c) PROVE Grows
  BY <1>1 DEF Closes, Accepts, Stores
<1>2. ASSUME UNCHANGED <<state, down, stale>> PROVE Grows BY <1>2
<1> QED BY <1>1, <1>2 DEF ConnStep, Rests, chan_vars, Sends, Drains, ShutsDown, Removes

\* Every kind of step keeps the three parts of the invariant about channels.
LEMMA NextChannels ==
    ASSUME LifeInv, ConnStep, reset \subseteq reset'
    PROVE  Agreement' /\ WritesBuffer' /\ FinAfterBuffer'
<1> USE DEF LifeInv, LifeTypes, TypeOK, Agreement, WritesBuffer, FinAfterBuffer, Unborn, Born, Writing
<1>1. CASE Rests BY <1>1 DEF Rests, chan_vars
<1>2. ASSUME NEW c \in Conns, Sends(c) PROVE Agreement' /\ WritesBuffer' /\ FinAfterBuffer'
  <2>1. Agreement' BY <1>2 DEF Sends, SendEffect
  <2>2. WritesBuffer' BY <1>2 DEF Sends, SendEffect
  <2>3. FinAfterBuffer' BY <1>2 DEF Sends, SendEffect
  <2> QED BY <2>1, <2>2, <2>3
<1>3. ASSUME NEW c \in Conns, Drains(c) PROVE Agreement' /\ WritesBuffer' /\ FinAfterBuffer'
  <2>1. Agreement' BY <1>3 DEF Drains
  <2>2. WritesBuffer' BY <1>3 DEF Drains
  <2>3. FinAfterBuffer' BY <1>3 DEF Drains
  <2> QED BY <2>1, <2>2, <2>3
<1>4. ASSUME NEW c \in Conns, Closes(c) PROVE Agreement' /\ WritesBuffer' /\ FinAfterBuffer'
  BY <1>4 DEF Closes, Update
<1>5. ASSUME NEW c \in Conns, Accepts(c) PROVE Agreement' /\ WritesBuffer' /\ FinAfterBuffer'
  BY <1>5 DEF Accepts, Update
<1>6. ASSUME NEW c \in Conns, ShutsDown(c) PROVE Agreement' /\ WritesBuffer' /\ FinAfterBuffer'
  BY <1>6 DEF ShutsDown
<1>7. ASSUME NEW c \in Conns, Stores(c) PROVE Agreement' /\ WritesBuffer' /\ FinAfterBuffer'
  BY <1>7 DEF Stores
<1>8. ASSUME NEW c \in Conns, Removes(c) PROVE Agreement' /\ WritesBuffer' /\ FinAfterBuffer'
  BY <1>8 DEF Removes
<1> QED BY <1>1, <1>2, <1>3, <1>4, <1>5, <1>6, <1>7, <1>8 DEF ConnStep

-----------------------------------------------------------------------------
(* The channels to handle *)

ActiveChannels == [fd : Fds, revents : SUBSET Events]

\* Entries that come from entries: the same channel, no more events, no two from one.
LEMMA FromEntries ==
    ASSUME LifeInv, ConnStep, NEW src \in [DOMAIN active' -> DOMAIN active],
           \A i \in DOMAIN active' : /\ active'[i].fd = active[src[i]].fd
                                     /\ active'[i].revents \subseteq active[src[i]].revents,
           \A i, j \in DOMAIN active' : i # j => src[i] # src[j],
           \A i \in DOMAIN active' : active'[i].fd \in connections \ connections' =>
                                        active'[i].revents \cap {"in", "hup"} = {}
    PROVE  Activity'
<1>1. Grows BY ConnStepGrows DEF LifeInv
<1>2. \A i, j \in DOMAIN active' : i # j => active'[i].fd # active'[j].fd
  BY DEF LifeInv, Activity
<1>3. ASSUME NEW i \in DOMAIN active' PROVE ~({"in", "hup"} \subseteq active'[i].revents)
  BY <1>3 DEF LifeInv, Activity
<1>4. ASSUME NEW i \in DOMAIN active', active'[i].fd \in Conns
      PROVE  state'[active'[i].fd] # "kConnecting"
  <2>1. Born(active[src[i]].fd) /\ active[src[i]].fd \in Conns BY <1>4 DEF LifeInv, Activity
  <2> QED BY <1>1, <2>1 DEF Grows, Born
<1>5. ASSUME NEW i \in DOMAIN active', active'[i].fd \in Conns \ stale',
             active'[i].revents \cap {"in", "hup"} # {}
      PROVE  active'[i].fd \in connections'
  <2>1. active[src[i]].fd \in Conns \ stale BY <1>1, <1>5 DEF Grows
  <2>2. active[src[i]].revents \cap {"in", "hup"} # {} BY <1>5
  <2>3. active[src[i]].fd \in connections BY <2>1, <2>2 DEF LifeInv, Activity
  <2> QED BY <1>5, <2>3
<1> QED BY <1>2, <1>3, <1>4, <1>5 DEF Activity, Born

\* The loop has handled one event of the first entry.
LEMMA HandledActivity ==
    ASSUME LifeInv, ConnStep, NEW fd, NEW ev, Event(fd, ev), Handled(ev),
           \A c \in connections \ connections' : c = fd /\ ev \in {"in", "hup"}
    PROVE  Activity' /\ active' \in Seq(ActiveChannels)
<1>1. active \in Seq(ActiveChannels) /\ active # <<>>
  BY DEF LifeInv, LifeTypes, TypeOK, Event, ActiveChannels
<1>2. Head(active) = active[1] /\ 1 \in DOMAIN active /\ DOMAIN active = 1..Len(active) /\ Len(active) \in Nat
  BY <1>1
<1>3. active[1].fd = fd /\ ev \in active[1].revents /\ active[1] \in ActiveChannels
  BY <1>1, <1>2 DEF Event
\* Nothing else in the entry can close the connection.
<1>4. ev \in {"in", "hup"} => (active[1].revents \ {ev}) \cap {"in", "hup"} = {}
  BY <1>2, <1>3 DEF LifeInv, Activity
<1>5. \A j \in DOMAIN active : j # 1 => active[j].fd # fd
  BY <1>2, <1>3 DEF LifeInv, Activity
<1>6. CASE active' = Tail(active)
  <2> DEFINE src == [i \in DOMAIN active' |-> i + 1]
  <2>1. /\ active' \in Seq(ActiveChannels) /\ Len(active') = Len(active) - 1
        /\ \A i \in 1..Len(active') : active'[i] = active[i + 1]
    BY <1>1, <1>6, HeadTailProperties
  <2>2. DOMAIN active' = 1..(Len(active) - 1) BY <2>1
  <2>3. \A i \in DOMAIN active' : i + 1 \in DOMAIN active /\ i + 1 # 1 /\ src[i] = i + 1
    BY <1>2, <2>2
  <2>4. src \in [DOMAIN active' -> DOMAIN active] BY <2>3
  <2>5. \A i \in DOMAIN active' : active'[i].fd = active[i + 1].fd /\ active'[i].revents = active[i + 1].revents
    BY <2>1, <2>2
  <2>6. \A i, j \in DOMAIN active' : i # j => src[i] # src[j] BY <2>2, <2>3
  <2>7. \A i \in DOMAIN active' : active'[i].fd \notin connections \ connections'
    BY <1>5, <2>3, <2>5
  <2>8. \A i \in DOMAIN active' : /\ active'[i].fd = active[src[i]].fd
                                  /\ active'[i].revents \subseteq active[src[i]].revents
    BY <2>3, <2>5
  <2> HIDE DEF src
  <2>9. Activity' BY <2>4, <2>6, <2>7, <2>8, FromEntries
  <2> QED BY <2>1, <2>9
<1>7. CASE active' = [active EXCEPT ![1].revents = @ \ {ev}]
  <2> DEFINE e == [active[1] EXCEPT !.revents = @ \ {ev}]
  <2>1. e \in ActiveChannels /\ e.fd = fd /\ e.revents = active[1].revents \ {ev}
    BY <1>3 DEF ActiveChannels
  <2>2. active' = [active EXCEPT ![1] = e] BY <1>7
  <2> HIDE DEF e
  <2>3. /\ active' \in Seq(ActiveChannels) /\ Len(active') = Len(active)
        /\ \A j \in 1..Len(active) : active'[j] = IF j = 1 THEN e ELSE active[j]
    BY <1>1, <1>2, <2>1, <2>2, ExceptSeq
  <2> DEFINE src == [i \in DOMAIN active' |-> i]
  <2>4. DOMAIN active' = DOMAIN active BY <1>2, <2>3
  <2>5. src \in [DOMAIN active' -> DOMAIN active] /\ \A i \in DOMAIN active' : src[i] = i BY <2>4
  <2>6. \A i \in DOMAIN active' : /\ active'[i].fd = active[i].fd
                                  /\ active'[i].revents \subseteq active[i].revents
    BY <1>2, <1>3, <2>1, <2>3, <2>4
  <2>7. \A i \in DOMAIN active' : active'[i].fd \in connections \ connections' =>
                                     active'[i].revents \cap {"in", "hup"} = {}
    BY <1>2, <1>4, <1>5, <2>1, <2>3, <2>4, <2>6
  <2> HIDE DEF src
  <2>8. \A i \in DOMAIN active' : /\ active'[i].fd = active[src[i]].fd
                                  /\ active'[i].revents \subseteq active[src[i]].revents
    BY <2>5, <2>6
  <2>9. Activity' BY <2>5, <2>7, <2>8, FromEntries
  <2> QED BY <2>3, <2>9
<1> QED BY <1>6, <1>7 DEF Handled

\* The loop does not touch activeChannels_, and closes nothing.
LEMMA SameActivity ==
    ASSUME LifeInv, ConnStep, active' = active, connections \subseteq connections'
    PROVE  Activity' /\ active' \in Seq(ActiveChannels)
<1> DEFINE src == [i \in DOMAIN active |-> i]
<1>1. src \in [DOMAIN active' -> DOMAIN active] /\ \A i \in DOMAIN active' : src[i] = i OBVIOUS
<1> HIDE DEF src
<1>2. Activity' BY <1>1, FromEntries
<1> QED BY <1>2 DEF LifeInv, LifeTypes, TypeOK, ActiveChannels

\* poll returns one entry for each ready channel.
LEMMA ReadyChannels ==
    ASSUME LifeInv
    PROVE  /\ Ready \subseteq ActiveChannels /\ IsFiniteSet(Ready)
           /\ \A a, b \in Ready : a.fd = b.fd => a = b
           /\ \A a \in Ready : /\ ~({"in", "hup"} \subseteq a.revents)
                               /\ a.fd \in Conns => a.fd \in polled
<1>1. polled \in SUBSET Conns /\ IsFiniteSet(polled) BY DEF LifeInv, LifeTypes, TypeOK
<1>2. \A c \in Conns : c # "wakeupFd" /\ c # "acceptor" BY ReactorAssumption
<1>3. \A c : REvents(c) \in SUBSET Events /\ ~({"in", "hup"} \subseteq REvents(c))
  BY DEF REvents, Events
<1>4. ASSUME NEW a \in Ready
      PROVE  \/ \E c \in polled : a = Active(c, REvents(c))
             \/ \E fd \in {"wakeupFd", "acceptor"} : a = Active(fd, {"in"})
  BY DEF Ready
<1>5. \A a \in Ready : \/ a.fd \in polled /\ a = Active(a.fd, REvents(a.fd)) /\ a.revents = REvents(a.fd)
                       \/ a.fd \in {"wakeupFd", "acceptor"} /\ a = Active(a.fd, {"in"}) /\ a.revents = {"in"}
  BY <1>4 DEF Active
<1>6. Ready \subseteq ActiveChannels
  <2> SUFFICES ASSUME NEW a \in Ready PROVE a \in ActiveChannels OBVIOUS
  <2>1. \A fd \in Fds, r \in SUBSET Events : Active(fd, r) \in ActiveChannels
    BY DEF Active, ActiveChannels
  <2>2. {"in"} \in SUBSET Events BY DEF Events
  <2> QED BY <1>1, <1>3, <1>5, <2>1, <2>2 DEF Fds
<1>7. \A a, b \in Ready : a.fd = b.fd => a = b BY <1>1, <1>2, <1>5
<1>8. IsFiniteSet(Ready)
  <2> DEFINE T == polled \cup {"wakeupFd"} \cup {"acceptor"}
             f == [a \in Ready |-> a.fd]
  <2>1. IsFiniteSet(T) BY <1>1, FS_AddElement
  <2>2. f \in [Ready -> T] BY <1>5
  <2>3. f \in Injection(Ready, T) BY <1>7, <2>2 DEF Injection, IsInjective
  <2> HIDE DEF T, f
  <2> QED BY <2>1, <2>3, FS_Injection
<1>9. \A a \in Ready : /\ ~({"in", "hup"} \subseteq a.revents)
                       /\ a.fd \in Conns => a.fd \in polled
  BY <1>2, <1>3, <1>5
<1> QED BY <1>6, <1>7, <1>8, <1>9

LEMMA PollActivity ==
    ASSUME LifeInv, Poll
    PROVE  Activity' /\ active' \in Seq(ActiveChannels)
<1>1. /\ Ready \subseteq ActiveChannels /\ IsFiniteSet(Ready)
      /\ \A a, b \in Ready : a.fd = b.fd => a = b
      /\ \A a \in Ready : /\ ~({"in", "hup"} \subseteq a.revents)
                          /\ a.fd \in Conns => a.fd \in polled
  BY ReadyChannels
<1>2. Cardinality(Ready) \in Nat BY <1>1, FS_CardinalityType
<1>3. /\ active' \in [1..Cardinality(Ready) -> Ready]
      /\ \A i, j \in 1..Cardinality(Ready) : i # j => active'[i] # active'[j]
  BY DEF Poll, SetToSeqs
<1>4. DOMAIN active' = 1..Cardinality(Ready) BY <1>3
<1>5. active' \in Seq(ActiveChannels)
  <2>1. active' \in [1..Cardinality(Ready) -> ActiveChannels] BY <1>1, <1>3
  <2> QED BY <1>2, <2>1
<1>6. \A i \in DOMAIN active' : active'[i] \in Ready BY <1>3, <1>4
<1>7. \A c \in polled \ stale : c \in connections
  BY DEF LifeInv, LifeTypes, TypeOK, Agreement
<1>8. \A c \in polled : Born(c)
  BY <1>7 DEF LifeInv, LifeTypes, TypeOK, Agreement, Unborn
<1>9. UNCHANGED <<state, stale, connections>> BY DEF Poll, conn_vars, ghosts
<1>10. Activity'
  BY <1>1, <1>3, <1>4, <1>6, <1>7, <1>8, <1>9 DEF Activity, Born
<1> QED BY <1>5, <1>10

-----------------------------------------------------------------------------
(* The types, part by part *)

ConnPart ==
    /\ connections \in SUBSET Conns
    /\ state \in [Conns -> {"kConnecting", "kConnected", "kDisconnecting", "kDisconnected"}]
    /\ events \in [Conns -> SUBSET {"in", "out"}]
    /\ polled \in SUBSET Conns /\ IsFiniteSet(polled)
    /\ out \in [Conns -> Seq(Byte)] /\ sent \in [Conns -> Seq(Byte)]
    /\ down \in SUBSET Conns /\ stale \in SUBSET Conns /\ fin \in SUBSET Conns
    /\ drained \in [Conns -> Nat] /\ SocketRoom

LoopPart ==
    /\ loop_pc \in {"handle", "hello", "functors"}
    /\ active \in Seq(ActiveChannels)
    /\ wakeupFd \in BOOLEAN
    /\ pending \in Seq(SoundFunctors) /\ functors \in Seq(SoundFunctors)

ThreadRecords ==
    [pc : {"take", "wait", "idle", "send", "queue", "wakeup", "shutdown", "store"},
     conn : Conns \cup {NoConn}, closing : BOOLEAN, fn : {"none", "sendInLoop", "shutdownInLoop"}]

ThreadPart ==
    /\ queue \in Seq(SoundTasks)
    /\ thr \in [Threads -> ThreadRecords] /\ AtWork
    /\ accepted \in [Senders -> [Conns -> Nat]]
    /\ closer \in [Conns -> Threads \cup {NoThread}]

PeerPart ==
    /\ aborted \in BOOLEAN
    /\ backlog \in SUBSET Conns /\ greeted \in SUBSET Conns
    /\ peer_fin \in SUBSET Conns /\ reset \in SUBSET Conns
    /\ rx \in [Conns -> Seq(Frames \cup {"handshake"})]
    /\ frames \in [Conns -> Seq(Frames \cup {"handshake"})]
    /\ Unborn

LEMMA SeqOfMore ==
    ASSUME NEW S, NEW T, S \subseteq T
    PROVE  \A q \in Seq(S) : q \in Seq(T)
OBVIOUS

LEMMA LifeTypesParts == LifeTypes <=> ConnPart /\ LoopPart /\ ThreadPart /\ PeerPart
<1>1. \A q \in Seq(SoundFunctors) : q \in Seq(Functors)
  <2>1. SoundFunctors \subseteq Functors BY DEF SoundFunctors
  <2> QED BY <2>1
<1>2. \A q \in Seq(SoundTasks) : q \in Seq([frame : Frames, conn : Conns])
  <2>1. SoundTasks \subseteq [frame : Frames, conn : Conns] BY DEF SoundTasks
  <2> QED BY <2>1, SeqOfMore
<1>3. LifeTypes => ConnPart /\ LoopPart /\ ThreadPart /\ PeerPart
  BY DEF LifeTypes, TypeOK, ConnPart, LoopPart, ThreadPart, PeerPart, ActiveChannels, ThreadRecords
<1>4. ConnPart /\ LoopPart /\ ThreadPart /\ PeerPart => LifeTypes
  BY <1>1, <1>2 DEF LifeTypes, TypeOK, ConnPart, LoopPart, ThreadPart, PeerPart, ActiveChannels, ThreadRecords
<1> QED BY <1>3, <1>4

LEMMA LifeTypesNext == ConnPart' /\ LoopPart' /\ ThreadPart' /\ PeerPart' => LifeTypes'
<1>1. LifeTypes <=> ConnPart /\ LoopPart /\ ThreadPart /\ PeerPart BY LifeTypesParts
<1>2. (LifeTypes <=> ConnPart /\ LoopPart /\ ThreadPart /\ PeerPart)' BY LifeTypesParts, PTL
<1> QED BY <1>2

LEMMA FinitePolled ==
    ASSUME IsFiniteSet(polled), NEW c
    PROVE  IsFiniteSet(polled \cup {c}) /\ IsFiniteSet(polled \ {c})
BY FS_AddElement, FS_RemoveElement

\* The connections and their sockets.
LEMMA NextConnPart ==
    ASSUME LifeInv, ConnStep, drained' = drained
    PROVE  ConnPart'
<1>a. ConnPart BY LifeTypesParts DEF LifeInv
<1> USE DEF ConnPart, SocketRoom
<1>1. CASE Rests BY <1>1, <1>a DEF Rests, chan_vars
<1>2. ASSUME NEW c \in Conns, Sends(c) PROVE ConnPart'
  <2>1. polled' \in SUBSET Conns /\ IsFiniteSet(polled')
    <3>1. polled' \in {polled, polled \ {c}, polled \cup {c}} BY <1>2 DEF Sends, SendEffect
    <3>2. polled \in SUBSET Conns /\ IsFiniteSet(polled) BY <1>a
    <3> QED BY <3>1, <3>2, FinitePolled
  <2>2. SocketRoom'
    <3>1. Len(sent[c]) \in Nat /\ Len(sent'[c]) \in Nat /\ drained[c] \in Nat
      BY <1>2, <1>a DEF Sends, SendEffect
    <3>2. ASSUME NEW d \in Conns PROVE drained[d] <= Len(sent'[d]) /\ Len(sent'[d]) <= drained[d] + SndBuf
      <4>1. CASE d = c BY <1>2, <1>a, <3>1, <4>1, ReactorAssumption DEF Sends, SendEffect
      <4>2. CASE d # c BY <1>2, <1>a, <4>2 DEF Sends, SendEffect
      <4> QED BY <4>1, <4>2
    <3> QED BY <3>2
  <2> QED BY <1>2, <1>a, <2>1, <2>2 DEF Sends, SendEffect
<1>3. ASSUME NEW c \in Conns, Drains(c) PROVE ConnPart'
  <2>1. polled' \in SUBSET Conns /\ IsFiniteSet(polled')
    <3>1. polled' \in {polled, polled \ {c}, polled \cup {c}} BY <1>3 DEF Drains
    <3>2. polled \in SUBSET Conns /\ IsFiniteSet(polled) BY <1>a
    <3> QED BY <3>1, <3>2, FinitePolled
  <2>2. SocketRoom'
    <3>1. Len(sent[c]) \in Nat /\ Len(sent'[c]) \in Nat /\ drained[c] \in Nat
      BY <1>3, <1>a DEF Drains
    <3>2. ASSUME NEW d \in Conns PROVE drained[d] <= Len(sent'[d]) /\ Len(sent'[d]) <= drained[d] + SndBuf
      <4>1. CASE d = c BY <1>3, <1>a, <3>1, <4>1, ReactorAssumption DEF Drains
      <4>2. CASE d # c BY <1>3, <1>a, <4>2 DEF Drains
      <4> QED BY <4>1, <4>2
    <3> QED BY <3>2
  <2> QED BY <1>3, <1>a, <2>1, <2>2 DEF Drains
<1>4. ASSUME NEW c \in Conns, Closes(c) PROVE ConnPart'
  <2>1. polled' = polled \ {c} BY <1>4 DEF Closes, Update
  <2>2. IsFiniteSet(polled') BY <1>a, <2>1, FS_RemoveElement
  <2> QED BY <1>4, <1>a, <2>1, <2>2 DEF Closes, Update
<1>5. ASSUME NEW c \in Conns, Accepts(c) PROVE ConnPart'
  <2>1. polled' = polled \cup {c} BY <1>5 DEF Accepts, Update
  <2>2. IsFiniteSet(polled') BY <1>a, <2>1, FS_AddElement
  <2> QED BY <1>5, <1>a, <2>1, <2>2 DEF Accepts, Update
<1>6. ASSUME NEW c \in Conns, ShutsDown(c) PROVE ConnPart' BY <1>6, <1>a DEF ShutsDown
<1>7. ASSUME NEW c \in Conns, Stores(c) PROVE ConnPart' BY <1>7, <1>a DEF Stores
<1>8. ASSUME NEW c \in Conns, Removes(c) PROVE ConnPart'
  <2>1. IsFiniteSet(polled') BY <1>8, <1>a, FinitePolled DEF Removes
  <2> QED BY <1>8, <1>a, <2>1 DEF Removes
<1> QED BY <1>1, <1>2, <1>3, <1>4, <1>5, <1>6, <1>7, <1>8 DEF ConnStep

LEMMA ReadConnPart ==
    ASSUME LifeInv, NEW c \in Conns, ClientRead(c)
    PROVE  ConnPart'
<1>a. ConnPart BY LifeTypesParts DEF LifeInv
<1>1. UNCHANGED chan_vars BY DEF ClientRead, chan_vars, conn_vars, sock_vars, ghosts
<1>2. drained' = [drained EXCEPT ![c] = Len(sent[c])] BY DEF ClientRead
<1>3. Len(sent[c]) \in Nat /\ SndBuf \in Nat BY <1>a, ReactorAssumption DEF ConnPart
<1>4. drained' \in [Conns -> Nat] BY <1>2, <1>3, <1>a DEF ConnPart
<1>5. SocketRoom' BY <1>1, <1>2, <1>3, <1>a DEF ConnPart, SocketRoom, chan_vars
<1> QED BY <1>1, <1>4, <1>5, <1>a DEF ConnPart, chan_vars

-----------------------------------------------------------------------------
(* The loop *)

LEMMA SameFunctors ==
    ASSUME LifeTypes, Grows
    PROVE  /\ pending \in Seq(SoundFunctors') /\ functors \in Seq(SoundFunctors')
           /\ queue \in Seq(SoundTasks')
           /\ wakeupFd \in BOOLEAN /\ loop_pc \in {"handle", "hello", "functors"}
BY SoundStays DEF LifeTypes, TypeOK

LEMMA SendQueues ==
    ASSUME LifeTypes, Grows, NEW c \in Conns, Born(c), SendEffect(c)
    PROVE  pending' \in Seq(SoundFunctors') /\ wakeupFd' \in BOOLEAN
<1>1. PICK b \in BOOLEAN : QueueInLoop(IF b THEN <<WriteComplete(c)>> ELSE <<>>) BY DEF SendEffect
<1>2. Born(c)' BY DEF Grows
<1>3. WriteComplete(c) \in SoundFunctors' BY <1>2, WriteCompleteSound
<1> QED BY <1>1, <1>3, QueueInLoopSound

\* The loop's own part of the types, the channels it has to handle and its asserts.
LoopInv == LoopPart /\ Activity /\ AssertsHoldUnlessOverwritten

\* handleClose on behalf of a handler of event ev.
LEMMA CloseKeepsLoop ==
    ASSUME LifeInv, ConnStep, NEW c \in Conns, NEW ev \in {"in", "hup"},
           Handling(c, ev), HandleClose(c), UNCHANGED <<stale, out, sent, fin>>
    PROVE  LoopInv'
<1>1. Event(c, ev) /\ Handled(ev) /\ loop_pc' = loop_pc /\ functors' = functors BY DEF Handling, Handled
<1>2. LifeTypes /\ Grows BY ConnStepGrows DEF LifeInv
<1>3. CASE Closes(c) /\ aborted' = aborted /\ QueueInLoop(<<ConnectDestroyed(c)>>)
  <2>1. \A d \in connections \ connections' : d = c /\ ev \in {"in", "hup"} BY <1>3 DEF Closes
  <2>2. Activity' /\ active' \in Seq(ActiveChannels) BY <1>1, <2>1, HandledActivity
  <2>3. state'[c] # "kConnecting" /\ c \in down' BY <1>2, <1>3 DEF Closes, LifeTypes, TypeOK
  <2>4. ConnectDestroyed(c) \in SoundFunctors'
    BY <2>3 DEF ConnectDestroyed, Functor, SoundFunctors, Functors, Senders, Born
  <2>5. pending' \in Seq(SoundFunctors') /\ wakeupFd' \in BOOLEAN
    <3>1. QueueInLoop(IF TRUE THEN <<ConnectDestroyed(c)>> ELSE <<>>) BY <1>3
    <3> QED BY <1>2, <2>4, <3>1, QueueInLoopSound
  <2>6. functors' \in Seq(SoundFunctors') /\ loop_pc' \in {"handle", "hello", "functors"}
    BY <1>1, <1>2, SameFunctors
  <2>7. AssertsHoldUnlessOverwritten' BY <1>2, <1>3 DEF LifeInv, AssertsHoldUnlessOverwritten, Grows
  <2> QED BY <2>2, <2>5, <2>6, <2>7 DEF LoopInv, LoopPart
<1>4. CASE Rests /\ aborted' = TRUE /\ c \in stale /\ UNCHANGED <<pending, wakeupFd>>
  <2>1. connections' = connections /\ stale' = stale BY <1>4 DEF Rests, chan_vars
  <2>2. Activity' /\ active' \in Seq(ActiveChannels) BY <1>1, <2>1, HandledActivity
  <2>3. AssertsHoldUnlessOverwritten' BY <1>4, <2>1 DEF AssertsHoldUnlessOverwritten
  <2> QED BY <1>1, <1>2, <1>4, <2>2, <2>3, SameFunctors DEF LoopInv, LoopPart
<1> QED BY <1>1, <1>3, <1>4, HandleCloseCloses

\* A handler that closes nothing.
LEMMA HandlerKeepsLoop ==
    ASSUME LifeInv, ConnStep, NEW fd, NEW ev, Event(fd, ev), Handled(ev),
           loop_pc' \in {"handle", "hello", "functors"}, connections \subseteq connections',
           aborted' = aborted,
           pending' \in Seq(SoundFunctors') /\ wakeupFd' \in BOOLEAN
    PROVE  LoopInv'
<1>1. LifeTypes /\ Grows BY ConnStepGrows DEF LifeInv
<1>2. Activity' /\ active' \in Seq(ActiveChannels) BY HandledActivity
<1>3. functors' \in Seq(SoundFunctors') BY <1>1, SameFunctors DEF Handled
<1>4. AssertsHoldUnlessOverwritten' BY <1>1 DEF LifeInv, AssertsHoldUnlessOverwritten, Grows
<1> QED BY <1>2, <1>3, <1>4 DEF LoopInv, LoopPart

\* A step that leaves the channels to handle alone.
LEMMA OtherKeepsLoop ==
    ASSUME LifeInv, ConnStep, active' = active,
           loop_pc' \in {"handle", "hello", "functors"}, connections \subseteq connections',
           aborted' = aborted,
           pending' \in Seq(SoundFunctors') /\ wakeupFd' \in BOOLEAN,
           functors' \in Seq(SoundFunctors')
    PROVE  LoopInv'
<1>1. Grows BY ConnStepGrows DEF LifeInv
<1>2. Activity' /\ active' \in Seq(ActiveChannels) BY SameActivity
<1>3. AssertsHoldUnlessOverwritten' BY <1>1 DEF LifeInv, AssertsHoldUnlessOverwritten, Grows
<1> QED BY <1>2, <1>3 DEF LoopInv, LoopPart

LEMMA HandlersKeepLoop ==
    ASSUME LifeInv, ConnStep,
           \/ Poll \/ HandleWakeup \/ NewConnection \/ TakeFunctors
           \/ \E c \in Conns : HandleHup(c) \/ HandleHandshake(c) \/ SendHelloMessage(c) \/ HandleRead(c) \/ HandleWrite(c)
    PROVE  LoopInv'
<1>a. LifeTypes /\ Grows BY ConnStepGrows DEF LifeInv
<1>1. CASE Poll
  <2>1. Activity' /\ active' \in Seq(ActiveChannels) BY <1>1, PollActivity
  <2>2. loop_pc' = "handle" /\ UNCHANGED <<wakeupFd, pending, functors, aborted>> BY <1>1 DEF Poll
  <2>3. AssertsHoldUnlessOverwritten' BY <1>a, <2>2 DEF LifeInv, AssertsHoldUnlessOverwritten, Grows
  <2> QED BY <1>a, <2>1, <2>2, <2>3, SameFunctors DEF LoopInv, LoopPart
<1>2. CASE HandleWakeup
  <2>1. Event("wakeupFd", "in") /\ Handled("in") /\ loop_pc' = loop_pc BY <1>2 DEF HandleWakeup, Handling
  <2>2. wakeupFd' = FALSE /\ UNCHANGED <<pending, connections, aborted>> BY <1>2 DEF HandleWakeup, conn_vars
  <2> QED BY <1>a, <2>1, <2>2, SameFunctors, HandlerKeepsLoop
<1>3. CASE NewConnection
  <2>1. Event("acceptor", "in") /\ Handled("in") /\ loop_pc' = loop_pc BY <1>3 DEF NewConnection, Handling
  <2>2. connections \subseteq connections' /\ UNCHANGED <<wakeupFd, pending, aborted>> BY <1>3 DEF NewConnection
  <2> QED BY <1>a, <2>1, <2>2, SameFunctors, HandlerKeepsLoop
<1>4. CASE TakeFunctors
  <2>1. /\ functors' = pending /\ pending' = <<>> /\ loop_pc' = "functors" /\ active' = active
        /\ UNCHANGED <<wakeupFd, connections, aborted>>
    BY <1>4 DEF TakeFunctors, conn_vars
  <2>2. <<>> \in Seq(SoundFunctors') OBVIOUS
  <2> QED BY <1>a, <2>1, <2>2, SameFunctors, OtherKeepsLoop
<1>5. ASSUME NEW c \in Conns, HandleHup(c) PROVE LoopInv'
  <2>1. Handling(c, "hup") /\ HandleClose(c) /\ UNCHANGED <<stale, out, sent, fin>>
    BY <1>5 DEF HandleHup, sock_vars, ghosts
  <2> QED BY <2>1, CloseKeepsLoop
<1>6. ASSUME NEW c \in Conns, HandleHandshake(c) \/ SendHelloMessage(c) PROVE LoopInv'
  <2>1. Event(c, "in") /\ UNCHANGED <<connections, aborted>> BY <1>6 DEF HandleHandshake, SendHelloMessage
  <2>2. Born(c) BY <2>1, EventBorn
  <2>3. \/ UNCHANGED <<pending, wakeupFd>> \/ SendEffect(c)
    BY <1>6, HelloStep DEF Sends
  <2>4. pending' \in Seq(SoundFunctors') /\ wakeupFd' \in BOOLEAN
    BY <1>a, <2>2, <2>3, SameFunctors, SendQueues
  <2>5. CASE HandleHandshake(c)
    <3>1. active' = active /\ functors' = functors /\ loop_pc' = "hello" BY <2>5 DEF HandleHandshake
    <3> QED BY <1>a, <2>1, <2>4, <3>1, SameFunctors, OtherKeepsLoop
  <2>6. CASE SendHelloMessage(c)
    <3>1. Handled("in") /\ loop_pc' = "handle" BY <2>6 DEF SendHelloMessage
    <3> QED BY <2>1, <2>4, <3>1, HandlerKeepsLoop
  <2> QED BY <1>6, <2>5, <2>6
<1>7. ASSUME NEW c \in Conns, HandleRead(c) PROVE LoopInv'
  <2>1. Handling(c, "in") /\ UNCHANGED <<stale, sent, fin>> BY <1>7 DEF HandleRead, sock_vars, ghosts
  <2>2. CASE UNCHANGED <<wakeupFd, pending, connections, aborted>>
    <3>1. Event(c, "in") /\ Handled("in") /\ loop_pc' = loop_pc BY <2>1 DEF Handling
    <3> QED BY <1>a, <2>2, <3>1, SameFunctors, HandlerKeepsLoop
  <2>3. CASE HandleClose(c) /\ out' = out BY <2>1, <2>3, CloseKeepsLoop
  <2> QED BY <1>7, <2>2, <2>3 DEF HandleRead, conn_vars
<1>8. ASSUME NEW c \in Conns, HandleWrite(c) PROVE LoopInv'
  <2>1. /\ Event(c, "out") /\ Handled("out") /\ loop_pc' = loop_pc
        /\ UNCHANGED <<connections, aborted>>
    BY <1>8 DEF HandleWrite, Handling
  <2>2. Born(c)' BY <1>a, <2>1, EventBorn DEF Grows
  <2>3. PICK b \in BOOLEAN : QueueInLoop(IF b THEN <<WriteComplete(c)>> ELSE <<>>)
    BY <1>8 DEF HandleWrite
  <2>4. pending' \in Seq(SoundFunctors') /\ wakeupFd' \in BOOLEAN
    BY <1>a, <2>2, <2>3, WriteCompleteSound, QueueInLoopSound
  <2> QED BY <1>a, <2>1, <2>4, SameFunctors, HandlerKeepsLoop
<1> QED BY <1>1, <1>2, <1>3, <1>4, <1>5, <1>6, <1>7, <1>8

\* connectDestroyed finds the channel waiting for nothing.
LEMMA DestroyedWaitsForNothing ==
    ASSUME LifeInv, Running("connectDestroyed"), Head(functors).conn \notin stale
    PROVE  events[Head(functors).conn] = {}
<1> DEFINE c == Head(functors).conn
<1>1. LifeTypes BY DEF LifeInv
<1>2. c \in Conns /\ c \in down /\ Born(c) BY <1>1, HeadFunctor DEF SoundFunctors
<1>3. state[c] \notin {"kConnected", "kDisconnecting"} BY <1>2 DEF LifeInv, Agreement
<1>4. state[c] = "kDisconnected" BY <1>1, <1>2, <1>3 DEF LifeTypes, TypeOK, Born
<1> QED BY <1>2, <1>4 DEF LifeInv, Agreement

LEMMA FunctorsKeepLoop ==
    ASSUME LifeInv, ConnStep, RunSend \/ RunShutdown \/ RunWriteComplete \/ RunConnectDestroyed
    PROVE  LoopInv'
<1>a. LifeTypes /\ Grows BY ConnStepGrows DEF LifeInv
<1>b. PICK fn : Running(fn) BY DEF RunSend, RunShutdown, RunWriteComplete, RunConnectDestroyed
<1>c. /\ Head(functors).conn \in Conns /\ Born(Head(functors).conn)
      /\ functors' \in Seq(SoundFunctors')
  BY <1>a, <1>b, HeadFunctor, SoundStays
<1>d. active' = active /\ loop_pc' = loop_pc /\ connections' = connections /\ stale' = stale
  BY <1>b DEF Running, ghosts
<1>e. loop_pc' \in {"handle", "hello", "functors"} BY <1>a, <1>d, SameFunctors
<1>1. CASE RunSend
  <2>1. \/ UNCHANGED <<pending, wakeupFd>> \/ SendEffect(Head(functors).conn)
    BY <1>1, <1>a, RunSendStep DEF Sends
  <2>2. pending' \in Seq(SoundFunctors') /\ wakeupFd' \in BOOLEAN
    BY <1>a, <1>c, <2>1, SameFunctors, SendQueues
  <2>3. aborted' = aborted BY <1>1 DEF RunSend
  <2> QED BY <1>c, <1>d, <1>e, <2>2, <2>3, OtherKeepsLoop
<1>2. CASE UNCHANGED <<pending, wakeupFd, aborted>>
  BY <1>2, <1>a, <1>c, <1>d, <1>e, SameFunctors, OtherKeepsLoop
<1>3. CASE RunConnectDestroyed /\ aborted' # aborted
  <2>1. Running("connectDestroyed") /\ UNCHANGED <<pending, wakeupFd>> BY <1>3 DEF RunConnectDestroyed
  <2>2. events[Head(functors).conn] # {} BY <1>3 DEF RunConnectDestroyed
  <2>3. Head(functors).conn \in stale BY <2>1, <2>2, DestroyedWaitsForNothing
  <2>4. AssertsHoldUnlessOverwritten' BY <1>d, <2>3 DEF AssertsHoldUnlessOverwritten
  <2>5. Activity' /\ active' \in Seq(ActiveChannels) BY <1>d, SameActivity
  <2> QED BY <1>a, <1>c, <1>e, <2>1, <2>4, <2>5, SameFunctors DEF LoopInv, LoopPart
<1> QED BY <1>1, <1>2, <1>3 DEF RunSend, RunShutdown, RunWriteComplete, RunConnectDestroyed

\* What a thread pushes.
LEMMA QueuedSound ==
    ASSUME LifeTypes, Grows, NEW t \in Threads, QueueFunctor(t)
    PROVE  pending' \in Seq(SoundFunctors')
<1> DEFINE c == thr[t].conn
           f == IF thr[t].fn = "sendInLoop" THEN SendFunctor(c, t, accepted[t][c]) ELSE ShutdownFunctor(c, t)
<1>1. /\ c \in Conns /\ Born(c)
      /\ thr[t].fn = "sendInLoop" => accepted[t][c] # 0
  BY DEF QueueFunctor, LifeTypes, AtWork
<1>2. t \in Senders /\ accepted[t][c] \in Nat BY <1>1 DEF LifeTypes, TypeOK, Senders
<1> HIDE DEF c
<1>3. f \in SoundFunctors
  BY <1>1, <1>2 DEF SendFunctor, ShutdownFunctor, Functor, SoundFunctors, Functors
<1>4. pending' = Append(pending, f) BY DEF QueueFunctor, c
<1> HIDE DEF f
<1>5. pending \in Seq(SoundFunctors') /\ f \in SoundFunctors' BY <1>3, SameFunctors, SoundStays
<1> QED BY <1>4, <1>5, AppendProperties

LEMMA NextLoopInv == ASSUME LifeInv, [Next]_vars PROVE LoopInv'
<1>a. LifeTypes /\ ConnStep /\ Grows BY NextConnStep, ConnStepGrows DEF LifeInv
<1>1. CASE LoopStep BY <1>1, <1>a, HandlersKeepLoop, FunctorsKeepLoop DEF LoopStep
<1>2. ASSUME NEW t \in Threads, ThreadStep(t) \/ Push(t) PROVE LoopInv'
  <2>1. UNCHANGED <<loop_pc, active, functors, connections, aborted>>
    BY <1>2 DEF ThreadStep, Take, TakeWait, Send, QueueFunctor, Wakeup, Shutdown, ShutdownStore, Push,
                loop_vars, conn_vars
  <2>2. pending' \in Seq(SoundFunctors')
    <3>1. CASE QueueFunctor(t) BY <1>a, <3>1, QueuedSound
    <3>2. CASE pending' = pending BY <1>a, <3>2, SameFunctors
    <3> QED BY <1>2, <3>1, <3>2 DEF ThreadStep, Take, TakeWait, Send, Wakeup, Shutdown, ShutdownStore, Push, loop_vars
  <2>3. wakeupFd' \in BOOLEAN
    <3>1. wakeupFd' = TRUE \/ wakeupFd' = wakeupFd
      BY <1>2 DEF ThreadStep, Take, TakeWait, Send, QueueFunctor, Wakeup, Shutdown, ShutdownStore, Push, loop_vars
    <3> QED BY <1>a, <3>1, SameFunctors
  <2> QED BY <1>a, <2>1, <2>2, <2>3, SameFunctors, OtherKeepsLoop
<1>3. CASE UNCHANGED <<loop_vars, connections, aborted>>
  <2>1. UNCHANGED <<loop_pc, active, wakeupFd, pending, functors, connections, aborted>> BY <1>3 DEF loop_vars
  <2> QED BY <1>a, <2>1, SameFunctors, OtherKeepsLoop
<1>4. ASSUME NEW c \in Conns, Client(c) PROVE UNCHANGED <<loop_vars, connections, aborted>>
  BY <1>4 DEF Client, Connect, ClientSend, ClientRead, ClientFin, ClientReset, conn_vars
<1>5. CASE UNCHANGED vars BY <1>3, <1>5 DEF vars, conn_vars
<1> QED BY <1>1, <1>2, <1>3, <1>4, <1>5 DEF Next

-----------------------------------------------------------------------------
(* The threads *)

\* The other threads' part of the types is kept when neither they nor the queue nor
\* the numbers they have used change.
LEMMA SameThreads ==
    ASSUME LifeTypes, Grows, UNCHANGED <<queue, thr, closer>>,
           accepted' \in [Senders -> [Conns -> Nat]],
           \A t \in Threads : accepted'[t] = accepted[t]
    PROVE  ThreadPart'
<1>1. ThreadPart BY LifeTypesParts
<1>2. queue' \in Seq(SoundTasks') BY SameFunctors
<1>3. AtWork' BY <1>1 DEF ThreadPart, AtWork, Grows
<1> QED BY <1>1, <1>2, <1>3 DEF ThreadPart

\* A thread takes a step; what it does next is sound.
LEMMA ThreadMoves ==
    ASSUME LifeTypes, Grows, NEW t \in Threads, NEW r \in ThreadRecords,
           thr' = [thr EXCEPT ![t] = r],
           queue' \in Seq(SoundTasks'), accepted' \in [Senders -> [Conns -> Nat]],
           closer' \in [Conns -> Threads \cup {NoThread}],
           \A u \in Threads \ {t} : accepted'[u] = accepted[u],
           r.pc \notin {"take", "wait", "idle"} =>
             /\ r.conn \in Conns /\ state'[r.conn] # "kConnecting"
             /\ r.pc = "queue" /\ r.fn = "sendInLoop" => accepted'[t][r.conn] # 0
    PROVE  ThreadPart'
<1>1. thr \in [Threads -> ThreadRecords] /\ AtWork BY LifeTypesParts DEF ThreadPart
<1>2. thr' \in [Threads -> ThreadRecords] BY <1>1
<1>3. thr'[t] = r /\ \A u \in Threads \ {t} : thr'[u] = thr[u] BY <1>1
<1>4. ASSUME NEW u \in Threads, thr'[u].pc \notin {"take", "wait", "idle"}
      PROVE  /\ thr'[u].conn \in Conns /\ state'[thr'[u].conn] # "kConnecting"
             /\ thr'[u].pc = "queue" /\ thr'[u].fn = "sendInLoop" => accepted'[u][thr'[u].conn] # 0
  <2>1. CASE u = t BY <1>3, <1>4, <2>1
  <2>2. CASE u # t BY <1>1, <1>3, <1>4, <2>2 DEF AtWork, Grows, Born
  <2> QED BY <2>1, <2>2
<1> QED BY <1>2, <1>4 DEF ThreadPart, AtWork, Born

LEMMA ThreadPcRecord ==
    ASSUME LifeTypes, NEW t \in Threads,
           NEW step \in {"take", "wait", "idle", "send", "queue", "wakeup", "shutdown", "store"}
    PROVE  LET r == [thr[t] EXCEPT !.pc = step] IN
             /\ r \in ThreadRecords /\ r.pc = step /\ r.conn = thr[t].conn /\ r.fn = thr[t].fn
             /\ [thr EXCEPT ![t].pc = step] = [thr EXCEPT ![t] = r]
<1>1. thr \in [Threads -> ThreadRecords] BY LifeTypesParts DEF ThreadPart
<1>2. thr[t] \in ThreadRecords BY <1>1
<1> QED BY <1>1, <1>2 DEF ThreadRecords

LEMMA ThreadFnRecord ==
    ASSUME LifeTypes, NEW t \in Threads, NEW f \in {"sendInLoop", "shutdownInLoop"}
    PROVE  LET r == Thread("queue", thr[t].conn, thr[t].closing, f) IN
             /\ r \in ThreadRecords /\ r.pc = "queue" /\ r.conn = thr[t].conn /\ r.fn = f
             /\ [thr EXCEPT ![t].pc = "queue", ![t].fn = f] = [thr EXCEPT ![t] = r]
<1>1. thr \in [Threads -> ThreadRecords] BY LifeTypesParts DEF ThreadPart
<1>2. thr[t] \in ThreadRecords BY <1>1
<1> DEFINE r == Thread("queue", thr[t].conn, thr[t].closing, f)
           s == [[thr[t] EXCEPT !.pc = "queue"] EXCEPT !.fn = f]
<1>3. r \in ThreadRecords /\ r.pc = "queue" /\ r.conn = thr[t].conn /\ r.fn = f
  BY <1>2 DEF ThreadRecords, Thread
<1>4. s = r
  <2> DEFINE q == [thr[t] EXCEPT !.pc = "queue"]
  <2>1. q = Thread("queue", thr[t].conn, thr[t].closing, thr[t].fn) BY <1>2 DEF ThreadRecords, Thread
  <2> HIDE DEF q
  <2>2. [q EXCEPT !.fn = f] = r BY <2>1 DEF Thread
  <2> QED BY <2>2 DEF q
<1>5. [thr EXCEPT ![t].pc = "queue", ![t].fn = f] = [thr EXCEPT ![t] = s] BY <1>1
<1> QED BY <1>3, <1>4, <1>5

LEMMA DoneRecord ==
    ASSUME LifeTypes, NEW t \in Threads, Done(t)
    PROVE  \E r \in ThreadRecords : r.pc \in {"take", "idle"} /\ thr' = [thr EXCEPT ![t] = r]
<1> DEFINE r == Thread(IF t \in Workers THEN "take" ELSE "idle", NoConn, FALSE, "none")
<1>1. r \in ThreadRecords /\ r.pc \in {"take", "idle"} BY DEF Thread, ThreadRecords
<1>2. thr' = [thr EXCEPT ![t] = r] BY DEF Done
<1> QED BY <1>1, <1>2

\* ThreadPool::run: the frames of a born connection, and workers that wake up.
LEMMA RunTasksThreads ==
    ASSUME LifeTypes, Grows, NEW c \in Conns, Born(c), NEW fs \in Seq(Frames), RunTasks(c, fs),
           UNCHANGED <<accepted, closer>>
    PROVE  ThreadPart'
<1> DEFINE new == [i \in 1..Len(fs) |-> Task(fs[i], c)]
<1>1. Born(c)' BY DEF Grows
<1>2. \A i \in 1..Len(fs) : Task(fs[i], c) \in SoundTasks'
  <2>1. \A f \in Frames : Task(f, c) \in SoundTasks' BY <1>1 DEF Task, SoundTasks, Born
  <2> QED BY <2>1, LenProperties
<1>3. new \in Seq(SoundTasks')
  <2>1. new \in [1..Len(fs) -> SoundTasks'] BY <1>2
  <2>2. Len(fs) \in Nat OBVIOUS
  <2> HIDE DEF new
  <2> QED BY <2>1, <2>2
<1>4. queue' = queue \o new BY DEF RunTasks
<1> HIDE DEF new
<1>5. queue' \in Seq(SoundTasks') BY <1>3, <1>4, SameFunctors, ConcatProperties
<1>6. PICK woken : thr' = [t \in Threads |-> IF t \in woken THEN [thr[t] EXCEPT !.pc = "take"] ELSE thr[t]]
  BY DEF RunTasks
<1>7. ThreadPart BY LifeTypesParts
<1>8. \A t \in Threads : /\ [thr[t] EXCEPT !.pc = "take"] \in ThreadRecords
                         /\ [thr[t] EXCEPT !.pc = "take"].pc = "take"
  BY <1>7 DEF ThreadPart, ThreadRecords
<1>9. thr' \in [Threads -> ThreadRecords] BY <1>6, <1>7, <1>8 DEF ThreadPart
<1>10. \A t \in Threads : thr'[t] = thr[t] \/ thr'[t].pc = "take" BY <1>6, <1>8
<1>11. AtWork' BY <1>7, <1>10 DEF ThreadPart, AtWork, Grows, Born
<1> QED BY <1>5, <1>7, <1>9, <1>11 DEF ThreadPart

LEMMA ThreadStepThreads ==
    ASSUME LifeInv, ConnStep, NEW t \in Threads, ThreadStep(t) \/ Push(t)
    PROVE  ThreadPart'
<1>a. LifeTypes /\ Grows BY ConnStepGrows DEF LifeInv
<1>b. ThreadPart BY <1>a, LifeTypesParts
<1>c. queue \in Seq(SoundTasks') BY <1>a, SameFunctors
<1>d. /\ thr[t].pc \notin {"take", "wait", "idle"} => thr[t].conn \in Conns /\ Born(thr[t].conn)
      /\ t \in Senders /\ accepted \in [Senders -> [Conns -> Nat]]
  BY <1>b DEF ThreadPart, AtWork, Senders
<1>1. CASE Take(t)
  <2>1. queue \in Seq(SoundTasks) /\ queue # <<>> BY <1>1, <1>a DEF Take, LifeTypes
  <2>2. Head(queue) \in SoundTasks /\ Tail(queue) \in Seq(SoundTasks) BY <2>1, HeadTailProperties
  <2>3. Head(queue).conn \in Conns /\ Born(Head(queue).conn) BY <2>2 DEF SoundTasks
  <2>4. queue' \in Seq(SoundTasks') BY <1>1, <1>a, <2>2, SoundStays DEF Take
  <2> DEFINE r == Thread("send", Head(queue).conn, Head(queue).frame = "close", "none")
  <2>5. r \in ThreadRecords /\ r.pc = "send" /\ r.conn = Head(queue).conn
    <3>1. (Head(queue).frame = "close") \in BOOLEAN OBVIOUS
    <3> QED BY <2>3, <3>1 DEF Thread, ThreadRecords
  <2>6. thr' = [thr EXCEPT ![t] = r] /\ UNCHANGED <<accepted, closer>> BY <1>1 DEF Take, ghosts
  <2> HIDE DEF r
  <2>7. state'[r.conn] # "kConnecting" BY <1>a, <2>3, <2>5 DEF Grows, Born
  <2> QED BY <1>a, <1>b, <2>3, <2>4, <2>5, <2>6, <2>7, ThreadMoves DEF ThreadPart
<1>2. CASE Push(t)
  <2>1. PICK c \in greeted : thr' = [thr EXCEPT ![t] = Thread("send", c, FALSE, "none")] BY <1>2 DEF Push
  <2>2. c \in Conns /\ Born(c) BY <1>a DEF LifeTypes, TypeOK, Unborn
  <2> DEFINE r == Thread("send", c, FALSE, "none")
  <2>3. r \in ThreadRecords /\ r.pc = "send" /\ r.conn = c BY <2>2 DEF Thread, ThreadRecords
  <2>4. thr' = [thr EXCEPT ![t] = r] /\ UNCHANGED <<accepted, closer, queue>> BY <1>2, <2>1 DEF Push, ghosts
  <2> HIDE DEF r
  <2>5. state'[r.conn] # "kConnecting" BY <1>a, <2>2, <2>3 DEF Grows, Born
  <2> QED BY <1>a, <1>b, <1>c, <2>2, <2>3, <2>4, <2>5, ThreadMoves DEF ThreadPart
<1>3. ASSUME NEW r \in ThreadRecords, r.pc \in {"take", "idle"}, thr' = [thr EXCEPT ![t] = r],
             UNCHANGED <<queue, accepted, closer>>
      PROVE  ThreadPart'
  BY <1>3, <1>a, <1>b, <1>c, ThreadMoves DEF ThreadPart
<1>4. ASSUME Done(t), UNCHANGED <<queue, accepted, closer>> PROVE ThreadPart'
  BY <1>3, <1>4, <1>a, DoneRecord
<1>5. ASSUME NEW step \in {"wait", "wakeup", "shutdown", "store"}, thr' = [thr EXCEPT ![t].pc = step],
             step # "wait" => thr[t].pc \notin {"take", "wait", "idle"},
             UNCHANGED <<queue, accepted, closer>>
      PROVE  ThreadPart'
  <2> DEFINE r == [thr[t] EXCEPT !.pc = step]
  <2>1. /\ r \in ThreadRecords /\ r.pc = step /\ r.conn = thr[t].conn
        /\ thr' = [thr EXCEPT ![t] = r]
    <3>1. step \in {"take", "wait", "idle", "send", "queue", "wakeup", "shutdown", "store"} BY <1>5
    <3> QED BY <1>5, <1>a, <3>1, ThreadPcRecord
  <2> HIDE DEF r
  <2>2. step # "wait" => r.conn \in Conns /\ state'[r.conn] # "kConnecting"
    BY <1>5, <1>a, <1>d, <2>1 DEF Grows, Born
  <2> QED BY <1>5, <1>a, <1>b, <1>c, <2>1, <2>2, ThreadMoves DEF ThreadPart
<1>6. CASE TakeWait(t) BY <1>5, <1>6 DEF TakeWait, Goto, ghosts
<1>7. CASE Send(t)
  <2>1. thr[t].pc = "send" /\ UNCHANGED <<queue, closer>> BY <1>7 DEF Send
  <2>2. CASE Goto(t, "shutdown") /\ UNCHANGED accepted BY <1>5, <2>1, <2>2 DEF Goto
  <2>3. CASE Done(t) /\ UNCHANGED accepted BY <1>4, <2>1, <2>3
  <2>4. CASE /\ accepted' = [accepted EXCEPT ![t][thr[t].conn] = @ + 1]
             /\ thr' = [thr EXCEPT ![t].pc = "queue", ![t].fn = "sendInLoop"]
    <3> DEFINE r == Thread("queue", thr[t].conn, thr[t].closing, "sendInLoop")
    <3>1. /\ r \in ThreadRecords /\ r.pc = "queue" /\ r.conn = thr[t].conn /\ r.fn = "sendInLoop"
          /\ thr' = [thr EXCEPT ![t] = r]
      BY <1>a, <2>4, ThreadFnRecord
    <3>2. thr[t].conn \in Conns /\ state'[thr[t].conn] # "kConnecting" BY <1>a, <1>d, <2>1 DEF Grows, Born
    <3> HIDE DEF r
    <3>3. /\ accepted' \in [Senders -> [Conns -> Nat]]
          /\ \A u \in Threads \ {t} : accepted'[u] = accepted[u]
          /\ accepted'[t][thr[t].conn] # 0
      BY <1>d, <2>4, <3>2 DEF Senders
    <3> QED BY <1>a, <1>b, <1>c, <2>1, <3>1, <3>2, <3>3, ThreadMoves DEF ThreadPart
  <2> QED BY <1>7, <2>2, <2>3, <2>4 DEF Send
<1>8. CASE QueueFunctor(t) BY <1>5, <1>8 DEF QueueFunctor, Goto, ghosts
<1>9. CASE Wakeup(t) BY <1>4, <1>5, <1>9 DEF Wakeup, Goto, ghosts
<1>10. CASE Shutdown(t) BY <1>4, <1>5, <1>10 DEF Shutdown, Goto, ghosts
<1>11. CASE ShutdownStore(t)
  <2>1. /\ thr[t].pc = "store" /\ UNCHANGED <<queue, accepted>>
        /\ thr' = [thr EXCEPT ![t].pc = "queue", ![t].fn = "shutdownInLoop"]
        /\ closer' = [closer EXCEPT ![thr[t].conn] = t]
    BY <1>11 DEF ShutdownStore
  <2> DEFINE r == Thread("queue", thr[t].conn, thr[t].closing, "shutdownInLoop")
  <2>2. /\ r \in ThreadRecords /\ r.pc = "queue" /\ r.conn = thr[t].conn /\ r.fn = "shutdownInLoop"
        /\ thr' = [thr EXCEPT ![t] = r]
    BY <1>a, <2>1, ThreadFnRecord
  <2>3. thr[t].conn \in Conns /\ state'[thr[t].conn] # "kConnecting" BY <1>a, <1>d, <2>1 DEF Grows, Born
  <2> HIDE DEF r
  <2>4. closer' \in [Conns -> Threads \cup {NoThread}] BY <1>b, <2>1 DEF ThreadPart
  <2>5. queue' \in Seq(SoundTasks') /\ accepted' \in [Senders -> [Conns -> Nat]] BY <1>c, <1>d, <2>1
  <2>6. \A u \in Threads \ {t} : accepted'[u] = accepted[u] BY <2>1
  <2> QED BY <1>a, <2>2, <2>3, <2>4, <2>5, <2>6, ThreadMoves
<1> QED BY <1>1, <1>2, <1>6, <1>7, <1>8, <1>9, <1>10, <1>11 DEF ThreadStep

LEMMA NextThreadPart == ASSUME LifeInv, [Next]_vars PROVE ThreadPart'
<1>a. LifeTypes /\ ConnStep /\ Grows BY NextConnStep, ConnStepGrows DEF LifeInv
<1>b. accepted \in [Senders -> [Conns -> Nat]] BY <1>a DEF LifeTypes, TypeOK
<1>1. CASE UNCHANGED <<queue, thr, closer, accepted>> BY <1>1, <1>a, <1>b, SameThreads
<1>2. CASE Poll \/ HandleWakeup \/ NewConnection \/ TakeFunctors
  BY <1>1, <1>2 DEF Poll, HandleWakeup, NewConnection, TakeFunctors, ghosts
<1>3. CASE RunSend \/ RunShutdown \/ RunWriteComplete \/ RunConnectDestroyed
  BY <1>1, <1>3 DEF RunSend, RunShutdown, RunWriteComplete, RunConnectDestroyed, Running, ghosts
<1>4. ASSUME NEW c \in Conns, HandleHup(c) \/ HandleWrite(c) PROVE ThreadPart'
  BY <1>1, <1>4 DEF HandleHup, HandleWrite, ghosts
<1>5. ASSUME NEW c \in Conns, HandleHandshake(c) \/ SendHelloMessage(c) PROVE ThreadPart'
  <2>1. UNCHANGED <<queue, thr, closer>> BY <1>5 DEF HandleHandshake, SendHelloMessage
  <2>2. CASE LoopSend(c) BY <1>a, <2>1, <2>2, LoopSendEffect, SameThreads
  <2>3. CASE accepted' = accepted BY <1>1, <2>1, <2>3
  <2> QED BY <1>5, <2>2, <2>3 DEF HandleHandshake, SendHelloMessage
<1>6. ASSUME NEW c \in Conns, HandleRead(c) PROVE ThreadPart'
  <2>1. UNCHANGED <<accepted, closer>> /\ Event(c, "in") BY <1>6 DEF HandleRead, Handling, ghosts
  <2>2. CASE UNCHANGED <<queue, thr>> BY <1>1, <2>1, <2>2
  <2>3. CASE c \in greeted /\ RunTasks(c, rx[c])
    <3>1. Born(c) /\ rx[c] \in Seq(Frames) BY <1>a, <2>3 DEF LifeTypes, Unborn
    <3> QED BY <1>a, <2>1, <2>3, <3>1, RunTasksThreads
  <2> QED BY <1>6, <2>2, <2>3 DEF HandleRead
<1>7. ASSUME NEW t \in Threads, ThreadStep(t) \/ Push(t) PROVE ThreadPart'
  BY <1>7, <1>a, ThreadStepThreads
<1>8. ASSUME NEW c \in Conns, Client(c) PROVE ThreadPart'
  BY <1>1, <1>8 DEF Client, Connect, ClientSend, ClientRead, ClientFin, ClientReset, ghosts
<1>9. CASE UNCHANGED vars BY <1>1, <1>9 DEF vars, ghosts
<1> QED BY <1>2, <1>3, <1>4, <1>5, <1>6, <1>7, <1>8, <1>9 DEF Next, LoopStep

-----------------------------------------------------------------------------
(* The peers, and the whole invariant *)

LEMMA NextPeerTypes ==
    ASSUME LifeInv, [Next]_vars
    PROVE  /\ aborted' \in BOOLEAN
           /\ backlog' \in SUBSET Conns /\ greeted' \in SUBSET Conns
           /\ peer_fin' \in SUBSET Conns /\ reset' \in SUBSET Conns /\ reset \subseteq reset'
           /\ rx' \in [Conns -> Seq(Frames \cup {"handshake"})]
           /\ frames' \in [Conns -> Seq(Frames \cup {"handshake"})]
<1>a. PeerPart BY LifeTypesParts DEF LifeInv
<1> DEFINE Words == Seq(Frames \cup {"handshake"})
<1>b. /\ aborted \in BOOLEAN /\ backlog \in SUBSET Conns /\ greeted \in SUBSET Conns
      /\ peer_fin \in SUBSET Conns /\ reset \in SUBSET Conns
      /\ rx \in [Conns -> Words] /\ frames \in [Conns -> Words]
  BY <1>a DEF PeerPart
<1>c. <<>> \in Words /\ <<"handshake">> \in Words /\ \A q \in Words, f \in Frames : Append(q, f) \in Words
  OBVIOUS
<1> HIDE DEF Words
<1>1. aborted' \in BOOLEAN
  <2>1. aborted' = aborted \/ aborted' = TRUE
    <3>1. CASE Poll \/ HandleWakeup \/ NewConnection \/ TakeFunctors
      BY <3>1 DEF Poll, HandleWakeup, NewConnection, TakeFunctors
    <3>2. CASE RunSend \/ RunShutdown \/ RunWriteComplete \/ RunConnectDestroyed
      BY <3>2 DEF RunSend, RunShutdown, RunWriteComplete, RunConnectDestroyed
    <3>3. ASSUME NEW c \in Conns, \/ HandleHup(c) \/ HandleHandshake(c) \/ SendHelloMessage(c)
                                  \/ HandleRead(c) \/ HandleWrite(c)
          PROVE  aborted' = aborted \/ aborted' = TRUE
      BY <3>3 DEF HandleHup, HandleHandshake, SendHelloMessage, HandleRead, HandleWrite, HandleClose
    <3>4. ASSUME NEW t \in Threads, ThreadStep(t) \/ Push(t) PROVE aborted' = aborted
      BY <3>4 DEF ThreadStep, Take, TakeWait, Send, QueueFunctor, Wakeup, Shutdown, ShutdownStore, Push
    <3>5. ASSUME NEW c \in Conns, Client(c) PROVE aborted' = aborted
      BY <3>5 DEF Client, Connect, ClientSend, ClientRead, ClientFin, ClientReset
    <3>6. CASE UNCHANGED vars BY <3>6 DEF vars
    <3> QED BY <3>1, <3>2, <3>3, <3>4, <3>5, <3>6 DEF Next, LoopStep
  <2> QED BY <1>b, <2>1
<1>2. CASE UNCHANGED <<peer_vars, greeted, reset>> BY <1>1, <1>2, <1>b DEF peer_vars, Words
<1>3. CASE \/ Poll \/ HandleWakeup \/ TakeFunctors
           \/ RunSend \/ RunShutdown \/ RunWriteComplete \/ RunConnectDestroyed
  BY <1>2, <1>3 DEF Poll, HandleWakeup, TakeFunctors, RunSend, RunShutdown, RunWriteComplete,
                    RunConnectDestroyed, Running, sock_vars
<1>4. CASE NewConnection
  <2>1. backlog' \subseteq backlog /\ UNCHANGED <<rx, frames, peer_fin, greeted, reset>>
    BY <1>4 DEF NewConnection, sock_vars
  <2> QED BY <1>1, <1>b, <2>1 DEF Words
<1>5. ASSUME NEW c \in Conns, HandleHup(c) \/ SendHelloMessage(c) \/ HandleWrite(c)
      PROVE  UNCHANGED <<peer_vars, greeted, reset>>
  BY <1>5 DEF HandleHup, SendHelloMessage, HandleWrite, sock_vars
<1>6. ASSUME NEW c \in Conns, HandleHandshake(c) \/ HandleRead(c)
      PROVE  /\ UNCHANGED <<backlog, frames, peer_fin, reset>>
             /\ greeted' \in SUBSET Conns /\ rx' \in [Conns -> Words]
  BY <1>6, <1>b, <1>c DEF HandleHandshake, HandleRead, sock_vars
<1>7. ASSUME NEW t \in Threads, ThreadStep(t) \/ Push(t)
      PROVE  UNCHANGED <<peer_vars, greeted, reset>>
  BY <1>7 DEF ThreadStep, Take, TakeWait, Send, QueueFunctor, Wakeup, Shutdown, ShutdownStore, Push, sock_vars
<1>8. ASSUME NEW c \in Conns, Connect(c) \/ ClientSend(c)
      PROVE  /\ UNCHANGED <<peer_fin, greeted, reset>>
             /\ backlog' \in SUBSET Conns /\ rx' \in [Conns -> Words] /\ frames' \in [Conns -> Words]
  <2>1. CASE Connect(c) BY <2>1, <1>b, <1>c DEF Connect, sock_vars
  <2>2. CASE ClientSend(c)
    <3>1. PICK f \in Frames : /\ rx' = [rx EXCEPT ![c] = Append(@, f)]
                              /\ frames' = [frames EXCEPT ![c] = Append(@, f)]
      BY <2>2 DEF ClientSend
    <3>2. Append(rx[c], f) \in Words /\ Append(frames[c], f) \in Words BY <1>b, <1>c
    <3> QED BY <1>b, <2>2, <3>1, <3>2 DEF ClientSend, sock_vars
  <2> QED BY <1>8, <2>1, <2>2
<1>9. ASSUME NEW c \in Conns, ClientRead(c) \/ ClientFin(c) \/ ClientReset(c)
      PROVE  /\ UNCHANGED <<backlog, rx, frames, greeted>> /\ reset \subseteq reset'
             /\ peer_fin' \in SUBSET Conns /\ reset' \in SUBSET Conns
  BY <1>9, <1>b DEF ClientRead, ClientFin, ClientReset, peer_vars, sock_vars
<1>10. CASE UNCHANGED vars BY <1>2, <1>10 DEF vars, sock_vars
<1> QED BY <1>1, <1>2, <1>3, <1>4, <1>5, <1>6, <1>7, <1>8, <1>9, <1>10, <1>b
  DEF Next, LoopStep, Client, Words

\* Only the acceptor gives birth, and the unborn have nothing.
LEMMA Births ==
    ASSUME LifeInv, ConnStep
    PROVE  \A c \in Conns : /\ Born(c)' /\ ~Born(c) => c \in backlog \ backlog'
                            /\ (~Born(c))' => c \notin down' /\ out'[c] = <<>>
<1> USE DEF LifeInv, LifeTypes, TypeOK, Unborn, Born, Agreement
<1> DEFINE Goal == \A c \in Conns : /\ Born(c)' /\ ~Born(c) => c \in backlog \ backlog'
                                    /\ (~Born(c))' => c \notin down' /\ out'[c] = <<>>
<1>1. CASE Rests BY <1>1 DEF Rests, chan_vars
<1>2. ASSUME NEW c \in Conns, Sends(c) PROVE Goal BY <1>2 DEF Sends, SendEffect
<1>3. ASSUME NEW c \in Conns, Drains(c) PROVE Goal BY <1>3 DEF Drains
<1>4. ASSUME NEW c \in Conns, Closes(c) PROVE Goal BY <1>4 DEF Closes
<1>5. ASSUME NEW c \in Conns, Accepts(c) PROVE Goal BY <1>5 DEF Accepts
<1>6. ASSUME NEW c \in Conns, ShutsDown(c) \/ Stores(c) \/ Removes(c) PROVE Goal
  BY <1>6 DEF ShutsDown, Stores, Removes
<1> QED BY <1>1, <1>2, <1>3, <1>4, <1>5, <1>6 DEF ConnStep

LEMMA KeepsUnborn ==
    ASSUME LifeInv, ConnStep,
           \A c \in Conns : /\ c \in backlog' => c \in backlog \/ frames[c] = <<>>
                            /\ c \in backlog' \/ frames[c] # <<>> => frames'[c] # <<>>
                            /\ c \in greeted' => Born(c) /\ rx'[c] \in Seq(Frames)
    PROVE  Unborn'
<1>1. Grows BY ConnStepGrows DEF LifeInv
<1> SUFFICES ASSUME NEW c \in Conns
             PROVE  /\ frames'[c] = <<>> \/ c \in backlog' => (~Born(c))'
                    /\ c \in backlog' => frames'[c] # <<>>
                    /\ c \in greeted' => Born(c)' /\ rx'[c] \in Seq(Frames)
                    /\ (~Born(c))' => c \notin down' /\ out'[c] = <<>>
  BY DEF Unborn
<1>2. /\ Born(c)' /\ ~Born(c) => c \in backlog \ backlog'
      /\ (~Born(c))' => c \notin down' /\ out'[c] = <<>>
  BY Births
<1>3. /\ frames[c] = <<>> \/ c \in backlog => ~Born(c)
      /\ c \in backlog => frames[c] # <<>>
  BY DEF LifeInv, LifeTypes, Unborn
<1>4. Born(c) => Born(c)' BY <1>1 DEF Grows
<1> HIDE DEF Born
<1> QED BY <1>2, <1>3, <1>4

LEMMA NextUnborn == ASSUME LifeInv, [Next]_vars PROVE Unborn'
<1>a. ConnStep BY NextConnStep
<1>b. /\ backlog \in SUBSET Conns /\ greeted \in SUBSET Conns
      /\ rx \in [Conns -> Seq(Frames \cup {"handshake"})]
      /\ frames \in [Conns -> Seq(Frames \cup {"handshake"})]
      /\ \A c \in Conns : /\ c \in greeted => Born(c) /\ rx[c] \in Seq(Frames)
                          /\ frames[c] = <<>> \/ c \in backlog => ~Born(c)
                          /\ c \in backlog => frames[c] # <<>>
  BY DEF LifeInv, LifeTypes, TypeOK, Unborn
<1>1. ASSUME backlog' \subseteq backlog, UNCHANGED <<frames, rx, greeted>> PROVE Unborn'
  BY <1>1, <1>a, <1>b, KeepsUnborn
<1>2. CASE \/ Poll \/ HandleWakeup \/ TakeFunctors \/ NewConnection
           \/ RunSend \/ RunShutdown \/ RunWriteComplete \/ RunConnectDestroyed
  BY <1>1, <1>2 DEF Poll, HandleWakeup, TakeFunctors, NewConnection, RunSend, RunShutdown,
                    RunWriteComplete, RunConnectDestroyed, Running, peer_vars, sock_vars
<1>3. ASSUME NEW c \in Conns, HandleHup(c) \/ SendHelloMessage(c) \/ HandleWrite(c) PROVE Unborn'
  BY <1>1, <1>3 DEF HandleHup, SendHelloMessage, HandleWrite, peer_vars, sock_vars
<1>4. ASSUME NEW c \in Conns, HandleHandshake(c) PROVE Unborn'
  <2>1. /\ rx' = [rx EXCEPT ![c] = <<>>] /\ greeted' = greeted \cup {c}
        /\ UNCHANGED <<frames, backlog>> /\ Event(c, "in")
    BY <1>4 DEF HandleHandshake
  <2>2. Born(c) /\ <<>> \in Seq(Frames) BY <2>1, EventBorn
  <2>3. \A d \in Conns : rx'[d] = IF d = c THEN <<>> ELSE rx[d] BY <1>b, <2>1
  <2>4. \A d \in Conns : d \in greeted' => Born(d) /\ rx'[d] \in Seq(Frames) BY <1>b, <2>1, <2>2, <2>3
  <2> QED BY <1>a, <1>b, <2>1, <2>4, KeepsUnborn
<1>5. ASSUME NEW c \in Conns, HandleRead(c) PROVE Unborn'
  <2>1. UNCHANGED <<frames, backlog, greeted>> BY <1>5 DEF HandleRead, sock_vars
  <2>2. rx' = rx \/ rx' = [rx EXCEPT ![c] = <<>>] BY <1>5 DEF HandleRead
  <2>3. \A d \in Conns : rx'[d] \in {<<>>, rx[d]} BY <1>b, <2>2
  <2>4. <<>> \in Seq(Frames) OBVIOUS
  <2>5. \A d \in Conns : d \in greeted' => Born(d) /\ rx'[d] \in Seq(Frames) BY <1>b, <2>1, <2>3, <2>4
  <2> QED BY <1>a, <1>b, <2>1, <2>5, KeepsUnborn
<1>6. ASSUME NEW t \in Threads, ThreadStep(t) \/ Push(t) PROVE Unborn'
  <2>1. UNCHANGED <<peer_vars, greeted>>
    BY <1>6 DEF ThreadStep, Take, TakeWait, Send, QueueFunctor, Wakeup, Shutdown, ShutdownStore, Push, sock_vars
  <2> QED BY <1>1, <2>1 DEF peer_vars
<1>7. ASSUME NEW c \in Conns, Connect(c) PROVE Unborn'
  <2>1. /\ frames[c] = <<>> /\ frames' = [frames EXCEPT ![c] = <<"handshake">>]
        /\ rx' = [rx EXCEPT ![c] = <<"handshake">>] /\ backlog' = backlog \cup {c} /\ greeted' = greeted
    BY <1>7 DEF Connect, sock_vars
  <2>2. c \notin greeted BY <1>b, <2>1
  <2>3. \A d \in Conns : /\ frames'[d] = IF d = c THEN <<"handshake">> ELSE frames[d]
                         /\ d # c => rx'[d] = rx[d]
    BY <1>b, <2>1
  <2>4. <<"handshake">> # <<>> OBVIOUS
  <2>5. \A d \in Conns : d \in greeted' => Born(d) /\ rx'[d] \in Seq(Frames) BY <1>b, <2>1, <2>2, <2>3
  <2>6. \A d \in Conns : d \in backlog' => d \in backlog \/ frames[d] = <<>> BY <2>1
  <2>7. \A d \in Conns : d \in backlog' \/ frames[d] # <<>> => frames'[d] # <<>> BY <1>b, <2>1, <2>3, <2>4
  <2> QED BY <1>a, <2>5, <2>6, <2>7, KeepsUnborn
<1>8. ASSUME NEW c \in Conns, ClientSend(c) PROVE Unborn'
  <2>1. PICK f \in Frames : /\ rx' = [rx EXCEPT ![c] = Append(@, f)]
                            /\ frames' = [frames EXCEPT ![c] = Append(@, f)]
    BY <1>8 DEF ClientSend
  <2>2. backlog' = backlog /\ greeted' = greeted BY <1>8 DEF ClientSend, sock_vars
  <2>3. \A d \in Conns : /\ frames'[d] = IF d = c THEN Append(frames[c], f) ELSE frames[d]
                         /\ rx'[d] = IF d = c THEN Append(rx[c], f) ELSE rx[d]
    BY <1>b, <2>1
  <2>4. Append(frames[c], f) # <<>>
    <3>1. frames[c] \in Seq(Frames \cup {"handshake"}) BY <1>b
    <3> QED BY <3>1, AppendProperties
  <2>5. rx[c] \in Seq(Frames) => Append(rx[c], f) \in Seq(Frames) BY AppendProperties
  <2>6. \A d \in Conns : d \in greeted' => Born(d) /\ rx'[d] \in Seq(Frames) BY <1>b, <2>2, <2>3, <2>5
  <2>7. \A d \in Conns : d \in backlog' \/ frames[d] # <<>> => frames'[d] # <<>> BY <1>b, <2>2, <2>3, <2>4
  <2> QED BY <1>a, <2>2, <2>6, <2>7, KeepsUnborn
<1>9. ASSUME NEW c \in Conns, ClientRead(c) \/ ClientFin(c) \/ ClientReset(c) PROVE Unborn'
  BY <1>1, <1>9 DEF ClientRead, ClientFin, ClientReset, peer_vars, sock_vars
<1>10. CASE UNCHANGED vars BY <1>1, <1>10 DEF vars, peer_vars, sock_vars
<1> QED BY <1>2, <1>3, <1>4, <1>5, <1>6, <1>7, <1>8, <1>9, <1>10 DEF Next, LoopStep, Client

LEMMA InitLifeInv == ASSUME Init PROVE LifeInv
<1>1. ConnPart
  <2>1. \A c \in Conns : sent[c] = <<>> /\ drained[c] = 0 BY DEF Init
  <2>2. SocketRoom BY <2>1, ReactorAssumption DEF SocketRoom
  <2>3. IsFiniteSet(polled) BY FS_EmptySet DEF Init
  <2> QED BY <2>2, <2>3 DEF Init, ConnPart
<1>2. LoopPart
  <2>1. <<>> \in Seq(SoundFunctors) /\ <<>> \in Seq(ActiveChannels) OBVIOUS
  <2> QED BY <2>1 DEF Init, LoopPart
<1>3. ThreadPart
  <2>1. \A t \in Threads : /\ thr[t] = Thread(IF t \in Workers THEN "take" ELSE "idle", NoConn, FALSE, "none")
                           /\ thr[t] \in ThreadRecords /\ thr[t].pc \in {"take", "idle"}
    BY DEF Init, Thread, ThreadRecords
  <2>2. thr \in [Threads -> ThreadRecords] BY <2>1 DEF Init
  <2>3. AtWork BY <2>1 DEF AtWork
  <2>4. <<>> \in Seq(SoundTasks) OBVIOUS
  <2> QED BY <2>2, <2>3, <2>4 DEF Init, ThreadPart
<1>4. Unborn BY DEF Init, Unborn, Born
<1>5. PeerPart
  <2>1. <<>> \in Seq(Frames \cup {"handshake"}) OBVIOUS
  <2> QED BY <1>4, <2>1 DEF Init, PeerPart
<1>6. LifeTypes BY <1>1, <1>2, <1>3, <1>5, LifeTypesParts
<1>7. Agreement /\ WritesBuffer BY DEF Init, Agreement, WritesBuffer, Writing, Born
<1>8. Activity
  <2>1. active = <<>> BY DEF Init
  <2>2. DOMAIN active = {} BY <2>1
  <2> QED BY <2>2 DEF Activity
<1>9. AssertsHoldUnlessOverwritten /\ FinAfterBuffer
  BY DEF Init, AssertsHoldUnlessOverwritten, FinAfterBuffer
<1> QED BY <1>6, <1>7, <1>8, <1>9 DEF LifeInv

LEMMA NextLifeInv == ASSUME LifeInv, [Next]_vars PROVE LifeInv'
<1>1. ConnStep BY NextConnStep
<1>2. LoopInv' BY NextLoopInv
<1>3. ThreadPart' BY NextThreadPart
<1>4. PeerPart' BY NextPeerTypes, NextUnborn DEF PeerPart
<1>5. Agreement' /\ WritesBuffer' /\ FinAfterBuffer' BY <1>1, NextPeerTypes, NextChannels
<1>6. ConnPart'
  <2>1. CASE drained' = drained BY <1>1, <2>1, NextConnPart
  <2>2. ASSUME NEW c \in Conns, ClientRead(c) PROVE ConnPart' BY <2>2, ReadConnPart
  <2>3. CASE \/ Poll \/ HandleWakeup \/ TakeFunctors \/ NewConnection
             \/ RunSend \/ RunShutdown \/ RunWriteComplete \/ RunConnectDestroyed
    BY <2>1, <2>3 DEF Poll, HandleWakeup, TakeFunctors, NewConnection, RunSend, RunShutdown,
                      RunWriteComplete, RunConnectDestroyed, Running, peer_vars
  <2>4. ASSUME NEW c \in Conns, \/ HandleHup(c) \/ HandleHandshake(c) \/ SendHelloMessage(c)
                                \/ HandleRead(c) \/ HandleWrite(c)
        PROVE  drained' = drained
    BY <2>4 DEF HandleHup, HandleHandshake, SendHelloMessage, HandleRead, HandleWrite, peer_vars
  <2>5. ASSUME NEW t \in Threads, ThreadStep(t) \/ Push(t) PROVE drained' = drained
    BY <2>5 DEF ThreadStep, Take, TakeWait, Send, QueueFunctor, Wakeup, Shutdown, ShutdownStore, Push, peer_vars
  <2>6. ASSUME NEW c \in Conns, Connect(c) \/ ClientSend(c) \/ ClientFin(c) \/ ClientReset(c)
        PROVE  drained' = drained
    BY <2>6 DEF Connect, ClientSend, ClientFin, ClientReset, peer_vars
  <2>7. CASE UNCHANGED vars BY <2>1, <2>7 DEF vars, peer_vars
  <2> QED BY <2>1, <2>2, <2>3, <2>4, <2>5, <2>6, <2>7 DEF Next, LoopStep, Client
<1>7. LifeTypes' BY <1>2, <1>3, <1>4, <1>6, LifeTypesNext DEF LoopInv
<1> QED BY <1>2, <1>5, <1>7 DEF LifeInv, LoopInv

LEMMA LifeInvHolds == Spec => []LifeInv
<1>1. Init => LifeInv BY InitLifeInv
<1>2. LifeInv /\ [Next]_vars => LifeInv' BY NextLifeInv
<1> QED BY <1>1, <1>2, PTL DEF Spec

\* Every variable keeps its type: the loop never runs a functor or a frame of
\* another kind, and no thread works for a connection there is not.
THEOREM ReactorTypes == Spec => []TypeOK
<1>1. LifeInv => TypeOK BY DEF LifeInv, LifeTypes
<1> QED BY <1>1, LifeInvHolds, PTL

\* shutdownInLoop never closes the sending side of an open connection over bytes
\* that sendInLoop buffered, wherever shutdown() comes between the loop's steps:
\* as long as the connection is up, the channel waits for POLLOUT exactly when
\* bytes are buffered.
THEOREM FinWaitsForBuffer == Spec => []FinAfterBuffer
<1>1. LifeInv => FinAfterBuffer BY DEF LifeInv
<1> QED BY <1>1, LifeInvHolds, PTL

\* The asserts of handleClose, removeConnectionInLoop and Channel::remove hold as
\* long as shutdown() does not store kDisconnecting over kDisconnected: up to then
\* state_, connections_ and the channel agree, and no event that may close a
\* connection is left for one that is closed.
THEOREM AssertsFailOnlyOverwritten == Spec => []AssertsHoldUnlessOverwritten
<1>1. LifeInv => AssertsHoldUnlessOverwritten BY DEF LifeInv
<1> QED BY <1>1, LifeInvHolds, PTL
-----------------------------------------------------------------------------
(* The byte stream of a connection *)

\* What the loop has still to run, in its order.
ToRun == functors \o pending

\* A sendInLoop of thread t on connection c.
IsSend(f, c, t) == f.fn = "sendInLoop" /\ f.conn = c /\ f.from = t

\* The messages m + 1 to l of t on c are in q: each once, in this order.
Line(q, c, t, m, l) ==
    /\ m \in Nat /\ l \in Nat /\ m <= l
    /\ \A p \in DOMAIN q : IsSend(q[p], c, t) => q[p].num \in (m + 1)..l
    /\ \A p, r \in DOMAIN q : p < r /\ IsSend(q[p], c, t) /\ IsSend(q[r], c, t) => q[p].num < q[r].num
    /\ \A n \in (m + 1)..l : \E p \in DOMAIN q : IsSend(q[p], c, t) /\ q[p].num = n

\* Between send()'s test of state_ and queueInLoop the last message is not queued.
AtQueue(t, c) ==
    /\ t \in Threads
    /\ thr[t].pc = "queue" /\ thr[t].fn = "sendInLoop" /\ thr[t].conn = c

\* The messages of t on c that sendInLoop was queued or called for.
Queued(t, c) == IF AtQueue(t, c) THEN accepted[t][c] - 1 ELSE accepted[t][c]

\* The bytes of s are those of the first m[t] messages of every thread t.
Holds(s, m) ==
    \A t \in Senders, k \in Nat \ {0} :
        (\E i \in 1..Len(s) : s[i] = <<t, k>>) <=> k <= MsgLen * m[t]

\* StreamIntact of one connection.
Intact(s) ==
    \A i \in 1..Len(s) :
        LET t == s[i][1]
            k == s[i][2]
        IN  /\ k > 1 => \E j \in 1..(i - 1) :
                          /\ s[j] = <<t, k - 1>>
                          /\ (k - 1) % MsgLen = 0 \/ j = i - 1
            /\ \A j \in 1..(i - 1) : s[j] # s[i]

\* sendInLoop does not add to the stream any more: the loop has closed the
\* connection, or every write fails at once.
Dead(c) ==
    \/ state[c] = "kDisconnected"
    \/ Broken(c) /\ out[c] = <<>> /\ ~Writing(c)

\* The stream of c is whole messages, the first ones of every thread, and unless
\* it has ended the functors continue it.
Continued(c, m) == Dead(c) \/ \A t \in Senders : Line(ToRun, c, t, m[t], Queued(t, c))
Carried(c) ==
    /\ Intact(Stream(c))
    /\ \E m \in [Senders -> Nat] : Holds(Stream(c), m) /\ Continued(c, m)

\* The loop takes functors only when it has run those it took before, and it
\* queues no sendInLoop itself.
Foreign == {f \in Functors : f.fn = "sendInLoop" => f.from \in Threads /\ f.num # 0}
Rounds ==
    /\ loop_pc # "functors" => functors = <<>>
    /\ functors \in Seq(Foreign) /\ pending \in Seq(Foreign)

Streams == Rounds /\ \A c \in Conns \ stale : Carried(c)
StreamInv == LifeInv /\ Streams

\* A functor that is no sendInLoop of t on c does not matter behind the others.
LEMMA LineOther ==
    ASSUME NEW S, NEW q \in Seq(S), NEW f \in S, NEW c, NEW t, NEW m, NEW l,
           Line(q, c, t, m, l), ~IsSend(f, c, t)
    PROVE  Line(Append(q, f), c, t, m, l)
<1> DEFINE a == Append(q, f)
<1>1. /\ Len(q) \in Nat /\ DOMAIN q = 1..Len(q) /\ DOMAIN a = 1..(Len(q) + 1)
      /\ \A p \in 1..Len(q) : a[p] = q[p]
      /\ a[Len(q) + 1] = f
  BY AppendProperties
<1> HIDE DEF a
<1>2. \A p \in DOMAIN a : IsSend(a[p], c, t) => p \in DOMAIN q /\ a[p] = q[p]
  BY <1>1
<1>3. \A p \in DOMAIN q : p \in DOMAIN a /\ a[p] = q[p] BY <1>1
<1>4. m \in Nat /\ l \in Nat /\ m <= l BY DEF Line
<1>5. \A p \in DOMAIN a : IsSend(a[p], c, t) => a[p].num \in (m + 1)..l
  BY <1>2 DEF Line
<1>6. \A p, r \in DOMAIN a : p < r /\ IsSend(a[p], c, t) /\ IsSend(a[r], c, t) => a[p].num < a[r].num
  BY <1>2 DEF Line
<1>7. \A n \in (m + 1)..l : \E p \in DOMAIN a : IsSend(a[p], c, t) /\ a[p].num = n
  BY <1>3 DEF Line
<1>8. Line(a, c, t, m, l) BY <1>4, <1>5, <1>6, <1>7 DEF Line
<1> QED BY <1>8 DEF a

\* The next message goes behind the others.
LEMMA LineGrows ==
    ASSUME NEW S, NEW q \in Seq(S), NEW f \in S, NEW c, NEW t, NEW m, NEW l,
           Line(q, c, t, m, l), IsSend(f, c, t), f.num = l + 1
    PROVE  Line(Append(q, f), c, t, m, l + 1)
<1> DEFINE a == Append(q, f)
<1>1. /\ Len(q) \in Nat /\ DOMAIN q = 1..Len(q) /\ DOMAIN a = 1..(Len(q) + 1)
      /\ \A p \in 1..Len(q) : a[p] = q[p]
      /\ a[Len(q) + 1] = f
  BY AppendProperties
<1> HIDE DEF a
<1>2. m \in Nat /\ l \in Nat /\ m <= l BY DEF Line
<1>3. \A p \in DOMAIN a : (p \in DOMAIN q /\ a[p] = q[p]) \/ (p = Len(q) + 1 /\ a[p] = f) BY <1>1
<1>4. \A p \in DOMAIN q : p \in DOMAIN a /\ a[p] = q[p] /\ p < Len(q) + 1 BY <1>1
<1>5. \A p \in DOMAIN q : IsSend(q[p], c, t) => q[p].num \in (m + 1)..l BY DEF Line
<1>6. \A p \in DOMAIN a : IsSend(a[p], c, t) => a[p].num \in (m + 1)..(l + 1)
  <2> SUFFICES ASSUME NEW p \in DOMAIN a, IsSend(a[p], c, t)
               PROVE  a[p].num \in (m + 1)..(l + 1)
    OBVIOUS
  <2>1. CASE p = Len(q) + 1 BY <1>1, <1>2, <2>1
  <2>2. CASE p \in DOMAIN q /\ a[p] = q[p]
    <3>1. q[p].num \in (m + 1)..l BY <1>5, <2>2
    <3> QED BY <1>2, <2>2, <3>1
  <2> QED BY <1>3, <2>1, <2>2
<1>7. \A p, r \in DOMAIN a : p < r /\ IsSend(a[p], c, t) /\ IsSend(a[r], c, t) => a[p].num < a[r].num
  <2> SUFFICES ASSUME NEW p \in DOMAIN a, NEW r \in DOMAIN a, p < r,
                      IsSend(a[p], c, t), IsSend(a[r], c, t)
               PROVE  a[p].num < a[r].num
    OBVIOUS
  <2>1. p \in DOMAIN q /\ a[p] = q[p] BY <1>1
  <2>2. CASE r = Len(q) + 1
    <3>1. q[p].num \in (m + 1)..l BY <1>5, <2>1
    <3> QED BY <1>1, <1>2, <2>1, <2>2, <3>1
  <2>3. CASE r \in DOMAIN q BY <1>4, <2>1, <2>3 DEF Line
  <2> QED BY <1>3, <2>2, <2>3
<1>8. \A n \in (m + 1)..(l + 1) : \E p \in DOMAIN a : IsSend(a[p], c, t) /\ a[p].num = n
  <2> SUFFICES ASSUME NEW n \in (m + 1)..(l + 1)
               PROVE  \E p \in DOMAIN a : IsSend(a[p], c, t) /\ a[p].num = n
    OBVIOUS
  <2>1. CASE n = l + 1 BY <1>1, <2>1
  <2>2. CASE n \in (m + 1)..l BY <1>4, <2>2 DEF Line
  <2> QED BY <1>2, <2>1, <2>2
<1>9. Line(a, c, t, m, l + 1) BY <1>2, <1>6, <1>7, <1>8 DEF Line
<1> QED BY <1>9 DEF a

\* A functor that is no sendInLoop of t on c may be the one that runs.
LEMMA LineSkips ==
    ASSUME NEW S, NEW q \in Seq(S), q # <<>>, NEW c, NEW t, NEW m, NEW l,
           Line(q, c, t, m, l), ~IsSend(Head(q), c, t)
    PROVE  Line(Tail(q), c, t, m, l)
<1> DEFINE a == Tail(q)
<1>1. /\ Len(q) \in Nat /\ DOMAIN q = 1..Len(q) /\ Len(q) > 0
      /\ DOMAIN a = 1..(Len(q) - 1) /\ Head(q) = q[1]
      /\ \A p \in DOMAIN a : a[p] = q[p + 1]
  BY HeadTailProperties, EmptySeq
<1> HIDE DEF a
<1>2. \A p \in DOMAIN a : p + 1 \in DOMAIN q /\ a[p] = q[p + 1] /\ p \in Nat BY <1>1
<1>3. \A p \in DOMAIN q : IsSend(q[p], c, t) => p - 1 \in DOMAIN a /\ a[p - 1] = q[p]
  <2> SUFFICES ASSUME NEW p \in DOMAIN q, IsSend(q[p], c, t)
               PROVE  p - 1 \in DOMAIN a /\ a[p - 1] = q[p]
    OBVIOUS
  <2>1. p # 1 BY <1>1
  <2>2. p - 1 \in DOMAIN a /\ (p - 1) + 1 = p BY <1>1, <2>1
  <2> QED BY <1>1, <2>2
<1>4. m \in Nat /\ l \in Nat /\ m <= l BY DEF Line
<1>5. \A p \in DOMAIN a : IsSend(a[p], c, t) => a[p].num \in (m + 1)..l
  BY <1>2 DEF Line
<1>6. \A p, r \in DOMAIN a : p < r /\ IsSend(a[p], c, t) /\ IsSend(a[r], c, t) => a[p].num < a[r].num
  <2> SUFFICES ASSUME NEW p \in DOMAIN a, NEW r \in DOMAIN a, p < r,
                      IsSend(a[p], c, t), IsSend(a[r], c, t)
               PROVE  a[p].num < a[r].num
    OBVIOUS
  <2>1. p + 1 < r + 1 BY <1>2
  <2> QED BY <1>2, <2>1 DEF Line
<1>7. \A n \in (m + 1)..l : \E p \in DOMAIN a : IsSend(a[p], c, t) /\ a[p].num = n
  <2> SUFFICES ASSUME NEW n \in (m + 1)..l
               PROVE  \E p \in DOMAIN a : IsSend(a[p], c, t) /\ a[p].num = n
    OBVIOUS
  <2>1. PICK p \in DOMAIN q : IsSend(q[p], c, t) /\ q[p].num = n BY DEF Line
  <2> QED BY <1>3, <2>1
<1>8. Line(a, c, t, m, l) BY <1>4, <1>5, <1>6, <1>7 DEF Line
<1> QED BY <1>8 DEF a

\* The first sendInLoop of t on c is for its next message.
LEMMA LineRuns ==
    ASSUME NEW S, NEW q \in Seq(S), q # <<>>, NEW c, NEW t, NEW m, NEW l,
           Line(q, c, t, m, l), IsSend(Head(q), c, t), Head(q).num \in Nat
    PROVE  Head(q).num = m + 1 /\ Line(Tail(q), c, t, m + 1, l)
<1> DEFINE a == Tail(q)
           h == Head(q)
<1>1. /\ Len(q) \in Nat /\ DOMAIN q = 1..Len(q) /\ Len(q) > 0
      /\ DOMAIN a = 1..(Len(q) - 1) /\ h = q[1]
      /\ \A p \in DOMAIN a : a[p] = q[p + 1]
  BY HeadTailProperties, EmptySeq
<1> HIDE DEF a, h
<1>2. \A p \in DOMAIN a : p + 1 \in DOMAIN q /\ a[p] = q[p + 1] /\ p \in Nat /\ 1 < p + 1 BY <1>1
<1>3. m \in Nat /\ l \in Nat /\ m <= l BY DEF Line
<1>4. 1 \in DOMAIN q /\ IsSend(q[1], c, t) /\ q[1].num \in Nat BY <1>1 DEF h
<1>5. q[1].num \in (m + 1)..l BY <1>4 DEF Line
<1>6. q[1].num = m + 1
  <2>1. m + 1 \in (m + 1)..l BY <1>3, <1>4, <1>5
  <2>2. PICK p \in DOMAIN q : IsSend(q[p], c, t) /\ q[p].num = m + 1 BY <2>1 DEF Line
  <2>3. CASE p = 1 BY <2>2, <2>3
  <2>4. CASE p # 1
    <3>1. 1 < p BY <1>1, <2>4
    <3>2. q[1].num < q[p].num BY <1>4, <2>2, <3>1 DEF Line
    <3> QED BY <1>3, <1>4, <1>5, <2>2, <3>2
  <2> QED BY <2>3, <2>4
<1>7. m + 1 <= l BY <1>3, <1>4, <1>5
<1>8. \A p \in DOMAIN a : IsSend(a[p], c, t) => a[p].num \in (m + 1 + 1)..l
  <2> SUFFICES ASSUME NEW p \in DOMAIN a, IsSend(a[p], c, t)
               PROVE  a[p].num \in (m + 1 + 1)..l
    OBVIOUS
  <2>1. q[1].num < q[p + 1].num BY <1>2, <1>4 DEF Line
  <2>2. q[p + 1].num \in (m + 1)..l BY <1>2 DEF Line
  <2> QED BY <1>2, <1>3, <1>6, <2>1, <2>2
<1>9. \A p, r \in DOMAIN a : p < r /\ IsSend(a[p], c, t) /\ IsSend(a[r], c, t) => a[p].num < a[r].num
  <2> SUFFICES ASSUME NEW p \in DOMAIN a, NEW r \in DOMAIN a, p < r,
                      IsSend(a[p], c, t), IsSend(a[r], c, t)
               PROVE  a[p].num < a[r].num
    OBVIOUS
  <2>1. p + 1 < r + 1 BY <1>2
  <2> QED BY <1>2, <2>1 DEF Line
<1>10. \A n \in (m + 1 + 1)..l : \E p \in DOMAIN a : IsSend(a[p], c, t) /\ a[p].num = n
  <2> SUFFICES ASSUME NEW n \in (m + 1 + 1)..l
               PROVE  \E p \in DOMAIN a : IsSend(a[p], c, t) /\ a[p].num = n
    OBVIOUS
  <2>1. n \in (m + 1)..l /\ n # m + 1 BY <1>3
  <2>2. PICK p \in DOMAIN q : IsSend(q[p], c, t) /\ q[p].num = n BY <2>1 DEF Line
  <2>3. p # 1 BY <1>6, <2>1, <2>2
  <2>4. p - 1 \in DOMAIN a /\ (p - 1) + 1 = p BY <1>1, <2>3
  <2>5. a[p - 1] = q[p] BY <1>2, <2>4
  <2> QED BY <2>2, <2>4, <2>5
<1>11. m + 1 \in Nat BY <1>3
<1>12. Line(a, c, t, m + 1, l) BY <1>3, <1>7, <1>8, <1>9, <1>10, <1>11 DEF Line
<1> QED BY <1>1, <1>6, <1>12 DEF a, h

\* Nothing of t on c is queued: all of its messages were sent.
LEMMA LineEmpty ==
    ASSUME NEW q, NEW c, NEW t, NEW m, NEW l, Line(q, c, t, m, l),
           \A p \in DOMAIN q : ~IsSend(q[p], c, t)
    PROVE  m = l /\ Line(q, c, t, m + 1, l + 1)
<1>1. m \in Nat /\ l \in Nat /\ m <= l BY DEF Line
<1>2. m = l
  <2> SUFFICES ASSUME m # l PROVE FALSE OBVIOUS
  <2>1. m + 1 \in (m + 1)..l BY <1>1
  <2> QED BY <2>1 DEF Line
<1>3. \A n \in (m + 1 + 1)..(l + 1) : FALSE BY <1>1, <1>2
<1>4. m + 1 \in Nat /\ l + 1 \in Nat /\ m + 1 <= l + 1 BY <1>1
<1> QED BY <1>2, <1>3, <1>4 DEF Line

-----------------------------------------------------------------------------
(* A message is added *)

LEMMA MultipleMod ==
    ASSUME NEW a \in Nat \ {0}, NEW b \in Nat
    PROVE  (a * b) % a = 0
<1> DEFINE x == a * b
           q == x \div a
           r == x % a
<1>1. x \in Nat OBVIOUS
<1>2. q \in Int /\ r \in 0..(a - 1) /\ x = a * q + r BY <1>1
<1>3. a * (b - q) = r BY <1>2
<1> HIDE DEF q, r, x
<1>4. b - q = 0
  <2>1. CASE b - q >= 1
    <3>1. a * (b - q) >= a BY <2>1, <1>2
    <3> QED BY <3>1, <1>2, <1>3
  <2>2. CASE b - q <= -1
    <3>1. a * (b - q) <= -a BY <2>2, <1>2
    <3> QED BY <3>1, <1>2, <1>3
  <2> QED BY <2>1, <2>2, <1>2
<1> QED BY <1>3, <1>4 DEF r, x

\* The bytes of s with the n-th message of t behind them; from is the number of
\* bytes t sent before.
Extends(a, s, t, from) ==
    /\ Len(s) \in Nat /\ Len(a) = Len(s) + MsgLen
    /\ \A i \in 1..Len(s) : a[i] = s[i]
    /\ \A x \in 1..MsgLen : a[Len(s) + x] = <<t, from + x>>

LEMMA MessageExtends ==
    ASSUME NEW s \in Seq(Byte), NEW t \in Senders, NEW n \in Nat
    PROVE  Extends(s \o Bytes(t, n + 1), s, t, MsgLen * n) /\ s \o Bytes(t, n + 1) \in Seq(Byte)
<1> DEFINE b == Bytes(t, n + 1)
           a == s \o b
<1>1. MsgLen \in Nat \ {0} BY ReactorAssumption
<1>2. (n + 1) - 1 = n /\ n + 1 \in Nat \ {0} OBVIOUS
<1>3. b \in Seq(Byte) /\ Len(b) = MsgLen BY <1>2, BytesType
<1>4. \A x \in 1..MsgLen : b[x] = <<t, MsgLen * n + x>> BY <1>2 DEF Bytes
<1> HIDE DEF b
<1>5. /\ Len(a) = Len(s) + MsgLen /\ Len(s) \in Nat /\ a \in Seq(Byte)
      /\ \A i \in 1..(Len(s) + MsgLen) : a[i] = IF i <= Len(s) THEN s[i] ELSE b[i - Len(s)]
  <2>1. Len(s \o b) = Len(s) + Len(b) /\ s \o b \in Seq(Byte) BY <1>3, ConcatProperties
  <2>2. \A i \in 1..(Len(s) + Len(b)) : (s \o b)[i] = IF i <= Len(s) THEN s[i] ELSE b[i - Len(s)]
    BY <1>3, ConcatProperties
  <2> QED BY <1>3, <2>1, <2>2
<1> HIDE DEF a
<1>6. \A i \in 1..Len(s) : a[i] = s[i] BY <1>1, <1>5
<1>7. ASSUME NEW x \in 1..MsgLen PROVE a[Len(s) + x] = <<t, MsgLen * n + x>>
  <2>1. /\ Len(s) + x \in 1..(Len(s) + MsgLen) /\ ~(Len(s) + x <= Len(s))
        /\ (Len(s) + x) - Len(s) = x
    BY <1>1, <1>5
  <2>2. a[Len(s) + x] = b[x] BY <1>5, <2>1
  <2> QED BY <1>4, <2>2
<1>8. Extends(a, s, t, MsgLen * n) BY <1>5, <1>6, <1>7 DEF Extends
<1> QED BY <1>5, <1>8 DEF a, b

\* The positions behind s.
Reaches(a, s, t, from) ==
    \A i \in 1..Len(a) : i > Len(s) => \E x \in 1..MsgLen : i = Len(s) + x /\ a[i] = <<t, from + x>>

LEMMA Behind ==
    ASSUME NEW a, NEW s, NEW t, NEW from, Extends(a, s, t, from)
    PROVE  Reaches(a, s, t, from)
<1> SUFFICES ASSUME NEW i \in 1..Len(a), i > Len(s)
             PROVE  \E x \in 1..MsgLen : i = Len(s) + x /\ a[i] = <<t, from + x>>
  BY DEF Reaches
<1>1. MsgLen \in Nat \ {0} BY ReactorAssumption
<1>2. Len(s) \in Nat /\ i \in Nat /\ i <= Len(s) + MsgLen BY <1>1 DEF Extends
<1>3. i - Len(s) \in 1..MsgLen /\ i = Len(s) + (i - Len(s)) BY <1>1, <1>2
<1> QED BY <1>3 DEF Extends

\* The stream stays whole when the next message of a thread is added to it.
LEMMA IntactGrows ==
    ASSUME NEW a, NEW s, NEW t \in Senders, NEW m \in [Senders -> Nat],
           Intact(s), Holds(s, m), Extends(a, s, t, MsgLen * m[t])
    PROVE  Intact(a)
<1> DEFINE from == MsgLen * m[t]
           Good(i, u, k) ==
             /\ k > 1 => \E j \in 1..(i - 1) :
                           /\ a[j] = <<u, k - 1>>
                           /\ (k - 1) % MsgLen = 0 \/ j = i - 1
             /\ \A j \in 1..(i - 1) : a[j] # a[i]
<1>1. MsgLen \in Nat \ {0} /\ m[t] \in Nat BY ReactorAssumption
<1>2. from \in Nat /\ from % MsgLen = 0 BY <1>1, MultipleMod
<1>3. \A k \in Nat \ {0} : (\E i \in 1..Len(s) : s[i] = <<t, k>>) <=> k <= from BY DEF Holds
<1>4. Extends(a, s, t, from) OBVIOUS
<1> HIDE DEF from
<1>b. \A i \in 1..Len(a) : i > Len(s) => \E x \in 1..MsgLen : i = Len(s) + x /\ a[i] = <<t, from + x>>
  <2>1. Reaches(a, s, t, from) BY <1>4, Behind, Zenon
  <2> QED BY <2>1 DEF Reaches
<1>5. Len(s) \in Nat /\ \A j \in 1..Len(s) : a[j] = s[j] BY <1>4 DEF Extends
<1>6. ASSUME NEW i \in 1..Len(a) PROVE Good(i, a[i][1], a[i][2])
  <2>1. CASE i <= Len(s)
    <3>1. i \in 1..Len(s) /\ a[i] = s[i] BY <1>5, <2>1
    <3>2. \A j \in 1..(i - 1) : j \in 1..Len(s) /\ a[j] = s[j] BY <1>5, <3>1
    <3>3. /\ s[i][2] > 1 => \E j \in 1..(i - 1) :
                              /\ s[j] = <<s[i][1], s[i][2] - 1>>
                              /\ (s[i][2] - 1) % MsgLen = 0 \/ j = i - 1
          /\ \A j \in 1..(i - 1) : s[j] # s[i]
      BY <3>1 DEF Intact
    <3>4. \A j \in 1..(i - 1) : a[j] # a[i] BY <3>1, <3>2, <3>3
    <3>5. a[i][2] > 1 => \E j \in 1..(i - 1) :
                            /\ a[j] = <<a[i][1], a[i][2] - 1>>
                            /\ (a[i][2] - 1) % MsgLen = 0 \/ j = i - 1
      BY <3>1, <3>2, <3>3
    <3> QED BY <3>4, <3>5
  <2>2. CASE i > Len(s)
    <3>1. PICK x \in 1..MsgLen : i = Len(s) + x /\ a[i] = <<t, from + x>> BY <2>2, <1>b
    <3>2. a[i][1] = t /\ a[i][2] = from + x /\ x \in Nat BY <1>1, <3>1
    <3>3. from + x > 1 => \E j \in 1..(i - 1) :
                             /\ a[j] = <<t, (from + x) - 1>>
                             /\ ((from + x) - 1) % MsgLen = 0 \/ j = i - 1
      <4>1. CASE x = 1
        <5>1. (from + x) - 1 = from BY <1>2, <4>1
        <5>2. SUFFICES ASSUME from + x > 1
                       PROVE  \E j \in 1..(i - 1) : a[j] = <<t, from>>
          BY <1>2, <5>1
        <5>3. from \in Nat \ {0} /\ from <= from BY <1>2, <4>1, <5>2
        <5>4. PICK j \in 1..Len(s) : s[j] = <<t, from>> BY <1>3, <5>3
        <5>5. j \in 1..(i - 1) /\ a[j] = s[j] BY <1>5, <3>1, <4>1, <5>4
        <5> QED BY <5>4, <5>5
      <4>2. CASE x # 1
        <5>1. x - 1 \in 1..MsgLen BY <1>1, <4>2
        <5>2. a[Len(s) + (x - 1)] = <<t, from + (x - 1)>> BY <1>4, <5>1 DEF Extends
        <5>3. /\ Len(s) + (x - 1) = i - 1 /\ from + (x - 1) = (from + x) - 1
              /\ i - 1 \in 1..(i - 1)
          BY <1>2, <1>5, <3>1, <3>2, <4>2
        <5> QED BY <5>2, <5>3
      <4> QED BY <4>1, <4>2
    <3>4. ASSUME NEW j \in 1..(i - 1) PROVE a[j] # a[i]
      <4>1. CASE j <= Len(s)
        <5>1. j \in 1..Len(s) /\ a[j] = s[j] BY <1>5, <4>1
        <5>2. from + x \in Nat \ {0} /\ ~(from + x <= from) BY <1>2, <3>2, <3>1
        <5>3. s[j] # <<t, from + x>> BY <1>3, <5>1, <5>2
        <5> QED BY <3>1, <5>1, <5>3
      <4>2. CASE j > Len(s)
        <5>1. j \in 1..Len(a) BY <1>5, <3>1 DEF Extends
        <5>2. PICK y \in 1..MsgLen : j = Len(s) + y /\ a[j] = <<t, from + y>>
          BY <4>2, <5>1, <1>b
        <5>3. y \in Nat /\ y # x BY <1>1, <1>5, <3>1, <3>2, <5>2
        <5>4. from + y # from + x BY <1>2, <3>2, <5>3
        <5> QED BY <3>1, <5>2, <5>4
      <4> QED BY <1>5, <4>1, <4>2
    <3> QED BY <3>2, <3>3, <3>4
  <2> QED BY <1>5, <2>1, <2>2
<1> HIDE DEF Good
<1>7. \A i \in 1..Len(a) : Good(i, a[i][1], a[i][2]) BY <1>6
<1> QED BY <1>7 DEF Good, Intact

LEMMA HoldsGrows ==
    ASSUME NEW a, NEW s, NEW t \in Senders, NEW m \in [Senders -> Nat],
           Holds(s, m), Extends(a, s, t, MsgLen * m[t])
    PROVE  Holds(a, [m EXCEPT ![t] = @ + 1])
<1> DEFINE from == MsgLen * m[t]
           mm == [m EXCEPT ![t] = @ + 1]
<1>1. MsgLen \in Nat \ {0} /\ m[t] \in Nat BY ReactorAssumption
<1>2. from \in Nat /\ MsgLen * (m[t] + 1) = from + MsgLen BY <1>1
<1>3. mm[t] = m[t] + 1 /\ \A u \in Senders \ {t} : mm[u] = m[u] OBVIOUS
<1>4. Extends(a, s, t, from) OBVIOUS
<1> HIDE DEF from, mm
<1>b. \A i \in 1..Len(a) : i > Len(s) => \E x \in 1..MsgLen : i = Len(s) + x /\ a[i] = <<t, from + x>>
  <2>1. Reaches(a, s, t, from) BY <1>4, Behind, Zenon
  <2> QED BY <2>1 DEF Reaches
<1>5. Len(s) \in Nat /\ \A j \in 1..Len(s) : a[j] = s[j] /\ j \in 1..Len(a)
  BY <1>1, <1>4 DEF Extends
<1>6. ASSUME NEW u \in Senders, NEW k \in Nat \ {0}
      PROVE  (\E i \in 1..Len(a) : a[i] = <<u, k>>) <=> k <= MsgLen * mm[u]
  <2>1. (\E i \in 1..Len(s) : s[i] = <<u, k>>) <=> k <= MsgLen * m[u] BY DEF Holds
  <2>2. CASE u # t
    <3>1. ASSUME NEW i \in 1..Len(a), a[i] = <<u, k>> PROVE i \in 1..Len(s) /\ s[i] = <<u, k>>
      <4>1. CASE i <= Len(s) BY <1>5, <3>1, <4>1
      <4>2. CASE i > Len(s)
        <5>1. PICK x \in 1..MsgLen : a[i] = <<t, from + x>> BY <4>2, <1>b
        <5> QED BY <2>2, <3>1, <5>1
      <4> QED BY <1>5, <4>1, <4>2
    <3>2. (\E i \in 1..Len(a) : a[i] = <<u, k>>) <=> (\E i \in 1..Len(s) : s[i] = <<u, k>>)
      BY <1>5, <3>1
    <3> QED BY <1>3, <2>1, <2>2, <3>2
  <2>3. CASE u = t
    <3>1. MsgLen * mm[u] = from + MsgLen BY <1>2, <1>3, <2>3
    <3>2. (\E i \in 1..Len(s) : s[i] = <<t, k>>) <=> k <= from BY <2>1, <2>3 DEF from
    <3>3. ASSUME NEW i \in 1..Len(a), a[i] = <<t, k>> PROVE k <= from + MsgLen
      <4>1. CASE i <= Len(s)
        <5>1. i \in 1..Len(s) /\ s[i] = <<t, k>> BY <1>5, <3>3, <4>1
        <5>2. k <= from BY <3>2, <5>1, Zenon
        <5>3. \A x, y, z \in Nat : x <= y => x <= y + z OBVIOUS
        <5> QED BY <1>1, <1>2, <5>2, <5>3
      <4>2. CASE i > Len(s)
        <5>1. PICK x \in 1..MsgLen : a[i] = <<t, from + x>> BY <4>2, <1>b
        <5>2. k = from + x BY <3>3, <5>1
        <5> QED BY <1>1, <1>2, <5>2
      <4> QED BY <1>5, <4>1, <4>2
    <3>4. ASSUME k <= from + MsgLen PROVE \E i \in 1..Len(a) : a[i] = <<t, k>>
      <4>1. CASE k <= from
        <5>1. PICK i \in 1..Len(s) : s[i] = <<t, k>> BY <3>2, <4>1
        <5> QED BY <1>5, <5>1
      <4>2. CASE k > from
        <5>1. k - from \in 1..MsgLen /\ from + (k - from) = k BY <1>1, <1>2, <3>4, <4>2
        <5>2. a[Len(s) + (k - from)] = <<t, k>> BY <1>4, <5>1 DEF Extends
        <5>3. Len(s) + (k - from) \in 1..Len(a) BY <1>1, <1>4, <5>1 DEF Extends
        <5> QED BY <5>2, <5>3
      <4> QED BY <1>2, <4>1, <4>2
    <3> QED BY <2>3, <3>1, <3>3, <3>4
  <2> QED BY <2>2, <2>3
<1>7. Holds(a, mm) BY <1>6 DEF Holds
<1> QED BY <1>7 DEF mm

-----------------------------------------------------------------------------
(* What a step does to a stream *)

Keeps(c) == Stream(c)' = Stream(c) /\ (Dead(c) => Dead(c)')
Adds(c, t, n) == Stream(c)' = Stream(c) \o Bytes(t, n) /\ ~Dead(c)
Drops(c) == Stream(c)' = Stream(c) /\ Dead(c)'

LEMMA Regroup ==
    \A x, y, z \in Seq(Byte) : (x \o y) \o z = x \o (y \o z)
BY ConcatAssociative

LEMMA StreamType ==
    ASSUME LifeTypes, NEW c \in Conns
    PROVE  /\ sent[c] \in Seq(Byte) /\ out[c] \in Seq(Byte) /\ Stream(c) \in Seq(Byte)
           /\ sent \in [Conns -> Seq(Byte)] /\ out \in [Conns -> Seq(Byte)]
<1>1. sent[c] \in Seq(Byte) /\ out[c] \in Seq(Byte) BY DEF LifeTypes, TypeOK
<1> QED BY <1>1, ConcatProperties DEF Stream, LifeTypes, TypeOK

\* sendInLoop puts the whole message behind what was written and buffered before,
\* or nothing of it ever.
LEMMA SendInLoopStream ==
    ASSUME LifeTypes, NEW c \in Conns, NEW t \in Senders, NEW n \in Nat \ {0},
           SendInLoop(c, t, n), state[c] # "kDisconnected", UNCHANGED <<fin, reset>>
    PROVE  Adds(c, t, n) \/ Drops(c)
<1> DEFINE msg == Bytes(t, n)
           direct == ~Writing(c) /\ out[c] = <<>>
           nwrote == IF direct THEN Write(c, msg) ELSE 0
           faultError == direct /\ Broken(c)
           written == SubSeq(msg, 1, nwrote)
           remaining == SubSeq(msg, nwrote + 1, MsgLen)
           buffered == IF faultError THEN <<>> ELSE remaining
<1>1. /\ sent' = [sent EXCEPT ![c] = @ \o written]
      /\ out' = [out EXCEPT ![c] = @ \o buffered]
      /\ IF buffered = <<>> THEN UNCHANGED <<events, polled>>
                            ELSE Update(c, events[c] \cup {"out"})
  BY DEF SendInLoop
<1>2. msg \in Seq(Byte) /\ Len(msg) = MsgLen BY BytesType
<1>3. MsgLen \in Nat \ {0} BY ReactorAssumption
<1>4. /\ sent[c] \in Seq(Byte) /\ out[c] \in Seq(Byte)
      /\ sent \in [Conns -> Seq(Byte)] /\ out \in [Conns -> Seq(Byte)]
  BY StreamType
<1> HIDE DEF msg
<1>5. nwrote \in 0..MsgLen /\ (Broken(c) => nwrote = 0) /\ (~direct => nwrote = 0)
  BY <1>2, <1>3, WriteRange
<1> HIDE DEF nwrote
<1>6. /\ written \in Seq(Byte) /\ remaining \in Seq(Byte)
      /\ written \o remaining = msg
      /\ nwrote = 0 => written = <<>> /\ remaining = msg
  <2>1. SubSeq(msg, 1, nwrote) \in Seq(Byte) /\ SubSeq(msg, nwrote + 1, Len(msg)) \in Seq(Byte)
    BY <1>2, <1>5, SplitSeq
  <2>2. SubSeq(msg, 1, nwrote) \o SubSeq(msg, nwrote + 1, Len(msg)) = SubSeq(msg, 1, Len(msg))
    <3>1. 1 \in 1..(Len(msg) + 1) /\ nwrote \in (1 - 1)..Len(msg) /\ Len(msg) \in nwrote..Len(msg)
      BY <1>2, <1>3, <1>5
    <3> QED BY <1>2, <3>1, ConcatAdjacentSubSeq
  <2>3. SubSeq(msg, 1, Len(msg)) = msg BY <1>2, SubSeqFull
  <2>4. nwrote = 0 => SubSeq(msg, 1, nwrote) = <<>> BY SubSeqEmpty
  <2>5. nwrote = 0 => SubSeq(msg, nwrote + 1, Len(msg)) = SubSeq(msg, 1, Len(msg)) OBVIOUS
  <2> QED BY <1>2, <2>1, <2>2, <2>3, <2>4, <2>5
<1> HIDE DEF remaining, written
<1>7. sent'[c] = sent[c] \o written /\ out'[c] = out[c] \o buffered
  BY <1>1, <1>4
<1>8. Stream(c)' = (sent[c] \o written) \o (out[c] \o buffered)
  BY <1>7 DEF Stream
<1>9. CASE faultError
  <2>1. nwrote = 0 /\ buffered = <<>> BY <1>5, <1>9
  <2>2. written = <<>> BY <1>6, <2>1
  <2>3. sent[c] \o written = sent[c] /\ out[c] \o buffered = out[c]
    BY <1>4, <2>1, <2>2, ConcatEmptySeq
  <2>4. Stream(c)' = Stream(c) BY <1>8, <2>3 DEF Stream
  <2>5. out'[c] = <<>> /\ events' = events BY <1>1, <1>7, <1>9, <2>1, <2>3
  <2>6. Dead(c)' BY <1>9, <2>5 DEF Dead, Broken, Writing
  <2> QED BY <2>4, <2>6 DEF Drops
<1>10. CASE ~faultError
  <2>1. buffered = remaining BY <1>10
  <2>2. Stream(c)' = Stream(c) \o msg
    <3>1. CASE direct
      <4>1. out[c] \o buffered = remaining BY <1>6, <2>1, <3>1, ConcatEmptySeq
      <4>2. (sent[c] \o written) \o remaining = sent[c] \o (written \o remaining)
        <5>1. sent[c] \in Seq(Byte) /\ written \in Seq(Byte) /\ remaining \in Seq(Byte) BY <1>4, <1>6
        <5> QED BY <5>1, Regroup, Zenon
      <4>3. Stream(c) = sent[c] BY <1>4, <3>1, ConcatEmptySeq DEF Stream
      <4> QED BY <1>6, <1>8, <4>1, <4>2, <4>3
    <3>2. CASE ~direct
      <4>1. written = <<>> /\ remaining = msg BY <1>5, <1>6, <3>2
      <4>2. sent[c] \o written = sent[c] BY <1>4, <4>1, ConcatEmptySeq
      <4>3. Stream(c)' = sent[c] \o (out[c] \o msg) BY <1>8, <2>1, <4>1, <4>2
      <4>4. (sent[c] \o out[c]) \o msg = sent[c] \o (out[c] \o msg)
        <5>1. sent[c] \in Seq(Byte) /\ out[c] \in Seq(Byte) /\ msg \in Seq(Byte) BY <1>2, <1>4
        <5> QED BY <5>1, Regroup, Zenon
      <4> QED BY <4>3, <4>4 DEF Stream
    <3> QED BY <3>1, <3>2
  <2>3. ~Dead(c) BY <1>10 DEF Dead
  <2> QED BY <2>2, <2>3 DEF Adds, msg
<1> QED BY <1>9, <1>10

\* handleWrite moves bytes from the buffer to the socket.
LEMMA HandleWriteStream ==
    ASSUME LifeTypes, NEW c \in Conns, HandleWrite(c)
    PROVE  Stream(c)' = Stream(c)
<1> DEFINE n == IF Writing(c) THEN Write(c, out[c]) ELSE 0
           moved == SubSeq(out[c], 1, n)
           rest == SubSeq(out[c], n + 1, Len(out[c]))
<1>1. /\ sent' = [sent EXCEPT ![c] = @ \o SubSeq(out[c], 1, n)]
      /\ out' = [out EXCEPT ![c] = SubSeq(out[c], n + 1, Len(out[c]))]
  BY DEF HandleWrite
<1>2. /\ sent[c] \in Seq(Byte) /\ out[c] \in Seq(Byte) /\ Len(out[c]) \in Nat
      /\ sent \in [Conns -> Seq(Byte)] /\ out \in [Conns -> Seq(Byte)]
  BY StreamType
<1>3. n \in 0..Len(out[c]) BY <1>2, WriteRange
<1> HIDE DEF n
<1>4. moved \in Seq(Byte) /\ rest \in Seq(Byte) BY <1>2, <1>3, SplitSeq
<1>5. moved \o rest = out[c]
  <2>1. 1 \in 1..(Len(out[c]) + 1) /\ n \in (1 - 1)..Len(out[c]) /\ Len(out[c]) \in n..Len(out[c])
    BY <1>2, <1>3
  <2>2. moved \o rest = SubSeq(out[c], 1, Len(out[c])) BY <1>2, <2>1, ConcatAdjacentSubSeq
  <2> QED BY <1>2, <2>2, SubSeqFull
<1>6. Stream(c)' = (sent[c] \o moved) \o rest BY <1>1, <1>2 DEF Stream
<1> HIDE DEF moved, rest
<1>7. (sent[c] \o moved) \o rest = sent[c] \o (moved \o rest)
  <2>1. sent[c] \in Seq(Byte) BY <1>2
  <2> QED BY <1>4, <2>1, Regroup, Zenon
<1> QED BY <1>5, <1>6, <1>7 DEF Stream

\* A step that leaves the bytes of a connection alone does not bring it to life.
LEMMA DeadStays ==
    ASSUME LifeInv, ConnStep, reset \subseteq reset', NEW c \in Conns \ stale', Dead(c),
           out[c] = <<>> => out'[c] = <<>>
    PROVE  Dead(c)'
<1> USE DEF LifeInv, LifeTypes, TypeOK, Dead, Broken, Writing, Born
<1>1. CASE Rests BY <1>1 DEF Rests, chan_vars
<1>2. ASSUME NEW d \in Conns, Sends(d) PROVE Dead(c)' BY <1>2 DEF Sends, SendEffect
<1>3. ASSUME NEW d \in Conns, Drains(d) PROVE Dead(c)' BY <1>3 DEF Drains
<1>4. ASSUME NEW d \in Conns, Closes(d) PROVE Dead(c)' BY <1>4 DEF Closes, Update
<1>5. ASSUME NEW d \in Conns, Accepts(d) PROVE Dead(c)'
  <2>1. state[d] = "kConnecting" BY <1>5 DEF Accepts, Unborn
  <2> QED BY <1>5, <2>1 DEF Accepts, Update
<1>6. ASSUME NEW d \in Conns, ShutsDown(d) PROVE Dead(c)' BY <1>6 DEF ShutsDown
<1>7. ASSUME NEW d \in Conns, Stores(d) PROVE Dead(c)' BY <1>7 DEF Stores
<1>8. ASSUME NEW d \in Conns, Removes(d) PROVE Dead(c)' BY <1>8 DEF Removes
<1> QED BY <1>1, <1>2, <1>3, <1>4, <1>5, <1>6, <1>7, <1>8 DEF ConnStep

LEMMA OtherStream ==
    ASSUME LifeInv, ConnStep, reset \subseteq reset', NEW c \in Conns \ stale',
           sent'[c] = sent[c], out'[c] = out[c]
    PROVE  Keeps(c)
<1>1. Stream(c)' = Stream(c) BY DEF Stream
<1> QED BY <1>1, DeadStays DEF Keeps

-----------------------------------------------------------------------------
(* What a step does to the functors *)

\* The messages a functor list owes a connection are those it owed before.
Lasts(c) ==
    \A t \in Senders, m \in Nat :
        Line(ToRun, c, t, m, Queued(t, c)) => Line(ToRun', c, t, m, Queued(t, c)')

SameQueued == \A t \in Senders, c \in Conns : Queued(t, c)' = Queued(t, c)

LEMMA ConcatAppend ==
    ASSUME NEW S, NEW x \in Seq(S), NEW y \in Seq(S), NEW e \in S
    PROVE  x \o Append(y, e) = Append(x \o y, e)
<1>1. <<e>> \in Seq(S) /\ x \o y \in Seq(S) BY ConcatProperties
<1>2. Append(y, e) = y \o <<e>> BY AppendIsConcat
<1>3. Append(x \o y, e) = (x \o y) \o <<e>> BY <1>1, AppendIsConcat
<1>4. (x \o y) \o <<e>> = x \o (y \o <<e>>) BY <1>1, ConcatAssociative
<1> QED BY <1>2, <1>3, <1>4

LEMMA ConcatTail ==
    ASSUME NEW S, NEW x \in Seq(S), NEW y \in Seq(S), x # <<>>
    PROVE  /\ x \o y # <<>> /\ Head(x \o y) = Head(x)
           /\ Tail(x \o y) = Tail(x) \o y
<1> DEFINE z == x \o y
           u == Tail(x)
           v == u \o y
<1>1. /\ z \in Seq(S) /\ Len(z) = Len(x) + Len(y)
      /\ \A i \in 1..(Len(x) + Len(y)) : z[i] = IF i <= Len(x) THEN x[i] ELSE y[i - Len(x)]
  BY ConcatProperties
<1>2. Len(x) \in Nat /\ Len(x) > 0 /\ Len(y) \in Nat BY EmptySeq
<1>3. z # <<>>
  <2>1. Len(z) # 0 BY <1>1, <1>2
  <2> QED BY <1>1, <2>1, EmptySeq
<1>4. Head(z) = z[1] /\ Head(x) = x[1] BY <1>1, <1>3
<1>5. 1 \in 1..(Len(x) + Len(y)) /\ 1 <= Len(x) BY <1>2
<1>6. z[1] = x[1] BY <1>1, <1>5
<1>7. /\ u \in Seq(S) /\ Len(u) = Len(x) - 1 /\ \A i \in 1..Len(u) : u[i] = x[i + 1]
  BY HeadTailProperties
<1>8. /\ Tail(z) \in Seq(S) /\ Len(Tail(z)) = Len(z) - 1
      /\ \A i \in 1..Len(Tail(z)) : Tail(z)[i] = z[i + 1]
  BY <1>1, <1>3, HeadTailProperties
<1> HIDE DEF u, z
<1>9. /\ v \in Seq(S) /\ Len(v) = Len(u) + Len(y)
      /\ \A i \in 1..(Len(u) + Len(y)) : v[i] = IF i <= Len(u) THEN u[i] ELSE y[i - Len(u)]
  BY <1>7, ConcatProperties
<1> HIDE DEF v
<1>10. Len(Tail(z)) = Len(v) BY <1>1, <1>2, <1>7, <1>8, <1>9
<1>11. ASSUME NEW i \in 1..Len(Tail(z)) PROVE Tail(z)[i] = v[i]
  <2>1. i \in Nat /\ i >= 1 /\ i + 1 \in 1..(Len(x) + Len(y)) /\ i \in 1..(Len(u) + Len(y))
    BY <1>1, <1>2, <1>7, <1>8
  <2>2. Tail(z)[i] = z[i + 1] BY <1>8
  <2>3. CASE i <= Len(u)
    <3>1. i + 1 <= Len(x) /\ i \in 1..Len(u) BY <1>2, <1>7, <2>1, <2>3
    <3>2. z[i + 1] = x[i + 1] BY <1>1, <2>1, <3>1
    <3>3. v[i] = u[i] BY <1>9, <2>1, <2>3
    <3> QED BY <1>7, <2>2, <3>1, <3>2, <3>3
  <2>4. CASE ~(i <= Len(u))
    <3>1. ~(i + 1 <= Len(x)) /\ (i + 1) - Len(x) = i - Len(u) BY <1>2, <1>7, <2>1, <2>4
    <3>2. z[i + 1] = y[(i + 1) - Len(x)] BY <1>1, <2>1, <3>1
    <3>3. v[i] = y[i - Len(u)] BY <1>9, <2>1, <2>4
    <3> QED BY <2>2, <3>1, <3>2, <3>3
  <2> QED BY <2>3, <2>4
<1>12. Tail(z) = v BY <1>8, <1>9, <1>10, <1>11, SeqEqual
<1> QED BY <1>3, <1>4, <1>6, <1>12 DEF u, v, z

LEMMA ToRunSeq ==
    ASSUME Rounds
    PROVE  functors \in Seq(Foreign) /\ pending \in Seq(Foreign) /\ ToRun \in Seq(Foreign)
BY ConcatProperties DEF Rounds, ToRun

\* What the loop's own queueInLoop adds.
LEMMA QueueAdds ==
    ASSUME NEW S, pending \in Seq(S), NEW f \in S, NEW b \in BOOLEAN,
           QueueInLoop(IF b THEN <<f>> ELSE <<>>)
    PROVE  pending' = pending \/ pending' = Append(pending, f)
<1>1. CASE b
  <2>1. pending' = pending \o <<f>> BY <1>1 DEF QueueInLoop
  <2> QED BY <2>1, AppendIsConcat
<1>2. CASE ~b
  <2>1. pending' = pending \o <<>> BY <1>2 DEF QueueInLoop
  <2> QED BY <2>1, ConcatEmptySeq
<1> QED BY <1>1, <1>2

\* Functors are added that send nothing.
LEMMA AddStep ==
    ASSUME Rounds, SameQueued, functors' = functors, NEW f \in Foreign, f.fn # "sendInLoop",
           pending' = pending \/ pending' = Append(pending, f),
           loop_pc' # "functors" => functors = <<>>
    PROVE  Rounds' /\ \A c \in Conns : Lasts(c)
<1>1. functors \in Seq(Foreign) /\ pending \in Seq(Foreign) /\ ToRun \in Seq(Foreign) BY ToRunSeq
<1>a. Append(pending, f) \in Seq(Foreign) BY <1>1, AppendProperties
<1>2. pending' \in Seq(Foreign) BY <1>1, <1>a
<1>3. Rounds' BY <1>1, <1>2 DEF Rounds, Foreign, Functors
<1>4. ToRun' = ToRun \/ ToRun' = Append(ToRun, f)
  <2>1. functors \o Append(pending, f) = Append(functors \o pending, f) BY <1>1, ConcatAppend
  <2> QED BY <2>1 DEF ToRun
<1>5. ASSUME NEW c \in Conns, NEW t \in Senders, NEW m \in Nat, Line(ToRun, c, t, m, Queued(t, c))
      PROVE  Line(ToRun', c, t, m, Queued(t, c)')
  <2>1. Queued(t, c)' = Queued(t, c) BY DEF SameQueued
  <2>2. ~IsSend(f, c, t) BY DEF IsSend
  <2>3. Line(Append(ToRun, f), c, t, m, Queued(t, c)) BY <1>1, <1>5, <2>2, LineOther
  <2> QED BY <1>4, <1>5, <2>1, <2>3
<1> QED BY <1>3, <1>5 DEF Lasts

\* The functors do not change.
LEMMA QuietStep ==
    ASSUME Rounds, SameQueued, UNCHANGED <<functors, pending>>,
           loop_pc' # "functors" => functors = <<>>
    PROVE  Rounds' /\ \A c \in Conns : Lasts(c)
<1>1. Rounds' BY DEF Rounds, Foreign, Functors
<1>2. ToRun' = ToRun BY DEF ToRun
<1> QED BY <1>1, <1>2 DEF Lasts, SameQueued

\* A functor runs.  The list lasts for the connections it does not send to.
LEMMA RunStep ==
    ASSUME Rounds, SameQueued, functors # <<>>, functors' = Tail(functors), NEW d \in Conns,
           pending' = pending \/ pending' = Append(pending, WriteComplete(d)),
           loop_pc' = "functors"
    PROVE  /\ Rounds'
           /\ \A c \in Conns : \/ Head(functors).fn = "sendInLoop" /\ Head(functors).conn = c
                               \/ Lasts(c)
<1> DEFINE f == WriteComplete(d)
<1>1. functors \in Seq(Foreign) /\ pending \in Seq(Foreign) /\ ToRun \in Seq(Foreign) BY ToRunSeq
<1>2. f \in Foreign /\ f.fn # "sendInLoop"
  BY DEF WriteComplete, Functor, Foreign, Functors, Senders
<1> HIDE DEF f
<1>3. pending' = pending \/ pending' = Append(pending, f) BY DEF f
<1>4. pending' \in Seq(Foreign) /\ Tail(functors) \in Seq(Foreign)
  <2>1. Append(pending, f) \in Seq(Foreign) BY <1>1, <1>2, AppendProperties
  <2>2. pending' \in Seq(Foreign) BY <1>1, <1>3, <2>1
  <2>3. Tail(functors) \in Seq(Foreign) BY <1>1, HeadTailProperties
  <2> QED BY <2>2, <2>3
<1>5. Rounds' BY <1>4 DEF Rounds, Foreign, Functors
<1>6. /\ ToRun # <<>> /\ Head(ToRun) = Head(functors)
      /\ Tail(ToRun) = Tail(functors) \o pending
  BY <1>1, ConcatTail DEF ToRun
<1>7. ToRun' = Tail(ToRun) \/ ToRun' = Append(Tail(ToRun), f)
  <2>1. CASE pending' = pending BY <1>6, <2>1 DEF ToRun
  <2>2. CASE pending' = Append(pending, f)
    <3>1. ToRun' = Tail(functors) \o Append(pending, f) BY <2>2 DEF ToRun
    <3>2. Tail(functors) \o Append(pending, f) = Append(Tail(functors) \o pending, f)
      BY <1>1, <1>2, <1>4, ConcatAppend
    <3> QED BY <1>6, <3>1, <3>2
  <2> QED BY <1>3, <2>1, <2>2
<1>8. Tail(ToRun) \in Seq(Foreign) BY <1>1, <1>6, HeadTailProperties
<1>9. ASSUME NEW c \in Conns, ~(Head(functors).fn = "sendInLoop" /\ Head(functors).conn = c),
             NEW t \in Senders, NEW m \in Nat, Line(ToRun, c, t, m, Queued(t, c))
      PROVE  Line(ToRun', c, t, m, Queued(t, c)')
  <2>1. Queued(t, c)' = Queued(t, c) BY DEF SameQueued
  <2>2. ~IsSend(Head(ToRun), c, t) /\ ~IsSend(f, c, t) BY <1>2, <1>6, <1>9 DEF IsSend
  <2>3. Line(Tail(ToRun), c, t, m, Queued(t, c)) BY <1>1, <1>6, <1>9, <2>2, LineSkips
  <2>4. Line(Append(Tail(ToRun), f), c, t, m, Queued(t, c)) BY <1>2, <1>8, <2>2, <2>3, LineOther
  <2> QED BY <1>7, <2>1, <2>3, <2>4
<1> QED BY <1>5, <1>9 DEF Lasts

\* A thread takes a step that is not queueInLoop of a message.
LEMMA ThreadKeepsQueued ==
    ASSUME LifeTypes, NEW t \in Threads, NEW r \in ThreadRecords, thr' = [thr EXCEPT ![t] = r],
           thr[t].pc # "queue" \/ thr[t].fn # "sendInLoop",
           r.pc # "queue" \/ r.fn # "sendInLoop", accepted' = accepted
    PROVE  SameQueued
<1>1. thr \in [Threads -> ThreadRecords] BY LifeTypesParts DEF ThreadPart
<1>2. thr'[t] = r /\ \A u \in Threads \ {t} : thr'[u] = thr[u] BY <1>1
<1>3. ASSUME NEW u \in Senders, NEW c \in Conns PROVE AtQueue(u, c)' <=> AtQueue(u, c)
  <2>1. CASE u = t BY <1>2, <2>1 DEF AtQueue
  <2>2. CASE u # t BY <1>2, <2>2 DEF AtQueue
  <2> QED BY <2>1, <2>2
<1> QED BY <1>3 DEF SameQueued, Queued

LEMMA SendKeepsQueued ==
    ASSUME LifeTypes, NEW t \in Threads, Send(t)
    PROVE  SameQueued
<1> DEFINE c == thr[t].conn
<1>1. thr[t].pc = "send" BY DEF Send
<1>2. c \in Conns BY <1>1 DEF LifeTypes, AtWork
<1>3. thr \in [Threads -> ThreadRecords] BY LifeTypesParts DEF ThreadPart
<1>4. CASE Goto(t, "shutdown") /\ UNCHANGED accepted
  <2>1. "shutdown" \in {"take", "wait", "idle", "send", "queue", "wakeup", "shutdown", "store"} OBVIOUS
  <2> QED BY <1>1, <1>4, <2>1, ThreadPcRecord, ThreadKeepsQueued DEF Goto
<1>5. CASE Done(t) /\ UNCHANGED accepted
  <2>1. PICK r \in ThreadRecords : r.pc \in {"take", "idle"} /\ thr' = [thr EXCEPT ![t] = r]
    BY <1>5, DoneRecord
  <2> QED BY <1>1, <1>5, <2>1, ThreadKeepsQueued
<1>6. CASE /\ accepted' = [accepted EXCEPT ![t][c] = @ + 1]
           /\ thr' = [thr EXCEPT ![t].pc = "queue", ![t].fn = "sendInLoop"]
  <2> DEFINE r == Thread("queue", thr[t].conn, thr[t].closing, "sendInLoop")
  <2>1. /\ r \in ThreadRecords /\ r.pc = "queue" /\ r.conn = c /\ r.fn = "sendInLoop"
        /\ thr' = [thr EXCEPT ![t] = r]
    BY <1>6, ThreadFnRecord
  <2> HIDE DEF r
  <2>2. thr'[t] = r /\ \A u \in Threads \ {t} : thr'[u] = thr[u] BY <1>3, <2>1
  <2>3. accepted \in [Senders -> [Conns -> Nat]] /\ t \in Senders BY DEF LifeTypes, TypeOK, Senders
  <2> HIDE DEF c
  <2>4. /\ accepted'[t][c] = accepted[t][c] + 1 /\ accepted[t][c] \in Nat
        /\ \A u \in Senders, d \in Conns : u # t \/ d # c => accepted'[u][d] = accepted[u][d]
    BY <1>2, <1>6, <2>3
  <2>5. ASSUME NEW u \in Senders, NEW d \in Conns PROVE Queued(u, d)' = Queued(u, d)
    <3>1. CASE u = t /\ d = c
      <4>1. AtQueue(u, d)' /\ ~AtQueue(u, d) BY <1>1, <2>1, <2>2, <3>1 DEF AtQueue
      <4>2. (accepted[t][c] + 1) - 1 = accepted[t][c] BY <2>4
      <4> QED BY <2>4, <3>1, <4>1, <4>2 DEF Queued
    <3>2. CASE u = t /\ d # c
      <4>1. ~AtQueue(u, d)' /\ ~AtQueue(u, d) BY <1>1, <2>1, <2>2, <3>2 DEF AtQueue
      <4> QED BY <2>4, <3>2, <4>1 DEF Queued
    <3>3. CASE u # t
      <4>1. AtQueue(u, d)' <=> AtQueue(u, d) BY <2>2, <3>3 DEF AtQueue
      <4> QED BY <2>4, <3>3, <4>1 DEF Queued
    <3> QED BY <3>1, <3>2, <3>3
  <2> QED BY <2>5 DEF SameQueued
<1> QED BY <1>4, <1>5, <1>6 DEF Send

\* queueInLoop off the loop thread: a message is queued behind the thread's others.
LEMMA QueueFunctorLasts ==
    ASSUME LifeTypes, Rounds, NEW t \in Threads, QueueFunctor(t)
    PROVE  Rounds' /\ \A c \in Conns : Lasts(c)
<1> DEFINE c == thr[t].conn
           f == IF thr[t].fn = "sendInLoop" THEN SendFunctor(c, t, accepted[t][c]) ELSE ShutdownFunctor(c, t)
           r == [thr[t] EXCEPT !.pc = "wakeup"]
<1>1. /\ thr[t].pc = "queue" /\ pending' = Append(pending, f) /\ Goto(t, "wakeup")
      /\ UNCHANGED <<loop_pc, functors, accepted>>
  BY DEF QueueFunctor, ghosts
<1>2. c \in Conns /\ (thr[t].fn = "sendInLoop" => accepted[t][c] # 0) BY <1>1 DEF LifeTypes, AtWork
<1>3. t \in Senders /\ accepted[t][c] \in Nat BY <1>2 DEF LifeTypes, TypeOK, Senders
<1>4. /\ r \in ThreadRecords /\ r.pc = "wakeup" /\ thr' = [thr EXCEPT ![t] = r]
  <2>1. "wakeup" \in {"take", "wait", "idle", "send", "queue", "wakeup", "shutdown", "store"} OBVIOUS
  <2> QED BY <1>1, <2>1, ThreadPcRecord DEF Goto
<1>5. functors \in Seq(Foreign) /\ pending \in Seq(Foreign) /\ ToRun \in Seq(Foreign) BY ToRunSeq
<1> HIDE DEF c, r
<1>6. CASE thr[t].fn # "sendInLoop"
  <2>1. SameQueued BY <1>1, <1>4, <1>6, ThreadKeepsQueued
  <2>2. f = ShutdownFunctor(c, t) BY <1>6
  <2>3. f \in Foreign /\ f.fn # "sendInLoop"
    BY <1>2, <1>3, <2>2 DEF ShutdownFunctor, Functor, Foreign, Functors
  <2> HIDE DEF f
  <2>4. loop_pc' # "functors" => functors = <<>> BY <1>1 DEF Rounds
  <2> QED BY <1>1, <2>1, <2>3, <2>4, AddStep
<1>7. CASE thr[t].fn = "sendInLoop"
  <2>1. f = SendFunctor(c, t, accepted[t][c]) BY <1>7
  <2>2. /\ f \in Foreign /\ f.fn = "sendInLoop" /\ f.conn = c /\ f.from = t
        /\ f.num = accepted[t][c]
    BY <1>2, <1>3, <1>7, <2>1 DEF SendFunctor, Functor, Foreign, Functors
  <2> HIDE DEF f
  <2>3. pending' \in Seq(Foreign) BY <1>1, <1>5, <2>2, AppendProperties
  <2>4. Rounds' BY <1>1, <1>5, <2>3 DEF Rounds, Foreign, Functors
  <2>5. ToRun' = Append(ToRun, f)
    <3>1. functors \o Append(pending, f) = Append(functors \o pending, f) BY <1>5, <2>2, ConcatAppend
    <3> QED BY <1>1, <3>1 DEF ToRun
  <2>6. thr'[t] = r /\ \A u \in Threads \ {t} : thr'[u] = thr[u]
    <3>1. thr \in [Threads -> ThreadRecords] BY LifeTypesParts DEF ThreadPart
    <3> QED BY <1>4, <3>1
  <2>7. ASSUME NEW d \in Conns, NEW u \in Senders, NEW m \in Nat, Line(ToRun, d, u, m, Queued(u, d))
        PROVE  Line(ToRun', d, u, m, Queued(u, d)')
    <3>1. CASE u = t /\ d = c
      <4>1. ~AtQueue(u, d)' /\ AtQueue(u, d) BY <1>1, <1>4, <1>7, <2>6, <3>1 DEF AtQueue, c
      <4>2. Queued(u, d) = accepted[t][c] - 1 /\ Queued(u, d)' = accepted[t][c]
        BY <1>1, <3>1, <4>1 DEF Queued
      <4>3. f.num = Queued(u, d) + 1 /\ Queued(u, d)' = Queued(u, d) + 1 BY <1>3, <2>2, <4>2
      <4>4. IsSend(f, d, u) BY <2>2, <3>1 DEF IsSend
      <4>5. Line(Append(ToRun, f), d, u, m, Queued(u, d) + 1)
        BY <1>5, <2>2, <2>7, <4>3, <4>4, LineGrows
      <4> QED BY <2>5, <4>3, <4>5
    <3>2. CASE ~(u = t /\ d = c)
      <4>1. AtQueue(u, d)' <=> AtQueue(u, d)
        <5>1. CASE u = t BY <1>4, <2>6, <3>2, <5>1 DEF AtQueue, c
        <5>2. CASE u # t BY <2>6, <5>2 DEF AtQueue
        <5> QED BY <5>1, <5>2
      <4>2. Queued(u, d)' = Queued(u, d) BY <1>1, <4>1 DEF Queued
      <4>3. ~IsSend(f, d, u) BY <2>2, <3>2 DEF IsSend
      <4>4. Line(Append(ToRun, f), d, u, m, Queued(u, d)) BY <1>5, <2>2, <2>7, <4>3, LineOther
      <4> QED BY <2>5, <4>2, <4>4
    <3> QED BY <3>1, <3>2
  <2> QED BY <2>4, <2>7 DEF Lasts
<1> QED BY <1>6, <1>7

LEMMA ThreadsLast ==
    ASSUME LifeTypes, Rounds, NEW t \in Threads, ThreadStep(t) \/ Push(t)
    PROVE  Rounds' /\ \A c \in Conns : Lasts(c)
<1>1. CASE QueueFunctor(t) BY <1>1, QueueFunctorLasts
<1>2. ASSUME SameQueued, UNCHANGED <<loop_pc, functors, pending>>
      PROVE  Rounds' /\ \A c \in Conns : Lasts(c)
  <2>1. loop_pc' # "functors" => functors = <<>> BY <1>2 DEF Rounds
  <2> QED BY <1>2, <2>1, QuietStep
<1>3. ~QueueFunctor(t) => UNCHANGED <<loop_pc, functors, pending>>
  BY DEF ThreadStep, Take, TakeWait, Send, Wakeup, Shutdown, ShutdownStore, Push, loop_vars
<1>4. CASE Send(t) BY <1>1, <1>2, <1>3, <1>4, SendKeepsQueued
<1>5. ASSUME NEW r \in ThreadRecords, thr' = [thr EXCEPT ![t] = r],
             thr[t].pc # "queue", r.pc # "queue" \/ r.fn # "sendInLoop", accepted' = accepted
      PROVE  SameQueued
  BY <1>5, ThreadKeepsQueued
<1>6. ASSUME NEW step \in {"wait", "shutdown", "store"}, Goto(t, step), thr[t].pc # "queue", accepted' = accepted
      PROVE  SameQueued
  <2> DEFINE r == [thr[t] EXCEPT !.pc = step]
  <2>1. r \in ThreadRecords /\ r.pc = step /\ thr' = [thr EXCEPT ![t] = r]
    <3>1. step \in {"take", "wait", "idle", "send", "queue", "wakeup", "shutdown", "store"} BY <1>6
    <3> QED BY <1>6, <3>1, ThreadPcRecord DEF Goto
  <2> HIDE DEF r
  <2> QED BY <1>5, <1>6, <2>1
<1>7. ASSUME Done(t), thr[t].pc # "queue", accepted' = accepted PROVE SameQueued
  <2>1. PICK r \in ThreadRecords : r.pc \in {"take", "idle"} /\ thr' = [thr EXCEPT ![t] = r]
    BY <1>7, DoneRecord
  <2> QED BY <1>5, <1>7, <2>1
<1>8. CASE Take(t)
  <2> DEFINE r == Thread("send", Head(queue).conn, Head(queue).frame = "close", "none")
  <2>1. queue \in Seq(SoundTasks) /\ queue # <<>> /\ thr[t].pc = "take" BY <1>8 DEF Take, LifeTypes
  <2>2. Head(queue) \in SoundTasks BY <2>1, HeadTailProperties
  <2>3. r \in ThreadRecords /\ r.pc = "send"
    <3>1. (Head(queue).frame = "close") \in BOOLEAN OBVIOUS
    <3>2. Head(queue).conn \in Conns BY <2>2 DEF SoundTasks
    <3> QED BY <3>1, <3>2 DEF Thread, ThreadRecords
  <2>4. thr' = [thr EXCEPT ![t] = r] /\ accepted' = accepted BY <1>8 DEF Take, ghosts
  <2> HIDE DEF r
  <2>5. SameQueued BY <1>5, <2>1, <2>3, <2>4
  <2> QED BY <1>1, <1>2, <1>3, <2>5
<1>9. CASE Push(t)
  <2>1. PICK c \in greeted : thr' = [thr EXCEPT ![t] = Thread("send", c, FALSE, "none")] BY <1>9 DEF Push
  <2> DEFINE r == Thread("send", c, FALSE, "none")
  <2>2. r \in ThreadRecords /\ r.pc = "send" BY DEF Thread, ThreadRecords, LifeTypes, TypeOK
  <2>3. thr' = [thr EXCEPT ![t] = r] /\ accepted' = accepted /\ thr[t].pc = "idle" BY <1>9, <2>1 DEF Push, ghosts
  <2> HIDE DEF r
  <2>4. SameQueued BY <1>5, <2>2, <2>3
  <2> QED BY <1>1, <1>2, <1>3, <2>4
<1>10. CASE TakeWait(t) \/ Wakeup(t) \/ Shutdown(t)
  <2>1. thr[t].pc # "queue" /\ accepted' = accepted BY <1>10 DEF TakeWait, Wakeup, Shutdown, ghosts
  <2>2. Goto(t, "wait") \/ Goto(t, "shutdown") \/ Goto(t, "store") \/ Done(t)
    BY <1>10 DEF TakeWait, Wakeup, Shutdown
  <2>3. SameQueued BY <1>6, <1>7, <2>1, <2>2
  <2> QED BY <1>1, <1>2, <1>3, <2>3
<1>11. CASE ShutdownStore(t)
  <2> DEFINE r == Thread("queue", thr[t].conn, thr[t].closing, "shutdownInLoop")
  <2>1. /\ thr[t].pc = "store" /\ accepted' = accepted
        /\ thr' = [thr EXCEPT ![t].pc = "queue", ![t].fn = "shutdownInLoop"]
    BY <1>11 DEF ShutdownStore
  <2>2. r \in ThreadRecords /\ r.fn = "shutdownInLoop" /\ thr' = [thr EXCEPT ![t] = r]
    BY <2>1, ThreadFnRecord
  <2> HIDE DEF r
  <2>3. SameQueued BY <1>5, <2>1, <2>2
  <2> QED BY <1>1, <1>2, <1>3, <2>3
<1> QED BY <1>1, <1>4, <1>8, <1>9, <1>10, <1>11 DEF ThreadStep

-----------------------------------------------------------------------------
(* A connection stays carried *)

\* The message n of t goes to the stream, and the functors go on behind it.
Follows(c, t, n) ==
    /\ \A m \in Nat : Line(ToRun, c, t, m, Queued(t, c)) =>
          n = m + 1 /\ Line(ToRun', c, t, m + 1, Queued(t, c)')
    /\ \A u \in Senders \ {t}, m \in Nat :
          Line(ToRun, c, u, m, Queued(u, c)) => Line(ToRun', c, u, m, Queued(u, c)')

LEMMA CarriedKeeps ==
    ASSUME NEW c \in Conns, Carried(c), Keeps(c), Lasts(c)
    PROVE  Carried(c)'
<1>1. PICK m \in [Senders -> Nat] : Holds(Stream(c), m) /\ Continued(c, m) BY DEF Carried
<1>a. Intact(Stream(c)') /\ Holds(Stream(c)', m) BY <1>1, Zenon DEF Carried, Keeps
<1>2. Intact(Stream(c))' /\ Holds(Stream(c), m)' BY <1>a DEF Intact, Holds
<1>3. Continued(c, m)'
  <2>1. CASE Dead(c) BY <2>1 DEF Keeps, Continued
  <2>2. CASE ~Dead(c)
    <3>1. \A t \in Senders : m[t] \in Nat /\ Line(ToRun, c, t, m[t], Queued(t, c))
      BY <1>1, <2>2 DEF Continued
    <3>2. \A t \in Senders : Line(ToRun', c, t, m[t], Queued(t, c)') BY <3>1 DEF Lasts
    <3> QED BY <3>2 DEF Continued, Line, IsSend
  <2> QED BY <2>1, <2>2
<1> QED BY <1>2, <1>3 DEF Carried

LEMMA CarriedDrops ==
    ASSUME NEW c \in Conns, Carried(c), Drops(c)
    PROVE  Carried(c)'
<1>1. PICK m \in [Senders -> Nat] : Holds(Stream(c), m) BY DEF Carried
<1>a. Intact(Stream(c)') /\ Holds(Stream(c)', m) BY <1>1, Zenon DEF Carried, Drops
<1>2. Intact(Stream(c))' /\ Holds(Stream(c), m)' BY <1>a DEF Intact, Holds
<1> QED BY <1>2 DEF Carried, Drops, Continued

LEMMA CarriedGrows ==
    ASSUME LifeTypes, NEW c \in Conns, NEW t \in Senders, NEW n \in Nat \ {0},
           Carried(c), Adds(c, t, n), Follows(c, t, n)
    PROVE  Carried(c)'
<1>1. PICK m \in [Senders -> Nat] : Holds(Stream(c), m) /\ Continued(c, m) BY DEF Carried
<1> DEFINE mm == [m EXCEPT ![t] = @ + 1]
<1>2. \A u \in Senders : m[u] \in Nat /\ Line(ToRun, c, u, m[u], Queued(u, c))
  BY <1>1 DEF Continued, Adds
<1>3. n = m[t] + 1 /\ Line(ToRun', c, t, m[t] + 1, Queued(t, c)') BY <1>2 DEF Follows
<1>4. Stream(c) \in Seq(Byte) BY StreamType
<1>5. Stream(c)' = Stream(c) \o Bytes(t, m[t] + 1) BY <1>3 DEF Adds
<1>6. Extends(Stream(c)', Stream(c), t, MsgLen * m[t]) BY <1>2, <1>4, <1>5, MessageExtends
<1>7. Intact(Stream(c)') BY <1>1, <1>6, IntactGrows DEF Carried
<1>8. Holds(Stream(c)', mm) BY <1>1, <1>6, HoldsGrows
<1>9. mm \in [Senders -> Nat] /\ \A u \in Senders : mm[u] = IF u = t THEN m[t] + 1 ELSE m[u]
  BY <1>2
<1> HIDE DEF mm
<1>10. \A u \in Senders : Line(ToRun', c, u, mm[u], Queued(u, c)')
  BY <1>2, <1>3, <1>9 DEF Follows
<1>11. Continued(c, mm)' BY <1>10 DEF Continued, Line, IsSend
<1>12. Intact(Stream(c))' /\ Holds(Stream(c), mm)' BY <1>7, <1>8 DEF Intact, Holds
<1> QED BY <1>9, <1>11, <1>12 DEF Carried

\* doPendingFunctors takes the functors when those it took before have run.
LEMMA TakeFunctorsLasts ==
    ASSUME Rounds, TakeFunctors
    PROVE  Rounds' /\ \A c \in Conns : Lasts(c)
<1>1. functors = <<>> BY DEF TakeFunctors, Rounds
<1>2. pending \in Seq(Foreign) BY ToRunSeq
<1>3. functors' = pending /\ pending' = <<>> /\ loop_pc' = "functors" BY DEF TakeFunctors
<1>4. ToRun' = ToRun BY <1>1, <1>2, <1>3, ConcatEmptySeq DEF ToRun
<1>5. <<>> \in Seq(Foreign) OBVIOUS
<1>6. Rounds' BY <1>2, <1>3, <1>5 DEF Rounds, Foreign, Functors
<1>7. SameQueued BY DEF TakeFunctors, ghosts, SameQueued, Queued, AtQueue
<1> QED BY <1>4, <1>6, <1>7 DEF Lasts, SameQueued

\* The loop's handlers other than those that send.
LEMMA HandlersLast ==
    ASSUME LifeInv, Rounds, NEW c \in Conns, HandleHup(c) \/ HandleRead(c) \/ HandleWrite(c)
    PROVE  Rounds' /\ \A d \in Conns : Lasts(d)
<1>1. UNCHANGED <<functors, accepted>> /\ loop_pc = "handle" /\ loop_pc' = loop_pc
  BY DEF HandleHup, HandleRead, HandleWrite, Handling, Handled, ghosts
<1>2. functors = <<>> /\ pending \in Seq(Foreign) BY <1>1, ToRunSeq DEF Rounds
<1>3. SameQueued
  <2>1. CASE thr' = thr BY <1>1, <2>1 DEF SameQueued, Queued, AtQueue
  <2>2. CASE RunTasks(c, rx[c])
    <3>1. PICK woken \in SUBSET {w \in Workers : thr[w].pc = "wait"} :
            thr' = [t \in Threads |-> IF t \in woken THEN [thr[t] EXCEPT !.pc = "take"] ELSE thr[t]]
      BY <2>2 DEF RunTasks
    <3>2. \A t \in Threads : thr[t] \in ThreadRecords BY LifeTypesParts DEF LifeInv, ThreadPart
    <3>3. ASSUME NEW t \in Threads
          PROVE  thr'[t] = thr[t] \/ (thr'[t].pc = "take" /\ thr[t].pc = "wait")
      <4>1. CASE t \in woken
        <5>1. thr'[t] = [thr[t] EXCEPT !.pc = "take"] BY <3>1, <4>1
        <5> QED BY <3>2, <4>1, <5>1 DEF ThreadRecords
      <4>2. CASE t \notin woken BY <3>1, <4>2
      <4> QED BY <4>1, <4>2
    <3>4. \A t \in Senders, d \in Conns : AtQueue(t, d)' <=> AtQueue(t, d) BY <3>3 DEF AtQueue
    <3> QED BY <1>1, <3>4 DEF SameQueued, Queued
  <2> QED BY <2>1, <2>2 DEF HandleHup, HandleRead, HandleWrite
<1>4. ASSUME NEW f \in Foreign, f.fn # "sendInLoop", NEW b \in BOOLEAN,
             QueueInLoop(IF b THEN <<f>> ELSE <<>>)
      PROVE  Rounds' /\ \A d \in Conns : Lasts(d)
  <2>1. pending' = pending \/ pending' = Append(pending, f) BY <1>2, <1>4, QueueAdds
  <2> QED BY <1>1, <1>2, <1>3, <1>4, <2>1, AddStep
<1>5. CASE pending' = pending BY <1>1, <1>2, <1>3, <1>5, QuietStep
<1>6. CASE QueueInLoop(<<ConnectDestroyed(c)>>)
  <2>1. ConnectDestroyed(c) \in Foreign /\ ConnectDestroyed(c).fn # "sendInLoop"
    BY DEF ConnectDestroyed, Functor, Foreign, Functors, Senders
  <2>2. QueueInLoop(IF TRUE THEN <<ConnectDestroyed(c)>> ELSE <<>>) BY <1>6
  <2> QED BY <1>4, <2>1, <2>2
<1>7. CASE HandleWrite(c)
  <2>1. WriteComplete(c) \in Foreign /\ WriteComplete(c).fn # "sendInLoop"
    BY DEF WriteComplete, Functor, Foreign, Functors, Senders
  <2>2. PICK b \in BOOLEAN : QueueInLoop(IF b THEN <<WriteComplete(c)>> ELSE <<>>)
    BY <1>7 DEF HandleWrite
  <2> QED BY <1>4, <2>1, <2>2
<1>8. pending' = pending \/ QueueInLoop(<<ConnectDestroyed(c)>>) \/ HandleWrite(c)
  BY DEF HandleHup, HandleRead, HandleClose
<1> QED BY <1>5, <1>6, <1>7, <1>8

\* A functor that does not send runs.
LEMMA OtherFunctorsLast ==
    ASSUME LifeTypes, Rounds, RunShutdown \/ RunWriteComplete \/ RunConnectDestroyed
    PROVE  Rounds' /\ \A c \in Conns : Lasts(c)
<1>1. PICK fn \in {"shutdownInLoop", "writeComplete", "connectDestroyed"} : Running(fn)
  BY DEF RunShutdown, RunWriteComplete, RunConnectDestroyed
<1>2. pending' = pending BY DEF RunShutdown, RunWriteComplete, RunConnectDestroyed
<1>3. /\ functors # <<>> /\ functors' = Tail(functors) /\ loop_pc' = "functors"
      /\ UNCHANGED <<thr, accepted>> /\ Head(functors).fn # "sendInLoop"
  BY <1>1 DEF Running, ghosts
<1>4. SameQueued BY <1>3 DEF SameQueued, Queued, AtQueue
<1>5. Head(functors).conn \in Conns BY <1>1, HeadFunctor
<1> QED BY <1>2, <1>3, <1>4, <1>5, RunStep

\* What sendInLoop queues.
LEMMA SendAdds ==
    ASSUME Rounds, NEW c \in Conns, SendEffect(c)
    PROVE  pending' = pending \/ pending' = Append(pending, WriteComplete(c))
<1>1. PICK b \in BOOLEAN : QueueInLoop(IF b THEN <<WriteComplete(c)>> ELSE <<>>) BY DEF SendEffect
<1>2. WriteComplete(c) \in Foreign BY DEF WriteComplete, Functor, Foreign, Functors, Senders
<1> QED BY <1>1, <1>2, ToRunSeq, QueueAdds

\* The functor that runs is the next message of its thread.
LEMMA RunFollows ==
    ASSUME Rounds, SameQueued, functors # <<>>, functors' = Tail(functors), NEW c \in Conns,
           pending' = pending \/ pending' = Append(pending, WriteComplete(c)),
           NEW t \in Senders, NEW n \in Nat, IsSend(Head(functors), c, t), Head(functors).num = n
    PROVE  Follows(c, t, n)
<1> DEFINE f == WriteComplete(c)
<1>1. functors \in Seq(Foreign) /\ pending \in Seq(Foreign) /\ ToRun \in Seq(Foreign) BY ToRunSeq
<1>2. f \in Foreign /\ f.fn # "sendInLoop"
  BY DEF WriteComplete, Functor, Foreign, Functors, Senders
<1>3. pending' = pending \/ pending' = Append(pending, f) OBVIOUS
<1> HIDE DEF f
<1>4. Tail(functors) \in Seq(Foreign) BY <1>1, HeadTailProperties
<1>5. /\ ToRun # <<>> /\ Head(ToRun) = Head(functors)
      /\ Tail(ToRun) = Tail(functors) \o pending
  BY <1>1, ConcatTail DEF ToRun
<1>6. ToRun' = Tail(ToRun) \/ ToRun' = Append(Tail(ToRun), f)
  <2>1. CASE pending' = pending BY <1>5, <2>1 DEF ToRun
  <2>2. CASE pending' = Append(pending, f)
    <3>1. ToRun' = Tail(functors) \o Append(pending, f) BY <2>2 DEF ToRun
    <3>2. Tail(functors) \o Append(pending, f) = Append(Tail(functors) \o pending, f)
      BY <1>1, <1>2, <1>4, ConcatAppend
    <3> QED BY <1>5, <3>1, <3>2
  <2> QED BY <1>3, <2>1, <2>2
<1>7. Tail(ToRun) \in Seq(Foreign) BY <1>1, <1>5, HeadTailProperties
<1>8. ASSUME NEW u \in Senders, NEW m, NEW l, Line(Tail(ToRun), c, u, m, l)
      PROVE  Line(ToRun', c, u, m, l)
  <2>1. ~IsSend(f, c, u) BY <1>2 DEF IsSend
  <2>2. Line(Append(Tail(ToRun), f), c, u, m, l) BY <1>2, <1>7, <1>8, <2>1, LineOther
  <2> QED BY <1>6, <1>8, <2>2
<1>9. \A u \in Senders : Queued(u, c)' = Queued(u, c) BY DEF SameQueued
<1>10. ASSUME NEW m \in Nat, Line(ToRun, c, t, m, Queued(t, c))
       PROVE  n = m + 1 /\ Line(ToRun', c, t, m + 1, Queued(t, c)')
  <2>1. IsSend(Head(ToRun), c, t) /\ Head(ToRun).num = n BY <1>5
  <2>2. Head(ToRun).num = m + 1 /\ Line(Tail(ToRun), c, t, m + 1, Queued(t, c))
    BY <1>1, <1>5, <1>10, <2>1, LineRuns
  <2>3. Line(ToRun', c, t, m + 1, Queued(t, c)) BY <1>8, <2>2
  <2> QED BY <1>9, <2>1, <2>2, <2>3
<1>11. ASSUME NEW u \in Senders \ {t}, NEW m \in Nat, Line(ToRun, c, u, m, Queued(u, c))
       PROVE  Line(ToRun', c, u, m, Queued(u, c)')
  <2>1. ~IsSend(Head(ToRun), c, u) BY <1>5 DEF IsSend
  <2>2. Line(Tail(ToRun), c, u, m, Queued(u, c)) BY <1>1, <1>5, <1>11, <2>1, LineSkips
  <2>3. Line(ToRun', c, u, m, Queued(u, c)) BY <1>8, <2>2
  <2> QED BY <1>9, <2>3
<1> QED BY <1>10, <1>11 DEF Follows

\* sendInLoop as a functor.
LEMMA RunSendCarries ==
    ASSUME LifeInv, Rounds, RunSend, ConnStep, reset' = reset
    PROVE  Rounds' /\ \A c \in Conns \ stale' : Carried(c) => Carried(c)'
<1> DEFINE h == Head(functors)
           d == h.conn
<1>1. LifeTypes BY DEF LifeInv
<1>2. Running("sendInLoop") /\ fin' = fin BY DEF RunSend
<1>3. /\ h \in SoundFunctors /\ d \in Conns /\ h.from \in Senders /\ h.num \in Nat
      /\ h.fn = "sendInLoop"
  BY <1>1, <1>2, HeadFunctor
<1>4. h.num \in Nat \ {0} /\ IsSend(h, d, h.from) BY <1>3 DEF SoundFunctors, IsSend
<1>5. /\ functors # <<>> /\ functors' = Tail(functors) /\ loop_pc' = "functors"
      /\ UNCHANGED <<thr, accepted, state>>
  BY <1>2 DEF Running, ghosts
<1>6. SameQueued BY <1>5 DEF SameQueued, Queued, AtQueue
<1>a. CASE state[d] = "kDisconnected"
  <2>1. UNCHANGED <<sent, out, pending>> BY <1>a DEF RunSend
  <2>2. Rounds' /\ \A c \in Conns : c = d \/ Lasts(c) BY <1>3, <1>5, <1>6, <2>1, RunStep
  <2>3. ASSUME NEW c \in Conns \ stale', Carried(c) PROVE Carried(c)'
    <3>1. Keeps(c) BY <2>1, OtherStream
    <3>2. CASE c # d BY <2>2, <2>3, <3>1, <3>2, CarriedKeeps
    <3>3. CASE c = d
      <4>1. Dead(c)' BY <1>a, <1>5, <3>3 DEF Dead
      <4> QED BY <2>3, <3>1, <4>1, CarriedDrops DEF Keeps, Drops
    <3> QED BY <3>2, <3>3
  <2> QED BY <2>2, <2>3
<1>b. CASE state[d] # "kDisconnected"
  <2>1. SendInLoop(d, h.from, h.num) BY <1>b DEF RunSend
  <2>2. Adds(d, h.from, h.num) \/ Drops(d)
    BY <1>1, <1>2, <1>3, <1>4, <1>b, <2>1, SendInLoopStream
  <2>3. SendEffect(d) BY <1>1, <1>3, <1>4, <2>1, SendInLoopEffect
  <2>4. pending' = pending \/ pending' = Append(pending, WriteComplete(d)) BY <1>3, <2>3, SendAdds
  <2>5. Rounds' /\ \A c \in Conns : c = d \/ Lasts(c) BY <1>3, <1>5, <1>6, <2>4, RunStep
  <2>6. Follows(d, h.from, h.num) BY <1>3, <1>4, <1>5, <1>6, <2>4, RunFollows
  <2>7. ASSUME NEW c \in Conns \ stale', Carried(c) PROVE Carried(c)'
    <3>1. CASE c # d
      <4>1. sent'[c] = sent[c] /\ out'[c] = out[c] BY <2>3, <3>1 DEF SendEffect
      <4>2. Keeps(c) BY <4>1, OtherStream
      <4> QED BY <2>5, <2>7, <3>1, <4>2, CarriedKeeps
    <3>2. CASE c = d
      <4>1. CASE Drops(d) BY <2>7, <3>2, <4>1, CarriedDrops
      <4>2. CASE Adds(d, h.from, h.num)
        BY <1>1, <1>3, <1>4, <2>6, <2>7, <3>2, <4>2, CarriedGrows
      <4> QED BY <2>2, <4>1, <4>2
    <3> QED BY <3>1, <3>2
  <2> QED BY <2>5, <2>7
<1> QED BY <1>a, <1>b

\* sendInLoop called by send() on the loop thread.
LEMMA LoopSendCarries ==
    ASSUME LifeInv, Rounds, NEW d \in Conns, LoopSend(d), ConnStep, UNCHANGED <<reset, fin, functors, thr>>,
           functors = <<>>
    PROVE  Rounds' /\ \A c \in Conns \ stale' : Carried(c) => Carried(c)'
<1>1. LifeTypes BY DEF LifeInv
<1>2. accepted \in [Senders -> [Conns -> Nat]] /\ LoopThread \in Senders /\ LoopThread \notin Threads
  BY <1>1, ReactorAssumption DEF LifeTypes, TypeOK, Senders
<1>a. CASE state[d] # "kConnected"
  <2>1. UNCHANGED <<accepted, sent, out, pending>> BY <1>a DEF LoopSend
  <2>2. SameQueued BY <2>1 DEF SameQueued, Queued, AtQueue
  <2>3. Rounds' /\ \A c \in Conns : Lasts(c) BY <2>1, <2>2, QuietStep
  <2>4. \A c \in Conns \ stale' : Keeps(c) BY <2>1, OtherStream
  <2> QED BY <2>3, <2>4, CarriedKeeps
<1>b. CASE state[d] = "kConnected"
  <2> DEFINE n == accepted[LoopThread][d] + 1
             f == WriteComplete(d)
  <2>1. /\ accepted' = [accepted EXCEPT ![LoopThread][d] = @ + 1]
        /\ SendInLoop(d, LoopThread, n)
    BY <1>b DEF LoopSend
  <2>2. n \in Nat \ {0} BY <1>2
  <2>3. Adds(d, LoopThread, n) \/ Drops(d) BY <1>1, <1>2, <1>b, <2>1, <2>2, SendInLoopStream
  <2>4. SendEffect(d) BY <1>1, <1>2, <2>1, <2>2, SendInLoopEffect
  <2>5. pending' = pending \/ pending' = Append(pending, f) BY <2>4, SendAdds
  <2>6. functors \in Seq(Foreign) /\ pending \in Seq(Foreign) /\ ToRun \in Seq(Foreign) BY ToRunSeq
  <2>7. f \in Foreign /\ f.fn # "sendInLoop"
    BY DEF WriteComplete, Functor, Foreign, Functors, Senders
  <2>8. /\ accepted'[LoopThread][d] = accepted[LoopThread][d] + 1
        /\ \A t \in Senders, c \in Conns : t # LoopThread \/ c # d => accepted'[t][c] = accepted[t][c]
    BY <1>2, <2>1
  <2>9. \A t \in Senders, c \in Conns : AtQueue(t, c)' <=> AtQueue(t, c) BY DEF AtQueue
  <2>10. ~AtQueue(LoopThread, d) BY <1>2 DEF AtQueue
  <2>11. /\ Queued(LoopThread, d) = accepted[LoopThread][d]
         /\ Queued(LoopThread, d)' = accepted[LoopThread][d] + 1
         /\ \A t \in Senders, c \in Conns : t # LoopThread \/ c # d => Queued(t, c)' = Queued(t, c)
    BY <1>2, <2>8, <2>9, <2>10 DEF Queued
  <2> HIDE DEF f
  <2>12. ToRun' = ToRun \/ ToRun' = Append(ToRun, f)
    <3>1. functors \o Append(pending, f) = Append(functors \o pending, f) BY <2>6, <2>7, ConcatAppend
    <3> QED BY <2>5, <3>1 DEF ToRun
  <2>13. ASSUME NEW c \in Conns, NEW t \in Senders, NEW m, NEW l, Line(ToRun, c, t, m, l)
         PROVE  Line(ToRun', c, t, m, l)
    <3>1. ~IsSend(f, c, t) BY <2>7 DEF IsSend
    <3>2. Line(Append(ToRun, f), c, t, m, l) BY <2>6, <2>7, <2>13, <3>1, LineOther
    <3> QED BY <2>12, <2>13, <3>2
  <2>14. Rounds'
    <3>1. Append(pending, f) \in Seq(Foreign) BY <2>6, <2>7, AppendProperties
    <3>2. pending' \in Seq(Foreign) BY <2>5, <2>6, <3>1
    <3> QED BY <2>6, <3>2 DEF Rounds, Foreign, Functors
  <2>15. ASSUME NEW m \in Nat, Line(ToRun, d, LoopThread, m, Queued(LoopThread, d))
         PROVE  n = m + 1 /\ Line(ToRun', d, LoopThread, m + 1, Queued(LoopThread, d)')
    <3>1. \A p \in DOMAIN ToRun : ~IsSend(ToRun[p], d, LoopThread)
      <4>1. \A p \in DOMAIN ToRun : ToRun[p] \in Foreign BY <2>6
      <4> QED BY <1>2, <4>1 DEF IsSend, Foreign
    <3>2. /\ m = Queued(LoopThread, d)
          /\ Line(ToRun, d, LoopThread, m + 1, Queued(LoopThread, d) + 1)
      BY <2>15, <3>1, LineEmpty
    <3>3. Line(ToRun', d, LoopThread, m + 1, Queued(LoopThread, d) + 1) BY <1>2, <2>13, <3>2
    <3> QED BY <2>11, <3>2, <3>3
  <2>16. Follows(d, LoopThread, n) BY <2>11, <2>13, <2>15 DEF Follows
  <2>17. \A c \in Conns \ {d} : Lasts(c) BY <2>11, <2>13 DEF Lasts
  <2>18. ASSUME NEW c \in Conns \ stale', Carried(c) PROVE Carried(c)'
    <3>1. CASE c # d
      <4>1. sent'[c] = sent[c] /\ out'[c] = out[c] BY <2>4, <3>1 DEF SendEffect
      <4>2. Keeps(c) BY <4>1, OtherStream
      <4> QED BY <2>17, <2>18, <3>1, <4>2, CarriedKeeps
    <3>2. CASE c = d
      <4>1. CASE Drops(d) BY <2>18, <3>2, <4>1, CarriedDrops
      <4>2. CASE Adds(d, LoopThread, n)
        BY <1>1, <1>2, <2>2, <2>16, <2>18, <3>2, <4>2, CarriedGrows
      <4> QED BY <2>3, <4>1, <4>2
    <3> QED BY <3>1, <3>2
  <2> QED BY <2>14, <2>18
<1> QED BY <1>a, <1>b

\* The handshake and the hello message.
LEMMA HelloCarries ==
    ASSUME LifeInv, Rounds, NEW d \in Conns, HandleHandshake(d) \/ SendHelloMessage(d), ConnStep
    PROVE  Rounds' /\ \A c \in Conns \ stale' : Carried(c) => Carried(c)'
<1>1. UNCHANGED <<reset, fin, functors, thr>> /\ loop_pc # "functors"
  BY DEF HandleHandshake, SendHelloMessage, Handled
<1>2. functors = <<>> BY <1>1 DEF Rounds
<1>3. CASE LoopSend(d) BY <1>1, <1>2, <1>3, LoopSendCarries
<1>4. CASE UNCHANGED <<accepted, sent, out, pending>>
  <2>1. SameQueued BY <1>1, <1>4 DEF SameQueued, Queued, AtQueue
  <2>2. Rounds' /\ \A c \in Conns : Lasts(c) BY <1>1, <1>2, <1>4, <2>1, QuietStep
  <2>3. \A c \in Conns \ stale' : Keeps(c) BY <1>1, <1>4, OtherStream
  <2> QED BY <2>2, <2>3, CarriedKeeps
<1> QED BY <1>3, <1>4 DEF HandleHandshake, SendHelloMessage

\* handleWrite.
LEMMA HandleWriteKeeps ==
    ASSUME LifeInv, NEW d \in Conns, HandleWrite(d), ConnStep
    PROVE  \A c \in Conns \ stale' : Keeps(c)
<1>1. LifeTypes /\ reset \subseteq reset' BY DEF LifeInv, HandleWrite
<1>2. Drains(d) BY <1>1, HandleWriteDrains
<1>3. ASSUME NEW c \in Conns \ stale' PROVE Keeps(c)
  <2>1. CASE c # d
    <3>1. sent'[c] = sent[c] /\ out'[c] = out[c] BY <1>2, <2>1 DEF Drains
    <3> QED BY <1>1, <3>1, OtherStream
  <2>2. CASE c = d
    <3>1. Stream(c)' = Stream(c) BY <1>1, <2>2, HandleWriteStream
    <3>2. out[c] = <<>> => out'[c] = <<>> BY <1>2, <2>2 DEF Drains
    <3>3. Dead(c) => Dead(c)' BY <1>1, <3>2, DeadStays
    <3> QED BY <3>1, <3>3 DEF Keeps
  <2> QED BY <2>1, <2>2
<1> QED BY <1>3

\* Every step.
LEMMA NextStreams ==
    ASSUME LifeInv, Rounds, [Next]_vars
    PROVE  Rounds' /\ \A c \in Conns \ stale' : Carried(c) => Carried(c)'
<1>1. ConnStep /\ LifeTypes BY NextConnStep DEF LifeInv
<1>2. reset \subseteq reset' BY NextPeerTypes
<1>3. ASSUME Rounds', \A c \in Conns : Lasts(c), \A c \in Conns \ stale' : Keeps(c)
      PROVE  Rounds' /\ \A c \in Conns \ stale' : Carried(c) => Carried(c)'
  BY <1>3, CarriedKeeps
<1>4. ASSUME UNCHANGED <<sent, out>> PROVE \A c \in Conns \ stale' : Keeps(c)
  BY <1>1, <1>2, <1>4, OtherStream
<1>5. ASSUME UNCHANGED <<thr, accepted, functors, pending, loop_pc>>
      PROVE  Rounds' /\ \A c \in Conns : Lasts(c)
  <2>1. SameQueued BY <1>5 DEF SameQueued, Queued, AtQueue
  <2> QED BY <1>5, <2>1, QuietStep DEF Rounds
<1>6. CASE Poll
  <2>1. SameQueued BY <1>6 DEF Poll, ghosts, SameQueued, Queued, AtQueue
  <2>2. Rounds' /\ \A c \in Conns : Lasts(c) BY <1>6, <2>1, QuietStep DEF Poll
  <2>3. UNCHANGED <<sent, out>> BY <1>6 DEF Poll, sock_vars, conn_vars
  <2> QED BY <1>3, <1>4, <2>2, <2>3
<1>7. CASE HandleWakeup \/ NewConnection
  <2>1. UNCHANGED <<thr, accepted, functors, pending, loop_pc, sent, out>>
    BY <1>7 DEF HandleWakeup, NewConnection, Handling, Handled, conn_vars, sock_vars, ghosts
  <2> QED BY <1>3, <1>4, <1>5, <2>1
<1>8. CASE TakeFunctors
  <2>1. UNCHANGED <<sent, out>> BY <1>8 DEF TakeFunctors, sock_vars, conn_vars
  <2> QED BY <1>3, <1>4, <1>8, <2>1, TakeFunctorsLasts
<1>9. CASE RunSend
  <2>1. reset' = reset BY <1>9 DEF RunSend, Running
  <2> QED BY <1>1, <1>9, <2>1, RunSendCarries
<1>10. CASE RunShutdown \/ RunWriteComplete \/ RunConnectDestroyed
  <2>1. UNCHANGED <<sent, out>> BY <1>10 DEF RunShutdown, RunWriteComplete, RunConnectDestroyed
  <2> QED BY <1>1, <1>3, <1>4, <1>10, <2>1, OtherFunctorsLast
<1>11. ASSUME NEW d \in Conns, HandleHup(d) \/ HandleRead(d) \/ HandleWrite(d)
       PROVE  Rounds' /\ \A c \in Conns \ stale' : Carried(c) => Carried(c)'
  <2>1. Rounds' /\ \A c \in Conns : Lasts(c) BY <1>11, HandlersLast
  <2>2. CASE HandleHup(d) \/ HandleRead(d)
    <3>1. UNCHANGED <<sent, out>> BY <2>2 DEF HandleHup, HandleRead, sock_vars, conn_vars
    <3> QED BY <1>3, <1>4, <2>1, <3>1
  <2>3. CASE HandleWrite(d) BY <1>1, <1>3, <2>1, <2>3, HandleWriteKeeps
  <2> QED BY <1>11, <2>2, <2>3
<1>12. ASSUME NEW d \in Conns, HandleHandshake(d) \/ SendHelloMessage(d)
       PROVE  Rounds' /\ \A c \in Conns \ stale' : Carried(c) => Carried(c)'
  BY <1>1, <1>12, HelloCarries
<1>13. ASSUME NEW t \in Threads, ThreadStep(t) \/ Push(t)
       PROVE  Rounds' /\ \A c \in Conns \ stale' : Carried(c) => Carried(c)'
  <2>1. UNCHANGED <<sent, out>>
    BY <1>13 DEF ThreadStep, Take, TakeWait, Send, QueueFunctor, Wakeup, Shutdown, ShutdownStore, Push,
                 sock_vars, conn_vars
  <2> QED BY <1>1, <1>3, <1>4, <1>13, <2>1, ThreadsLast
<1>14. ASSUME NEW d \in Conns, Client(d)
       PROVE  Rounds' /\ \A c \in Conns \ stale' : Carried(c) => Carried(c)'
  <2>1. UNCHANGED <<thr, accepted, functors, pending, loop_pc, sent, out>>
    BY <1>14 DEF Client, Connect, ClientSend, ClientRead, ClientFin, ClientReset,
                 loop_vars, conn_vars, sock_vars, ghosts
  <2> QED BY <1>3, <1>4, <1>5, <2>1
<1>15. CASE UNCHANGED vars
  <2>1. UNCHANGED <<thr, accepted, functors, pending, loop_pc, sent, out>>
    BY <1>15 DEF vars, loop_vars, conn_vars, sock_vars, ghosts
  <2> QED BY <1>3, <1>4, <1>5, <2>1
<1> QED BY <1>6, <1>7, <1>8, <1>9, <1>10, <1>11, <1>12, <1>13, <1>14, <1>15 DEF Next, LoopStep

LEMMA NextStreamInv == ASSUME StreamInv, [Next]_vars PROVE StreamInv'
<1>1. LifeInv /\ Rounds /\ \A c \in Conns \ stale : Carried(c) BY DEF StreamInv, Streams
<1>2. LifeInv' BY <1>1, NextLifeInv
<1>3. Rounds' /\ \A c \in Conns \ stale' : Carried(c) => Carried(c)' BY <1>1, NextStreams
<1>4. stale \subseteq stale'
  <2>1. LifeTypes BY <1>1 DEF LifeInv
  <2> QED BY <1>1, <2>1, NextConnStep, ConnStepGrows DEF Grows
<1>5. \A c \in Conns \ stale' : Carried(c)' BY <1>1, <1>3, <1>4
<1> QED BY <1>2, <1>3, <1>5 DEF StreamInv, Streams

LEMMA InitStreamInv == ASSUME Init PROVE StreamInv
<1>1. LifeInv BY InitLifeInv
<1>2. /\ loop_pc = "functors" /\ functors = <<>> /\ pending = <<>>
      /\ \A c \in Conns : sent[c] = <<>> /\ out[c] = <<>>
      /\ \A t \in Senders, c \in Conns : accepted[t][c] = 0
      /\ \A t \in Threads : thr[t].pc # "queue"
  BY DEF Init, Thread
<1>3. Rounds
  <2>1. <<>> \in Seq(Foreign) OBVIOUS
  <2> QED BY <1>2, <2>1 DEF Rounds
<1>4. ToRun = <<>> /\ DOMAIN ToRun = {}
  <2>1. <<>> \o <<>> = <<>> OBVIOUS
  <2> QED BY <1>2, <2>1 DEF ToRun
<1>5. ASSUME NEW c \in Conns PROVE Carried(c)
  <2> DEFINE m == [t \in Senders |-> 0]
  <2>1. Stream(c) = <<>> /\ Len(Stream(c)) = 0
    <3>1. <<>> \o <<>> = <<>> /\ Len(<<>>) = 0 OBVIOUS
    <3> QED BY <1>2, <3>1 DEF Stream
  <2>2. 1..0 = {} OBVIOUS
  <2>3. Intact(Stream(c)) BY <2>1, <2>2 DEF Intact
  <2>4. m \in [Senders -> Nat] /\ \A t \in Senders : m[t] = 0 OBVIOUS
  <2> HIDE DEF m
  <2>5. \A t \in Senders, k \in Nat \ {0} : ~(k <= MsgLen * m[t])
    BY <2>4, ReactorAssumption
  <2>6. Holds(Stream(c), m) BY <2>1, <2>2, <2>5 DEF Holds
  <2>7. \A t \in Senders : Queued(t, c) = 0 BY <1>2 DEF Queued, AtQueue
  <2>8. \A t \in Senders : Line(ToRun, c, t, m[t], Queued(t, c))
    <3>1. (0 + 1)..0 = {} OBVIOUS
    <3> QED BY <1>4, <2>4, <2>7, <3>1 DEF Line
  <2>9. Continued(c, m) BY <2>8 DEF Continued
  <2> QED BY <2>3, <2>4, <2>6, <2>9 DEF Carried
<1> QED BY <1>1, <1>3, <1>5 DEF StreamInv, Streams

\* The byte stream of every connection is whole, however the pool's threads, the
\* gRPC threads and the loop take turns and however little a write takes: no byte
\* is missing, twice or out of its thread's order, and no message is torn or
\* mixed with another one.  The functors not yet run continue the stream of every
\* thread, until the connection ends.
THEOREM StreamIsWhole == Spec => []StreamIntact
<1>1. Init => StreamInv BY InitStreamInv
<1>2. StreamInv /\ [Next]_vars => StreamInv' BY NextStreamInv
<1>3. StreamInv => StreamIntact BY DEF StreamInv, Streams, Carried, Intact, StreamIntact
<1> QED BY <1>1, <1>2, <1>3, PTL DEF Spec
=============================================================================
