--------------------------- MODULE FramingProofs ---------------------------
(***************************************************************************)
(* Proofs about how comet reads a connection (module Framing), for every   *)
(* upgrade and API request, every set of lengths and every way to cut the  *)
(* stream into reads: the arithmetic of the lengths, the positions of the  *)
(* request and of the frames, and the invariants.                          *)
(***************************************************************************)
EXTENDS Framing, FiniteSetTheorems, SequenceTheorems, TLAPS

FrameAt == [frame : ClientFrames, header : Seq(Nat), start : Nat, end : Nat]
Parsed == [fin : BOOLEAN, opcode : Nat, key : Nat, payload : Nat \X Nat]
Effects == {"request", "not json", "disconnect", "nothing"}

(* What the state consists of. *)
Typed ==
    /\ request \in Requests
    /\ frames \in Seq(FrameAt)
    /\ rcvd \in Nat /\ buf \in Nat /\ base \in Nat /\ calls \in Nat
    /\ cuts \subseteq 1..RequestEnd
    /\ request_type \in {"UNKNOWN", "HTTP", "WEBSOCKET"}
    /\ handshake \in {"no", "whole", "cut"}
    /\ loop \in {"idle", "cutting", "misaligned"}
    /\ incomplete \in Nat \X Nat
    /\ tasks \in Seq(Nat \X Nat)
    /\ handled \in Seq([frame : Parsed, effect : Effects])
    /\ down \in Seq([bytes : Seq(Nat), len : Lengths])

(* The client's frames lie one after the other behind the request, and     *)
(* there are none before the 101.                                          *)
Laid(fs, from) ==
    /\ \A i \in 1..Len(fs) :
          /\ fs[i].header = ClientHeader(fs[i].frame)
          /\ fs[i].start = IF i = 1 THEN from ELSE fs[i - 1].end
          /\ from <= fs[i].start
          /\ fs[i].end = fs[i].start + Len(fs[i].header) + 4 + fs[i].frame.len
    /\ \A i, j \in 1..Len(fs) : i < j => fs[i].end <= fs[j].start

Stream ==
    /\ Laid(frames, RequestEnd)
    /\ rcvd <= StreamEnd
    /\ handshake # "whole" => frames = <<>> /\ down = <<>>

(* Before the 101, and when the 101 was sent too early, nothing is cut.    *)
Uncut ==
    /\ (handshake = "no" \/ base # RequestEnd) =>
          tasks = <<>> /\ handled = <<>> /\ loop # "cutting"
    /\ handshake = "no" => loop = "idle"
    /\ request_type # "WEBSOCKET" => handshake = "no"

(* The frames up to the m-th were cut, and incomplete_frame_buffer begins  *)
(* with the next one; the loop only ends when that one is not complete.    *)
Cutting ==
    (handshake # "no" /\ base = RequestEnd) =>
        LET m == Len(handled) + Len(tasks)
        IN /\ m <= Len(frames)
           /\ \A i \in 1..Len(tasks) :
                 tasks[i] = <<FrameEnd(Len(handled) + i - 1), FrameEnd(Len(handled) + i)>>
           /\ incomplete = <<FrameEnd(m), rcvd>>
           /\ FrameEnd(m) <= rcvd
           /\ loop # "misaligned"
           /\ (loop = "idle" /\ m < Len(frames)) => rcvd < FrameEnd(m + 1)

(* An API request stays in the buffer until it is complete. *)
Forwarding ==
    request = ApiRequest =>
        /\ request_type # "WEBSOCKET"
        /\ handshake = "no"
        /\ buf = 0
        /\ rcvd <= RequestEnd
        /\ calls = IF rcvd = RequestEnd THEN 1 ELSE 0

(* Of the reads that ended at the positions of C, c is the first that did  *)
(* not end after a colon, and (a, b) is one that the handshake looked for  *)
(* the key in.                                                             *)
Decides(C, c) ==
    /\ c \in C /\ ~ParseThrows(c)
    /\ \A d \in C : ~ParseThrows(d) => c <= d

Looked(C, a, b) ==
    \E c \in C :
        /\ Decides(C, c)
        /\ \/ a = 0 /\ b = c
           \/ /\ a \in C /\ b \in C /\ c <= a /\ a < b
              /\ \A d \in C : d <= a \/ d >= b

(* While the reads are remembered, the type of the connection is what the  *)
(* deciding read made it, and the handshake has answered the key that some *)
(* read held, or none held one.                                            *)
OpeningOf(C, r, type, hs, b0) ==
    /\ \A c \in C : c <= r
    /\ r \in C \/ (r = 0 /\ C = {})
    /\ type = "UNKNOWN" => b0 = 0 /\ \A c \in C : ParseThrows(c)
    /\ type = "HTTP" => \E c \in C : Decides(C, c) /\ ~isWebSocketRequest(c)
    /\ type = "WEBSOCKET" =>
          /\ b0 = r
          /\ \E c \in C : Decides(C, c) /\ isWebSocketRequest(c)
          /\ hs = "no" => \A a, b \in Nat : Looked(C, a, b) => HandshakeKey(a, b) = "no"
          /\ hs # "no" => \E a, b \in Nat : Looked(C, a, b) /\ HandshakeKey(a, b) = hs

Opening ==
    /\ (frames # <<>> \/ down # <<>>) => cuts = {}
    /\ (frames = <<>> /\ down = <<>>) =>
          OpeningOf(cuts, rcvd, request_type, handshake, buf)

-----------------------------------------------------------------------------
(* The lengths. *)

(* A number is its last byte and the rest. *)
LEMMA DivMod ==
    ASSUME NEW n \in Nat
    PROVE  /\ n \div 256 \in Nat
           /\ n % 256 \in 0..255
           /\ n = (n \div 256) * 256 + (n % 256)
  OBVIOUS

(* The two bytes of a length up to 65535 give it back. *)
LEMMA TwoBytes ==
    ASSUME NEW n \in Nat, n <= 65535
    PROVE  /\ BigEndian(n, 2) \in Seq(Nat)
           /\ Len(BigEndian(n, 2)) = 2
           /\ Number(BigEndian(n, 2)) = n
  <1> DEFINE q == Shifted(n)
  <1>1. q[8] = n /\ q[7] = n \div 256
    BY DEF Shifted
  <1>2. /\ n \div 256 \in 0..255
        /\ n % 256 \in 0..255
        /\ n = (n \div 256) * 256 + (n % 256)
    BY DivMod
  <1> DEFINE b == BigEndian(n, 2)
  <1>3. b = [k \in 1..2 |-> q[6 + k] % 256]
    BY DEF BigEndian, q
  <1> HIDE DEF b, q
  <1>4. b[1] = n \div 256 /\ b[2] = n % 256
    <2>1. b[1] = q[7] % 256 /\ b[2] = q[8] % 256
      BY <1>3
    <2>2. (n \div 256) % 256 = n \div 256
      BY <1>2
    <2> QED BY <1>1, <2>1, <2>2
  <1>5. \A k \in 1..2 : q[6 + k] % 256 \in 0..255
    <2>1. b[1] \in 0..255 /\ b[2] \in 0..255
      BY <1>2, <1>4
    <2>2. \A k \in 1..2 : b[k] \in 0..255
      BY <2>1
    <2> QED BY <1>3, <2>2
  <1>6. b \in Seq(Nat) /\ Len(b) = 2
    BY <1>3, <1>5
  <1>7. Number(b) = b[1] * 256 + b[2]
    BY <1>6 DEF Number
  <1>8. Number(b) = n
    BY <1>2, <1>4, <1>7
  <1> QED BY <1>6, <1>8 DEF b

(* The eight bytes of a length give it back. *)
LEMMA EightBytes ==
    ASSUME NEW n \in Nat, Shifted(n)[1] < 128
    PROVE  /\ BigEndian(n, 8) \in Seq(Nat)
           /\ Len(BigEndian(n, 8)) = 8
           /\ Number(BigEndian(n, 8)) = n
  <1> DEFINE q == Shifted(n)
  <1>1. /\ Len(q) = 8 /\ q[8] = n
        /\ q[7] = q[8] \div 256 /\ q[6] = q[7] \div 256 /\ q[5] = q[6] \div 256
        /\ q[4] = q[5] \div 256 /\ q[3] = q[4] \div 256 /\ q[2] = q[3] \div 256
        /\ q[1] = q[2] \div 256
    BY DEF Shifted
  <1> HIDE DEF q
  <1>2. q[8] \in Nat /\ q[7] \in Nat /\ q[6] \in Nat /\ q[5] \in Nat /\ q[4] \in Nat
        /\ q[3] \in Nat /\ q[2] \in Nat /\ q[1] \in Nat
    <2> DEFINE D(x) == x \div 256
    <2>1. \A x \in Nat : D(x) \in Nat
      BY DivMod
    <2>2. /\ q[8] \in Nat /\ q[7] = D(q[8]) /\ q[6] = D(q[7]) /\ q[5] = D(q[6])
          /\ q[4] = D(q[5]) /\ q[3] = D(q[4]) /\ q[2] = D(q[3]) /\ q[1] = D(q[2])
      BY <1>1
    <2> HIDE DEF D
    <2> QED BY <2>1, <2>2
  <1> DEFINE b == BigEndian(n, 8)
  <1>3. b = [k \in 1..8 |-> q[k] % 256]
    BY DEF BigEndian, q
  <1> HIDE DEF b
  <1>4. /\ b[1] = q[1] % 256 /\ b[2] = q[2] % 256 /\ b[3] = q[3] % 256 /\ b[4] = q[4] % 256
        /\ b[5] = q[5] % 256 /\ b[6] = q[6] % 256 /\ b[7] = q[7] % 256 /\ b[8] = q[8] % 256
    BY <1>3
  <1>5. \A k \in 1..8 : q[k] \in Nat
    BY <1>2
  <1>6. \A k \in 1..8 : q[k] % 256 \in 0..255
    BY <1>5, DivMod
  <1>7. b \in Seq(Nat) /\ Len(b) = 8
    <2>1. \A k \in 1..8 : q[k] % 256 \in Nat
      BY <1>6
    <2> QED BY <1>3, <2>1
  <1>8. b[1] = q[1]
    <2>1. q[1] < 128 BY DEF q
    <2> QED BY <1>2, <1>4, <2>1
  <1>9. /\ q[2] = q[1] * 256 + b[2] /\ q[3] = q[2] * 256 + b[3] /\ q[4] = q[3] * 256 + b[4]
        /\ q[5] = q[4] * 256 + b[5] /\ q[6] = q[5] * 256 + b[6] /\ q[7] = q[6] * 256 + b[7]
        /\ q[8] = q[7] * 256 + b[8]
    <2>1. \A k \in 2..8 : q[k] \in Nat /\ q[k - 1] = q[k] \div 256 /\ b[k] = q[k] % 256
      <3>1. \A k \in 2..8 : k = 2 \/ k = 3 \/ k = 4 \/ k = 5 \/ k = 6 \/ k = 7 \/ k = 8
        OBVIOUS
      <3>2. \A k \in 2..8 : q[k - 1] = q[k] \div 256
        <4> DEFINE D(x) == x \div 256
        <4>1. /\ q[7] = D(q[8]) /\ q[6] = D(q[7]) /\ q[5] = D(q[6]) /\ q[4] = D(q[5])
              /\ q[3] = D(q[4]) /\ q[2] = D(q[3]) /\ q[1] = D(q[2])
          BY <1>1
        <4> HIDE DEF D
        <4>2. \A k \in 2..8 : q[k - 1] = D(q[k])
          BY <3>1, <4>1
        <4> QED BY <4>2 DEF D
      <3>3. \A k \in 2..8 : q[k] \in Nat
        BY <1>5
      <3>4. \A k \in 2..8 : b[k] = q[k] % 256
        BY <1>3
      <3> QED BY <3>2, <3>3, <3>4
    <2>2. \A x \in Nat : x = (x \div 256) * 256 + (x % 256)
      BY DivMod
    <2>3. \A k \in 2..8 : q[k] = q[k - 1] * 256 + b[k]
      <3> SUFFICES ASSUME NEW k \in 2..8 PROVE q[k] = q[k - 1] * 256 + b[k]
        OBVIOUS
      <3>1. PICK x : x = q[k]
        OBVIOUS
      <3>2. x \in Nat /\ q[k - 1] = x \div 256 /\ b[k] = x % 256
        BY <2>1, <3>1
      <3>3. x = (x \div 256) * 256 + (x % 256)
        BY <2>2, <3>2
      <3> QED BY <3>1, <3>2, <3>3
    <2> QED BY <2>3
  <1>10. Number(b) = ((((((b[1] * 256 + b[2]) * 256 + b[3]) * 256 + b[4]) * 256 + b[5])
                            * 256 + b[6]) * 256 + b[7]) * 256 + b[8]
    BY <1>7 DEF Number
  <1>11. Number(b) = q[8]
    BY <1>8, <1>9, <1>10
  <1> QED BY <1>1, <1>7, <1>11 DEF b

(* The parts of a header: a first byte, a second, and the extended length. *)
HeaderIs(h, x, y, b) ==
    /\ h \in Seq(Nat)
    /\ Len(h) = 2 + Len(b)
    /\ h[1] = x /\ h[2] = y
    /\ [k \in 1..Len(b) |-> h[2 + k]] = b
    /\ SubSeq(h, 3, Len(h)) = b

LEMMA HeaderParts ==
    ASSUME NEW x \in Nat, NEW y \in Nat, NEW b \in Seq(Nat), NEW h,
           h = <<x>> \o (<<y>> \o b)
    PROVE  HeaderIs(h, x, y, b)
  <1>1. /\ <<y>> \o b \in Seq(Nat)
        /\ Len(<<y>> \o b) = 1 + Len(b)
        /\ (<<y>> \o b)[1] = y
        /\ \A k \in 1..Len(b) : (<<y>> \o b)[1 + k] = b[k]
    OBVIOUS
  <1> DEFINE t == <<y>> \o b
  <1> HIDE DEF t
  <1>2. /\ h \in Seq(Nat)
        /\ Len(h) = 1 + Len(t)
        /\ h[1] = x
        /\ \A k \in 1..Len(t) : h[1 + k] = t[k]
    BY <1>1 DEF t
  <1>3. Len(b) \in Nat
    OBVIOUS
  <1>4. Len(h) = 2 + Len(b) /\ h[2] = y
    BY <1>1, <1>2, <1>3 DEF t
  <1>5. \A k \in 1..Len(b) : h[2 + k] = b[k]
    <2> SUFFICES ASSUME NEW k \in 1..Len(b) PROVE h[2 + k] = b[k]
      OBVIOUS
    <2>1. t[1 + k] = b[k]
      BY <1>1 DEF t
    <2>2. 1 + k \in 1..Len(t) /\ 1 + (1 + k) = 2 + k
      BY <1>1, <1>3 DEF t
    <2> QED BY <1>2, <2>1, <2>2
  <1>6. SubSeq(h, 3, Len(h)) = b
    <2>1. SubSeq(h, 3, Len(h)) = [k \in 1..Len(b) |-> h[2 + k]]
      BY <1>2, <1>3, <1>4
    <2>2. b = [k \in 1..Len(b) |-> b[k]]
      OBVIOUS
    <2> QED BY <1>5, <2>1, <2>2
  <1>7. [k \in 1..Len(b) |-> h[2 + k]] = b
    BY <1>5
  <1> QED BY <1>2, <1>4, <1>6, <1>7 DEF HeaderIs

(* The same for the short form. *)
LEMMA ShortHeader ==
    ASSUME NEW x \in Nat, NEW y \in Nat, NEW h, h = <<x>> \o <<y>>
    PROVE  h \in Seq(Nat) /\ Len(h) = 2 /\ h[1] = x /\ h[2] = y
  OBVIOUS

(* How the two ends read a header of three shapes. *)
BuiltAs(h, n) ==
    /\ h \in Seq(Nat)
    /\ h[1] = 128 + 1
    /\ HeaderSize(h) = Len(h)
    /\ PayloadLength(h) = n

SentAs(h, f) ==
    /\ h \in Seq(Nat)
    /\ (h[1] >= 128) = f.fin
    /\ h[1] % 16 = f.opcode
    /\ h[2] >= 128
    /\ \/ Len(h) = 2 /\ h[2] % 128 = f.len /\ f.len <= 125
       \/ Len(h) = 4 /\ h[2] % 128 = 126 /\ Number([k \in 1..2 |-> h[2 + k]]) = f.len
       \/ Len(h) = 10 /\ h[2] % 128 = 127 /\ Number([k \in 1..8 |-> h[2 + k]]) = f.len

(* What BuildWebSocketFrame builds is read as the length it was given.     *)
LEMMA BuiltHeader ==
    ASSUME NEW n \in Lengths
    PROVE  BuiltAs(BuildWebSocketFrame(n, 1), n)
  <1>1. n \in Nat /\ Shifted(n)[1] < 128
    BY FramingAssumption
  <1>2. 128 + (1 % 16) = 129
    OBVIOUS
  <1>3. CASE n <= 125
    <2>1. BuildWebSocketFrame(n, 1) = <<129>> \o <<n>>
      BY <1>1, <1>2, <1>3 DEF BuildWebSocketFrame
    <2>2. ASSUME NEW h, h = << 129 >> \o <<n>>
          PROVE  BuiltAs(h, n)
      <3>1. h \in Seq(Nat) /\ Len(h) = 2 /\ h[1] = 129 /\ h[2] = n
        BY <1>1, <2>2, ShortHeader
      <3>2. HeaderSize(h) = 2
        BY <1>1, <1>3, <3>1 DEF HeaderSize
      <3>3. PayloadLength(h) = n
        BY <3>1 DEF PayloadLength
      <3> QED BY <3>1, <3>2, <3>3 DEF BuiltAs
    <2> QED BY <2>1, <2>2
  <1>4. CASE n > 125 /\ n <= 65535
    <2>1. BuildWebSocketFrame(n, 1) = <<129>> \o (<<126>> \o BigEndian(n, 2))
      BY <1>1, <1>2, <1>4 DEF BuildWebSocketFrame
    <2>2. /\ BigEndian(n, 2) \in Seq(Nat)
          /\ Len(BigEndian(n, 2)) = 2 /\ Number(BigEndian(n, 2)) = n
      BY <1>1, <1>4, TwoBytes
    <2>3. ASSUME NEW h, NEW b \in Seq(Nat), Len(b) = 2, h = << 129 >> \o (<< 126 >> \o b)
          PROVE  BuiltAs(h, Number(b))
      <3>0. /\ h \in Seq(Nat) /\ Len(h) = 2 + Len(b)
            /\ h[1] = 129 /\ h[2] = 126 /\ SubSeq(h, 3, Len(h)) = b
        <4>1. HeaderIs(h, 129, 126, b)
          <5>1. ASSUME NEW x \in Nat, NEW y \in Nat, h = <<x>> \o (<<y>> \o b)
                PROVE  HeaderIs(h, x, y, b)
            BY <2>3, <5>1, HeaderParts, Zenon
          <5>2. 129 \in Nat /\ 126 \in Nat
            OBVIOUS
          <5> QED BY <2>3, <5>1, <5>2, Zenon
        <4> QED BY <4>1, Zenon DEF HeaderIs
      <3>1. h \in Seq(Nat) /\ Len(h) = 4 /\ h[1] = 129 /\ h[2] = 126 /\ SubSeq(h, 3, Len(h)) = b
        <4>1. Len(h) = 4
          BY <2>3, <3>0
        <4> QED BY <3>0, <4>1, Zenon
      <3>2. HeaderSize(h) = 4
        BY <3>1 DEF HeaderSize
      <3>3. PayloadLength(h) = Number(b)
        <4>1. Len(h) # 2
          BY <3>1
        <4> QED BY <3>1, <4>1, Zenon DEF PayloadLength
      <3> QED BY <3>1, <3>2, <3>3 DEF BuiltAs
    <2> QED BY <2>1, <2>2, <2>3
  <1>5. CASE n > 65535
    <2>1. BuildWebSocketFrame(n, 1) = <<129>> \o (<<127>> \o BigEndian(n, 8))
      BY <1>1, <1>2, <1>5 DEF BuildWebSocketFrame
    <2>2. /\ BigEndian(n, 8) \in Seq(Nat)
          /\ Len(BigEndian(n, 8)) = 8 /\ Number(BigEndian(n, 8)) = n
      BY <1>1, <1>5, EightBytes
    <2>3. ASSUME NEW h, NEW b \in Seq(Nat), Len(b) = 8, h = << 129 >> \o (<< 127 >> \o b)
          PROVE  BuiltAs(h, Number(b))
      <3>0. /\ h \in Seq(Nat) /\ Len(h) = 2 + Len(b)
            /\ h[1] = 129 /\ h[2] = 127 /\ SubSeq(h, 3, Len(h)) = b
        <4>1. HeaderIs(h, 129, 127, b)
          <5>1. ASSUME NEW x \in Nat, NEW y \in Nat, h = <<x>> \o (<<y>> \o b)
                PROVE  HeaderIs(h, x, y, b)
            BY <2>3, <5>1, HeaderParts, Zenon
          <5>2. 129 \in Nat /\ 127 \in Nat
            OBVIOUS
          <5> QED BY <2>3, <5>1, <5>2, Zenon
        <4> QED BY <4>1, Zenon DEF HeaderIs
      <3>1. h \in Seq(Nat) /\ Len(h) = 10 /\ h[1] = 129 /\ h[2] = 127 /\ SubSeq(h, 3, Len(h)) = b
        <4>1. Len(h) = 10
          BY <2>3, <3>0
        <4> QED BY <3>0, <4>1, Zenon
      <3>2. HeaderSize(h) = 10
        BY <3>1 DEF HeaderSize
      <3>3. PayloadLength(h) = Number(b)
        <4>1. Len(h) # 2
          BY <3>1
        <4> QED BY <3>1, <4>1, Zenon DEF PayloadLength
      <3> QED BY <3>1, <3>2, <3>3 DEF BuiltAs
    <2> QED BY <2>1, <2>2, <2>3
  <1> QED BY <1>1, <1>3, <1>4, <1>5

(* A client frame's opcode and length. *)
LEMMA ClientFrameTypes ==
    ASSUME NEW f \in ClientFrames
    PROVE  /\ f.fin \in BOOLEAN /\ f.opcode \in {0, 1, 8}
           /\ f.len \in Nat /\ Shifted(f.len)[1] < 128
  <1>1. CASE f \in [fin : {TRUE}, opcode : {1}, len : Lengths]
    <2>1. f.fin = TRUE /\ f.opcode = 1 /\ f.len \in Lengths
      BY <1>1
    <2> QED BY <2>1, FramingAssumption
  <1>2. CASE f \in {[fin |-> FALSE, opcode |-> 1, len |-> 1], [fin |-> TRUE, opcode |-> 0, len |-> 1],
                    [fin |-> TRUE, opcode |-> 8, len |-> 2]}
    <2>1. f.fin \in BOOLEAN /\ f.opcode \in {0, 1, 8} /\ f.len \in {1, 2}
      <3>1. CASE f = [fin |-> FALSE, opcode |-> 1, len |-> 1]
        BY <3>1
      <3>2. CASE f = [fin |-> TRUE, opcode |-> 0, len |-> 1]
        BY <3>2
      <3>3. CASE f = [fin |-> TRUE, opcode |-> 8, len |-> 2]
        BY <3>3
      <3> QED BY <1>2, <3>1, <3>2, <3>3
    <2>2. 1 \div 256 = 0 /\ 2 \div 256 = 0 /\ 0 \div 256 = 0
      OBVIOUS
    <2>3. Shifted(1)[1] = 0 /\ Shifted(2)[1] = 0
      BY <2>2 DEF Shifted
    <2> QED BY <2>1, <2>3
  <1> QED BY <1>1, <1>2 DEF ClientFrames

(* What a client's header says. *)
LEMMA ClientHeaderParts ==
    ASSUME NEW f \in ClientFrames
    PROVE  SentAs(ClientHeader(f), f)
  <1> DEFINE n == f.len
  <1>1. f.fin \in BOOLEAN /\ f.opcode \in {0, 1, 8} /\ n \in Nat /\ Shifted(n)[1] < 128
    BY ClientFrameTypes
  <1>2. PICK x : x = f.opcode + IF f.fin THEN 128 ELSE 0
    OBVIOUS
  <1>3. x \in Nat /\ (x >= 128) = f.fin /\ x % 16 = f.opcode
    <2>1. CASE f.fin
      <3>1. \/ x = 128 /\ f.opcode = 0
            \/ x = 129 /\ f.opcode = 1
            \/ x = 136 /\ f.opcode = 8
        <4>1. x = f.opcode + 128
          BY <1>2, <2>1
        <4>2. f.opcode = 0 \/ f.opcode = 1 \/ f.opcode = 8
          BY <1>1
        <4> QED BY <4>1, <4>2
      <3>2. x \in Nat /\ x % 16 = f.opcode /\ x >= 128
        BY <3>1
      <3> QED BY <2>1, <3>2
    <2>2. CASE ~f.fin
      <3>1. x \in {0, 1, 8} /\ x = f.opcode
        BY <1>1, <1>2, <2>2
      <3>2. x \in Nat /\ x % 16 = f.opcode /\ ~(x >= 128)
        BY <3>1
      <3> QED BY <1>1, <2>2, <3>2
    <2> QED BY <2>1, <2>2
  <1>4. CASE n <= 125
    <2>1. ClientHeader(f) = <<x>> \o <<128 + n>>
      BY <1>1, <1>2, <1>4 DEF ClientHeader
    <2>2. ASSUME NEW h, NEW y \in Nat, h = <<x>> \o <<y>>, y = 128 + n
          PROVE  SentAs(h, f)
      <3>1. h \in Seq(Nat) /\ Len(h) = 2 /\ h[1] = x /\ h[2] = y
        BY <1>3, <2>2, ShortHeader
      <3>2. y % 128 = n /\ y >= 128
        BY <1>1, <1>4, <2>2
      <3> QED BY <1>3, <1>4, <3>1, <3>2 DEF SentAs
    <2>3. 128 + n \in Nat
      BY <1>1
    <2> QED BY <2>1, <2>2, <2>3
  <1>5. CASE n > 125 /\ n <= 65535
    <2>1. ClientHeader(f) = <<x>> \o (<<254>> \o BigEndian(n, 2))
      BY <1>1, <1>2, <1>5 DEF ClientHeader
    <2>2. /\ BigEndian(n, 2) \in Seq(Nat)
          /\ Len(BigEndian(n, 2)) = 2 /\ Number(BigEndian(n, 2)) = n
      BY <1>1, <1>5, TwoBytes
    <2>3. ASSUME NEW h, NEW b \in Seq(Nat), Len(b) = 2, h = <<x>> \o (<< 254 >> \o b)
          PROVE  /\ h \in Seq(Nat) /\ Len(h) = 4 /\ h[1] = x /\ h[2] = 254
                 /\ [k \in 1..2 |-> h[2 + k]] = b
      <3>1. /\ h \in Seq(Nat) /\ Len(h) = 2 + Len(b) /\ h[1] = x /\ h[2] = 254
            /\ [k \in 1..Len(b) |-> h[2 + k]] = b
        <4>0. x \in Nat
          BY <1>3
        <4>1. HeaderIs(h, x, 254, b)
          <5>1. ASSUME NEW y \in Nat, h = <<x>> \o (<<y>> \o b)
                PROVE  HeaderIs(h, x, y, b)
            BY <4>0, <5>1, HeaderParts, Zenon
          <5>2. 254 \in Nat
            OBVIOUS
          <5> QED BY <2>3, <5>1, <5>2, Zenon
        <4> QED BY <4>1, Zenon DEF HeaderIs
      <3>2. Len(h) = 4
        BY <2>3, <3>1
      <3> QED BY <2>3, <3>1, <3>2, Zenon
    <2>4. 254 % 128 = 126
      OBVIOUS
    <2>5. ASSUME NEW h, NEW b, Number(b) = n,
                 h \in Seq(Nat) /\ Len(h) = 4 /\ h[1] = x /\ h[2] = 254,
                 [k \in 1..2 |-> h[2 + k]] = b
          PROVE  SentAs(h, f)
      <3>1. h[2] >= 128 /\ h[2] % 128 = 126
        BY <2>4, <2>5
      <3> QED BY <1>3, <2>5, <3>1, Zenon DEF SentAs
    <2>6. LET h == ClientHeader(f)
          IN  /\ h \in Seq(Nat) /\ Len(h) = 4 /\ h[1] = x /\ h[2] = 254
              /\ [k \in 1..2 |-> h[2 + k]] = BigEndian(n, 2)
      BY <2>1, <2>2, <2>3
    <2> QED BY <2>2, <2>5, <2>6, Zenon
  <1>6. CASE n > 65535
    <2>1. ClientHeader(f) = <<x>> \o (<<255>> \o BigEndian(n, 8))
      BY <1>1, <1>2, <1>6 DEF ClientHeader
    <2>2. /\ BigEndian(n, 8) \in Seq(Nat)
          /\ Len(BigEndian(n, 8)) = 8 /\ Number(BigEndian(n, 8)) = n
      BY <1>1, <1>6, EightBytes
    <2>3. ASSUME NEW h, NEW b \in Seq(Nat), Len(b) = 8, h = <<x>> \o (<< 255 >> \o b)
          PROVE  /\ h \in Seq(Nat) /\ Len(h) = 10 /\ h[1] = x /\ h[2] = 255
                 /\ [k \in 1..8 |-> h[2 + k]] = b
      <3>1. /\ h \in Seq(Nat) /\ Len(h) = 2 + Len(b) /\ h[1] = x /\ h[2] = 255
            /\ [k \in 1..Len(b) |-> h[2 + k]] = b
        <4>0. x \in Nat
          BY <1>3
        <4>1. HeaderIs(h, x, 255, b)
          <5>1. ASSUME NEW y \in Nat, h = <<x>> \o (<<y>> \o b)
                PROVE  HeaderIs(h, x, y, b)
            BY <4>0, <5>1, HeaderParts, Zenon
          <5>2. 255 \in Nat
            OBVIOUS
          <5> QED BY <2>3, <5>1, <5>2, Zenon
        <4> QED BY <4>1, Zenon DEF HeaderIs
      <3>2. Len(h) = 10
        BY <2>3, <3>1
      <3> QED BY <2>3, <3>1, <3>2, Zenon
    <2>4. 255 % 128 = 127
      OBVIOUS
    <2>5. ASSUME NEW h, NEW b, Number(b) = n,
                 h \in Seq(Nat) /\ Len(h) = 10 /\ h[1] = x /\ h[2] = 255,
                 [k \in 1..8 |-> h[2 + k]] = b
          PROVE  SentAs(h, f)
      <3>1. h[2] >= 128 /\ h[2] % 128 = 127
        BY <2>4, <2>5
      <3> QED BY <1>3, <2>5, <3>1, Zenon DEF SentAs
    <2>6. LET h == ClientHeader(f)
          IN  /\ h \in Seq(Nat) /\ Len(h) = 10 /\ h[1] = x /\ h[2] = 255
              /\ [k \in 1..8 |-> h[2 + k]] = BigEndian(n, 8)
      BY <2>1, <2>2, <2>3
    <2> QED BY <2>2, <2>5, <2>6, Zenon
  <1> QED BY <1>1, <1>4, <1>5, <1>6

-----------------------------------------------------------------------------
(* The positions of the request. *)

LEMMA PlaceValues ==
    /\ Place["name"] = 1 /\ Place["colon"] = 2 /\ Place["space"] = 3 /\ Place["value"] = 4
    /\ Place["rest"] = 5 /\ Place["cr"] = 6 /\ Place["lf"] = 7
  BY DEF Place

LEMMA UnitValues ==
    ASSUME NEW line
    PROVE  /\ Units(line) \in {2, 3, 7}
           /\ line \in HeaderLines => Units(line) = 7
  BY DEF Units, HeaderLines

(* A request ends in its last line. *)
LEMMA RequestLines ==
    ASSUME NEW r \in Requests
    PROVE  /\ r \in Seq(HeaderLines \cup {"request", "blank", "body"})
           /\ Len(r) \in Nat /\ Len(r) >= 1
           /\ Ends[r] = 7 * (Len(r) - 1) + Units(r[Len(r)])
           /\ Ends[r] \in Nat /\ Ends[r] >= 2
  <1>1. r \in Seq(HeaderLines \cup {"request", "blank", "body"}) \ {<<>>}
    BY FramingAssumption DEF Requests
  <1>2. Len(r) \in Nat /\ Len(r) >= 1
    BY <1>1, EmptySeq
  <1>3. Ends[r] = 7 * (Len(r) - 1) + Units(r[Len(r)])
    BY DEF Ends, LineRoom
  <1>4. Units(r[Len(r)]) \in {2, 3, 7}
    BY UnitValues
  <1> QED BY <1>1, <1>2, <1>3, <1>4

(* A header line starts where it stands, or past the request.              *)
LEMMA LineStarts ==
    ASSUME NEW r \in Requests, NEW line \in HeaderLines
    PROVE  /\ LineStart[r][line] \in Nat
           /\ \/ LineStart[r][line] = Ends[r]
              \/ \E i \in 1..Len(r) : r[i] = line /\ LineStart[r][line] = 7 * (i - 1)
           /\ line \notin ToSet(r) => LineStart[r][line] = Ends[r]
  <1> DEFINE at == {i \in 1..Len(r) : r[i] = line}
  <1>1. LineStart[r][line] = IF at = {} THEN Ends[r] ELSE 7 * ((CHOOSE i \in at : TRUE) - 1)
    BY DEF LineStart, LineRoom
  <1>2. Len(r) \in Nat /\ Ends[r] \in Nat
    BY RequestLines
  <1>3. CASE at = {}
    BY <1>1, <1>2, <1>3
  <1>4. CASE at # {}
    <2>1. PICK i : i = CHOOSE j \in at : TRUE
      OBVIOUS
    <2>2. i \in at
      BY <1>4, <2>1
    <2>3. i \in 1..Len(r) /\ r[i] = line
      BY <2>2
    <2>4. LineStart[r][line] = 7 * (i - 1)
      BY <1>1, <1>4, <2>1
    <2>5. line \in ToSet(r)
      <3>1. r \in Seq(HeaderLines \cup {"request", "blank", "body"})
        BY RequestLines
      <3> QED BY <2>3, <3>1 DEF ToSet
    <2> QED BY <1>2, <2>3, <2>4, <2>5
  <1> QED BY <1>3, <1>4

(* A request does not end after a colon. *)
LEMMA EndNoColon ==
    ASSUME request \in Requests
    PROVE  ~ParseThrows(RequestEnd)
  <1> SUFFICES ASSUME NEW line \in HeaderLines, RequestEnd = After(line, "colon")
               PROVE  FALSE
    BY DEF ParseThrows
  <1>1. Ends[request] = LineStart[request][line] + 2
    BY PlaceValues DEF RequestEnd, After
  <1>2. /\ Len(request) \in Nat /\ Len(request) >= 1 /\ Ends[request] \in Nat
        /\ Ends[request] = 7 * (Len(request) - 1) + Units(request[Len(request)])
    BY RequestLines
  <1>3. Units(request[Len(request)]) \in {2, 3, 7}
    BY UnitValues
  <1>4. PICK i \in 1..Len(request) : request[i] = line /\ LineStart[request][line] = 7 * (i - 1)
    BY <1>1, <1>2, LineStarts
  <1>5. CASE i = Len(request)
    <2>1. Units(request[Len(request)]) = 7
      BY <1>4, <1>5, UnitValues
    <2> QED BY <1>1, <1>2, <1>4, <1>5, <2>1
  <1>6. CASE i # Len(request)
    <2>1. i <= Len(request) - 1
      BY <1>2, <1>6
    <2> QED BY <1>1, <1>2, <1>3, <1>4, <2>1
  <1> QED BY <1>5, <1>6

(* No part of an API request is taken for an upgrade. *)
LEMMA ApiNoUpgrade ==
    ASSUME request \in Requests, request = ApiRequest, NEW hi \in Nat, hi <= RequestEnd
    PROVE  ~isWebSocketRequest(hi)
  <1>1. "Upgrade" \in HeaderLines /\ "Upgrade" \notin ToSet(request)
    BY FramingAssumption DEF HeaderLines
  <1>2. LineStart[request]["Upgrade"] = RequestEnd /\ RequestEnd \in Nat
    BY <1>1, LineStarts, RequestLines DEF RequestEnd
  <1>3. hi < After("Upgrade", "colon")
    BY <1>2, PlaceValues DEF After
  <1>4. /\ After("Upgrade", "colon") \in Nat
        /\ After("Upgrade", "colon") <= After("Upgrade", "value")
        /\ After("Upgrade", "value") <= After("Upgrade", "cr")
    BY <1>2, PlaceValues DEF After
  <1>5. HeaderValue("Upgrade", hi) = "none"
    <2>1. After("Upgrade", "value") \in Nat /\ After("Upgrade", "cr") \in Nat
      BY <1>2, PlaceValues DEF After
    <2>2. /\ ~(After("Upgrade", "colon") <= hi) /\ ~(After("Upgrade", "value") <= hi)
          /\ ~(After("Upgrade", "cr") <= hi)
      BY <1>3, <1>4, <2>1
    <2> QED BY <1>3, <2>2 DEF HeaderValue
  <1> QED BY <1>5 DEF isWebSocketRequest

-----------------------------------------------------------------------------
(* The positions of the frames. *)

LEMMA FrameFields ==
    ASSUME Typed, Stream, NEW i \in 1..Len(frames)
    PROVE  /\ frames[i].frame \in ClientFrames
           /\ frames[i].header = ClientHeader(frames[i].frame)
           /\ frames[i].header \in Seq(Nat) /\ Len(frames[i].header) \in Nat
           /\ frames[i].start \in Nat /\ frames[i].end \in Nat /\ frames[i].frame.len \in Nat
           /\ frames[i].end = frames[i].start + Len(frames[i].header) + 4 + frames[i].frame.len
           /\ SentAs(frames[i].header, frames[i].frame)
  <1>1. frames[i] \in FrameAt
    BY DEF Typed
  <1>2. /\ frames[i].frame \in ClientFrames /\ frames[i].header \in Seq(Nat)
        /\ frames[i].start \in Nat /\ frames[i].end \in Nat
    BY <1>1 DEF FrameAt
  <1>3. /\ frames[i].header = ClientHeader(frames[i].frame)
        /\ frames[i].end = frames[i].start + Len(frames[i].header) + 4 + frames[i].frame.len
    BY DEF Stream, Laid
  <1>4. frames[i].frame.len \in Nat
    BY <1>2, ClientFrameTypes
  <1>5. SentAs(frames[i].header, frames[i].frame)
    BY <1>2, <1>3, ClientHeaderParts
  <1>6. Len(frames[i].header) \in Nat
    BY <1>2
  <1> QED BY <1>2, <1>3, <1>4, <1>5, <1>6

(* FrameEnd is where a frame starts and where it ends. *)
LEMMA FrameEnds ==
    ASSUME Typed, Stream, NEW i \in 1..Len(frames)
    PROVE  FrameEnd(i - 1) = frames[i].start /\ FrameEnd(i) = frames[i].end
  <1>1. i \in Nat /\ i # 0
    BY DEF Typed
  <1>2. FrameEnd(i) = frames[i].end
    BY <1>1 DEF FrameEnd
  <1>3. frames[i].start = IF i = 1 THEN RequestEnd ELSE frames[i - 1].end
    BY DEF Stream, Laid
  <1>4. (i - 1 = 0) <=> (i = 1)
    BY <1>1
  <1> QED BY <1>2, <1>3, <1>4 DEF FrameEnd

(* The frames are in order. *)
LEMMA EndsGrow ==
    ASSUME Typed, Stream, NEW i \in 0..Len(frames), NEW j \in 0..Len(frames), i < j
    PROVE  FrameEnd(i) \in Nat /\ FrameEnd(j) \in Nat /\ FrameEnd(i) + 6 <= FrameEnd(j)
  <1>1. j \in 1..Len(frames) /\ i \in Nat /\ j \in Nat /\ Len(frames) \in Nat
    BY DEF Typed
  <1>2. /\ FrameEnd(j) = frames[j].end /\ frames[j].start \in Nat /\ frames[j].end \in Nat
        /\ frames[j].end >= frames[j].start + 6
    <2>1. /\ frames[j].start \in Nat /\ frames[j].end \in Nat /\ frames[j].frame.len \in Nat
          /\ frames[j].end = frames[j].start + Len(frames[j].header) + 4 + frames[j].frame.len
          /\ SentAs(frames[j].header, frames[j].frame)
      BY <1>1, FrameFields
    <2>2. Len(frames[j].header) \in {2, 4, 10}
      BY <2>1 DEF SentAs
    <2>3. FrameEnd(j) = frames[j].end
      BY <1>1, FrameEnds
    <2>4. ASSUME NEW s \in Nat, NEW l \in {2, 4, 10}, NEW n \in Nat
          PROVE  s + l + 4 + n >= s + 6
      OBVIOUS
    <2>5. frames[j].end >= frames[j].start + 6
      BY <2>1, <2>2, <2>4, Zenon
    <2> QED BY <2>1, <2>3, <2>5
  <1>3. CASE i = 0
    <2>1. FrameEnd(i) = RequestEnd
      BY <1>3 DEF FrameEnd
    <2>2. RequestEnd \in Nat
      BY RequestLines DEF Typed, RequestEnd
    <2>3. RequestEnd <= frames[j].start
      BY <1>1 DEF Stream, Laid
    <2> QED BY <1>2, <2>1, <2>2, <2>3
  <1>4. CASE i # 0
    <2>1. i \in 1..Len(frames)
      BY <1>1, <1>4
    <2>2. FrameEnd(i) = frames[i].end /\ frames[i].end \in Nat
      BY <2>1, FrameEnds, FrameFields
    <2>3. frames[i].end <= frames[j].start
      BY <1>1, <2>1 DEF Stream, Laid
    <2> QED BY <1>2, <2>2, <2>3
  <1> QED BY <1>3, <1>4

LEMMA EndIsNat ==
    ASSUME Typed, Stream, NEW i \in 0..Len(frames)
    PROVE  FrameEnd(i) \in Nat /\ FrameEnd(i) <= StreamEnd
  <1>1. Len(frames) \in Nat
    BY DEF Typed
  <1>2. CASE i < Len(frames)
    <2>1. FrameEnd(i) \in Nat /\ FrameEnd(Len(frames)) \in Nat
          /\ FrameEnd(i) + 6 <= FrameEnd(Len(frames))
      BY <1>1, <1>2, EndsGrow
    <2> QED BY <2>1 DEF StreamEnd
  <1>3. CASE i = Len(frames) /\ i # 0
    <2>1. 0 \in 0..Len(frames) /\ 0 < Len(frames)
      BY <1>1, <1>3
    <2>2. FrameEnd(Len(frames)) \in Nat
      BY <1>1, <2>1, EndsGrow
    <2> QED BY <1>3, <2>2 DEF StreamEnd
  <1>4. CASE i = Len(frames) /\ i = 0
    <2>1. RequestEnd \in Nat
      BY RequestLines DEF Typed, RequestEnd
    <2> QED BY <1>4, <2>1 DEF StreamEnd, FrameEnd
  <1> QED BY <1>1, <1>2, <1>3, <1>4

(* A position in a header is in the frame, and frames do not overlap. *)
LEMMA Through ==
    \A p, a, b, e \in Nat : p <= a + b /\ a + b <= e => p <= e
  OBVIOUS

LEMMA Orders ==
    \A p, e, a \in Nat : p <= e /\ e <= a => ~(a < p)
  OBVIOUS

(* A header's bytes are where its frame starts. *)
LEMMA ByteOfFrame ==
    ASSUME Typed, Stream, NEW i \in 1..Len(frames), NEW k \in 1..Len(frames[i].header)
    PROVE  Byte(frames[i].start + k) = frames[i].header[k]
  <1> DEFINE p == frames[i].start + k
             at == {j \in 1..Len(frames) :
                       frames[j].start < p /\ p <= frames[j].start + Len(frames[j].header)}
  <1>1. \A j \in 1..Len(frames) :
           /\ frames[j].start \in Nat /\ frames[j].end \in Nat /\ Len(frames[j].header) \in Nat
           /\ frames[j].start + Len(frames[j].header) <= frames[j].end
    <2> SUFFICES ASSUME NEW j \in 1..Len(frames)
                 PROVE  /\ frames[j].start \in Nat /\ frames[j].end \in Nat
                        /\ Len(frames[j].header) \in Nat
                        /\ frames[j].start + Len(frames[j].header) <= frames[j].end
      OBVIOUS
    <2>1. /\ frames[j].start \in Nat /\ frames[j].end \in Nat /\ Len(frames[j].header) \in Nat
          /\ frames[j].frame.len \in Nat
          /\ frames[j].end = frames[j].start + Len(frames[j].header) + 4 + frames[j].frame.len
      BY FrameFields
    <2> QED BY <2>1
  <1>2. k \in Nat /\ k >= 1 /\ k <= Len(frames[i].header) /\ p \in Nat
    BY <1>1
  <1>3. i \in at
    BY <1>1, <1>2
  <1>4. \A j \in at : j = i
    <2> SUFFICES ASSUME NEW j \in 1..Len(frames), j # i, frames[j].start < p,
                        p <= frames[j].start + Len(frames[j].header)
                 PROVE  FALSE
      OBVIOUS
    <2>1. /\ frames[i].start \in Nat /\ frames[i].end \in Nat /\ Len(frames[i].header) \in Nat
          /\ frames[i].start + Len(frames[i].header) <= frames[i].end
      BY <1>1
    <2>2. /\ frames[j].start \in Nat /\ frames[j].end \in Nat /\ Len(frames[j].header) \in Nat
          /\ frames[j].start + Len(frames[j].header) <= frames[j].end
      BY <1>1
    <2>3. CASE i < j
      <3>1. frames[i].end <= frames[j].start
        BY <2>3 DEF Stream, Laid
      <3>2. p <= frames[i].end
        <4>1. p <= frames[i].start + Len(frames[i].header)
          BY <1>2, <2>1
        <4> QED BY <1>2, <2>1, <4>1, Through, Zenon
      <3> QED BY <1>2, <2>1, <2>2, <3>1, <3>2, Orders, Zenon
    <2>4. CASE j < i
      <3>1. frames[j].end <= frames[i].start
        BY <2>4 DEF Stream, Laid
      <3>2. frames[i].start < p
        BY <1>2, <2>1
      <3>3. p <= frames[j].end
        BY <1>2, <2>2, Through, Zenon
      <3> QED BY <1>2, <2>1, <2>2, <3>1, <3>2, <3>3, Orders, Zenon
    <2>5. i \in Nat /\ j \in Nat
      BY DEF Typed
    <2> QED BY <2>3, <2>4, <2>5
  <1>5. (CHOOSE j \in at : TRUE) = i
    BY <1>3, <1>4
  <1>6. at # {}
    BY <1>3
  <1>7. Byte(p) = frames[i].header[p - frames[i].start]
    <2>1. Byte(p) = IF at = {} THEN 0
                    ELSE frames[CHOOSE j \in at : TRUE].header[p - frames[CHOOSE j \in at : TRUE].start]
      BY DEF Byte
    <2> QED BY <1>5, <1>6, <2>1
  <1>8. p - frames[i].start = k
    BY <1>1, <1>2
  <1> QED BY <1>7, <1>8

(* What OnRead works out where a frame starts is that frame's length.      *)
LEMMA LengthRead ==
    ASSUME Typed, Stream, NEW i \in 1..Len(frames)
    PROVE  /\ LengthBytes(frames[i].start) = Len(frames[i].header)
           /\ TotalFrameLength(frames[i].start) = Len(frames[i].header) + 4 + frames[i].frame.len
           /\ LengthBytes(frames[i].start) \in {2, 4, 10}
  <1> DEFINE lo == frames[i].start
             h == frames[i].header
             n == frames[i].frame.len
  <1>1. SentAs(h, frames[i].frame) /\ lo \in Nat /\ n \in Nat
    BY FrameFields
  <1>2. Len(h) \in {2, 4, 10}
    BY <1>1 DEF SentAs
  <1>3. \A k \in 1..Len(h) : Byte(lo + k) = h[k]
    BY ByteOfFrame
  <1>4. Byte(lo + 2) = h[2]
    BY <1>2, <1>3
  <1>5. h[2] >= 128
    BY <1>1 DEF SentAs
  <1>6. CASE Len(h) = 2
    <2>1. h[2] % 128 = n /\ n <= 125
      BY <1>1, <1>6 DEF SentAs
    <2>2. n # 126 /\ n # 127
      BY <1>1, <2>1
    <2>3. LengthBytes(lo) = 2
      BY <1>4, <2>1, <2>2 DEF LengthBytes
    <2>4. TotalFrameLength(lo) = 2 + 4 + n
      BY <1>4, <1>5, <2>1, <2>3 DEF TotalFrameLength
    <2> QED BY <1>6, <2>3, <2>4
  <1>7. CASE Len(h) = 4
    <2>1. h[2] % 128 = 126 /\ Number([k \in 1..2 |-> h[2 + k]]) = n
      BY <1>1, <1>7 DEF SentAs
    <2>2. LengthBytes(lo) = 4
      BY <1>4, <2>1 DEF LengthBytes
    <2>3. [k \in 1..2 |-> Byte(lo + 2 + k)] = [k \in 1..2 |-> h[2 + k]]
      <3>1. \A k \in 1..2 : 2 + k \in 1..Len(h) /\ lo + 2 + k = lo + (2 + k)
        BY <1>1, <1>7
      <3> QED BY <1>3, <3>1
    <2>4. TotalFrameLength(lo) = 4 + 4 + n
      <3>1. TotalFrameLength(lo) = 4 + 4 + Number([k \in 1..(4 - 2) |-> Byte(lo + 2 + k)])
        BY <1>4, <1>5, <2>2 DEF TotalFrameLength
      <3>2. 4 - 2 = 2
        OBVIOUS
      <3> QED BY <2>1, <2>3, <3>1, <3>2
    <2> QED BY <1>7, <2>2, <2>4
  <1>8. CASE Len(h) = 10
    <2>1. h[2] % 128 = 127 /\ Number([k \in 1..8 |-> h[2 + k]]) = n
      BY <1>1, <1>8 DEF SentAs
    <2>2. LengthBytes(lo) = 10
      BY <1>4, <2>1 DEF LengthBytes
    <2>3. [k \in 1..8 |-> Byte(lo + 2 + k)] = [k \in 1..8 |-> h[2 + k]]
      <3>1. \A k \in 1..8 : 2 + k \in 1..Len(h) /\ lo + 2 + k = lo + (2 + k)
        BY <1>1, <1>8
      <3> QED BY <1>3, <3>1
    <2>4. TotalFrameLength(lo) = 10 + 4 + n
      <3>1. TotalFrameLength(lo) = 10 + 4 + Number([k \in 1..(10 - 2) |-> Byte(lo + 2 + k)])
        BY <1>4, <1>5, <2>2 DEF TotalFrameLength
      <3>2. 10 - 2 = 8
        OBVIOUS
      <3> QED BY <2>1, <2>3, <3>1, <3>2
    <2> QED BY <1>8, <2>2, <2>4
  <1> QED BY <1>2, <1>6, <1>7, <1>8

(* OnRead waits exactly while the frame is not complete. *)
LEMMA WaitsFor ==
    ASSUME Typed, Stream, NEW i \in 1..Len(frames), NEW hi \in Nat, frames[i].start <= hi
    PROVE  /\ MustWait(frames[i].start, hi) <=> hi < frames[i].end
           /\ frames[i].start + TotalFrameLength(frames[i].start) = frames[i].end
  <1>1. /\ frames[i].start \in Nat /\ frames[i].end \in Nat /\ Len(frames[i].header) \in Nat
        /\ frames[i].frame.len \in Nat
        /\ frames[i].end = frames[i].start + Len(frames[i].header) + 4 + frames[i].frame.len
    BY FrameFields
  <1>2. PICK l \in {2, 4, 10} : l = Len(frames[i].header) /\ LengthBytes(frames[i].start) = l
    BY LengthRead
  <1>3. PICK s \in Nat : s = frames[i].start
    BY <1>1
  <1>4. PICK n \in Nat : n = frames[i].frame.len
    BY <1>1
  <1>5. TotalFrameLength(s) = l + 4 + n /\ frames[i].end = s + l + 4 + n
    BY <1>1, <1>2, <1>3, <1>4, LengthRead
  <1>6. MustWait(s, hi) <=> (hi - s < 2 \/ hi - s < l \/ hi - s < l + 4 + n)
    <2>1. LengthBytes(s) = l
      BY <1>2, <1>3, Zenon
    <2> QED BY <1>5, <2>1, Zenon DEF MustWait
  <1>7. (hi - s < 2 \/ hi - s < l \/ hi - s < l + 4 + n) <=> hi < s + l + 4 + n
    OBVIOUS
  <1>8. s + (l + 4 + n) = s + l + 4 + n
    OBVIOUS
  <1>9. (MustWait(s, hi) <=> hi < frames[i].end) /\ s + TotalFrameLength(s) = frames[i].end
    BY <1>5, <1>6, <1>7, <1>8, Zenon
  <1> QED BY <1>3, <1>9

(* ParseWebSocketFrame gives the frame back. *)
LEMMA ParsedFrame ==
    ASSUME Typed, Stream, NEW i \in 1..Len(frames)
    PROVE  LET f == frames[i].frame
               start == frames[i].start + Len(frames[i].header)
           IN  /\ ParseWebSocketFrame(<<frames[i].start, frames[i].end>>) =
                     [fin     |-> f.fin,
                      opcode  |-> f.opcode,
                      key     |-> start,
                      payload |-> <<start + 4, start + 4 + f.len>>]
               /\ ParseWebSocketFrame(<<frames[i].start, frames[i].end>>) \in Parsed
  <1> DEFINE lo == frames[i].start
             h == frames[i].header
             f == frames[i].frame
  <1>1. /\ SentAs(h, f) /\ f \in ClientFrames /\ lo \in Nat /\ f.len \in Nat
        /\ frames[i].end = lo + Len(h) + 4 + f.len
    BY FrameFields
  <1>2. PICK l \in {2, 4, 10} : l = Len(h)
    BY <1>1 DEF SentAs
  <1>3. \A k \in 1..Len(h) : Byte(lo + k) = h[k]
    BY ByteOfFrame
  <1>4. Byte(lo + 1) = h[1] /\ Byte(lo + 2) = h[2]
    BY <1>2, <1>3
  <1>5. /\ (Byte(lo + 1) >= 128) = f.fin /\ Byte(lo + 1) % 16 = f.opcode /\ Byte(lo + 2) >= 128
    BY <1>1, <1>4 DEF SentAs
  <1>6. 2 + (CASE Byte(lo + 2) % 128 = 126 -> 2 [] Byte(lo + 2) % 128 = 127 -> 8 [] OTHER -> 0) = l
    <2>1. \/ l = 2 /\ Byte(lo + 2) % 128 = f.len /\ f.len <= 125
          \/ l = 4 /\ Byte(lo + 2) % 128 = 126
          \/ l = 10 /\ Byte(lo + 2) % 128 = 127
      BY <1>1, <1>2, <1>4 DEF SentAs
    <2>2. f.len <= 125 => f.len # 126 /\ f.len # 127
      BY <1>1
    <2> QED BY <2>1, <2>2
  <1>7. PICK e : e = frames[i].end
    OBVIOUS
  <1>8. ParseWebSocketFrame(<<lo, e>>) =
            [fin |-> f.fin, opcode |-> f.opcode, key |-> lo + l, payload |-> <<lo + l + 4, e>>]
    BY <1>5, <1>6 DEF ParseWebSocketFrame
  <1>9. e = lo + l + 4 + f.len
    BY <1>1, <1>2, <1>7
  <1>10. f.fin \in BOOLEAN /\ f.opcode \in Nat
    BY <1>1, ClientFrameTypes
  <1>11. lo + l \in Nat /\ lo + l + 4 \in Nat /\ e \in Nat
    <2>1. lo \in Nat /\ f.len \in Nat /\ l \in Nat
      BY <1>1
    <2>2. ASSUME NEW s \in Nat, NEW n \in Nat, NEW k \in Nat
          PROVE  s + k \in Nat /\ s + k + 4 \in Nat /\ s + k + 4 + n \in Nat
      OBVIOUS
    <2> QED BY <1>9, <2>1, <2>2, Zenon
  <1>12. [fin |-> f.fin, opcode |-> f.opcode, key |-> lo + l, payload |-> <<lo + l + 4, e>>] \in Parsed
    BY <1>10, <1>11 DEF Parsed
  <1> QED BY <1>2, <1>7, <1>8, <1>9, <1>12

-----------------------------------------------------------------------------
(* Cutting the frames. *)

(* Typed, Stream, Uncut and Cutting only hold together. *)
FrameInv == Typed /\ Stream /\ Uncut /\ Cutting

LEMMA FrameInit == Init => FrameInv
  <1> SUFFICES ASSUME Init PROVE FrameInv
    OBVIOUS
  <1>1. request \in Requests /\ RequestEnd \in Nat
    BY RequestLines DEF Init, RequestEnd
  <1>2. Typed
    BY <1>1 DEF Init, Typed
  <1>3. StreamEnd = RequestEnd
    BY DEF Init, StreamEnd, FrameEnd
  <1>4. Stream
    BY <1>1, <1>3 DEF Init, Stream, Laid
  <1>5. Uncut
    BY DEF Init, Uncut
  <1>6. Cutting
    BY DEF Init, Cutting
  <1> QED BY <1>2, <1>4, <1>5, <1>6 DEF FrameInv

(* A read ends behind the last one, and within what the client has sent.   *)
LEMMA ArriveFacts ==
    ASSUME Typed, Stream, NEW hi \in Cuts, Arrive(hi)
    PROVE  /\ hi \in Nat /\ rcvd < hi /\ hi <= StreamEnd /\ rcvd' = hi
           /\ handshake # "whole" => hi <= RequestEnd
           /\ loop = "idle"
           /\ cuts' \subseteq 1..RequestEnd
           /\ RequestEnd \in Nat
  <1>1. request \in Requests /\ RequestEnd \in Nat
    BY RequestLines DEF Typed, RequestEnd
  <1>2. rcvd \in Nat /\ rcvd < hi /\ rcvd' = hi /\ loop = "idle"
    BY DEF Arrive, Typed
  <1>3. hi \in Int
    <2>1. CASE hi \in RequestCuts[request]
      <3>0. PICK i \in 1..Len(request) : \E j \in 1..Units(request[i]) : hi = 7 * (i - 1) + j
        BY <1>1, <2>1 DEF RequestCuts, LineRoom
      <3>1. PICK j \in 1..Units(request[i]) : hi = 7 * (i - 1) + j
        BY <3>0
      <3>2. i \in Int /\ j \in Int
        BY <1>1, RequestLines, UnitValues
      <3> QED BY <3>1, <3>2
    <2>2. CASE hi \in UNION {{f.start + k : k \in 1..14} \cup {f.end - 1, f.end} : f \in ToSet(frames)}
      <3>1. PICK f \in ToSet(frames) : hi \in {f.start + k : k \in 1..14} \cup {f.end - 1, f.end}
        BY <2>2
      <3>2. PICK i \in 1..Len(frames) : f = frames[i]
        BY <3>1 DEF ToSet, Typed
      <3>3. f.start \in Nat /\ f.end \in Nat
        BY <3>2, FrameFields
      <3> QED BY <3>1, <3>3
    <2> QED BY <2>1, <2>2 DEF Cuts
  <1>4. handshake # "whole" => hi <= RequestEnd
    BY DEF Arrive
  <1>5. hi <= StreamEnd
    <2>1. handshake # "whole" => StreamEnd = RequestEnd
      BY DEF Stream, StreamEnd, FrameEnd
    <2> QED BY <1>4, <2>1 DEF Arrive
  <1>6. cuts' \subseteq 1..RequestEnd
    BY <1>1, <1>2, <1>3 DEF Arrive, Typed
  <1> QED BY <1>1, <1>2, <1>3, <1>4, <1>5, <1>6

(* The positions do not move when the request and the frames do not.       *)
LEMMA SameEnds ==
    ASSUME UNCHANGED <<request, frames>>
    PROVE  /\ RequestEnd' = RequestEnd
           /\ StreamEnd' = StreamEnd
           /\ Laid(frames, RequestEnd)' <=> Laid(frames, RequestEnd)
  <1>1. RequestEnd' = RequestEnd
    BY DEF RequestEnd
  <1>3. StreamEnd' = StreamEnd
    BY <1>1 DEF StreamEnd, FrameEnd
  <1>4. Laid(frames, RequestEnd)' <=> Laid(frames, RequestEnd)
    BY <1>1 DEF Laid
  <1> QED BY <1>1, <1>3, <1>4

LEMMA SameEnd ==
    ASSUME UNCHANGED <<request, frames>>, NEW i
    PROVE  FrameEnd(i)' = FrameEnd(i)
  BY DEF FrameEnd, RequestEnd

(* ReadThrows and ReadHttp come before a handshake. *)
LEMMA FrameReadOther ==
    ASSUME FrameInv, NEW hi \in Cuts, ReadThrows(hi) \/ ReadHttp(hi)
    PROVE  FrameInv'
  <1>1. /\ Arrive(hi) /\ request_type' \in {"UNKNOWN", "HTTP"} /\ request_type # "WEBSOCKET"
        /\ UNCHANGED <<request, frames, buf, handshake, base, incomplete, loop, tasks,
                       handled, down>>
    BY DEF ReadThrows, ReadHttp, RequestType, FrameInv, Typed
  <1>2. calls' \in Nat
    BY DEF ReadThrows, ReadHttp, FrameInv, Typed
  <1>3. hi \in Nat /\ hi <= StreamEnd /\ rcvd' = hi /\ cuts' \subseteq 1..RequestEnd
    BY <1>1, ArriveFacts DEF FrameInv
  <1>4. RequestEnd' = RequestEnd /\ StreamEnd' = StreamEnd /\ (Laid(frames, RequestEnd)' <=> Laid(frames, RequestEnd))
    BY <1>1, SameEnds
  <1>5. Typed'
    BY <1>1, <1>2, <1>3, <1>4 DEF FrameInv, Typed
  <1>6. Stream'
    BY <1>1, <1>3, <1>4 DEF FrameInv, Stream
  <1>7. Uncut'
    BY <1>1, <1>4 DEF FrameInv, Uncut
  <1>8. Cutting'
    BY <1>1 DEF FrameInv, Uncut, Cutting
  <1> QED BY <1>5, <1>6, <1>7, <1>8 DEF FrameInv

LEMMA KeyValues ==
    ASSUME NEW lo, NEW hi
    PROVE  HandshakeKey(lo, hi) \in {"no", "whole", "cut"}
  BY DEF HandshakeKey

LEMMA FrameReadHandshake ==
    ASSUME FrameInv, NEW hi \in Cuts, ReadHandshake(hi)
    PROVE  FrameInv'
  <1>1. /\ Arrive(hi) /\ handshake = "no" /\ request_type' = "WEBSOCKET"
        /\ buf' = hi /\ base' = hi /\ incomplete' = <<hi, hi>>
        /\ handshake' = HandshakeKey(buf, hi)
        /\ UNCHANGED <<request, frames, calls, loop, tasks, handled, down>>
    BY DEF ReadHandshake
  <1>2. handshake' \in {"no", "whole", "cut"}
    BY <1>1, KeyValues
  <1>3. /\ hi \in Nat /\ hi <= StreamEnd /\ rcvd' = hi /\ cuts' \subseteq 1..RequestEnd
        /\ hi <= RequestEnd /\ RequestEnd \in Nat
    BY <1>1, ArriveFacts DEF FrameInv
  <1>4. /\ RequestEnd' = RequestEnd /\ StreamEnd' = StreamEnd
        /\ Laid(frames, RequestEnd)' <=> Laid(frames, RequestEnd)
        /\ FrameEnd(0)' = FrameEnd(0)
    BY <1>1, SameEnds, SameEnd
  <1>5. /\ frames = <<>> /\ down = <<>> /\ tasks = <<>> /\ handled = <<>> /\ loop = "idle"
    BY <1>1 DEF FrameInv, Stream, Uncut
  <1>6. Typed'
    BY <1>1, <1>2, <1>3, <1>4 DEF FrameInv, Typed
  <1>7. Stream'
    BY <1>1, <1>3, <1>4, <1>5 DEF FrameInv, Stream
  <1>8. Uncut'
    BY <1>1, <1>5 DEF Uncut
  <1>9. Cutting'
    <2>1. frames' = <<>> /\ tasks' = <<>> /\ handled' = <<>> /\ loop' = "idle"
      BY <1>1, <1>5
    <2>2. Len(handled') + Len(tasks') = 0 /\ Len(frames') = 0
      BY <2>1
    <2>3. FrameEnd(0)' = RequestEnd
      BY <1>4 DEF FrameEnd
    <2> SUFFICES ASSUME hi = RequestEnd
                 PROVE  /\ Len(handled') + Len(tasks') <= Len(frames')
                        /\ incomplete' = <<FrameEnd(0)', rcvd'>>
                        /\ FrameEnd(0)' <= rcvd'
      BY <1>1, <1>4, <2>1, <2>2 DEF Cutting
    <2> QED BY <1>1, <1>3, <2>2, <2>3
  <1> QED BY <1>6, <1>7, <1>8, <1>9 DEF FrameInv

LEMMA FrameReadFrames ==
    ASSUME FrameInv, NEW hi \in Cuts, ReadFrames(hi)
    PROVE  FrameInv'
  <1>1. /\ Arrive(hi) /\ handshake # "no" /\ request_type = "WEBSOCKET"
        /\ buf' = hi /\ incomplete' = <<incomplete[1], hi>>
        /\ loop' = IF base = RequestEnd THEN "cutting" ELSE "misaligned"
        /\ UNCHANGED <<request, frames, request_type, calls, handshake, base, tasks,
                       handled, down>>
    BY DEF ReadFrames
  <1>2. /\ hi \in Nat /\ hi <= StreamEnd /\ rcvd' = hi /\ cuts' \subseteq 1..RequestEnd
        /\ rcvd < hi /\ RequestEnd \in Nat
    BY <1>1, ArriveFacts DEF FrameInv
  <1>3. /\ RequestEnd' = RequestEnd /\ StreamEnd' = StreamEnd
        /\ Laid(frames, RequestEnd)' <=> Laid(frames, RequestEnd)
    BY <1>1, SameEnds
  <1>4. Typed'
    <2>1. loop' \in {"idle", "cutting", "misaligned"} /\ incomplete' \in Nat \X Nat
      BY <1>1, <1>2 DEF FrameInv, Typed
    <2> QED BY <1>1, <1>2, <1>3, <2>1 DEF FrameInv, Typed
  <1>5. Stream'
    BY <1>1, <1>2, <1>3 DEF FrameInv, Stream
  <1>6. Uncut'
    BY <1>1, <1>3 DEF FrameInv, Uncut
  <1>7. Cutting'
    <2> SUFFICES ASSUME base = RequestEnd
                 PROVE  Cutting'
      BY <1>1, <1>3 DEF Cutting
    <2> DEFINE m == Len(handled) + Len(tasks)
    <2>1. /\ m <= Len(frames)
          /\ \A i \in 1..Len(tasks) :
                tasks[i] = <<FrameEnd(Len(handled) + i - 1), FrameEnd(Len(handled) + i)>>
          /\ incomplete = <<FrameEnd(m), rcvd>>
          /\ FrameEnd(m) <= rcvd
      BY <1>1 DEF FrameInv, Cutting
    <2>2. m \in 0..Len(frames)
      BY <2>1 DEF FrameInv, Typed
    <2>3. FrameEnd(m) \in Nat /\ rcvd \in Nat
      BY <2>2, EndIsNat DEF FrameInv, Typed
    <2>4. m' = m /\ FrameEnd(m)' = FrameEnd(m) /\ loop' = "cutting"
      BY <1>1, SameEnd
    <2>5. \A i \in 1..Len(tasks') :
             tasks'[i] = <<FrameEnd(Len(handled) + i - 1)', FrameEnd(Len(handled) + i)'>>
      <3> SUFFICES ASSUME NEW i \in 1..Len(tasks)
                   PROVE  tasks[i] = <<FrameEnd(Len(handled) + i - 1)', FrameEnd(Len(handled) + i)'>>
        BY <1>1
      <3>1. /\ FrameEnd(Len(handled) + i - 1)' = FrameEnd(Len(handled) + i - 1)
            /\ FrameEnd(Len(handled) + i)' = FrameEnd(Len(handled) + i)
        BY <1>1 DEF FrameEnd, RequestEnd
      <3> QED BY <2>1, <3>1
    <2>6. incomplete' = <<FrameEnd(m)', rcvd'>> /\ FrameEnd(m)' <= rcvd'
      BY <1>1, <1>2, <2>1, <2>3, <2>4
    <2> QED BY <1>1, <2>1, <2>4, <2>5, <2>6 DEF Cutting
  <1> QED BY <1>4, <1>5, <1>6, <1>7 DEF FrameInv

(* In the loop, incomplete_frame_buffer begins with a frame; it is cut     *)
(* when it is complete.                                                    *)
LEMMA InLoop ==
    ASSUME FrameInv, loop = "cutting", NEW m, m = Len(handled) + Len(tasks)
    PROVE  /\ handshake # "no" /\ base = RequestEnd
           /\ m \in Nat /\ m <= Len(frames) /\ rcvd \in Nat
           /\ incomplete = <<FrameEnd(m), rcvd>>
           /\ FrameEnd(m) \in Nat /\ FrameEnd(m) <= rcvd
           /\ m = Len(frames) => MustWait(incomplete[1], incomplete[2])
           /\ m < Len(frames) =>
                 /\ m + 1 \in 1..Len(frames)
                 /\ FrameEnd(m + 1) \in Nat
                 /\ MustWait(incomplete[1], incomplete[2]) <=> rcvd < FrameEnd(m + 1)
                 /\ incomplete[1] + TotalFrameLength(incomplete[1]) = FrameEnd(m + 1)
  <1>1. handshake # "no" /\ base = RequestEnd
    BY DEF FrameInv, Uncut
  <1>2. m <= Len(frames) /\ incomplete = <<FrameEnd(m), rcvd>> /\ FrameEnd(m) <= rcvd
    BY <1>1 DEF FrameInv, Cutting
  <1>3. m \in Nat /\ m \in 0..Len(frames) /\ rcvd \in Nat /\ Len(frames) \in Nat
    BY <1>2 DEF FrameInv, Typed
  <1>4. FrameEnd(m) \in Nat
    BY <1>3, EndIsNat DEF FrameInv
  <1>5. incomplete[1] = FrameEnd(m) /\ incomplete[2] = rcvd
    BY <1>2
  <1>6. ASSUME m = Len(frames)
        PROVE  MustWait(incomplete[1], incomplete[2])
    <2>1. rcvd <= FrameEnd(m)
      BY <1>6 DEF FrameInv, Stream, StreamEnd
    <2>2. rcvd - FrameEnd(m) < 2
      BY <1>2, <1>3, <1>4, <2>1
    <2> QED BY <1>5, <2>2 DEF MustWait
  <1>7. ASSUME m < Len(frames)
        PROVE  /\ m + 1 \in 1..Len(frames)
               /\ FrameEnd(m + 1) \in Nat
               /\ MustWait(incomplete[1], incomplete[2]) <=> rcvd < FrameEnd(m + 1)
               /\ incomplete[1] + TotalFrameLength(incomplete[1]) = FrameEnd(m + 1)
    <2>1. m + 1 \in 1..Len(frames) /\ (m + 1) - 1 = m /\ m + 1 \in 0..Len(frames)
      BY <1>3, <1>7
    <2>2. PICK i \in 1..Len(frames) : i = m + 1
      BY <2>1
    <2>3. FrameEnd(i - 1) = frames[i].start /\ FrameEnd(i) = frames[i].end
      BY FrameEnds DEF FrameInv
    <2>4. FrameEnd(m) = frames[i].start
      BY <2>1, <2>2, <2>3
    <2>5. frames[i].start <= rcvd
      BY <1>2, <2>4
    <2>6. /\ MustWait(frames[i].start, rcvd) <=> rcvd < frames[i].end
          /\ frames[i].start + TotalFrameLength(frames[i].start) = frames[i].end
      BY <1>3, <2>5, WaitsFor DEF FrameInv
    <2>7. FrameEnd(i) \in Nat
      BY <2>3, FrameFields DEF FrameInv
    <2> QED BY <1>5, <2>1, <2>2, <2>3, <2>4, <2>6, <2>7
  <1> QED BY <1>1, <1>2, <1>3, <1>4, <1>6, <1>7

LEMMA FrameWait ==
    ASSUME FrameInv, Wait
    PROVE  FrameInv'
  <1>1. /\ loop = "cutting" /\ MustWait(incomplete[1], incomplete[2]) /\ loop' = "idle"
        /\ UNCHANGED <<request, frames, rcvd, cuts, buf, request_type, calls,
                       handshake, base, incomplete, tasks, handled, down>>
    BY DEF Wait
  <1>2. /\ RequestEnd' = RequestEnd /\ StreamEnd' = StreamEnd
        /\ Laid(frames, RequestEnd)' <=> Laid(frames, RequestEnd)
    BY <1>1, SameEnds
  <1>3. Typed'
    BY <1>1, <1>2 DEF FrameInv, Typed
  <1>4. Stream'
    BY <1>1, <1>2 DEF FrameInv, Stream
  <1>5. Uncut'
    BY <1>1, <1>2 DEF FrameInv, Uncut
  <1>6. Cutting'
    <2> DEFINE m == Len(handled) + Len(tasks)
    <2>1. handshake # "no" /\ base = RequestEnd
      BY <1>1, InLoop
    <2>2. m < Len(frames) => rcvd < FrameEnd(m + 1)
      BY <1>1, InLoop
    <2>3. /\ m <= Len(frames)
          /\ \A i \in 1..Len(tasks) :
                tasks[i] = <<FrameEnd(Len(handled) + i - 1), FrameEnd(Len(handled) + i)>>
          /\ incomplete = <<FrameEnd(m), rcvd>>
          /\ FrameEnd(m) <= rcvd
      BY <2>1 DEF FrameInv, Cutting
    <2>4. \A i \in 1..Len(tasks') :
             tasks'[i] = <<FrameEnd(Len(handled) + i - 1)', FrameEnd(Len(handled) + i)'>>
      <3> SUFFICES ASSUME NEW i \in 1..Len(tasks)
                   PROVE  tasks[i] = <<FrameEnd(Len(handled) + i - 1)', FrameEnd(Len(handled) + i)'>>
        BY <1>1
      <3>1. /\ FrameEnd(Len(handled) + i - 1)' = FrameEnd(Len(handled) + i - 1)
            /\ FrameEnd(Len(handled) + i)' = FrameEnd(Len(handled) + i)
        BY <1>1 DEF FrameEnd, RequestEnd
      <3> QED BY <2>3, <3>1
    <2>5. m' = m /\ FrameEnd(m)' = FrameEnd(m) /\ FrameEnd(m + 1)' = FrameEnd(m + 1)
      BY <1>1 DEF FrameEnd, RequestEnd
    <2> QED BY <1>1, <2>2, <2>3, <2>4, <2>5 DEF Cutting
  <1> QED BY <1>3, <1>4, <1>5, <1>6 DEF FrameInv

LEMMA FrameCutFrame ==
    ASSUME FrameInv, CutFrame
    PROVE  FrameInv'
  <1>1. PICK m : m = Len(handled) + Len(tasks)
    OBVIOUS
  <1>2. /\ loop = "cutting" /\ ~MustWait(incomplete[1], incomplete[2])
        /\ tasks' = Append(tasks, <<incomplete[1], incomplete[1] + TotalFrameLength(incomplete[1])>>)
        /\ incomplete' = <<incomplete[1] + TotalFrameLength(incomplete[1]), incomplete[2]>>
        /\ UNCHANGED <<request, frames, rcvd, cuts, buf, request_type, calls,
                       handshake, base, loop, handled, down>>
    BY DEF CutFrame
  <1>3. /\ handshake # "no" /\ base = RequestEnd
        /\ m \in Nat /\ m < Len(frames) /\ rcvd \in Nat
        /\ incomplete = <<FrameEnd(m), rcvd>> /\ FrameEnd(m) \in Nat
        /\ FrameEnd(m + 1) \in Nat /\ ~(rcvd < FrameEnd(m + 1))
        /\ incomplete[1] + TotalFrameLength(incomplete[1]) = FrameEnd(m + 1)
    <2>1. Len(frames) \in Nat
      BY DEF FrameInv, Typed
    <2>2. m \in Nat /\ m <= Len(frames) /\ ~(m = Len(frames))
      BY <1>1, <1>2, InLoop
    <2>3. m < Len(frames)
      BY <2>1, <2>2
    <2> QED BY <1>1, <1>2, <2>3, InLoop
  <1>4. tasks' = Append(tasks, <<FrameEnd(m), FrameEnd(m + 1)>>) /\ incomplete' = <<FrameEnd(m + 1), rcvd>>
    <2>1. incomplete[1] = FrameEnd(m) /\ incomplete[2] = rcvd
      BY <1>3
    <2> QED BY <1>2, <1>3, <2>1
  <1>5. /\ RequestEnd' = RequestEnd /\ StreamEnd' = StreamEnd
        /\ Laid(frames, RequestEnd)' <=> Laid(frames, RequestEnd)
    BY <1>2, SameEnds
  <1>6. /\ tasks \in Seq(Nat \X Nat) /\ tasks' \in Seq(Nat \X Nat)
        /\ Len(tasks) \in Nat /\ Len(handled) \in Nat /\ Len(tasks') = Len(tasks) + 1
        /\ tasks'[Len(tasks) + 1] = <<FrameEnd(m), FrameEnd(m + 1)>>
        /\ \A i \in 1..Len(tasks) : tasks'[i] = tasks[i]
    <2>1. tasks \in Seq(Nat \X Nat) /\ Len(handled) \in Nat
      BY DEF FrameInv, Typed
    <2>2. <<FrameEnd(m), FrameEnd(m + 1)>> \in Nat \X Nat
      BY <1>3
    <2> QED BY <1>4, <2>1, <2>2, AppendProperties
  <1>7. Typed'
    <2>1. incomplete' \in Nat \X Nat
      BY <1>3, <1>4
    <2> QED BY <1>2, <1>5, <1>6, <2>1 DEF FrameInv, Typed
  <1>8. Stream'
    BY <1>2, <1>5 DEF FrameInv, Stream
  <1>9. Uncut'
    BY <1>2, <1>3, <1>5 DEF FrameInv, Uncut
  <1>10. Cutting'
    <2>1. Len(handled') + Len(tasks') = m + 1
      BY <1>1, <1>2, <1>6
    <2>2. m + 1 <= Len(frames') /\ loop' = "cutting"
      BY <1>2, <1>3 DEF FrameInv, Typed
    <2>3. FrameEnd(m + 1)' = FrameEnd(m + 1)
      BY <1>2 DEF FrameEnd, RequestEnd
    <2>4. incomplete' = <<FrameEnd(m + 1)', rcvd'>> /\ FrameEnd(m + 1)' <= rcvd'
      <3>1. FrameEnd(m + 1) <= rcvd
        BY <1>3
      <3> QED BY <1>2, <1>4, <2>3, <3>1
    <2>5. \A i \in 1..Len(tasks') :
             tasks'[i] = <<FrameEnd(Len(handled) + i - 1)', FrameEnd(Len(handled) + i)'>>
      <3> SUFFICES ASSUME NEW i \in 1..Len(tasks')
                   PROVE  tasks'[i] = <<FrameEnd(Len(handled) + i - 1)', FrameEnd(Len(handled) + i)'>>
        OBVIOUS
      <3>1. /\ FrameEnd(Len(handled) + i - 1)' = FrameEnd(Len(handled) + i - 1)
            /\ FrameEnd(Len(handled) + i)' = FrameEnd(Len(handled) + i)
        BY <1>2 DEF FrameEnd, RequestEnd
      <3>2. CASE i = Len(tasks) + 1
        <4>1. Len(handled) + i - 1 = m /\ Len(handled) + i = m + 1
          BY <1>1, <1>6, <3>2
        <4> QED BY <1>6, <3>1, <3>2, <4>1
      <3>3. CASE i # Len(tasks) + 1
        <4>1. i \in 1..Len(tasks)
          BY <1>6, <3>3
        <4>2. tasks[i] = <<FrameEnd(Len(handled) + i - 1), FrameEnd(Len(handled) + i)>>
          BY <1>3, <4>1 DEF FrameInv, Cutting
        <4> QED BY <1>6, <3>1, <4>1, <4>2
      <3> QED BY <3>2, <3>3
    <2> QED BY <2>1, <2>2, <2>4, <2>5, <1>2 DEF Cutting
  <1> QED BY <1>7, <1>8, <1>9, <1>10 DEF FrameInv

(* A task parses the frame after those that were handled. *)
LEMMA TaskFrame ==
    ASSUME FrameInv, tasks # <<>>
    PROVE  /\ handshake # "no" /\ base = RequestEnd
           /\ Len(handled) + 1 \in 1..Len(frames)
           /\ Head(tasks) = <<frames[Len(handled) + 1].start, frames[Len(handled) + 1].end>>
           /\ ParseWebSocketFrame(Head(tasks)) \in Parsed
  <1>1. handshake # "no" /\ base = RequestEnd
    BY DEF FrameInv, Uncut
  <1>2. tasks \in Seq(Nat \X Nat) /\ Len(tasks) \in Nat /\ Len(tasks) >= 1 /\ Head(tasks) = tasks[1]
    BY EmptySeq DEF FrameInv, Typed
  <1>3. Len(handled) \in Nat /\ Len(frames) \in Nat
    BY DEF FrameInv, Typed
  <1>4. /\ Len(handled) + Len(tasks) <= Len(frames)
        /\ tasks[1] = <<FrameEnd(Len(handled) + 1 - 1), FrameEnd(Len(handled) + 1)>>
    BY <1>1, <1>2 DEF FrameInv, Cutting
  <1>5. PICK k \in 1..Len(frames) : k = Len(handled) + 1
    BY <1>2, <1>3, <1>4
  <1>6. FrameEnd(k - 1) = frames[k].start /\ FrameEnd(k) = frames[k].end
    BY FrameEnds DEF FrameInv
  <1>7. Head(tasks) = <<frames[k].start, frames[k].end>>
    BY <1>2, <1>4, <1>5, <1>6
  <1>8. ParseWebSocketFrame(<<frames[k].start, frames[k].end>>) \in Parsed
    BY ParsedFrame DEF FrameInv
  <1> QED BY <1>1, <1>5, <1>7, <1>8

LEMMA FrameRunTask ==
    ASSUME FrameInv, RunTask
    PROVE  FrameInv'
  <1>1. PICK frame : frame = ParseWebSocketFrame(Head(tasks))
    OBVIOUS
  <1>2. /\ tasks # <<>> /\ tasks' = Tail(tasks)
        /\ handled' = Append(handled, [frame |-> frame, effect |-> Effect(frame)])
        /\ UNCHANGED <<request, frames, rcvd, cuts, buf, request_type, calls,
                       handshake, base, incomplete, loop, down>>
    BY <1>1 DEF RunTask
  <1>3. handshake # "no" /\ base = RequestEnd /\ frame \in Parsed
    BY <1>1, <1>2, TaskFrame
  <1>4. Effect(frame) \in Effects
    BY DEF Effect, Effects
  <1>5. [frame |-> frame, effect |-> Effect(frame)] \in [frame : Parsed, effect : Effects]
    BY <1>3, <1>4
  <1>6. handled' \in Seq([frame : Parsed, effect : Effects]) /\ Len(handled') = Len(handled) + 1
        /\ Len(handled) \in Nat
    BY <1>2, <1>5, AppendProperties DEF FrameInv, Typed
  <1>7. /\ tasks \in Seq(Nat \X Nat) /\ Len(tasks) \in Nat /\ Len(tasks) >= 1
        /\ tasks' \in Seq(Nat \X Nat) /\ Len(tasks') = Len(tasks) - 1
        /\ \A i \in 1..Len(tasks') : tasks'[i] = tasks[i + 1]
    <2>1. tasks \in Seq(Nat \X Nat) /\ tasks # <<>>
      BY <1>2 DEF FrameInv, Typed
    <2>2. Len(tasks) \in Nat /\ Len(tasks) >= 1
      BY <2>1, EmptySeq
    <2> QED BY <1>2, <2>1, <2>2, HeadTailProperties
  <1>8. /\ RequestEnd' = RequestEnd /\ StreamEnd' = StreamEnd
        /\ Laid(frames, RequestEnd)' <=> Laid(frames, RequestEnd)
    BY <1>2, SameEnds
  <1>9. Typed'
    BY <1>2, <1>6, <1>7, <1>8 DEF FrameInv, Typed
  <1>10. Stream'
    BY <1>2, <1>8 DEF FrameInv, Stream
  <1>11. Uncut'
    BY <1>2, <1>3, <1>8 DEF FrameInv, Uncut
  <1>12. Cutting'
    <2>1. PICK m : m = Len(handled) + Len(tasks)
      OBVIOUS
    <2>2. Len(handled') + Len(tasks') = m
      BY <1>6, <1>7, <2>1
    <2>3. FrameEnd(m)' = FrameEnd(m) /\ FrameEnd(m + 1)' = FrameEnd(m + 1)
      BY <1>2 DEF FrameEnd, RequestEnd
    <2>4. /\ m <= Len(frames)
          /\ incomplete = <<FrameEnd(m), rcvd>>
          /\ FrameEnd(m) <= rcvd
          /\ loop # "misaligned"
          /\ (loop = "idle" /\ m < Len(frames)) => rcvd < FrameEnd(m + 1)
      BY <1>3, <2>1 DEF FrameInv, Cutting
    <2>5. \A i \in 1..Len(tasks') :
             tasks'[i] = <<FrameEnd(Len(handled) + i - 1)', FrameEnd(Len(handled) + i)'>>
      <3> SUFFICES ASSUME NEW i \in 1..Len(tasks')
                   PROVE  tasks'[i] = <<FrameEnd(Len(handled) + i - 1)', FrameEnd(Len(handled) + i)'>>
        OBVIOUS
      <3>1. PICK j \in 1..Len(tasks) : j = i + 1
        BY <1>7
      <3>2. tasks[j] = <<FrameEnd(Len(handled) + j - 1), FrameEnd(Len(handled) + j)>>
        BY <1>3 DEF FrameInv, Cutting
      <3>3. Len(handled) + j - 1 = Len(handled') + i - 1 /\ Len(handled) + j = Len(handled') + i
        <4>1. i \in Nat
          BY <1>7
        <4>2. PICK l \in Nat : l = Len(handled) /\ Len(handled') = l + 1
          BY <1>6
        <4>3. j = i + 1
          BY <3>1
        <4> QED BY <4>1, <4>2, <4>3
      <3>4. PICK a, b : a = Len(handled) + j - 1 /\ b = Len(handled) + j
        OBVIOUS
      <3>5. FrameEnd(a)' = FrameEnd(a) /\ FrameEnd(b)' = FrameEnd(b)
        BY <1>2 DEF FrameEnd, RequestEnd
      <3>6. tasks'[i] = <<FrameEnd(a)', FrameEnd(b)'>>
        BY <1>7, <3>1, <3>2, <3>4, <3>5
      <3>7. /\ FrameEnd(Len(handled) + i - 1)' = FrameEnd(a)'
            /\ FrameEnd(Len(handled) + i)' = FrameEnd(b)'
        BY <3>3, <3>4 DEF FrameEnd
      <3> QED BY <3>6, <3>7
    <2> QED BY <1>2, <1>6, <2>2, <2>3, <2>4, <2>5 DEF Cutting
  <1> QED BY <1>9, <1>10, <1>11, <1>12 DEF FrameInv

LEMMA FramePush ==
    ASSUME FrameInv, NEW n \in Lengths, Push(n)
    PROVE  FrameInv'
  <1>1. /\ handshake = "whole" /\ cuts' = {}
        /\ down' = Append(down, [bytes |-> BuildWebSocketFrame(n, 1), len |-> n])
        /\ UNCHANGED <<request, frames, rcvd, buf, request_type, calls, handshake, base,
                       incomplete, loop, tasks, handled>>
    BY DEF Push
  <1>2. /\ RequestEnd' = RequestEnd /\ StreamEnd' = StreamEnd
        /\ Laid(frames, RequestEnd)' <=> Laid(frames, RequestEnd)
    BY <1>1, SameEnds
  <1>3. down' \in Seq([bytes : Seq(Nat), len : Lengths])
    <2>1. BuildWebSocketFrame(n, 1) \in Seq(Nat)
      BY BuiltHeader DEF BuiltAs
    <2>2. [bytes |-> BuildWebSocketFrame(n, 1), len |-> n] \in [bytes : Seq(Nat), len : Lengths]
      BY <2>1
    <2> QED BY <1>1, <2>2, AppendProperties DEF FrameInv, Typed
  <1>4. Typed'
    BY <1>1, <1>2, <1>3 DEF FrameInv, Typed
  <1>5. Stream'
    BY <1>1, <1>2 DEF FrameInv, Stream
  <1>6. Uncut'
    BY <1>1, <1>2 DEF FrameInv, Uncut
  <1>7. Cutting'
    BY <1>1, <1>2 DEF FrameInv, Cutting, FrameEnd
  <1> QED BY <1>4, <1>5, <1>6, <1>7 DEF FrameInv

(* A new frame lies behind the others and has not been read. *)
LEMMA SendFacts ==
    ASSUME FrameInv, NEW f \in ClientFrames, ClientSend(f)
    PROVE  /\ frames' \in Seq(FrameAt) /\ Len(frames) \in Nat /\ Len(frames') = Len(frames) + 1
           /\ \A i \in 1..Len(frames) : frames'[i] = frames[i]
           /\ LET l == frames'[Len(frames) + 1]
              IN  /\ l.frame = f /\ l.header = ClientHeader(f) /\ l.start = StreamEnd
                  /\ l.end = StreamEnd + Len(l.header) + 4 + f.len
                  /\ StreamEnd < l.end
           /\ StreamEnd \in Nat
  <1>1. PICK l : l = [frame |-> f, header |-> ClientHeader(f), start |-> StreamEnd,
                      end |-> StreamEnd + Len(ClientHeader(f)) + 4 + f.len]
    OBVIOUS
  <1>2. frames' = Append(frames, l)
    BY <1>1 DEF ClientSend
  <1>3. Len(frames) \in Nat /\ frames \in Seq(FrameAt)
    BY DEF FrameInv, Typed
  <1>4. StreamEnd \in Nat
    BY <1>3, EndIsNat DEF FrameInv, StreamEnd
  <1>5. ClientHeader(f) \in Seq(Nat) /\ f.len \in Nat
    BY ClientHeaderParts, ClientFrameTypes DEF SentAs
  <1>6. Len(ClientHeader(f)) \in Nat
    BY <1>5
  <1>7. PICK e \in Nat : e = StreamEnd + Len(ClientHeader(f)) + 4 + f.len /\ StreamEnd < e
    <2>1. ASSUME NEW s \in Nat, NEW h \in Nat, NEW n \in Nat
          PROVE  s + h + 4 + n \in Nat /\ s < s + h + 4 + n
      OBVIOUS
    <2> QED BY <1>4, <1>5, <1>6, <2>1
  <1>8. l = [frame |-> f, header |-> ClientHeader(f), start |-> StreamEnd, end |-> e]
    BY <1>1, <1>7
  <1>9. l \in FrameAt
    BY <1>4, <1>5, <1>8 DEF FrameAt
  <1>10. /\ frames' \in Seq(FrameAt) /\ Len(frames') = Len(frames) + 1
         /\ \A i \in 1..Len(frames) : frames'[i] = frames[i]
         /\ frames'[Len(frames) + 1] = l
    BY <1>2, <1>3, <1>9, AppendProperties
  <1>11. /\ l.frame = f /\ l.header = ClientHeader(f) /\ l.start = StreamEnd
         /\ l.end = StreamEnd + Len(l.header) + 4 + f.len
         /\ StreamEnd < l.end
    BY <1>7, <1>8
  <1> QED BY <1>3, <1>4, <1>10, <1>11

LEMMA FrameClientSend ==
    ASSUME FrameInv, NEW f \in ClientFrames, ClientSend(f)
    PROVE  FrameInv'
  <1>1. /\ handshake = "whole" /\ cuts' = {}
        /\ UNCHANGED <<request, rcvd, buf, request_type, calls, handshake, base,
                       incomplete, loop, tasks, handled, down>>
    BY DEF ClientSend
  <1>2. RequestEnd' = RequestEnd /\ RequestEnd \in Nat
    BY <1>1, RequestLines DEF RequestEnd, FrameInv, Typed
  <1>3. /\ frames' \in Seq(FrameAt) /\ Len(frames) \in Nat /\ Len(frames') = Len(frames) + 1
        /\ \A i \in 1..Len(frames) : frames'[i] = frames[i]
        /\ StreamEnd \in Nat
    BY SendFacts
  <1>4. PICK l : /\ l = frames'[Len(frames) + 1]
                 /\ l.frame = f /\ l.header = ClientHeader(f) /\ l.start = StreamEnd
                 /\ l.end = StreamEnd + Len(l.header) + 4 + f.len
                 /\ StreamEnd < l.end
    BY SendFacts
  <1>5. \A i \in 0..Len(frames) : FrameEnd(i)' = FrameEnd(i)
    BY <1>2, <1>3 DEF FrameEnd
  <1>6. StreamEnd' = l.end
    BY <1>3, <1>4 DEF StreamEnd, FrameEnd
  <1>7. Typed'
    BY <1>1, <1>2, <1>3 DEF FrameInv, Typed
  <1>8. Laid(frames', RequestEnd)
    <2>0. Laid(frames, RequestEnd)
      BY DEF FrameInv, Stream
    <2>1. \A i \in 1..Len(frames') : i \in 1..Len(frames) \/ i = Len(frames) + 1
      BY <1>3
    <2>2. \A i \in 1..Len(frames) : frames[i].end <= StreamEnd
      <3> SUFFICES ASSUME NEW i \in 1..Len(frames) PROVE frames[i].end <= StreamEnd
        OBVIOUS
      <3>1. FrameEnd(i) <= StreamEnd
        <4>1. i \in 0..Len(frames)
          BY <1>3
        <4> QED BY <4>1, EndIsNat DEF FrameInv
      <3> QED BY <3>1, FrameEnds DEF FrameInv
    <2>3. RequestEnd <= StreamEnd
      <3>1. 0 \in 0..Len(frames) /\ FrameEnd(0) = RequestEnd
        BY <1>3 DEF FrameEnd
      <3> QED BY <3>1, EndIsNat DEF FrameInv
    <2>4. ASSUME NEW i \in 1..Len(frames')
          PROVE  /\ frames'[i].header = ClientHeader(frames'[i].frame)
                 /\ frames'[i].start = IF i = 1 THEN RequestEnd ELSE frames'[i - 1].end
                 /\ RequestEnd <= frames'[i].start
                 /\ frames'[i].end = frames'[i].start + Len(frames'[i].header) + 4 + frames'[i].frame.len
      <3>1. CASE i \in 1..Len(frames)
        <4>1. i # 1 => i - 1 \in 1..Len(frames)
          BY <1>3, <3>1
        <4>2. frames'[i] = frames[i] /\ (i # 1 => frames'[i - 1] = frames[i - 1])
          BY <1>3, <3>1, <4>1
        <4> QED BY <2>0, <3>1, <4>2 DEF Laid
      <3>2. CASE i = Len(frames) + 1
        <4>1. frames'[i] = l
          BY <1>4, <3>2
        <4>2. StreamEnd = IF i = 1 THEN RequestEnd ELSE frames'[i - 1].end
          <5>1. CASE i = 1
            <6>1. Len(frames) = 0
              BY <1>3, <3>2, <5>1
            <6> QED BY <5>1, <6>1 DEF StreamEnd, FrameEnd
          <5>2. CASE i # 1
            <6>1. Len(frames) # 0 /\ Len(frames) \in 1..Len(frames) /\ i - 1 = Len(frames)
              BY <1>3, <3>2, <5>2
            <6>2. StreamEnd = frames[Len(frames)].end
              BY <6>1 DEF StreamEnd, FrameEnd
            <6> QED BY <1>3, <5>2, <6>1, <6>2
          <5> QED BY <5>1, <5>2
        <4>3. l.end = l.start + Len(l.header) + 4 + l.frame.len
          BY <1>4
        <4> QED BY <1>4, <2>3, <4>1, <4>2, <4>3
      <3> QED BY <2>1, <3>1, <3>2
    <2>5. ASSUME NEW i \in 1..Len(frames'), NEW j \in 1..Len(frames'), i < j
          PROVE  frames'[i].end <= frames'[j].start
      <3>1. i \in 1..Len(frames)
        BY <1>3, <2>5
      <3>2. CASE j \in 1..Len(frames)
        <4>1. frames[i].end <= frames[j].start
          BY <2>0, <2>5, <3>1, <3>2 DEF Laid
        <4> QED BY <1>3, <3>1, <3>2, <4>1
      <3>3. CASE j = Len(frames) + 1
        <4>1. frames'[j].start = StreamEnd
          BY <1>4, <3>3
        <4> QED BY <1>3, <2>2, <3>1, <4>1
      <3> QED BY <2>1, <3>2, <3>3
    <2> QED BY <2>4, <2>5 DEF Laid
  <1>9. Stream'
    <2>1. Laid(frames, RequestEnd)'
      BY <1>2, <1>8 DEF Laid
    <2>2. rcvd' <= StreamEnd'
      <3>1. rcvd <= StreamEnd /\ rcvd \in Nat
        BY DEF FrameInv, Stream, Typed
      <3>2. PICK e \in Nat : e = StreamEnd' /\ StreamEnd < e
        <4>1. Len(frames) + 1 \in 1..Len(frames')
          BY <1>3
        <4>2. l.end \in Nat
          <5>1. l \in FrameAt
            BY <1>3, <1>4, <4>1
          <5> QED BY <5>1 DEF FrameAt
        <4> QED BY <1>4, <1>6, <4>2
      <3> QED BY <1>1, <1>3, <3>1, <3>2
    <2> QED BY <1>1, <2>1, <2>2 DEF Stream
  <1>10. Uncut'
    BY <1>1, <1>2 DEF FrameInv, Uncut
  <1>11. Cutting'
    <2> SUFFICES ASSUME handshake # "no", base = RequestEnd
                 PROVE  Cutting'
      BY <1>1, <1>2 DEF Cutting
    <2>1. PICK m : m = Len(handled) + Len(tasks)
      OBVIOUS
    <2>2. /\ m <= Len(frames)
          /\ incomplete = <<FrameEnd(m), rcvd>>
          /\ FrameEnd(m) <= rcvd
          /\ loop # "misaligned"
          /\ (loop = "idle" /\ m < Len(frames)) => rcvd < FrameEnd(m + 1)
          /\ \A i \in 1..Len(tasks) :
                tasks[i] = <<FrameEnd(Len(handled) + i - 1), FrameEnd(Len(handled) + i)>>
      BY <2>1 DEF FrameInv, Cutting
    <2>3. Len(handled) \in Nat /\ Len(tasks) \in Nat /\ m \in Nat /\ m \in 0..Len(frames)
      BY <2>1, <2>2 DEF FrameInv, Typed
    <2>4. m <= Len(frames') /\ FrameEnd(m)' = FrameEnd(m)
      BY <1>3, <1>5, <2>2, <2>3
    <2>5. ASSUME loop = "idle", m < Len(frames')
          PROVE  rcvd < FrameEnd(m + 1)'
      <3>1. CASE m < Len(frames)
        <4>1. m + 1 \in 0..Len(frames)
          BY <1>3, <2>3, <3>1
        <4>2. FrameEnd(m + 1)' = FrameEnd(m + 1)
          BY <1>5, <4>1
        <4> QED BY <2>2, <2>5, <3>1, <4>2
      <3>2. CASE m = Len(frames)
        <4>1. rcvd <= StreamEnd /\ rcvd \in Nat
          BY DEF FrameInv, Stream, Typed
        <4>2. FrameEnd(m + 1)' = StreamEnd'
          BY <1>3, <3>2 DEF StreamEnd
        <4>3. StreamEnd' \in Nat
          <5>1. m + 1 \in 1..Len(frames') /\ m + 1 # 0
            BY <1>3, <2>3, <3>2
          <5>2. frames'[m + 1] \in FrameAt
            BY <1>3, <5>1
          <5>3. frames'[m + 1].end \in Nat
            BY <5>2 DEF FrameAt
          <5> QED BY <1>4, <1>6, <3>2, <5>3
        <4>4. StreamEnd < StreamEnd'
          BY <1>4, <1>6
        <4> QED BY <1>3, <4>1, <4>2, <4>3, <4>4
      <3> QED BY <1>3, <2>2, <2>3, <3>1, <3>2
    <2>6. ASSUME NEW i \in 1..Len(tasks)
          PROVE  /\ FrameEnd(Len(handled) + i - 1)' = FrameEnd(Len(handled) + i - 1)
                 /\ FrameEnd(Len(handled) + i)' = FrameEnd(Len(handled) + i)
      <3>1. Len(handled) + i - 1 \in 0..Len(frames) /\ Len(handled) + i \in 0..Len(frames)
        BY <1>3, <2>1, <2>2, <2>3
      <3>2. PICK a \in 0..Len(frames), b \in 0..Len(frames) :
                a = Len(handled) + i - 1 /\ b = Len(handled) + i
        BY <3>1
      <3>3. FrameEnd(a)' = FrameEnd(a) /\ FrameEnd(b)' = FrameEnd(b)
        BY <1>5
      <3>4. handled' = handled
        BY <1>1
      <3>5. /\ FrameEnd(Len(handled) + i - 1)' = FrameEnd(a)'
            /\ FrameEnd(Len(handled) + i)' = FrameEnd(b)'
        BY <3>2, <3>4 DEF FrameEnd
      <3> QED BY <3>2, <3>3, <3>5
    <2>7. ASSUME NEW i \in 1..Len(tasks')
          PROVE  tasks'[i] = <<FrameEnd(Len(handled) + i - 1)', FrameEnd(Len(handled) + i)'>>
      <3>1. i \in 1..Len(tasks) /\ tasks' = tasks
        BY <1>1
      <3>2. tasks[i] = <<FrameEnd(Len(handled) + i - 1), FrameEnd(Len(handled) + i)>>
        BY <2>2, <3>1
      <3> QED BY <2>6, <3>1, <3>2
    <2>8. Len(handled') + Len(tasks') = m /\ FrameEnd(m)' <= rcvd' /\ incomplete' = <<FrameEnd(m)', rcvd'>>
      BY <1>1, <2>1, <2>2, <2>4
    <2> QED BY <1>1, <2>2, <2>4, <2>5, <2>7, <2>8 DEF Cutting
  <1> QED BY <1>7, <1>9, <1>10, <1>11 DEF FrameInv

LEMMA FrameNext ==
    ASSUME FrameInv, [Next]_vars
    PROVE  FrameInv'
  <1>1. CASE \E hi \in Cuts : Read(hi)
    <2>1. PICK hi \in Cuts : Read(hi)
      BY <1>1
    <2> QED BY <2>1, FrameReadOther, FrameReadHandshake, FrameReadFrames DEF Read
  <1>2. CASE Wait
    BY <1>2, FrameWait
  <1>3. CASE CutFrame
    BY <1>3, FrameCutFrame
  <1>4. CASE RunTask
    BY <1>4, FrameRunTask
  <1>5. CASE \E n \in Lengths : Push(n)
    BY <1>5, FramePush
  <1>6. CASE \E f \in ClientFrames : ClientSend(f)
    BY <1>6, FrameClientSend
  <1>7. CASE UNCHANGED vars
    <2>1. UNCHANGED <<request, frames>>
      BY <1>7 DEF vars
    <2>2. /\ RequestEnd' = RequestEnd /\ StreamEnd' = StreamEnd
          /\ Laid(frames, RequestEnd)' <=> Laid(frames, RequestEnd)
      BY <2>1, SameEnds
    <2>3. Typed' /\ Stream' /\ Uncut'
      BY <1>7, <2>2 DEF vars, FrameInv, Typed, Stream, Uncut
    <2>4. Cutting'
      BY <1>7, <2>2 DEF vars, FrameInv, Cutting, FrameEnd
    <2> QED BY <2>3, <2>4 DEF FrameInv
  <1> QED BY <1>1, <1>2, <1>3, <1>4, <1>5, <1>6, <1>7 DEF Next

(* FrameInv is an invariant of the specification. *)
THEOREM FramesSound == Spec => []FrameInv
  BY FrameInit, FrameNext, PTL DEF Spec

(* FrameInv gives FramesExact: the frames that have arrived whole are the  *)
(* ones up to the m-th.                                                    *)
LEMMA ExactFromInv ==
    ASSUME FrameInv
    PROVE  FramesExact
  <1> SUFFICES ASSUME loop = "idle", handshake # "no", base = RequestEnd
               PROVE  FramesExact
    BY DEF FramesExact
  <1>1. PICK m : m = Len(handled) + Len(tasks)
    OBVIOUS
  <1>2. /\ m <= Len(frames)
        /\ incomplete = <<FrameEnd(m), rcvd>>
        /\ FrameEnd(m) <= rcvd
        /\ m < Len(frames) => rcvd < FrameEnd(m + 1)
        /\ \A i \in 1..Len(tasks) :
              tasks[i] = <<FrameEnd(Len(handled) + i - 1), FrameEnd(Len(handled) + i)>>
    BY <1>1 DEF FrameInv, Cutting
  <1>3. m \in Nat /\ Len(frames) \in Nat /\ m \in 0..Len(frames) /\ rcvd \in Nat
    BY <1>1, <1>2 DEF FrameInv, Typed
  <1>4. {i \in 1..Len(frames) : FrameEnd(i) <= rcvd} = 1..m
    <2>1. ASSUME NEW i \in 1..Len(frames), i <= m
          PROVE  FrameEnd(i) <= rcvd
      <3>1. CASE i = m
        BY <1>2, <3>1
      <3>2. CASE i < m
        <4>1. FrameEnd(i) \in Nat /\ FrameEnd(m) \in Nat /\ FrameEnd(i) + 6 <= FrameEnd(m)
          <5>1. i \in 0..Len(frames)
            BY <1>3
          <5> QED BY <1>3, <3>2, <5>1, EndsGrow DEF FrameInv
        <4> QED BY <1>2, <1>3, <4>1
      <3> QED BY <1>3, <2>1, <3>1, <3>2
    <2>2. ASSUME NEW i \in 1..Len(frames), i > m
          PROVE  ~(FrameEnd(i) <= rcvd)
      <3>1. m + 1 \in 0..Len(frames) /\ i \in 0..Len(frames) /\ m < Len(frames)
        BY <1>3, <2>2
      <3>2. FrameEnd(m + 1) \in Nat /\ FrameEnd(i) \in Nat
        BY <3>1, EndIsNat DEF FrameInv
      <3>3. CASE i = m + 1
        BY <1>2, <1>3, <3>1, <3>2, <3>3
      <3>4. CASE i # m + 1
        <4>1. m + 1 < i
          BY <1>3, <2>2, <3>4
        <4>2. FrameEnd(m + 1) + 6 <= FrameEnd(i)
          BY <3>1, <4>1, EndsGrow DEF FrameInv
        <4> QED BY <1>2, <1>3, <3>1, <3>2, <4>2
      <3> QED BY <3>3, <3>4
    <2>3. 1..m \subseteq 1..Len(frames)
      BY <1>3
    <2>4. \A i \in 1..Len(frames) : i \in Nat /\ (i <= m \/ i > m)
      BY <1>3
    <2> QED BY <1>3, <2>1, <2>2, <2>3, <2>4
  <1>5. Cardinality(1..m) = m
    <2>1. 1 \in Int /\ m \in Int
      BY <1>3
    <2>2. Cardinality(1..m) = IF 1 > m THEN 0 ELSE m - 1 + 1
      BY <2>1, FS_Interval
    <2> QED BY <1>3, <2>2
  <1>6. Cardinality({i \in 1..Len(frames) : FrameEnd(i) <= rcvd}) = m
    BY <1>4, <1>5
  <1>7. \A i \in 1..Len(tasks) :
           tasks[i] = <<FrameEnd((Len(handled) + i) - 1), FrameEnd(Len(handled) + i)>>
    BY <1>2
  <1> QED BY <1>1, <1>2, <1>6, <1>7 DEF FramesExact

(* Whatever the requests and the lengths, and however TCP cuts the stream: *)
(* when OnRead has returned, the frames that have arrived whole were given *)
(* to the pool, each once and in order, and the buffer begins with the     *)
(* next.                                                                   *)
THEOREM FramesAreExact == Spec => []FramesExact
  BY FramesSound, ExactFromInv, PTL

-----------------------------------------------------------------------------
(* Parsing the frames, and building them. *)

LEMMA HandledCount ==
    ASSUME FrameInv
    PROVE  Len(handled) \in Nat /\ Len(frames) \in Nat /\ Len(handled) <= Len(frames)
  <1>1. Len(handled) \in Nat /\ Len(frames) \in Nat /\ Len(tasks) \in Nat
    BY DEF FrameInv, Typed
  <1>2. CASE handshake # "no" /\ base = RequestEnd
    BY <1>1, <1>2 DEF FrameInv, Cutting
  <1>3. CASE handshake = "no" \/ base # RequestEnd
    <2>1. Len(handled) = 0
      BY <1>3 DEF FrameInv, Uncut
    <2> QED BY <1>1, <2>1
  <1> QED BY <1>1, <1>2, <1>3

(* What ParsedAsSent says of one handled frame. *)
SentAndDone(g, h) ==
    LET f == g.frame
        start == g.start + Len(g.header)
    IN /\ h.frame = [fin     |-> f.fin,
                     opcode  |-> f.opcode,
                     key     |-> start,
                     payload |-> <<start + 4, start + 4 + f.len>>]
       /\ (h.effect = "disconnect") <=> (f.opcode = 8)

LEMMA ParsedUnfold ==
    ParsedAsSent <=> \A i \in 1..Len(handled) : SentAndDone(frames[i], handled[i])
  BY DEF ParsedAsSent, SentAndDone

LEMMA ParsedUnfoldNext ==
    ParsedAsSent' <=> \A i \in 1..Len(handled') : SentAndDone(frames'[i], handled'[i])
  BY DEF ParsedAsSent, SentAndDone

LEMMA TaskSound ==
    ASSUME FrameInv, RunTask
    PROVE  /\ Len(handled') = Len(handled) + 1
           /\ \A i \in 1..Len(handled) : handled'[i] = handled[i]
           /\ SentAndDone(frames[Len(handled) + 1], handled'[Len(handled) + 1])
  <1>1. PICK frame : frame = ParseWebSocketFrame(Head(tasks))
    OBVIOUS
  <1>2. /\ tasks # <<>>
        /\ handled' = Append(handled, [frame |-> frame, effect |-> Effect(frame)])
    BY <1>1 DEF RunTask
  <1>3. PICK k \in 1..Len(frames) : k = Len(handled) + 1
    BY <1>2, TaskFrame
  <1>4. frame = ParseWebSocketFrame(<<frames[k].start, frames[k].end>>) /\ frame \in Parsed
    BY <1>1, <1>2, <1>3, TaskFrame
  <1>5. PICK g : g = frames[k]
    OBVIOUS
  <1>6. frame = [fin     |-> g.frame.fin,
                 opcode  |-> g.frame.opcode,
                 key     |-> g.start + Len(g.header),
                 payload |-> <<g.start + Len(g.header) + 4,
                               g.start + Len(g.header) + 4 + g.frame.len>>]
    BY <1>4, <1>5, ParsedFrame DEF FrameInv
  <1>7. g.frame.opcode \in {0, 1, 8} /\ g.frame.fin \in BOOLEAN
    BY <1>5, FrameFields, ClientFrameTypes DEF FrameInv
  <1>8. frame.opcode = g.frame.opcode /\ frame.fin = g.frame.fin
    BY <1>6
  <1>9. (Effect(frame) = "disconnect") <=> (g.frame.opcode = 8)
    <2>1. CASE frame.opcode = 8
      BY <1>8, <2>1 DEF Effect
    <2>2. CASE frame.opcode # 8
      BY <1>8, <2>2 DEF Effect
    <2> QED BY <2>1, <2>2
  <1>10. PICK e : e = [frame |-> frame, effect |-> Effect(frame)]
    OBVIOUS
  <1>11. SentAndDone(g, e)
    <2>1. e.frame = frame /\ e.effect = Effect(frame)
      BY <1>10
    <2> QED BY <1>6, <1>9, <2>1 DEF SentAndDone
  <1>12. e \in [frame : Parsed, effect : Effects]
    <2>1. Effect(frame) \in Effects
      BY DEF Effect, Effects
    <2> QED BY <1>4, <1>10, <2>1
  <1>13. /\ Len(handled') = Len(handled) + 1
         /\ \A i \in 1..Len(handled) : handled'[i] = handled[i]
         /\ handled'[Len(handled) + 1] = e
    BY <1>2, <1>10, <1>12, AppendProperties DEF FrameInv, Typed
  <1> QED BY <1>3, <1>5, <1>11, <1>13

LEMMA ParsedNext ==
    ASSUME FrameInv, ParsedAsSent, [Next]_vars
    PROVE  ParsedAsSent'
  <1>0. \A i \in 1..Len(handled) : SentAndDone(frames[i], handled[i])
    BY ParsedUnfold
  <1>1. Len(handled) \in Nat /\ Len(frames) \in Nat /\ Len(handled) <= Len(frames)
    BY HandledCount
  <1>2. CASE UNCHANGED <<frames, handled>>
    BY <1>0, <1>2, ParsedUnfoldNext
  <1>3. CASE RunTask
    <2>1. frames' = frames
      BY <1>3 DEF RunTask
    <2>2. /\ Len(handled') = Len(handled) + 1
          /\ \A i \in 1..Len(handled) : handled'[i] = handled[i]
          /\ SentAndDone(frames[Len(handled) + 1], handled'[Len(handled) + 1])
      BY <1>3, TaskSound
    <2>3. ASSUME NEW i \in 1..Len(handled')
          PROVE  SentAndDone(frames'[i], handled'[i])
      <3>1. i \in 1..Len(handled) \/ i = Len(handled) + 1
        BY <1>1, <2>2
      <3>2. CASE i \in 1..Len(handled)
        BY <1>0, <2>1, <2>2, <3>2
      <3>3. CASE i = Len(handled) + 1
        BY <2>1, <2>2, <3>3
      <3> QED BY <3>1, <3>2, <3>3
    <2> QED BY <2>3, ParsedUnfoldNext
  <1>4. CASE \E f \in ClientFrames : ClientSend(f)
    <2>1. handled' = handled /\ \A i \in 1..Len(frames) : frames'[i] = frames[i]
      BY <1>4, SendFacts DEF ClientSend
    <2>2. ASSUME NEW i \in 1..Len(handled')
          PROVE  SentAndDone(frames'[i], handled'[i])
      <3>1. i \in 1..Len(handled) /\ i \in 1..Len(frames)
        BY <1>1, <2>1
      <3> QED BY <1>0, <2>1, <3>1
    <2> QED BY <2>2, ParsedUnfoldNext
  <1>5. \/ UNCHANGED <<frames, handled>>
        \/ RunTask
        \/ \E f \in ClientFrames : ClientSend(f)
    BY DEF Next, vars, Read, ReadThrows, ReadHttp, ReadHandshake, ReadFrames, Wait, CutFrame, Push
  <1> QED BY <1>2, <1>3, <1>4, <1>5

(* Whatever the client sends, the pool parses every frame as the client    *)
(* made it: same payload, same key, same kind; and it disconnects for a    *)
(* close frame and for nothing else.                                       *)
THEOREM ParsedIsSent == Spec => []ParsedAsSent
  <1>1. Init => ParsedAsSent
    BY DEF Init, ParsedAsSent
  <1>2. FrameInv /\ ParsedAsSent /\ [Next]_vars => ParsedAsSent'
    BY ParsedNext
  <1> QED BY <1>1, <1>2, FramesSound, PTL DEF Spec

LEMMA BuiltNext ==
    ASSUME FrameInv, BuiltReadable, [Next]_vars
    PROVE  BuiltReadable'
  <1>0. \A i \in 1..Len(down) : /\ down[i].bytes[1] = 128 + 1
                                /\ HeaderSize(down[i].bytes) = Len(down[i].bytes)
                                /\ PayloadLength(down[i].bytes) = down[i].len
    BY DEF BuiltReadable
  <1>1. CASE UNCHANGED down
    BY <1>1 DEF BuiltReadable, HeaderSize, PayloadLength
  <1>2. CASE \E n \in Lengths : Push(n)
    <2>1. PICK n \in Lengths : Push(n)
      BY <1>2
    <2>2. PICK d : d = [bytes |-> BuildWebSocketFrame(n, 1), len |-> n]
      OBVIOUS
    <2>3. down' = Append(down, d)
      BY <2>1, <2>2 DEF Push
    <2>4. BuiltAs(d.bytes, d.len)
      <3>1. d.bytes = BuildWebSocketFrame(n, 1) /\ d.len = n
        BY <2>2
      <3> QED BY <3>1, BuiltHeader
    <2>5. d \in [bytes : Seq(Nat), len : Lengths]
      BY <2>2, <2>4 DEF BuiltAs
    <2>6. /\ Len(down) \in Nat /\ Len(down') = Len(down) + 1
          /\ \A i \in 1..Len(down) : down'[i] = down[i]
          /\ down'[Len(down) + 1] = d
      BY <2>3, <2>5, AppendProperties DEF FrameInv, Typed
    <2>7. ASSUME NEW i \in 1..Len(down')
          PROVE  /\ down'[i].bytes[1] = 128 + 1
                 /\ HeaderSize(down'[i].bytes) = Len(down'[i].bytes)
                 /\ PayloadLength(down'[i].bytes) = down'[i].len
      <3>1. i \in 1..Len(down) \/ i = Len(down) + 1
        BY <2>6
      <3>2. CASE i \in 1..Len(down)
        BY <1>0, <2>6, <3>2
      <3>3. CASE i = Len(down) + 1
        <4>1. down'[i] = d
          BY <2>6, <3>3
        <4> QED BY <2>4, <4>1 DEF BuiltAs
      <3> QED BY <3>1, <3>2, <3>3
    <2> QED BY <2>7 DEF BuiltReadable, HeaderSize, PayloadLength
  <1>3. UNCHANGED down \/ \E n \in Lengths : Push(n)
    BY DEF Next, vars, Read, ReadThrows, ReadHttp, ReadHandshake, ReadFrames, Wait, CutFrame, RunTask, ClientSend
  <1> QED BY <1>1, <1>2, <1>3

(* Every frame that BuildWebSocketFrame builds, of any length up to 63     *)
(* bits, is read by the client as the payload that went in.                *)
THEOREM BuiltIsReadable == Spec => []BuiltReadable
  <1>1. Init => BuiltReadable
    BY DEF Init, BuiltReadable
  <1>2. FrameInv /\ BuiltReadable /\ [Next]_vars => BuiltReadable'
    BY BuiltNext
  <1> QED BY <1>1, <1>2, FramesSound, PTL DEF Spec

-----------------------------------------------------------------------------
(* An API request. *)

LEMMA ForwardingNext ==
    ASSUME FrameInv, Forwarding, [Next]_vars
    PROVE  Forwarding'
  <1> SUFFICES ASSUME request' = ApiRequest
               PROVE  Forwarding'
    BY DEF Forwarding
  <1>0. request' = request
    BY DEF Next, vars, Read, ReadThrows, ReadHttp, ReadHandshake, ReadFrames, Wait, CutFrame,
           RunTask, Push, ClientSend
  <1>1. /\ request = ApiRequest /\ request_type # "WEBSOCKET" /\ handshake = "no" /\ buf = 0
        /\ rcvd <= RequestEnd /\ calls = IF rcvd = RequestEnd THEN 1 ELSE 0
    BY <1>0 DEF Forwarding
  <1>2. RequestEnd' = RequestEnd /\ RequestEnd \in Nat /\ rcvd \in Nat /\ request \in Requests
    BY <1>0, RequestLines DEF RequestEnd, FrameInv, Typed
  <1>3. ASSUME NEW hi \in Cuts, Arrive(hi)
        PROVE  /\ hi \in Nat /\ rcvd < hi /\ hi <= RequestEnd /\ rcvd' = hi /\ calls = 0
               /\ ~isWebSocketRequest(hi)
    <2>1. hi \in Nat /\ rcvd < hi /\ hi <= RequestEnd /\ rcvd' = hi
      BY <1>1, <1>3, ArriveFacts DEF FrameInv
    <2>2. rcvd # RequestEnd
      BY <1>2, <2>1
    <2>3. ~isWebSocketRequest(hi)
      BY <1>1, <1>2, <2>1, ApiNoUpgrade
    <2> QED BY <1>1, <2>1, <2>2, <2>3
  <1>4. CASE \E hi \in Cuts : Read(hi)
    <2>1. PICK hi \in Cuts : Read(hi)
      BY <1>4
    <2>2. CASE ReadThrows(hi)
      <3>1. /\ Arrive(hi) /\ ParseThrows(hi)
            /\ UNCHANGED <<buf, request_type, calls, handshake>>
        BY <2>2 DEF ReadThrows
      <3>2. hi # RequestEnd
        BY <1>2, <3>1, EndNoColon
      <3> QED BY <1>0, <1>1, <1>2, <1>3, <3>1, <3>2 DEF Forwarding
    <2>3. CASE ReadHttp(hi)
      <3>1. /\ Arrive(hi) /\ request_type' = "HTTP"
            /\ calls' = IF buf = 0 /\ hi = RequestEnd THEN calls + 1 ELSE calls
            /\ UNCHANGED <<buf, handshake>>
        BY <2>3 DEF ReadHttp
      <3>2. calls' = IF hi = RequestEnd THEN 1 ELSE 0
        BY <1>1, <1>3, <3>1
      <3> QED BY <1>0, <1>1, <1>2, <1>3, <3>1, <3>2 DEF Forwarding
    <2>4. CASE ReadHandshake(hi)
      <3>1. Arrive(hi) /\ RequestType(hi) = "WEBSOCKET"
        BY <2>4 DEF ReadHandshake
      <3>2. ~isWebSocketRequest(hi)
        BY <1>3, <3>1
      <3>3. RequestType(hi) # "WEBSOCKET"
        <4>1. CASE request_type = "UNKNOWN"
          BY <3>2, <4>1 DEF RequestType
        <4>2. CASE request_type # "UNKNOWN"
          BY <1>1, <4>2 DEF RequestType
        <4> QED BY <4>1, <4>2
      <3> QED BY <3>1, <3>3
    <2>5. CASE ReadFrames(hi)
      BY <1>1, <2>5 DEF ReadFrames
    <2> QED BY <2>1, <2>2, <2>3, <2>4, <2>5 DEF Read
  <1>5. CASE UNCHANGED <<request_type, handshake, buf, rcvd, calls>>
    BY <1>0, <1>1, <1>2, <1>5 DEF Forwarding
  <1>6. \/ \E hi \in Cuts : Read(hi)
        \/ UNCHANGED <<request_type, handshake, buf, rcvd, calls>>
    BY DEF Next, vars, Wait, CutFrame, RunTask, Push, ClientSend
  <1> QED BY <1>4, <1>5, <1>6

(* Whatever an API request's lines are and however it arrives, it is       *)
(* forwarded once, when its last byte is there, and never taken for an     *)
(* upgrade.                                                                *)
THEOREM ForwardedOnce == Spec => []RequestForwardedOnce
  <1>1. Init => Forwarding
    <2> SUFFICES ASSUME Init PROVE Forwarding
      OBVIOUS
    <2>1. RequestEnd \in Nat /\ RequestEnd >= 2
      BY RequestLines DEF Init, RequestEnd
    <2> QED BY <2>1 DEF Init, Forwarding
  <1>2. FrameInv /\ Forwarding /\ [Next]_vars => Forwarding'
    BY ForwardingNext
  <1>3. Forwarding => RequestForwardedOnce
    BY DEF Forwarding, RequestForwardedOnce
  <1> QED BY <1>1, <1>2, <1>3, FramesSound, PTL DEF Spec

-----------------------------------------------------------------------------
(* An upgrade. *)

LEMMA DecidesOnce ==
    ASSUME NEW C \in SUBSET Nat, NEW c, NEW d, Decides(C, c), Decides(C, d)
    PROVE  c = d
  BY DEF Decides

(* A later read does not change what decided, nor where the key was sought. *)
LEMMA DecidesLater ==
    ASSUME NEW C \in SUBSET Nat, NEW hi \in Nat, \A d \in C : d < hi,
           NEW c, Decides(C, c)
    PROVE  Decides(C \cup {hi}, c)
  <1>1. c \in C /\ ~ParseThrows(c) /\ \A d \in C : ~ParseThrows(d) => c <= d
    BY DEF Decides
  <1>2. c \in Nat /\ c <= hi
    BY <1>1
  <1> QED BY <1>1, <1>2 DEF Decides

LEMMA LookedLater ==
    ASSUME NEW C \in SUBSET Nat, NEW hi \in Nat, \A d \in C : d < hi,
           NEW a, NEW b, Looked(C, a, b)
    PROVE  Looked(C \cup {hi}, a, b)
  <1>1. PICK c \in C : /\ Decides(C, c)
                       /\ \/ a = 0 /\ b = c
                          \/ /\ a \in C /\ b \in C /\ c <= a /\ a < b
                             /\ \A d \in C : d <= a \/ d >= b
    BY DEF Looked
  <1>2. Decides(C \cup {hi}, c) /\ c \in C \cup {hi}
    BY <1>1, DecidesLater
  <1>3. CASE a = 0 /\ b = c
    BY <1>2, <1>3 DEF Looked
  <1>4. CASE a \in C /\ b \in C /\ c <= a /\ a < b /\ \A d \in C : d <= a \/ d >= b
    <2>1. \A d \in C \cup {hi} : d <= a \/ d >= b
      BY <1>4
    <2> QED BY <1>2, <1>4, <2>1 DEF Looked
  <1> QED BY <1>1, <1>3, <1>4

(* After the deciding read, a read adds the pair of its ends. *)
LEMMA LookedAdds ==
    ASSUME NEW C \in SUBSET Nat, NEW hi \in Nat, NEW r \in C, \A d \in C : d <= r, r < hi,
           NEW c, Decides(C, c), NEW a, NEW b
    PROVE  Looked(C \cup {hi}, a, b) <=> Looked(C, a, b) \/ (a = r /\ b = hi)
  <1> DEFINE D == C \cup {hi}
  <1>1. \A d \in C : d < hi /\ d \in Nat
    OBVIOUS
  <1>2. Decides(D, c) /\ c \in C
    BY <1>1, DecidesLater DEF Decides
  <1>3. ASSUME Looked(D, a, b)
        PROVE  Looked(C, a, b) \/ (a = r /\ b = hi)
    <2>1. PICK e \in D : /\ Decides(D, e)
                         /\ \/ a = 0 /\ b = e
                            \/ /\ a \in D /\ b \in D /\ e <= a /\ a < b
                               /\ \A d \in D : d <= a \/ d >= b
      BY <1>3 DEF Looked
    <2>2. e = c
      <3>1. D \in SUBSET Nat
        OBVIOUS
      <3> HIDE DEF D
      <3> QED BY <1>2, <2>1, <3>1, DecidesOnce
    <2>3. CASE a = 0 /\ b = e
      BY <1>2, <2>2, <2>3 DEF Looked
    <2>4. CASE a \in D /\ b \in D /\ e <= a /\ a < b /\ \A d \in D : d <= a \/ d >= b
      <3>1. CASE b \in C
        <4>1. a \in C
          BY <1>1, <2>4, <3>1
        <4> QED BY <1>2, <2>2, <2>4, <3>1, <4>1 DEF Looked
      <3>2. CASE b = hi
        <4>1. a \in C
          BY <2>4, <3>2
        <4>2. a = r
          BY <2>4, <3>2, <4>1
        <4> QED BY <3>2, <4>2
      <3> QED BY <2>4, <3>1, <3>2
    <2> QED BY <2>1, <2>3, <2>4
  <1>4. ASSUME a = r, b = hi
        PROVE  Looked(D, a, b)
    <2>1. c <= r
      BY <1>2
    <2>2. \A d \in D : d <= a \/ d >= b
      BY <1>4
    <2> QED BY <1>2, <1>4, <2>1, <2>2 DEF Looked
  <1>5. Looked(C, a, b) => Looked(D, a, b)
    BY <1>1, LookedLater
  <1> QED BY <1>3, <1>4, <1>5

(* The deciding read looks at everything up to its end. *)
LEMMA LookedFirst ==
    ASSUME NEW C \in SUBSET Nat, NEW hi \in Nat, \A d \in C : d < hi,
           \A d \in C : ParseThrows(d), ~ParseThrows(hi), NEW a, NEW b
    PROVE  /\ Decides(C \cup {hi}, hi)
           /\ Looked(C \cup {hi}, a, b) <=> a = 0 /\ b = hi
  <1> DEFINE D == C \cup {hi}
  <1>1. Decides(D, hi)
    BY DEF Decides
  <1>2. \A e \in D : Decides(D, e) => e = hi
    BY DEF Decides
  <1>3. Looked(D, a, b) => a = 0 /\ b = hi
    <2> SUFFICES ASSUME Looked(D, a, b) PROVE a = 0 /\ b = hi
      OBVIOUS
    <2>1. PICK e \in D : /\ Decides(D, e)
                         /\ \/ a = 0 /\ b = e
                            \/ a \in D /\ b \in D /\ e <= a /\ a < b
      BY DEF Looked
    <2>2. e = hi
      BY <1>2, <2>1
    <2>3. \A d \in D : d \in Nat /\ d <= hi
      OBVIOUS
    <2>4. CASE a = 0 /\ b = e
      BY <2>2, <2>4
    <2>5. CASE a \in D /\ b \in D /\ e <= a /\ a < b
      <3>1. a \in Nat /\ b \in Nat /\ hi <= a /\ a < b /\ b <= hi
        BY <2>2, <2>3, <2>5
      <3> QED BY <3>1
    <2> QED BY <2>1, <2>4, <2>5
  <1>4. Looked(D, 0, hi)
    BY <1>1 DEF Looked
  <1> QED BY <1>1, <1>3, <1>4

LEMMA KeyPlaces ==
    ASSUME request \in Requests
    PROVE  LET k == "Sec-WebSocket-Key"
           IN  /\ After(k, "name") \in Nat /\ After(k, "space") \in Nat
               /\ After(k, "rest") \in Nat /\ After(k, "lf") \in Nat
               /\ After(k, "name") < After(k, "space") /\ After(k, "space") < After(k, "rest")
               /\ After(k, "rest") < After(k, "lf")
  <1>1. "Sec-WebSocket-Key" \in HeaderLines
    BY DEF HeaderLines
  <1>2. LineStart[request]["Sec-WebSocket-Key"] \in Nat
    BY <1>1, LineStarts
  <1> QED BY <1>2, PlaceValues DEF After

(* When a read holds the key, and when it holds all of it. *)
LEMMA KeyFound ==
    ASSUME NEW a, NEW b
    PROVE  LET k == "Sec-WebSocket-Key"
           IN  /\ HandshakeKey(a, b) # "no" <=> a < After(k, "name") /\ After(k, "space") <= b
               /\ HandshakeKey(a, b) = "whole" <=>
                     /\ a < After(k, "name") /\ After(k, "space") <= b
                     /\ b = After(k, "rest") \/ After(k, "lf") <= b
  <1> DEFINE found == a < After("Sec-WebSocket-Key", "name") /\ After("Sec-WebSocket-Key", "space") <= b
             whole == b = After("Sec-WebSocket-Key", "rest") \/ After("Sec-WebSocket-Key", "lf") <= b
  <1>1. HandshakeKey(a, b) = CASE ~found -> "no" [] found /\ whole -> "whole" [] found /\ ~whole -> "cut"
    BY DEF HandshakeKey
  <1> HIDE DEF found, whole
  <1>2. HandshakeKey(a, b) # "no" <=> found
    BY <1>1
  <1>3. HandshakeKey(a, b) = "whole" <=> found /\ whole
    BY <1>1
  <1> QED BY <1>2, <1>3 DEF found, whole

(* At most one read holds the key from the beginning of its line. *)
LEMMA KeyOnce ==
    ASSUME request \in Requests, NEW C \in SUBSET Nat,
           NEW a \in Nat, NEW b \in Nat, NEW e \in Nat, NEW g \in Nat,
           Looked(C, a, b), Looked(C, e, g),
           HandshakeKey(a, b) # "no", HandshakeKey(e, g) # "no"
    PROVE  a = e /\ b = g
  <1>1. PICK n \in Nat, s \in Nat : /\ n = After("Sec-WebSocket-Key", "name")
                                    /\ s = After("Sec-WebSocket-Key", "space") /\ n < s
    BY KeyPlaces
  <1>2. a < n /\ s <= b /\ e < n /\ s <= g
    BY <1>1, KeyFound
  <1>3. PICK c \in C : /\ Decides(C, c)
                       /\ \/ a = 0 /\ b = c
                          \/ /\ a \in C /\ b \in C /\ c <= a /\ a < b
                             /\ \A d \in C : d <= a \/ d >= b
    BY DEF Looked
  <1>4. PICK x \in C : /\ Decides(C, x)
                       /\ \/ e = 0 /\ g = x
                          \/ /\ e \in C /\ g \in C /\ x <= e /\ e < g
                             /\ \A d \in C : d <= e \/ d >= g
    BY DEF Looked
  <1>5. x = c
    BY <1>3, <1>4, DecidesOnce
  <1>6. c \in Nat
    OBVIOUS
  <1>7. CASE a = 0 /\ b = c
    <2>1. ~(c <= e)
      BY <1>1, <1>2, <1>6, <1>7
    <2> QED BY <1>4, <1>5, <1>7, <2>1
  <1>8. CASE /\ a \in C /\ b \in C /\ c <= a /\ a < b
             /\ \A d \in C : d <= a \/ d >= b
    <2>1. ~(g = c)
      BY <1>1, <1>2, <1>6, <1>8
    <2>2. /\ e \in C /\ g \in C /\ e < g /\ \A d \in C : d <= e \/ d >= g
      BY <1>4, <1>5, <2>1
    <2>3. e <= a \/ e >= b
      BY <1>8, <2>2
    <2>4. a <= e \/ a >= g
      BY <1>8, <2>2
    <2>5. e = a
      BY <1>1, <1>2, <2>3, <2>4
    <2>6. g <= a \/ g >= b
      BY <1>8, <2>2
    <2>7. b <= e \/ b >= g
      BY <1>8, <2>2
    <2> QED BY <1>8, <2>2, <2>5, <2>6, <2>7
  <1> QED BY <1>3, <1>7, <1>8

(* Of the request alone. *)
LEMMA SameRequest ==
    ASSUME request' = request, NEW c, NEW a, NEW b, NEW C
    PROVE  /\ ParseThrows(c)' <=> ParseThrows(c)
           /\ isWebSocketRequest(c)' <=> isWebSocketRequest(c)
           /\ HandshakeKey(a, b)' = HandshakeKey(a, b)
           /\ Decides(C, c)' <=> Decides(C, c)
           /\ Looked(C, a, b)' <=> Looked(C, a, b)
  BY DEF ParseThrows, isWebSocketRequest, HeaderValue, HandshakeKey, Decides, Looked, After

LEMMA OpeningUnfoldNext ==
    ASSUME request' = request
    PROVE  Opening' <=>
                /\ (frames' # <<>> \/ down' # <<>>) => cuts' = {}
                /\ (frames' = <<>> /\ down' = <<>>) =>
                      OpeningOf(cuts', rcvd', request_type', handshake', buf')
  BY DEF Opening, OpeningOf, Decides, Looked, ParseThrows, isWebSocketRequest, HeaderValue,
         HandshakeKey, After

(* A read that the deciding one precedes. *)
LEMMA OpeningLater ==
    ASSUME NEW C \in SUBSET Nat, NEW r \in Nat, NEW hi \in Nat, r < hi, NEW hs,
           OpeningOf(C, r, "WEBSOCKET", hs, r)
    PROVE  /\ hs # "no" => OpeningOf(C \cup {hi}, hi, "WEBSOCKET", hs, hi)
           /\ hs = "no" => OpeningOf(C \cup {hi}, hi, "WEBSOCKET", HandshakeKey(r, hi), hi)
  <1> DEFINE D == C \cup {hi}
  <1>1. PICK c \in C : Decides(C, c) /\ isWebSocketRequest(c)
    BY DEF OpeningOf
  <1>2. /\ r \in C /\ \A d \in C : d <= r /\ d < hi
    <2>1. r \in C \/ (r = 0 /\ C = {})
      BY DEF OpeningOf
    <2>2. \A d \in C : d <= r
      BY DEF OpeningOf
    <2> QED BY <1>1, <2>1, <2>2
  <1>3. Decides(D, c) /\ c \in D
    BY <1>1, <1>2, DecidesLater
  <1>4. \A a, b \in Nat : Looked(D, a, b) <=> Looked(C, a, b) \/ (a = r /\ b = hi)
    BY <1>1, <1>2, LookedAdds
  <1>5. /\ \A d \in D : d <= hi
        /\ hi \in D
        /\ \E d \in D : Decides(D, d) /\ isWebSocketRequest(d)
    <2>1. \A d \in D : d <= hi
      BY <1>2
    <2> QED BY <1>1, <1>3, <2>1
  <1> HIDE DEF D
  <1>6. ASSUME hs # "no"
        PROVE  OpeningOf(D, hi, "WEBSOCKET", hs, hi)
    <2>1. PICK a \in Nat, b \in Nat : Looked(C, a, b) /\ HandshakeKey(a, b) = hs
      BY <1>6 DEF OpeningOf
    <2>2. Looked(D, a, b)
      BY <1>4, <2>1
    <2> QED BY <1>5, <1>6, <2>1, <2>2 DEF OpeningOf
  <1>7. ASSUME hs = "no"
        PROVE  OpeningOf(D, hi, "WEBSOCKET", HandshakeKey(r, hi), hi)
    <2>1. \A a, b \in Nat : Looked(C, a, b) => HandshakeKey(a, b) = "no"
      BY <1>7 DEF OpeningOf
    <2>2. CASE HandshakeKey(r, hi) = "no"
      <3>1. \A a, b \in Nat : Looked(D, a, b) => HandshakeKey(a, b) = "no"
        BY <1>4, <2>1, <2>2
      <3> QED BY <1>5, <2>2, <3>1 DEF OpeningOf
    <2>3. CASE HandshakeKey(r, hi) # "no"
      <3>1. Looked(D, r, hi)
        BY <1>4
      <3>2. \E a, b \in Nat : Looked(D, a, b) /\ HandshakeKey(a, b) = HandshakeKey(r, hi)
        BY <3>1
      <3> QED BY <1>5, <2>3, <3>2 DEF OpeningOf
    <2> QED BY <2>2, <2>3
  <1> QED BY <1>6, <1>7 DEF D

(* The deciding read. *)
LEMMA OpeningFirst ==
    ASSUME NEW C \in SUBSET Nat, NEW r \in Nat, NEW hi \in Nat, r < hi, NEW hs, NEW b0,
           OpeningOf(C, r, "UNKNOWN", hs, b0), ~ParseThrows(hi)
    PROVE  /\ ~isWebSocketRequest(hi) => OpeningOf(C \cup {hi}, hi, "HTTP", hs, b0)
           /\ isWebSocketRequest(hi) =>
                 OpeningOf(C \cup {hi}, hi, "WEBSOCKET", HandshakeKey(0, hi), hi)
  <1> DEFINE D == C \cup {hi}
  <1>1. \A d \in C : d <= r /\ d < hi /\ ParseThrows(d)
    <2>1. \A d \in C : d <= r
      BY DEF OpeningOf
    <2>2. \A d \in C : ParseThrows(d)
      BY DEF OpeningOf
    <2> QED BY <2>1, <2>2
  <1>2. /\ Decides(D, hi)
        /\ \A a, b \in Nat : Looked(D, a, b) <=> a = 0 /\ b = hi
    BY <1>1, LookedFirst
  <1>3. hi \in D /\ \A d \in D : d <= hi
    BY <1>1
  <1> HIDE DEF D
  <1>4. ASSUME ~isWebSocketRequest(hi)
        PROVE  OpeningOf(D, hi, "HTTP", hs, b0)
    BY <1>2, <1>3, <1>4 DEF OpeningOf
  <1>5. ASSUME isWebSocketRequest(hi)
        PROVE  OpeningOf(D, hi, "WEBSOCKET", HandshakeKey(0, hi), hi)
    <2>1. \E d \in D : Decides(D, d) /\ isWebSocketRequest(d)
      BY <1>2, <1>3, <1>5
    <2>2. CASE HandshakeKey(0, hi) = "no"
      <3>1. \A a, b \in Nat : Looked(D, a, b) => HandshakeKey(a, b) = "no"
        BY <1>2, <2>2
      <3> QED BY <1>3, <2>1, <2>2, <3>1 DEF OpeningOf
    <2>3. CASE HandshakeKey(0, hi) # "no"
      <3>1. Looked(D, 0, hi)
        BY <1>2
      <3>2. \E a, b \in Nat : Looked(D, a, b) /\ HandshakeKey(a, b) = HandshakeKey(0, hi)
        BY <3>1
      <3> QED BY <1>3, <2>1, <2>3, <3>2 DEF OpeningOf
    <2> QED BY <2>2, <2>3
  <1> QED BY <1>4, <1>5 DEF D

LEMMA OpeningRead ==
    ASSUME FrameInv, Opening, NEW hi \in Cuts, Read(hi)
    PROVE  Opening'
  <1>0. /\ Arrive(hi) /\ UNCHANGED <<request, frames, down>>
    BY DEF Read, ReadThrows, ReadHttp, ReadHandshake, ReadFrames
  <1>1. /\ hi \in Nat /\ rcvd \in Nat /\ rcvd < hi /\ rcvd' = hi /\ hi <= StreamEnd
        /\ cuts \in SUBSET Nat
    BY <1>0, ArriveFacts DEF FrameInv, Typed
  <1>2. CASE frames # <<>> \/ down # <<>>
    <2>1. cuts = {} /\ cuts' = cuts
      BY <1>0, <1>2 DEF Opening, Arrive
    <2> QED BY <1>0, <1>2, <2>1, OpeningUnfoldNext
  <1>3. CASE frames = <<>> /\ down = <<>>
    <2>1. hi <= RequestEnd /\ cuts' = cuts \cup {hi}
      <3>1. StreamEnd = RequestEnd
        BY <1>3 DEF StreamEnd, FrameEnd
      <3> QED BY <1>0, <1>1, <1>3, <3>1 DEF Arrive
    <2>2. OpeningOf(cuts, rcvd, request_type, handshake, buf)
      BY <1>3 DEF Opening
    <2> SUFFICES OpeningOf(cuts \cup {hi}, hi, request_type', handshake', buf')
      BY <1>0, <1>1, <1>3, <2>1, OpeningUnfoldNext
    <2>3. \A d \in cuts : d <= rcvd /\ d < hi /\ d \in Nat
      BY <1>1, <2>2 DEF OpeningOf
    <2>4. \A d \in cuts \cup {hi} : d <= hi
      BY <1>1, <2>3
    <2>5. CASE ReadThrows(hi)
      <3>1. /\ request_type = "UNKNOWN" /\ request_type' = "UNKNOWN" /\ ParseThrows(hi)
            /\ buf' = buf
        BY <2>5 DEF ReadThrows
      <3>2. buf = 0 /\ \A d \in cuts : ParseThrows(d)
        BY <2>2, <3>1 DEF OpeningOf
      <3> QED BY <2>4, <3>1, <3>2 DEF OpeningOf
    <2>6. CASE ReadHttp(hi)
      <3>1. /\ request_type = "UNKNOWN" => ~ParseThrows(hi)
            /\ RequestType(hi) = "HTTP" /\ request_type' = "HTTP"
            /\ UNCHANGED <<handshake, buf>>
        BY <2>6 DEF ReadHttp
      <3>2. CASE request_type = "UNKNOWN"
        <4>1. ~isWebSocketRequest(hi)
          BY <3>1, <3>2 DEF RequestType
        <4> QED BY <1>1, <2>2, <3>1, <3>2, <4>1, OpeningFirst
      <3>3. CASE request_type # "UNKNOWN"
        <4>1. request_type = "HTTP"
          BY <3>1, <3>3 DEF RequestType
        <4>2. PICK c \in cuts : Decides(cuts, c) /\ ~isWebSocketRequest(c)
          BY <2>2, <4>1 DEF OpeningOf
        <4>3. Decides(cuts \cup {hi}, c)
          BY <1>1, <2>3, <4>2, DecidesLater
        <4> QED BY <2>4, <3>1, <4>2, <4>3 DEF OpeningOf
      <3> QED BY <3>2, <3>3
    <2>7. CASE ReadHandshake(hi)
      <3>1. /\ request_type = "UNKNOWN" => ~ParseThrows(hi)
            /\ RequestType(hi) = "WEBSOCKET" /\ request_type' = "WEBSOCKET"
            /\ handshake = "no" /\ handshake' = HandshakeKey(buf, hi) /\ buf' = hi
        BY <2>7 DEF ReadHandshake
      <3>2. CASE request_type = "UNKNOWN"
        <4>1. isWebSocketRequest(hi)
          BY <3>1, <3>2 DEF RequestType
        <4>2. buf = 0
          BY <2>2, <3>2 DEF OpeningOf
        <4> QED BY <1>1, <2>2, <3>1, <3>2, <4>1, <4>2, OpeningFirst
      <3>3. CASE request_type # "UNKNOWN"
        <4>1. request_type = "WEBSOCKET"
          BY <3>1, <3>3 DEF RequestType
        <4>2. buf = rcvd
          BY <2>2, <4>1 DEF OpeningOf
        <4> QED BY <1>1, <2>2, <3>1, <4>1, <4>2, OpeningLater
      <3> QED BY <3>2, <3>3
    <2>8. CASE ReadFrames(hi)
      <3>1. /\ request_type = "WEBSOCKET" /\ request_type' = "WEBSOCKET"
            /\ handshake # "no" /\ handshake' = handshake /\ buf' = hi
        BY <2>8 DEF ReadFrames
      <3>2. buf = rcvd
        BY <2>2, <3>1 DEF OpeningOf
      <3> QED BY <1>1, <2>2, <3>1, <3>2, OpeningLater
    <2> QED BY <2>5, <2>6, <2>7, <2>8 DEF Read
  <1> QED BY <1>2, <1>3

LEMMA OpeningNext ==
    ASSUME FrameInv, Opening, [Next]_vars
    PROVE  Opening'
  <1>1. CASE \E hi \in Cuts : Read(hi)
    BY <1>1, OpeningRead
  <1>2. CASE UNCHANGED <<request, frames, down, cuts, rcvd, request_type, handshake, buf>>
    BY <1>2, OpeningUnfoldNext DEF Opening
  <1>3. CASE \E n \in Lengths : Push(n)
    <2>1. PICK d : /\ down' = Append(down, d) /\ cuts' = {} /\ request' = request
      BY <1>3 DEF Push
    <2>2. down' # <<>>
      BY <1>3, <2>1 DEF FrameInv, Typed
    <2> QED BY <2>1, <2>2, OpeningUnfoldNext
  <1>4. CASE \E f \in ClientFrames : ClientSend(f)
    <2>1. cuts' = {} /\ request' = request
      BY <1>4 DEF ClientSend
    <2>2. frames' # <<>>
      BY <1>4, SendFacts
    <2> QED BY <2>1, <2>2, OpeningUnfoldNext
  <1>5. \/ \E hi \in Cuts : Read(hi)
        \/ UNCHANGED <<request, frames, down, cuts, rcvd, request_type, handshake, buf>>
        \/ \E n \in Lengths : Push(n)
        \/ \E f \in ClientFrames : ClientSend(f)
    BY DEF Next, vars, Wait, CutFrame, RunTask
  <1> QED BY <1>1, <1>2, <1>3, <1>4, <1>5

(* Opening gives OpensExactlyWhen: the last read does not end after a      *)
(* colon, so some read has decided, and at most one held the key.          *)
LEMMA OpensFromInv ==
    ASSUME FrameInv, Opening
    PROVE  OpensExactlyWhen
  <1> SUFFICES ASSUME rcvd = RequestEnd, RequestEnd \in cuts
               PROVE  OpensExactlyWhen
    BY DEF OpensExactlyWhen
  <1>1. request \in Requests /\ cuts \in SUBSET Nat
    BY DEF FrameInv, Typed
  <1>2. OpeningOf(cuts, rcvd, request_type, handshake, buf)
    BY DEF Opening
  <1>3. request_type \in {"HTTP", "WEBSOCKET"}
    <2>1. ~ParseThrows(RequestEnd)
      BY <1>1, EndNoColon
    <2> QED BY <1>2, <2>1 DEF OpeningOf, FrameInv, Typed
  <1>4. PICK c \in cuts : Decides(cuts, c) /\ (isWebSocketRequest(c) <=> request_type = "WEBSOCKET")
    BY <1>2, <1>3 DEF OpeningOf
  <1> DEFINE deciding == {d \in cuts : ~ParseThrows(d)}
             seen == {d \in deciding : \A e \in deciding : d <= e}
             key(a, b) ==
                /\ a < After("Sec-WebSocket-Key", "name")
                /\ \/ b = After("Sec-WebSocket-Key", "rest")
                   \/ b >= After("Sec-WebSocket-Key", "lf")
             consecutive(a, b) == a < b /\ \A d \in cuts : d <= a \/ d >= b
             from == {d \in cuts : \E e \in seen : d >= e}
  <1>5. seen = {c}
    <2>1. c \in seen
      BY <1>4 DEF Decides
    <2>2. \A d \in seen : Decides(cuts, d)
      BY DEF Decides
    <2>3. \A d \in seen : d = c
      BY <1>1, <1>4, <2>2, DecidesOnce
    <2> QED BY <2>1, <2>3
  <1>6. from = {d \in cuts : d >= c}
    BY <1>5
  <1>7. \A a, b \in Nat : key(a, b) <=> HandshakeKey(a, b) = "whole"
    <2> SUFFICES ASSUME NEW a \in Nat, NEW b \in Nat
                 PROVE  key(a, b) <=> HandshakeKey(a, b) = "whole"
      OBVIOUS
    <2>1. PICK n \in Nat, s \in Nat, r \in Nat, l \in Nat :
             /\ n = After("Sec-WebSocket-Key", "name") /\ s = After("Sec-WebSocket-Key", "space")
             /\ r = After("Sec-WebSocket-Key", "rest") /\ l = After("Sec-WebSocket-Key", "lf")
             /\ s < r /\ r < l
      BY <1>1, KeyPlaces
    <2>2. HandshakeKey(a, b) = "whole" <=> a < n /\ s <= b /\ (b = r \/ l <= b)
      BY <2>1, KeyFound
    <2>3. key(a, b) <=> a < n /\ (b = r \/ b >= l)
      BY <2>1
    <2> QED BY <2>1, <2>2, <2>3
  <1>8. \A a, b \in Nat :
           Looked(cuts, a, b) <=> \/ a = 0 /\ b = c
                                  \/ a \in from /\ b \in from /\ consecutive(a, b)
    <2> SUFFICES ASSUME NEW a \in Nat, NEW b \in Nat
                 PROVE  Looked(cuts, a, b) <=> \/ a = 0 /\ b = c
                                               \/ a \in from /\ b \in from /\ consecutive(a, b)
      OBVIOUS
    <2>1. \A d \in cuts : Decides(cuts, d) <=> d = c
      BY <1>1, <1>4, DecidesOnce
    <2>2. Looked(cuts, a, b) <=> \/ a = 0 /\ b = c
                                 \/ /\ a \in cuts /\ b \in cuts /\ c <= a /\ a < b
                                    /\ \A d \in cuts : d <= a \/ d >= b
      BY <1>4, <2>1 DEF Looked
    <2>3. c \in Nat
      BY <1>1
    <2>4. (a \in from /\ b \in from /\ consecutive(a, b)) <=>
              /\ a \in cuts /\ b \in cuts /\ c <= a /\ a < b
              /\ \A d \in cuts : d <= a \/ d >= b
      BY <1>6, <2>3
    <2> QED BY <2>2, <2>4
  <1>9. (\E a, b \in Nat : Looked(cuts, a, b) /\ HandshakeKey(a, b) = "whole") <=>
           \/ \E d \in seen : key(0, d)
           \/ \E a, b \in from : consecutive(a, b) /\ key(a, b)
    <2>1. c \in Nat /\ from \subseteq Nat /\ 0 \in Nat
      BY <1>1
    <2> HIDE DEF key, consecutive, from, seen
    <2>2. (\E d \in seen : key(0, d)) <=> key(0, c)
      BY <1>5
    <2> QED BY <1>7, <1>8, <2>1, <2>2
  <1>10. (handshake = "whole") <=>
             /\ isWebSocketRequest(c)
             /\ \E a, b \in Nat : Looked(cuts, a, b) /\ HandshakeKey(a, b) = "whole"
    <2>1. ASSUME handshake = "whole"
          PROVE  /\ isWebSocketRequest(c)
                 /\ \E a, b \in Nat : Looked(cuts, a, b) /\ HandshakeKey(a, b) = "whole"
      <3>1. request_type = "WEBSOCKET"
        BY <2>1 DEF FrameInv, Uncut
      <3> QED BY <1>2, <1>4, <2>1, <3>1 DEF OpeningOf
    <2>2. ASSUME isWebSocketRequest(c),
                 \E a, b \in Nat : Looked(cuts, a, b) /\ HandshakeKey(a, b) = "whole"
          PROVE  handshake = "whole"
      <3>1. request_type = "WEBSOCKET"
        BY <1>4, <2>2
      <3>2. PICK a \in Nat, b \in Nat : Looked(cuts, a, b) /\ HandshakeKey(a, b) = "whole"
        BY <2>2
      <3>3. handshake # "no"
        BY <1>2, <3>1, <3>2 DEF OpeningOf
      <3>4. PICK e \in Nat, g \in Nat : Looked(cuts, e, g) /\ HandshakeKey(e, g) = handshake
        BY <1>2, <3>1, <3>3 DEF OpeningOf
      <3>5. a = e /\ b = g
        BY <1>1, <3>2, <3>3, <3>4, KeyOnce
      <3> QED BY <3>2, <3>4, <3>5
    <2> QED BY <2>1, <2>2
  <1>11. (\A d \in seen : isWebSocketRequest(d)) <=> isWebSocketRequest(c)
    BY <1>5
  <1>12. (handshake = "whole") <=>
              /\ \A d \in seen : isWebSocketRequest(d)
              /\ \/ \E d \in seen : key(0, d)
                 \/ \E a, b \in from : consecutive(a, b) /\ key(a, b)
    BY <1>9, <1>10, <1>11
  <1> QED BY <1>12 DEF OpensExactlyWhen

(* Whatever the lines of the upgrade request and wherever its reads end:   *)
(* the browser gets an answer to its key exactly when the deciding read    *)
(* held the Upgrade and Connection lines and one read held the key.        *)
THEOREM OpensExactly == Spec => []OpensExactlyWhen
  <1>1. Init => Opening
    BY DEF Init, Opening, OpeningOf
  <1>2. FrameInv /\ Opening /\ [Next]_vars => Opening'
    BY OpeningNext
  <1>3. FrameInv /\ Opening => OpensExactlyWhen
    BY OpensFromInv
  <1> QED BY <1>1, <1>2, <1>3, FramesSound, PTL DEF Spec

-----------------------------------------------------------------------------
(* The type invariant. *)

Bounded ==
    /\ buf <= rcvd /\ base <= RequestEnd
    /\ incomplete[1] <= incomplete[2] /\ incomplete[2] <= rcvd

LEMMA BoundedNext ==
    ASSUME FrameInv, Bounded, [Next]_vars
    PROVE  Bounded'
  <1>0. FrameInv'
    BY FrameNext
  <1>1. request' = request /\ RequestEnd' = RequestEnd
    BY DEF Next, vars, Read, ReadThrows, ReadHttp, ReadHandshake, ReadFrames, Wait, CutFrame,
           RunTask, Push, ClientSend, RequestEnd
  <1>2. rcvd \in Nat /\ buf \in Nat /\ incomplete[1] \in Nat /\ incomplete[2] \in Nat
    BY DEF FrameInv, Typed
  <1>3. CASE \E hi \in Cuts : Read(hi)
    <2>1. PICK hi \in Cuts : Read(hi)
      BY <1>3
    <2>2. Arrive(hi)
      BY <2>1 DEF Read, ReadThrows, ReadHttp, ReadHandshake, ReadFrames
    <2>3. hi \in Nat /\ rcvd < hi /\ rcvd' = hi /\ (handshake # "whole" => hi <= RequestEnd)
      BY <2>2, ArriveFacts DEF FrameInv
    <2>4. CASE ReadThrows(hi) \/ ReadHttp(hi)
      <3>1. UNCHANGED <<buf, base, incomplete>>
        BY <2>4 DEF ReadThrows, ReadHttp
      <3> QED BY <1>1, <1>2, <2>3, <3>1 DEF Bounded
    <2>5. CASE ReadHandshake(hi)
      <3>1. buf' = hi /\ base' = hi /\ incomplete' = <<hi, hi>> /\ handshake = "no"
        BY <2>5 DEF ReadHandshake
      <3> QED BY <1>1, <2>3, <3>1 DEF Bounded
    <2>6. CASE ReadFrames(hi)
      <3>1. buf' = hi /\ base' = base /\ incomplete' = <<incomplete[1], hi>>
        BY <2>6 DEF ReadFrames
      <3> QED BY <1>1, <1>2, <2>3, <3>1 DEF Bounded
    <2> QED BY <2>1, <2>4, <2>5, <2>6 DEF Read
  <1>4. CASE CutFrame
    <2>1. UNCHANGED <<buf, rcvd, base, handshake>> /\ handshake # "no" /\ base = RequestEnd
      BY <1>4, InLoop DEF CutFrame
    <2>2. PICK m : /\ incomplete' = <<FrameEnd(m)', rcvd'>> /\ FrameEnd(m)' <= rcvd'
      BY <1>0, <1>1, <2>1 DEF FrameInv, Cutting
    <2>3. incomplete'[1] <= incomplete'[2] /\ incomplete'[2] <= rcvd'
      BY <1>2, <2>1, <2>2
    <2> QED BY <1>1, <2>1, <2>3 DEF Bounded
  <1>5. CASE UNCHANGED <<buf, rcvd, base, incomplete>>
    BY <1>1, <1>5 DEF Bounded
  <1>6. \/ \E hi \in Cuts : Read(hi)
        \/ CutFrame
        \/ UNCHANGED <<buf, rcvd, base, incomplete>>
    BY DEF Next, vars, Wait, RunTask, Push, ClientSend
  <1> QED BY <1>3, <1>4, <1>5, <1>6

LEMMA TypeFromInv ==
    ASSUME FrameInv, Bounded
    PROVE  TypeOK
  <1>1. /\ Typed /\ RequestEnd \in Nat /\ StreamEnd \in Nat /\ rcvd <= StreamEnd
    <2>1. Len(frames) \in Nat
      BY DEF FrameInv, Typed
    <2>2. StreamEnd \in Nat
      BY <2>1, EndIsNat DEF FrameInv, StreamEnd
    <2> QED BY <2>2, RequestLines DEF FrameInv, Typed, Stream, RequestEnd
  <1>2. \A i \in 1..Len(frames) : frames[i].frame \in ClientFrames
    BY FrameFields DEF FrameInv
  <1>3. ASSUME NEW i \in 1..Len(tasks)
        PROVE  tasks[i][1] < tasks[i][2] /\ tasks[i][2] <= rcvd
    <2>1. tasks # <<>> /\ Len(tasks) \in Nat /\ Len(handled) \in Nat /\ Len(frames) \in Nat /\ rcvd \in Nat
      BY <1>1 DEF Typed
    <2>2. handshake # "no" /\ base = RequestEnd
      BY <2>1 DEF FrameInv, Uncut
    <2>3. PICK m : m = Len(handled) + Len(tasks)
      OBVIOUS
    <2>4. /\ tasks[i] = <<FrameEnd(Len(handled) + i - 1), FrameEnd(Len(handled) + i)>>
          /\ m <= Len(frames) /\ FrameEnd(m) <= rcvd
      BY <2>2, <2>3 DEF FrameInv, Cutting
    <2>5. PICK a \in 0..Len(frames), b \in 0..Len(frames) :
             a = Len(handled) + i - 1 /\ b = Len(handled) + i /\ a < b /\ b <= m /\ m \in 0..Len(frames)
      BY <2>1, <2>3, <2>4
    <2>6. FrameEnd(a) \in Nat /\ FrameEnd(b) \in Nat /\ FrameEnd(a) + 6 <= FrameEnd(b)
      BY <2>5, EndsGrow DEF FrameInv
    <2>7. FrameEnd(b) <= rcvd
      <3>1. CASE b = m
        BY <2>4, <3>1
      <3>2. CASE b # m
        <4>1. b < m
          BY <2>5, <3>2
        <4>2. FrameEnd(m) \in Nat /\ FrameEnd(b) + 6 <= FrameEnd(m)
          BY <2>5, <4>1, EndsGrow DEF FrameInv
        <4> QED BY <2>1, <2>4, <2>6, <4>2
      <3> QED BY <3>1, <3>2
    <2>8. tasks[i][1] = FrameEnd(a) /\ tasks[i][2] = FrameEnd(b)
      BY <2>4, <2>5
    <2> QED BY <2>6, <2>7, <2>8
  <1>4. /\ rcvd \in 0..StreamEnd /\ buf \in 0..rcvd /\ base \in 0..RequestEnd
        /\ 0 <= incomplete[1] /\ incomplete[1] <= incomplete[2] /\ incomplete[2] <= rcvd
    BY <1>1 DEF Typed, Bounded
  <1> QED BY <1>1, <1>2, <1>3, <1>4 DEF Typed, TypeOK

(* For every request, length and cut, every slice stays within the stream  *)
(* and what was read is never behind what was taken from the buffers.      *)
THEOREM TypesHold == Spec => []TypeOK
  <1>1. Init => Bounded
    <2> SUFFICES ASSUME Init PROVE Bounded
      OBVIOUS
    <2>1. RequestEnd \in Nat
      BY RequestLines DEF Init, RequestEnd
    <2> QED BY <2>1 DEF Init, Bounded
  <1>2. FrameInv /\ Bounded /\ [Next]_vars => Bounded'
    BY BoundedNext
  <1>3. FrameInv /\ Bounded => TypeOK
    BY TypeFromInv
  <1> QED BY <1>1, <1>2, <1>3, FramesSound, PTL DEF Spec
=============================================================================
