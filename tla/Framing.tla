------------------------------ MODULE Framing ------------------------------
(***************************************************************************)
(* How comet reads one connection: HttpHandler decides from the first read *)
(* what it is, CHttpConn answers an API request, CWebSocketConn answers    *)
(* the upgrade request and then cuts the byte stream into frames, which    *)
(* the pool parses.  TCP may end a read anywhere.                          *)
(*                                                                         *)
(* The stream has positions.  The request is a sequence of units (the      *)
(* pieces of a header line between which a cut makes a difference); it is  *)
(* followed by the bytes of the frames.  A buffer is a slice <<lo, hi>>:   *)
(* the positions lo + 1 .. hi.  Of a frame only the header bytes have a    *)
(* value; masking key and payload are known by where they lie.             *)
(***************************************************************************)
EXTENDS Integers, Sequences, SequencesExt, FiniteSets

CONSTANTS
    UpgradeRequest,     \* the lines of a browser's upgrade request
    ApiRequest,         \* the lines of an API request
    Lengths,            \* payload lengths
    MaxSplits,          \* bound: reads that end inside the request
    MaxFrames,          \* bound: frames the client sends
    MaxPushes           \* bound: frames the server sends

HeaderLines == {"Upgrade", "Connection", "Cookie", "Sec-WebSocket-Key", "Other"}

(* n, n >> 8, ..., n >> 56, the last first. *)
Shifted(n) ==
    LET q1 == n \div 256
        q2 == q1 \div 256
        q3 == q2 \div 256
        q4 == q3 \div 256
        q5 == q4 \div 256
        q6 == q5 \div 256
        q7 == q6 \div 256
    IN <<q7, q6, q5, q4, q3, q2, q1, n>>

(* A length has at most 63 bits, the most that RFC 6455 allows.            *)
ASSUME FramingAssumption ==
    /\ \A r \in {UpgradeRequest, ApiRequest} :
          /\ r \in Seq(HeaderLines \cup {"request", "blank", "body"}) \ {<<>>}
          /\ Cardinality(ToSet(r)) = Len(r)
    /\ {"Upgrade", "Connection", "Sec-WebSocket-Key"} \subseteq ToSet(UpgradeRequest)
    /\ "Upgrade" \notin ToSet(ApiRequest)
    /\ Lengths \subseteq Nat
    /\ \A n \in Lengths : Shifted(n)[1] < 128
    /\ {MaxSplits, MaxFrames, MaxPushes} \subseteq Nat

VARIABLES
    request,        \* the lines of this connection's request
    frames,         \* the frames the client has sent and where they lie:
                    \* [frame : [fin, opcode, len], header, start, end]
    rcvd,           \* how much of the stream was read from the socket
    cuts,           \* where the reads of the request ended; forgotten when
                    \* the connection is in use
    buf,            \* TcpConnection::inputBuffer_ is <<buf, rcvd>>
    request_type,   \* HttpHandler::request_type_
    calls,          \* how often CHttpConn handled the API request
    handshake,      \* handshake_completed, and the key the 101 answers
    base,           \* how much was read when the 101 was sent
    incomplete,     \* incomplete_frame_buffer, a slice
    loop,           \* whether OnRead is in its while loop
    tasks,          \* frame_data of the tasks in the pool
    handled,        \* what the tasks made of their frames
    down            \* the frames the server has built: [bytes, len]

vars == <<request, frames, rcvd, cuts, buf, request_type, calls, handshake,
          base, incomplete, loop, tasks, handled, down>>

-----------------------------------------------------------------------------
(* The stream a client sends. *)

(* A line is cut into units: text, "\r" and "\n"; of a header line the     *)
(* name, the colon, the space, the value without its last character, that  *)
(* character, "\r" and "\n".                                               *)
Units(line) ==
    CASE line = "request"          -> 3
      [] line \in {"blank", "body"} -> 2
      [] OTHER                     -> 7

Place == [name |-> 1, colon |-> 2, space |-> 3, value |-> 4, rest |-> 5, cr |-> 6, lf |-> 7]

Requests == {UpgradeRequest, ApiRequest}

(* Line i of a request has the positions that follow LineRoom * (i - 1).   *)
LineRoom == 7

Ends == [r \in Requests |-> LineRoom * (Len(r) - 1) + Units(r[Len(r)])]

RequestEnd == Ends[request]

RequestCuts == [r \in Requests |->
    UNION {{LineRoom * (i - 1) + j : j \in 1..Units(r[i])} : i \in 1..Len(r)}]

(* Where a line starts: past the request if it has no such line. *)
LineStart == [r \in Requests |-> [line \in HeaderLines |->
    LET at == {i \in 1..Len(r) : r[i] = line}
    IN IF at = {} THEN Ends[r] ELSE LineRoom * ((CHOOSE i \in at : TRUE) - 1)]]

(* The position just after a unit of a line. *)
After(line, part) == LineStart[request][line] + Place[part]

(* The last bytes of n, and the number that 2 or 8 bytes are.              *)
BigEndian(n, width) == [k \in 1..width |-> Shifted(n)[8 - width + k] % 256]

Number(b) ==
    CASE Len(b) = 2 -> b[1] * 256 + b[2]
      [] Len(b) = 8 -> ((((((b[1] * 256 + b[2]) * 256 + b[3]) * 256 + b[4]) * 256 + b[5])
                            * 256 + b[6]) * 256 + b[7]) * 256 + b[8]

(* A browser masks what it sends and uses the shortest length.             *)
ClientHeader(f) ==
    <<f.opcode + IF f.fin THEN 128 ELSE 0>> \o
    CASE f.len <= 125                  -> <<128 + f.len>>
      [] f.len > 125 /\ f.len <= 65535 -> <<128 + 126>> \o BigEndian(f.len, 2)
      [] f.len > 65535                 -> <<128 + 127>> \o BigEndian(f.len, 8)

(* FrameEnd(i) is the position after the i-th frame. *)
FrameEnd(i) == IF i = 0 THEN RequestEnd ELSE frames[i].end

StreamEnd == FrameEnd(Len(frames))

(* The byte at position p: a header byte, or a byte of no account (0). *)
Byte(p) ==
    LET at == {i \in 1..Len(frames) :
                  frames[i].start < p /\ p <= frames[i].start + Len(frames[i].header)}
    IN IF at = {} THEN 0
       ELSE LET i == CHOOSE i \in at : TRUE IN frames[i].header[p - frames[i].start]

(* Where a read may end: anywhere in the request, in a frame's header or   *)
(* key or just before its payload ends, and between frames.                *)
Cuts == RequestCuts[request] \cup
        UNION {{f.start + k : k \in 1..14} \cup {f.end - 1, f.end} : f \in ToSet(frames)}

-----------------------------------------------------------------------------
(* HttpHandler *)

(* parseHttpHeaders on the first hi positions of the request.  It takes    *)
(* the last character of a line to be '\r', so that a value whose line was *)
(* cut before loses a character.                                           *)
HeaderValue(line, hi) ==
    CASE hi < After(line, "colon")                             -> "none"
      [] After(line, "colon") <= hi /\ hi < After(line, "value") -> "empty"
      [] After(line, "value") <= hi /\ hi < After(line, "cr")    -> "cut"
      [] After(line, "cr") <= hi                                 -> "whole"

(* value = line.substr(colon + 2) of a line that ends with the colon.      *)
ParseThrows(hi) == \E line \in HeaderLines : hi = After(line, "colon")

isWebSocketRequest(hi) ==
    /\ HeaderValue("Upgrade", hi) = "whole"
    /\ HeaderValue("Connection", hi) = "whole"

RequestType(hi) ==
    CASE request_type # "UNKNOWN"                             -> request_type
      [] request_type = "UNKNOWN" /\ isWebSocketRequest(hi)   -> "WEBSOCKET"
      [] request_type = "UNKNOWN" /\ ~isWebSocketRequest(hi)  -> "HTTP"

(* A read ends at hi.  A browser sends frames once the 101 answered its    *)
(* key.                                                                    *)
Arrive(hi) ==
    /\ loop = "idle"
    /\ rcvd < hi
    /\ hi <= IF handshake = "whole" THEN StreamEnd ELSE RequestEnd
    /\ rcvd' = hi
    /\ cuts' = IF hi <= RequestEnd /\ frames = <<>> /\ down = <<>>
               THEN cuts \cup {hi} ELSE cuts
    /\ hi < RequestEnd => Cardinality(cuts) < MaxSplits

(* parseHttpHeaders throws, onMessage catches, the buffer keeps its data.  *)
ReadThrows(hi) ==
    /\ Arrive(hi)
    /\ request_type = "UNKNOWN"
    /\ ParseThrows(hi)
    /\ UNCHANGED <<request, frames, buf, request_type, calls, handshake, base,
                   incomplete, loop, tasks, handled, down>>

(* Seeded fault: what an incomplete parse has seen is taken from the       *)
(* buffer.                                                                 *)
ReadHttp_Retrieves(hi) ==
    /\ Arrive(hi)
    /\ request_type = "UNKNOWN" => ~ParseThrows(hi)
    /\ RequestType(hi) = "HTTP"
    /\ request_type' = "HTTP"
    /\ calls' = IF buf = 0 /\ hi = RequestEnd THEN calls + 1 ELSE calls
    /\ buf' = hi
    /\ UNCHANGED <<request, frames, handshake, base, incomplete, loop,
                   tasks, handled, down>>

(* CHttpConn::OnRead parses the buffer from its beginning every time and   *)
(* takes nothing from it; it acts when the message is complete.            *)
ReadHttp(hi) ==
    /\ Arrive(hi)
    /\ request_type = "UNKNOWN" => ~ParseThrows(hi)
    /\ RequestType(hi) = "HTTP"
    /\ request_type' = "HTTP"
    /\ calls' = IF buf = 0 /\ hi = RequestEnd THEN calls + 1 ELSE calls
    /\ UNCHANGED <<request, frames, buf, handshake, base, incomplete, loop,
                   tasks, handled, down>>

(* Seeded fault: a key must be followed by the end of its line. *)
HandshakeKey_WithEol(lo, hi) ==
    LET found == /\ lo < After("Sec-WebSocket-Key", "name")
                 /\ After("Sec-WebSocket-Key", "lf") <= hi
    IN IF found THEN "whole" ELSE "no"

(* The key of "Sec-WebSocket-Key: " in the positions lo + 1 .. hi: it ends *)
(* at "\r\n" or, without one, at the end of the data.                      *)
HandshakeKey(lo, hi) ==
    LET name == After("Sec-WebSocket-Key", "name")
        found == lo < name /\ After("Sec-WebSocket-Key", "space") <= hi
        whole == \/ hi = After("Sec-WebSocket-Key", "rest")
                 \/ After("Sec-WebSocket-Key", "lf") <= hi
    IN CASE ~found           -> "no"
         [] found /\ whole   -> "whole"
         [] found /\ ~whole  -> "cut"

(* CWebSocketConn::OnRead before the handshake empties the buffer, whether *)
(* it finds the key or not.                                                *)
ReadHandshake(hi) ==
    /\ Arrive(hi)
    /\ request_type = "UNKNOWN" => ~ParseThrows(hi)
    /\ RequestType(hi) = "WEBSOCKET"
    /\ handshake = "no"
    /\ request_type' = "WEBSOCKET"
    /\ handshake' = HandshakeKey(buf, hi)
    /\ buf' = hi
    /\ base' = hi
    /\ incomplete' = <<hi, hi>>
    /\ UNCHANGED <<request, frames, calls, loop, tasks, handled, down>>

-----------------------------------------------------------------------------
(* CWebSocketConn::OnRead after the handshake *)

(* If the 101 was sent before the whole request was read, the rest of the  *)
(* request is taken for frames; nothing is said of such a connection.      *)
ReadFrames(hi) ==
    /\ Arrive(hi)
    /\ request_type = "WEBSOCKET"
    /\ handshake # "no"
    /\ incomplete' = <<incomplete[1], hi>>
    /\ buf' = hi
    /\ loop' = IF base = RequestEnd THEN "cutting" ELSE "misaligned"
    /\ UNCHANGED <<request, frames, request_type, calls, handshake, base,
                   tasks, handled, down>>

(* What OnRead works out from the slice before it cuts: how many bytes it  *)
(* needs to know the length, and the length of the frame.                  *)
LengthBytes(lo) ==
    LET payload_len == Byte(lo + 2) % 128 IN
    CASE payload_len = 126 -> 4 [] payload_len = 127 -> 10 [] OTHER -> 2

TotalFrameLength(lo) ==
    LET mask == IF Byte(lo + 2) >= 128 THEN 4 ELSE 0
        n == LengthBytes(lo)
        payload_len == IF n = 2 THEN Byte(lo + 2) % 128 ELSE Number([k \in 1..(n - 2) |-> Byte(lo + 2 + k)])
    IN n + mask + payload_len

(* There is not enough data for the header, for the length or for the      *)
(* whole frame: return, and wait for more.                                 *)
MustWait(lo, hi) ==
    \/ hi - lo < 2
    \/ hi - lo < LengthBytes(lo)
    \/ hi - lo < TotalFrameLength(lo)

Wait ==
    /\ loop = "cutting"
    /\ MustWait(incomplete[1], incomplete[2])
    /\ loop' = "idle"
    /\ UNCHANGED <<request, frames, rcvd, cuts, buf, request_type, calls,
                   handshake, base, incomplete, tasks, handled, down>>

(* Seeded fault: one frame per read. *)
CutFrame_Once ==
    LET lo == incomplete[1]
        end == lo + TotalFrameLength(lo)
    IN /\ loop = "cutting"
       /\ ~MustWait(lo, incomplete[2])
       /\ tasks' = Append(tasks, <<lo, end>>)
       /\ incomplete' = <<end, incomplete[2]>>
       /\ loop' = "idle"
       /\ UNCHANGED <<request, frames, rcvd, cuts, buf, request_type, calls,
                      handshake, base, handled, down>>

CutFrame ==
    LET lo == incomplete[1]
        end == lo + TotalFrameLength(lo)
    IN /\ loop = "cutting"
       /\ ~MustWait(lo, incomplete[2])
       /\ tasks' = Append(tasks, <<lo, end>>)
       /\ incomplete' = <<end, incomplete[2]>>
       /\ UNCHANGED <<request, frames, rcvd, cuts, buf, request_type, calls,
                      handshake, base, loop, handled, down>>

(* Seeded fault: the extended length is not skipped. *)
ParseWebSocketFrame_KeyFirst(data) ==
    LET lo == data[1]
        mask == Byte(lo + 2) >= 128
    IN [fin     |-> Byte(lo + 1) >= 128,
        opcode  |-> Byte(lo + 1) % 16,
        key     |-> IF mask THEN lo + 2 ELSE 0,
        payload |-> <<IF mask THEN lo + 6 ELSE lo + 2, data[2]>>]

(* ParseWebSocketFrame on a slice: the payload is what follows the header, *)
(* unmasked with the four bytes that begin after position key.             *)
ParseWebSocketFrame(data) ==
    LET lo == data[1]
        length == Byte(lo + 2) % 128
        offset == 2 + CASE length = 126 -> 2 [] length = 127 -> 8 [] OTHER -> 0
        mask == Byte(lo + 2) >= 128
    IN [fin     |-> Byte(lo + 1) >= 128,
        opcode  |-> Byte(lo + 1) % 16,
        key     |-> IF mask THEN lo + offset ELSE 0,
        payload |-> <<IF mask THEN lo + offset + 4 ELSE lo + offset, data[2]>>]

(* What the task does with a frame: a text frame is parsed as JSON (a      *)
(* fragment is not), a close frame disconnects, others are dropped.        *)
Effect(frame) ==
    CASE frame.opcode = 1 /\ frame.fin  -> "request"
      [] frame.opcode = 1 /\ ~frame.fin -> "not json"
      [] frame.opcode = 8               -> "disconnect"
      [] OTHER                          -> "nothing"

RunTask ==
    /\ tasks # <<>>
    /\ LET frame == ParseWebSocketFrame(Head(tasks))
       IN handled' = Append(handled, [frame |-> frame, effect |-> Effect(frame)])
    /\ tasks' = Tail(tasks)
    /\ UNCHANGED <<request, frames, rcvd, cuts, buf, request_type, calls,
                   handshake, base, incomplete, loop, down>>

-----------------------------------------------------------------------------
(* Seeded fault: 126, the escape, is used as a length. *)
BuildWebSocketFrame_Below126(payload_length, opcode) ==
    <<128 + (opcode % 16)>> \o
    CASE payload_length <= 126 -> <<payload_length>>
      [] payload_length > 126 /\ payload_length <= 65535 ->
            <<126>> \o BigEndian(payload_length, 2)
      [] payload_length > 65535 -> <<127>> \o BigEndian(payload_length, 8)

(* The header of a frame the server sends. *)
BuildWebSocketFrame(payload_length, opcode) ==
    <<128 + (opcode % 16)>> \o
    CASE payload_length <= 125 -> <<payload_length>>
      [] payload_length > 125 /\ payload_length <= 65535 ->
            <<126>> \o BigEndian(payload_length, 2)
      [] payload_length > 65535 -> <<127>> \o BigEndian(payload_length, 8)

Push(n) ==
    /\ handshake = "whole"
    /\ Len(down) < MaxPushes
    /\ down' = Append(down, [bytes |-> BuildWebSocketFrame(n, 1), len |-> n])
    /\ cuts' = {}
    /\ UNCHANGED <<request, frames, rcvd, buf, request_type, calls,
                   handshake, base, incomplete, loop, tasks, handled>>

(* The client sends a message, or a fragment of one (a browser may), or    *)
(* closes.                                                                 *)
ClientFrames ==
    [fin : {TRUE}, opcode : {1}, len : Lengths] \cup
    {[fin |-> FALSE, opcode |-> 1, len |-> 1], [fin |-> TRUE, opcode |-> 0, len |-> 1],
     [fin |-> TRUE, opcode |-> 8, len |-> 2]}

ClientSend(f) ==
    /\ handshake = "whole"
    /\ Len(frames) < MaxFrames
    /\ Len(frames) > 0 => frames[Len(frames)].frame.opcode # 8
    /\ LET header == ClientHeader(f)
       IN frames' = Append(frames, [frame |-> f, header |-> header, start |-> StreamEnd,
                                    end |-> StreamEnd + Len(header) + 4 + f.len])
    /\ cuts' = {}
    /\ UNCHANGED <<request, rcvd, buf, request_type, calls, handshake,
                   base, incomplete, loop, tasks, handled, down>>

-----------------------------------------------------------------------------
Init ==
    /\ request \in Requests
    /\ frames = <<>>
    /\ rcvd = 0
    /\ cuts = {}
    /\ buf = 0
    /\ request_type = "UNKNOWN"
    /\ calls = 0
    /\ handshake = "no"
    /\ base = 0
    /\ incomplete = <<0, 0>>
    /\ loop = "idle"
    /\ tasks = <<>>
    /\ handled = <<>>
    /\ down = <<>>

Read(hi) ==
    ReadThrows(hi) \/ ReadHttp(hi) \/ ReadHandshake(hi) \/ ReadFrames(hi)

Next ==
    \/ \E hi \in Cuts : Read(hi)
    \/ Wait
    \/ CutFrame
    \/ RunTask
    \/ \E n \in Lengths : Push(n)
    \/ \E f \in ClientFrames : ClientSend(f)

Spec == Init /\ [][Next]_vars

-----------------------------------------------------------------------------
(* Properties *)

(* Every slice stays within the stream, and what was read is never behind  *)
(* what was taken from the buffers.                                        *)
TypeOK ==
    /\ request \in Requests
    /\ \A i \in 1..Len(frames) : frames[i].frame \in ClientFrames
    /\ rcvd \in 0..StreamEnd
    /\ cuts \subseteq 1..RequestEnd
    /\ buf \in 0..rcvd
    /\ request_type \in {"UNKNOWN", "HTTP", "WEBSOCKET"}
    /\ calls \in Nat
    /\ handshake \in {"no", "whole", "cut"}
    /\ base \in 0..RequestEnd
    /\ 0 <= incomplete[1] /\ incomplete[1] <= incomplete[2] /\ incomplete[2] <= rcvd
    /\ loop \in {"idle", "cutting", "misaligned"}
    /\ \A i \in 1..Len(tasks) : tasks[i][1] < tasks[i][2] /\ tasks[i][2] <= rcvd

(* Frames are cut exactly, however the stream is cut into reads: when      *)
(* OnRead has returned, every frame that has arrived whole was handed to   *)
(* the pool, once and in order, and incomplete_frame_buffer holds just the *)
(* beginning of the next.                                                  *)
FramesExact ==
    (loop = "idle" /\ handshake # "no" /\ base = RequestEnd) =>
        LET n == Cardinality({i \in 1..Len(frames) : FrameEnd(i) <= rcvd})
        IN /\ Len(handled) + Len(tasks) = n
           /\ \A i \in 1..Len(tasks) :
                 LET k == Len(handled) + i IN tasks[i] = <<FrameEnd(k - 1), FrameEnd(k)>>
           /\ incomplete = <<FrameEnd(n), rcvd>>

(* ParseWebSocketFrame, which works out the header a second time, agrees   *)
(* with the client: the payload is the one the client sent, unmasked with  *)
(* the client's key, and the frame is treated as what it is.               *)
ParsedAsSent ==
    \A i \in 1..Len(handled) :
        LET f == frames[i].frame
            start == frames[i].start + Len(frames[i].header)
        IN /\ handled[i].frame = [fin     |-> f.fin,
                                  opcode  |-> f.opcode,
                                  key     |-> start,
                                  payload |-> <<start + 4, start + 4 + f.len>>]
           /\ (handled[i].effect = "disconnect") <=> (f.opcode = 8)

(* How RFC 6455 has a client read the header of an unmasked frame: its     *)
(* size, and the length of the payload.                                    *)
HeaderSize(bytes) ==
    CASE bytes[2] = 126 -> 4 [] bytes[2] = 127 -> 10 [] OTHER -> 2
PayloadLength(bytes) ==
    IF Len(bytes) = 2 THEN bytes[2] ELSE Number(SubSeq(bytes, 3, Len(bytes)))

(* What BuildWebSocketFrame builds is read by the client as the payload    *)
(* that went in, at every length where the encoding changes, so the client *)
(* stays in step with the server's stream.                                 *)
BuiltReadable ==
    \A i \in 1..Len(down) :
        /\ down[i].bytes[1] = 128 + 1
        /\ HeaderSize(down[i].bytes) = Len(down[i].bytes)
        /\ PayloadLength(down[i].bytes) = down[i].len

(* An API request is forwarded to logic once, when its last byte is there, *)
(* however it arrives: the parser starts over on every read and the buffer *)
(* keeps what it was given.                                                *)
RequestForwardedOnce ==
    request = ApiRequest =>
        /\ request_type # "WEBSOCKET"
        /\ calls = IF rcvd = RequestEnd THEN 1 ELSE 0

(* What makes an upgrade succeed when its request arrives in pieces.  The  *)
(* first read that is not cut right after a colon decides, so it must hold *)
(* the Upgrade and the Connection line; a read must hold the key from the  *)
(* beginning of its line, and either all of the line or exactly up to the  *)
(* end of the value.  Nothing else makes the client open.                  *)
OpensExactlyWhen ==
    (request = UpgradeRequest /\ rcvd = RequestEnd /\ RequestEnd \in cuts) =>
        LET deciding == {c \in cuts : ~ParseThrows(c)}
            seen == {c \in deciding : \A d \in deciding : c <= d}
            key(a, b) ==
                /\ a < After("Sec-WebSocket-Key", "name")
                /\ \/ b = After("Sec-WebSocket-Key", "rest")
                   \/ b >= After("Sec-WebSocket-Key", "lf")
            consecutive(a, b) == a < b /\ \A c \in cuts : c <= a \/ c >= b
            from == {c \in cuts : \E d \in seen : c >= d}
        IN (handshake = "whole") <=>
              /\ \A c \in seen : isWebSocketRequest(c)
              /\ \/ \E c \in seen : key(0, c)
                 \/ \E a, b \in from : consecutive(a, b) /\ key(a, b)
=============================================================================
