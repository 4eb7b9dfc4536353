--------------------------- MODULE WebSocketStream --------------------------
(***************************************************************************)
(* One websocket connection from the opening handshake to the end:         *)
(* xwebsocket_server and xwebsocket_stream (xwebsocket_stream_impl.cpp:    *)
(* 602-976) over TcpStream.  The client is this library's, after connect   *)
(* or after async_connect, which makes no handshake, or another program    *)
(* that sends one of Requests and never reads a frame.                     *)
(*                                                                         *)
(* A frame is two parts, so that a read may get less than a frame, or      *)
(* more.  What a read makes of bytes that are not one frame is undefined   *)
(* or arbitrary: the model takes every outcome.  The bytes of the headers  *)
(* are the matter of WebSocketFrame.                                       *)
(***************************************************************************)
EXTENDS TcpStream, Handshake, WebSocketFrame

CONSTANTS
  Requests,   \* what other clients send
  Earlier,    \* the requests that earlier handshakes have read
  MaxFrames,  \* messages written, by both ends together (bound)
  Brief       \* the requests after which only one message is written (bound)

ASSUME MaxFramesAssumption == MaxFrames \in Nat
\* the length of a message is a uint32_t
ASSUME MessagesAssumption == MaskKeys # {} /\ \A n \in Lengths : IsUint32(n)
ASSUME EarlierAssumption == Earlier \subseteq Requests \cup {ConnectRequest}
ASSUME RequestsAssumption ==
  \A r \in Requests : r \in Seq(Range(r)) /\ \A l \in Range(r) : IsRequestLine(l)

VARIABLES
  client,     \* "connect", "async_connect" or "foreign"
  request,    \* the lines the client sends
  length,     \* the length of every message that carries data
  accepted,   \* how the accept ended: "pending", "returned", "threw", "silent", or "crashed"
  phase,      \* phase[e]: "start", "waiting", "open", "failed", or "gone" (terminated)
  frames,     \* frames[e]: the number of messages e has written
  sent, got,  \* the messages written and delivered
  reading,    \* reading[e]: "none", "sync", "async", or "hollow" (an empty function)
  calls,      \* calls[e]: how often the last async_read has called its callback (2: or more)
  failed,     \* failed[e]: the last read has reported an error
  whole       \* history: every read of e got exactly what was written in one piece

tcpVars == <<sock, wire>>
setupVars == <<client, request, length>>
streamVars == <<phase, frames, sent, got, reading, calls, failed, whole>>
vars == <<tcpVars, setupVars, accepted, streamVars>>

Ops == {"binary_frame", "ping", "connnection_close"}
Junk == 0

Init ==
  /\ TcpInit
  /\ client \in {"connect", "async_connect", "foreign"}
  /\ request \in CASE client = "connect" -> {ConnectRequest}
                   [] client = "async_connect" -> {<<>>}
                   [] OTHER -> Requests
  /\ length \in Lengths
  /\ accepted = "pending"
  /\ phase = [e \in Ends |-> "start"]
  /\ frames = [e \in Ends |-> 0]
  /\ sent = [e \in Ends |-> <<>>]
  /\ got = [e \in Ends |-> <<>>]
  /\ reading = [e \in Ends |-> "none"]
  /\ calls = [e \in Ends |-> 0]
  /\ failed = [e \in Ends |-> FALSE]
  /\ whole = [e \in Ends |-> TRUE]

-----------------------------------------------------------------------------
(* The opening handshake.                                                  *)

\* The arrays that the texts are read into are not initialised, and parse goes on behind
\* what was read: there may be the end of a text that an earlier handshake read.  Behind
\* a frame it is not looked at, as the request line that it would need is overwritten.
Behind(chunk, texts) ==
  IF \A i \in DOMAIN chunk : IsLine(chunk[i])
  THEN {<<>>} \cup UNION {{SubSeq(t, i, Len(t)) : i \in 2 .. Len(t)} : t \in texts}
  ELSE {<<>>}

\* connect up to its read, and what another client does
Connect ==
  /\ client # "async_connect" /\ phase["client"] = "start"
  /\ phase' = [phase EXCEPT !["client"] = "waiting"]
  /\ sock' = [sock EXCEPT !["client"] = "open"]
  /\ wire' \in Written("client", request)
  /\ UNCHANGED <<setupVars, accepted, frames, sent, got, reading, calls, failed, whole>>

\* async_connect is that of the TCP stream
AsyncConnect ==
  /\ client = "async_connect" /\ phase["client"] = "start"
  /\ phase' = [phase EXCEPT !["client"] = "open"]
  /\ sock' = [sock EXCEPT !["client"] = "open"]
  /\ UNCHANGED <<wire, setupVars, accepted, frames, sent, got, reading, calls, failed, whole>>

\* the rest of connect: one read, and the key in it is compared
ClientResponse(chunk) ==
  /\ client # "async_connect" /\ phase["client"] = "waiting"
  /\ \E tail \in Behind(chunk, {Response(LibraryKey), Response(<<>>)}) :
       /\ phase' = [phase EXCEPT !["client"] =
            IF client = "foreign" \/ Accepted(chunk \o tail) THEN "open" ELSE "failed"]
       /\ whole' = [whole EXCEPT !["client"] = chunk[Len(chunk)] = Blank /\ tail = <<>>]
  /\ wire' = Rest("client", chunk)
  /\ UNCHANGED <<sock, setupVars, accepted, frames, sent, got, reading, calls, failed>>

ConnectFails ==
  /\ phase["client"] = "waiting" /\ ReadFails("client")
  /\ phase' = [phase EXCEPT !["client"] = "failed"]
  /\ UNCHANGED <<tcpVars, setupVars, accepted, frames, sent, got, reading, calls, failed, whole>>

\* the TCP accept that comes before _handshake
TcpAccept ==
  /\ phase["server"] = "start" /\ sock["client"] # "none"
  /\ phase' = [phase EXCEPT !["server"] = "waiting"]
  /\ sock' = [sock EXCEPT !["server"] = "open"]
  /\ UNCHANGED <<wire, setupVars, accepted, frames, sent, got, reading, calls, failed, whole>>

\* The socket of a connection that is not accepted dies with its stream.
\* accept throws; async_accept sets the error and calls nobody.  A process that dies in
\* is_valid takes the connection along.
Reject(w) ==
  /\ phase' = [phase EXCEPT !["server"] = "failed"]
  /\ accepted' \in {"threw", "silent", "crashed"}
  /\ sock' = Shut("server")
  /\ wire' \in Dropped("server", w)
  /\ UNCHANGED <<frames, sent, got, reading, calls, failed>>

\* _handshake: one read, parse, is_valid, and the response
ServerHandshake(chunk) ==
  \E tail \in Behind(chunk, Earlier) :
    LET header == Parse(chunk \o tail)
        response == Response(header["sec_websocket_key"])
        rest == Rest("server", chunk)
    IN /\ phase["server"] = "waiting"
       /\ whole' = [whole EXCEPT !["server"] = chunk = request /\ tail = <<>>]
       /\ UNCHANGED setupVars
       /\ \/ /\ "valid" \in is_valid(header)
             /\ phase' = [phase EXCEPT !["server"] = "open"]
             /\ accepted' = "returned"
             /\ \E w \in Written("server", response) :
                  wire' = [rest EXCEPT !["client"] = w["client"]]
             /\ UNCHANGED <<sock, frames, sent, got, reading, calls, failed>>
          \/ /\ "invalid" \in is_valid(header) \/ WriteFails("server")
             /\ Reject(rest) /\ accepted' # "crashed"
          \/ /\ "crashed" \in is_valid(header)
             /\ Reject(rest) /\ accepted' = "crashed"

\* the read of _handshake fails
HandshakeFails ==
  /\ phase["server"] = "waiting" /\ ReadFails("server")
  /\ Reject(wire) /\ accepted' # "crashed"
  /\ UNCHANGED <<setupVars, whole>>

-----------------------------------------------------------------------------
(* Writing.                                                                *)

\* _convert_to_websocket_form leaves the mask out; another client masks
Header(e, len) == [fin |-> TRUE, use_mask |-> e = "client" /\ client = "foreign",
                   payload_len |-> len, masking_key |-> CHOOSE k \in MaskKeys : TRUE]
Message(e, op) == [n |-> frames[e] + 1, op |-> op, len |-> IF op = "binary_frame" THEN length ELSE 0]
CloseFrame == [n |-> Junk, op |-> "connnection_close", len |-> 128]
Frame(e, m) ==
  LET h == Header(e, m.len)
  IN << [of |-> m, part |-> 1, size |-> PackSize(h),
         raw |-> IF h.use_mask THEN PackOther(m.op, h) ELSE Pack(m.op, h)],
        [of |-> m, part |-> 2, raw |-> <<>>] >>
Garbage == <<[of |-> CloseFrame, part |-> 2, raw |-> <<>>]>>

\* The functions with a delegate pass on binary_frame whatever the opcode is
OpSent(via, op) == IF via = "delegate" THEN "binary_frame" ELSE op

\* async_write leaves the packet to the operation and destroys it
Buffers(e, via, m) == IF via = "sync" THEN {Frame(e, m)} ELSE {Frame(e, m), Garbage}

\* write and async_write.  One that fails changes nothing.  A thread that
\* is blocked in a read has the socket to itself.
Write(e, via, op) ==
  LET m == Message(e, OpSent(via, op))
  IN /\ phase[e] = "open" /\ sock[e] = "open" /\ frames["client"] + frames["server"] < MaxFrames
     /\ request \in Brief => frames["client"] + frames["server"] < 1
     /\ reading[e] # "sync"
     /\ frames' = [frames EXCEPT ![e] = @ + 1]
     /\ sent' = IF m.op = "binary_frame" THEN [sent EXCEPT ![e] = Append(@, m.n)] ELSE sent
     /\ \E data \in Buffers(e, via, m) : wire' \in Written(e, data)
     /\ UNCHANGED <<sock, setupVars, accepted, phase, got, reading, calls, failed, whole>>

\* disconnect: a close frame and the end of the socket.  When the write
\* throws the socket stays open.
Disconnect(e) ==
  /\ phase[e] \in {"open", "failed"} /\ sock[e] = "open" /\ reading[e] # "sync"
  /\ \E w \in Written(e, Frame(e, CloseFrame)) : wire' \in Dropped(e, w)
  /\ sock' = Shut(e)
  /\ UNCHANGED <<setupVars, accepted, phase, frames, sent, got, reading, calls, failed, whole>>

\* the destructor: the socket goes without a close frame
Destroy(e) ==
  /\ phase[e] \in {"open", "failed"} /\ sock[e] = "open" /\ reading[e] = "none"
  /\ sock' = Shut(e)
  /\ wire' \in Dropped(e, wire)
  /\ UNCHANGED <<setupVars, accepted, phase, frames, sent, got, reading, calls, failed, whole>>

-----------------------------------------------------------------------------
(* Reading.                                                                *)

OneFrame(chunk) == "of" \in DOMAIN chunk[1] /\ chunk[1].part = 1 /\ Len(chunk) = 2
                   /\ chunk[2] = [of |-> chunk[1].of, part |-> 2, raw |-> <<>>]

OutcomesBlind(chunk) ==          \* mutant: a heartbeat is handed on
  {[kind |-> "data", n |-> IF OneFrame(chunk) THEN chunk[1].of.n ELSE Junk]}

\* _preprocess_received_data.  The payload is where the caller looks for it
\* if the buffer holds one frame and its length was read right; with a
\* length near 2^64 the loop that unmasks runs out of the buffer.
Outcomes(chunk) ==
  LET first == chunk[1]
      info == Analyze(first.raw)
      result(kind) == [kind |-> kind, n |-> Junk]
      right == OneFrame(chunk) /\ info.payload_len = first.of.len /\ info.payload_pos = Len(first.raw)
  IN IF "of" \notin DOMAIN first \/ first.part # 1
     THEN {result("heartbeat"), result("close"), result("data"), result("crash")}
     ELSE IF info.opcode \in {"ping", "pong"} THEN {result("heartbeat")}
     ELSE IF info.opcode = "connnection_close" THEN {result("close")}
     ELSE IF info.payload_len < 0 THEN {result("crash")}
     ELSE IF right THEN {[kind |-> "data", n |-> first.of.n]}
     ELSE {result("data"), result("crash")}

\* an exception leaves the handler of the io_service, or memory is broken
Die(e, w) ==
  /\ phase' = [phase EXCEPT ![e] = "gone"]
  /\ reading' = [reading EXCEPT ![e] = "none"]
  /\ sock' = Shut(e)
  /\ wire' \in Dropped(e, w)

\* read_all, read_payload_only, or their async forms, are called.  Nothing
\* is said of the calls that follow a misread (bound).
Read(e, how) ==
  /\ phase[e] = "open" /\ sock[e] = "open" /\ reading[e] = "none" /\ whole[e]
  /\ e = "client" => client # "foreign"
  /\ reading' = [reading EXCEPT ![e] = how]
  /\ calls' = [calls EXCEPT ![e] = 0]
  /\ failed' = [failed EXCEPT ![e] = FALSE]
  /\ UNCHANGED <<tcpVars, setupVars, accepted, phase, frames, sent, got, whole>>

\* a turn of the loop of read_all
SyncRead(e, chunk) ==
  /\ reading[e] = "sync"
  /\ whole' = [whole EXCEPT ![e] = @ /\ OneFrame(chunk)]
  /\ UNCHANGED <<setupVars, accepted, frames, sent, calls>>
  /\ \E o \in Outcomes(chunk) :
       \/ /\ o.kind # "crash"
          /\ reading' = [reading EXCEPT ![e] = IF o.kind = "heartbeat" THEN "sync" ELSE "none"]
          /\ got' = IF o.kind = "data" THEN [got EXCEPT ![e] = Append(@, o.n)] ELSE got
          /\ failed' = [failed EXCEPT ![e] = o.kind = "close"]
          /\ wire' = Rest(e, chunk)
          /\ UNCHANGED <<sock, phase>>
       \/ o.kind = "crash" /\ Die(e, Rest(e, chunk)) /\ UNCHANGED <<got, failed>>

SyncReadRetries(e) ==            \* mutant: an error taken for a heartbeat
  /\ reading[e] = "sync" /\ ReadFails(e)
  /\ UNCHANGED vars

SyncReadFails(e) ==
  /\ reading[e] = "sync" /\ ReadFails(e)
  /\ reading' = [reading EXCEPT ![e] = "none"]
  /\ failed' = [failed EXCEPT ![e] = TRUE]
  /\ UNCHANGED <<tcpVars, setupVars, accepted, phase, frames, sent, got, calls, whole>>

\* After a heartbeat the handler passes itself on through a reference to a
\* local variable of async_read, which has returned: a working function, an
\* empty one, or the end.  async_read throws when the socket is closed.
ReadAgain(e, w) ==
  \/ /\ sock[e] = "open"
     /\ reading' \in {[reading EXCEPT ![e] = how] : how \in {"async", "hollow"}}
     /\ wire' = w
     /\ UNCHANGED <<sock, phase>>
  \/ Die(e, w)

AsyncReadLoud(e, chunk) ==       \* mutant: the callback hears of heartbeats
  /\ reading[e] = "async"
  /\ whole' = [whole EXCEPT ![e] = @ /\ OneFrame(chunk)]
  /\ UNCHANGED <<setupVars, accepted, frames, sent, failed>>
  /\ calls' = [calls EXCEPT ![e] = IF @ = 0 THEN 1 ELSE 2]
  /\ \E o \in Outcomes(chunk) :
       \/ /\ o.kind = "data"
          /\ got' = [got EXCEPT ![e] = Append(@, o.n)]
          /\ reading' = [reading EXCEPT ![e] = "none"]
          /\ wire' = Rest(e, chunk)
          /\ UNCHANGED <<sock, phase>>
       \/ o.kind = "heartbeat" /\ ReadAgain(e, Rest(e, chunk)) /\ UNCHANGED got
       \/ o.kind \in {"close", "crash"} /\ Die(e, Rest(e, chunk)) /\ UNCHANGED got

\* the handler of async_read_all and async_read_payload_only
AsyncRead(e, chunk) ==
  /\ reading[e] = "async"
  /\ whole' = [whole EXCEPT ![e] = @ /\ OneFrame(chunk)]
  /\ UNCHANGED <<setupVars, accepted, frames, sent, failed>>
  /\ \E o \in Outcomes(chunk) :
       \/ /\ o.kind = "data"
          /\ got' = [got EXCEPT ![e] = Append(@, o.n)]
          /\ calls' = [calls EXCEPT ![e] = IF @ = 0 THEN 1 ELSE 2]
          /\ reading' = [reading EXCEPT ![e] = "none"]
          /\ wire' = Rest(e, chunk)
          /\ UNCHANGED <<sock, phase>>
       \/ o.kind = "heartbeat" /\ ReadAgain(e, Rest(e, chunk)) /\ UNCHANGED <<got, calls>>
       \/ o.kind \in {"close", "crash"} /\ Die(e, Rest(e, chunk)) /\ UNCHANGED <<got, calls>>

\* After an error the handler calls the callback, and goes on to the buffer
\* as it was before the read.
AsyncReadFails(e) ==
  /\ reading[e] = "async" /\ ReadFails(e)
  /\ failed' = [failed EXCEPT ![e] = TRUE]
  /\ UNCHANGED <<setupVars, accepted, frames, sent, got, whole>>
  /\ \/ /\ calls' = [calls EXCEPT ![e] = 2]                      \* as data
        /\ reading' = [reading EXCEPT ![e] = "none"]
        /\ UNCHANGED <<tcpVars, phase>>
     \/ /\ calls' = [calls EXCEPT ![e] = IF @ = 0 THEN 1 ELSE 2]
        /\ ReadAgain(e, wire) \/ Die(e, wire)                    \* as a heartbeat, or a close

\* the empty function is called: std::bad_function_call
HollowRead(e) ==
  /\ reading[e] = "hollow" /\ (Chunks(e) # {} \/ ReadFails(e))
  /\ Die(e, wire)
  /\ UNCHANGED <<setupVars, accepted, frames, sent, got, calls, failed, whole>>

\* What the io_service and the calls in progress do: it waits for nobody
Progress ==
  \/ \E chunk \in Chunks("client") : ClientResponse(chunk)
  \/ ConnectFails \/ TcpAccept \/ HandshakeFails
  \/ \E chunk \in Chunks("server") : ServerHandshake(chunk)

EndProgress(e) ==
  \/ \E chunk \in Chunks(e) : SyncRead(e, chunk) \/ AsyncRead(e, chunk)
  \/ SyncReadFails(e) \/ AsyncReadFails(e) \/ HollowRead(e)

Next ==
  \/ Connect \/ AsyncConnect \/ Progress
  \/ \E e \in Ends :
       \/ \E via \in {"sync", "async", "delegate"}, op \in Ops : Write(e, via, op)
       \/ Disconnect(e) \/ Destroy(e)
       \/ \E how \in {"sync", "async"} : Read(e, how)
       \/ EndProgress(e)

Fairness == WF_vars(Progress) /\ \A e \in Ends : WF_vars(EndProgress(e))

Spec == Init /\ [][Next]_vars /\ Fairness

-----------------------------------------------------------------------------
(* The state of both ends and of their calls in progress stays in its      *)
(* types; what is sent and delivered is the matter of IsChannel.           *)
StreamTypeOK ==
  /\ accepted \in {"pending", "returned", "threw", "silent", "crashed"}
  /\ sock \in [Ends -> {"none", "open", "closed"}]
  /\ phase \in [Ends -> {"start", "waiting", "open", "failed", "gone"}]
  /\ frames \in [Ends -> 0 .. MaxFrames] /\ length \in Lengths
  /\ reading \in [Ends -> {"none", "sync", "async", "hollow"}]
  /\ calls \in [Ends -> 0 .. 2]
  /\ failed \in [Ends -> BOOLEAN] /\ whole \in [Ends -> BOOLEAN]

(* Every header on the wire says what its frame is, and is as long as was  *)
(* computed for it; but for the headers of another client with a length    *)
(* from 32768 to 65535 (xwebsocket_stream_impl.cpp:407-600).               *)
HeadersTell ==
  \A e \in Ends : \A i \in DOMAIN wire[e] :
    LET t == wire[e][i]
        info == Analyze(t.raw)
    IN "of" \in DOMAIN t /\ t.part = 1 =>
         /\ info.opcode = t.of.op /\ info.fin
         /\ info.use_mask = (e = "server" /\ client = "foreign")
         /\ ~(info.use_mask /\ Misread(t.of.len)) => info.payload_len = t.of.len
         /\ info.payload_pos = Len(t.raw)
         /\ ~info.use_mask => Len(t.raw) = t.size

(* Of a request that came in one piece, with nothing of an earlier one     *)
(* behind it, and no header too long for the search: the server takes it   *)
(* only when every word is asked for, and refuses it, be it that accept    *)
(* throws or that the callback of async_accept is never called, only when  *)
(* it has a flaw or the client has hung up.  Only a header too long kills  *)
(* the process (xwebsocket_stream_impl.cpp:106-214 and 631-716,            *)
(* string.h:55-75).                                                        *)
JudgesRight ==
  whole["server"] =>
    /\ accepted = "returned" => Overlong(request) \/ Asks(request)
    /\ accepted \in {"threw", "silent"} =>
         Overlong(request) \/ ~Flawless(request) \/ sock["client"] = "closed"
    /\ accepted = "crashed" => Overlong(request)

(* connect returns only when the server has made a stream of the           *)
(* connection, and throws, although the server has, only when one of them  *)
(* did not read just what the other wrote, or the server has hung up       *)
(* (xwebsocket_stream_impl.cpp:668-716 and 744-783).                       *)
HandshakeAgreed ==
  client = "connect" =>
    /\ phase["client"] = "open" => accepted = "returned"
    /\ phase["client"] = "failed" /\ accepted = "returned" =>
         ~whole["client"] \/ ~whole["server"] \/ sock["server"] = "closed"

(* The callback of an asynchronous read is called once, heartbeats or no   *)
(* heartbeats; only a read that fails may call it again                    *)
(* (xwebsocket_stream_impl.cpp:843-899).                                   *)
CalledOnce == \A e \in Ends : calls[e] = 2 => failed[e]

(* No message of this library kills its reader.  What does is the end of   *)
(* the connection, a heartbeat or a close frame in an asynchronous read, a *)
(* read that is not one frame, and another client's message of 32768 to    *)
(* 65535 bytes (xwebsocket_stream_impl.cpp:843-969).                       *)
NoMessageKills ==
  [][\A e \in Ends : phase[e] # "gone" /\ phase'[e] = "gone" =>
       \/ ReadFails(e) \/ ~whole'[e]
       \/ reading[e] = "hollow"
       \/ reading[e] = "async" /\ Head(wire[e]).of.op \in {"ping", "connnection_close"}
       \/ client = "foreign" /\ Misread(length)]_vars

Channel == INSTANCE WebSocketChannel WITH broken <- [e \in Ends |-> ~whole[e]]

(* The connection implements a websocket channel: what comes, comes in     *)
(* order and once, heartbeats and close frames left out, as long as every  *)
(* read gets one frame (xwebsocket_stream_impl.cpp:798-971).               *)
IsChannel == Channel!ChannelSpec

(* A read is told of the end of the connection: when the other end has     *)
(* closed, every pending read returns, reports an error, or dies with its  *)
(* process (xwebsocket_stream_impl.cpp:811-899).                           *)
ReadIsAnswered ==
  \A e \in Ends :
    (reading[e] # "none" /\ sock[Peer(e)] = "closed") ~> (reading[e] = "none" \/ failed[e])
=============================================================================
