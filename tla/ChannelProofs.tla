---------------------------- MODULE ChannelProofs ----------------------------
(***************************************************************************)
(* What the two ends of a websocket connection can tell from what they     *)
(* read, for any requests, lengths and number of messages: the headers of  *)
(* frames, the outcome of the handshake, and the messages in their order.  *)
(*                                                                         *)
(* The argument is one about the wire.  What an end has not read is the    *)
(* rest of the request or of the response, and after it the parts of the   *)
(* frames that the other end has sent since the handshake (Following);     *)
(* only lines of requests and responses and parts of frames ever are on it *)
(* (WireOK), and who is in which state of the handshake tells which lines  *)
(* those can be (Opening).                                                 *)
(***************************************************************************)
EXTENDS WebSocketProofs, WellFoundedInduction

-----------------------------------------------------------------------------
(* Sequences in pieces.                                                    *)

(* A sequence cut after some of its elements.                              *)
LEMMA Cut ==
  ASSUME NEW S, NEW s \in Seq(S), NEW k \in 0 .. Len(s)
  PROVE  LET front == SubSeq(s, 1, k)
             rest == SubSeq(s, k + 1, Len(s))
         IN  /\ front \in Seq(S) /\ Len(front) = k
             /\ \A i \in 1 .. k : front[i] = s[i]
             /\ rest \in Seq(S) /\ Len(rest) = Len(s) - k
             /\ \A i \in 1 .. Len(s) - k : rest[i] = s[k + i]
<1>1. Len(s) \in Nat /\ \A i \in 1 .. Len(s) : s[i] \in S
  BY ElementOfSeq, LenProperties
<1> DEFINE n == Len(s)
           front == SubSeq(s, 1, k)
           rest == SubSeq(s, k + 1, n)
<1>2. n \in Nat /\ k \in Int /\ k + 1 \in Int /\ k \in 0 .. n
  BY <1>1
<1>3. (\A i \in 1 .. k : s[i] \in S) /\ (\A i \in k + 1 .. n : s[i] \in S)
  BY <1>1, <1>2
<1>4. /\ front \in Seq(S) /\ Len(front) = IF 1 <= k THEN k - 1 + 1 ELSE 0
      /\ \A i \in 1 .. k - 1 + 1 : front[i] = s[1 + i - 1]
  BY <1>2, <1>3, SubSeqProperties
<1>5. /\ rest \in Seq(S) /\ Len(rest) = IF k + 1 <= n THEN n - (k + 1) + 1 ELSE 0
      /\ \A i \in 1 .. n - (k + 1) + 1 : rest[i] = s[k + 1 + i - 1]
  BY <1>2, <1>3, SubSeqProperties
<1> HIDE DEF n, front, rest
<1>6. Len(front) = k /\ \A i \in 1 .. k : front[i] = s[i]
  BY <1>2, <1>4, SMT
<1>7. Len(rest) = n - k /\ \A i \in 1 .. n - k : rest[i] = s[k + i]
  BY <1>2, <1>5, SMT
<1> QED BY <1>4, <1>5, <1>6, <1>7 DEF n, front, rest

(* The greatest of some places.                                            *)
LEMMA GreatestPlace ==
  ASSUME NEW n \in Nat, NEW S, S \subseteq 1 .. n, S # {}
  PROVE  Max(S) \in S /\ \A i \in S : i <= Max(S)
<1> DEFINE T == {n - i : i \in S}
<1>1. T \subseteq Nat /\ T # {}
  <2>1. \A i \in S : n - i \in Nat
    BY SMT
  <2> QED BY <2>1
<1>2. \E x \in T : \A y \in T : ~(<<y, x>> \in OpToRel(<, Nat))
  <2> HIDE DEF T
  <2> QED BY <1>1, NatLessThanWellFounded, WFMin
<1>3. PICK m \in S : \A y \in T : ~(<<y, n - m>> \in OpToRel(<, Nat))
  BY <1>2
<1>4. ASSUME NEW k \in S PROVE k <= m
  <2>1. n - k \in T /\ n - m \in T /\ ~(<<n - k, n - m>> \in OpToRel(<, Nat))
    BY <1>3
  <2>2. n - k \in Nat /\ n - m \in Nat
    BY <1>1, <2>1
  <2> HIDE DEF T
  <2>3. ~(n - k < n - m)
    BY <2>1, <2>2, Zenon DEF OpToRel
  <2> QED BY <2>2, <2>3, SMT
<1>5. \E x \in S : \A y \in S : x >= y
  BY <1>4, SMT
<1>6. PICK x \in S : x = Max(S) /\ \A y \in S : x >= y
  BY <1>5 DEF Max
<1> QED BY <1>6, SMT

-----------------------------------------------------------------------------
(* What may be on the wire.                                                *)

\* the lines that clients send, and those of the responses to them; no end
\* of async_connect sends any
Asked == Range(ConnectRequest) \cup UNION {Range(r) : r \in Requests}
Values == {l.value : l \in Asked} \cup {<<>>}
Answered == UNION {Range(Response(v)) : v \in Values}
LinesTo(e) ==
  IF client = "async_connect" THEN {} ELSE IF e = "server" THEN Asked ELSE Answered

\* the two parts of every frame that may be sent to e
Messages == [n : Nat, op : Ops, len : {0, 128, length}]
Heads(e) == {Frame(Peer(e), m)[1] : m \in Messages}
Tails == {[of |-> m, part |-> 2, raw |-> <<>>] : m \in Messages}
Parts(e) == Heads(e) \cup Tails
Tokens(e) == LinesTo(e) \cup Parts(e)

Wires(w) == DOMAIN w = Ends /\ \A e \in Ends : w[e] \in Seq(Tokens(e))
WireOK == request \in Seq(LinesTo("server")) /\ Wires(wire)

LEMMA Peers ==
  ASSUME NEW e \in Ends
  PROVE  Peer(e) \in Ends /\ Peer(e) # e /\ Peer(Peer(e)) = e /\ \A d \in Ends : d = e \/ d = Peer(e)
BY DEF Ends, Peer

(* A line is not a part of a frame.                                        *)
LEMMA LinesAreLines ==
  ASSUME NEW e \in Ends, NEW l \in LinesTo(e)
  PROVE  IsLine(l) /\ "of" \notin DOMAIN l
<1>1. ASSUME l \in Asked PROVE DOMAIN l = {"field", "value", "real"}
  <2>1. CASE l \in Range(ConnectRequest)
    <3>1. PICK i \in DOMAIN ConnectRequest : l = ConnectRequest[i]
      BY <2>1 DEF Range
    <3>2. i \in 1 .. 6
      BY <3>1, SMT DEF ConnectRequest
    <3>3. i = 1 \/ i = 2 \/ i = 3 \/ i = 4 \/ i = 5 \/ i = 6
      BY <3>2, SMT
    <3> QED BY <3>1, <3>3, SMT DEF ConnectRequest, Line, Blank
  <2>2. CASE \E r \in Requests : l \in Range(r)
    BY <2>2, RequestsAssumption DEF IsRequestLine
  <2> QED BY <1>1, <2>1, <2>2 DEF Asked
<1>2. ASSUME l \in Answered PROVE DOMAIN l = {"field", "value", "real"}
  <2>1. PICK v \in Values : l \in Range(Response(v))
    BY <1>2 DEF Answered
  <2>2. PICK i \in DOMAIN Response(v) : l = Response(v)[i]
    BY <2>1 DEF Range
  <2>3. i \in 1 .. 5
    BY <2>2, SMT DEF Response
  <2>4. i = 1 \/ i = 2 \/ i = 3 \/ i = 4 \/ i = 5
    BY <2>3, SMT
  <2> QED BY <2>2, <2>4, SMT DEF Response, Line, Blank
<1>3. DOMAIN l = {"field", "value", "real"}
  BY <1>1, <1>2 DEF LinesTo
<1> QED BY <1>3 DEF IsLine

(* The parts of a frame.                                                   *)
LEMMA FrameParts ==
  ASSUME NEW e \in Ends, NEW m \in Messages
  PROVE  /\ Frame(e, m) \in Seq(Parts(Peer(e))) /\ Len(Frame(e, m)) = 2
         /\ Frame(e, m)[1].of = m /\ Frame(e, m)[1].part = 1
         /\ DOMAIN Frame(e, m)[1] = {"of", "part", "size", "raw"}
         /\ Frame(e, m)[2] = [of |-> m, part |-> 2, raw |-> <<>>]
<1> DEFINE a == Frame(e, m)[1]
           b == [of |-> m, part |-> 2, raw |-> <<>>]
<1>1. Frame(e, m) = <<a, b>> /\ a.of = m /\ a.part = 1 /\ DOMAIN a = {"of", "part", "size", "raw"}
  BY DEF Frame
<1>2. a \in Parts(Peer(e)) /\ b \in Parts(Peer(e))
  BY Peers DEF Parts, Heads, Tails
<1> HIDE DEF a, b
<1>3. <<a, b>> \in Seq(Parts(Peer(e))) /\ Len(<<a, b>>) = 2 /\ <<a, b>>[2] = b
  BY <1>2, SMT
<1> QED BY <1>1, <1>3 DEF a, b

LEMMA LineOrPart ==
  ASSUME NEW e \in Ends, NEW t \in Parts(e)
  PROVE  "of" \in DOMAIN t /\ t.of \in Messages /\ ~IsLine(t)
         /\ (t.part = 1 => t = Frame(Peer(e), t.of)[1])
<1>1. CASE t \in Heads(e)
  <2>1. PICK m \in Messages : t = Frame(Peer(e), m)[1]
    BY <1>1 DEF Heads
  <2>2. t.of = m /\ DOMAIN t = {"of", "part", "size", "raw"}
    BY <2>1, FrameParts, Peers
  <2> QED BY <2>1, <2>2 DEF IsLine
<1>2. CASE t \in Tails
  BY <1>2 DEF Tails, IsLine
<1> QED BY <1>1, <1>2 DEF Parts

-----------------------------------------------------------------------------
(* What the operations of the TCP stream do to the wire.                   *)

LEMMA WritingIs ==
  ASSUME Wires(wire), NEW e \in Ends, NEW data \in Seq(Tokens(Peer(e))), NEW w \in Written(e, data)
  PROVE  /\ Wires(w) /\ w[e] = wire[e]
         /\ \/ sock[Peer(e)] = "closed" /\ w = wire
            \/ /\ sock[Peer(e)] # "closed"
               /\ \E k \in 1 .. Len(data) : w[Peer(e)] = wire[Peer(e)] \o SubSeq(data, 1, k)
<1> DEFINE p == Peer(e)
<1>0. p \in Ends /\ p # e /\ \A d \in Ends : d = e \/ d = p
  BY Peers
<1>1. CASE sock[p] = "closed"
  BY <1>1 DEF Written
<1>2. CASE sock[p] # "closed"
  <2>1. PICK k \in 1 .. Len(data) : w = [wire EXCEPT ![p] = wire[p] \o SubSeq(data, 1, k)]
    BY <1>2 DEF Written
  <2>2. k \in 0 .. Len(data)
    BY <2>1, LenProperties, SMT
  <2> DEFINE t == SubSeq(data, 1, k)
  <2>3. t \in Seq(Tokens(p))
    BY <2>2, Cut
  <2> HIDE DEF t
  <2>4. wire[p] \o t \in Seq(Tokens(p))
    BY <1>0, <2>3, ConcatProperties DEF Wires
  <2>5. w = [wire EXCEPT ![p] = wire[p] \o t]
    BY <2>1 DEF t
  <2>6. DOMAIN w = Ends /\ w[p] = wire[p] \o t /\ w[e] = wire[e]
    BY <1>0, <2>5 DEF Wires
  <2>7. w[p] \in Seq(Tokens(p)) /\ w[e] \in Seq(Tokens(e))
    BY <2>4, <2>6 DEF Wires
  <2> QED BY <1>0, <1>2, <2>1, <2>6, <2>7 DEF Wires, t
<1> QED BY <1>1, <1>2

LEMMA DroppingIs ==
  ASSUME NEW e \in Ends, NEW w, Wires(w), NEW x \in Dropped(e, w)
  PROVE  /\ Wires(x) /\ x[e] = <<>>
         /\ x[Peer(e)] \in {w[Peer(e)], <<>>}
<1>1. \A d \in Ends : <<>> \in Seq(Tokens(d))
  BY EmptySeq
<1>2. CASE x = [w EXCEPT ![e] = <<>>]
  BY <1>1, <1>2, Peers DEF Wires
<1>3. CASE x = [d \in Ends |-> <<>>]
  BY <1>1, <1>3, Peers DEF Wires
<1> QED BY <1>2, <1>3 DEF Dropped

\* the first k tokens of what e has not read, and the others
Front(e, k) == SubSeq(wire[e], 1, k)
Others(e, k) == SubSeq(wire[e], k + 1, Len(wire[e]))

LEMMA ReadingIs ==
  ASSUME Wires(wire), NEW e \in Ends, NEW chunk \in Chunks(e)
  PROVE  /\ sock[e] = "open"
         /\ chunk \in Seq(Tokens(e)) /\ Wires(Rest(e, chunk))
         /\ Rest(e, chunk)[Peer(e)] = wire[Peer(e)]
         /\ \E k \in 1 .. Len(wire[e]) :
              /\ chunk = Front(e, k) /\ Len(chunk) = k
              /\ Rest(e, chunk) = [wire EXCEPT ![e] = Others(e, k)]
              /\ Rest(e, chunk)[e] = Others(e, k)
<1>0. Peer(e) \in Ends /\ Peer(e) # e /\ \A d \in Ends : d = e \/ d = Peer(e)
  BY Peers
<1>1. PICK k \in 1 .. Len(wire[e]) : sock[e] = "open" /\ chunk = Front(e, k)
  BY DEF Chunks, Front
<1>2. wire[e] \in Seq(Tokens(e)) /\ DOMAIN wire = Ends
  BY DEF Wires
<1>3. Len(wire[e]) \in Nat /\ k \in 0 .. Len(wire[e])
  BY <1>1, <1>2, LenProperties, SMT
<1>4. /\ chunk \in Seq(Tokens(e)) /\ Len(chunk) = k
      /\ Others(e, k) \in Seq(Tokens(e))
  BY <1>1, <1>2, <1>3, Cut DEF Front, Others
<1>5. Rest(e, chunk) = [wire EXCEPT ![e] = Others(e, k)]
  BY <1>4 DEF Rest, Others
<1>6. /\ Rest(e, chunk)[e] = Others(e, k) /\ Rest(e, chunk)[Peer(e)] = wire[Peer(e)]
      /\ DOMAIN Rest(e, chunk) = Ends
  BY <1>0, <1>2, <1>5
<1>7. Wires(Rest(e, chunk))
  BY <1>0, <1>4, <1>6 DEF Wires
<1> QED BY <1>1, <1>4, <1>5, <1>6, <1>7

LEMMA DyingWires ==
  ASSUME NEW e \in Ends, NEW w, Wires(w), Die(e, w) \/ ReadAgain(e, w)
  PROVE  /\ Wires(wire')
         /\ \/ sock' = Shut(e) /\ wire' \in Dropped(e, w)
            \/ sock' = sock /\ sock[e] = "open" /\ wire' = w
BY DroppingIs DEF Die, ReadAgain

-----------------------------------------------------------------------------
LEMMA AskedLines == WireOK => request \in Seq(Tokens("server"))
<1>1. LinesTo("server") \subseteq Tokens("server")
  BY DEF Tokens
<1> HIDE DEF Tokens, LinesTo
<1> QED BY <1>1, SeqMonotonic DEF WireOK

LEMMA ResponseLines ==
  ASSUME NEW v \in Values
  PROVE  /\ Response(v) \in Seq(Answered) /\ Len(Response(v)) = 5
         /\ client # "async_connect" => Response(v) \in Seq(Tokens("client"))
<1> DEFINE a == Line("http_status", <<>>)
           b == Line("upgrade", [websocket |-> 0])
           c == Line("connection", [upgrade |-> 0])
           d == Line("sec_websocket_accept", Accept(v))
<1>1. Response(v) = <<a, b, c, d, Blank>>
  BY DEF Response
<1> HIDE DEF a, b, c, d
<1>2. <<a, b, c, d, Blank>> \in Seq({a, b, c, d, Blank}) /\ Len(Response(v)) = 5
  BY <1>1, SMT
<1>3. Response(v) \in Seq(Range(Response(v)))
  BY <1>1, <1>2, SeqOfRange, Zenon
<1>4. Range(Response(v)) \subseteq Answered
  BY DEF Answered
<1>5. client # "async_connect" => Answered \subseteq Tokens("client")
  BY DEF Tokens, LinesTo
<1> HIDE DEF Answered, Tokens
<1> QED BY <1>2, <1>3, <1>4, <1>5, SeqMonotonic

(* The value that parse finds is that of a line, or none.                  *)
LEMMA ParsedLine ==
  ASSUME NEW S, NEW chunk \in Seq(S), NEW f \in Fields
  PROVE  \/ LinesWith(f, chunk) = {} /\ Parse(chunk)[f] = <<>>
         \/ \E i \in LinesWith(f, chunk) :
              /\ i \in 1 .. Len(chunk) /\ \A j \in LinesWith(f, chunk) : j <= i
              /\ IsLine(chunk[i]) /\ chunk[i].field = f /\ Parse(chunk)[f] = chunk[i].value
<1>1. LinesWith(f, chunk) \subseteq 1 .. Len(chunk) /\ Len(chunk) \in Nat
  BY LenProperties DEF LinesWith
<1>2. CASE LinesWith(f, chunk) # {}
  <2>1. /\ Max(LinesWith(f, chunk)) \in LinesWith(f, chunk)
        /\ \A j \in LinesWith(f, chunk) : j <= Max(LinesWith(f, chunk))
    BY <1>1, <1>2, GreatestPlace
  <2>2. Parse(chunk)[f] = chunk[Max(LinesWith(f, chunk))].value
    BY <1>2 DEF Parse
  <2> QED BY <1>1, <2>1, <2>2 DEF LinesWith
<1>3. CASE LinesWith(f, chunk) = {}
  BY <1>3 DEF Parse
<1> QED BY <1>2, <1>3

(* The library's own request.                                              *)
LEMMA OwnRequest == ConnectRequest \in Seq(Range(ConnectRequest))
<1> DEFINE a == Line("request_uri", [get |-> 0, http |-> 10, end |-> 18])
           b == Line("upgrade", [websocket |-> 0, end |-> 9])
           c == Line("connection", [upgrade |-> 0, end |-> 7])
           d == Line("sec_websocket_key", LibraryKey)
           f == Line("sec_web_socket_version", [v13 |-> 0, end |-> 2])
<1>1. ConnectRequest = <<a, b, c, d, f, Blank>>
  BY DEF ConnectRequest
<1> HIDE DEF a, b, c, d, f
<1>2. <<a, b, c, d, f, Blank>> \in Seq({a, b, c, d, f, Blank})
  BY SMT
<1> QED BY <1>1, <1>2, SeqOfRange, Zenon

(* What an earlier request has left behind the one that is read.           *)
LEMMA BehindIs ==
  ASSUME NEW chunk \in Seq(Tokens("server")), NEW tail \in Behind(chunk, Earlier)
  PROVE  /\ tail \in Seq(Asked) /\ chunk \o tail \in Seq(Tokens("server") \cup Asked)
         /\ tail # <<>> => \A i \in 1 .. Len(chunk) : IsLine(chunk[i])
<1>1. tail \in Seq(Asked)
  <2>1. ASSUME NEW t \in Earlier, NEW i \in 2 .. Len(t), tail = SubSeq(t, i, Len(t))
        PROVE  tail \in Seq(Asked)
    <3>1. t \in Seq(Range(t)) /\ Range(t) \subseteq Asked
      BY EarlierAssumption, RequestsAssumption, OwnRequest DEF Asked
    <3>2. t \in Seq(Asked)
      <4> HIDE DEF Asked
      <4> QED BY <3>1, SeqMonotonic
    <3>3. i - 1 \in 0 .. Len(t) /\ (i - 1) + 1 = i
      BY <3>2, LenProperties, SMT
    <3>4. SubSeq(t, (i - 1) + 1, Len(t)) \in Seq(Asked)
      <4> HIDE DEF Asked
      <4> QED BY <3>2, <3>3, Cut
    <3> QED BY <2>1, <3>3, <3>4
  <2>2. tail = <<>> \/ \E t \in Earlier : \E i \in 2 .. Len(t) : tail = SubSeq(t, i, Len(t))
    BY Zenon DEF Behind
  <2> QED BY <2>1, <2>2, EmptySeq
<1>2. chunk \o tail \in Seq(Tokens("server") \cup Asked)
  <2> HIDE DEF Tokens, Asked
  <2>1. chunk \in Seq(Tokens("server") \cup Asked) /\ tail \in Seq(Tokens("server") \cup Asked)
    BY <1>1, SeqMonotonic
  <2> QED BY <2>1, ConcatProperties
<1>3. ASSUME tail # <<>> PROVE \A i \in 1 .. Len(chunk) : IsLine(chunk[i])
  <2>1. \A i \in DOMAIN chunk : IsLine(chunk[i])
    BY <1>3 DEF Behind
  <2>2. DOMAIN chunk = 1 .. Len(chunk)
    BY LenProperties
  <2> QED BY <2>1, <2>2
<1> QED BY <1>1, <1>2, <1>3

LEMMA KeyParsed ==
  ASSUME NEW chunk \in Seq(Tokens("server") \cup Asked)
  PROVE  Parse(chunk)["sec_websocket_key"] \in Values
<1> DEFINE v == Parse(chunk)["sec_websocket_key"]
<1>1. CASE v = <<>>
  BY <1>1 DEF Values
<1>2. ASSUME NEW i \in 1 .. Len(chunk), IsLine(chunk[i]), v = chunk[i].value
      PROVE  v \in Values
  <2>1. chunk[i] \in Tokens("server") \cup Asked
    BY ElementOfSeq
  <2>2. chunk[i] \in LinesTo("server") \cup Asked
    BY <1>2, <2>1, LineOrPart, TwoEnds DEF Tokens
  <2> QED BY <1>2, <2>2 DEF LinesTo, Values
<1> HIDE DEF v
<1>3. "sec_websocket_key" \in Fields
  BY DEF Fields
<1> QED BY <1>1, <1>2, <1>3, ParsedLine DEF v

(* The searches, one by one.                                               *)
LEMMA SearchesAre ==
  /\ \A k \in 1 .. 5 : Searches[k] \in Wanted /\ Searches[k][1] \in Fields
  /\ \A w \in Wanted : w[1] \in Fields /\ \E k \in 1 .. 5 : w = Searches[k]
<1>1. \A k \in 1 .. 5 : k = 1 \/ k = 2 \/ k = 3 \/ k = 4 \/ k = 5
  BY SMT
<1>2. /\ Searches[1] = <<"request_uri", "get">> /\ Searches[2] = <<"request_uri", "http">>
      /\ Searches[3] = <<"upgrade", "websocket">> /\ Searches[4] = <<"connection", "upgrade">>
      /\ Searches[5] = <<"sec_web_socket_version", "v13">>
  BY SMT DEF Searches
<1>3. \A k \in 1 .. 5 : Searches[k][1] \in Fields
  BY <1>1, <1>2, SMT DEF Fields
<1> QED BY <1>3 DEF Wanted

(* A header in which something is found, or which is too long, has a line. *)
LEMMA HeaderLine ==
  ASSUME NEW S, NEW chunk \in Seq(S), NEW f \in Fields, NEW x \in DOMAIN Parse(chunk)[f]
  PROVE  \E i \in LinesWith(f, chunk) :
           /\ i \in 1 .. Len(chunk) /\ IsLine(chunk[i]) /\ chunk[i].field = f
           /\ Parse(chunk)[f] = chunk[i].value
<1> DEFINE v == Parse(chunk)[f]
<1>1. v # <<>>
  OBVIOUS
<1> HIDE DEF v
<1> QED BY <1>1, ParsedLine DEF v

LEMMA ValidText ==
  ASSUME NEW S, NEW chunk \in Seq(S), "valid" \in is_valid(Parse(chunk))
  PROVE  \E i \in 1 .. Len(chunk) : IsLine(chunk[i])
<1>1. ASSUME NEW k \in 1 .. 5, Overruns(Parse(chunk)[Searches[k][1]])
      PROVE  \E i \in 1 .. Len(chunk) : IsLine(chunk[i])
  <2>1. "end" \in DOMAIN Parse(chunk)[Searches[k][1]] /\ Searches[k][1] \in Fields
    BY <1>1, SearchesAre DEF Overruns
  <2> QED BY <2>1, HeaderLine
<1>2. ASSUME \A w \in Wanted : found(Parse(chunk), w)
      PROVE  \E i \in 1 .. Len(chunk) : IsLine(chunk[i])
  <2>1. PICK w \in Wanted : w = Searches[1] /\ w[1] \in Fields
    <3>1. 1 \in 1 .. 5
      BY SMT
    <3> QED BY <3>1, SearchesAre
  <2>2. w[2] \in DOMAIN Parse(chunk)[w[1]]
    BY <1>2 DEF found, find_case_insensitive
  <2> QED BY <2>1, <2>2, HeaderLine
<1> QED BY <1>1, <1>2 DEF is_valid

LEMMA ValidLines ==
  ASSUME WireOK, NEW chunk \in Seq(Tokens("server")), chunk # <<>>,
         NEW tail \in Behind(chunk, Earlier), "valid" \in is_valid(Parse(chunk \o tail))
  PROVE  client # "async_connect"
<1>1. PICK i \in 1 .. Len(chunk \o tail) : IsLine((chunk \o tail)[i])
  BY BehindIs, ValidText
<1>2. Len(chunk) \in Nat \ {0} /\ Len(chunk) \in 1 .. Len(chunk)
  BY LenProperties, EmptySeq, SMT
<1>3. CASE tail # <<>>
  BY <1>2, <1>3, BehindIs, ElementOfSeq, LineOrPart, TwoEnds DEF Tokens, LinesTo
<1>4. CASE tail = <<>>
  <2>1. chunk \o tail = chunk
    BY <1>4, ConcatEmptySeq
  <2>2. chunk[i] \in Tokens("server") /\ IsLine(chunk[i])
    BY <1>1, <2>1, ElementOfSeq
  <2> QED BY <2>2, LineOrPart, TwoEnds DEF Tokens, LinesTo
<1> QED BY <1>3, <1>4

LEMMA WireInit == Init => WireOK
<1> SUFFICES ASSUME Init PROVE WireOK
  OBVIOUS
<1>1. ConnectRequest \in Seq(Range(ConnectRequest))
  BY OwnRequest
<1>2. request \in Seq(LinesTo("server"))
  <2>1. \/ client # "async_connect" /\ (request = ConnectRequest \/ request \in Requests)
        \/ request = <<>>
    <3>1. CASE client = "connect"
      BY <3>1 DEF Init
    <3>2. CASE client = "async_connect"
      BY <3>2 DEF Init
    <3>3. CASE client = "foreign"
      BY <3>3 DEF Init
    <3> QED BY <3>1, <3>2, <3>3 DEF Init
  <2>2. CASE client # "async_connect" /\ request = ConnectRequest
    <3>1. Range(ConnectRequest) \subseteq LinesTo("server")
      BY <2>2 DEF Asked, LinesTo
    <3> HIDE DEF LinesTo
    <3> QED BY <1>1, <2>2, <3>1, SeqMonotonic
  <2>3. CASE client # "async_connect" /\ request \in Requests
    <3>1. Range(request) \subseteq LinesTo("server") /\ request \in Seq(Range(request))
      BY <2>3, RequestsAssumption DEF Asked, LinesTo
    <3> HIDE DEF LinesTo
    <3> QED BY <3>1, SeqMonotonic
  <2> QED BY <2>1, <2>2, <2>3, EmptySeq
<1>3. Wires(wire)
  BY EmptySeq DEF Init, TcpInit, Wires
<1> QED BY <1>2, <1>3 DEF WireOK

(* What is written are parts of frames.                                    *)
LEMMA Sayable ==
  ASSUME StreamTypeOK, NEW e \in Ends
  PROVE  /\ CloseFrame \in Messages
         /\ \A opcode \in Ops, via \in {"sync", "async", "delegate"} :
              Message(e, OpSent(via, opcode)) \in Messages
<1>1. CloseFrame \in Messages
  BY DEF CloseFrame, Messages, Junk, Ops
<1>2. ASSUME NEW opcode \in Ops, NEW via PROVE Message(e, OpSent(via, opcode)) \in Messages
  <2>1. frames[e] + 1 \in Nat
    BY MaxFramesAssumption DEF StreamTypeOK
  <2>2. OpSent(via, opcode) \in Ops
    BY DEF OpSent, Ops
  <2> QED BY <2>1, <2>2 DEF Message, Messages
<1> QED BY <1>1, <1>2

LEMMA Saying ==
  ASSUME NEW e \in Ends, NEW m \in Messages
  PROVE  /\ Frame(e, m) \in Seq(Parts(Peer(e))) /\ Frame(e, m) \in Seq(Tokens(Peer(e)))
         /\ Garbage \in Seq(Parts(Peer(e))) /\ Garbage \in Seq(Tokens(Peer(e)))
         /\ Garbage[1] = [of |-> CloseFrame, part |-> 2, raw |-> <<>>] /\ Len(Garbage) = 1
<1>1. Parts(Peer(e)) \subseteq Tokens(Peer(e))
  BY DEF Tokens
<1>2. CloseFrame \in Messages
  BY DEF CloseFrame, Messages, Junk, Ops
<1>3. [of |-> CloseFrame, part |-> 2, raw |-> <<>>] \in Parts(Peer(e))
  BY <1>2 DEF Parts, Tails
<1> DEFINE g == [of |-> CloseFrame, part |-> 2, raw |-> <<>>]
<1>4. Garbage = <<g>> /\ g \in Parts(Peer(e))
  BY <1>3 DEF Garbage
<1> HIDE DEF g
<1>5. Garbage \in Seq(Parts(Peer(e))) /\ Garbage[1] = g /\ Len(Garbage) = 1
  BY <1>4, SMT
<1> HIDE DEF Parts, Tokens
<1> QED BY <1>1, <1>5, FrameParts, SeqMonotonic DEF g

LEMMA WireStep == StreamTypeOK /\ WireOK /\ [Next]_vars => WireOK'
<1> SUFFICES ASSUME StreamTypeOK, WireOK, [Next]_vars PROVE WireOK'
  OBVIOUS
<1> USE TwoEnds
<1>0. request' = request /\ length' = length /\ client' = client
  BY DEF Next, Connect, AsyncConnect, Progress, ClientResponse, ConnectFails, TcpAccept,
     HandshakeFails, ServerHandshake, Write, Disconnect, Destroy, Read, EndProgress, SyncRead,
     AsyncRead, SyncReadFails, AsyncReadFails, HollowRead, setupVars, vars
<1>a. \A e \in Ends : Tokens(e)' = Tokens(e)
  BY <1>0 DEF Tokens, LinesTo, Parts, Heads, Tails, Messages, Frame, Header
<1>b. SUFFICES Wires(wire')
  <2>1. LinesTo("server")' = LinesTo("server")
    BY <1>0 DEF LinesTo
  <2> QED BY <1>0, <1>a, <2>1 DEF WireOK, Wires
<1>c. Wires(wire)
  BY DEF WireOK
<1>1. CASE UNCHANGED wire
  BY <1>1, <1>c
<1>2. CASE Connect
  <2>1. request \in Seq(Tokens(Peer("client"))) /\ wire' \in Written("client", request)
    BY <1>2, AskedLines DEF Connect, WireOK, Peer
  <2> QED BY <1>c, <2>1, WritingIs
<1>3. ASSUME NEW e \in Ends, NEW chunk \in Chunks(e), wire' = Rest(e, chunk) PROVE Wires(wire')
  BY <1>c, <1>3, ReadingIs
<1>4. ASSUME NEW e \in Ends, NEW w, Wires(w), wire' \in Dropped(e, w) PROVE Wires(wire')
  BY <1>4, DroppingIs
<1>5. ASSUME NEW chunk \in Chunks("server"), ServerHandshake(chunk) PROVE Wires(wire')
  <2>0. PICK tail \in Behind(chunk, Earlier) :
          LET header == Parse(chunk \o tail)
              rest == Rest("server", chunk)
          IN  \/ Reject(rest)
              \/ /\ "valid" \in is_valid(header)
                 /\ \E w \in Written("server", Response(header["sec_websocket_key"])) :
                      wire' = [rest EXCEPT !["client"] = w["client"]]
    BY <1>5 DEF ServerHandshake
  <2> DEFINE v == Parse(chunk \o tail)["sec_websocket_key"]
             rest == Rest("server", chunk)
  <2>1. Wires(rest) /\ chunk \in Seq(Tokens("server")) /\ chunk # <<>>
    <3>1. PICK k \in 1 .. Len(wire["server"]) : Len(chunk) = k
      BY <1>c, ReadingIs
    <3>2. Len(chunk) # 0
      BY <3>1, SMT
    <3> QED BY <1>c, <3>2, ReadingIs, EmptySeq
  <2>2. CASE Reject(rest)
    BY <1>4, <2>1, <2>2 DEF Reject
  <2>3. ASSUME NEW w \in Written("server", Response(v)), wire' = [rest EXCEPT !["client"] = w["client"]],
               "valid" \in is_valid(Parse(chunk \o tail))
        PROVE  Wires(wire')
    <3>1. v \in Values /\ client # "async_connect"
      <4>1. chunk \o tail \in Seq(Tokens("server") \cup Asked)
        BY <2>1, BehindIs
      <4> QED BY <2>1, <2>3, <4>1, KeyParsed, ValidLines
    <3>2. Response(v) \in Seq(Tokens(Peer("server")))
      BY <3>1, ResponseLines DEF Peer
    <3>3. Wires(w)
      BY <1>c, <2>3, <3>2, WritingIs
    <3> HIDE DEF rest
    <3> QED BY <2>1, <2>3, <3>3 DEF Wires
  <2> QED BY <2>0, <2>2, <2>3
<1>6. ASSUME NEW e \in Ends, NEW m \in Messages,
             NEW data \in {Frame(e, m), Garbage}, NEW w \in Written(e, data)
      PROVE  Wires(w)
  BY <1>c, <1>6, Saying, WritingIs
<1>7. ASSUME NEW e \in Ends, NEW via \in {"sync", "async", "delegate"}, NEW opcode \in Ops,
             Write(e, via, opcode)
      PROVE  Wires(wire')
  BY <1>6, <1>7, Sayable DEF Write, Buffers
<1>8. ASSUME NEW e \in Ends, Disconnect(e) \/ Destroy(e) PROVE Wires(wire')
  BY <1>4, <1>6, <1>8, <1>c, Sayable DEF Disconnect, Destroy
<1>9. ASSUME NEW e \in Ends, NEW w, Wires(w), Die(e, w) \/ ReadAgain(e, w) PROVE Wires(wire')
  BY <1>9, DyingWires
<1>10. ASSUME NEW e \in Ends, NEW chunk \in Chunks(e), SyncRead(e, chunk) \/ AsyncRead(e, chunk)
       PROVE  Wires(wire')
  <2>1. Wires(Rest(e, chunk))
    BY <1>c, ReadingIs
  <2> QED BY <1>9, <1>10, <2>1 DEF SyncRead, AsyncRead
<1>11. ASSUME NEW e \in Ends, SyncReadFails(e) \/ AsyncReadFails(e) \/ HollowRead(e)
       PROVE  Wires(wire')
  BY <1>1, <1>9, <1>11, <1>c DEF SyncReadFails, AsyncReadFails, HollowRead, tcpVars
<1>12. CASE HandshakeFails
  BY <1>4, <1>12, <1>c DEF HandshakeFails, Reject
<1>13. CASE Progress
  BY <1>1, <1>3, <1>5, <1>12, <1>13 DEF Progress, ClientResponse, ConnectFails, TcpAccept, tcpVars
<1>14. ASSUME NEW e \in Ends, EndProgress(e) PROVE Wires(wire')
  BY <1>10, <1>11, <1>14 DEF EndProgress
<1>15. CASE AsyncConnect \/ (\E e \in Ends, how \in {"sync", "async"} : Read(e, how)) \/ UNCHANGED vars
  BY <1>1, <1>15 DEF AsyncConnect, Read, vars, tcpVars
<1> QED BY <1>2, <1>7, <1>8, <1>13, <1>14, <1>15 DEF Next

-----------------------------------------------------------------------------
(* The headers on the wire.                                                *)

LEMMA HeaderIs ==
  ASSUME StreamTypeOK, NEW e \in Ends, NEW m \in Messages
  PROVE  LET h == Header(Peer(e), m.len)
         IN  /\ h \in AnyHeader /\ IsUint32(h.payload_len) /\ m.len \in Nat
             /\ h.fin /\ h.payload_len = m.len /\ h.use_mask = (e = "server" /\ client = "foreign")
<1> DEFINE h == Header(Peer(e), m.len)
<1>1. m.len \in {0, 128, length} /\ length \in Lengths
  BY DEF Messages, StreamTypeOK
<1>2. IsUint32(0) /\ IsUint32(128)
  BY SMT DEF IsUint32
<1>3. m.len \in Nat /\ IsUint32(m.len)
  BY <1>1, <1>2, LengthsAssumption, MessagesAssumption
<1>4. (CHOOSE k \in MaskKeys : TRUE) \in MaskKeys
  BY MessagesAssumption
<1>5. (Peer(e) = "client") = (e = "server")
  BY DEF Ends, Peer
<1>6. h \in AnyHeader /\ h.payload_len = m.len
  BY <1>3, <1>4, <1>5 DEF Header, AnyHeader
<1>7. h.fin /\ h.use_mask = (e = "server" /\ client = "foreign")
  BY <1>5 DEF Header
<1> QED BY <1>3, <1>6, <1>7

(* What the reader finds in the header of a frame.                         *)
LEMMA HeadTells ==
  ASSUME StreamTypeOK, NEW e \in Ends, NEW m \in Messages
  PROVE  LET t == Frame(Peer(e), m)[1]
             info == Analyze(t.raw)
         IN  /\ info.opcode = m.op /\ info.fin
             /\ info.use_mask = (e = "server" /\ client = "foreign")
             /\ info.payload_len = IF info.use_mask THEN ReadAs(m.len) ELSE m.len
             /\ info.payload_pos = Len(t.raw)
             /\ ~info.use_mask => Len(t.raw) = t.size
<1> DEFINE h == Header(Peer(e), m.len)
           t == Frame(Peer(e), m)[1]
<1>1. /\ h \in AnyHeader /\ IsUint32(h.payload_len) /\ h.payload_len = m.len
      /\ h.fin /\ h.use_mask = (e = "server" /\ client = "foreign")
  BY HeaderIs
<1>2. /\ t.raw = IF h.use_mask THEN PackOther(m.op, h) ELSE Pack(m.op, h)
      /\ t.size = PackSize(h)
  BY DEF Frame
<1>3. m.op \in Opcodes \ {"undefined", "reserved_for_further"}
  BY DEF Messages, Ops, Opcodes
<1> HIDE DEF h, t
<1>4. CASE h.use_mask
  BY <1>1, <1>2, <1>3, <1>4, OtherIsRead DEF t
<1>5. CASE ~h.use_mask
  <2>1. Sendable(h)
    BY <1>1, <1>5 DEF Sendable
  <2>2. Len(Pack(m.op, h)) = PackSize(h)
    BY <1>1, <1>3, Packed
  <2> QED BY <1>1, <1>2, <1>3, <1>5, <2>1, <2>2, PackedIsRead DEF t
<1> QED BY <1>4, <1>5

LEMMA LengthIs ==
  ASSUME NEW n \in Nat
  PROVE  /\ Misread(n) => ReadAs(n) < 0
         /\ ~Misread(n) => ReadAs(n) = n /\ ~(ReadAs(n) < 0)
         /\ ~(n < 0)
BY SMT DEF ReadAs, Misread

Tells(e, t) ==
  LET info == Analyze(t.raw)
  IN  /\ info.opcode = t.of.op /\ info.fin
      /\ info.use_mask = (e = "server" /\ client = "foreign")
      /\ ~(info.use_mask /\ Misread(t.of.len)) => info.payload_len = t.of.len
      /\ info.payload_pos = Len(t.raw)
      /\ ~info.use_mask => Len(t.raw) = t.size

LEMMA TellingInv == StreamTypeOK /\ WireOK => HeadersTell
<1> SUFFICES ASSUME StreamTypeOK, WireOK PROVE HeadersTell
  OBVIOUS
<1>1. ASSUME NEW e \in Ends, NEW m \in Messages PROVE Tells(e, Frame(Peer(e), m)[1])
  <2> DEFINE t == Frame(Peer(e), m)[1]
             info == Analyze(t.raw)
  <2>1. t.of = m
    BY FrameParts, Peers
  <2>2. /\ info.opcode = m.op /\ info.fin
        /\ info.use_mask = (e = "server" /\ client = "foreign")
        /\ info.payload_len = IF info.use_mask THEN ReadAs(m.len) ELSE m.len
        /\ info.payload_pos = Len(t.raw)
        /\ ~info.use_mask => Len(t.raw) = t.size
    BY HeadTells
  <2>3. ~Misread(m.len) => ReadAs(m.len) = m.len
    BY HeaderIs, LengthIs
  <2> HIDE DEF info, t
  <2>4. ~(info.use_mask /\ Misread(m.len)) => info.payload_len = m.len
    BY <2>2, <2>3
  <2> QED BY <2>1, <2>2, <2>4 DEF Tells, info, t
<1>2. ASSUME NEW e \in Ends, NEW i \in DOMAIN wire[e],
             "of" \in DOMAIN wire[e][i], wire[e][i].part = 1
      PROVE  Tells(e, wire[e][i])
  <2>1. wire[e] \in Seq(Tokens(e))
    BY DEF WireOK, Wires
  <2>2. wire[e][i] \in Tokens(e)
    BY <2>1, ElementOfSeq, LenProperties
  <2>3. wire[e][i] \in Parts(e)
    BY <1>2, <2>2, LinesAreLines DEF Tokens
  <2> QED BY <1>1, <1>2, <2>3, LineOrPart
<1> QED BY <1>2, Zenon DEF HeadersTell, Tells

(* Every header on the wire says what its frame is, whoever wrote it; but  *)
(* for those of another client with a length from 32768 to 65535           *)
(* (xwebsocket_stream_impl.cpp:407-600).                                   *)
THEOREM HeadersAreTrue == Spec => []HeadersTell
<1>1. StreamTypeOK /\ WireOK => HeadersTell
  BY TellingInv
<1> QED BY <1>1, WireInit, WireStep, StreamTypeCorrect, PTL DEF Spec

(* What a read that gets one frame makes of it.                            *)
LEMMA OutcomeIs ==
  ASSUME StreamTypeOK, WireOK, NEW e \in Ends, NEW chunk \in Chunks(e), OneFrame(chunk),
         NEW o \in Outcomes(chunk)
  PROVE  \E m \in Messages :
           /\ chunk[1].of = m /\ wire[e][1] = chunk[1] /\ wire[e] # <<>>
           /\ Len(chunk) = 2 /\ Len(wire[e]) >= 2 /\ wire[e][2] = chunk[2]
           /\ \/ o.kind = "heartbeat" /\ m.op = "ping"
              \/ o.kind = "close" /\ m.op = "connnection_close"
              \/ o.kind = "data" /\ m.op = "binary_frame" /\ o.n = m.n
              \/ o.kind = "crash" /\ m.op = "binary_frame"
                 /\ e = "server" /\ client = "foreign" /\ Misread(m.len)
<1> DEFINE t == chunk[1]
           m == t.of
           info == Analyze(t.raw)
<1>1. PICK k \in 1 .. Len(wire[e]) : chunk = Front(e, k) /\ Len(chunk) = k
  BY ReadingIs DEF WireOK
<1>2. wire[e] \in Seq(Tokens(e)) /\ Len(wire[e]) \in Nat
  BY LenProperties DEF WireOK, Wires
<1>3. Len(chunk) = 2 /\ "of" \in DOMAIN t /\ t.part = 1
  BY Zenon DEF OneFrame
<1>4. k = 2 /\ 1 \in 1 .. k /\ 2 \in 1 .. k /\ k \in 0 .. Len(wire[e]) /\ Len(wire[e]) >= 2
  BY <1>1, <1>2, <1>3, SMT
<1>5. t = wire[e][1] /\ chunk[2] = wire[e][2]
  BY <1>1, <1>2, <1>4, Cut DEF Front
<1>6. wire[e] # <<>> /\ 1 \in 1 .. Len(wire[e])
  BY <1>2, <1>4, EmptySeq, SMT
<1>7. m \in Messages /\ t = Frame(Peer(e), m)[1]
  <2>1. t \in Tokens(e)
    BY <1>2, <1>5, <1>6, ElementOfSeq
  <2> QED BY <1>3, <2>1, LineOrPart, LinesAreLines DEF Tokens
<1>8. /\ info.opcode = m.op
      /\ info.use_mask = (e = "server" /\ client = "foreign")
      /\ info.payload_len = IF info.use_mask THEN ReadAs(m.len) ELSE m.len
      /\ info.payload_pos = Len(t.raw)
  BY <1>7, HeadTells
<1>9. m.len \in Nat /\ m.op \in Ops
  BY <1>7, HeaderIs DEF Messages
<1> DEFINE right == OneFrame(chunk) /\ info.payload_len = m.len /\ info.payload_pos = Len(t.raw)
           long == info.payload_len < 0
<1>10. /\ long => info.use_mask /\ Misread(m.len)
       /\ ~long => right
  <2> DEFINE n == m.len
  <2>1. n \in Nat /\ (info.payload_len = IF info.use_mask THEN ReadAs(n) ELSE n)
    BY <1>8, <1>9
  <2> HIDE DEF n, info, t, m
  <2>2. /\ info.payload_len < 0 => info.use_mask /\ Misread(n)
        /\ ~(info.payload_len < 0) => info.payload_len = n
    BY <2>1, LengthIs
  <2> QED BY <1>8, <2>2 DEF n
<1>11. Outcomes(chunk) =
         IF info.opcode \in {"ping", "pong"} THEN {[kind |-> "heartbeat", n |-> Junk]}
         ELSE IF info.opcode = "connnection_close" THEN {[kind |-> "close", n |-> Junk]}
         ELSE IF long THEN {[kind |-> "crash", n |-> Junk]}
         ELSE IF right THEN {[kind |-> "data", n |-> m.n]}
         ELSE {[kind |-> "data", n |-> Junk], [kind |-> "crash", n |-> Junk]}
  BY <1>3 DEF Outcomes
<1> HIDE DEF t, m, info, right, long
<1>12. \/ o.kind = "heartbeat" /\ m.op = "ping"
       \/ o.kind = "close" /\ m.op = "connnection_close"
       \/ o.kind = "data" /\ m.op = "binary_frame" /\ o.n = m.n
       \/ o.kind = "crash" /\ m.op = "binary_frame" /\ long
  BY <1>8, <1>9, <1>10, <1>11 DEF Ops
<1> QED BY <1>3, <1>4, <1>5, <1>6, <1>7, <1>8, <1>10, <1>12 DEF t, m

-----------------------------------------------------------------------------
(* The messages written and delivered are numbers.                         *)

LogsOK == sent \in [Ends -> Seq(Nat)] /\ got \in [Ends -> Seq(Nat)]

LEMMA OutcomeNumber ==
  ASSUME WireOK, NEW e \in Ends, NEW chunk \in Chunks(e), NEW o \in Outcomes(chunk)
  PROVE  o.n \in Nat
<1> DEFINE t == chunk[1]
           info == Analyze(t.raw)
<1>1. "of" \in DOMAIN t => t.of.n \in Nat
  <2>1. PICK k \in 1 .. Len(wire[e]) : Len(chunk) = k
    BY ReadingIs DEF WireOK
  <2>2. chunk \in Seq(Tokens(e)) /\ wire[e] \in Seq(Tokens(e))
    BY ReadingIs DEF WireOK, Wires
  <2>3. 1 \in 1 .. Len(chunk)
    BY <2>1, <2>2, LenProperties, SMT
  <2>4. t \in Tokens(e)
    BY <2>2, <2>3, ElementOfSeq
  <2> QED BY <2>4, LineOrPart, LinesAreLines DEF Tokens, Messages
<1>2. \/ o.n = Junk
      \/ "of" \in DOMAIN t /\ o.n = t.of.n
  <2> HIDE DEF t
  <2> QED BY DEF Outcomes, t
<1> QED BY <1>1, <1>2 DEF Junk

LEMMA LogsStep == StreamTypeOK /\ WireOK /\ LogsOK /\ [Next]_vars => LogsOK'
<1> SUFFICES ASSUME StreamTypeOK, WireOK, LogsOK, [Next]_vars PROVE LogsOK'
  OBVIOUS
<1>1. CASE UNCHANGED <<sent, got>>
  BY <1>1 DEF LogsOK
<1>2. ASSUME NEW e \in Ends, NEW via \in {"sync", "async", "delegate"}, NEW opcode \in Ops,
             Write(e, via, opcode)
      PROVE  LogsOK'
  <2>1. Message(e, OpSent(via, opcode)).n \in Nat
    BY Sayable DEF Messages
  <2> QED BY <1>2, <2>1 DEF Write, LogsOK
<1>3. ASSUME NEW e \in Ends, NEW chunk \in Chunks(e), SyncRead(e, chunk) \/ AsyncRead(e, chunk)
      PROVE  LogsOK'
  <2>1. \A o \in Outcomes(chunk) : o.n \in Nat
    BY OutcomeNumber
  <2>2. /\ sent' = sent
        /\ got' = got \/ \E o \in Outcomes(chunk) : got' = [got EXCEPT ![e] = Append(got[e], o.n)]
    BY <1>3 DEF SyncRead, AsyncRead
  <2>3. \A n \in Nat : Append(got[e], n) \in Seq(Nat)
    BY AppendProperties DEF LogsOK
  <2>4. \A n \in Nat : [got EXCEPT ![e] = Append(got[e], n)] \in [Ends -> Seq(Nat)]
    BY <2>3 DEF LogsOK
  <2> QED BY <2>1, <2>2, <2>4, Zenon DEF LogsOK
<1>4. ASSUME NEW e \in Ends, EndProgress(e) PROVE LogsOK'
  BY <1>1, <1>3, <1>4 DEF EndProgress, SyncReadFails, AsyncReadFails, HollowRead
<1>5. CASE Connect \/ AsyncConnect \/ Progress
  BY <1>1, <1>5 DEF Connect, AsyncConnect, Progress, ClientResponse, ConnectFails, TcpAccept,
     HandshakeFails, ServerHandshake, Reject
<1>6. CASE \/ \E d \in Ends : Disconnect(d) \/ Destroy(d) \/ \E how \in {"sync", "async"} : Read(d, how)
           \/ UNCHANGED vars
  BY <1>1, <1>6 DEF Disconnect, Destroy, Read, vars, streamVars
<1> QED BY <1>2, <1>4, <1>5, <1>6 DEF Next

(* What takes a stream away, one operation at a time.                      *)
LEMMA KillingStep ==
  ASSUME StreamTypeOK, WireOK, [Next]_vars,
         NEW e \in Ends, phase[e] # "gone", phase'[e] = "gone"
  PROVE  \/ ReadFails(e) \/ ~whole'[e]
         \/ reading[e] = "hollow"
         \/ reading[e] = "async" /\ Head(wire[e]).of.op \in {"ping", "connnection_close"}
         \/ client = "foreign" /\ Misread(length)
<1> USE TwoEnds
<1>1. ASSUME NEW d \in Ends, NEW chunk \in Chunks(d), SyncRead(d, chunk) \/ AsyncRead(d, chunk)
      PROVE  \/ ~whole'[e]
             \/ reading[e] = "async" /\ Head(wire[e]).of.op \in {"ping", "connnection_close"}
             \/ client = "foreign" /\ Misread(length)
  <2>1. whole' = [whole EXCEPT ![d] = whole[d] /\ OneFrame(chunk)]
    BY <1>1 DEF SyncRead, AsyncRead
  <2>2. d = e
    BY <1>1 DEF SyncRead, AsyncRead, Die, ReadAgain, StreamTypeOK
  <2> SUFFICES ASSUME whole'[e]
               PROVE  \/ reading[e] = "async" /\ Head(wire[e]).of.op \in {"ping", "connnection_close"}
                      \/ client = "foreign" /\ Misread(length)
    OBVIOUS
  <2>3. OneFrame(chunk)
    BY <2>1, <2>2 DEF StreamTypeOK
  <2>4. PICK o \in Outcomes(chunk) :
          \/ SyncRead(d, chunk) /\ o.kind = "crash"
          \/ reading[d] = "async" /\ o.kind \in {"heartbeat", "close", "crash"}
    BY <1>1, <2>2 DEF SyncRead, AsyncRead
  <2>5. PICK m \in Messages :
          /\ chunk[1].of = m /\ wire[e][1] = chunk[1] /\ wire[e] # <<>>
          /\ \/ o.kind = "heartbeat" /\ m.op = "ping"
             \/ o.kind = "close" /\ m.op = "connnection_close"
             \/ o.kind = "data"
             \/ client = "foreign" /\ Misread(m.len)
    <3>1. chunk \in Chunks(e)
      BY <2>2
    <3> HIDE DEF Chunks
    <3> QED BY <2>3, <3>1, OutcomeIs
  <2>6. Head(wire[e]) = wire[e][1]
    BY <2>5, HeadTailProperties DEF WireOK, Wires
  <2>7. Misread(m.len) => Misread(length)
    <3>1. m.len = 0 \/ m.len = 128 \/ m.len = length
      BY DEF Messages
    <3>2. ~Misread(0) /\ ~Misread(128)
      BY SMT DEF Misread
    <3> QED BY <3>1, <3>2
  <2> QED BY <2>2, <2>4, <2>5, <2>6, <2>7
<1>2. ASSUME NEW d \in Ends, SyncReadFails(d) \/ AsyncReadFails(d) \/ HollowRead(d)
      PROVE  ReadFails(e) \/ reading[e] = "hollow"
  <2>1. d = e
    BY <1>2 DEF SyncReadFails, AsyncReadFails, HollowRead, Die, ReadAgain, tcpVars, StreamTypeOK
  <2> QED BY <1>2, <2>1 DEF SyncReadFails, AsyncReadFails, HollowRead
<1>3. CASE \E d \in Ends : EndProgress(d)
  BY <1>1, <1>2, <1>3 DEF EndProgress
<1>4. CASE Connect \/ AsyncConnect \/ Progress
  BY <1>4 DEF Connect, AsyncConnect, Progress, ClientResponse, ConnectFails, TcpAccept,
     HandshakeFails, ServerHandshake, Reject, StreamTypeOK
<1>5. CASE \E d \in Ends :
             \/ \E via \in {"sync", "async", "delegate"}, opcode \in Ops : Write(d, via, opcode)
             \/ Disconnect(d) \/ Destroy(d)
             \/ \E how \in {"sync", "async"} : Read(d, how)
  BY <1>5 DEF Write, Disconnect, Destroy, Read
<1>6. CASE UNCHANGED vars
  BY <1>6 DEF vars, streamVars
<1> QED BY <1>3, <1>4, <1>5, <1>6 DEF Next

(* A message that a read gets as one frame does not kill its reader, but   *)
(* for a heartbeat or a close frame met by an asynchronous read, and the   *)
(* misread length of another program (xwebsocket_stream_impl.cpp:843-969). *)
THEOREM NoMessageIsFatal == Spec => NoMessageKills
<1>1. StreamTypeOK /\ WireOK /\ [Next]_vars =>
        [\A e \in Ends : phase[e] # "gone" /\ phase'[e] = "gone" =>
           \/ ReadFails(e) \/ ~whole'[e]
           \/ reading[e] = "hollow"
           \/ reading[e] = "async" /\ Head(wire[e]).of.op \in {"ping", "connnection_close"}
           \/ client = "foreign" /\ Misread(length)]_vars
  BY KillingStep
<1> QED BY <1>1, WireInit, WireStep, StreamTypeCorrect, PTL DEF Spec, NoMessageKills

-----------------------------------------------------------------------------
(* The opening: what holds of an end until its handshake is over.          *)

Accepting == phase["server"] \in {"start", "waiting"}
Pieces(s) == {SubSeq(s, 1, k) : k \in 0 .. Len(s)}

\* the socket of an end, and that it has neither written nor read a message
BegunAt(e) ==
  /\ phase[e] = "start" <=> sock[e] = "none"
  /\ phase[e] = "waiting" => sock[e] = "open"
FreshAt(e) ==
  phase[e] \in {"start", "waiting"} =>
    frames[e] = 0 /\ sent[e] = <<>> /\ got[e] = <<>> /\ reading[e] = "none" /\ whole[e]

\* until the server answers, the client waits; a server that does not
\* accept hangs up; and it never accepts a client that asks for nothing
Unanswered ==
  Accepting =>
    /\ wire["client"] = <<>>
    /\ client # "async_connect" =>
         /\ phase["client"] \in {"start", "waiting"}
         /\ wire["server"] \in Pieces(request)
         /\ phase["client"] = "start" => wire["server"] = <<>>
Judged ==
  /\ accepted = "pending" <=> Accepting
  /\ accepted \in {"threw", "silent", "crashed"} => wire["client"] = <<>> /\ sock["server"] = "closed"
Asking ==
  /\ client = "connect" => request = ConnectRequest
  /\ phase["client"] = "start" => phase["server"] = "start"
  /\ client = "async_connect" => phase["client"] # "waiting" /\ accepted # "returned"

Opening == Asking /\ Judged /\ Unanswered /\ \A e \in Ends : BegunAt(e) /\ FreshAt(e)

LEMMA OpeningInit == Init => Opening
<1> SUFFICES ASSUME Init PROVE Opening
  OBVIOUS
<1>1. client = "connect" => request = ConnectRequest
  BY DEF Init
<1>2. wire["server"] \in Pieces(request)
  <2>1. request \in Seq(LinesTo("server"))
    BY WireInit DEF WireOK
  <2>2. SubSeq(request, 1, 0) = <<>>
    BY SubSeqEmpty, SMT
  <2>3. 0 \in 0 .. Len(request)
    BY <2>1, LenProperties, SMT
  <2> QED BY <2>2, <2>3, TwoEnds DEF Init, TcpInit, Pieces
<1>3. /\ phase = [e \in Ends |-> "start"] /\ sock = [e \in Ends |-> "none"]
      /\ wire = [e \in Ends |-> <<>>] /\ frames = [e \in Ends |-> 0]
      /\ sent = [e \in Ends |-> <<>>] /\ got = [e \in Ends |-> <<>>]
      /\ reading = [e \in Ends |-> "none"] /\ whole = [e \in Ends |-> TRUE]
      /\ accepted = "pending"
  BY Zenon DEF Init, TcpInit
<1> QED BY <1>1, <1>2, <1>3, TwoEnds DEF Opening, Asking, Judged, Unanswered, Accepting, BegunAt, FreshAt

(* A read in progress, and the end of a stream.                            *)
LEMMA Ending ==
  ASSUME StreamTypeOK, WireOK, LogsOK, Opening, NEW e \in Ends, EndProgress(e) \/ Destroy(e)
  PROVE  LET p == Peer(e)
         IN  /\ phase[e] \notin {"start", "waiting"}
             /\ sock' \in {sock, Shut(e)} /\ phase' \in {phase, [phase EXCEPT ![e] = "gone"]}
             /\ wire[e] = <<>> => wire'[e] = <<>>
             /\ wire'[p] \in {wire[p], <<>>} /\ (wire'[p] = wire[p] \/ sock' = Shut(e))
             /\ got'[p] = got[p] /\ whole'[p] = whole[p] /\ reading'[p] = reading[p]
             /\ UNCHANGED <<setupVars, accepted, frames, sent>>
<1> DEFINE p == Peer(e)
<1>0. p \in Ends /\ p # e /\ Wires(wire)
  BY Peers DEF WireOK
<1>1. ASSUME NEW w, Wires(w), Die(e, w) \/ ReadAgain(e, w)
      PROVE  /\ sock' \in {sock, Shut(e)} /\ phase' \in {phase, [phase EXCEPT ![e] = "gone"]}
             /\ w[e] = <<>> => wire'[e] = <<>>
             /\ wire'[p] \in {w[p], <<>>} /\ (wire'[p] = w[p] \/ sock' = Shut(e))
             /\ reading'[p] = reading[p]
  BY <1>0, <1>1, DroppingIs DEF Die, ReadAgain, StreamTypeOK
<1>2. ASSUME NEW chunk \in Chunks(e), SyncRead(e, chunk) \/ AsyncRead(e, chunk)
      PROVE  /\ reading[e] # "none"
             /\ sock' \in {sock, Shut(e)} /\ phase' \in {phase, [phase EXCEPT ![e] = "gone"]}
             /\ wire[e] # <<>>
             /\ wire'[p] \in {wire[p], <<>>} /\ (wire'[p] = wire[p] \/ sock' = Shut(e))
             /\ got'[p] = got[p] /\ whole'[p] = whole[p] /\ reading'[p] = reading[p]
             /\ UNCHANGED <<setupVars, accepted, frames, sent>>
  <2> DEFINE rest == Rest(e, chunk)
  <2>1. Wires(rest) /\ rest[p] = wire[p]
    BY <1>0, ReadingIs
  <2>2. wire[e] # <<>>
    BY <1>0, ReadingIs, EmptySeq, SMT
  <2>3. /\ reading[e] # "none" /\ UNCHANGED <<setupVars, accepted, frames, sent>>
        /\ whole'[p] = whole[p] /\ got'[p] = got[p]
    BY <1>0, <1>2 DEF SyncRead, AsyncRead, StreamTypeOK, LogsOK
  <2>4. \/ Die(e, rest) \/ ReadAgain(e, rest)
        \/ /\ wire' = rest /\ UNCHANGED <<sock, phase>>
           /\ reading' \in {[reading EXCEPT ![e] = "none"], [reading EXCEPT ![e] = "sync"]}
    BY <1>2 DEF SyncRead, AsyncRead
  <2> HIDE DEF rest
  <2>5. CASE Die(e, rest) \/ ReadAgain(e, rest)
    BY <1>0, <1>1, <2>1, <2>2, <2>3, <2>5
  <2>6. CASE ~(Die(e, rest) \/ ReadAgain(e, rest))
    BY <1>0, <2>1, <2>2, <2>3, <2>4, <2>6 DEF StreamTypeOK
  <2> QED BY <2>5, <2>6
<1>3. ASSUME SyncReadFails(e) \/ AsyncReadFails(e) \/ HollowRead(e)
      PROVE  /\ reading[e] # "none"
             /\ sock' \in {sock, Shut(e)} /\ phase' \in {phase, [phase EXCEPT ![e] = "gone"]}
             /\ wire[e] = <<>> => wire'[e] = <<>>
             /\ wire'[p] \in {wire[p], <<>>} /\ (wire'[p] = wire[p] \/ sock' = Shut(e))
             /\ reading'[p] = reading[p]
             /\ UNCHANGED <<setupVars, accepted, frames, sent, got, whole>>
  <2>1. CASE Die(e, wire) \/ ReadAgain(e, wire)
    BY <1>0, <1>1, <1>3, <2>1 DEF SyncReadFails, AsyncReadFails, HollowRead
  <2>2. CASE ~(Die(e, wire) \/ ReadAgain(e, wire))
    BY <1>0, <1>3, <2>2 DEF SyncReadFails, AsyncReadFails, HollowRead, tcpVars, StreamTypeOK
  <2> QED BY <2>1, <2>2
<1>4. CASE Destroy(e)
  <2>1. /\ phase[e] \notin {"start", "waiting"} /\ sock' = Shut(e) /\ wire' \in Dropped(e, wire)
        /\ UNCHANGED <<setupVars, accepted, phase, frames, sent, got, reading, whole>>
    BY <1>4 DEF Destroy
  <2> QED BY <1>0, <2>1, DroppingIs
<1>5. reading[e] # "none" => phase[e] \notin {"start", "waiting"}
  BY DEF Opening, FreshAt
<1> QED BY <1>2, <1>3, <1>4, <1>5 DEF EndProgress

(* What does not end the opening.                                          *)
LEMMA StaysOpened ==
  ASSUME StreamTypeOK, WireOK, Opening, NEW e \in Ends, phase[e] \notin {"start", "waiting"},
         sock' \in {sock, Shut(e)}, phase' \in {phase, [phase EXCEPT ![e] = "gone"]},
         wire[e] = <<>> => wire'[e] = <<>>,
         \/ wire'[Peer(e)] \in {wire[Peer(e)], <<>>}
         \/ sock[e] = "open",
         LET p == Peer(e)
         IN  got'[p] = got[p] /\ whole'[p] = whole[p] /\ reading'[p] = reading[p]
             /\ frames'[p] = frames[p] /\ sent'[p] = sent[p],
         UNCHANGED <<setupVars, accepted>>
  PROVE  Opening'
<1> DEFINE p == Peer(e)
<1>0. p \in Ends /\ p # e /\ \A d \in Ends : d = e \/ d = p
  BY Peers
<1>1. BegunAt(e)' /\ FreshAt(e)'
  BY DEF Opening, BegunAt, FreshAt, StreamTypeOK, Shut
<1>2. BegunAt(p)' /\ FreshAt(p)'
  BY <1>0 DEF Opening, BegunAt, FreshAt, StreamTypeOK, Shut
<1>3. phase'[p] = phase[p] /\ sock'[p] = sock[p] /\ phase'[e] \notin {"start", "waiting"}
      /\ (sock[e] = "closed" => sock'[e] = "closed")
  BY <1>0 DEF StreamTypeOK, Shut
<1>4. Asking'
  BY <1>0, <1>3, TwoEnds DEF Opening, Asking, setupVars
<1>5. (Accepting <=> Accepting') /\ accepted' = accepted
  BY <1>0, <1>3, TwoEnds DEF Accepting
<1>6. Judged'
  <2>1. CASE e = "client"
    BY <1>0, <1>3, <1>5, <2>1, TwoEnds DEF Opening, Judged
  <2>2. CASE e = "server"
    BY <1>0, <1>3, <1>5, <2>2, TwoEnds DEF Opening, Judged, Peer
  <2> QED BY <2>1, <2>2 DEF Ends
<1>7. Unanswered'
  <2>1. CASE e = "client"
    BY <1>0, <1>3, <1>5, <2>1, TwoEnds DEF Opening, Unanswered, setupVars
  <2>2. CASE e = "server"
    BY <1>5, <2>2 DEF Unanswered, Accepting
  <2> QED BY <2>1, <2>2 DEF Ends
<1> QED BY <1>0, <1>1, <1>2, <1>4, <1>6, <1>7 DEF Opening

(* The server does not accept.                                             *)
LEMMA RejectingIs ==
  ASSUME StreamTypeOK, Opening, phase["server"] = "waiting",
         NEW w, Wires(w), w["client"] = wire["client"], Reject(w), setupVars' = setupVars,
         whole'["client"] = whole["client"]
  PROVE  Opening' /\ accepted' # "returned" /\ wire'["client"] = <<>> /\ sock'["server"] = "closed"
<1> USE TwoEnds
<1>1. Accepting /\ wire["client"] = <<>>
  BY DEF Opening, Unanswered, Accepting
<1>2. /\ accepted' \in {"threw", "silent", "crashed"} /\ wire'["client"] = <<>>
      /\ phase' = [phase EXCEPT !["server"] = "failed"] /\ sock' = Shut("server")
      /\ UNCHANGED <<frames, sent, got, reading>>
  BY <1>1, DroppingIs DEF Reject, Peer
<1>3. /\ phase'["server"] = "failed" /\ sock'["server"] = "closed"
      /\ phase'["client"] = phase["client"] /\ sock'["client"] = sock["client"]
  BY <1>2 DEF StreamTypeOK, Shut
<1>4. ~(Accepting') /\ phase["client"] # "start"
  BY <1>3 DEF Accepting, Opening, Asking
<1>5. client' = client /\ request' = request
  BY DEF setupVars
<1>6. Asking'
  BY <1>2, <1>3, <1>4, <1>5 DEF Opening, Asking
<1>7. Judged' /\ Unanswered'
  BY <1>2, <1>3, <1>4 DEF Judged, Unanswered
<1>8. BegunAt("client")' /\ BegunAt("server")' /\ FreshAt("client")' /\ FreshAt("server")'
  BY <1>2, <1>3 DEF Opening, BegunAt, FreshAt
<1> QED BY <1>2, <1>3, <1>6, <1>7, <1>8 DEF Opening, Ends

(* It accepts: the response, or a part of it, is all that the client has   *)
(* not read.                                                               *)
AcceptsWith(chunk, tail, v) ==
  /\ "valid" \in is_valid(Parse(chunk \o tail))
  /\ v = Parse(chunk \o tail)["sec_websocket_key"] /\ v \in Values
  /\ client # "async_connect" /\ accepted' = "returned"
  /\ phase' = [phase EXCEPT !["server"] = "open"]
  /\ UNCHANGED <<sock, setupVars, frames, sent, got, reading>>
  /\ phase["client"] = "waiting"
  /\ \E k \in 1 .. 5 : wire'["client"] = SubSeq(Response(v), 1, k)
  /\ wire'["server"] = Rest("server", chunk)["server"]

\* or it refuses what it has read, or is_valid kills it
Refuses(chunk, tail) ==
  /\ Reject(Rest("server", chunk))
  /\ \/ /\ "invalid" \in is_valid(Parse(chunk \o tail)) \/ sock["client"] = "closed"
        /\ accepted' # "crashed"
     \/ "crashed" \in is_valid(Parse(chunk \o tail)) /\ accepted' = "crashed"
  /\ accepted' # "returned" /\ wire'["client"] = <<>> /\ sock'["server"] = "closed"

LEMMA AcceptingIs ==
  ASSUME StreamTypeOK, WireOK, Opening, NEW chunk \in Chunks("server"), ServerHandshake(chunk)
  PROVE  /\ Opening'
         /\ phase["server"] = "waiting" /\ setupVars' = setupVars
         /\ \E tail \in Behind(chunk, Earlier) :
              /\ whole' = [whole EXCEPT !["server"] = chunk = request /\ tail = <<>>]
              /\ \/ AcceptsWith(chunk, tail, Parse(chunk \o tail)["sec_websocket_key"])
                 \/ Refuses(chunk, tail)
<1> USE TwoEnds
<1>0. PICK tail \in Behind(chunk, Earlier) :
        LET header == Parse(chunk \o tail)
            rest == Rest("server", chunk)
        IN  /\ phase["server"] = "waiting" /\ setupVars' = setupVars
            /\ whole' = [whole EXCEPT !["server"] = chunk = request /\ tail = <<>>]
            /\ \/ /\ "valid" \in is_valid(header) /\ accepted' = "returned"
                  /\ phase' = [phase EXCEPT !["server"] = "open"]
                  /\ \E w \in Written("server", Response(header["sec_websocket_key"])) :
                       wire' = [rest EXCEPT !["client"] = w["client"]]
                  /\ UNCHANGED <<sock, frames, sent, got, reading>>
               \/ /\ "invalid" \in is_valid(header) \/ WriteFails("server")
                  /\ Reject(rest) /\ accepted' # "crashed"
               \/ "crashed" \in is_valid(header) /\ Reject(rest) /\ accepted' = "crashed"
  BY Zenon DEF ServerHandshake
<1> DEFINE v == Parse(chunk \o tail)["sec_websocket_key"]
           rest == Rest("server", chunk)
           verdict == is_valid(Parse(chunk \o tail))
<1>1. /\ phase["server"] = "waiting" /\ setupVars' = setupVars
      /\ whole' = [whole EXCEPT !["server"] = chunk = request /\ tail = <<>>]
  BY <1>0
<1>2. /\ Wires(rest) /\ rest["client"] = wire["client"] /\ Wires(wire)
      /\ chunk \in Seq(Tokens("server")) /\ v \in Values /\ sock["server"] = "open" /\ chunk # <<>>
  <2>1. /\ Wires(rest) /\ rest["client"] = wire["client"] /\ Wires(wire)
        /\ chunk \in Seq(Tokens("server")) /\ sock["server"] = "open"
    BY ReadingIs DEF WireOK, Peer
  <2>2. PICK k \in 1 .. Len(wire["server"]) : Len(chunk) = k
    BY ReadingIs DEF WireOK
  <2>3. Len(chunk) # 0
    BY <2>2, SMT
  <2>4. chunk \o tail \in Seq(Tokens("server") \cup Asked)
    BY <2>1, BehindIs
  <2> QED BY <2>1, <2>3, <2>4, KeyParsed, EmptySeq
<1>3. Accepting /\ wire["client"] = <<>> /\ phase["client"] # "start" /\ accepted = "pending"
  BY <1>1 DEF Opening, Unanswered, Accepting, Asking, Judged
<1>4. ASSUME Reject(rest),
             \/ ("invalid" \in verdict \/ WriteFails("server")) /\ accepted' # "crashed"
             \/ "crashed" \in verdict /\ accepted' = "crashed"
      PROVE  Opening' /\ Refuses(chunk, tail)
  <2>1. whole'["client"] = whole["client"]
    BY <1>1 DEF StreamTypeOK
  <2>2. WriteFails("server") => sock["client"] = "closed"
    BY <1>2 DEF WriteFails, Peer
  <2> HIDE DEF rest, verdict
  <2>3. Opening' /\ accepted' # "returned" /\ wire'["client"] = <<>> /\ sock'["server"] = "closed"
    BY <1>1, <1>2, <1>4, <2>1, RejectingIs
  <2> QED BY <1>4, <2>2, <2>3 DEF rest, verdict, Refuses
<1>5. ASSUME "valid" \in verdict, accepted' = "returned",
             phase' = [phase EXCEPT !["server"] = "open"],
             NEW w \in Written("server", Response(v)), wire' = [rest EXCEPT !["client"] = w["client"]],
             UNCHANGED <<sock, frames, sent, got, reading>>
      PROVE  Opening' /\ AcceptsWith(chunk, tail, v)
  <2>1. client # "async_connect"
    BY <1>2, <1>5, ValidLines
  <2>2. phase["client"] = "waiting" /\ sock["client"] = "open"
    BY <1>3, <2>1 DEF Opening, Unanswered, BegunAt
  <2>3. Response(v) \in Seq(Tokens(Peer("server"))) /\ Len(Response(v)) = 5
    BY <1>2, <2>1, ResponseLines DEF Peer
  <2>4. PICK k \in 1 .. Len(Response(v)) : w["client"] = wire["client"] \o SubSeq(Response(v), 1, k)
    BY <1>2, <1>5, <2>2, <2>3, WritingIs DEF Peer
  <2>5. k \in 1 .. 5 /\ SubSeq(Response(v), 1, k) \in Seq(Answered)
    <3>1. k \in 1 .. 5 /\ k \in 0 .. Len(Response(v))
      BY <2>3, SMT
    <3> QED BY <1>2, <3>1, ResponseLines, Cut
  <2>6. w["client"] = SubSeq(Response(v), 1, k)
    BY <1>3, <2>4, <2>5, ConcatEmptySeq
  <2>7. wire'["client"] = w["client"] /\ wire'["server"] = rest["server"]
    BY <1>2, <1>5 DEF Wires
  <2>8. AcceptsWith(chunk, tail, v)
    BY <1>1, <1>2, <1>5, <2>1, <2>2, <2>5, <2>6, <2>7 DEF AcceptsWith
  <2>9. /\ phase'["server"] = "open" /\ phase'["client"] = "waiting"
        /\ whole'["client"] = whole["client"] /\ client' = client /\ request' = request
    BY <1>1, <1>5, <2>2 DEF StreamTypeOK, setupVars
  <2>10. Asking' /\ Judged' /\ Unanswered'
    BY <1>5, <2>1, <2>9 DEF Opening, Asking, Judged, Unanswered, Accepting
  <2>11. BegunAt("client")' /\ BegunAt("server")' /\ FreshAt("client")' /\ FreshAt("server")'
    BY <1>2, <1>5, <2>2, <2>9 DEF Opening, BegunAt, FreshAt
  <2> QED BY <2>8, <2>10, <2>11 DEF Opening, Ends
<1>6. \/ /\ Reject(rest)
         /\ \/ ("invalid" \in verdict \/ WriteFails("server")) /\ accepted' # "crashed"
            \/ "crashed" \in verdict /\ accepted' = "crashed"
      \/ /\ "valid" \in verdict /\ accepted' = "returned"
         /\ phase' = [phase EXCEPT !["server"] = "open"]
         /\ \E w \in Written("server", Response(v)) : wire' = [rest EXCEPT !["client"] = w["client"]]
         /\ UNCHANGED <<sock, frames, sent, got, reading>>
  BY <1>0, Zenon
<1> HIDE DEF v, rest, verdict
<1>7. Opening' /\ (AcceptsWith(chunk, tail, v) \/ Refuses(chunk, tail))
  BY <1>4, <1>5, <1>6
<1> QED BY <1>1, <1>7 DEF v

(* What an end writes changes nothing but what the other has not read.     *)
LEMMA SayingIs ==
  ASSUME StreamTypeOK, WireOK, NEW e \in Ends
  PROVE  /\ \A via \in {"sync", "async", "delegate"}, opcode \in Ops :
              Write(e, via, opcode) =>
                /\ phase[e] = "open" /\ sock[e] = "open" /\ wire'[e] = wire[e]
                /\ UNCHANGED <<sock, phase, setupVars, accepted, got, whole, reading>>
                /\ frames'[Peer(e)] = frames[Peer(e)]
         /\ Disconnect(e) =>
                /\ phase[e] \in {"open", "failed"} /\ sock[e] = "open" /\ wire'[e] = <<>>
                /\ sock' = Shut(e)
                /\ UNCHANGED <<phase, setupVars, accepted, frames, sent, got, whole, reading>>
<1>0. Wires(wire) /\ Peer(e) \in Ends /\ Peer(e) # e
  BY Peers DEF WireOK
<1>1. ASSUME NEW m \in Messages, NEW data \in {Frame(e, m), Garbage}, NEW w \in Written(e, data)
      PROVE  Wires(w) /\ w[e] = wire[e]
  BY <1>0, <1>1, Saying, WritingIs
<1>2. ASSUME NEW via \in {"sync", "async", "delegate"}, NEW opcode \in Ops, Write(e, via, opcode)
      PROVE  /\ phase[e] = "open" /\ sock[e] = "open" /\ wire'[e] = wire[e]
             /\ UNCHANGED <<sock, phase, setupVars, accepted, got, whole, reading>>
             /\ frames'[Peer(e)] = frames[Peer(e)]
  <2>1. wire'[e] = wire[e]
    BY <1>1, <1>2, Sayable DEF Write, Buffers
  <2> QED BY <1>0, <1>2, <2>1 DEF Write, StreamTypeOK
<1>3. ASSUME Disconnect(e)
      PROVE  /\ phase[e] \in {"open", "failed"} /\ sock[e] = "open" /\ wire'[e] = <<>>
             /\ sock' = Shut(e)
             /\ UNCHANGED <<phase, setupVars, accepted, frames, sent, got, whole, reading>>
  BY <1>1, <1>3, Sayable, DroppingIs DEF Disconnect
<1> QED BY <1>2, <1>3

LEMMA OpeningStep == StreamTypeOK /\ WireOK /\ LogsOK /\ Opening /\ [Next]_vars => Opening'
<1> SUFFICES ASSUME StreamTypeOK, WireOK, LogsOK, Opening, [Next]_vars PROVE Opening'
  OBVIOUS
<1> USE TwoEnds
<1>1. CASE UNCHANGED <<sock, wire, setupVars, accepted, phase, frames, sent, got, reading, whole>>
  BY <1>1 DEF Opening, Asking, Judged, Unanswered, BegunAt, FreshAt, Accepting, setupVars
<1>2. CASE Connect
  <2>1. /\ client # "async_connect" /\ phase["client"] = "start"
        /\ phase' = [phase EXCEPT !["client"] = "waiting"]
        /\ sock' = [sock EXCEPT !["client"] = "open"]
        /\ UNCHANGED <<client, request, accepted, frames, sent, got, reading, whole>>
    BY <1>2 DEF Connect, setupVars
  <2>2. phase["server"] = "start" /\ wire["client"] = <<>> /\ wire["server"] = <<>>
    BY <2>1 DEF Opening, Asking, Unanswered, Accepting
  <2>3. request \in Seq(Tokens("server")) /\ wire' \in Written("client", request) /\ Wires(wire)
    BY <1>2, AskedLines DEF Connect, WireOK
  <2>4. sock["server"] = "none"
    BY <2>2 DEF Opening, BegunAt
  <2>5. PICK k \in 1 .. Len(request) :
          wire'["client"] = <<>> /\ wire'["server"] = wire["server"] \o SubSeq(request, 1, k)
    BY <2>2, <2>3, <2>4, WritingIs DEF Peer
  <2>6. k \in 0 .. Len(request)
    BY <2>3, LenProperties, SMT
  <2>7. SubSeq(request, 1, k) \in Seq(Tokens("server"))
    BY <2>3, <2>6, Cut
  <2>8. wire'["server"] \in Pieces(request)
    BY <2>2, <2>5, <2>6, <2>7, ConcatEmptySeq DEF Pieces
  <2>9. /\ phase'["client"] = "waiting" /\ phase'["server"] = phase["server"]
        /\ sock'["client"] = "open" /\ sock'["server"] = sock["server"]
    BY <2>1 DEF StreamTypeOK
  <2>10. Pieces(request)' = Pieces(request)
    BY <2>1 DEF Pieces
  <2>11. Asking' /\ Judged' /\ Unanswered'
    BY <2>1, <2>2, <2>5, <2>8, <2>9, <2>10 DEF Opening, Asking, Judged, Unanswered, Accepting
  <2>12. BegunAt("client")' /\ BegunAt("server")' /\ FreshAt("client")' /\ FreshAt("server")'
    BY <2>1, <2>9 DEF Opening, BegunAt, FreshAt
  <2> QED BY <2>11, <2>12 DEF Opening, Ends
<1>3. CASE AsyncConnect
  <2>1. /\ client = "async_connect" /\ phase["client"] = "start"
        /\ phase'["client"] = "open" /\ phase'["server"] = phase["server"]
        /\ sock'["client"] = "open" /\ sock'["server"] = sock["server"]
        /\ UNCHANGED <<wire, client, request, accepted, frames, sent, got, reading, whole>>
    BY <1>3 DEF AsyncConnect, setupVars, StreamTypeOK
  <2> QED BY <2>1 DEF Opening, Asking, Judged, Unanswered, Accepting, BegunAt, FreshAt, Ends
<1>4. CASE TcpAccept
  <2>1. /\ phase["server"] = "start" /\ sock["client"] # "none"
        /\ phase'["server"] = "waiting" /\ phase'["client"] = phase["client"]
        /\ sock'["server"] = "open" /\ sock'["client"] = sock["client"]
        /\ UNCHANGED <<wire, client, request, accepted, frames, sent, got, reading, whole>>
    BY <1>4 DEF TcpAccept, setupVars, StreamTypeOK
  <2>2. Pieces(request)' = Pieces(request)
    BY <2>1 DEF Pieces
  <2> QED BY <2>1, <2>2 DEF Opening, Asking, Judged, Unanswered, Accepting, BegunAt, FreshAt, Ends
<1>5. ASSUME phase["client"] = "waiting", ~Accepting, client # "async_connect",
             wire' = wire \/ \E chunk \in Chunks("client") : wire' = Rest("client", chunk),
             phase'["client"] \in {"open", "failed"}, phase'["server"] = phase["server"],
             UNCHANGED <<sock, setupVars, accepted, frames, sent, got, reading>>,
             whole'["server"] = whole["server"]
      PROVE  Opening'
  <2>1. wire["client"] = <<>> => wire'["client"] = <<>>
    <3>1. ASSUME NEW chunk \in Chunks("client") PROVE wire["client"] # <<>>
      BY ReadingIs, EmptySeq, SMT DEF WireOK
    <3> QED BY <1>5, <3>1
  <2>2. ~(Accepting')
    BY <1>5 DEF Accepting
  <2>3. Asking' /\ Judged' /\ Unanswered'
    BY <1>5, <2>1, <2>2 DEF Opening, Asking, Judged, Unanswered, setupVars
  <2>4. BegunAt("client")' /\ BegunAt("server")' /\ FreshAt("client")' /\ FreshAt("server")'
    BY <1>5 DEF Opening, BegunAt, FreshAt
  <2> QED BY <2>3, <2>4 DEF Opening, Ends
<1>6. ASSUME NEW chunk \in Chunks("client"), ClientResponse(chunk) PROVE Opening'
  <2>1. wire["client"] # <<>>
    BY ReadingIs, EmptySeq, SMT DEF WireOK
  <2>2. ~Accepting
    BY <2>1 DEF Opening, Unanswered
  <2> QED BY <1>5, <1>6, <2>2 DEF ClientResponse, StreamTypeOK
<1>7. CASE ConnectFails
  <2>1. phase["client"] = "waiting" /\ sock["client"] = "open" /\ sock["server"] = "closed"
    BY <1>7 DEF ConnectFails, ReadFails, Opening, BegunAt, Peer
  <2>2. ~Accepting /\ client # "async_connect"
    BY <2>1 DEF Opening, BegunAt, Accepting, Asking
  <2> QED BY <1>5, <1>7, <2>1, <2>2 DEF ConnectFails, StreamTypeOK, tcpVars
<1>8. CASE HandshakeFails
  BY <1>8, RejectingIs DEF HandshakeFails, WireOK
<1>9. ASSUME NEW chunk \in Chunks("server"), ServerHandshake(chunk) PROVE Opening'
  BY <1>9, AcceptingIs
<1>10. ASSUME NEW e \in Ends, NEW via \in {"sync", "async", "delegate"}, NEW opcode \in Ops,
              Write(e, via, opcode)
       PROVE  Opening'
  <2>1. /\ phase[e] = "open" /\ sock[e] = "open" /\ wire'[e] = wire[e]
        /\ UNCHANGED <<sock, phase, setupVars, accepted, got, whole, reading>>
        /\ frames'[Peer(e)] = frames[Peer(e)]
    BY <1>10, SayingIs
  <2>2. sent'[Peer(e)] = sent[Peer(e)]
    BY <1>10, Peers DEF Write, LogsOK
  <2> QED BY <2>1, <2>2, StaysOpened
<1>11. ASSUME NEW e \in Ends, Disconnect(e) PROVE Opening'
  <2>1. /\ phase[e] \in {"open", "failed"} /\ sock[e] = "open" /\ wire'[e] = <<>>
        /\ sock' = Shut(e)
        /\ UNCHANGED <<phase, setupVars, accepted, frames, sent, got, whole, reading>>
    BY <1>11, SayingIs
  <2> QED BY <2>1, StaysOpened
<1>12. ASSUME NEW e \in Ends, EndProgress(e) \/ Destroy(e) PROVE Opening'
  BY <1>12, Ending, StaysOpened
<1>13. ASSUME NEW e \in Ends, NEW how \in {"sync", "async"}, Read(e, how) PROVE Opening'
  <2>1. /\ phase[e] = "open" /\ UNCHANGED <<sock, wire, setupVars, accepted, phase, frames, sent, got, whole>>
        /\ reading'[Peer(e)] = reading[Peer(e)]
    BY <1>13, Peers DEF Read, tcpVars, StreamTypeOK
  <2> QED BY <2>1, StaysOpened
<1>14. CASE UNCHANGED vars
  BY <1>1, <1>14 DEF vars, tcpVars, streamVars
<1> QED BY <1>2, <1>3, <1>4, <1>6, <1>7, <1>8, <1>9, <1>10, <1>11, <1>12, <1>13, <1>14 DEF Next, Progress

-----------------------------------------------------------------------------
(* The judgement of the server.                                            *)

LEMMA OwnValues ==
  ASSUME NEW l \in Range(ConnectRequest)
  PROVE  \/ l.value = [get |-> 0, http |-> 10, end |-> 18] \/ l.value = [websocket |-> 0, end |-> 9]
         \/ l.value = [upgrade |-> 0, end |-> 7] \/ l.value = [key |-> 0]
         \/ l.value = [v13 |-> 0, end |-> 2] \/ l.value = <<>>
<1>1. PICK i \in DOMAIN ConnectRequest : l = ConnectRequest[i]
  BY DEF Range
<1>2. i \in 1 .. 6
  BY <1>1, SMT DEF ConnectRequest
<1>3. i = 1 \/ i = 2 \/ i = 3 \/ i = 4 \/ i = 5 \/ i = 6
  BY <1>2, SMT
<1> QED BY <1>1, <1>3, SMT DEF ConnectRequest, Line, Blank, LibraryKey

LEMMA Offsets ==
  ASSUME NEW l \in Asked, NEW w \in DOMAIN l.value
  PROVE  l.value[w] \in Nat
<1>1. CASE l \in Range(ConnectRequest)
  BY <1>1, OwnValues
<1>2. CASE \E r \in Requests : l \in Range(r)
  BY <1>2, RequestsAssumption DEF IsRequestLine
<1> QED BY <1>1, <1>2 DEF Asked

(* What is_valid comes to when no header is too long for its search.       *)
LEMMA ShortJudged ==
  ASSUME NEW header, \A w \in Wanted : ~Overruns(header[w[1]])
  PROVE  is_valid(header) = IF \A w \in Wanted : found(header, w) THEN {"valid"} ELSE {"invalid"}
BY SearchesAre DEF is_valid

(* What the server makes of a request that it has read as it was sent.     *)
LEMMA RequestJudged ==
  ASSUME WireOK, ~Overlong(request)
  PROVE  /\ "valid" \in is_valid(Parse(request)) => Asks(request)
         /\ "invalid" \in is_valid(Parse(request)) => ~Flawless(request)
         /\ "crashed" \notin is_valid(Parse(request))
<1>0. request \in Seq(LinesTo("server")) /\ \A i \in 1 .. Len(request) : request[i] \in LinesTo("server")
  BY ElementOfSeq DEF WireOK
<1>1. DOMAIN request = 1 .. Len(request)
  BY <1>0, LenProperties
<1>2. ASSUME NEW w \in Wanted PROVE ~Overruns(Parse(request)[w[1]])
  <2>1. SUFFICES ASSUME "end" \in DOMAIN Parse(request)[w[1]], Overruns(Parse(request)[w[1]])
                 PROVE  FALSE
    BY DEF Overruns
  <2>2. w[1] \in Fields
    BY SearchesAre
  <2>3. PICK i \in 1 .. Len(request) :
          request[i].field = w[1] /\ Parse(request)[w[1]] = request[i].value
    BY <1>0, <2>1, <2>2, HeaderLine
  <2> QED BY <1>1, <2>1, <2>3 DEF Overlong
<1>3. is_valid(Parse(request)) =
        IF \A w \in Wanted : found(Parse(request), w) THEN {"valid"} ELSE {"invalid"}
  BY <1>2, ShortJudged
<1>4. ASSUME \A w \in Wanted : found(Parse(request), w) PROVE Asks(request)
  <2> SUFFICES ASSUME NEW w \in Wanted
               PROVE  \E i \in DOMAIN request : request[i].field = w[1] /\ w[2] \in DOMAIN request[i].value
    BY DEF Asks
  <2>1. w[2] \in DOMAIN Parse(request)[w[1]] /\ w[1] \in Fields
    BY <1>4, SearchesAre DEF found, find_case_insensitive
  <2> QED BY <1>0, <1>1, <2>1, HeaderLine
<1>5. ASSUME Flawless(request), NEW w \in Wanted PROVE found(Parse(request), w)
  <2>1. PICK i \in DOMAIN request : request[i].field = w[1]
    BY <1>5 DEF Flawless
  <2>2. i \in LinesWith(w[1], request)
    BY <1>0, <1>1, <2>1, LinesAreLines, TwoEnds DEF LinesWith
  <2>3. PICK j \in LinesWith(w[1], request) :
          /\ j \in DOMAIN request /\ request[j].field = w[1]
          /\ Parse(request)[w[1]] = request[j].value
    BY <1>0, <1>1, <2>2, SearchesAre, ParsedLine
  <2>4. w[2] \in DOMAIN request[j].value /\ request[j].value[w[2]] # 1
    BY <1>5, <2>3 DEF Flawless
  <2>5. request[j].value[w[2]] \in Nat
    BY <1>0, <1>1, <2>3, <2>4, Offsets DEF LinesTo
  <2> DEFINE n == request[j].value[w[2]]
  <2>6. -n # -1
    <3> HIDE DEF n
    <3> QED BY <2>4, <2>5, SMT DEF n
  <2> QED BY <2>3, <2>4, <2>6 DEF found, find_case_insensitive, not_found
<1> QED BY <1>3, <1>4, <1>5

(* What has been decided stays.                                            *)
LEMMA DecidedStays ==
  ASSUME StreamTypeOK, WireOK, LogsOK, Opening, [Next]_vars
  PROVE  /\ setupVars' = setupVars
         /\ accepted # "pending" => accepted' = accepted /\ (whole'["server"] => whole["server"])
         /\ \A e \in Ends : sock[e] = "closed" => sock'[e] = "closed"
         /\ accepted' # accepted =>
              \/ HandshakeFails
              \/ \E chunk \in Chunks("server") : ServerHandshake(chunk)
<1> USE TwoEnds
<1> DEFINE Same == UNCHANGED <<client, request, length>>
           Settled == whole'["server"] => whole["server"]
           Shutting == \A e \in Ends : sock[e] = "closed" => sock'[e] = "closed"
           All == Same /\ accepted' = accepted /\ Settled /\ Shutting
<1>1. ASSUME Connect \/ AsyncConnect \/ TcpAccept
      PROVE  All
  BY <1>1 DEF Connect, AsyncConnect, TcpAccept, Opening, BegunAt, StreamTypeOK, setupVars
<1>2. ASSUME NEW chunk \in Chunks("client"), ClientResponse(chunk)
      PROVE  All
  BY <1>2 DEF ClientResponse, StreamTypeOK, setupVars
<1>3. ASSUME ConnectFails
      PROVE  All
  BY <1>3 DEF ConnectFails, setupVars, tcpVars
<1>4. ASSUME HandshakeFails \/ \E chunk \in Chunks("server") : ServerHandshake(chunk)
      PROVE  accepted = "pending" /\ Same /\ Shutting
  BY <1>4 DEF HandshakeFails, ServerHandshake, Reject, Shut, Opening, Judged, Accepting, StreamTypeOK,
       setupVars
<1>5. ASSUME NEW e \in Ends, NEW via \in {"sync", "async", "delegate"}, NEW opcode \in Ops,
             Write(e, via, opcode)
      PROVE  All
  BY <1>5 DEF Write, setupVars
<1>6. ASSUME NEW e \in Ends, Disconnect(e) \/ Destroy(e)
      PROVE  All
  BY <1>6 DEF Disconnect, Destroy, Shut, StreamTypeOK, setupVars
<1>7. ASSUME NEW e \in Ends, NEW how \in {"sync", "async"}, Read(e, how)
      PROVE  All
  BY <1>7 DEF Read, tcpVars, setupVars
<1>8. ASSUME NEW e \in Ends, EndProgress(e)
      PROVE  All
  <2>1. UNCHANGED <<setupVars, accepted>> /\ sock' \in {sock, Shut(e)}
        /\ whole'[Peer(e)] = whole[Peer(e)]
    BY <1>8, Ending
  <2>2. whole'[e] => whole[e]
    BY <1>8 DEF EndProgress, SyncRead, AsyncRead, SyncReadFails, AsyncReadFails, HollowRead, StreamTypeOK
  <2> QED BY <2>1, <2>2, Peers DEF Shut, StreamTypeOK, setupVars
<1>9. ASSUME UNCHANGED vars
      PROVE  All
  BY <1>9 DEF vars, tcpVars, streamVars, setupVars
<1>10. \/ All
       \/ HandshakeFails
       \/ \E chunk \in Chunks("server") : ServerHandshake(chunk)
  <2> HIDE DEF All
  <2> QED BY <1>1, <1>2, <1>3, <1>5, <1>6, <1>7, <1>8, <1>9 DEF Next, Progress
<1> QED BY <1>4, <1>10 DEF setupVars

LEMMA JudgingStep ==
  StreamTypeOK /\ WireOK /\ LogsOK /\ Opening /\ JudgesRight /\ [Next]_vars => JudgesRight'
<1> SUFFICES ASSUME StreamTypeOK, WireOK, LogsOK, Opening, JudgesRight, [Next]_vars,
                    whole'["server"]
             PROVE  /\ accepted' = "returned" => Overlong(request') \/ Asks(request')
                    /\ accepted' \in {"threw", "silent"} =>
                         Overlong(request') \/ ~Flawless(request') \/ sock'["client"] = "closed"
                    /\ accepted' = "crashed" => Overlong(request')
  BY DEF JudgesRight
<1> USE TwoEnds
<1>1. /\ request' = request
      /\ accepted # "pending" => accepted' = accepted /\ whole["server"]
      /\ sock["client"] = "closed" => sock'["client"] = "closed"
      /\ accepted' # accepted =>
           \/ HandshakeFails
           \/ \E chunk \in Chunks("server") : ServerHandshake(chunk)
  BY DecidedStays DEF setupVars
<1>2. CASE accepted' = accepted /\ accepted # "pending"
  BY <1>1, <1>2 DEF JudgesRight
<1>3. CASE accepted' = accepted /\ accepted = "pending"
  BY <1>3
<1>4. CASE HandshakeFails
  <2>1. sock["client"] = "closed"
    BY <1>4 DEF HandshakeFails, ReadFails, Opening, BegunAt, Peer
  <2>2. accepted' \in {"threw", "silent"}
    BY <1>4 DEF HandshakeFails, Reject
  <2> QED BY <1>1, <2>1, <2>2
<1>5. ASSUME NEW chunk \in Chunks("server"), ServerHandshake(chunk)
      PROVE  /\ accepted' = "returned" => Overlong(request') \/ Asks(request')
             /\ accepted' \in {"threw", "silent"} =>
                  Overlong(request') \/ ~Flawless(request') \/ sock'["client"] = "closed"
             /\ accepted' = "crashed" => Overlong(request')
  <2>1. PICK tail \in Behind(chunk, Earlier) :
          /\ whole' = [whole EXCEPT !["server"] = chunk = request /\ tail = <<>>]
          /\ \/ AcceptsWith(chunk, tail, Parse(chunk \o tail)["sec_websocket_key"])
             \/ Refuses(chunk, tail)
    BY <1>5, AcceptingIs
  <2>2. chunk = request /\ tail = <<>>
    BY <2>1 DEF StreamTypeOK
  <2>3. chunk \o tail = request
    BY <2>2, ConcatEmptySeq DEF WireOK
  <2>4. CASE Overlong(request)
    <3>1. accepted' = accepted \/ accepted' # "pending"
      BY <2>1 DEF AcceptsWith, Refuses, Reject
    <3> QED BY <1>1, <2>4
  <2>5. CASE ~Overlong(request)
    BY <1>1, <2>1, <2>3, <2>5, RequestJudged DEF AcceptsWith, Refuses
  <2> QED BY <2>4, <2>5
<1> QED BY <1>1, <1>2, <1>3, <1>4, <1>5

(* Whatever the clients send: of a request that came in one piece, with    *)
(* nothing of an earlier one behind it and no header of 512 characters or  *)
(* more, the server makes a stream only when every word is asked for, and  *)
(* it refuses it, with an exception or in silence, only when it has a flaw *)
(* or the client has hung up.  The process dies in is_valid only for a     *)
(* header too long (xwebsocket_stream_impl.cpp:106-214 and 631-716,        *)
(* string.h:55-75).                                                        *)
THEOREM ServerJudgesRight == Spec => []JudgesRight
<1> DEFINE Inv == StreamTypeOK /\ WireOK /\ LogsOK /\ Opening /\ JudgesRight
<1>1. Init => Inv
  <2> SUFFICES ASSUME Init PROVE Inv
    OBVIOUS
  <2>1. LogsOK
    BY EmptySeq, Zenon DEF Init, LogsOK
  <2>2. JudgesRight
    BY DEF Init, JudgesRight
  <2> QED BY <2>1, <2>2, StreamTypeInit, WireInit, OpeningInit
<1>2. Inv /\ [Next]_vars => Inv'
  BY StreamTypeStep, WireStep, LogsStep, OpeningStep, JudgingStep
<1>3. Inv => JudgesRight
  OBVIOUS
<1> QED BY <1>1, <1>2, <1>3, PTL DEF Spec

-----------------------------------------------------------------------------
(* The frames that an end has not read, in the order of their numbers.     *)

\* the i-th two parts of w are one frame
Pair(w, i) == w[2 * i - 1].part = 1 /\ w[2 * i] = [of |-> w[2 * i - 1].of, part |-> 2, raw |-> <<>>]

\* m is the message with the number d of a writer that has written n, among
\* them with data s
IsData(d, s) == \E j \in 1 .. Len(s) : s[j] = d
Numbered(m, d, s, n) == m.n = d /\ d <= n /\ (m.op = "binary_frame" <=> IsData(d, s))

\* what follows k frames is not one, nor will it be one
Torn(w, k, over) ==
  /\ 2 * k < Len(w)
  /\ 2 * k + 1 < Len(w) => ~Pair(w, k + 1)
  /\ 2 * k + 1 = Len(w) => over \/ w[2 * k + 1].part # 1 \/ w[2 * k + 1].of # CloseFrame

\* w begins with k frames, which come after the first c of a writer that has
\* written n messages, among them with data s, and may have hung up; the
\* reader has got the first g of s
Follows(w, c, k, s, g, n, over) ==
  /\ 2 * k <= Len(w) /\ g <= Len(s)
  /\ \A j \in 1 .. Len(s) : j <= g <=> s[j] <= c
  /\ \A i \in 1 .. k : Pair(w, i)
  /\ \A i \in 1 .. k : \/ Numbered(w[2 * i].of, c + i, s, n)
                       \/ w[2 * i].of = CloseFrame /\ over /\ Len(w) = 2 * i
  /\ \/ Len(w) = 2 * k /\ (c + k = n \/ over)
     \/ Torn(w, k, over) /\ (c + k < n \/ over)

Rising(s, n) ==
  /\ s \in Seq(Nat)
  /\ \A j \in 1 .. Len(s) : s[j] <= n
  /\ \A i, j \in 1 .. Len(s) : i < j => s[i] < s[j]

LEMMA Rises ==
  ASSUME NEW n \in Nat, NEW s, Rising(s, n)
  PROVE  Rising(s, n + 1) /\ Rising(Append(s, n + 1), n + 1)
<1> DEFINE r == Append(s, n + 1)
<1>1. /\ Len(s) \in Nat /\ r \in Seq(Nat) /\ Len(r) = Len(s) + 1
      /\ r[Len(s) + 1] = n + 1 /\ \A i \in 1 .. Len(s) : r[i] = s[i] /\ s[i] \in Nat
  BY AppendProperties, LenProperties, ElementOfSeq DEF Rising
<1> HIDE DEF r
<1>2. ASSUME NEW j \in 1 .. Len(r) PROVE j = Len(s) + 1 \/ j \in 1 .. Len(s)
  BY <1>1, SMT
<1>3. ASSUME NEW j \in 1 .. Len(r) PROVE r[j] <= n + 1
  <2>1. CASE j \in 1 .. Len(s)
    <3>1. s[j] <= n /\ s[j] \in Nat /\ r[j] = s[j]
      BY <1>1, <2>1 DEF Rising
    <3> QED BY <3>1, SMT
  <2>2. CASE j = Len(s) + 1
    BY <1>1, <2>2
  <2> QED BY <1>2, <2>1, <2>2
<1>4. ASSUME NEW i \in 1 .. Len(r), NEW j \in 1 .. Len(r), i < j PROVE r[i] < r[j]
  <2>1. i \in 1 .. Len(s)
    BY <1>1, <1>4, SMT
  <2>2. CASE j \in 1 .. Len(s)
    BY <1>1, <1>4, <2>1, <2>2 DEF Rising
  <2>3. CASE j = Len(s) + 1
    <3>1. s[i] <= n /\ s[i] \in Nat /\ r[i] = s[i] /\ r[j] = n + 1
      BY <1>1, <2>1, <2>3 DEF Rising
    <3> QED BY <3>1, SMT
  <2> QED BY <1>2, <2>2, <2>3
<1>5. \A j \in 1 .. Len(s) : s[j] <= n + 1
  BY <1>1, SMT DEF Rising
<1> QED BY <1>1, <1>3, <1>4, <1>5 DEF Rising, r

\* t is what goes of the message m: its frame, the first part of it, or the
\* buffer that async_write has left behind
Goes(t, m) ==
  \/ \E a : /\ a.part = 1 /\ a.of = m /\ t[1] = a
            /\ Len(t) = 1 \/ (Len(t) = 2 /\ t[2] = [of |-> m, part |-> 2, raw |-> <<>>])
  \/ Len(t) = 1 /\ t[1] = [of |-> CloseFrame, part |-> 2, raw |-> <<>>] /\ m # CloseFrame

\* with m the writer goes on, or hangs up
Writes(m, s, n, r, n2, over) ==
  \/ /\ over = FALSE /\ n2 = n + 1 /\ m.n = n + 1 /\ m # CloseFrame
     /\ r = IF m.op = "binary_frame" THEN Append(s, n + 1) ELSE s
  \/ over = TRUE /\ n2 = n /\ m = CloseFrame /\ r = s

(* The writer goes on, or ends with a close frame.                         *)
LEMMA Continues ==
  ASSUME NEW S, NEW w \in Seq(S), NEW t \in Seq(S),
         NEW c \in Nat, NEW k \in Nat, NEW g \in Nat, NEW n \in Nat, NEW s, Rising(s, n),
         Follows(w, c, k, s, g, n, FALSE),
         NEW m, Goes(t, m),
         NEW r, NEW n2, NEW over, Writes(m, s, n, r, n2, over)
  PROVE  \E k2 \in Nat : Follows(w \o t, c, k2, r, g, n2, over)
<1>a. \/ /\ over = FALSE /\ n2 = n + 1 /\ m.n = n + 1 /\ m # CloseFrame
         /\ r = IF m.op = "binary_frame" THEN Append(s, n + 1) ELSE s
      \/ over = TRUE /\ n2 = n /\ m = CloseFrame /\ r = s
  BY DEF Writes
<1>b. PICK a, b :
        /\ a.part = 1 /\ a.of = m /\ b = [of |-> m, part |-> 2, raw |-> <<>>]
        /\ \/ Len(t) = 2 /\ t[1] = a /\ t[2] = b
           \/ Len(t) = 1 /\ t[1] = a
           \/ Len(t) = 1 /\ t[1] = [of |-> CloseFrame, part |-> 2, raw |-> <<>>] /\ m # CloseFrame
  <2>1. CASE \E a : /\ a.part = 1 /\ a.of = m /\ t[1] = a
                    /\ Len(t) = 1 \/ (Len(t) = 2 /\ t[2] = [of |-> m, part |-> 2, raw |-> <<>>])
    BY <2>1
  <2>2. CASE Len(t) = 1 /\ t[1] = [of |-> CloseFrame, part |-> 2, raw |-> <<>>] /\ m # CloseFrame
    <3>1. [of |-> m, part |-> 1].part = 1 /\ [of |-> m, part |-> 1].of = m
      OBVIOUS
    <3> QED BY <2>2, <3>1
  <2> QED BY <2>1, <2>2 DEF Goes
<1> USE <1>a, <1>b
<1> DEFINE v == w \o t
           L == Len(w)
           x == [of |-> CloseFrame, part |-> 2, raw |-> <<>>]
<1>1. /\ L \in Nat /\ Len(v) = L + Len(t) /\ Len(t) \in Nat
      /\ \A i \in 1 .. L : v[i] = w[i]
      /\ \A i \in 1 .. Len(t) : v[L + i] = t[i]
  <2>1. v \in Seq(S) /\ Len(v) = L + Len(t) /\ L \in Nat /\ Len(t) \in Nat
    BY ConcatProperties, LenProperties
  <2>2. \A i \in 1 .. Len(w) + Len(t) : v[i] = IF i <= Len(w) THEN w[i] ELSE t[i - Len(w)]
    BY ConcatProperties
  <2> HIDE DEF v, L
  <2>3. \A i \in 1 .. L : v[i] = w[i]
    BY <2>1, <2>2, SMT DEF L
  <2>4. ASSUME NEW i \in 1 .. Len(t) PROVE v[L + i] = t[i]
    <3>1. L + i \in 1 .. L + Len(t) /\ ~(L + i <= L) /\ (L + i) - L = i
      BY <2>1, SMT
    <3> QED BY <2>2, <3>1 DEF L
  <2> QED BY <2>1, <2>3, <2>4
<1>2. /\ 2 * k <= L /\ g <= Len(s)
      /\ \A j \in 1 .. Len(s) : j <= g <=> s[j] <= c
      /\ \A i \in 1 .. k : Pair(w, i) /\ Numbered(w[2 * i].of, c + i, s, n)
      /\ \/ L = 2 * k /\ c + k = n
         \/ Torn(w, k, FALSE) /\ c + k < n
  BY DEF Follows
<1>3. Len(s) \in Nat /\ \A j \in 1 .. Len(s) : s[j] \in Nat /\ s[j] <= n
  BY LenProperties, ElementOfSeq DEF Rising
<1>4. x # a /\ x.part = 2 /\ x.of = CloseFrame
  <2>1. x.part = 2
    OBVIOUS
  <2> QED BY <2>1
<1> HIDE DEF v, L, x
\* the numbers
<1>5. /\ g <= Len(r) /\ (\A j \in 1 .. Len(r) : j <= g <=> r[j] <= c)
      /\ \A d \in Nat : d <= n => (IsData(d, s) <=> IsData(d, r))
      /\ over = FALSE => (m.op = "binary_frame" <=> IsData(n + 1, r))
  <2>1. CASE r = s
    <3>1. ~IsData(n + 1, s)
      BY <1>3, SMT DEF IsData
    <3>2. over = FALSE => m.op # "binary_frame"
      <4>1. ASSUME over = FALSE, m.op = "binary_frame" PROVE FALSE
        <5>1. s = Append(s, n + 1)
          BY <2>1, <4>1
        <5>2. Len(Append(s, n + 1)) = Len(s) + 1
          BY AppendProperties DEF Rising
        <5> QED BY <1>3, <5>1, <5>2, SMT
      <4> QED BY <4>1
    <3> QED BY <1>2, <2>1, <3>1, <3>2
  <2>2. CASE r = Append(s, n + 1) /\ m.op = "binary_frame"
    <3>1. /\ Len(r) = Len(s) + 1 /\ r[Len(s) + 1] = n + 1
          /\ \A i \in 1 .. Len(s) : r[i] = s[i]
      BY <2>2, AppendProperties DEF Rising
    <3>2. g <= Len(r) /\ c <= n /\ Len(s) + 1 \in 1 .. Len(r)
          /\ \A j \in 1 .. Len(r) : j = Len(s) + 1 \/ j \in 1 .. Len(s)
      <4>1. c + k = n \/ c + k < n
        BY <1>2
      <4>2. c <= n
        BY <4>1, SMT
      <4>3. Len(s) \in Nat /\ Len(r) = Len(s) + 1 /\ g <= Len(s)
        BY <1>2, <1>3, <3>1
      <4> QED BY <4>2, <4>3, SMT
    <3>3. ASSUME NEW j \in 1 .. Len(r) PROVE j <= g <=> r[j] <= c
      <4>1. CASE j = Len(s) + 1
        <5>1. ~(j <= g) /\ ~(n + 1 <= c)
          BY <1>2, <1>3, <3>2, <4>1, SMT
        <5> QED BY <3>1, <4>1, <5>1
      <4>2. CASE j \in 1 .. Len(s)
        BY <1>2, <3>1, <4>2
      <4> QED BY <3>2, <4>1, <4>2
    <3>4. ASSUME NEW d \in Nat, d <= n PROVE IsData(d, s) <=> IsData(d, r)
      <4>1. d # n + 1
        BY <3>4, SMT
      <4>2. \A j \in 1 .. Len(s) : j \in 1 .. Len(r)
        BY <1>3, <3>1, SMT
      <4> QED BY <3>1, <3>2, <4>1, <4>2 DEF IsData
    <3>5. IsData(n + 1, r)
      BY <3>1, <3>2 DEF IsData
    <3> QED BY <2>2, <3>2, <3>3, <3>4, <3>5
  <2> QED BY <2>1, <2>2
\* the frames that were there
<1>6. n2 \in Nat /\ n <= n2 /\ (over = FALSE => n2 = n + 1)
  BY SMT
<1>7. \A i \in 1 .. k : Pair(v, i) /\ Numbered(v[2 * i].of, c + i, r, n2)
  <2> SUFFICES ASSUME NEW i \in 1 .. k PROVE Pair(v, i) /\ Numbered(v[2 * i].of, c + i, r, n2)
    OBVIOUS
  <2>1. 2 * i \in 1 .. L /\ 2 * i - 1 \in 1 .. L /\ c + i \in Nat
    BY <1>1, <1>2, SMT
  <2>2. v[2 * i] = w[2 * i] /\ v[2 * i - 1] = w[2 * i - 1]
    BY <1>1, <2>1
  <2>3. Pair(w, i) /\ Numbered(w[2 * i].of, c + i, s, n)
    BY <1>2
  <2>4. c + i <= n /\ c + i <= n2
    BY <1>6, <2>1, <2>3, SMT DEF Numbered
  <2> QED BY <1>5, <2>1, <2>2, <2>3, <2>4 DEF Pair, Numbered
<1>8. SUFFICES \E k2 \in Nat :
                 /\ 2 * k2 <= Len(v) /\ k2 \in {k, k + 1}
                 /\ k2 = k + 1 => /\ Pair(v, k + 1)
                                  /\ \/ Numbered(v[2 * (k + 1)].of, c + (k + 1), r, n2)
                                     \/ v[2 * (k + 1)].of = CloseFrame /\ over /\ Len(v) = 2 * (k + 1)
                 /\ \/ Len(v) = 2 * k2 /\ (c + k2 = n2 \/ over)
                    \/ Torn(v, k2, over) /\ (c + k2 < n2 \/ over)
  <2> SUFFICES ASSUME NEW k2 \in {k, k + 1},
                      2 * k2 <= Len(v),
                      k2 = k + 1 => /\ Pair(v, k + 1)
                                    /\ \/ Numbered(v[2 * (k + 1)].of, c + (k + 1), r, n2)
                                       \/ v[2 * (k + 1)].of = CloseFrame /\ over /\ Len(v) = 2 * (k + 1),
                      \/ Len(v) = 2 * k2 /\ (c + k2 = n2 \/ over)
                      \/ Torn(v, k2, over) /\ (c + k2 < n2 \/ over)
               PROVE  Follows(v, c, k2, r, g, n2, over)
    BY DEF v
  <2>1. \A i \in 1 .. k2 : i \in 1 .. k \/ (i = k + 1 /\ k2 = k + 1)
    BY SMT
  <2>2. \A i \in 1 .. k2 : /\ Pair(v, i)
                           /\ \/ Numbered(v[2 * i].of, c + i, r, n2)
                              \/ v[2 * i].of = CloseFrame /\ over /\ Len(v) = 2 * i
    BY <1>7, <2>1
  <2> QED BY <1>5, <2>2 DEF Follows
\* the frame that comes
<1>9. CASE L = 2 * k /\ c + k = n /\ Len(t) = 2
  <2>1. t[1] = a /\ t[2] = b
    BY <1>9
  <2>2. 1 \in 1 .. Len(t) /\ 2 \in 1 .. Len(t)
    BY <1>9, SMT
  <2>3. v[L + 1] = a /\ v[L + 2] = b
    BY <1>1, <2>1, <2>2
  <2>4. /\ 2 * (k + 1) - 1 = L + 1 /\ 2 * (k + 1) = L + 2 /\ Len(v) = 2 * (k + 1)
        /\ c + (k + 1) = n + 1 /\ k + 1 \in Nat /\ 2 * (k + 1) <= Len(v)
    BY <1>1, <1>9, SMT
  <2>5. Pair(v, k + 1) /\ v[2 * (k + 1)].of = m
    BY <2>3, <2>4 DEF Pair
  <2>6. \/ over /\ m = CloseFrame
        \/ over = FALSE /\ n2 = n + 1 /\ Numbered(m, n + 1, r, n2)
    <3>1. n + 1 <= n + 1
      BY SMT
    <3> QED BY <1>5, <3>1 DEF Numbered
  <2> QED BY <2>4, <2>5, <2>6
<1>10. CASE L = 2 * k /\ c + k = n /\ Len(t) = 1
  <2>1. t[1] = a \/ (t[1] = x /\ m # CloseFrame)
    BY <1>10 DEF x
  <2>2. v[L + 1] = t[1] /\ Len(v) = L + 1
    <3>1. 1 \in 1 .. Len(t)
      BY <1>10, SMT
    <3> QED BY <1>1, <1>10, <3>1
  <2>3. 2 * k < Len(v) /\ ~(2 * k + 1 < Len(v)) /\ 2 * k + 1 = L + 1 /\ 2 * k <= Len(v)
    BY <1>1, <1>10, <2>2, SMT
  <2>4. over \/ v[2 * k + 1].part # 1 \/ v[2 * k + 1].of # CloseFrame
    BY <1>4, <2>1, <2>2, <2>3
  <2>5. Torn(v, k, over)
    BY <2>3, <2>4 DEF Torn
  <2>6. c + k < n2 \/ over
    BY <1>6, <1>10, SMT
  <2> QED BY <2>3, <2>5, <2>6
<1>11. CASE Torn(w, k, FALSE) /\ c + k < n
  <2>1. 2 * k < L /\ 2 * k + 1 \in 1 .. L /\ Len(t) \in {1, 2} /\ 1 \in 1 .. Len(t)
    BY <1>1, <1>11, SMT DEF Torn, L
  <2>2. 2 * k < Len(v) /\ 2 * k + 1 < Len(v) /\ 2 * k <= Len(v) /\ c + k < n2
    BY <1>1, <1>6, <1>11, <2>1, SMT
  <2>3. v[2 * k + 1] = w[2 * k + 1]
    BY <1>1, <2>1
  <2>4. 2 * (k + 1) - 1 = 2 * k + 1 /\ 2 * (k + 1) = 2 * k + 2
    BY SMT
  <2>5. ~Pair(v, k + 1)
    <3>1. CASE 2 * k + 1 < L
      <4>1. 2 * k + 2 \in 1 .. L
        BY <1>1, <3>1, SMT
      <4> QED BY <1>1, <1>11, <2>3, <2>4, <3>1, <4>1 DEF Torn, Pair, L
    <3>2. CASE 2 * k + 1 = L
      <4>1. v[2 * k + 2] = t[1]
        <5>1. 2 * k + 2 = L + 1
          BY <1>1, <3>2, SMT
        <5> QED BY <1>1, <2>1, <5>1
      <4>2. w[2 * k + 1].part # 1 \/ w[2 * k + 1].of # CloseFrame
        BY <1>11, <3>2 DEF Torn, L
      <4>3. t[1] = a \/ t[1] = x
        BY DEF x
      <4>4. \A y : a # [of |-> y, part |-> 2, raw |-> <<>>]
        <5>1. \A y : [of |-> y, part |-> 2, raw |-> <<>>].part = 2
          OBVIOUS
        <5> QED BY <5>1, SMT
      <4> QED BY <1>4, <2>3, <2>4, <4>1, <4>2, <4>3, <4>4 DEF Pair
    <3> QED BY <1>1, <2>1, <3>1, <3>2, SMT
  <2>6. Torn(v, k, over)
    BY <2>2, <2>5, SMT DEF Torn
  <2> QED BY <2>2, <2>6
<1>12. Len(t) = 1 \/ Len(t) = 2
  OBVIOUS
<1> QED BY <1>2, <1>9, <1>10, <1>11, <1>12

(* The writer hangs up; what is on the wire may be lost.                   *)
LEMMA Ceases ==
  ASSUME NEW w, NEW c \in Nat, NEW k \in Nat, NEW s, NEW g, NEW n, NEW over \in BOOLEAN,
         Follows(w, c, k, s, g, n, over)
  PROVE  Follows(w, c, k, s, g, n, TRUE) /\ Follows(<<>>, c, 0, s, g, n, TRUE)
<1>1. Follows(w, c, k, s, g, n, TRUE)
  BY DEF Follows, Torn
<1>2. Len(<<>>) = 2 * 0 /\ 2 * 0 <= Len(<<>>) /\ \A i \in 1 .. 0 : FALSE
  BY SMT
<1>3. Follows(<<>>, c, 0, s, g, n, TRUE)
  BY <1>2 DEF Follows
<1> QED BY <1>1, <1>3

(* The reader takes a frame: if it has data, it is the next of them.       *)
LEMMA Takes ==
  ASSUME NEW S, NEW w \in Seq(S), Len(w) >= 2,
         w[1].part = 1, w[2] = [of |-> w[1].of, part |-> 2, raw |-> <<>>],
         NEW c \in Nat, NEW k \in Nat, NEW g \in Nat, NEW n \in Nat, NEW s, Rising(s, n),
         NEW over, Follows(w, c, k, s, g, n, over)
  PROVE  LET m == w[1].of
             r == SubSeq(w, 2 + 1, Len(w))
         IN  /\ m.op = "binary_frame" =>
                  /\ g + 1 \in 1 .. Len(s) /\ s[g + 1] = m.n
                  /\ \E c2, k2 \in Nat : Follows(r, c2, k2, s, g + 1, n, over)
             /\ m.op # "binary_frame" =>
                  \E c2, k2 \in Nat : Follows(r, c2, k2, s, g, n, over)
<1> DEFINE m == w[1].of
           r == SubSeq(w, 2 + 1, Len(w))
           L == Len(w)
<1>1. L \in Nat /\ L >= 2 /\ Len(r) = L - 2 /\ \A i \in 1 .. L - 2 : r[i] = w[2 + i]
  <2>1. L \in Nat
    BY LenProperties
  <2>2. 2 \in 0 .. L
    BY <2>1, SMT
  <2> QED BY <2>1, <2>2, Cut
<1>2. /\ 2 * k <= L /\ g <= Len(s)
      /\ \A j \in 1 .. Len(s) : j <= g <=> s[j] <= c
      /\ \A i \in 1 .. k : Pair(w, i)
      /\ \A i \in 1 .. k : \/ Numbered(w[2 * i].of, c + i, s, n)
                           \/ w[2 * i].of = CloseFrame /\ over /\ L = 2 * i
      /\ \/ L = 2 * k /\ (c + k = n \/ over)
         \/ Torn(w, k, over) /\ (c + k < n \/ over)
  BY DEF Follows
<1>3. /\ Len(s) \in Nat /\ \A j \in 1 .. Len(s) : s[j] \in Nat
      /\ \A i, j \in 1 .. Len(s) : i < j => s[i] < s[j]
  BY LenProperties, ElementOfSeq DEF Rising
<1>4. w[2].of = m
  <2>1. [of |-> m, part |-> 2, raw |-> <<>>].of = m
    OBVIOUS
  <2> QED BY <2>1
<1>5. w[1].part = 1 /\ w[2] = [of |-> w[1].of, part |-> 2, raw |-> <<>>]
  OBVIOUS
<1> HIDE DEF m, r, L
<1>6. k >= 1
  <2>1. CASE k = 0
    <3>1. 2 * 1 - 1 = 1 /\ 2 * 1 = 2 /\ 0 + 1 = 1 /\ 2 * 0 = 0 /\ L # 0 /\ 0 + 1 < L
      BY <1>1, SMT
    <3>2. Pair(w, 1)
      BY <1>5, <3>1 DEF Pair
    <3>3. Torn(w, 0, over)
      BY <1>2, <2>1, <3>1
    <3> QED BY <3>1, <3>2, <3>3 DEF Torn, L
  <2> QED BY <2>1, SMT
<1>7. \/ Numbered(m, c + 1, s, n)
      \/ m = CloseFrame /\ over /\ L = 2
  <2>1. 1 \in 1 .. k /\ 2 * 1 = 2
    BY <1>6, SMT
  <2> QED BY <1>2, <1>4, <2>1
<1>8. CASE m = CloseFrame /\ over /\ L = 2
  <2>1. 2 * 0 <= Len(r) /\ Len(r) = 2 * 0 /\ \A i \in 1 .. 0 : FALSE
    BY <1>1, <1>8, SMT
  <2>2. Follows(r, c, 0, s, g, n, over)
    BY <1>2, <1>8, <2>1 DEF Follows
  <2>3. m.op # "binary_frame"
    BY <1>8 DEF CloseFrame
  <2>4. 0 \in Nat
    BY SMT
  <2> QED BY <2>2, <2>3, <2>4 DEF m, r, L
<1>9. CASE Numbered(m, c + 1, s, n)
  <2>1. PICK h \in Nat : k = h + 1
    <3>1. k - 1 \in Nat /\ k = (k - 1) + 1
      BY <1>6, SMT
    <3> QED BY <3>1
  <2>2. /\ 2 * h <= Len(r)
        /\ L = 2 * k <=> Len(r) = 2 * h
        /\ (c + 1) + h = c + k
        /\ 2 * k < L <=> 2 * h < Len(r)
        /\ 2 * k + 1 < L <=> 2 * h + 1 < Len(r)
        /\ 2 * k + 1 = L <=> 2 * h + 1 = Len(r)
    BY <1>1, <1>2, <2>1, SMT
  <2>3. ASSUME NEW i \in Nat, i >= 1, 2 * i <= Len(r)
        PROVE  (Pair(r, i) <=> Pair(w, i + 1)) /\ r[2 * i] = w[2 * (i + 1)]
    <3>1. /\ 2 * i \in 1 .. L - 2 /\ 2 * i - 1 \in 1 .. L - 2
          /\ 2 + 2 * i = 2 * (i + 1) /\ 2 + (2 * i - 1) = 2 * (i + 1) - 1
      BY <1>1, <2>3, SMT
    <3>2. r[2 * i] = w[2 * (i + 1)] /\ r[2 * i - 1] = w[2 * (i + 1) - 1]
      BY <1>1, <3>1
    <3> QED BY <3>2 DEF Pair
  <2>4. ASSUME NEW i \in 1 .. h
        PROVE  /\ Pair(r, i)
               /\ \/ Numbered(r[2 * i].of, (c + 1) + i, s, n)
                  \/ r[2 * i].of = CloseFrame /\ over /\ Len(r) = 2 * i
    <3>1. /\ i \in Nat /\ i >= 1 /\ 2 * i <= Len(r) /\ i + 1 \in 1 .. k
          /\ c + (i + 1) = (c + 1) + i
          /\ L = 2 * (i + 1) => Len(r) = 2 * i
      <4>1. L \in Nat /\ Len(r) = L - 2 /\ 2 * h <= Len(r)
        BY <1>1, <2>2
      <4> QED BY <2>1, <4>1, SMT
    <3> QED BY <1>2, <2>3, <3>1
  <2>5. \/ Len(r) = 2 * h /\ ((c + 1) + h = n \/ over)
        \/ Torn(r, h, over) /\ ((c + 1) + h < n \/ over)
    <3>1. CASE Torn(w, k, over) /\ (c + k < n \/ over)
      <4>1. 2 * h < Len(r)
        BY <2>2, <3>1 DEF Torn, L
      <4>2. 2 * h + 1 < Len(r) => ~Pair(r, h + 1)
        <5>1. 2 * h + 1 < Len(r) => 2 * (h + 1) <= Len(r)
          BY <1>1, SMT
        <5>2. h + 1 \in Nat /\ h + 1 >= 1
          BY SMT
        <5> QED BY <2>1, <2>2, <2>3, <3>1, <5>1, <5>2 DEF Torn, L
      <4>3. 2 * h + 1 = Len(r) => over \/ r[2 * h + 1].part # 1 \/ r[2 * h + 1].of # CloseFrame
        <5>1. 2 * h + 1 = Len(r) => 2 * h + 1 \in 1 .. L - 2 /\ 2 + (2 * h + 1) = 2 * k + 1
          BY <1>1, <2>1, SMT
        <5> QED BY <1>1, <2>2, <3>1, <5>1 DEF Torn, L
      <4> QED BY <2>2, <3>1, <4>1, <4>2, <4>3 DEF Torn
    <3> QED BY <1>2, <2>2, <3>1
  <2>6. m.n = c + 1 /\ (m.op = "binary_frame" <=> IsData(c + 1, s)) /\ c + 1 \in Nat /\ g + 1 \in Nat
    BY <1>9, SMT DEF Numbered
  <2>7. CASE m.op = "binary_frame"
    <3>1. PICK j \in 1 .. Len(s) : s[j] = c + 1
      BY <2>6, <2>7 DEF IsData
    <3>2. ~(s[j] <= c)
      BY <3>1, SMT
    <3>3. ~(j <= g)
      BY <1>2, <3>2
    <3>4. g + 1 \in 1 .. Len(s) /\ g + 1 <= j
      BY <1>3, <3>3, SMT
    <3>5. ~(g + 1 <= g)
      BY SMT
    <3>6. ~(s[g + 1] <= c) /\ s[g + 1] \in Nat
      BY <1>2, <1>3, <3>4, <3>5
    <3>7. ~(g + 1 < j)
      <4>1. ASSUME g + 1 < j PROVE FALSE
        <5>1. s[g + 1] < s[j]
          BY <1>3, <3>4, <4>1
        <5> QED BY <3>1, <3>6, <5>1, SMT
      <4> QED BY <4>1
    <3>8. g + 1 = j
      BY <3>4, <3>7, SMT
    <3>9. ASSUME NEW i \in 1 .. Len(s) PROVE i <= g + 1 <=> s[i] <= c + 1
      <4>1. i <= g <=> s[i] <= c
        BY <1>2
      <4>2. i < j => s[i] < s[j]
        BY <1>3
      <4>3. j < i => s[j] < s[i]
        BY <1>3
      <4>4. s[i] \in Nat /\ s[j] = c + 1 /\ (i = j => s[i] = c + 1)
        BY <1>3, <3>1
      <4> QED BY <3>8, <4>2, <4>3, <4>4, SMT
    <3>10. g + 1 <= Len(s)
      BY <3>4, SMT
    <3>11. Follows(r, c + 1, h, s, g + 1, n, over)
      BY <2>2, <2>4, <2>5, <3>9, <3>10 DEF Follows
    <3> QED BY <2>6, <2>7, <3>1, <3>4, <3>8, <3>11 DEF m, r, L
  <2>8. CASE m.op # "binary_frame"
    <3>1. ASSUME NEW i \in 1 .. Len(s) PROVE i <= g <=> s[i] <= c + 1
      <4>1. i <= g <=> s[i] <= c
        BY <1>2
      <4>2. s[i] # c + 1 /\ s[i] \in Nat
        BY <1>3, <2>6, <2>8 DEF IsData
      <4> QED BY <4>1, <4>2, SMT
    <3>2. Follows(r, c + 1, h, s, g, n, over)
      BY <1>2, <2>2, <2>4, <2>5, <3>1 DEF Follows
    <3> QED BY <2>6, <2>8, <3>2 DEF m, r, L
  <2> QED BY <2>7, <2>8
<1> QED BY <1>7, <1>8, <1>9

-----------------------------------------------------------------------------
(* What a reader has not read, as long as every read has got one frame.    *)

Increasing == \A e \in Ends : Rising(sent[e], frames[e])

FollowsTo(e, w, c, k) ==
  LET p == Peer(e)
  IN  Follows(w, c, k, sent[p], Len(got[e]), frames[p], sock[p] = "closed")

\* the responses of a server, which may have got another key than it was sent when it did
\* not read just the request, and what may be left of one when e reads
Responses ==
  {Response(v) : v \in IF client = "connect" /\ whole["server"] THEN {LibraryKey} ELSE Values}
Openings(e) ==
  IF phase[e] = "open" THEN {<<>>} ELSE {SubSeq(r, 1, j) : r \in Responses, j \in 1 .. 5}

Listens(e) ==
  \/ phase[e] = "open" /\ sock[e] = "open" /\ whole[e] /\ (e = "client" => client # "foreign")
  \/ e = "client" /\ phase[e] = "waiting" /\ accepted = "returned"

\* after the whole of a response come frames
Unread(e) ==
  \/ wire[e] = <<>> /\ sock[Peer(e)] = "closed"
  \/ \E a \in Openings(e), w \in Seq(Parts(e)) :
       /\ wire[e] = a \o w
       /\ Len(a) \in {0, 5} => \E c, k \in Nat : FollowsTo(e, w, c, k)

Following == \A e \in Ends : Listens(e) => Unread(e)

LEMMA KeyInValues == LibraryKey \in Values
<1>1. ConnectRequest[4].value = LibraryKey /\ 4 \in DOMAIN ConnectRequest
  BY SMT DEF ConnectRequest, Line
<1> QED BY <1>1 DEF Values, Asked, Range

LEMMA OpeningParts ==
  ASSUME WireOK, NEW e \in Ends, NEW a \in Openings(e), client # "async_connect" \/ phase[e] = "open"
  PROVE  a \in Seq(Tokens(e)) \/ e = "server"
<1>1. CASE phase[e] = "open"
  BY <1>1, EmptySeq DEF Openings
<1>2. CASE phase[e] # "open"
  <2>1. PICK v \in Values \cup {LibraryKey}, j \in 1 .. 5 : a = SubSeq(Response(v), 1, j)
    BY <1>2 DEF Openings, Responses
  <2>3. Response(v) \in Seq(Tokens("client")) /\ j \in 0 .. Len(Response(v))
    BY <1>2, <2>1, KeyInValues, ResponseLines, SMT
  <2> QED BY <2>1, <2>3, Cut DEF Ends
<1> QED BY <1>1, <1>2

LEMMA IncreasingStep == StreamTypeOK /\ LogsOK /\ Increasing /\ [Next]_vars => Increasing'
<1> SUFFICES ASSUME StreamTypeOK, LogsOK, Increasing, [Next]_vars PROVE Increasing'
  OBVIOUS
<1>1. CASE UNCHANGED <<sent, frames>>
  BY <1>1 DEF Increasing
<1>2. ASSUME NEW e \in Ends, NEW via \in {"sync", "async", "delegate"}, NEW opcode \in Ops,
             Write(e, via, opcode)
      PROVE  Increasing'
  <2>1. /\ frames' = [frames EXCEPT ![e] = frames[e] + 1]
        /\ \/ sent' = sent
           \/ sent' = [sent EXCEPT ![e] = Append(sent[e], frames[e] + 1)]
    BY <1>2 DEF Write, Message
  <2>2. frames[e] \in Nat
    BY MaxFramesAssumption DEF StreamTypeOK
  <2>3. Rising(sent[e], frames[e] + 1) /\ Rising(Append(sent[e], frames[e] + 1), frames[e] + 1)
    BY <2>2, Rises DEF Increasing
  <2> QED BY <2>1, <2>3 DEF Increasing, StreamTypeOK, LogsOK
<1>3. ASSUME NEW e \in Ends, EndProgress(e) PROVE Increasing'
  BY <1>1, <1>3 DEF EndProgress, SyncRead, AsyncRead, SyncReadFails, AsyncReadFails, HollowRead
<1>4. CASE Connect \/ AsyncConnect \/ Progress
  BY <1>1, <1>4 DEF Connect, AsyncConnect, Progress, ClientResponse, ConnectFails, TcpAccept,
     HandshakeFails, ServerHandshake, Reject
<1>5. CASE \/ \E d \in Ends : Disconnect(d) \/ Destroy(d) \/ \E how \in {"sync", "async"} : Read(d, how)
           \/ UNCHANGED vars
  BY <1>1, <1>5 DEF Disconnect, Destroy, Read, vars, streamVars
<1> QED BY <1>2, <1>3, <1>4, <1>5 DEF Next

(* What is said of e stays true while the other end is silent, and when it *)
(* hangs up.                                                               *)
LEMMA Silence ==
  ASSUME StreamTypeOK, WireOK, NEW e \in Ends, Unread(e),
         Openings(e) \subseteq Openings(e)', setupVars' = setupVars,
         LET p == Peer(e)
         IN  /\ sent'[p] = sent[p] /\ frames'[p] = frames[p] /\ got'[e] = got[e]
             /\ \/ wire'[e] = wire[e] /\ (sock'[p] = "closed" <=> sock[p] = "closed")
                \/ wire'[e] \in {wire[e], <<>>} /\ sock'[p] = "closed"
  PROVE  Unread(e)'
<1> DEFINE p == Peer(e)
<1>1. Parts(e)' = Parts(e)
  BY DEF setupVars, Parts, Heads, Tails, Messages, Frame, Header
<1>2. CASE wire[e] = <<>> /\ sock[p] = "closed"
  BY <1>2 DEF Unread
<1>3. CASE wire'[e] = <<>> /\ sock'[p] = "closed"
  BY <1>3 DEF Unread
<1>4. CASE /\ wire'[e] = wire[e] /\ ~(wire[e] = <<>> /\ sock[p] = "closed")
           /\ (sock'[p] = "closed" <=> sock[p] = "closed") \/ sock'[p] = "closed"
  <2>1. PICK a \in Openings(e), w \in Seq(Parts(e)) :
          wire[e] = a \o w /\ (Len(a) \in {0, 5} => \E c, k \in Nat : FollowsTo(e, w, c, k))
    BY <1>4 DEF Unread
  <2>2. ASSUME NEW c \in Nat, NEW k \in Nat, FollowsTo(e, w, c, k) PROVE FollowsTo(e, w, c, k)'
    <3>1. Follows(w, c, k, sent[p], Len(got[e]), frames[p], sock[p] = "closed")
      BY <2>2 DEF FollowsTo
    <3>2. Follows(w, c, k, sent[p], Len(got[e]), frames[p], sock'[p] = "closed")
      <4>1. CASE sock'[p] = "closed" <=> sock[p] = "closed"
        <5>1. (sock'[p] = "closed") = (sock[p] = "closed")
          BY <4>1
        <5> QED BY <3>1, <5>1
      <4>2. CASE sock'[p] = "closed"
        <5>1. Follows(w, c, k, sent[p], Len(got[e]), frames[p], TRUE)
          BY <3>1, Ceases
        <5>2. (sock'[p] = "closed") = TRUE
          BY <4>2
        <5> QED BY <5>1, <5>2
      <4> QED BY <1>4, <4>1, <4>2
    <3> QED BY <3>2 DEF FollowsTo
  <2>3. wire'[e] = a \o w /\ (Len(a) \in {0, 5} => \E c, k \in Nat : FollowsTo(e, w, c, k)')
    BY <1>4, <2>1, <2>2
  <2> QED BY <1>1, <2>3 DEF Unread
<1> QED BY <1>2, <1>3, <1>4

(* The other end writes a message, or closes with a close frame.           *)
LEMMA Speech ==
  ASSUME StreamTypeOK, WireOK, Increasing, NEW e \in Ends, Unread(e),
         Openings(e) \subseteq Openings(e)', setupVars' = setupVars, got'[e] = got[e],
         client # "async_connect" \/ phase[e] = "open",
         e = "server" => phase[e] = "open",
         sock[e] # "closed", sock[Peer(e)] # "closed",
         NEW m \in Messages, NEW data,
         LET p == Peer(e)
         IN  /\ data = Frame(p, m) \/ (data = Garbage /\ m # CloseFrame)
             /\ \E w \in Written(p, data) : wire'[e] = w[e]
             /\ \/ /\ m.n = frames[p] + 1 /\ frames'[p] = frames[p] + 1 /\ sock'[p] = sock[p]
                   /\ sent'[p] = IF m.op = "binary_frame" THEN Append(sent[p], m.n) ELSE sent[p]
                \/ m = CloseFrame /\ frames'[p] = frames[p] /\ sent'[p] = sent[p] /\ sock'[p] = "closed"
  PROVE  Unread(e)'
<1> DEFINE p == Peer(e)
           n == frames[p]
           over == sock'[p] = "closed"
<1>0. p \in Ends /\ Peer(p) = e /\ Wires(wire)
  BY Peers DEF WireOK
<1>1. Parts(e)' = Parts(e)
  BY DEF setupVars, Parts, Heads, Tails, Messages, Frame, Header
<1>2. PICK a \in Openings(e), w \in Seq(Parts(e)) :
        wire[e] = a \o w /\ (Len(a) \in {0, 5} => \E c, k \in Nat : FollowsTo(e, w, c, k))
  BY DEF Unread
<1>3. /\ data \in Seq(Parts(e)) /\ data \in Seq(Tokens(e))
      /\ Len(data) = 2 => data = Frame(p, m)
      /\ Len(data) = 1 => data = Garbage /\ m # CloseFrame
      /\ Len(data) \in {1, 2}
  <2>1. /\ Frame(p, m) \in Seq(Parts(e)) /\ Frame(p, m) \in Seq(Tokens(e)) /\ Len(Frame(p, m)) = 2
        /\ Garbage \in Seq(Parts(e)) /\ Garbage \in Seq(Tokens(e)) /\ Len(Garbage) = 1
    <3>1. p \in Ends /\ Peer(p) = e
      BY <1>0
    <3> HIDE DEF p
    <3> QED BY <3>1, FrameParts, Saying
  <2>2. data = Frame(p, m) \/ (data = Garbage /\ m # CloseFrame)
    OBVIOUS
  <2>3. CASE data = Frame(p, m)
    <3>1. Len(data) = 2 /\ ~(Len(data) = 1)
      BY <2>1, <2>3, SMT
    <3> QED BY <2>1, <2>3, <3>1
  <2>4. CASE data = Garbage /\ m # CloseFrame
    BY <2>1, <2>4
  <2> QED BY <2>2, <2>3, <2>4
<1>4. PICK j \in 1 .. Len(data) : wire'[e] = wire[e] \o SubSeq(data, 1, j)
  <2>1. PICK w1 \in Written(p, data) : wire'[e] = w1[e]
    OBVIOUS
  <2>2. p \in Ends /\ Peer(p) = e /\ Wires(wire) /\ data \in Seq(Tokens(e)) /\ sock[e] # "closed"
    BY <1>0, <1>3
  <2> HIDE DEF p
  <2>3. \E i \in 1 .. Len(data) : w1[e] = wire[e] \o SubSeq(data, 1, i)
    BY <2>1, <2>2, WritingIs
  <2> QED BY <2>1, <2>3
<1> DEFINE t == SubSeq(data, 1, j)
           x == Frame(p, m)[1]
           y == [of |-> m, part |-> 2, raw |-> <<>>]
<1>5. t \in Seq(Parts(e)) /\ Len(t) = j /\ \A i \in 1 .. j : t[i] = data[i]
  <2>1. j \in 0 .. Len(data)
    BY <1>3, SMT
  <2> QED BY <1>3, <2>1, Cut
<1>6. \/ Len(t) = 2 /\ t[1] = x /\ t[2] = y
      \/ Len(t) = 1 /\ t[1] = x
      \/ Len(t) = 1 /\ t[1] = [of |-> CloseFrame, part |-> 2, raw |-> <<>>] /\ m # CloseFrame
  <2>1. Len(data) = 2 => j = 1 \/ j = 2
    BY SMT
  <2>2. Len(data) = 1 => j = 1
    BY SMT
  <2>3. Frame(p, m)[2] = y
    BY <1>0, FrameParts
  <2>4. Garbage[1] = [of |-> CloseFrame, part |-> 2, raw |-> <<>>]
    BY <1>0, Saying
  <2>5. 1 \in 1 .. j /\ (j = 2 => 2 \in 1 .. j)
    BY <1>3, <2>1, <2>2, SMT
  <2> QED BY <1>3, <1>5, <2>1, <2>2, <2>3, <2>4, <2>5
<1>7. Goes(t, m)
  <2>1. x.part = 1 /\ x.of = m
    BY <1>0, FrameParts
  <2> HIDE DEF x, t
  <2> QED BY <1>6, <2>1 DEF Goes
<1>8. n \in Nat /\ Len(got[e]) \in Nat /\ Rising(sent[p], n) /\ m.n \in Nat
  BY <1>0, MaxFramesAssumption, LenProperties DEF StreamTypeOK, Increasing, Messages
<1>9. Writes(m, sent[p], n, sent'[p], frames'[p], over)
  <2>1. CloseFrame.n = 0
    BY DEF CloseFrame, Junk
  <2>2. n + 1 # 0
    BY <1>8, SMT
  <2> QED BY <2>1, <2>2 DEF Writes
<1>10. wire'[e] = a \o (w \o t) /\ w \o t \in Seq(Parts(e))
  <2>1. a \in Seq(Tokens(e)) /\ Parts(e) \subseteq Tokens(e)
    <3>1. Parts(e) \subseteq Tokens(e)
      BY DEF Tokens
    <3>2. CASE phase[e] = "open"
      BY <3>1, <3>2, EmptySeq DEF Openings
    <3>3. CASE phase[e] # "open"
      BY <3>1, <3>3, OpeningParts
    <3> QED BY <3>2, <3>3
  <2> HIDE DEF t, Parts, Tokens
  <2>2. w \in Seq(Tokens(e)) /\ t \in Seq(Tokens(e))
    BY <1>5, <2>1, SeqMonotonic
  <2>3. wire'[e] = (a \o w) \o t
    BY <1>2, <1>4 DEF t
  <2>4. (a \o w) \o t = a \o (w \o t)
    BY <2>1, <2>2, ConcatAssociative
  <2>5. w \o t \in Seq(Parts(e))
    BY <1>5, ConcatProperties
  <2> QED BY <2>3, <2>4, <2>5
<1>11. ASSUME NEW c \in Nat, NEW k \in Nat, FollowsTo(e, w, c, k)
       PROVE  \E k2 \in Nat : FollowsTo(e, w \o t, c, k2)'
  <2>1. Follows(w, c, k, sent[p], Len(got[e]), n, FALSE)
    <3>1. (sock[p] = "closed") = FALSE
      OBVIOUS
    <3> QED BY <1>11, <3>1 DEF FollowsTo
  <2> DEFINE s == sent[p]
             s2 == sent'[p]
             n2 == frames'[p]
             g == Len(got[e])
             P == Parts(e)
  <2>b. w \in Seq(P) /\ t \in Seq(P) /\ n \in Nat /\ g \in Nat /\ Rising(s, n)
    BY <1>5, <1>8
  <2>c. Follows(w, c, k, s, g, n, FALSE) /\ Writes(m, s, n, s2, n2, over)
    BY <1>9, <2>1
  <2> HIDE DEF x, y, t, n, over, s, s2, n2, g, P
  <2>2. \E k2 \in Nat : Follows(w \o t, c, k2, s2, g, n2, over)
    BY <1>7, <2>b, <2>c, Continues
  <2> QED BY <2>2 DEF FollowsTo, over, s2, n2, g
<1>12. Len(a) \in {0, 5} => \E c, k \in Nat : FollowsTo(e, w \o t, c, k)'
  BY <1>2, <1>11
<1> HIDE DEF t
<1> QED BY <1>1, <1>10, <1>12 DEF Unread

(* A read that gets one frame gets the next message that has not been      *)
(* delivered, or none.                                                     *)
LEMMA Hearing ==
  ASSUME StreamTypeOK, WireOK, LogsOK, Increasing, NEW e \in Ends, Unread(e), phase[e] = "open",
         NEW chunk \in Chunks(e), OneFrame(chunk), NEW o \in Outcomes(chunk)
  PROVE  LET p == Peer(e)
             r == Rest(e, chunk)[e]
             g == Len(got[e])
         IN  /\ r \in Seq(Parts(e))
             /\ o.kind \in {"data", "heartbeat", "close", "crash"}
             /\ o.kind = "data" =>
                  /\ g + 1 \in 1 .. Len(sent[p]) /\ sent[p][g + 1] = o.n
                  /\ \E c, k \in Nat : Follows(r, c, k, sent[p], g + 1, frames[p], sock[p] = "closed")
             /\ o.kind \in {"heartbeat", "close"} => \E c, k \in Nat : FollowsTo(e, r, c, k)
<1> DEFINE p == Peer(e)
           g == Len(got[e])
           w == wire[e]
           n == frames[p]
           s == sent[p]
           over == sock[p] = "closed"
           r == SubSeq(w, 2 + 1, Len(w))
<1>1. PICK m \in Messages :
        /\ chunk[1].of = m /\ wire[e][1] = chunk[1] /\ wire[e] # <<>>
        /\ Len(chunk) = 2 /\ Len(wire[e]) >= 2 /\ wire[e][2] = chunk[2]
        /\ \/ o.kind = "heartbeat" /\ m.op = "ping"
           \/ o.kind = "close" /\ m.op = "connnection_close"
           \/ o.kind = "data" /\ m.op = "binary_frame" /\ o.n = m.n
           \/ o.kind = "crash"
  BY OutcomeIs
<1>2. PICK a \in Openings(e), u \in Seq(Parts(e)) :
        wire[e] = a \o u /\ (Len(a) \in {0, 5} => \E c, k \in Nat : FollowsTo(e, u, c, k))
  BY <1>1 DEF Unread
<1>3. a = <<>> /\ Len(a) = 0
  BY EmptySeq DEF Openings
<1>4. w = u
  BY <1>2, <1>3, ConcatEmptySeq
<1>5. PICK c \in Nat, k \in Nat : FollowsTo(e, w, c, k)
  BY <1>2, <1>3, <1>4
<1>6. w[1].part = 1 /\ w[1].of = m /\ w[2] = [of |-> w[1].of, part |-> 2, raw |-> <<>>]
  BY <1>1 DEF OneFrame
<1>7. w \in Seq(Parts(e)) /\ Len(w) >= 2 /\ Len(w) \in Nat
  BY <1>1, <1>2, <1>4, LenProperties
<1>8. g \in Nat /\ n \in Nat /\ Rising(s, n)
  BY MaxFramesAssumption, Peers, LenProperties DEF LogsOK, StreamTypeOK, Increasing
<1>9. Follows(w, c, k, s, g, n, over)
  BY <1>5 DEF FollowsTo
<1>10. Rest(e, chunk)[e] = r /\ r \in Seq(Parts(e))
  <2>1. Rest(e, chunk)[e] = r
    <3>1. PICK j \in 1 .. Len(wire[e]) : Len(chunk) = j /\ Rest(e, chunk)[e] = Others(e, j)
      BY ReadingIs DEF WireOK
    <3>2. j = 2
      BY <1>1, <3>1
    <3> QED BY <3>1, <3>2 DEF Others
  <2>2. 2 \in 0 .. Len(w)
    BY <1>7, SMT
  <2> QED BY <1>7, <2>1, <2>2, Cut
<1> DEFINE P == Parts(e)
<1>a. w \in Seq(P)
  BY <1>7
<1> HIDE DEF w, n, s, over, g, P
<1>11. /\ m.op = "binary_frame" =>
            /\ g + 1 \in 1 .. Len(s) /\ s[g + 1] = m.n
            /\ \E c2, k2 \in Nat : Follows(r, c2, k2, s, g + 1, n, over)
       /\ m.op # "binary_frame" =>
            \E c2, k2 \in Nat : Follows(r, c2, k2, s, g, n, over)
  <2>1. w[1].part = 1 /\ w[2] = [of |-> w[1].of, part |-> 2, raw |-> <<>>] /\ Len(w) >= 2
    BY <1>6, <1>7
  <2>2. /\ w[1].of.op = "binary_frame" =>
             /\ g + 1 \in 1 .. Len(s) /\ s[g + 1] = w[1].of.n
             /\ \E c2, k2 \in Nat : Follows(r, c2, k2, s, g + 1, n, over)
        /\ w[1].of.op # "binary_frame" =>
             \E c2, k2 \in Nat : Follows(r, c2, k2, s, g, n, over)
    BY <1>a, <1>8, <1>9, <2>1, Takes
  <2> QED BY <1>6, <2>2
<1>12. o.kind \in {"heartbeat", "close"} => \E c2, k2 \in Nat : FollowsTo(e, r, c2, k2)
  BY <1>1, <1>11 DEF FollowsTo, w, n, s, over, g
<1> QED BY <1>1, <1>10, <1>11, <1>12 DEF n, s, over, g

(* Nothing has been written or delivered yet.                              *)
LEMMA Nothing ==
  ASSUME NEW over
  PROVE  <<>> \in Seq({}) /\ Follows(<<>>, 0, 0, <<>>, Len(<<>>), 0, over)
<1>1. Len(<<>>) = 0
  BY EmptySeq
<1>2. 2 * 0 <= 0 /\ 0 = 2 * 0 /\ 0 + 0 = 0 /\ 0 <= 0
  BY SMT
<1>3. (\A i \in 1 .. 0 : FALSE)
  BY SMT
<1> QED BY <1>1, <1>2, <1>3, EmptySeq DEF Follows

LEMMA Fresh ==
  ASSUME NEW e \in Ends,
         LET p == Peer(e)
         IN  sent'[p] = <<>> /\ frames'[p] = 0 /\ got'[e] = <<>>,
         \/ phase'[e] = "open" /\ wire'[e] = <<>>
         \/ \E a \in Openings(e)' : wire'[e] = a /\ a \in Seq(Tokens(e))
  PROVE  Unread(e)'
<1>1. 0 \in Nat /\ <<>> \in Seq(Parts(e)')
  BY EmptySeq, SMT
<1>2. FollowsTo(e, <<>>, 0, 0)'
  BY Nothing DEF FollowsTo
<1>3. PICK a \in Openings(e)' : wire'[e] = a \o <<>>
  <2>1. CASE phase'[e] = "open" /\ wire'[e] = <<>>
    <3>1. <<>> \in Openings(e)' /\ <<>> \o <<>> = <<>>
      BY <2>1, EmptySeq, ConcatEmptySeq DEF Openings
    <3> QED BY <2>1, <3>1
  <2>2. CASE \E a \in Openings(e)' : wire'[e] = a /\ a \in Seq(Tokens(e))
    BY <2>2, ConcatEmptySeq
  <2> QED BY <2>1, <2>2
<1> QED BY <1>1, <1>2, <1>3, Zenon DEF Unread

(* A response that is read up to its end has been read as a whole.         *)
LEMMA Answering ==
  ASSUME StreamTypeOK, WireOK, Opening, Following,
         NEW chunk \in Chunks("client"), ClientResponse(chunk), chunk[Len(chunk)] = Blank
  PROVE  /\ chunk \in Responses
         /\ \E w \in Seq(Parts("client")), c, k \in Nat :
              Rest("client", chunk)["client"] = w /\ FollowsTo("client", w, c, k)
<1> USE TwoEnds
<1> DEFINE W == wire["client"]
<1>1. PICK h \in 1 .. Len(W) :
        /\ sock["client"] = "open" /\ chunk = Front("client", h) /\ Len(chunk) = h
        /\ Rest("client", chunk)["client"] = Others("client", h)
  BY ReadingIs DEF WireOK
<1>2. W \in Seq(Tokens("client")) /\ Len(W) \in Nat
  BY LenProperties DEF WireOK, Wires
<1>3. W # <<>>
  BY <1>1, <1>2, EmptySeq, SMT
<1>4. client # "async_connect" /\ phase["client"] = "waiting" /\ accepted = "returned"
  BY <1>3 DEF ClientResponse, Opening, Judged, Unanswered, StreamTypeOK
<1>5. PICK a \in Openings("client"), w \in Seq(Parts("client")) :
        W = a \o w /\ (Len(a) \in {0, 5} => \E c, k \in Nat : FollowsTo("client", w, c, k))
  BY <1>3, <1>4 DEF Following, Listens, Unread
<1>6. PICK v \in Values \cup {LibraryKey}, j \in 1 .. 5 :
        a = SubSeq(Response(v), 1, j) /\ Response(v) \in Responses
  BY <1>4 DEF Openings, Responses
<1>7. Response(v) \in Seq(Answered) /\ Len(Response(v)) = 5
  BY <1>6, KeyInValues, ResponseLines
<1>8. a \in Seq(Answered) /\ Len(a) = j /\ \A i \in 1 .. j : a[i] = Response(v)[i]
  <2>1. j \in 0 .. Len(Response(v))
    BY <1>7, SMT
  <2> QED BY <1>6, <1>7, <2>1, Cut
<1>a. Answered \subseteq Tokens("client") /\ Parts("client") \subseteq Tokens("client")
  BY <1>4 DEF Tokens, LinesTo
<1>b. a \in Seq(Tokens("client")) /\ w \in Seq(Tokens("client")) /\ Response(v) \in Seq(Tokens("client"))
  <2> HIDE DEF Tokens, Parts, Answered
  <2> QED BY <1>a, <1>5, <1>7, <1>8, SeqMonotonic
<1>9. /\ Len(W) = j + Len(w) /\ Len(w) \in Nat
      /\ \A i \in 1 .. Len(W) : W[i] = IF i <= j THEN a[i] ELSE w[i - j]
  BY <1>5, <1>8, <1>b, ConcatProperties, LenProperties
<1>10. h \in 0 .. Len(W) /\ h \in 1 .. h
  BY <1>2, SMT
<1>11. /\ \A i \in 1 .. h : chunk[i] = W[i]
       /\ Len(Others("client", h)) = Len(W) - h
       /\ \A i \in 1 .. Len(W) - h : Others("client", h)[i] = W[h + i]
       /\ chunk \in Seq(Tokens("client")) /\ Others("client", h) \in Seq(Tokens("client"))
  BY <1>1, <1>2, <1>10, Cut DEF Front, Others
<1>12. W[h] = Blank
  BY <1>1, <1>10, <1>11
<1>13. h <= j
  <2>1. ASSUME ~(h <= j) PROVE FALSE
    <3>1. h - j \in 1 .. Len(w)
      BY <1>9, <2>1, SMT
    <3>2. w[h - j] = Blank
      BY <1>9, <1>12, <2>1
    <3>3. Blank \in Parts("client")
      BY <1>5, <3>1, <3>2, ElementOfSeq
    <3>4. ~IsLine(Blank)
      BY <3>3, LineOrPart
    <3> QED BY <3>4 DEF IsLine, Blank, Line
  <2> QED BY <2>1
<1>14. h = 5 /\ j = 5
  <2>1. h \in 1 .. j /\ h \in 1 .. 5
    BY <1>13, SMT
  <2>2. Response(v)[h] = Blank
    BY <1>8, <1>9, <1>12, <1>13, <2>1
  <2>3. h = 1 \/ h = 2 \/ h = 3 \/ h = 4 \/ h = 5
    BY <2>1, SMT
  <2>4. h = 5
    BY <2>2, <2>3, SMT DEF Response, Line, Blank
  <2> QED BY <1>13, <2>4, SMT
<1>15. chunk = Response(v)
  <2>1. \A i \in 1 .. 5 : chunk[i] = Response(v)[i]
    <3> SUFFICES ASSUME NEW i \in 1 .. 5 PROVE chunk[i] = Response(v)[i]
      OBVIOUS
    <3>1. i <= j /\ i \in 1 .. Len(W) /\ i \in 1 .. h /\ i \in 1 .. j
      BY <1>9, <1>14, SMT
    <3> QED BY <1>8, <1>9, <1>11, <3>1
  <2> QED BY <1>1, <1>7, <1>b, <1>11, <1>14, <2>1, SeqEqual, Zenon
<1>16. Others("client", h) = w
  <2>1. Len(W) - h = Len(w)
    BY <1>9, <1>14, SMT
  <2>2. ASSUME NEW i \in 1 .. Len(w) PROVE Others("client", h)[i] = w[i]
    <3>1. h + i \in 1 .. Len(W) /\ ~(h + i <= j) /\ (h + i) - j = i
      BY <1>9, <1>14, SMT
    <3> QED BY <1>9, <1>11, <2>1, <3>1
  <2> QED BY <1>b, <1>11, <2>1, <2>2, SeqEqual, SMT
<1> QED BY <1>1, <1>5, <1>6, <1>8, <1>14, <1>15, <1>16

(* The key of the library's own request.                                   *)
LEMMA OwnKey == Parse(ConnectRequest)["sec_websocket_key"] = LibraryKey
<1> DEFINE r == ConnectRequest
<1>1. /\ r \in Seq(Range(r)) /\ Len(r) = 6
      /\ r[4].field = "sec_websocket_key" /\ r[4].value = LibraryKey /\ IsLine(r[4])
  BY OwnRequest, SMT DEF ConnectRequest, Line, IsLine
<1>2. DOMAIN r = 1 .. 6
  BY <1>1, LenProperties
<1>3. ASSUME NEW i \in 1 .. 6, r[i].field = "sec_websocket_key" PROVE i = 4
  <2>1. i = 1 \/ i = 2 \/ i = 3 \/ i = 4 \/ i = 5 \/ i = 6
    BY SMT
  <2> QED BY <1>3, <2>1, SMT DEF ConnectRequest, Line, Blank
<1> HIDE DEF r
<1>4. 4 \in LinesWith("sec_websocket_key", r)
  <2>1. 4 \in 1 .. 6
    BY SMT
  <2> QED BY <1>1, <1>2, <2>1 DEF LinesWith
<1>5. "sec_websocket_key" \in Fields
  BY DEF Fields
<1>6. PICK i \in LinesWith("sec_websocket_key", r) :
        i \in 1 .. Len(r) /\ r[i].field = "sec_websocket_key"
        /\ Parse(r)["sec_websocket_key"] = r[i].value
  BY <1>1, <1>4, <1>5, ParsedLine
<1> QED BY <1>1, <1>3, <1>6 DEF r

LEMMA SameOpenings ==
  ASSUME NEW e \in Ends, phase'[e] = phase[e], client' = client, whole'["server"] => whole["server"]
  PROVE  Openings(e) \subseteq Openings(e)'
<1>1. Responses \subseteq Responses'
  BY KeyInValues DEF Responses, Values, Asked
<1> QED BY <1>1 DEF Openings

(* The opening handshake leaves nothing unread but what it says.           *)
LEMMA Handshaken ==
  ASSUME StreamTypeOK, WireOK, LogsOK, Opening, Following, Connect \/ AsyncConnect \/ Progress
  PROVE  Following'
<1> USE TwoEnds
<1> SUFFICES ASSUME NEW e \in Ends, Listens(e)' PROVE Unread(e)'
  BY DEF Following
<1>1. CASE Connect
  <2>1. phase'["client"] = "waiting" /\ phase'["server"] = "start" /\ accepted' = "pending"
    BY <1>1 DEF Connect, Opening, Asking, Judged, Accepting, StreamTypeOK
  <2> QED BY <2>1 DEF Listens, Ends
<1>2. CASE AsyncConnect
  <2>1. phase'["client"] = "open" /\ phase["server"] = "start" /\ phase["client"] = "start"
        /\ phase'["server"] = "start" /\ UNCHANGED <<wire, sent, frames, got>>
    BY <1>2 DEF AsyncConnect, Opening, Asking, StreamTypeOK
  <2>2. e = "client"
    BY <2>1 DEF Listens, Ends
  <2>3. wire["client"] = <<>> /\ sent["server"] = <<>> /\ frames["server"] = 0 /\ got["client"] = <<>>
    BY <2>1 DEF Opening, Unanswered, Accepting, FreshAt
  <2> QED BY <2>1, <2>2, <2>3, Fresh DEF Peer
<1>3. CASE TcpAccept \/ ConnectFails
  <2>1. /\ UNCHANGED <<wire, setupVars, accepted, sent, frames, got, whole>>
        /\ \A d \in Ends : phase'[d] = phase[d] \/ (phase'[d] = "waiting" /\ d = "server") \/ phase'[d] = "failed"
        /\ \A d \in Ends : sock'[d] = sock[d] \/ (sock'[d] = "open" /\ d = "server" /\ sock[d] = "none")
    BY <1>3 DEF TcpAccept, ConnectFails, tcpVars, StreamTypeOK, Opening, BegunAt
  <2>2. phase'[e] = phase[e] /\ sock'[e] = sock[e] /\ Listens(e)
    BY <2>1 DEF Listens, setupVars, Opening, BegunAt, StreamTypeOK
  <2>3. sock'[Peer(e)] = "closed" <=> sock[Peer(e)] = "closed"
    BY <2>1, Peers
  <2>4. Unread(e) /\ Openings(e) \subseteq Openings(e)'
    BY <2>1, <2>2, SameOpenings DEF Following, setupVars
  <2> QED BY <2>1, <2>3, <2>4, Silence
<1>4. ASSUME NEW chunk \in Chunks("client"), ClientResponse(chunk) PROVE Unread(e)'
  <2>1. /\ UNCHANGED <<sock, setupVars, accepted, sent, frames, got>>
        /\ \E tail : whole' = [whole EXCEPT !["client"] = chunk[Len(chunk)] = Blank /\ tail = <<>>]
        /\ phase'["server"] = phase["server"] /\ phase'["client"] \in {"open", "failed"}
        /\ wire' = Rest("client", chunk)
    BY <1>4 DEF ClientResponse, StreamTypeOK
  <2>2. CASE e = "server"
    <3>1. whole'["server"] = whole["server"] /\ wire'["server"] = wire["server"]
      BY <2>1, ReadingIs DEF StreamTypeOK, WireOK, Peer
    <3>2. Unread(e) /\ Openings(e) \subseteq Openings(e)'
      BY <2>1, <2>2, <3>1, SameOpenings DEF Following, Listens, setupVars
    <3> QED BY <2>1, <2>2, <3>1, <3>2, Silence
  <2>3. CASE e = "client"
    <3>1. phase'["client"] = "open" /\ chunk[Len(chunk)] = Blank
      BY <2>1, <2>3 DEF Listens, StreamTypeOK
    <3>2. PICK w \in Seq(Parts("client")), c \in Nat, k \in Nat :
            Rest("client", chunk)["client"] = w /\ FollowsTo("client", w, c, k)
      BY <1>4, <3>1, Answering
    <3>3. Parts("client")' = Parts("client")
      BY <2>1 DEF setupVars, Parts, Heads, Tails, Messages, Frame, Header
    <3>4. FollowsTo("client", w, c, k)'
      BY <2>1, <3>2 DEF FollowsTo
    <3>5. <<>> \in Openings("client")' /\ wire'["client"] = <<>> \o w
      BY <2>1, <3>1, <3>2, ConcatEmptySeq DEF Openings
    <3> QED BY <2>3, <3>2, <3>3, <3>4, <3>5 DEF Unread
  <2> QED BY <2>2, <2>3 DEF Ends
<1>5. ASSUME phase["server"] = "waiting", NEW w, Wires(w), w["client"] = wire["client"], Reject(w),
             setupVars' = setupVars, whole'["client"] = whole["client"]
      PROVE  Unread(e)'
  <2>1. Opening' /\ accepted' # "returned" /\ wire'["client"] = <<>> /\ sock'["server"] = "closed"
    BY <1>5, RejectingIs
  <2>2. phase'["server"] = "failed" /\ phase'["client"] = phase["client"] /\ UNCHANGED <<sent, frames, got>>
        /\ sock'["client"] = sock["client"]
    BY <1>5 DEF Reject, StreamTypeOK, Shut
  <2>3. e = "client"
    BY <2>2 DEF Listens, Ends
  <2> QED BY <2>1, <2>3 DEF Unread, Peer
<1>6. CASE HandshakeFails
  BY <1>5, <1>6 DEF HandshakeFails, WireOK
<1>7. ASSUME NEW chunk \in Chunks("server"), ServerHandshake(chunk) PROVE Unread(e)'
  <2>1. PICK tail \in Behind(chunk, Earlier) :
          /\ phase["server"] = "waiting" /\ setupVars' = setupVars
          /\ whole' = [whole EXCEPT !["server"] = chunk = request /\ tail = <<>>]
          /\ \/ AcceptsWith(chunk, tail, Parse(chunk \o tail)["sec_websocket_key"])
             \/ Reject(Rest("server", chunk))
    BY <1>7, AcceptingIs, Zenon DEF Refuses
  <2> DEFINE v == Parse(chunk \o tail)["sec_websocket_key"]
  <2>2. Wires(Rest("server", chunk)) /\ Rest("server", chunk)["client"] = wire["client"]
    BY ReadingIs DEF WireOK, Peer
  <2>3. CASE Reject(Rest("server", chunk))
    BY <1>5, <2>1, <2>2, <2>3 DEF StreamTypeOK
  <2>4. CASE AcceptsWith(chunk, tail, v)
    <3>1. /\ v \in Values /\ accepted' = "returned"
          /\ client # "async_connect" /\ phase'["server"] = "open" /\ phase'["client"] = "waiting"
          /\ phase["client"] = "waiting" /\ UNCHANGED <<sock, frames, sent, got>>
          /\ wire'["server"] = Rest("server", chunk)["server"]
      BY <2>4 DEF AcceptsWith, StreamTypeOK
    <3>2. \A d \in Ends : sent'[d] = <<>> /\ frames'[d] = 0 /\ got'[d] = <<>>
      BY <2>1, <3>1 DEF Opening, FreshAt, Ends
    <3>3. CASE e = "client"
      <4>1. PICK k \in 1 .. 5 : wire'["client"] = SubSeq(Response(v), 1, k)
        BY <2>4 DEF AcceptsWith
      <4>2. client' = client /\ v \in Values'
        BY <2>1, <3>1 DEF Values, Asked, setupVars
      <4>3. ASSUME client = "connect", whole'["server"] PROVE v = LibraryKey
        <5>1. request = ConnectRequest
          BY <4>3 DEF Opening, Asking
        <5>2. chunk = request /\ tail = <<>>
          BY <2>1, <4>3 DEF StreamTypeOK
        <5> QED BY <5>1, <5>2, OwnRequest, ConcatEmptySeq, OwnKey
      <4>4. Response(v) \in Responses'
        BY <4>2, <4>3 DEF Responses
      <4>5. SubSeq(Response(v), 1, k) \in Openings("client")'
        BY <3>1, <4>1, <4>4 DEF Openings
      <4>6. SubSeq(Response(v), 1, k) \in Seq(Tokens("client"))
        <5>1. Response(v) \in Seq(Tokens("client")) /\ k \in 0 .. Len(Response(v))
          BY <3>1, <4>1, ResponseLines, SMT
        <5> QED BY <5>1, Cut
      <4> QED BY <3>2, <3>3, <4>1, <4>5, <4>6, Fresh DEF Peer
    <3>4. CASE e = "server"
      <4>1. chunk = request
        BY <2>1, <3>1, <3>4 DEF Listens, StreamTypeOK
      <4>2. PICK n \in 0 .. Len(request) : wire["server"] = SubSeq(request, 1, n)
        BY <2>1, <3>1 DEF Opening, Unanswered, Accepting, Pieces
      <4>3. Len(wire["server"]) = n /\ Len(request) \in Nat
        BY <4>2, Cut, LenProperties DEF WireOK
      <4>4. PICK k \in 1 .. n :
              Len(chunk) = k /\ Rest("server", chunk)["server"] = Others("server", k)
        BY <4>3, ReadingIs DEF WireOK
      <4>5. k = n /\ k \in 0 .. Len(wire["server"]) /\ Len(wire["server"]) - k = 0
        BY <4>1, <4>2, <4>3, <4>4, SMT
      <4>6. wire["server"] \in Seq(Tokens("server"))
        BY DEF WireOK, Wires
      <4>7. Others("server", k) \in Seq(Tokens("server")) /\ Len(Others("server", k)) = 0
        BY <4>5, <4>6, Cut DEF Others
      <4>8. Others("server", k) = <<>>
        BY <4>7, EmptySeq
      <4> QED BY <3>1, <3>2, <3>4, <4>4, <4>8, Fresh DEF Peer
    <3> QED BY <3>3, <3>4 DEF Ends
  <2> QED BY <2>1, <2>3, <2>4
<1> QED BY <1>1, <1>2, <1>3, <1>4, <1>6, <1>7 DEF Progress

LEMMA FollowingStep ==
  StreamTypeOK /\ WireOK /\ LogsOK /\ Opening /\ Increasing /\ Following /\ [Next]_vars => Following'
<1> SUFFICES ASSUME StreamTypeOK, WireOK, LogsOK, Opening, Increasing, Following, [Next]_vars
             PROVE  Following'
  OBVIOUS
<1> USE TwoEnds
<1>1. CASE Connect \/ AsyncConnect \/ Progress
  BY <1>1, Handshaken
<1> SUFFICES ASSUME NEW e \in Ends, Listens(e)', ~(Connect \/ AsyncConnect \/ Progress)
             PROVE  Unread(e)'
  BY <1>1 DEF Following
\* who listens after a step of the others has listened before
<1>2. ASSUME phase'[e] = phase[e], sock'[e] = sock[e], whole'[e] = whole[e], setupVars' = setupVars,
             accepted' = accepted, whole'["server"] => whole["server"]
      PROVE  /\ Listens(e) /\ Unread(e) /\ Openings(e) \subseteq Openings(e)'
             /\ sock[e] # "closed"
             /\ client # "async_connect" \/ phase[e] = "open"
             /\ e = "server" => phase[e] = "open"
  <2>1. Listens(e)
    BY <1>2 DEF Listens, setupVars
  <2>2. Openings(e) \subseteq Openings(e)'
    BY <1>2, SameOpenings DEF setupVars
  <2> QED BY <2>1, <2>2 DEF Following, Listens, Opening, Asking, BegunAt
<1>3. ASSUME NEW d \in Ends, NEW via \in {"sync", "async", "delegate"}, NEW opcode \in Ops,
             Write(d, via, opcode)
      PROVE  Unread(e)'
  <2> DEFINE m == Message(d, OpSent(via, opcode))
  <2>1. /\ phase[d] = "open" /\ sock[d] = "open" /\ wire'[d] = wire[d]
        /\ UNCHANGED <<sock, phase, setupVars, accepted, got, whole, reading>>
        /\ frames'[Peer(d)] = frames[Peer(d)]
    BY <1>3, SayingIs
  <2>2. /\ Unread(e) /\ Openings(e) \subseteq Openings(e)' /\ sock[e] # "closed"
        /\ client # "async_connect" \/ phase[e] = "open"
        /\ e = "server" => phase[e] = "open"
    BY <1>2, <2>1
  <2>3. /\ frames' = [frames EXCEPT ![d] = frames[d] + 1]
        /\ sent' = IF m.op = "binary_frame" THEN [sent EXCEPT ![d] = Append(sent[d], m.n)] ELSE sent
        /\ \E data \in {Frame(d, m), Garbage} : wire' \in Written(d, data)
        /\ m.n = frames[d] + 1 /\ m \in Messages
    BY <1>3, Sayable DEF Write, Buffers, Message
  <2>4. CASE e = d
    <3>1. sent'[Peer(d)] = sent[Peer(d)]
      BY <2>3, Peers DEF LogsOK
    <3> QED BY <2>1, <2>2, <2>4, <3>1, Silence
  <2>5. CASE e = Peer(d)
    <3>1. Peer(e) = d
      BY <2>5, Peers
    <3>2. PICK data \in {Frame(d, m), Garbage} : wire' \in Written(d, data)
      BY <2>3
    <3>3. m # CloseFrame
      <4>1. frames[d] + 1 # 0
        BY MaxFramesAssumption, SMT DEF StreamTypeOK
      <4> QED BY <2>3, <4>1 DEF CloseFrame, Junk
    <3>4. /\ frames'[d] = frames[d] + 1 /\ sock'[d] = sock[d]
          /\ sent'[d] = IF m.op = "binary_frame" THEN Append(sent[d], m.n) ELSE sent[d]
      BY <2>1, <2>3 DEF StreamTypeOK, LogsOK
    <3> HIDE DEF m
    <3> QED BY <2>1, <2>2, <2>3, <3>1, <3>2, <3>3, <3>4, Speech
  <2> QED BY <2>4, <2>5, Peers
\* the other end has hung up
<1>4. ASSUME NEW d \in Ends, e = Peer(d), sock' = Shut(d), wire'[e] \in {wire[e], <<>>},
             phase'[e] = phase[e], whole'[e] = whole[e], got'[e] = got[e],
             whole'["server"] => whole["server"], UNCHANGED <<setupVars, accepted, frames, sent>>
      PROVE  Unread(e)'
  <2>1. Peer(e) = d /\ e # d /\ sock'[e] = sock[e] /\ sock'[d] = "closed"
    BY <1>4, Peers DEF Shut, StreamTypeOK
  <2> QED BY <1>2, <1>4, <2>1, Silence
<1>5. ASSUME NEW d \in Ends, Disconnect(d) PROVE Unread(e)'
  <2>1. /\ phase[d] \in {"open", "failed"} /\ sock[d] = "open" /\ sock' = Shut(d)
        /\ UNCHANGED <<phase, setupVars, accepted, frames, sent, got, whole, reading>>
    BY <1>5, SayingIs
  <2>2. e = Peer(d) /\ Peer(e) = d /\ d # e /\ sock'[d] = "closed" /\ sock'[e] = sock[e]
    <3>1. e # d
      BY <2>1 DEF Listens, Shut, StreamTypeOK
    <3> QED BY <2>1, <3>1, Peers DEF Shut, StreamTypeOK
  <2>3. PICK w \in Written(d, Frame(d, CloseFrame)) : wire' \in Dropped(d, w)
    BY <1>5 DEF Disconnect
  <2>4. CloseFrame \in Messages /\ Frame(d, CloseFrame) \in Seq(Tokens(Peer(d)))
    BY Sayable, Saying
  <2>5. Wires(w) /\ wire'[e] \in {w[e], <<>>}
    BY <2>2, <2>3, <2>4, WritingIs, DroppingIs DEF WireOK
  <2>6. CASE wire'[e] = <<>>
    BY <1>4, <2>1, <2>2, <2>6
  <2>7. CASE wire'[e] = w[e]
    <3>1. /\ Unread(e) /\ Openings(e) \subseteq Openings(e)' /\ sock[e] # "closed"
          /\ client # "async_connect" \/ phase[e] = "open"
          /\ e = "server" => phase[e] = "open"
      BY <1>2, <2>1, <2>2
    <3> QED BY <2>1, <2>2, <2>3, <2>4, <2>7, <3>1, Speech
  <2> QED BY <2>5, <2>6, <2>7
<1>6. ASSUME NEW d \in Ends, EndProgress(d) \/ Destroy(d), e = Peer(d) PROVE Unread(e)'
  <2>1. /\ sock' \in {sock, Shut(d)} /\ phase' \in {phase, [phase EXCEPT ![d] = "gone"]}
        /\ wire'[e] \in {wire[e], <<>>} /\ (wire'[e] = wire[e] \/ sock' = Shut(d))
        /\ got'[e] = got[e] /\ whole'[e] = whole[e]
        /\ UNCHANGED <<setupVars, accepted, frames, sent>>
    BY <1>6, Ending
  <2>2. phase'[e] = phase[e]
    BY <1>6, <2>1, Peers DEF StreamTypeOK
  <2>3. whole'["server"] => whole["server"]
    <3>1. whole'[d] => whole[d]
      BY <1>6 DEF EndProgress, Destroy, SyncRead, AsyncRead, SyncReadFails, AsyncReadFails, HollowRead,
                  StreamTypeOK
    <3> QED BY <1>6, <2>1, <3>1, Peers DEF Ends
  <2>4. CASE sock' = Shut(d)
    BY <1>4, <1>6, <2>1, <2>2, <2>3, <2>4
  <2>5. CASE sock' = sock /\ wire'[e] = wire[e]
    BY <1>2, <2>1, <2>2, <2>3, <2>5, Silence
  <2> QED BY <2>1, <2>4, <2>5
\* an end reads
<1>7. ASSUME UNCHANGED <<tcpVars, setupVars, accepted, phase, frames, sent, got, whole>>
      PROVE  Unread(e)'
  BY <1>2, <1>7, Silence DEF tcpVars
<1>8. ASSUME NEW chunk \in Chunks(e), SyncRead(e, chunk) \/ AsyncRead(e, chunk) PROVE Unread(e)'
  <2> DEFINE w == Rest(e, chunk)
             p == Peer(e)
             n == frames[p]
             s == sent[p]
             over == sock[p] = "closed"
             g == Len(got[e])
  <2>1. /\ whole' = [whole EXCEPT ![e] = whole[e] /\ OneFrame(chunk)] /\ reading[e] # "none"
        /\ UNCHANGED <<setupVars, accepted, frames, sent>>
    BY <1>8 DEF SyncRead, AsyncRead
  <2>2. phase[e] \notin {"start", "waiting"} /\ phase' \in {phase, [phase EXCEPT ![e] = "gone"]}
    BY <1>8, Ending DEF EndProgress
  <2>3. /\ phase'[e] = "open" /\ phase[e] = "open" /\ whole[e] /\ OneFrame(chunk) /\ sock'[e] = "open"
        /\ e = "client" => client # "foreign"
    BY <2>1, <2>2 DEF Listens, StreamTypeOK, setupVars
  <2>4. sock[e] = "open"
    BY DEF Chunks
  <2>5. Listens(e) /\ Unread(e)
    BY <2>3, <2>4 DEF Following, Listens
  <2>6. PICK o \in Outcomes(chunk) :
          \/ o.kind = "data" /\ got' = [got EXCEPT ![e] = Append(got[e], o.n)]
          \/ o.kind # "data" /\ got' = got
    BY <1>8 DEF SyncRead, AsyncRead
  <2> HIDE DEF w
  <2>7. PICK x \in Outcomes(chunk) :
          \/ x.kind = "data" /\ got' = [got EXCEPT ![e] = Append(got[e], x.n)]
             /\ wire' = w /\ UNCHANGED <<sock, phase>>
          \/ x.kind \in {"heartbeat", "close"} /\ got' = got /\ wire' = w /\ UNCHANGED <<sock, phase>>
          \/ sock'[e] = "closed"
    <3>1. \A u : Die(e, u) => sock'[e] = "closed"
      BY DEF Die, Shut, StreamTypeOK
    <3>2. w[e] \in Seq(Parts(e)) /\ \A x \in Outcomes(chunk) : x.kind \in {"data", "heartbeat", "close", "crash"}
      <4> HIDE DEF Chunks
      <4> QED BY <2>3, <2>5, Hearing DEF w
    <3>3. CASE SyncRead(e, chunk)
      BY <3>1, <3>2, <3>3 DEF SyncRead, w
    <3>4. CASE AsyncRead(e, chunk)
      BY <3>1, <3>4 DEF AsyncRead, ReadAgain, w
    <3> QED BY <1>8, <3>3, <3>4
  <2>8. /\ w[e] \in Seq(Parts(e))
        /\ x.kind = "data" => \E c, k \in Nat : Follows(w[e], c, k, s, g + 1, n, over)
        /\ x.kind \in {"heartbeat", "close"} => \E c, k \in Nat : Follows(w[e], c, k, s, g, n, over)
    BY <2>3, <2>5, Hearing DEF w, FollowsTo
  <2>9. wire' = w /\ UNCHANGED <<sock, phase>> /\ \E c, k \in Nat : Follows(w[e], c, k, s, Len(got'[e]), n, over)
    <3>1. ASSUME x.kind = "data", got' = [got EXCEPT ![e] = Append(got[e], x.n)]
          PROVE  Len(got'[e]) = g + 1
      <4>1. x.n \in Nat /\ got[e] \in Seq(Nat)
        BY OutcomeNumber DEF LogsOK
      <4>2. got'[e] = Append(got[e], x.n)
        BY <3>1 DEF LogsOK
      <4> QED BY <4>1, <4>2, AppendProperties
    <3> QED BY <2>3, <2>7, <2>8, <3>1
  <2>a. PICK u : u = w[e]
    OBVIOUS
  <2>10. wire'[e] = <<>> \o u /\ u \in Seq(Parts(e)) /\ <<>> \in Openings(e)' /\ Parts(e)' = Parts(e)
    <3>1. Parts(e)' = Parts(e)
      BY <2>1 DEF setupVars, Parts, Heads, Tails, Messages, Frame, Header
    <3>2. <<>> \in Openings(e)'
      BY <2>3 DEF Openings
    <3> QED BY <2>8, <2>9, <2>a, <3>1, <3>2, ConcatEmptySeq
  <2>11. \E c, k \in Nat : FollowsTo(e, u, c, k)'
    BY <2>1, <2>9, <2>a DEF FollowsTo, s, n, over
  <2> QED BY <2>10, <2>11 DEF Unread
<1>9. ASSUME SyncReadFails(e) \/ AsyncReadFails(e) \/ HollowRead(e) PROVE Unread(e)'
  <2>1. \A u : Die(e, u) => sock'[e] = "closed"
    BY DEF Die, Shut, StreamTypeOK
  <2>2. reading[e] # "none" /\ phase' \in {phase, [phase EXCEPT ![e] = "gone"]}
        /\ phase[e] \notin {"start", "waiting"}
    BY <1>9, Ending DEF EndProgress, SyncReadFails, AsyncReadFails, HollowRead
  <2>3. sock'[e] = "open"
    BY <2>2 DEF Listens, StreamTypeOK
  <2>4. UNCHANGED <<tcpVars, setupVars, accepted, phase, frames, sent, got, whole>>
    BY <1>9, <2>1, <2>3 DEF SyncReadFails, AsyncReadFails, HollowRead, ReadAgain, tcpVars
  <2> QED BY <1>7, <2>4
<1>10. ASSUME EndProgress(e) PROVE Unread(e)'
  BY <1>8, <1>9, <1>10 DEF EndProgress
<1>11. ASSUME Destroy(e) PROVE Unread(e)'
  BY <1>11 DEF Destroy, Listens, Shut, StreamTypeOK
<1>12. ASSUME NEW d \in Ends, NEW how \in {"sync", "async"}, Read(d, how) PROVE Unread(e)'
  BY <1>7, <1>12 DEF Read
<1>13. CASE UNCHANGED vars
  BY <1>7, <1>13 DEF vars, streamVars
<1>14. ASSUME NEW d \in Ends, EndProgress(d) \/ Destroy(d) PROVE Unread(e)'
  BY <1>6, <1>10, <1>11, <1>14, Peers
<1> QED BY <1>3, <1>5, <1>12, <1>13, <1>14 DEF Next

-----------------------------------------------------------------------------
(* The whole invariant, and what it says of the connection.                *)

\* only an open stream of this library reads
Reading ==
  \A e \in Ends : reading[e] # "none" => phase[e] = "open" /\ (e = "client" => client # "foreign")

Connection ==
  StreamTypeOK /\ WireOK /\ LogsOK /\ Opening /\ Increasing /\ Following /\ Reading

LEMMA ReadingStep ==
  StreamTypeOK /\ WireOK /\ LogsOK /\ Opening /\ Reading /\ [Next]_vars => Reading'
<1> SUFFICES ASSUME StreamTypeOK, WireOK, LogsOK, Opening, Reading, [Next]_vars,
                    NEW e \in Ends, reading'[e] # "none"
             PROVE  phase'[e] = "open" /\ (e = "client" => client' # "foreign")
  BY DEF Reading
<1> USE TwoEnds
<1>1. CASE reading'[e] = reading[e] /\ phase'[e] = phase[e] /\ client' = client
  BY <1>1 DEF Reading
<1>2. CASE Connect \/ AsyncConnect \/ Progress
  <2>1. UNCHANGED <<client, reading>>
    BY <1>2 DEF Connect, AsyncConnect, Progress, ClientResponse, ConnectFails, TcpAccept,
       HandshakeFails, ServerHandshake, Reject, setupVars
  <2>2. phase[e] = "open" => phase'[e] = "open"
    BY <1>2 DEF Connect, AsyncConnect, Progress, ClientResponse, ConnectFails, TcpAccept,
       HandshakeFails, ServerHandshake, Reject, StreamTypeOK
  <2> QED BY <2>1, <2>2 DEF Reading
<1>3. ASSUME NEW d \in Ends, EndProgress(d) PROVE phase'[e] = "open" /\ (e = "client" => client' # "foreign")
  <2>1. /\ phase' \in {phase, [phase EXCEPT ![d] = "gone"]} /\ client' = client
        /\ reading'[Peer(d)] = reading[Peer(d)]
    BY <1>3, Ending DEF setupVars
  <2>2. CASE e = Peer(d)
    BY <1>1, <2>1, <2>2, Peers DEF StreamTypeOK
  <2>3. CASE e = d
    <3>1. reading[e] # "none"
      BY <1>3, <2>3 DEF EndProgress, SyncRead, AsyncRead, SyncReadFails, AsyncReadFails, HollowRead
    <3>2. phase' = [phase EXCEPT ![d] = "gone"] => reading'[d] = "none"
      <4>1. \A u : Die(d, u) => reading'[d] = "none"
        BY DEF Die, StreamTypeOK
      <4>2. \/ phase' = phase
            \/ \E u : Die(d, u)
        BY <1>3 DEF EndProgress, SyncRead, AsyncRead, SyncReadFails, AsyncReadFails, HollowRead,
           ReadAgain
      <4>3. phase[d] = "open"
        BY <2>3, <3>1 DEF Reading
      <4>4. phase' = [phase EXCEPT ![d] = "gone"] => phase' # phase
        BY <4>3 DEF StreamTypeOK
      <4> QED BY <4>1, <4>2, <4>4
    <3> QED BY <2>1, <2>3, <3>1, <3>2 DEF Reading
  <2> QED BY <2>2, <2>3, Peers
<1>4. ASSUME NEW d \in Ends, NEW how \in {"sync", "async"}, Read(d, how)
      PROVE  phase'[e] = "open" /\ (e = "client" => client' # "foreign")
  BY <1>1, <1>4 DEF Read, setupVars, StreamTypeOK
<1>5. CASE \/ \E d \in Ends :
                \/ \E via \in {"sync", "async", "delegate"}, opcode \in Ops : Write(d, via, opcode)
                \/ Disconnect(d) \/ Destroy(d)
           \/ UNCHANGED vars
  BY <1>1, <1>5 DEF Write, Disconnect, Destroy, setupVars, vars, streamVars
<1> QED BY <1>2, <1>3, <1>4, <1>5 DEF Next

LEMMA ConnectionInit == Init => Connection
<1> SUFFICES ASSUME Init PROVE Connection
  OBVIOUS
<1>1. LogsOK
  BY EmptySeq, Zenon DEF Init, LogsOK
<1>2. Increasing
  <2>1. Len(<<>>) = 0 /\ (\A j \in 1 .. 0 : FALSE) /\ <<>> \in Seq(Nat)
    BY EmptySeq, SMT
  <2> QED BY <2>1 DEF Init, Increasing, Rising
<1>3. Following
  BY DEF Init, Following, Listens
<1>4. Reading
  BY DEF Init, Reading
<1> QED BY <1>1, <1>2, <1>3, <1>4, StreamTypeInit, WireInit, OpeningInit DEF Connection

LEMMA ConnectionStep == Connection /\ [Next]_vars => Connection'
BY StreamTypeStep, WireStep, LogsStep, OpeningStep, IncreasingStep, FollowingStep, ReadingStep
   DEF Connection

-----------------------------------------------------------------------------
LEMMA OwnResponse == Accepted(Response(LibraryKey))
<1> DEFINE r == Response(LibraryKey)
           at == LinesWith("sec_websocket_accept", r)
<1>1. DOMAIN r = 1 .. 5
  BY SMT DEF Response
<1>2. \A i \in 1 .. 5 : i = 1 \/ i = 2 \/ i = 3 \/ i = 4 \/ i = 5
  BY SMT
<1>3. r[4] = Line("sec_websocket_accept", Accept(LibraryKey)) /\ 4 \in 1 .. 5
  BY SMT DEF Response
<1>4. \A i \in 1 .. 5 : r[i].field = "sec_websocket_accept" => i = 4
  BY <1>2, SMT DEF Response, Line, Blank
<1>5. at = {4}
  <2>1. 4 \in at
    BY <1>1, <1>3 DEF LinesWith, IsLine, Line
  <2>2. \A i \in at : i = 4
    BY <1>1, <1>4 DEF LinesWith
  <2> QED BY <2>1, <2>2
<1>6. Max(at) = 4
  <2>1. 5 \in Nat /\ {4} \subseteq 1 .. 5
    BY SMT
  <2> QED BY <1>5, <2>1, GreatestPlace
<1> QED BY <1>3, <1>5, <1>6 DEF Accepted, Line

(* What moves the client, and what its reads are known by.                 *)
LEMMA ClientMoves ==
  ASSUME Connection, [Next]_vars
  PROVE  \/ phase'["client"] \in {phase["client"], "gone"} /\ (whole'["client"] => whole["client"])
         \/ Connect \/ AsyncConnect \/ ConnectFails
         \/ \E chunk \in Chunks("client") : ClientResponse(chunk)
<1> USE TwoEnds DEF Connection
<1> DEFINE Still == phase'["client"] \in {phase["client"], "gone"} /\ (whole'["client"] => whole["client"])
<1>1. CASE TcpAccept \/ HandshakeFails
  BY <1>1 DEF TcpAccept, HandshakeFails, Reject, StreamTypeOK
<1>2. ASSUME NEW chunk \in Chunks("server"), ServerHandshake(chunk) PROVE Still
  BY <1>2 DEF ServerHandshake, Reject, StreamTypeOK
<1>3. ASSUME NEW d \in Ends, EndProgress(d) PROVE Still
  <2>1. phase' \in {phase, [phase EXCEPT ![d] = "gone"]} /\ whole'[Peer(d)] = whole[Peer(d)]
    BY <1>3, Ending
  <2>2. whole'[d] => whole[d]
    BY <1>3 DEF EndProgress, SyncRead, AsyncRead, SyncReadFails, AsyncReadFails, HollowRead, StreamTypeOK
  <2> QED BY <2>1, <2>2, Peers DEF StreamTypeOK
<1>4. CASE \/ \E d \in Ends :
                \/ \E via \in {"sync", "async", "delegate"}, opcode \in Ops : Write(d, via, opcode)
                \/ Disconnect(d) \/ Destroy(d)
                \/ \E how \in {"sync", "async"} : Read(d, how)
           \/ UNCHANGED vars
  BY <1>4 DEF Write, Disconnect, Destroy, Read, vars, streamVars
<1> QED BY <1>1, <1>2, <1>3, <1>4 DEF Next, Progress

LEMMA AgreeingStep == Connection /\ HandshakeAgreed /\ [Next]_vars => HandshakeAgreed'
<1> SUFFICES ASSUME Connection, HandshakeAgreed, [Next]_vars, client' = "connect"
             PROVE  /\ phase'["client"] = "open" => accepted' = "returned"
                    /\ phase'["client"] = "failed" /\ accepted' = "returned" =>
                         ~whole'["client"] \/ ~whole'["server"] \/ sock'["server"] = "closed"
  BY DEF HandshakeAgreed
<1> USE TwoEnds
<1>1. /\ client = "connect"
      /\ accepted # "pending" => accepted' = accepted /\ (whole'["server"] => whole["server"])
      /\ sock["server"] = "closed" => sock'["server"] = "closed"
  BY DecidedStays DEF Connection, setupVars
<1>2. phase["client"] \in {"open", "failed"} => accepted # "pending"
  BY <1>1 DEF Connection, Opening, Judged, Unanswered
<1>3. CASE phase'["client"] \in {phase["client"], "gone"} /\ (whole'["client"] => whole["client"])
  BY <1>1, <1>2, <1>3 DEF HandshakeAgreed
<1>4. CASE Connect \/ AsyncConnect
  BY <1>1, <1>4 DEF Connect, AsyncConnect, Connection, StreamTypeOK
<1>5. CASE ConnectFails
  <2>1. sock["server"] = "closed"
    BY <1>5 DEF ConnectFails, ReadFails, Connection, Opening, BegunAt, Peer
  <2>2. phase'["client"] = "failed"
    BY <1>5 DEF ConnectFails, Connection, StreamTypeOK
  <2> QED BY <1>1, <2>1, <2>2
<1>6. ASSUME NEW chunk \in Chunks("client"), ClientResponse(chunk)
      PROVE  /\ phase'["client"] = "open" => accepted' = "returned"
             /\ phase'["client"] = "failed" /\ accepted' = "returned" =>
                  ~whole'["client"] \/ ~whole'["server"]
  <2>1. wire["client"] # <<>>
    BY ReadingIs, EmptySeq, SMT DEF Connection, WireOK
  <2>2. accepted = "returned"
    BY <2>1 DEF Connection, Opening, Judged, Unanswered, StreamTypeOK
  <2>3. PICK tail :
          /\ phase'["client"] = IF Accepted(chunk \o tail) THEN "open" ELSE "failed"
          /\ whole'["client"] = (chunk[Len(chunk)] = Blank /\ tail = <<>>)
    BY <1>1, <1>6 DEF ClientResponse, Connection, StreamTypeOK
  <2>4. ASSUME chunk[Len(chunk)] = Blank, tail = <<>>, whole["server"] PROVE Accepted(chunk \o tail)
    <3>1. chunk = Response(LibraryKey)
      BY <1>1, <1>6, <2>4, Answering DEF Connection, Responses
    <3>2. Response(LibraryKey) \o <<>> = Response(LibraryKey)
      BY KeyInValues, ResponseLines, ConcatEmptySeq
    <3> QED BY <2>4, <3>1, <3>2, OwnResponse
  <2> QED BY <1>1, <2>2, <2>3, <2>4
<1> QED BY <1>3, <1>4, <1>5, <1>6, ClientMoves

(* connect returns only when the server has made a stream of the           *)
(* connection, and throws although it has only when one of the two did not *)
(* read just what the other had written, or the server has hung up         *)
(* (xwebsocket_stream_impl.cpp:744-783).                                   *)
THEOREM BothAgree == Spec => []HandshakeAgreed
<1>1. Init => HandshakeAgreed
  <2>1. Init => phase = [e \in Ends |-> "start"]
    BY Zenon DEF Init
  <2> QED BY <2>1, TwoEnds DEF HandshakeAgreed
<1> QED BY <1>1, ConnectionInit, ConnectionStep, AgreeingStep, PTL DEF Spec

-----------------------------------------------------------------------------
(* The connection is a channel.                                            *)

LEMMA ReadSteps ==
  ASSUME Connection, NEW e \in Ends, NEW chunk \in Chunks(e), SyncRead(e, chunk) \/ AsyncRead(e, chunk)
  PROVE  [Channel!ChannelNext]_<<sent, got, [d \in Ends |-> ~whole[d]]>>
<1> DEFINE broken == [d \in Ends |-> ~whole[d]]
           p == Peer(e)
           g == Len(got[e])
<1>0. e \in Channel!Parties /\ p = Channel!Opposite(e)
  BY DEF Channel!Parties, Channel!Opposite, Ends, Peer
<1>1. /\ sent' = sent /\ whole' = [whole EXCEPT ![e] = whole[e] /\ OneFrame(chunk)] /\ reading[e] # "none"
      /\ \/ got' = got
         \/ \E o \in Outcomes(chunk) : o.kind = "data" /\ got' = [got EXCEPT ![e] = Append(got[e], o.n)]
  BY DEF SyncRead, AsyncRead
<1>2. ASSUME NEW n \in Nat, got' = [got EXCEPT ![e] = Append(got[e], n)]
      PROVE  Len(got'[e]) = g + 1 /\ got'[e][g + 1] = n
  <2>1. got[e] \in Seq(Nat) /\ got'[e] = Append(got[e], n)
    BY <1>2 DEF Connection, LogsOK
  <2> QED BY <2>1, AppendProperties
<1>3. CASE ~(whole[e] /\ OneFrame(chunk))
  <2>1. broken' = [broken EXCEPT ![e] = TRUE]
    BY <1>1, <1>3 DEF Connection, StreamTypeOK
  <2>2. CASE got' = got
    BY <1>0, <1>1, <2>1, <2>2 DEF Channel!ChannelNext, Channel!Garble
  <2>3. ASSUME NEW o \in Outcomes(chunk), got' = [got EXCEPT ![e] = Append(got[e], o.n)]
        PROVE  Channel!Garble(e)
    <3>1. o.n \in Nat
      BY OutcomeNumber DEF Connection
    <3>2. Len(got'[e]) = g + 1 /\ got'[e][g + 1] = o.n
      BY <1>2, <2>3, <3>1
    <3>3. got' = [got EXCEPT ![e] = Append(got[e], got'[e][Len(got[e]) + 1])]
      BY <2>3, <3>2
    <3> QED BY <1>1, <2>1, <3>2, <3>3 DEF Channel!Garble
  <2> QED BY <1>0, <1>1, <2>2, <2>3 DEF Channel!ChannelNext
<1>4. CASE whole[e] /\ OneFrame(chunk)
  <2>1. whole' = whole /\ broken' = broken
    BY <1>1, <1>4 DEF Connection, StreamTypeOK
  <2>2. CASE got' = got
    BY <1>1, <2>1, <2>2
  <2>3. ASSUME NEW o \in Outcomes(chunk), o.kind = "data", got' = [got EXCEPT ![e] = Append(got[e], o.n)]
        PROVE  Channel!Deliver(e)
    <3>1. sock[e] = "open" /\ phase[e] = "open" /\ (e = "client" => client # "foreign")
      BY <1>1 DEF Chunks, Connection, Reading
    <3>2. Unread(e)
      BY <1>4, <3>1 DEF Connection, Following, Listens
    <3>3. g + 1 \in 1 .. Len(sent[p]) /\ sent[p][g + 1] = o.n
      <4> HIDE DEF Chunks
      <4> QED BY <1>4, <2>3, <3>1, <3>2, Hearing DEF Connection
    <3>4. g \in Nat /\ Len(sent[p]) \in Nat
      BY Peers, LenProperties DEF Connection, LogsOK
    <3>5. g < Len(sent[p])
      <4> HIDE DEF g
      <4> QED BY <3>3, <3>4, SMT
    <3>6. ~broken[e]
      BY <1>4
    <3>7. got' = [got EXCEPT ![e] = Append(got[e], sent[p][Len(got[e]) + 1])]
      BY <2>3, <3>3
    <3> QED BY <1>0, <1>1, <2>1, <3>5, <3>6, <3>7 DEF Channel!Deliver
  <2> QED BY <1>0, <1>1, <2>2, <2>3 DEF Channel!ChannelNext
<1> QED BY <1>3, <1>4

LEMMA ChannelStep ==
  Connection /\ [Next]_vars => [Channel!ChannelNext]_<<sent, got, [e \in Ends |-> ~whole[e]]>>
<1> SUFFICES ASSUME Connection, [Next]_vars
             PROVE  [Channel!ChannelNext]_<<sent, got, [e \in Ends |-> ~whole[e]]>>
  OBVIOUS
<1> USE TwoEnds
<1> DEFINE broken == [e \in Ends |-> ~whole[e]]
           Simulated == [Channel!ChannelNext]_<<sent, got, broken>>
<1>1. CASE UNCHANGED <<sent, got, whole>>
  BY <1>1
<1>2. ASSUME NEW e \in Ends, phase[e] = "waiting", NEW b \in BOOLEAN, whole' = [whole EXCEPT ![e] = b],
             UNCHANGED <<sent, got>>
      PROVE  Simulated
  <2>1. whole[e] /\ e \in Channel!Parties
    BY <1>2 DEF Connection, Opening, FreshAt, Channel!Parties, Ends
  <2>2. CASE b
    <3>1. whole' = whole
      BY <1>2, <2>1, <2>2 DEF Connection, StreamTypeOK
    <3> QED BY <1>1, <1>2, <3>1
  <2>3. CASE ~b
    <3>1. broken' = [broken EXCEPT ![e] = TRUE]
      BY <1>2, <2>3 DEF Connection, StreamTypeOK
    <3> QED BY <1>2, <2>1, <3>1 DEF Channel!ChannelNext, Channel!Garble
  <2> QED BY <2>2, <2>3
<1>3. ASSUME NEW e \in Ends, NEW via \in {"sync", "async", "delegate"}, NEW opcode \in Ops,
             Write(e, via, opcode)
      PROVE  Simulated
  <2> DEFINE m == Message(e, OpSent(via, opcode))
  <2>1. UNCHANGED <<got, whole>> /\ m \in Messages
        /\ (sent' = sent \/ sent' = [sent EXCEPT ![e] = Append(sent[e], m.n)])
    BY <1>3, Sayable DEF Write, Connection
  <2>2. CASE sent' = [sent EXCEPT ![e] = Append(sent[e], m.n)]
    <3>1. m.n \in Nat /\ sent[e] \in Seq(Nat)
      BY <2>1 DEF Messages, Connection, LogsOK
    <3>2. sent'[e] = Append(sent[e], m.n)
      BY <2>2 DEF Connection, LogsOK
    <3>3. Len(sent'[e]) = Len(sent[e]) + 1 /\ sent'[e][Len(sent[e]) + 1] = m.n
      BY <3>1, <3>2, AppendProperties
    <3>4. Channel!Send(e) /\ e \in Channel!Parties
      BY <2>1, <2>2, <3>3 DEF Channel!Send, Channel!Parties, Ends
    <3> QED BY <3>4 DEF Channel!ChannelNext
  <2> QED BY <1>1, <2>1, <2>2
<1>4. ASSUME NEW e \in Ends, EndProgress(e) PROVE Simulated
  BY <1>1, <1>4, ReadSteps DEF EndProgress, SyncReadFails, AsyncReadFails, HollowRead
<1>5. ASSUME NEW chunk \in Chunks("client"), ClientResponse(chunk) PROVE Simulated
  BY <1>2, <1>5 DEF ClientResponse
<1>6. ASSUME NEW chunk \in Chunks("server"), ServerHandshake(chunk) PROVE Simulated
  BY <1>2, <1>6 DEF ServerHandshake, Reject
<1>7. CASE \/ Connect \/ AsyncConnect \/ ConnectFails \/ TcpAccept \/ HandshakeFails
           \/ \E d \in Ends : Disconnect(d) \/ Destroy(d) \/ \E how \in {"sync", "async"} : Read(d, how)
           \/ UNCHANGED vars
  BY <1>1, <1>7 DEF Connect, AsyncConnect, ConnectFails, TcpAccept, HandshakeFails, Reject,
     Disconnect, Destroy, Read, vars, streamVars
<1> QED BY <1>3, <1>4, <1>5, <1>6, <1>7 DEF Next, Progress

(* A connection is a channel of messages in each direction: what is        *)
(* delivered are the messages of the other end with data, in their order,  *)
(* none twice and none left out, until a read gets something else than one *)
(* frame, whatever the lengths, the other writes of the two ends and the   *)
(* moments at which they hang up (xwebsocket_stream_impl.cpp:798-971).     *)
THEOREM StreamIsChannel == Spec => IsChannel
<1>1. Init => Channel!ChannelInit
  BY DEF Init, Channel!ChannelInit, Channel!Parties, Ends
<1> QED BY <1>1, ConnectionInit, ConnectionStep, ChannelStep, PTL DEF Spec, IsChannel, Channel!ChannelSpec
=============================================================================
