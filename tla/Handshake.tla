------------------------------ MODULE Handshake -----------------------------
(***************************************************************************)
(* The opening handshake of a websocket (xwebsocket_stream_impl.cpp:       *)
(* 22-405): how a request and a response are written as lines, read back,  *)
(* and judged.                                                             *)
(*                                                                         *)
(* A line is what parse can tell of it: the header it takes it for (strstr *)
(* with the name and the colon, so "Proxy-Connection:" counts as           *)
(* "Connection:", and any line with "GET" as the request line), where the  *)
(* words that is_valid looks for begin in its value, and whether it really *)
(* is that header.  A value is the function from the words it contains to  *)
(* their offsets, and from "end" to its length.  Lines that nobody looks   *)
(* at (host, origin, protocol) are left out.                               *)
(***************************************************************************)
EXTENDS Integers, Sequences, FiniteSetsExt

Fields == {"request_uri", "upgrade", "connection", "sec_websocket_key", "sec_web_socket_version"}

Line(field, value) == [field |-> field, value |-> value, real |-> TRUE]
LookAlike(field, value) == [field |-> field, value |-> value, real |-> FALSE]
Other == Line("other", <<>>)     \* a line that no branch of parse takes
Blank == Line("blank", <<>>)     \* the empty line at the end
IsLine(token) == "field" \in DOMAIN token
LibraryKey == [key |-> 0]        \* the key that connect always sends

\* the lines a client may send: any header, with the words at any offsets
Words == {"get", "http", "websocket", "upgrade", "v13", "key", "end"}
IsRequestLine(l) ==
  /\ DOMAIN l = {"field", "value", "real"} /\ l.real \in BOOLEAN
  /\ l.field \in Fields \cup {"other", "blank"}
  /\ \E W \in SUBSET Words : l.value \in [W -> Nat]

\* what connect sends: binary_pack of the request it fills in
ConnectRequest ==
  << Line("request_uri", [get |-> 0, http |-> 10, end |-> 18]),
     Line("upgrade", [websocket |-> 0, end |-> 9]), Line("connection", [upgrade |-> 0, end |-> 7]),
     Line("sec_websocket_key", LibraryKey), Line("sec_web_socket_version", [v13 |-> 0, end |-> 2]),
     Blank >>

\* the lines of what was read with the header f
LinesWith(f, chunk) ==
  {i \in DOMAIN chunk : IsLine(chunk[i]) /\ chunk[i].field = f}

\* handshake_client_request::parse: the last line with a header wins
Parse(chunk) ==
  [f \in Fields |->
    IF LinesWith(f, chunk) = {} THEN <<>> ELSE chunk[Max(LinesWith(f, chunk))].value]

not_found == -1
BUFFER_SIZE == 512

\* the result is the start of the string less the place of the word
find_case_insensitive(value, word) ==
  IF word \in DOMAIN value THEN -value[word] ELSE not_found

\* The search copies the string to an array on the stack: a longer one writes over what
\* is behind it.
Overruns(value) == "end" \in DOMAIN value /\ value["end"] >= BUFFER_SIZE

\* the headers that is_valid searches, one after the other, and the words
Searches == << <<"request_uri", "get">>, <<"request_uri", "http">>, <<"upgrade", "websocket">>,
               <<"connection", "upgrade">>, <<"sec_web_socket_version", "v13">> >>
Wanted == {Searches[k] : k \in 1 .. 5}

found(header, w) == find_case_insensitive(header[w[1]], w[2]) # not_found

is_valid_any(header) ==          \* mutant: one of the words is enough
  IF \E w \in Wanted : found(header, w) THEN {"valid"} ELSE {"invalid"}

\* What is_valid may come to.  After an overrun that is anything, or the process dies;
\* the first word that is not found ends the search.
is_valid(header) ==
  IF \E k \in 1 .. 5 : /\ Overruns(header[Searches[k][1]])
                       /\ \A i \in 1 .. k - 1 : found(header, Searches[i])
  THEN {"valid", "invalid", "crashed"}
  ELSE IF \A w \in Wanted : found(header, w) THEN {"valid"} ELSE {"invalid"}

\* SHA-1 and Base64 of the key and the GUID: as different as the keys are
Accept(key) == [accept |-> key]

ResponseNoKey(key) ==            \* mutant: the hash of the GUID alone
  << Line("http_status", <<>>), Line("upgrade", [websocket |-> 0]), Line("connection", [upgrade |-> 0]),
     Line("sec_websocket_accept", Accept(<<>>)), Blank >>

\* handshake_server_response::binary_pack, for the key of the request
Response(key) ==
  << Line("http_status", <<>>), Line("upgrade", [websocket |-> 0]), Line("connection", [upgrade |-> 0]),
     Line("sec_websocket_accept", Accept(key)), Blank >>

\* handshake_server_response::parse and the check in connect
Accepted(chunk) ==
  LET at == LinesWith("sec_websocket_accept", chunk)
  IN at # {} /\ chunk[Max(at)].value = Accept(LibraryKey)

-----------------------------------------------------------------------------
\* every word is in some line with its header, or in one that looks like it
Asks(lines) ==
  \A w \in Wanted : \E i \in DOMAIN lines : lines[i].field = w[1] /\ w[2] \in DOMAIN lines[i].value

\* every header is there, and no line that parse may take for it is without the word,
\* or has it at offset 1, which the search reports as not_found
Flawless(lines) ==
  \A w \in Wanted :
    /\ \E i \in DOMAIN lines : lines[i].real /\ lines[i].field = w[1]
    /\ \A i \in DOMAIN lines :
         lines[i].field = w[1] => w[2] \in DOMAIN lines[i].value /\ lines[i].value[w[2]] # 1

\* a header that is searched does not fit the array
Overlong(lines) ==
  \E w \in Wanted, i \in DOMAIN lines : lines[i].field = w[1] /\ Overruns(lines[i].value)
=============================================================================
