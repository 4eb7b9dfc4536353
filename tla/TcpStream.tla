------------------------------ MODULE TcpStream -----------------------------
(***************************************************************************)
(* The two ends of a TCP connection as tcp_stream.cpp uses them: a byte    *)
(* stream that keeps the order and nothing else.  The bytes are tokens.    *)
(*                                                                         *)
(* write and async_write are write_some: a part of the data may go, and    *)
(* no caller looks at the count.  read is read_some: any part of what has  *)
(* come.  close is what disconnect, a destructor and the end of a process  *)
(* do to the socket; with unread data the other end is reset and loses     *)
(* what it has not read.                                                   *)
(***************************************************************************)
EXTENDS Integers, Sequences

VARIABLES
  sock,   \* sock[e]: "none", "open" or "closed"
  wire    \* wire[e]: what end e has not read yet

Ends == {"client", "server"}
Peer(e) == IF e = "client" THEN "server" ELSE "client"

TcpInit == /\ sock = [e \in Ends |-> "none"]
           /\ wire = [e \in Ends |-> <<>>]

\* the states of the wire after e has written data
Written(e, data) ==
  IF sock[Peer(e)] = "closed" THEN {wire}
  ELSE {[wire EXCEPT ![Peer(e)] = @ \o SubSeq(data, 1, k)] : k \in 1 .. Len(data)}

WriteFails(e) == sock[e] # "open" \/ sock[Peer(e)] = "closed"

\* what a read by e may return, and the failure of a read
Chunks(e) ==
  IF sock[e] = "open" THEN {SubSeq(wire[e], 1, k) : k \in 1 .. Len(wire[e])} ELSE {}
Rest(e, chunk) == [wire EXCEPT ![e] = SubSeq(@, Len(chunk) + 1, Len(@))]
ReadFails(e) == sock[e] = "closed" \/ (wire[e] = <<>> /\ sock[Peer(e)] = "closed")

\* the states of the wire after e has closed its socket, from w
Dropped(e, w) ==
  {[w EXCEPT ![e] = <<>>]}
    \cup (IF w[e] = <<>> THEN {} ELSE {[d \in Ends |-> <<>>]})
Shut(e) == [sock EXCEPT ![e] = "closed"]
=============================================================================
