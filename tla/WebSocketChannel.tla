-------------------------- MODULE WebSocketChannel --------------------------
(***************************************************************************)
(* What a websocket stream promises: in each direction the messages come   *)
(* in the order they were sent, none twice and none left out, until a      *)
(* read gets something else than one frame; after that, anything.          *)
(***************************************************************************)
EXTENDS Naturals, Sequences

VARIABLES sent, got, broken

Parties == {"client", "server"}
Opposite(e) == IF e = "client" THEN "server" ELSE "client"

ChannelInit == /\ sent = [e \in Parties |-> <<>>]
               /\ got = [e \in Parties |-> <<>>]
               /\ broken \in [Parties -> BOOLEAN]

Send(e) == /\ Len(sent'[e]) = Len(sent[e]) + 1
           /\ sent' = [sent EXCEPT ![e] = Append(@, sent'[e][Len(@) + 1])]
           /\ UNCHANGED <<got, broken>>

Deliver(e) ==
  /\ ~broken[e]
  /\ Len(got[e]) < Len(sent[Opposite(e)])
  /\ got' = [got EXCEPT ![e] = Append(@, sent[Opposite(e)][Len(@) + 1])]
  /\ UNCHANGED <<sent, broken>>

\* a read that gets part of a frame, or more than one, and every later one
Garble(e) ==
  /\ broken' = [broken EXCEPT ![e] = TRUE]
  /\ \/ UNCHANGED got
     \/ /\ Len(got'[e]) = Len(got[e]) + 1
        /\ got' = [got EXCEPT ![e] = Append(@, got'[e][Len(@) + 1])]
  /\ UNCHANGED sent

ChannelNext == \E e \in Parties : Send(e) \/ Deliver(e) \/ Garble(e)

ChannelSpec == ChannelInit /\ [][ChannelNext]_<<sent, got, broken>>
=============================================================================
