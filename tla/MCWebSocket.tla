----------------------------- MODULE MCWebSocket ----------------------------
(* A small instance of WebSocketStream.  Bounds: MaxFrames, Brief.         *)
EXTENDS WebSocketStream

GetLine == Line("request_uri", [get |-> 0, http |-> 10, end |-> 18])
UpgradeLine == Line("upgrade", [websocket |-> 0, end |-> 9])
ConnectionLine == Line("connection", [upgrade |-> 0, end |-> 7])
KeyLine == Line("sec_websocket_key", [key |-> 2])
VersionLine == Line("sec_web_socket_version", [v13 |-> 0, end |-> 2])

\* a look-alike that hides the connection
Hidden ==
  <<GetLine, UpgradeLine, ConnectionLine, VersionLine, KeyLine, LookAlike("connection", [end |-> 10]), Blank>>

\* a browser: keep-alive, Upgrade
Browser ==
  <<GetLine, Line("connection", [upgrade |-> 12, end |-> 19]), KeyLine, UpgradeLine, VersionLine, Blank>>

\* a request for a page
Page == <<GetLine, Other, Line("connection", [end |-> 10]), Blank>>

\* requests that a client should not send, and a page's
Odd ==
  { Page, Hidden,
    \* another version of the protocol
    <<GetLine, UpgradeLine, ConnectionLine, KeyLine, Line("sec_web_socket_version", [end |-> 1]), Blank>>,
    \* a word at offset 1
    <<GetLine, Line("upgrade", [websocket |-> 1, end |-> 10]), ConnectionLine, KeyLine, VersionLine, Blank>>,
    \* a request line as long as the array
    <<Line("request_uri", [get |-> 0, http |-> 504, end |-> 512]), UpgradeLine, ConnectionLine, KeyLine,
      VersionLine, Blank>> }

MCRequests == Odd \cup {Browser}
MCEarlier == {Hidden, Page}

MCMaskKeys == {<<1, 128, 254, 255>>}
=============================================================================
