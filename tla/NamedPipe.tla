------------------------------ MODULE NamedPipe -----------------------------
(***************************************************************************)
(* Named pipes of Windows as the library uses them: the acceptor and its   *)
(* sessions (win32_named_pipe_server.cpp), the clients and the operations  *)
(* of both (win32_named_pipe.cpp), the asynchronous ones with a delegate   *)
(* as well (stream/async_stream.cpp).                                      *)
(*                                                                         *)
(* The operating system keeps the handles.  A handle of either end is      *)
(* connected until the other end goes: a closed client leaves it broken,   *)
(* with what was sent, a server that disconnects leaves it disconnected,   *)
(* with nothing.  A message is a sequence of parts; a pipe in message mode *)
(* gives out one message at a time and complains when the buffer is too    *)
(* small for it.                                                           *)
(*                                                                         *)
(* Each pipe object has a thread of its own that makes its calls.  A call  *)
(* that throws before it has changed anything is not a step.               *)
(***************************************************************************)
EXTENDS Delegate, FiniteSets

CONSTANTS
  Clients,    \* the pipe objects that connect
  Sizes,      \* the sizes of messages, in parts
  Capacity,   \* buf_capacity, in parts
  MaxHandles, \* handles that are open at once (bound)
  MaxWrites,  \* messages written (bound)
  MaxEdits    \* changes to the user's delegate (bound)

ASSUME PipeAssumption ==
  /\ "session" \notin Clients /\ Sizes \subseteq Nat \ {0} /\ Capacity \in Nat \ {0}
  /\ MaxHandles \in Nat /\ MaxWrites \in Nat /\ MaxEdits \in Nat

VARIABLES
  os,         \* os[h]: what the system keeps for the handle h
  acceptor,   \* the thread in accept: "idle" or "waiting"
  local,      \* the win32_handle of accept, or None
  pipe,       \* pipe[p]: the open handle of the pipe object p, or None
  pc,         \* pc[p]: "idle", or where the call of p waits: "busy", "opened",
              \* "reading" or "flushing"
  opening,    \* opening[p]: the local pipe_handle of connect, or None
  more_data,  \* more_data[p]: GetLastError() of the thread of p is ERROR_MORE_DATA
  op,         \* the asynchronous operation that is under way, or NoOp (bound: one)
  user,       \* the delegate of the user, while an operation is under way
  edits,      \* how often the user has changed it
  writes,
  cut         \* history: the reads of p have met a message too long for the buffer

callVars == <<acceptor, local, pc, opening>>
userVars == <<user, edits>>
readVars == <<more_data, cut>>
vars == <<os, callVars, pipe, readVars, op, userVars, writes>>

Pipes == Clients \cup {"session"}
Handles == 1 .. MaxHandles
None == 0
NoOp == [result |-> "none"]

\* status: "unused", "listening", "connected", "broken" or "disconnected";
\* mode: "unset" until connect has set it; inbox: what can be read;
\* sent: the number of parts written to the handle; got: the parts that
\* reads have returned
Unused == [status |-> "unused", mate |-> None, mode |-> "unset",
           inbox |-> <<>>, sent |-> 0, got |-> <<>>]

Init ==
  /\ os = [h \in Handles |-> Unused]
  /\ acceptor = "idle" /\ local = None
  /\ pipe = [p \in Pipes |-> None]
  /\ pc = [p \in Pipes |-> "idle"]
  /\ opening = [p \in Pipes |-> None]
  /\ more_data = [p \in Pipes |-> FALSE]
  /\ op = NoOp
  /\ user = Empty
  /\ edits = 0 /\ writes = 0
  /\ cut = [p \in Pipes |-> FALSE]

-----------------------------------------------------------------------------
(* The operating system.                                                   *)

Open(h) == os[h].status # "unused"
Fresh(h) == ~Open(h) /\ \A i \in Handles : i < h => Open(i)
Listening == {h \in Handles : os[h].status = "listening"}
Instances == {h \in Handles : Open(h) /\ (h = local \/ h = pipe["session"])}

\* CloseHandle(h)
Closed(h) ==
  [g \in Handles |-> IF g = h THEN Unused
                     ELSE IF os[g].mate # h THEN os[g]
                     ELSE [os[g] EXCEPT !.status = "broken", !.mate = None]]

\* DisconnectNamedPipe(h) and CloseHandle(h)
Disconnected(h) ==
  [g \in Handles |-> IF g = h THEN Unused
                     ELSE IF os[g].mate # h THEN os[g]
                     ELSE [os[g] EXCEPT !.status = "disconnected", !.mate = None, !.inbox = <<>>]]

Ended(h) == os[h].status # "connected"
Gone(p) == IF pipe[p] = None THEN TRUE ELSE Ended(pipe[p])
Unread(h) == IF Ended(h) THEN FALSE ELSE os[os[h].mate].inbox # <<>>

-----------------------------------------------------------------------------
(* accept.                                                                 *)

\* CreateNamedPipeA; one session at a time (bound)
Accept(io_mode) ==
  /\ acceptor = "idle" /\ pipe["session"] = None /\ pc["session"] = "idle"
  /\ \E h \in Handles :
       /\ Fresh(h)
       /\ os' = [os EXCEPT ![h].status = "listening", ![h].mode = io_mode]
       /\ local' = h
  /\ acceptor' = "waiting"
  /\ UNCHANGED <<pc, opening, pipe, readVars, op, userVars, writes>>

AcceptedKept ==                   \* mutant: pipe_handle is not cleared, and closes
  /\ acceptor = "waiting"
  /\ acceptor' = "idle" /\ local' = None
  /\ pipe' = [pipe EXCEPT !["session"] = local]
  /\ os' = Closed(local)
  /\ UNCHANGED <<pc, opening, readVars, op, userVars, writes>>

\* ConnectNamedPipe returns.  The handle is an overlapped one and no
\* OVERLAPPED is passed: it may return before a client has come.  The pipe
\* takes the handle over and pipe_handle is cleared.
Accepted ==
  /\ acceptor = "waiting"
  /\ acceptor' = "idle" /\ local' = None
  /\ pipe' = [pipe EXCEPT !["session"] = local]
  /\ UNCHANGED <<os, pc, opening, readVars, op, userVars, writes>>

\* ConnectNamedPipe fails when the client has gone again: pipe_handle closes
AcceptFails ==
  /\ acceptor = "waiting" /\ os[local].status = "broken"
  /\ acceptor' = "idle" /\ local' = None
  /\ os' = Closed(local)
  /\ UNCHANGED <<pc, opening, pipe, readVars, op, userVars, writes>>

-----------------------------------------------------------------------------
(* connect.                                                                *)

\* CreateFileA opens a listening instance, or finds that all are busy
Connect(c) ==
  /\ pipe[c] = None /\ pc[c] = "idle" /\ Instances # {}
  /\ \/ \E h \in Listening, g \in Handles :
          /\ Fresh(g)
          /\ os' = [os EXCEPT ![h].status = "connected", ![h].mate = g,
                              ![g].status = "connected", ![g].mate = h]
          /\ opening' = [opening EXCEPT ![c] = g]
          /\ pc' = [pc EXCEPT ![c] = "opened"]
     \/ /\ Listening = {}
        /\ pc' = [pc EXCEPT ![c] = "busy"]
        /\ UNCHANGED <<os, opening>>
  /\ more_data' = [more_data EXCEPT ![c] = FALSE]
  /\ UNCHANGED <<acceptor, local, pipe, cut, op, userVars, writes>>

\* WaitNamedPipeA: an instance listens again, and nobody opens it; or the
\* time is up, and connect throws
Waited(c) ==
  /\ pc[c] = "busy"
  /\ \/ Listening # {} /\ pc' = [pc EXCEPT ![c] = "opened"]
     \/ pc' = [pc EXCEPT ![c] = "idle"]
  /\ UNCHANGED <<os, acceptor, local, opening, pipe, readVars, op, userVars, writes>>

\* the outcome of SetNamedPipeHandleState
ModeAccepted(g, read_mode) ==
  /\ g # None
  /\ os[g].status = "connected"
  /\ read_mode = "message" => os[os[g].mate].mode = "message"

\* When the mode is refused, connect throws and nobody closes the handle.
SetMode(c, read_mode) ==
  LET g == opening[c]
  IN /\ pc[c] = "opened"
     /\ pc' = [pc EXCEPT ![c] = "idle"]
     /\ opening' = [opening EXCEPT ![c] = None]
     /\ IF ModeAccepted(g, read_mode)
        THEN os' = [os EXCEPT ![g].mode = read_mode] /\ pipe' = [pipe EXCEPT ![c] = g]
        ELSE UNCHANGED <<os, pipe>>
     /\ UNCHANGED <<acceptor, local, readVars, op, userVars, writes>>

-----------------------------------------------------------------------------
(* disconnect, which the destructor calls too.                             *)

Pending(p) == op # NoOp /\ op.by = p /\ op.result = "pending"

\* the operation that is pending on a handle is aborted when it closes
Aborted(p) == IF Pending(p) THEN [op EXCEPT !.result = "done"] ELSE op

FlushAlways(p) ==                 \* mutant: whichever side it is
  /\ pipe[p] # None /\ pc[p] = "idle"
  /\ pc' = [pc EXCEPT ![p] = "flushing"]
  /\ UNCHANGED <<os, acceptor, local, opening, pipe, readVars, op, userVars, writes>>

\* FlushFileBuffers, of the server side only, waits until the client has
\* read everything
Flush(p) ==
  /\ p = "session"
  /\ pipe[p] # None /\ pc[p] = "idle"
  /\ pc' = [pc EXCEPT ![p] = "flushing"]
  /\ UNCHANGED <<os, acceptor, local, opening, pipe, readVars, op, userVars, writes>>

DisconnectForgets(p) ==           \* mutant: what is pending is not aborted
  /\ pc[p] = "flushing" /\ ~Unread(pipe[p])
  /\ pc' = [pc EXCEPT ![p] = "idle"]
  /\ pipe' = [pipe EXCEPT ![p] = None]
  /\ os' = Disconnected(pipe[p])
  /\ UNCHANGED <<acceptor, local, opening, readVars, op, userVars, writes>>

\* DisconnectNamedPipe and close
Disconnect(p) ==
  /\ pc[p] = "flushing" /\ ~Unread(pipe[p])
  /\ pc' = [pc EXCEPT ![p] = "idle"]
  /\ pipe' = [pipe EXCEPT ![p] = None]
  /\ os' = Disconnected(pipe[p])
  /\ op' = Aborted(p)
  /\ UNCHANGED <<acceptor, local, opening, readVars, userVars, writes>>

\* the client side only closes
Close(p) ==
  /\ p \in Clients /\ pipe[p] # None /\ pc[p] = "idle"
  /\ pipe' = [pipe EXCEPT ![p] = None]
  /\ os' = Closed(pipe[p])
  /\ op' = Aborted(p)
  /\ UNCHANGED <<callVars, readVars, userVars, writes>>

-----------------------------------------------------------------------------
(* Reading and writing.                                                    *)

\* the number of parts that a read from h takes, and whether their message
\* goes on
Count(h) ==
  LET ends == {i \in DOMAIN os[h].inbox : os[h].mode = "message" /\ os[h].inbox[i].last}
  IN Min({Capacity, Len(os[h].inbox)} \cup ends)
TooLong(h) == os[h].mode = "message" /\ ~os[h].inbox[Count(h)].last

\* the handle after a read that returns what it takes, or that fails
Taken(h, returned) ==
  [os EXCEPT ![h].inbox = SubSeq(@, Count(h) + 1, Len(@)),
             ![h].got = IF returned THEN @ \o [i \in 1 .. Count(h) |-> os[h].inbox[i].n] ELSE @]

Idle(p) == pipe[p] # None /\ pc[p] = "idle"

\* read.  What is there is taken at once and GetLastError() stays as it
\* was: ERROR_MORE_DATA of an earlier read makes this one throw.
Read(p) ==
  LET h == pipe[p]
  IN /\ Idle(p) /\ ~Pending(p)
     /\ \/ /\ os[h].inbox # <<>>
           /\ os' = Taken(h, ~TooLong(h) /\ ~more_data[p])
           /\ more_data' = [more_data EXCEPT ![p] = @ \/ TooLong(h)]
           /\ cut' = [cut EXCEPT ![p] = @ \/ TooLong(h)]
           /\ UNCHANGED pc
        \/ /\ os[h].inbox = <<>>
           /\ pc' = [pc EXCEPT ![p] = IF Ended(h) THEN "idle" ELSE "reading"]
           /\ more_data' = [more_data EXCEPT ![p] = FALSE]
           /\ UNCHANGED <<os, cut>>
     /\ UNCHANGED <<acceptor, local, opening, pipe, op, userVars, writes>>

ReadEndsStrict(p) ==              \* mutant: any GetLastError(), ERROR_IO_PENDING too
  LET h == pipe[p]
  IN /\ pc[p] = "reading" /\ (os[h].inbox # <<>> \/ Ended(h))
     /\ pc' = [pc EXCEPT ![p] = "idle"]
     /\ os' = IF os[h].inbox # <<>> THEN Taken(h, FALSE) ELSE os
     /\ UNCHANGED <<acceptor, local, opening, pipe, readVars, op, userVars, writes>>

\* the end of a read that had to wait
ReadEnds(p) ==
  LET h == pipe[p]
  IN /\ pc[p] = "reading" /\ (os[h].inbox # <<>> \/ Ended(h))
     /\ pc' = [pc EXCEPT ![p] = "idle"]
     /\ IF os[h].inbox # <<>>
        THEN /\ os' = Taken(h, ~TooLong(h))
             /\ more_data' = [more_data EXCEPT ![p] = TooLong(h)]
             /\ cut' = [cut EXCEPT ![p] = @ \/ TooLong(h)]
        ELSE UNCHANGED <<os, readVars>>
     /\ UNCHANGED <<acceptor, local, opening, pipe, op, userVars, writes>>

\* a message of size parts for h
Written(h, size) ==
  [os EXCEPT ![h].inbox = @ \o [i \in 1 .. size |-> [n |-> os[h].sent + i, last |-> i = size]],
             ![h].sent = @ + size]

Write(p, size) ==
  /\ Idle(p) /\ ~Ended(pipe[p]) /\ writes < MaxWrites
  /\ os' = Written(os[pipe[p]].mate, size)
  /\ writes' = writes + 1
  /\ UNCHANGED <<callVars, pipe, readVars, op, userVars>>

-----------------------------------------------------------------------------
(* The asynchronous operations.  The functions that are called at the end  *)
(* are those of a delegate that is copied, moved, or shared.               *)

\* the delegates that the user makes for reads and for writes
ReadDelegates == {make_delegate(f) : f \in Comparable}
WriteDelegates == {AddKeyed(make_delegate(f), k, f) : f \in Comparable, k \in Keys}

RequestShared(p, form, result, delegates) ==   \* mutant: a copy is a pointer
  \E d \in delegates :
    /\ op = NoOp
    /\ op' = [by |-> p, result |-> result, form |-> form, held |-> d, asked |-> Calls(d),
              shared |-> TRUE]
    /\ user' = IF form = "moved" THEN Empty ELSE d
    /\ UNCHANGED edits

\* p asks for an operation with a delegate
Request(p, form, result, delegates) ==
  \E d \in delegates :
    /\ op = NoOp
    /\ op' = [by |-> p, result |-> result, form |-> form, held |-> Assign(Empty, d),
              asked |-> Calls(d), shared |-> form = "shared"]
    /\ user' = IF form = "moved" THEN Empty ELSE d
    /\ UNCHANGED edits

\* The test for a closed stream compares with NULL, and the handle of a
\* closed one is INVALID_HANDLE_VALUE: the operation begins, and fails.
\* What is there is taken at once.
AsyncRead(p, form) ==
  LET h == pipe[p]
  IN /\ pc[p] = "idle"
     /\ \/ h = None /\ Request(p, form, "done", ReadDelegates) /\ UNCHANGED <<os, readVars>>
        \/ /\ h # None /\ os[h].inbox # <<>>
           /\ Request(p, form, "done", ReadDelegates)
           /\ os' = Taken(h, ~TooLong(h))
           /\ more_data' = [more_data EXCEPT ![p] = @ \/ TooLong(h)]
           /\ cut' = [cut EXCEPT ![p] = @ \/ TooLong(h)]
        \/ /\ h # None /\ os[h].inbox = <<>>
           /\ Request(p, form, IF Ended(h) THEN "done" ELSE "pending", ReadDelegates)
           /\ more_data' = [more_data EXCEPT ![p] = FALSE]
           /\ UNCHANGED <<os, cut>>
     /\ UNCHANGED <<callVars, pipe, writes>>

\* the data is gone as soon as the operation begins
AsyncWrite(p, form, size) ==
  /\ pc[p] = "idle" /\ writes < MaxWrites
  /\ \/ /\ Gone(p)
        /\ Request(p, form, "done", WriteDelegates)
        /\ UNCHANGED os
     \/ /\ ~Gone(p)
        /\ Request(p, form, "done", WriteDelegates)
        /\ os' = Written(os[pipe[p]].mate, size)
  /\ writes' = writes + 1
  /\ UNCHANGED <<callVars, pipe, readVars>>

AsyncReadEndsOnData(p) ==         \* mutant: an error does not end it
  LET h == pipe[p]
  IN /\ Pending(p) /\ os[h].inbox # <<>>
     /\ op' = [op EXCEPT !.result = "done"]
     /\ os' = Taken(h, ~TooLong(h))
     /\ cut' = [cut EXCEPT ![p] = @ \/ TooLong(h)]
     /\ UNCHANGED <<callVars, pipe, more_data, userVars, writes>>

\* the system ends the read
AsyncReadEnds(p) ==
  LET h == pipe[p]
  IN /\ Pending(p) /\ (os[h].inbox # <<>> \/ Ended(h))
     /\ op' = [op EXCEPT !.result = "done"]
     /\ IF os[h].inbox = <<>>
        THEN UNCHANGED <<os, cut>>
        ELSE /\ os' = Taken(h, ~TooLong(h))
             /\ cut' = [cut EXCEPT ![p] = @ \/ TooLong(h)]
     /\ UNCHANGED <<callVars, pipe, more_data, userVars, writes>>

\* The handler calls the functions, and ends.  The user's delegate is of no
\* further use then.
Answer(p) ==
  /\ op # NoOp /\ op.by = p /\ op.result = "done"
  /\ op' = [by |-> p, result |-> "called", form |-> op.form, asked |-> op.asked,
            calls |-> Calls(IF op.shared THEN user ELSE op.held)]
  /\ user' = Empty /\ edits' = 0
  /\ UNCHANGED <<os, callVars, pipe, readVars, writes>>

Answered(p) ==
  /\ op # NoOp /\ op.by = p /\ op.result = "called"
  /\ op' = NoOp
  /\ UNCHANGED <<os, callVars, pipe, readVars, userVars, writes>>

\* what the user does to a delegate that is still his
Edit ==
  /\ op # NoOp /\ op.result # "called" /\ op.form # "moved" /\ edits < MaxEdits
  /\ edits' = edits + 1
  /\ user' \in {Add(user, f) : f \in Functions} \cup {Erase(user, f) : f \in Functions}
       \cup {AddKeyed(user, k, f) : k \in Keys, f \in Functions}
       \cup {EraseKey(user, k) : k \in Keys}
       \cup {Assign(user, make_delegate(f)) : f \in Functions} \cup {Assign(user, Empty)}
  /\ UNCHANGED <<os, callVars, pipe, readVars, op, writes>>

-----------------------------------------------------------------------------
\* what ends the calls of a pipe object, and what ends the operation
CallEnds(p) ==
  \/ ReadEnds(p) \/ Disconnect(p) \/ Waited(p)
  \/ \E m \in {"byte", "message"} : SetMode(p, m)
OpEnds == \E p \in Pipes : AsyncReadEnds(p) \/ Answer(p) \/ Answered(p)

Next ==
  \/ \E m \in {"byte", "message"} : Accept(m)
  \/ Accepted \/ AcceptFails \/ OpEnds \/ Edit
  \/ \E c \in Clients : Connect(c) \/ Close(c)
  \/ \E p \in Pipes :
       \/ Flush(p) \/ Read(p) \/ CallEnds(p)
       \/ \E size \in Sizes : Write(p, size)
       \/ \E form \in {"copy", "moved", "shared"} :
            AsyncRead(p, form) \/ \E size \in Sizes : AsyncWrite(p, form, size)

Fairness == WF_vars(OpEnds) /\ \A p \in Pipes : WF_vars(CallEnds(p))

Spec == Init /\ [][Next]_vars /\ Fairness

-----------------------------------------------------------------------------
(* The objects, the calls and the handles of the system stay in their      *)
(* types; only connected handles are paired, and what waits for a handle   *)
(* has one.                                                                *)
PipeTypeOK ==
  /\ \A h \in Handles :
       /\ os[h].status \in {"unused", "listening", "connected", "broken", "disconnected"}
       /\ os[h].mode \in {"unset", "byte", "message"}
       /\ os[h].status = "connected" <=> os[h].mate # None
       /\ os[h].mate # None => os[h].mate \in Handles /\ os[os[h].mate].mate = h
  /\ local \in Handles \cup {None} /\ (acceptor = "waiting") = (local # None)
  /\ pipe \in [Pipes -> Handles \cup {None}] /\ opening \in [Pipes -> Handles \cup {None}]
  /\ pc \in [Pipes -> {"idle", "busy", "opened", "reading", "flushing"}]
  /\ more_data \in [Pipes -> BOOLEAN]
  /\ \A p \in Pipes : pc[p] \in {"reading", "flushing"} \/ Pending(p) => pipe[p] # None

Owners(h) ==
  {p \in Pipes : h \in {pipe[p], opening[p]}} \cup (IF local = h THEN {"accept"} ELSE {})

(* An open handle has one owner, which alone will close it, and no owner   *)
(* has a handle that is closed; but for the handles that connect leaves    *)
(* open when it cannot set the read mode: nobody will ever close them      *)
(* (win32_named_pipe_server.cpp:45-74, win32_named_pipe.cpp:57-201).       *)
HandlesOwned ==
  \A h \in Handles :
    /\ ~Open(h) => Owners(h) = {}
    /\ Open(h) => \/ Cardinality(Owners(h)) = 1
                  \/ Owners(h) = {} /\ os[h].mode = "unset"

(* What the reads of one end return is what the other end has written, in  *)
(* order and nothing twice.  Nothing is left out either, even by a server  *)
(* that disconnects, until a read of that pipe object has met a message    *)
(* too long for its buffer; after that any read may throw away what it has *)
(* got, in later connections too (win32_named_pipe.cpp:183-316).           *)
InOrder ==
  \A p \in Pipes : pipe[p] # None =>
    LET h == os[pipe[p]]
    IN /\ \A i \in DOMAIN h.got : h.got[i] <= h.sent /\ (i > 1 => h.got[i - 1] < h.got[i])
       /\ ~cut[p] => Len(h.got) + Len(h.inbox) = h.sent

(* The functions that an asynchronous operation calls are those that the   *)
(* delegate held when the operation was asked for, whatever the user does  *)
(* to it since; only a shared pointer lets changes through                 *)
(* (stream/async_stream.cpp:5-59, delegate.h:96-227).                      *)
AsHeld ==
  op # NoOp /\ op.result = "called" /\ op.form # "shared" => op.calls = op.asked

(* Every asynchronous operation calls its functions in the end when either *)
(* end of the pipe is gone: none is lost with the handle                   *)
(* (win32_named_pipe.cpp:183-201, 263-285 and 318-340).                    *)
OpsAnswered == (IF op = NoOp THEN FALSE ELSE Gone(op.by)) ~> op = NoOp

\* a handle that connect has left open
Leaked(h) == h # None /\ Open(h) /\ Owners(h) = {}

(* When the clients go on to read, or close, the disconnect of a server    *)
(* returns: what the clients are in, another call or an operation that     *)
(* waits, does not keep them from it, and they never wait for the server   *)
(* in turn.  Only a handle that connect has left open keeps the server for *)
(* ever (win32_named_pipe.cpp:165-201).                                    *)
FlushReturns ==
  (\A c \in Clients : WF_vars(Read(c) \/ Close(c))) =>
    (pc["session"] = "flushing" ~>
       IF pc["session"] = "flushing" THEN Leaked(os[pipe["session"]].mate) ELSE TRUE)
=============================================================================
