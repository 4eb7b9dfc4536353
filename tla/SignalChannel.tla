--------------------------- MODULE SignalChannel ---------------------------
(***************************************************************************)
(* vee::signal_channel (vee/signal_channel.h), one atomic access a step.   *)
(* A receiver claims the channel, publishes a pointer to a promise on its  *)
(* stack and blocks on the future; a sender claims the waiting receiver,   *)
(* spins until the pointer is there and fulfils the promise.  Any thread   *)
(* may call again.  A recv that throws because _state is WAIT, a try_send  *)
(* that returns false and a compare_exchange_weak that fails, spuriously   *)
(* or not, change nothing and are not steps.                               *)
(***************************************************************************)
EXTENDS Naturals

CONSTANTS
  Receivers, Senders, Signals, NoSignal,
  NoReceiver,    \* nullptr
  Hoisting       \* the senders of a signal_channel<void>, where _receiver_ptr is
                 \* not volatile, whose spin the compiler has hoisted

ASSUME SignalAssumption == NoSignal \notin Signals
ASSUME ReceiverAssumption == NoReceiver \notin Receivers
ASSUME ThreadAssumption == Receivers \cap Senders = {}
ASSUME HoistingAssumption == Hoisting \subseteq Senders

VARIABLES
  state,          \* _state
  receiver_ptr,   \* _receiver_ptr, as the receiver whose promise it points to
  promise,        \* promise[r]: the shared state of r's promise and future
  returned,       \* returned[r]: what the last recv of r returned
  value,          \* value[s]: the argument of try_send
  pc

vars == <<state, receiver_ptr, promise, returned, value, pc>>

Threads == Receivers \cup Senders
Inside == {"publish", "get", "clear", "release"}   \* a receiver owns the channel
Sending == {"await", "set", "spin"}                \* a sender owns its receiver
ReceiverPlaces == {"out", "claim"} \cup Inside
SenderPlaces == {"out"} \cup Sending

Init ==
  /\ state = "IDLE"
  /\ receiver_ptr = NoReceiver
  /\ promise = [r \in Receivers |-> NoSignal]
  /\ returned = [r \in Receivers |-> NoSignal]
  /\ value = [s \in Senders |-> NoSignal]
  /\ pc = [t \in Threads |-> "out"]

\* Thread t moves from line a to line b.
Step(t, a, b) == pc[t] = a /\ pc' = [pc EXCEPT ![t] = b]

RecvCheck(r) ==
  /\ Step(r, "out", "claim")
  /\ state # "WAIT"
  /\ UNCHANGED <<state, receiver_ptr, promise, returned, value>>

\* mutant: a plain store in place of the compare-exchange
RecvClaimStore(r) ==
  /\ Step(r, "claim", "publish")
  /\ state' = "WAIT"
  /\ UNCHANGED <<receiver_ptr, promise, returned, value>>

RecvClaim(r) ==
  /\ Step(r, "claim", "publish")
  /\ state = "IDLE"
  /\ state' = "WAIT"
  /\ UNCHANGED <<receiver_ptr, promise, returned, value>>

RecvPublish(r) ==
  /\ Step(r, "publish", "get")
  /\ promise' = [promise EXCEPT ![r] = NoSignal]
  /\ receiver_ptr' = r
  /\ UNCHANGED <<state, returned, value>>

RecvGet(r) ==
  /\ Step(r, "get", "clear")
  /\ promise[r] # NoSignal
  /\ UNCHANGED <<state, receiver_ptr, promise, returned, value>>

\* mutant: the pointer is left to the dead frame
RecvClearNot(r) ==
  /\ Step(r, "clear", "release")
  /\ UNCHANGED <<state, receiver_ptr, promise, returned, value>>

RecvClear(r) ==
  /\ Step(r, "clear", "release")
  /\ receiver_ptr' = NoReceiver
  /\ UNCHANGED <<state, promise, returned, value>>

RecvRelease(r) ==
  /\ Step(r, "release", "out")
  /\ state = "SIG"
  /\ state' = "IDLE"
  /\ returned' = [returned EXCEPT ![r] = promise[r]]
  /\ UNCHANGED <<receiver_ptr, promise, value>>

SendClaim(s, v) ==
  /\ Step(s, "out", "await")
  /\ state = "WAIT"
  /\ state' = "SIG"
  /\ value' = [value EXCEPT ![s] = v]
  /\ UNCHANGED <<receiver_ptr, promise, returned>>

\* mutant: the pointer is not waited for
SendAwaitNot(s) ==
  /\ Step(s, "await", "set")
  /\ UNCHANGED <<state, receiver_ptr, promise, returned, value>>

SendAwait(s) ==
  /\ Step(s, "await", "set")
  /\ receiver_ptr # NoReceiver
  /\ UNCHANGED <<state, receiver_ptr, promise, returned, value>>

\* The loop reads the pointer once, before it is there, and never again.
SendHoisted(s) ==
  /\ s \in Hoisting
  /\ Step(s, "await", "spin")
  /\ receiver_ptr = NoReceiver
  /\ UNCHANGED <<state, receiver_ptr, promise, returned, value>>

SendSet(s) ==
  /\ Step(s, "set", "out")
  /\ promise' = [promise EXCEPT ![receiver_ptr] = value[s]]
  /\ UNCHANGED <<state, receiver_ptr, returned, value>>

Recv(r) ==
  \/ RecvCheck(r) \/ RecvClaim(r) \/ RecvPublish(r)
  \/ RecvGet(r) \/ RecvClear(r) \/ RecvRelease(r)

TrySend(s) ==
  \/ \E v \in Signals : SendClaim(s, v)
  \/ SendAwait(s) \/ SendHoisted(s) \/ SendSet(s)

Next == (\E r \in Receivers : Recv(r)) \/ (\E s \in Senders : TrySend(s))

Spec == Init /\ [][Next]_vars

\* A thread inside a call goes on, and senders call  while (!try_send(v));
Fairness ==
  /\ \A r \in Receivers : WF_vars(Recv(r) /\ pc[r] \in Inside)
  /\ \A s \in Senders : WF_vars(TrySend(s))

FairSpec == Spec /\ Fairness

-----------------------------------------------------------------------------
PlacesOK ==
  /\ pc \in [Threads -> ReceiverPlaces \cup SenderPlaces]
  /\ \A r \in Receivers : pc[r] \in ReceiverPlaces
  /\ \A s \in Senders : pc[s] \in SenderPlaces

(* _state, _receiver_ptr and the locals of the callers have values of      *)
(* their types (signal_channel.h:31-55).                                   *)
TypeOK ==
  /\ state \in {"IDLE", "WAIT", "SIG"}
  /\ receiver_ptr \in Receivers \cup {NoReceiver}
  /\ promise \in [Receivers -> Signals \cup {NoSignal}]
  /\ returned \in [Receivers -> Signals \cup {NoSignal}]
  /\ value \in [Senders -> Signals \cup {NoSignal}]
  /\ PlacesOK

(* A sender that calls set_value (signal_channel.h:53) finds the promise   *)
(* of a receiver that is still blocked in get and has not been signalled:  *)
(* it never follows a null pointer or a pointer into a frame that is gone, *)
(* and never satisfies a promise twice.                                    *)
PromiseAlive ==
  \A s \in Senders : pc[s] = "set" =>
    /\ receiver_ptr \in Receivers
    /\ pc[receiver_ptr] = "get"
    /\ promise[receiver_ptr] = NoSignal

(* At most one receiver is past the claim of signal_channel.h:37 and at    *)
(* most one sender past that of signal_channel.h:48, though the check      *)
(* before the claim (line 33) lets several receivers through.              *)
OneOfEach ==
  /\ \A r, q \in Receivers : pc[r] \in Inside /\ pc[q] \in Inside => r = q
  /\ \A s, t \in Senders : pc[s] \in Sending /\ pc[t] \in Sending => s = t

Owner == {r \in Receivers : pc[r] \in Inside}
Givers == {s \in Senders : pc[s] \in Sending}

PhaseShown == IF state = "IDLE" THEN "idle" ELSE IF state = "WAIT" THEN "waiting" ELSE "signalled"
ReceiverShown == IF Owner = {} THEN NoReceiver ELSE CHOOSE r \in Owner : TRUE
SignalShown == IF state # "SIG" THEN NoSignal
               ELSE IF Givers # {} THEN value[CHOOSE s \in Givers : TRUE]
               ELSE promise[CHOOSE r \in Owner : TRUE]

Channel == INSTANCE Rendezvous WITH
  phase <- PhaseShown, receiver <- ReceiverShown, signal <- SignalShown, got <- returned

(* recv and try_send implement the rendezvous: try_send takes effect at    *)
(* its compare-exchange, recv returns what that sender gave and nothing    *)
(* else (signal_channel.h:31-55).                                          *)
IsRendezvous == Channel!Spec

(* A receiver that has claimed the channel returns, if the senders keep    *)
(* trying, unless a sender has claimed it that spins on a stale null       *)
(* pointer (signal_channel.h:40-44, 109, 120).                             *)
EveryWaitEnds ==
  \A r \in Receivers :
    pc[r] \in Inside ~> pc[r] = "out" \/ \E s \in Senders : pc[s] = "spin"
=============================================================================
