---------------------------- MODULE SignalProofs ----------------------------
(***************************************************************************)
(* The signal channel of vee/signal_channel.h, for any number of           *)
(* receivers, senders and signals: its types, that receivers and senders   *)
(* have it one at a time, and that the promise a sender fulfils is alive.  *)
(***************************************************************************)
EXTENDS SignalChannel, TLAPS

LEMMA Kinds ==
  /\ \A r \in Receivers : r \in Threads
  /\ \A s \in Senders : s \in Threads
  /\ \A r \in Receivers, s \in Senders : r # s
BY ThreadAssumption DEF Threads

(* A step moves one thread; a receiver stays among the places of           *)
(* receivers, a sender among those of senders.                             *)
LEMMA Moving ==
  ASSUME PlacesOK, NEW t \in Threads, NEW a, NEW b, Step(t, a, b),
         t \in Receivers => b \in ReceiverPlaces,
         t \in Senders => b \in SenderPlaces
  PROVE  /\ pc[t] = a /\ pc'[t] = b
         /\ \A u \in Threads \ {t} : pc'[u] = pc[u]
         /\ PlacesOK'
<1>1. pc' = [pc EXCEPT ![t] = b] /\ t \in Receivers \cup Senders /\ pc[t] = a
  BY DEF Step, Threads
<1>2. pc' \in [Threads -> ReceiverPlaces \cup SenderPlaces]
  BY <1>1 DEF PlacesOK
<1> QED
  BY <1>1, <1>2, Kinds DEF PlacesOK

(* The places an action leads to.                                          *)
LEMMA Places ==
  /\ \A x \in {"out", "claim", "publish", "get", "clear", "release"} : x \in ReceiverPlaces
  /\ \A x \in {"out", "await", "set", "spin"} : x \in SenderPlaces
BY DEF ReceiverPlaces, SenderPlaces, Inside, Sending

LEMMA TypeInit == Init => TypeOK
<1> SUFFICES ASSUME Init PROVE TypeOK
  OBVIOUS
<1>1. pc = [t \in Threads |-> "out"]
  BY DEF Init
<1>2. PlacesOK
  <2>1. "out" \in ReceiverPlaces /\ "out" \in SenderPlaces
    BY DEF ReceiverPlaces, SenderPlaces
  <2>2. \A t \in Threads : pc[t] = "out"
    BY <1>1
  <2> QED
    BY <1>1, <2>1, <2>2, Kinds DEF PlacesOK
<1> QED
  BY <1>2 DEF Init, TypeOK

LEMMA TypeStep == TypeOK /\ [Next]_vars => TypeOK'
<1> SUFFICES ASSUME TypeOK, [Next]_vars PROVE TypeOK'
  OBVIOUS
<1>p. PlacesOK
  BY DEF TypeOK
<1>1. ASSUME NEW r \in Receivers, Recv(r) PROVE TypeOK'
  <2>1. PlacesOK'
    BY <1>1, <1>p, Kinds, Moving, Places DEF Recv, RecvCheck, RecvClaim, RecvPublish,
         RecvGet, RecvClear, RecvRelease, Threads
  <2> QED
    BY <2>1, <1>1, <1>p DEF TypeOK, Recv, RecvCheck, RecvClaim, RecvPublish, RecvGet,
         RecvClear, RecvRelease
<1>2. ASSUME NEW s \in Senders, TrySend(s) PROVE TypeOK'
  <2>1. PlacesOK'
    BY <1>2, <1>p, Kinds, Moving, Places DEF TrySend, SendClaim, SendAwait, SendHoisted,
         SendSet, Threads
  <2> QED
    BY <2>1, <1>2, <1>p DEF TypeOK, TrySend, SendClaim, SendAwait, SendHoisted, SendSet
<1>3. CASE UNCHANGED vars
  BY <1>3 DEF vars, TypeOK, PlacesOK
<1> QED
  BY <1>1, <1>2, <1>3 DEF Next

(* _state, _receiver_ptr and the locals stay in their types                *)
(* (signal_channel.h:31-55).                                               *)
THEOREM TypeCorrect == Spec => []TypeOK
BY TypeInit, TypeStep, PTL DEF Spec

-----------------------------------------------------------------------------
(* Who has the channel in which _state.                                    *)
IdleIsFree ==
  state = "IDLE" => /\ \A r \in Receivers : pc[r] \notin Inside
                    /\ \A s \in Senders : pc[s] \notin Sending
SendersNeedSig == \A s \in Senders : pc[s] \in Sending => state = "SIG"

(* Until it is signalled the receiver stays with an empty promise.         *)
Unsignalled(r) == pc[r] \in {"publish", "get"} /\ (pc[r] = "get" => promise[r] = NoSignal)
Blocked ==
  \A r \in Receivers : pc[r] \in Inside =>
    /\ state = "WAIT" => Unsignalled(r)
    /\ \A s \in Senders : pc[s] \in Sending => Unsignalled(r)

(* The pointer points to the promise of the receiver that lives.           *)
PointerIsLive ==
  /\ \A r \in Receivers : receiver_ptr = r <=> pc[r] \in {"get", "clear"}
  /\ \A s \in Senders : pc[s] = "set" => receiver_ptr # NoReceiver

Held == OneOfEach /\ IdleIsFree /\ SendersNeedSig /\ Blocked /\ PointerIsLive

LEMMA HeldInit == Init => Held
<1> SUFFICES ASSUME Init PROVE Held
  OBVIOUS
<1>1. /\ \A r \in Receivers : pc[r] = "out" /\ receiver_ptr # r
      /\ \A s \in Senders : pc[s] = "out"
  BY Kinds, ReceiverAssumption DEF Init
<1> QED
  BY <1>1 DEF Held, OneOfEach, IdleIsFree, SendersNeedSig, Blocked, PointerIsLive, Inside, Sending

Moves(t, a, b) == pc[t] = a /\ pc'[t] = b /\ \A u \in Threads \ {t} : pc'[u] = pc[u]

LEMMA HeldStep == TypeOK /\ Held /\ [Next]_vars => Held'
<1> SUFFICES ASSUME TypeOK, Held, [Next]_vars PROVE Held'
  OBVIOUS
<1>1. ASSUME NEW r \in Receivers, RecvCheck(r) PROVE Held'
  <2>1. Moves(r, "out", "claim")
    BY <1>1, Kinds, Moving, Places DEF TypeOK, RecvCheck, Moves
  <2> QED
    BY <1>1, <2>1, Kinds, ReceiverAssumption DEF RecvCheck, Moves, TypeOK, Held, OneOfEach,
       IdleIsFree, SendersNeedSig, Blocked, Unsignalled, PointerIsLive, Inside, Sending
<1>2. ASSUME NEW r \in Receivers, RecvClaim(r) PROVE Held'
  <2>1. Moves(r, "claim", "publish")
    BY <1>2, Kinds, Moving, Places DEF TypeOK, RecvClaim, Moves
  <2> QED
    BY <1>2, <2>1, Kinds, ReceiverAssumption DEF RecvClaim, Moves, TypeOK, Held, OneOfEach,
       IdleIsFree, SendersNeedSig, Blocked, Unsignalled, PointerIsLive, Inside, Sending
<1>3. ASSUME NEW r \in Receivers, RecvPublish(r) PROVE Held'
  <2>1. Moves(r, "publish", "get")
    BY <1>3, Kinds, Moving, Places DEF TypeOK, RecvPublish, Moves
  <2> QED
    BY <1>3, <2>1, Kinds, ReceiverAssumption DEF RecvPublish, Moves, TypeOK, Held, OneOfEach,
       IdleIsFree, SendersNeedSig, Blocked, Unsignalled, PointerIsLive, Inside, Sending
<1>4. ASSUME NEW r \in Receivers, RecvGet(r) PROVE Held'
  <2>1. Moves(r, "get", "clear")
    BY <1>4, Kinds, Moving, Places DEF TypeOK, RecvGet, Moves
  <2> QED
    BY <1>4, <2>1, Kinds, ReceiverAssumption DEF RecvGet, Moves, TypeOK, Held, OneOfEach,
       IdleIsFree, SendersNeedSig, Blocked, Unsignalled, PointerIsLive, Inside, Sending
<1>5. ASSUME NEW r \in Receivers, RecvClear(r) PROVE Held'
  <2>1. Moves(r, "clear", "release")
    BY <1>5, Kinds, Moving, Places DEF TypeOK, RecvClear, Moves
  <2> QED
    BY <1>5, <2>1, Kinds, ReceiverAssumption DEF RecvClear, Moves, TypeOK, Held, OneOfEach,
       IdleIsFree, SendersNeedSig, Blocked, Unsignalled, PointerIsLive, Inside, Sending
<1>6. ASSUME NEW r \in Receivers, RecvRelease(r) PROVE Held'
  <2>1. Moves(r, "release", "out")
    BY <1>6, Kinds, Moving, Places DEF TypeOK, RecvRelease, Moves
  <2> QED
    BY <1>6, <2>1, Kinds, ReceiverAssumption DEF RecvRelease, Moves, TypeOK, Held, OneOfEach,
       IdleIsFree, SendersNeedSig, Blocked, Unsignalled, PointerIsLive, Inside, Sending
<1>7. ASSUME NEW s \in Senders, NEW v \in Signals, SendClaim(s, v) PROVE Held'
  <2>1. Moves(s, "out", "await")
    BY <1>7, Kinds, Moving, Places DEF TypeOK, SendClaim, Moves
  <2> QED
    BY <1>7, <2>1, Kinds, ReceiverAssumption DEF SendClaim, Moves, TypeOK, Held, OneOfEach,
       IdleIsFree, SendersNeedSig, Blocked, Unsignalled, PointerIsLive, Inside, Sending
<1>8. ASSUME NEW s \in Senders, SendAwait(s) PROVE Held'
  <2>1. Moves(s, "await", "set")
    BY <1>8, Kinds, Moving, Places DEF TypeOK, SendAwait, Moves
  <2> QED
    BY <1>8, <2>1, Kinds, ReceiverAssumption DEF SendAwait, Moves, TypeOK, Held, OneOfEach,
       IdleIsFree, SendersNeedSig, Blocked, Unsignalled, PointerIsLive, Inside, Sending
<1>9. ASSUME NEW s \in Senders, SendHoisted(s) PROVE Held'
  <2>1. Moves(s, "await", "spin")
    BY <1>9, Kinds, Moving, Places DEF TypeOK, SendHoisted, Moves
  <2> QED
    BY <1>9, <2>1, Kinds, ReceiverAssumption DEF SendHoisted, Moves, TypeOK, Held, OneOfEach,
       IdleIsFree, SendersNeedSig, Blocked, Unsignalled, PointerIsLive, Inside, Sending
<1>10. ASSUME NEW s \in Senders, SendSet(s) PROVE Held'
  <2>1. Moves(s, "set", "out")
    BY <1>10, Kinds, Moving, Places DEF TypeOK, SendSet, Moves
  <2> QED
    BY <1>10, <2>1, Kinds, ReceiverAssumption DEF SendSet, Moves, TypeOK, Held, OneOfEach,
       IdleIsFree, SendersNeedSig, Blocked, Unsignalled, PointerIsLive, Inside, Sending
<1>11. CASE UNCHANGED vars
  BY <1>11 DEF vars, Held, OneOfEach, IdleIsFree, SendersNeedSig, Blocked, Unsignalled, PointerIsLive
<1> QED
  BY <1>1, <1>2, <1>3, <1>4, <1>5, <1>6, <1>7, <1>8, <1>9, <1>10, <1>11 DEF Next, Recv, TrySend

LEMMA HeldIsEnough == TypeOK /\ Held => PromiseAlive
BY DEF TypeOK, Held, SendersNeedSig, Blocked, Unsignalled, PointerIsLive, PromiseAlive, Inside, Sending

LEMMA HeldAlways == Spec => []Held
BY HeldInit, HeldStep, TypeCorrect, PTL DEF Spec

(* One receiver and one sender at a time are past their compare-exchange   *)
(* (signal_channel.h:37, 48), however many call recv and try_send.         *)
THEOREM Exclusive == Spec => []OneOfEach
<1>1. Held => OneOfEach
  BY DEF Held
<1> QED
  BY <1>1, HeldAlways, PTL

(* set_value at signal_channel.h:53 is called on the promise of a receiver *)
(* that is still blocked in get and has no signal yet.                     *)
THEOREM PromiseIsAlive == Spec => []PromiseAlive
BY HeldIsEnough, HeldAlways, TypeCorrect, PTL

-----------------------------------------------------------------------------
(* The refinement.  Somebody has the channel unless it is IDLE, and in SIG *)
(* without a sender the signal is in the promise of its owner.             *)
Owned == state # "IDLE" => \E r \in Receivers : pc[r] \in Inside
Given ==
  state = "SIG" /\ (\A s \in Senders : pc[s] \notin Sending) =>
    \A r \in Receivers : pc[r] \in Inside => pc[r] # "publish"
Passed == Owned /\ Given

LEMMA PassedInit == Init => Passed
BY DEF Init, Passed, Owned, Given

LEMMA PassedStep == TypeOK /\ Held /\ Passed /\ [Next]_vars => Passed'
<1> SUFFICES ASSUME TypeOK, Held, Passed, [Next]_vars PROVE Passed'
  OBVIOUS
<1>p. PromiseAlive
  BY HeldIsEnough
<1>1. ASSUME NEW r \in Receivers, Recv(r) PROVE Passed'
  <2>1. CASE RecvCheck(r)
    <3>1. Moves(r, "out", "claim")
      BY <2>1, Kinds, Moving, Places DEF TypeOK, RecvCheck, Moves
    <3> QED
      BY <2>1, <3>1, Kinds DEF RecvCheck, Moves, Passed, Owned, Given, Inside, Sending
  <2>2. CASE RecvClaim(r)
    <3>1. Moves(r, "claim", "publish")
      BY <2>2, Kinds, Moving, Places DEF TypeOK, RecvClaim, Moves
    <3> QED
      BY <2>2, <3>1, Kinds DEF RecvClaim, Moves, Passed, Owned, Given, Inside, Sending
  <2>3. CASE RecvPublish(r)
    <3>1. Moves(r, "publish", "get")
      BY <2>3, Kinds, Moving, Places DEF TypeOK, RecvPublish, Moves
    <3> QED
      BY <2>3, <3>1, Kinds DEF RecvPublish, Moves, Passed, Owned, Given, Inside, Sending
  <2>4. CASE RecvGet(r)
    <3>1. Moves(r, "get", "clear")
      BY <2>4, Kinds, Moving, Places DEF TypeOK, RecvGet, Moves
    <3> QED
      BY <2>4, <3>1, Kinds DEF RecvGet, Moves, Passed, Owned, Given, Inside, Sending
  <2>5. CASE RecvClear(r)
    <3>1. Moves(r, "clear", "release")
      BY <2>5, Kinds, Moving, Places DEF TypeOK, RecvClear, Moves
    <3> QED
      BY <2>5, <3>1, Kinds DEF RecvClear, Moves, Passed, Owned, Given, Inside, Sending
  <2>6. CASE RecvRelease(r)
    BY <2>6 DEF RecvRelease, Passed, Owned, Given
  <2> QED
    BY <1>1, <2>1, <2>2, <2>3, <2>4, <2>5, <2>6 DEF Recv
<1>2. ASSUME NEW s \in Senders, TrySend(s) PROVE Passed'
  <2>1. CASE \E v \in Signals : SendClaim(s, v)
    <3>1. Moves(s, "out", "await")
      BY <2>1, Kinds, Moving, Places DEF TypeOK, SendClaim, Moves
    <3> QED
      BY <2>1, <3>1, Kinds DEF SendClaim, Moves, Passed, Owned, Given, Inside, Sending
  <2>2. CASE SendAwait(s)
    <3>1. Moves(s, "await", "set")
      BY <2>2, Kinds, Moving, Places DEF TypeOK, SendAwait, Moves
    <3> QED
      BY <2>2, <3>1, Kinds DEF SendAwait, Moves, Passed, Owned, Given, Inside, Sending
  <2>3. CASE SendHoisted(s)
    <3>1. Moves(s, "await", "spin")
      BY <2>3, Kinds, Moving, Places DEF TypeOK, SendHoisted, Moves
    <3> QED
      BY <2>3, <3>1, Kinds DEF SendHoisted, Moves, Passed, Owned, Given, Inside, Sending
  <2>4. CASE SendSet(s)
    <3>1. Moves(s, "set", "out")
      BY <2>4, Kinds, Moving, Places DEF TypeOK, SendSet, Moves
    <3>2. \A r \in Receivers : pc[r] \in Inside => pc[r] = "get"
      BY <1>p, <3>1 DEF PromiseAlive, Moves, Held, OneOfEach, Inside
    <3> QED
      BY <2>4, <3>1, <3>2, Kinds DEF SendSet, Moves, Passed, Owned, Given, Inside, Sending
  <2> QED
    BY <1>2, <2>1, <2>2, <2>3, <2>4 DEF TrySend
<1>3. CASE UNCHANGED vars
  BY <1>3 DEF vars, Passed, Owned, Given
<1> QED
  BY <1>1, <1>2, <1>3 DEF Next

LEMMA PassedAlways == Spec => []Passed
BY PassedInit, PassedStep, HeldAlways, TypeCorrect, PTL DEF Spec

(* What the rendezvous sees of a channel that somebody owns.               *)
LEMMA OwnerShown ==
  ASSUME OneOfEach, NEW r \in Receivers, pc[r] \in Inside
  PROVE  ReceiverShown = r /\ Owner = {r}
BY DEF OneOfEach, Owner, ReceiverShown

LEMMA GiverShown ==
  ASSUME OneOfEach, state = "SIG", NEW s \in Senders, pc[s] \in Sending
  PROVE  SignalShown = value[s]
<1>1. Givers = {s}
  BY DEF OneOfEach, Givers
<1>2. (CHOOSE t \in Givers : TRUE) = s
  BY <1>1
<1> QED
  BY <1>1, <1>2 DEF SignalShown

LEMMA PromiseShown ==
  ASSUME OneOfEach, state = "SIG", \A s \in Senders : pc[s] \notin Sending,
         NEW r \in Receivers, pc[r] \in Inside
  PROVE  SignalShown = promise[r]
<1>1. Givers = {}
  BY DEF Givers
<1>2. Owner = {r} /\ (CHOOSE q \in Owner : TRUE) = r
  BY OwnerShown
<1> QED
  BY <1>1, <1>2 DEF SignalShown

LEMMA ShownInit == Init => Channel!ChannelInit
<1> SUFFICES ASSUME Init PROVE Channel!ChannelInit
  OBVIOUS
<1>1. Owner = {}
  BY Kinds DEF Init, Owner, Inside
<1> QED
  BY <1>1 DEF Init, Channel!ChannelInit, PhaseShown, ReceiverShown, SignalShown

(* A step that moves nobody in or out of the channel is not seen.          *)
LEMMA Unseen ==
  ASSUME TypeOK, Held, Held', UNCHANGED <<state, returned>>,
         Owner' = Owner, Givers' = Givers,
         \A s \in Givers : value'[s] = value[s],
         state = "SIG" /\ Givers = {} => \A r \in Owner : promise'[r] = promise[r],
         Passed
  PROVE  UNCHANGED Channel!channelVars
<1>1. PhaseShown' = PhaseShown /\ ReceiverShown' = ReceiverShown
  BY DEF PhaseShown, ReceiverShown
<1>2. SignalShown' = SignalShown
  <2>1. CASE state # "SIG"
    BY <2>1 DEF SignalShown
  <2>2. CASE state = "SIG" /\ Givers # {}
    BY <2>2 DEF SignalShown
  <2>3. CASE state = "SIG" /\ Givers = {}
    <3>1. Owner # {}
      BY <2>3 DEF Passed, Owned, Owner
    <3>2. (CHOOSE r \in Owner : TRUE) \in Owner
      BY <3>1
    <3> QED
      BY <2>3, <3>2 DEF SignalShown
  <2> QED
    BY <2>1, <2>2, <2>3
<1> QED
  BY <1>1, <1>2 DEF Channel!channelVars

LEMMA ShownStep ==
  TypeOK /\ Held /\ Held' /\ Passed /\ [Next]_vars => [Channel!Next]_(Channel!channelVars)
<1> SUFFICES ASSUME TypeOK, Held, Held', Passed, [Next]_vars
             PROVE  [Channel!Next]_(Channel!channelVars)
  OBVIOUS
<1>p. PromiseAlive /\ OneOfEach /\ OneOfEach'
  BY HeldIsEnough DEF Held
<1>1. ASSUME NEW r \in Receivers, RecvCheck(r) PROVE UNCHANGED Channel!channelVars
  <2>1. Moves(r, "out", "claim")
    BY <1>1, Kinds, Moving, Places DEF TypeOK, RecvCheck, Moves
  <2>2. Owner' = Owner /\ Givers' = Givers
    BY <2>1, Kinds DEF Moves, Owner, Givers, Inside, Sending
  <2> QED
    BY <1>1, <2>2, Unseen DEF RecvCheck
<1>2. ASSUME NEW r \in Receivers, RecvClaim(r) PROVE Channel!Arm(r)
  <2>1. Moves(r, "claim", "publish")
    BY <1>2, Kinds, Moving, Places DEF TypeOK, RecvClaim, Moves
  <2>2. pc'[r] \in Inside
    BY <2>1 DEF Moves, Inside
  <2>3. ReceiverShown' = r
    BY <1>p, <2>2 DEF OneOfEach, Owner, ReceiverShown
  <2> QED
    BY <1>2, <2>3 DEF RecvClaim, Channel!Arm, PhaseShown, SignalShown
<1>3. ASSUME NEW r \in Receivers, RecvPublish(r) PROVE UNCHANGED Channel!channelVars
  <2>1. Moves(r, "publish", "get")
    BY <1>3, Kinds, Moving, Places DEF TypeOK, RecvPublish, Moves
  <2>2. Owner' = Owner /\ Givers' = Givers
    BY <2>1, Kinds DEF Moves, Owner, Givers, Inside, Sending
  <2>3. ~(state = "SIG" /\ Givers = {})
    BY <2>1 DEF Moves, Passed, Given, Givers, Inside
  <2> QED
    BY <1>3, <2>2, <2>3, Unseen DEF RecvPublish
<1>4. ASSUME NEW r \in Receivers, RecvGet(r) PROVE UNCHANGED Channel!channelVars
  <2>1. Moves(r, "get", "clear")
    BY <1>4, Kinds, Moving, Places DEF TypeOK, RecvGet, Moves
  <2>2. Owner' = Owner /\ Givers' = Givers
    BY <2>1, Kinds DEF Moves, Owner, Givers, Inside, Sending
  <2> QED
    BY <1>4, <2>2, Unseen DEF RecvGet
<1>5. ASSUME NEW r \in Receivers, RecvClear(r) PROVE UNCHANGED Channel!channelVars
  <2>1. Moves(r, "clear", "release")
    BY <1>5, Kinds, Moving, Places DEF TypeOK, RecvClear, Moves
  <2>2. Owner' = Owner /\ Givers' = Givers
    BY <2>1, Kinds DEF Moves, Owner, Givers, Inside, Sending
  <2> QED
    BY <1>5, <2>2, Unseen DEF RecvClear
<1>6. ASSUME NEW r \in Receivers, RecvRelease(r) PROVE Channel!Take(r)
  <2>1. Moves(r, "release", "out")
    BY <1>6, Kinds, Moving, Places DEF TypeOK, RecvRelease, Moves
  <2>2. state = "SIG" /\ \A s \in Senders : pc[s] \notin Sending
    BY <1>6, <2>1 DEF RecvRelease, Moves, Held, Blocked, Unsignalled, Inside
  <2>3. ReceiverShown = r /\ SignalShown = promise[r]
    BY <1>p, <2>1, <2>2, OwnerShown, PromiseShown DEF Moves, Inside
  <2>4. Owner' = {}
    BY <1>p, <2>1 DEF OneOfEach, Moves, Owner, Inside, Threads
  <2> QED
    BY <1>6, <2>2, <2>3, <2>4 DEF RecvRelease, Channel!Take, PhaseShown, ReceiverShown, SignalShown
<1>7. ASSUME NEW s \in Senders, NEW v \in Signals, SendClaim(s, v) PROVE Channel!Send(v)
  <2>1. Moves(s, "out", "await")
    BY <1>7, Kinds, Moving, Places DEF TypeOK, SendClaim, Moves
  <2>2. Owner' = Owner
    BY <2>1, Kinds DEF Moves, Owner
  <2>3. state' = "SIG" /\ pc'[s] \in Sending /\ value'[s] = v
    BY <1>7, <2>1 DEF SendClaim, Moves, Sending, TypeOK
  <2>4. Givers' = {s}
    BY <1>p, <2>3 DEF OneOfEach, Givers
  <2>5. SignalShown' = v
    BY <2>3, <2>4 DEF SignalShown
  <2> QED
    BY <1>7, <2>2, <2>3, <2>5 DEF SendClaim, Channel!Send, PhaseShown, ReceiverShown
<1>8. ASSUME NEW s \in Senders, SendAwait(s) PROVE UNCHANGED Channel!channelVars
  <2>1. Moves(s, "await", "set")
    BY <1>8, Kinds, Moving, Places DEF TypeOK, SendAwait, Moves
  <2>2. Owner' = Owner /\ Givers' = Givers
    BY <2>1, Kinds DEF Moves, Owner, Givers, Inside, Sending
  <2> QED
    BY <1>8, <2>2, Unseen DEF SendAwait
<1>9. ASSUME NEW s \in Senders, SendHoisted(s) PROVE UNCHANGED Channel!channelVars
  <2>1. Moves(s, "await", "spin")
    BY <1>9, Kinds, Moving, Places DEF TypeOK, SendHoisted, Moves
  <2>2. Owner' = Owner /\ Givers' = Givers
    BY <2>1, Kinds DEF Moves, Owner, Givers, Inside, Sending
  <2> QED
    BY <1>9, <2>2, Unseen DEF SendHoisted
<1>10. ASSUME NEW s \in Senders, SendSet(s) PROVE UNCHANGED Channel!channelVars
  <2>1. Moves(s, "set", "out")
    BY <1>10, Kinds, Moving, Places DEF TypeOK, SendSet, Moves
  <2>2. PICK r \in Receivers : r = receiver_ptr /\ pc[r] = "get"
    BY <1>p, <2>1 DEF PromiseAlive, Moves
  <2>3. state = "SIG" /\ SignalShown = value[s]
    BY <1>p, <2>1, GiverShown DEF Held, SendersNeedSig, Moves, Sending
  <2>4. \A t \in Senders : pc'[t] \notin Sending
    BY <1>p, <2>1, Kinds DEF OneOfEach, Moves, Sending
  <2>5. pc'[r] = "get" /\ promise'[r] = value[s] /\ Owner' = Owner
    BY <1>10, <2>1, <2>2, Kinds DEF SendSet, Moves, TypeOK, Owner
  <2>6. Owner' = {r}
    BY <1>p, <2>5 DEF OneOfEach, Owner, Inside
  <2>7. SignalShown' = promise'[r]
    <3>1. Givers' = {}
      BY <2>4 DEF Givers
    <3> QED
      BY <1>10, <2>3, <2>6, <3>1 DEF SendSet, SignalShown
  <2> QED
    BY <1>10, <2>3, <2>5, <2>7 DEF SendSet, Channel!channelVars, PhaseShown, ReceiverShown
<1>11. CASE UNCHANGED vars
  BY <1>11 DEF vars, Channel!channelVars, PhaseShown, ReceiverShown, SignalShown, Owner, Givers
<1> QED
  BY <1>1, <1>2, <1>3, <1>4, <1>5, <1>6, <1>7, <1>8, <1>9, <1>10, <1>11
     DEF Next, Recv, TrySend, Channel!Next

(* recv and try_send (signal_channel.h:31-55) implement the rendezvous for *)
(* any number of callers: a receiver returns with the signal that the one  *)
(* sender gave whose compare-exchange found it waiting.                    *)
THEOREM ChannelIsRendezvous == Spec => IsRendezvous
BY ShownInit, ShownStep, HeldAlways, PassedAlways, TypeCorrect, PTL
   DEF Spec, IsRendezvous, Channel!Spec
=============================================================================
