----------------------------- MODULE TimerProofs -----------------------------
(***************************************************************************)
(* The timer of xtimer.cpp for any callbacks, any modulus of the ticks and *)
(* any bound on the waits: its types, what stop and the destructor         *)
(* promise, and that a run with nothing left of an earlier one calls all   *)
(* of its own callback with its own ticks, and besides only what earlier   *)
(* runs left in a container that its callback has empty.                   *)
(***************************************************************************)
EXTENDS Timer, SequenceTheorems, TLAPS

Results == {"ok", "aborted"}

(* Cancelled waits go to the end of the queue, none of them as expired.    *)
LEMMA Cancelling ==
  ASSUME pending \in Nat, ready \in Seq(Results), Cancel
  PROVE  /\ pending' = 0
         /\ ready' \in Seq(Results)
         /\ Len(ready') = Len(ready) + pending
         /\ Expired' = Expired
<1> DEFINE aborted == [k \in 1 .. pending |-> "aborted"]
<1>1. aborted \in Seq(Results) /\ Len(aborted) = pending
  BY SMT DEF Results
<1>2. ready' = ready \o aborted /\ pending' = 0
  BY DEF Cancel
<1>3. /\ ready' \in Seq(Results)
      /\ Len(ready') = Len(ready) + pending
      /\ \A k \in 1 .. Len(ready) + pending :
           ready'[k] = IF k <= Len(ready) THEN ready[k] ELSE aborted[k - Len(ready)]
  BY <1>1, <1>2, ConcatProperties, SMT
<1>4. \A k \in 1 .. Len(ready) + pending :
        ready'[k] = IF k <= Len(ready) THEN ready[k] ELSE "aborted"
  BY <1>1, <1>3, SMT
<1>5. Expired' = Expired
  BY <1>3, <1>4, SMT DEF Expired
<1> QED
  BY <1>2, <1>3, <1>5

(* The first handler is taken from the queue.                              *)
LEMMA Taking ==
  ASSUME ready \in Seq(Results), ready # <<>>, ready' = Tail(ready)
  PROVE  /\ ready' \in Seq(Results)
         /\ Len(ready) \in Nat \ {0} /\ Len(ready') = Len(ready) - 1
         /\ Expired = {} => Expired' = {} /\ Head(ready) # "ok"
<1>1. /\ ready' \in Seq(Results)
      /\ Len(ready) \in Nat \ {0} /\ Len(ready') = Len(ready) - 1
      /\ \A k \in 1 .. Len(ready) - 1 : ready'[k] = ready[k + 1]
      /\ Head(ready) = ready[1]
  BY SMT
<1>2. Expired = {} => Expired' = {} /\ Head(ready) # "ok"
  BY <1>1, SMT DEF Expired
<1> QED
  BY <1>1, <1>2

(* A wait that has expired goes to the end of the queue.                   *)
LEMMA Expiring ==
  ASSUME ready \in Seq(Results), ready' = Append(ready, "ok")
  PROVE  ready' \in Seq(Results) /\ Len(ready') = Len(ready) + 1
BY SMT DEF Results

-----------------------------------------------------------------------------
(* A call of run that is under way, which will add a wait.                 *)
Busy == owner \in {"run_e", "run_tick", "run_state", "run_expires", "run_wait"}
Bounded == Chains + (IF Busy THEN 1 ELSE 0) <= MaxHandlers

(* Between stop and the next run one handler at most has found the timer   *)
(* running.                                                                *)
InTime ==
  /\ late <= 1
  /\ running = "RUN" \/ io \in {"load", "store", "call"} => late = 0

(* A fresh run is alone until it waits, and its handlers count from 0.     *)
Alone == fresh /\ Busy => pending = 0 /\ Expired = {} /\ io = "idle" /\ calls = 0
Counting ==
  fresh => /\ owner \notin {"run_e", "run_tick"} =>
                tick = IF io = "call" THEN (calls + 1) % TickModulus ELSE calls
           /\ io = "store" => reg = (tick + 1) % TickModulus

(* Each container of _e is empty or one of an earlier callback, until run  *)
(* assigns its own to those where it has one.                              *)
LeftEarlier(p) == e[p] = None \/ \E f \in earlier : e[p] = f[p]
Sourced ==
  ~raced /\ asked # NoCallback =>
    \A p \in Parts :
      IF owner # "run_e" /\ asked[p] # None THEN e[p] = asked[p] ELSE LeftEarlier(p)

(* A timer that was not run waits for nothing and has nothing to call.     *)
Untouched ==
  asked = NoCallback =>
    /\ pending = 0 /\ Len(ready) = 0 /\ io = "idle" /\ owner \in {"idle", "gone"}
    /\ \A p \in Parts : e[p] = None

(* After the destructor nothing is left that could expire.                 *)
Over == ~alive => pending = 0 /\ Expired = {} /\ io = "idle"

Kept == TypeOK /\ Bounded /\ InTime /\ Alone /\ Counting /\ Sourced /\ Untouched /\ Over

LEMMA KeptInit == Init => Kept
<1> SUFFICES ASSUME Init PROVE Kept
  OBVIOUS
<1>1. Len(ready) = 0 /\ ready \in Seq(Results) /\ Expired = {}
  BY SMT DEF Init, Expired, Results
<1>2. TypeOK
  <2>1. DOMAIN e = Parts
    BY DEF Init
  <2>2. /\ StaleStates \subseteq {"IDLE", "RUN", "OTHER"}
        /\ TickModulus \in Nat \ {0, 1} /\ MaxHandlers \in Nat \ {0}
    BY TimerAssumption
  <2>3. /\ running \in {"IDLE", "RUN", "OTHER"} /\ earlier \subseteq Callbacks
        /\ asked \in Callbacks \cup {NoCallback} /\ raced \in BOOLEAN /\ fresh \in BOOLEAN
    BY <2>2 DEF Init
  <2> QED
    BY <1>1, <2>1, <2>2, <2>3, SMT DEF Init, TypeOK, Results
<1>3. Bounded
  BY <1>1, TimerAssumption, SMT DEF Init, Bounded, Chains, Busy
<1>4. InTime /\ Alone /\ Counting /\ Over
  BY SMT DEF Init, InTime, Alone, Busy, Counting, Over
<1>5. Sourced /\ Untouched
  BY <1>1 DEF Init, Sourced, Untouched
<1> QED
  BY <1>2, <1>3, <1>4, <1>5 DEF Kept

(* What a step does to the waits and the handlers of asio.                 *)
LEMMA AsioTypes ==
  ASSUME TypeOK
  PROVE  /\ pending \in Nat /\ ready \in Seq(Results) /\ Len(ready) \in Nat
         /\ Cancel => pending' = 0 /\ ready' \in Seq(Results)
                      /\ Len(ready') = pending + Len(ready) /\ Expired' = Expired
         /\ AsyncWait => pending' = pending + 1 /\ ready' = ready /\ Expired' = Expired
         /\ UNCHANGED ready => Expired' = Expired
<1>1. pending \in Nat /\ ready \in Seq(Results) /\ Len(ready) \in Nat
  BY TimerAssumption, SMT DEF TypeOK, Results
<1>2. UNCHANGED ready => Expired' = Expired
  BY DEF Expired
<1> QED
  BY <1>1, <1>2, Cancelling, SMT DEF AsyncWait

LEMMA Ticking ==
  ASSUME NEW n \in 0 .. TickModulus - 1
  PROVE  (n + 1) % TickModulus \in 0 .. TickModulus - 1
BY TimerAssumption, SMT

LEMMA TypeStep == Kept /\ [Next]_vars => TypeOK' /\ Bounded'
<1> SUFFICES ASSUME TypeOK, Bounded, [Next]_vars PROVE TypeOK' /\ Bounded'
  BY DEF Kept
<1> USE TimerAssumption DEF timerVars, asioVars, history
<1>a. /\ pending \in Nat /\ Len(ready) \in Nat /\ ready \in Seq(Results)
      /\ 0 \in 0 .. TickModulus - 1
  BY AsioTypes, SMT
<1>b. ASSUME pending' \in Nat, ready' \in Seq(Results), Bounded'
      PROVE  pending' \in 0 .. MaxHandlers
  <2>1. Len(ready') \in Nat
    BY <1>b
  <2> QED
    BY <1>b, <2>1, SMT DEF Bounded, Chains
<1>1. ASSUME NEW f \in Callbacks, RunSwap(f) PROVE TypeOK' /\ Bounded'
  <2>1. Bounded'
    BY <1>1, <1>a, SMT DEF TypeOK, Bounded, Chains, Busy, RunSwap, Owner
  <2> QED
    BY <1>1, <2>1, <1>a DEF TypeOK, RunSwap, Owner
<1>2. CASE RunCallback \/ RunTick \/ RunState
  <2>1. Bounded'
    BY <1>2, <1>a, SMT DEF Bounded, Chains, Busy, RunCallback, RunTick, RunState, Owner
  <2>2. CASE RunCallback
    <3>1. DOMAIN e' = Parts
      BY <2>2 DEF RunCallback, Assigned
    <3>2. raced' \in BOOLEAN
      BY <2>2 DEF RunCallback
    <3> QED
      BY <1>a, <2>1, <2>2, <3>1, <3>2 DEF TypeOK, RunCallback, Owner
  <2> QED
    BY <1>2, <2>1, <2>2, <1>a DEF TypeOK, RunTick, RunState, Owner
<1>3. CASE RunExpires \/ Destroy
  <2>1. /\ Cancel /\ pending' = 0 /\ ready' \in Seq(Results)
        /\ Len(ready') = pending + Len(ready)
    BY <1>3, AsioTypes DEF RunExpires, Destroy
  <2>2. Bounded'
    BY <1>3, <1>a, <2>1, SMT DEF Bounded, Chains, Busy, RunExpires, Destroy, Owner
  <2> QED
    BY <1>3, <1>b, <2>1, <2>2 DEF TypeOK, RunExpires, Destroy, Owner, Results
<1>4. CASE RunWait \/ Wait
  <2>1. AsyncWait
    BY <1>4 DEF RunWait, Wait
  <2>2. Bounded'
    BY <1>4, <1>a, <2>1, SMT DEF Bounded, Chains, Busy, RunWait, Wait, Owner, Io, AsyncWait
  <2>3. pending' \in 0 .. MaxHandlers
    BY <1>a, <1>b, <2>1, <2>2, SMT DEF AsyncWait
  <2> QED
    BY <1>4, <2>1, <2>2, <2>3 DEF TypeOK, RunWait, Wait, Owner, Io, AsyncWait
<1>5. CASE Stop
  <2>1. Bounded'
    BY <1>5, <1>a, SMT DEF Bounded, Chains, Busy, Stop, Owner
  <2> QED
    BY <1>5, <2>1 DEF TypeOK, Stop, Owner
<1>6. CASE Expire
  <2>1. ready' \in Seq(Results) /\ Len(ready') = Len(ready) + 1
    BY <1>6, <1>a, Expiring DEF Expire
  <2>2. Bounded' /\ pending' \in Nat
    BY <1>6, <1>a, <2>1, SMT DEF Bounded, Chains, Busy, Expire
  <2> QED
    BY <1>6, <1>b, <2>1, <2>2 DEF TypeOK, Expire, Results
<1>7. CASE OnTimer
  <2>1. /\ ready' \in Seq(Results)
        /\ Len(ready) \in Nat \ {0} /\ Len(ready') = Len(ready) - 1
    BY <1>7, <1>a, Taking DEF OnTimer
  <2>2. Bounded'
    BY <1>7, <1>a, <2>1, SMT DEF Bounded, Chains, Busy, OnTimer, Io
  <2> QED
    BY <1>7, <2>1, <2>2 DEF TypeOK, OnTimer, Io, Results
<1>8. CASE Check \/ LoadTick \/ StoreTick
  <2>1. Bounded'
    BY <1>8, <1>a, SMT DEF Bounded, Chains, Busy, Check, LoadTick, StoreTick, Io
  <2>2. (tick + 1) % TickModulus \in 0 .. TickModulus - 1
    BY Ticking DEF TypeOK
  <2> QED
    BY <1>8, <1>a, <2>1, <2>2 DEF TypeOK, Check, LoadTick, StoreTick, Io
<1>9. CASE Call
  <2>1. Bounded'
    BY <1>9, <1>a, SMT DEF Bounded, Chains, Busy, Call, Io
  <2>2. calls' \in 0 .. TickModulus - 1 /\ late' \in 0 .. 2
    <3>1. calls' \in 0 .. TickModulus - 1
      BY <1>9, Ticking DEF TypeOK, Call
    <3> QED
      BY <1>9, <3>1, SMT DEF TypeOK, Call
  <2> QED
    BY <1>9, <2>1, <2>2 DEF TypeOK, Call, Io
<1>10. CASE Expires
  <2>1. /\ Cancel /\ pending' = 0 /\ ready' \in Seq(Results)
        /\ Len(ready') = pending + Len(ready)
    BY <1>10, AsioTypes DEF Expires
  <2>2. Bounded'
    BY <1>10, <1>a, <2>1, SMT DEF Bounded, Chains, Busy, Expires, Io
  <2> QED
    BY <1>10, <1>b, <2>1, <2>2 DEF TypeOK, Expires, Io, Results
<1>11. CASE UNCHANGED vars
  BY <1>11 DEF vars, TypeOK, Bounded, Chains, Busy
<1> QED
  BY <1>1, <1>2, <1>3, <1>4, <1>5, <1>6, <1>7, <1>8, <1>9, <1>10, <1>11
     DEF Next, Run, Handle

(* Only a handler that found the timer running calls back, and then it     *)
(* waits again and looks at _running_state.                                *)
LEMMA LateStep == TypeOK /\ InTime /\ [Next]_vars => InTime'
BY SMT DEF InTime, TypeOK, vars, timerVars, asioVars, history, Next, Run, RunSwap, RunCallback,
   RunTick, RunState, RunExpires, RunWait, Stop, Destroy, Expire, Handle, OnTimer, Check,
   LoadTick, StoreTick, Call, Expires, Wait, Owner, Io

(* Nothing of an earlier run interferes with a fresh one before it waits;  *)
(* from then on one handler at a time counts its ticks.                    *)
LEMMA FreshStep == Kept /\ [Next]_vars => Alone' /\ Counting'
<1> SUFFICES ASSUME TypeOK, Alone, Counting, [Next]_vars PROVE Alone' /\ Counting'
  BY DEF Kept
<1> USE DEF timerVars, asioVars, history
<1>a. /\ pending \in Nat /\ ready \in Seq(Results)
      /\ Cancel => pending' = 0 /\ Expired' = Expired
      /\ UNCHANGED ready => Expired' = Expired
  BY AsioTypes
<1>1. ASSUME NEW f \in Callbacks, RunSwap(f) PROVE Alone' /\ Counting'
  BY <1>1, <1>a DEF Alone, Counting, Busy, RunSwap, Owner
<1>2. CASE RunCallback \/ RunTick \/ RunState
  BY <1>2, <1>a DEF Alone, Counting, Busy, RunCallback, RunTick, RunState, Owner
<1>3. CASE RunExpires \/ RunWait
  BY <1>3, <1>a DEF Alone, Counting, Busy, RunExpires, RunWait, Owner
<1>4. CASE Stop \/ Destroy
  BY <1>4, <1>a DEF Alone, Counting, Busy, Stop, Destroy, Owner
<1>5. CASE Expire
  BY <1>5, <1>a, SMT DEF Alone, Counting, Busy, Expire
<1>6. CASE OnTimer
  <2>1. Expired = {} => Expired' = {} /\ Head(ready) # "ok"
    BY <1>6, <1>a, Taking DEF OnTimer
  <2> QED
    BY <1>6, <2>1 DEF Alone, Counting, Busy, OnTimer, Io
<1>7. CASE Check \/ LoadTick \/ StoreTick \/ Call \/ Expires \/ Wait
  <2>1. fresh => ~Busy
    BY <1>7 DEF Alone, Check, LoadTick, StoreTick, Call, Expires, Wait, Io
  <2> QED
    BY <1>7, <2>1 DEF Alone, Counting, Busy, Check, LoadTick, StoreTick, Call, Expires, Wait, Io
<1>8. CASE UNCHANGED vars
  BY <1>8, <1>a DEF vars, Alone, Counting, Busy
<1> QED
  BY <1>1, <1>2, <1>3, <1>4, <1>5, <1>6, <1>7, <1>8 DEF Next, Run, Handle

(* Only run changes _e, and it keeps what its callback has nothing for.    *)
LEMMA SourcedStep == Kept /\ [Next]_vars => Sourced'
<1> SUFFICES ASSUME TypeOK, Sourced, Untouched, [Next]_vars PROVE Sourced'
  BY DEF Kept
<1> USE DEF timerVars, asioVars, history
<1>1. ASSUME NEW f \in Callbacks, RunSwap(f) PROVE Sourced'
  <2>1. /\ owner = "idle" /\ owner' = "run_e" /\ e' = e /\ raced' = raced
        /\ earlier' = earlier \cup ({asked} \ {NoCallback})
    BY <1>1 DEF RunSwap, Owner
  <2>2. ASSUME ~raced, NEW p \in Parts PROVE e[p] = None \/ \E g \in earlier' : e[p] = g[p]
    <3>1. CASE asked = NoCallback
      BY <3>1 DEF Untouched
    <3>2. CASE asked # NoCallback
      <4>1. asked \in earlier' /\ earlier \subseteq earlier'
        BY <2>1, <3>2
      <4>2. IF asked[p] # None THEN e[p] = asked[p] ELSE LeftEarlier(p)
        BY <2>1, <2>2, <3>2 DEF Sourced
      <4> QED
        BY <4>1, <4>2 DEF LeftEarlier
    <3> QED
      BY <3>1, <3>2
  <2> QED
    BY <2>1, <2>2 DEF Sourced, LeftEarlier
<1>2. CASE RunCallback
  <2>1. /\ owner = "run_e" /\ owner' = "run_tick" /\ asked' = asked /\ earlier' = earlier
        /\ ~raced' => ~raced /\ e' = Assigned(e, asked)
    BY <1>2 DEF RunCallback, Owner
  <2> QED
    BY <2>1 DEF Sourced, LeftEarlier, Assigned
<1>3. CASE RunTick \/ RunState \/ RunExpires \/ RunWait
  <2>1. /\ owner # "run_e" /\ owner' # "run_e" /\ e' = e /\ raced' = raced
        /\ asked' = asked /\ earlier' = earlier
    BY <1>3 DEF RunTick, RunState, RunExpires, RunWait, Owner
  <2> QED
    BY <2>1 DEF Sourced, LeftEarlier
<1>4. CASE Stop \/ Destroy
  <2>1. /\ owner # "run_e" /\ owner' # "run_e" /\ e' = e /\ raced' = raced
        /\ asked' = asked /\ earlier' = earlier
    BY <1>4 DEF Stop, Destroy, Owner
  <2> QED
    BY <2>1 DEF Sourced, LeftEarlier
<1>5. CASE Expire \/ Handle \/ UNCHANGED vars
  <2>1. owner' = owner /\ e' = e /\ raced' = raced /\ asked' = asked /\ earlier' = earlier
    BY <1>5 DEF Expire, Handle, OnTimer, Check, LoadTick, StoreTick, Call, Expires, Wait, vars
  <2> QED
    BY <2>1 DEF Sourced, LeftEarlier
<1> QED
  BY <1>1, <1>2, <1>3, <1>4, <1>5 DEF Next, Run

(* Only run adds a wait to a timer that was not run.                       *)
LEMMA UntouchedStep == Kept /\ [Next]_vars => Untouched'
<1> SUFFICES ASSUME TypeOK, Untouched, [Next]_vars, asked' = NoCallback PROVE Untouched'
  BY DEF Kept, Untouched
<1> USE DEF timerVars, asioVars, history
<1>a. asked = NoCallback => Len(ready) = 0 /\ ready = <<>>
  BY AsioTypes, SMT DEF Untouched
<1>1. asked = NoCallback
  BY TimerAssumption DEF Next, Run, RunSwap, RunCallback, RunTick, RunState, RunExpires, RunWait,
     Stop, Destroy, Expire, Handle, OnTimer, Check, LoadTick, StoreTick, Call, Expires, Wait, vars
<1>2. /\ pending = 0 /\ Len(ready) = 0 /\ io = "idle" /\ owner \in {"idle", "gone"}
      /\ \A p \in Parts : e[p] = None
  BY <1>1 DEF Untouched
<1>3. \A f \in Callbacks : ~RunSwap(f)
  BY TimerAssumption DEF RunSwap
<1>4. CASE Stop \/ UNCHANGED vars
  BY <1>2, <1>4 DEF Stop, Owner, vars, Untouched
<1>5. CASE Destroy
  <2>1. pending' = 0 /\ Len(ready') = pending + Len(ready)
    BY <1>5, AsioTypes DEF Destroy
  <2>2. Len(ready') = 0
    BY <1>2, <2>1, SMT
  <2> QED
    BY <1>2, <1>5, <2>1, <2>2 DEF Destroy, Owner, Untouched
<1>6. ~Expire
  BY <1>2, SMT DEF Expire
<1>7. ~Handle
  BY <1>1, <1>2, <1>a DEF Handle, OnTimer, Check, LoadTick, StoreTick, Call, Expires, Wait, Io
<1>8. ~Run
  BY <1>2, <1>3 DEF Run, RunCallback, RunTick, RunState, RunExpires, RunWait, Owner
<1> QED
  BY <1>4, <1>5, <1>6, <1>7, <1>8 DEF Next

(* The destructor leaves no wait that could expire.                        *)
LEMMA OverStep == Kept /\ [Next]_vars => Over'
<1> SUFFICES ASSUME TypeOK, Over, [Next]_vars PROVE Over'
  BY DEF Kept
<1> USE DEF timerVars, asioVars, history
<1>a. /\ pending \in Nat /\ ready \in Seq(Results)
      /\ Cancel => pending' = 0 /\ Expired' = Expired
      /\ UNCHANGED ready => Expired' = Expired
  BY AsioTypes
<1>1. CASE Run \/ Stop
  BY <1>1 DEF Run, Stop, RunSwap, RunCallback, RunTick, RunState, RunExpires, RunWait, Owner, Over
<1>2. CASE Destroy
  BY <1>2, <1>a DEF Over, Destroy
<1>3. CASE OnTimer
  <2>1. Expired = {} => Expired' = {} /\ Head(ready) # "ok"
    BY <1>3, <1>a, Taking DEF OnTimer
  <2> QED
    BY <1>3, <2>1 DEF Over, OnTimer, Io
<1>4. CASE Expire
  BY <1>4, SMT DEF Over, Expire
<1>5. CASE Check \/ LoadTick \/ StoreTick \/ Call \/ Expires \/ Wait
  BY <1>5 DEF Over, Check, LoadTick, StoreTick, Call, Expires, Wait, Io
<1>6. CASE UNCHANGED vars
  BY <1>6, <1>a DEF vars, Over
<1> QED
  BY <1>1, <1>2, <1>3, <1>4, <1>5, <1>6 DEF Next, Handle

-----------------------------------------------------------------------------
LEMMA KeptAlways == Spec => []Kept
<1>1. Kept /\ [Next]_vars => Kept'
  BY TypeStep, LateStep, FreshStep, SourcedStep, UntouchedStep, OverStep DEF Kept
<1> QED
  BY <1>1, KeptInit, PTL DEF Spec

(* The members of the timer and the waits of asio stay in their types: a   *)
(* run adds one wait, a handler replaces its own (xtimer.cpp:38-124).      *)
THEOREM TypeCorrect == Spec => []TypeOK
<1>1. Kept => TypeOK
  BY DEF Kept
<1> QED
  BY <1>1, KeptAlways, PTL

(* However runs, stops and handlers interleave, the callback is called at  *)
(* most once between a stop and the next run (xtimer.cpp:74-80, 107-113).  *)
THEOREM OneCallAfterStop == Spec => []OneLateCall
<1>1. Kept => OneLateCall
  BY DEF Kept, InTime, OneLateCall
<1> QED
  BY <1>1, KeptAlways, PTL

(* A run that begins with nothing left of an earlier one calls all of its  *)
(* own callback with 1, 2, 3, ..., and besides it only what an earlier run *)
(* left in a container its own has empty: operator= keeps it.  Nothing is  *)
(* claimed once an assignment of _e overlapped a call of it                *)
(* (xtimer.cpp:38-48, 66, 111-113, delegate.h:209-217).                    *)
THEOREM FreshRunIsCounted == Spec => []FreshRunCounts
<1>1. ASSUME Kept, fresh, ~raced, io = "call" PROVE FreshRunCounts
  <2>1. ~Busy /\ owner # "run_e"
    BY <1>1 DEF Kept, Alone, Busy
  <2>2. tick = (calls + 1) % TickModulus
    BY <1>1, <2>1 DEF Kept, Counting, Busy
  <2>3. asked # NoCallback
    BY <1>1 DEF Kept, Untouched
  <2>4. \A p \in Parts : IF asked[p] # None THEN e[p] = asked[p] ELSE LeftEarlier(p)
    BY <1>1, <2>1, <2>3 DEF Kept, Sourced
  <2> QED
    BY <2>2, <2>4 DEF FreshRunCounts, LeftEarlier
<1>2. Kept => FreshRunCounts
  BY <1>1 DEF FreshRunCounts
<1> QED
  BY <1>2, KeptAlways, PTL

(* After a destructor that no handler was overtaken by, none touches the   *)
(* timer again (xtimer.cpp:33-36, 105-107).                                *)
THEOREM NothingAfterDestroy == Spec => []DestroyedIsLeftAlone
<1>1. Kept => DestroyedIsLeftAlone
  BY DEF Kept, Over, DestroyedIsLeftAlone
<1> QED
  BY <1>1, KeptAlways, PTL
=============================================================================
