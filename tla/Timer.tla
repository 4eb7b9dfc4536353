-------------------------------- MODULE Timer --------------------------------
(***************************************************************************)
(* xasync_timer (libvee_master/voost/timer/xtimer.cpp): an owner runs,     *)
(* stops and destroys the timer while the thread of the io_service calls   *)
(* its handler, which calls the callback and waits again.                  *)
(*                                                                         *)
(* stop only changes _running_state: the wait under way goes on, and its   *)
(* handler finds the timer stopped, or run again.  Every access to a       *)
(* member is a step of its own.  Time is left out: a wait expires at some  *)
(* moment.  The waits and the queue of handlers are those of asio.         *)
(*                                                                         *)
(* A callback is a delegate of two parts, its functions with a key and     *)
(* those without; either may be empty.  Nothing orders the assignment of   *)
(* _e in run against a call of it by the handler of an earlier wait.       *)
(***************************************************************************)
EXTENDS Naturals, Sequences

CONSTANTS
  Parts,           \* the containers of a delegate
  Callbacks,       \* the delegates that run is given
  NoCallback,      \* of a timer that was not run
  None,            \* an empty container
  Mixed,           \* what an assignment that overlaps a call may leave in one
  StaleStates,     \* what the storage of _running_state may hold: it has no initialiser
  TickModulus,     \* 2^32 for an unsigned int
  MaxHandlers      \* bound: the waits that have not come to an end

ASSUME TimerAssumption ==
  /\ NoCallback \notin Callbacks /\ None # Mixed
  /\ \A f \in Callbacks : DOMAIN f = Parts /\ \A p \in Parts : f[p] # Mixed
  /\ StaleStates \subseteq {"IDLE", "RUN", "OTHER"}
  /\ TickModulus \in Nat \ {0, 1} /\ MaxHandlers \in Nat \ {0}

VARIABLES
  running,    \* _running_state
  e, tick,    \* _e, _tick
  pending,    \* the number of waits that have not expired
  ready,      \* the results of the handlers the io_service has queued
  alive,      \* the timer has not been destroyed
  owner,      \* what the owner does next
  io, reg,    \* what the thread of the io_service does next, and its register
  asked,      \* history: the callback of the last run, if one was made
  earlier,    \* history: the callbacks of the runs before it
  raced,      \* history: an assignment of _e overlapped a call of it
  fresh,      \* history: when that run began, nothing was left of an earlier one
  calls,      \* history: the calls of the callback since that run, modulo TickModulus
  late        \* history: the calls since stop, 2 for more than one

timerVars == <<running, e, tick, alive>>
asioVars == <<pending, ready>>
history == <<asked, earlier, raced, fresh, calls, late>>
vars == <<timerVars, asioVars, owner, io, reg, history>>

Init ==
  /\ running \in StaleStates
  /\ e = [p \in Parts |-> None] /\ tick = 0 /\ alive = TRUE
  /\ pending = 0 /\ ready = <<>>
  /\ owner = "idle" /\ io = "idle" /\ reg = 0
  /\ asked = NoCallback /\ earlier = {} /\ raced = FALSE /\ fresh = TRUE /\ calls = 0 /\ late = 0

Expired == {k \in 1 .. Len(ready) : ready[k] = "ok"}

\* expires_from_now cancels the waits under way: their handlers get an error.
\* A handler that is queued already keeps its result.
Cancel ==
  /\ ready' = ready \o [k \in 1 .. pending |-> "aborted"]
  /\ pending' = 0

AsyncWait == pending' = pending + 1 /\ UNCHANGED ready

\* The waits of the timer that have not come to an end.
Chains == pending + Len(ready) + (IF io = "idle" THEN 0 ELSE 1)

-----------------------------------------------------------------------------
(* run, stop and the destructor.                                           *)
Owner(a, b) == alive /\ owner = a /\ owner' = b

\* Bound: MaxHandlers.
RunSwap(f) ==
  /\ Chains < MaxHandlers
  /\ Owner("idle", "run_e")
  /\ running = "IDLE"
  /\ running' = "RUN"
  /\ asked' = f
  /\ earlier' = earlier \cup ({asked} \ {NoCallback})
  /\ fresh' = (pending = 0 /\ Expired = {} /\ io = "idle")
  /\ calls' = 0
  /\ late' = 0
  /\ UNCHANGED <<e, tick, alive, asioVars, io, reg, raced>>

\* mutant: only the first callback is kept
RunCallbackOnce ==
  /\ Owner("run_e", "run_tick")
  /\ e' = IF \A p \in Parts : e[p] = None THEN asked ELSE e
  /\ UNCHANGED <<running, tick, alive, asioVars, io, reg, history>>

\* The delegate's operator= keeps a container where the one assigned is empty.
Assigned(old, new) == [p \in Parts |-> IF new[p] = None THEN old[p] ELSE new[p]]

RunCallback ==
  /\ Owner("run_e", "run_tick")
  /\ e' \in {Assigned(e, asked)} \cup (IF io = "call" THEN {[p \in Parts |-> Mixed]} ELSE {})
  /\ raced' = (raced \/ io = "call")
  /\ UNCHANGED <<running, tick, alive, asioVars, io, reg, asked, earlier, fresh, calls, late>>

RunTick ==
  /\ Owner("run_tick", "run_state")
  /\ tick' = 0
  /\ UNCHANGED <<running, e, alive, asioVars, io, reg, history>>

\* A stop in the callback of an earlier wait may have come in between.
RunState ==
  /\ Owner("run_state", "run_expires")
  /\ running' = "RUN"
  /\ late' = 0
  /\ UNCHANGED <<e, tick, alive, asioVars, io, reg, asked, earlier, raced, fresh, calls>>

RunExpires ==
  /\ Owner("run_expires", "run_wait")
  /\ Cancel
  /\ UNCHANGED <<timerVars, io, reg, history>>

RunWait ==
  /\ Owner("run_wait", "idle")
  /\ AsyncWait
  /\ UNCHANGED <<timerVars, io, reg, history>>

Run ==
  \/ \E f \in Callbacks : RunSwap(f)
  \/ RunCallback \/ RunTick \/ RunState \/ RunExpires \/ RunWait

Stop ==
  /\ Owner("idle", "idle")
  /\ running = "RUN"
  /\ running' = "IDLE"
  /\ UNCHANGED <<e, tick, alive, asioVars, io, reg, history>>

\* stop, and the destructor of _timer, which cancels.  The owner does not destroy the
\* timer while a handler with this is on its way to read _running_state.
Destroy ==
  /\ Owner("idle", "gone")
  /\ Expired = {} /\ io = "idle"
  /\ alive' = FALSE
  /\ running' = IF running = "RUN" THEN "IDLE" ELSE running
  /\ Cancel
  /\ UNCHANGED <<e, tick, io, reg, history>>

-----------------------------------------------------------------------------
(* The io_service: a wait expires, and its thread calls the handlers.      *)
Expire ==
  /\ pending > 0
  /\ pending' = pending - 1
  /\ ready' = Append(ready, "ok")
  /\ UNCHANGED <<timerVars, owner, io, reg, history>>

Io(a, b) == io = a /\ io' = b

\* mutant: the error of the handler is not looked at
OnTimerAnyway ==
  /\ ready # <<>>
  /\ Io("idle", "check")
  /\ ready' = Tail(ready)
  /\ UNCHANGED <<timerVars, pending, owner, reg, history>>

OnTimer ==
  /\ ready # <<>>
  /\ Io("idle", IF Head(ready) = "ok" THEN "check" ELSE "idle")
  /\ ready' = Tail(ready)
  /\ UNCHANGED <<timerVars, pending, owner, reg, history>>

\* mutant: _running_state is not looked at
CheckNot ==
  /\ Io("check", "load")
  /\ UNCHANGED <<timerVars, asioVars, owner, reg, history>>

Check ==
  /\ Io("check", IF running = "RUN" THEN "load" ELSE "idle")
  /\ UNCHANGED <<timerVars, asioVars, owner, reg, history>>

\* ++_tick, which is not atomic
LoadTick ==
  /\ Io("load", "store")
  /\ reg' = (tick + 1) % TickModulus
  /\ UNCHANGED <<timerVars, asioVars, owner, history>>

StoreTick ==
  /\ Io("store", "call")
  /\ tick' = reg
  /\ reg' = 0
  /\ UNCHANGED <<running, e, alive, asioVars, owner, history>>

\* The callback may stop the timer.
Call ==
  /\ Io("call", "expires")
  /\ running' \in {running, IF running = "RUN" THEN "IDLE" ELSE running}
  /\ calls' = (calls + 1) % TickModulus
  /\ late' = IF running = "RUN" \/ late = 2 THEN late ELSE late + 1
  /\ UNCHANGED <<e, tick, alive, asioVars, owner, reg, asked, earlier, raced, fresh>>

Expires ==
  /\ Io("expires", "wait")
  /\ Cancel
  /\ UNCHANGED <<timerVars, owner, reg, history>>

\* mutant: expires_from_now follows async_wait, and cancels it
WaitCancelled ==
  /\ Io("wait", "idle")
  /\ ready' = ready \o [k \in 1 .. pending + 1 |-> "aborted"]
  /\ pending' = 0
  /\ UNCHANGED <<timerVars, owner, reg, history>>

Wait ==
  /\ Io("wait", "idle")
  /\ AsyncWait
  /\ UNCHANGED <<timerVars, owner, reg, history>>

Handle == OnTimer \/ Check \/ LoadTick \/ StoreTick \/ Call \/ Expires \/ Wait

-----------------------------------------------------------------------------
Next == Run \/ Stop \/ Destroy \/ Expire \/ Handle

Spec == Init /\ [][Next]_vars

\* Time passes, the thread of the io_service runs, a run that has begun goes on.
Fairness == WF_vars(Expire) /\ WF_vars(Handle) /\ WF_vars(Run /\ owner # "idle")

FairSpec == Spec /\ Fairness

-----------------------------------------------------------------------------
(* The members and the queue of asio have values of their types.           *)
TypeOK ==
  /\ running \in {"IDLE", "RUN", "OTHER"}
  /\ DOMAIN e = Parts /\ tick \in 0 .. TickModulus - 1
  /\ alive \in BOOLEAN
  /\ pending \in 0 .. MaxHandlers /\ ready \in Seq({"ok", "aborted"})
  /\ owner \in {"idle", "run_e", "run_tick", "run_state", "run_expires", "run_wait", "gone"}
  /\ io \in {"idle", "check", "load", "store", "call", "expires", "wait"}
  /\ reg \in 0 .. TickModulus - 1
  /\ asked \in Callbacks \cup {NoCallback} /\ earlier \subseteq Callbacks
  /\ raced \in BOOLEAN /\ fresh \in BOOLEAN
  /\ calls \in 0 .. TickModulus - 1 /\ late \in 0 .. 2

(* After stop has returned, until the next run, the callback is called at  *)
(* most once more: by the handler that had already found the timer running *)
(* (xtimer.cpp:74-80, 107-113).                                            *)
OneLateCall == late <= 1

(* A run that begins when nothing is left of an earlier one calls all of   *)
(* its own callback, with 1, 2, 3 ...  Besides it calls only what earlier  *)
(* runs left in a container its callback has nothing in, as _e is assigned *)
(* and never cleared.  Another run may be overtaken by the handler of the  *)
(* earlier wait; and nothing is said after that handler called _e while    *)
(* run assigned it (xtimer.cpp:38-72, 111-113, delegate.h:209-217).        *)
FreshRunCounts ==
  fresh /\ ~raced /\ io = "call" =>
    /\ tick = (calls + 1) % TickModulus
    /\ \A p \in Parts :
         IF asked[p] # None THEN e[p] = asked[p]
         ELSE e[p] # None => \E f \in earlier : e[p] = f[p]

(* When no handler is on its way at the time of the destructor, none will  *)
(* touch the timer later (xtimer.cpp:33-36, 105-107).                      *)
DestroyedIsLeftAlone == ~alive => io = "idle" /\ Expired = {}

(* However stop, run and the handler of an earlier wait interleave, a      *)
(* timer that was run ticks again, until it is stopped (xtimer.cpp:94-113).*)
KeepsTicking ==
  running = "RUN" /\ asked # NoCallback /\ owner = "idle" ~> io = "call" \/ running # "RUN"
=============================================================================
