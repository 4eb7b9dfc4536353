----------------------------- MODULE ActorProofs -----------------------------
(***************************************************************************)
(* vee::actor for any clients, workers, jobs and capacity, as long as the  *)
(* owner respawns it only when the killed worker has ended: no throw is    *)
(* reached, kill leaves nothing but a spent worker behind, the mailbox     *)
(* matches its counter, and one client at a time wakes the worker.  With   *)
(* one client that keeps a slot free, the jobs run in their order and kill *)
(* finds them all run.                                                     *)
(*                                                                         *)
(* The argument has two halves that need each other.  Life says where      *)
(* owner, worker, channel and _state can be at the same time; Token says   *)
(* that the right to wake the worker exists once: as a client on its way   *)
(* to signal it, as the signal, or as the worker at work.  Balance counts  *)
(* the jobs, and Story, which rests on all three, says which job is where. *)
(***************************************************************************)
EXTENDS Actor, FiniteSetTheorems, TLAPS

Gone(w) == pc[w] \in {"unborn", "ended"}
AllGone == \A w \in Workers : Gone(w)
OthersGone(w) == \A v \in Workers : v # w => Gone(v)

FreePlaces == {"idle", "joining", "kill_swap", "req_state", "req_enqueue",
               "req_write", "req_count", "req_activate", "req_signal"}
OtherPlaces == {"outside", "idle", "joining", "req_state", "req_enqueue",
                "req_write", "req_count", "req_activate", "req_signal"}
Others == \A c \in Clients : c # Owner => pc[c] \in OtherPlaces

\* The owner has called kill before, and the channel is at rest, or kill is
\* about to take the answer of the worker.
Free == pc[Owner] \in FreePlaces /\ phase = "idle"
Told == /\ pc[Owner] = "kill_take" /\ phase = "signalled"
        /\ receiver = Owner /\ signal = "exit_ok"

Unborn == state = "SPAWN" /\ phase = "idle" /\ pc[Owner] = "spawn_thread"
Dead == state = "DEAD" /\ (Free \/ Told)

\* The worker w from _spawn until it has told the owner of its arrival.
Young(w) ==
  /\ thread = NoThread /\ newborn = w
  /\ \/ pc[w] \in {"start", "load"} /\ state = "SPAWN"
     \/ pc[w] = "hello" /\ state = "LOADED"
  /\ \/ pc[Owner] \in {"spawn_check", "spawn_claim"} /\ phase = "idle"
     \/ pc[Owner] = "spawn_take" /\ phase = "waiting" /\ receiver = Owner

Settled(w) ==
  \/ pc[w] = "ready" /\ state = "LOADED"
  \/ pc[w] \in {"open", "check", "claim"} /\ state \in {"IDLE", "PROC"}

Greeted(w) ==
  /\ thread = NoThread /\ newborn = w /\ Settled(w)
  /\ pc[Owner] = "spawn_take" /\ phase = "signalled" /\ receiver = Owner /\ signal = "spawn"

\* It waits for signals and works.
Serving(w) ==
  \/ Settled(w) /\ phase = "idle"
  \/ pc[w] = "take" /\ receiver = w /\ phase = "waiting" /\ state \in {"IDLE", "PROC"}
  \/ pc[w] = "take" /\ receiver = w /\ phase = "signalled" /\ signal = "active" /\ state = "PROC"
  \/ pc[w] \in {"dequeue", "move", "run", "count", "rest"} /\ phase = "idle" /\ state = "PROC"

Grown(w) ==
  /\ Serving(w)
  /\ \/ pc[Owner] = "spawn_swap" /\ newborn = w /\ thread = NoThread
     \/ pc[Owner] \in FreePlaces /\ thread = w

\* kill has taken the actor from IDLE to DEAD.
Killed(w) ==
  /\ state = "DEAD"
  /\ \/ pc[w] \in {"open", "check", "claim"} /\ phase = "idle"
     \/ pc[w] = "take" /\ phase = "waiting" /\ receiver = w
  /\ \/ pc[Owner] = "kill_detach" /\ thread = w
     \/ pc[Owner] = "kill_send" /\ thread = NoThread

\* The worker has been told to exit, and has answered.
Leaving(w) ==
  /\ state = "DEAD" /\ thread = NoThread
  /\ \/ /\ pc[w] = "take" /\ phase = "signalled" /\ receiver = w /\ signal = "go_exit"
        /\ pc[Owner] \in {"kill_check", "kill_claim"}
     \/ pc[w] = "bye" /\ pc[Owner] \in {"kill_check", "kill_claim"} /\ phase = "idle"
     \/ pc[w] = "bye" /\ pc[Owner] = "kill_take" /\ phase = "waiting" /\ receiver = Owner
     \/ pc[w] = "die" /\ (Free \/ Told)

Alive(w) == Young(w) \/ Greeted(w) \/ Grown(w) \/ Killed(w) \/ Leaving(w)

Life ==
  /\ failed = "no"
  /\ DOMAIN pc = Threads
  /\ Others
  /\ \/ AllGone /\ thread = NoThread /\ (Unborn \/ Dead)
     \/ \E w \in Workers : OthersGone(w) /\ Alive(w)

-----------------------------------------------------------------------------
\* The worker is in its epoch and has not counted its last job yet.
Busy == {w \in Workers : pc[w] \in {"dequeue", "move", "run", "count"}}
Called == phase = "signalled" /\ signal = "active"

Token ==
  /\ counter \in Nat
  /\ \A c, d \in Activators : c = d
  /\ Activators # {} => ~Called /\ Busy = {}
  /\ counter # 0 <=> Activators # {} \/ Called \/ Busy # {}
  /\ \A c \in Clients : pc[c] = "req_signal" =>
       state = "PROC" /\ \A w \in Workers : pc[w] # "rest"

Balance ==
  /\ size \in Nat
  /\ IsFiniteSet(Uncounted)
  /\ size + Cardinality(InEpoch) = counter + Cardinality(Uncounted)

ActorInv == Life /\ Token /\ Balance

-----------------------------------------------------------------------------
(* Thread t goes from one place to another, and the rest stay.             *)
LEMMA Going ==
  ASSUME DOMAIN pc = Threads, NEW t \in Threads, NEW a, NEW b, Go(t, a, b)
  PROVE  /\ failed = "no" /\ pc[t] = a /\ DOMAIN pc' = Threads /\ pc'[t] = b
         /\ \A u \in Threads : u # t => pc'[u] = pc[u]
BY DEF Go, At

LEMMA Sides ==
  /\ Owner \in Clients /\ Owner \in Threads /\ NoThread \notin Workers /\ NoThread # Owner
  /\ \A c \in Clients : c \in Threads /\ c \notin Workers
  /\ \A w \in Workers : w \in Threads /\ w \notin Clients /\ w # Owner /\ w # NoThread
BY ThreadAssumption

(* A worker that is not gone is the only one.                              *)
LEMMA TheWorker ==
  ASSUME Life, NEW w \in Workers, ~Gone(w)
  PROVE  OthersGone(w) /\ Alive(w)
<1>1. PICK v \in Workers : OthersGone(v) /\ Alive(v)
  BY DEF Life, AllGone
<1>2. v = w
  BY <1>1 DEF OthersGone
<1> QED BY <1>1, <1>2

(* A client that moves between places of its own changes nothing in Life.  *)
LEMMA ClientMoves ==
  ASSUME Life, NEW c \in Clients, NEW a, NEW b, Go(c, a, b),
         a \in FreePlaces, a # "kill_swap", b \in FreePlaces, b = "kill_swap" => c = Owner,
         UNCHANGED <<channelVars, state, thread, newborn, failed>>
  PROVE  Life'
<1>1. /\ pc[c] = a /\ pc'[c] = b /\ DOMAIN pc' = Threads
      /\ \A u \in Threads : u # c => pc'[u] = pc[u]
  BY Sides, Going DEF Life
<1>2. \A w \in Workers : pc'[w] = pc[w]
  BY <1>1, Sides
<1>3. Others'
  BY <1>1, Sides DEF Life, Others, FreePlaces, OtherPlaces
<1>4. pc'[Owner] = pc[Owner] \/ (pc[Owner] = a /\ pc'[Owner] = b)
  BY <1>1, Sides
<1>5. UNCHANGED <<phase, receiver, signal, state, thread, newborn, failed>>
  BY DEF channelVars
<1>6. CASE AllGone /\ thread = NoThread /\ (Unborn \/ Dead)
  BY <1>1, <1>2, <1>3, <1>4, <1>5, <1>6 DEF Life, AllGone, Gone, Unborn, Dead, Free, Told, FreePlaces
<1>7. ASSUME NEW w \in Workers, OthersGone(w), Alive(w) PROVE Life'
  <2>1. OthersGone(w)'
    BY <1>2, <1>7 DEF OthersGone, Gone
  <2>2. pc'[w] = pc[w]
    BY <1>2
  <2>3. Alive(w)'
    BY <1>4, <1>5, <1>7, <2>2
       DEF Alive, Young, Greeted, Grown, Killed, Leaving, Settled, Serving, Free, Told, FreePlaces
  <2> QED BY <1>1, <1>3, <1>5, <2>1, <2>3 DEF Life
<1> QED BY <1>6, <1>7 DEF Life

\* What becomes of the stages when one thread, the worker w or the owner, moves.
LEMMA WorkerMoves ==
  ASSUME Life, NEW w \in Workers, NEW a, NEW b, Go(w, a, b), OthersGone(w)
  PROVE  /\ DOMAIN pc' = Threads /\ pc[w] = a /\ pc'[w] = b /\ pc'[Owner] = pc[Owner]
         /\ OthersGone(w)' /\ Others' /\ failed = "no"
<1>1. /\ pc[w] = a /\ pc'[w] = b /\ DOMAIN pc' = Threads /\ failed = "no"
      /\ \A u \in Threads : u # w => pc'[u] = pc[u]
  BY Sides, Going DEF Life
<1>2. OthersGone(w)'
  BY <1>1, Sides DEF OthersGone, Gone
<1>3. Others'
  BY <1>1, Sides DEF Life, Others
<1> QED BY <1>1, <1>2, <1>3, Sides

LEMMA OwnerMoves ==
  ASSUME Life, NEW a, NEW b, Go(Owner, a, b)
  PROVE  /\ DOMAIN pc' = Threads /\ pc[Owner] = a /\ pc'[Owner] = b
         /\ \A w \in Workers : pc'[w] = pc[w]
         /\ \A w \in Workers : OthersGone(w) => OthersGone(w)'
         /\ Others' /\ failed = "no" /\ (AllGone => AllGone')
<1>1. /\ pc[Owner] = a /\ pc'[Owner] = b /\ DOMAIN pc' = Threads /\ failed = "no"
      /\ \A u \in Threads : u # Owner => pc'[u] = pc[u]
  BY Sides, Going DEF Life
<1>2. \A w \in Workers : pc'[w] = pc[w]
  BY <1>1, Sides
<1>3. Others'
  BY <1>1, Sides DEF Life, Others
<1> QED BY <1>1, <1>2, <1>3 DEF OthersGone, AllGone, Gone

-----------------------------------------------------------------------------
(* The steps of the worker.                                                *)
LEMMA WorkerLife ==
  ASSUME Life, NEW w \in Workers, Work(w), pc[w] = "dequeue" => ~is_empty,
         \A c \in Clients : pc[c] = "req_signal" => pc[w] # "rest"
  PROVE  Life'
<1> USE Sides
<1> ~Gone(w)
  BY DEF Work, Epoch, Start, Load, Hello, Ready, Open, Check, Claim, TakeSignal, Bye, Die, Store,
         RecvCheck, RecvClaim, TrySend, DequeueJob, MoveJob, RunJob, CountJob, Rest, Fail, Go, At, Gone
<1>0. OthersGone(w) /\ Alive(w) /\ failed = "no"
  BY TheWorker DEF Life
<1>1. CASE Start(w)
  <2>1. pc[w] = "start"
    BY <1>1 DEF Start, Go, Fail, At
  <2>2. Young(w)
    BY <1>0, <2>1 DEF Alive, Greeted, Grown, Killed, Leaving, Settled, Serving
  <2>3. Go(w, "start", "load") /\ UNCHANGED <<channelVars, state, thread, newborn, failed>>
    BY <1>1, <2>1, <2>2 DEF Start, Young
  <2>4. DOMAIN pc' = Threads /\ pc'[w] = "load" /\ pc'[Owner] = pc[Owner]
        /\ OthersGone(w)' /\ Others'
    BY <1>0, <2>3, WorkerMoves
  <2>5. Young(w)'
    BY <2>1, <2>2, <2>3, <2>4 DEF Young, channelVars
  <2> QED BY <1>0, <2>3, <2>4, <2>5 DEF Life, Alive
<1>2. CASE Load(w)
  <2>1. Go(w, "load", "hello") /\ state' = "LOADED" /\ UNCHANGED <<channelVars, thread, newborn, failed>>
    BY <1>2 DEF Load, Store
  <2>2. pc[w] = "load" /\ DOMAIN pc' = Threads /\ pc'[w] = "hello" /\ pc'[Owner] = pc[Owner]
        /\ OthersGone(w)' /\ Others'
    BY <1>0, <2>1, WorkerMoves
  <2>3. Young(w)
    BY <1>0, <2>2 DEF Alive, Greeted, Grown, Killed, Leaving, Settled, Serving
  <2>4. Young(w)'
    BY <2>1, <2>2, <2>3 DEF Young, channelVars
  <2> QED BY <1>0, <2>1, <2>2, <2>4 DEF Life, Alive
<1>3. CASE Hello(w)
  <2>1. /\ Go(w, "hello", "ready") /\ phase = "waiting" /\ phase' = "signalled" /\ signal' = "spawn"
        /\ UNCHANGED <<receiver, state, thread, newborn, failed>>
    BY <1>3 DEF Hello, TrySend, Channel!Send, lifeVars
  <2>2. pc[w] = "hello" /\ DOMAIN pc' = Threads /\ pc'[w] = "ready" /\ pc'[Owner] = pc[Owner]
        /\ OthersGone(w)' /\ Others'
    BY <1>0, <2>1, WorkerMoves
  <2>3. Young(w)
    BY <1>0, <2>2 DEF Alive, Greeted, Grown, Killed, Leaving, Settled, Serving
  <2>4. Greeted(w)'
    BY <2>1, <2>2, <2>3 DEF Young, Greeted, Settled
  <2> QED BY <1>0, <2>1, <2>2, <2>4 DEF Life, Alive
<1>4. CASE Ready(w)
  <2>1. Go(w, "ready", "open") /\ state' = "IDLE" /\ UNCHANGED <<channelVars, thread, newborn, failed>>
    BY <1>4 DEF Ready, Store
  <2>2. pc[w] = "ready" /\ DOMAIN pc' = Threads /\ pc'[w] = "open" /\ pc'[Owner] = pc[Owner]
        /\ OthersGone(w)' /\ Others'
    BY <1>0, <2>1, WorkerMoves
  <2>3. Greeted(w) \/ (Grown(w) /\ phase = "idle")
    BY <1>0, <2>2 DEF Alive, Young, Greeted, Grown, Killed, Leaving, Settled, Serving
  <2>4. Greeted(w)' \/ Grown(w)'
    BY <2>1, <2>2, <2>3 DEF Greeted, Grown, Settled, Serving, channelVars
  <2> QED BY <1>0, <2>1, <2>2, <2>4 DEF Life, Alive
<1>5. CASE Open(w)
  <2>1. Go(w, "open", "check") /\ UNCHANGED <<channelVars, state, thread, newborn, failed>>
    BY <1>5 DEF Open
  <2>2. pc[w] = "open" /\ DOMAIN pc' = Threads /\ pc'[w] = "check" /\ pc'[Owner] = pc[Owner]
        /\ OthersGone(w)' /\ Others'
    BY <1>0, <2>1, WorkerMoves
  <2>3. Alive(w)'
    BY <1>0, <2>1, <2>2 DEF Alive, Young, Greeted, Grown, Killed, Leaving, Settled, Serving, channelVars
  <2> QED BY <1>0, <2>1, <2>2, <2>3 DEF Life
<1>6. CASE Check(w)
  <2>1. pc[w] = "check" /\ UNCHANGED <<channelVars, state, thread, newborn>>
    BY <1>6 DEF Check, RecvCheck, Go, Fail, At
  <2>2. Go(w, "check", "claim") /\ failed' = failed
    BY <1>0, <1>6, <2>1
       DEF Check, RecvCheck, Alive, Young, Greeted, Grown, Killed, Leaving, Settled, Serving
  <2>3. DOMAIN pc' = Threads /\ pc'[w] = "claim" /\ pc'[Owner] = pc[Owner]
        /\ OthersGone(w)' /\ Others'
    BY <1>0, <2>2, WorkerMoves
  <2>4. Alive(w)'
    BY <1>0, <2>1, <2>3 DEF Alive, Young, Greeted, Grown, Killed, Leaving, Settled, Serving, channelVars
  <2> QED BY <1>0, <2>2, <2>3, <2>4 DEF Life
<1>7. CASE Claim(w)
  <2>1. /\ Go(w, "claim", "take") /\ phase = "idle" /\ phase' = "waiting" /\ receiver' = w
        /\ UNCHANGED <<signal, state, thread, newborn, failed>>
    BY <1>7 DEF Claim, RecvClaim, Channel!Arm, lifeVars
  <2>2. pc[w] = "claim" /\ DOMAIN pc' = Threads /\ pc'[w] = "take" /\ pc'[Owner] = pc[Owner]
        /\ OthersGone(w)' /\ Others'
    BY <1>0, <2>1, WorkerMoves
  <2>3. Grown(w) \/ Killed(w)
    BY <1>0, <2>1, <2>2 DEF Alive, Young, Greeted, Leaving
  <2>4. Grown(w)' \/ Killed(w)'
    BY <2>1, <2>2, <2>3 DEF Grown, Killed, Settled, Serving
  <2> QED BY <1>0, <2>1, <2>2, <2>4 DEF Life, Alive
<1>8. CASE TakeSignal(w)
  <2>1. /\ pc[w] = "take" /\ phase = "signalled" /\ receiver = w /\ phase' = "idle"
        /\ receiver' = NoThread /\ UNCHANGED <<state, thread, newborn>>
    BY <1>8 DEF TakeSignal, Channel!Take, Go, Fail, At
  <2>2. (Grown(w) /\ signal = "active" /\ state = "PROC") \/ (Leaving(w) /\ signal = "go_exit")
    BY <1>0, <2>1 DEF Alive, Young, Greeted, Grown, Killed, Leaving, Settled, Serving
  <2>3. /\ Go(w, "take", IF signal = "active" THEN "dequeue" ELSE "bye")
        /\ failed' = failed
    BY <1>8, <2>2 DEF TakeSignal
  <2>4. DOMAIN pc' = Threads /\ pc'[w] = (IF signal = "active" THEN "dequeue" ELSE "bye")
        /\ pc'[Owner] = pc[Owner] /\ OthersGone(w)' /\ Others'
    BY <1>0, <2>3, WorkerMoves
  <2>5. Grown(w)' \/ Leaving(w)'
    BY <2>1, <2>2, <2>4 DEF Grown, Leaving, Settled, Serving
  <2> QED BY <1>0, <2>3, <2>4, <2>5 DEF Life, Alive
<1>9. CASE DequeueJob(w) \/ MoveJob(w) \/ RunJob(w) \/ CountJob(w)
  <2>1. PICK a \in {"dequeue", "move", "run", "count"},
             b \in {"dequeue", "move", "run", "count", "rest"} : Go(w, a, b)
    <3>1. CASE DequeueJob(w)
      BY <3>1 DEF DequeueJob, Go, At
    <3>2. CASE MoveJob(w)
      BY <3>2 DEF MoveJob
    <3>3. CASE RunJob(w)
      BY <3>3 DEF RunJob
    <3>4. CASE CountJob(w)
      BY <3>4 DEF CountJob
    <3> QED BY <1>9, <3>1, <3>2, <3>3, <3>4
  <2>2. UNCHANGED <<phase, receiver, signal, state, thread, newborn, failed>>
    BY <1>9 DEF DequeueJob, MoveJob, RunJob, CountJob, lifeVars, channelVars
  <2>3. pc[w] = a /\ DOMAIN pc' = Threads /\ pc'[w] = b /\ pc'[Owner] = pc[Owner]
        /\ OthersGone(w)' /\ Others'
    BY <1>0, <2>1, WorkerMoves
  <2>4. Grown(w)
    BY <1>0, <2>1, <2>3 DEF Alive, Young, Greeted, Killed, Leaving, Settled
  <2>5. Grown(w)'
    BY <2>1, <2>2, <2>3, <2>4 DEF Grown, Settled, Serving
  <2> QED BY <1>0, <2>2, <2>3, <2>5 DEF Life, Alive
<1>10. CASE Rest(w)
  <2>1. pc[w] = "rest" /\ UNCHANGED <<channelVars, thread, newborn>>
    BY <1>10 DEF Rest, Go, Fail, At
  <2>2. Grown(w) /\ state = "PROC" /\ phase = "idle"
    BY <1>0, <2>1 DEF Alive, Young, Greeted, Grown, Killed, Leaving, Settled, Serving
  <2>3. Go(w, "rest", "check") /\ state' = "IDLE" /\ failed' = failed
    BY <1>10, <2>2 DEF Rest
  <2>4. DOMAIN pc' = Threads /\ pc'[w] = "check" /\ pc'[Owner] = pc[Owner]
        /\ OthersGone(w)' /\ Others'
    BY <1>0, <2>3, WorkerMoves
  <2>5. Grown(w)'
    BY <2>1, <2>2, <2>3, <2>4 DEF Grown, Settled, Serving, channelVars
  <2> QED BY <1>0, <2>3, <2>4, <2>5 DEF Life, Alive
<1>11. CASE Bye(w)
  <2>1. /\ Go(w, "bye", "die") /\ phase = "waiting" /\ phase' = "signalled" /\ signal' = "exit_ok"
        /\ UNCHANGED <<receiver, state, thread, newborn, failed>>
    BY <1>11 DEF Bye, TrySend, Channel!Send, lifeVars
  <2>2. pc[w] = "bye" /\ DOMAIN pc' = Threads /\ pc'[w] = "die" /\ pc'[Owner] = pc[Owner]
        /\ OthersGone(w)' /\ Others'
    BY <1>0, <2>1, WorkerMoves
  <2>3. Leaving(w)
    BY <1>0, <2>2 DEF Alive, Young, Greeted, Grown, Killed, Settled, Serving
  <2>4. Leaving(w)'
    BY <2>1, <2>2, <2>3 DEF Leaving, Told
  <2> QED BY <1>0, <2>1, <2>2, <2>4 DEF Life, Alive
<1>12. CASE Die(w)
  <2>1. Go(w, "die", "ended") /\ state' = "DEAD" /\ UNCHANGED <<channelVars, thread, newborn, failed>>
    BY <1>12 DEF Die, Store
  <2>2. pc[w] = "die" /\ DOMAIN pc' = Threads /\ pc'[w] = "ended" /\ pc'[Owner] = pc[Owner]
        /\ OthersGone(w)' /\ Others'
    BY <1>0, <2>1, WorkerMoves
  <2>3. Leaving(w)
    BY <1>0, <2>2 DEF Alive, Young, Greeted, Grown, Killed, Settled, Serving
  <2>4. AllGone' /\ Dead' /\ thread' = NoThread
    BY <2>1, <2>2, <2>3 DEF Leaving, Dead, Free, Told, AllGone, OthersGone, Gone, channelVars
  <2> QED BY <1>0, <2>1, <2>2, <2>4 DEF Life
<1> QED BY <1>1, <1>2, <1>3, <1>4, <1>5, <1>6, <1>7, <1>8, <1>9, <1>10, <1>11, <1>12 DEF Work, Epoch

-----------------------------------------------------------------------------
(* The steps of a client.  The two that touch _state and the channel are   *)
(* those of the one client that wakes the worker.                          *)
LEMMA RequestLife ==
  ASSUME Life, NEW c \in Clients, Request(c) \/ WaitForExit(c),
         pc[c] = "req_signal" => state = "PROC"
  PROVE  Life'
<1>1. CASE RequestWorkable(c) \/ RequestState(c) \/ RequestEnqueue(c) \/ RequestFull(c)
           \/ RequestWrite(c) \/ RequestCount(c) \/ WaitForExit(c)
  <2>1. PICK a \in FreePlaces \ {"kill_swap"}, b \in FreePlaces \ {"kill_swap"} : Go(c, a, b)
    BY <1>1 DEF RequestWorkable, RequestState, RequestEnqueue, RequestFull, RequestWrite,
                RequestCount, WaitForExit, FreePlaces
  <2>2. UNCHANGED <<channelVars, state, thread, newborn, failed>>
    BY <1>1 DEF RequestWorkable, RequestState, RequestEnqueue, RequestFull, RequestWrite,
                RequestCount, WaitForExit, lifeVars
  <2> QED BY <2>1, <2>2, ClientMoves
<1>2. CASE RequestActivate(c) \/ RequestSignal(c)
  <2>1. PICK a \in {"req_activate", "req_signal"}, b \in {"req_signal", "idle"} : Go(c, a, b)
    BY <1>2 DEF RequestActivate, RequestSignal, TrySend
  <2>2. /\ DOMAIN pc' = Threads /\ pc[c] = a /\ pc'[c] = b /\ failed = "no"
        /\ \A u \in Threads : u # c => pc'[u] = pc[u]
    BY <2>1, Sides, Going DEF Life
  <2>3. \A w \in Workers : pc'[w] = pc[w]
    BY <2>2, Sides
  <2>4. Others'
    BY <2>2, Sides DEF Life, Others, OtherPlaces
  <2>5. pc'[Owner] = pc[Owner] \/ (pc[Owner] = a /\ pc'[Owner] = b)
    BY <2>2, Sides
  <2>6. state \in {"IDLE", "PROC"}
    BY <1>2, <2>2 DEF RequestActivate, Swap, RequestSignal, TrySend, Go, At
  <2>7. PICK w \in Workers : OthersGone(w) /\ Alive(w)
    BY <2>6 DEF Life, Unborn, Dead
  <2>8. OthersGone(w)'
    BY <2>3, <2>7 DEF OthersGone, Gone
  <2>9. Greeted(w) \/ Grown(w)
    BY <2>6, <2>7 DEF Alive, Young, Killed, Leaving
  <2>10. CASE RequestActivate(c)
    <3>1. state' = "PROC" /\ UNCHANGED <<phase, receiver, signal, thread, newborn, failed>>
      BY <2>10 DEF RequestActivate, Swap, channelVars
    <3>2. Greeted(w)' \/ Grown(w)'
      BY <2>3, <2>5, <2>6, <2>9, <2>10, <3>1
         DEF Greeted, Grown, Settled, Serving, FreePlaces, RequestActivate, Swap
    <3> QED BY <2>2, <2>4, <2>8, <3>1, <3>2 DEF Life, Alive
  <2>11. CASE RequestSignal(c)
    <3>1. /\ phase = "waiting" /\ phase' = "signalled" /\ signal' = "active" /\ pc[c] = "req_signal"
          /\ UNCHANGED <<receiver, state, thread, newborn, failed>>
      BY <2>11 DEF RequestSignal, TrySend, Channel!Send, lifeVars, Go, At
    <3>2. Grown(w)'
      BY <2>3, <2>5, <2>9, <3>1 DEF Greeted, Grown, Settled, Serving, FreePlaces
    <3> QED BY <2>2, <2>4, <2>8, <3>1, <3>2 DEF Life, Alive
  <2> QED BY <1>2, <2>10, <2>11
<1> QED BY <1>1, <1>2 DEF Request

(* The steps of kill.                                                      *)
LEMMA KillLife ==
  ASSUME Life, Kill(Owner)
  PROVE  Life'
<1>1. CASE KillFlag(Owner)
  <2>1. Go(Owner, "idle", "kill_swap") /\ UNCHANGED <<channelVars, state, thread, newborn, failed>>
    BY <1>1 DEF KillFlag
  <2> QED BY <2>1, Sides, ClientMoves DEF FreePlaces
<1>2. CASE KillSwap(Owner)
  <2>1. /\ Go(Owner, "kill_swap", "kill_detach") /\ state = "IDLE" /\ state' = "DEAD"
        /\ UNCHANGED <<phase, receiver, signal, thread, newborn, failed>>
    BY <1>2 DEF KillSwap, Swap, channelVars
  <2>2. /\ DOMAIN pc' = Threads /\ pc[Owner] = "kill_swap" /\ pc'[Owner] = "kill_detach"
        /\ \A w \in Workers : pc'[w] = pc[w] /\ (OthersGone(w) => OthersGone(w)')
        /\ Others' /\ failed = "no"
    BY <2>1, OwnerMoves
  <2>3. PICK w \in Workers : OthersGone(w) /\ Alive(w)
    BY <2>1 DEF Life, Unborn, Dead
  <2>4. Grown(w)
    BY <2>1, <2>2, <2>3 DEF Alive, Young, Greeted, Killed, Leaving
  <2>5. Killed(w)'
    BY <2>1, <2>2, <2>4 DEF Grown, Killed, Settled, Serving
  <2> QED BY <2>1, <2>2, <2>3, <2>5 DEF Life, Alive
<1>3. CASE KillDetach(Owner)
  <2>1. pc[Owner] = "kill_detach" /\ thread' = NoThread /\ UNCHANGED <<phase, receiver, signal, state, newborn>>
    BY <1>3 DEF KillDetach, Go, Fail, At, channelVars
  <2>2. PICK w \in Workers : OthersGone(w) /\ Alive(w)
    BY <2>1 DEF Life, Unborn, Dead, Free, Told, FreePlaces
  <2>3. Killed(w) /\ thread = w
    BY <2>1, <2>2 DEF Alive, Young, Greeted, Grown, Killed, Leaving, Free, Told, FreePlaces
  <2>4. Go(Owner, "kill_detach", "kill_send") /\ failed' = failed
    BY <1>3, <2>3, Sides DEF KillDetach
  <2>5. /\ DOMAIN pc' = Threads /\ pc'[Owner] = "kill_send" /\ pc'[w] = pc[w]
        /\ OthersGone(w)' /\ Others' /\ failed = "no"
    BY <2>2, <2>4, OwnerMoves
  <2>6. Killed(w)'
    BY <2>1, <2>3, <2>5 DEF Killed
  <2> QED BY <2>4, <2>5, <2>6 DEF Life, Alive
<1>4. CASE KillSend(Owner)
  <2>1. /\ Go(Owner, "kill_send", "kill_check") /\ phase = "waiting" /\ phase' = "signalled"
        /\ signal' = "go_exit" /\ UNCHANGED <<receiver, state, thread, newborn, failed>>
    BY <1>4 DEF KillSend, TrySend, Channel!Send, lifeVars
  <2>2. /\ DOMAIN pc' = Threads /\ pc[Owner] = "kill_send" /\ pc'[Owner] = "kill_check"
        /\ \A w \in Workers : pc'[w] = pc[w] /\ (OthersGone(w) => OthersGone(w)')
        /\ Others' /\ failed = "no"
    BY <2>1, OwnerMoves
  <2>3. PICK w \in Workers : OthersGone(w) /\ Alive(w)
    BY <2>1 DEF Life, Unborn, Dead, Free, Told
  <2>4. Killed(w)
    BY <2>2, <2>3 DEF Alive, Young, Greeted, Grown, Leaving, Free, Told, FreePlaces
  <2>5. Leaving(w)'
    BY <2>1, <2>2, <2>4 DEF Killed, Leaving
  <2> QED BY <2>1, <2>2, <2>3, <2>5 DEF Life, Alive
<1>5. CASE KillCheck(Owner)
  <2>1. pc[Owner] = "kill_check" /\ UNCHANGED <<phase, receiver, signal, state, thread, newborn>>
    BY <1>5 DEF KillCheck, RecvCheck, Go, Fail, At, channelVars
  <2>2. PICK w \in Workers : OthersGone(w) /\ Alive(w)
    BY <2>1 DEF Life, Unborn, Dead, Free, Told, FreePlaces
  <2>3. Leaving(w) /\ phase # "waiting"
    BY <2>1, <2>2 DEF Alive, Young, Greeted, Grown, Killed, Leaving, Free, Told, FreePlaces
  <2>4. Go(Owner, "kill_check", "kill_claim") /\ failed' = failed
    BY <1>5, <2>3 DEF KillCheck, RecvCheck
  <2>5. /\ DOMAIN pc' = Threads /\ pc'[Owner] = "kill_claim" /\ pc'[w] = pc[w]
        /\ OthersGone(w)' /\ Others' /\ failed = "no"
    BY <2>2, <2>4, OwnerMoves
  <2>6. Leaving(w)'
    BY <2>1, <2>3, <2>5 DEF Leaving, Free, Told, FreePlaces
  <2> QED BY <2>4, <2>5, <2>6 DEF Life, Alive
<1>6. CASE KillClaim(Owner)
  <2>1. /\ Go(Owner, "kill_claim", "kill_take") /\ phase = "idle" /\ phase' = "waiting"
        /\ receiver' = Owner /\ UNCHANGED <<signal, state, thread, newborn, failed>>
    BY <1>6 DEF KillClaim, RecvClaim, Channel!Arm, lifeVars
  <2>2. /\ DOMAIN pc' = Threads /\ pc[Owner] = "kill_claim" /\ pc'[Owner] = "kill_take"
        /\ \A w \in Workers : pc'[w] = pc[w] /\ (OthersGone(w) => OthersGone(w)')
        /\ Others' /\ failed = "no"
    BY <2>1, OwnerMoves
  <2>3. PICK w \in Workers : OthersGone(w) /\ Alive(w)
    BY <2>2 DEF Life, Unborn, Dead, Free, Told, FreePlaces
  <2>4. Leaving(w)
    BY <2>2, <2>3 DEF Alive, Young, Greeted, Grown, Killed, FreePlaces
  <2>5. Leaving(w)'
    BY <2>1, <2>2, <2>4 DEF Leaving, Free, Told, FreePlaces
  <2> QED BY <2>1, <2>2, <2>3, <2>5 DEF Life, Alive
<1>7. CASE KillTake(Owner)
  <2>1. /\ pc[Owner] = "kill_take" /\ phase = "signalled" /\ phase' = "idle"
        /\ UNCHANGED <<state, thread, newborn, failed>>
        /\ Go(Owner, "kill_take", IF signal = "exit_ok" THEN "idle" ELSE "kill_check")
    BY <1>7 DEF KillTake, Channel!Take, Go, At, lifeVars
  <2>2. Told /\ state = "DEAD" /\ thread = NoThread
    BY <2>1 DEF Life, Unborn, Dead, Free, Told, FreePlaces,
                Alive, Young, Greeted, Grown, Killed, Leaving
  <2>3. Go(Owner, "kill_take", "idle")
    BY <2>1, <2>2 DEF Told
  <2>4. /\ DOMAIN pc' = Threads /\ pc'[Owner] = "idle" /\ (AllGone => AllGone')
        /\ \A w \in Workers : pc'[w] = pc[w] /\ (OthersGone(w) => OthersGone(w)')
        /\ Others' /\ failed = "no"
    BY <2>3, OwnerMoves
  <2>5. Free'
    BY <2>1, <2>4 DEF Free, FreePlaces
  <2>6. CASE AllGone
    BY <2>1, <2>2, <2>4, <2>5, <2>6 DEF Life, Dead
  <2>7. ASSUME NEW w \in Workers, OthersGone(w), Alive(w) PROVE Life'
    <3>1. pc[w] = "die"
      BY <2>1, <2>2, <2>7
         DEF Told, Alive, Young, Greeted, Grown, Killed, Leaving, FreePlaces
    <3>2. Leaving(w)'
      BY <2>1, <2>2, <2>4, <2>5, <3>1 DEF Leaving
    <3> QED BY <2>1, <2>4, <2>7, <3>2 DEF Life, Alive
  <2> QED BY <2>6, <2>7 DEF Life
<1> QED BY <1>1, <1>2, <1>3, <1>4, <1>5, <1>6, <1>7 DEF Kill

(* The steps of respawn and _spawn.                                        *)
LEMMA SpawnLife ==
  ASSUME RespawnWaits, Life, Spawn(Owner)
  PROVE  Life'
<1>1. CASE Respawn(Owner)
  <2>1. /\ Go(Owner, "idle", "spawn_thread") /\ state = "DEAD" /\ state' = "SPAWN"
        /\ AllGone /\ UNCHANGED <<phase, receiver, signal, thread, newborn, failed>>
    BY <1>1 DEF Respawn, Swap, channelVars, AllGone, Gone
  <2>2. /\ DOMAIN pc' = Threads /\ pc[Owner] = "idle" /\ pc'[Owner] = "spawn_thread"
        /\ AllGone' /\ Others' /\ failed = "no"
    BY <2>1, OwnerMoves
  <2>3. thread = NoThread /\ phase = "idle"
    <3>1. \A w \in Workers : ~Alive(w)
      BY <2>1 DEF AllGone, Gone, Alive, Young, Greeted, Grown, Killed, Leaving, Settled, Serving
    <3> QED BY <2>1, <2>2, <3>1 DEF Life, Unborn, Dead, Free, Told
  <2> QED BY <2>1, <2>2, <2>3 DEF Life, Unborn
<1>2. CASE SpawnThread(Owner)
  <2>1. PICK w \in Workers :
          /\ pc[w] \in {"unborn", "ended"} /\ newborn' = w
          /\ pc' = [pc EXCEPT ![Owner] = "spawn_check", ![w] = "start"]
    BY <1>2 DEF SpawnThread
  <2>2. /\ pc[Owner] = "spawn_thread" /\ failed = "no"
        /\ UNCHANGED <<phase, receiver, signal, state, thread, failed>>
    BY <1>2 DEF SpawnThread, At, channelVars
  <2>3. AllGone /\ thread = NoThread /\ Unborn
    BY <2>2 DEF Life, Dead, Free, Told, Alive, Young, Greeted, Grown, Killed, Leaving, FreePlaces
  <2>4. /\ DOMAIN pc' = Threads /\ pc'[Owner] = "spawn_check" /\ pc'[w] = "start"
        /\ \A u \in Threads : u # Owner /\ u # w => pc'[u] = pc[u]
    BY <2>1, Sides DEF Life
  <2>5. OthersGone(w)'
    BY <2>3, <2>4, Sides DEF AllGone, OthersGone, Gone
  <2>6. Others'
    BY <2>4, Sides DEF Life, Others
  <2>7. Young(w)'
    BY <2>1, <2>2, <2>3, <2>4 DEF Young, Unborn
  <2> QED BY <2>2, <2>4, <2>5, <2>6, <2>7 DEF Life, Alive
<1>3. CASE SpawnCheck(Owner)
  <2>1. pc[Owner] = "spawn_check" /\ UNCHANGED <<phase, receiver, signal, state, thread, newborn>>
    BY <1>3 DEF SpawnCheck, RecvCheck, Go, Fail, At, channelVars
  <2>2. PICK w \in Workers : OthersGone(w) /\ Alive(w)
    BY <2>1 DEF Life, Unborn, Dead, Free, Told, FreePlaces
  <2>3. Young(w) /\ phase = "idle"
    BY <2>1, <2>2 DEF Alive, Young, Greeted, Grown, Killed, Leaving, Free, Told, FreePlaces
  <2>4. Go(Owner, "spawn_check", "spawn_claim") /\ failed' = failed
    BY <1>3, <2>3 DEF SpawnCheck, RecvCheck
  <2>5. /\ DOMAIN pc' = Threads /\ pc'[Owner] = "spawn_claim" /\ pc'[w] = pc[w]
        /\ OthersGone(w)' /\ Others' /\ failed = "no"
    BY <2>2, <2>4, OwnerMoves
  <2>6. Young(w)'
    BY <2>1, <2>3, <2>5 DEF Young
  <2> QED BY <2>4, <2>5, <2>6 DEF Life, Alive
<1>4. CASE SpawnClaim(Owner)
  <2>1. /\ Go(Owner, "spawn_claim", "spawn_take") /\ phase = "idle" /\ phase' = "waiting"
        /\ receiver' = Owner /\ UNCHANGED <<signal, state, thread, newborn, failed>>
    BY <1>4 DEF SpawnClaim, RecvClaim, Channel!Arm, lifeVars
  <2>2. /\ DOMAIN pc' = Threads /\ pc[Owner] = "spawn_claim" /\ pc'[Owner] = "spawn_take"
        /\ \A w \in Workers : pc'[w] = pc[w] /\ (OthersGone(w) => OthersGone(w)')
        /\ Others' /\ failed = "no"
    BY <2>1, OwnerMoves
  <2>3. PICK w \in Workers : OthersGone(w) /\ Alive(w)
    BY <2>2 DEF Life, Unborn, Dead, Free, Told, FreePlaces
  <2>4. Young(w)
    BY <2>2, <2>3 DEF Alive, Greeted, Grown, Killed, Leaving, Free, Told, FreePlaces
  <2>5. Young(w)'
    BY <2>1, <2>2, <2>4 DEF Young
  <2> QED BY <2>1, <2>2, <2>3, <2>5 DEF Life, Alive
<1>5. CASE SpawnTake(Owner)
  <2>1. /\ pc[Owner] = "spawn_take" /\ phase = "signalled" /\ phase' = "idle"
        /\ UNCHANGED <<state, thread, newborn>>
    BY <1>5 DEF SpawnTake, Channel!Take, Go, Fail, At
  <2>2. PICK w \in Workers : OthersGone(w) /\ Alive(w)
    BY <2>1 DEF Life, Unborn, Dead, Free, Told, FreePlaces
  <2>3. Greeted(w)
    BY <2>1, <2>2 DEF Alive, Young, Grown, Killed, Leaving, Free, Told, FreePlaces
  <2>4. Go(Owner, "spawn_take", "spawn_swap") /\ failed' = failed
    BY <1>5, <2>3 DEF SpawnTake, Greeted
  <2>5. /\ DOMAIN pc' = Threads /\ pc'[Owner] = "spawn_swap" /\ pc'[w] = pc[w]
        /\ OthersGone(w)' /\ Others' /\ failed = "no"
    BY <2>2, <2>4, OwnerMoves
  <2>6. Grown(w)'
    BY <2>1, <2>3, <2>5 DEF Greeted, Grown, Settled, Serving
  <2> QED BY <2>4, <2>5, <2>6 DEF Life, Alive
<1>6. CASE SpawnSwap(Owner)
  <2>1. /\ pc[Owner] = "spawn_swap" /\ thread' = newborn /\ failed' = IF thread = NoThread THEN "no" ELSE "joinable"
        /\ pc' = [t \in Threads |-> IF t = Owner \/ pc[t] = "outside" THEN "idle" ELSE pc[t]]
        /\ UNCHANGED <<phase, receiver, signal, state>>
    BY <1>6 DEF SpawnSwap, At, channelVars
  <2>2. PICK w \in Workers : OthersGone(w) /\ Alive(w)
    BY <2>1 DEF Life, Unborn, Dead, Free, Told, FreePlaces
  <2>3. Grown(w) /\ newborn = w /\ thread = NoThread
    BY <2>1, <2>2 DEF Alive, Young, Greeted, Grown, Killed, Leaving, Free, Told, FreePlaces
  <2>4. pc[w] # "outside" /\ \A v \in Workers : v # w => pc[v] # "outside"
    BY <2>2, <2>3 DEF Grown, Serving, Settled, OthersGone, Gone
  <2>5. /\ DOMAIN pc' = Threads /\ pc'[Owner] = "idle" /\ \A v \in Workers : pc'[v] = pc[v]
    BY <2>1, <2>4, Sides
  <2>6. OthersGone(w)'
    BY <2>2, <2>5 DEF OthersGone, Gone
  <2>7. Others'
    BY <2>1, Sides DEF Life, Others, OtherPlaces
  <2>8. Grown(w)'
    BY <2>1, <2>3, <2>5 DEF Grown, Settled, Serving, FreePlaces
  <2> QED BY <2>1, <2>3, <2>5, <2>6, <2>7, <2>8 DEF Life, Alive
<1> QED BY <1>1, <1>2, <1>3, <1>4, <1>5, <1>6 DEF Spawn

(* Each step keeps the four threads of the story together.                 *)
LEMMA LifeStep ==
  ASSUME RespawnWaits, ActorInv, [Next]_vars,
         \A w \in Workers : pc[w] = "dequeue" => ~is_empty
  PROVE  Life'
<1>1. ASSUME NEW c \in Clients, Request(c) \/ WaitForExit(c) PROVE Life'
  BY <1>1, RequestLife DEF ActorInv, Token
<1>2. ASSUME NEW w \in Workers, Work(w) PROVE Life'
  BY <1>2, WorkerLife DEF ActorInv, Token
<1>3. CASE UNCHANGED vars
  <2>1. UNCHANGED <<pc, phase, receiver, signal, state, thread, newborn, failed>>
    BY <1>3 DEF vars, channelVars, lifeVars
  <2> QED
    BY <2>1 DEF ActorInv, Life, AllGone, OthersGone, Gone, Others, Unborn, Dead, Free, Told,
         Alive, Young, Greeted, Grown, Killed, Leaving, Settled, Serving
<1> QED BY <1>1, <1>2, <1>3, KillLife, SpawnLife DEF Next, ActorInv

-----------------------------------------------------------------------------
\* The places that the token passes.
TokenPlaces == {"req_activate", "req_signal", "dequeue", "move", "run", "count", "rest"}

(* A step that moves no thread to or from those places keeps the token.    *)
LEMMA QuietStep ==
  ASSUME ActorInv, \A u \in Threads : \A x \in TokenPlaces : pc'[u] = x <=> pc[u] = x,
         counter' = counter, Called' <=> Called, state' = state \/ state # "PROC"
  PROVE  Token'
<1>1. Activators' = Activators /\ Busy' = Busy
  BY Sides DEF Activators, Busy, TokenPlaces
<1>2. \A c \in Clients : pc'[c] = "req_signal" => pc[c] = "req_signal" /\ state' = "PROC"
  BY Sides DEF ActorInv, Token, TokenPlaces
<1>3. \A w \in Workers : pc'[w] = "rest" <=> pc[w] = "rest"
  BY Sides DEF TokenPlaces
<1> QED BY <1>1, <1>2, <1>3 DEF ActorInv, Token

LEMMA QuietMove ==
  ASSUME ActorInv, NEW t \in Threads, NEW a, NEW b, Go(t, a, b),
         a \notin TokenPlaces, b \notin TokenPlaces,
         counter' = counter, Called' <=> Called, state' = state \/ state # "PROC"
  PROVE  Token'
<1>1. \A u \in Threads : \A x \in TokenPlaces : pc'[u] = x <=> pc[u] = x
  BY Going DEF ActorInv, Life
<1> QED BY <1>1, QuietStep

(* There is one worker at most, and while it is busy it is not called.     *)
LEMMA BusyWorker ==
  ASSUME Life, NEW w \in Workers, pc[w] \in {"dequeue", "move", "run", "count", "rest"}
  PROVE  /\ OthersGone(w) /\ phase = "idle" /\ state = "PROC"
         /\ Busy = IF pc[w] = "rest" THEN {} ELSE {w}
<1>1. OthersGone(w) /\ Alive(w)
  BY TheWorker DEF Gone
<1>2. phase = "idle" /\ state = "PROC"
  BY <1>1 DEF Alive, Young, Greeted, Grown, Killed, Leaving, Settled, Serving
<1>3. Busy = IF pc[w] = "rest" THEN {} ELSE {w}
  BY <1>1 DEF Busy, OthersGone, Gone
<1> QED BY <1>1, <1>2, <1>3

LEMMA RequestToken ==
  ASSUME ActorInv, NEW c \in Clients, Request(c) \/ WaitForExit(c)
  PROVE  Token'
<1>1. CASE RequestWorkable(c) \/ RequestState(c) \/ RequestEnqueue(c) \/ RequestFull(c)
           \/ RequestWrite(c) \/ WaitForExit(c)
  <2>1. PICK a \in FreePlaces \ TokenPlaces, b \in FreePlaces \ TokenPlaces : Go(c, a, b)
    BY <1>1 DEF RequestWorkable, RequestState, RequestEnqueue, RequestFull, RequestWrite,
                WaitForExit, FreePlaces, TokenPlaces
  <2>2. UNCHANGED <<phase, signal, state, counter>>
    BY <1>1 DEF RequestWorkable, RequestState, RequestEnqueue, RequestFull, RequestWrite,
                WaitForExit, channelVars, lifeVars
  <2> QED BY <2>1, <2>2, Sides, QuietMove DEF Called
<1> DEFINE Moves(a, b) == /\ pc[c] = a /\ pc'[c] = b
                          /\ \A u \in Threads : u # c => pc'[u] = pc[u]
<1>2. CASE RequestCount(c)
  <2>1. /\ counter' = counter + 1 /\ UNCHANGED <<phase, signal, state>>
        /\ Go(c, "req_count", IF counter = 0 THEN "req_activate" ELSE "idle")
    BY <1>2 DEF RequestCount, channelVars, lifeVars
  <2>2. Moves("req_count", IF counter = 0 THEN "req_activate" ELSE "idle")
    BY <2>1, Sides, Going DEF ActorInv, Life
  <2>3. counter \in Nat /\ counter' \in Nat /\ counter' # 0
    BY <2>1, SMT DEF ActorInv, Token
  <2>4. Busy' = Busy /\ Called' = Called
    BY <2>1, <2>2, Sides DEF Busy, Called
  <2>5. Activators' = IF counter = 0 THEN {c} ELSE Activators
    <3>1. CASE counter = 0
      <4>1. Activators = {}
        BY <3>1 DEF ActorInv, Token
      <4> QED BY <2>2, <3>1, <4>1, Sides DEF Activators
    <3>2. CASE counter # 0
      BY <2>2, <3>2, Sides DEF Activators
    <3> QED BY <3>1, <3>2
  <2>6. counter = 0 => ~Called /\ Busy = {}
    BY DEF ActorInv, Token
  <2>7. \A d \in Clients : pc'[d] = "req_signal" => pc[d] = "req_signal"
    BY <2>2, Sides
  <2>8. \A w \in Workers : pc'[w] = pc[w]
    BY <2>2, Sides
  <2> QED BY <2>1, <2>3, <2>4, <2>5, <2>6, <2>7, <2>8 DEF ActorInv, Token
<1>3. CASE RequestActivate(c)
  <2>1. /\ state = "IDLE" /\ state' = "PROC" /\ UNCHANGED <<phase, signal, counter>>
        /\ Go(c, "req_activate", "req_signal")
    BY <1>3 DEF RequestActivate, Swap, channelVars
  <2>2. Moves("req_activate", "req_signal")
    BY <2>1, Sides, Going DEF ActorInv, Life
  <2>3. Busy' = Busy /\ Called' = Called /\ Activators' = Activators
    BY <2>1, <2>2, Sides DEF Busy, Called, Activators
  <2>4. \A w \in Workers : pc'[w] # "rest"
    BY <2>1, <2>2, Sides, BusyWorker DEF ActorInv
  <2> QED BY <2>1, <2>3, <2>4 DEF ActorInv, Token
<1>4. CASE RequestSignal(c)
  <2>1. /\ phase' = "signalled" /\ signal' = "active" /\ UNCHANGED <<state, counter>>
        /\ Go(c, "req_signal", "idle")
    BY <1>4 DEF RequestSignal, TrySend, Channel!Send, lifeVars
  <2>2. Moves("req_signal", "idle")
    BY <2>1, Sides, Going DEF ActorInv, Life
  <2>3. c \in Activators
    BY <2>2 DEF Activators
  <2>4. counter # 0 /\ Busy = {} /\ Activators = {c}
    BY <2>3 DEF ActorInv, Token
  <2>5. Busy' = Busy
    BY <2>2, Sides DEF Busy
  <2>6. Activators' = {}
    BY <2>2, <2>4, Sides DEF Activators
  <2>7. \A d \in Clients : pc'[d] # "req_signal"
    BY <2>6 DEF Activators
  <2>8. Called'
    BY <2>1 DEF Called
  <2> QED BY <2>1, <2>4, <2>5, <2>6, <2>7, <2>8 DEF ActorInv, Token
<1> QED BY <1>1, <1>2, <1>3, <1>4 DEF Request

(* What the owner receives is an answer of the worker.                     *)
LEMMA OwnerIsAnswered ==
  ASSUME Life, pc[Owner] \in {"kill_take", "spawn_take"}, phase = "signalled", receiver = Owner
  PROVE  signal \in {"exit_ok", "spawn"}
BY Sides
   DEF Life, Unborn, Dead, Free, Told, FreePlaces, Alive, Young, Greeted, Grown, Killed, Leaving,
       Settled, Serving

LEMMA OwnerToken ==
  ASSUME ActorInv, Kill(Owner) \/ Spawn(Owner)
  PROVE  Token'
<1>1. CASE SpawnThread(Owner)
  <2>1. PICK w \in Workers :
          /\ pc[w] \in {"unborn", "ended"}
          /\ pc' = [pc EXCEPT ![Owner] = "spawn_check", ![w] = "start"]
    BY <1>1 DEF SpawnThread
  <2>2. pc[Owner] = "spawn_thread" /\ UNCHANGED <<phase, signal, state, counter>>
    BY <1>1 DEF SpawnThread, At, channelVars
  <2>3. \A u \in Threads : \A x \in TokenPlaces : pc'[u] = x <=> pc[u] = x
    BY <2>1, <2>2, Sides DEF ActorInv, Life, TokenPlaces
  <2> QED BY <2>2, <2>3, QuietStep DEF Called
<1>2. CASE SpawnSwap(Owner)
  <2>1. /\ pc[Owner] = "spawn_swap" /\ UNCHANGED <<phase, signal, state, counter>>
        /\ pc' = [t \in Threads |-> IF t = Owner \/ pc[t] = "outside" THEN "idle" ELSE pc[t]]
    BY <1>2 DEF SpawnSwap, At, channelVars
  <2>2. \A u \in Threads : \A x \in TokenPlaces : pc'[u] = x <=> pc[u] = x
    BY <2>1 DEF TokenPlaces
  <2> QED BY <2>1, <2>2, QuietStep DEF Called
<1>3. CASE KillFlag(Owner)
  BY <1>3, Sides, QuietMove DEF KillFlag, Called, channelVars, TokenPlaces
<1>4. CASE KillSwap(Owner)
  BY <1>4, Sides, QuietMove DEF KillSwap, Swap, Called, channelVars, TokenPlaces
<1>5. CASE Respawn(Owner)
  BY <1>5, Sides, QuietMove DEF Respawn, Swap, Called, channelVars, TokenPlaces
<1>6. CASE KillSend(Owner)
  BY <1>6, Sides, QuietMove DEF KillSend, TrySend, Channel!Send, Called, lifeVars, TokenPlaces
<1>7. CASE KillClaim(Owner) \/ SpawnClaim(Owner)
  BY <1>7, Sides, QuietMove
     DEF KillClaim, SpawnClaim, RecvClaim, Channel!Arm, Called, lifeVars, TokenPlaces
<1>8. CASE KillTake(Owner)
  <2>1. /\ pc[Owner] = "kill_take" /\ phase = "signalled" /\ receiver = Owner /\ phase' = "idle"
        /\ UNCHANGED <<counter, state>>
    BY <1>8 DEF KillTake, Channel!Take, Go, At, lifeVars
  <2>2. ~Called /\ ~Called'
    BY <2>1, OwnerIsAnswered DEF ActorInv, Called
  <2> QED BY <1>8, <2>1, <2>2, Sides, QuietMove DEF KillTake, TokenPlaces
\* those that may fail
<1>9. CASE KillDetach(Owner) \/ KillCheck(Owner) \/ SpawnCheck(Owner) \/ SpawnTake(Owner)
  <2>1. /\ counter' = counter /\ state' = state /\ (Called' <=> Called)
    <3>1. CASE SpawnTake(Owner)
      <4>1. /\ pc[Owner] = "spawn_take" /\ phase = "signalled" /\ receiver = Owner /\ phase' = "idle"
            /\ UNCHANGED <<counter, state>>
        BY <3>1 DEF SpawnTake, Channel!Take, Go, Fail, At
      <4> QED BY <4>1, OwnerIsAnswered DEF ActorInv, Called
    <3>2. CASE KillDetach(Owner) \/ KillCheck(Owner) \/ SpawnCheck(Owner)
      BY <3>2 DEF KillDetach, KillCheck, SpawnCheck, RecvCheck, Called, channelVars
    <3> QED BY <1>9, <3>1, <3>2
  <2>2. \/ UNCHANGED pc
        \/ \E a \in {"kill_detach", "kill_check", "spawn_check", "spawn_take"},
               b \in {"kill_send", "kill_claim", "spawn_claim", "spawn_swap"} : Go(Owner, a, b)
    BY <1>9 DEF KillDetach, KillCheck, SpawnCheck, SpawnTake, RecvCheck, Fail
  <2>3. CASE UNCHANGED pc
    BY <2>1, <2>3, QuietStep
  <2>4. ASSUME NEW a \in {"kill_detach", "kill_check", "spawn_check", "spawn_take"},
               NEW b \in {"kill_send", "kill_claim", "spawn_claim", "spawn_swap"}, Go(Owner, a, b)
        PROVE  Token'
    BY <2>1, <2>4, Sides, QuietMove DEF TokenPlaces
  <2> QED BY <2>2, <2>3, <2>4
<1> QED BY <1>1, <1>2, <1>3, <1>4, <1>5, <1>6, <1>7, <1>8, <1>9 DEF Kill, Spawn

(* The worker that is about to dequeue finds a job.                        *)
LEMMA EpochFindsJob ==
  ASSUME ActorInv, NEW w \in Workers, pc[w] = "dequeue"
  PROVE  ~is_empty
<1>1. OthersGone(w) /\ Busy = {w}
  BY BusyWorker DEF ActorInv
<1>2. counter \in Nat /\ counter # 0
  BY <1>1 DEF ActorInv, Token
<1>3. InEpoch = {}
  BY <1>1 DEF InEpoch, OthersGone, Gone
<1>4. Cardinality(InEpoch) = 0 /\ Cardinality(Uncounted) \in Nat
  BY <1>3, FS_EmptySet, FS_CardinalityType DEF ActorInv, Balance
<1> QED BY <1>2, <1>4, SMT DEF ActorInv, Balance, is_empty

LEMMA WorkerToken ==
  ASSUME ActorInv, NEW w \in Workers, Work(w)
  PROVE  Token'
<1> DEFINE Moves(a, b) == /\ pc[w] = a /\ pc'[w] = b
                          /\ \A u \in Threads : u # w => pc'[u] = pc[u]
<1>1. CASE Load(w) \/ Ready(w) \/ Die(w)
  <2>1. PICK a \in {"load", "ready", "die"}, b \in {"hello", "open", "ended"} : Go(w, a, b)
    BY <1>1 DEF Load, Ready, Die, Store
  <2>2. UNCHANGED <<counter, phase, signal>>
    BY <1>1 DEF Load, Ready, Die, Store, channelVars
  <2>3. pc[w] = a
    BY <2>1 DEF Go, At
  <2>4. Alive(w)
    BY <2>3, TheWorker DEF ActorInv, Gone
  <2>5. state # "PROC"
    BY <2>3, <2>4 DEF Alive, Young, Greeted, Grown, Killed, Leaving, Settled, Serving
  <2> QED BY <2>1, <2>2, <2>5, Sides, QuietMove DEF Called, TokenPlaces
<1>2. CASE Open(w)
  BY <1>2, Sides, QuietMove DEF Open, Called, channelVars, TokenPlaces
<1>3. CASE Hello(w) \/ Bye(w)
  BY <1>3, Sides, QuietMove
     DEF Hello, Bye, TrySend, Channel!Send, Called, lifeVars, TokenPlaces
<1>4. CASE Claim(w)
  BY <1>4, Sides, QuietMove DEF Claim, RecvClaim, Channel!Arm, Called, lifeVars, TokenPlaces
<1>5. CASE Start(w) \/ Check(w)
  <2>1. counter' = counter /\ state' = state /\ (Called' <=> Called)
    BY <1>5 DEF Start, Check, RecvCheck, Called, channelVars
  <2>2. UNCHANGED pc \/ Go(w, "start", "load") \/ Go(w, "check", "claim")
    BY <1>5 DEF Start, Check, RecvCheck, Fail
  <2>3. CASE UNCHANGED pc
    BY <2>1, <2>3, QuietStep
  <2> QED BY <2>1, <2>2, <2>3, Sides, QuietMove DEF TokenPlaces
<1>6. CASE TakeSignal(w)
  <2>1. /\ phase = "signalled" /\ phase' = "idle" /\ UNCHANGED <<counter, state>>
    BY <1>6 DEF TakeSignal, Channel!Take
  <2>2. pc[w] = "take"
    BY <1>6 DEF TakeSignal, Go, Fail, At
  <2>3. Alive(w)
    BY <2>2, TheWorker DEF ActorInv, Gone
  <2>4. signal \in {"active", "go_exit"}
    BY <2>1, <2>2, <2>3 DEF Alive, Young, Greeted, Grown, Killed, Leaving, Settled, Serving
  <2>5. CASE signal = "active"
    <3>1. Go(w, "take", "dequeue")
      BY <1>6, <2>5 DEF TakeSignal
    <3>2. Moves("take", "dequeue")
      BY <3>1, Sides, Going DEF ActorInv, Life
    <3>3. counter # 0 /\ Activators = {}
      BY <2>1, <2>5 DEF ActorInv, Token, Called
    <3>4. Activators' = {}
      BY <3>2, <3>3, Sides DEF Activators
    <3>5. \A c \in Clients : pc'[c] # "req_signal"
      BY <3>4 DEF Activators
    <3>6. w \in Busy'
      BY <3>2 DEF Busy
    <3> QED BY <2>1, <3>3, <3>4, <3>5, <3>6 DEF ActorInv, Token, Called
  <2>6. CASE signal = "go_exit"
    <3>1. Go(w, "take", "bye")
      BY <1>6, <2>6 DEF TakeSignal
    <3>2. ~Called /\ ~Called'
      BY <2>1, <2>6 DEF Called
    <3> QED BY <2>1, <3>1, <3>2, Sides, QuietMove DEF TokenPlaces
  <2> QED BY <2>4, <2>5, <2>6
<1>7. CASE Epoch(w)
  <2>1. PICK a \in {"dequeue", "move", "run", "count", "rest"},
             b \in {"dequeue", "move", "run", "count", "rest", "check"} :
          /\ pc[w] = a
          /\ Go(w, a, b) \/ (a = "rest" /\ UNCHANGED pc)
          /\ b = "check" => a = "rest" \/ (a = "dequeue" /\ is_empty)
          /\ b = "rest" => a = "count" /\ counter = 1
          /\ b = "dequeue" => a = "count" /\ counter # 1
          /\ counter' = IF a = "count" THEN counter - 1 ELSE counter
          /\ a # "rest" => state' = state
    <3>1. CASE DequeueJob(w)
      BY <3>1 DEF DequeueJob, Go, At, lifeVars
    <3>2. CASE MoveJob(w)
      BY <3>2 DEF MoveJob, Go, At, lifeVars
    <3>3. CASE RunJob(w)
      BY <3>3 DEF RunJob, Go, At, lifeVars
    <3>4. CASE CountJob(w)
      BY <3>4 DEF CountJob, Go, At, lifeVars
    <3>5. CASE Rest(w)
      BY <3>5 DEF Rest, Go, Fail, At
    <3> QED BY <1>7, <3>1, <3>2, <3>3, <3>4, <3>5 DEF Epoch
  <2>2. OthersGone(w) /\ ~Called /\ Busy = IF a = "rest" THEN {} ELSE {w}
    BY <2>1, BusyWorker DEF ActorInv, Called
  <2>3. ~Called'
    BY <1>7, <2>2 DEF Epoch, DequeueJob, MoveJob, RunJob, CountJob, Rest, Called, channelVars
  <2>4. \A c \in Clients : pc'[c] = pc[c]
    BY <2>1, Sides, Going DEF ActorInv, Life
  <2>5. Activators' = Activators
    BY <2>4 DEF Activators
  <2>6. \A c \in Clients : pc[c] # "req_signal"
    BY <2>1, <2>2 DEF ActorInv, Token, Activators
  <2>7. Busy' \subseteq {w}
    BY <2>1, <2>2, Sides, Going DEF ActorInv, Life, Busy, OthersGone, Gone
  <2>8. a \in {"dequeue", "move", "run", "count"} => counter \in Nat /\ counter # 0 /\ Activators = {}
    BY <2>2 DEF ActorInv, Token
  <2>9. counter' \in Nat /\ (Busy' # {} => counter' # 0)
    <3>1. CASE a \in {"dequeue", "move", "run"}
      BY <2>1, <2>8, <3>1
    <3>2. CASE a = "count"
      <4>1. counter' = counter - 1 /\ counter \in Nat /\ counter # 0
        BY <2>1, <2>8, <3>2
      <4>2. counter = 1 => Busy' = {}
        <5>1. ASSUME counter = 1 PROVE pc'[w] \notin {"dequeue", "move", "run", "count"}
          BY <2>1, <3>2, <5>1, <1>7, Sides, Going
             DEF ActorInv, Life, Epoch, DequeueJob, MoveJob, RunJob, CountJob, Rest, Go, Fail, At
        <5> QED BY <2>7, <5>1 DEF Busy
      <4> QED BY <4>1, <4>2, SMT
    <3>3. CASE a = "rest"
      <4>1. pc'[w] \in {"rest", "check"}
        BY <2>1, <3>3, <1>7, Sides, Going
           DEF ActorInv, Life, Epoch, DequeueJob, MoveJob, RunJob, CountJob, Rest, Go, Fail, At
      <4>2. Busy' = {}
        BY <2>7, <4>1 DEF Busy
      <4> QED BY <2>1, <3>3, <4>2 DEF ActorInv, Token
    <3> QED BY <2>1, <3>1, <3>2, <3>3
  <2>10. Activators # {} => Busy' = {} /\ counter' # 0
    <3>1. ASSUME Activators # {} PROVE a = "rest" /\ counter' = counter /\ counter # 0
      BY <2>1, <2>8, <3>1 DEF ActorInv, Token
    <3>2. ASSUME a = "rest" PROVE Busy' = {}
      <4>1. pc'[w] \in {"rest", "check"}
        BY <2>1, <3>2, <1>7, Sides, Going
           DEF ActorInv, Life, Epoch, DequeueJob, MoveJob, RunJob, CountJob, Rest, Go, Fail, At
      <4> QED BY <2>7, <4>1 DEF Busy
    <3> QED BY <3>1, <3>2
  <2>11. counter' # 0 => Activators # {} \/ Busy' # {}
    <3>1. ASSUME counter' # 0, a # "rest" PROVE pc'[w] \in {"dequeue", "move", "run", "count"}
      <4>1. b # "check"
        BY <2>1, <3>1, EpochFindsJob
      <4>2. b # "rest"
        BY <2>1, <2>8, <3>1, SMT
      <4>3. pc'[w] = b
        BY <2>1, <3>1, Sides, Going DEF ActorInv, Life
      <4> QED BY <2>1, <4>1, <4>2, <4>3
    <3>2. ASSUME counter' # 0, a = "rest" PROVE Activators # {}
      BY <2>1, <2>2, <3>2 DEF ActorInv, Token
    <3> QED BY <3>1, <3>2 DEF Busy
  <2> QED BY <2>3, <2>4, <2>5, <2>6, <2>9, <2>10, <2>11 DEF ActorInv, Token
<1> QED BY <1>1, <1>2, <1>3, <1>4, <1>5, <1>6, <1>7 DEF Work

(* However the threads interleave, the token is passed on once.            *)
LEMMA TokenStep == ActorInv /\ [Next]_vars => Token'
<1> SUFFICES ASSUME ActorInv, [Next]_vars PROVE Token'
  OBVIOUS
<1>1. CASE UNCHANGED vars
  BY <1>1, QuietStep DEF vars, channelVars, lifeVars, Called
<1> QED BY <1>1, RequestToken, OwnerToken, WorkerToken DEF Next

-----------------------------------------------------------------------------
(* A step between places on the same side of the counter keeps the balance.*)
LEMMA EvenMove ==
  ASSUME Life, Balance, NEW t \in Threads, NEW a, NEW b, Go(t, a, b),
         a \in {"req_write", "req_count"} <=> b \in {"req_write", "req_count"},
         a \in {"move", "run", "count"} <=> b \in {"move", "run", "count"},
         counter' = counter, size' = size
  PROVE  Balance'
<1>1. Uncounted' = Uncounted
  BY Sides, Going DEF Life, Uncounted
<1>2. InEpoch' = InEpoch
  BY Sides, Going DEF Life, InEpoch
<1> QED BY <1>1, <1>2 DEF Balance

LEMMA StillEven ==
  ASSUME Balance, UNCHANGED <<pc, counter, size>>
  PROVE  Balance'
<1>1. Uncounted' = Uncounted /\ InEpoch' = InEpoch
  BY DEF Uncounted, InEpoch
<1> QED BY <1>1 DEF Balance

(* At most one job is between its removal from the mailbox and its count.  *)
LEMMA OneInEpoch ==
  ASSUME Life
  PROVE  Cardinality(InEpoch) \in Nat
<1>1. InEpoch = {} \/ \E w \in Workers : InEpoch = {w}
  <2>1. CASE InEpoch # {}
    <3>1. PICK w \in Workers : pc[w] \in {"move", "run", "count"}
      BY <2>1 DEF InEpoch
    <3>2. OthersGone(w)
      BY <3>1, BusyWorker
    <3>3. InEpoch = {w}
      BY <3>1, <3>2 DEF InEpoch, OthersGone, Gone
    <3> QED BY <3>3
  <2> QED BY <2>1
<1> QED BY <1>1, FS_EmptySet, FS_Singleton

LEMMA RequestBalance ==
  ASSUME ActorInv, NEW c \in Clients, Request(c) \/ WaitForExit(c)
  PROVE  Balance'
<1>1. CASE RequestWorkable(c) \/ RequestState(c) \/ RequestFull(c) \/ RequestWrite(c)
           \/ RequestActivate(c) \/ RequestSignal(c) \/ WaitForExit(c)
  <2>1. PICK a \in FreePlaces, b \in FreePlaces :
          /\ Go(c, a, b)
          /\ a \in {"req_write", "req_count"} <=> b \in {"req_write", "req_count"}
    BY <1>1 DEF RequestWorkable, RequestState, RequestFull, RequestWrite,
                RequestActivate, RequestSignal, TrySend, WaitForExit, FreePlaces
  <2>2. counter' = counter /\ size' = size
    BY <1>1 DEF RequestWorkable, RequestState, RequestFull, RequestWrite, EnqueueWrite,
                RequestActivate, RequestSignal, TrySend, WaitForExit, queueVars
  <2>3. a \in {"move", "run", "count"} <=> b \in {"move", "run", "count"}
    BY DEF FreePlaces
  <2> QED BY <2>1, <2>2, <2>3, Sides, EvenMove DEF ActorInv
<1>2. CASE RequestEnqueue(c)
  <2>1. Go(c, "req_enqueue", "req_write") /\ counter' = counter /\ size' = size + 1
    BY <1>2 DEF RequestEnqueue, EnqueueReserve
  <2>2. /\ pc[c] = "req_enqueue" /\ pc'[c] = "req_write"
        /\ \A u \in Threads : u # c => pc'[u] = pc[u]
    BY <2>1, Sides, Going DEF ActorInv, Life
  <2>3. InEpoch' = InEpoch
    BY <2>2, Sides DEF InEpoch
  <2>4. Uncounted' = Uncounted \cup {c} /\ c \notin Uncounted
    BY <2>2, Sides DEF Uncounted
  <2>5. IsFiniteSet(Uncounted') /\ Cardinality(Uncounted') = Cardinality(Uncounted) + 1
    BY <2>4, FS_AddElement DEF ActorInv, Balance
  <2>6. Cardinality(Uncounted) \in Nat
    BY FS_CardinalityType DEF ActorInv, Balance
  <2>7. size \in Nat /\ counter \in Nat /\ Cardinality(InEpoch) \in Nat
    BY OneInEpoch DEF ActorInv, Balance, Token
  <2> QED BY <2>1, <2>3, <2>5, <2>6, <2>7, SMT DEF ActorInv, Balance
<1>3. CASE RequestCount(c)
  <2>1. /\ Go(c, "req_count", IF counter = 0 THEN "req_activate" ELSE "idle")
        /\ counter' = counter + 1 /\ size' = size
    BY <1>3 DEF RequestCount, queueVars
  <2>2. /\ pc[c] = "req_count" /\ pc'[c] \in {"req_activate", "idle"}
        /\ \A u \in Threads : u # c => pc'[u] = pc[u]
    BY <2>1, Sides, Going DEF ActorInv, Life
  <2>3. InEpoch' = InEpoch
    BY <2>2, Sides DEF InEpoch
  <2>4. Uncounted' = Uncounted \ {c} /\ c \in Uncounted
    BY <2>2, Sides DEF Uncounted
  <2>5. IsFiniteSet(Uncounted') /\ Cardinality(Uncounted') = Cardinality(Uncounted) - 1
    BY <2>4, FS_RemoveElement DEF ActorInv, Balance
  <2>6. Cardinality(Uncounted) \in Nat
    BY FS_CardinalityType DEF ActorInv, Balance
  <2>7. size \in Nat /\ counter \in Nat /\ Cardinality(InEpoch) \in Nat
    BY OneInEpoch DEF ActorInv, Balance, Token
  <2> QED BY <2>1, <2>3, <2>5, <2>6, <2>7, SMT DEF ActorInv, Balance
<1> QED BY <1>1, <1>2, <1>3 DEF Request

LEMMA OwnerBalance ==
  ASSUME ActorInv, Kill(Owner) \/ Spawn(Owner)
  PROVE  Balance'
<1>1. counter' = counter /\ size' = size
  BY DEF Kill, KillFlag, KillSwap, KillDetach, KillSend, KillCheck, KillClaim, KillTake,
         Spawn, Respawn, SpawnThread, SpawnCheck, SpawnClaim, SpawnTake, SpawnSwap,
         RecvCheck, RecvClaim, TrySend, queueVars
<1>2. CASE SpawnThread(Owner)
  <2>1. PICK w \in Workers :
          /\ pc[w] \in {"unborn", "ended"}
          /\ pc' = [pc EXCEPT ![Owner] = "spawn_check", ![w] = "start"]
    BY <1>2 DEF SpawnThread
  <2>2. pc[Owner] = "spawn_thread"
    BY <1>2 DEF SpawnThread, At
  <2>3. Uncounted' = Uncounted /\ InEpoch' = InEpoch
    BY <2>1, <2>2, Sides DEF ActorInv, Life, Uncounted, InEpoch
  <2> QED BY <1>1, <2>3 DEF ActorInv, Balance
<1>3. CASE SpawnSwap(Owner)
  <2>1. /\ pc[Owner] = "spawn_swap"
        /\ pc' = [t \in Threads |-> IF t = Owner \/ pc[t] = "outside" THEN "idle" ELSE pc[t]]
    BY <1>3 DEF SpawnSwap, At
  <2>2. Uncounted' = Uncounted /\ InEpoch' = InEpoch
    BY <2>1, Sides DEF Uncounted, InEpoch
  <2> QED BY <1>1, <2>2 DEF ActorInv, Balance
<1>4. CASE Kill(Owner) \/ Respawn(Owner) \/ SpawnCheck(Owner) \/ SpawnClaim(Owner) \/ SpawnTake(Owner)
  <2> DEFINE Places == {"idle", "kill_swap", "kill_detach", "kill_send", "kill_check", "kill_claim",
                        "kill_take", "spawn_thread", "spawn_check", "spawn_claim", "spawn_take",
                        "spawn_swap"}
  <2>1. \/ UNCHANGED pc
        \/ \E a \in Places, b \in Places : Go(Owner, a, b)
    BY <1>4
       DEF Kill, KillFlag, KillSwap, KillDetach, KillSend, KillCheck, KillClaim, KillTake,
           Respawn, SpawnCheck, SpawnClaim, SpawnTake, RecvCheck, RecvClaim, TrySend, Fail
  <2>2. CASE UNCHANGED pc
    BY <1>1, <2>2, StillEven DEF ActorInv
  <2>3. ASSUME NEW a \in Places, NEW b \in Places, Go(Owner, a, b) PROVE Balance'
    BY <1>1, <2>3, Sides, EvenMove DEF ActorInv
  <2> QED BY <2>1, <2>2, <2>3
<1> QED BY <1>2, <1>3, <1>4 DEF Spawn

LEMMA WorkerBalance ==
  ASSUME ActorInv, NEW w \in Workers, Work(w)
  PROVE  Balance'
<1>1. CASE Start(w) \/ Load(w) \/ Hello(w) \/ Ready(w) \/ Open(w) \/ Check(w) \/ Claim(w)
           \/ TakeSignal(w) \/ Rest(w) \/ Bye(w) \/ Die(w)
  <2>1. counter' = counter /\ size' = size
    BY <1>1 DEF Start, Load, Hello, Ready, Open, Check, Claim, TakeSignal, Rest, Bye, Die, Store,
                RecvCheck, RecvClaim, TrySend, queueVars
  <2> DEFINE Places == {"start", "load", "hello", "ready", "open", "check", "claim", "take",
                        "dequeue", "bye", "rest", "die", "ended"}
  <2>2. UNCHANGED pc \/ \E a \in Places, b \in Places : Go(w, a, b)
    BY <1>1 DEF Start, Load, Hello, Ready, Open, Check, Claim, TakeSignal, Rest, Bye, Die, Store,
                RecvCheck, RecvClaim, TrySend, Fail
  <2>3. CASE UNCHANGED pc
    BY <2>1, <2>3, StillEven DEF ActorInv
  <2>4. ASSUME NEW a \in Places, NEW b \in Places, Go(w, a, b) PROVE Balance'
    BY <2>1, <2>4, Sides, EvenMove DEF ActorInv
  <2> QED BY <2>2, <2>3, <2>4
<1>2. CASE DequeueJob(w) /\ is_empty
  <2>1. Go(w, "dequeue", "check") /\ counter' = counter /\ size' = size
    BY <1>2 DEF DequeueJob, queueVars
  <2> QED BY <2>1, Sides, EvenMove DEF ActorInv
<1>3. CASE DequeueJob(w) /\ ~is_empty
  <2>1. Go(w, "dequeue", "move") /\ counter' = counter /\ size' = size - 1 /\ size # 0
    BY <1>3 DEF DequeueJob, DequeueReserve, is_empty
  <2>2. /\ pc[w] = "dequeue" /\ pc'[w] = "move"
        /\ \A u \in Threads : u # w => pc'[u] = pc[u]
    BY <2>1, Sides, Going DEF ActorInv, Life
  <2>3. OthersGone(w)
    BY <2>2, BusyWorker DEF ActorInv
  <2>4. InEpoch = {} /\ InEpoch' = {w}
    BY <2>2, <2>3, Sides DEF InEpoch, OthersGone, Gone
  <2>5. Uncounted' = Uncounted
    BY <2>2, Sides DEF Uncounted
  <2>6. Cardinality(InEpoch) = 0 /\ Cardinality(InEpoch') = 1
    BY <2>4, FS_EmptySet, FS_Singleton
  <2>7. size \in Nat
    BY DEF ActorInv, Balance
  <2> QED BY <2>1, <2>5, <2>6, <2>7, SMT DEF ActorInv, Balance
<1>4. CASE MoveJob(w) \/ RunJob(w)
  <2>1. Go(w, "move", "run") \/ Go(w, "run", "count")
    BY <1>4 DEF MoveJob, RunJob
  <2>2. counter' = counter /\ size' = size
    BY <1>4 DEF MoveJob, RunJob, DequeueMove, queueVars
  <2> QED BY <2>1, <2>2, Sides, EvenMove DEF ActorInv
<1>5. CASE CountJob(w)
  <2>1. /\ Go(w, "count", IF counter = 1 THEN "rest" ELSE "dequeue")
        /\ counter' = counter - 1 /\ size' = size
    BY <1>5 DEF CountJob, queueVars
  <2>2. /\ pc[w] = "count" /\ pc'[w] \in {"rest", "dequeue"}
        /\ \A u \in Threads : u # w => pc'[u] = pc[u]
    BY <2>1, Sides, Going DEF ActorInv, Life
  <2>3. OthersGone(w)
    BY <2>2, BusyWorker DEF ActorInv
  <2>4. InEpoch = {w} /\ InEpoch' = {}
    BY <2>2, <2>3, Sides DEF InEpoch, OthersGone, Gone
  <2>5. Uncounted' = Uncounted
    BY <2>2, Sides DEF Uncounted
  <2>6. Cardinality(InEpoch) = 1 /\ Cardinality(InEpoch') = 0
    BY <2>4, FS_EmptySet, FS_Singleton
  <2>7. size \in Nat /\ counter \in Nat /\ Cardinality(Uncounted) \in Nat
    BY FS_CardinalityType DEF ActorInv, Balance, Token
  <2> QED BY <2>1, <2>5, <2>6, <2>7, SMT DEF ActorInv, Balance
<1> QED BY <1>1, <1>2, <1>3, <1>4, <1>5 DEF Work, Epoch

(* No step updates the one without the other, or without a thread that is  *)
(* on its way to do it.                                                    *)
LEMMA BalanceStep == ActorInv /\ [Next]_vars => Balance'
<1> SUFFICES ASSUME ActorInv, [Next]_vars PROVE Balance'
  OBVIOUS
<1>1. CASE UNCHANGED vars
  BY <1>1, StillEven DEF vars, queueVars, ActorInv
<1> QED BY <1>1, RequestBalance, OwnerBalance, WorkerBalance DEF Next

-----------------------------------------------------------------------------
LEMMA ActorInit == Init => ActorInv
<1> SUFFICES ASSUME Init PROVE ActorInv
  OBVIOUS
<1>1. /\ DOMAIN pc = Threads /\ pc[Owner] = "spawn_thread"
      /\ \A w \in Workers : pc[w] = "unborn"
      /\ \A c \in Clients : c # Owner => pc[c] = "outside"
  BY Sides DEF Init
<1>2. Life
  BY <1>1 DEF Init, Channel!ChannelInit, Life, AllGone, Gone, Others, OtherPlaces, Unborn
<1>3. Activators = {} /\ Busy = {} /\ Uncounted = {} /\ InEpoch = {}
  BY <1>1 DEF Activators, Busy, Uncounted, InEpoch
<1>4. Token
  BY <1>1, <1>3 DEF Init, Channel!ChannelInit, Token, Called, Activators
<1>5. Balance
  BY <1>3, FS_EmptySet DEF Init, QueueInit, Balance
<1> QED BY <1>2, <1>4, <1>5 DEF ActorInv

LEMMA ActorStep == RespawnWaits /\ ActorInv /\ [Next]_vars => ActorInv'
BY LifeStep, TokenStep, BalanceStep, EpochFindsJob DEF ActorInv

(* No throw of actor.h or of signal_channel.h is reached (actor.h:126,     *)
(* 134, 153, 177), however many clients call request while the owner kills *)
(* and respawns, if it respawns when the killed worker has ended.          *)
THEOREM NothingFails ==
  ASSUME RespawnWaits
  PROVE  Spec => []NoFailure
<1>1. ActorInv => NoFailure
  BY DEF ActorInv, Life, NoFailure
<1> QED BY <1>1, ActorInit, ActorStep, PTL DEF Spec

(* _thread never stands for a worker that has ended, and when kill has     *)
(* returned the worker does no more than its last store (actor.h:90-99,    *)
(* 117, 150).                                                              *)
THEOREM KilledIsSpent ==
  ASSUME RespawnWaits
  PROVE  Spec => []KilledWorkerIsSpent
<1>1. ASSUME ActorInv PROVE KilledWorkerIsSpent
  <2>1. CASE AllGone /\ thread = NoThread
    BY <2>1, Sides DEF AllGone, Gone, KilledWorkerIsSpent
  <2>2. ASSUME NEW w \in Workers, OthersGone(w), Alive(w) PROVE KilledWorkerIsSpent
    <3>1. thread # NoThread => thread = w /\ ~Gone(w)
      BY <2>2 DEF Alive, Young, Greeted, Grown, Killed, Leaving, Settled, Serving, Gone
    <3>2. pc[Owner] = "idle" /\ thread = NoThread => pc[w] = "die"
      BY <2>2, Sides DEF Alive, Young, Greeted, Grown, Killed, Leaving
    <3> QED BY <2>2, <3>1, <3>2 DEF KilledWorkerIsSpent, OthersGone, Gone
  <2> QED BY <1>1, <2>1, <2>2 DEF ActorInv, Life
<1> QED BY <1>1, ActorInit, ActorStep, PTL DEF Spec

(* One client at a time wakes the worker, and not while it works           *)
(* (actor.h:73-84).                                                        *)
THEOREM OneWakesTheWorker ==
  ASSUME RespawnWaits
  PROVE  Spec => []OneActivator
<1>1. ASSUME ActorInv PROVE OneActivator
  <2>1. ASSUME NEW c \in Activators, pc[c] = "req_signal", NEW w \in Workers
        PROVE  pc[w] \notin {"dequeue", "move", "run", "count", "rest"}
    <3>1. Busy = {}
      BY <1>1, <2>1 DEF ActorInv, Token
    <3>2. pc[w] # "rest"
      BY <1>1, <2>1 DEF ActorInv, Token, Activators
    <3> QED BY <3>1, <3>2 DEF Busy
  <2>2. \A c, d \in Activators : c = d
    BY <1>1 DEF ActorInv, Token
  <2> QED BY <2>1, <2>2 DEF OneActivator
<1> QED BY <1>1, ActorInit, ActorStep, PTL DEF Spec

(* The counter differs from the number of items in the mailbox by the      *)
(* calls in between only, and the worker never finds the mailbox empty     *)
(* (actor.h:69-73, 159-171).                                               *)
THEOREM MailboxIsCounted ==
  ASSUME RespawnWaits
  PROVE  Spec => []MailboxMatchesCounter
<1>1. ActorInv => MailboxMatchesCounter
  BY EpochFindsJob DEF ActorInv, Balance, MailboxMatchesCounter
<1> QED BY <1>1, ActorInit, ActorStep, PTL DEF Spec

-----------------------------------------------------------------------------
(* Moving and assigning items yields items.                                *)
LEMMA ItemsAreKept ==
  /\ Values \subseteq Items /\ Blank \in Items /\ Torn \in Items
  /\ \A v \in Items : LeftBehind(v) \in Items
  /\ \A v, w \in Items : Assigned(v, w) \in Items
<1>1. Values \subseteq Items
  BY ItemAssumption DEF Items
<1>2. Blank \in Items /\ Torn \in Items
  BY DEF Blank, Torn, Items
<1>3. \A v \in Items : LeftBehind(v) \in Items
  BY DEF LeftBehind, Items
<1>4. \A v, w \in Items : Assigned(v, w) \in Items
  BY DEF Assigned, Items
<1> QED BY <1>1, <1>2, <1>3, <1>4

(* What the four steps of the mailbox do to its fields.                    *)
LEMMA MailboxTypes ==
  ASSUME QueueTypeOK, NEW t \in Threads
  PROVE  /\ \A v \in Values : EnqueueReserve(t, v) => QueueTypeOK'
         /\ EnqueueWrite(t) => QueueTypeOK'
         /\ DequeueReserve(t) => QueueTypeOK'
         /\ DequeueMove(t) => QueueTypeOK'
<1> USE CapacityAssumption
<1>1. Advance(rear) \in Slots /\ Advance(front) \in Slots /\ 0 \in Slots
  BY SMT DEF QueueTypeOK, Slots, Advance
<1>2. /\ items[slot[t]] \in Items /\ item[t] \in Items /\ Blank \in Items /\ Values \subseteq Items
      /\ \A v \in Items : Outcomes(t, v) \subseteq Items /\ LeftBehind(v) \in Items
      /\ \A v, w \in Items : Assigned(v, w) \in Items
  BY ItemsAreKept DEF QueueTypeOK, Outcomes
<1>3. \A s \in Slots : \A x \in {"write", "move"} :
        Pick(t, s, x) => /\ op' \in [Threads -> {"none", "write", "move"}]
                         /\ slot' \in [Threads -> Slots]
                         /\ clash' \in [Threads -> BOOLEAN]
  BY DEF QueueTypeOK, Pick
<1>4. Leave(t) => /\ op' \in [Threads -> {"none", "write", "move"}]
                  /\ slot' \in [Threads -> Slots]
                  /\ clash' \in [Threads -> BOOLEAN]
  BY <1>1 DEF QueueTypeOK, Leave
<1>5. ASSUME NEW v \in Values, EnqueueReserve(t, v) PROVE QueueTypeOK'
  <2>1. size' \in 0 .. Capacity
    BY <1>5, SMT DEF EnqueueReserve, QueueTypeOK, is_full
  <2>2. item' \in [Threads -> Items]
    BY <1>2, <1>5 DEF EnqueueReserve, QueueTypeOK
  <2> QED BY <1>1, <1>3, <1>5, <2>1, <2>2 DEF EnqueueReserve, QueueTypeOK
<1>6. ASSUME EnqueueWrite(t) PROVE QueueTypeOK'
  <2>1. PICK v \in Outcomes(t, Assigned(items[slot[t]], item[t])) :
          items' = [items EXCEPT ![slot[t]] = v]
    BY <1>6 DEF EnqueueWrite
  <2>2. v \in Items
    BY <1>2, <2>1
  <2> QED BY <1>2, <1>4, <1>6, <2>1, <2>2 DEF EnqueueWrite, QueueTypeOK
<1>7. ASSUME DequeueReserve(t) PROVE QueueTypeOK'
  <2>1. size' \in 0 .. Capacity
    BY <1>7, SMT DEF DequeueReserve, QueueTypeOK, is_empty
  <2> QED BY <1>1, <1>3, <1>7, <2>1 DEF DequeueReserve, QueueTypeOK
<1>8. ASSUME DequeueMove(t) PROVE QueueTypeOK'
  <2>1. PICK v \in Outcomes(t, items[slot[t]]) :
          /\ item' = [item EXCEPT ![t] = Assigned(item[t], v)]
          /\ \E x \in Outcomes(t, LeftBehind(v)) : items' = [items EXCEPT ![slot[t]] = x]
    BY <1>8 DEF DequeueMove
  <2>2. PICK x \in Outcomes(t, LeftBehind(v)) : items' = [items EXCEPT ![slot[t]] = x]
    BY <2>1
  <2>3. v \in Items /\ x \in Items /\ Assigned(item[t], v) \in Items
    BY <1>2, <2>1, <2>2
  <2> QED BY <1>4, <1>8, <2>1, <2>2, <2>3 DEF DequeueMove, QueueTypeOK
<1> QED BY <1>5, <1>6, <1>7, <1>8

(* The channel keeps its types for every signal that is sent.              *)
LEMMA ChannelTypes ==
  ASSUME Channel!ChannelTypeOK, NEW t \in Threads
  PROVE  /\ Channel!Arm(t) => Channel!ChannelTypeOK'
         /\ \A v \in Signals : Channel!Send(v) => Channel!ChannelTypeOK'
         /\ Channel!Take(t) => Channel!ChannelTypeOK'
BY DEF Channel!ChannelTypeOK, Channel!Arm, Channel!Send, Channel!Take

LEMMA RequestTypes ==
  ASSUME ActorTypeOK, NEW c \in Clients, Request(c) \/ WaitForExit(c)
  PROVE  ActorTypeOK'
<1> c \in Threads
  BY Sides
<1>1. CASE RequestEnqueue(c)
  <2>1. PICK j \in Values : EnqueueReserve(c, j) /\ accepted' = Append(accepted, j)
    BY <1>1 DEF RequestEnqueue
  <2>2. QueueTypeOK' /\ accepted' \in Seq(Values)
    BY <2>1, MailboxTypes DEF ActorTypeOK
  <2> QED
    BY <1>1, <2>2 DEF RequestEnqueue, ActorTypeOK, Channel!ChannelTypeOK, channelVars, lifeVars
<1>2. CASE RequestWrite(c)
  <2>1. QueueTypeOK'
    BY <1>2, MailboxTypes DEF RequestWrite, ActorTypeOK
  <2> QED
    BY <1>2, <2>1 DEF RequestWrite, ActorTypeOK, Channel!ChannelTypeOK, channelVars, lifeVars, history
<1>3. CASE RequestSignal(c)
  <2>1. Channel!ChannelTypeOK'
    BY <1>3, ChannelTypes DEF RequestSignal, TrySend, ActorTypeOK, Signals
  <2> QED
    BY <1>3, <2>1 DEF RequestSignal, TrySend, ActorTypeOK, QueueTypeOK, queueVars, lifeVars, history
<1>4. CASE RequestCount(c)
  <2>1. counter' \in Int
    BY <1>4, SMT DEF RequestCount, ActorTypeOK
  <2> QED
    BY <1>4, <2>1
       DEF RequestCount, ActorTypeOK, QueueTypeOK, Channel!ChannelTypeOK, queueVars, channelVars, lifeVars, history
<1>5. CASE RequestWorkable(c) \/ RequestState(c) \/ RequestFull(c) \/ RequestActivate(c) \/ WaitForExit(c)
  <2>1. UNCHANGED <<queueVars, channelVars, workable, thread, newborn, counter, history>>
        /\ (state' = state \/ state' = "PROC")
    BY <1>5 DEF RequestWorkable, RequestState, RequestFull, RequestActivate, Swap, WaitForExit, lifeVars
  <2> QED
    BY <2>1 DEF ActorTypeOK, QueueTypeOK, Channel!ChannelTypeOK, queueVars, channelVars, history
<1> QED BY <1>1, <1>2, <1>3, <1>4, <1>5 DEF Request

LEMMA OwnerTypes ==
  ASSUME ActorTypeOK, Kill(Owner) \/ Spawn(Owner)
  PROVE  ActorTypeOK'
<1> Owner \in Threads
  BY Sides
<1>1. UNCHANGED <<queueVars, counter, history>>
  BY DEF Kill, KillFlag, KillSwap, KillDetach, KillSend, KillCheck, KillClaim, KillTake,
         Spawn, Respawn, SpawnThread, SpawnCheck, SpawnClaim, SpawnTake, SpawnSwap,
         RecvCheck, RecvClaim, TrySend
<1>2. QueueTypeOK'
  BY <1>1 DEF ActorTypeOK, QueueTypeOK, queueVars
<1>3. Channel!ChannelTypeOK'
  <2>1. CASE KillSend(Owner)
    BY <2>1, ChannelTypes DEF KillSend, TrySend, Signals, ActorTypeOK
  <2>2. CASE KillClaim(Owner) \/ SpawnClaim(Owner)
    BY <2>2, ChannelTypes DEF KillClaim, SpawnClaim, RecvClaim, ActorTypeOK
  <2>3. CASE KillTake(Owner) \/ SpawnTake(Owner)
    BY <2>3, ChannelTypes DEF KillTake, SpawnTake, ActorTypeOK
  <2>4. CASE UNCHANGED channelVars
    BY <2>4 DEF ActorTypeOK, Channel!ChannelTypeOK, channelVars
  <2> QED
    BY <2>1, <2>2, <2>3, <2>4
       DEF Kill, KillFlag, KillSwap, KillDetach, KillCheck, Spawn, Respawn, SpawnThread,
           SpawnCheck, SpawnSwap, RecvCheck
<1>4. /\ state' \in {state, "DEAD", "SPAWN"} /\ workable' \in {workable, FALSE}
      /\ thread' \in {thread, newborn, NoThread}
      /\ newborn' \in Workers \cup {newborn, NoThread}
  BY DEF Kill, KillFlag, KillSwap, KillDetach, KillSend, KillCheck, KillClaim, KillTake,
         Spawn, Respawn, SpawnThread, SpawnCheck, SpawnClaim, SpawnTake, SpawnSwap,
         RecvCheck, RecvClaim, TrySend, Swap, lifeVars
<1> QED BY <1>1, <1>2, <1>3, <1>4 DEF ActorTypeOK, history

LEMMA WorkerTypes ==
  ASSUME ActorTypeOK, NEW w \in Workers, Work(w)
  PROVE  ActorTypeOK'
<1> w \in Threads
  BY Sides
<1>1. CASE Start(w) \/ Load(w) \/ Ready(w) \/ Open(w) \/ Check(w) \/ Rest(w) \/ Die(w)
  <2>1. /\ UNCHANGED <<queueVars, channelVars, thread, newborn, counter, history>>
        /\ state' \in {state, "LOADED", "IDLE", "DEAD"} /\ workable' \in {workable, TRUE}
    BY <1>1 DEF Start, Load, Ready, Open, Check, Rest, Die, Store, RecvCheck
  <2> QED
    BY <2>1 DEF ActorTypeOK, QueueTypeOK, Channel!ChannelTypeOK, queueVars, channelVars, history
<1>2. CASE Hello(w) \/ Claim(w) \/ Bye(w)
  <2>1. Channel!ChannelTypeOK'
    BY <1>2, ChannelTypes DEF Hello, Claim, Bye, TrySend, RecvClaim, Signals, ActorTypeOK
  <2>2. UNCHANGED <<queueVars, lifeVars, counter, history>>
    BY <1>2 DEF Hello, Claim, Bye, TrySend, RecvClaim
  <2> QED BY <2>1, <2>2 DEF ActorTypeOK, QueueTypeOK, queueVars, lifeVars, history
<1>3. CASE TakeSignal(w)
  <2>1. Channel!ChannelTypeOK'
    BY <1>3, ChannelTypes DEF TakeSignal, ActorTypeOK
  <2>2. /\ UNCHANGED <<rear, front, size, items, op, slot, clash>>
        /\ UNCHANGED <<state, workable, thread, newborn, counter, history>>
        /\ item' = IF signal = "active" THEN [item EXCEPT ![w] = Blank] ELSE item
    BY <1>3 DEF TakeSignal
  <2>3. QueueTypeOK'
    BY <2>2, ItemsAreKept DEF ActorTypeOK, QueueTypeOK
  <2> QED BY <2>1, <2>2, <2>3 DEF ActorTypeOK, history
<1>4. CASE DequeueJob(w) \/ MoveJob(w)
  <2>1. QueueTypeOK'
    BY <1>4, MailboxTypes DEF DequeueJob, MoveJob, ActorTypeOK, QueueTypeOK, queueVars
  <2>2. UNCHANGED <<channelVars, lifeVars, counter, history>>
    BY <1>4 DEF DequeueJob, MoveJob
  <2> QED BY <2>1, <2>2 DEF ActorTypeOK, Channel!ChannelTypeOK, channelVars, lifeVars, history
<1>5. CASE RunJob(w)
  <2>1. item[w] \in Items
    BY DEF ActorTypeOK, QueueTypeOK
  <2>2. ran' \in Seq(Items)
    BY <1>5, <2>1 DEF RunJob, ActorTypeOK
  <2> QED
    BY <1>5, <2>2
       DEF RunJob, ActorTypeOK, QueueTypeOK, Channel!ChannelTypeOK, queueVars, channelVars, lifeVars
<1>6. CASE CountJob(w)
  <2>1. counter' \in Int
    BY <1>6, SMT DEF CountJob, ActorTypeOK
  <2> QED
    BY <1>6, <2>1
       DEF CountJob, ActorTypeOK, QueueTypeOK, Channel!ChannelTypeOK, queueVars, channelVars, lifeVars, history
<1> QED BY <1>1, <1>2, <1>3, <1>4, <1>5, <1>6 DEF Work, Epoch

(* The members, the mailbox and the channel keep their types, whatever the *)
(* clients and the owner do, a respawn that does not wait among them       *)
(* (actor.h:192-204).                                                      *)
THEOREM ActorTypesCorrect == Spec => []ActorTypeOK
<1>1. ASSUME Init PROVE ActorTypeOK
  <2>1. QueueTypeOK
    <3>1. 0 \in Slots /\ 0 \in 0 .. Capacity /\ Blank \in Items
      BY CapacityAssumption, ItemsAreKept, SMT DEF Slots
    <3> QED BY <1>1, <3>1 DEF Init, QueueInit, QueueTypeOK
  <2>2. Channel!ChannelTypeOK
    BY <1>1 DEF Init, Channel!ChannelInit, Channel!ChannelTypeOK
  <2>3. state = "SPAWN" /\ counter = 0 /\ thread = NoThread /\ newborn = NoThread
    BY <1>1 DEF Init
  <2>4. workable \in BOOLEAN
    BY <1>1, Zenon DEF Init
  <2>5. accepted \in Seq(Values) /\ ran \in Seq(Items)
    BY <1>1 DEF Init
  <2> QED BY <2>1, <2>2, <2>3, <2>4, <2>5 DEF ActorTypeOK
<1>2. ActorTypeOK /\ [Next]_vars => ActorTypeOK'
  <2> SUFFICES ASSUME ActorTypeOK, [Next]_vars PROVE ActorTypeOK'
    OBVIOUS
  <2>1. CASE UNCHANGED vars
    BY <2>1
       DEF vars, ActorTypeOK, QueueTypeOK, Channel!ChannelTypeOK, queueVars, channelVars, lifeVars, history
  <2> QED BY <2>1, RequestTypes, OwnerTypes, WorkerTypes DEF Next
<1> QED BY <1>1, <1>2, PTL DEF Spec

-----------------------------------------------------------------------------
(* One client that keeps a slot free: the owner alone calls request.  The  *)
(* mailbox then holds the last jobs accepted, the worker has the one after *)
(* those that have run, and nobody disturbs anybody in a slot.             *)
Nth(f, i) == (f + i) % Capacity

Writer ==
  IF pc[Owner] = "req_write"
  THEN /\ op[Owner] = "write" /\ size >= 1 /\ slot[Owner] = Nth(front, size - 1)
       /\ accepted # <<>> /\ item[Owner] = accepted[Len(accepted)] /\ ~clash[Owner]
  ELSE op[Owner] = "none"

Reader(w) ==
  /\ op[w] = IF pc[w] = "move" THEN "move" ELSE "none"
  /\ pc[w] = "move" => /\ size < Capacity /\ Advance(slot[w]) = front /\ ~clash[w]
                       /\ items[slot[w]] = accepted[Len(ran) + 1]

\* A slot out of which an item was moved, or which never had one.
Emptied(s) == \A q \in Keeping : items[s][q] = None

\* Slot s holds a job, is the one it is being moved out of, or is empty.
Accounted(s) ==
  \/ Emptied(s)
  \/ \E w \in Workers : pc[w] = "move" /\ slot[w] = s
  \/ \E i \in 0 .. size - 1 : s = Nth(front, i) /\ (i < size - 1 \/ pc[Owner] # "req_write")

InHand == {w \in Workers : pc[w] \in {"move", "run"}}

Room ==
  pc[Owner] \in {"req_state", "req_enqueue"} =>
    size < Capacity /\ \A w \in Workers : pc[w] = "move" => size + 1 < Capacity

Story ==
  /\ IndexesAgree
  /\ Writer
  /\ \A w \in Workers : Reader(w)
  /\ Len(accepted) = Len(ran) + size + (IF InHand = {} THEN 0 ELSE 1)
  /\ \A i \in 0 .. size - 1 : i < size - 1 \/ pc[Owner] # "req_write" =>
       items[Nth(front, i)] = accepted[Len(accepted) - size + 1 + i]
  /\ \A s \in Slots : Accounted(s)
  /\ Room

(* Around the ring: % Capacity subtracts Capacity at most once here.       *)
LEMMA Around ==
  ASSUME NEW f \in Slots, NEW i \in 0 .. Capacity
  PROVE  Nth(f, i) \in Slots /\ Nth(f, i) = IF f + i < Capacity THEN f + i ELSE f + i - Capacity
<1>1. CASE f + i < Capacity
  BY <1>1, CapacityAssumption, SMT DEF Slots, Nth
<1>2. CASE f + i >= Capacity
  BY <1>2, CapacityAssumption, SMT DEF Slots, Nth
<1> QED BY <1>1, <1>2, CapacityAssumption, SMT DEF Slots

LEMMA Ring ==
  ASSUME NEW f \in Slots
  PROVE  /\ \A i, j \in 0 .. Capacity - 1 : i # j => Nth(f, i) # Nth(f, j)
         /\ Advance(f) \in Slots
         /\ \A i \in 0 .. Capacity - 1 : Nth(Advance(f), i) = Nth(f, i + 1)
         /\ \A i \in 0 .. Capacity - 1 : Advance(Nth(f, i)) = Nth(f, i + 1)
         /\ \A s \in Slots : Advance(s) = f => s = Nth(f, Capacity - 1)
         /\ Nth(f, 0) = f
<1> USE CapacityAssumption
<1>1. \A s \in Slots : Advance(s) \in Slots /\ Advance(s) = IF s + 1 = Capacity THEN 0 ELSE s + 1
  <2> TAKE s \in Slots
  <2>1. 1 \in 0 .. Capacity /\ Advance(s) = Nth(s, 1)
    BY SMT DEF Advance, Nth
  <2>2. Nth(s, 1) \in Slots /\ Nth(s, 1) = IF s + 1 < Capacity THEN s + 1 ELSE s + 1 - Capacity
    BY <2>1, Around
  <2> QED BY <2>1, <2>2, SMT DEF Slots
<1>2. \A i \in 0 .. Capacity : Nth(f, i) \in Slots /\ Nth(f, i) = IF f + i < Capacity THEN f + i ELSE f + i - Capacity
  BY Around
<1>3. ASSUME NEW i \in 0 .. Capacity - 1, NEW j \in 0 .. Capacity - 1, i # j
      PROVE  Nth(f, i) # Nth(f, j)
  BY <1>2, <1>3, SMT DEF Slots
<1>4. ASSUME NEW i \in 0 .. Capacity - 1
      PROVE  Nth(Advance(f), i) = Nth(f, i + 1) /\ Advance(Nth(f, i)) = Nth(f, i + 1)
  <2>1. i \in 0 .. Capacity /\ i + 1 \in 0 .. Capacity
    BY SMT
  <2>2. Nth(Advance(f), i) = IF Advance(f) + i < Capacity THEN Advance(f) + i ELSE Advance(f) + i - Capacity
    BY <1>1, <2>1, Around
  <2>3. /\ Nth(f, i) \in Slots /\ Nth(f, i) = IF f + i < Capacity THEN f + i ELSE f + i - Capacity
        /\ Nth(f, i + 1) = IF f + (i + 1) < Capacity THEN f + (i + 1) ELSE f + (i + 1) - Capacity
    BY <1>2, <2>1
  <2>4. /\ Advance(f) = IF f + 1 = Capacity THEN 0 ELSE f + 1
        /\ Advance(Nth(f, i)) = IF Nth(f, i) + 1 = Capacity THEN 0 ELSE Nth(f, i) + 1
    BY <1>1, <2>3
  <2> DEFINE n == Nth(f, i)
             m == Nth(f, i + 1)
             a == Advance(f)
             b == Advance(n)
             k == Nth(a, i)
  <2>5. f \in Nat /\ n \in Nat /\ f < Capacity
    BY <2>3, SMT DEF Slots
  <2>6. /\ k = IF a + i < Capacity THEN a + i ELSE a + i - Capacity
        /\ n = IF f + i < Capacity THEN f + i ELSE f + i - Capacity
        /\ m = IF f + (i + 1) < Capacity THEN f + (i + 1) ELSE f + (i + 1) - Capacity
        /\ a = IF f + 1 = Capacity THEN 0 ELSE f + 1
        /\ b = IF n + 1 = Capacity THEN 0 ELSE n + 1
    BY <2>2, <2>3, <2>4
  <2> HIDE DEF n, m, a, b, k
  <2>7. k = m /\ b = m
    BY <2>5, <2>6, SMT
  <2> QED BY <2>7 DEF n, m, a, b, k
<1>5. ASSUME NEW s \in Slots, Advance(s) = f PROVE s = Nth(f, Capacity - 1)
  <2>1. f = IF s + 1 = Capacity THEN 0 ELSE s + 1
    BY <1>1, <1>5
  <2>2. Capacity - 1 \in 0 .. Capacity
    BY SMT
  <2>3. Nth(f, Capacity - 1) = IF f + (Capacity - 1) < Capacity THEN f + (Capacity - 1)
                               ELSE f + (Capacity - 1) - Capacity
    BY <1>2, <2>2
  <2> QED BY <2>1, <2>3, SMT DEF Slots
<1>6. Nth(f, 0) = f
  BY <1>2, SMT DEF Slots
<1> QED BY <1>1, <1>3, <1>4, <1>5, <1>6

\* What the types say of the operands below.
Operands ==
  /\ front \in Slots /\ rear \in Slots /\ size \in 0 .. Capacity
  /\ Len(accepted) \in Nat /\ Len(ran) \in Nat
  /\ \A k \in 1 .. Len(accepted) : accepted[k] \in Values
  /\ accepted \in Seq(Values) /\ ran \in Seq(Items)
  /\ slot \in [Threads -> Slots] /\ op \in [Threads -> {"none", "write", "move"}]
  /\ item \in [Threads -> Items] /\ items \in [Slots -> Items] /\ clash \in [Threads -> BOOLEAN]

LEMMA Operated == ActorTypeOK => Operands
<1> SUFFICES ASSUME ActorTypeOK PROVE Operands
  OBVIOUS
<1>1. accepted \in Seq(Values) /\ ran \in Seq(Items) /\ QueueTypeOK
  BY DEF ActorTypeOK
<1>2. /\ Len(accepted) \in Nat /\ Len(ran) \in Nat
      /\ \A k \in 1 .. Len(accepted) : accepted[k] \in Values
  BY <1>1
<1> QED BY <1>1, <1>2 DEF QueueTypeOK, Operands

(* A step that is not about the mailbox keeps the story.                   *)
LEMMA StillTold ==
  ASSUME Story, Room', UNCHANGED <<rear, front, size, items, op, slot, clash, accepted, ran>>,
         pc'[Owner] = "req_write" <=> pc[Owner] = "req_write", item'[Owner] = item[Owner],
         \A w \in Workers : \A x \in {"move", "run"} : pc'[w] = x <=> pc[w] = x
  PROVE  Story'
<1>1. IndexesAgree'
  BY DEF Story, IndexesAgree
<1>2. Writer'
  BY DEF Story, Writer
<1>3. ASSUME NEW w \in Workers PROVE Reader(w)'
  BY DEF Story, Reader, Advance
<1>4. InHand' = InHand
  BY DEF InHand
<1>5. ASSUME NEW s \in Slots PROVE Accounted(s)'
  BY DEF Story, Accounted, Emptied, Nth
<1> QED BY <1>1, <1>2, <1>3, <1>4, <1>5 DEF Story, Nth

(* Only the worker and the client are in a slot, and not in the same.      *)
LEMMA Apart ==
  ASSUME Operands, Story, NEW w \in Workers, pc[w] = "move"
  PROVE  /\ slot[w] = Nth(front, Capacity - 1)
         /\ \A i \in 0 .. Capacity - 2 : slot[w] # Nth(front, i)
         /\ pc[Owner] = "req_write" => slot[w] # slot[Owner]
<1>1. slot[w] \in Slots /\ front \in Slots /\ Advance(slot[w]) = front /\ size < Capacity
  BY Sides DEF Operands, Story, Reader
<1>2. slot[w] = Nth(front, Capacity - 1)
  BY <1>1, Ring
<1>3. \A i \in 0 .. Capacity - 2 : slot[w] # Nth(front, i)
  <2> TAKE i \in 0 .. Capacity - 2
  <2>1. i \in 0 .. Capacity - 1 /\ Capacity - 1 \in 0 .. Capacity - 1 /\ i # Capacity - 1
    BY CapacityAssumption, SMT
  <2> QED BY <1>1, <1>2, <2>1, Ring
<1>4. ASSUME pc[Owner] = "req_write" PROVE slot[w] # slot[Owner]
  <2>1. size >= 1 /\ slot[Owner] = Nth(front, size - 1) /\ size \in 0 .. Capacity
    BY <1>4 DEF Operands, Story, Writer
  <2>2. size - 1 \in 0 .. Capacity - 2
    BY <1>1, <2>1, CapacityAssumption, SMT
  <2> QED BY <1>3, <2>1, <2>2
<1> QED BY <1>2, <1>3, <1>4

LEMMA Enqueuing ==
  ASSUME Clients = {Owner}, Operands, Story, DOMAIN pc = Threads, RequestEnqueue(Owner)
  PROVE  Story'
<1> USE CapacityAssumption
<1> DEFINE n == Len(accepted)
<1>1. PICK j \in Values :
        /\ op[Owner] = "none" /\ size # Capacity /\ Pick(Owner, rear, "write")
        /\ rear' = Advance(rear) /\ size' = size + 1 /\ item' = [item EXCEPT ![Owner] = j]
        /\ UNCHANGED <<front, items>> /\ accepted' = Append(accepted, j)
  BY DEF RequestEnqueue, EnqueueReserve, is_full
<1>2. /\ Go(Owner, "req_enqueue", "req_write") /\ ran' = ran
  BY DEF RequestEnqueue
<1>3. /\ pc[Owner] = "req_enqueue" /\ pc'[Owner] = "req_write"
      /\ \A w \in Workers : pc'[w] = pc[w]
  BY <1>2, Sides DEF Go, At
<1>4. size < Capacity /\ \A w \in Workers : pc[w] = "move" => size + 1 < Capacity
  BY <1>3 DEF Story, Room
<1>5. rear = Nth(front, size) /\ rear' = Nth(front, size + 1) /\ size \in 0 .. Capacity - 1
      /\ front \in Slots
  <2>1. rear = Nth(front, size) /\ size \in 0 .. Capacity - 1 /\ front \in Slots
    BY <1>4, SMT DEF Story, IndexesAgree, Nth, Operands
  <2> QED BY <1>1, <2>1, Ring
<1>6. \A w \in Workers : op[w] # "none" => slot[w] # rear
  <2> TAKE w \in Workers
  <2>1. CASE pc[w] = "move"
    <3>1. size \in 0 .. Capacity - 2
      BY <1>4, <2>1, SMT DEF Operands
    <3> QED BY <1>5, <2>1, <3>1, Apart
  <2>2. CASE pc[w] # "move"
    BY <2>2 DEF Story, Reader
  <2> QED BY <2>1, <2>2
<1>7. /\ op' = [op EXCEPT ![Owner] = "write"] /\ slot' = [slot EXCEPT ![Owner] = rear]
      /\ clash'[Owner] = FALSE /\ \A w \in Workers : clash'[w] = clash[w]
  <2> DEFINE others == {u \in Threads \ {Owner} : op[u] # "none" /\ slot[u] = rear}
  <2>1. Threads \ {Owner} \subseteq Workers
    BY ThreadAssumption
  <2>2. others = {}
    BY <1>6, <2>1
  <2>3. clash' = [u \in Threads |-> IF u = Owner THEN others # {} ELSE clash[u] \/ u \in others]
    BY <1>1 DEF Pick
  <2>4. clash'[Owner] = (others # {}) /\ \A w \in Workers : clash'[w] = (clash[w] \/ w \in others)
    BY <2>3, Sides
  <2> HIDE DEF others
  <2>5. \A w \in Workers : clash[w] \in BOOLEAN
    BY Sides DEF Operands
  <2>6. clash'[Owner] = FALSE /\ \A w \in Workers : clash'[w] = clash[w]
    BY <2>2, <2>4, <2>5
  <2> QED BY <1>1, <2>6 DEF Pick
<1>8. /\ op'[Owner] = "write" /\ slot'[Owner] = rear /\ item'[Owner] = j
      /\ \A w \in Workers : op'[w] = op[w] /\ slot'[w] = slot[w] /\ item'[w] = item[w]
  BY <1>1, <1>7, Sides DEF Operands
<1>9. /\ n \in Nat /\ Len(accepted') = n + 1 /\ accepted'[n + 1] = j
      /\ \A k \in 1 .. n : accepted'[k] = accepted[k]
  BY <1>1 DEF Operands
<1>10. InHand' = InHand /\ Len(ran) \in Nat
  BY <1>3 DEF InHand, Operands
<1> HIDE DEF n
<1>11. IndexesAgree'
  BY <1>1, <1>5 DEF IndexesAgree, Nth
<1>12. Writer'
  <2>1. size' >= 1 /\ size' - 1 = size
    BY <1>1, <1>5, SMT
  <2>2. accepted' # <<>> /\ Len(accepted') = n + 1
    <3>1. Len(accepted') # 0 /\ Len(<<>>) = 0
      BY <1>9, SMT
    <3> QED BY <1>9, <3>1
  <2> QED BY <1>1, <1>3, <1>5, <1>7, <1>8, <1>9, <2>1, <2>2 DEF Writer
<1>13. ASSUME NEW w \in Workers PROVE Reader(w)'
  <2>1. pc[w] = "move" => InHand # {}
    BY DEF InHand
  <2>2. n = Len(ran) + size + (IF InHand = {} THEN 0 ELSE 1)
    BY DEF Story, n
  <2>3. pc[w] = "move" => Len(ran) + 1 \in 1 .. n
    BY <1>5, <1>9, <1>10, <2>1, <2>2, SMT
  <2>4. pc[w] = "move" => accepted'[Len(ran) + 1] = accepted[Len(ran) + 1]
    BY <1>9, <2>3
  <2>5. pc[w] = "move" => size' < Capacity
    BY <1>1, <1>4
  <2>6. Reader(w)
    BY DEF Story
  <2> QED BY <1>1, <1>2, <1>3, <1>7, <1>8, <2>4, <2>5, <2>6 DEF Reader, Advance
<1>14. Len(accepted') = Len(ran') + size' + (IF InHand' = {} THEN 0 ELSE 1)
  BY <1>1, <1>2, <1>5, <1>9, <1>10, SMT DEF Story, n
<1>15. ASSUME NEW i \in 0 .. size' - 1, i < size' - 1
       PROVE  items'[Nth(front', i)] = accepted'[Len(accepted') - size' + 1 + i]
  <2>1. i \in 0 .. size - 1 /\ size' = size + 1
    BY <1>1, <1>5, <1>15, SMT
  <2>2. items[Nth(front, i)] = accepted[n - size + 1 + i]
    BY <1>3, <2>1 DEF Story, n
  <2>3. n - size + 1 + i \in 1 .. n /\ Len(accepted') - size' + 1 + i = n - size + 1 + i
    <3>1. n = Len(ran) + size + (IF InHand = {} THEN 0 ELSE 1)
      BY DEF Story, n
    <3> QED BY <1>5, <1>9, <1>10, <2>1, <3>1, SMT
  <2> QED BY <1>1, <1>9, <2>2, <2>3
<1>16. ASSUME NEW s \in Slots PROVE Accounted(s)'
  <2>1. Accounted(s)
    BY DEF Story
  <2>2. ASSUME Emptied(s) PROVE Accounted(s)'
    BY <1>1, <2>2 DEF Emptied, Accounted
  <2>3. ASSUME NEW w \in Workers, pc[w] = "move", slot[w] = s PROVE Accounted(s)'
    BY <1>3, <1>8, <2>3 DEF Accounted
  <2>4. ASSUME NEW i \in 0 .. size - 1, s = Nth(front, i) PROVE Accounted(s)'
    <3>1. i \in 0 .. size' - 1 /\ i < size' - 1
      BY <1>1, <1>5, SMT
    <3>2. s = Nth(front', i)
      BY <1>1, <2>4
    <3> QED BY <3>1, <3>2 DEF Accounted
  <2> QED BY <2>1, <2>2, <2>3, <2>4 DEF Accounted
<1>17. Room'
  BY <1>3 DEF Room
<1> QED BY <1>3, <1>11, <1>12, <1>13, <1>14, <1>15, <1>16, <1>17 DEF Story

(* A job moved into an empty slot arrives as it is.                        *)
LEMMA WholeIntoEmpty ==
  ASSUME NEW s \in Slots, Emptied(s), NEW v \in Values
  PROVE  Assigned(items[s], v) = v
<1>1. v \in [Parts -> Contents \cup {None}]
  BY ItemAssumption
<1>2. \A p \in Parts : (IF p \in Keeping /\ v[p] = None THEN items[s][p] ELSE v[p]) = v[p]
  BY DEF Emptied
<1> QED BY <1>1, <1>2 DEF Assigned

LEMMA Writing ==
  ASSUME Clients = {Owner}, Operands, Story, DOMAIN pc = Threads, RequestWrite(Owner)
  PROVE  Story'
<1> USE CapacityAssumption
<1> DEFINE n == Len(accepted)
<1>1. /\ Go(Owner, "req_write", "req_count")
      /\ UNCHANGED <<rear, front, size, accepted, ran>> /\ Leave(Owner)
      /\ item' = [item EXCEPT ![Owner] = Blank]
      /\ \E v \in Outcomes(Owner, Assigned(items[slot[Owner]], item[Owner])) :
           items' = [items EXCEPT ![slot[Owner]] = v]
  BY DEF RequestWrite, EnqueueWrite, history
<1>2. /\ pc[Owner] = "req_write" /\ pc'[Owner] = "req_count"
      /\ \A w \in Workers : pc'[w] = pc[w]
  BY <1>1, Sides DEF Go, At
<1>3. /\ size >= 1 /\ slot[Owner] = Nth(front, size - 1) /\ accepted # <<>>
      /\ item[Owner] = accepted[n] /\ ~clash[Owner]
  BY <1>2 DEF Story, Writer
<1>4. /\ size \in 0 .. Capacity /\ size - 1 \in 0 .. Capacity - 1 /\ front \in Slots
      /\ n \in Nat /\ Len(ran) \in Nat /\ n >= Len(ran) + size
  <2>1. size \in 0 .. Capacity /\ front \in Slots /\ n \in Nat /\ Len(ran) \in Nat
    BY DEF Operands
  <2>2. n = Len(ran) + size + (IF InHand = {} THEN 0 ELSE 1)
    BY DEF Story
  <2> HIDE DEF n
  <2> QED BY <1>3, <2>1, <2>2, SMT
<1>5. item[Owner] \in Values
  <2>1. n \in 1 .. n
    BY <1>3, <1>4, SMT
  <2> QED BY <1>3, <2>1 DEF Operands
<1>a. slot[Owner] \in Slots /\ Emptied(slot[Owner])
  <2>1. slot[Owner] \in Slots /\ Accounted(slot[Owner])
    BY Sides DEF Operands, Story
  <2>2. \A w \in Workers : pc[w] = "move" => slot[w] # slot[Owner]
    BY <1>2, Apart
  <2>3. ASSUME NEW i \in 0 .. size - 1, i < size - 1 PROVE slot[Owner] # Nth(front, i)
    <3> DEFINE last == size - 1
    <3>1. i \in 0 .. Capacity - 1 /\ i # last
      BY <1>4, <2>3, SMT
    <3>2. front \in Slots /\ last \in 0 .. Capacity - 1 /\ slot[Owner] = Nth(front, last)
      BY <1>3, <1>4
    <3> HIDE DEF last
    <3> QED BY <3>1, <3>2, Ring
  <2> QED BY <1>2, <2>1, <2>2, <2>3 DEF Accounted
<1>6. items' = [items EXCEPT ![slot[Owner]] = item[Owner]]
  <2>1. Assigned(items[slot[Owner]], item[Owner]) = item[Owner]
    BY <1>5, <1>a, WholeIntoEmpty
  <2>2. Outcomes(Owner, Assigned(items[slot[Owner]], item[Owner])) = {item[Owner]}
    BY <1>3, <2>1 DEF Outcomes
  <2> QED BY <1>1, <2>2
<1>7. /\ op'[Owner] = "none" /\ items' \in [Slots -> Items]
      /\ \A w \in Workers : op'[w] = op[w] /\ slot'[w] = slot[w] /\ clash'[w] = clash[w] /\ item'[w] = item[w]
  BY <1>1, <1>5, <1>6, ItemsAreKept, Sides DEF Leave, Operands
<1>8. InHand' = InHand
  BY <1>2 DEF InHand
<1>9. IndexesAgree' /\ Writer' /\ Room'
  BY <1>1, <1>2, <1>7 DEF Story, IndexesAgree, Writer, Room
<1>10. ASSUME NEW w \in Workers PROVE Reader(w)'
  <2>1. Reader(w) /\ w \in Threads
    BY Sides DEF Story
  <2>2. pc[w] = "move" => slot[w] # slot[Owner]
    BY <1>2, Apart
  <2>3. pc[w] = "move" => items'[slot[w]] = items[slot[w]]
    BY <1>6, <2>1, <2>2 DEF Operands
  <2> QED BY <1>1, <1>2, <1>7, <2>1, <2>3 DEF Reader, Advance
<1>11. ASSUME NEW i \in 0 .. size - 1
       PROVE  items'[Nth(front, i)] = accepted[n - size + 1 + i]
  <2>1. i \in 0 .. Capacity - 1 /\ i \in 0 .. Capacity
    BY <1>4, SMT
  <2>2. Nth(front, i) \in Slots
    BY <1>4, <2>1, Around
  <2>3. CASE i = size - 1
    <3>1. n - size + 1 + i = n
      BY <1>4, <2>3, SMT
    <3>2. items'[slot[Owner]] = item[Owner]
      BY <1>3, <1>6, <2>2, <2>3 DEF Operands
    <3> QED BY <1>3, <2>3, <3>1, <3>2
  <2>4. CASE i # size - 1
    <3>1. Nth(front, i) # slot[Owner]
      <4> DEFINE last == size - 1
      <4>1. front \in Slots /\ last \in 0 .. Capacity - 1 /\ i # last /\ slot[Owner] = Nth(front, last)
        BY <1>3, <1>4, <2>4
      <4> HIDE DEF last
      <4> QED BY <2>1, <4>1, Ring
    <3>2. i < size - 1
      BY <1>4, <2>4, SMT
    <3>3. items[Nth(front, i)] = accepted[n - size + 1 + i]
      BY <3>2 DEF Story
    <3> QED BY <1>6, <2>2, <3>1, <3>3 DEF Operands
  <2> QED BY <2>3, <2>4
<1>12. ASSUME NEW s \in Slots PROVE Accounted(s)'
  <2>1. Accounted(s)
    BY DEF Story
  <2>2. CASE s = slot[Owner]
    <3>1. size - 1 \in 0 .. size - 1
      BY <1>3, <1>4, SMT
    <3>2. size - 1 \in 0 .. size' - 1 /\ s = Nth(front', size - 1) /\ pc'[Owner] # "req_write"
      BY <1>1, <1>2, <1>3, <2>2, <3>1
    <3> QED BY <3>2 DEF Accounted
  <2>3. CASE s # slot[Owner]
    <3>1. items'[s] = items[s]
      BY <1>6, <2>3 DEF Operands
    <3>2. Emptied(s) => Emptied(s)'
      BY <3>1 DEF Emptied
    <3>3. \A w \in Workers : pc[w] = "move" /\ slot[w] = s => pc'[w] = "move" /\ slot'[w] = s
      BY <1>2, <1>7
    <3>4. \A i \in 0 .. size - 1 : s = Nth(front, i) => i \in 0 .. size' - 1 /\ s = Nth(front', i)
      BY <1>1
    <3> QED BY <1>2, <2>1, <3>2, <3>3, <3>4 DEF Accounted
  <2> QED BY <2>2, <2>3
<1> QED BY <1>1, <1>8, <1>9, <1>10, <1>11, <1>12 DEF Story

(* The worker takes the next job, which is not the one being written.      *)
LEMMA Dequeuing ==
  ASSUME Clients = {Owner}, ActorInv, Operands, Story, NEW w \in Workers, DequeueJob(w)
  PROVE  Story'
<1> USE CapacityAssumption
<1> DEFINE n == Len(accepted)
<1>1. /\ Go(w, "dequeue", "move") /\ UNCHANGED <<rear, items, item, accepted, ran>>
      /\ Pick(w, front, "move") /\ size' = size - 1 /\ front' = Advance(front)
  <2>1. Go(w, "dequeue", "check") \/ Go(w, "dequeue", "move")
    BY DEF DequeueJob
  <2>2. pc[w] = "dequeue"
    BY <2>1, Going, Sides DEF ActorInv, Life
  <2>3. ~is_empty
    BY <2>2, EpochFindsJob
  <2> QED BY <2>3 DEF DequeueJob, DequeueReserve, history
<1>2. /\ pc[w] = "dequeue" /\ pc'[w] = "move" /\ pc'[Owner] = pc[Owner]
      /\ \A v \in Workers : v # w => pc'[v] = pc[v] /\ Gone(v)
  <2>1. /\ pc[w] = "dequeue" /\ pc'[w] = "move" /\ pc'[Owner] = pc[Owner]
        /\ \A v \in Workers : v # w => pc'[v] = pc[v]
    BY <1>1, Sides DEF Go, At, ActorInv, Life
  <2>2. OthersGone(w)
    BY <2>1, TheWorker DEF ActorInv, Gone
  <2> QED BY <2>1, <2>2 DEF OthersGone
<1>3. InHand = {} /\ InEpoch = {} /\ InHand' = {w}
  BY <1>2 DEF InHand, InEpoch, Gone
<1>4. /\ size \in 0 .. Capacity /\ front \in Slots /\ rear = Nth(front, size)
      /\ n \in Nat /\ Len(ran) \in Nat /\ n = Len(ran) + size
  <2>1. size \in 0 .. Capacity /\ front \in Slots /\ n \in Nat /\ Len(ran) \in Nat
    BY DEF Operands
  <2>2. n = Len(ran) + size + (IF InHand = {} THEN 0 ELSE 1) /\ rear = Nth(front, size)
    BY DEF Story, IndexesAgree, Nth
  <2> HIDE DEF n
  <2> QED BY <1>3, <2>1, <2>2, SMT
<1>5. size >= 1 /\ (pc[Owner] = "req_write" => size >= 2)
  <2>1. counter \in Nat /\ counter # 0
    BY <1>2, BusyWorker DEF ActorInv, Token
  <2>2. size + 0 = counter + Cardinality(Uncounted) /\ Cardinality(Uncounted) \in Nat
    BY <1>3, FS_EmptySet, FS_CardinalityType DEF ActorInv, Balance
  <2>3. pc[Owner] = "req_write" => Uncounted = {Owner}
    BY DEF Uncounted
  <2>4. pc[Owner] = "req_write" => Cardinality(Uncounted) = 1
    BY <2>3, FS_Singleton
  <2> QED BY <1>4, <2>1, <2>2, <2>4, SMT
<1>6. size - 1 \in 0 .. Capacity - 1 /\ 0 \in 0 .. Capacity - 1 /\ 0 \in 0 .. size - 1
  BY <1>4, <1>5, SMT
<1>7. \A u \in Threads \ {w} : op[u] # "none" => slot[u] # front
  <2> SUFFICES ASSUME NEW u \in Threads \ {w}, op[u] # "none" PROVE slot[u] # front
    OBVIOUS
  <2>1. u = Owner
    BY <1>2, ThreadAssumption DEF Story, Reader, Gone
  <2>2. pc[Owner] = "req_write" /\ slot[Owner] = Nth(front, size - 1)
    BY <2>1 DEF Story, Writer
  <2>3. size - 1 # 0
    BY <1>4, <1>5, <2>2, SMT
  <2> QED BY <1>4, <1>6, <2>1, <2>2, <2>3, Ring
<1>8. /\ op' = [op EXCEPT ![w] = "move"] /\ slot' = [slot EXCEPT ![w] = front]
      /\ ~clash'[w] /\ \A u \in Threads : u # w => clash'[u] = clash[u]
  <2> DEFINE others == {u \in Threads \ {w} : op[u] # "none" /\ slot[u] = front}
  <2>1. others = {}
    BY <1>7
  <2>2. clash' = [u \in Threads |-> IF u = w THEN others # {} ELSE clash[u] \/ u \in others]
    BY <1>1 DEF Pick
  <2> HIDE DEF others
  <2>3. clash'[w] = (others # {}) /\ \A u \in Threads : u # w => clash'[u] = (clash[u] \/ u \in others)
    BY <2>2, Sides
  <2>4. \A u \in Threads : clash[u] \in BOOLEAN
    BY DEF Operands
  <2>5. ~clash'[w] /\ \A u \in Threads : u # w => clash'[u] = clash[u]
    BY <2>1, <2>3, <2>4
  <2> QED BY <1>1, <2>5 DEF Pick
<1>9. /\ op'[w] = "move" /\ slot'[w] = front
      /\ op'[Owner] = op[Owner] /\ slot'[Owner] = slot[Owner] /\ clash'[Owner] = clash[Owner]
      /\ \A v \in Workers : v # w => op'[v] = op[v]
  BY <1>8, Sides DEF Operands
<1>10. \A i \in 0 .. size - 2 : Nth(front', i) = Nth(front, i + 1)
  <2>1. 0 .. size - 2 \subseteq 0 .. Capacity - 1
    BY <1>4, SMT
  <2> QED BY <1>1, <1>4, <2>1, Ring
<1>11. IndexesAgree'
  <2>1. Nth(front', size - 1) = Nth(front, (size - 1) + 1) /\ (size - 1) + 1 = size
    BY <1>1, <1>4, <1>6, Ring
  <2>2. rear' = Nth(front', size')
    BY <1>1, <1>4, <2>1
  <2> QED BY <2>2 DEF IndexesAgree, Nth
<1>12. Writer'
  <2>1. CASE pc[Owner] = "req_write"
    <3>1. size' >= 1 /\ size' - 1 \in 0 .. size - 2 /\ size' - 1 + 1 = size - 1
      BY <1>1, <1>4, <1>5, <2>1, SMT
    <3>2. slot'[Owner] = Nth(front', size' - 1)
      BY <1>9, <1>10, <2>1, <3>1 DEF Story, Writer
    <3> QED BY <1>1, <1>2, <1>9, <2>1, <3>1, <3>2 DEF Story, Writer
  <2>2. CASE pc[Owner] # "req_write"
    BY <1>2, <1>9, <2>2 DEF Story, Writer
  <2> QED BY <2>1, <2>2
<1>13. items[front] = accepted[Len(ran) + 1]
  <2>1. 0 < size - 1 \/ pc[Owner] # "req_write"
    BY <1>4, <1>5, SMT
  <2>2. items[Nth(front, 0)] = accepted[n - size + 1 + 0]
    BY <1>6, <2>1 DEF Story
  <2>3. n - size + 1 + 0 = Len(ran) + 1
    <3> HIDE DEF n
    <3> QED BY <1>4, SMT
  <2>4. Nth(front, 0) = front
    BY <1>4, Ring
  <2> QED BY <2>2, <2>3, <2>4
<1>14. ASSUME NEW v \in Workers PROVE Reader(v)'
  <2>1. CASE v = w
    <3>1. size' < Capacity
      BY <1>1, <1>4, SMT
    <3> QED BY <1>1, <1>2, <1>8, <1>9, <1>13, <2>1, <3>1 DEF Reader, Advance
  <2>2. CASE v # w
    BY <1>2, <1>9, <2>2 DEF Story, Reader, Gone
  <2> QED BY <2>1, <2>2
<1>15. Len(accepted') = Len(ran') + size' + (IF InHand' = {} THEN 0 ELSE 1)
  <2>1. Len(accepted') = n /\ Len(ran') = Len(ran) /\ size' = size - 1 /\ InHand' # {}
    BY <1>1, <1>3
  <2> HIDE DEF n
  <2> QED BY <1>4, <2>1, SMT
<1>16. ASSUME NEW i \in 0 .. size' - 1, i < size' - 1 \/ pc'[Owner] # "req_write"
       PROVE  items'[Nth(front', i)] = accepted'[Len(accepted') - size' + 1 + i]
  <2>1. /\ i \in 0 .. size - 2 /\ i + 1 \in 0 .. size - 1
        /\ (i + 1 < size - 1 \/ pc[Owner] # "req_write")
    BY <1>1, <1>2, <1>4, <1>16, SMT
  <2>2. items[Nth(front, i + 1)] = accepted[n - size + 1 + (i + 1)]
    BY <2>1 DEF Story
  <2>3. n - size' + 1 + i = n - size + 1 + (i + 1)
    <3> HIDE DEF n
    <3> QED BY <1>1, <1>4, <2>1, SMT
  <2> QED BY <1>1, <1>10, <2>1, <2>2, <2>3
<1>17. Room'
  <2>1. pc[Owner] \in {"req_state", "req_enqueue"} => size < Capacity
    BY DEF Story, Room
  <2>2. pc[Owner] \in {"req_state", "req_enqueue"} => size' < Capacity /\ size' + 1 < Capacity
    BY <1>1, <1>4, <2>1, SMT
  <2> QED BY <1>2, <2>2 DEF Room
<1>18. ASSUME NEW s \in Slots PROVE Accounted(s)'
  <2>1. Accounted(s) /\ ~ \E v \in Workers : pc[v] = "move"
    BY <1>3 DEF Story, InHand
  <2>2. ASSUME Emptied(s) PROVE Accounted(s)'
    BY <1>1, <2>2 DEF Emptied, Accounted
  <2>3. ASSUME NEW i \in 0 .. size - 1, s = Nth(front, i), i < size - 1 \/ pc[Owner] # "req_write"
        PROVE  Accounted(s)'
    <3>1. CASE i = 0
      <4>1. s = front
        BY <1>4, <2>3, <3>1, Ring
      <4> QED BY <1>2, <1>9, <4>1 DEF Accounted
    <3>2. CASE i # 0
      <4> DEFINE j == i - 1
      <4>1. j \in 0 .. size - 2 /\ i = j + 1 /\ j \in 0 .. size' - 1 /\ (i < size - 1 => j < size' - 1)
        BY <1>1, <1>4, <3>2, SMT
      <4> HIDE DEF j
      <4>2. s = Nth(front', j)
        BY <1>10, <2>3, <4>1
      <4>3. j < size' - 1 \/ pc'[Owner] # "req_write"
        BY <1>2, <2>3, <4>1
      <4> QED BY <4>1, <4>2, <4>3 DEF Accounted
    <3> QED BY <3>1, <3>2
  <2> QED BY <2>1, <2>2, <2>3 DEF Accounted
<1> QED BY <1>1, <1>11, <1>12, <1>14, <1>15, <1>16, <1>17, <1>18 DEF Story

LEMMA Taking ==
  ASSUME ActorInv, Operands, Story, NEW w \in Workers, MoveJob(w)
  PROVE  Story'
<1> USE CapacityAssumption
<1> DEFINE n == Len(accepted)
           i == slot[w]
<1>1. /\ Go(w, "move", "run") /\ UNCHANGED <<rear, front, size, accepted, ran>> /\ Leave(w)
      /\ \E v \in Outcomes(w, items[i]) :
           /\ item' = [item EXCEPT ![w] = Assigned(item[w], v)]
           /\ \E u \in Outcomes(w, LeftBehind(v)) : items' = [items EXCEPT ![i] = u]
  BY DEF MoveJob, DequeueMove, history
<1>2. /\ pc[w] = "move" /\ pc'[w] = "run" /\ pc'[Owner] = pc[Owner]
      /\ \A v \in Workers : v # w => pc'[v] = pc[v] /\ Gone(v)
  <2>1. /\ pc[w] = "move" /\ pc'[w] = "run" /\ pc'[Owner] = pc[Owner]
        /\ \A v \in Workers : v # w => pc'[v] = pc[v]
    BY <1>1, Sides DEF Go, At, ActorInv, Life
  <2>2. OthersGone(w)
    BY <2>1, TheWorker DEF ActorInv, Gone
  <2> QED BY <2>1, <2>2 DEF OthersGone
<1>3. InHand = {w} /\ InHand' = {w}
  BY <1>2 DEF InHand, Gone
<1>4. /\ op[w] = "move" /\ size < Capacity /\ ~clash[w] /\ items[i] = accepted[Len(ran) + 1]
      /\ n = Len(ran) + size + 1
  BY <1>2, <1>3 DEF Story, Reader
<1>5. /\ size \in 0 .. Capacity - 1 /\ front \in Slots /\ n \in Nat /\ Len(ran) \in Nat
      /\ Len(ran) + 1 \in 1 .. n
  <2>1. size \in 0 .. Capacity /\ front \in Slots /\ n \in Nat /\ Len(ran) \in Nat
    BY DEF Operands
  <2> HIDE DEF n
  <2> QED BY <1>4, <2>1, SMT
<1>6. /\ item' = [item EXCEPT ![w] = Assigned(item[w], items[i])]
      /\ items' = [items EXCEPT ![i] = LeftBehind(items[i])]
  <2>1. \A v \in Items : Outcomes(w, v) = {v}
    BY <1>4 DEF Outcomes
  <2>2. items[i] \in Items /\ LeftBehind(items[i]) \in Items
    BY ItemsAreKept, Sides DEF Operands
  <2>3. Outcomes(w, items[i]) = {items[i]} /\ Outcomes(w, LeftBehind(items[i])) = {LeftBehind(items[i])}
    BY <2>1, <2>2
  <2> QED BY <1>1, <2>3
<1>7. \A s \in Slots : s # i => items'[s] = items[s]
  BY <1>1 DEF Operands
<1>8. /\ op'[w] = "none"
      /\ op'[Owner] = op[Owner] /\ slot'[Owner] = slot[Owner] /\ clash'[Owner] = clash[Owner]
      /\ item'[Owner] = item[Owner]
      /\ \A v \in Workers : v # w => op'[v] = op[v]
  BY <1>1, <1>6, Sides DEF Leave, Operands
<1>9. IndexesAgree' /\ Writer' /\ Room'
  BY <1>1, <1>2, <1>8 DEF Story, IndexesAgree, Writer, Room
<1>10. ASSUME NEW v \in Workers PROVE Reader(v)'
  <2>1. CASE v = w
    BY <1>1, <1>2, <1>4, <1>8, <2>1 DEF Reader
  <2>2. CASE v # w
    BY <1>2, <1>8, <2>2 DEF Story, Reader, Gone
  <2> QED BY <2>1, <2>2
<1>11. ASSUME NEW k \in 0 .. size - 1 PROVE items'[Nth(front, k)] = items[Nth(front, k)]
  <2>1. k \in 0 .. Capacity - 2 /\ k \in 0 .. Capacity
    BY <1>5, SMT
  <2>2. Nth(front, k) \in Slots
    BY <1>5, <2>1, Around
  <2>3. i # Nth(front, k)
    BY <1>2, <2>1, Apart
  <2> QED BY <1>7, <2>2, <2>3
<1>12. Len(accepted') = Len(ran') + size' + (IF InHand' = {} THEN 0 ELSE 1)
  BY <1>1, <1>3 DEF Story
<1>14. ASSUME NEW s \in Slots PROVE Accounted(s)'
  <2>1. CASE s = i
    <3>1. items'[s] = LeftBehind(items[i])
      BY <1>6, <2>1 DEF Operands
    <3>2. Emptied(s)'
      BY <3>1, ItemAssumption DEF Emptied, LeftBehind
    <3> QED BY <3>2 DEF Accounted
  <2>2. CASE s # i
    <3>1. items'[s] = items[s] /\ Accounted(s)
      BY <1>7, <2>2 DEF Story
    <3>2. Emptied(s) => Emptied(s)'
      BY <3>1 DEF Emptied
    <3>3. \A v \in Workers : pc[v] = "move" => slot[v] # s
      BY <1>2, <2>2 DEF Gone
    <3>4. \A k \in 0 .. size - 1 : s = Nth(front, k) => k \in 0 .. size' - 1 /\ s = Nth(front', k)
      BY <1>1
    <3> QED BY <1>1, <1>2, <3>1, <3>2, <3>3, <3>4 DEF Accounted
  <2> QED BY <2>1, <2>2
<1>13. ASSUME NEW k \in 0 .. size' - 1, k < size' - 1 \/ pc'[Owner] # "req_write"
       PROVE  items'[Nth(front', k)] = accepted'[Len(accepted') - size' + 1 + k]
  BY <1>1, <1>2, <1>11, <1>13 DEF Story
<1> QED BY <1>9, <1>10, <1>12, <1>13, <1>14 DEF Story

LEMMA Running ==
  ASSUME ActorInv, Operands, Story, NEW w \in Workers, RunJob(w)
  PROVE  Story'
<1> DEFINE n == Len(accepted)
           m == Len(ran)
<1>1. /\ Go(w, "run", "count") /\ UNCHANGED <<rear, front, size, items, op, slot, item, clash, accepted>>
      /\ ran' = Append(ran, item[w])
  BY DEF RunJob, queueVars
<1>2. /\ pc[w] = "run" /\ pc'[w] = "count" /\ pc'[Owner] = pc[Owner]
      /\ \A v \in Workers : v # w => pc'[v] = pc[v] /\ Gone(v)
  <2>1. /\ pc[w] = "run" /\ pc'[w] = "count" /\ pc'[Owner] = pc[Owner]
        /\ \A v \in Workers : v # w => pc'[v] = pc[v]
    BY <1>1, Sides DEF Go, At, ActorInv, Life
  <2>2. OthersGone(w)
    BY <2>1, TheWorker DEF ActorInv, Gone
  <2> QED BY <2>1, <2>2 DEF OthersGone
<1>3. InHand = {w} /\ InHand' = {}
  BY <1>2 DEF InHand, Gone
<1>4. n = m + size + 1 /\ size \in Nat /\ n \in Nat /\ m \in Nat
  BY <1>2, <1>3 DEF Story, Operands
<1>5. Len(ran') = m + 1
  BY <1>1 DEF Operands
<1>6. IndexesAgree' /\ Writer' /\ Room'
  BY <1>1, <1>2 DEF Story, IndexesAgree, Writer, Room
<1>7. ASSUME NEW v \in Workers PROVE Reader(v)'
  BY <1>1, <1>2 DEF Story, Reader, Gone
<1>8. Len(accepted') = Len(ran') + size' + (IF InHand' = {} THEN 0 ELSE 1)
  <2>1. Len(accepted') = n /\ Len(ran') = m + 1 /\ size' = size
    BY <1>1, <1>5
  <2> HIDE DEF n, m
  <2> QED BY <1>3, <1>4, <2>1, SMT
<1>9. ASSUME NEW i \in 0 .. size' - 1, i < size' - 1 \/ pc'[Owner] # "req_write"
      PROVE  items'[Nth(front', i)] = accepted'[Len(accepted') - size' + 1 + i]
  BY <1>1, <1>2, <1>9 DEF Story
<1>10. ASSUME NEW s \in Slots PROVE Accounted(s)'
  <2>1. Accounted(s) /\ \A v \in Workers : pc[v] = "move" => pc'[v] = "move"
    BY <1>2 DEF Story
  <2>2. Emptied(s) => Emptied(s)'
    BY <1>1 DEF Emptied
  <2>3. \A v \in Workers : slot'[v] = slot[v]
    BY <1>1
  <2>4. \A k \in 0 .. size - 1 : s = Nth(front, k) => k \in 0 .. size' - 1 /\ s = Nth(front', k)
    BY <1>1
  <2> QED BY <1>1, <1>2, <2>1, <2>2, <2>3, <2>4 DEF Accounted
<1> QED BY <1>6, <1>7, <1>8, <1>9, <1>10 DEF Story

(* The client asks for room before it calls.                               *)
LEMMA Asking ==
  ASSUME KeepsRoom, Clients = {Owner}, ActorInv, Operands, Story, RequestWorkable(Owner)
  PROVE  Story'
<1>1. /\ RoomLeft /\ Go(Owner, "idle", "req_state")
      /\ UNCHANGED <<rear, front, size, items, op, slot, item, clash, accepted, ran>>
  BY DEF RequestWorkable, queueVars, history
<1>2. /\ pc[Owner] = "idle" /\ pc'[Owner] = "req_state" /\ \A w \in Workers : pc'[w] = pc[w]
  BY <1>1, Sides DEF Go, At, ActorInv, Life
<1>3. size < Capacity /\ \A w \in Workers : pc[w] = "move" => size + 1 < Capacity
  <2>1. size \in Nat /\ Capacity \in Nat /\ size + Cardinality(Moving) < Capacity
    BY <1>1, CapacityAssumption DEF RoomLeft, ActorInv, Balance
  <2>2. ASSUME NEW w \in Workers, pc[w] = "move" PROVE Moving = {w}
    <3>1. OthersGone(w)
      BY <2>2, TheWorker DEF ActorInv, Gone
    <3>2. \A v \in Workers : op[v] = "move" <=> pc[v] = "move"
      BY DEF Story, Reader
    <3> QED BY <2>2, <3>1, <3>2 DEF Moving, OthersGone, Gone
  <2>3. (\A w \in Workers : pc[w] # "move") => Moving = {}
    BY DEF Moving, Story, Reader
  <2>4. ASSUME NEW w \in Workers, pc[w] = "move" PROVE size < Capacity /\ size + 1 < Capacity
    <3>1. Cardinality(Moving) = 1
      BY <2>2, <2>4, FS_Singleton
    <3> QED BY <2>1, <3>1, SMT
  <2>5. (\A w \in Workers : pc[w] # "move") => size < Capacity
    <3>1. (\A w \in Workers : pc[w] # "move") => Cardinality(Moving) = 0
      BY <2>3, FS_EmptySet
    <3> QED BY <2>1, <3>1, SMT
  <2> QED BY <2>4, <2>5
<1>4. Room'
  BY <1>1, <1>2, <1>3 DEF Room
<1> QED BY <1>1, <1>2, <1>4, StillTold

LEMMA StoryInit ==
  ASSUME Init
  PROVE  Story
<1> USE CapacityAssumption
<1>1. /\ rear = 0 /\ front = 0 /\ size = 0 /\ op = [t \in Threads |-> "none"]
      /\ accepted = <<>> /\ ran = <<>> /\ pc[Owner] = "spawn_thread"
      /\ \A w \in Workers : pc[w] = "unborn"
  BY Sides DEF Init, QueueInit
<1>2. IndexesAgree
  BY <1>1, SMT DEF IndexesAgree
<1>3. Writer /\ Room /\ InHand = {} /\ \A w \in Workers : Reader(w)
  BY <1>1, Sides DEF Writer, Room, InHand, Reader
<1>4. Len(accepted) = 0 /\ Len(ran) = 0
  BY <1>1
<1>5. ASSUME NEW s \in Slots PROVE Accounted(s)
  <2>1. items[s] = Blank
    BY DEF Init, QueueInit
  <2> QED BY <2>1, ItemAssumption DEF Accounted, Emptied, Blank
<1> QED BY <1>1, <1>2, <1>3, <1>4, <1>5 DEF Story

\* Where the places matter to the story.
StoryPlaces == {"req_state", "req_enqueue", "req_write", "move", "run"}
mailboxVars == <<rear, front, size, items, op, slot, clash, accepted, ran>>

(* A thread that moves between other places keeps the story, if it keeps   *)
(* the mailbox and the client's item.                                      *)
LEMMA StillStanding ==
  ASSUME Story, UNCHANGED mailboxVars, item'[Owner] = item[Owner],
         \A u \in Threads : \A x \in StoryPlaces : pc'[u] = x => pc[u] = x,
         \A u \in Threads : \A x \in {"req_write", "move", "run"} : pc[u] = x => pc'[u] = x
  PROVE  Story'
<1>1. Room'
  BY Sides DEF Story, Room, mailboxVars, StoryPlaces
<1>2. pc'[Owner] = "req_write" <=> pc[Owner] = "req_write"
  BY Sides DEF StoryPlaces
<1>3. \A w \in Workers : \A x \in {"move", "run"} : pc'[w] = x <=> pc[w] = x
  BY Sides DEF StoryPlaces
<1> QED BY <1>1, <1>2, <1>3, StillTold DEF mailboxVars

LEMMA StillStandingMove ==
  ASSUME ActorInv, Story, UNCHANGED mailboxVars, UNCHANGED item,
         NEW t \in Threads, NEW a, NEW b, Go(t, a, b),
         a \notin {"req_write", "move", "run"}, b \notin StoryPlaces
  PROVE  Story'
<1>1. /\ \A u \in Threads : \A x \in StoryPlaces : pc'[u] = x => pc[u] = x
      /\ \A u \in Threads : \A x \in {"req_write", "move", "run"} : pc[u] = x => pc'[u] = x
  BY Going DEF ActorInv, Life
<1> QED BY <1>1, StillStanding

LEMMA RequestStory ==
  ASSUME KeepsRoom, Clients = {Owner}, ActorInv, Operands, Story, Request(Owner) \/ WaitForExit(Owner)
  PROVE  Story'
<1> Owner \in Threads /\ DOMAIN pc = Threads
  BY Sides DEF ActorInv, Life
<1>1. CASE RequestState(Owner)
  <2>1. /\ Go(Owner, "req_state", IF state = "DEAD" THEN "idle" ELSE "req_enqueue")
        /\ UNCHANGED <<rear, front, size, items, op, slot, item, clash, accepted, ran>>
    BY <1>1 DEF RequestState, queueVars, history
  <2>2. /\ pc[Owner] = "req_state" /\ pc'[Owner] \in {"idle", "req_enqueue"}
        /\ \A w \in Workers : pc'[w] = pc[w]
    BY <2>1, Sides DEF Go, At
  <2>3. Room'
    BY <2>1, <2>2 DEF Story, Room
  <2> QED BY <2>1, <2>2, <2>3, StillTold
<1>2. CASE RequestFull(Owner) \/ RequestActivate(Owner) \/ RequestSignal(Owner) \/ WaitForExit(Owner)
  <2>1. UNCHANGED mailboxVars /\ UNCHANGED item
    BY <1>2
       DEF RequestFull, RequestActivate, RequestSignal, WaitForExit, TrySend, mailboxVars, queueVars, history
  <2>2. \E a \in {"req_enqueue", "req_activate", "req_signal", "idle"},
           b \in {"idle", "req_signal", "joining"} : Go(Owner, a, b)
    BY <1>2 DEF RequestFull, RequestActivate, RequestSignal, WaitForExit, TrySend
  <2>3. PICK a \in {"req_enqueue", "req_activate", "req_signal", "idle"},
             b \in {"idle", "req_signal", "joining"} : Go(Owner, a, b)
    BY <2>2
  <2> QED BY <2>1, <2>3, StillStandingMove DEF StoryPlaces
<1>3. CASE RequestCount(Owner)
  <2>1. UNCHANGED mailboxVars /\ UNCHANGED item
    BY <1>3 DEF RequestCount, mailboxVars, queueVars, history
  <2>2. PICK b \in {"req_activate", "idle"} : Go(Owner, "req_count", b)
    BY <1>3 DEF RequestCount
  <2> QED BY <2>1, <2>2, StillStandingMove DEF StoryPlaces
<1> QED BY <1>1, <1>2, <1>3, Asking, Enqueuing, Writing DEF Request

LEMMA OwnerStory ==
  ASSUME ActorInv, Story, Kill(Owner) \/ Spawn(Owner)
  PROVE  Story'
<1> Owner \in Threads /\ DOMAIN pc = Threads
  BY Sides DEF ActorInv, Life
<1>1. UNCHANGED mailboxVars /\ UNCHANGED item
  BY DEF Kill, KillFlag, KillSwap, KillDetach, KillSend, KillCheck, KillClaim, KillTake,
         Spawn, Respawn, SpawnThread, SpawnCheck, SpawnClaim, SpawnTake, SpawnSwap,
         RecvCheck, RecvClaim, TrySend, mailboxVars, queueVars, history
<1>2. CASE SpawnThread(Owner)
  <2>1. PICK w \in Workers :
          /\ pc[w] \in {"unborn", "ended"}
          /\ pc' = [pc EXCEPT ![Owner] = "spawn_check", ![w] = "start"]
    BY <1>2 DEF SpawnThread
  <2>2. pc[Owner] = "spawn_thread"
    BY <1>2 DEF SpawnThread, At
  <2>3. \A u \in Threads : \A x \in StoryPlaces : pc'[u] = x <=> pc[u] = x
    BY <2>1, <2>2, Sides DEF StoryPlaces
  <2> QED BY <1>1, <2>3, StillStanding DEF StoryPlaces
<1>3. CASE SpawnSwap(Owner)
  <2>1. /\ pc[Owner] = "spawn_swap"
        /\ pc' = [t \in Threads |-> IF t = Owner \/ pc[t] = "outside" THEN "idle" ELSE pc[t]]
    BY <1>3 DEF SpawnSwap, At
  <2>2. \A u \in Threads : \A x \in StoryPlaces : pc'[u] = x <=> pc[u] = x
    BY <2>1 DEF StoryPlaces
  <2> QED BY <1>1, <2>2, StillStanding DEF StoryPlaces
<1>4. ASSUME ~SpawnThread(Owner), ~SpawnSwap(Owner) PROVE Story'
  <2> DEFINE From == {"idle", "kill_swap", "kill_detach", "kill_send", "kill_check", "kill_claim",
                      "kill_take", "spawn_check", "spawn_claim", "spawn_take"}
             To == {"idle", "kill_swap", "kill_detach", "kill_send", "kill_check", "kill_claim",
                    "kill_take", "spawn_thread", "spawn_claim", "spawn_take", "spawn_swap"}
  <2>1. CASE Kill(Owner)
    <3>1. UNCHANGED pc \/ \E a \in From, b \in To : Go(Owner, a, b)
      BY <2>1
         DEF Kill, KillFlag, KillSwap, KillDetach, KillSend, KillCheck, KillClaim, KillTake,
             RecvCheck, RecvClaim, TrySend, Fail
    <3>2. ASSUME NEW a \in From, NEW b \in To, Go(Owner, a, b) PROVE Story'
      BY <1>1, <3>2, StillStandingMove DEF StoryPlaces
    <3> QED BY <1>1, <3>1, <3>2, StillStanding
  <2>2. CASE Spawn(Owner)
    <3>1. UNCHANGED pc \/ \E a \in From, b \in To : Go(Owner, a, b)
      BY <1>4, <2>2
         DEF Spawn, Respawn, SpawnCheck, SpawnClaim, SpawnTake, RecvCheck, RecvClaim, Fail
    <3>2. ASSUME NEW a \in From, NEW b \in To, Go(Owner, a, b) PROVE Story'
      BY <1>1, <3>2, StillStandingMove DEF StoryPlaces
    <3> QED BY <1>1, <3>1, <3>2, StillStanding
  <2> QED BY <2>1, <2>2
<1> QED BY <1>2, <1>3, <1>4

LEMMA WorkerStory ==
  ASSUME Clients = {Owner}, ActorInv, Operands, Story, NEW w \in Workers, Work(w)
  PROVE  Story'
<1> w \in Threads /\ DOMAIN pc = Threads /\ w # Owner
  BY Sides DEF ActorInv, Life
<1> DEFINE From == {"start", "load", "hello", "ready", "open", "check", "claim", "count", "rest", "bye", "die"}
           To == {"load", "hello", "ready", "open", "check", "claim", "take", "dequeue", "rest", "die", "ended"}
<1>1. CASE TakeSignal(w)
  <2>1. UNCHANGED mailboxVars /\ item' = IF signal = "active" THEN [item EXCEPT ![w] = Blank] ELSE item
    BY <1>1 DEF TakeSignal, mailboxVars, history
  <2>2. \A u \in Threads : u # w => item'[u] = item[u]
    BY <2>1 DEF Operands
  <2>3. pc[w] = "take" /\ (UNCHANGED pc \/ \E b \in {"dequeue", "bye"} : Go(w, "take", b))
    <3>1. CASE signal = "active"
      BY <1>1, <3>1 DEF TakeSignal, Go, At
    <3>2. CASE signal = "go_exit"
      BY <1>1, <3>2 DEF TakeSignal, Go, At
    <3>3. CASE signal # "active" /\ signal # "go_exit"
      BY <1>1, <3>3, Zenon DEF TakeSignal, Fail, At
    <3> QED BY <3>1, <3>2, <3>3
  <2>4. /\ \A u \in Threads : \A x \in StoryPlaces : pc'[u] = x => pc[u] = x
        /\ \A u \in Threads : \A x \in {"req_write", "move", "run"} : pc[u] = x => pc'[u] = x
    BY <2>3, Going DEF StoryPlaces
  <2>5. item'[Owner] = item[Owner]
    BY <2>2, Sides
  <2> QED BY <2>1, <2>4, <2>5, StillStanding
<1>2. CASE Start(w) \/ Load(w) \/ Hello(w) \/ Ready(w) \/ Open(w) \/ Check(w) \/ Claim(w)
  <2>1. UNCHANGED mailboxVars /\ UNCHANGED item
    BY <1>2
       DEF Start, Load, Hello, Ready, Open, Check, Claim, Store, RecvCheck, RecvClaim, TrySend,
           mailboxVars, queueVars, history
  <2>2. UNCHANGED pc \/ \E a \in From, b \in To : Go(w, a, b)
    BY <1>2
       DEF Start, Load, Hello, Ready, Open, Check, Claim, Store, RecvCheck, RecvClaim, TrySend, Fail
  <2>3. ASSUME NEW a \in From, NEW b \in To, Go(w, a, b) PROVE Story'
    BY <2>1, <2>3, StillStandingMove DEF StoryPlaces
  <2> QED BY <2>1, <2>2, <2>3, StillStanding
<1>3. CASE CountJob(w) \/ Rest(w) \/ Bye(w) \/ Die(w)
  <2>1. UNCHANGED mailboxVars /\ UNCHANGED item
    BY <1>3 DEF CountJob, Rest, Bye, Die, Store, TrySend, mailboxVars, queueVars, history
  <2>2. UNCHANGED pc \/ \E a \in From, b \in To : Go(w, a, b)
    BY <1>3 DEF CountJob, Rest, Bye, Die, Store, TrySend, Fail
  <2>3. ASSUME NEW a \in From, NEW b \in To, Go(w, a, b) PROVE Story'
    BY <2>1, <2>3, StillStandingMove DEF StoryPlaces
  <2> QED BY <2>1, <2>2, <2>3, StillStanding
<1> QED BY <1>1, <1>2, <1>3, Dequeuing, Taking, Running DEF Work, Epoch

LEMMA StoryStep ==
  KeepsRoom /\ Clients = {Owner} /\ ActorInv /\ ActorTypeOK /\ Story /\ [Next]_vars => Story'
<1> SUFFICES ASSUME KeepsRoom, Clients = {Owner}, ActorInv, ActorTypeOK, Story, [Next]_vars
             PROVE  Story'
  OBVIOUS
<1>1. Operands
  BY Operated
<1>2. CASE UNCHANGED vars
  BY <1>2, StillStanding DEF vars, queueVars, history, mailboxVars
<1> QED BY <1>1, <1>2, RequestStory, OwnerStory, WorkerStory DEF Next

-----------------------------------------------------------------------------
(* What the jobs are worked off with.  In an epoch the worker has an empty *)
(* item or the one it ran last, and the next job is assigned to that.      *)
RunAs(v, i, jobs, runs) ==
  \A p \in Parts :
    \/ v[p] = jobs[i][p]
    \/ p \in Keeping /\ jobs[i][p] = None /\ i > 1 /\ v[p] = runs[i - 1][p]

Carried(v) == (\A q \in Keeping : v[q] = None) \/ (Len(ran) > 0 /\ v = ran[Len(ran)])

Turn(w) ==
  /\ pc[w] \in {"dequeue", "move", "count"} => Carried(item[w])
  /\ pc[w] = "run" => RunAs(item[w], Len(ran) + 1, accepted, ran)

Record ==
  /\ \A w \in Workers : Turn(w)
  /\ \A i \in 1 .. Len(ran) : RunAs(ran[i], i, accepted, ran)

\* No job is run that was not accepted.
Behind ==
  /\ Len(ran) \in Nat /\ Len(accepted) \in Nat /\ Len(ran) <= Len(accepted)
  /\ \A w \in Workers : pc[w] = "run" => Len(ran) + 1 <= Len(accepted)

LEMMA RunsBehind == Operands /\ Story => Behind
<1> SUFFICES ASSUME Operands, Story PROVE Behind
  OBVIOUS
<1>1. /\ Len(ran) \in Nat /\ Len(accepted) \in Nat /\ size \in Nat
      /\ Len(accepted) = Len(ran) + size + (IF InHand = {} THEN 0 ELSE 1)
  BY DEF Operands, Story
<1>2. \A w \in Workers : pc[w] = "run" => InHand # {}
  BY DEF InHand
<1>3. Len(ran) <= Len(accepted) /\ (InHand # {} => Len(ran) + 1 <= Len(accepted))
  BY <1>1, SMT
<1> QED BY <1>1, <1>2, <1>3 DEF Behind

(* A step that runs nothing keeps the record, if it lets the workers that  *)
(* have a job in hand alone and an epoch begins with an empty item.        *)
LEMMA StillOnRecord ==
  ASSUME Behind, Record, ran' = ran,
         \A k \in 1 .. Len(accepted) : accepted'[k] = accepted[k],
         \A w \in Workers :
           \/ pc'[w] \notin {"dequeue", "move", "run", "count"}
           \/ item'[w] = Blank /\ pc'[w] = "dequeue"
           \/ /\ item'[w] = item[w]
              /\ pc'[w] = "run" <=> pc[w] = "run"
              /\ pc[w] \in {"dequeue", "move", "run", "count"}
  PROVE  Record'
<1>1. ASSUME NEW v, NEW i \in Nat \ {0}, i <= Len(accepted), RunAs(v, i, accepted, ran)
      PROVE  RunAs(v, i, accepted', ran')
  <2>1. i \in 1 .. Len(accepted)
    BY <1>1, SMT DEF Behind
  <2>2. accepted'[i] = accepted[i]
    BY <2>1
  <2> QED BY <1>1, <2>2 DEF RunAs
<1>2. ASSUME NEW w \in Workers PROVE Turn(w)'
  <2>1. CASE pc'[w] \notin {"dequeue", "move", "run", "count"}
    BY <2>1 DEF Turn
  <2>2. CASE item'[w] = Blank /\ pc'[w] = "dequeue"
    <3>1. \A q \in Keeping : Blank[q] = None
      BY ItemAssumption DEF Blank
    <3> QED BY <2>2, <3>1 DEF Turn, Carried
  <2>3. CASE /\ item'[w] = item[w]
             /\ pc'[w] = "run" <=> pc[w] = "run"
             /\ pc[w] \in {"dequeue", "move", "run", "count"}
    <3>1. CASE pc[w] = "run"
      <4>1. RunAs(item[w], Len(ran) + 1, accepted, ran) /\ Len(ran) + 1 <= Len(accepted)
        BY <3>1 DEF Record, Turn, Behind
      <4>2. Len(ran) + 1 \in Nat \ {0}
        BY SMT DEF Behind
      <4>3. RunAs(item[w], Len(ran) + 1, accepted', ran')
        BY <1>1, <4>1, <4>2
      <4>4. RunAs(item'[w], Len(ran') + 1, accepted', ran')
        BY <2>3, <4>3
      <4> QED BY <2>3, <3>1, <4>4 DEF Turn
    <3>2. CASE pc[w] # "run"
      <4>1. Carried(item[w])
        BY <2>3, <3>2 DEF Record, Turn
      <4> QED BY <2>3, <3>2, <4>1 DEF Turn, Carried
    <3> QED BY <3>1, <3>2
  <2> QED BY <2>1, <2>2, <2>3
<1>3. ASSUME NEW i \in 1 .. Len(ran') PROVE RunAs(ran'[i], i, accepted', ran')
  <2>1. i \in 1 .. Len(ran)
    OBVIOUS
  <2>2. i \in Nat \ {0} /\ i <= Len(accepted) /\ RunAs(ran[i], i, accepted, ran)
    BY <2>1, SMT DEF Behind, Record
  <2>3. RunAs(ran[i], i, accepted', ran')
    BY <1>1, <2>2
  <2> QED BY <2>3
<1> QED BY <1>2, <1>3 DEF Record

(* The worker assigns the job to the item it carries, and runs the result. *)
LEMMA OnRecord ==
  ASSUME ActorInv, Operands, Story, Record, NEW w \in Workers, MoveJob(w) \/ RunJob(w)
  PROVE  Record'
<1> DEFINE m == Len(ran)
<1> w \in Threads /\ DOMAIN pc = Threads
  BY Sides DEF ActorInv, Life
<1>1. /\ m \in Nat /\ m <= Len(accepted) /\ accepted' = accepted
      /\ \A i \in 1 .. m : RunAs(ran[i], i, accepted, ran)
  BY RunsBehind DEF Behind, Record, MoveJob, RunJob, history
<1>2. \A v \in Workers : v # w => pc'[v] = pc[v] /\ Gone(v)
  <2>1. pc[w] \in {"move", "run"} /\ \A v \in Workers : v # w => pc'[v] = pc[v]
    BY Sides DEF MoveJob, RunJob, Go, At
  <2>2. OthersGone(w)
    BY <2>1, TheWorker DEF ActorInv, Gone
  <2> QED BY <2>1, <2>2 DEF OthersGone
<1>3. ASSUME NEW v \in Workers, v # w PROVE Turn(v)'
  BY <1>2, <1>3 DEF Turn, Gone
<1>4. CASE MoveJob(w)
  <2> DEFINE s == slot[w]
             job == items[s]
  <2>1. /\ pc[w] = "move" /\ pc'[w] = "run" /\ ran' = ran
        /\ \E v \in Outcomes(w, items[s]) : item' = [item EXCEPT ![w] = Assigned(item[w], v)]
    BY <1>4 DEF MoveJob, DequeueMove, Go, At, history
  <2>2. /\ ~clash[w] /\ job = accepted[m + 1] /\ Carried(item[w]) /\ job \in Items
        /\ item[w] \in Items
    BY <2>1, Sides DEF Story, Reader, Record, Turn, Operands
  <2>3. item'[w] = Assigned(item[w], job)
    <3>1. Outcomes(w, items[s]) = {job}
      BY <2>2 DEF Outcomes
    <3> QED BY <2>1, <3>1 DEF Operands
  <2>4. RunAs(item'[w], m + 1, accepted, ran)
    <3> SUFFICES ASSUME NEW p \in Parts
                 PROVE  \/ item'[w][p] = job[p]
                        \/ p \in Keeping /\ job[p] = None /\ m + 1 > 1 /\ item'[w][p] = ran[m + 1 - 1][p]
      BY <2>2 DEF RunAs
    <3>1. item'[w][p] = IF p \in Keeping /\ job[p] = None THEN item[w][p] ELSE job[p]
      BY <2>3 DEF Assigned
    <3>2. CASE p \in Keeping /\ job[p] = None
      <4>1. CASE \A q \in Keeping : item[w][q] = None
        BY <3>1, <3>2, <4>1
      <4>2. CASE Len(ran) > 0 /\ item[w] = ran[Len(ran)]
        <5>1. m + 1 > 1 /\ m + 1 - 1 = m /\ item[w] = ran[m]
          BY <1>1, <4>2
        <5> QED BY <3>1, <3>2, <5>1
      <4> QED BY <2>2, <4>1, <4>2 DEF Carried
    <3>3. CASE ~(p \in Keeping /\ job[p] = None)
      BY <3>1, <3>3
    <3> QED BY <3>2, <3>3
  <2>5. Turn(w)'
    BY <1>1, <2>1, <2>4 DEF Turn
  <2> QED BY <1>1, <1>3, <2>1, <2>5 DEF Record
<1>5. CASE RunJob(w)
  <2>1. pc[w] = "run" /\ pc'[w] = "count" /\ ran' = Append(ran, item[w]) /\ item' = item
    BY <1>5 DEF RunJob, Go, At, queueVars
  <2>2. /\ Len(ran') = m + 1 /\ ran'[m + 1] = item[w] /\ \A k \in 1 .. m : ran'[k] = ran[k]
    BY <2>1, Sides DEF Operands
  <2> HIDE DEF m
  <2>3. Turn(w)'
    <3>1. Len(ran') > 0 /\ item'[w] = ran'[Len(ran')]
      BY <1>1, <2>1, <2>2, SMT
    <3> QED BY <2>1, <3>1 DEF Turn, Carried
  <2>4. RunAs(item[w], m + 1, accepted, ran)
    BY <2>1 DEF Record, Turn, m
  <2>5. ASSUME NEW i \in 1 .. m + 1, NEW v, RunAs(v, i, accepted, ran)
        PROVE  RunAs(v, i, accepted, ran')
    <3>1. i > 1 => i - 1 \in 1 .. m
      BY <1>1, SMT
    <3>2. i > 1 => ran'[i - 1] = ran[i - 1]
      BY <2>2, <3>1
    <3> QED BY <2>5, <3>2 DEF RunAs
  <2>6. ASSUME NEW i \in 1 .. m + 1 PROVE RunAs(ran'[i], i, accepted, ran')
    <3>1. i = m + 1 \/ i \in 1 .. m
      BY <1>1, SMT
    <3>2. RunAs(ran'[i], i, accepted, ran)
      BY <1>1, <2>2, <2>4, <3>1
    <3> QED BY <2>5, <3>2
  <2> QED BY <1>1, <1>3, <2>2, <2>3, <2>6 DEF Record
<1> QED BY <1>4, <1>5

LEMMA RecordStep ==
  /\ KeepsRoom /\ Clients = {Owner} /\ ActorInv /\ ActorTypeOK /\ Story /\ Record
  /\ [Next]_vars
  => Record'
<1> SUFFICES ASSUME Clients = {Owner}, ActorInv, ActorTypeOK, Story, Record, [Next]_vars
             PROVE  Record'
  OBVIOUS
<1> DEFINE Hands == {"dequeue", "move", "run", "count"}
<1>1. Operands /\ Behind
  BY Operated, RunsBehind
<1> DOMAIN pc = Threads /\ \A w \in Workers : w \in Threads
  BY Sides DEF ActorInv, Life
<1>2. CASE UNCHANGED vars
  BY <1>1, <1>2, StillOnRecord DEF vars, queueVars, history
<1>3. CASE Request(Owner) \/ WaitForExit(Owner) \/ Kill(Owner) \/ Spawn(Owner)
  <2>1. ran' = ran /\ \A w \in Workers : item'[w] = item[w]
    BY <1>1, <1>3, Sides
       DEF Request, RequestWorkable, RequestState, RequestEnqueue, RequestFull, RequestWrite, RequestCount,
           RequestActivate, RequestSignal, WaitForExit, EnqueueReserve, EnqueueWrite,
           Kill, KillFlag, KillSwap, KillDetach, KillSend, KillCheck, KillClaim, KillTake,
           Spawn, Respawn, SpawnThread, SpawnCheck, SpawnClaim, SpawnTake, SpawnSwap,
           RecvCheck, RecvClaim, TrySend, queueVars, history, Operands
  <2>2. \A k \in 1 .. Len(accepted) : accepted'[k] = accepted[k]
    <3>1. accepted' = accepted \/ \E j \in Values : accepted' = Append(accepted, j)
      BY <1>3
         DEF Request, RequestWorkable, RequestState, RequestEnqueue, RequestFull, RequestWrite, RequestCount,
             RequestActivate, RequestSignal, WaitForExit,
             Kill, KillFlag, KillSwap, KillDetach, KillSend, KillCheck, KillClaim, KillTake,
             Spawn, Respawn, SpawnThread, SpawnCheck, SpawnClaim, SpawnTake, SpawnSwap,
             RecvCheck, RecvClaim, TrySend, history
    <3> QED BY <1>1, <3>1 DEF Operands
  <2>3. \A w \in Workers : \A x \in Hands : pc'[w] = x <=> pc[w] = x
    BY <1>3, Sides
       DEF Request, RequestWorkable, RequestState, RequestEnqueue, RequestFull, RequestWrite, RequestCount,
           RequestActivate, RequestSignal, WaitForExit,
           Kill, KillFlag, KillSwap, KillDetach, KillSend, KillCheck, KillClaim, KillTake,
           Spawn, Respawn, SpawnThread, SpawnCheck, SpawnClaim, SpawnTake, SpawnSwap,
           RecvCheck, RecvClaim, TrySend, Go, Fail, At
  <2> QED BY <1>1, <2>1, <2>2, <2>3, StillOnRecord
<1>4. ASSUME NEW w \in Workers, Work(w) PROVE Record'
  <2>1. CASE MoveJob(w) \/ RunJob(w)
    BY <1>1, <2>1, OnRecord
  <2>2. CASE TakeSignal(w)
    <3>1. ran' = ran /\ accepted' = accepted /\ pc[w] = "take"
      BY <2>2, Zenon DEF TakeSignal, history, Go, Fail, At
    <3>2. \A v \in Workers : v # w => item'[v] = item[v] /\ pc'[v] = pc[v]
      BY <1>1, <2>2, Zenon DEF TakeSignal, Go, Fail, At, Operands
    <3>3. (item'[w] = Blank /\ pc'[w] = "dequeue") \/ pc'[w] \in {"bye", "take"}
      <4>1. CASE signal = "active"
        BY <1>1, <2>2, <4>1 DEF TakeSignal, Go, At, Operands
      <4>2. CASE signal = "go_exit"
        BY <2>2, <4>2 DEF TakeSignal, Go, At
      <4>3. CASE signal # "active" /\ signal # "go_exit"
        BY <2>2, <3>1, <4>3, Zenon DEF TakeSignal, Fail, At
      <4> QED BY <4>1, <4>2, <4>3
    <3> QED BY <1>1, <3>1, <3>2, <3>3, StillOnRecord
  <2>3. CASE Start(w) \/ Load(w) \/ Hello(w) \/ Ready(w) \/ Open(w) \/ Check(w) \/ Claim(w)
             \/ Rest(w) \/ Bye(w) \/ Die(w)
    <3>1. ran' = ran /\ accepted' = accepted /\ item' = item
      BY <2>3
         DEF Start, Load, Hello, Ready, Open, Check, Claim, Rest, Bye, Die, Store, RecvCheck, RecvClaim,
             TrySend, queueVars, history
    <3>2. pc'[w] \notin Hands /\ \A v \in Workers : v # w => pc'[v] = pc[v]
      BY <2>3
         DEF Start, Load, Hello, Ready, Open, Check, Claim, Rest, Bye, Die, Store, RecvCheck, RecvClaim,
             TrySend, Go, Fail, At
    <3> QED BY <1>1, <3>1, <3>2, StillOnRecord
  <2>4. CASE DequeueJob(w) \/ CountJob(w)
    <3>1. ran' = ran /\ accepted' = accepted /\ item' = item
      BY <2>4 DEF DequeueJob, DequeueReserve, CountJob, queueVars, history
    <3>2. pc[w] \in {"dequeue", "count"} /\ pc'[w] # "run" /\ \A v \in Workers : v # w => pc'[v] = pc[v]
      BY <2>4 DEF DequeueJob, CountJob, Go, At
    <3> QED BY <1>1, <3>1, <3>2, StillOnRecord
  <2> QED BY <1>4, <2>1, <2>2, <2>3, <2>4 DEF Work, Epoch
<1> QED BY <1>2, <1>3, <1>4 DEF Next

(* With one client that keeps a slot free, the jobs run in the order in    *)
(* which they were accepted, each once and with its own arguments and all  *)
(* its own functions, whatever the capacity and however often the actor is *)
(* killed and respawned.  Where a job has an empty container, those of the *)
(* job before it may run again; nothing else does, as in KeepsRoom's use   *)
(* every job is moved into a slot that was emptied (actor.h:69, 161-170).  *)
THEOREM JobsKeepTheirOrder ==
  ASSUME RespawnWaits, KeepsRoom, Clients = {Owner}
  PROVE  Spec => []JobsInOrder
<1>1. ASSUME ActorTypeOK, Story, Record PROVE JobsInOrder
  BY <1>1, Operated, RunsBehind DEF Behind, Record, RunAs, JobsInOrder
<1>2. Init => Story
  BY StoryInit
<1>3. Init => Record
  BY Sides DEF Init, Record, Turn
<1> QED BY <1>1, <1>2, <1>3, StoryStep, RecordStep, ActorInit, ActorStep, ActorTypesCorrect, PTL DEF Spec

(* With that client, all jobs accepted have run when kill goes ahead: the  *)
(* worker is at rest, so the counter is 0 and the mailbox empty            *)
(* (actor.h:90).                                                           *)
THEOREM KillDrainsTheMailbox ==
  ASSUME RespawnWaits, KeepsRoom, Clients = {Owner}
  PROVE  Spec => []KillDrains
<1>1. ASSUME ActorInv, ActorTypeOK, Story PROVE KillDrains
  <2> SUFFICES ASSUME pc[Owner] \in {"kill_detach", "kill_send", "kill_check", "kill_claim", "kill_take"}
               PROVE  Len(ran) = Len(accepted)
    BY DEF KillDrains
  <2>1. Busy = {} /\ ~Called
    <3>1. CASE AllGone /\ (Unborn \/ Dead)
      BY <3>1, Sides DEF AllGone, Gone, Unborn, Dead, Free, Told, FreePlaces, Busy, Called
    <3>2. ASSUME NEW w \in Workers, OthersGone(w), Alive(w) PROVE Busy = {} /\ ~Called
      <4>1. Killed(w) \/ Leaving(w)
        BY <3>2 DEF Alive, Young, Greeted, Grown, FreePlaces
      <4> QED BY <3>2, <4>1 DEF OthersGone, Gone, Killed, Leaving, Free, Told, FreePlaces, Busy, Called
    <3> QED BY <1>1, <3>1, <3>2 DEF ActorInv, Life
  <2>2. Activators = {} /\ Uncounted = {}
    BY DEF Activators, Uncounted
  <2>3. counter = 0 /\ InEpoch = {} /\ InHand = {}
    BY <1>1, <2>1, <2>2 DEF ActorInv, Token, Busy, InEpoch, InHand
  <2>4. size = 0
    <3>1. Cardinality(InEpoch) = 0 /\ Cardinality(Uncounted) = 0
      BY <2>2, <2>3, FS_EmptySet
    <3> QED BY <1>1, <2>3, <3>1, SMT DEF ActorInv, Balance
  <2> QED BY <1>1, <2>3, <2>4, Operated DEF Story, Operands
<1>2. Init => Story
  BY StoryInit
<1> QED BY <1>1, <1>2, StoryStep, ActorInit, ActorStep, ActorTypesCorrect, PTL DEF Spec

=============================================================================
