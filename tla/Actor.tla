-------------------------------- MODULE Actor --------------------------------
(***************************************************************************)
(* vee::actor (vee/actor.h): a worker thread, its mailbox (RingQueue), the *)
(* counter that tells the worker when to stop, and the signal channel      *)
(* (Rendezvous) through which clients start and stop the worker.           *)
(*                                                                         *)
(* Every access to _state, _workable, _mailbox_counter, _thread, the       *)
(* channel or the mailbox is a step of its own, so the steps of the        *)
(* clients and the worker interleave as on the machine.  A spin loop waits *)
(* in its guard.  pc[t] names what thread t does next.                     *)
(***************************************************************************)
EXTENDS RingQueue, SequencesExt

CONSTANTS
  Owner,        \* the client that constructs, kills and respawns the actor
  Clients,      \* the threads that call request, the owner among them
  Workers,      \* the threads the actor starts, one after the other
  NoThread,
  KeepsRoom,    \* the clients leave one slot of the mailbox free
  KillWaits,    \* the owner calls kill once for a spawn, and no call of request
                \* overlaps with it
  RespawnWaits  \* the owner calls respawn when the killed worker has ended

ASSUME ThreadAssumption ==
  /\ Owner \in Clients
  /\ Clients \cap Workers = {}
  /\ NoThread \notin Workers \cup Clients
  /\ Threads = Clients \cup Workers
ASSUME UseAssumption ==
  KeepsRoom \in BOOLEAN /\ KillWaits \in BOOLEAN /\ RespawnWaits \in BOOLEAN

VARIABLES
  phase, receiver, signal, got,   \* _sigch
  state, workable,                \* _state, _workable
  counter,                        \* _mailbox_counter
  thread,                         \* _thread: the worker it stands for
  newborn,                        \* the local variable t of _spawn
  failed,                         \* the throw that ended the program, if any
  accepted,                       \* history: the jobs enqueued, in their order
  ran,                            \* history: what was run for each job, in that order
  pc

channelVars == <<phase, receiver, signal, got>>
lifeVars == <<state, workable, thread, newborn, failed>>
history == <<accepted, ran>>
vars == <<queueVars, channelVars, lifeVars, counter, history, pc>>

Signals == {"spawn", "active", "go_exit", "exit_ok"}
NoSignal == "none"

Channel == INSTANCE Rendezvous WITH Receivers <- Threads, NoReceiver <- NoThread

\* The members before the constructor's body runs.  The other clients are outside:
\* they know the actor when its constructor has returned.
Init ==
  /\ QueueInit
  /\ Channel!ChannelInit
  /\ state = "SPAWN" /\ workable = FALSE /\ counter = 0
  /\ thread = NoThread /\ newborn = NoThread /\ failed = "no"
  /\ accepted = <<>> /\ ran = <<>>
  /\ pc = [t \in Threads |-> IF t = Owner THEN "spawn_thread"
                             ELSE IF t \in Workers THEN "unborn" ELSE "outside"]

\* Thread t is at a, and the program has not ended.
At(t, a) == failed = "no" /\ pc[t] = a

Go(t, a, b) == At(t, a) /\ pc' = [pc EXCEPT ![t] = b]

\* An exception that nothing catches ends the program.
Fail(t, a, why) == At(t, a) /\ failed' = why /\ UNCHANGED pc

\* compare_and_swap_strong(_state, exp, value) that succeeds
Swap(exp, value) == state = exp /\ state' = value

-----------------------------------------------------------------------------
(* recv and try_send of the channel, at the place a of thread t.           *)
RecvCheck(t, a, b) ==
  /\ IF phase = "waiting" THEN Fail(t, a, "already waiting")
                          ELSE Go(t, a, b) /\ UNCHANGED failed
  /\ UNCHANGED <<queueVars, channelVars, state, workable, thread, newborn, counter, history>>

RecvClaim(t, a, b) ==
  /\ Go(t, a, b)
  /\ Channel!Arm(t)
  /\ UNCHANGED <<queueVars, lifeVars, counter, history>>

TrySend(t, a, b, sig) ==
  /\ Go(t, a, b)
  /\ Channel!Send(sig)
  /\ UNCHANGED <<queueVars, lifeVars, counter, history>>

-----------------------------------------------------------------------------
(* request: -1 unless the actor is workable and not dead, -2 when the      *)
(* mailbox is full, else the old counter; the client that counts from 0    *)
(* wakes the worker.                                                       *)
Moving == {w \in Workers : op[w] = "move"}
RoomLeft == size + Cardinality(Moving) < Capacity

\* Bound: every job is accepted once, so Values bounds the requests.
JobsLeft ==
  Len(accepted) + Cardinality({c \in Clients : pc[c] \in {"req_state", "req_enqueue"}})
    < Cardinality(Values)

InRequest(c) == pc[c] \in {"req_state", "req_enqueue", "req_write", "req_count",
                           "req_activate", "req_signal"}
InKill(c) == pc[c] \in {"kill_swap", "kill_detach", "kill_send", "kill_check",
                        "kill_claim", "kill_take"}

\* The reading of _workable; request returns -1 when it is false.
RequestWorkable(c) ==
  /\ KeepsRoom => RoomLeft
  /\ KillWaits => \A d \in Clients : ~InKill(d)
  /\ JobsLeft
  /\ workable
  /\ Go(c, "idle", "req_state")
  /\ UNCHANGED <<queueVars, channelVars, lifeVars, counter, history>>

RequestState(c) ==
  /\ Go(c, "req_state", IF state = "DEAD" THEN "idle" ELSE "req_enqueue")
  /\ UNCHANGED <<queueVars, channelVars, lifeVars, counter, history>>

RequestEnqueue(c) ==
  /\ \E j \in Values :
       /\ \A i \in 1 .. Len(accepted) : accepted[i] # j
       /\ EnqueueReserve(c, j)
       /\ accepted' = Append(accepted, j)
  /\ Go(c, "req_enqueue", "req_write")
  /\ UNCHANGED <<channelVars, lifeVars, counter, ran>>

\* mutant: the result of enqueue is ignored
RequestFullCounted(c) ==
  /\ is_full
  /\ Go(c, "req_enqueue", "req_count")
  /\ UNCHANGED <<queueVars, channelVars, lifeVars, counter, history>>

RequestFull(c) ==
  /\ is_full
  /\ Go(c, "req_enqueue", "idle")
  /\ UNCHANGED <<queueVars, channelVars, lifeVars, counter, history>>

RequestWrite(c) ==
  /\ EnqueueWrite(c)
  /\ Go(c, "req_write", "req_count")
  /\ UNCHANGED <<channelVars, lifeVars, counter, history>>

\* mutant: every client wakes the worker
RequestCountAlways(c) ==
  /\ counter' = counter + 1
  /\ Go(c, "req_count", "req_activate")
  /\ UNCHANGED <<queueVars, channelVars, lifeVars, history>>

\* mutant: the new counter is compared, ++_mailbox_counter == 0
RequestCountNew(c) ==
  /\ counter' = counter + 1
  /\ Go(c, "req_count", "idle")
  /\ UNCHANGED <<queueVars, channelVars, lifeVars, history>>

RequestCount(c) ==
  /\ counter' = counter + 1
  /\ Go(c, "req_count", IF counter = 0 THEN "req_activate" ELSE "idle")
  /\ UNCHANGED <<queueVars, channelVars, lifeVars, history>>

\* mutant: the loop gives up at the first failure, and does not swap
RequestActivateNot(c) ==
  /\ Go(c, "req_activate", "req_signal")
  /\ UNCHANGED <<queueVars, channelVars, lifeVars, counter, history>>

RequestActivate(c) ==
  /\ Swap("IDLE", "PROC")
  /\ Go(c, "req_activate", "req_signal")
  /\ UNCHANGED <<queueVars, channelVars, workable, thread, newborn, failed, counter, history>>

RequestSignal(c) == TrySend(c, "req_signal", "idle", "active")

Request(c) ==
  \/ RequestWorkable(c) \/ RequestState(c) \/ RequestEnqueue(c) \/ RequestFull(c)
  \/ RequestWrite(c) \/ RequestCount(c) \/ RequestActivate(c) \/ RequestSignal(c)

-----------------------------------------------------------------------------
(* kill: no more requests, wait until the worker is idle, let go of its    *)
(* thread, tell it to exit and wait for its answer.                        *)
KillFlag(c) ==
  /\ KillWaits => state # "DEAD" /\ \A d \in Clients \ {c} : ~InRequest(d)
  /\ Go(c, "idle", "kill_swap")
  /\ workable' = FALSE
  /\ UNCHANGED <<queueVars, channelVars, state, thread, newborn, failed, counter, history>>

\* mutant: a plain store in place of the compare-exchange
KillStore(c) ==
  /\ Go(c, "kill_swap", "kill_detach")
  /\ state' = "DEAD"
  /\ UNCHANGED <<queueVars, channelVars, workable, thread, newborn, failed, counter, history>>

KillSwap(c) ==
  /\ Swap("IDLE", "DEAD")
  /\ Go(c, "kill_swap", "kill_detach")
  /\ UNCHANGED <<queueVars, channelVars, workable, thread, newborn, failed, counter, history>>

\* std::thread::detach throws when the thread is not joinable.
KillDetach(c) ==
  /\ IF thread = NoThread THEN Fail(c, "kill_detach", "not joinable")
                          ELSE Go(c, "kill_detach", "kill_send") /\ UNCHANGED failed
  /\ thread' = NoThread
  /\ UNCHANGED <<queueVars, channelVars, state, workable, newborn, counter, history>>

KillSendOnly(c) == TrySend(c, "kill_send", "idle", "go_exit")   \* mutant: no answer is awaited
KillSend(c) == TrySend(c, "kill_send", "kill_check", "go_exit")
KillCheck(c) == RecvCheck(c, "kill_check", "kill_claim")
KillClaim(c) == RecvClaim(c, "kill_claim", "kill_take")

KillTake(c) ==
  /\ Channel!Take(c)
  /\ Go(c, "kill_take", IF signal = "exit_ok" THEN "idle" ELSE "kill_check")
  /\ UNCHANGED <<queueVars, lifeVars, counter, history>>

Kill(c) ==
  \/ KillFlag(c) \/ KillSwap(c) \/ KillDetach(c) \/ KillSend(c)
  \/ KillCheck(c) \/ KillClaim(c) \/ KillTake(c)

-----------------------------------------------------------------------------
(* respawn, which returns false unless the actor is dead, and _spawn,      *)
(* which it shares with the constructor.                                   *)
Respawn(c) ==
  /\ RespawnWaits => \A w \in Workers : pc[w] \in {"unborn", "ended"}
  /\ Swap("DEAD", "SPAWN")
  /\ Go(c, "idle", "spawn_thread")
  /\ UNCHANGED <<queueVars, channelVars, workable, thread, newborn, failed, counter, history>>

\* Bound: Workers.  A worker that has ended can be started again, as a new thread.
SpawnThread(c) ==
  /\ At(c, "spawn_thread")
  /\ \E w \in Workers :
       /\ pc[w] \in {"unborn", "ended"}
       /\ newborn' = w
       /\ pc' = [pc EXCEPT ![c] = "spawn_check", ![w] = "start"]
  /\ UNCHANGED <<queueVars, channelVars, state, workable, thread, failed, counter, history>>

SpawnCheck(c) == RecvCheck(c, "spawn_check", "spawn_claim")
SpawnClaim(c) == RecvClaim(c, "spawn_claim", "spawn_take")

SpawnTake(c) ==
  /\ Channel!Take(c)
  /\ IF signal = "spawn" THEN Go(c, "spawn_take", "spawn_swap") /\ UNCHANGED failed
                         ELSE Fail(c, "spawn_take", "invalid signal")
  /\ UNCHANGED <<queueVars, state, workable, thread, newborn, counter, history>>

\* t.swap(_thread); the destructor of t ends the program if the old thread is joinable.
SpawnSwap(c) ==
  /\ At(c, "spawn_swap")
  /\ thread' = newborn
  /\ newborn' = NoThread
  /\ failed' = IF thread = NoThread THEN "no" ELSE "joinable"
  /\ pc' = [t \in Threads |-> IF t = c \/ pc[t] = "outside" THEN "idle" ELSE pc[t]]
  /\ UNCHANGED <<queueVars, channelVars, state, workable, counter, history>>

Spawn(c) ==
  \/ Respawn(c) \/ SpawnThread(c) \/ SpawnCheck(c) \/ SpawnClaim(c)
  \/ SpawnTake(c) \/ SpawnSwap(c)

\* waiting_for_exit joins a joinable thread.  A worker that may still be detached by
\* kill has not ended (KilledWorkerIsSpent), so the call does not come back.
WaitForExit(c) ==
  /\ ~KillWaits
  /\ thread # NoThread
  /\ Go(c, "idle", "joining")
  /\ UNCHANGED <<queueVars, channelVars, lifeVars, counter, history>>

-----------------------------------------------------------------------------
(* The worker: _actormain and _epoch.                                      *)
Start(w) ==
  /\ IF state = "SPAWN" THEN Go(w, "start", "load") /\ UNCHANGED failed
                        ELSE Fail(w, "start", "state is not SPAWN")
  /\ UNCHANGED <<queueVars, channelVars, state, workable, thread, newborn, counter, history>>

Store(w, a, b, s) ==
  /\ Go(w, a, b)
  /\ state' = s
  /\ UNCHANGED <<queueVars, channelVars, workable, thread, newborn, failed, counter, history>>

Load(w) == Store(w, "load", "hello", "LOADED")
Hello(w) == TrySend(w, "hello", "ready", "spawn")
Ready(w) == Store(w, "ready", "open", "IDLE")

Open(w) ==
  /\ Go(w, "open", "check")
  /\ workable' = TRUE
  /\ UNCHANGED <<queueVars, channelVars, state, thread, newborn, failed, counter, history>>

Check(w) == RecvCheck(w, "check", "claim")
Claim(w) == RecvClaim(w, "claim", "take")

\* The switch on the signal.  current_job is a new local of _epoch.
TakeSignal(w) ==
  /\ Channel!Take(w)
  /\ CASE signal = "active" -> Go(w, "take", "dequeue") /\ UNCHANGED failed
       [] signal = "go_exit" -> Go(w, "take", "bye") /\ UNCHANGED failed
       [] OTHER -> Fail(w, "take", "wrong signal")
  /\ item' = IF signal = "active" THEN [item EXCEPT ![w] = Blank] ELSE item
  /\ UNCHANGED <<rear, front, size, items, op, slot, clash>>
  /\ UNCHANGED <<state, workable, thread, newborn, counter, history>>

\* With an empty mailbox _epoch returns false and leaves _state as it is.
DequeueJob(w) ==
  /\ IF is_empty THEN Go(w, "dequeue", "check") /\ UNCHANGED queueVars
                 ELSE Go(w, "dequeue", "move") /\ DequeueReserve(w)
  /\ UNCHANGED <<channelVars, lifeVars, counter, history>>

MoveJob(w) ==
  /\ Go(w, "move", "run")
  /\ DequeueMove(w)
  /\ UNCHANGED <<channelVars, lifeVars, counter, history>>

\* mutant: a job is run only if its delegate has functions in every container
RunJobWhole(w) ==
  /\ Go(w, "run", "count")
  /\ ran' = IF \A p \in Parts : item[w][p] # None THEN Append(ran, item[w]) ELSE ran
  /\ UNCHANGED <<queueVars, channelVars, lifeVars, counter, accepted>>

\* e(args): the functions that current_job holds are called, none if there are none.
RunJob(w) ==
  /\ Go(w, "run", "count")
  /\ ran' = Append(ran, item[w])
  /\ UNCHANGED <<queueVars, channelVars, lifeVars, counter, accepted>>

\* mutant: the old counter is compared, _mailbox_counter-- == 0
CountJobOld(w) ==
  /\ counter' = counter - 1
  /\ Go(w, "count", IF counter = 0 THEN "rest" ELSE "dequeue")
  /\ UNCHANGED <<queueVars, channelVars, lifeVars, history>>

CountJob(w) ==
  /\ counter' = counter - 1
  /\ Go(w, "count", IF counter = 1 THEN "rest" ELSE "dequeue")
  /\ UNCHANGED <<queueVars, channelVars, lifeVars, history>>

Rest(w) ==
  /\ IF state = "PROC"
     THEN Go(w, "rest", "check") /\ state' = "IDLE" /\ UNCHANGED failed
     ELSE Fail(w, "rest", "CAS failure") /\ UNCHANGED state
  /\ UNCHANGED <<queueVars, channelVars, workable, thread, newborn, counter, history>>

Bye(w) == TrySend(w, "bye", "die", "exit_ok")
Die(w) == Store(w, "die", "ended", "DEAD")

Epoch(w) == DequeueJob(w) \/ MoveJob(w) \/ RunJob(w) \/ CountJob(w) \/ Rest(w)

Work(w) ==
  \/ Start(w) \/ Load(w) \/ Hello(w) \/ Ready(w) \/ Open(w)
  \/ Check(w) \/ Claim(w) \/ TakeSignal(w) \/ Epoch(w) \/ Bye(w) \/ Die(w)

-----------------------------------------------------------------------------
Next ==
  \/ \E c \in Clients : Request(c) \/ WaitForExit(c)
  \/ Kill(Owner) \/ Spawn(Owner)
  \/ \E w \in Workers : Work(w)

Spec == Init /\ [][Next]_vars

\* A thread inside a call goes on; no client has to begin one.
Fairness ==
  /\ \A c \in Clients : WF_vars(pc[c] # "idle" /\ (Request(c) \/ Kill(c) \/ Spawn(c)))
  /\ \A w \in Workers : WF_vars(Work(w))

FairSpec == Spec /\ Fairness

-----------------------------------------------------------------------------
(* The members, the history and the places of the threads have values of   *)
(* their types (actor.h:192-204).                                          *)
ActorTypeOK ==
  /\ QueueTypeOK
  /\ Channel!ChannelTypeOK
  /\ state \in {"SPAWN", "LOADED", "IDLE", "PROC", "DEAD"}
  /\ workable \in BOOLEAN
  /\ counter \in Int
  /\ thread \in Workers \cup {NoThread}
  /\ newborn \in Workers \cup {NoThread}
  /\ accepted \in Seq(Values)
  /\ ran \in Seq(Items)

(* No throw of actor.h or signal_channel.h is reached: the assertions at   *)
(* actor.h:126, 134, 153 and 177, the one at signal_channel.h:35, and      *)
(* those of std::thread.                                                   *)
NoFailure == failed = "no"

InEpoch == {w \in Workers : pc[w] \in {"move", "run", "count"}}
Uncounted == {c \in Clients : pc[c] \in {"req_write", "req_count"}}
Activators == {c \in Clients : pc[c] \in {"req_activate", "req_signal"}}

(* _mailbox_counter, which is updated apart from the mailbox, differs from *)
(* the number of items in it only by the calls that are in between, and    *)
(* the worker that goes round in _epoch always finds an item: the early    *)
(* return at actor.h:166, which would leave _state at PROC and the actor   *)
(* deaf, is not taken (actor.h:69-73, 159-171).                            *)
MailboxMatchesCounter ==
  /\ size + Cardinality(InEpoch) = counter + Cardinality(Uncounted)
  /\ \A w \in Workers : pc[w] = "dequeue" => ~is_empty

(* One client at a time is the one that counted from 0 and wakes the       *)
(* worker, and it does so while the worker is not in an epoch: the loops   *)
(* at actor.h:76 and 80 do not fight with each other.                      *)
OneActivator ==
  /\ \A c, d \in Activators : c = d
  /\ \A c \in Activators : pc[c] = "req_signal" =>
       \A w \in Workers : pc[w] \notin {"dequeue", "move", "run", "count", "rest"}

(* The jobs that have run are the jobs that were accepted, each once and    *)
(* in the order of their requests, up to some point; and each ran with its  *)
(* own arguments and all functions of its own.  That is all it ran, except  *)
(* that in place of a container it had none in, it may have run those of    *)
(* the job before it: _epoch uses one current_job for all the jobs of an    *)
(* epoch (actor.h:69, 161-170, delegate.h:219-227).                         *)
JobsInOrder ==
  /\ Len(ran) <= Len(accepted)
  /\ \A i \in 1 .. Len(ran) : \A p \in Parts :
       \/ ran[i][p] = accepted[i][p]
       \/ p \in Keeping /\ accepted[i][p] = None /\ i > 1 /\ ran[i][p] = ran[i - 1][p]

(* When kill has taken the actor from IDLE to DEAD, every job it accepted  *)
(* has run (actor.h:90).                                                   *)
KillDrains == pc[Owner] \in {"kill_detach", "kill_send", "kill_check", "kill_claim", "kill_take"}
                => Len(ran) = Len(accepted)

(* A worker that _thread stands for has not ended: it ends only after kill *)
(* has detached it, so the join at actor.h:117 is not released by its end. *)
(* And when kill has returned, all that the worker can still do to the     *)
(* actor is the store at actor.h:150.                                      *)
KilledWorkerIsSpent ==
  /\ thread # NoThread => pc[thread] \notin {"unborn", "ended"}
  /\ pc[Owner] = "idle" /\ thread = NoThread =>
       \A w \in Workers : pc[w] \in {"unborn", "die", "ended"}

(* An accepted job is run (actor.h:73-84, 162-174).                        *)
AcceptedIsRun == \A n \in 1 .. Cardinality(Values) : Len(accepted) >= n ~> Len(ran) >= n

(* The mailbox is worked off: whichever clients raised the counter, it     *)
(* comes back to 0, or kill overtakes them (actor.h:73-84, 171).           *)
MailboxDrains == counter > 0 ~> counter = 0 \/ state = "DEAD"

(* kill returns (actor.h:90-99).                                           *)
KillReturns == InKill(Owner) ~> ~InKill(Owner)
=============================================================================
