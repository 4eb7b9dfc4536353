------------------------------ MODULE Scheduler ------------------------------
(***************************************************************************)
(* vee::scheduler and its vee::actor_group (vee/scheduler.h, vee/actor.h): *)
(* clients hand jobs to the actors of a group in turn, while a manager     *)
(* adds actors to the group and removes them.                              *)
(*                                                                         *)
(* Of an actor there is the count of the items in its mailbox, which Actor *)
(* shows to be kept by any number of clients: it refuses jobs until its    *)
(* worker has opened it and once kill has begun, refuses them when its     *)
(* mailbox is full, and its worker takes every item out before kill        *)
(* returns.  Which job the worker finds in the slot of an item depends on  *)
(* how the clients overlap there; that is RingQueue's and Actor's subject  *)
(* and nothing is said of it here.  at() takes no lock, so a client's      *)
(* steps interleave with those of the manager.                             *)
(***************************************************************************)
EXTENDS Integers, Sequences, FiniteSets

CONSTANTS
  Clients, Jobs, Actors, NoActor,
  InitActors,      \* init_actors: the actors the constructor adds, in their order
  MailboxSize,     \* mailbox_size
  Movable,         \* the jobs that lose something when a mail is made of them: a
                   \* delegate passed as an rvalue, or arguments that own memory
  StaleSizes,      \* what the storage of _size may hold: it has no initialiser
  IntMax,          \* the greatest value of the counter
  AfterIntMax      \* the value after it: -IntMax - 1, or 0 for a counter that does
                   \* not overflow, kept modulo a multiple of the sizes of the group

ASSUME SchedulerAssumption ==
  /\ InitActors \in Seq(Actors) /\ NoActor \notin Actors
  /\ Jobs # {} /\ Movable \subseteq Jobs
  /\ MailboxSize \in Nat \ {0} /\ IntMax \in Nat \ {0}
  /\ AfterIntMax \in {0, -IntMax - 1}
  /\ StaleSizes \subseteq Int

VARIABLES
  counter,     \* the static counter of _get_current_actor_index
  size,        \* actor_group::_size
  actors,      \* actor_group::_actor_pointers
  status,      \* status[a]: "none", "starting", "open", "closing" or "gone"
  waiting,     \* waiting[a]: how many items the mailbox of a holds
  spent,       \* the jobs that have been moved from while request still tries them
  stale,       \* history: what the storage of _size held
  entered,     \* history: entered[a]: the jobs a mail of which was put into a's mailbox
  taken,       \* history: taken[a]: how many items the worker of a has taken
  result,      \* result[j]: "none", "pending", or what request returned
  job, index, actor,   \* job[c], index[c], actor[c]: the locals of request
  pc, manager

groupVars == <<size, actors, status>>
mailVars == <<waiting, entered, taken>>
clientVars == <<job, index, actor, pc>>
vars == <<counter, groupVars, mailVars, spent, stale, result, clientVars, manager>>

Count == Len(actors)

\* the value of job[c] between two requests
Blank == CHOOSE j \in Jobs : TRUE

\* The constructor adds its actors one by one to what _size holds.
Init ==
  /\ counter = 0
  /\ stale \in StaleSizes
  /\ size = stale + Len(InitActors)
  /\ actors = InitActors
  /\ status = [a \in Actors |->
       IF \E k \in 1 .. Len(InitActors) : InitActors[k] = a THEN "starting" ELSE "none"]
  /\ waiting = [a \in Actors |-> 0]
  /\ entered = [a \in Actors |-> {}]
  /\ taken = [a \in Actors |-> 0]
  /\ spent = {}
  /\ result = [j \in Jobs |-> "none"]
  /\ job = [c \in Clients |-> Blank]
  /\ index = [c \in Clients |-> 0]
  /\ actor = [c \in Clients |-> NoActor]
  /\ pc = [c \in Clients |-> "idle"]
  /\ manager = "idle"

Go(c, a, b) == pc[c] = a /\ pc' = [pc EXCEPT ![c] = b]

\* The scope of index and actor ends: another try begins, or request returns.
Retry(c, a) ==
  /\ Go(c, a, "draw")
  /\ index' = [index EXCEPT ![c] = 0]
  /\ actor' = [actor EXCEPT ![c] = NoActor]

Return(c, a, r) ==
  /\ Go(c, a, "idle")
  /\ result' = [result EXCEPT ![job[c]] = r]
  /\ job' = [job EXCEPT ![c] = Blank]
  /\ index' = [index EXCEPT ![c] = 0]
  /\ actor' = [actor EXCEPT ![c] = NoActor]

-----------------------------------------------------------------------------
(* The actors: the worker opens its actor, and works its mailbox off.  It  *)
(* may take an item before the client that put it there has returned.      *)
Open(a) ==
  /\ status[a] = "starting"
  /\ status' = [status EXCEPT ![a] = "open"]
  /\ UNCHANGED <<counter, size, actors, mailVars, spent, stale, result, clientVars, manager>>

\* mutant: the last item is left in the mailbox
WorkButLast(a) ==
  /\ waiting[a] > 1
  /\ waiting' = [waiting EXCEPT ![a] = @ - 1]
  /\ taken' = [taken EXCEPT ![a] = @ + 1]
  /\ UNCHANGED <<counter, groupVars, entered, spent, stale, result, clientVars, manager>>

Work(a) ==
  /\ waiting[a] > 0
  /\ waiting' = [waiting EXCEPT ![a] = @ - 1]
  /\ taken' = [taken EXCEPT ![a] = @ + 1]
  /\ UNCHANGED <<counter, groupVars, entered, spent, stale, result, clientVars, manager>>

-----------------------------------------------------------------------------
(* request: draw an index, take the actor there, try it, or draw again.    *)
\* The application does not call request while it removes an actor.
Begin(c) ==
  /\ manager \in {"idle", "push"}
  /\ \E j \in Jobs :
       /\ result[j] = "none"
       /\ result' = [result EXCEPT ![j] = "pending"]
       /\ job' = [job EXCEPT ![c] = j]
  /\ Go(c, "idle", "draw")
  /\ UNCHANGED <<counter, groupVars, mailVars, spent, stale, index, actor, manager>>

\* counter++ on an atomic int, which wraps
DrawIndex(c) ==
  /\ index' = [index EXCEPT ![c] = counter]
  /\ counter' = IF counter = IntMax THEN AfterIntMax ELSE counter + 1
  /\ Go(c, "draw", "divide")
  /\ UNCHANGED <<groupVars, mailVars, spent, stale, result, job, actor, manager>>

\* The remainder of C++ has the sign of the dividend.
Magnitude(n) == IF n < 0 THEN -n ELSE n
Remainder(n, d) ==
  LET m == Magnitude(n) % Magnitude(d) IN IF n < 0 THEN -m ELSE m

DivideIndex(c) ==
  /\ Go(c, "divide", "at")
  /\ size # 0
  /\ Remainder(index[c], size) >= 0
  /\ index' = [index EXCEPT ![c] = Remainder(@, size)]
  /\ UNCHANGED <<counter, groupVars, mailVars, spent, stale, result, job, actor, manager>>

Refuse(c) ==
  /\ Return(c, "divide", "false")
  /\ size # 0 => Remainder(index[c], size) < 0
  /\ UNCHANGED <<counter, groupVars, mailVars, spent, stale, manager>>

At(c) ==
  /\ IF index[c] >= Count
     THEN Retry(c, "at")
     ELSE /\ Go(c, "at", "request")
          /\ actor' = [actor EXCEPT ![c] = actors[index[c] + 1]]
          /\ index' = [index EXCEPT ![c] = 0]
  /\ UNCHANGED <<counter, groupVars, mailVars, spent, stale, result, job, manager>>

\* mutant: the mail is made before the actor is asked whether it is open
NotWorkableMoved(c) ==
  /\ Retry(c, "request")
  /\ status[actor[c]] # "open"
  /\ spent' = spent \cup ({job[c]} \cap Movable)
  /\ UNCHANGED <<counter, groupVars, mailVars, stale, result, job, manager>>

\* The actor returns -1: it is not open.
NotWorkable(c) ==
  /\ Retry(c, "request")
  /\ status[actor[c]] # "open"
  /\ UNCHANGED <<counter, groupVars, mailVars, spent, stale, result, job, manager>>

Workable(c) ==
  /\ Go(c, "request", "enqueue")
  /\ status[actor[c]] = "open"
  /\ UNCHANGED <<counter, groupVars, mailVars, spent, stale, result, job, index, actor, manager>>

\* mutant: any result but -1 is taken for success
MailboxFullIsFine(c) ==
  /\ Return(c, "enqueue", "true")
  /\ waiting[actor[c]] = MailboxSize
  /\ UNCHANGED <<counter, groupVars, mailVars, spent, stale, manager>>

\* The actor returns -2.  The job has been moved into the mail, which is lost.
MailboxFull(c) ==
  /\ Retry(c, "enqueue")
  /\ waiting[actor[c]] = MailboxSize
  /\ spent' = spent \cup ({job[c]} \cap Movable)
  /\ UNCHANGED <<counter, groupVars, mailVars, stale, result, job, manager>>

\* A mail is put into the mailbox: of the job, or of what is left of a spent one.
Enqueue(c) ==
  /\ Go(c, "enqueue", "count")
  /\ waiting[actor[c]] < MailboxSize
  /\ waiting' = [waiting EXCEPT ![actor[c]] = @ + 1]
  /\ entered' = [entered EXCEPT ![actor[c]] = @ \cup {job[c]}]
  /\ UNCHANGED <<counter, groupVars, taken, spent, stale, result, job, index, actor, manager>>

\* The actor has counted the item and, where it had to, woken its worker.
Accept(c) ==
  /\ Return(c, "count", "true")
  /\ UNCHANGED <<counter, groupVars, mailVars, spent, stale, manager>>

Request(c) ==
  \/ DrawIndex(c) \/ DivideIndex(c) \/ Refuse(c) \/ At(c)
  \/ NotWorkable(c) \/ Workable(c) \/ MailboxFull(c) \/ Enqueue(c) \/ Accept(c)

-----------------------------------------------------------------------------
(* add_actor and remove_actor.  Bound: Actors; an actor is made once.      *)
AddPush ==
  /\ manager = "idle"
  /\ \E a \in Actors :
       /\ status[a] = "none"
       /\ status' = [status EXCEPT ![a] = "starting"]
       /\ actors' = Append(actors, a)
  /\ manager' = "push"
  /\ UNCHANGED <<counter, size, mailVars, spent, stale, result, clientVars>>

\* mutant: the size of the group is forgotten
AddSizeNot ==
  /\ manager = "push"
  /\ manager' = "idle"
  /\ UNCHANGED <<counter, groupVars, mailVars, spent, stale, result, clientVars>>

AddSize ==
  /\ manager = "push"
  /\ size' = size + 1
  /\ manager' = "idle"
  /\ UNCHANGED <<counter, actors, status, mailVars, spent, stale, result, clientVars>>

\* The group is not empty: pop_back of an empty vector is undefined.
RemoveSize ==
  /\ manager = "idle"
  /\ Count > 0
  /\ \A c \in Clients : pc[c] = "idle"
  /\ size' = size - 1
  /\ manager' = "pop"
  /\ UNCHANGED <<counter, actors, status, mailVars, spent, stale, result, clientVars>>

\* pop_back destroys the last element and then shortens the vector; the destructor
\* of the actor is kill.
RemoveKill ==
  /\ manager = "pop"
  /\ status[actors[Count]] = "open"
  /\ status' = [status EXCEPT ![actors[Count]] = "closing"]
  /\ manager' = "kill"
  /\ UNCHANGED <<counter, size, actors, mailVars, spent, stale, result, clientVars>>

\* mutant: the actor is destroyed with the items in its mailbox
RemovePopAtOnce ==
  /\ manager = "kill"
  /\ waiting' = [waiting EXCEPT ![actors[Count]] = 0]
  /\ status' = [status EXCEPT ![actors[Count]] = "gone"]
  /\ actors' = SubSeq(actors, 1, Count - 1)
  /\ manager' = "idle"
  /\ UNCHANGED <<counter, size, entered, taken, spent, stale, result, clientVars>>

RemovePop ==
  /\ manager = "kill"
  /\ waiting[actors[Count]] = 0
  /\ status' = [status EXCEPT ![actors[Count]] = "gone"]
  /\ actors' = SubSeq(actors, 1, Count - 1)
  /\ manager' = "idle"
  /\ UNCHANGED <<counter, size, mailVars, spent, stale, result, clientVars>>

Manage == AddPush \/ AddSize \/ RemoveSize \/ RemoveKill \/ RemovePop

-----------------------------------------------------------------------------
Next ==
  \/ \E c \in Clients : Begin(c) \/ Request(c)
  \/ \E a \in Actors : Open(a) \/ Work(a)
  \/ Manage

Spec == Init /\ [][Next]_vars

\* A request goes on, workers work, an add or remove that has begun goes on.
Fairness ==
  /\ \A c \in Clients : WF_vars(Request(c))
  /\ \A a \in Actors : WF_vars(Open(a)) /\ WF_vars(Work(a))
  /\ WF_vars(AddSize \/ RemoveKill \/ RemovePop)

FairSpec == Spec /\ Fairness

-----------------------------------------------------------------------------
(* The fields, the locals and the mailboxes have values of their types; no *)
(* mailbox holds more than it was made for.                                *)
TypeOK ==
  /\ counter \in AfterIntMax .. IntMax /\ size \in Int
  /\ actors \in Seq(Actors)
  /\ status \in [Actors -> {"none", "starting", "open", "closing", "gone"}]
  /\ waiting \in [Actors -> 0 .. MailboxSize]
  /\ taken \in [Actors -> Nat]
  /\ entered \in [Actors -> SUBSET Jobs]
  /\ spent \subseteq Movable /\ stale \in StaleSizes
  /\ result \in [Jobs -> {"none", "pending", "true", "false"}]
  /\ job \in [Clients -> Jobs] /\ index \in [Clients -> Int]
  /\ actor \in [Clients -> Actors \cup {NoActor}]
  /\ pc \in [Clients -> {"idle", "draw", "divide", "at", "request", "enqueue", "count"}]
  /\ manager \in {"idle", "push", "pop", "kill"}

(* request returns true exactly for the jobs of which a mail was put into  *)
(* a mailbox, one mail into one mailbox however often it tried; and every  *)
(* item of a mailbox is there or has been taken by the worker, also when   *)
(* the actor has been removed (scheduler.h:29-46, actor.h:52-56).          *)
TrueMeansAccepted ==
  /\ \A j \in Jobs : result[j] = "true" => \E a \in Actors : j \in entered[a]
  /\ \A a \in Actors : \A j \in entered[a] :
       result[j] = "true" \/ \E c \in Clients : pc[c] = "count" /\ job[c] = j
  /\ \A a, b \in Actors : a # b => entered[a] \cap entered[b] = {}
  /\ \A a \in Actors : waiting[a] + taken[a] = Cardinality(entered[a])

(* A request loses its job only on a mailbox full of other jobs: while the *)
(* actors it draws are not there yet or not yet open, it still has all of  *)
(* it to hand over (scheduler.h:39-41, actor.h:65-71).                     *)
LostOnlyWhenFull ==
  \A j \in spent : \E a \in Actors : Cardinality(entered[a] \ {j}) >= MailboxSize

(* request gives up only when the group is empty, its only actor is just   *)
(* being added, or the counter has overflowed; with what the storage of    *)
(* _size held before the first actor was counted: where that was negative, *)
(* when there are as many actors as it was below 0, and where it was       *)
(* positive never (scheduler.h:32-33, 52-57, actor.h:219-239, 252).        *)
FalseMeansNoActors ==
  [][\A c \in Clients : pc[c] = "divide" /\ result'[job[c]] = "false"
       => \/ Count = -stale
          \/ Count = -stale + 1 /\ manager = "push"
          \/ index[c] < 0]_vars

(* _size and the vector, which capacity() and at() read without the lock,  *)
(* agree when no add_actor or remove_actor is under way (actor.h:219-245). *)
SizeIsCount == manager = "idle" => size = Count

(* request returns, unless _size promises actors of a group that is empty  *)
(* (scheduler.h:29-46, actor.h:237-245, 252).                              *)
RequestReturns ==
  \A c \in Clients : pc[c] # "idle" ~> pc[c] = "idle" \/ (Count = 0 /\ size # 0)

(* For every job an actor accepted, its worker takes an item out of its    *)
(* mailbox, also when the actor is removed (scheduler.h:46, actor.h:52-56, *)
(* 226-232).                                                               *)
AcceptedIsTaken ==
  \A a \in Actors : \A n \in 1 .. Cardinality(Jobs) :
    Cardinality(entered[a]) >= n ~> taken[a] >= n
=============================================================================
