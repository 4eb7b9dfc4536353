----------------------------- MODULE QueueCopies ----------------------------
(***************************************************************************)
(* QueueClients with a thread that, again and again, assigns the shared    *)
(* queue to another one: operator= of syncronized_ringqueue and the        *)
(* constructors that call it (queue.h:32-39, 126-163; main.cpp:142-156).   *)
(*                                                                         *)
(* The thread holds _index_guard of the shared queue, rhs, from the        *)
(* capacity check to the end of the loop, so nobody picks a slot then; the *)
(* accesses that had begun go on.  lhs is the copying thread's own, so it  *)
(* is the sequence of its items, and its free slots hold what it has left  *)
(* there before.  Every item is copied, also when rhs is an rvalue:        *)
(* SyncronizedQueue is then deduced as the plain type.                     *)
(***************************************************************************)
EXTENDS QueueClients

CONSTANTS
  LhsCapacities,  \* the capacities of the queues assigned to
  LhsRemains      \* what their slots may hold when they are empty: Blank in a new
                  \* queue, and an item after shallow_dequeue

ASSUME LhsAssumption ==
  LhsCapacities \subseteq Nat /\ LhsRemains # {} /\ LhsRemains \subseteq Items

VARIABLES
  copy,       \* what lhs holds, oldest first
  at, left,   \* the local variable rear, and the turns left of the loop
  original    \* history: what rhs held when the copy began, if it was full or
              \* empty and nobody was accessing it

copyVars == <<copy, at, left, original>>
allVars == <<queueVars, copyVars>>

Unsettled == <<Torn>>

Settled == (is_full \/ is_empty) /\ Writing \cup Moving = {}

Accessed(s) == {t \in Threads : op[t] # "none" /\ slot[t] = s}

CopyInit ==
  /\ QueueInit
  /\ copy = <<>> /\ at = 0 /\ left = 0 /\ original = Unsettled

\* lhs.clear() and, when lhs is large enough, the guard and the two locals
Assign ==
  /\ left = 0
  /\ copy' = <<>>
  /\ \E capacity \in LhsCapacities :
       /\ at' = IF capacity < Capacity THEN 0 ELSE rear
       /\ left' = IF capacity < Capacity THEN 0 ELSE size
       /\ original' = IF capacity >= Capacity /\ Settled THEN Held ELSE Unsettled
  /\ UNCHANGED queueVars

CopyItemAhead ==                  \* mutant: the index moves before the copy
  /\ left > 0
  /\ at' = IF left = 1 THEN 0 ELSE Advance(at)
  /\ \E old \in LhsRemains : copy' = Append(copy, Assigned(old, items[Advance(at)]))
  /\ left' = left - 1
  /\ UNCHANGED <<queueVars, original>>

\* a turn of the loop; the item guard that it locks keeps nobody out
CopyItem ==
  /\ left > 0
  /\ \E v \in {items[at]} \cup (IF ClassType /\ Accessed(at) # {} THEN {Torn} ELSE {}) :
       \E old \in LhsRemains : copy' = Append(copy, Assigned(old, v))
  /\ at' = IF left = 1 THEN 0 ELSE Advance(at)
  /\ left' = left - 1
  /\ UNCHANGED <<queueVars, original>>

\* the guard is held while the loop runs
Unguarded == left = 0

CopyNext ==
  \/ Assign \/ CopyItem
  \/ /\ UNCHANGED copyVars
     /\ \/ Unguarded /\ \E p \in Producers : Enqueue(p)
        \/ Unguarded /\ \E c \in Consumers : Dequeue(c) \/ Discard(c)
        \/ \E p \in Producers : EnqueueWrite(p)
        \/ \E c \in Consumers : DequeueMove(c)

CopySpec == CopyInit /\ [][CopyNext]_allVars

-----------------------------------------------------------------------------
(* The copy of a full or an empty queue that nobody is accessing is the    *)
(* queue, item by item, wherever its items begin in the ring, except that  *)
(* a part an item has none of may be one that lhs had left in its slot.    *)
(* Nothing of the kind holds of the other copies: the loop starts at       *)
(* _rear, where the oldest item is only when the queue is full             *)
(* (queue.h:154, delegate.h:209-216).                                      *)
CopyOfFull ==
  left = 0 /\ original # Unsettled =>
    /\ Len(copy) = Len(original)
    /\ \A i \in 1 .. Len(copy) :
         \E old \in LhsRemains : copy[i] = Assigned(old, original[i])
=============================================================================
