------------------------------ MODULE RingQueue ------------------------------
(***************************************************************************)
(* vee::syncronized_ringqueue (vee/queue.h): the state of one queue and    *)
(* the steps of the threads that call it.                                  *)
(*                                                                         *)
(* enqueue and dequeue work in two steps.  Under _index_guard they pick a  *)
(* slot and update _rear, _front and _size; after releasing _index_guard   *)
(* they access the slot.  The item guard of the slot is wrapped in a       *)
(* unique_lock with std::adopt_lock, which takes over a lock the thread is *)
(* assumed to own and does not acquire it, so nothing orders the accesses  *)
(* of two threads to one slot.  The critical section of _index_guard is    *)
(* one step here: the three index fields are touched nowhere else.         *)
(*                                                                         *)
(* An item is a function from its parts to what they hold.  The mail_t of  *)
(* an actor has three: the two containers of its delegate, each of which   *)
(* may be empty, and the tuple of arguments; an int is a part of its own.  *)
(*                                                                         *)
(* The module has no Spec: QueueClients and Actor drive its actions.       *)
(***************************************************************************)
EXTENDS Integers

CONSTANTS
  Capacity,   \* _capacity
  Threads,    \* the threads that call the queue
  Parts,      \* the parts of an item
  Keeping,    \* those of its delegate, which keep what they have when the source
              \* of an assignment has none
  Contents,   \* what a part can hold
  None,       \* a part that holds nothing, such as an empty container
  Mixed,      \* what overlapping accesses of a class type can leave in a part
  Values,     \* the items that are enqueued
  ClassType   \* TRUE: DataType is a class that is moved, such as mail_t;
              \* FALSE: a scalar, copied by one machine instruction

ASSUME CapacityAssumption == Capacity \in Nat \ {0}
ASSUME ContentsAssumption == None \notin Contents /\ Mixed \notin Contents /\ None # Mixed
ASSUME ItemAssumption ==
  Keeping \subseteq Parts /\ Values \subseteq [Parts -> Contents \cup {None}]
ASSUME ClassTypeAssumption == ClassType \in BOOLEAN

VARIABLES
  rear, front, size,   \* _rear, _front, _size
  items,               \* _item_container
  op,                  \* op[t]: the half of a call that thread t has left to do
  slot,                \* slot[t]: the local variable rear or front of that call
  item,                \* item[t]: the argument of enqueue or of dequeue
  clash                \* clash[t]: another access to the slot overlapped this one

queueVars == <<rear, front, size, items, op, slot, item, clash>>

Slots == 0 .. Capacity - 1
Items == [Parts -> Contents \cup {None, Mixed}]
Blank == [p \in Parts |-> None]     \* a value-initialised item
Torn == [p \in Parts |-> Mixed]

QueueInit ==
  /\ rear = 0 /\ front = 0 /\ size = 0
  /\ items = [s \in Slots |-> Blank]
  /\ op = [t \in Threads |-> "none"]
  /\ slot = [t \in Threads |-> 0]
  /\ item = [t \in Threads |-> Blank]
  /\ clash = [t \in Threads |-> FALSE]

-----------------------------------------------------------------------------
AdvanceShort(i) == (i + 1) % (Capacity - 1)   \* mutant: the last slot is forgotten
AdvanceOver(i) == i + 1                       \* mutant: the index does not wrap

\* ++_rear %= _capacity, and the same for _front
Advance(i) == (i + 1) % Capacity

is_full == size = Capacity
is_empty == size = 0

\* Thread t picks slot s for the access a: from here to the end of the access
\* it overlaps with every access to s that is under way.
Pick(t, s, a) ==
  LET others == {u \in Threads \ {t} : op[u] # "none" /\ slot[u] = s}
  IN /\ op' = [op EXCEPT ![t] = a]
     /\ slot' = [slot EXCEPT ![t] = s]
     /\ clash' = [u \in Threads |-> IF u = t THEN others # {}
                                    ELSE clash[u] \/ u \in others]

\* What an access of thread t may yield that, undisturbed, yields v: a class type
\* is not assigned in one instruction, so overlapping accesses may mix the two.
Outcomes(t, v) == {v} \cup (IF ClassType /\ clash[t] THEN {Torn} ELSE {})

\* The destination of an assignment: the delegate's operator= looks at each of the
\* two containers of the source, and keeps its own where that one is empty.
Assigned(old, new) ==
  [p \in Parts |-> IF p \in Keeping /\ new[p] = None THEN old[p] ELSE new[p]]

LeftBehindCopy(v) == v                        \* mutant: the item is copied out

\* The source of the assignment in dequeue, which moves whatever can be moved: the
\* containers are empty after it.  The numbers of an args tuple stay.
LeftBehind(v) == [p \in Parts |-> IF p \in Keeping THEN None ELSE v[p]]

EnqueueReserve(t, v) ==
  /\ op[t] = "none"
  /\ ~is_full
  /\ Pick(t, rear, "write")
  /\ rear' = Advance(rear)
  /\ size' = size + 1
  /\ item' = [item EXCEPT ![t] = v]
  /\ UNCHANGED <<front, items>>

\* The access of thread t ends; with it ends the life of what the thread had noted.
Leave(t) ==
  /\ op' = [op EXCEPT ![t] = "none"]
  /\ slot' = [slot EXCEPT ![t] = 0]
  /\ clash' = [clash EXCEPT ![t] = FALSE]

EnqueueWrite(t) ==
  /\ op[t] = "write"
  /\ \E v \in Outcomes(t, Assigned(items[slot[t]], item[t])) :
       items' = [items EXCEPT ![slot[t]] = v]
  /\ item' = [item EXCEPT ![t] = Blank]
  /\ Leave(t)
  /\ UNCHANGED <<rear, front, size>>

DequeueReserve(t) ==
  /\ op[t] = "none"
  /\ ~is_empty
  /\ Pick(t, front, "move")
  /\ size' = size - 1
  /\ front' = Advance(front)
  /\ UNCHANGED <<rear, items, item>>

DequeueMove(t) ==
  /\ op[t] = "move"
  /\ \E v \in Outcomes(t, items[slot[t]]) :
       /\ item' = [item EXCEPT ![t] = Assigned(item[t], v)]
       /\ \E w \in Outcomes(t, LeftBehind(v)) : items' = [items EXCEPT ![slot[t]] = w]
  /\ Leave(t)
  /\ UNCHANGED <<rear, front, size>>

ShallowDequeue(t) ==
  /\ op[t] = "none"
  /\ ~is_empty
  /\ size' = size - 1
  /\ front' = Advance(front)
  /\ UNCHANGED <<rear, items, op, slot, item, clash>>

-----------------------------------------------------------------------------
(* The fields and the locals of the callers have the values their C++      *)
(* types and the assertions of queue.h allow.                              *)
QueueTypeOK ==
  /\ rear \in Slots /\ front \in Slots /\ size \in 0 .. Capacity
  /\ items \in [Slots -> Items]
  /\ op \in [Threads -> {"none", "write", "move"}]
  /\ slot \in [Threads -> Slots]
  /\ item \in [Threads -> Items]
  /\ clash \in [Threads -> BOOLEAN]

(* The three index fields agree whatever the threads do: _rear is _size    *)
(* slots after _front, around the ring (queue.h:66-77, 107-113).           *)
IndexesAgree == rear = (front + size) % Capacity

(* No two threads are between picking a slot and being done with it for    *)
(* one slot at a time.  This is what the adopted item guards of            *)
(* queue.h:78 and 115 say: the adopting thread owns the guard of the slot. *)
SlotExclusive ==
  \A t, u \in Threads :
    t # u /\ op[t] # "none" /\ op[u] # "none" => slot[t] # slot[u]
=============================================================================
