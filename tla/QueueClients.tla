---------------------------- MODULE QueueClients ----------------------------
(***************************************************************************)
(* Producers and consumers that share one syncronized_ringqueue, the way   *)
(* the queue test of main.cpp:101-141 and the mailbox of an actor use it.  *)
(* A call that returns false changes nothing and is not a step.            *)
(*                                                                         *)
(* The queue alone does not order the accesses to a slot; a caller can,    *)
(* by waiting.  ConsumersWait: a consumer calls dequeue only when it knows *)
(* that an item has been written and not taken, as an actor does through   *)
(* _mailbox_counter.  ProducersWait: the producers keep one slot free for  *)
(* every item that is being moved out.                                     *)
(***************************************************************************)
EXTENDS RingQueue, Sequences, FiniteSets

CONSTANTS Producers, Consumers, ConsumersWait, ProducersWait

ASSUME ClientsAssumption ==
  /\ Producers \cap Consumers = {}
  /\ Threads = Producers \cup Consumers
ASSUME WaitAssumption == ConsumersWait \in BOOLEAN /\ ProducersWait \in BOOLEAN

Writing == {t \in Threads : op[t] = "write"}
Moving == {t \in Threads : op[t] = "move"}

ItemWritten == size > Cardinality(Writing)
RoomLeft == size + Cardinality(Moving) < Capacity

Enqueue(p) ==
  /\ ProducersWait => RoomLeft
  /\ \E v \in Values : EnqueueReserve(p, v)

Dequeue(c) ==
  /\ ConsumersWait => ItemWritten
  /\ DequeueReserve(c)

Discard(c) ==
  /\ ConsumersWait => ItemWritten
  /\ ShallowDequeue(c)

Next ==
  \/ \E p \in Producers : Enqueue(p) \/ EnqueueWrite(p)
  \/ \E c \in Consumers : Dequeue(c) \/ DequeueMove(c) \/ Discard(c)

Spec == QueueInit /\ [][Next]_queueVars

-----------------------------------------------------------------------------
(* With one consumer that waits, two threads meet in one slot only when    *)
(* the queue is full: dequeue frees the slot before the item has left it,  *)
(* so the next enqueue of a full queue writes the slot that is being moved *)
(* out of (queue.h:111-123).                                               *)
ClashOnlyWhenFull == SlotExclusive \/ is_full

(* What the queue holds, oldest first: the items from the slot that is     *)
(* being moved out, if there is one, up to the last slot that is written.  *)
Oldest == IF Moving = {} THEN front ELSE slot[CHOOSE c \in Moving : TRUE]
Count == size + Cardinality(Moving) - Cardinality(Writing)
Held == [i \in 1 .. Count |-> items[(Oldest + i - 1) % Capacity]]

\* What the other slots still hold of a delegate.
HeldBack ==
  {[p \in Keeping |-> items[s][p]] :
     s \in Slots \ {(Oldest + i - 1) % Capacity : i \in 1 .. Count}}

Fifo == INSTANCE BoundedFifo WITH
  Takers <- Consumers, queue <- Held, out <- [c \in Consumers |-> item[c]], left <- HeldBack

(* One producer and one consumer that both wait get a first-in first-out   *)
(* queue: every item put in by enqueue comes out of dequeue once, in order *)
(* and with every part it was put in with.  What it had none of is filled  *)
(* up at most with that of an item that shallow_dequeue left in the slot,  *)
(* or with what the consumer's variable held (queue.h:56-125,              *)
(* delegate.h:209-227).                                                    *)
IsFifo == Fifo!Spec
=============================================================================
