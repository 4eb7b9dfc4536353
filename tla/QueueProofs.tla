----------------------------- MODULE QueueProofs -----------------------------
(***************************************************************************)
(* What the ring buffer of vee/queue.h guarantees for every capacity and   *)
(* every set of threads and items: its types, the agreement of its indexes *)
(* however its callers interleave, and, for one producer and one consumer  *)
(* that wait for each other, that no two threads meet in a slot and that   *)
(* the ring implements BoundedFifo.  And that the copy of a full queue is  *)
(* the queue.                                                              *)
(***************************************************************************)
EXTENDS QueueCopies, FiniteSetTheorems, SequenceTheorems, TLAPS

(* Around the ring: % Capacity subtracts Capacity at most once here.       *)
LEMMA Wrap ==
  ASSUME NEW i \in Slots, NEW n \in 0 .. Capacity
  PROVE  (i + n) % Capacity = IF i + n < Capacity THEN i + n ELSE i + n - Capacity
<1>1. CASE i + n < Capacity
  BY <1>1, CapacityAssumption, SMT DEF Slots
<1>2. CASE i + n >= Capacity
  BY <1>2, CapacityAssumption, SMT DEF Slots
<1> QED
  BY <1>1, <1>2, CapacityAssumption, SMT DEF Slots

(* Advance goes to the next slot, or from the last to the first.           *)
LEMMA Advancing ==
  ASSUME NEW i \in Slots
  PROVE  /\ Advance(i) \in Slots
         /\ Advance(i) = IF i + 1 = Capacity THEN 0 ELSE i + 1
<1>1. 1 \in 0 .. Capacity
  BY CapacityAssumption, SMT
<1>2. (i + 1) % Capacity = IF i + 1 < Capacity THEN i + 1 ELSE i + 1 - Capacity
  BY <1>1, Wrap
<1> QED
  BY <1>2, CapacityAssumption, SMT DEF Slots, Advance

(* Whatever is assigned, an item is left.                                  *)
LEMMA ItemTypes ==
  /\ Values \subseteq Items /\ Blank \in Items /\ Torn \in Items
  /\ \A v \in Items : LeftBehind(v) \in Items
  /\ \A v, w \in Items : Assigned(v, w) \in Items
<1>1. Values \subseteq Items
  BY ItemAssumption DEF Items
<1>2. Blank \in Items /\ Torn \in Items
  BY DEF Blank, Torn, Items
<1>3. \A v \in Items : LeftBehind(v) \in Items
  BY DEF LeftBehind, Items
<1>4. \A v, w \in Items : Assigned(v, w) \in Items
  BY DEF Assigned, Items
<1> QED
  BY <1>1, <1>2, <1>3, <1>4

(* An access leaves an item in the slot and in the caller's variable.      *)
LEMMA AccessTypes ==
  ASSUME QueueTypeOK, NEW t \in Threads
  PROVE  /\ items[slot[t]] \in Items /\ item[t] \in Items
         /\ \A v \in Items : Outcomes(t, v) \subseteq Items /\ LeftBehind(v) \in Items
         /\ \A v, w \in Items : Assigned(v, w) \in Items
BY ItemTypes DEF QueueTypeOK, Outcomes

-----------------------------------------------------------------------------
(* Each step keeps the fields and the locals in their types.               *)
LEMMA TypeStep == QueueTypeOK /\ [Next]_queueVars => QueueTypeOK'
<1> SUFFICES ASSUME QueueTypeOK, [Next]_queueVars PROVE QueueTypeOK'
  OBVIOUS
<1> USE CapacityAssumption
<1>a. \A t \in Threads : \A s \in Slots : \A x \in {"write", "move"} :
        Pick(t, s, x) => /\ op' \in [Threads -> {"none", "write", "move"}]
                         /\ slot' \in [Threads -> Slots]
                         /\ clash' \in [Threads -> BOOLEAN]
  BY DEF QueueTypeOK, Pick
<1>b. Advance(rear) \in Slots /\ Advance(front) \in Slots
  BY Advancing DEF QueueTypeOK
<1>c. \A t \in Threads :
        Leave(t) => /\ op' \in [Threads -> {"none", "write", "move"}]
                    /\ slot' \in [Threads -> Slots]
                    /\ clash' \in [Threads -> BOOLEAN]
  <2>1. 0 \in Slots
    BY SMT DEF Slots
  <2> QED
    BY <2>1 DEF QueueTypeOK, Leave
<1>1. ASSUME NEW p \in Producers, Enqueue(p) PROVE QueueTypeOK'
  <2> p \in Threads
    BY ClientsAssumption
  <2>1. PICK v \in Values : EnqueueReserve(p, v)
    BY <1>1 DEF Enqueue
  <2>2. size' \in 0 .. Capacity
    BY <2>1, SMT DEF EnqueueReserve, QueueTypeOK, is_full
  <2>3. item' \in [Threads -> Items]
    BY <2>1, ItemTypes DEF EnqueueReserve, QueueTypeOK
  <2> QED
    BY <2>1, <2>2, <2>3, <1>a, <1>b DEF EnqueueReserve, QueueTypeOK
<1>2. ASSUME NEW p \in Producers, EnqueueWrite(p) PROVE QueueTypeOK'
  <2> p \in Threads
    BY ClientsAssumption
  <2>1. PICK v \in Outcomes(p, Assigned(items[slot[p]], item[p])) :
          items' = [items EXCEPT ![slot[p]] = v]
    BY <1>2 DEF EnqueueWrite
  <2>2. v \in Items /\ Blank \in Items
    BY <2>1, AccessTypes, ItemTypes
  <2> QED
    BY <1>2, <2>1, <2>2, <1>c DEF EnqueueWrite, QueueTypeOK
<1>3. ASSUME NEW c \in Consumers, Dequeue(c) PROVE QueueTypeOK'
  <2> c \in Threads
    BY ClientsAssumption
  <2>1. size' \in 0 .. Capacity
    BY <1>3, SMT DEF Dequeue, DequeueReserve, QueueTypeOK, is_empty
  <2> QED
    BY <1>3, <2>1, <1>a, <1>b DEF Dequeue, DequeueReserve, QueueTypeOK
<1>4. ASSUME NEW c \in Consumers, DequeueMove(c) PROVE QueueTypeOK'
  <2> c \in Threads
    BY ClientsAssumption
  <2>1. PICK v \in Outcomes(c, items[slot[c]]) :
          /\ item' = [item EXCEPT ![c] = Assigned(item[c], v)]
          /\ \E w \in Outcomes(c, LeftBehind(v)) : items' = [items EXCEPT ![slot[c]] = w]
    BY <1>4 DEF DequeueMove
  <2>2. PICK w \in Outcomes(c, LeftBehind(v)) : items' = [items EXCEPT ![slot[c]] = w]
    BY <2>1
  <2>3. v \in Items /\ w \in Items /\ Assigned(item[c], v) \in Items
    BY <2>1, <2>2, AccessTypes
  <2> QED
    BY <1>4, <2>1, <2>2, <2>3, <1>c DEF DequeueMove, QueueTypeOK
<1>5. ASSUME NEW c \in Consumers, Discard(c) PROVE QueueTypeOK'
  <2>1. size' \in 0 .. Capacity
    BY <1>5, SMT DEF Discard, ShallowDequeue, QueueTypeOK, is_empty
  <2> QED
    BY <1>5, <2>1, <1>b DEF Discard, ShallowDequeue, QueueTypeOK
<1>6. CASE UNCHANGED queueVars
  BY <1>6 DEF QueueTypeOK, queueVars
<1> QED
  BY <1>1, <1>2, <1>3, <1>4, <1>5, <1>6 DEF Next

LEMMA TypeInit == QueueInit => QueueTypeOK
BY CapacityAssumption, ItemTypes, SMT DEF QueueInit, QueueTypeOK, Slots

(* The fields of the queue and the locals of its callers stay in their     *)
(* types: the indexes inside the buffer, _size between 0 and the capacity  *)
(* (queue.h:56-125).                                                       *)
THEOREM TypeCorrect == Spec => []QueueTypeOK
BY TypeInit, TypeStep, PTL DEF Spec

-----------------------------------------------------------------------------
LEMMA IndexStep == QueueTypeOK /\ IndexesAgree /\ [Next]_queueVars => IndexesAgree'
<1> SUFFICES ASSUME QueueTypeOK, IndexesAgree, [Next]_queueVars PROVE IndexesAgree'
  OBVIOUS
<1> USE CapacityAssumption
<1>t. rear \in Slots /\ front \in Slots /\ size \in 0 .. Capacity
  BY DEF QueueTypeOK
<1>r. rear = IF front + size < Capacity THEN front + size ELSE front + size - Capacity
  BY <1>t, Wrap DEF IndexesAgree
<1>1. ASSUME size < Capacity, rear' = Advance(rear), size' = size + 1, front' = front
      PROVE  IndexesAgree'
  <2>1. rear' = IF rear + 1 = Capacity THEN 0 ELSE rear + 1
    BY <1>1, <1>t, Advancing
  <2>2. size' \in 0 .. Capacity
    BY <1>1, <1>t, SMT
  <2>3. (front + size') % Capacity
          = IF front + size' < Capacity THEN front + size' ELSE front + size' - Capacity
    BY <2>2, <1>t, Wrap
  <2> QED
    BY <1>1, <1>r, <1>t, <2>1, <2>3, SMT DEF IndexesAgree, Slots
<1>2. ASSUME size # 0, front' = Advance(front), size' = size - 1, rear' = rear
      PROVE  IndexesAgree'
  <2>1. front' = IF front + 1 = Capacity THEN 0 ELSE front + 1
    BY <1>2, <1>t, Advancing
  <2>2. size' \in 0 .. Capacity /\ front' \in Slots
    BY <1>2, <1>t, <2>1, Advancing, SMT
  <2>3. (front' + size') % Capacity
          = IF front' + size' < Capacity THEN front' + size' ELSE front' + size' - Capacity
    BY <2>2, Wrap
  <2> QED
    BY <1>2, <1>r, <1>t, <2>1, <2>3, SMT DEF IndexesAgree, Slots
<1>3. ASSUME NEW p \in Producers, Enqueue(p) PROVE IndexesAgree'
  BY <1>3, <1>1, <1>t, SMT DEF Enqueue, EnqueueReserve, is_full
<1>4. ASSUME NEW c \in Consumers, Dequeue(c) \/ Discard(c) PROVE IndexesAgree'
  BY <1>4, <1>2 DEF Dequeue, DequeueReserve, Discard, ShallowDequeue, is_empty
<1>5. ASSUME UNCHANGED <<rear, front, size>> PROVE IndexesAgree'
  BY <1>5 DEF IndexesAgree
<1>6. CASE Next
  BY <1>6, <1>3, <1>4, <1>5 DEF Next, EnqueueWrite, DequeueMove
<1>7. CASE UNCHANGED queueVars
  BY <1>7, <1>5 DEF queueVars
<1> QED
  BY <1>6, <1>7

(* However producers and consumers interleave, _rear stays _size slots     *)
(* after _front (queue.h:66-77, 107-113).                                  *)
THEOREM IndexesCorrect == Spec => []IndexesAgree
<1>1. QueueInit => IndexesAgree
  BY CapacityAssumption, SMT DEF QueueInit, IndexesAgree
<1> QED
  BY <1>1, IndexStep, TypeCorrect, PTL DEF Spec

-----------------------------------------------------------------------------
(* One producer p and one consumer c that waits.  The slot of a write is   *)
(* the one before _rear and is among the _size slots; the slot of a move   *)
(* is the one before _front.  A producer that waits too leaves that free.  *)
Near(p, c) ==
  /\ op[p] \in {"none", "write"} /\ op[c] \in {"none", "move"}
  /\ op[p] = "write" => Advance(slot[p]) = rear /\ size >= 1
  /\ op[c] = "move" => Advance(slot[c]) = front
Apart(p, c) == Near(p, c) /\ (op[c] = "move" => size < Capacity)

LEMMA Counting ==
  ASSUME NEW p, NEW c, p # c, Producers = {p}, Consumers = {c}, Near(p, c)
  PROVE  /\ Cardinality(Writing) = IF op[p] = "write" THEN 1 ELSE 0
         /\ Cardinality(Moving) = IF op[c] = "move" THEN 1 ELSE 0
<1>1. Writing = IF op[p] = "write" THEN {p} ELSE {}
  BY ClientsAssumption DEF Writing, Near
<1>2. Moving = IF op[c] = "move" THEN {c} ELSE {}
  BY ClientsAssumption DEF Moving, Near
<1> QED
  BY <1>1, <1>2, FS_EmptySet, FS_Singleton

(* What a step does to the two threads and to _size.                       *)
LEMMA NearStep ==
  ASSUME NEW p, NEW c, p # c, Producers = {p}, Consumers = {c}, ConsumersWait,
         QueueTypeOK, Near(p, c), [Next]_queueVars
  PROVE  /\ Near(p, c)'
         /\ op'[c] = "move" =>
              \/ op[c] = "move" /\ size' = size
              \/ op[c] = "move" /\ size' = size + 1 /\ (ProducersWait => size + 1 < Capacity)
              \/ size' = size - 1
<1> USE CapacityAssumption
<1>t. /\ p \in Threads /\ c \in Threads /\ Threads = {p, c}
      /\ rear \in Slots /\ front \in Slots /\ size \in 0 .. Capacity
      /\ op \in [Threads -> {"none", "write", "move"}] /\ slot \in [Threads -> Slots]
  BY ClientsAssumption DEF QueueTypeOK
<1>1. CASE Enqueue(p)
  <2>1. PICK v \in Values : EnqueueReserve(p, v)
    BY <1>1 DEF Enqueue
  <2>2. op' = [op EXCEPT ![p] = "write"] /\ slot' = [slot EXCEPT ![p] = rear]
    BY <2>1 DEF EnqueueReserve, Pick
  <2>3. op'[p] = "write" /\ op'[c] = op[c] /\ slot'[p] = rear /\ slot'[c] = slot[c]
    BY <2>2, <1>t
  <2>4. size' = size + 1 /\ (op[c] = "move" /\ ProducersWait => size + 1 < Capacity)
    BY <2>1, <1>1, <1>t, Counting, SMT DEF EnqueueReserve, Enqueue, RoomLeft
  <2>5. rear' = Advance(rear) /\ front' = front
    BY <2>1 DEF EnqueueReserve
  <2> QED
    BY <2>3, <2>4, <2>5, <1>t, SMT DEF Near, Advance
<1>2. CASE EnqueueWrite(p)
  BY <1>2, <1>t DEF EnqueueWrite, Leave, Near, Advance
<1>3. CASE Dequeue(c)
  <2>1. op' = [op EXCEPT ![c] = "move"] /\ slot' = [slot EXCEPT ![c] = front]
    BY <1>3 DEF Dequeue, DequeueReserve, Pick
  <2>2. op'[c] = "move" /\ op'[p] = op[p] /\ slot'[c] = front /\ slot'[p] = slot[p]
    BY <2>1, <1>t
  <2>3. size' = size - 1 /\ size # 0 /\ (op[p] = "write" => size > 1)
    BY <1>3, <1>t, Counting, SMT DEF Dequeue, DequeueReserve, ItemWritten, is_empty
  <2>4. front' = Advance(front) /\ rear' = rear
    BY <1>3 DEF Dequeue, DequeueReserve
  <2> QED
    BY <2>2, <2>3, <2>4, <1>t, SMT DEF Near, Advance
<1>4. CASE DequeueMove(c)
  BY <1>4, <1>t DEF DequeueMove, Leave, Near, Advance
<1>5. CASE Discard(c)
  <2>1. size' = size - 1 /\ size # 0 /\ (op[p] = "write" => size > 1)
    BY <1>5, <1>t, Counting, SMT DEF Discard, ShallowDequeue, ItemWritten, is_empty
  <2> QED
    BY <1>5, <2>1, <1>t, SMT DEF Discard, ShallowDequeue, Near, Advance
<1>6. CASE UNCHANGED queueVars
  BY <1>6 DEF Near, Advance, queueVars
<1> QED
  BY <1>1, <1>2, <1>3, <1>4, <1>5, <1>6 DEF Next

LEMMA ApartStep ==
  ASSUME NEW p, NEW c, p # c, Producers = {p}, Consumers = {c},
         ConsumersWait, ProducersWait,
         QueueTypeOK, Apart(p, c), [Next]_queueVars
  PROVE  Apart(p, c)'
<1>1. size \in 0 .. Capacity
  BY DEF QueueTypeOK
<1> QED
  BY <1>1, NearStep, CapacityAssumption, SMT DEF Apart

(* In one slot both would have _rear = _front, that is, an empty or a full *)
(* ring: empty contradicts the write, full the move of a queue with a slot *)
(* to spare.                                                               *)
LEMMA NearIsEnough ==
  ASSUME NEW p, NEW c, p # c, Producers = {p}, Consumers = {c},
         QueueTypeOK, IndexesAgree, Near(p, c)
  PROVE  ClashOnlyWhenFull /\ (Apart(p, c) => SlotExclusive)
<1>t. /\ Threads = {p, c} /\ rear \in Slots /\ front \in Slots /\ size \in 0 .. Capacity
  BY ClientsAssumption DEF QueueTypeOK
<1>1. rear = IF front + size < Capacity THEN front + size ELSE front + size - Capacity
  BY <1>t, Wrap DEF IndexesAgree
<1>2. ASSUME op[p] # "none", op[c] # "none", slot[p] = slot[c] PROVE size = Capacity
  <2>1. rear = front /\ size >= 1
    BY <1>2 DEF Near
  <2> QED
    BY <2>1, <1>1, <1>t, CapacityAssumption, SMT DEF Slots
<1>3. size = Capacity \/ SlotExclusive
  BY <1>2, <1>t DEF SlotExclusive
<1>4. ASSUME Apart(p, c), op[p] # "none", op[c] # "none", slot[p] = slot[c] PROVE FALSE
  BY <1>2, <1>4, <1>t, CapacityAssumption, SMT DEF Apart, Near
<1> QED
  BY <1>3, <1>4, <1>t DEF ClashOnlyWhenFull, is_full, SlotExclusive

(* One producer and one consumer that wait for each other never access a   *)
(* slot at the same time, whatever the capacity (queue.h:78, 115): this is *)
(* how a single client and the worker of an actor use the mailbox.         *)
THEOREM OneToOneIsExclusive ==
  ASSUME NEW p, NEW c, p # c, Producers = {p}, Consumers = {c}, ConsumersWait, ProducersWait
  PROVE  Spec => []SlotExclusive
<1>1. QueueInit => Apart(p, c)
  BY ClientsAssumption DEF QueueInit, Apart, Near
<1>2. QueueTypeOK /\ Apart(p, c) /\ [Next]_queueVars => Apart(p, c)'
  BY ApartStep
<1>3. QueueTypeOK /\ IndexesAgree /\ Apart(p, c) => SlotExclusive
  BY NearIsEnough DEF Apart
<1> QED
  BY <1>1, <1>2, <1>3, TypeCorrect, IndexesCorrect, PTL DEF Spec

(* One producer that fills the queue to the brim and one consumer that     *)
(* waits meet in a slot only while the queue is full: dequeue gives the    *)
(* slot away before the item has left it (queue.h:111-123).                *)
THEOREM OneToOneClashesWhenFull ==
  ASSUME NEW p, NEW c, p # c, Producers = {p}, Consumers = {c}, ConsumersWait
  PROVE  Spec => []ClashOnlyWhenFull
<1>1. QueueInit => Near(p, c)
  BY ClientsAssumption DEF QueueInit, Near
<1>2. QueueTypeOK /\ Near(p, c) /\ [Next]_queueVars => Near(p, c)'
  BY NearStep
<1>3. QueueTypeOK /\ IndexesAgree /\ Near(p, c) => ClashOnlyWhenFull
  BY NearIsEnough
<1> QED
  BY <1>1, <1>2, <1>3, TypeCorrect, IndexesCorrect, PTL DEF Spec

-----------------------------------------------------------------------------
(* The order of the items.                                                 *)

(* A function on 1 .. n is a sequence of n elements.                       *)
LEMMA Window ==
  ASSUME NEW S, NEW n \in Nat, NEW g \in [1 .. n -> S]
  PROVE  g \in Seq(S) /\ Len(g) = n
<1>1. g \in Seq(S)
  BY SeqDef
<1>2. 1 .. Len(g) = 1 .. n /\ Len(g) \in Nat
  BY <1>1, LenProperties
<1> QED
  BY <1>1, <1>2, SMT

LEMMA Appended ==
  ASSUME NEW S, NEW n \in Nat, NEW g \in [1 .. n -> S], NEW h \in [1 .. n + 1 -> S],
         \A i \in 1 .. n : h[i] = g[i]
  PROVE  h = Append(g, h[n + 1])
<1>1. g \in Seq(S) /\ Len(g) = n
  BY Window
<1>2. h \in Seq(S) /\ Len(h) = n + 1
  BY Window, SMT
<1> DEFINE x == h[n + 1]
<1>3. x \in S
  BY SMT
<1>4. /\ Append(g, x) \in Seq(S) /\ Len(Append(g, x)) = n + 1
      /\ \A i \in 1 .. n + 1 : Append(g, x)[i] = IF i <= n THEN g[i] ELSE x
  <2> HIDE DEF x
  <2> QED
    BY <1>1, <1>3, SMT
<1>5. \A i \in 1 .. n + 1 : i \in 1 .. n \/ i = n + 1
  BY SMT
<1>6. \A i \in 1 .. n + 1 : h[i] = Append(g, x)[i]
  BY <1>4, <1>5
<1> QED
  BY <1>2, <1>4, <1>6, SeqEqual

LEMMA Tailed ==
  ASSUME NEW S, NEW n \in Nat \ {0}, NEW g \in [1 .. n -> S], NEW h \in [1 .. n - 1 -> S],
         \A i \in 1 .. n - 1 : h[i] = g[i + 1]
  PROVE  g # <<>> /\ Head(g) = g[1] /\ h = Tail(g)
<1>1. g \in Seq(S) /\ Len(g) = n
  BY Window
<1>2. h \in Seq(S) /\ Len(h) = n - 1
  BY Window, SMT
<1>3. g # <<>>
  BY <1>1, EmptySeq, SMT
<1>4. Head(g) = g[1]
  BY <1>1, <1>3
<1>5. Tail(g) \in Seq(S) /\ Len(Tail(g)) = n - 1 /\ \A i \in 1 .. n - 1 : Tail(g)[i] = g[i + 1]
  BY <1>1, <1>3, HeadTailProperties
<1> QED
  BY <1>2, <1>3, <1>4, <1>5, SeqEqual

-----------------------------------------------------------------------------
(* Where the i-th item is, counted from the slot s.                        *)
Place(s, i) == (s + (i - 1)) % Capacity

LEMMA Placing ==
  ASSUME NEW s \in Slots, NEW i \in 1 .. Capacity + 1
  PROVE  /\ Place(s, i) \in Slots
         /\ Place(s, i) = IF s + (i - 1) < Capacity THEN s + (i - 1) ELSE s + (i - 1) - Capacity
<1>1. i - 1 \in 0 .. Capacity
  BY CapacityAssumption, SMT
<1>2. Place(s, i) = IF s + (i - 1) < Capacity THEN s + (i - 1) ELSE s + (i - 1) - Capacity
  BY <1>1, Wrap DEF Place
<1> QED
  BY <1>1, <1>2, CapacityAssumption, SMT DEF Slots

(* Different items are in different slots, and the next slot counts from 2. *)
LEMMA PlacesDiffer ==
  ASSUME NEW s \in Slots, NEW i \in 1 .. Capacity, NEW j \in 1 .. Capacity, i # j
  PROVE  Place(s, i) # Place(s, j)
<1>1. i \in 1 .. Capacity + 1 /\ j \in 1 .. Capacity + 1
  BY CapacityAssumption, SMT
<1>2. Place(s, i) = IF s + (i - 1) < Capacity THEN s + (i - 1) ELSE s + (i - 1) - Capacity
  BY <1>1, Placing
<1>3. Place(s, j) = IF s + (j - 1) < Capacity THEN s + (j - 1) ELSE s + (j - 1) - Capacity
  BY <1>1, Placing
<1> QED
  BY <1>2, <1>3, CapacityAssumption, SMT DEF Slots

LEMMA PlaceNext ==
  ASSUME NEW s \in Slots, NEW i \in 1 .. Capacity
  PROVE  Place(Advance(s), i) = Place(s, i + 1)
<1>1. i \in 1 .. Capacity + 1 /\ i + 1 \in 1 .. Capacity + 1
  BY CapacityAssumption, SMT
<1>2. Advance(s) \in Slots /\ Advance(s) = IF s + 1 = Capacity THEN 0 ELSE s + 1
  BY Advancing
<1>3. Place(s, i + 1) = IF s + i < Capacity THEN s + i ELSE s + i - Capacity
  BY <1>1, Placing, SMT
<1>4. Place(Advance(s), i) = IF Advance(s) + (i - 1) < Capacity THEN Advance(s) + (i - 1)
                             ELSE Advance(s) + (i - 1) - Capacity
  BY <1>1, <1>2, Placing
<1> QED
  BY <1>2, <1>3, <1>4, CapacityAssumption, SMT DEF Slots

-----------------------------------------------------------------------------
(* One producer p and one consumer c.  The queue starts at the slot that   *)
(* is being moved out, and holds neither the slot that is being written.   *)
Start(c) == IF op[c] = "move" THEN slot[c] ELSE front
Inside(p, c) == size + (IF op[c] = "move" THEN 1 ELSE 0) - (IF op[p] = "write" THEN 1 ELSE 0)

FreeSlots(p, c) == Slots \ {Place(Start(c), i) : i \in 1 .. Inside(p, c)}

(* No access has been disturbed, and what is written is what was given.    *)
Whole(p, c) ==
  /\ clash[p] = FALSE /\ clash[c] = FALSE
  /\ op[p] = "write" => item[p] \in Values

LEMMA Bounds ==
  ASSUME NEW p, NEW c, p # c, Producers = {p}, Consumers = {c}, QueueTypeOK, Apart(p, c)
  PROVE  /\ Start(c) \in Slots
         /\ Inside(p, c) \in 0 .. Capacity
         /\ op[p] = "write" => Inside(p, c) < Capacity
         /\ op[c] = "move" => Inside(p, c) >= 1
         /\ p \in Threads /\ c \in Threads /\ Threads = {p, c}
<1>1. p \in Threads /\ c \in Threads /\ Threads = {p, c}
  BY ClientsAssumption
<1>2. Start(c) \in Slots
  BY <1>1 DEF Start, QueueTypeOK
<1> QED
  BY <1>1, <1>2, CapacityAssumption, SMT DEF Inside, QueueTypeOK, Apart, Near

LEMMA HeldIs ==
  ASSUME NEW p, NEW c, p # c, Producers = {p}, Consumers = {c}, QueueTypeOK, Apart(p, c)
  PROVE  /\ Held = [i \in 1 .. Inside(p, c) |-> items[Place(Start(c), i)]]
         /\ HeldBack = {[q \in Keeping |-> items[s][q]] : s \in FreeSlots(p, c)}
<1>1. Moving = (IF op[c] = "move" THEN {c} ELSE {})
  BY Bounds DEF Moving, Apart, Near
<1>2. Cardinality(Writing) = (IF op[p] = "write" THEN 1 ELSE 0)
  BY Counting DEF Apart
<1>3. Cardinality(Moving) = (IF op[c] = "move" THEN 1 ELSE 0)
  BY Counting DEF Apart, Near
<1>4. Oldest = Start(c)
  BY <1>1 DEF Start, Oldest
<1>5. \A i \in 1 .. Inside(p, c) : (Start(c) + i - 1) % Capacity = Place(Start(c), i)
  <2> TAKE i \in 1 .. Inside(p, c)
  <2>1. Start(c) \in Int /\ i \in Int
    BY Bounds, CapacityAssumption, SMT DEF Slots
  <2>2. Start(c) + i - 1 = Start(c) + (i - 1)
    BY <2>1, SMT
  <2> QED
    BY <2>2 DEF Place
<1>6. Count = Inside(p, c)
  BY <1>2, <1>3 DEF Count, Inside
<1> QED
  BY <1>4, <1>5, <1>6 DEF Held, HeldBack, FreeSlots

LEMMA HeldIsTyped ==
  ASSUME NEW p, NEW c, p # c, Producers = {p}, Consumers = {c}, QueueTypeOK, Apart(p, c)
  PROVE  Held \in [1 .. Inside(p, c) -> Items]
<1>1. \A i \in 1 .. Inside(p, c) : Place(Start(c), i) \in Slots
  <2> TAKE i \in 1 .. Inside(p, c)
  <2>1. i \in 1 .. Capacity + 1
    BY Bounds, CapacityAssumption, SMT
  <2> QED
    BY <2>1, Bounds, Placing
<1> QED
  BY <1>1, HeldIs DEF QueueTypeOK

(* The queue as the abstract one sees it, before a step and after.         *)
Seen(p, c) ==
  /\ Held = [i \in 1 .. Inside(p, c) |-> items[Place(Start(c), i)]]
  /\ Held \in [1 .. Inside(p, c) -> Items]
  /\ HeldBack = {[q \in Keeping |-> items[s][q]] : s \in FreeSlots(p, c)}

LEMMA SeenAfter ==
  ASSUME NEW p, NEW c, p # c, Producers = {p}, Consumers = {c}
  PROVE  (QueueTypeOK /\ Apart(p, c) => Seen(p, c))'
<1>1. QueueTypeOK /\ Apart(p, c) => Seen(p, c)
  BY HeldIs, HeldIsTyped DEF Seen
<1> QED
  BY <1>1, PTL

(* The slot of a write follows the last item.                              *)
LEMMA WriteIsNext ==
  ASSUME NEW p, NEW c, p # c, Producers = {p}, Consumers = {c},
         QueueTypeOK, IndexesAgree, Apart(p, c), op[p] = "write"
  PROVE  slot[p] = Place(Start(c), Inside(p, c) + 1)
<1> USE CapacityAssumption
<1>t. /\ rear \in Slots /\ front \in Slots /\ size \in 0 .. Capacity
      /\ slot[p] \in Slots /\ slot[c] \in Slots
  BY Bounds DEF QueueTypeOK
<1>1. rear = IF front + size < Capacity THEN front + size ELSE front + size - Capacity
  BY <1>t, Wrap DEF IndexesAgree
<1>2. rear = IF slot[p] + 1 = Capacity THEN 0 ELSE slot[p] + 1
  BY <1>t, Advancing DEF Apart, Near
<1>3. op[c] = "move" => front = IF slot[c] + 1 = Capacity THEN 0 ELSE slot[c] + 1
  BY <1>t, Advancing DEF Apart, Near
<1>4. Inside(p, c) + 1 \in 1 .. Capacity + 1
  BY Bounds, SMT
<1>5. Place(Start(c), Inside(p, c) + 1) =
        IF Start(c) + Inside(p, c) < Capacity THEN Start(c) + Inside(p, c)
        ELSE Start(c) + Inside(p, c) - Capacity
  <2>1. Inside(p, c) + 1 - 1 = Inside(p, c)
    BY Bounds, SMT
  <2> QED
    BY <1>4, <2>1, Bounds, Placing
<1>6. size >= 1 /\ (op[c] = "move" => size < Capacity)
  BY DEF Apart, Near
<1>7. CASE op[c] = "move"
  <2>1. Start(c) = slot[c] /\ Inside(p, c) = size
    BY <1>7, <1>t, SMT DEF Start, Inside
  <2> QED
    BY <2>1, <1>7, <1>1, <1>2, <1>3, <1>5, <1>6, <1>t, SMT DEF Slots
<1>8. CASE op[c] # "move"
  <2>1. Start(c) = front /\ Inside(p, c) = size - 1
    BY <1>8, <1>t, SMT DEF Start, Inside
  <2> QED
    BY <2>1, <1>1, <1>2, <1>5, <1>6, <1>t, SMT DEF Slots
<1> QED
  BY <1>7, <1>8

-----------------------------------------------------------------------------
(* What the producer does.                                                 *)
LEMMA Reserving ==
  ASSUME NEW p, NEW c, p # c, Producers = {p}, Consumers = {c}, ConsumersWait, ProducersWait,
         QueueTypeOK, QueueTypeOK', Apart(p, c), Apart(p, c)', SlotExclusive', Whole(p, c),
         Enqueue(p)
  PROVE  Whole(p, c)' /\ UNCHANGED Fifo!vars
<1>b. p \in Threads /\ c \in Threads /\ Threads = {p, c}
  BY Bounds
<1>1. PICK v \in Values : EnqueueReserve(p, v)
  BY DEF Enqueue
<1>2. op' = [op EXCEPT ![p] = "write"] /\ slot' = [slot EXCEPT ![p] = rear]
  BY <1>1 DEF EnqueueReserve, Pick
<1>3. op[p] = "none" /\ op'[p] = "write" /\ op'[c] = op[c] /\ slot'[c] = slot[c] /\ slot'[p] = rear
  BY <1>1, <1>2, <1>b DEF EnqueueReserve, QueueTypeOK
<1>4. {u \in Threads \ {p} : op[u] # "none" /\ slot[u] = rear} = {}
  BY <1>3, <1>b DEF SlotExclusive
<1>5. clash' = [u \in Threads |-> IF u = p THEN FALSE ELSE clash[u]]
  BY <1>1, <1>4 DEF EnqueueReserve, Pick, QueueTypeOK
<1>6. clash'[p] = FALSE /\ clash'[c] = FALSE
  BY <1>5, <1>b DEF Whole
<1>7. item'[p] = v /\ item'[c] = item[c] /\ items' = items /\ front' = front /\ size' = size + 1
  BY <1>1, <1>b DEF EnqueueReserve, QueueTypeOK
<1>8. Start(c)' = Start(c) /\ Inside(p, c)' = Inside(p, c)
  <2>1. size \in Int
    BY CapacityAssumption, SMT DEF QueueTypeOK
  <2> QED
    BY <1>3, <1>7, <2>1, SMT DEF Start, Inside
<1>9. Held' = Held /\ HeldBack' = HeldBack
  <2>1. /\ Held = [i \in 1 .. Inside(p, c) |-> items[Place(Start(c), i)]]
        /\ HeldBack = {[q \in Keeping |-> items[s][q]] : s \in FreeSlots(p, c)}
    BY HeldIs
  <2>2. /\ Held' = [i \in 1 .. Inside(p, c)' |-> items'[Place(Start(c)', i)]]
        /\ HeldBack' = {[q \in Keeping |-> items'[s][q]] : s \in FreeSlots(p, c)'}
    BY SeenAfter DEF Seen, Place
  <2>3. FreeSlots(p, c)' = FreeSlots(p, c)
    BY <1>8 DEF FreeSlots, Place
  <2> QED
    BY <2>1, <2>2, <2>3, <1>7, <1>8
<1> QED
  BY <1>3, <1>6, <1>7, <1>8, <1>9 DEF Whole, Fifo!vars, Place

LEMMA Putting ==
  ASSUME NEW p, NEW c, p # c, Producers = {p}, Consumers = {c}, ConsumersWait, ProducersWait,
         QueueTypeOK, QueueTypeOK', IndexesAgree, Apart(p, c), Apart(p, c)', Whole(p, c),
         EnqueueWrite(p)
  PROVE  Whole(p, c)' /\ Fifo!Put
<1>b. p \in Threads /\ c \in Threads /\ Threads = {p, c}
  BY Bounds
<1>1. op[p] = "write" /\ item[p] \in Values
  BY DEF EnqueueWrite, Whole
<1> DEFINE s == Place(Start(c), Inside(p, c) + 1)
<1>2. slot[p] = s /\ s \in Slots
  BY <1>1, <1>b, WriteIsNext DEF QueueTypeOK
<1> DEFINE x == Assigned(items[s], item[p])
<1>4. Outcomes(p, x) = {x}
  BY DEF Outcomes, Whole
<1>5. items' = [items EXCEPT ![s] = x]
  BY <1>2, <1>4 DEF EnqueueWrite
<1>6. items'[s] = x /\ \A r \in Slots : r # s => items'[r] = items[r]
  BY <1>2, <1>5 DEF QueueTypeOK
<1>7. op' = [op EXCEPT ![p] = "none"] /\ slot' = [slot EXCEPT ![p] = 0]
      /\ clash' = [clash EXCEPT ![p] = FALSE] /\ item' = [item EXCEPT ![p] = Blank]
  BY DEF EnqueueWrite, Leave
<1>8. op'[p] = "none" /\ op'[c] = op[c] /\ slot'[c] = slot[c] /\ item'[c] = item[c]
      /\ clash'[p] = FALSE /\ clash'[c] = FALSE
  BY <1>7, <1>b DEF QueueTypeOK, Whole
<1>9. front' = front /\ size' = size /\ rear' = rear
  BY DEF EnqueueWrite
<1>10. Start(c)' = Start(c) /\ Inside(p, c)' = Inside(p, c) + 1
  <2>1. size \in Int
    BY CapacityAssumption, SMT DEF QueueTypeOK
  <2> QED
    BY <1>1, <1>8, <1>9, <2>1, SMT DEF Start, Inside
<1>11. Inside(p, c) \in 0 .. Capacity /\ Inside(p, c) < Capacity /\ Start(c) \in Slots
  BY <1>1, Bounds
<1>12. \A i \in 1 .. Inside(p, c) :
         Place(Start(c), i) # s /\ Place(Start(c), i) \in Slots
  <2> TAKE i \in 1 .. Inside(p, c)
  <2>1. i \in 1 .. Capacity + 1 /\ i \in 1 .. Capacity /\ Inside(p, c) + 1 \in 1 .. Capacity
        /\ i # Inside(p, c) + 1
    BY <1>11, CapacityAssumption, SMT
  <2> HIDE DEF s
  <2>2. s = Place(Start(c), Inside(p, c) + 1)
    BY DEF s
  <2> QED
    BY <2>1, <2>2, <1>11, Placing, PlacesDiffer
<1>13. \A i \in 1 .. Inside(p, c) : items'[Place(Start(c), i)] = items[Place(Start(c), i)]
  BY <1>6, <1>12
<1>14. Whole(p, c)'
  BY <1>8 DEF Whole
<1>15. Held = [i \in 1 .. Inside(p, c) |-> items[Place(Start(c), i)]] /\ Held \in [1 .. Inside(p, c) -> Items]
  BY HeldIs, HeldIsTyped
<1>16. Held' = [i \in 1 .. Inside(p, c)' |-> items'[Place(Start(c)', i)]]
       /\ Held' \in [1 .. Inside(p, c)' -> Items]
  BY SeenAfter DEF Seen, Place
<1>17. Held' = Append(Held, x)
  <2> DEFINE n == Inside(p, c)
  <2>1. n \in Nat /\ n + 1 \in 1 .. n + 1
    BY <1>11, SMT
  <2>2. \A i \in 1 .. n : i \in 1 .. n + 1
    BY <2>1, SMT
  <2>3. Held'[n + 1] = x /\ \A i \in 1 .. n : Held'[i] = Held[i]
    BY <2>1, <2>2, <1>6, <1>10, <1>13, <1>15, <1>16
  <2>4. Held' \in [1 .. n + 1 -> Items]
    BY <1>10, <1>16
  <2> HIDE DEF n, x
  <2>5. Held \in [1 .. n -> Items]
    BY <1>15 DEF n
  <2> QED
    BY <2>1, <2>3, <2>4, <2>5, Appended
<1>18. Len(Held) < Capacity
  BY <1>11, <1>15, Window, SMT
<1>19. [d \in Consumers |-> item[d]]' = [d \in Consumers |-> item[d]]
  BY <1>8
<1> DEFINE old == [q \in Keeping |-> items[s][q]]
<1>20. HeldBack = {[q \in Keeping |-> items[r][q]] : r \in FreeSlots(p, c)}
       /\ HeldBack' = {[q \in Keeping |-> items'[r][q]] : r \in FreeSlots(p, c)'}
  BY HeldIs, SeenAfter DEF Seen
<1>21. s \in FreeSlots(p, c)
  BY <1>2, <1>12 DEF FreeSlots
<1>22. \A r \in FreeSlots(p, c)' : r \in FreeSlots(p, c) /\ items'[r] = items[r]
  <2>1. FreeSlots(p, c)' = Slots \ {Place(Start(c), i) : i \in 1 .. Inside(p, c) + 1}
    BY <1>10 DEF FreeSlots, Place
  <2>2. Inside(p, c) + 1 \in 1 .. Inside(p, c) + 1 /\ 1 .. Inside(p, c) \subseteq 1 .. Inside(p, c) + 1
    BY <1>11, SMT
  <2> QED
    BY <2>1, <2>2, <1>6 DEF FreeSlots
<1>23. HeldBack' \subseteq HeldBack /\ old \in HeldBack
  BY <1>20, <1>21, <1>22
<1>24. x = Fifo!Over(old, item[p])
  BY ItemAssumption DEF Assigned, Fifo!Over
<1> QED
  BY <1>1, <1>14, <1>17, <1>18, <1>19, <1>23, <1>24 DEF Fifo!Put

-----------------------------------------------------------------------------
(* What the consumer does.                                                 *)
LEMMA Picking ==
  ASSUME NEW p, NEW c, p # c, Producers = {p}, Consumers = {c}, ConsumersWait, ProducersWait,
         QueueTypeOK, QueueTypeOK', Apart(p, c), Apart(p, c)', SlotExclusive', Whole(p, c),
         Dequeue(c)
  PROVE  Whole(p, c)' /\ UNCHANGED Fifo!vars
<1>b. p \in Threads /\ c \in Threads /\ Threads = {p, c}
  BY Bounds
<1>1. DequeueReserve(c)
  BY DEF Dequeue
<1>2. op' = [op EXCEPT ![c] = "move"] /\ slot' = [slot EXCEPT ![c] = front]
  BY <1>1 DEF DequeueReserve, Pick
<1>3. op[c] = "none" /\ op'[c] = "move" /\ op'[p] = op[p] /\ slot'[p] = slot[p] /\ slot'[c] = front
  BY <1>1, <1>2, <1>b DEF DequeueReserve, QueueTypeOK
<1>4. {u \in Threads \ {c} : op[u] # "none" /\ slot[u] = front} = {}
  BY <1>3, <1>b DEF SlotExclusive
<1>5. clash' = [u \in Threads |-> IF u = c THEN FALSE ELSE clash[u]]
  BY <1>1, <1>4 DEF DequeueReserve, Pick, QueueTypeOK
<1>6. clash'[p] = FALSE /\ clash'[c] = FALSE
  BY <1>5, <1>b DEF Whole
<1>7. item' = item /\ items' = items /\ size' = size - 1
  BY <1>1 DEF DequeueReserve
<1>8. Start(c)' = Start(c) /\ Inside(p, c)' = Inside(p, c)
  <2>1. size \in Int
    BY CapacityAssumption, SMT DEF QueueTypeOK
  <2> QED
    BY <1>3, <1>7, <2>1, SMT DEF Start, Inside
<1>9. Held' = Held /\ HeldBack' = HeldBack
  <2>1. /\ Held = [i \in 1 .. Inside(p, c) |-> items[Place(Start(c), i)]]
        /\ HeldBack = {[q \in Keeping |-> items[s][q]] : s \in FreeSlots(p, c)}
    BY HeldIs
  <2>2. /\ Held' = [i \in 1 .. Inside(p, c)' |-> items'[Place(Start(c)', i)]]
        /\ HeldBack' = {[q \in Keeping |-> items'[s][q]] : s \in FreeSlots(p, c)'}
    BY SeenAfter DEF Seen, Place
  <2>3. FreeSlots(p, c)' = FreeSlots(p, c)
    BY <1>8 DEF FreeSlots, Place
  <2> QED
    BY <2>1, <2>2, <2>3, <1>7, <1>8
<1> QED
  BY <1>3, <1>6, <1>7, <1>8, <1>9 DEF Whole, Fifo!vars, Place

(* When the oldest item leaves, the rest of the queue moves up.            *)
LEMMA MovingUp ==
  ASSUME NEW p, NEW c, p # c, Producers = {p}, Consumers = {c},
         QueueTypeOK, QueueTypeOK', Apart(p, c), Apart(p, c)', Whole(p, c),
         Inside(p, c) >= 1, Start(c)' = Advance(Start(c)), Inside(p, c)' = Inside(p, c) - 1,
         \A s \in Slots : s # Start(c) => items'[s] = items[s]
  PROVE  /\ Held # <<>> /\ Head(Held) = items[Start(c)] /\ Held' = Tail(Held)
         /\ HeldBack' \subseteq HeldBack \cup {[q \in Keeping |-> items'[Start(c)][q]]}
<1> DEFINE n == Inside(p, c)
           g == Held
<1>1. Start(c) \in Slots /\ n \in 1 .. Capacity
  BY Bounds, SMT
<1>2. Place(Start(c), 1) = Start(c)
  <2>1. 1 \in 1 .. Capacity + 1 /\ Start(c) \in Int /\ Start(c) < Capacity
    BY <1>1, CapacityAssumption, SMT DEF Slots
  <2>2. Start(c) + (1 - 1) = Start(c)
    BY <2>1, SMT
  <2> QED
    BY <1>1, <2>1, <2>2, Placing
<1>3. ASSUME NEW i \in 1 .. n - 1
      PROVE  /\ i + 1 \in 1 .. n
             /\ Place(Start(c)', i) = Place(Start(c), i + 1)
             /\ items'[Place(Start(c)', i)] = items[Place(Start(c), i + 1)]
  <2>1. i + 1 \in 1 .. n /\ i + 1 \in 1 .. Capacity /\ i + 1 \in 1 .. Capacity + 1
        /\ i \in 1 .. Capacity /\ 1 \in 1 .. Capacity /\ i + 1 # 1
    BY <1>1, <1>3, CapacityAssumption, SMT
  <2>2. Place(Start(c)', i) = Place(Start(c), i + 1)
    BY <1>1, <2>1, PlaceNext
  <2>3. Place(Start(c), i + 1) \in Slots /\ Place(Start(c), i + 1) # Start(c)
    BY <1>1, <1>2, <2>1, Placing, PlacesDiffer
  <2> QED
    BY <2>1, <2>2, <2>3
<1>5. Held = [i \in 1 .. n |-> items[Place(Start(c), i)]] /\ Held \in [1 .. n -> Items]
  BY HeldIs, HeldIsTyped
<1>6. Held' = [i \in 1 .. n - 1 |-> items'[Place(Start(c)', i)]] /\ Held' \in [1 .. n - 1 -> Items]
  BY SeenAfter DEF Seen, Place
<1>7. \A i \in 1 .. n - 1 : Held'[i] = Held[i + 1]
  BY <1>3, <1>5, <1>6
<1>8. 1 \in 1 .. n /\ n \in Nat \ {0}
  BY <1>1, SMT
<1>9. Held[1] = items[Start(c)]
  BY <1>2, <1>5, <1>8
<1>10. Held # <<>> /\ Head(Held) = Held[1] /\ Held' = Tail(Held)
  <2> HIDE DEF n
  <2> QED
    BY <1>5, <1>6, <1>7, <1>8, Tailed
<1>11. HeldBack = {[q \in Keeping |-> items[r][q]] : r \in FreeSlots(p, c)}
       /\ HeldBack' = {[q \in Keeping |-> items'[r][q]] : r \in FreeSlots(p, c)'}
  BY HeldIs, SeenAfter DEF Seen
<1>12. ASSUME NEW r \in FreeSlots(p, c)', r # Start(c)
       PROVE  r \in FreeSlots(p, c) /\ items'[r] = items[r]
  <2>1. r \in Slots /\ \A i \in 1 .. n - 1 : r # Place(Start(c)', i)
    BY <1>12 DEF FreeSlots, Place
  <2>2. ASSUME NEW j \in 1 .. n PROVE r # Place(Start(c), j)
    <3>1. CASE j = 1
      BY <3>1, <1>2, <1>12
    <3>2. CASE j # 1
      <4>1. j - 1 \in 1 .. n - 1 /\ j - 1 + 1 = j
        BY <1>1, <3>2, SMT
      <4> QED
        BY <4>1, <1>3, <2>1
    <3> QED
      BY <3>1, <3>2
  <2> QED
    BY <2>1, <2>2, <1>12 DEF FreeSlots
<1>13. HeldBack' \subseteq HeldBack \cup {[q \in Keeping |-> items'[Start(c)][q]]}
  <2> SUFFICES ASSUME NEW r \in FreeSlots(p, c)'
               PROVE  [q \in Keeping |-> items'[r][q]]
                        \in HeldBack \cup {[q \in Keeping |-> items'[Start(c)][q]]}
    BY <1>11
  <2> QED
    BY <1>11, <1>12
<1> QED
  BY <1>9, <1>10, <1>13

LEMMA Getting ==
  ASSUME NEW p, NEW c, p # c, Producers = {p}, Consumers = {c},
         QueueTypeOK, QueueTypeOK', Apart(p, c), Apart(p, c)', Whole(p, c), DequeueMove(c)
  PROVE  Whole(p, c)' /\ Fifo!Get(c)
<1>b. p \in Threads /\ c \in Threads /\ Threads = {p, c}
  BY Bounds
<1>1. op[c] = "move" /\ Start(c) = slot[c] /\ Advance(slot[c]) = front /\ Inside(p, c) >= 1
      /\ Start(c) \in Slots
  BY Bounds DEF DequeueMove, Apart, Near, Start
<1>2. op' = [op EXCEPT ![c] = "none"] /\ clash' = [clash EXCEPT ![c] = FALSE]
      /\ slot' = [slot EXCEPT ![c] = 0]
  BY DEF DequeueMove, Leave
<1>3. op'[c] = "none" /\ op'[p] = op[p] /\ clash'[p] = FALSE /\ clash'[c] = FALSE
  BY <1>2, <1>b DEF QueueTypeOK, Whole
<1>4. front' = front /\ size' = size
  BY DEF DequeueMove
<1>5. Start(c)' = Advance(Start(c)) /\ Inside(p, c)' = Inside(p, c) - 1
  <2>1. size \in Int
    BY CapacityAssumption, SMT DEF QueueTypeOK
  <2> QED
    BY <1>1, <1>3, <1>4, <2>1, SMT DEF Start, Inside
<1> DEFINE v == items[Start(c)]
<1>6. \A w : Outcomes(c, w) = {w}
  BY DEF Outcomes, Whole
<1>7. /\ item' = [item EXCEPT ![c] = Assigned(item[c], v)]
      /\ items' = [items EXCEPT ![Start(c)] = LeftBehind(v)]
  <2>1. PICK x \in Outcomes(c, items[slot[c]]) :
          /\ item' = [item EXCEPT ![c] = Assigned(item[c], x)]
          /\ \E w \in Outcomes(c, LeftBehind(x)) : items' = [items EXCEPT ![slot[c]] = w]
    BY DEF DequeueMove
  <2>2. x = v /\ \A w \in Outcomes(c, LeftBehind(x)) : w = LeftBehind(v)
    BY <2>1, <1>1, <1>6
  <2> HIDE DEF v
  <2> QED
    BY <2>1, <2>2, <1>1
<1>8. \A s \in Slots : s # Start(c) => items'[s] = items[s]
  BY <1>7 DEF QueueTypeOK
<1>9. /\ Held # <<>> /\ Head(Held) = v /\ Held' = Tail(Held)
      /\ HeldBack' \subseteq HeldBack \cup {[q \in Keeping |-> items'[Start(c)][q]]}
  BY <1>1, <1>5, <1>8, MovingUp
<1>10. [q \in Keeping |-> items'[Start(c)][q]] = Fifo!Nothing
  <2>1. items'[Start(c)] = LeftBehind(v)
    BY <1>1, <1>7 DEF QueueTypeOK
  <2> HIDE DEF v
  <2> QED
    BY <2>1, ItemAssumption DEF LeftBehind, Fifo!Nothing
<1> DEFINE outs == [d \in Consumers |-> item[d]]
<1>11. outs' = [outs EXCEPT ![c] = Fifo!Over(outs[c], v)]
  <2>1. item[c] = outs[c]
    BY <1>b
  <2>2. Assigned(item[c], v) = Fifo!Over(outs[c], v)
    BY <2>1 DEF Assigned, Fifo!Over
  <2> HIDE DEF v
  <2> QED
    BY <2>2, <1>7, <1>b DEF QueueTypeOK
<1>12. item'[p] = item[p]
  BY <1>7, <1>b DEF QueueTypeOK
<1> QED
  BY <1>3, <1>9, <1>10, <1>11, <1>12 DEF Whole, Fifo!Get

LEMMA Dropping ==
  ASSUME NEW p, NEW c, p # c, Producers = {p}, Consumers = {c}, ConsumersWait, ProducersWait,
         QueueTypeOK, QueueTypeOK', Apart(p, c), Apart(p, c)', Whole(p, c), Discard(c)
  PROVE  Whole(p, c)' /\ Fifo!Drop
<1>b. p \in Threads /\ c \in Threads /\ Threads = {p, c}
  BY Bounds
<1>1. op[c] = "none" /\ size' = size - 1 /\ front' = Advance(front)
      /\ UNCHANGED <<rear, items, op, slot, item, clash>>
  BY DEF Discard, ShallowDequeue
<1>2. Cardinality(Writing) = IF op[p] = "write" THEN 1 ELSE 0
  BY Counting DEF Apart, Near
<1>3. size \in Int /\ size > Cardinality(Writing)
  BY CapacityAssumption, SMT DEF QueueTypeOK, Discard, ItemWritten
<1>4. Inside(p, c) >= 1 /\ Start(c)' = Advance(Start(c)) /\ Inside(p, c)' = Inside(p, c) - 1
  BY <1>1, <1>2, <1>3, SMT DEF Inside, Start
<1>5. /\ Held # <<>> /\ Head(Held) = items[Start(c)] /\ Held' = Tail(Held)
      /\ HeldBack' \subseteq HeldBack \cup {[q \in Keeping |-> items'[Start(c)][q]]}
  BY <1>1, <1>4, MovingUp
<1> QED
  BY <1>1, <1>5 DEF Whole, Fifo!Drop, Fifo!Kept

-----------------------------------------------------------------------------
LEMMA FifoStep ==
  ASSUME NEW p, NEW c, p # c, Producers = {p}, Consumers = {c}, ConsumersWait, ProducersWait,
         QueueTypeOK, QueueTypeOK', IndexesAgree, Apart(p, c), Apart(p, c)', SlotExclusive',
         Whole(p, c), [Next]_queueVars
  PROVE  Whole(p, c)' /\ [Fifo!Next]_(Fifo!vars)
<1>1. CASE Enqueue(p)
  BY <1>1, Reserving
<1>2. CASE EnqueueWrite(p)
  BY <1>2, Putting DEF Fifo!Next
<1>3. CASE Dequeue(c)
  BY <1>3, Picking
<1>4. CASE DequeueMove(c)
  BY <1>4, Getting DEF Fifo!Next
<1>5. CASE Discard(c)
  BY <1>5, Dropping DEF Fifo!Next
<1>6. CASE UNCHANGED queueVars
  BY <1>6 DEF queueVars, Whole, Fifo!vars, Held, HeldBack, Oldest, Count, Writing, Moving
<1> QED
  BY <1>1, <1>2, <1>3, <1>4, <1>5, <1>6 DEF Next

LEMMA FifoInit ==
  ASSUME NEW p, NEW c, p # c, Producers = {p}, Consumers = {c}, QueueInit
  PROVE  Whole(p, c) /\ Fifo!Init
<1>1. p \in Threads /\ c \in Threads
  BY ClientsAssumption
<1>2. QueueTypeOK /\ Apart(p, c)
  BY TypeInit, <1>1 DEF QueueInit, Apart, Near
<1>3. op[p] = "none" /\ op[c] = "none" /\ item[c] = Blank /\ size = 0 /\ clash[p] = FALSE /\ clash[c] = FALSE
  BY <1>1 DEF QueueInit
<1>4. Inside(p, c) = 0
  BY <1>3, SMT DEF Inside
<1>5. Held = <<>>
  <2>1. Held \in [1 .. 0 -> Items]
    BY <1>2, <1>4, HeldIsTyped
  <2>2. Held \in Seq(Items) /\ Len(Held) = 0
    BY <2>1, Window, SMT
  <2> QED
    BY <2>2, EmptySeq
<1>6. HeldBack = {Fifo!Nothing}
  <2>1. HeldBack = {[q \in Keeping |-> items[s][q]] : s \in FreeSlots(p, c)}
    BY <1>2, HeldIs
  <2>2. FreeSlots(p, c) = Slots /\ 0 \in Slots
    BY <1>4, CapacityAssumption, SMT DEF FreeSlots, Slots
  <2>3. \A s \in Slots : [q \in Keeping |-> items[s][q]] = Fifo!Nothing
    BY ItemAssumption DEF QueueInit, Blank, Fifo!Nothing
  <2> QED
    BY <2>1, <2>2, <2>3
<1> QED
  BY <1>3, <1>5, <1>6 DEF Whole, Fifo!Init, Blank

(* One producer and one consumer that wait for each other get a first-in   *)
(* first-out queue, whatever the capacity and the items, partly empty or   *)
(* not: an item that enqueue has written comes out of dequeue once, in     *)
(* order and with every part it has, although neither access to the slot   *)
(* is locked; what BoundedFifo says of empty parts is all that can happen  *)
(* to them (queue.h:56-125, delegate.h:209-227).                           *)
THEOREM OneToOneIsFifo ==
  ASSUME NEW p, NEW c, p # c, Producers = {p}, Consumers = {c}, ConsumersWait, ProducersWait
  PROVE  Spec => IsFifo
<1>1. QueueInit => Apart(p, c) /\ Whole(p, c) /\ Fifo!Init
  BY ClientsAssumption, FifoInit DEF QueueInit, Apart, Near
<1>2. QueueTypeOK /\ Apart(p, c) /\ [Next]_queueVars => Apart(p, c)'
  BY ApartStep
<1>3. /\ QueueTypeOK /\ QueueTypeOK' /\ IndexesAgree /\ Apart(p, c) /\ Apart(p, c)'
      /\ SlotExclusive' /\ Whole(p, c) /\ [Next]_queueVars
      => Whole(p, c)' /\ [Fifo!Next]_(Fifo!vars)
  BY FifoStep
<1>4. Spec => []SlotExclusive
  BY OneToOneIsExclusive
<1> QED
  BY <1>1, <1>2, <1>3, <1>4, TypeCorrect, IndexesCorrect, PTL DEF Spec, IsFifo, Fifo!Spec

-----------------------------------------------------------------------------
(* Copies.  While the loop runs on a queue that was full and quiet nobody  *)
(* changes it, and the loop has copied what it held, oldest first.         *)
Quiet == Writing \cup Moving = {}
Alike(s, t) ==
  /\ Len(s) <= Len(t)
  /\ \A i \in 1 .. Len(s) : \E old \in LhsRemains : s[i] = Assigned(old, t[i])
Underway ==
  /\ Quiet /\ size = Capacity /\ left \in 1 .. Capacity
  /\ copy \in Seq(Items) /\ Len(copy) + left = Capacity
  /\ original = [i \in 1 .. Capacity |-> items[Place(front, i)]]
  /\ Alike(copy, original)
  /\ at = Place(front, Len(copy) + 1)
CopyOK ==
  /\ left \in Nat
  /\ left > 0 /\ original # Unsettled => Underway
  /\ CopyOfFull

LEMMA QuietHeld ==
  ASSUME QueueTypeOK, Quiet
  PROVE  /\ Held = [i \in 1 .. size |-> items[Place(front, i)]]
         /\ Held \in [1 .. size -> Items]
         /\ \A t \in Threads : op[t] = "none"
<1>1. Writing = {} /\ Moving = {}
  BY DEF Quiet
<1>2. Cardinality(Writing) = 0 /\ Cardinality(Moving) = 0
  BY <1>1, FS_EmptySet
<1>3. size \in 0 .. Capacity /\ front \in Slots
  BY DEF QueueTypeOK
<1>4. \A i \in 1 .. size : front + i - 1 = front + (i - 1) /\ i \in 1 .. Capacity + 1
  BY <1>3, CapacityAssumption, SMT DEF Slots
<1>5. size + Cardinality(Moving) - Cardinality(Writing) = size
  BY <1>2, <1>3, SMT
<1>6. Held = [i \in 1 .. size |-> items[(front + i - 1) % Capacity]]
  BY <1>1, <1>5 DEF Held, Count, Oldest
<1>7. Held = [i \in 1 .. size |-> items[Place(front, i)]]
  BY <1>4, <1>6 DEF Place
<1>8. \A i \in 1 .. size : items[Place(front, i)] \in Items
  BY <1>3, <1>4, Placing DEF QueueTypeOK
<1>9. \A t \in Threads : op[t] = "none"
  BY <1>1 DEF Writing, Moving, QueueTypeOK
<1> QED
  BY <1>7, <1>8, <1>9

(* In a full queue the slot at _rear is the slot at _front.                *)
LEMMA FullStart ==
  ASSUME QueueTypeOK, IndexesAgree, size = Capacity
  PROVE  rear = front /\ rear = Place(front, 1)
<1>1. front \in Slots /\ size \in 0 .. Capacity /\ 1 \in 1 .. Capacity + 1
  BY CapacityAssumption, SMT DEF QueueTypeOK
<1>2. rear = IF front + size < Capacity THEN front + size ELSE front + size - Capacity
  BY <1>1, Wrap DEF IndexesAgree
<1>3. Place(front, 1) = IF front + (1 - 1) < Capacity THEN front + (1 - 1) ELSE front + (1 - 1) - Capacity
  BY <1>1, Placing
<1> QED
  BY <1>1, <1>2, <1>3, CapacityAssumption, SMT DEF Slots

LEMMA Assigning ==
  ASSUME QueueTypeOK, IndexesAgree, CopyOK, Assign
  PROVE  CopyOK'
<1>1. PICK capacity \in LhsCapacities :
        /\ at' = IF capacity < Capacity THEN 0 ELSE rear
        /\ left' = IF capacity < Capacity THEN 0 ELSE size
        /\ original' = IF capacity >= Capacity /\ Settled THEN Held ELSE Unsettled
  BY DEF Assign
<1>2. copy' = <<>> /\ UNCHANGED <<rear, front, size, items, op>> /\ size \in 0 .. Capacity
      /\ capacity \in Nat
  BY LhsAssumption DEF Assign, queueVars, QueueTypeOK
<1>3. left' \in Nat
  BY <1>1, <1>2, CapacityAssumption, SMT
<1>4. CASE original' = Unsettled
  BY <1>3, <1>4 DEF CopyOK, CopyOfFull
<1>5. CASE original' # Unsettled
  <2>1. capacity >= Capacity /\ Settled /\ original' = Held /\ left' = size /\ at' = rear
    BY <1>1, <1>2, <1>5, CapacityAssumption, SMT
  <2>2. Quiet /\ (size = Capacity \/ size = 0)
    BY <2>1 DEF Settled, Quiet, is_full, is_empty
  <2>3. Held = [i \in 1 .. size |-> items[Place(front, i)]] /\ Held \in Seq(Items) /\ Len(Held) = size
    BY <1>2, <2>2, QuietHeld, Window, CapacityAssumption, SMT
  <2>4. CASE size = 0
    <3>1. Held = <<>>
      BY <2>3, <2>4, EmptySeq
    <3> QED
      BY <1>2, <1>3, <2>1, <2>4, <3>1, SMT DEF CopyOK, CopyOfFull
  <2>5. CASE size = Capacity
    <3>1. rear = Place(front, 1)
      BY <2>5, FullStart
    <3>2. copy' \in Seq(Items) /\ Len(copy') = 0
      BY <1>2, EmptySeq
    <3>3. Len(copy') + 1 = 1 /\ Len(copy') + left' = Capacity /\ left' \in 1 .. Capacity /\ left' # 0
      BY <2>1, <2>5, <3>2, CapacityAssumption, SMT
    <3>4. Alike(copy', original')
      BY <1>2, <2>1, <2>3, <3>2, SMT DEF Alike
    <3>5. Quiet'
      BY <1>2, <2>2 DEF Quiet, Writing, Moving
    <3>6. Underway'
      BY <1>2, <2>1, <2>3, <2>5, <3>1, <3>2, <3>3, <3>4, <3>5 DEF Underway, Place
    <3> QED
      BY <1>3, <3>3, <3>6 DEF CopyOK, CopyOfFull
  <2> QED
    BY <2>2, <2>4, <2>5
<1> QED
  BY <1>4, <1>5

LEMMA CopyingItem ==
  ASSUME QueueTypeOK, CopyOK, CopyItem
  PROVE  CopyOK'
<1>1. left \in Nat /\ left > 0 /\ left' = left - 1 /\ original' = original
      /\ UNCHANGED <<rear, front, size, items, op>>
  BY DEF CopyOK, CopyItem, queueVars
<1>2. left' \in Nat
  BY <1>1, SMT
<1>3. CASE original = Unsettled
  BY <1>1, <1>2, <1>3 DEF CopyOK, CopyOfFull
<1>4. CASE original # Unsettled
  <2>1. Underway
    BY <1>1, <1>4 DEF CopyOK
  <2>2. Accessed(at) = {}
    BY <2>1, QuietHeld DEF Underway, Accessed
  <2>3. PICK old \in LhsRemains : copy' = Append(copy, Assigned(old, items[at]))
    BY <2>2 DEF CopyItem
  <2> DEFINE x == Assigned(old, items[at])
  <2> DEFINE n == Len(copy)
  <2>4. n \in Nat /\ n + left = Capacity /\ n + 1 \in 1 .. Capacity /\ front \in Slots
    BY <2>1, <1>1, LenProperties, CapacityAssumption, SMT DEF Underway, QueueTypeOK
  <2>5. n + 1 \in 1 .. Capacity + 1
    BY <2>4, CapacityAssumption, SMT
  <2>6. at = Place(front, n + 1) /\ at \in Slots /\ items[at] \in Items /\ original[n + 1] = items[at]
    BY <2>1, <2>4, <2>5, Placing DEF Underway, QueueTypeOK
  <2>7. /\ copy' \in Seq(Items) /\ Len(copy') = n + 1
        /\ \A i \in 1 .. n + 1 : copy'[i] = IF i <= n THEN copy[i] ELSE x
    <3>1. x \in Items
      BY <2>6, ItemTypes, LhsAssumption
    <3> HIDE DEF x
    <3>2. copy' = Append(copy, x)
      BY <2>3 DEF x
    <3> QED
      BY <2>1, <3>1, <3>2, SMT DEF Underway
  <2>8. original \in [1 .. Capacity -> Items] /\ Len(original) = Capacity /\ original \in Seq(Items)
    <3>1. \A i \in 1 .. Capacity : items[Place(front, i)] \in Items
      <4> TAKE i \in 1 .. Capacity
      <4>1. i \in 1 .. Capacity + 1
        BY CapacityAssumption, SMT
      <4> QED
        BY <2>4, <4>1, Placing DEF QueueTypeOK
    <3> QED
      BY <2>1, <3>1, Window, CapacityAssumption DEF Underway
  <2>9. Alike(copy', original')
    <3>1. \A i \in 1 .. n + 1 : (i \in 1 .. n /\ i <= n) \/ (i = n + 1 /\ ~(i <= n))
      BY <2>4, SMT
    <3>2. \A i \in 1 .. n + 1 : \E o \in LhsRemains : copy'[i] = Assigned(o, original[i])
      <4> TAKE i \in 1 .. n + 1
      <4>1. CASE i \in 1 .. n /\ i <= n
        BY <2>1, <2>7, <4>1 DEF Underway, Alike
      <4>2. CASE i = n + 1 /\ ~(i <= n)
        BY <2>6, <2>7, <4>2
      <4> QED
        BY <3>1, <4>1, <4>2
    <3> QED
      BY <1>1, <2>4, <2>7, <2>8, <3>2, SMT DEF Alike
  <2>10. CASE left = 1
    <3>1. left' = 0 /\ Len(copy') = Capacity
      BY <1>1, <2>4, <2>7, <2>10, SMT
    <3>2. CopyOfFull'
      BY <1>1, <2>7, <2>8, <2>9, <3>1 DEF CopyOfFull, Alike
    <3> QED
      BY <1>2, <3>1, <3>2, SMT DEF CopyOK
  <2>11. CASE left # 1
    <3>1. at' = Advance(at) /\ left' \in 1 .. Capacity /\ n + 1 + left' = Capacity /\ left' # 0
      BY <1>1, <2>4, <2>11, SMT DEF CopyItem
    <3>2. Advance(at) = Place(front, n + 1 + 1)
      <4>1. n + 1 + 1 \in 1 .. Capacity + 1
        BY <2>4, CapacityAssumption, SMT
      <4>2. Place(front, n + 1 + 1) = IF front + (n + 1 + 1 - 1) < Capacity THEN front + (n + 1 + 1 - 1)
                                      ELSE front + (n + 1 + 1 - 1) - Capacity
        BY <2>4, <4>1, Placing
      <4>3. at = IF front + (n + 1 - 1) < Capacity THEN front + (n + 1 - 1)
                 ELSE front + (n + 1 - 1) - Capacity
        BY <2>4, <2>5, <2>6, Placing
      <4>4. Advance(at) = IF at + 1 = Capacity THEN 0 ELSE at + 1
        BY <2>6, Advancing
      <4> QED
        BY <2>4, <4>2, <4>3, <4>4, CapacityAssumption, SMT DEF Slots
    <3>3. Quiet'
      BY <1>1, <2>1 DEF Underway, Quiet, Writing, Moving
    <3>4. Underway'
      BY <1>1, <2>1, <2>7, <2>9, <3>1, <3>2, <3>3 DEF Underway, Place
    <3> QED
      BY <1>2, <3>1, <3>4 DEF CopyOK, CopyOfFull
  <2> QED
    BY <2>10, <2>11
<1> QED
  BY <1>3, <1>4

LEMMA CopyStep == QueueTypeOK /\ IndexesAgree /\ CopyOK /\ [CopyNext]_allVars => CopyOK'
<1> SUFFICES ASSUME QueueTypeOK, IndexesAgree, CopyOK, [CopyNext]_allVars PROVE CopyOK'
  OBVIOUS
<1>1. CASE Assign
  BY <1>1, Assigning
<1>2. CASE CopyItem
  BY <1>2, CopyingItem
<1>3. CASE UNCHANGED copyVars /\ left = 0
  BY <1>3, SMT DEF copyVars, CopyOK, CopyOfFull
<1>4. ASSUME UNCHANGED copyVars, left # 0,
             (\E p \in Producers : EnqueueWrite(p)) \/ (\E c \in Consumers : DequeueMove(c))
      PROVE  CopyOK'
  <2>1. ~Quiet
    <3>1. Producers \subseteq Threads /\ Consumers \subseteq Threads
      BY ClientsAssumption
    <3> QED
      BY <1>4, <3>1 DEF Quiet, Writing, Moving, EnqueueWrite, DequeueMove
  <2> QED
    BY <1>4, <2>1, SMT DEF copyVars, CopyOK, CopyOfFull, Underway
<1>5. CASE UNCHANGED allVars
  BY <1>5 DEF allVars, queueVars, copyVars, CopyOK, CopyOfFull, Underway, Quiet, Writing, Moving, Place
<1> QED
  BY <1>1, <1>2, <1>3, <1>4, <1>5 DEF CopyNext, Unguarded

(* The copying thread only watches the queue.                              *)
LEMMA CopiesAreClients == CopySpec => Spec
<1>1. CopyInit => QueueInit
  BY DEF CopyInit
<1>2. [CopyNext]_allVars => [Next]_queueVars
  BY DEF CopyNext, Next, allVars, Assign, CopyItem
<1> QED
  BY <1>1, <1>2, PTL DEF CopySpec, Spec

(* operator= (queue.h:126-163) copies a full or an empty queue that nobody *)
(* is accessing item by item, wherever its items begin, for any number of  *)
(* callers, any capacity and any items; what a slot of the other queue had *)
(* shows only where an item has no such part (delegate.h:209-216).         *)
THEOREM FullIsCopied == CopySpec => []CopyOfFull
<1>1. CopyInit => CopyOK
  BY SMT DEF CopyInit, CopyOK, CopyOfFull
<1>2. CopyOK => CopyOfFull
  BY DEF CopyOK
<1> QED
  BY <1>1, <1>2, CopyStep, CopiesAreClients, TypeCorrect, IndexesCorrect, PTL DEF CopySpec
=============================================================================
