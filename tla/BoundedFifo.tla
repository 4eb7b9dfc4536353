----------------------------- MODULE BoundedFifo -----------------------------
(***************************************************************************)
(* What a bounded first-in first-out queue of items with several parts     *)
(* promises: an item put in comes out once, with every part it was put in  *)
(* with, in the order of the puts, and at most Capacity items are inside.  *)
(* A part that keeps what it has when there is nothing new shows more: an  *)
(* item without that part may be put in with that of an item that was      *)
(* dropped, and is taken out with that of the item its taker took before.  *)
(* The ring buffer of vee/queue.h is compared with it.                     *)
(***************************************************************************)
EXTENDS Naturals, Sequences

CONSTANTS Capacity, Takers, Parts, Keeping, None, Values

VARIABLES
  queue,   \* the items inside, oldest first
  out,     \* out[t]: the item that taker t took last
  left     \* what the items that have left may have left behind

vars == <<queue, out, left>>

\* The item new, with what old has of the parts that new has none of.
Over(old, new) ==
  [p \in Parts |-> IF p \in Keeping /\ new[p] = None THEN old[p] ELSE new[p]]

Kept(item) == [p \in Keeping |-> item[p]]
Nothing == [p \in Keeping |-> None]

Init ==
  /\ queue = <<>>
  /\ out = [t \in Takers |-> [p \in Parts |-> None]]
  /\ left = {Nothing}

Put ==
  /\ Len(queue) < Capacity
  /\ \E v \in Values, old \in left : queue' = Append(queue, Over(old, v))
  /\ left' \subseteq left
  /\ UNCHANGED out

Get(t) ==
  /\ queue # <<>>
  /\ out' = [out EXCEPT ![t] = Over(out[t], Head(queue))]
  /\ queue' = Tail(queue)
  /\ left' \subseteq left \cup {Nothing}

Drop ==
  /\ queue # <<>>
  /\ queue' = Tail(queue)
  /\ left' \subseteq left \cup {Kept(Head(queue))}
  /\ UNCHANGED out

Next == Put \/ Drop \/ \E t \in Takers : Get(t)

Spec == Init /\ [][Next]_vars
=============================================================================
