---------------------------- MODULE MCQueueCopies ---------------------------
(* A small instance of QueueCopies.  Bound: the capacity.  An item is one  *)
(* container, empty or not.                                                *)
EXTENDS QueueCopies

CONSTANTS p1, c1, f, g

OneProducer == {p1}
OneConsumer == {c1}
OneToOne == {p1, c1}
SmallAndEqual == {Capacity - 1, Capacity}

OnePart == {"_container"}
TwoContents == {f, g}
Functions(functions) == [p \in OnePart |-> functions]
EmptyOrNot == {Functions(f), Functions(None)}
Remains == {Functions(g), Functions(None)}
=============================================================================
