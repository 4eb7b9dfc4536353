------------------------------ MODULE Delegate ------------------------------
(***************************************************************************)
(* vee::delegate (vee/delegate.h:84-239) as a value: functions in the      *)
(* order they were added, and functions under a key.  The operators give   *)
(* the delegate that an operation leaves behind.                           *)
(***************************************************************************)
EXTENDS Integers, SequencesExt

CONSTANTS
  Functions,  \* what can be added
  Comparable, \* those that compare equal to themselves: plain function pointers, and
              \* functors with an operator== whose type the call names
  Keys        \* key_t

ASSUME FunctionsAssumption == Comparable \subseteq Functions /\ Keys \subseteq Int

Empty == [container |-> <<>>, keyed |-> <<>>]
make_delegate(f) == [Empty EXCEPT !.container = <<f>>]

Add(d, f) == [d EXCEPT !.container = Append(@, f)]

\* map::insert: the key that is there keeps its function
AddKeyed(d, k, f) ==
  [d EXCEPT !.keyed = [j \in DOMAIN @ \cup {k} |-> IF j \in DOMAIN @ THEN @[j] ELSE f]]

\* the first function that compares equal, if there is one
Erase(d, f) ==
  LET found == {i \in DOMAIN d.container : f \in Comparable /\ d.container[i] = f}
  IN IF found = {} THEN d
     ELSE [d EXCEPT !.container = RemoveAt(@, CHOOSE i \in found : \A j \in found : i <= j)]

EraseKey(d, k) == [d EXCEPT !.keyed = [j \in DOMAIN @ \ {k} |-> @[j]]]

\* _deep_copy: what the source has none of, the target keeps
Assign(to, from) ==
  [container |-> IF from.container = <<>> THEN to.container ELSE from.container,
   keyed |-> IF DOMAIN from.keyed = {} THEN to.keyed ELSE from.keyed]

\* operator(): the functions that are called, in order
Calls(d) ==
  LET keys == SetToSortSeq(DOMAIN d.keyed, <)
  IN d.container \o [i \in DOMAIN keys |-> d.keyed[keys[i]]]
=============================================================================
