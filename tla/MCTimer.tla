------------------------------- MODULE MCTimer -------------------------------
(* Small instances of Timer.  Bounds: TickModulus, MaxHandlers.            *)
EXTENDS Timer, TLC

CONSTANTS list, keyed, f, g, h

ListAndKeyed == {list, keyed}
\* One callback has functions with a key and others without, one only the latter.
TwoCallbacks == {list :> f @@ keyed :> g, list :> h @@ keyed :> None}
AnyState == {"IDLE", "RUN", "OTHER"}
=============================================================================
