----------------------------- MODULE MCScheduler -----------------------------
(* Small instances of Scheduler.  Bounds: the jobs, the actors, IntMax.    *)
EXTENDS Scheduler

CONSTANTS c1, c2, a1, a2, j1, j2

TwoClients == {c1, c2}
TwoActors == {a1, a2}
TwoJobs == {j1, j2}
StartWithOne == <<a1>>
OneJob == {j1}
Stale == {-1, 0, 1}
Overflowed == -4
=============================================================================
