------------------------------- MODULE MCActor -------------------------------
(* Small instances of Actor.  Bounds: the jobs, the capacity, the workers. *)
(* The delegates of the jobs have functions in one container, in the       *)
(* other, in both, or in none.                                             *)
EXTENDS Actor

CONSTANTS o, a, w1, w2, f1, f2, f3, k2, k3, a1, a2, a3, a4

JustOwner == {o}
OwnerAndOne == {o, a}
OneWorker == {w1}
TwoWorkers == {w1, w2}
AllThreads == Clients \cup Workers

MailParts == {"_container", "_idx_container", "args"}
DelegateParts == {"_container", "_idx_container"}
MailContents == {f1, f2, f3, k2, k3, a1, a2, a3, a4}
Job(functions, keyed, args) ==
  [p \in MailParts |-> CASE p = "_container" -> functions
                         [] p = "_idx_container" -> keyed
                         [] p = "args" -> args]
TwoJobs == {Job(f1, None, a1), Job(None, k2, a2)}
ThreeJobs == TwoJobs \cup {Job(f3, k3, a3)}
FourJobs == ThreeJobs \cup {Job(None, None, a4)}

\* jobs of which only the functions are told apart
OnePart == {"_container"}
ThreeFunctions == {[p \in OnePart |-> x] : x \in {f1, f2, f3}}
=============================================================================
