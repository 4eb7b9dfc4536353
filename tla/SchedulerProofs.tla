--------------------------- MODULE SchedulerProofs ---------------------------
(***************************************************************************)
(* vee::scheduler for any number of clients, jobs and actors, any mailbox  *)
(* size and whatever _size began with: its types, that request tells the   *)
(* truth about the jobs it was given, when it loses one, and when it gives *)
(* up.                                                                     *)
(***************************************************************************)
EXTENDS Scheduler, FiniteSetTheorems, TLAPS

(* The remainder of C++ is an integer between those of the divisor.        *)
LEMMA RemainderType ==
  ASSUME NEW n \in Int, NEW d \in Int, d # 0
  PROVE  Remainder(n, d) \in Int
<1>1. Magnitude(n) \in Nat /\ Magnitude(d) \in Nat \ {0}
  BY SMT DEF Magnitude
<1>2. Magnitude(n) % Magnitude(d) \in Nat
  BY <1>1, SMT
<1> QED
  BY <1>2, SMT DEF Remainder

-----------------------------------------------------------------------------
(* What a request has read so far is fit for its next step.                *)
Places == {"idle", "draw", "divide", "at", "request", "enqueue", "count"}
Found ==
  /\ \A c \in Clients : pc[c] = "at" => index[c] \in Nat
  /\ \A c \in Clients : pc[c] \in {"request", "enqueue", "count"} => actor[c] \in Actors

(* A client that is in request has a job of its own, which is pending and, *)
(* once it is in a mailbox, in the one of the client's actor.              *)
Own ==
  /\ \A c \in Clients : pc[c] # "idle" => result[job[c]] = "pending"
  /\ \A c, d \in Clients :
       pc[c] # "idle" /\ pc[d] # "idle" /\ job[c] = job[d] => c = d
  /\ \A c \in Clients : pc[c] = "count" => job[c] \in entered[actor[c]]

Finite == \A a \in Actors : IsFiniteSet(entered[a])

Kept == TypeOK /\ Found /\ Finite /\ Own /\ TrueMeansAccepted

LEMMA KeptInit == Init => Kept
<1> SUFFICES ASSUME Init PROVE Kept
  OBVIOUS
<1>1. Blank \in Jobs /\ Len(InitActors) \in Nat
  BY SchedulerAssumption DEF Blank
<1>2. TypeOK
  <2>1. size \in Int /\ counter \in AfterIntMax .. IntMax
    BY <1>1, SchedulerAssumption, SMT DEF Init
  <2>2. status \in [Actors -> {"none", "starting", "open", "closing", "gone"}]
    BY DEF Init
  <2>3. 0 \in 0 .. MailboxSize /\ 0 \in Nat
    BY SchedulerAssumption, SMT
  <2> QED
    BY <1>1, <2>1, <2>2, <2>3, SchedulerAssumption DEF Init, TypeOK
<1>3. \A a \in Actors : entered[a] = {} /\ waiting[a] = 0 /\ taken[a] = 0
  BY DEF Init
<1>4. Found /\ Finite /\ Own
  BY <1>3, FS_EmptySet DEF Init, Found, Finite, Own
<1>5. TrueMeansAccepted
  <2>1. Cardinality({}) = 0 /\ 0 + 0 = 0
    BY FS_EmptySet
  <2> QED
    BY <1>3, <2>1 DEF Init, TrueMeansAccepted
<1> QED
  BY <1>2, <1>4, <1>5 DEF Kept

-----------------------------------------------------------------------------
(* The two ways out of a try: another one, or back to the caller.          *)
LEMMA Trying ==
  ASSUME TypeOK, Found, NEW c \in Clients, NEW a, Retry(c, a)
  PROVE  /\ Found'
         /\ index' \in [Clients -> Int]
         /\ actor' \in [Clients -> Actors \cup {NoActor}]
         /\ pc' \in [Clients -> Places]
<1>1. /\ pc' = [pc EXCEPT ![c] = "draw"]
      /\ index' = [index EXCEPT ![c] = 0]
      /\ actor' = [actor EXCEPT ![c] = NoActor]
  BY DEF Retry, Go
<1>2. Found'
  BY <1>1 DEF TypeOK, Found
<1> QED
  BY <1>1, <1>2 DEF TypeOK, Places

LEMMA Returning ==
  ASSUME TypeOK, Found, NEW c \in Clients, NEW a, NEW r \in {"true", "false"},
         Return(c, a, r)
  PROVE  /\ Found'
         /\ index' \in [Clients -> Int]
         /\ actor' \in [Clients -> Actors \cup {NoActor}]
         /\ job' \in [Clients -> Jobs]
         /\ result' \in [Jobs -> {"none", "pending", "true", "false"}]
         /\ pc' \in [Clients -> Places]
<1>1. Blank \in Jobs
  BY SchedulerAssumption DEF Blank
<1>2. /\ pc' = [pc EXCEPT ![c] = "idle"]
      /\ index' = [index EXCEPT ![c] = 0]
      /\ actor' = [actor EXCEPT ![c] = NoActor]
      /\ job' = [job EXCEPT ![c] = Blank]
      /\ result' = [result EXCEPT ![job[c]] = r]
  BY DEF Return, Go
<1>3. Found'
  BY <1>2 DEF TypeOK, Found
<1> QED
  BY <1>1, <1>2, <1>3 DEF TypeOK, Places

(* A job that its client still tries is in no mailbox.                     *)
LEMMA NotYet ==
  ASSUME TypeOK, Own, TrueMeansAccepted, NEW c \in Clients, pc[c] \notin {"idle", "count"},
         NEW a \in Actors
  PROVE  job[c] \notin entered[a]
BY DEF Own, TrueMeansAccepted

-----------------------------------------------------------------------------
(* Each step keeps the types and the places.                               *)
LEMMA TypeStep == Kept /\ [Next]_vars => TypeOK' /\ Found'
<1> SUFFICES ASSUME TypeOK, Found, Own, [Next]_vars PROVE TypeOK' /\ Found'
  BY DEF Kept
<1> USE DEF groupVars, mailVars, clientVars
<1>1. ASSUME NEW c \in Clients, Begin(c) PROVE TypeOK' /\ Found'
  BY <1>1 DEF TypeOK, Found, Begin, Go
<1>2. ASSUME NEW c \in Clients, DrawIndex(c) PROVE TypeOK' /\ Found'
  <2>1. counter' \in AfterIntMax .. IntMax /\ counter \in Int
    BY <1>2, SchedulerAssumption, SMT DEF TypeOK, DrawIndex
  <2> QED
    BY <1>2, <2>1 DEF TypeOK, Found, DrawIndex, Go
<1>3. ASSUME NEW c \in Clients, DivideIndex(c) PROVE TypeOK' /\ Found'
  <2>1. Remainder(index[c], size) \in Nat
    <3>1. Remainder(index[c], size) \in Int
      BY <1>3, RemainderType DEF TypeOK, DivideIndex
    <3> QED
      BY <1>3, <3>1, SMT DEF DivideIndex
  <2>2. index' = [index EXCEPT ![c] = Remainder(index[c], size)]
    BY <1>3 DEF DivideIndex
  <2> QED
    BY <1>3, <2>1, <2>2 DEF TypeOK, Found, DivideIndex, Go
<1>4. ASSUME NEW c \in Clients, Refuse(c) \/ Accept(c) PROVE TypeOK' /\ Found'
  <2>1. Return(c, "divide", "false") \/ Return(c, "count", "true")
    BY <1>4 DEF Refuse, Accept
  <2>2. /\ Found'
        /\ index' \in [Clients -> Int]
        /\ actor' \in [Clients -> Actors \cup {NoActor}]
        /\ job' \in [Clients -> Jobs]
        /\ result' \in [Jobs -> {"none", "pending", "true", "false"}]
        /\ pc' \in [Clients -> Places]
    BY <2>1, Returning
  <2>3. UNCHANGED <<counter, groupVars, mailVars, spent, stale, manager>>
    BY <1>4 DEF Refuse, Accept
  <2> QED
    BY <2>2, <2>3 DEF TypeOK, Places
<1>5. ASSUME NEW c \in Clients, At(c) PROVE TypeOK' /\ Found'
  <2>1. CASE index[c] >= Count
    <3>1. Retry(c, "at")
      BY <1>5, <2>1 DEF At
    <3> QED
      BY <1>5, <3>1, Trying DEF TypeOK, At, Places
  <2>2. CASE ~(index[c] >= Count)
    <3>1. actors[index[c] + 1] \in Actors
      <4>1. index[c] \in Nat /\ Count \in Nat /\ index[c] + 1 \in 1 .. Len(actors)
        BY <1>5, <2>2, SMT DEF TypeOK, Found, At, Go, Count
      <4> QED
        BY <4>1, SMT DEF TypeOK
    <3>2. /\ pc' = [pc EXCEPT ![c] = "request"]
          /\ actor' = [actor EXCEPT ![c] = actors[index[c] + 1]]
          /\ index' = [index EXCEPT ![c] = 0]
      BY <1>5, <2>2 DEF At, Go
    <3>3. Found'
      BY <3>1, <3>2 DEF TypeOK, Found
    <3> QED
      BY <1>5, <3>1, <3>2, <3>3 DEF TypeOK, At
  <2> QED
    BY <2>1, <2>2
<1>6. ASSUME NEW c \in Clients, NotWorkable(c) \/ MailboxFull(c) PROVE TypeOK' /\ Found'
  <2>1. Retry(c, "request") \/ Retry(c, "enqueue")
    BY <1>6 DEF NotWorkable, MailboxFull
  <2>2. /\ Found'
        /\ index' \in [Clients -> Int]
        /\ actor' \in [Clients -> Actors \cup {NoActor}]
        /\ pc' \in [Clients -> Places]
    BY <2>1, Trying
  <2>3. spent' \subseteq Movable
    BY <1>6 DEF TypeOK, NotWorkable, MailboxFull
  <2>4. UNCHANGED <<counter, groupVars, mailVars, stale, result, job, manager>>
    BY <1>6 DEF NotWorkable, MailboxFull
  <2> QED
    BY <2>2, <2>3, <2>4 DEF TypeOK, Places
<1>7. ASSUME NEW c \in Clients, Workable(c) PROVE TypeOK' /\ Found'
  BY <1>7 DEF TypeOK, Found, Workable, Go
<1>8. ASSUME NEW c \in Clients, Enqueue(c) PROVE TypeOK' /\ Found'
  <2>1. /\ actor[c] \in Actors /\ job[c] \in Jobs
        /\ waiting[actor[c]] \in 0 .. MailboxSize /\ waiting[actor[c]] < MailboxSize
    BY <1>8 DEF TypeOK, Found, Enqueue, Go
  <2>2. waiting[actor[c]] + 1 \in 0 .. MailboxSize
    BY <2>1, SchedulerAssumption, SMT
  <2>3. waiting' \in [Actors -> 0 .. MailboxSize] /\ entered' \in [Actors -> SUBSET Jobs]
    BY <1>8, <2>1, <2>2 DEF TypeOK, Enqueue
  <2> QED
    BY <1>8, <2>3 DEF TypeOK, Found, Enqueue, Go
<1>9. ASSUME NEW a \in Actors, Open(a) PROVE TypeOK' /\ Found'
  BY <1>9 DEF TypeOK, Found, Open
<1>10. ASSUME NEW a \in Actors, Work(a) PROVE TypeOK' /\ Found'
  <2>1. waiting[a] - 1 \in 0 .. MailboxSize /\ taken[a] + 1 \in Nat
    BY <1>10, SchedulerAssumption, SMT DEF TypeOK, Work
  <2>2. waiting' \in [Actors -> 0 .. MailboxSize] /\ taken' \in [Actors -> Nat]
    BY <1>10, <2>1 DEF TypeOK, Work
  <2> QED
    BY <1>10, <2>2 DEF TypeOK, Found, Work
<1>11. CASE AddPush
  <2>1. PICK a \in Actors : status' = [status EXCEPT ![a] = "starting"] /\ actors' = Append(actors, a)
    BY <1>11 DEF AddPush
  <2>2. actors' \in Seq(Actors)
    BY <2>1, SMT DEF TypeOK
  <2> QED
    BY <1>11, <2>1, <2>2 DEF TypeOK, Found, AddPush
<1>12. CASE AddSize \/ RemoveSize
  <2>1. size' \in Int
    BY <1>12, SMT DEF TypeOK, AddSize, RemoveSize
  <2> QED
    BY <1>12, <2>1 DEF TypeOK, Found, AddSize, RemoveSize
<1>13. CASE RemoveKill
  BY <1>13 DEF TypeOK, Found, RemoveKill
<1>14. CASE RemovePop
  <2>1. actors' \in Seq(Actors)
    BY <1>14, SMT DEF TypeOK, RemovePop, Count
  <2> QED
    BY <1>14, <2>1 DEF TypeOK, Found, RemovePop
<1>15. CASE UNCHANGED vars
  BY <1>15 DEF vars, TypeOK, Found
<1> QED
  BY <1>1, <1>2, <1>3, <1>4, <1>5, <1>6, <1>7, <1>8, <1>9, <1>10, <1>11, <1>12, <1>13, <1>14, <1>15
     DEF Next, Request, Manage

-----------------------------------------------------------------------------
(* A client that goes on inside request keeps its job; one that returns    *)
(* leaves a job that no other client has.                                  *)
LEMMA OwnStep == Kept /\ [Next]_vars => Own'
<1> SUFFICES ASSUME TypeOK, Found, Own, [Next]_vars PROVE Own'
  BY DEF Kept
<1> USE DEF groupVars, mailVars, clientVars
<1>1. ASSUME NEW c \in Clients, Begin(c) PROVE Own'
  <2>1. PICK j \in Jobs : /\ result[j] = "none"
                          /\ result' = [result EXCEPT ![j] = "pending"]
                          /\ job' = [job EXCEPT ![c] = j]
    BY <1>1 DEF Begin
  <2> QED
    BY <1>1, <2>1 DEF TypeOK, Own, Begin, Go
<1>2. ASSUME NEW c \in Clients, NEW a \in {"divide", "count"}, NEW r, Return(c, a, r),
             entered' = entered
      PROVE  Own'
  <2>1. /\ pc[c] # "idle"
        /\ pc' = [pc EXCEPT ![c] = "idle"]
        /\ job' = [job EXCEPT ![c] = Blank]
        /\ actor' = [actor EXCEPT ![c] = NoActor]
        /\ result' = [result EXCEPT ![job[c]] = r]
    BY <1>2 DEF Return, Go
  <2>2. ASSUME NEW d \in Clients, pc'[d] # "idle"
        PROVE  /\ d # c /\ pc[d] # "idle" /\ pc'[d] = pc[d] /\ job'[d] = job[d] /\ actor'[d] = actor[d]
               /\ result'[job[d]] = "pending"
    <3>1. d # c /\ pc[d] # "idle" /\ pc'[d] = pc[d] /\ job'[d] = job[d] /\ actor'[d] = actor[d]
      BY <2>1, <2>2 DEF TypeOK
    <3>2. job[d] # job[c] /\ job[d] \in Jobs /\ result[job[d]] = "pending"
      BY <2>1, <3>1 DEF TypeOK, Own
    <3> QED
      BY <2>1, <3>1, <3>2 DEF TypeOK
  <2> QED
    BY <1>2, <2>2 DEF Own
<1>3. ASSUME NEW c \in Clients, Go(c, "enqueue", "count"), UNCHANGED <<job, result, actor>>,
             entered' = [entered EXCEPT ![actor[c]] = entered[actor[c]] \cup {job[c]}]
      PROVE  Own'
  <2>1. pc[c] = "enqueue" /\ pc' = [pc EXCEPT ![c] = "count"] /\ actor[c] \in Actors
    BY <1>3 DEF Go, Found
  <2>2. \A d \in Clients : entered[actor[d]] \subseteq entered'[actor[d]] \/ actor[d] \notin Actors
    BY <1>3, <2>1 DEF TypeOK
  <2>3. job[c] \in entered'[actor[c]]
    BY <1>3, <2>1 DEF TypeOK
  <2>4. \A d \in Clients : pc'[d] = "count" => job[d] \in entered'[actor[d]]
    BY <2>1, <2>2, <2>3 DEF TypeOK, Own, Found
  <2>5. \A d \in Clients : pc'[d] # "idle" => pc[d] # "idle"
    BY <2>1 DEF TypeOK
  <2> QED
    BY <1>3, <2>4, <2>5 DEF Own
<1>4. ASSUME NEW c \in Clients, NEW a \in {"draw", "divide", "at", "request", "enqueue"},
             NEW b \in {"draw", "divide", "at", "request", "enqueue"}, Go(c, a, b),
             UNCHANGED <<job, result, entered>>, \A d \in Clients : d # c => actor'[d] = actor[d]
      PROVE  Own'
  <2>1. pc[c] = a /\ pc' = [pc EXCEPT ![c] = b]
    BY <1>4 DEF Go
  <2>2. \A d \in Clients : /\ pc'[d] # "idle" => pc[d] # "idle"
                           /\ pc'[d] = "count" => d # c /\ pc[d] = "count"
    BY <2>1 DEF TypeOK
  <2> QED
    BY <1>4, <2>2 DEF Own
<1>5. ASSUME NEW c \in Clients, Request(c) PROVE Own'
  <2>1. CASE Refuse(c) \/ Accept(c)
    BY <1>2, <2>1 DEF Refuse, Accept
  <2>2. CASE Enqueue(c)
    BY <1>3, <2>2 DEF Enqueue
  <2>3. CASE DrawIndex(c) \/ DivideIndex(c) \/ Workable(c)
    BY <1>4, <2>3 DEF DrawIndex, DivideIndex, Workable
  <2>4. ASSUME NEW a \in {"at", "request", "enqueue"}, Retry(c, a), UNCHANGED <<job, result, entered>>
        PROVE  Own'
    <3>1. Go(c, a, "draw") /\ \A d \in Clients : d # c => actor'[d] = actor[d]
      BY <2>4 DEF Retry, TypeOK
    <3> QED
      BY <1>4, <2>4, <3>1
  <2>5. CASE NotWorkable(c) \/ MailboxFull(c)
    BY <2>4, <2>5 DEF NotWorkable, MailboxFull
  <2>6. CASE At(c)
    <3>1. CASE index[c] >= Count
      BY <2>4, <2>6, <3>1 DEF At
    <3>2. CASE ~(index[c] >= Count)
      <4>1. Go(c, "at", "request") /\ \A d \in Clients : d # c => actor'[d] = actor[d]
        BY <2>6, <3>2 DEF At, TypeOK
      <4> QED
        BY <1>4, <2>6, <4>1 DEF At
    <3> QED
      BY <3>1, <3>2
  <2> QED
    BY <1>5, <2>1, <2>2, <2>3, <2>5, <2>6 DEF Request
<1>6. CASE UNCHANGED <<job, result, pc, actor, entered>>
  BY <1>6 DEF Own
<1> QED
  BY <1>1, <1>5, <1>6 DEF Next, Open, Work, Manage, AddPush, AddSize, RemoveSize,
       RemoveKill, RemovePop, vars

(* A mail of a job enters one mailbox, and its client then returns true;   *)
(* what has entered is there until the worker takes it.                    *)
LEMMA TruthStep == Kept /\ [Next]_vars => TrueMeansAccepted' /\ Finite'
<1> SUFFICES ASSUME TypeOK, Found, Finite, Own, TrueMeansAccepted, [Next]_vars
             PROVE  TrueMeansAccepted' /\ Finite'
  BY DEF Kept
<1> USE DEF groupVars, mailVars, clientVars
<1>1. ASSUME NEW c \in Clients, Enqueue(c) PROVE TrueMeansAccepted' /\ Finite'
  <2> DEFINE a == actor[c]
             j == job[c]
  <2>1. /\ a \in Actors /\ j \in Jobs /\ pc[c] = "enqueue" /\ pc' = [pc EXCEPT ![c] = "count"]
        /\ waiting' = [waiting EXCEPT ![a] = waiting[a] + 1]
        /\ entered' = [entered EXCEPT ![a] = entered[a] \cup {j}]
        /\ UNCHANGED <<taken, result, job>>
    BY <1>1 DEF TypeOK, Found, Enqueue, Go
  <2>2. \A b \in Actors : j \notin entered[b]
    BY <2>1, NotYet
  <2>3. \A b \in Actors : /\ entered'[b] = IF b = a THEN entered[b] \cup {j} ELSE entered[b]
                          /\ waiting'[b] = IF b = a THEN waiting[b] + 1 ELSE waiting[b]
    BY <2>1 DEF TypeOK
  <2>4. IsFiniteSet(entered[a] \cup {j}) /\ Cardinality(entered[a] \cup {j}) = Cardinality(entered[a]) + 1
    BY <2>1, <2>2, FS_AddElement DEF Finite
  <2>5. waiting[a] \in Int /\ taken[a] \in Int /\ Cardinality(entered[a]) = waiting[a] + taken[a]
    BY <2>1 DEF TypeOK, TrueMeansAccepted
  <2>6. (waiting[a] + 1) + taken[a] = Cardinality(entered[a] \cup {j})
    BY <2>4, <2>5, SMT
  <2> HIDE DEF a, j
  <2>7. Finite'
    BY <2>3, <2>4 DEF Finite
  <2>8. \A b \in Actors : waiting'[b] + taken'[b] = Cardinality(entered'[b])
    BY <2>1, <2>3, <2>6 DEF TrueMeansAccepted
  <2>9. \A k \in Jobs : result'[k] = "true" => \E b \in Actors : k \in entered'[b]
    BY <2>1, <2>3 DEF TrueMeansAccepted
  <2>10. \A b, d \in Actors : b # d => entered'[b] \cap entered'[d] = {}
    <3>1. \A b, d \in Actors : b # d => entered[b] \cap entered[d] = {}
      BY DEF TrueMeansAccepted
    <3>2. ASSUME NEW b \in Actors, NEW d \in Actors, b # d, NEW k \in entered'[b], k \in entered'[d]
          PROVE  FALSE
      <4>1. CASE k = j
        BY <2>2, <2>3, <3>2, <4>1
      <4>2. CASE k # j
        <5>1. k \in entered[b] /\ k \in entered[d]
          BY <2>3, <3>2, <4>2
        <5> QED
          BY <3>1, <3>2, <5>1
      <4> QED
        BY <4>1, <4>2
    <3> QED
      BY <3>2
  <2>11. ASSUME NEW b \in Actors, NEW k \in entered'[b]
         PROVE  result'[k] = "true" \/ \E d \in Clients : pc'[d] = "count" /\ job'[d] = k
    <3>1. CASE k = j
      BY <2>1, <3>1 DEF TypeOK, j
    <3>2. CASE k # j
      <4>1. k \in entered[b]
        BY <2>3, <3>2
      <4>2. \A d \in Clients : pc[d] = "count" => pc'[d] = "count"
        BY <2>1 DEF TypeOK
      <4> QED
        BY <2>1, <4>1, <4>2 DEF TrueMeansAccepted
    <3> QED
      BY <3>1, <3>2
  <2> QED
    BY <2>7, <2>8, <2>9, <2>10, <2>11 DEF TrueMeansAccepted
<1>2. ASSUME NEW a \in Actors, Work(a) PROVE TrueMeansAccepted' /\ Finite'
  <2>1. /\ waiting' = [waiting EXCEPT ![a] = waiting[a] - 1]
        /\ taken' = [taken EXCEPT ![a] = taken[a] + 1]
        /\ UNCHANGED <<entered, result, pc, job>>
    BY <1>2 DEF Work
  <2>2. waiting[a] \in Int /\ taken[a] \in Int
    BY DEF TypeOK
  <2>3. (waiting[a] - 1) + (taken[a] + 1) = waiting[a] + taken[a]
    BY <2>2, SMT
  <2>4. \A b \in Actors : waiting'[b] + taken'[b] = waiting[b] + taken[b]
    BY <2>1, <2>3 DEF TypeOK
  <2> QED
    BY <2>1, <2>4 DEF TrueMeansAccepted, Finite
<1>3. ASSUME UNCHANGED mailVars,
             \A j \in Jobs : result'[j] = "true" => result[j] = "true" \/ \E a \in Actors : j \in entered[a],
             \A j \in Jobs : result[j] = "true" => result'[j] = "true",
             \A d \in Clients : pc[d] = "count" =>
               (pc'[d] = "count" /\ job'[d] = job[d]) \/ result'[job[d]] = "true"
      PROVE  TrueMeansAccepted' /\ Finite'
  <2>1. entered' = entered /\ waiting' = waiting /\ taken' = taken
    BY <1>3
  <2>2. ASSUME NEW b \in Actors, NEW k \in entered[b]
        PROVE  result'[k] = "true" \/ \E d \in Clients : pc'[d] = "count" /\ job'[d] = k
    <3>1. k \in Jobs
      BY DEF TypeOK
    <3> QED
      BY <1>3, <3>1 DEF TrueMeansAccepted
  <2>3. \A j \in Jobs : result'[j] = "true" => \E a \in Actors : j \in entered[a]
    BY <1>3 DEF TrueMeansAccepted
  <2> QED
    BY <2>1, <2>2, <2>3 DEF TrueMeansAccepted, Finite
<1>4. ASSUME NEW c \in Clients, Begin(c) PROVE TrueMeansAccepted' /\ Finite'
  <2>1. PICK j \in Jobs : /\ result[j] = "none"
                          /\ result' = [result EXCEPT ![j] = "pending"]
                          /\ job' = [job EXCEPT ![c] = j]
    BY <1>4 DEF Begin
  <2>2. pc[c] = "idle" /\ pc' = [pc EXCEPT ![c] = "draw"] /\ UNCHANGED mailVars
    BY <1>4 DEF Begin, Go
  <2> QED
    BY <1>3, <2>1, <2>2 DEF TypeOK
<1>5. ASSUME NEW c \in Clients, Refuse(c) PROVE TrueMeansAccepted' /\ Finite'
  <2>1. /\ job[c] \in Jobs /\ result[job[c]] = "pending" /\ pc[c] = "divide"
        /\ result' = [result EXCEPT ![job[c]] = "false"]
        /\ pc' = [pc EXCEPT ![c] = "idle"] /\ job' = [job EXCEPT ![c] = Blank]
        /\ UNCHANGED mailVars
    BY <1>5 DEF TypeOK, Own, Refuse, Return, Go
  <2> QED
    BY <1>3, <2>1 DEF TypeOK
<1>6. ASSUME NEW c \in Clients, Accept(c) PROVE TrueMeansAccepted' /\ Finite'
  <2>1. /\ job[c] \in Jobs /\ pc[c] = "count" /\ actor[c] \in Actors
        /\ result' = [result EXCEPT ![job[c]] = "true"]
        /\ pc' = [pc EXCEPT ![c] = "idle"] /\ job' = [job EXCEPT ![c] = Blank]
        /\ UNCHANGED mailVars
    BY <1>6 DEF TypeOK, Found, Accept, Return, Go
  <2>2. job[c] \in entered[actor[c]]
    BY <2>1 DEF Own
  <2>3. \A d \in Clients : pc[d] = "count" =>
          (pc'[d] = "count" /\ job'[d] = job[d]) \/ result'[job[d]] = "true"
    BY <2>1 DEF TypeOK
  <2>4. /\ \A j \in Jobs : result'[j] = "true" => result[j] = "true" \/ \E a \in Actors : j \in entered[a]
        /\ \A j \in Jobs : result[j] = "true" => result'[j] = "true"
    BY <2>1, <2>2 DEF TypeOK
  <2> QED
    BY <1>3, <2>1, <2>3, <2>4
<1>7. ASSUME NEW c \in Clients,
             DrawIndex(c) \/ DivideIndex(c) \/ At(c) \/ NotWorkable(c) \/ Workable(c) \/ MailboxFull(c)
      PROVE  TrueMeansAccepted' /\ Finite'
  <2>1. UNCHANGED <<mailVars, result, job>>
    BY <1>7 DEF DrawIndex, DivideIndex, At, NotWorkable, Workable, MailboxFull
  <2>2. \A d \in Clients : pc[d] = "count" => pc'[d] = "count"
    BY <1>7 DEF DrawIndex, DivideIndex, At, NotWorkable, Workable, MailboxFull, Retry, Go, TypeOK
  <2> QED
    BY <1>3, <2>1, <2>2
<1>8. CASE UNCHANGED <<mailVars, result, pc, job>>
  BY <1>3, <1>8
<1> QED
  BY <1>1, <1>2, <1>4, <1>5, <1>6, <1>7, <1>8 DEF Next, Request, Open, Manage, AddPush, AddSize,
     RemoveSize, RemoveKill, RemovePop, vars

-----------------------------------------------------------------------------
LEMMA KeptAlways == Spec => []Kept
<1>1. Kept /\ [Next]_vars => Kept'
  BY TypeStep, OwnStep, TruthStep DEF Kept
<1> QED
  BY <1>1, KeptInit, PTL DEF Spec

(* The fields of the scheduler and of its group and the locals of request  *)
(* stay in their types, and no mailbox holds more than mailbox_size        *)
(* (scheduler.h:29-57, actor.h:207-254).                                   *)
THEOREM TypeCorrect == Spec => []TypeOK
<1>1. Kept => TypeOK
  BY DEF Kept
<1> QED
  BY <1>1, KeptAlways, PTL

(* request has returned true exactly for the jobs of which one mail was    *)
(* put into one mailbox, whatever the counter, the size of the group and   *)
(* the manager do, and no item of a mailbox is lost or taken twice         *)
(* (scheduler.h:29-46).                                                    *)
THEOREM TrueIsAccepted == Spec => []TrueMeansAccepted
<1>1. Kept => TrueMeansAccepted
  BY DEF Kept
<1> QED
  BY <1>1, KeptAlways, PTL

(* Whatever is passed as an rvalue, a job is moved away only when some     *)
(* mailbox has been handed as many other jobs as it has room for           *)
(* (scheduler.h:39-41, actor.h:65-71).                                     *)
THEOREM LossTakesAFullMailbox == Spec => []LostOnlyWhenFull
<1>1. Init => LostOnlyWhenFull
  BY DEF Init, LostOnlyWhenFull
<1>2. ASSUME Kept, LostOnlyWhenFull, [Next]_vars PROVE LostOnlyWhenFull'
  <2> USE <1>2 DEF groupVars, mailVars, clientVars
  <2>1. MailboxSize \in Nat /\ \A a \in Actors : IsFiniteSet(entered[a])
    BY SchedulerAssumption DEF Kept, Finite
  <2>2. ASSUME NEW c \in Clients, MailboxFull(c) PROVE LostOnlyWhenFull'
    <3>1. /\ actor[c] \in Actors /\ pc[c] = "enqueue" /\ waiting[actor[c]] = MailboxSize
          /\ spent' \subseteq spent \cup {job[c]} /\ entered' = entered
      BY <2>2 DEF Kept, Found, MailboxFull, Retry, Go
    <3>2. job[c] \notin entered[actor[c]]
      BY <3>1, NotYet DEF Kept
    <3>3. /\ entered[actor[c]] \ {job[c]} = entered[actor[c]] /\ taken[actor[c]] \in Nat
          /\ MailboxSize + taken[actor[c]] = Cardinality(entered[actor[c]])
      BY <3>1, <3>2 DEF Kept, TypeOK, TrueMeansAccepted
    <3>4. Cardinality(entered[actor[c]] \ {job[c]}) >= MailboxSize
      <4> DEFINE n == Cardinality(entered[actor[c]] \ {job[c]})
                 k == taken[actor[c]]
      <4>1. MailboxSize + k = n /\ k \in Nat /\ MailboxSize \in Nat
        BY <2>1, <3>3
      <4> HIDE DEF n, k
      <4>2. n >= MailboxSize
        BY <4>1, SMT
      <4> QED
        BY <4>2 DEF n
    <3> QED
      BY <3>1, <3>4 DEF LostOnlyWhenFull
  <2>3. ASSUME NEW c \in Clients, Enqueue(c) PROVE LostOnlyWhenFull'
    <3>1. /\ actor[c] \in Actors /\ spent' = spent
          /\ entered' = [entered EXCEPT ![actor[c]] = entered[actor[c]] \cup {job[c]}]
      BY <2>3 DEF Kept, Found, Enqueue, Go
    <3>2. \A a \in Actors : IsFiniteSet(entered'[a]) /\ entered[a] \subseteq entered'[a]
      <4>1. IsFiniteSet(entered[actor[c]] \cup {job[c]})
        BY <2>1, <3>1, FS_AddElement
      <4>2. \A a \in Actors :
              entered'[a] = IF a = actor[c] THEN entered[actor[c]] \cup {job[c]} ELSE entered[a]
        BY <3>1 DEF Kept, TypeOK
      <4> QED
        BY <2>1, <4>1, <4>2
    <3>3. ASSUME NEW j, NEW a \in Actors, Cardinality(entered[a] \ {j}) >= MailboxSize
          PROVE  Cardinality(entered'[a] \ {j}) >= MailboxSize
      <4>1. IsFiniteSet(entered'[a] \ {j}) /\ entered[a] \ {j} \subseteq entered'[a] \ {j}
        BY <3>2, FS_Subset
      <4>2. /\ Cardinality(entered[a] \ {j}) <= Cardinality(entered'[a] \ {j})
            /\ Cardinality(entered[a] \ {j}) \in Nat /\ Cardinality(entered'[a] \ {j}) \in Nat
        BY <4>1, FS_Subset, FS_CardinalityType
      <4> QED
        BY <2>1, <3>3, <4>2, SMT
    <3> QED
      BY <3>1, <3>3 DEF LostOnlyWhenFull
  <2>4. CASE UNCHANGED <<spent, entered>>
    BY <2>4 DEF LostOnlyWhenFull
  <2> QED
    BY <2>2, <2>3, <2>4 DEF Next, Request, Begin, DrawIndex, DivideIndex, Refuse, At, NotWorkable, Workable,
       Accept, Open, Work, Manage, AddPush, AddSize, RemoveSize, RemoveKill, RemovePop, vars
<1> QED
  BY <1>1, <1>2, KeptAlways, PTL DEF Spec

-----------------------------------------------------------------------------
(* _size is ahead of the vector by what it began with, or behind it, but   *)
(* for the step between the two, which requests see of add_actor only.     *)
Sized ==
  /\ size = stale + Count - (IF manager = "idle" THEN 0 ELSE 1)
  /\ manager \in {"pop", "kill"} => Count > 0 /\ \A c \in Clients : pc[c] = "idle"

LEMMA SizedInit == Init => Sized
<1> SUFFICES ASSUME Init PROVE Sized
  OBVIOUS
<1>1. stale \in Int /\ Len(InitActors) \in Nat
  BY SchedulerAssumption DEF Init
<1>2. size = stale + Count - 0 /\ manager = "idle"
  BY <1>1, SMT DEF Init, Count
<1> QED BY <1>2 DEF Sized

LEMMA SizedStep == TypeOK /\ Sized /\ [Next]_vars => Sized'
<1> SUFFICES ASSUME TypeOK, Sized, [Next]_vars PROVE Sized'
  OBVIOUS
<1> USE DEF groupVars, mailVars, clientVars
<1>1. size = stale + Count - (IF manager = "idle" THEN 0 ELSE 1)
  BY DEF Sized
<1>2. stale \in Int /\ size \in Int /\ Count \in Nat
  BY SchedulerAssumption DEF TypeOK, Count
<1>3. CASE AddPush
  <2>1. Count' = Count + 1
    BY <1>3 DEF AddPush, TypeOK, Count
  <2>2. manager = "idle" /\ manager' = "push" /\ size' = size /\ stale' = stale
    BY <1>3 DEF AddPush
  <2>3. size' = stale + Count' - 1
    BY <1>1, <1>2, <2>1, <2>2, SMT
  <2> QED BY <2>2, <2>3 DEF Sized
<1>4. CASE AddSize
  <2>1. manager = "push" /\ manager' = "idle" /\ size' = size + 1 /\ Count' = Count /\ stale' = stale
    BY <1>4 DEF AddSize, Count
  <2>2. size' = stale + Count' - 0
    BY <1>1, <1>2, <2>1, SMT
  <2> QED BY <2>1, <2>2 DEF Sized
<1>5. CASE RemoveSize
  <2>1. /\ manager = "idle" /\ manager' = "pop" /\ size' = size - 1 /\ Count' = Count /\ stale' = stale
        /\ Count > 0 /\ \A c \in Clients : pc'[c] = "idle"
    BY <1>5 DEF RemoveSize, Count
  <2>2. size' = stale + Count' - 1
    BY <1>1, <1>2, <2>1, SMT
  <2> QED BY <2>1, <2>2 DEF Sized
<1>6. CASE RemovePop
  <2>1. manager = "kill" /\ manager' = "idle" /\ size' = size /\ stale' = stale /\ Count > 0
    BY <1>6 DEF RemovePop, Sized
  <2>2. Count' = Count - 1
    <3> DEFINE n == Count - 1
    <3>1. actors' = SubSeq(actors, 1, n) /\ actors \in Seq(Actors)
      BY <1>6 DEF RemovePop, TypeOK
    <3>2. n \in Nat /\ n <= Len(actors)
      BY <1>2, <2>1, SMT DEF Count
    <3> HIDE DEF n
    <3>3. Len(actors') = n
      BY <3>1, <3>2
    <3> QED BY <3>3 DEF n, Count
  <2>3. size' = stale + Count' - 0
    BY <1>1, <1>2, <2>1, <2>2, SMT
  <2> QED BY <2>1, <2>3 DEF Sized
<1>7. CASE RemoveKill
  BY <1>7 DEF RemoveKill, Sized, Count
<1>8. ASSUME NEW c \in Clients, Begin(c) \/ Request(c) PROVE Sized'
  <2>1. UNCHANGED <<size, actors, manager, stale>>
    BY <1>8 DEF Begin, Request, DrawIndex, DivideIndex, Refuse, At, NotWorkable, Workable, MailboxFull,
       Enqueue, Accept
  <2>2. manager \notin {"pop", "kill"}
    <3>1. manager \in {"pop", "kill"} => pc[c] = "idle"
      BY DEF Sized
    <3>2. Request(c) => pc[c] # "idle"
      BY DEF Request, DrawIndex, DivideIndex, Refuse, At, NotWorkable, Workable, MailboxFull, Enqueue,
         Accept, Retry, Return, Go
    <3> QED BY <1>8, <3>1, <3>2 DEF Begin
  <2> QED BY <2>1, <2>2 DEF Sized, Count
<1>9. CASE UNCHANGED <<size, actors, manager, pc, stale>>
  BY <1>9 DEF Sized, Count
<1> QED
  BY <1>3, <1>4, <1>5, <1>6, <1>7, <1>8, <1>9 DEF Next, Manage, Open, Work, vars

(* A negative remainder has a negative dividend.                           *)
LEMMA NegativeRemainder ==
  ASSUME NEW n \in Int, NEW d \in Int, d # 0, Remainder(n, d) < 0
  PROVE  n < 0
<1>1. Magnitude(n) \in Nat /\ Magnitude(d) \in Nat \ {0}
  BY SMT DEF Magnitude
<1>2. Magnitude(n) % Magnitude(d) \in Nat
  BY <1>1, SMT
<1> QED BY <1>2, SMT DEF Remainder

(* Whatever the clients and the manager do and whatever _size began with,  *)
(* request gives up only when the group is empty or its only actor is just *)
(* being added, or when the counter has overflowed; the group being as     *)
(* many actors larger than that as _size began below 0                     *)
(* (scheduler.h:32-33, 52-57, actor.h:219-252).                            *)
THEOREM FalseIsJustified == Spec => FalseMeansNoActors
<1>1. ASSUME Kept, Sized, [Next]_vars, NEW c \in Clients, pc[c] = "divide", result'[job[c]] = "false"
      PROVE  Count = -stale \/ (Count = -stale + 1 /\ manager = "push") \/ index[c] < 0
  <2>1. /\ result[job[c]] = "pending" /\ job[c] \in Jobs /\ index[c] \in Int /\ size \in Int
        /\ Count \in Nat /\ stale \in Int
    BY <1>1, SchedulerAssumption DEF Kept, TypeOK, Own, Count
  <2>2. Refuse(c)
    <3>1. ASSUME NEW d \in Clients, Begin(d) PROVE FALSE
      <4>1. PICK j \in Jobs : result[j] = "none" /\ result' = [result EXCEPT ![j] = "pending"]
        BY <3>1 DEF Begin
      <4> QED BY <1>1, <2>1, <4>1 DEF Kept, TypeOK
    <3>2. ASSUME NEW d \in Clients, NEW a, NEW r \in {"true", "false"}, Return(d, a, r), a # "idle"
          PROVE  d = c /\ r = "false"
      <4>1. /\ pc[d] # "idle" /\ result' = [result EXCEPT ![job[d]] = r]
        BY <3>2 DEF Return, Go
      <4>2. job[d] = job[c] /\ r = "false"
        BY <1>1, <2>1, <4>1 DEF Kept, TypeOK
      <4> QED BY <1>1, <4>1, <4>2 DEF Kept, Own
    <3>3. ASSUME NEW d \in Clients, Refuse(d) PROVE d = c
      BY <3>2, <3>3 DEF Refuse
    <3>4. ASSUME NEW d \in Clients, Accept(d) PROVE FALSE
      BY <3>2, <3>4 DEF Accept
    <3>5. result' # result
      BY <1>1, <2>1
    <3>6. ASSUME NEW d \in Clients, Request(d) PROVE Refuse(c)
      BY <3>3, <3>4, <3>5, <3>6
         DEF Request, DrawIndex, DivideIndex, At, NotWorkable, Workable, MailboxFull, Enqueue
    <3> QED
      BY <1>1, <3>1, <3>5, <3>6
         DEF Next, Open, Work, Manage, AddPush, AddSize, RemoveSize, RemoveKill, RemovePop, vars
  <2>3. CASE size # 0
    BY <2>1, <2>2, <2>3, NegativeRemainder DEF Refuse
  <2>4. CASE size = 0
    <3>1. size = stale + Count - (IF manager = "idle" THEN 0 ELSE 1)
      BY <1>1 DEF Sized
    <3>2. manager \in {"idle", "push"}
      BY <1>1 DEF Kept, TypeOK, Sized
    <3> QED BY <2>1, <2>4, <3>1, <3>2, SMT
  <2> QED BY <2>3, <2>4
<1>2. Kept /\ Sized /\ [Next]_vars =>
        [\A c \in Clients : pc[c] = "divide" /\ result'[job[c]] = "false"
           => \/ Count = -stale
              \/ Count = -stale + 1 /\ manager = "push"
              \/ index[c] < 0]_vars
  BY <1>1
<1>3. Kept /\ Sized /\ [Next]_vars => Sized'
  BY SizedStep DEF Kept
<1> QED BY <1>2, <1>3, KeptAlways, SizedInit, PTL DEF Spec, FalseMeansNoActors
=============================================================================
