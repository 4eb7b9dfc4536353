----------------------------- MODULE PipeProofs -----------------------------
(***************************************************************************)
(* Named pipes for any clients, handles, messages and delegates: who owns  *)
(* which handle, what reads return, and what an asynchronous operation     *)
(* calls.                                                                  *)
(***************************************************************************)
EXTENDS NamedPipe, FiniteSetTheorems, SequenceTheorems, WellFoundedInduction, TLAPS

Statuses == {"unused", "listening", "connected", "broken", "disconnected"}
Modes == {"unset", "byte", "message"}
Places == {"idle", "busy", "opened", "reading", "flushing"}

(* The handles of the system: connected ones in pairs, closed ones blank.  *)
Paired ==
  /\ DOMAIN os = Handles
  /\ \A h \in Handles :
       /\ {"status", "mate", "mode"} \subseteq DOMAIN os[h]
       /\ os[h].status \in Statuses /\ os[h].mode \in Modes
       /\ os[h].mate \in Handles \cup {None}
       /\ os[h].status = "connected" <=> os[h].mate # None
       /\ os[h].mate # None => os[os[h].mate].mate = h
       /\ ~Open(h) => os[h].mode = "unset"

(* Where the calls are, and the handles they have.                         *)
Placed ==
  /\ local \in Handles \cup {None} /\ acceptor \in {"idle", "waiting"}
  /\ pipe \in [Pipes -> Handles \cup {None}] /\ opening \in [Pipes -> Handles \cup {None}]
  /\ pc \in [Pipes -> Places]
  /\ (acceptor = "waiting") <=> (local # None)
  /\ local # None => pipe["session"] = None
  /\ pc["session"] \notin {"busy", "opened"}
  /\ \A p \in Pipes :
       /\ pc[p] \in {"reading", "flushing"} => pipe[p] # None
       /\ pc[p] \in {"busy", "opened"} => pipe[p] = None
       /\ opening[p] # None => pc[p] = "opened" /\ os[opening[p]].mode = "unset"

(* Nobody has a handle that is closed, no two have the same one, and what  *)
(* nobody has was left by connect before its mode was set.                 *)
Owned ==
  /\ local # None => Open(local)
  /\ \A p \in Pipes :
       /\ pipe[p] # None => Open(pipe[p]) /\ pipe[p] # local
       /\ opening[p] # None => Open(opening[p]) /\ opening[p] # local
       /\ \A q \in Pipes :
            /\ pipe[p] # None => pipe[p] # opening[q] /\ (p # q => pipe[p] # pipe[q])
            /\ opening[p] # None /\ p # q => opening[p] # opening[q]
  /\ \A h \in Handles :
       Open(h) /\ h # local /\ (\A p \in Pipes : h # pipe[p] /\ h # opening[p])
         => os[h].mode = "unset"

HandleInv == Paired /\ Placed /\ Owned

LEMMA HandlesAreNumbers == None \notin Handles /\ "session" \in Pipes
  BY PipeAssumption, SMT DEF None, Handles, Pipes

LEMMA HandleInvInit == Init => HandleInv
<1> SUFFICES ASSUME Init PROVE HandleInv
  OBVIOUS
<1> USE HandlesAreNumbers DEF Init
<1>1. Paired
  BY DEF Paired, Unused, Statuses, Modes, Open
<1>2. Placed
  BY DEF Placed, Places
<1>3. Owned
  BY DEF Owned, Open, Unused
<1> QED BY <1>1, <1>2, <1>3 DEF HandleInv

-----------------------------------------------------------------------------
(* What input and output leave alone: all but what can be read.            *)
SameEnds ==
  /\ DOMAIN os' = DOMAIN os
  /\ \A h \in Handles :
       /\ DOMAIN os'[h] = DOMAIN os[h]
       /\ os'[h].status = os[h].status /\ os'[h].mate = os[h].mate /\ os'[h].mode = os[h].mode

LEMMA InputAndOutput ==
  ASSUME DOMAIN os = Handles
  PROVE  /\ \A h, returned : os' = Taken(h, returned) => SameEnds
         /\ \A h, size : os' = Written(h, size) => SameEnds
         /\ UNCHANGED os => SameEnds
<1>1. ASSUME NEW h, NEW returned, os' = Taken(h, returned) PROVE SameEnds
  BY <1>1 DEF Taken, SameEnds
<1>2. ASSUME NEW h, NEW size, os' = Written(h, size) PROVE SameEnds
  BY <1>2 DEF Written, SameEnds
<1>3. UNCHANGED os => SameEnds
  BY DEF SameEnds
<1> QED BY <1>1, <1>2, <1>3

(* A step that moves no handle.                                            *)
LEMMA QuietStep ==
  ASSUME HandleInv, SameEnds, UNCHANGED <<acceptor, local, pipe, opening>>,
         pc' \in [Pipes -> Places],
         \A p \in Pipes : pc'[p] # pc[p] =>
           /\ pc[p] \notin {"busy", "opened"} /\ pc'[p] \notin {"busy", "opened"}
           /\ pc'[p] \in {"reading", "flushing"} => pipe[p] # None
  PROVE  HandleInv'
<1> USE HandlesAreNumbers
<1>1. \A h \in Handles : Open(h)' = Open(h)
  BY DEF SameEnds, Open
<1>2. Paired'
  BY <1>1 DEF HandleInv, Paired, SameEnds
<1>3. Placed'
  BY DEF HandleInv, Placed, Paired, SameEnds
<1>4. Owned'
  BY <1>1 DEF HandleInv, Owned, Placed, SameEnds
<1> QED BY <1>2, <1>3, <1>4 DEF HandleInv

-----------------------------------------------------------------------------
(* When one end goes, the other one is told, and nobody else is.           *)
LEMMA EndGoes ==
  ASSUME Paired, NEW h \in Handles, os' = Closed(h) \/ os' = Disconnected(h)
  PROVE  /\ Paired'
         /\ ~Open(h)'
         /\ \A g \in Handles \ {h} : Open(g)' = Open(g) /\ os'[g].mode = os[g].mode
<1> USE HandlesAreNumbers
<1>1. /\ DOMAIN os' = Handles
      /\ os'[h] = Unused
      /\ \A g \in Handles \ {h} :
           IF os[g].mate = h
           THEN /\ DOMAIN os'[g] = DOMAIN os[g] /\ os'[g].mode = os[g].mode
                /\ os'[g].status \in {"broken", "disconnected"} /\ os'[g].mate = None
           ELSE os'[g] = os[g]
  <2>1. DOMAIN os' = Handles /\ os'[h] = Unused
    BY DEF Closed, Disconnected
  <2>2. ASSUME NEW g \in Handles \ {h}, os[g].mate # h PROVE os'[g] = os[g]
    BY <2>2 DEF Closed, Disconnected
  <2>3. ASSUME NEW g \in Handles \ {h}, os[g].mate = h
        PROVE  /\ DOMAIN os'[g] = DOMAIN os[g] /\ os'[g].mode = os[g].mode
               /\ os'[g].status \in {"broken", "disconnected"} /\ os'[g].mate = None
    <3>1. {"status", "mate", "mode"} \subseteq DOMAIN os[g]
      BY DEF Paired
    <3>2. CASE os' = Closed(h)
      <4>1. os'[g] = [os[g] EXCEPT !.status = "broken", !.mate = None]
        BY <2>3, <3>2 DEF Closed
      <4> QED BY <3>1, <4>1
    <3>3. CASE os' = Disconnected(h)
      <4>1. os'[g] = [os[g] EXCEPT !.status = "disconnected", !.mate = None, !.inbox = <<>>]
        BY <2>3, <3>3 DEF Disconnected
      <4> QED BY <3>1, <4>1
    <3> QED BY <3>2, <3>3
  <2> QED BY <2>1, <2>2, <2>3
<1>2. \A g \in Handles \ {h} : os[g].mate = h => Open(g)
  BY DEF Paired, Open
<1>3. ~Open(h)' /\ \A g \in Handles \ {h} : Open(g)' = Open(g) /\ os'[g].mode = os[g].mode
  BY <1>1, <1>2 DEF Open, Unused
<1>4. Paired'
  <2>1. ASSUME NEW g \in Handles
        PROVE  (/\ {"status", "mate", "mode"} \subseteq DOMAIN os[g]
                /\ os[g].status \in Statuses /\ os[g].mode \in Modes
                /\ os[g].mate \in Handles \cup {None}
                /\ os[g].status = "connected" <=> os[g].mate # None
                /\ os[g].mate # None => os[os[g].mate].mate = g
                /\ ~Open(g) => os[g].mode = "unset")'
    <3>1. CASE g = h
      BY <1>1, <3>1 DEF Unused, Statuses, Modes
    <3>2. CASE g # h /\ os[g].mate = h
      BY <1>1, <1>3, <3>2 DEF Paired, Statuses
    <3>3. CASE g # h /\ os[g].mate # h
      <4>1. os'[g] = os[g]
        BY <1>1, <3>3
      <4>2. os[g].mate # None => os'[os[g].mate] = os[os[g].mate]
        BY <1>1, <3>3 DEF Paired
      <4> QED BY <1>3, <3>3, <4>1, <4>2 DEF Paired
    <3> QED BY <3>1, <3>2, <3>3
  <2> QED BY <1>1, <2>1 DEF Paired
<1> QED BY <1>3, <1>4

(* A handle is closed by the one that has it.                              *)
LEMMA OwnerCloses ==
  ASSUME HandleInv, NEW h \in Handles, os' = Closed(h) \/ os' = Disconnected(h),
         NEW p \in Pipes, pipe[p] = h, pc[p] \notin {"busy", "opened"},
         pipe' = [pipe EXCEPT ![p] = None], pc' = [pc EXCEPT ![p] = "idle"],
         UNCHANGED <<acceptor, local, opening>>
  PROVE  HandleInv'
<1> USE HandlesAreNumbers
<1>1. /\ Paired' /\ ~Open(h)'
      /\ \A g \in Handles \ {h} : Open(g)' = Open(g) /\ os'[g].mode = os[g].mode
  BY EndGoes DEF HandleInv
<1>2. Placed'
  BY <1>1 DEF HandleInv, Placed, Owned, Places
<1>3. Owned'
  BY <1>1 DEF HandleInv, Placed, Owned
<1> QED BY <1>1, <1>2, <1>3 DEF HandleInv

-----------------------------------------------------------------------------
LEMMA AcceptStep ==
  ASSUME HandleInv, NEW m \in {"byte", "message"}, Accept(m) PROVE HandleInv'
<1> USE HandlesAreNumbers
<1>1. PICK h \in Handles : /\ Fresh(h)
                           /\ os' = [os EXCEPT ![h].status = "listening", ![h].mode = m]
                           /\ local' = h
  BY DEF Accept
<1>2. /\ acceptor = "idle" /\ acceptor' = "waiting" /\ pipe["session"] = None
      /\ UNCHANGED <<pc, opening, pipe>>
  BY DEF Accept
<1>3. ~Open(h) /\ os[h].mate = None
  BY <1>1 DEF Fresh, HandleInv, Paired, Open
<1>4. /\ DOMAIN os' = Handles /\ DOMAIN os'[h] = DOMAIN os[h]
      /\ os'[h].status = "listening" /\ os'[h].mode = m /\ os'[h].mate = None
      /\ \A g \in Handles \ {h} : os'[g] = os[g]
  BY <1>1, <1>3 DEF HandleInv, Paired
<1>5. Open(h)' /\ \A g \in Handles \ {h} : Open(g)' = Open(g)
  BY <1>4 DEF Open
<1>6. Paired'
  BY <1>3, <1>4, <1>5 DEF HandleInv, Paired, Statuses, Modes
<1>7. \A p \in Pipes : pipe[p] # h /\ opening[p] # h
  BY <1>3 DEF HandleInv, Owned
<1>8. Placed'
  BY <1>1, <1>2, <1>4, <1>7 DEF HandleInv, Placed
<1>9. Owned'
  BY <1>1, <1>2, <1>3, <1>4, <1>5, <1>7 DEF HandleInv, Placed, Owned
<1> QED BY <1>6, <1>8, <1>9 DEF HandleInv

LEMMA AcceptedStep == ASSUME HandleInv, Accepted PROVE HandleInv'
<1> USE HandlesAreNumbers
<1>1. /\ acceptor = "waiting" /\ acceptor' = "idle" /\ local' = None
      /\ pipe' = [pipe EXCEPT !["session"] = local]
      /\ UNCHANGED <<os, pc, opening>>
  BY DEF Accepted
<1>2. Paired'
  BY <1>1 DEF HandleInv, Paired, Open
<1>3. Placed'
  BY <1>1 DEF HandleInv, Placed, Places
<1>4. Owned'
  BY <1>1 DEF HandleInv, Placed, Owned, Open
<1> QED BY <1>2, <1>3, <1>4 DEF HandleInv

LEMMA AcceptFailsStep == ASSUME HandleInv, AcceptFails PROVE HandleInv'
<1> USE HandlesAreNumbers
<1>1. /\ acceptor = "waiting" /\ acceptor' = "idle" /\ local' = None
      /\ os' = Closed(local) /\ UNCHANGED <<pc, opening, pipe>>
  BY DEF AcceptFails
<1>2. PICK h \in Handles : h = local
  BY <1>1 DEF HandleInv, Placed
<1>3. /\ Paired' /\ ~Open(h)'
      /\ \A g \in Handles \ {h} : Open(g)' = Open(g) /\ os'[g].mode = os[g].mode
  BY <1>1, <1>2, EndGoes DEF HandleInv
<1>4. Placed'
  BY <1>1, <1>2, <1>3 DEF HandleInv, Placed, Owned
<1>5. Owned'
  BY <1>1, <1>2, <1>3 DEF HandleInv, Placed, Owned
<1> QED BY <1>3, <1>4, <1>5 DEF HandleInv

-----------------------------------------------------------------------------
LEMMA ConnectStep == ASSUME HandleInv, NEW c \in Clients, Connect(c) PROVE HandleInv'
<1> USE HandlesAreNumbers
<1>1. /\ c \in Pipes /\ c # "session"
      /\ pipe[c] = None /\ pc[c] = "idle" /\ UNCHANGED <<acceptor, local, pipe>>
  BY PipeAssumption DEF Connect, Pipes
<1>2. CASE pc' = [pc EXCEPT ![c] = "busy"] /\ UNCHANGED <<os, opening>>
  <2>1. Paired'
    BY <1>2 DEF HandleInv, Paired, Open
  <2>2. Placed'
    BY <1>1, <1>2 DEF HandleInv, Placed, Places
  <2>3. Owned'
    BY <1>1, <1>2 DEF HandleInv, Owned, Open
  <2> QED BY <2>1, <2>2, <2>3 DEF HandleInv
<1>3. ASSUME NEW h \in Listening, NEW g \in Handles, Fresh(g),
             os' = [os EXCEPT ![h].status = "connected", ![h].mate = g,
                              ![g].status = "connected", ![g].mate = h],
             opening' = [opening EXCEPT ![c] = g],
             pc' = [pc EXCEPT ![c] = "opened"]
      PROVE  HandleInv'
  <2>1. /\ h \in Handles /\ h # g /\ os[h].status = "listening" /\ ~Open(g)
        /\ os[h].mate = None /\ os[g].mate = None /\ os[g].mode = "unset"
    BY <1>3 DEF Listening, Fresh, Open, HandleInv, Paired
  <2>2. /\ {"status", "mate", "mode"} \subseteq DOMAIN os[h]
        /\ {"status", "mate", "mode"} \subseteq DOMAIN os[g]
        /\ DOMAIN os = Handles
    BY <2>1 DEF HandleInv, Paired
  <2>3. /\ DOMAIN os' = Handles
        /\ DOMAIN os'[h] = DOMAIN os[h] /\ DOMAIN os'[g] = DOMAIN os[g]
        /\ os'[h].status = "connected" /\ os'[h].mate = g /\ os'[h].mode = os[h].mode
        /\ os'[g].status = "connected" /\ os'[g].mate = h /\ os'[g].mode = os[g].mode
        /\ \A i \in Handles \ {g, h} : os'[i] = os[i]
    BY <1>3, <2>1, <2>2
  <2>4. Open(g)' /\ \A i \in Handles \ {g} : Open(i)' = Open(i) /\ os'[i].mode = os[i].mode
    BY <2>1, <2>3 DEF Open
  <2>5. Paired'
    <3>1. ASSUME NEW i \in Handles
          PROVE  (/\ {"status", "mate", "mode"} \subseteq DOMAIN os[i]
                  /\ os[i].status \in Statuses /\ os[i].mode \in Modes
                  /\ os[i].mate \in Handles \cup {None}
                  /\ os[i].status = "connected" <=> os[i].mate # None
                  /\ os[i].mate # None => os[os[i].mate].mate = i
                  /\ ~Open(i) => os[i].mode = "unset")'
      <4>1. CASE i = g \/ i = h
        BY <2>1, <2>2, <2>3, <2>4, <4>1 DEF HandleInv, Paired, Statuses, Modes, Open
      <4>2. CASE i \notin {g, h}
        <5>1. os[i].mate # g /\ os[i].mate # h
          BY <2>1, <4>2 DEF HandleInv, Paired
        <5>2. os[i].mate # None => os'[os[i].mate] = os[os[i].mate]
          BY <2>3, <5>1 DEF HandleInv, Paired
        <5> QED BY <2>3, <2>4, <4>2, <5>2 DEF HandleInv, Paired
      <4> QED BY <4>1, <4>2
    <3> QED BY <2>3, <3>1 DEF Paired
  <2>6. \A p \in Pipes : pipe[p] # g /\ opening[p] # g
    BY <2>1 DEF HandleInv, Owned
  <2>7. local # g
    BY <2>1 DEF HandleInv, Owned
  <2>8. opening[c] = None
    BY <1>1 DEF HandleInv, Placed
  <2>9. Placed'
    <3>1. \A p \in Pipes : opening'[p] # None => pc'[p] = "opened" /\ os'[opening'[p]].mode = "unset"
      BY <1>1, <1>3, <2>1, <2>3, <2>4, <2>6 DEF HandleInv, Placed
    <3> QED BY <1>1, <1>3, <3>1 DEF HandleInv, Placed, Places
  <2>10. Owned'
    <3>1. opening'[c] = g /\ \A q \in Pipes \ {c} : opening'[q] = opening[q]
      BY <1>1, <1>3 DEF HandleInv, Placed
    <3>2. (local # None => Open(local))'
      BY <1>1, <2>4 DEF HandleInv, Owned, Placed
    <3>3. ASSUME NEW p \in Pipes, NEW q \in Pipes
          PROVE  (/\ pipe[p] # None => Open(pipe[p]) /\ pipe[p] # local
                  /\ opening[p] # None => Open(opening[p]) /\ opening[p] # local
                  /\ pipe[p] # None => pipe[p] # opening[q] /\ (p # q => pipe[p] # pipe[q])
                  /\ opening[p] # None /\ p # q => opening[p] # opening[q])'
      <4>1. pipe'[p] # None => Open(pipe[p])' /\ pipe'[p] # local'
        BY <1>1, <2>4, <2>6 DEF HandleInv, Owned, Placed
      <4>2. opening'[p] # None => Open(opening[p])' /\ opening'[p] # local'
        <5>1. CASE p = c
          <6>1. opening'[p] = g
            BY <3>1, <5>1
          <6>2. os'[opening'[p]].status # "unused"
            BY <2>4, <6>1 DEF Open
          <6> QED BY <1>1, <2>7, <6>1, <6>2 DEF Open
        <5>2. CASE p # c
          <6>1. opening'[p] = opening[p]
            BY <3>1, <5>2
          <6>2. opening[p] # None => opening[p] \in Handles \ {g}
            BY <2>6 DEF HandleInv, Placed
          <6>3. opening[p] # None => os'[opening'[p]].status # "unused" /\ opening[p] # local
            BY <2>4, <6>1, <6>2 DEF HandleInv, Owned, Open
          <6> QED BY <1>1, <6>1, <6>3 DEF Open
        <5> QED BY <5>1, <5>2
      <4>3. pipe'[p] # None => pipe'[p] # opening'[q] /\ (p # q => pipe'[p] # pipe'[q])
        BY <1>1, <2>6, <3>1 DEF HandleInv, Owned
      <4>4. opening'[p] # None /\ p # q => opening'[p] # opening'[q]
        BY <2>6, <3>1 DEF HandleInv, Owned
      <4> QED BY <4>1, <4>2, <4>3, <4>4
    <3>4. ASSUME NEW i \in Handles, Open(i)', i # local',
                 \A p \in Pipes : i # pipe'[p] /\ i # opening'[p]
          PROVE  os'[i].mode = "unset"
      <4>1. i # g
        BY <1>1, <3>1, <3>4
      <4>2. \A p \in Pipes : i # opening[p]
        BY <1>1, <2>8, <3>1, <3>4
      <4> QED BY <1>1, <2>4, <3>4, <4>1, <4>2 DEF HandleInv, Owned
    <3> QED BY <3>2, <3>3, <3>4 DEF Owned
  <2> QED BY <2>5, <2>9, <2>10 DEF HandleInv
<1> QED BY <1>2, <1>3 DEF Connect

LEMMA WaitedStep == ASSUME HandleInv, NEW p \in Pipes, Waited(p) PROVE HandleInv'
<1> USE HandlesAreNumbers
<1>1. /\ pc[p] = "busy" /\ UNCHANGED <<os, acceptor, local, opening, pipe>>
      /\ pc' = [pc EXCEPT ![p] = "opened"] \/ pc' = [pc EXCEPT ![p] = "idle"]
  BY DEF Waited
<1>2. Paired'
  BY <1>1 DEF HandleInv, Paired, Open
<1>3. Placed'
  BY <1>1 DEF HandleInv, Placed, Places
<1>4. Owned'
  BY <1>1 DEF HandleInv, Owned, Open
<1> QED BY <1>2, <1>3, <1>4 DEF HandleInv

(* Whether the mode is accepted or refused: what is left behind then is    *)
(* unset.                                                                  *)
LEMMA SetModeStep ==
  ASSUME HandleInv, NEW p \in Pipes, NEW m \in {"byte", "message"}, SetMode(p, m)
  PROVE  HandleInv'
<1> USE HandlesAreNumbers
<1>1. /\ pc[p] = "opened" /\ pc' = [pc EXCEPT ![p] = "idle"]
      /\ opening' = [opening EXCEPT ![p] = None]
      /\ UNCHANGED <<acceptor, local>>
      /\ pipe[p] = None /\ p # "session"
  BY DEF SetMode, HandleInv, Placed
<1>2. CASE UNCHANGED <<os, pipe>>
  <2>1. Paired'
    BY <1>2 DEF HandleInv, Paired, Open
  <2>2. Placed'
    BY <1>1, <1>2 DEF HandleInv, Placed, Places
  <2>3. Owned'
    BY <1>1, <1>2 DEF HandleInv, Placed, Owned, Open
  <2> QED BY <2>1, <2>2, <2>3 DEF HandleInv
<1>3. CASE /\ opening[p] # None
           /\ os' = [os EXCEPT ![opening[p]].mode = m] /\ pipe' = [pipe EXCEPT ![p] = opening[p]]
  <2>1. PICK g \in Handles : g = opening[p]
    BY <1>3 DEF HandleInv, Placed
  <2>2. /\ DOMAIN os' = Handles /\ DOMAIN os'[g] = DOMAIN os[g]
        /\ os'[g].status = os[g].status /\ os'[g].mate = os[g].mate /\ os'[g].mode = m
        /\ \A i \in Handles \ {g} : os'[i] = os[i]
    BY <1>3, <2>1 DEF HandleInv, Paired
  <2>3. Open(g) /\ \A i \in Handles : Open(i)' = Open(i)
    BY <1>3, <2>1, <2>2 DEF HandleInv, Owned, Open
  <2>4. Paired'
    BY <2>2, <2>3 DEF HandleInv, Paired, Modes
  <2>5. Placed'
    <3>1. \A q \in Pipes : q # p /\ opening[q] # None => opening[q] # g
      BY <1>3, <2>1 DEF HandleInv, Owned
    <3> QED BY <1>1, <1>3, <2>1, <2>2, <3>1 DEF HandleInv, Placed, Places
  <2>6. Owned'
    BY <1>1, <1>3, <2>1, <2>2, <2>3 DEF HandleInv, Placed, Owned
  <2> QED BY <2>4, <2>5, <2>6 DEF HandleInv
<1> QED BY <1>2, <1>3 DEF SetMode, ModeAccepted

-----------------------------------------------------------------------------
LEMMA HandleInvStep == HandleInv /\ [Next]_vars => HandleInv'
<1> SUFFICES ASSUME HandleInv, [Next]_vars PROVE HandleInv'
  OBVIOUS
<1> USE HandlesAreNumbers
<1>0. DOMAIN os = Handles /\ pc \in [Pipes -> Places]
  BY DEF HandleInv, Paired, Placed
<1>1. ASSUME NEW p \in Pipes, pc' = [pc EXCEPT ![p] = "idle"], pc[p] \in {"reading", "flushing"},
             SameEnds, UNCHANGED <<acceptor, local, pipe, opening>>
      PROVE  HandleInv'
  BY <1>0, <1>1, QuietStep DEF Places
<1>2. ASSUME NEW p \in Pipes, NEW place \in {"reading", "flushing"},
             pc' = [pc EXCEPT ![p] = place], pc[p] = "idle", pipe[p] # None,
             SameEnds, UNCHANGED <<acceptor, local, pipe, opening>>
      PROVE  HandleInv'
  BY <1>0, <1>2, QuietStep DEF Places
<1>3. ASSUME SameEnds, UNCHANGED <<acceptor, local, pipe, opening, pc>> PROVE HandleInv'
  BY <1>0, <1>3, QuietStep
<1>4. ASSUME NEW m \in {"byte", "message"}, Accept(m) PROVE HandleInv'
  BY <1>4, AcceptStep
<1>5. CASE Accepted
  BY <1>5, AcceptedStep
<1>6. CASE AcceptFails
  BY <1>6, AcceptFailsStep
<1>7. ASSUME NEW c \in Clients, Connect(c) PROVE HandleInv'
  BY <1>7, ConnectStep
<1>8. ASSUME NEW c \in Clients, Close(c) PROVE HandleInv'
  <2>1. /\ c \in Pipes /\ pipe[c] # None /\ pc[c] = "idle" /\ pipe' = [pipe EXCEPT ![c] = None]
        /\ os' = Closed(pipe[c]) /\ UNCHANGED <<acceptor, local, pc, opening>>
    BY <1>8 DEF Close, callVars, Pipes
  <2>2. PICK h \in Handles : h = pipe[c]
    BY <2>1 DEF HandleInv, Placed
  <2>3. pc' = [pc EXCEPT ![c] = "idle"]
    BY <1>0, <2>1
  <2> QED BY <2>1, <2>2, <2>3, OwnerCloses
<1>9. ASSUME NEW p \in Pipes, Flush(p) PROVE HandleInv'
  BY <1>0, <1>2, <1>9, InputAndOutput DEF Flush
<1>10. ASSUME NEW p \in Pipes, Disconnect(p) PROVE HandleInv'
  <2>1. /\ pc[p] = "flushing" /\ pc' = [pc EXCEPT ![p] = "idle"]
        /\ pipe' = [pipe EXCEPT ![p] = None]
        /\ os' = Disconnected(pipe[p]) /\ UNCHANGED <<acceptor, local, opening>>
    BY <1>10 DEF Disconnect
  <2>2. PICK h \in Handles : h = pipe[p]
    BY <2>1 DEF HandleInv, Placed
  <2> QED BY <2>1, <2>2, OwnerCloses
<1>11. ASSUME NEW p \in Pipes, Waited(p) PROVE HandleInv'
  BY <1>11, WaitedStep
<1>12. ASSUME NEW p \in Pipes, NEW m \in {"byte", "message"}, SetMode(p, m) PROVE HandleInv'
  BY <1>12, SetModeStep
<1>13. ASSUME NEW p \in Pipes, Read(p) PROVE HandleInv'
  <2>1. pc[p] = "idle" /\ pipe[p] # None /\ UNCHANGED <<acceptor, local, opening, pipe>>
    BY <1>13 DEF Read, Idle
  <2>2. CASE os' = Taken(pipe[p], ~TooLong(pipe[p]) /\ ~more_data[p]) /\ UNCHANGED pc
    BY <1>0, <1>3, <2>1, <2>2, InputAndOutput
  <2>3. CASE UNCHANGED os /\ pc' = [pc EXCEPT ![p] = IF Ended(pipe[p]) THEN "idle" ELSE "reading"]
    <3>1. SameEnds
      BY <1>0, <2>3, InputAndOutput
    <3>2. CASE Ended(pipe[p])
      <4>1. pc' = pc
        BY <1>0, <2>1, <2>3, <3>2
      <4> QED BY <1>3, <2>1, <3>1, <4>1
    <3>3. CASE ~Ended(pipe[p])
      <4>1. pc' = [pc EXCEPT ![p] = "reading"]
        BY <2>3, <3>3
      <4> QED BY <1>2, <2>1, <3>1, <4>1
    <3> QED BY <3>2, <3>3
  <2> QED BY <1>13, <2>2, <2>3 DEF Read
<1>14. ASSUME NEW p \in Pipes, ReadEnds(p) PROVE HandleInv'
  <2>1. /\ pc[p] = "reading" /\ pc' = [pc EXCEPT ![p] = "idle"]
        /\ UNCHANGED <<acceptor, local, opening, pipe>>
        /\ os' = Taken(pipe[p], ~TooLong(pipe[p])) \/ UNCHANGED os
    BY <1>14 DEF ReadEnds
  <2> QED BY <1>0, <1>1, <2>1, InputAndOutput
<1>15. ASSUME NEW p \in Pipes, NEW size \in Sizes, Write(p, size) PROVE HandleInv'
  BY <1>0, <1>3, <1>15, InputAndOutput DEF Write, callVars
<1>16. ASSUME NEW p \in Pipes, NEW form, AsyncRead(p, form) PROVE HandleInv'
  <2>1. /\ UNCHANGED <<acceptor, local, opening, pc, pipe>>
        /\ os' = Taken(pipe[p], ~TooLong(pipe[p])) \/ UNCHANGED os
    BY <1>16 DEF AsyncRead, callVars
  <2> QED BY <1>0, <1>3, <2>1, InputAndOutput
<1>17. ASSUME NEW p \in Pipes, NEW form, NEW size \in Sizes, AsyncWrite(p, form, size)
       PROVE  HandleInv'
  <2>1. /\ UNCHANGED <<acceptor, local, opening, pc, pipe>>
        /\ os' = Written(os[pipe[p]].mate, size) \/ UNCHANGED os
    BY <1>17 DEF AsyncWrite, callVars
  <2> QED BY <1>0, <1>3, <2>1, InputAndOutput
<1>18. CASE OpEnds
  <2>1. /\ UNCHANGED <<acceptor, local, opening, pc, pipe>>
        /\ (\E p \in Pipes : os' = Taken(pipe[p], ~TooLong(pipe[p]))) \/ UNCHANGED os
    BY <1>18 DEF OpEnds, AsyncReadEnds, Answer, Answered, callVars
  <2> QED BY <1>0, <1>3, <2>1, InputAndOutput
<1>19. CASE Edit \/ UNCHANGED vars
  BY <1>0, <1>3, <1>19, InputAndOutput DEF Edit, callVars, vars
<1> QED
  BY <1>4, <1>5, <1>6, <1>7, <1>8, <1>9, <1>10, <1>11, <1>12, <1>13, <1>14, <1>15, <1>16,
     <1>17, <1>18, <1>19 DEF Next, CallEnds

(* Every open handle has one owner, who alone will close it, or was left   *)
(* by a connect whose mode was refused (win32_named_pipe_server.cpp:45-74, *)
(* win32_named_pipe.cpp:57-201).                                           *)
THEOREM HandlesHaveOwners == Spec => []HandlesOwned
<1>1. HandleInv => HandlesOwned
  <2> SUFFICES ASSUME HandleInv, NEW h \in Handles
               PROVE  /\ ~Open(h) => Owners(h) = {}
                      /\ Open(h) => \/ Cardinality(Owners(h)) = 1
                                    \/ Owners(h) = {} /\ os[h].mode = "unset"
    BY DEF HandlesOwned
  <2> USE HandlesAreNumbers
  <2>1. CASE local = h
    <3>1. Owners(h) = {"accept"}
      BY <2>1 DEF Owners, HandleInv, Owned
    <3>2. Open(h)
      BY <2>1 DEF HandleInv, Owned
    <3> QED BY <3>1, <3>2, FS_Singleton
  <2>2. CASE local # h /\ \E p \in Pipes : h \in {pipe[p], opening[p]}
    <3>1. PICK p \in Pipes : h \in {pipe[p], opening[p]}
      BY <2>2
    <3>2. \A q \in Pipes : h \in {pipe[q], opening[q]} => q = p
      BY <3>1 DEF HandleInv, Owned
    <3>3. Owners(h) = {p} /\ Open(h)
      BY <2>2, <3>1, <3>2 DEF Owners, HandleInv, Owned
    <3> QED BY <3>3, FS_Singleton
  <2>3. CASE local # h /\ \A p \in Pipes : h \notin {pipe[p], opening[p]}
    <3>1. Owners(h) = {}
      BY <2>3 DEF Owners
    <3> QED BY <2>3, <3>1 DEF HandleInv, Owned
  <2> QED BY <2>1, <2>2, <2>3
<1> QED BY <1>1, HandleInvInit, HandleInvStep, PTL DEF Spec

-----------------------------------------------------------------------------
(* The asynchronous operation, and the errors that reads remember.         *)
OpFields == {"by", "result", "form", "held", "asked", "shared"}

Carried ==
  /\ more_data \in [Pipes -> BOOLEAN]
  /\ op # NoOp /\ op.result \in {"pending", "done"} =>
       /\ OpFields \subseteq DOMAIN op
       /\ op.form # "shared" => ~op.shared /\ Calls(op.held) = op.asked
       /\ op.by \in Pipes /\ (op.result = "pending" => pipe[op.by] # None)
  /\ AsHeld

CarriedInv == HandleInv /\ Carried

(* A copy of a delegate that a user makes for a read or a write is that    *)
(* delegate: the parts that the assignment skips are blank in both.        *)
LEMMA CopyIsDelegate ==
  ASSUME NEW d \in ReadDelegates \cup WriteDelegates PROVE Assign(Empty, d) = d
<1>1. CASE d \in ReadDelegates
  <2>1. PICK f \in Comparable : d = make_delegate(f)
    BY <1>1 DEF ReadDelegates
  <2>2. d = [container |-> <<f>>, keyed |-> <<>>]
    BY <2>1 DEF make_delegate, Empty
  <2> QED BY <2>2 DEF Assign, Empty
<1>2. CASE d \in WriteDelegates
  <2>1. PICK f \in Comparable, k \in Keys : d = AddKeyed(make_delegate(f), k, f)
    BY <1>2 DEF WriteDelegates
  <2> DEFINE keyed == [j \in DOMAIN <<>> \cup {k} |-> IF j \in DOMAIN <<>> THEN <<>>[j] ELSE f]
  <2>2. d = [container |-> <<f>>, keyed |-> keyed]
    BY <2>1 DEF make_delegate, Empty, AddKeyed
  <2>3. k \in DOMAIN keyed
    OBVIOUS
  <2> HIDE DEF keyed
  <2> QED BY <2>2, <2>3 DEF Assign, Empty
<1> QED BY <1>1, <1>2

(* What Request leaves behind.                                             *)
LEMMA Requested ==
  ASSUME NEW p, NEW form, NEW result \in {"pending", "done"},
         NEW delegates \in {ReadDelegates, WriteDelegates}, Request(p, form, result, delegates)
  PROVE  /\ op' # NoOp /\ op'.by = p /\ op'.result = result /\ op'.form = form
         /\ OpFields \subseteq DOMAIN op'
         /\ form # "shared" => ~op'.shared /\ Calls(op'.held) = op'.asked
<1>1. PICK d \in delegates :
        op' = [by |-> p, result |-> result, form |-> form, held |-> Assign(Empty, d),
               asked |-> Calls(d), shared |-> form = "shared"]
  BY DEF Request
<1>2. Assign(Empty, d) = d
  BY CopyIsDelegate
<1>3. op'.result = result /\ op'.by = p /\ op'.form = form /\ OpFields \subseteq DOMAIN op'
  BY <1>1 DEF OpFields
<1>4. op'.shared = (form = "shared") /\ Calls(op'.held) = op'.asked
  BY <1>1, <1>2
<1>5. op' # NoOp
  BY <1>3 DEF NoOp
<1> QED BY <1>3, <1>4, <1>5

LEMMA CarriedInit == Init => Carried
  BY HandlesAreNumbers DEF Init, Carried, AsHeld, NoOp

(* Nothing happens to the operation but what its ends see.                 *)
LEMMA CarriedStep == CarriedInv /\ [Next]_vars => Carried'
<1> SUFFICES ASSUME HandleInv, Carried, [Next]_vars PROVE Carried'
  BY DEF CarriedInv
<1>0. /\ more_data \in [Pipes -> BOOLEAN] /\ pipe \in [Pipes -> Handles \cup {None}]
  BY DEF Carried, HandleInv, Placed
<1>1. ASSUME UNCHANGED op, more_data' \in [Pipes -> BOOLEAN],
             \A p \in Pipes : pipe[p] # None => pipe'[p] = pipe[p]
      PROVE  Carried'
  BY <1>0, <1>1 DEF Carried, AsHeld
<1>2. ASSUME NEW p \in Pipes, NEW form, NEW result \in {"pending", "done"},
             NEW delegates \in {ReadDelegates, WriteDelegates},
             Request(p, form, result, delegates), result = "pending" => pipe[p] # None,
             UNCHANGED pipe, more_data' \in [Pipes -> BOOLEAN]
      PROVE  Carried'
  <2>1. /\ op' # NoOp /\ op'.by = p /\ op'.result = result /\ op'.form = form
        /\ OpFields \subseteq DOMAIN op'
        /\ form # "shared" => ~op'.shared /\ Calls(op'.held) = op'.asked
    BY <1>2, Requested
  <2>2. AsHeld'
    BY <2>1 DEF AsHeld
  <2> QED BY <1>2, <2>1, <2>2 DEF Carried
<1>3. ASSUME NEW p \in Pipes, Pending(p), op' = [op EXCEPT !.result = "done"],
             UNCHANGED more_data
      PROVE  Carried'
  <2>1. op # NoOp /\ op.result = "pending" /\ OpFields \subseteq DOMAIN op
    BY <1>3 DEF Carried, Pending
  <2>2. /\ op'.result = "done" /\ DOMAIN op' = DOMAIN op /\ op'.form = op.form
        /\ op'.shared = op.shared /\ op'.held = op.held /\ op'.asked = op.asked
    BY <1>3, <2>1 DEF OpFields
  <2>3. AsHeld'
    BY <2>2 DEF AsHeld
  <2> QED BY <1>0, <1>3, <2>1, <2>2, <2>3 DEF Carried
<1>4. ASSUME NEW p \in Pipes, pipe' = [pipe EXCEPT ![p] = None], op' = Aborted(p),
             UNCHANGED more_data
      PROVE  Carried'
  <2>1. CASE Pending(p)
    BY <1>3, <1>4, <2>1 DEF Aborted
  <2>2. CASE ~Pending(p)
    <3>1. UNCHANGED op
      BY <1>4, <2>2 DEF Aborted
    <3>2. op # NoOp /\ op.result = "pending" => op.by # p
      BY <2>2 DEF Pending
    <3>3. op # NoOp /\ op.result = "pending" => pipe'[op.by] # None
      BY <1>0, <1>4, <3>2 DEF Carried
    <3> QED BY <1>0, <1>4, <3>1, <3>3 DEF Carried, AsHeld
  <2> QED BY <2>1, <2>2
<1>5. ASSUME NEW p \in Pipes, NEW now, more_data' = [more_data EXCEPT ![p] = now],
             now \in BOOLEAN
      PROVE  more_data' \in [Pipes -> BOOLEAN]
  BY <1>0, <1>5
<1>6. ASSUME NEW m \in {"byte", "message"}, Accept(m) PROVE Carried'
  BY <1>0, <1>1, <1>6 DEF Accept, readVars
<1>7. CASE Accepted \/ AcceptFails
  <2>1. UNCHANGED <<op, more_data>> /\ (UNCHANGED pipe \/ pipe' = [pipe EXCEPT !["session"] = local])
        /\ (pipe' # pipe => pipe["session"] = None)
    BY <1>7 DEF Accepted, AcceptFails, readVars, HandleInv, Placed
  <2> QED BY <1>0, <1>1, <2>1
<1>8. ASSUME NEW c \in Clients, Connect(c) PROVE Carried'
  BY <1>0, <1>1, <1>8 DEF Connect, Pipes
<1>9. ASSUME NEW c \in Clients, Close(c) PROVE Carried'
  BY <1>4, <1>9 DEF Close, readVars, Pipes
<1>10. ASSUME NEW p \in Pipes, Flush(p) PROVE Carried'
  BY <1>0, <1>1, <1>10 DEF Flush, readVars
<1>11. ASSUME NEW p \in Pipes, Disconnect(p) PROVE Carried'
  BY <1>4, <1>11 DEF Disconnect, readVars
<1>12. ASSUME NEW p \in Pipes, Waited(p) PROVE Carried'
  BY <1>0, <1>1, <1>12 DEF Waited, readVars
<1>13. ASSUME NEW p \in Pipes, NEW m \in {"byte", "message"}, SetMode(p, m) PROVE Carried'
  <2>1. UNCHANGED <<op, more_data>> /\ pipe[p] = None
        /\ (UNCHANGED pipe \/ pipe' = [pipe EXCEPT ![p] = opening[p]])
    BY <1>13 DEF SetMode, readVars, HandleInv, Placed
  <2> QED BY <1>0, <1>1, <2>1
<1>14. ASSUME NEW p \in Pipes, Read(p) PROVE Carried'
  <2>1. UNCHANGED <<op, pipe>>
    BY <1>14 DEF Read
  <2>2. more_data' \in [Pipes -> BOOLEAN]
    BY <1>0, <1>14 DEF Read
  <2> QED BY <1>1, <2>1, <2>2
<1>15. ASSUME NEW p \in Pipes, ReadEnds(p) PROVE Carried'
  <2>1. UNCHANGED <<op, pipe>>
    BY <1>15 DEF ReadEnds
  <2>2. more_data' \in [Pipes -> BOOLEAN]
    BY <1>0, <1>15 DEF ReadEnds, readVars, TooLong
  <2> QED BY <1>1, <2>1, <2>2
<1>16. ASSUME NEW p \in Pipes, NEW size \in Sizes, Write(p, size) PROVE Carried'
  BY <1>0, <1>1, <1>16 DEF Write, readVars
<1>17. ASSUME NEW p \in Pipes, NEW form, AsyncRead(p, form) PROVE Carried'
  <2>1. UNCHANGED pipe /\ more_data' \in [Pipes -> BOOLEAN]
    BY <1>0, <1>17 DEF AsyncRead, readVars
  <2>2. CASE Request(p, form, "done", ReadDelegates)
    BY <1>2, <2>1, <2>2
  <2>3. CASE /\ Request(p, form, IF Ended(pipe[p]) THEN "done" ELSE "pending", ReadDelegates)
             /\ pipe[p] # None
    BY <1>2, <2>1, <2>3
  <2> QED BY <1>17, <2>2, <2>3 DEF AsyncRead
<1>18. ASSUME NEW p \in Pipes, NEW form, NEW size \in Sizes, AsyncWrite(p, form, size)
       PROVE  Carried'
  BY <1>0, <1>2, <1>18 DEF AsyncWrite, readVars
<1>19. ASSUME NEW p \in Pipes, AsyncReadEnds(p) PROVE Carried'
  BY <1>3, <1>19 DEF AsyncReadEnds
<1>20. ASSUME NEW p \in Pipes, Answer(p) PROVE Carried'
  <2>1. /\ op # NoOp /\ op.result = "done" /\ UNCHANGED <<more_data, pipe>>
        /\ op' = [by |-> p, result |-> "called", form |-> op.form, asked |-> op.asked,
                  calls |-> Calls(IF op.shared THEN user ELSE op.held)]
    BY <1>20 DEF Answer, readVars
  <2>2. op.form # "shared" => ~op.shared /\ Calls(op.held) = op.asked
    BY <2>1 DEF Carried
  <2>3. /\ op'.result = "called" /\ op'.form = op.form /\ op'.asked = op.asked
        /\ op'.calls = Calls(IF op.shared THEN user ELSE op.held)
    BY <2>1
  <2>4. AsHeld'
    BY <2>2, <2>3 DEF AsHeld
  <2> QED BY <1>0, <2>1, <2>3, <2>4 DEF Carried
<1>21. ASSUME NEW p \in Pipes, Answered(p) PROVE Carried'
  BY <1>0, <1>21 DEF Answered, Carried, AsHeld, NoOp, readVars
<1>22. CASE Edit \/ UNCHANGED vars
  BY <1>0, <1>1, <1>22 DEF Edit, vars, readVars
<1> QED
  BY <1>6, <1>7, <1>8, <1>9, <1>10, <1>11, <1>12, <1>13, <1>14, <1>15, <1>16, <1>17, <1>18,
     <1>19, <1>20, <1>21, <1>22 DEF Next, CallEnds, OpEnds

LEMMA CarriedAlways == Spec => []CarriedInv
<1>1. Init => CarriedInv
  BY HandleInvInit, CarriedInit DEF CarriedInv
<1>2. CarriedInv /\ [Next]_vars => CarriedInv'
  BY HandleInvStep, CarriedStep DEF CarriedInv
<1> QED BY <1>1, <1>2, PTL DEF Spec

(* The types of the pipes, and what waits for a handle has one             *)
(* (win32_named_pipe.cpp, win32_named_pipe_server.cpp).                    *)
THEOREM PipeTypesCorrect == Spec => []PipeTypeOK
<1>1. CarriedInv => PipeTypeOK
  <2> SUFFICES ASSUME CarriedInv PROVE PipeTypeOK
    OBVIOUS
  <2>1. \A h \in Handles :
          /\ os[h].status \in {"unused", "listening", "connected", "broken", "disconnected"}
          /\ os[h].mode \in {"unset", "byte", "message"}
          /\ os[h].status = "connected" <=> os[h].mate # None
          /\ os[h].mate # None => os[h].mate \in Handles /\ os[os[h].mate].mate = h
    BY DEF CarriedInv, HandleInv, Paired, Statuses, Modes
  <2>2. \A p \in Pipes : pc[p] \in {"reading", "flushing"} \/ Pending(p) => pipe[p] # None
    BY DEF CarriedInv, HandleInv, Placed, Carried, Pending
  <2>3. /\ local \in Handles \cup {None} /\ (acceptor = "waiting") = (local # None)
        /\ pipe \in [Pipes -> Handles \cup {None}] /\ opening \in [Pipes -> Handles \cup {None}]
        /\ pc \in [Pipes -> {"idle", "busy", "opened", "reading", "flushing"}]
        /\ more_data \in [Pipes -> BOOLEAN]
    BY DEF CarriedInv, HandleInv, Placed, Carried, Places
  <2> QED BY <2>1, <2>2, <2>3 DEF PipeTypeOK
<1> QED BY <1>1, CarriedAlways, PTL

(* An asynchronous operation calls what its delegate held when it was      *)
(* asked for (stream/async_stream.cpp:5-59, delegate.h:96-227).            *)
THEOREM OnlyHeldIsCalled == Spec => []AsHeld
<1>1. CarriedInv => AsHeld
  BY DEF CarriedInv, Carried
<1> QED BY <1>1, CarriedAlways, PTL

-----------------------------------------------------------------------------
(* What is read is what was written.                                       *)

(* The parts that wait in a handle are the last ones sent to it, with no   *)
(* gap; those that reads have returned came before them, in order.         *)
HandleFields == {"status", "mate", "mode", "inbox", "sent", "got"}
Part == [n : Nat, last : BOOLEAN]

Numbered(h) ==
  /\ DOMAIN os[h] = HandleFields
  /\ os[h].sent \in Nat /\ os[h].inbox \in Seq(Part) /\ os[h].got \in Seq(Nat)
  /\ Len(os[h].inbox) <= os[h].sent
  /\ \A i \in 1 .. Len(os[h].inbox) : os[h].inbox[i].n = os[h].sent - Len(os[h].inbox) + i
  /\ \A i \in 1 .. Len(os[h].got) :
       /\ os[h].got[i] <= os[h].sent - Len(os[h].inbox)
       /\ i > 1 => os[h].got[i - 1] < os[h].got[i]
  /\ ~Open(h) => os[h].inbox = <<>> /\ os[h].got = <<>> /\ os[h].sent = 0

(* Nothing sent to the handle is lost.                                     *)
Complete(h) == Len(os[h].got) + Len(os[h].inbox) = os[h].sent

(* Only the reads of a pipe that has met a message too long for its buffer *)
(* lose anything; the error that makes a later read throw is of such a one.*)
Ordered ==
  /\ cut \in [Pipes -> BOOLEAN]
  /\ \A p \in Pipes : more_data[p] => cut[p]
  /\ \A h \in Handles : Numbered(h)
  /\ \A h \in Handles : Complete(h) \/ \E p \in Pipes : pipe[p] = h /\ cut[p]

(* A set of numbers has a least one.                                       *)
LEMMA LeastNumber ==
  ASSUME NEW S, S \subseteq Nat, S # {}
  PROVE  Min(S) \in S /\ \A i \in S : Min(S) <= i
<1>1. \E x \in S : \A y \in S : ~(<<y, x>> \in OpToRel(<, Nat))
  BY NatLessThanWellFounded, WFMin
<1>2. ASSUME NEW x \in S, NEW y \in S, ~(<<y, x>> \in OpToRel(<, Nat)) PROVE x <= y
  <2>1. x \in Nat /\ y \in Nat /\ ~(y < x)
    BY <1>2 DEF OpToRel
  <2> QED BY <2>1, SMT
<1>3. \E x \in S : \A y \in S : x <= y
  BY <1>1, <1>2
<1>4. PICK x \in S : x = Min(S) /\ \A y \in S : x <= y
  BY <1>3 DEF Min
<1> QED BY <1>4

(* A read takes something, and no more than there is.                      *)
LEMMA TakesSome ==
  ASSUME NEW h \in Handles, Numbered(h), os[h].inbox # <<>>
  PROVE  Count(h) \in 1 .. Len(os[h].inbox)
<1> DEFINE inbox == os[h].inbox
           ends == {i \in DOMAIN inbox : os[h].mode = "message" /\ inbox[i].last}
           S == {Capacity, Len(inbox)} \cup ends
<1>1. Len(inbox) \in Nat \ {0} /\ DOMAIN inbox = 1 .. Len(inbox)
  BY EmptySeq, LenProperties DEF Numbered
<1>2. Capacity \in Nat \ {0}
  BY PipeAssumption
<1>3. \A i \in S : i \in Nat \ {0}
  BY <1>1, <1>2, SMT
<1>4. Min(S) \in S /\ \A i \in S : Min(S) <= i
  BY <1>3, LeastNumber
<1>5. Min(S) \in Nat \ {0} /\ Min(S) <= Len(inbox)
  BY <1>3, <1>4
<1>6. Count(h) = Min(S)
  BY DEF Count
<1> HIDE DEF S, inbox
<1> QED BY <1>1, <1>5, <1>6, SMT DEF inbox

(* A read, of which something is returned or nothing.                      *)
LEMMA Taking ==
  ASSUME DOMAIN os = Handles, NEW h \in Handles, Numbered(h), os[h].inbox # <<>>,
         NEW returned \in BOOLEAN, os' = Taken(h, returned)
  PROVE  /\ Numbered(h)'
         /\ returned /\ Complete(h) => Complete(h)'
         /\ DOMAIN os' = Handles /\ \A g \in Handles \ {h} : os'[g] = os[g]
<1> DEFINE inbox == os[h].inbox
           got == os[h].got
           sent == os[h].sent
           n == Count(h)
           read == [i \in 1 .. n |-> inbox[i].n]
           left == SubSeq(inbox, n + 1, Len(inbox))
           now == IF returned THEN got \o read ELSE got
<1>1. /\ DOMAIN os[h] = HandleFields /\ sent \in Nat
      /\ inbox \in Seq(Part) /\ got \in Seq(Nat) /\ Len(inbox) \in Nat /\ Len(got) \in Nat
      /\ Len(inbox) <= sent
      /\ \A i \in 1 .. Len(inbox) : inbox[i].n = sent - Len(inbox) + i
      /\ \A i \in 1 .. Len(got) : got[i] <= sent - Len(inbox) /\ (i > 1 => got[i - 1] < got[i])
  BY LenProperties DEF Numbered
<1>2. n \in 1 .. Len(inbox)
  BY TakesSome
<1>3. /\ DOMAIN os' = Handles /\ \A g \in Handles \ {h} : os'[g] = os[g]
      /\ DOMAIN os'[h] = HandleFields
      /\ os'[h].inbox = left /\ os'[h].got = now
      /\ os'[h].sent = sent /\ os'[h].status = os[h].status
  BY <1>1 DEF Taken, HandleFields
<1> HIDE DEF inbox, got, sent, n
<1>4. /\ left \in Seq(Part) /\ Len(left) = Len(inbox) - n
      /\ \A i \in 1 .. Len(left) : left[i] = inbox[n + i]
  <2>1. \A i \in n + 1 .. Len(inbox) : inbox[i] \in Part
    BY <1>1, <1>2, ElementOfSeq, SMT
  <2> DEFINE a == n + 1
             b == Len(inbox)
  <2>2. a \in Int /\ b \in Int
    BY <1>1, <1>2, SMT
  <2>3. /\ SubSeq(inbox, a, b) \in Seq(Part)
        /\ Len(SubSeq(inbox, a, b)) = IF a <= b THEN b - a + 1 ELSE 0
        /\ \A i \in 1 .. b - a + 1 : SubSeq(inbox, a, b)[i] = inbox[a + i - 1]
    <3> HIDE DEF a, b
    <3>1. \A i \in a .. b : inbox[i] \in Part
      BY <2>1 DEF a, b
    <3> QED BY <2>2, <3>1, SubSeqProperties
  <2>4. Len(left) = Len(inbox) - n
    BY <1>1, <1>2, <2>3, SMT
  <2>5. \A i \in 1 .. Len(left) : left[i] = inbox[n + i]
    <3> TAKE i \in 1 .. Len(left)
    <3>1. i \in 1 .. b - a + 1 /\ a + i - 1 = n + i
      BY <1>1, <1>2, <2>4, SMT
    <3> QED BY <2>3, <3>1
  <2> QED BY <2>3, <2>4, <2>5
<1>5. /\ read \in Seq(Nat) /\ Len(read) = n
      /\ \A i \in 1 .. n : read[i] = sent - Len(inbox) + i
  <2>1. ASSUME NEW i \in 1 .. n PROVE inbox[i].n \in Nat /\ inbox[i].n = sent - Len(inbox) + i
    <3>1. i \in 1 .. Len(inbox)
      BY <1>1, <1>2, SMT
    <3> QED BY <1>1, <3>1, ElementOfSeq DEF Part
  <2>2. read \in [1 .. n -> Nat] /\ n \in Nat
    BY <1>2, <2>1, SMT
  <2>3. read \in Seq(Nat)
    BY <2>2, SeqDef
  <2>4. Len(read) \in Nat /\ 1 .. Len(read) = 1 .. n
    BY <2>2, <2>3, LenProperties
  <2>5. Len(read) = n
    <3> HIDE DEF read
    <3> QED BY <1>2, <2>4, SMT
  <2> QED BY <2>1, <2>3, <2>5
<1>6. /\ now \in Seq(Nat) /\ Len(now) = IF returned THEN Len(got) + n ELSE Len(got)
      /\ \A i \in 1 .. Len(now) : IF i <= Len(got) THEN now[i] = got[i]
                                  ELSE returned /\ now[i] = read[i - Len(got)]
  <2> HIDE DEF read, left
  <2>1. CASE returned
    <3>1. /\ now \in Seq(Nat) /\ Len(now) = Len(got) + Len(read)
          /\ \A i \in 1 .. Len(got) + Len(read) :
               now[i] = IF i <= Len(got) THEN got[i] ELSE read[i - Len(got)]
      BY <1>1, <1>5, <2>1, ConcatProperties
    <3> QED BY <1>5, <2>1, <3>1
  <2>2. CASE ~returned
    <3>1. now = got
      BY <2>2
    <3> HIDE DEF now
    <3>2. \A i \in 1 .. Len(now) : i <= Len(got)
      BY <1>1, <3>1, SMT
    <3> QED BY <1>1, <2>2, <3>1, <3>2
  <2> QED BY <2>1, <2>2
<1> HIDE DEF left, read, now
<1>7. ASSUME NEW i \in 1 .. Len(now)
      PROVE  now[i] <= sent - Len(left) /\ (i > 1 => now[i - 1] < now[i])
  <2>0. /\ sent \in Nat /\ Len(inbox) \in Nat /\ Len(got) \in Nat /\ n \in Nat /\ i \in Nat
        /\ 1 <= n /\ n <= Len(inbox) /\ Len(inbox) <= sent /\ Len(left) = Len(inbox) - n
        /\ 1 <= i /\ i <= Len(now) /\ Len(now) \in Nat /\ (returned => Len(now) = Len(got) + n)
    BY <1>1, <1>2, <1>4, <1>6, SMT
  <2>1. CASE i <= Len(got)
    <3>1. i \in 1 .. Len(got) /\ now[i] = got[i] /\ (i > 1 => i - 1 \in 1 .. Len(now) /\ i - 1 <= Len(got))
      BY <1>1, <1>6, <2>1, SMT
    <3>2. got[i] \in Nat /\ got[i] <= sent - Len(inbox) /\ (i > 1 => got[i - 1] < got[i])
      BY <1>1, <3>1, ElementOfSeq
    <3>3. i > 1 => now[i - 1] = got[i - 1]
      BY <1>6, <3>1
    <3>4. got[i] <= sent - Len(left)
      BY <1>1, <1>2, <1>4, <3>2, SMT
    <3> QED BY <3>1, <3>2, <3>3, <3>4
  <2>2. CASE ~(i <= Len(got))
    <3>1. /\ returned /\ now[i] = read[i - Len(got)] /\ i - Len(got) \in 1 .. n
          /\ i > 1 => i - 1 \in 1 .. Len(now)
      BY <1>1, <1>2, <1>6, <2>2, SMT
    <3>2. now[i] = sent - Len(inbox) + (i - Len(got))
      BY <1>5, <3>1
    <3>3. CASE i = Len(got) + 1
      <4>1. i > 1 => i - 1 \in 1 .. Len(got) /\ i - 1 <= Len(got)
        BY <1>1, <3>3, SMT
      <4>2. i > 1 => now[i - 1] = got[i - 1] /\ got[i - 1] \in Nat /\ got[i - 1] <= sent - Len(inbox)
        BY <1>1, <1>6, <3>1, <4>1, ElementOfSeq
      <4>3. sent - Len(inbox) + (i - Len(got)) <= sent - Len(left)
            /\ sent - Len(inbox) < sent - Len(inbox) + (i - Len(got))
        BY <2>0, <3>1, SMT
      <4>4. ASSUME i > 1 PROVE now[i - 1] < now[i]
        <5> DEFINE before == now[i - 1]
        <5>1. before \in Nat /\ before <= sent - Len(inbox)
          BY <4>2, <4>4
        <5> HIDE DEF before
        <5>2. before < sent - Len(inbox) + (i - Len(got))
          BY <2>0, <4>3, <5>1, SMT
        <5> QED BY <3>2, <5>2 DEF before
      <4> QED BY <3>2, <4>3, <4>4
    <3>4. CASE i # Len(got) + 1
      <4>1. i - 1 \in 1 .. Len(now) /\ ~(i - 1 <= Len(got)) /\ i - 1 - Len(got) \in 1 .. n
        BY <2>0, <2>2, <3>1, <3>4, SMT
      <4>2. now[i - 1] = sent - Len(inbox) + (i - 1 - Len(got))
        BY <1>5, <1>6, <4>1
      <4>3. sent - Len(inbox) + (i - Len(got)) <= sent - Len(left)
            /\ sent - Len(inbox) + (i - 1 - Len(got)) < sent - Len(inbox) + (i - Len(got))
        BY <2>0, <3>1, SMT
      <4> QED BY <3>2, <4>2, <4>3
    <3> QED BY <3>3, <3>4
  <2> QED BY <2>1, <2>2
<1>8. ASSUME NEW i \in 1 .. Len(left) PROVE left[i].n = sent - Len(left) + i
  <2>1. n + i \in 1 .. Len(inbox) /\ left[i] = inbox[n + i]
    BY <1>1, <1>2, <1>4, SMT
  <2>2. left[i].n = sent - Len(inbox) + (n + i)
    BY <1>1, <2>1
  <2> QED BY <1>1, <1>2, <1>4, <2>2, SMT
<1>9. Len(left) <= sent
  BY <1>1, <1>2, <1>4, SMT
<1>10. Open(h)' /\ Open(h)
  <2>1. Open(h)
    BY DEF Numbered
  <2> QED BY <1>3, <2>1 DEF Open
<1>11. Numbered(h)'
  BY <1>1, <1>3, <1>4, <1>6, <1>7, <1>8, <1>9, <1>10 DEF Numbered
<1>12. returned /\ Complete(h) => Complete(h)'
  <2>1. returned => Len(now) + Len(left) = Len(got) + Len(inbox)
    BY <1>1, <1>2, <1>4, <1>6, SMT
  <2> QED BY <1>3, <2>1 DEF Complete, inbox, got, sent
<1> QED BY <1>3, <1>11, <1>12

(* A message for a handle that is open.                                    *)
LEMMA Writing ==
  ASSUME DOMAIN os = Handles, NEW h \in Handles, Numbered(h), Open(h),
         NEW size \in Nat \ {0}, os' = Written(h, size)
  PROVE  /\ Numbered(h)' /\ (Complete(h) => Complete(h)')
         /\ DOMAIN os' = Handles /\ \A g \in Handles \ {h} : os'[g] = os[g]
<1> DEFINE inbox == os[h].inbox
           sent == os[h].sent
           parts == [i \in 1 .. size |-> [n |-> sent + i, last |-> i = size]]
           now == inbox \o parts
<1>1. /\ DOMAIN os[h] = HandleFields /\ sent \in Nat /\ Len(inbox) \in Nat
      /\ inbox \in Seq(Part) /\ os[h].got \in Seq(Nat) /\ Len(os[h].got) \in Nat
      /\ Len(inbox) <= sent
      /\ \A i \in 1 .. Len(inbox) : inbox[i].n = sent - Len(inbox) + i
      /\ \A i \in 1 .. Len(os[h].got) :
           os[h].got[i] <= sent - Len(inbox) /\ (i > 1 => os[h].got[i - 1] < os[h].got[i])
  BY LenProperties DEF Numbered
<1>2. /\ DOMAIN os' = Handles /\ \A g \in Handles \ {h} : os'[g] = os[g]
      /\ DOMAIN os'[h] = HandleFields
      /\ os'[h].inbox = now /\ os'[h].sent = sent + size
      /\ os'[h].got = os[h].got /\ os'[h].status = os[h].status
  BY <1>1 DEF Written, HandleFields
<1> HIDE DEF inbox, sent
<1>3. /\ parts \in Seq(Part) /\ Len(parts) = size
      /\ \A i \in 1 .. size : parts[i].n = sent + i
  <2>1. \A i \in 1 .. size : sent + i \in Nat
    BY <1>1, SMT
  <2>2. parts \in [1 .. size -> Part] /\ size \in Nat
    BY <2>1 DEF Part
  <2>3. parts \in Seq(Part)
    BY <2>2, SeqDef
  <2>4. Len(parts) \in Nat /\ 1 .. Len(parts) = 1 .. size
    BY <2>2, <2>3, LenProperties
  <2>5. Len(parts) = size
    <3> HIDE DEF parts
    <3> QED BY <2>4, SMT
  <2> QED BY <2>3, <2>5
<1> HIDE DEF parts
<1>4. /\ now \in Seq(Part) /\ Len(now) = Len(inbox) + size
      /\ \A i \in 1 .. Len(inbox) + size :
           now[i] = IF i <= Len(inbox) THEN inbox[i] ELSE parts[i - Len(inbox)]
  BY <1>1, <1>3, ConcatProperties
<1> HIDE DEF now
<1>5. ASSUME NEW i \in 1 .. Len(now) PROVE now[i].n = (sent + size) - Len(now) + i
  <2>1. CASE i <= Len(inbox)
    <3>1. i \in 1 .. Len(inbox) /\ i \in 1 .. Len(inbox) + size
      BY <1>1, <1>4, <2>1, SMT
    <3>2. now[i].n = sent - Len(inbox) + i
      BY <1>1, <1>4, <2>1, <3>1
    <3> QED BY <1>1, <1>4, <3>2, SMT
  <2>2. CASE ~(i <= Len(inbox))
    <3>1. i \in 1 .. Len(inbox) + size /\ i - Len(inbox) \in 1 .. size
      BY <1>1, <1>4, <2>2, SMT
    <3>2. now[i].n = sent + (i - Len(inbox))
      BY <1>3, <1>4, <2>2, <3>1
    <3> QED BY <1>1, <1>4, <3>2, SMT
  <2> QED BY <2>1, <2>2
<1>6. /\ sent + size \in Nat /\ Len(now) <= sent + size
      /\ (sent + size) - Len(now) = sent - Len(inbox)
  BY <1>1, <1>4, SMT
<1>7. Open(h)'
  BY <1>2 DEF Open
<1>8. Numbered(h)'
  BY <1>1, <1>2, <1>4, <1>5, <1>6, <1>7 DEF Numbered
<1>9. Complete(h) => Complete(h)'
  <2>1. Len(os[h].got) \in Nat /\ Len(inbox) \in Nat /\ sent \in Nat /\ Len(now) = Len(inbox) + size
    BY <1>1, <1>4
  <2>2. Len(os[h].got) + Len(inbox) = sent => Len(os[h].got) + Len(now) = sent + size
    <3> DEFINE taken == Len(os[h].got)
    <3>1. taken \in Nat
      BY <2>1
    <3> HIDE DEF taken
    <3>2. taken + Len(inbox) = sent => taken + Len(now) = sent + size
      BY <2>1, <3>1, SMT
    <3> QED BY <3>2 DEF taken
  <2> QED BY <1>2, <2>2 DEF Complete, inbox, sent
<1> QED BY <1>2, <1>8, <1>9

(* A handle of which neither the data nor the end is touched.              *)
LEMMA SameHandle ==
  ASSUME NEW h, Numbered(h), DOMAIN os'[h] = DOMAIN os[h],
         os'[h].inbox = os[h].inbox, os'[h].sent = os[h].sent, os'[h].got = os[h].got,
         Open(h) => Open(h)'
  PROVE  Numbered(h)' /\ (Complete(h) => Complete(h)')
<1>1. Numbered(h)'
  BY DEF Numbered
<1>2. Complete(h) => Complete(h)'
  BY DEF Complete
<1> QED BY <1>1, <1>2

(* A step of which no inbox hears, and no pipe loses its handle.           *)
LEMMA SameData ==
  ASSUME Ordered, pipe \in [Pipes -> Handles \cup {None}],
         \A h \in Handles :
           /\ DOMAIN os'[h] = DOMAIN os[h] /\ os'[h].inbox = os[h].inbox
           /\ os'[h].sent = os[h].sent /\ os'[h].got = os[h].got
           /\ Open(h) => Open(h)',
         \A p \in Pipes : pipe[p] # None => pipe'[p] = pipe[p],
         UNCHANGED cut, \A p \in Pipes : more_data'[p] => cut[p]
  PROVE  Ordered'
<1>1. \A h \in Handles : Numbered(h)' /\ (Complete(h) => Complete(h)')
  BY SameHandle DEF Ordered
<1>2. \A h \in Handles : Complete(h)' \/ \E p \in Pipes : pipe'[p] = h /\ cut'[p]
  BY <1>1, HandlesAreNumbers DEF Ordered
<1> QED BY <1>1, <1>2 DEF Ordered

(* A handle goes, and with it what waits there; its mate keeps what it has *)
(* or is disconnected, when nothing waits there.                           *)
LEMMA Going ==
  ASSUME Ordered, Paired, NEW h \in Handles,
         \/ os' = Closed(h)
         \/ os' = Disconnected(h) /\ \A g \in Handles : os[g].mate = h => os[g].inbox = <<>>,
         \A p \in Pipes : pipe[p] # h => pipe'[p] = pipe[p],
         UNCHANGED <<cut, more_data>>
  PROVE  Ordered'
<1>1. Numbered(h)' /\ Complete(h)'
  <2>1. os'[h] = Unused
    BY DEF Closed, Disconnected
  <2>2. /\ DOMAIN Unused = HandleFields /\ Unused.sent = 0 /\ Unused.inbox = <<>> /\ Unused.got = <<>>
        /\ Unused.status = "unused"
    BY DEF Unused, HandleFields
  <2>3. <<>> \in Seq(Part) /\ <<>> \in Seq(Nat) /\ Len(<<>>) = 0
    BY EmptySeq
  <2> QED BY <2>1, <2>2, <2>3, SMT DEF Numbered, Complete, Open
<1>2. ASSUME NEW g \in Handles \ {h} PROVE Numbered(g)' /\ (Complete(g) => Complete(g)')
  <2>0. Numbered(g)
    BY DEF Ordered
  <2>1. CASE os[g].mate # h
    <3>1. os'[g] = os[g]
      BY <2>1 DEF Closed, Disconnected
    <3> QED BY <2>0, <3>1, SameHandle DEF Open
  <2>2. CASE os[g].mate = h /\ os' = Closed(h)
    <3>1. os'[g] = [os[g] EXCEPT !.status = "broken", !.mate = None]
      BY <2>2 DEF Closed
    <3>2. os[g].status = "connected"
      BY <2>2, HandlesAreNumbers DEF Paired
    <3>3. /\ DOMAIN os'[g] = DOMAIN os[g] /\ os'[g].status = "broken" /\ os'[g].inbox = os[g].inbox
          /\ os'[g].sent = os[g].sent /\ os'[g].got = os[g].got
      BY <2>0, <3>1 DEF Numbered, HandleFields
    <3> QED BY <2>0, <3>2, <3>3, SameHandle DEF Open
  <2>3. CASE os[g].mate = h /\ os' = Disconnected(h) /\ os' # Closed(h)
    <3>1. os'[g] = [os[g] EXCEPT !.status = "disconnected", !.mate = None, !.inbox = <<>>]
      BY <2>3 DEF Disconnected
    <3>2. /\ DOMAIN os'[g] = DOMAIN os[g] /\ os'[g].status = "disconnected" /\ os'[g].inbox = <<>>
          /\ os'[g].sent = os[g].sent /\ os'[g].got = os[g].got
      BY <2>0, <3>1 DEF Numbered, HandleFields
    <3>3. <<>> \in Seq(Part) /\ Len(<<>>) = 0 /\ Len(os[g].inbox) \in Nat
      BY <2>0, EmptySeq, LenProperties DEF Numbered
    <3>4. ASSUME NEW i \in 1 .. Len(os[g].got) PROVE os[g].got[i] <= os[g].sent - 0
      <4>1. os[g].got[i] \in Nat /\ os[g].got[i] <= os[g].sent - Len(os[g].inbox) /\ os[g].sent \in Nat
        BY <2>0, ElementOfSeq DEF Numbered
      <4> QED BY <3>3, <4>1, SMT
    <3>5. Numbered(g)'
      <4>1. Open(g)' /\ Len(os'[g].inbox) <= os'[g].sent /\ 1 .. Len(os'[g].inbox) = {}
        BY <2>0, <3>2, <3>3, SMT DEF Open, Numbered
      <4> QED BY <2>0, <3>2, <3>3, <3>4, <4>1 DEF Numbered
    <3>6. os[g].inbox = <<>>
      BY <2>3
    <3> QED BY <3>2, <3>5, <3>6 DEF Complete
  <2> QED BY <2>1, <2>2, <2>3
<1>3. \A g \in Handles : Complete(g)' \/ \E p \in Pipes : pipe'[p] = g /\ cut'[p]
  BY <1>1, <1>2 DEF Ordered
<1> QED BY <1>1, <1>2, <1>3 DEF Ordered

(* A pipe reads from its own handle: nobody else will miss what it takes.  *)
LEMMA ReadingKeeps ==
  ASSUME HandleInv, Ordered, NEW p \in Pipes, NEW h \in Handles, pipe[p] = h, os[h].inbox # <<>>,
         NEW returned \in BOOLEAN, os' = Taken(h, returned),
         NEW long \in BOOLEAN, cut' = [cut EXCEPT ![p] = cut[p] \/ long],
         returned \/ cut[p] \/ long,
         \A q \in Pipes : more_data'[q] => cut'[q],
         UNCHANGED pipe
  PROVE  Ordered'
<1>1. /\ Numbered(h)' /\ (returned /\ Complete(h) => Complete(h)')
      /\ \A g \in Handles \ {h} : os'[g] = os[g]
  BY Taking DEF Ordered, HandleInv, Paired
<1>2. \A g \in Handles \ {h} : Numbered(g)' /\ (Complete(g) => Complete(g)')
  BY <1>1, SameHandle DEF Ordered, Open
<1>3. /\ cut' \in [Pipes -> BOOLEAN] /\ cut'[p] = (cut[p] \/ long)
      /\ \A q \in Pipes : cut[q] => cut'[q]
  BY DEF Ordered
<1>4. Complete(h)' \/ cut'[p]
  <2>1. \A q \in Pipes : pipe[q] = h => q = p
    BY HandlesAreNumbers DEF HandleInv, Owned
  <2>2. Complete(h) \/ cut[p]
    BY <2>1 DEF Ordered
  <2> QED BY <1>1, <1>3, <2>2
<1>5. \A g \in Handles : Complete(g)' \/ \E q \in Pipes : pipe'[q] = g /\ cut'[q]
  BY <1>2, <1>3, <1>4 DEF Ordered
<1> QED BY <1>1, <1>2, <1>3, <1>5 DEF Ordered

(* A pipe writes to the mate of its handle, which is connected.            *)
LEMMA WritingKeeps ==
  ASSUME HandleInv, Ordered, NEW p \in Pipes, pipe[p] # None, ~Ended(pipe[p]),
         NEW size \in Sizes, os' = Written(os[pipe[p]].mate, size),
         UNCHANGED <<pipe, cut, more_data>>
  PROVE  Ordered'
<1>1. PICK h \in Handles : h = os[pipe[p]].mate /\ Open(h)
  BY HandlesAreNumbers DEF HandleInv, Placed, Paired, Ended, Open
<1>2. size \in Nat \ {0}
  BY PipeAssumption
<1>3. /\ Numbered(h)' /\ (Complete(h) => Complete(h)')
      /\ \A g \in Handles \ {h} : os'[g] = os[g]
  BY <1>1, <1>2, Writing DEF Ordered, HandleInv, Paired
<1>4. \A g \in Handles \ {h} : Numbered(g)' /\ (Complete(g) => Complete(g)')
  BY <1>3, SameHandle DEF Ordered, Open
<1>5. \A g \in Handles : Complete(g)' \/ \E q \in Pipes : pipe'[q] = g /\ cut'[q]
  BY <1>3, <1>4 DEF Ordered
<1> QED BY <1>3, <1>4, <1>5 DEF Ordered

LEMMA OrderedInit == Init => Ordered
<1> SUFFICES ASSUME Init PROVE Ordered
  OBVIOUS
<1>1. /\ DOMAIN Unused = HandleFields /\ Unused.sent = 0 /\ Unused.inbox = <<>> /\ Unused.got = <<>>
      /\ Unused.status = "unused"
  BY DEF Unused, HandleFields
<1>2. <<>> \in Seq(Part) /\ <<>> \in Seq(Nat) /\ Len(<<>>) = 0
  BY EmptySeq
<1>3. ASSUME NEW h \in Handles PROVE Numbered(h) /\ Complete(h)
  <2>1. /\ DOMAIN os[h] = HandleFields /\ os[h].sent = 0 /\ os[h].inbox = <<>> /\ os[h].got = <<>>
        /\ os[h].status = "unused"
    BY <1>1 DEF Init
  <2>2. 0 <= 0 /\ 0 + 0 = 0 /\ 1 .. 0 = {} /\ 0 \in Nat
    BY SMT
  <2> QED BY <1>2, <2>1, <2>2 DEF Numbered, Complete, Open
<1> QED BY <1>3 DEF Ordered, Init

LEMMA OrderedStep == CarriedInv /\ Ordered /\ [Next]_vars => Ordered'
<1> SUFFICES ASSUME CarriedInv, HandleInv, Ordered, [Next]_vars PROVE Ordered'
  BY DEF CarriedInv
<1> USE HandlesAreNumbers
<1>0. /\ pipe \in [Pipes -> Handles \cup {None}] /\ DOMAIN os = Handles
      /\ cut \in [Pipes -> BOOLEAN] /\ more_data \in [Pipes -> BOOLEAN]
      /\ \A h \in Handles : DOMAIN os[h] = HandleFields
      /\ \A p \in Pipes : more_data[p] => cut[p]
  BY DEF HandleInv, Placed, Paired, Ordered, CarriedInv, Carried, Numbered
<1>1. ASSUME UNCHANGED <<os, cut, more_data>>, \A p \in Pipes : pipe[p] # None => pipe'[p] = pipe[p]
      PROVE  Ordered'
  BY <1>0, <1>1, SameData DEF Open
<1>2. ASSUME NEW m \in {"byte", "message"}, Accept(m) PROVE Ordered'
  <2>1. PICK h \in Handles : Fresh(h) /\ os' = [os EXCEPT ![h].status = "listening", ![h].mode = m]
    BY <1>2 DEF Accept
  <2>2. UNCHANGED <<pipe, cut, more_data>>
    BY <1>2 DEF Accept, readVars
  <2>3. os[h].status = "unused" /\ os'[h].status = "listening"
    BY <1>0, <2>1 DEF Fresh, Open, HandleFields
  <2>4. \A g \in Handles :
          /\ DOMAIN os'[g] = DOMAIN os[g] /\ os'[g].inbox = os[g].inbox
          /\ os'[g].sent = os[g].sent /\ os'[g].got = os[g].got
          /\ g # h => os'[g].status = os[g].status
    BY <1>0, <2>1 DEF HandleFields
  <2>5. \A g \in Handles : Open(g) => Open(g)'
    BY <2>3, <2>4 DEF Open
  <2> QED BY <1>0, <2>2, <2>4, <2>5, SameData
<1>3. CASE Accepted
  <2>1. UNCHANGED <<os, cut, more_data>> /\ pipe["session"] = None
        /\ pipe' = [pipe EXCEPT !["session"] = local]
    BY <1>3 DEF Accepted, readVars, HandleInv, Placed
  <2> QED BY <1>0, <1>1, <2>1
<1>4. CASE AcceptFails
  <2>1. os' = Closed(local) /\ UNCHANGED <<pipe, cut, more_data>> /\ local \in Handles
    BY <1>4 DEF AcceptFails, readVars, HandleInv, Placed
  <2> QED BY <2>1, Going DEF HandleInv
<1>5. ASSUME NEW c \in Clients, Connect(c) PROVE Ordered'
  <2>1. /\ UNCHANGED <<pipe, cut>> /\ more_data' = [more_data EXCEPT ![c] = FALSE]
        /\ c \in Pipes
    BY <1>5 DEF Connect, Pipes
  <2>2. \A p \in Pipes : more_data'[p] => cut[p]
    BY <1>0, <2>1
  <2>3. CASE UNCHANGED os
    BY <1>0, <2>1, <2>2, <2>3, SameData DEF Open
  <2>4. ASSUME NEW h \in Listening, NEW g \in Handles, Fresh(g),
               os' = [os EXCEPT ![h].status = "connected", ![h].mate = g,
                                ![g].status = "connected", ![g].mate = h]
        PROVE  Ordered'
    <3>1. /\ h \in Handles /\ h # g /\ os[h].status = "listening" /\ os[g].status = "unused"
          /\ os'[h].status = "connected" /\ os'[g].status = "connected"
      BY <1>0, <2>4 DEF Listening, Fresh, Open, HandleFields
    <3>2. \A i \in Handles :
            /\ DOMAIN os'[i] = DOMAIN os[i] /\ os'[i].inbox = os[i].inbox
            /\ os'[i].sent = os[i].sent /\ os'[i].got = os[i].got
            /\ i \notin {g, h} => os'[i].status = os[i].status
      BY <1>0, <2>4, <3>1 DEF HandleFields
    <3>3. \A i \in Handles : Open(i) => Open(i)'
      BY <3>1, <3>2 DEF Open
    <3> QED BY <1>0, <2>1, <2>2, <3>2, <3>3, SameData
  <2> QED BY <1>5, <2>3, <2>4 DEF Connect
<1>6. ASSUME NEW c \in Clients, Close(c) PROVE Ordered'
  <2>1. /\ c \in Pipes /\ pipe[c] \in Handles /\ os' = Closed(pipe[c])
        /\ pipe' = [pipe EXCEPT ![c] = None] /\ UNCHANGED <<cut, more_data>>
    BY <1>0, <1>6 DEF Close, readVars, Pipes
  <2> QED BY <1>0, <2>1, Going DEF HandleInv
<1>7. ASSUME NEW p \in Pipes, Disconnect(p) PROVE Ordered'
  <2>1. /\ pipe[p] \in Handles /\ os' = Disconnected(pipe[p])
        /\ pipe' = [pipe EXCEPT ![p] = None] /\ UNCHANGED <<cut, more_data>>
        /\ ~Unread(pipe[p])
    BY <1>0, <1>7 DEF Disconnect, readVars, HandleInv, Placed
  <2>2. ASSUME NEW g \in Handles, os[g].mate = pipe[p] PROVE os[g].inbox = <<>>
    <3>1. os[pipe[p]].mate = g /\ os[pipe[p]].status = "connected"
      BY <2>1, <2>2 DEF HandleInv, Paired
    <3> QED BY <2>1, <3>1 DEF Unread, Ended
  <2> QED BY <1>0, <2>1, <2>2, Going DEF HandleInv
<1>8. ASSUME NEW p \in Pipes, Flush(p) \/ Waited(p) PROVE Ordered'
  BY <1>1, <1>8 DEF Flush, Waited, readVars
<1>9. ASSUME NEW p \in Pipes, NEW m \in {"byte", "message"}, SetMode(p, m) PROVE Ordered'
  <2>1. UNCHANGED <<cut, more_data>> /\ pipe[p] = None
    BY <1>9 DEF SetMode, readVars, HandleInv, Placed
  <2>2. CASE UNCHANGED <<os, pipe>>
    BY <1>1, <2>1, <2>2
  <2>3. CASE /\ opening[p] # None
             /\ os' = [os EXCEPT ![opening[p]].mode = m] /\ pipe' = [pipe EXCEPT ![p] = opening[p]]
    <3>1. PICK g \in Handles : g = opening[p]
      BY <2>3 DEF HandleInv, Placed
    <3>2. \A i \in Handles :
            /\ DOMAIN os'[i] = DOMAIN os[i] /\ os'[i].inbox = os[i].inbox
            /\ os'[i].sent = os[i].sent /\ os'[i].got = os[i].got
            /\ os'[i].status = os[i].status
      BY <1>0, <2>3, <3>1 DEF HandleFields
    <3>3. \A q \in Pipes : pipe[q] # None => pipe'[q] = pipe[q]
      BY <1>0, <2>1, <2>3
    <3> QED BY <1>0, <2>1, <3>2, <3>3, SameData DEF Open
  <2> QED BY <1>9, <2>2, <2>3 DEF SetMode, ModeAccepted
<1>10. ASSUME NEW p \in Pipes, Read(p) PROVE Ordered'
  <2>1. pipe[p] \in Handles /\ UNCHANGED pipe
    BY <1>0, <1>10 DEF Read, Idle
  <2>2. CASE /\ os[pipe[p]].inbox # <<>>
             /\ os' = Taken(pipe[p], ~TooLong(pipe[p]) /\ ~more_data[p])
             /\ more_data' = [more_data EXCEPT ![p] = more_data[p] \/ TooLong(pipe[p])]
             /\ cut' = [cut EXCEPT ![p] = cut[p] \/ TooLong(pipe[p])]
    <3> DEFINE long == TooLong(pipe[p])
               returned == ~long /\ ~more_data[p]
    <3>1. long \in BOOLEAN /\ returned \in BOOLEAN
      BY DEF TooLong
    <3>2. returned \/ cut[p] \/ long
      BY <1>0
    <3>3. \A q \in Pipes : more_data'[q] => cut'[q]
      BY <1>0, <2>2
    <3> QED BY <2>1, <2>2, <3>1, <3>2, <3>3, ReadingKeeps
  <2>3. CASE UNCHANGED <<os, cut>> /\ more_data' = [more_data EXCEPT ![p] = FALSE]
    <3>1. \A q \in Pipes : more_data'[q] => cut[q]
      BY <1>0, <2>3
    <3> QED BY <1>0, <2>1, <2>3, <3>1, SameData DEF Open
  <2> QED BY <1>10, <2>2, <2>3 DEF Read
<1>11. ASSUME NEW p \in Pipes, ReadEnds(p) PROVE Ordered'
  <2>1. pipe[p] \in Handles /\ UNCHANGED pipe
    BY <1>0, <1>11 DEF ReadEnds, HandleInv, Placed
  <2>2. CASE /\ os[pipe[p]].inbox # <<>>
             /\ os' = Taken(pipe[p], ~TooLong(pipe[p]))
             /\ more_data' = [more_data EXCEPT ![p] = TooLong(pipe[p])]
             /\ cut' = [cut EXCEPT ![p] = cut[p] \/ TooLong(pipe[p])]
    <3> DEFINE long == TooLong(pipe[p])
               returned == ~long
    <3>1. long \in BOOLEAN /\ returned \in BOOLEAN /\ (returned \/ cut[p] \/ long)
      BY DEF TooLong
    <3>2. \A q \in Pipes : more_data'[q] => cut'[q]
      BY <1>0, <2>2
    <3> QED BY <2>1, <2>2, <3>1, <3>2, ReadingKeeps
  <2>3. CASE UNCHANGED <<os, readVars>>
    BY <1>1, <2>1, <2>3 DEF readVars
  <2> QED BY <1>11, <2>2, <2>3 DEF ReadEnds
<1>12. ASSUME NEW p \in Pipes, NEW size \in Sizes, Write(p, size) PROVE Ordered'
  BY <1>12, WritingKeeps DEF Write, Idle, readVars
<1>13. ASSUME NEW p \in Pipes, UNCHANGED pipe, pipe[p] \in Handles, os[pipe[p]].inbox # <<>>,
              os' = Taken(pipe[p], ~TooLong(pipe[p])),
              cut' = [cut EXCEPT ![p] = cut[p] \/ TooLong(pipe[p])],
              \A q \in Pipes : more_data'[q] => cut'[q]
       PROVE  Ordered'
  <2> DEFINE long == TooLong(pipe[p])
             returned == ~long
  <2>1. long \in BOOLEAN /\ returned \in BOOLEAN /\ (returned \/ cut[p] \/ long)
    BY DEF TooLong
  <2> QED BY <1>13, <2>1, ReadingKeeps
<1>14. ASSUME NEW p \in Pipes, NEW form, AsyncRead(p, form) PROVE Ordered'
  <2>1. UNCHANGED pipe
    BY <1>14 DEF AsyncRead
  <2>2. CASE UNCHANGED <<os, readVars>>
    BY <1>1, <2>1, <2>2 DEF readVars
  <2>3. CASE /\ pipe[p] # None /\ os[pipe[p]].inbox # <<>>
             /\ os' = Taken(pipe[p], ~TooLong(pipe[p]))
             /\ more_data' = [more_data EXCEPT ![p] = more_data[p] \/ TooLong(pipe[p])]
             /\ cut' = [cut EXCEPT ![p] = cut[p] \/ TooLong(pipe[p])]
    <3>1. \A q \in Pipes : more_data'[q] => cut'[q]
      BY <1>0, <2>3
    <3> QED BY <1>0, <1>13, <2>1, <2>3, <3>1
  <2>4. CASE UNCHANGED <<os, cut>> /\ more_data' = [more_data EXCEPT ![p] = FALSE]
    <3>1. \A q \in Pipes : more_data'[q] => cut[q]
      BY <1>0, <2>4
    <3> QED BY <1>0, <2>1, <2>4, <3>1, SameData DEF Open
  <2> QED BY <1>14, <2>2, <2>3, <2>4 DEF AsyncRead
<1>15. ASSUME NEW p \in Pipes, NEW form, NEW size \in Sizes, AsyncWrite(p, form, size) PROVE Ordered'
  <2>1. UNCHANGED <<pipe, cut, more_data>>
    BY <1>15 DEF AsyncWrite, readVars
  <2>2. CASE UNCHANGED os
    BY <1>1, <2>1, <2>2
  <2>3. CASE ~Gone(p) /\ os' = Written(os[pipe[p]].mate, size)
    BY <2>1, <2>3, WritingKeeps DEF Gone
  <2> QED BY <1>15, <2>2, <2>3 DEF AsyncWrite
<1>16. ASSUME NEW p \in Pipes, AsyncReadEnds(p) PROVE Ordered'
  <2>1. UNCHANGED <<pipe, more_data>> /\ Pending(p)
    BY <1>16 DEF AsyncReadEnds
  <2>2. pipe[p] \in Handles
    BY <1>0, <2>1 DEF CarriedInv, Carried, Pending
  <2>3. CASE UNCHANGED <<os, cut>>
    BY <1>1, <2>1, <2>3
  <2>4. CASE /\ os[pipe[p]].inbox # <<>> /\ os' = Taken(pipe[p], ~TooLong(pipe[p]))
             /\ cut' = [cut EXCEPT ![p] = cut[p] \/ TooLong(pipe[p])]
    <3>1. \A q \in Pipes : more_data'[q] => cut'[q]
      BY <1>0, <2>1, <2>4
    <3> QED BY <1>13, <2>1, <2>2, <2>4, <3>1
  <2> QED BY <1>16, <2>3, <2>4 DEF AsyncReadEnds
<1>17. CASE Edit \/ (\E p \in Pipes : Answer(p) \/ Answered(p)) \/ UNCHANGED vars
  BY <1>1, <1>17 DEF Edit, Answer, Answered, vars, readVars
<1> QED
  BY <1>2, <1>3, <1>4, <1>5, <1>6, <1>7, <1>8, <1>9, <1>10, <1>11, <1>12, <1>14, <1>15,
     <1>16, <1>17 DEF Next, CallEnds, OpEnds

(* What a pipe reads is what was written to it, in order, and nothing is   *)
(* missing, even after the server has disconnected, until a read has met a *)
(* message too long for its buffer; for any clients, sizes and buffers     *)
(* (win32_named_pipe.cpp:183-316).                                         *)
THEOREM ReadsInOrder == Spec => []InOrder
<1>1. CarriedInv /\ Ordered => InOrder
  <2> SUFFICES ASSUME HandleInv, Ordered, NEW p \in Pipes, pipe[p] # None
               PROVE  /\ \A i \in DOMAIN os[pipe[p]].got :
                           /\ os[pipe[p]].got[i] <= os[pipe[p]].sent
                           /\ i > 1 => os[pipe[p]].got[i - 1] < os[pipe[p]].got[i]
                      /\ ~cut[p] =>
                           Len(os[pipe[p]].got) + Len(os[pipe[p]].inbox) = os[pipe[p]].sent
    BY DEF InOrder, CarriedInv
  <2>1. PICK h \in Handles : h = pipe[p]
    BY DEF HandleInv, Placed
  <2>2. Numbered(h)
    BY DEF Ordered
  <2>3. ASSUME NEW i \in DOMAIN os[h].got
        PROVE  os[h].got[i] <= os[h].sent /\ (i > 1 => os[h].got[i - 1] < os[h].got[i])
    <3>1. i \in 1 .. Len(os[h].got)
      BY <2>2, LenProperties DEF Numbered
    <3>2. /\ os[h].got[i] \in Nat /\ os[h].sent \in Nat /\ Len(os[h].inbox) \in Nat
          /\ os[h].got[i] <= os[h].sent - Len(os[h].inbox)
          /\ i > 1 => os[h].got[i - 1] < os[h].got[i]
      BY <2>2, <3>1, ElementOfSeq, LenProperties DEF Numbered
    <3> QED BY <3>2, SMT
  <2>4. ~cut[p] => Complete(h)
    <3>1. \A q \in Pipes : pipe[q] = h => q = p
      BY <2>1, HandlesAreNumbers DEF HandleInv, Owned
    <3> QED BY <3>1 DEF Ordered
  <2> QED BY <2>1, <2>3, <2>4 DEF Complete
<1>2. Init => CarriedInv /\ Ordered
  BY HandleInvInit, CarriedInit, OrderedInit DEF CarriedInv
<1>3. CarriedInv /\ Ordered /\ [Next]_vars => (CarriedInv /\ Ordered)'
  BY HandleInvStep, CarriedStep, OrderedStep DEF CarriedInv
<1> QED BY <1>1, <1>2, <1>3, PTL DEF Spec
=============================================================================
