----------------------------- MODULE Rendezvous -----------------------------
(***************************************************************************)
(* What a signal_channel (vee/signal_channel.h) promises: one receiver at  *)
(* a time waits, one sender gives it a signal, and the receiver returns    *)
(* with the signal it was given.  Sending succeeds only while a receiver   *)
(* waits.  SignalChannel implements this specification; Actor composes its *)
(* actions with those of the mailbox.                                      *)
(***************************************************************************)
CONSTANTS Signals, NoSignal, Receivers, NoReceiver

VARIABLES
  phase,      \* "idle", "waiting" or "signalled"
  receiver,   \* the receiver that waits or has been signalled
  signal,     \* the signal given and not taken yet
  got         \* got[r]: what the last recv of r returned

channelVars == <<phase, receiver, signal, got>>

ChannelInit ==
  /\ phase = "idle"
  /\ receiver = NoReceiver
  /\ signal = NoSignal
  /\ got = [r \in Receivers |-> NoSignal]

Arm(r) ==
  /\ phase = "idle"
  /\ phase' = "waiting"
  /\ receiver' = r
  /\ UNCHANGED <<signal, got>>

Send(v) ==
  /\ phase = "waiting"
  /\ phase' = "signalled"
  /\ signal' = v
  /\ UNCHANGED <<receiver, got>>

Take(r) ==
  /\ phase = "signalled"
  /\ receiver = r
  /\ got' = [got EXCEPT ![r] = signal]
  /\ phase' = "idle"
  /\ receiver' = NoReceiver
  /\ signal' = NoSignal

Next ==
  \/ \E r \in Receivers : Arm(r) \/ Take(r)
  \/ \E v \in Signals : Send(v)

Spec == ChannelInit /\ [][Next]_channelVars

ChannelTypeOK ==
  /\ phase \in {"idle", "waiting", "signalled"}
  /\ receiver \in Receivers \cup {NoReceiver}
  /\ signal \in Signals \cup {NoSignal}
  /\ got \in [Receivers -> Signals \cup {NoSignal}]
=============================================================================
