--------------------------- MODULE MCSignalChannel ---------------------------
(* Small instances of SignalChannel.                                       *)
EXTENDS SignalChannel

CONSTANTS r1, r2, s1, s2, g1, g2

TwoReceivers == {r1, r2}
TwoSenders == {s1, s2}
HoistingOne == {s2}
TwoSignals == {g1, g2}
=============================================================================
