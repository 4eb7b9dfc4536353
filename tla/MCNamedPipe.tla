----------------------------- MODULE MCNamedPipe ----------------------------
(* A small instance of NamedPipe: one client, messages of one or two       *)
(* parts, and buffers for one.                                             *)
EXTENDS NamedPipe

CONSTANTS one, plain, functor

OneClient == {one}
TwoFunctions == {plain, functor}
OneComparable == {plain}
=============================================================================
