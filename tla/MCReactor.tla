----------------------------- MODULE MCReactor -----------------------------
(* Small instances of Reactor for TLC. *)
EXTENDS Reactor

CONSTANTS c1, w1, w2, g1, loop, none
=============================================================================
