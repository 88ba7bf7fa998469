------------------------------ MODULE MCComet ------------------------------
(* Small instances of Comet for TLC. *)
EXTENDS Comet, TLC

CONSTANTS c1, c2, u1, u2, r1, r2, p1, p2, w1, w2, none

MCConns == {c1, c2}
MCUsers == {u1, u2}
MCRpcs == {p1, p2}

RpcSymmetry == Permutations(MCConns) \cup Permutations(MCRpcs)
=============================================================================
