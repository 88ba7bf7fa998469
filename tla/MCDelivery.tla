----------------------------- MODULE MCDelivery -----------------------------
(* Small instances of Delivery for TLC. *)
EXTENDS Delivery, TLC

CONSTANTS m1, m2, r1, r2, d1, none

\* r1 and r2 ask for the same name.
MCName == [r \in Rooms |-> IF r = d1 THEN "lobby" ELSE "new"]
PartitionSymmetry == Permutations(Partitions)
=============================================================================
