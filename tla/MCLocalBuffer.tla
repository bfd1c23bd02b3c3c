--------------------------- MODULE MCLocalBuffer ---------------------------
(* Small instances of LocalBuffer for TLC. *)
EXTENDS LocalBuffer, TLC

CONSTANTS c1, c2, m1, m2, m3, m4

(* m4 takes the whole disk, any other message a unit of it. *)
MCCost == [m \in Msgs |-> IF m = m4 THEN DiskMaxBytes ELSE 1]

(* The small messages cost the same and no formula names them. *)
MessageSymmetry == Permutations({m1, m2, m3})
=============================================================================
