--------------------------- MODULE MCDeviceQueue ---------------------------
(* Small instances of DeviceQueue for TLC. *)
EXTENDS DeviceQueue, TLC

CONSTANTS lo, hi, hj, w1, w2

(* lo is a High entry, hi and hj are Critical ones. *)
MCPrio == [e \in Entries |-> IF e = lo THEN 2 ELSE 3]

WorkerSymmetry == Permutations(Workers)
=============================================================================
