-------------------------- MODULE MCControlSubmit --------------------------
(* Small instances of ControlSubmit for TLC. *)
EXTENDS ControlSubmit

CONSTANTS s1, s2, s3

(* s3 submits another payload under the same key. *)
MCPayload == [s \in Submitters |-> IF s = s3 THEN "p2" ELSE "p1"]
=============================================================================
