-------------------------- MODULE MCControlJournal --------------------------
(* Small instances of ControlJournal for TLC. *)
EXTENDS ControlJournal

CONSTANTS k1, k2
=============================================================================
