--------------------------- MODULE MCDataPipeline ---------------------------
(* Instances of DataPipeline for TLC. *)
EXTENDS DataPipeline
CONSTANTS d1, d2
MCEvents ==
    { [dev |-> d1, items |-> <<"ok", "ok">>],
      [dev |-> d1, items |-> <<"unknown", "ok">>],
      [dev |-> d2, items |-> <<"ok", "ok">>],
      [dev |-> d2, items |-> <<"ok", "domain_error">>] }
=============================================================================
