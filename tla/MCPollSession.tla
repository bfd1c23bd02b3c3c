--------------------------- MODULE MCPollSession ---------------------------
(* Instances of PollSession for TLC. *)
EXTENDS PollSession
MCReadCodes == {"connection_lost", "invalid_address"}
MCRetryable == {"connection_lost"}
MCWriteCodes == {"connection_failed", "timeout"}
\* Two groups contend for the session; two writes contend with one group.
CONSTANTS fast, slow
MCPlans == { [groups |-> {fast, slow}, writes |-> 0], [groups |-> {fast}, writes |-> 2] }
=============================================================================
