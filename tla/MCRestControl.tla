--------------------------- MODULE MCRestControl ---------------------------
(* Instances of RestControl for TLC. *)
EXTENDS RestControl, TLC

(* An operator, an engineer and somebody who may only read. *)
MCCredentials ==
    <<[token |-> "t1", subject |-> "olga", role |-> "Operator"],
      [token |-> "t2", subject |-> "emil", role |-> "Engineer"],
      [token |-> "t3", subject |-> "vera", role |-> "Viewer"]>>

MCCatalog == [d1 |-> "enabled", d2 |-> "enabled"]
MCCommandRisk == [reset |-> "High"]
MCPolicy == [retentionHours |-> 24, queueCapacity |-> 64, writeTimeout |-> 5000,
             commandTimeout |-> [Low |-> 5000, High |-> 15000],
             preconditionTimeout |-> 1000, maxRequestAge |-> 60000, auditTimeout |-> 1000]

Submit(token, device, id, op, hash, valid) ==
    [kind |-> "submit", token |-> token, device |-> device, id |-> id, op |-> op,
     hash |-> hash, valid |-> valid, path |-> TRUE]

Other(kind, token, device, path) ==
    [kind |-> kind, token |-> token, device |-> device, id |-> "x", path |-> path]

(* A key that two roles ask for and a third with another payload, the same  *)
(* id on another device with a value the engine refuses, and a request that *)
(* cannot be parsed.                                                        *)
MCRequests ==
    {Submit("t1", "d1", "x", "write", "h1", TRUE),
     Submit("t3", "d1", "x", "write", "h1", TRUE),
     Submit("t2", "d1", "x", "reset", "h3", TRUE),
     Submit("t1", "d2", "x", "write", "h4", FALSE),
     Submit("t1", "d1", "x", "malformed", "h1", TRUE),
     Other("status", "t1", "d1", TRUE)}

CallSymmetry == Permutations(Calls)
=============================================================================
