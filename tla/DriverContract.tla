--------------------------- MODULE DriverContract ---------------------------
(***************************************************************************)
(* What a caller of a protocol driver may rely on, whatever the protocol:  *)
(* the contract behind the answers PollSession and the control path act    *)
(* on.  The device's memory is shared with the process it controls (Drift) *)
(* and is written by nobody else than the items of a call, during the call *)
(* or, when the call ended without knowing the outcome, later.             *)
(*                                                                         *)
(* The codes of NotSentCodes are the ones src/crates/device-manager/src/   *)
(* control_exec.rs takes as proof that nothing was written.                *)
(***************************************************************************)
EXTENDS Integers, Sequences, FiniteSets
CONSTANTS
    NotSentCodes,   \* NOT_SENT_CODES of control_exec.rs
    RefusalCodes,   \* codes with which a device declines one item
    FieldValues     \* values the process itself puts into cells
VARIABLES
    mem,      \* cell -> value
    kind,     \* what the call in progress does, "none" between two calls
    items,    \* its items, each [id, cells, val]
    loose,    \* the items of whose value read no promise is made
    acted,    \* items of the call that were written
    seen,     \* the memories there were since the call began
    owed,     \* items of ended calls that may still be written
    report    \* the answer of the last call: [whole, code, results]
call == <<kind, items, loose>>
vars == <<mem, call, acted, seen, owed, report>>

NoReport == [whole |-> FALSE, code |-> "none", results |-> {}]
ValueIn(m, cells) == [k \in DOMAIN cells |-> m[cells[k]]]
Witnessed == seen' = IF kind = "none" THEN seen ELSE seen \cup {mem'}

\* The items of S are written and nothing else is.
Written(S, c) == {i.val[k] : <<i, k>> \in
                    UNION {{<<j, l>> : l \in {n \in DOMAIN j.cells : j.cells[n] = c}} : j \in S}}
Performs(S) ==
    /\ DOMAIN mem' = DOMAIN mem
    /\ \A c \in DOMAIN mem : IF Written(S, c) = {} THEN mem'[c] = mem[c] ELSE mem'[c] \in Written(S, c)

\* What the answer r promises: a value that was read is the whole value of the item
\* at one instant of the call, unless the item is loose; what is reported written was written; what failed
\* with a code that says so was not written and never will be.
Untouched(i) == i \notin acted /\ i \notin owed'
Honest(r) ==
    IF r.whole
    THEN r.code \in NotSentCodes => \A i \in items : Untouched(i)
    ELSE /\ {x.id : x \in r.results} = {i.id : i \in items}
         /\ Cardinality(r.results) = Cardinality(items)
         /\ \A x \in r.results, i \in items : x.id = i.id =>
              /\ x.ok /\ kind = "read" /\ x.id \notin loose => \E m \in seen : x.val = ValueIn(m, i.cells)
              /\ x.ok /\ kind = "write" => i \in acted
              /\ ~x.ok /\ x.code \in NotSentCodes \cup RefusalCodes => Untouched(i)

Init ==
    /\ kind = "none" /\ items = {} /\ loose = {} /\ acted = {} /\ seen = {} /\ owed = {} /\ report = NoReport
    /\ \A c \in DOMAIN mem : mem[c] \in FieldValues
Begin ==
    /\ kind = "none" /\ kind' # "none"
    /\ acted' = {} /\ seen' = {mem} /\ report' = NoReport
    /\ UNCHANGED <<mem, owed>>
Drift ==
    /\ DOMAIN mem' = DOMAIN mem
    /\ \A c \in DOMAIN mem : mem'[c] \in FieldValues
    /\ Witnessed
    /\ UNCHANGED <<call, acted, owed, report>>
Act ==
    /\ kind = "write"
    /\ acted \subseteq acted' /\ acted' \subseteq items /\ Performs(acted' \ acted)
    /\ Witnessed
    /\ UNCHANGED <<call, owed, report>>
ActLate ==
    /\ owed' \subseteq owed /\ Performs(owed \ owed')
    /\ Witnessed
    /\ UNCHANGED <<call, acted, report>>
End ==
    /\ kind # "none" /\ kind' = "none" /\ items' = {} /\ loose' = {}
    /\ owed' \subseteq owed \cup (IF kind = "write" THEN items ELSE {})
    /\ Honest(report')
    /\ UNCHANGED <<mem, acted, seen>>
Next == Begin \/ Drift \/ Act \/ ActLate \/ End
Spec == Init /\ [][Next]_vars
\* Every call returns: no device can hold the thread that serves the handle.
Returns == (kind # "none") ~> (kind = "none")
=============================================================================
