--------------------------- MODULE BufferContract ---------------------------
(***************************************************************************)
(* What the callers of the local buffer rely on, without its thread, its   *)
(* channel, its window over the table and its bookkeeping: a table of      *)
(* messages in the order of their numbers, of which each row is with at    *)
(* most one caller at a time.  LocalBuffer implements it.                  *)
(***************************************************************************)
EXTENDS Integers
CONSTANTS Clients, Msgs
VARIABLES
    rows,       \* local_seq -> message, for the rows that are stored
    last,       \* the highest local_seq that was ever given out
    old,        \* rows past the retention time
    promised,   \* messages push has answered Ok for and that must be kept
    taken,      \* rows next has handed out
    held        \* of these, the ones each caller has received
vars == <<rows, last, old, promised, taken, held>>

Stored == {rows[s] : s \in DOMAIN rows}
Waiting == DOMAIN rows \ taken
Unclaimed(s) == s \in taken /\ \A c \in Clients : s \notin held[c]

Init ==
    /\ DOMAIN rows = {} /\ last = 0 /\ old = {} /\ promised = {} /\ taken = {}
    /\ held = [c \in Clients |-> {}]

\* A message is stored once, above every row there ever was.  Its caller may have
\* gone, and the time it waited for space counts.
Put(m) ==
    /\ m \notin Stored
    /\ last' = last + 1
    /\ rows' = [s \in DOMAIN rows \cup {last'} |-> IF s = last' THEN m ELSE rows[s]]
    /\ old' \in {old, old \cup {last'}}
    /\ promised' \in {promised, promised \cup {m}}
    /\ UNCHANGED <<taken, held>>

\* A push of a message that is stored is answered Ok and changes nothing.
PutAgain(m) ==
    /\ m \in Stored
    /\ promised' = promised \cup {m}
    /\ UNCHANGED <<rows, last, old, taken, held>>

\* The lowest row that is not out, for one caller, who may go away before it
\* receives it.
Take(s) ==
    /\ s \in Waiting /\ \A t \in Waiting : s <= t
    /\ taken' = taken \cup {s}
    /\ UNCHANGED <<rows, last, old, promised, held>>

Receive(c, s) ==
    /\ Unclaimed(s)
    /\ held' = [held EXCEPT ![c] = @ \cup {s}]
    /\ UNCHANGED <<rows, last, old, promised, taken>>

Retract(s) ==
    /\ Unclaimed(s)
    /\ taken' = taken \ {s}
    /\ UNCHANGED <<rows, last, old, promised, held>>

Delete(S) ==
    /\ rows' = [s \in DOMAIN rows \ S |-> rows[s]]
    /\ old' = old \ S
    /\ promised' = promised \ {rows[s] : s \in S}
    /\ UNCHANGED last

\* A caller settles what it has received.
Settle(c, s) ==
    /\ s \in held[c]
    /\ taken' = taken \ {s}
    /\ held' = [held EXCEPT ![c] = @ \ {s}]
Ack(c, s) == Settle(c, s) /\ Delete({s})
GiveBack(c, s) == Settle(c, s) /\ UNCHANGED <<rows, last, old, promised>>

\* Only what is old and not out expires.
Expire(S) == Delete(S) /\ UNCHANGED <<taken, held>>
Age(S) == old' = old \cup S /\ UNCHANGED <<rows, last, promised, taken, held>>

\* The end of the process: the rows stay, and what was out may be taken again.
Restart ==
    /\ taken' = {} /\ held' = [c \in Clients |-> {}]
    /\ UNCHANGED <<rows, last, old, promised>>

Next ==
    \/ \E m \in Msgs : Put(m) \/ PutAgain(m)
    \/ \E s \in DOMAIN rows : Take(s) \/ Retract(s)
    \/ \E c \in Clients, s \in DOMAIN rows : Receive(c, s) \/ Ack(c, s) \/ GiveBack(c, s)
    \/ \E S \in SUBSET (Waiting \cap old) : Expire(S)
    \/ \E S \in SUBSET DOMAIN rows : Age(S)
    \/ Restart

Spec == Init /\ [][Next]_vars
=============================================================================
