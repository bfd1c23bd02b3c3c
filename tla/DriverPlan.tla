----------------------------- MODULE DriverPlan -----------------------------
(***************************************************************************)
(* What the protocol drivers under src/drivers/ have in common when they   *)
(* turn a batch of items into requests.  A device's memory is a function   *)
(* from cells (a register, a bit, a byte, a tag) to values; a value is a   *)
(* token, and distinct tokens stand for values that differ.  A wide item   *)
(* (U32, F64) owns a sequence of consecutive cells and has one token per   *)
(* cell.                                                                   *)
(*                                                                         *)
(* An item of a call is a record:                                          *)
(*   id     the number the result is tied to                               *)
(*   addr   the address, already split into its parts (a record)           *)
(*   type   the type the caller expects (read) or the type of the value    *)
(*   val    the tokens to be written, <<>> in a read                       *)
(*   tag    FALSE when the ABI tag of the type cannot be decoded           *)
(***************************************************************************)
EXTENDS Integers, Sequences, SequencesExt, FiniteSets, FiniteSetsExt, TLC

\* What a request that cannot be planned becomes, and what it becomes when it can:
\* the requests in the order they are sent and the items that failed already.
Refused(code) == [code |-> code, plans |-> <<>>, failed |-> {}]
Planned(plans, failed) == [code |-> "ok", plans |-> plans, failed |-> failed]

\* One item's entry of the answer.
Good(id, val) == [id |-> id, ok |-> TRUE, val |-> val, code |-> "ok"]
Bad(id, code) == [id |-> id, ok |-> FALSE, val |-> <<>>, code |-> code]

\* Entries in the order the driver's stable sort leaves them: by key (compared as
\* a sequence of numbers), then in the order of the call.
Less(a, b) == \E i \in DOMAIN a : a[i] < b[i] /\ \A j \in 1..(i - 1) : a[j] = b[j]
Listed(S) == FoldSet(LAMBDA x, s : Append(s, x), <<>>, S)
InOrder(entries) == SortSeq(Listed(entries),
    LAMBDA x, y : Less(x.key, y.key) \/ (x.key = y.key /\ x.id < y.id))

\* Cuts a sequence of entries into chunks: an entry joins the chunk before it when
\* Joins(chunk, entry) holds and opens a new one otherwise.
\* (Bound variables instead of a fold: TLC then evaluates each prefix once.)
Chunks(entries, Joins(_, _)) ==
    LET With(cs, e) == IF cs # <<>> /\ Joins(Last(cs), e)
                       THEN Append(Front(cs), Append(Last(cs), e)) ELSE Append(cs, <<e>>)
        Cut(es) == LET cut[n \in 0..Len(es)] ==
                         IF n = 0 THEN <<>>
                         ELSE CHOOSE r \in {With(cs, es[n]) : cs \in {cut[n - 1]}} : TRUE
                   IN cut[Len(es)]
    IN CHOOSE r \in {Cut(es) : es \in {entries}} : TRUE
\* One request per chunk.
PlansOf(entries, Joins(_, _), Plan(_)) ==
    CHOOSE r \in {[c \in DOMAIN cs |-> Plan(cs[c])] : cs \in {Chunks(entries, Joins)}} : TRUE

\* The tokens of the cells area+start .. area+start+n-1; a cell nobody ever set reads 0.
CellsAt(area, start, n) == [k \in 1..n |-> Append(area, start + k - 1)]
Load(mem, cells) == [k \in DOMAIN cells |-> IF cells[k] \in DOMAIN mem THEN mem[cells[k]] ELSE 0]
\* The tokens of cells no item has: what the answer to another request carries.
Elsewhere(n) == [k \in 1..n |-> 0]
Store(mem, cells, val) ==
    [c \in DOMAIN mem |->
        IF \E k \in DOMAIN cells : cells[k] = c
        THEN val[CHOOSE k \in DOMAIN cells : cells[k] = c] ELSE mem[c]]
Sum(s) == FoldLeft(LAMBDA n, x : n + x, 0, s)
=============================================================================
