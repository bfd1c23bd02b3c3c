--------------------------- MODULE ControlJournal ---------------------------
(***************************************************************************)
(* FileJournal of crates/control-engine: the append-only JSON-lines file   *)
(* behind the idempotency keys.  Every operation runs under one mutex, so  *)
(* each is one action; what interleaves with them is the clock, I/O errors *)
(* in the middle of a write, and the end of the process.                   *)
(***************************************************************************)
EXTENDS Integers, Sequences, FiniteSets, Functions

CONSTANTS
    Keys, Hashes, Results,
    None,
    Retention,        \* idempotency_retention, in ticks
    MaxTime,          \* bound: the last tick
    MaxLines,         \* bound: lines written between two compactions
    MaxFaults,        \* bound: failed writes and failed compactions
    MaxReopenFaults   \* bound: compactions whose last step, the reopen, fails

ASSUME JournalAssumption ==
    /\ Retention \in Nat /\ MaxTime \in Nat /\ MaxLines \in Nat
    /\ MaxFaults \in Nat /\ MaxReopenFaults \in Nat
    /\ "Running" \notin Results /\ "None" \notin Results /\ "Indeterminate" \in Results
    /\ IsFiniteSet(Keys)

VARIABLES
    file,       \* the lines of the file at path
    attached,   \* inner.file is that file (not one a rename has unlinked)
    mem,        \* inner.entries
    state,      \* "up", "down", "opening", or "corrupt": open returned Corrupt
    replay,     \* the local variables of open, and the line it is at
    now,        \* the wall clock
    acked,      \* the last state of each key that was confirmed (history)
    tried,      \* results whose settlement failed after that (history)
    mine,       \* keys inserted by this process (history)
    adrift,     \* keys confirmed since inner.file was unlinked (history)
    faults, reopenFaults

fileVars == <<file, attached>>
historyVars == <<acked, tried, mine>>
vars == <<file, attached, mem, state, replay, now, acked, tried, mine, adrift, faults,
          reopenFaults>>

-----------------------------------------------------------------------------
Statuses == Results \cup {"Running"}

Rec(h, x, st) == [hash |-> h, expires |-> x, status |-> st]
NoRec == Rec(None, 0, "None")

(* A line of the file; ended is FALSE when its newline was not written.     *)
Line(t, k, r) == [tag |-> t, key |-> k, rec |-> r, ended |-> TRUE]
InsertLine(k, r) == Line("Insert", k, r)
SettleLine(k, st) == Line("Settle", k, Rec(None, 0, st))
Torn == Line("Torn", None, NoRec)
Unended(l) == [l EXCEPT !.ended = FALSE]

(* entries, expired_keys and need_compact before the first line.            *)
NoReplay ==
    [next |-> 1, entries |-> [k \in Keys |-> NoRec], expired |-> {}, compact |-> FALSE]

Init ==
    /\ file = <<>> /\ attached = TRUE
    /\ mem = [k \in Keys |-> NoRec]
    /\ state = "up" /\ replay = NoReplay
    /\ now = 0
    /\ acked = [k \in Keys |-> NoRec] /\ tried = [k \in Keys |-> {}] /\ mine = {}
    /\ adrift = {}
    /\ faults = 0 /\ reopenFaults = 0

-----------------------------------------------------------------------------
(* write_record *)

(* A line that follows one without newline is glued to it.                  *)
Appended(f, l) ==
    IF f # <<>> /\ ~f[Len(f)].ended
    THEN [f EXCEPT ![Len(f)] = [Torn EXCEPT !.ended = l.ended]]
    ELSE Append(f, l)

(* Room for one more line.                                                  *)
Room == Len(file) < MaxLines

Write(l) ==
    /\ Room
    /\ file' = IF attached THEN Appended(file, l) ELSE file
    /\ UNCHANGED <<attached, faults, reopenFaults>>

(* The caller is told, although the line may be in a file without a name.   *)
Confirm(k) == adrift' = IF attached THEN adrift ELSE adrift \cup {k}

(* write_all, flush or sync_all fails: nothing, a part, the line without    *)
(* its newline, or the whole line is in the file.                           *)
WriteFails(l) ==
    /\ Room
    /\ faults < MaxFaults /\ faults' = faults + 1
    /\ file' \in IF attached
                 THEN {file} \cup {Appended(file, x) : x \in {Unended(Torn), Unended(l), l}}
                 ELSE {file}
    /\ UNCHANGED <<attached, adrift, reopenFaults>>

-----------------------------------------------------------------------------
(* try_insert, settle *)

Live(k) == mem[k] # NoRec /\ mem[k].expires >= now

Deadline(t) == t + Retention

New(h) == Rec(h, Deadline(now), "Running")

(* No live record: the line is durable before memory and caller see it.     *)
TryInsert(k, h) ==
    /\ state = "up" /\ ~Live(k)
    /\ Write(InsertLine(k, New(h))) /\ Confirm(k)
    /\ mem' = [mem EXCEPT ![k] = New(h)]
    /\ acked' = [acked EXCEPT ![k] = New(h)]
    /\ tried' = [tried EXCEPT ![k] = {}]
    /\ mine' = mine \cup {k}
    /\ UNCHANGED <<state, replay, now>>

TryInsertFails(k, h) ==
    /\ state = "up" /\ ~Live(k)
    /\ WriteFails(InsertLine(k, New(h)))
    /\ UNCHANGED <<mem, state, replay, now, historyVars>>

(* A key that is not in memory is settled by doing nothing: not an action.  *)
Settle(k, r) ==
    /\ state = "up" /\ mem[k] # NoRec
    /\ Write(SettleLine(k, r)) /\ Confirm(k)
    /\ mem' = [mem EXCEPT ![k].status = r]
    /\ acked' = [acked EXCEPT ![k] = mem'[k]]
    /\ tried' = [tried EXCEPT ![k] = {}]
    /\ UNCHANGED <<state, replay, now, mine>>

(* Memory keeps the old status when the write fails.                        *)
SettleFails(k, r) ==
    /\ state = "up" /\ mem[k] # NoRec
    /\ WriteFails(SettleLine(k, r))
    /\ tried' = [tried EXCEPT ![k] = @ \cup {r}]
    /\ UNCHANGED <<mem, state, replay, now, acked, mine>>

-----------------------------------------------------------------------------
(* compact, purge_expired *)

(* The lines compact writes for the entries e: an Insert for each live one, *)
(* and directly after it the Settle of one that has a result.               *)
Kept(e) == {k \in Keys : e[k] # NoRec /\ e[k].expires >= now}
Parts(e) ==
    {<<"Insert", k>> : k \in Kept(e)} \cup
    {<<"Settle", k>> : k \in {x \in Kept(e) : e[x].status # "Running"}}

PartLine(e, p) ==
    IF p[1] = "Insert" THEN InsertLine(p[2], e[p[2]]) ELSE SettleLine(p[2], e[p[2]].status)

(* f is such a file.  The keys come in the order of a HashMap: any.         *)
Compacted(e, f) ==
    \E order \in Bijection(1 .. Cardinality(Parts(e)), Parts(e)) :
        /\ \A i \in DOMAIN order : order[i][1] = "Settle" =>
               i > 1 /\ order[i - 1] = <<"Insert", order[i][2]>>
        /\ f = [i \in DOMAIN order |-> PartLine(e, order[i])]

(* Temporary file, rename, reopen.  The rename makes the old handle point   *)
(* at a file without a name.                                                *)
CompactOk(e) ==
    /\ Compacted(e, file') /\ attached' = TRUE /\ adrift' = {}
    /\ UNCHANGED <<faults, reopenFaults>>

CompactFails(e) ==
    \/ /\ faults < MaxFaults /\ faults' = faults + 1
       /\ UNCHANGED <<fileVars, adrift, reopenFaults>>
    \/ /\ reopenFaults < MaxReopenFaults /\ reopenFaults' = reopenFaults + 1
       /\ Compacted(e, file') /\ attached' = FALSE /\ adrift' = {}
       /\ UNCHANGED faults

(* entries.retain *)
Retained(e) ==
    [k \in Keys |-> IF e[k].expires >= now THEN e[k] ELSE NoRec]

(* purge_expired ignores a failed compaction.  It releases the mutex before *)
(* compact takes it again; what is inserted or settled in between is in     *)
(* memory, so the file compact writes is the one written with that          *)
(* operation after it.                                                      *)
PurgeExpired ==
    /\ state = "up"
    /\ mem' = Retained(mem)
    /\ mem' # mem
    /\ CompactOk(mem') \/ CompactFails(mem')
    /\ UNCHANGED <<state, replay, now, historyVars>>

-----------------------------------------------------------------------------
(* open *)

(* Open reads the file line by line.  It compares with the one now_ns it    *)
(* was called with, so the clock stands still while it runs (Tick).         *)
OpenStart ==
    /\ state = "down"
    /\ state' = "opening" /\ replay' = NoReplay
    /\ UNCHANGED <<fileVars, mem, now, historyVars, adrift, faults, reopenFaults>>

(* The line open is at, and its kind.                                       *)
Current == file[replay.next]
Reading(tag) == state = "opening" /\ replay.next <= Len(file) /\ Current.tag = tag

(* On to the line after it, with these locals.                              *)
Read(entries, expired, compact) ==
    /\ replay' = [next |-> replay.next + 1,
                  entries |-> entries, expired |-> expired, compact |-> compact]
    /\ UNCHANGED <<fileVars, mem, state, now, historyVars, adrift, faults, reopenFaults>>

Corrupt ==
    /\ state' = "corrupt" /\ replay' = NoReplay
    /\ UNCHANGED <<fileVars, mem, now, historyVars, adrift, faults, reopenFaults>>

(* Mutant of ReplayTorn: a line that cannot be parsed is skipped. *)
ReplayTornSkipped ==
    /\ Reading("Torn")
    /\ Read(replay.entries, replay.expired, replay.compact)

(* A line that cannot be parsed.                                            *)
ReplayTorn ==
    /\ Reading("Torn")
    /\ Corrupt

ReplayExpired ==
    /\ Reading("Insert") /\ Current.rec.expires < now
    /\ Read(replay.entries, replay.expired \cup {Current.key}, TRUE)

ReplayInsert ==
    /\ Reading("Insert") /\ Current.rec.expires >= now
    /\ Read([replay.entries EXCEPT ![Current.key] = Current.rec], replay.expired, replay.compact)

ReplaySettle ==
    /\ Reading("Settle") /\ replay.entries[Current.key] # NoRec
    /\ Read([replay.entries EXCEPT ![Current.key].status = Current.rec.status],
            replay.expired, replay.compact)

(* The result of an expired record goes with it; without one, the Settle is *)
(* an orphan.                                                               *)
ReplaySettleExpired ==
    /\ Reading("Settle") /\ replay.entries[Current.key] = NoRec
    /\ Current.key \in replay.expired
    /\ Read(replay.entries, replay.expired \ {Current.key}, replay.compact)

ReplayOrphan ==
    /\ Reading("Settle") /\ replay.entries[Current.key] = NoRec
    /\ Current.key \notin replay.expired
    /\ Corrupt

(* A record without result becomes Indeterminate, in memory only.           *)
Recovered(e) ==
    [k \in Keys |-> IF e[k].status = "Running" THEN [e[k] EXCEPT !.status = "Indeterminate"]
                    ELSE e[k]]

AllRead == state = "opening" /\ replay.next > Len(file)

OpenOk ==
    /\ AllRead
    /\ mem' = Recovered(replay.entries)
    /\ IF replay.compact
       THEN CompactOk(mem')
       ELSE attached' = TRUE /\ UNCHANGED <<file, adrift, faults, reopenFaults>>
    /\ state' = "up" /\ replay' = NoReplay
    /\ mine' = {}
    /\ UNCHANGED <<now, acked, tried>>

(* The compaction at the end of open fails, and open with it.               *)
OpenFails ==
    /\ AllRead /\ replay.compact
    /\ CompactFails(Recovered(replay.entries))
    /\ state' = "down" /\ replay' = NoReplay
    /\ UNCHANGED <<mem, now, historyVars>>

(* Also a read of open that fails.  What was confirmed into the unlinked    *)
(* file is gone; nothing more is claimed of it.                             *)
Crash ==
    /\ state \in {"up", "opening"}
    /\ state' = "down" /\ replay' = NoReplay
    /\ mem' = [k \in Keys |-> NoRec]
    /\ acked' = [k \in Keys |-> IF k \in adrift THEN NoRec ELSE acked[k]]
    /\ adrift' = {}
    /\ UNCHANGED <<fileVars, now, tried, mine, faults, reopenFaults>>

Tick ==
    /\ state # "opening"
    /\ now < MaxTime
    /\ now' = now + 1
    /\ UNCHANGED <<fileVars, mem, state, replay, historyVars, adrift, faults, reopenFaults>>

Replay ==
    \/ ReplayTorn
    \/ ReplayExpired \/ ReplayInsert
    \/ ReplaySettle \/ ReplaySettleExpired \/ ReplayOrphan

Next ==
    \/ \E k \in Keys, h \in Hashes : TryInsert(k, h) \/ TryInsertFails(k, h)
    \/ \E k \in Keys, r \in Results : Settle(k, r) \/ SettleFails(k, r)
    \/ PurgeExpired
    \/ OpenStart \/ Replay \/ OpenOk \/ OpenFails
    \/ Crash
    \/ Tick

Spec == Init /\ [][Next]_vars

-----------------------------------------------------------------------------
(* Properties *)

Recs == {NoRec} \cup [hash : Hashes, expires : 0 .. Deadline(MaxTime), status : Statuses]

TypeOK ==
    /\ mem \in [Keys -> Recs] /\ acked \in [Keys -> Recs]
    /\ \A k \in Keys : acked[k].expires <= MaxTime + Retention
    /\ \A i \in DOMAIN file : file[i].tag \in {"Insert", "Settle", "Torn"}
    /\ attached \in BOOLEAN
    /\ state \in {"up", "down", "opening", "corrupt"}
    /\ now \in 0 .. MaxTime
    /\ tried \in [Keys -> SUBSET Results] /\ mine \subseteq Keys /\ adrift \subseteq Keys

(* What was confirmed survives until it expires, whatever was torn, failed, *)
(* compacted or restarted in between: a journal that opens at all still     *)
(* knows the key, its payload and its result.  A result whose write failed  *)
(* may turn up instead, and an unsettled record may be Indeterminate.  Not  *)
(* claimed is what was confirmed after a compaction could not reopen its    *)
(* file, if the process ended before the next compaction (Crash): it was    *)
(* appended to the file that the rename unlinked.                           *)
AckedSurvive ==
    state = "up" =>
        \A k \in Keys : acked[k] # NoRec /\ acked[k].expires >= now =>
            /\ mem[k].hash = acked[k].hash
            /\ mem[k].expires = acked[k].expires
            /\ mem[k].status \in tried[k] \cup
                   IF acked[k].status = "Running" THEN {"Running", "Indeterminate"}
                   ELSE {acked[k].status}

(* A record is Running only in the process that inserted it: after a        *)
(* restart no request looks as if it were still being executed.             *)
RunningIsMine ==
    \A k \in Keys : mem[k].status = "Running" => k \in mine

(* Only a line that was torn, or a record settled twice (WholeFileOpens),   *)
(* keeps the journal from opening.                                          *)
OpensAgain ==
    state = "corrupt" =>
        \E i, j \in DOMAIN file :
            \/ file[i].tag = "Torn"
            \/ i # j /\ file[i].tag = "Settle" /\ file[j].tag = "Settle" /\ file[i].key = file[j].key

(* What replay must give back, whatever happened to the file before it:     *)
(* every confirmed record, none that looks as if it were still running, and *)
(* an answer at all (FileJournal::open).                                    *)
RecordsHold == AckedSurvive /\ RunningIsMine /\ OpensAgain

(* Does not hold (README, Findings).                                        *)
(* "Must not be mistaken for an orphan Settle": a file whose lines are all  *)
(* whole opens (FileJournal::open; ControlJournal::settle may be repeated). *)
WholeFileOpens ==
    state = "corrupt" => \E i \in DOMAIN file : file[i].tag = "Torn"
=============================================================================
