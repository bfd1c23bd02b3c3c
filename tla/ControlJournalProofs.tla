------------------------ MODULE ControlJournalProofs ------------------------
(***************************************************************************)
(* Proofs about ControlJournal, for every set of keys, payloads and        *)
(* results, every retention and every number of lines and faults: what was *)
(* confirmed is found again after a restart (RecordsHold).  The argument   *)
(* compares three things with the lines of the file: what was confirmed,   *)
(* the memory of the running process, and, while open reads the file, the  *)
(* entries it has rebuilt so far.                                          *)
(***************************************************************************)
EXTENDS ControlJournal, FiniteSetTheorems, SequenceTheorems, TLAPS

-----------------------------------------------------------------------------
(* The inductive invariant *)

Real == [hash : Hashes, expires : 0 .. Deadline(MaxTime), status : Statuses]

LineSet ==
    [tag : {"Insert", "Settle", "Torn"}, key : Keys \cup {None},
     rec : [hash : Hashes \cup {None}, expires : Nat, status : Statuses \cup {"None"}],
     ended : BOOLEAN]

(* What a line says, by its kind.                                           *)
Sensible(l) ==
    /\ l.tag = "Insert" => l.key \in Keys /\ l.rec \in Real
    /\ l.tag = "Settle" => l.key \in Keys /\ l.rec.status \in Results

GoodFile(f) == f \in Seq(LineSet) /\ \A i \in 1 .. Len(f) : Sensible(f[i])

TypeInv ==
    /\ TypeOK
    /\ GoodFile(file)
    /\ replay.next \in Nat \ {0}
    /\ replay.entries \in [Keys -> Recs]
    /\ replay.expired \subseteq Keys
    /\ faults \in Nat /\ reopenFaults \in Nat

HasTorn(f) == \E i \in 1 .. Len(f) : f[i].tag = "Torn"
Inserts(f, k, i) == f[i].tag = "Insert" /\ f[i].key = k
Settles(f, k, i) == f[i].tag = "Settle" /\ f[i].key = k

(* Of the lines before p, i is an Insert of k and none after it is one that *)
(* is still live at t.                                                      *)
LastLive(f, p, k, t, i) ==
    /\ i < p /\ Inserts(f, k, i)
    /\ \A m \in 1 .. Len(f) : i < m /\ m < p /\ Inserts(f, k, m) => f[m].rec.expires < t

(* Of the lines before p, j has the status of the record inserted at i: its *)
(* last Settle, or the Insert itself.                                       *)
LastSays(f, p, k, i, j) ==
    /\ i <= j /\ j < p
    /\ j = i \/ Settles(f, k, j)
    /\ \A m \in 1 .. Len(f) : j < m /\ m < p => ~Settles(f, k, m)

(* The lines before p give k this payload and expiry and a status of A.     *)
Tells(f, p, k, t, h, x, A) ==
    \E i, j \in 1 .. Len(f) :
        /\ LastLive(f, p, k, t, i) /\ LastSays(f, p, k, i, j)
        /\ f[i].rec.hash = h /\ f[i].rec.expires = x
        /\ f[j].rec.status \in A

(* The statuses a restart may find for a confirmed record a, after the      *)
(* settlements T failed.                                                    *)
AllowedBy(T, a) ==
    T \cup IF a.status = "Running" THEN {"Running", "Indeterminate"} ELSE {a.status}
Allowed(k) == AllowedBy(tried[k], acked[k])

(* A confirmed record that has not expired is in the file, unless a torn    *)
(* line keeps the file from opening or its line went to the unlinked file.  *)
AckKept ==
    ~HasTorn(file) =>
        \A k \in Keys \ adrift : acked[k] # NoRec /\ acked[k].expires >= now =>
            Tells(file, Len(file) + 1, k, now, acked[k].hash, acked[k].expires, Allowed(k))

(* So is a record in memory: a settlement of it confirms the Insert too.    *)
MemKept ==
    state = "up" /\ attached /\ ~HasTorn(file) =>
        \A k \in Keys : Live(k) =>
            Tells(file, Len(file) + 1, k, now, mem[k].hash, mem[k].expires, Statuses)

(* Expired or not, what memory knows has an Insert, so its Settle is no     *)
(* orphan.                                                                  *)
InFile ==
    state = "up" /\ attached /\ ~HasTorn(file) =>
        \A k \in Keys : mem[k] # NoRec => \E i \in 1 .. Len(file) : Inserts(file, k, i)

NoOrphanIn(f) ==
    \A i \in 1 .. Len(f) : f[i].tag = "Settle" =>
        \E m \in 1 .. Len(f) : m < i /\ Inserts(f, f[i].key, m)
NoOrphan == ~HasTorn(file) => NoOrphanIn(file)

(* Only a running process writes to an unlinked file.                       *)
AdriftInv == adrift # {} => state = "up" /\ ~attached

FileInv == AckKept /\ MemKept /\ InFile /\ NoOrphan /\ AdriftInv

(* The entries are what the lines read so far tell; of a key that is        *)
(* neither an entry nor expired, open read nothing or a Settle.             *)
EntriesTrue ==
    \A k \in Keys :
        IF replay.entries[k] # NoRec
        THEN /\ replay.entries[k].expires >= now
             /\ Tells(file, replay.next, k, now, replay.entries[k].hash,
                      replay.entries[k].expires, {replay.entries[k].status})
        ELSE \A i \in 1 .. Len(file) :
                 i < replay.next /\ Inserts(file, k, i) => file[i].rec.expires < now

ExpiredTrue ==
    \A k \in Keys : replay.entries[k] = NoRec /\ k \notin replay.expired =>
        \/ \A i \in 1 .. Len(file) : i < replay.next => ~Inserts(file, k, i)
        \/ \E i \in 1 .. Len(file) : i < replay.next /\ Settles(file, k, i)

ReplayInv ==
    state = "opening" =>
        /\ replay.next <= Len(file) + 1
        /\ \A i \in 1 .. Len(file) : i < replay.next => file[i].tag # "Torn"
        /\ EntriesTrue /\ ExpiredTrue

IInv == TypeInv /\ FileInv /\ ReplayInv /\ RecordsHold

-----------------------------------------------------------------------------
(* Records and lines *)

(* A record has a payload, an expiry and a status; only NoRec has none.     *)
LEMMA RecFacts ==
    ASSUME NEW r \in Recs
    PROVE  /\ r.expires \in Nat /\ r.expires <= MaxTime + Retention
           /\ r.hash \in Hashes \cup {None} /\ r.status \in Statuses \cup {"None"}
           /\ r = [hash |-> r.hash, expires |-> r.expires, status |-> r.status]
           /\ r # NoRec => r \in Real /\ r.status \in Statuses
           /\ r \in Real => r # NoRec /\ r.status \in Statuses
           /\ r.status \in Statuses => r # NoRec
           /\ r.status = "Running" => r # NoRec
<1>1. "None" \notin Statuses /\ MaxTime \in Nat /\ Retention \in Nat /\ "Running" \in Statuses
  BY JournalAssumption DEF Statuses
<1>2. CASE r = NoRec
  BY <1>1, <1>2 DEF NoRec, Rec, Real, Statuses
<1>3. CASE r \in Real
  BY <1>1, <1>3 DEF NoRec, Rec, Real, Deadline
<1> QED
  BY <1>2, <1>3 DEF Recs, Real

(* Real records are records.                                                *)
LEMMA RealIsRec == ASSUME NEW r \in Real PROVE r \in Recs /\ r # NoRec
<1>1. r \in Recs
  BY DEF Recs, Real
<1> QED
  BY <1>1, RecFacts

(* A record keeps its kind with another status.                             *)
LEMMA WithStatus ==
    ASSUME NEW r \in Recs, r # NoRec, NEW st \in Statuses
    PROVE  /\ [r EXCEPT !.status = st] \in Real
           /\ [r EXCEPT !.status = st].hash = r.hash
           /\ [r EXCEPT !.status = st].expires = r.expires
           /\ [r EXCEPT !.status = st].status = st
<1>1. r \in Real
  BY RecFacts
<1> QED
  BY <1>1 DEF Real

(* The kinds of lines that are written.                                     *)
LEMMA LineTypes ==
    /\ \A k \in Keys, r \in Real :
           /\ InsertLine(k, r) \in LineSet /\ Sensible(InsertLine(k, r))
           /\ InsertLine(k, r).tag = "Insert" /\ InsertLine(k, r).key = k
           /\ InsertLine(k, r).rec = r /\ InsertLine(k, r).ended
    /\ \A k \in Keys, st \in Results :
           /\ SettleLine(k, st) \in LineSet /\ Sensible(SettleLine(k, st))
           /\ SettleLine(k, st).tag = "Settle" /\ SettleLine(k, st).key = k
           /\ SettleLine(k, st).rec.status = st /\ SettleLine(k, st).ended
    /\ Torn \in LineSet /\ Torn.tag = "Torn"
<1>1. ASSUME NEW k \in Keys, NEW r \in Real
      PROVE  /\ InsertLine(k, r) \in LineSet /\ Sensible(InsertLine(k, r))
             /\ InsertLine(k, r).tag = "Insert" /\ InsertLine(k, r).key = k
             /\ InsertLine(k, r).rec = r /\ InsertLine(k, r).ended
  <2>1. r \in [hash : Hashes \cup {None}, expires : Nat, status : Statuses \cup {"None"}]
    <3>1. 0 .. Deadline(MaxTime) \subseteq Nat
      BY JournalAssumption DEF Deadline
    <3> QED
      BY <3>1 DEF Real
  <2> QED
    BY <2>1 DEF InsertLine, Line, LineSet, Sensible
<1>2. ASSUME NEW k \in Keys, NEW st \in Results
      PROVE  /\ SettleLine(k, st) \in LineSet /\ Sensible(SettleLine(k, st))
             /\ SettleLine(k, st).tag = "Settle" /\ SettleLine(k, st).key = k
             /\ SettleLine(k, st).rec.status = st /\ SettleLine(k, st).ended
  BY DEF SettleLine, Line, Rec, LineSet, Sensible, Statuses
<1>3. Torn \in LineSet /\ Torn.tag = "Torn"
  BY DEF Torn, Line, NoRec, Rec, LineSet
<1> QED
  BY <1>1, <1>2, <1>3

(* The elements of a sequence, and the sequence with one more.              *)
LEMMA AppendFacts ==
    ASSUME NEW S, NEW f \in Seq(S), NEW x \in S
    PROVE  /\ Append(f, x) \in Seq(S) /\ Len(f) \in Nat
           /\ Len(Append(f, x)) = Len(f) + 1
           /\ \A i \in 1 .. Len(f) : Append(f, x)[i] = f[i] /\ f[i] \in S
           /\ Append(f, x)[Len(f) + 1] = x
<1>1. Len(f) \in Nat /\ \A i \in 1 .. Len(f) : f[i] \in S
  BY ElementOfSeq
<1> QED
  BY <1>1, AppendProperties

-----------------------------------------------------------------------------
(* Writing a line *)

(* g is f with the line l at its end, ended or not.                         *)
Added(f, g, l) ==
    \E x \in LineSet : g = Append(f, x) /\ x.tag = l.tag /\ x.key = l.key /\ x.rec = l.rec

(* A line that is glued to another leaves a torn one.                       *)
LEMMA AppendedFacts ==
    ASSUME NEW f, GoodFile(f), NEW x \in LineSet, Sensible(x)
    PROVE  /\ GoodFile(Appended(f, x))
           /\ HasTorn(Appended(f, x)) \/ Appended(f, x) = Append(f, x)
           /\ HasTorn(f) \/ x.tag = "Torn" => HasTorn(Appended(f, x))
<1> DEFINE g == Appended(f, x)
<1>1. f \in Seq(LineSet) /\ Len(f) \in Nat /\ \A i \in 1 .. Len(f) : f[i] \in LineSet /\ Sensible(f[i])
  BY ElementOfSeq DEF GoodFile
<1>2. CASE f # <<>> /\ ~f[Len(f)].ended
  <2> DEFINE y == [Torn EXCEPT !.ended = x.ended]
  <2>1. y \in LineSet /\ y.tag = "Torn" /\ Sensible(y)
    BY LineTypes DEF LineSet, Sensible
  <2>2. g = [f EXCEPT ![Len(f)] = y]
    BY <1>2 DEF Appended
  <2>3. Len(f) \in 1 .. Len(f)
    BY <1>1, <1>2, EmptySeq
  <2> HIDE DEF y, g
  <2>4. g \in Seq(LineSet) /\ Len(g) = Len(f) /\ g[Len(f)] = y
        /\ \A i \in 1 .. Len(f) : i # Len(f) => g[i] = f[i]
    BY <1>1, <2>1, <2>2, <2>3, ExceptSeq
  <2>5. GoodFile(g) /\ HasTorn(g)
    BY <1>1, <2>1, <2>3, <2>4 DEF GoodFile, HasTorn
  <2> QED
    BY <2>5 DEF g
<1>3. CASE ~(f # <<>> /\ ~f[Len(f)].ended)
  <2>1. g = Append(f, x)
    BY <1>3 DEF Appended
  <2>2. /\ g \in Seq(LineSet) /\ Len(g) = Len(f) + 1 /\ g[Len(f) + 1] = x
        /\ \A i \in 1 .. Len(f) : g[i] = f[i]
    BY <1>1, <2>1, AppendFacts
  <2> HIDE DEF g
  <2>3. \A i \in 1 .. Len(g) : i \in 1 .. Len(f) \/ i = Len(f) + 1
    BY <1>1, <2>2
  <2>4. \A i \in 1 .. Len(f) : i \in 1 .. Len(g)
    BY <1>1, <2>2
  <2>5. Len(f) + 1 \in 1 .. Len(g)
    BY <1>1, <2>2
  <2>6. GoodFile(g)
    BY <1>1, <2>2, <2>3 DEF GoodFile
  <2>7. HasTorn(f) \/ x.tag = "Torn" => HasTorn(g)
    BY <2>2, <2>4, <2>5 DEF HasTorn
  <2> QED
    BY <2>1, <2>6, <2>7 DEF g
<1> QED
  BY <1>2, <1>3

(* The same line without its newline.                                       *)
LEMMA UnendedFacts ==
    ASSUME NEW l \in LineSet, Sensible(l)
    PROVE  /\ Unended(l) \in LineSet /\ Sensible(Unended(l))
           /\ Unended(l).tag = l.tag /\ Unended(l).key = l.key /\ Unended(l).rec = l.rec
BY DEF Unended, LineSet, Sensible

(* What a write does to the file: nothing, one more line, or a torn one.    *)
Grown(f, g, l) == g = f \/ HasTorn(g) \/ Added(f, g, l)

(* A write that succeeds adds its line, or glues it to a torn one; it goes
   nowhere once the file is unlinked. *)
LEMMA WriteFacts ==
    ASSUME GoodFile(file), NEW l \in LineSet, Sensible(l), Write(l)
    PROVE  /\ GoodFile(file') /\ (HasTorn(file) => HasTorn(file'))
           /\ attached => HasTorn(file') \/ Added(file, file', l)
           /\ ~attached => file' = file
<1>1. CASE attached
  <2>1. file' = Appended(file, l)
    BY <1>1 DEF Write
  <2> QED
    BY <1>1, <2>1, AppendedFacts DEF Added
<1>2. CASE ~attached
  BY <1>2 DEF Write
<1> QED
  BY <1>1, <1>2

(* A write that fails leaves the file, adds the line whole, or tears it. *)
LEMMA WriteFailsFacts ==
    ASSUME GoodFile(file), NEW l \in LineSet, Sensible(l), WriteFails(l)
    PROVE  /\ GoodFile(file') /\ (HasTorn(file) => HasTorn(file'))
           /\ Grown(file, file', l)
           /\ ~attached => file' = file
<1>1. CASE file' = file
  BY <1>1 DEF Grown
<1>2. ASSUME attached, NEW x \in {Unended(Torn), Unended(l), l}, file' = Appended(file, x)
      PROVE  GoodFile(file') /\ (HasTorn(file) => HasTorn(file')) /\ Grown(file, file', l)
  <2>1. Torn \in LineSet /\ Sensible(Torn) /\ Torn.tag = "Torn"
    BY LineTypes DEF Sensible
  <2>2. CASE x = Unended(Torn)
    <3>1. x \in LineSet /\ Sensible(x) /\ x.tag = "Torn"
      BY <2>1, <2>2, UnendedFacts
    <3> QED
      BY <1>2, <3>1, AppendedFacts DEF Grown
  <2>3. CASE x = Unended(l) \/ x = l
    <3>1. x \in LineSet /\ Sensible(x) /\ x.tag = l.tag /\ x.key = l.key /\ x.rec = l.rec
      BY <2>3, UnendedFacts
    <3>2. GoodFile(file') /\ (HasTorn(file) => HasTorn(file'))
          /\ (HasTorn(file') \/ file' = Append(file, x))
      BY <1>2, <3>1, AppendedFacts
    <3> QED
      BY <3>1, <3>2 DEF Grown, Added
  <2> QED
    BY <1>2, <2>2, <2>3
<1> QED
  BY <1>1, <1>2 DEF WriteFails

-----------------------------------------------------------------------------
(* What the lines tell *)

(* The clock only lets records expire, and a larger set of statuses allows  *)
(* more.                                                                    *)
LEMMA TellsWeaker ==
    ASSUME NEW f, GoodFile(f), NEW p, NEW k, NEW t \in Nat, NEW u \in Nat, t <= u,
           NEW h, NEW x, NEW A, NEW B, A \subseteq B, Tells(f, p, k, t, h, x, A)
    PROVE  Tells(f, p, k, u, h, x, B)
<1>1. PICK i, j \in 1 .. Len(f) :
        /\ LastLive(f, p, k, t, i) /\ LastSays(f, p, k, i, j)
        /\ f[i].rec.hash = h /\ f[i].rec.expires = x /\ f[j].rec.status \in A
  BY DEF Tells
<1>2. \A m \in 1 .. Len(f) : f[m].tag = "Insert" => f[m].rec.expires \in Nat
  BY JournalAssumption DEF GoodFile, Sensible, Real, Deadline
<1>3. LastLive(f, p, k, u, i)
  <2> SUFFICES ASSUME NEW m \in 1 .. Len(f), i < m /\ m < p, Inserts(f, k, m)
               PROVE  f[m].rec.expires < u
    BY <1>1 DEF LastLive
  <2>1. f[m].rec.expires \in Nat /\ f[m].rec.expires < t
    BY <1>1, <1>2 DEF LastLive, Inserts
  <2> QED
    BY <2>1
<1> QED
  BY <1>1, <1>3 DEF Tells

(* The lines before p + 1 are those before p and line p.                    *)
(* Of another key, or an Insert that has expired.                           *)
Silent(f, k, t, p) ==
    ~Settles(f, k, p) /\ (Inserts(f, k, p) => f[p].rec.expires < t)

(* A line that says nothing of a key changes nothing of what the lines tell
   of it. *)
LEMMA TellsOn ==
    ASSUME NEW f, NEW p \in 1 .. Len(f), Len(f) \in Nat, NEW k, NEW t, NEW h, NEW x, NEW A,
           Tells(f, p, k, t, h, x, A), Silent(f, k, t, p)
    PROVE  Tells(f, p + 1, k, t, h, x, A)
<1>1. PICK i, j \in 1 .. Len(f) :
        /\ LastLive(f, p, k, t, i) /\ LastSays(f, p, k, i, j)
        /\ f[i].rec.hash = h /\ f[i].rec.expires = x /\ f[j].rec.status \in A
  BY DEF Tells
<1>2. \A m \in 1 .. Len(f) : m < p + 1 => m < p \/ m = p
  OBVIOUS
<1>3. i < p + 1 /\ j < p + 1
  BY <1>1 DEF LastLive, LastSays
<1>4. LastLive(f, p + 1, k, t, i)
  BY <1>1, <1>2, <1>3 DEF LastLive, Silent
<1>5. LastSays(f, p + 1, k, i, j)
  BY <1>1, <1>2, <1>3 DEF LastSays, Silent
<1> QED
  BY <1>1, <1>4, <1>5 DEF Tells

(* A Settle replaces the status.                                            *)
LEMMA TellsSettle ==
    ASSUME NEW f, NEW p \in 1 .. Len(f), Len(f) \in Nat, NEW k, NEW t, NEW h, NEW x, NEW A, NEW B,
           Tells(f, p, k, t, h, x, A), Settles(f, k, p), f[p].rec.status \in B
    PROVE  Tells(f, p + 1, k, t, h, x, B)
<1>1. PICK i, j \in 1 .. Len(f) :
        /\ LastLive(f, p, k, t, i) /\ LastSays(f, p, k, i, j)
        /\ f[i].rec.hash = h /\ f[i].rec.expires = x /\ f[j].rec.status \in A
  BY DEF Tells
<1>2. \A m \in 1 .. Len(f) : m < p + 1 => m < p \/ m = p
  OBVIOUS
<1>3. i < p + 1 /\ i <= p /\ p < p + 1 /\ ~Inserts(f, k, p)
  BY <1>1 DEF LastLive, Settles, Inserts
<1>4. LastLive(f, p + 1, k, t, i)
  BY <1>1, <1>2, <1>3 DEF LastLive
<1>5. \A m \in 1 .. Len(f) : ~(p < m /\ m < p + 1)
  OBVIOUS
<1>6. LastSays(f, p + 1, k, i, p)
  BY <1>3, <1>5 DEF LastSays
<1> QED
  BY <1>1, <1>4, <1>6 DEF Tells

(* An Insert begins a new record.                                           *)
LEMMA TellsInsert ==
    ASSUME NEW f, NEW p \in 1 .. Len(f), Len(f) \in Nat, NEW k, NEW t, NEW A,
           Inserts(f, k, p), f[p].rec.status \in A
    PROVE  Tells(f, p + 1, k, t, f[p].rec.hash, f[p].rec.expires, A)
<1>1. \A m \in 1 .. Len(f) : ~(p < m /\ m < p + 1)
  OBVIOUS
<1>2. p < p + 1 /\ p <= p
  OBVIOUS
<1>3. LastLive(f, p + 1, k, t, p) /\ LastSays(f, p + 1, k, p, p)
  BY <1>1, <1>2 DEF LastLive, LastSays
<1> QED
  BY <1>3 DEF Tells

(* The first lines of a longer file tell the same.                          *)
LEMMA TellsPrefix ==
    ASSUME NEW f, NEW g, NEW p \in Nat, Len(f) \in Nat, Len(g) \in Nat, Len(f) <= Len(g),
           p <= Len(f) + 1, \A i \in 1 .. Len(f) : g[i] = f[i],
           NEW k, NEW t, NEW h, NEW x, NEW A, Tells(f, p, k, t, h, x, A)
    PROVE  Tells(g, p, k, t, h, x, A)
<1>1. PICK i, j \in 1 .. Len(f) :
        /\ LastLive(f, p, k, t, i) /\ LastSays(f, p, k, i, j)
        /\ f[i].rec.hash = h /\ f[i].rec.expires = x /\ f[j].rec.status \in A
  BY DEF Tells
<1>2. \A m \in 1 .. Len(g) : m < p => m \in 1 .. Len(f)
  OBVIOUS
<1>3. i \in 1 .. Len(g) /\ j \in 1 .. Len(g)
  OBVIOUS
<1>4. LastLive(g, p, k, t, i)
  BY <1>1, <1>2 DEF LastLive, Inserts
<1>5. LastSays(g, p, k, i, j)
  BY <1>1, <1>2 DEF LastSays, Settles
<1>6. g[i] = f[i] /\ g[j] = f[j]
  OBVIOUS
<1> QED
  BY <1>1, <1>3, <1>4, <1>5, <1>6 DEF Tells

(* Together: one more line at the end of the file.                          *)
LEMMA TellsAdded ==
    ASSUME NEW f, GoodFile(f), NEW g, NEW l, Added(f, g, l),
           NEW k, NEW t, NEW h, NEW x, NEW A
    PROVE  /\ Len(f) \in Nat /\ Len(g) = Len(f) + 1
           /\ \A i \in 1 .. Len(f) : i \in 1 .. Len(g) /\ g[i] = f[i]
           /\ g[Len(g)].tag = l.tag /\ g[Len(g)].key = l.key /\ g[Len(g)].rec = l.rec
           /\ \A i \in 1 .. Len(g) : i \in 1 .. Len(f) \/ i = Len(g)
           /\ Len(g) \in 1 .. Len(g)
           /\ HasTorn(f) => HasTorn(g)
           /\ Tells(f, Len(f) + 1, k, t, h, x, A) /\ l.key # k =>
                  Tells(g, Len(g) + 1, k, t, h, x, A)
           /\ \A B : Tells(f, Len(f) + 1, k, t, h, x, A) /\ l.tag = "Settle" /\ l.key = k
                       /\ l.rec.status \in B =>
                  Tells(g, Len(g) + 1, k, t, h, x, B)
           /\ l.tag = "Insert" /\ l.key = k /\ l.rec.status \in A =>
                  Tells(g, Len(g) + 1, k, t, l.rec.hash, l.rec.expires, A)
<1>1. PICK y \in LineSet : g = Append(f, y) /\ y.tag = l.tag /\ y.key = l.key /\ y.rec = l.rec
  BY DEF Added
<1>2. /\ Len(f) \in Nat /\ Len(g) = Len(f) + 1 /\ g[Len(f) + 1] = y
      /\ \A i \in 1 .. Len(f) : g[i] = f[i]
  BY <1>1, AppendFacts DEF GoodFile
<1>3. PICK p \in Nat : p = Len(g)
  BY <1>2
<1>4. p \in 1 .. Len(g) /\ Len(g) \in Nat /\ Len(f) <= Len(g) /\ p <= Len(f) + 1 /\ p = Len(f) + 1
  BY <1>2, <1>3
<1>5. g[p].tag = l.tag /\ g[p].key = l.key /\ g[p].rec = l.rec
  BY <1>1, <1>2, <1>4
<1>6. ASSUME Tells(f, Len(f) + 1, k, t, h, x, A) PROVE Tells(g, p, k, t, h, x, A)
  BY <1>2, <1>4, <1>6, TellsPrefix
<1>7. ASSUME Tells(f, Len(f) + 1, k, t, h, x, A), l.key # k
      PROVE  Tells(g, p + 1, k, t, h, x, A)
  <2>1. Silent(g, k, t, p)
    BY <1>5, <1>7 DEF Silent, Settles, Inserts
  <2> QED
    BY <1>4, <1>6, <1>7, <2>1, TellsOn
<1>8. ASSUME NEW B, Tells(f, Len(f) + 1, k, t, h, x, A), l.tag = "Settle", l.key = k,
             l.rec.status \in B
      PROVE  Tells(g, p + 1, k, t, h, x, B)
  <2>1. Settles(g, k, p) /\ g[p].rec.status \in B
    BY <1>5, <1>8 DEF Settles
  <2> QED
    BY <1>4, <1>6, <1>8, <2>1, TellsSettle
<1>9. ASSUME l.tag = "Insert", l.key = k, l.rec.status \in A
      PROVE  Tells(g, p + 1, k, t, l.rec.hash, l.rec.expires, A)
  <2>1. Inserts(g, k, p) /\ g[p].rec.status \in A
    BY <1>5, <1>9 DEF Inserts
  <2>2. Tells(g, p + 1, k, t, g[p].rec.hash, g[p].rec.expires, A)
    BY <1>4, <2>1, TellsInsert
  <2> QED
    BY <1>5, <2>2
<1>10. /\ \A i \in 1 .. Len(f) : i \in 1 .. Len(g)
       /\ \A i \in 1 .. Len(g) : i \in 1 .. Len(f) \/ i = Len(g)
  BY <1>2
<1>11. HasTorn(f) => HasTorn(g)
  BY <1>2, <1>10 DEF HasTorn
<1> QED
  BY <1>2, <1>3, <1>4, <1>5, <1>7, <1>8, <1>9, <1>10, <1>11

-----------------------------------------------------------------------------
(* Compaction *)

(* The order of the lines: the parts, each once.                            *)
LEMMA OrderFacts ==
    ASSUME NEW e, NEW order \in Bijection(1 .. Cardinality(Parts(e)), Parts(e))
    PROVE  /\ Cardinality(Parts(e)) \in Nat
           /\ DOMAIN order = 1 .. Cardinality(Parts(e))
           /\ \A i \in DOMAIN order : order[i] \in Parts(e)
           /\ \A i, j \in DOMAIN order : order[i] = order[j] => i = j
           /\ \A q \in Parts(e) : \E i \in DOMAIN order : order[i] = q
<1>1. IsFiniteSet({"Insert", "Settle"})
  <2>1. IsFiniteSet({"Insert"})
    BY FS_EmptySet, FS_AddElement, IsFiniteSet({} \cup {"Insert"}), {} \cup {"Insert"} = {"Insert"}
  <2>2. IsFiniteSet({"Insert"} \cup {"Settle"})
    BY <2>1, FS_AddElement
  <2>3. {"Insert"} \cup {"Settle"} = {"Insert", "Settle"}
    OBVIOUS
  <2> QED
    BY <2>2, <2>3
<1>2. IsFiniteSet({"Insert", "Settle"} \X Keys)
  BY <1>1, JournalAssumption, FS_Product
<1>3. Parts(e) \in SUBSET ({"Insert", "Settle"} \X Keys)
  BY DEF Parts, Kept
<1>4. IsFiniteSet(Parts(e))
  BY <1>2, <1>3, FS_Subset
<1>5. Cardinality(Parts(e)) \in Nat
  BY <1>4, FS_CardinalityType
<1>6. order \in Injection(1 .. Cardinality(Parts(e)), Parts(e))
      /\ order \in Surjection(1 .. Cardinality(Parts(e)), Parts(e))
  BY DEF Bijection
<1>7. order \in [1 .. Cardinality(Parts(e)) -> Parts(e)]
  BY <1>6 DEF Surjection
<1>8. \A i, j \in DOMAIN order : order[i] = order[j] => i = j
  BY <1>6, <1>7 DEF Injection, IsInjective
<1>9. \A q \in Parts(e) : \E i \in DOMAIN order : order[i] = q
  BY <1>6, <1>7 DEF Surjection
<1> QED
  BY <1>5, <1>7, <1>8, <1>9

(* A part is the Insert or the Settle of a live entry.                      *)
LEMMA PartFacts ==
    ASSUME NEW e \in [Keys -> Recs], NEW q \in Parts(e)
    PROVE  \E k \in Kept(e) :
              /\ k \in Keys /\ e[k] \in Real
              /\ \/ /\ q = <<"Insert", k>>
                    /\ PartLine(e, q) = InsertLine(k, e[k])
                 \/ /\ q = <<"Settle", k>> /\ e[k].status \in Results
                    /\ PartLine(e, q) = SettleLine(k, e[k].status)
<1>1. PICK k \in Kept(e) : q = <<"Insert", k>> \/ (q = <<"Settle", k>> /\ e[k].status # "Running")
  BY DEF Parts
<1>2. k \in Keys /\ e[k] \in Recs /\ e[k] # NoRec
  BY DEF Kept
<1>3. e[k] \in Real /\ e[k].status \in Statuses
  BY <1>2, RecFacts
<1>4. q[2] = k /\ (q = <<"Insert", k>> => q[1] = "Insert") /\ (q = <<"Settle", k>> => q[1] = "Settle")
  BY <1>1
<1> QED
  BY <1>1, <1>2, <1>3, <1>4 DEF PartLine, Statuses

(* A compacted file is whole, has no orphan, and tells of every live entry  *)
(* what memory knows.                                                       *)
LEMMA CompactedFacts ==
    ASSUME NEW e \in [Keys -> Recs], NEW g, Compacted(e, g)
    PROVE  /\ GoodFile(g) /\ ~HasTorn(g) /\ NoOrphanIn(g)
           /\ \A k \in Kept(e) :
                  Tells(g, Len(g) + 1, k, now, e[k].hash, e[k].expires, {e[k].status})
<1> DEFINE n == Cardinality(Parts(e))
<1>1. PICK order \in Bijection(1 .. n, Parts(e)) :
        /\ \A i \in DOMAIN order : order[i][1] = "Settle" =>
               i > 1 /\ order[i - 1] = <<"Insert", order[i][2]>>
        /\ g = [i \in DOMAIN order |-> PartLine(e, order[i])]
  BY DEF Compacted
<1>2. /\ n \in Nat /\ DOMAIN order = 1 .. n
      /\ \A i \in 1 .. n : order[i] \in Parts(e)
      /\ \A i, j \in 1 .. n : order[i] = order[j] => i = j
      /\ \A q \in Parts(e) : \E i \in 1 .. n : order[i] = q
  BY OrderFacts
<1> HIDE DEF n
<1>3. \A i \in 1 .. n : \E k \in Kept(e) :
        /\ k \in Keys /\ e[k] \in Real
        /\ \/ order[i] = <<"Insert", k>> /\ g[i] = InsertLine(k, e[k])
           \/ order[i] = <<"Settle", k>> /\ e[k].status \in Results /\ g[i] = SettleLine(k, e[k].status)
  BY <1>1, <1>2, PartFacts
<1>4. \A i \in 1 .. n : g[i] \in LineSet /\ Sensible(g[i]) /\ g[i].tag # "Torn"
  BY <1>3, LineTypes
<1>5. g \in Seq(LineSet) /\ Len(g) = n
  <2>1. g \in [1 .. n -> LineSet]
    BY <1>1, <1>2, <1>4
  <2> QED
    BY <1>2, <2>1, SeqDef, LenProperties
<1>6. GoodFile(g) /\ ~HasTorn(g)
  BY <1>4, <1>5 DEF GoodFile, HasTorn
<1>7. \A i \in 1 .. n : \A k : Inserts(g, k, i) => order[i] = <<"Insert", k>>
  BY <1>3, LineTypes DEF Inserts
<1>8. \A i \in 1 .. n : \A k : Settles(g, k, i) => order[i] = <<"Settle", k>>
  BY <1>3, LineTypes DEF Settles
<1>9. \A i \in 1 .. n : \A k : order[i] = <<"Insert", k>> =>
        k \in Kept(e) /\ g[i].rec = e[k] /\ Inserts(g, k, i)
  <2> SUFFICES ASSUME NEW i \in 1 .. n, NEW k, order[i] = <<"Insert", k>>
               PROVE  k \in Kept(e) /\ g[i].rec = e[k] /\ Inserts(g, k, i)
    OBVIOUS
  <2>1. PICK x \in Kept(e) :
        /\ x \in Keys /\ e[x] \in Real
        /\ \/ order[i] = <<"Insert", x>> /\ g[i] = InsertLine(x, e[x])
           \/ order[i] = <<"Settle", x>> /\ e[x].status \in Results /\ g[i] = SettleLine(x, e[x].status)
    BY <1>3
  <2>2. x = k /\ g[i] = InsertLine(k, e[k])
    BY <2>1
  <2> QED
    BY <2>1, <2>2, LineTypes DEF Inserts
<1>10. \A i \in 1 .. n : \A k : order[i] = <<"Settle", k>> =>
        k \in Kept(e) /\ g[i].rec.status = e[k].status /\ Settles(g, k, i)
  <2> SUFFICES ASSUME NEW i \in 1 .. n, NEW k, order[i] = <<"Settle", k>>
               PROVE  k \in Kept(e) /\ g[i].rec.status = e[k].status /\ Settles(g, k, i)
    OBVIOUS
  <2>1. PICK x \in Kept(e) :
        /\ x \in Keys /\ e[x] \in Real
        /\ \/ order[i] = <<"Insert", x>> /\ g[i] = InsertLine(x, e[x])
           \/ order[i] = <<"Settle", x>> /\ e[x].status \in Results /\ g[i] = SettleLine(x, e[x].status)
    BY <1>3
  <2>2. x = k /\ g[i] = SettleLine(k, e[k].status) /\ e[k].status \in Results
    BY <2>1
  <2> QED
    BY <2>1, <2>2, LineTypes DEF Settles
<1>11. \A i \in 1 .. n : \A k : order[i] = <<"Settle", k>> =>
        \E m \in 1 .. n : i = m + 1 /\ m < i /\ order[m] = <<"Insert", k>>
  <2> SUFFICES ASSUME NEW i \in 1 .. n, NEW k, order[i] = <<"Settle", k>>
               PROVE  \E m \in 1 .. n : i = m + 1 /\ m < i /\ order[m] = <<"Insert", k>>
    OBVIOUS
  <2>1. order[i][1] = "Settle" /\ order[i][2] = k
    OBVIOUS
  <2>2. i > 1 /\ order[i - 1] = <<"Insert", k>>
    BY <1>1, <1>2, <2>1
  <2>3. i - 1 \in 1 .. n /\ i = (i - 1) + 1 /\ i - 1 < i
    BY <1>2, <2>2
  <2> QED
    BY <2>2, <2>3
<1>12. NoOrphanIn(g)
  <2> SUFFICES ASSUME NEW i \in 1 .. n, g[i].tag = "Settle"
               PROVE  \E m \in 1 .. n : m < i /\ Inserts(g, g[i].key, m)
    BY <1>5 DEF NoOrphanIn
  <2>1. order[i] = <<"Settle", g[i].key>>
    BY <1>8 DEF Settles
  <2> QED
    BY <1>9, <1>11, <2>1
<1>13. ASSUME NEW k \in Kept(e)
       PROVE  Tells(g, n + 1, k, now, e[k].hash, e[k].expires, {e[k].status})
  <2>1. <<"Insert", k>> \in Parts(e)
    BY DEF Parts
  <2>2. PICK i \in 1 .. n : order[i] = <<"Insert", k>>
    BY <1>2, <2>1
  <2>3. /\ i < n + 1 /\ Inserts(g, k, i) /\ g[i].rec = e[k]
        /\ \A m \in 1 .. n : Inserts(g, k, m) => m = i
    BY <1>2, <1>7, <1>9, <2>2
  <2>4. LastLive(g, n + 1, k, now, i)
    BY <1>2, <1>5, <2>3 DEF LastLive
  <2>5. CASE e[k].status = "Running"
    <3>1. <<"Settle", k>> \notin Parts(e)
      BY <2>5 DEF Parts
    <3>2. \A m \in 1 .. n : ~Settles(g, k, m)
      BY <1>2, <1>8, <3>1
    <3>3. i <= i
      BY <1>2
    <3>4. LastSays(g, n + 1, k, i, i)
      BY <1>5, <2>3, <3>2, <3>3 DEF LastSays
    <3> QED
      BY <1>5, <2>3, <2>4, <3>4 DEF Tells
  <2>6. CASE e[k].status # "Running"
    <3>1. <<"Settle", k>> \in Parts(e)
      BY <2>6 DEF Parts
    <3>2. PICK j \in 1 .. n : order[j] = <<"Settle", k>>
      BY <1>2, <3>1
    <3>3. PICK m \in 1 .. n : j = m + 1 /\ m < j /\ order[m] = <<"Insert", k>>
      BY <1>11, <3>2
    <3>4. m = i
      BY <1>2, <2>2, <3>3
    <3>5. i <= j /\ j < n + 1
      BY <1>2, <3>3, <3>4
    <3>6. \A x \in 1 .. n : Settles(g, k, x) => x = j
      BY <1>2, <1>8, <3>2
    <3>7. Settles(g, k, j) /\ g[j].rec.status = e[k].status
      BY <1>10, <3>2
    <3>8. LastSays(g, n + 1, k, i, j)
      BY <1>2, <1>5, <3>5, <3>6, <3>7 DEF LastSays
    <3> QED
      BY <1>5, <2>3, <2>4, <3>7, <3>8 DEF Tells
  <2> QED
    BY <2>5, <2>6
<1> QED
  BY <1>5, <1>6, <1>12, <1>13

-----------------------------------------------------------------------------
(* Types *)

(* The kinds of lines. *)
LEMMA GoodTags ==
    ASSUME NEW f, GoodFile(f)
    PROVE  \A i \in DOMAIN f : f[i].tag \in {"Insert", "Settle", "Torn"}
<1>1. f \in Seq(LineSet) /\ Len(f) \in Nat /\ \A i \in 1 .. Len(f) : f[i] \in LineSet
  BY ElementOfSeq DEF GoodFile
<1>2. DOMAIN f = 1 .. Len(f)
  BY <1>1, LenProperties
<1> QED
  BY <1>1, <1>2 DEF LineSet

(* The parts of TypeInv that are about one variable or two.                 *)
LEMMA TypeFacts ==
    ASSUME TypeInv
    PROVE  /\ mem \in [Keys -> Recs] /\ acked \in [Keys -> Recs]
           /\ tried \in [Keys -> SUBSET Results] /\ mine \subseteq Keys /\ adrift \subseteq Keys
           /\ now \in 0 .. MaxTime /\ now \in Nat /\ attached \in BOOLEAN
           /\ state \in {"up", "down", "opening", "corrupt"}
           /\ GoodFile(file) /\ Len(file) \in Nat
           /\ replay.next \in Nat \ {0} /\ replay.entries \in [Keys -> Recs]
           /\ replay.expired \subseteq Keys
           /\ faults \in Nat /\ reopenFaults \in Nat
<1>1. GoodFile(file) /\ Len(file) \in Nat
  BY ElementOfSeq DEF TypeInv, GoodFile
<1> QED
  BY <1>1, JournalAssumption DEF TypeInv, TypeOK

(* The locals of open before the first line. *)
LEMMA NoReplayFacts ==
    /\ NoReplay.next = 1 /\ NoReplay.entries = [k \in Keys |-> NoRec]
    /\ NoReplay.expired = {} /\ NoReplay.entries \in [Keys -> Recs]
    /\ NoRec \in Recs /\ NoRec.expires = 0 /\ NoRec.status = "None" /\ NoRec.hash = None
BY DEF NoReplay, Recs, NoRec, Rec

(* The record that try_insert makes. *)
LEMMA NewFacts ==
    ASSUME TypeInv, NEW h \in Hashes
    PROVE  /\ New(h) \in Real /\ New(h).hash = h /\ New(h).expires = now + Retention
           /\ New(h).status = "Running" /\ New(h).expires >= now
           /\ New(h) \in Recs /\ New(h) # NoRec
<1>1. now \in 0 .. MaxTime /\ MaxTime \in Nat /\ Retention \in Nat
  BY TypeFacts, JournalAssumption
<1>2. now + Retention \in 0 .. MaxTime + Retention /\ now + Retention >= now
  BY <1>1
<1>3. New(h) \in Real
  BY <1>2 DEF New, Rec, Real, Deadline, Statuses
<1> QED
  BY <1>2, <1>3, RealIsRec DEF New, Rec, Deadline

(* The functions the actions put in place of the entries.                   *)
LEMMA EntryFacts ==
    ASSUME NEW e \in [Keys -> Recs], TypeInv
    PROVE  /\ Retained(e) \in [Keys -> Recs] /\ Recovered(e) \in [Keys -> Recs]
           /\ \A k \in Keys : Retained(e)[k] \in {e[k], NoRec}
           /\ \A k \in Keys : e[k].expires >= now => Retained(e)[k] = e[k]
           /\ \A k \in Keys :
                  /\ (e[k] = NoRec) <=> (Recovered(e)[k] = NoRec)
                  /\ Recovered(e)[k].hash = e[k].hash
                  /\ Recovered(e)[k].expires = e[k].expires
                  /\ Recovered(e)[k].status =
                         IF e[k].status = "Running" THEN "Indeterminate" ELSE e[k].status
<1>1. NoRec \in Recs
  BY NoReplayFacts
<1>2. Retained(e) \in [Keys -> Recs] /\ \A k \in Keys : Retained(e)[k] \in {e[k], NoRec}
      /\ (e[k].expires >= now => Retained(e)[k] = e[k])
  BY <1>1 DEF Retained
<1>3. ASSUME NEW k \in Keys
      PROVE  /\ Recovered(e)[k] \in Recs
             /\ (e[k] = NoRec) <=> (Recovered(e)[k] = NoRec)
             /\ Recovered(e)[k].hash = e[k].hash
             /\ Recovered(e)[k].expires = e[k].expires
             /\ Recovered(e)[k].status =
                    IF e[k].status = "Running" THEN "Indeterminate" ELSE e[k].status
  <2>1. CASE e[k].status = "Running"
    <3>1. e[k] # NoRec /\ "Indeterminate" \in Statuses
      BY <2>1, RecFacts, JournalAssumption DEF Statuses
    <3>2. Recovered(e)[k] = [e[k] EXCEPT !.status = "Indeterminate"]
      BY <2>1 DEF Recovered
    <3>3. Recovered(e)[k] \in Real /\ Recovered(e)[k].hash = e[k].hash
          /\ Recovered(e)[k].expires = e[k].expires /\ Recovered(e)[k].status = "Indeterminate"
      BY <3>1, <3>2, WithStatus
    <3> QED
      BY <2>1, <3>1, <3>3, RealIsRec
  <2>2. CASE e[k].status # "Running"
    BY <2>2 DEF Recovered
  <2> QED
    BY <2>1, <2>2
<1>4. Recovered(e) \in [Keys -> Recs]
  BY <1>3 DEF Recovered
<1> QED
  BY <1>2, <1>3, <1>4

(* The line open is at.                                                     *)
LEMMA CurrentFacts ==
    ASSUME TypeInv, replay.next <= Len(file)
    PROVE  /\ replay.next \in 1 .. Len(file) /\ Current = file[replay.next]
           /\ Sensible(Current)
           /\ Current.tag = "Insert" => Current.key \in Keys /\ Current.rec \in Real /\ Current.rec \in Recs
           /\ Current.tag = "Settle" => Current.key \in Keys /\ Current.rec.status \in Results
<1>1. replay.next \in 1 .. Len(file)
  BY TypeFacts
<1>2. Sensible(Current)
  BY <1>1, TypeFacts DEF GoodFile, Current
<1> QED
  BY <1>1, <1>2, RealIsRec DEF Sensible, Current

TypeHeld ==
    /\ mem' \in [Keys -> Recs] /\ acked' \in [Keys -> Recs]
    /\ tried' \in [Keys -> SUBSET Results] /\ mine' \subseteq Keys /\ adrift' \subseteq Keys
    /\ now' \in 0 .. MaxTime /\ attached' \in BOOLEAN
    /\ state' \in {"up", "down", "opening", "corrupt"}
    /\ GoodFile(file')
    /\ replay'.next \in Nat \ {0} /\ replay'.entries \in [Keys -> Recs]
    /\ replay'.expired \subseteq Keys
    /\ faults' \in Nat /\ reopenFaults' \in Nat

(* The type invariant, from the types of the parts a step assigns. *)
LEMMA TypeFromParts == ASSUME TypeHeld PROVE TypeInv'
<1>1. \A i \in DOMAIN file' : file'[i].tag \in {"Insert", "Settle", "Torn"}
  BY GoodTags DEF TypeHeld
<1>2. \A k \in Keys : acked'[k].expires <= MaxTime + Retention
  BY RecFacts DEF TypeHeld
<1> QED
  BY <1>1, <1>2 DEF TypeHeld, TypeInv, TypeOK

(* A handle that stays the same is still attached or not. *)
LEMMA SameHandle == ASSUME TypeInv, attached' = attached PROVE attached' \in BOOLEAN
<1>1. attached \in BOOLEAN
  BY TypeFacts
<1> QED
  BY <1>1, Zenon

(* Every step keeps the types. *)
LEMMA TypeStep == ASSUME TypeInv, [Next]_vars PROVE TypeInv'
<1> USE TypeFacts
<1>1. ASSUME NEW k \in Keys, NEW h \in Hashes, TryInsert(k, h) PROVE TypeHeld
  <2>1. New(h) \in Real /\ New(h) \in Recs
    BY NewFacts
  <2>2. GoodFile(file')
    BY <1>1, <2>1, LineTypes, WriteFacts DEF TryInsert
  <2>3. adrift' \subseteq Keys
    BY <1>1 DEF TryInsert, Confirm
  <2> QED
    BY <1>1, <2>1, <2>2, <2>3 DEF TryInsert, Write, TypeHeld
<1>2. ASSUME NEW k \in Keys, NEW h \in Hashes, TryInsertFails(k, h) PROVE TypeHeld
  <2>1. GoodFile(file')
    BY <1>2, NewFacts, LineTypes, WriteFailsFacts DEF TryInsertFails
  <2>2. UNCHANGED <<attached, adrift, reopenFaults>> /\ faults' = faults + 1
    BY <1>2 DEF TryInsertFails, WriteFails
  <2>3. UNCHANGED <<mem, state, replay, now, acked, tried, mine>>
    BY <1>2 DEF TryInsertFails, historyVars
  <2>4. attached' \in BOOLEAN
    BY <2>2, SameHandle
  <2> QED
    BY <2>1, <2>2, <2>3, <2>4 DEF TypeHeld
<1>3. ASSUME NEW k \in Keys, NEW r \in Results, Settle(k, r) PROVE TypeHeld
  <2>1. GoodFile(file')
    BY <1>3, LineTypes, WriteFacts DEF Settle
  <2>2. [mem[k] EXCEPT !.status = r] \in Recs
    BY <1>3, WithStatus, RealIsRec DEF Settle, Statuses
  <2>3. mem' = [mem EXCEPT ![k] = [mem[k] EXCEPT !.status = r]]
    BY <1>3 DEF Settle
  <2>4. mem' \in [Keys -> Recs]
    BY <2>2, <2>3
  <2>5. acked' \in [Keys -> Recs]
    BY <1>3, <2>4 DEF Settle
  <2>6. tried' \in [Keys -> SUBSET Results]
    BY <1>3 DEF Settle
  <2>7. adrift' \subseteq Keys
    BY <1>3 DEF Settle, Confirm
  <2> QED
    BY <1>3, <2>1, <2>4, <2>5, <2>6, <2>7 DEF Settle, Write, TypeHeld
<1>4. ASSUME NEW k \in Keys, NEW r \in Results, SettleFails(k, r) PROVE TypeHeld
  <2>1. GoodFile(file')
    BY <1>4, LineTypes, WriteFailsFacts DEF SettleFails
  <2>2. tried' \in [Keys -> SUBSET Results]
    BY <1>4 DEF SettleFails
  <2>3. UNCHANGED <<attached, adrift, reopenFaults>> /\ faults' = faults + 1
    BY <1>4 DEF SettleFails, WriteFails
  <2>4. UNCHANGED <<mem, state, replay, now, acked, mine>>
    BY <1>4 DEF SettleFails
  <2>5. attached' \in BOOLEAN
    BY <2>3, SameHandle
  <2> QED
    BY <2>1, <2>2, <2>3, <2>4, <2>5 DEF TypeHeld
<1>5. ASSUME NEW e \in [Keys -> Recs], CompactOk(e) \/ CompactFails(e)
      PROVE  /\ GoodFile(file') /\ attached' \in BOOLEAN
             /\ faults' \in Nat /\ reopenFaults' \in Nat /\ adrift' \subseteq Keys
  <2>1. CASE CompactOk(e)
    BY <2>1, CompactedFacts DEF CompactOk
  <2>2. CASE UNCHANGED <<file, attached, adrift, reopenFaults>> /\ faults' = faults + 1
    <3>1. GoodFile(file') /\ faults' \in Nat /\ reopenFaults' \in Nat /\ adrift' \subseteq Keys
      BY <2>2
    <3>2. attached' \in BOOLEAN
      BY <2>2, SameHandle
    <3> QED
      BY <3>1, <3>2, Zenon
  <2>3. CASE /\ Compacted(e, file') /\ attached' = FALSE /\ adrift' = {}
             /\ reopenFaults' = reopenFaults + 1 /\ faults' = faults
    <3>1. GoodFile(file') /\ faults' \in Nat
      BY <2>3, CompactedFacts
    <3>2. reopenFaults' \in Nat /\ adrift' \subseteq Keys
      BY <2>3
    <3>3. attached' \in BOOLEAN
      BY <2>3, Zenon
    <3> QED
      BY <3>1, <3>2, <3>3, Zenon
  <2> QED
    BY <1>5, <2>1, <2>2, <2>3 DEF CompactFails, fileVars
<1>6. ASSUME PurgeExpired PROVE TypeHeld
  <2>1. mem' \in [Keys -> Recs]
    BY <1>6, EntryFacts DEF PurgeExpired
  <2> QED
    BY <1>5, <1>6, <2>1 DEF PurgeExpired, TypeHeld, historyVars
<1>7. ASSUME OpenStart PROVE TypeHeld
  <2>1. UNCHANGED <<file, attached, mem, now, acked, tried, mine, adrift, faults, reopenFaults>>
    BY <1>7 DEF OpenStart, historyVars, fileVars
  <2>2. attached' \in BOOLEAN
    BY <2>1, SameHandle
  <2> QED
    BY <1>7, <2>1, <2>2, NoReplayFacts DEF OpenStart, TypeHeld
<1>8. ASSUME Corrupt PROVE TypeHeld
  <2>1. UNCHANGED <<file, attached, mem, now, acked, tried, mine, adrift, faults, reopenFaults>>
    BY <1>8 DEF Corrupt, historyVars, fileVars
  <2>2. attached' \in BOOLEAN
    BY <2>1, SameHandle
  <2> QED
    BY <1>8, <2>1, <2>2, NoReplayFacts DEF Corrupt, TypeHeld
<1>9. ASSUME NEW e \in [Keys -> Recs], NEW x \in SUBSET Keys, NEW c, Read(e, x, c) PROVE TypeHeld
  <2>1. replay'.next = replay.next + 1 /\ replay'.entries = e /\ replay'.expired = x
    BY <1>9 DEF Read
  <2>2. UNCHANGED <<file, attached, mem, state, now, acked, tried, mine, adrift, faults, reopenFaults>>
    BY <1>9 DEF Read, historyVars, fileVars
  <2>3. attached' \in BOOLEAN
    BY <2>2, SameHandle
  <2>4. replay'.next \in Nat \ {0}
    BY <2>1
  <2> QED
    BY <2>1, <2>2, <2>3, <2>4 DEF TypeHeld
<1>10. ASSUME Replay PROVE TypeHeld
  <2>1. replay.next <= Len(file)
    BY <1>10 DEF Replay, ReplayTorn, ReplayExpired, ReplayInsert, ReplaySettle,
                 ReplaySettleExpired, ReplayOrphan, Reading
  <2>2. CASE ReplayTorn \/ ReplayOrphan
    BY <1>8, <2>2 DEF ReplayTorn, ReplayOrphan
  <2>3. CASE ReplayExpired
    <3>1. replay.expired \cup {Current.key} \in SUBSET Keys
      BY <2>1, <2>3, CurrentFacts DEF ReplayExpired, Reading
    <3> QED
      BY <1>9, <2>3, <3>1 DEF ReplayExpired
  <2>4. CASE ReplayInsert
    <3>1. [replay.entries EXCEPT ![Current.key] = Current.rec] \in [Keys -> Recs]
      BY <2>1, <2>4, CurrentFacts DEF ReplayInsert, Reading
    <3> QED
      BY <1>9, <2>4, <3>1 DEF ReplayInsert
  <2>5. CASE ReplaySettle
    <3>1. Current.key \in Keys /\ Current.rec.status \in Statuses
      BY <2>1, <2>5, CurrentFacts DEF ReplaySettle, Reading, Statuses
    <3>2. [replay.entries[Current.key] EXCEPT !.status = Current.rec.status] \in Recs
      BY <2>5, <3>1, WithStatus, RealIsRec DEF ReplaySettle
    <3>3. [replay.entries EXCEPT ![Current.key].status = Current.rec.status] \in [Keys -> Recs]
      BY <3>1, <3>2
    <3> QED
      BY <1>9, <2>5, <3>3 DEF ReplaySettle
  <2>6. CASE ReplaySettleExpired
    <3>1. replay.expired \ {Current.key} \in SUBSET Keys
      OBVIOUS
    <3> QED
      BY <1>9, <2>6, <3>1 DEF ReplaySettleExpired
  <2> QED
    BY <1>10, <2>2, <2>3, <2>4, <2>5, <2>6 DEF Replay
<1>11. ASSUME OpenOk PROVE TypeHeld
  <2>1. mem' \in [Keys -> Recs]
    BY <1>11, EntryFacts DEF OpenOk
  <2>2. /\ GoodFile(file') /\ attached' \in BOOLEAN
        /\ faults' \in Nat /\ reopenFaults' \in Nat /\ adrift' \subseteq Keys
    BY <1>5, <1>11, <2>1 DEF OpenOk
  <2> QED
    BY <1>11, <2>1, <2>2, NoReplayFacts DEF OpenOk, TypeHeld
<1>12. ASSUME OpenFails PROVE TypeHeld
  <2>1. Recovered(replay.entries) \in [Keys -> Recs]
    BY EntryFacts
  <2>2. /\ GoodFile(file') /\ attached' \in BOOLEAN
        /\ faults' \in Nat /\ reopenFaults' \in Nat /\ adrift' \subseteq Keys
    BY <1>5, <1>12, <2>1 DEF OpenFails
  <2> QED
    BY <1>12, <2>2, NoReplayFacts DEF OpenFails, TypeHeld, historyVars
<1>13. ASSUME Crash PROVE TypeHeld
  <2>1. UNCHANGED <<file, attached, now, tried, mine, faults, reopenFaults>> /\ adrift' = {}
    BY <1>13 DEF Crash, fileVars
  <2>2. attached' \in BOOLEAN
    BY <2>1, SameHandle
  <2>3. acked' \in [Keys -> Recs]
    BY <1>13, NoReplayFacts DEF Crash
  <2> QED
    BY <1>13, <2>1, <2>2, <2>3, NoReplayFacts DEF Crash, TypeHeld
<1>14. ASSUME Tick PROVE TypeHeld
  <2>1. now' \in 0 .. MaxTime
    BY <1>14, JournalAssumption DEF Tick
  <2> QED
    BY <1>14, <2>1 DEF Tick, TypeHeld, historyVars, fileVars
<1>15. ASSUME UNCHANGED vars PROVE TypeHeld
  BY <1>15 DEF vars, TypeHeld
<1> QED
  BY <1>1, <1>2, <1>3, <1>4, <1>6, <1>7, <1>10, <1>11, <1>12, <1>13, <1>14, <1>15,
     TypeFromParts DEF Next

-----------------------------------------------------------------------------
(* What a longer file still tells *)

(* A line of another key changes nothing of what the file tells of this one. *)
LEMMA TellsGrown ==
    ASSUME NEW f, GoodFile(f), NEW g, NEW l, Grown(f, g, l), ~HasTorn(g),
           NEW k, NEW t, NEW h, NEW x, NEW A, l.key # k, Tells(f, Len(f) + 1, k, t, h, x, A)
    PROVE  Tells(g, Len(g) + 1, k, t, h, x, A)
BY TellsAdded DEF Grown

(* An Insert stays in a file that grows. *)
LEMMA InsertGrown ==
    ASSUME NEW f, GoodFile(f), NEW g, NEW l, Grown(f, g, l), ~HasTorn(g),
           NEW k, \E i \in 1 .. Len(f) : Inserts(f, k, i)
    PROVE  \E i \in 1 .. Len(g) : Inserts(g, k, i)
<1>1. CASE g = f
  BY <1>1
<1>2. CASE Added(f, g, l)
  <2>1. \A i \in 1 .. Len(f) : i \in 1 .. Len(g) /\ g[i] = f[i]
    BY <1>2, TellsAdded
  <2> QED
    BY <2>1 DEF Inserts
<1> QED
  BY <1>1, <1>2 DEF Grown

(* A Settle added after its Insert is no orphan. *)
LEMMA NoOrphanGrown ==
    ASSUME NEW f, GoodFile(f), NEW g, NEW l, Grown(f, g, l),
           ~HasTorn(f) => NoOrphanIn(f), HasTorn(f) => HasTorn(g),
           g # f /\ ~HasTorn(f) /\ l.tag = "Settle" =>
               \E i \in 1 .. Len(f) : Inserts(f, l.key, i)
    PROVE  ~HasTorn(g) => NoOrphanIn(g)
<1> SUFFICES ASSUME ~HasTorn(g) PROVE NoOrphanIn(g)
  OBVIOUS
<1>1. ~HasTorn(f) /\ NoOrphanIn(f)
  OBVIOUS
<1>2. CASE g = f
  BY <1>1, <1>2
<1>3. CASE g # f /\ Added(f, g, l)
  <2>1. /\ Len(f) \in Nat /\ Len(g) = Len(f) + 1
        /\ \A i \in 1 .. Len(f) : i \in 1 .. Len(g) /\ g[i] = f[i]
        /\ g[Len(g)].tag = l.tag /\ g[Len(g)].key = l.key
        /\ \A i \in 1 .. Len(g) : i \in 1 .. Len(f) \/ i = Len(g)
    BY <1>3, TellsAdded
  <2> SUFFICES ASSUME NEW i \in 1 .. Len(g), g[i].tag = "Settle"
               PROVE  \E m \in 1 .. Len(g) : m < i /\ Inserts(g, g[i].key, m)
    BY DEF NoOrphanIn
  <2>2. CASE i \in 1 .. Len(f)
    BY <1>1, <2>1, <2>2 DEF NoOrphanIn, Inserts
  <2>3. CASE i = Len(g)
    <3>1. PICK m \in 1 .. Len(f) : Inserts(f, l.key, m)
      BY <1>1, <1>3, <2>1, <2>3
    <3>2. m < i /\ m \in 1 .. Len(g) /\ g[m] = f[m] /\ g[i].key = l.key
      BY <2>1, <2>3
    <3> QED
      BY <3>1, <3>2 DEF Inserts
  <2> QED
    BY <2>1, <2>2, <2>3
<1> QED
  BY <1>2, <1>3 DEF Grown

(* What the file tells of a key comes from an Insert. *)
LEMMA TellsHasInsert ==
    ASSUME NEW f, NEW p, NEW k, NEW t, NEW h, NEW x, NEW A, Tells(f, p, k, t, h, x, A)
    PROVE  \E i \in 1 .. Len(f) : Inserts(f, k, i)
BY DEF Tells, LastLive

-----------------------------------------------------------------------------
(* What was confirmed *)

(* The types of the next state.                                             *)
LEMMA TypeNext ==
    ASSUME TypeInv'
    PROVE  /\ mem' \in [Keys -> Recs] /\ acked' \in [Keys -> Recs]
           /\ tried' \in [Keys -> SUBSET Results]
           /\ now' \in Nat /\ GoodFile(file')
           /\ attached' \in BOOLEAN
<1>1. now' \in 0 .. MaxTime
  BY DEF TypeInv, TypeOK
<1>2. now' \in Nat
  BY <1>1, JournalAssumption
<1> QED
  BY <1>2, Zenon DEF TypeInv, TypeOK

(* AckedSurvive, for a record m in memory.                                  *)
Match(m, a, T) ==
    m.hash = a.hash /\ m.expires = a.expires /\ m.status \in AllowedBy(T, a)

(* The statuses that a confirmed record allows. *)
LEMMA MatchFacts ==
    ASSUME NEW m \in Recs, NEW a \in Recs, a # NoRec, NEW T \in SUBSET Results
    PROVE  /\ AllowedBy(T, a) \subseteq Statuses
           /\ "Running" \in AllowedBy(T, a) => a.status = "Running"
           /\ a.status = "Running" => "Indeterminate" \in AllowedBy(T, a)
           /\ a.status \in AllowedBy(T, a)
           /\ Match(m, a, T) => m # NoRec
<1>1. a.status \in Statuses
  BY RecFacts
<1>2. /\ AllowedBy(T, a) \subseteq Statuses
      /\ "Running" \in AllowedBy(T, a) => a.status = "Running"
      /\ a.status = "Running" => "Indeterminate" \in AllowedBy(T, a)
      /\ a.status \in AllowedBy(T, a)
  BY <1>1, JournalAssumption DEF AllowedBy, Statuses
<1>3. Match(m, a, T) => m.status \in Statuses
  BY <1>2 DEF Match
<1> QED
  BY <1>2, <1>3, RecFacts

(* A confirmed record that has not expired is in memory, in every state of a
   journal that is up. *)
LEMMA SurvivesNow ==
    ASSUME TypeInv, AckedSurvive, state = "up",
           NEW k \in Keys, acked[k] # NoRec, acked[k].expires >= now
    PROVE  Match(mem[k], acked[k], tried[k]) /\ Live(k)
<1>1. Match(mem[k], acked[k], tried[k])
  BY DEF AckedSurvive, Match, AllowedBy
<1>2. mem[k] # NoRec
  BY <1>1, MatchFacts, TypeFacts
<1> QED
  BY <1>1, <1>2 DEF Live, Match

SurvivesNext ==
    state' = "up" =>
        \A k \in Keys : acked'[k] # NoRec /\ acked'[k].expires >= now' =>
            Match(mem'[k], acked'[k], tried'[k])

(* The same for the next state, assembled. *)
LEMMA SurviveFromNext == ASSUME SurvivesNext PROVE AckedSurvive'
BY DEF AckedSurvive, SurvivesNext, Match, AllowedBy

(* A compaction of what memory knows gives a file that tells the same.      *)
LEMMA CompactKeeps ==
    ASSUME TypeInv, TypeInv', Compacted(mem', file'), now' = now, state' = "up", adrift' = {},
           SurvivesNext, \A k \in Keys : mem'[k] # NoRec => mem'[k].expires >= now
    PROVE  FileInv'
<1>1. mem' \in [Keys -> Recs] /\ now \in Nat /\ GoodFile(file') /\ acked' \in [Keys -> Recs]
      /\ tried' \in [Keys -> SUBSET Results]
  BY TypeNext
<1>2. /\ ~HasTorn(file') /\ NoOrphanIn(file')
      /\ \A k \in Kept(mem') :
            Tells(file', Len(file') + 1, k, now, mem'[k].hash, mem'[k].expires, {mem'[k].status})
  BY <1>1, CompactedFacts
<1>3. ASSUME NEW k \in Keys, mem'[k] # NoRec, NEW A, mem'[k].status \in A
      PROVE  Tells(file', Len(file') + 1, k, now, mem'[k].hash, mem'[k].expires, A)
  <2>1. k \in Kept(mem')
    BY <1>3 DEF Kept
  <2>2. now <= now /\ {mem'[k].status} \subseteq A
    BY <1>1, <1>3
  <2>3. PICK p, h, x, B : p = Len(file') + 1 /\ h = mem'[k].hash /\ x = mem'[k].expires
                          /\ B = {mem'[k].status}
    OBVIOUS
  <2>4. Tells(file', p, k, now, h, x, B)
    BY <1>2, <2>1, <2>3
  <2>5. Tells(file', p, k, now, h, x, A)
    BY <1>1, <2>2, <2>3, <2>4, TellsWeaker
  <2> QED
    BY <2>3, <2>5
<1>4. AckKept'
  <2> SUFFICES ASSUME NEW k \in Keys, acked'[k] # NoRec, acked'[k].expires >= now
               PROVE  Tells(file', Len(file') + 1, k, now, acked'[k].hash, acked'[k].expires,
                            AllowedBy(tried'[k], acked'[k]))
    BY DEF AckKept, Allowed
  <2>1. Match(mem'[k], acked'[k], tried'[k])
    BY DEF SurvivesNext
  <2>2. mem'[k] # NoRec
    BY <1>1, <2>1, MatchFacts
  <2>3. /\ mem'[k].hash = acked'[k].hash /\ mem'[k].expires = acked'[k].expires
        /\ mem'[k].status \in AllowedBy(tried'[k], acked'[k])
    BY <2>1 DEF Match
  <2>4. Tells(file', Len(file') + 1, k, now, mem'[k].hash, mem'[k].expires,
              AllowedBy(tried'[k], acked'[k]))
    BY <1>3, <2>2, <2>3
  <2> QED
    BY <2>3, <2>4
<1>5. \A k \in Keys : mem'[k] # NoRec =>
        Tells(file', Len(file') + 1, k, now, mem'[k].hash, mem'[k].expires, Statuses)
  BY <1>1, <1>3, RecFacts
<1>6. MemKept'
  BY <1>5 DEF MemKept, Live
<1>7. InFile'
  BY <1>5, TellsHasInsert DEF InFile
<1>8. NoOrphan'
  BY <1>2 DEF NoOrphan
<1> QED
  BY <1>4, <1>6, <1>7, <1>8 DEF FileInv, AdriftInv

(* The file and what is compared with it stay as they are.                  *)
LEMMA FileSame ==
    ASSUME FileInv, UNCHANGED <<file, attached, now, acked, tried, adrift>>,
           state' = "up" => state = "up" /\ mem' = mem, state = "up" => state' = "up"
    PROVE  FileInv'
<1>1. AckKept'
  BY DEF FileInv, AckKept, Allowed
<1>2. MemKept'
  BY DEF FileInv, MemKept, Live
<1>3. InFile'
  BY DEF FileInv, InFile
<1>4. NoOrphan' /\ AdriftInv'
  BY DEF FileInv, NoOrphan, AdriftInv
<1> QED
  BY <1>1, <1>2, <1>3, <1>4 DEF FileInv

-----------------------------------------------------------------------------
(* The steps of a running journal *)

(* RecordsHold and ReplayInv while the journal is up.                       *)
LEMMA UpHolds ==
    ASSUME state' = "up", SurvivesNext, RunningIsMine'
    PROVE  ReplayInv' /\ RecordsHold'
BY SurviveFromNext DEF ReplayInv, RecordsHold, OpensAgain

(* An insert that is confirmed is kept, in memory and in the file. *)
LEMMA TryInsertStep ==
    ASSUME TypeInv, TypeInv', FileInv, RecordsHold, NEW k \in Keys, NEW h \in Hashes, TryInsert(k, h)
    PROVE  FileInv' /\ ReplayInv' /\ RecordsHold'
<1> DEFINE l == InsertLine(k, New(h))
<1>1. /\ state = "up" /\ state' = "up" /\ now' = now
      /\ mem' = [mem EXCEPT ![k] = New(h)] /\ acked' = [acked EXCEPT ![k] = New(h)]
      /\ tried' = [tried EXCEPT ![k] = {}] /\ mine' = mine \cup {k}
  BY DEF TryInsert
<1>2. Write(l) /\ attached' = attached /\ adrift' = IF attached THEN adrift ELSE adrift \cup {k}
  BY DEF TryInsert, Write, Confirm
<1>3. /\ New(h) \in Real /\ New(h) # NoRec /\ New(h).status = "Running" /\ New(h) \in Recs
  BY NewFacts
<1>4. l \in LineSet /\ Sensible(l) /\ l.tag = "Insert" /\ l.key = k /\ l.rec = New(h)
  BY <1>3, LineTypes
<1> HIDE DEF l
<1>5. /\ GoodFile(file) /\ GoodFile(file') /\ (HasTorn(file) => HasTorn(file'))
      /\ attached => HasTorn(file') \/ Added(file, file', l)
      /\ ~attached => file' = file
  BY <1>2, <1>4, TypeFacts, WriteFacts
<1>6. \A y \in Keys : /\ y # k => mem'[y] = mem[y] /\ acked'[y] = acked[y] /\ tried'[y] = tried[y]
                      /\ mem'[k] = New(h) /\ acked'[k] = New(h) /\ tried'[k] = {}
  BY <1>1, TypeFacts
<1>7. SurvivesNext
  <2> SUFFICES ASSUME NEW y \in Keys, acked'[y] # NoRec, acked'[y].expires >= now'
               PROVE  Match(mem'[y], acked'[y], tried'[y])
    BY DEF SurvivesNext
  <2>1. CASE y = k
    BY <1>3, <1>6, <2>1 DEF Match, AllowedBy
  <2>2. CASE y # k
    BY <1>1, <1>2, <1>6, <2>2, SurvivesNow DEF RecordsHold
  <2> QED
    BY <2>1, <2>2
<1>8. RunningIsMine'
  BY <1>1, <1>6 DEF RecordsHold, RunningIsMine
<1>9. AckKept'
  <2> SUFFICES ASSUME ~HasTorn(file'),
                      NEW y \in Keys, y \notin adrift', acked'[y] # NoRec, acked'[y].expires >= now
               PROVE  Tells(file', Len(file') + 1, y, now, acked'[y].hash, acked'[y].expires,
                            AllowedBy(tried'[y], acked'[y]))
    BY <1>1 DEF AckKept, Allowed
  <2>1. ~HasTorn(file) /\ y \notin adrift /\ (y = k => attached) /\ Grown(file, file', l)
    BY <1>2, <1>5 DEF Grown
  <2>2. CASE y = k
    <3>1. "Running" \in AllowedBy(tried'[y], acked'[y])
      BY <1>3, <1>6, <2>2 DEF AllowedBy
    <3>2. Added(file, file', l)
      BY <1>5, <2>1, <2>2
    <3> QED
      BY <1>3, <1>4, <1>5, <1>6, <2>2, <3>1, <3>2, TellsAdded
  <2>3. CASE y # k
    <3>1. Tells(file, Len(file) + 1, y, now, acked[y].hash, acked[y].expires,
                AllowedBy(tried[y], acked[y]))
      BY <1>1, <1>6, <2>1, <2>3 DEF FileInv, AckKept, Allowed
    <3>2. Tells(file', Len(file') + 1, y, now, acked[y].hash, acked[y].expires,
                AllowedBy(tried[y], acked[y]))
      BY <1>4, <1>5, <2>1, <2>3, <3>1, TellsGrown
    <3> QED
      BY <1>6, <2>3, <3>2
  <2> QED
    BY <2>2, <2>3
<1>10. MemKept'
  <2> SUFFICES ASSUME attached, ~HasTorn(file'), NEW y \in Keys, mem'[y] # NoRec, mem'[y].expires >= now
               PROVE  Tells(file', Len(file') + 1, y, now, mem'[y].hash, mem'[y].expires, Statuses)
    BY <1>1, <1>2 DEF MemKept, Live
  <2>1. Added(file, file', l) /\ ~HasTorn(file)
    BY <1>5
  <2>2. CASE y = k
    BY <1>3, <1>4, <1>5, <1>6, <2>1, <2>2, TellsAdded DEF Statuses
  <2>3. CASE y # k
    <3>1. Tells(file, Len(file) + 1, y, now, mem[y].hash, mem[y].expires, Statuses)
      BY <1>1, <1>6, <2>1, <2>3 DEF FileInv, MemKept, Live
    <3>2. Tells(file', Len(file') + 1, y, now, mem[y].hash, mem[y].expires, Statuses)
      BY <1>4, <1>5, <2>1, <2>3, <3>1, TellsGrown DEF Grown
    <3> QED
      BY <1>6, <2>3, <3>2
  <2> QED
    BY <2>2, <2>3
<1>11. InFile'
  <2> SUFFICES ASSUME attached, ~HasTorn(file'), NEW y \in Keys, mem'[y] # NoRec
               PROVE  \E i \in 1 .. Len(file') : Inserts(file', y, i)
    BY <1>2 DEF InFile
  <2>1. Added(file, file', l) /\ ~HasTorn(file)
    BY <1>5
  <2>2. CASE y = k
    <3>1. Len(file') \in 1 .. Len(file') /\ Inserts(file', k, Len(file'))
      BY <1>4, <1>5, <2>1, TellsAdded DEF Inserts
    <3> QED
      BY <2>2, <3>1
  <2>3. CASE y # k
    <3>1. \E i \in 1 .. Len(file) : Inserts(file, y, i)
      BY <1>1, <1>6, <2>1, <2>3 DEF FileInv, InFile
    <3> QED
      BY <1>5, <2>1, <3>1, InsertGrown DEF Grown
  <2> QED
    BY <2>2, <2>3
<1>12. NoOrphan'
  <2>1. Grown(file, file', l)
    BY <1>5 DEF Grown
  <2> QED
    BY <1>4, <1>5, <2>1, NoOrphanGrown DEF FileInv, NoOrphan
<1>13. AdriftInv'
  BY <1>1, <1>2 DEF FileInv, AdriftInv
<1> QED
  BY <1>1, <1>7, <1>8, <1>9, <1>10, <1>11, <1>12, <1>13, UpHolds DEF FileInv

(* An insert that failed confirms nothing and hides nothing. *)
LEMMA TryInsertFailsStep ==
    ASSUME TypeInv, TypeInv', FileInv, RecordsHold, NEW k \in Keys, NEW h \in Hashes,
           TryInsertFails(k, h)
    PROVE  FileInv' /\ ReplayInv' /\ RecordsHold'
<1> DEFINE l == InsertLine(k, New(h))
<1>1. /\ state = "up" /\ state' = "up" /\ ~Live(k)
      /\ UNCHANGED <<mem, now, acked, tried, mine>>
  BY DEF TryInsertFails, historyVars
<1>2. WriteFails(l) /\ attached' = attached /\ adrift' = adrift
  BY DEF TryInsertFails, WriteFails
<1>3. l \in LineSet /\ Sensible(l) /\ l.tag = "Insert" /\ l.key = k /\ l.rec = New(h)
  BY NewFacts, LineTypes
<1> HIDE DEF l
<1>4. /\ GoodFile(file) /\ GoodFile(file') /\ (HasTorn(file) => HasTorn(file'))
      /\ Grown(file, file', l)
      /\ ~attached => file' = file
  BY <1>2, <1>3, TypeFacts, WriteFailsFacts
<1>5. SurvivesNext
  BY <1>1, <1>2, SurvivesNow DEF SurvivesNext, RecordsHold
<1>6. RunningIsMine'
  BY <1>1 DEF RecordsHold, RunningIsMine
<1>7. AckKept'
  <2> SUFFICES ASSUME ~HasTorn(file'),
                      NEW y \in Keys, y \notin adrift', acked[y] # NoRec, acked[y].expires >= now
               PROVE  Tells(file', Len(file') + 1, y, now, acked[y].hash, acked[y].expires,
                            AllowedBy(tried[y], acked[y]))
    BY <1>1 DEF AckKept, Allowed
  <2>1. y # k
    BY <1>1, <1>2, SurvivesNow DEF RecordsHold
  <2>2. Tells(file, Len(file) + 1, y, now, acked[y].hash, acked[y].expires,
              AllowedBy(tried[y], acked[y]))
    BY <1>2, <1>4 DEF FileInv, AckKept, Allowed
  <2> QED
    BY <1>3, <1>4, <2>1, <2>2, TellsGrown
<1>8. MemKept'
  <2> SUFFICES ASSUME attached, ~HasTorn(file'), NEW y \in Keys, mem[y] # NoRec, mem[y].expires >= now
               PROVE  Tells(file', Len(file') + 1, y, now, mem[y].hash, mem[y].expires, Statuses)
    BY <1>1, <1>2 DEF MemKept, Live
  <2>1. y # k
    BY <1>1 DEF Live
  <2>2. Tells(file, Len(file) + 1, y, now, mem[y].hash, mem[y].expires, Statuses)
    BY <1>1, <1>4 DEF FileInv, MemKept, Live
  <2> QED
    BY <1>3, <1>4, <2>1, <2>2, TellsGrown
<1>9. InFile'
  <2> SUFFICES ASSUME attached, ~HasTorn(file'), NEW y \in Keys, mem[y] # NoRec
               PROVE  \E i \in 1 .. Len(file') : Inserts(file', y, i)
    BY <1>1, <1>2 DEF InFile
  <2>1. \E i \in 1 .. Len(file) : Inserts(file, y, i)
    BY <1>1, <1>4 DEF FileInv, InFile
  <2> QED
    BY <1>4, <2>1, InsertGrown
<1>10. NoOrphan'
  BY <1>3, <1>4, NoOrphanGrown DEF FileInv, NoOrphan
<1>11. AdriftInv'
  BY <1>1, <1>2 DEF FileInv, AdriftInv
<1> QED
  BY <1>1, <1>5, <1>6, <1>7, <1>8, <1>9, <1>10, <1>11, UpHolds DEF FileInv

(* A settlement that is confirmed is kept. *)
LEMMA SettleStep ==
    ASSUME TypeInv, TypeInv', FileInv, RecordsHold, NEW k \in Keys, NEW r \in Results, Settle(k, r)
    PROVE  FileInv' /\ ReplayInv' /\ RecordsHold'
<1> DEFINE l == SettleLine(k, r)
           s == [mem[k] EXCEPT !.status = r]
<1>1. /\ state = "up" /\ state' = "up" /\ now' = now /\ mem[k] # NoRec
      /\ mem' = [mem EXCEPT ![k] = s] /\ acked' = [acked EXCEPT ![k] = mem'[k]]
      /\ tried' = [tried EXCEPT ![k] = {}] /\ mine' = mine
  BY DEF Settle
<1>2. Write(l) /\ attached' = attached /\ adrift' = IF attached THEN adrift ELSE adrift \cup {k}
  BY DEF Settle, Write, Confirm
<1>3. s \in Real /\ s.hash = mem[k].hash /\ s.expires = mem[k].expires /\ s.status = r
      /\ r # "Running" /\ mem[k] \in Recs
  BY <1>1, WithStatus, TypeFacts, JournalAssumption DEF Statuses
<1>4. l \in LineSet /\ Sensible(l) /\ l.tag = "Settle" /\ l.key = k /\ l.rec.status = r
  BY LineTypes
<1> HIDE DEF l, s
<1>5. /\ GoodFile(file) /\ GoodFile(file') /\ (HasTorn(file) => HasTorn(file'))
      /\ attached => HasTorn(file') \/ Added(file, file', l)
      /\ ~attached => file' = file
  BY <1>2, <1>4, TypeFacts, WriteFacts
<1>6. \A y \in Keys : /\ y # k => mem'[y] = mem[y] /\ acked'[y] = acked[y] /\ tried'[y] = tried[y]
                      /\ mem'[k] = s /\ acked'[k] = s /\ tried'[k] = {}
  BY <1>1, TypeFacts
<1>7. SurvivesNext
  <2> SUFFICES ASSUME NEW y \in Keys, acked'[y] # NoRec, acked'[y].expires >= now'
               PROVE  Match(mem'[y], acked'[y], tried'[y])
    BY DEF SurvivesNext
  <2>1. CASE y = k
    BY <1>3, <1>6, <2>1 DEF Match, AllowedBy
  <2>2. CASE y # k
    BY <1>1, <1>2, <1>6, <2>2, SurvivesNow DEF RecordsHold
  <2> QED
    BY <2>1, <2>2
<1>8. RunningIsMine'
  BY <1>1, <1>3, <1>6 DEF RecordsHold, RunningIsMine
<1>9. ASSUME attached, ~HasTorn(file'), mem[k].expires >= now, NEW A, r \in A
      PROVE  Tells(file', Len(file') + 1, k, now, s.hash, s.expires, A)
  <2>1. Added(file, file', l) /\ ~HasTorn(file)
    BY <1>5, <1>9
  <2>2. Tells(file, Len(file) + 1, k, now, s.hash, s.expires, Statuses)
    BY <1>1, <1>3, <1>9, <2>1 DEF FileInv, MemKept, Live
  <2> QED
    BY <1>4, <1>5, <1>9, <2>1, <2>2, TellsAdded
<1>10. AckKept'
  <2> SUFFICES ASSUME ~HasTorn(file'),
                      NEW y \in Keys, y \notin adrift', acked'[y] # NoRec, acked'[y].expires >= now
               PROVE  Tells(file', Len(file') + 1, y, now, acked'[y].hash, acked'[y].expires,
                            AllowedBy(tried'[y], acked'[y]))
    BY <1>1 DEF AckKept, Allowed
  <2>1. ~HasTorn(file) /\ y \notin adrift /\ (y = k => attached) /\ Grown(file, file', l)
    BY <1>2, <1>5 DEF Grown
  <2>2. CASE y = k
    <3>1. r \in AllowedBy(tried'[y], acked'[y])
      BY <1>3, <1>6, <2>2 DEF AllowedBy
    <3>2. mem[k].expires >= now
      BY <1>3, <1>6, <2>2
    <3> QED
      BY <1>6, <1>9, <2>1, <2>2, <3>1, <3>2
  <2>3. CASE y # k
    <3>1. Tells(file, Len(file) + 1, y, now, acked[y].hash, acked[y].expires,
                AllowedBy(tried[y], acked[y]))
      BY <1>1, <1>6, <2>1, <2>3 DEF FileInv, AckKept, Allowed
    <3>2. Tells(file', Len(file') + 1, y, now, acked[y].hash, acked[y].expires,
                AllowedBy(tried[y], acked[y]))
      BY <1>4, <1>5, <2>1, <2>3, <3>1, TellsGrown
    <3> QED
      BY <1>6, <2>3, <3>2
  <2> QED
    BY <2>2, <2>3
<1>11. MemKept'
  <2> SUFFICES ASSUME attached, ~HasTorn(file'), NEW y \in Keys, mem'[y] # NoRec, mem'[y].expires >= now
               PROVE  Tells(file', Len(file') + 1, y, now, mem'[y].hash, mem'[y].expires, Statuses)
    BY <1>1, <1>2 DEF MemKept, Live
  <2>1. Added(file, file', l) /\ ~HasTorn(file)
    BY <1>5
  <2>2. CASE y = k
    BY <1>3, <1>6, <1>9, <2>2 DEF Statuses
  <2>3. CASE y # k
    <3>1. Tells(file, Len(file) + 1, y, now, mem[y].hash, mem[y].expires, Statuses)
      BY <1>1, <1>6, <2>1, <2>3 DEF FileInv, MemKept, Live
    <3>2. Tells(file', Len(file') + 1, y, now, mem[y].hash, mem[y].expires, Statuses)
      BY <1>4, <1>5, <2>1, <2>3, <3>1, TellsGrown DEF Grown
    <3> QED
      BY <1>6, <2>3, <3>2
  <2> QED
    BY <2>2, <2>3
<1>12. attached /\ ~HasTorn(file) => \E i \in 1 .. Len(file) : Inserts(file, k, i)
  BY <1>1 DEF FileInv, InFile
<1>13. InFile'
  <2> SUFFICES ASSUME attached, ~HasTorn(file'), NEW y \in Keys, mem'[y] # NoRec
               PROVE  \E i \in 1 .. Len(file') : Inserts(file', y, i)
    BY <1>2 DEF InFile
  <2>1. Added(file, file', l) /\ ~HasTorn(file)
    BY <1>5
  <2>2. mem[y] # NoRec
    BY <1>1, <1>6
  <2>3. \E i \in 1 .. Len(file) : Inserts(file, y, i)
    BY <1>1, <2>1, <2>2 DEF FileInv, InFile
  <2> QED
    BY <1>5, <2>1, <2>3, InsertGrown DEF Grown
<1>14. NoOrphan'
  <2>1. Grown(file, file', l)
    BY <1>5 DEF Grown
  <2>2. file' # file /\ ~HasTorn(file) => \E i \in 1 .. Len(file) : Inserts(file, l.key, i)
    BY <1>4, <1>5, <1>12
  <2> QED
    BY <1>5, <2>1, <2>2, NoOrphanGrown DEF FileInv, NoOrphan
<1>15. AdriftInv'
  BY <1>1, <1>2 DEF FileInv, AdriftInv
<1> QED
  BY <1>1, <1>7, <1>8, <1>10, <1>11, <1>13, <1>14, <1>15, UpHolds DEF FileInv

(* A settlement that failed may be read back, but hides nothing. *)
LEMMA SettleFailsStep ==
    ASSUME TypeInv, TypeInv', FileInv, RecordsHold, NEW k \in Keys, NEW r \in Results,
           SettleFails(k, r)
    PROVE  FileInv' /\ ReplayInv' /\ RecordsHold'
<1> DEFINE l == SettleLine(k, r)
<1>1. /\ state = "up" /\ state' = "up" /\ mem[k] # NoRec
      /\ tried' = [tried EXCEPT ![k] = tried[k] \cup {r}]
      /\ UNCHANGED <<mem, now, acked, mine>>
  BY DEF SettleFails
<1>2. WriteFails(l) /\ attached' = attached /\ adrift' = adrift
  BY DEF SettleFails, WriteFails
<1>3. l \in LineSet /\ Sensible(l) /\ l.tag = "Settle" /\ l.key = k /\ l.rec.status = r
  BY LineTypes
<1> HIDE DEF l
<1>4. /\ GoodFile(file) /\ GoodFile(file') /\ (HasTorn(file) => HasTorn(file'))
      /\ Grown(file, file', l)
      /\ ~attached => file' = file
  BY <1>2, <1>3, TypeFacts, WriteFailsFacts
<1>5. \A y \in Keys : AllowedBy(tried[y], acked[y]) \subseteq AllowedBy(tried'[y], acked[y])
  BY <1>1, TypeFacts DEF AllowedBy
<1>6. r \in AllowedBy(tried'[k], acked[k]) /\ r \in Statuses
  BY <1>1, TypeFacts DEF AllowedBy, Statuses
<1>7. SurvivesNext
  <2> SUFFICES ASSUME NEW y \in Keys, acked[y] # NoRec, acked[y].expires >= now
               PROVE  Match(mem[y], acked[y], tried'[y])
    BY <1>1, <1>2 DEF SurvivesNext
  <2>1. Match(mem[y], acked[y], tried[y])
    BY <1>1, SurvivesNow DEF RecordsHold
  <2> QED
    BY <1>5, <2>1 DEF Match
<1>8. RunningIsMine'
  BY <1>1 DEF RecordsHold, RunningIsMine
<1>9. ASSUME ~HasTorn(file'), NEW y \in Keys, NEW h, NEW x, NEW A, NEW B, A \subseteq B,
             y = k => r \in B, Tells(file, Len(file) + 1, y, now, h, x, A)
      PROVE  Tells(file', Len(file') + 1, y, now, h, x, B)
  <2>1. now \in Nat /\ now <= now
    BY TypeFacts
  <2>2. CASE y # k
    <3>1. Tells(file', Len(file') + 1, y, now, h, x, A)
      BY <1>3, <1>4, <1>9, <2>2, TellsGrown
    <3>2. PICK p : p = Len(file') + 1
      OBVIOUS
    <3> QED
      BY <1>4, <1>9, <2>1, <3>1, <3>2, TellsWeaker
  <2>3. CASE y = k /\ file' = file
    <3>1. PICK p : p = Len(file') + 1
      OBVIOUS
    <3> QED
      BY <1>4, <1>9, <2>1, <2>3, <3>1, TellsWeaker
  <2>4. CASE y = k /\ Added(file, file', l)
    BY <1>3, <1>4, <1>9, <2>4, TellsAdded
  <2> QED
    BY <1>4, <1>9, <2>2, <2>3, <2>4 DEF Grown
<1>10. AckKept'
  <2> SUFFICES ASSUME ~HasTorn(file'),
                      NEW y \in Keys, y \notin adrift', acked[y] # NoRec, acked[y].expires >= now
               PROVE  Tells(file', Len(file') + 1, y, now, acked[y].hash, acked[y].expires,
                            AllowedBy(tried'[y], acked[y]))
    BY <1>1 DEF AckKept, Allowed
  <2>1. Tells(file, Len(file) + 1, y, now, acked[y].hash, acked[y].expires,
              AllowedBy(tried[y], acked[y]))
    BY <1>2, <1>4 DEF FileInv, AckKept, Allowed
  <2> QED
    BY <1>5, <1>6, <1>9, <2>1
<1>11. MemKept'
  <2> SUFFICES ASSUME attached, ~HasTorn(file'), NEW y \in Keys, mem[y] # NoRec, mem[y].expires >= now
               PROVE  Tells(file', Len(file') + 1, y, now, mem[y].hash, mem[y].expires, Statuses)
    BY <1>1, <1>2 DEF MemKept, Live
  <2>1. Tells(file, Len(file) + 1, y, now, mem[y].hash, mem[y].expires, Statuses)
    BY <1>1, <1>4 DEF FileInv, MemKept, Live
  <2> QED
    BY <1>6, <1>9, <2>1
<1>12. attached /\ ~HasTorn(file) => \A y \in Keys : mem[y] # NoRec =>
          \E i \in 1 .. Len(file) : Inserts(file, y, i)
  BY <1>1 DEF FileInv, InFile
<1>13. InFile'
  <2> SUFFICES ASSUME attached, ~HasTorn(file'), NEW y \in Keys, mem[y] # NoRec
               PROVE  \E i \in 1 .. Len(file') : Inserts(file', y, i)
    BY <1>1, <1>2 DEF InFile
  <2>1. \E i \in 1 .. Len(file) : Inserts(file, y, i)
    BY <1>4, <1>12
  <2> QED
    BY <1>4, <2>1, InsertGrown
<1>14. NoOrphan'
  <2>1. file' # file /\ ~HasTorn(file) => \E i \in 1 .. Len(file) : Inserts(file, l.key, i)
    BY <1>1, <1>3, <1>4, <1>12
  <2> QED
    BY <1>4, <2>1, NoOrphanGrown DEF FileInv, NoOrphan
<1>15. AdriftInv'
  BY <1>1, <1>2 DEF FileInv, AdriftInv
<1> QED
  BY <1>1, <1>7, <1>8, <1>10, <1>11, <1>13, <1>14, <1>15, UpHolds DEF FileInv

(* The reopen fails after the rename: the file tells of every confirmed     *)
(* record, as after any compaction, but the handle is not its own.          *)
LEMMA DetachedKeeps ==
    ASSUME TypeInv, TypeInv', NEW e \in [Keys -> Recs], Compacted(e, file'), attached' = FALSE,
           adrift' = {}, UNCHANGED <<now, acked, tried>>,
           \A k \in Keys : acked[k] # NoRec /\ acked[k].expires >= now => Match(e[k], acked[k], tried[k])
    PROVE  FileInv'
<1>1. /\ GoodFile(file') /\ ~HasTorn(file') /\ NoOrphanIn(file')
      /\ \A k \in Kept(e) :
            Tells(file', Len(file') + 1, k, now, e[k].hash, e[k].expires, {e[k].status})
  BY CompactedFacts
<1>2. AckKept'
  <2> SUFFICES ASSUME NEW k \in Keys, acked[k] # NoRec, acked[k].expires >= now
               PROVE  Tells(file', Len(file') + 1, k, now, acked[k].hash, acked[k].expires,
                            AllowedBy(tried[k], acked[k]))
    BY DEF AckKept, Allowed
  <2>1. /\ e[k].hash = acked[k].hash /\ e[k].expires = acked[k].expires
        /\ e[k].status \in AllowedBy(tried[k], acked[k])
    BY DEF Match
  <2>2. e[k] # NoRec
    BY MatchFacts, TypeFacts
  <2>3. k \in Kept(e)
    BY <2>1, <2>2 DEF Kept
  <2>4. PICK p, h, x, A, B : /\ p = Len(file') + 1 /\ h = acked[k].hash /\ x = acked[k].expires
                             /\ A = {e[k].status} /\ B = AllowedBy(tried[k], acked[k])
    OBVIOUS
  <2>5. Tells(file', Len(file') + 1, k, now, e[k].hash, e[k].expires, {e[k].status})
    BY <1>1, <2>3
  <2>6. Tells(file', p, k, now, h, x, A)
    BY <2>1, <2>4, <2>5
  <2>7. A \subseteq B
    BY <2>1, <2>4
  <2>8. now \in Nat /\ now <= now
    BY TypeFacts
  <2>9. Tells(file', p, k, now, h, x, B)
    BY <1>1, <2>6, <2>7, <2>8, TellsWeaker
  <2> QED
    BY <2>4, <2>9
<1>3. ~attached'
  BY Zenon
<1>4. MemKept' /\ InFile'
  BY <1>3 DEF MemKept, InFile
<1>5. NoOrphan'
  BY <1>1 DEF NoOrphan
<1> QED
  BY <1>2, <1>4, <1>5 DEF FileInv, AdriftInv

(* What a purge drops has expired, and the compacted file tells the rest. *)
LEMMA PurgeStep ==
    ASSUME TypeInv, TypeInv', FileInv, RecordsHold, PurgeExpired
    PROVE  FileInv' /\ ReplayInv' /\ RecordsHold'
<1>1. /\ state = "up" /\ state' = "up" /\ mem' = Retained(mem)
      /\ UNCHANGED <<now, acked, tried, mine>>
  BY DEF PurgeExpired, historyVars
<1>2. /\ mem' \in [Keys -> Recs] /\ \A k \in Keys : mem'[k] \in {mem[k], NoRec}
      /\ \A k \in Keys : mem[k].expires >= now => mem'[k] = mem[k]
      /\ \A k \in Keys : mem'[k] # NoRec => mem'[k] = mem[k] /\ mem'[k].expires >= now
  BY <1>1, TypeFacts, EntryFacts DEF Retained
<1>3. SurvivesNext
  <2> SUFFICES ASSUME NEW y \in Keys, acked[y] # NoRec, acked[y].expires >= now
               PROVE  Match(mem'[y], acked[y], tried[y])
    BY <1>1 DEF SurvivesNext
  <2>1. Match(mem[y], acked[y], tried[y]) /\ mem[y].expires >= now
    BY <1>1, SurvivesNow DEF RecordsHold, Live
  <2> QED
    BY <1>2, <2>1
<1>4. RunningIsMine'
  BY <1>1, <1>2, NoReplayFacts DEF RecordsHold, RunningIsMine
<1>5. ReplayInv' /\ RecordsHold'
  BY <1>1, <1>3, <1>4, UpHolds
<1>6. CASE CompactOk(mem')
  <2>1. Compacted(mem', file') /\ adrift' = {}
    BY <1>6 DEF CompactOk
  <2>2. FileInv'
    BY <1>1, <1>2, <1>3, <2>1, CompactKeeps
  <2> QED
    BY <1>5, <2>2
<1>7. CASE UNCHANGED <<file, attached, adrift>>
  <2>1. AckKept' /\ NoOrphan' /\ AdriftInv'
    BY <1>1, <1>7 DEF FileInv, AckKept, NoOrphan, Allowed, AdriftInv
  <2>2. MemKept' /\ InFile'
    BY <1>1, <1>2, <1>7 DEF FileInv, MemKept, InFile, Live
  <2> QED
    BY <1>5, <2>1, <2>2 DEF FileInv
<1>8. CASE Compacted(mem', file') /\ attached' = FALSE /\ adrift' = {}
  <2>1. \A k \in Keys : acked[k] # NoRec /\ acked[k].expires >= now =>
          Match(mem'[k], acked[k], tried[k])
    BY <1>1, <1>3 DEF SurvivesNext
  <2>2. FileInv'
    BY <1>1, <1>2, <1>8, <2>1, DetachedKeeps
  <2> QED
    BY <1>5, <2>2
<1> QED
  BY <1>6, <1>7, <1>8 DEF PurgeExpired, CompactFails, fileVars

-----------------------------------------------------------------------------
(* The steps of open *)

(* While the journal is not up, only what was confirmed is compared with    *)
(* the file, and no record is Running.                                      *)
LEMMA NotUpHolds ==
    ASSUME state' # "up", RunningIsMine', OpensAgain' PROVE RecordsHold'
BY DEF RecordsHold, AckedSurvive

(* Nothing has been read when open starts. *)
LEMMA OpenStartStep ==
    ASSUME TypeInv, FileInv, RecordsHold, OpenStart
    PROVE  FileInv' /\ ReplayInv' /\ RecordsHold'
<1>1. /\ state = "down" /\ state' = "opening" /\ replay' = NoReplay
      /\ UNCHANGED <<file, attached, mem, now, acked, tried, mine, adrift>>
  BY DEF OpenStart, fileVars, historyVars
<1>2. FileInv'
  BY <1>1, FileSame
<1>3. Len(file') \in Nat /\ \A i \in 1 .. Len(file') : ~(i < 1)
  BY <1>1, TypeFacts
<1>4. replay'.next = 1 /\ \A k \in Keys : replay'.entries[k] = NoRec
  BY <1>1, NoReplayFacts
<1>5. EntriesTrue' /\ ExpiredTrue'
  BY <1>3, <1>4 DEF EntriesTrue, ExpiredTrue
<1>6. ReplayInv'
  BY <1>3, <1>4, <1>5 DEF ReplayInv
<1>7. RunningIsMine' /\ OpensAgain'
  BY <1>1 DEF RecordsHold, RunningIsMine, OpensAgain
<1> QED
  BY <1>1, <1>2, <1>6, <1>7, NotUpHolds

(* A line was read: what remains is to compare the new locals with it.      *)
LEMMA ReadStep ==
    ASSUME TypeInv, FileInv, ReplayInv, RecordsHold, state = "opening", replay.next <= Len(file),
           Current.tag # "Torn", NEW e, NEW x, NEW c, Read(e, x, c),
           EntriesTrue', ExpiredTrue'
    PROVE  FileInv' /\ ReplayInv' /\ RecordsHold'
<1>1. /\ state' = "opening" /\ replay'.next = replay.next + 1
      /\ UNCHANGED <<file, attached, mem, now, acked, tried, mine, adrift>>
  BY DEF Read, fileVars, historyVars
<1>2. FileInv'
  BY <1>1, FileSame
<1>3. replay'.next <= Len(file) + 1
  BY <1>1, TypeFacts
<1>4. \A i \in 1 .. Len(file) : i < replay'.next => file[i].tag # "Torn"
  <2> SUFFICES ASSUME NEW i \in 1 .. Len(file), i < replay.next + 1 PROVE file[i].tag # "Torn"
    BY <1>1
  <2>1. i < replay.next \/ i = replay.next
    BY TypeFacts
  <2> QED
    BY <2>1 DEF ReplayInv, Current
<1>5. ReplayInv'
  BY <1>1, <1>3, <1>4 DEF ReplayInv
<1>6. RunningIsMine' /\ OpensAgain'
  BY <1>1 DEF RecordsHold, RunningIsMine, OpensAgain
<1> QED
  BY <1>1, <1>2, <1>5, <1>6, NotUpHolds

(* The entries, once more: for key k, up to line p.                         *)
EntryTrue(f, p, t, k, r) ==
    IF r # NoRec
    THEN r.expires >= t /\ Tells(f, p, k, t, r.hash, r.expires, {r.status})
    ELSE \A i \in 1 .. Len(f) : i < p /\ Inserts(f, k, i) => f[i].rec.expires < t

KeyTrue(f, p, k, r, x) ==
    r = NoRec /\ k \notin x =>
        \/ \A i \in 1 .. Len(f) : i < p => ~Inserts(f, k, i)
        \/ \E i \in 1 .. Len(f) : i < p /\ Settles(f, k, i)

(* A line that says nothing of a key, or a Settle without entry, leaves the
   entry true. *)
LEMMA EntryOn ==
    ASSUME NEW f, NEW p \in 1 .. Len(f), Len(f) \in Nat, NEW t, NEW k, NEW r,
           EntryTrue(f, p, t, k, r)
    PROVE  /\ Silent(f, k, t, p) => EntryTrue(f, p + 1, t, k, r)
           /\ r = NoRec /\ Settles(f, k, p) => EntryTrue(f, p + 1, t, k, r)
<1>1. \A m \in 1 .. Len(f) : m < p + 1 => m < p \/ m = p
  OBVIOUS
<1>2. CASE r # NoRec
  BY <1>2, TellsOn DEF EntryTrue
<1>3. CASE r = NoRec
  BY <1>1, <1>3 DEF EntryTrue, Silent, Settles, Inserts
<1> QED
  BY <1>2, <1>3

(* A line that is no Insert of a key leaves the list of expired keys true. *)
LEMMA KeyOn ==
    ASSUME NEW f, NEW p \in 1 .. Len(f), Len(f) \in Nat, NEW k, NEW r, NEW x,
           KeyTrue(f, p, k, r, x), ~Inserts(f, k, p)
    PROVE  KeyTrue(f, p + 1, k, r, x)
<1>1. \A m \in 1 .. Len(f) : m < p + 1 => m < p \/ m = p
  OBVIOUS
<1>2. \A m \in 1 .. Len(f) : m < p => m < p + 1
  OBVIOUS
<1> QED
  BY <1>1, <1>2 DEF KeyTrue

(* What the invariant says of one key while the file is read. *)
LEMMA ReplayNow ==
    ASSUME TypeInv, ReplayInv, state = "opening", NEW k \in Keys
    PROVE  /\ EntryTrue(file, replay.next, now, k, replay.entries[k])
           /\ KeyTrue(file, replay.next, k, replay.entries[k], replay.expired)
BY DEF ReplayInv, EntriesTrue, ExpiredTrue, EntryTrue, KeyTrue

(* What has to be shown of the line open has read.                          *)
LEMMA ReadHolds ==
    ASSUME TypeInv, FileInv, ReplayInv, RecordsHold, state = "opening", replay.next <= Len(file),
           Current.tag # "Torn", NEW e, NEW x, NEW c, Read(e, x, c),
           \A k \in Keys : /\ EntryTrue(file, replay.next + 1, now, k, e[k])
                           /\ KeyTrue(file, replay.next + 1, k, e[k], x)
    PROVE  FileInv' /\ ReplayInv' /\ RecordsHold'
<1>1. /\ replay'.next = replay.next + 1 /\ replay'.entries = e /\ replay'.expired = x
      /\ file' = file /\ now' = now
  BY DEF Read, fileVars
<1>2. EntriesTrue'
  BY <1>1 DEF EntriesTrue, EntryTrue
<1>3. ExpiredTrue'
  BY <1>1 DEF ExpiredTrue, KeyTrue
<1> QED
  BY <1>2, <1>3, ReadStep

(* One more line is read. *)
LEMMA ReplayReadStep ==
    ASSUME TypeInv, FileInv, ReplayInv, RecordsHold,
           ReplayExpired \/ ReplayInsert \/ ReplaySettle \/ ReplaySettleExpired
    PROVE  FileInv' /\ ReplayInv' /\ RecordsHold'
<1>1. state = "opening" /\ replay.next <= Len(file)
  BY DEF ReplayExpired, ReplayInsert, ReplaySettle, ReplaySettleExpired, Reading
<1>2. PICK p \in 1 .. Len(file) : p = replay.next
  BY <1>1, CurrentFacts
<1>3. Current = file[p] /\ Len(file) \in Nat /\ replay.entries \in [Keys -> Recs]
  BY <1>1, <1>2, CurrentFacts, TypeFacts
<1>4. \A k \in Keys : /\ EntryTrue(file, p, now, k, replay.entries[k])
                      /\ KeyTrue(file, p, k, replay.entries[k], replay.expired)
  BY <1>1, <1>2, ReplayNow
<1>5. \A k \in Keys : Current.key # k => Silent(file, k, now, p) /\ ~Inserts(file, k, p)
  BY <1>3 DEF Silent, Settles, Inserts
<1>6. \A k \in Keys : Current.key # k =>
        /\ EntryTrue(file, p + 1, now, k, replay.entries[k])
        /\ KeyTrue(file, p + 1, k, replay.entries[k], replay.expired)
  BY <1>3, <1>4, <1>5, EntryOn, KeyOn
<1>7. CASE ReplayExpired
  <2> DEFINE x == replay.expired \cup {Current.key}
  <2>1. /\ Current.tag = "Insert" /\ Current.rec.expires < now
        /\ Read(replay.entries, x, TRUE)
    BY <1>7 DEF ReplayExpired, Reading
  <2>2. \A k \in Keys : Silent(file, k, now, p)
    BY <1>3, <2>1 DEF Silent, Settles, Inserts
  <2>3. \A k \in Keys : EntryTrue(file, p + 1, now, k, replay.entries[k])
    BY <1>3, <1>4, <2>2, EntryOn
  <2>4. \A k \in Keys : KeyTrue(file, p + 1, k, replay.entries[k], x)
    BY <1>6 DEF KeyTrue
  <2> QED
    BY <1>1, <1>2, <2>1, <2>3, <2>4, ReadHolds
<1>8. CASE ReplayInsert
  <2> DEFINE e == [replay.entries EXCEPT ![Current.key] = Current.rec]
  <2>1. /\ Current.tag = "Insert" /\ Current.rec.expires >= now
        /\ Read(e, replay.expired, replay.compact)
    BY <1>8 DEF ReplayInsert, Reading
  <2>2. Current.key \in Keys /\ Current.rec \in Recs /\ Current.rec # NoRec
    BY <1>1, <2>1, CurrentFacts, RealIsRec
  <2>3. e[Current.key] = Current.rec /\ \A k \in Keys : k # Current.key => e[k] = replay.entries[k]
    BY <1>3, <2>2
  <2> HIDE DEF e
  <2>4. Inserts(file, Current.key, p) /\ file[p].rec = Current.rec
    BY <1>3, <2>1 DEF Inserts
  <2>5. Tells(file, p + 1, Current.key, now, Current.rec.hash, Current.rec.expires, {Current.rec.status})
    <3>1. file[p].rec.status \in {Current.rec.status}
      BY <2>4
    <3>2. Tells(file, p + 1, Current.key, now, file[p].rec.hash, file[p].rec.expires, {Current.rec.status})
      BY <1>3, <2>4, <3>1, TellsInsert
    <3> QED
      BY <2>4, <3>2
  <2>6. EntryTrue(file, p + 1, now, Current.key, Current.rec)
    BY <2>1, <2>2, <2>5 DEF EntryTrue
  <2>7. \A k \in Keys : EntryTrue(file, p + 1, now, k, e[k])
    BY <1>6, <2>3, <2>6
  <2>8. \A k \in Keys : KeyTrue(file, p + 1, k, e[k], replay.expired)
    BY <1>6, <2>2, <2>3 DEF KeyTrue
  <2> QED
    BY <1>1, <1>2, <2>1, <2>7, <2>8, ReadHolds
<1>9. CASE ReplaySettle
  <2> DEFINE k0 == Current.key
             r0 == replay.entries[k0]
             r1 == [r0 EXCEPT !.status = Current.rec.status]
             e == [replay.entries EXCEPT ![k0].status = Current.rec.status]
  <2>1. /\ Current.tag = "Settle" /\ r0 # NoRec /\ Read(e, replay.expired, replay.compact)
    BY <1>9 DEF ReplaySettle, Reading
  <2>2. k0 \in Keys /\ Current.rec.status \in Statuses /\ r0 \in Recs
    BY <1>1, <1>3, <2>1, CurrentFacts DEF Statuses
  <2>3. e[k0] = r1 /\ \A k \in Keys : k # k0 => e[k] = replay.entries[k]
    BY <1>3, <2>2
  <2>4. r1 \in Real /\ r1.hash = r0.hash /\ r1.expires = r0.expires /\ r1.status = Current.rec.status
    BY <2>1, <2>2, WithStatus
  <2>5. r1 # NoRec
    BY <2>4, RealIsRec
  <2>6. EntryTrue(file, p, now, k0, r0)
    BY <1>4, <2>2
  <2>7. Settles(file, k0, p) /\ file[p].rec.status \in {Current.rec.status}
    BY <1>3, <2>1 DEF Settles
  <2> HIDE DEF e, r1, r0, k0
  <2>8. r0.expires >= now /\ Tells(file, p, k0, now, r0.hash, r0.expires, {r0.status})
    BY <2>1, <2>6 DEF EntryTrue
  <2>9. Tells(file, p + 1, k0, now, r0.hash, r0.expires, {Current.rec.status})
    BY <1>3, <2>7, <2>8, TellsSettle
  <2>10. EntryTrue(file, p + 1, now, k0, r1)
    BY <2>4, <2>5, <2>8, <2>9 DEF EntryTrue
  <2>11. \A k \in Keys : EntryTrue(file, p + 1, now, k, e[k])
    BY <1>6, <2>3, <2>10 DEF k0
  <2>12. \A k \in Keys : KeyTrue(file, p + 1, k, e[k], replay.expired)
    BY <1>6, <2>3, <2>5 DEF KeyTrue, k0
  <2> QED
    BY <1>1, <1>2, <2>1, <2>11, <2>12, ReadHolds
<1>10. CASE ReplaySettleExpired
  <2> DEFINE x == replay.expired \ {Current.key}
  <2>1. /\ Current.tag = "Settle" /\ replay.entries[Current.key] = NoRec
        /\ Read(replay.entries, x, replay.compact)
    BY <1>10 DEF ReplaySettleExpired, Reading
  <2>2. Current.key \in Keys /\ Settles(file, Current.key, p)
    BY <1>1, <1>3, <2>1, CurrentFacts DEF Settles
  <2>3. \A k \in Keys : EntryTrue(file, p + 1, now, k, replay.entries[k])
    BY <1>3, <1>4, <1>6, <2>1, <2>2, EntryOn
  <2>4. KeyTrue(file, p + 1, Current.key, replay.entries[Current.key], x)
    <3>1. p < p + 1
      OBVIOUS
    <3> QED
      BY <2>2, <3>1 DEF KeyTrue
  <2>5. \A k \in Keys : KeyTrue(file, p + 1, k, replay.entries[k], x)
    BY <1>6, <2>4 DEF KeyTrue
  <2> QED
    BY <1>1, <1>2, <2>1, <2>3, <2>5, ReadHolds
<1> QED
  BY <1>7, <1>8, <1>9, <1>10

(* The journal does not open: a torn line, or a second Settle.              *)
LEMMA CorruptStep ==
    ASSUME TypeInv, FileInv, ReplayInv, RecordsHold, ReplayTorn \/ ReplayOrphan
    PROVE  FileInv' /\ ReplayInv' /\ RecordsHold'
<1>1. /\ state = "opening" /\ replay.next <= Len(file) /\ state' = "corrupt"
      /\ UNCHANGED <<file, attached, mem, now, acked, tried, mine, adrift>>
  BY DEF ReplayTorn, ReplayOrphan, Reading, Corrupt, fileVars, historyVars
<1>2. PICK p \in 1 .. Len(file) : p = replay.next
  BY <1>1, CurrentFacts
<1>3. Current = file[p] /\ Len(file) \in Nat /\ DOMAIN file = 1 .. Len(file)
  BY <1>1, <1>2, CurrentFacts, TypeFacts, LenProperties DEF GoodFile
<1>4. FileInv'
  BY <1>1, FileSame
<1>5. ReplayInv' /\ RunningIsMine'
  BY <1>1 DEF ReplayInv, RecordsHold, RunningIsMine
<1>6. HasTorn(file) \/ \E i, j \in 1 .. Len(file) :
          i # j /\ file[i].tag = "Settle" /\ file[j].tag = "Settle" /\ file[i].key = file[j].key
  <2>1. CASE ReplayTorn
    BY <1>3, <2>1 DEF ReplayTorn, Reading, HasTorn
  <2>2. CASE ReplayOrphan /\ ~HasTorn(file)
    <3>1. Current.tag = "Settle" /\ replay.entries[Current.key] = NoRec
          /\ Current.key \notin replay.expired
      BY <2>2 DEF ReplayOrphan, Reading
    <3>2. Current.key \in Keys
      BY <1>1, <3>1, CurrentFacts
    <3>3. \E m \in 1 .. Len(file) : m < p /\ Inserts(file, Current.key, m)
      BY <1>3, <2>2, <3>1 DEF FileInv, NoOrphan, NoOrphanIn
    <3>4. \E i \in 1 .. Len(file) : i < p /\ Settles(file, Current.key, i)
      BY <1>1, <1>2, <3>1, <3>2, <3>3, ReplayNow DEF KeyTrue
    <3>5. PICK i \in 1 .. Len(file) : i < p /\ Settles(file, Current.key, i)
      BY <3>4
    <3>6. i # p /\ file[i].tag = "Settle" /\ file[p].tag = "Settle" /\ file[i].key = file[p].key
      BY <1>3, <3>1, <3>5 DEF Settles
    <3> QED
      BY <3>6
  <2> QED
    BY <2>1, <2>2
<1>7. OpensAgain'
  BY <1>1, <1>3, <1>6 DEF OpensAgain, HasTorn
<1> QED
  BY <1>1, <1>4, <1>5, <1>7, NotUpHolds

(* Two answers of the same lines are one.                                   *)
LEMMA TellsOnce ==
    ASSUME NEW f, GoodFile(f), NEW p, NEW k, NEW t \in Nat, NEW h, NEW x, NEW A, NEW g, NEW y, NEW B,
           Tells(f, p, k, t, h, x, A), Tells(f, p, k, t, g, y, B), x >= t, y >= t
    PROVE  h = g /\ x = y /\ \E st \in A : st \in B
<1>1. PICK i, j \in 1 .. Len(f) :
        /\ LastLive(f, p, k, t, i) /\ LastSays(f, p, k, i, j)
        /\ f[i].rec.hash = h /\ f[i].rec.expires = x /\ f[j].rec.status \in A
  BY DEF Tells
<1>2. PICK a, b \in 1 .. Len(f) :
        /\ LastLive(f, p, k, t, a) /\ LastSays(f, p, k, a, b)
        /\ f[a].rec.hash = g /\ f[a].rec.expires = y /\ f[b].rec.status \in B
  BY DEF Tells
<1>3. Len(f) \in Nat /\ i \in Nat /\ j \in Nat /\ a \in Nat /\ b \in Nat
  BY ElementOfSeq DEF GoodFile
<1>4. Inserts(f, k, i) /\ i < p /\ Inserts(f, k, a) /\ a < p
  BY <1>1, <1>2 DEF LastLive
<1>5. x \in Nat /\ y \in Nat
  BY <1>1, <1>2, <1>4, JournalAssumption DEF GoodFile, Sensible, Real, Deadline, Inserts
<1>6. ~(x < t) /\ ~(y < t)
  BY <1>5
<1>7. ~(i < a) /\ ~(a < i)
  BY <1>1, <1>2, <1>4, <1>6 DEF LastLive
<1>8. i = a
  BY <1>3, <1>7
<1>9. ~(j < b)
  <2> SUFFICES ASSUME j < b PROVE FALSE
    OBVIOUS
  <2>1. b # a /\ b < p
    BY <1>1, <1>2, <1>3, <1>8 DEF LastSays
  <2>2. Settles(f, k, b)
    BY <1>2, <2>1 DEF LastSays
  <2> QED
    BY <1>1, <2>1, <2>2 DEF LastSays
<1>10. ~(b < j)
  <2> SUFFICES ASSUME b < j PROVE FALSE
    OBVIOUS
  <2>1. j # i /\ j < p
    BY <1>1, <1>2, <1>3, <1>8 DEF LastSays
  <2>2. Settles(f, k, j)
    BY <1>1, <2>1 DEF LastSays
  <2> QED
    BY <1>2, <2>1, <2>2 DEF LastSays
<1>11. j = b
  BY <1>3, <1>9, <1>10
<1> QED
  BY <1>1, <1>2, <1>8, <1>11

(* The whole file has been read.                                            *)
LEMMA AllReadFacts ==
    ASSUME TypeInv, ReplayInv, AllRead
    PROVE  /\ state = "opening" /\ replay.next = Len(file) + 1 /\ ~HasTorn(file)
           /\ \A k \in Keys : EntryTrue(file, Len(file) + 1, now, k, replay.entries[k])
<1>1. state = "opening" /\ replay.next > Len(file) /\ replay.next <= Len(file) + 1
  BY DEF AllRead, ReplayInv
<1>2. replay.next = Len(file) + 1 /\ \A i \in 1 .. Len(file) : i < replay.next
  BY <1>1, TypeFacts
<1>3. ~HasTorn(file)
  BY <1>1, <1>2 DEF ReplayInv, HasTorn
<1> QED
  BY <1>1, <1>2, <1>3, ReplayNow

(* Open finds every confirmed record that has not expired.                  *)
LEMMA ReplayFound ==
    ASSUME TypeInv, FileInv, ReplayInv, AllRead,
           NEW k \in Keys, acked[k] # NoRec, acked[k].expires >= now
    PROVE  Match(Recovered(replay.entries)[k], acked[k], tried[k])
<1> DEFINE r == replay.entries[k]
           a == acked[k]
<1>1. /\ ~HasTorn(file) /\ EntryTrue(file, Len(file) + 1, now, k, r)
  BY AllReadFacts
<1>2. r \in Recs /\ a \in Recs /\ a # NoRec /\ a.expires >= now /\ tried[k] \in SUBSET Results
      /\ now \in Nat /\ GoodFile(file) /\ a.expires \in Nat
  BY TypeFacts, RecFacts
<1>3. Tells(file, Len(file) + 1, k, now, a.hash, a.expires, AllowedBy(tried[k], a))
  <2>1. adrift = {}
    BY AllReadFacts DEF FileInv, AdriftInv
  <2> QED
    BY <1>1, <2>1 DEF FileInv, AckKept, Allowed
<1>4. /\ Recovered(replay.entries)[k].hash = r.hash
      /\ Recovered(replay.entries)[k].expires = r.expires
      /\ Recovered(replay.entries)[k].status =
             IF r.status = "Running" THEN "Indeterminate" ELSE r.status
  BY TypeFacts, EntryFacts
<1> HIDE DEF r, a
<1>5. r # NoRec
  <2> SUFFICES ASSUME r = NoRec PROVE FALSE
    OBVIOUS
  <2>1. PICK i \in 1 .. Len(file) : LastLive(file, Len(file) + 1, k, now, i)
                                    /\ file[i].rec.expires = a.expires
    BY <1>3 DEF Tells
  <2>2. file[i].rec.expires < now
    BY <1>1, <2>1 DEF EntryTrue, LastLive
  <2> QED
    BY <1>2, <2>1, <2>2
<1>6. r.expires >= now /\ Tells(file, Len(file) + 1, k, now, r.hash, r.expires, {r.status})
  BY <1>1, <1>5 DEF EntryTrue
<1>7. r.hash = a.hash /\ r.expires = a.expires /\ \E st \in {r.status} : st \in AllowedBy(tried[k], a)
  <2>1. PICK p : p = Len(file) + 1
    OBVIOUS
  <2> QED
    BY <1>2, <1>3, <1>6, <2>1, TellsOnce
<1>8. CASE r.status = "Running"
  <2>1. "Indeterminate" \in AllowedBy(tried[k], a)
    BY <1>2, <1>7, <1>8, MatchFacts
  <2> QED
    BY <1>4, <1>7, <1>8, <2>1 DEF Match, a
<1>9. CASE r.status # "Running"
  BY <1>4, <1>7, <1>9 DEF Match, a
<1> QED
  BY <1>8, <1>9

(* The entries rebuilt from the whole file are the records that were
   confirmed. *)
LEMMA OpenOkStep ==
    ASSUME TypeInv, TypeInv', FileInv, ReplayInv, RecordsHold, OpenOk
    PROVE  FileInv' /\ ReplayInv' /\ RecordsHold'
<1>1. /\ AllRead /\ state' = "up" /\ mem' = Recovered(replay.entries) /\ mine' = {}
      /\ UNCHANGED <<now, acked, tried>>
  BY DEF OpenOk
<1>2. /\ ~HasTorn(file) /\ \A k \in Keys : EntryTrue(file, Len(file) + 1, now, k, replay.entries[k])
  BY <1>1, AllReadFacts
<1>3. replay.entries \in [Keys -> Recs] /\ GoodFile(file) /\ now \in Nat /\ now <= now
  BY TypeFacts
<1>4. \A k \in Keys : /\ replay.entries[k] = NoRec <=> mem'[k] = NoRec
                      /\ mem'[k].hash = replay.entries[k].hash
                      /\ mem'[k].expires = replay.entries[k].expires
                      /\ mem'[k].status # "Running"
  BY <1>1, <1>3, EntryFacts
<1>5. SurvivesNext
  BY <1>1, ReplayFound DEF SurvivesNext
<1>6. RunningIsMine'
  BY <1>4 DEF RunningIsMine
<1>7. CASE replay.compact
  <2>1. Compacted(mem', file') /\ adrift' = {}
    BY <1>7 DEF OpenOk, CompactOk
  <2>2. \A k \in Keys : mem'[k] # NoRec => mem'[k].expires >= now
    BY <1>2, <1>4 DEF EntryTrue
  <2>3. FileInv'
    BY <1>1, <1>5, <2>1, <2>2, CompactKeeps
  <2> QED
    BY <1>1, <1>5, <1>6, <2>3, UpHolds
<1>8. CASE ~replay.compact
  <2>1. file' = file /\ adrift' = {}
    BY <1>1, <1>8, AllReadFacts DEF OpenOk, FileInv, AdriftInv
  <2>2. AckKept' /\ NoOrphan' /\ AdriftInv'
    <3>1. adrift = {}
      BY <1>1, AllReadFacts DEF FileInv, AdriftInv
    <3> QED
      BY <1>1, <2>1, <3>1 DEF FileInv, AckKept, NoOrphan, Allowed, AdriftInv
  <2>3. ASSUME NEW k \in Keys, mem'[k] # NoRec
        PROVE  Tells(file', Len(file') + 1, k, now, mem'[k].hash, mem'[k].expires, Statuses)
    <3>1. replay.entries[k] # NoRec
      BY <1>4, <2>3
    <3>2. {replay.entries[k].status} \subseteq Statuses
      BY <1>3, <3>1, RecFacts
    <3>3. PICK p, h, x, A : p = Len(file') + 1 /\ h = mem'[k].hash /\ x = mem'[k].expires
                            /\ A = {replay.entries[k].status}
      OBVIOUS
    <3>4. Tells(file, p, k, now, h, x, A)
      BY <1>2, <1>4, <2>1, <3>1, <3>3 DEF EntryTrue
    <3>5. Tells(file, p, k, now, h, x, Statuses)
      BY <1>3, <3>2, <3>3, <3>4, TellsWeaker
    <3> QED
      BY <2>1, <3>3, <3>5
  <2>4. MemKept'
    BY <1>1, <2>3 DEF MemKept, Live
  <2>5. InFile'
    BY <2>3, TellsHasInsert DEF InFile
  <2> QED
    BY <1>1, <1>5, <1>6, <2>2, <2>4, <2>5, UpHolds DEF FileInv
<1> QED
  BY <1>7, <1>8

(* A failed compaction at the end of open leaves a file that tells the same. *)
LEMMA OpenFailsStep ==
    ASSUME TypeInv, TypeInv', FileInv, ReplayInv, RecordsHold, OpenFails
    PROVE  FileInv' /\ ReplayInv' /\ RecordsHold'
<1>1. /\ AllRead /\ state' = "down" /\ UNCHANGED <<mem, now, acked, tried, mine>>
      /\ CompactFails(Recovered(replay.entries))
  BY DEF OpenFails, historyVars
<1>2. ReplayInv' /\ RecordsHold'
  <2>1. RunningIsMine' /\ OpensAgain' /\ ReplayInv'
    BY <1>1 DEF RecordsHold, RunningIsMine, OpensAgain, ReplayInv
  <2> QED
    BY <1>1, <2>1, NotUpHolds
<1>3. CASE UNCHANGED <<file, attached, adrift>>
  <2>1. FileInv'
    BY <1>1, <1>3, AllReadFacts, FileSame
  <2> QED
    BY <1>2, <2>1
<1>4. CASE /\ Compacted(Recovered(replay.entries), file') /\ attached' = FALSE /\ adrift' = {}
  <2>1. Recovered(replay.entries) \in [Keys -> Recs]
    BY TypeFacts, EntryFacts
  <2>2. \A k \in Keys : acked[k] # NoRec /\ acked[k].expires >= now =>
          Match(Recovered(replay.entries)[k], acked[k], tried[k])
    BY <1>1, ReplayFound
  <2>3. FileInv'
    BY <1>1, <1>4, <2>1, <2>2, DetachedKeeps
  <2> QED
    BY <1>2, <2>3
<1> QED
  BY <1>1, <1>3, <1>4 DEF CompactFails, fileVars

-----------------------------------------------------------------------------
(* The end of the process, and the clock *)

(* The end of the process leaves the file. *)
LEMMA CrashStep ==
    ASSUME TypeInv, FileInv, Crash
    PROVE  FileInv' /\ ReplayInv' /\ RecordsHold'
<1>1. /\ state' = "down" /\ mem' = [k \in Keys |-> NoRec]
      /\ acked' = [k \in Keys |-> IF k \in adrift THEN NoRec ELSE acked[k]] /\ adrift' = {}
      /\ UNCHANGED <<file, attached, now, tried>>
  BY DEF Crash, fileVars
<1>2. FileInv'
  <2>1. AckKept'
    <3> SUFFICES ASSUME ~HasTorn(file), NEW k \in Keys, acked'[k] # NoRec, acked'[k].expires >= now
                 PROVE  Tells(file, Len(file) + 1, k, now, acked'[k].hash, acked'[k].expires,
                              AllowedBy(tried[k], acked'[k]))
      BY <1>1 DEF AckKept, Allowed
    <3>1. k \notin adrift /\ acked'[k] = acked[k]
      BY <1>1
    <3> QED
      BY <3>1 DEF FileInv, AckKept, Allowed
  <2>2. MemKept' /\ InFile' /\ AdriftInv'
    BY <1>1 DEF MemKept, InFile, AdriftInv
  <2>3. NoOrphan'
    BY <1>1 DEF FileInv, NoOrphan
  <2> QED
    BY <2>1, <2>2, <2>3 DEF FileInv
<1>3. RunningIsMine' /\ OpensAgain' /\ ReplayInv'
  BY <1>1, NoReplayFacts DEF RunningIsMine, OpensAgain, ReplayInv
<1> QED
  BY <1>1, <1>2, <1>3, NotUpHolds

(* Time only expires records. *)
LEMMA TickStep ==
    ASSUME TypeInv, TypeInv', FileInv, RecordsHold, Tick
    PROVE  FileInv' /\ ReplayInv' /\ RecordsHold'
<1>1. /\ state # "opening" /\ now' = now + 1
      /\ UNCHANGED <<file, attached, mem, state, acked, tried, mine, adrift>>
  BY DEF Tick, fileVars, historyVars
<1>2. now \in Nat /\ now' \in Nat /\ now <= now' /\ GoodFile(file)
      /\ acked \in [Keys -> Recs] /\ mem \in [Keys -> Recs]
  BY <1>1, TypeFacts
<1>3. \A r \in Recs : r.expires >= now' => r.expires >= now
  BY <1>1, <1>2, RecFacts
<1>4. ASSUME NEW k, NEW h, NEW x, NEW A, Tells(file, Len(file) + 1, k, now, h, x, A)
      PROVE  Tells(file, Len(file) + 1, k, now', h, x, A)
  <2>1. PICK p, t, u : p = Len(file) + 1 /\ t = now /\ u = now'
    OBVIOUS
  <2>2. Tells(file, p, k, t, h, x, A) /\ t \in Nat /\ u \in Nat /\ t <= u /\ A \subseteq A
    BY <1>2, <1>4, <2>1
  <2>3. Tells(file, p, k, u, h, x, A)
    BY <1>2, <2>2, TellsWeaker
  <2> QED
    BY <2>1, <2>3
<1>5. AckKept'
  BY <1>1, <1>2, <1>3, <1>4 DEF FileInv, AckKept, Allowed
<1>6. MemKept'
  BY <1>1, <1>2, <1>3, <1>4 DEF FileInv, MemKept, Live
<1>7. InFile' /\ NoOrphan' /\ AdriftInv'
  BY <1>1 DEF FileInv, InFile, NoOrphan, AdriftInv
<1>8. AckedSurvive'
  BY <1>1, <1>2, <1>3 DEF RecordsHold, AckedSurvive
<1>9. ReplayInv' /\ RunningIsMine' /\ OpensAgain'
  BY <1>1 DEF RecordsHold, RunningIsMine, OpensAgain, ReplayInv
<1> QED
  BY <1>5, <1>6, <1>7, <1>8, <1>9 DEF FileInv, RecordsHold

-----------------------------------------------------------------------------
(* The theorems *)

(* The journal starts empty. *)
LEMMA Start == Init => IInv
<1> SUFFICES ASSUME Init PROVE IInv
  OBVIOUS
<1>1. /\ file = <<>> /\ attached = TRUE /\ state = "up" /\ replay = NoReplay /\ now = 0
      /\ mem = [k \in Keys |-> NoRec] /\ acked = [k \in Keys |-> NoRec]
      /\ tried = [k \in Keys |-> {}] /\ mine = {} /\ adrift = {} /\ faults = 0 /\ reopenFaults = 0
  BY DEF Init
<1>2. file \in Seq(LineSet) /\ Len(file) = 0 /\ DOMAIN file = {}
  BY <1>1, EmptySeq
<1>3. \A i \in 1 .. Len(file) : FALSE
  BY <1>2
<1>4. GoodFile(file) /\ ~HasTorn(file)
  BY <1>2, <1>3 DEF GoodFile, HasTorn
<1>5. mem \in [Keys -> Recs] /\ acked \in [Keys -> Recs]
      /\ \A k \in Keys : mem[k] = NoRec /\ acked[k] = NoRec
  BY <1>1, NoReplayFacts
<1>6. TypeOK
  <2>1. \A k \in Keys : acked[k].expires <= MaxTime + Retention
    BY <1>5, NoReplayFacts, JournalAssumption
  <2>2. attached \in BOOLEAN
    BY <1>1, Zenon
  <2>3. now \in 0 .. MaxTime /\ tried \in [Keys -> SUBSET Results] /\ mine \subseteq Keys
        /\ adrift \subseteq Keys /\ state \in {"up", "down", "opening", "corrupt"}
    BY <1>1, JournalAssumption
  <2> QED
    BY <1>2, <1>5, <2>1, <2>2, <2>3 DEF TypeOK
<1>7. TypeInv
  <2>1. replay.next \in Nat \ {0} /\ replay.entries \in [Keys -> Recs] /\ replay.expired \subseteq Keys
        /\ faults \in Nat /\ reopenFaults \in Nat
    BY <1>1, NoReplayFacts
  <2> QED
    BY <1>4, <1>6, <2>1 DEF TypeInv
<1>8. FileInv
  BY <1>1, <1>3, <1>5 DEF FileInv, AckKept, MemKept, InFile, NoOrphan, NoOrphanIn, AdriftInv, Live
<1>9. ReplayInv /\ RecordsHold
  BY <1>1, <1>5, NoReplayFacts DEF ReplayInv, RecordsHold, AckedSurvive, RunningIsMine, OpensAgain
<1> QED
  BY <1>7, <1>8, <1>9 DEF IInv

(* Every step keeps the invariant. *)
LEMMA Inductive == IInv /\ [Next]_vars => IInv'
<1> SUFFICES ASSUME IInv, [Next]_vars PROVE IInv'
  OBVIOUS
<1>1. TypeInv /\ FileInv /\ ReplayInv /\ RecordsHold
  BY DEF IInv
<1>2. TypeInv'
  BY <1>1, TypeStep
<1>3. FileInv' /\ ReplayInv' /\ RecordsHold'
  <2>1. ASSUME NEW k \in Keys, NEW h \in Hashes, TryInsert(k, h) \/ TryInsertFails(k, h)
        PROVE  FileInv' /\ ReplayInv' /\ RecordsHold'
    BY <1>1, <1>2, <2>1, TryInsertStep, TryInsertFailsStep
  <2>2. ASSUME NEW k \in Keys, NEW r \in Results, Settle(k, r) \/ SettleFails(k, r)
        PROVE  FileInv' /\ ReplayInv' /\ RecordsHold'
    BY <1>1, <1>2, <2>2, SettleStep, SettleFailsStep
  <2>3. CASE PurgeExpired
    BY <1>1, <1>2, <2>3, PurgeStep
  <2>4. CASE OpenStart
    BY <1>1, <2>4, OpenStartStep
  <2>5. CASE Replay
    BY <1>1, <2>5, ReplayReadStep, CorruptStep DEF Replay
  <2>6. CASE OpenOk
    BY <1>1, <1>2, <2>6, OpenOkStep
  <2>7. CASE OpenFails
    BY <1>1, <1>2, <2>7, OpenFailsStep
  <2>8. CASE Crash
    BY <1>1, <2>8, CrashStep
  <2>9. CASE Tick
    BY <1>1, <1>2, <2>9, TickStep
  <2>10. CASE UNCHANGED vars
    <3>1. UNCHANGED <<file, attached, mem, state, replay, now, acked, tried, mine, adrift>>
      BY <2>10 DEF vars
    <3>2. FileInv'
      BY <1>1, <3>1, FileSame
    <3>3. ReplayInv'
      BY <1>1, <3>1 DEF ReplayInv, EntriesTrue, ExpiredTrue
    <3>4. RecordsHold'
      BY <1>1, <3>1 DEF RecordsHold, AckedSurvive, RunningIsMine, OpensAgain
    <3> QED
      BY <3>2, <3>3, <3>4
  <2> QED
    BY <2>1, <2>2, <2>3, <2>4, <2>5, <2>6, <2>7, <2>8, <2>9, <2>10 DEF Next
<1> QED
  BY <1>1, <1>2, <1>3 DEF IInv

(* The variables of FileJournal keep their types, and every line of the     *)
(* file is one that write_record or compact wrote, whole or torn.           *)
THEOREM JournalTypes == Spec => []TypeOK
<1>1. IInv => TypeOK
  BY DEF IInv, TypeInv
<1> QED
  BY Start, Inductive, <1>1, PTL DEF Spec

(* FileJournal::open gives back every confirmed record that has not         *)
(* expired, none that looks as if it still ran, and refuses a file only for *)
(* a torn line or a record settled twice: for any number of keys, lines,    *)
(* failed writes, failed compactions, crashes and restarts.                 *)
THEOREM JournalKeepsRecords == Spec => []RecordsHold
<1>1. IInv => RecordsHold
  BY DEF IInv
<1> QED
  BY Start, Inductive, <1>1, PTL DEF Spec
=============================================================================
